------------------------------- MODULE Sequence -------------------------------
(* util/Sequence.h: loops over a range of values of a type that has ++ and ==, *)
(* such as DeviceDiscoveryService's over the addresses to discover; with the   *)
(* types of the repository that have both.                                     *)
EXTENDS ByteOrder

CONSTANTS
    TypeMin, TypeMax,   \* of the type that a WrapAround is made from
    MinValue, MaxValue, \* its limits
    Bounds(_)           \* bound: the values of a type that ranges are made from

IP      == INSTANCE IPv4Address
Mac     == INSTANCE MacAddress
Part    == INSTANCE WrapAround
Whole   == INSTANCE WrapAround WITH MinValue <- TypeMin, MaxValue <- TypeMax
Types   == {"ip", "mac", "part", "whole"}

Values(t) ==
    CASE t = "ip"    -> IP!Address
      [] t = "mac"   -> Mac!Address
      [] t = "part"  -> MinValue .. MaxValue
      [] t = "whole" -> TypeMin .. TypeMax

(* The limits are values of the type, in order; and so is every bound. *)
ASSUME LimitsAssumption ==
    /\ TypeMin \in Int /\ TypeMax \in Int
    /\ MinValue \in TypeMin .. TypeMax /\ MaxValue \in MinValue .. TypeMax
ASSUME BoundsAssumption == \A t \in Types : Bounds(t) \subseteq Values(t)

VARIABLES
    type,       \* T
    from, to,   \* what rangeOf was called with
    form,       \* how each of them was wrapped
    last,       \* Sequence::last
    value,      \* Iterator::value, at first Sequence::first
    visited     \* the values the loop's body was run with

vars == <<type, from, to, form, last, value, visited>>

(* How a bound may be passed: as itself, Inclusive or Exclusive.  A template   *)
(* of rangeOf exists for every two of these.                                   *)
Forms == {"plain", "inclusive", "exclusive"}

(* T's operator++, the same whatever toInt() of a MAC address finds *)
Increment(v) ==
    CASE type = "ip"    -> {IP!Increment(v)}
      [] type = "mac"   -> {Mac!Increment(v, g) : g \in Mac!Garbage}
      [] type = "part"  -> {Part!Increment(v)}
      [] type = "whole" -> {Whole!Increment(v)}

(* Mutant: an inclusive end is left as it is. *)
PassedOpen(bounds) == <<bounds[1] = "exclusive", FALSE>>

(* Which bounds rangeOf increments: of two wrapped ones an exclusive begin and *)
(* an inclusive end, but a single wrapped one however it is wrapped.           *)
Passed(bounds) ==
    IF "plain" \in {bounds[1], bounds[2]}
    THEN <<bounds[1] # "plain", bounds[2] # "plain">>
    ELSE <<bounds[1] = "exclusive", bounds[2] = "inclusive">>

(* rangeOf(begin, end) *)
RangeOf(begin, end, bounds) ==
    /\ value \in IF Passed(bounds)[1] THEN Increment(begin) ELSE {begin}
    /\ last  \in IF Passed(bounds)[2] THEN Increment(end) ELSE {end}

Init ==
    /\ type \in Types
    /\ from \in Bounds(type) /\ to \in Bounds(type)
    /\ form \in Forms \X Forms
    /\ RangeOf(from, to, form)
    /\ visited = << >>

(* The loop's body: the service, whose form is <<"plain", "inclusive">>, has    *)
(* each of its tasks discover the address.                                     *)
Body == visited' = Append(visited, value)

(* One round of the loop, unless begin() == end() *)
Step ==
    /\ value # last
    /\ Body
    /\ value' \in Increment(value)
    /\ UNCHANGED <<type, from, to, form, last>>

Spec == Init /\ [][Step]_vars
-----------------------------------------------------------------------------
(* Properties *)

(* Where a value is in the order of its type, an address by its text *)
TextNumber(parts) ==
    LET number[k \in 0 .. Len(parts)] ==
            IF k = 0 THEN 0 ELSE number[k - 1] * ByteValues + parts[k]
    IN number[Len(parts)]
Position(v) ==
    CASE type = "ip"    -> TextNumber(IP!ToText(v))
      [] type = "mac"   -> TextNumber(Mac!ToText(v))
      [] type = "part"  -> v - MinValue
      [] type = "whole" -> v - TypeMin
Count ==
    CASE type = "ip"    -> Numbers[IP!Size]
      [] type = "mac"   -> Numbers[Mac!Size]
      [] type = "part"  -> MaxValue - MinValue + 1
      [] type = "whole" -> TypeMax - TypeMin + 1

(* A loop runs once for each value that the names of its bounds ask for, in    *)
(* order, over the end of the type if the end comes first, and stops there.    *)
(* Not so for a single Inclusive begin or Exclusive end: rangeOf increments    *)
(* those, too.  A range that asks for every value there is asks for none.  No  *)
(* loop goes on for ever, although it tests for equality only.                 *)
Misread == {<<"inclusive", "plain">>, <<"plain", "exclusive">>}
RangeIsExact ==
    LET start == Position(from) + IF form[1] = "exclusive" THEN 1 ELSE 0
        stop  == Position(to)   + IF form[2] = "inclusive" THEN 1 ELSE 0
        size  == (stop - start) % Count
    IN form \notin Misread =>
        /\ Len(visited) <= size
        /\ \A i \in DOMAIN visited : Position(visited[i]) = (start + i - 1) % Count
        /\ value = last => Len(visited) = size

(* Less and IsBetween of the type, from the reads of one stack *)
Ordered(v, w, Less(_, _)) == Less(v, w) <=> Position(v) < Position(w)
Between(v, IsBetween(_, _, _)) ==
    /\ IsBetween(v, from, to) <=> IsBetween(v, to, from)
    /\ Position(from) < Position(v) /\ Position(v) < Position(to) => IsBetween(v, from, to)
    /\ IsBetween(v, from, to) => v \notin {from, to}

(* Every conversion of a value is undone by its inverse, in both byte orders;  *)
(* values are ordered as their texts are; and what isBetween says of a value   *)
(* of the loop agrees with the loop.  Of a MAC address that holds whatever     *)
(* toInt() finds in the bytes that it does not set, if it finds it each time.  *)
ValuesAgree ==
    /\ type = "ip" =>
        /\ \A o \in Orders : IP!ParseBytes(IP!ToBytes(value, o), o) = value
        /\ IP!ParseText(IP!ToText(value)) = value /\ IP!FromPcpp(IP!ToText(value)) = value
        /\ IP!ParseNumber(IP!ToInt(value)) = value
        /\ Ordered(value, from, IP!Less) /\ Between(value, IP!IsBetween)
        /\ IP!IsZero(value) <=> Position(value) = 0
        /\ IP!IsBroadcast(value) <=> Position(value) = Count - 1
        /\ IP!IsLoopback(value) <=> IP!ToText(value) = <<ByteValues \div 2 - 1, 0, 0, 1>>
    /\ type = "mac" => \A g \in Mac!Garbage :
        /\ \A o \in Orders : Mac!ParseBytes(Mac!ToBytes(value, o), o) = value
        /\ Mac!ParseText(Mac!ToText(value)) = value /\ Mac!FromPcpp(Mac!ToText(value)) = value
        /\ Mac!ParseNumber(Mac!ToInt(value, g)) = value
        /\ Ordered(value, from, LAMBDA v, w : Mac!Less(v, w, g, g))
        /\ Between(value, LAMBDA v, b, e : Mac!IsBetween(v, b, e, g))
        /\ Mac!IsBroadcast(value, from) <=> Position(value) = Count - 1
    /\ type = "part" =>
        /\ Part!Decrement(Part!Increment(value)) = value /\ Part!Construct(value) = value
        /\ Ordered(value, Part!Default, Part!Less)
=============================================================================
