----------------------------- MODULE IPv4Address -----------------------------
(* net/IPv4Address: four bytes "in network order", which in this code means    *)
(* the least significant one first.  A text is taken as the numbers between    *)
(* its dots.                                                                   *)
EXTENDS ByteOrder

Size    == 4
Byte    == 0 .. ByteValues - 1
Address == [1 .. Size -> Byte]
Invalid == << >>        \* Error(ErrorType::InvalidArgument)

(* parse(bytes, byteOrder), of an array, an initializer_list or a span *)
ParseBytes(bytes, order) ==
    IF Len(bytes) # Size THEN Invalid ELSE Copy(bytes, order, NetworkOrder)

(* parse("192.168.13.5"): make_address_v4 refuses what is not four bytes. *)
ParseText(parts) ==
    IF Len(parts) # Size \/ \E i \in DOMAIN parts : parts[i] \notin Byte
    THEN Invalid ELSE Copy(parts, HostOrder, NetworkOrder)

(* parse(number), of an unsigned integer of Size bytes *)
ParseNumber(n) == BytesOf(n, Size)

(* pcpp's address, whose bytes are in the order of the text *)
FromPcpp(bytes) == Copy(bytes, HostOrder, NetworkOrder)

ToBytes(a, order) == Copy(a, NetworkOrder, order)
ToText(a)         == Reverse(a)

(* An integer of Size bytes *)
ToInt(a) == NumberOf(a)

Zero      == ParseNumber(0)
Broadcast == ParseBytes([i \in 1 .. Size |-> ByteValues - 1], HostOrder)
Loopback  == ParseBytes(<<ByteValues \div 2 - 1, 0, 0, 1>>, HostOrder)    \* 127.0.0.1

IsZero(a)      == a = Zero
IsBroadcast(a) == a = Broadcast
IsLoopback(a)  == a = Loopback

Less(a, b) == ToInt(a) < ToInt(b)

IsBetween(a, begin, end) ==
    IF Less(end, begin) THEN Less(end, a) /\ Less(a, begin)
                        ELSE Less(begin, a) /\ Less(a, end)

(* operator++, on an integer that wraps *)
Increment(a) == ParseNumber((ToInt(a) + 1) % Numbers[Size])
=============================================================================
