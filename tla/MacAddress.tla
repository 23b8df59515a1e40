------------------------------ MODULE MacAddress ------------------------------
(* net/MacAddress: six bytes, stored as those of IPv4Address are, and read as  *)
(* a 64-bit integer of which memcpy sets six bytes only.                       *)
EXTENDS ByteOrder

Size    == 6
IntSize == 8            \* bytes of std::uint64_t
Byte    == 0 .. ByteValues - 1
Address == [1 .. Size -> Byte]
Invalid == << >>        \* Error(ErrorType::InvalidArgument)

(* What the two bytes of `addr` that toInt() leaves uninitialised may hold *)
Garbage == 0 .. Numbers[IntSize - Size] - 1

ParseBytes(bytes, order) ==
    IF Len(bytes) # Size THEN Invalid ELSE Copy(bytes, order, NetworkOrder)

(* parse("14:D7:D8:C8:A7:77"): six numbers and nothing after them, of each of  *)
(* which sscanf's %hhx keeps the last byte.                                    *)
ParseText(parts) ==
    IF Len(parts) # Size THEN Invalid
    ELSE Copy([i \in DOMAIN parts |-> parts[i] % ByteValues], HostOrder, NetworkOrder)

(* parse(number): what is beyond six bytes is dropped. *)
ParseNumber(n) == BytesOf(n, Size)

(* pcpp's address, whose bytes are in the order of the text *)
FromPcpp(bytes) == Copy(bytes, HostOrder, NetworkOrder)

ToBytes(a, order) == Copy(a, NetworkOrder, order)
ToText(a)         == Reverse(a)

(* toInt(), with `garbage` in the bytes that are not set *)
ToInt(a, garbage) == NumberOf(a) + garbage * Numbers[Size]

Zero      == ParseText([i \in 1 .. Size |-> 0])
Broadcast == ParseText([i \in 1 .. Size |-> ByteValues - 1])

(* isBroadcast(mac), which does not look at its argument *)
IsBroadcast(a, mac) == a = Broadcast

(* operator<, whose two calls of toInt() find `g` and `h` *)
Less(a, b, g, h) == ToInt(a, g) < ToInt(b, h)

(* isBetween, whose every read finds the same garbage *)
IsBetween(a, begin, end, g) ==
    IF Less(end, begin, g, g) THEN Less(end, a, g, g) /\ Less(a, begin, g, g)
                              ELSE Less(begin, a, g, g) /\ Less(a, end, g, g)

(* operator++ *)
Increment(a, garbage) == ParseNumber((ToInt(a, garbage) + 1) % Numbers[IntSize])
=============================================================================
