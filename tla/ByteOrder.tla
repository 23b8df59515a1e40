------------------------------ MODULE ByteOrder ------------------------------
(* util/ByteOrder.h: copies of byte arrays in a given order; and what memcpy   *)
(* makes of them.  HostOrder is little endian for every build.                 *)
EXTENDS SequencesExt, Integers

CONSTANT ByteValues     \* how many values a byte has: 256

ASSUME ByteAssumption == ByteValues \in Nat \ {0, 1}

HostOrder    == "LittleEndian"
NetworkOrder == "BigEndian"
Orders       == {HostOrder, NetworkOrder}

(* Mutant: the bytes are copied in the order they have. *)
CopyAsIs(bytes, from, to) == bytes

(* copy(bytes).from(from).to(to); every caller says from(), without which to() *)
(* throws.                                                                     *)
Copy(bytes, from, to) == IF from = to THEN bytes ELSE Reverse(bytes)

(* How many numbers there are of k bytes, at most those of a std::uint64_t *)
Numbers[k \in 0 .. 8] == IF k = 0 THEN 1 ELSE ByteValues * Numbers[k - 1]

(* The integer that memcpy makes of bytes *)
NumberOf(bytes) ==
    LET number[k \in 0 .. Len(bytes)] ==
            IF k = 0 THEN 0 ELSE number[k - 1] + bytes[k] * Numbers[k - 1]
    IN number[Len(bytes)]

(* The bytes that memcpy copies from an integer, the first `size` of them *)
BytesOf(n, size) == [i \in 1 .. size |-> (n \div Numbers[i - 1]) % ByteValues]
=============================================================================
