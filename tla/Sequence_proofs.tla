--------------------------- MODULE Sequence_proofs ---------------------------
(* Proofs about Sequence and the values that it ranges over, for bytes of any  *)
(* number of values, any integer type and limits, and any bounds.              *)
EXTENDS Sequence, TLAPS

B == ByteValues
-----------------------------------------------------------------------------
(* Division, of which the provers know little when the divisor is not a number *)

LEMMA Quotient ==
    ASSUME NEW d \in Nat \ {0}, NEW n \in Int
    PROVE  n = (n \div d) * d + (n % d) /\ n \div d \in Int /\ n % d \in 0 .. d - 1
           /\ (n \in Nat => n \div d \in Nat)
BY SMT

(* Quotient and remainder are unique. *)
LEMMA Unique ==
    ASSUME NEW d \in Nat \ {0}, NEW p \in Int, NEW q \in Int,
           NEW r \in 0 .. d - 1, NEW s \in 0 .. d - 1, p * d + r = q * d + s
    PROVE  p = q /\ r = s
<1>1. ~ p < q
  BY SMT
<1>2. ~ q < p
  BY SMT
<1> QED
  BY <1>1, <1>2

LEMMA Remainder ==
    ASSUME NEW d \in Nat \ {0}, NEW q \in Int, NEW r \in 0 .. d - 1
    PROVE  (q * d + r) \div d = q /\ (q * d + r) % d = r
<1> DEFINE n == q * d + r
<1>1. n \in Int /\ r \in Int
  OBVIOUS
<1>2. n = (n \div d) * d + (n % d) /\ n \div d \in Int /\ n % d \in 0 .. d - 1
  BY <1>1, Quotient
<1>3. n \div d = q /\ n % d = r
  BY <1>1, <1>2, Unique
<1> QED
  BY <1>3

(* A remainder is that of every number that many times d away. *)
LEMMA Congruent ==
    ASSUME NEW d \in Nat \ {0}, NEW n \in Int, NEW k \in Int
    PROVE  (n + k * d) % d = n % d
<1>1. n = (n \div d) * d + (n % d) /\ n \div d \in Int /\ n % d \in 0 .. d - 1
  BY Quotient
<1>2. n + k * d = (n \div d + k) * d + (n % d) /\ n \div d + k \in Int
  BY <1>1
<1>3. ((n \div d + k) * d + (n % d)) % d = n % d
  BY <1>1, <1>2, Remainder
<1> QED
  BY <1>2, <1>3

LEMMA RemainderOfSmall ==
    ASSUME NEW d \in Nat \ {0}, NEW n \in 0 .. d - 1
    PROVE  n % d = n
<1>1. 0 * d + n = n
  OBVIOUS
<1> QED
  BY <1>1, Remainder

LEMMA RemainderOfSum ==
    ASSUME NEW d \in Nat \ {0}, NEW n \in Int, NEW m \in Int
    PROVE  ((n % d) + m) % d = (n + m) % d
<1>1. n = (n \div d) * d + (n % d) /\ n \div d \in Int /\ n % d \in 0 .. d - 1
  BY Quotient
<1>2. n + m = ((n % d) + m) + (n \div d) * d
  BY <1>1
<1>3. (n % d) + m \in Int
  BY <1>1
<1> QED
  BY <1>1, <1>2, <1>3, Congruent

(* A number is reached within d steps from another by one number of steps. *)
LEMMA StepsBetween ==
    ASSUME NEW d \in Nat \ {0}, NEW a \in Int, NEW b \in Int, NEW n \in 0 .. d - 1
    PROVE  (a + n) % d = b % d <=> n = (b - a) % d
<1> DEFINE diff == b - a
           size == diff % d
<1>1. diff \in Int /\ diff = (diff \div d) * d + size /\ diff \div d \in Int /\ size \in 0 .. d - 1
  <2>1. diff \in Int
    OBVIOUS
  <2> HIDE DEF diff
  <2> QED
    BY <2>1, Quotient
<1>2. b = (a + size) + (diff \div d) * d /\ a + size \in Int
  BY <1>1
<1>3. b % d = (a + size) % d
  BY <1>1, <1>2, Congruent
<1>4. ASSUME (a + n) % d = b % d
      PROVE  n = size
  <2> DEFINE x == a + n
             y == a + size
  <2>1. /\ x \in Int /\ x = (x \div d) * d + (x % d) /\ x \div d \in Int
        /\ y \in Int /\ y = (y \div d) * d + (y % d) /\ y \div d \in Int
    BY <1>2, Quotient
  <2>2. x % d = y % d
    BY <1>3, <1>4
  <2> DEFINE p == x \div d
             q == y \div d
  <2>3. n - size = p * d - q * d
    BY <2>1, <2>2, <1>1
  <2>4. p \in Int /\ q \in Int
    BY <2>1
  <2> HIDE DEF x, y, p, q, size
  <2>5. p * d + size = q * d + n
    BY <2>3, <2>4, <1>1
  <2> QED
    BY <2>4, <2>5, <1>1, Unique
<1> HIDE DEF size
<1> QED
  BY <1>3, <1>4 DEF size
-----------------------------------------------------------------------------
(* Byte arrays and the integers that memcpy makes of them *)

(* Numbers is the function that its definition says: there is one. *)
LEMMA NumbersUnfolds ==
    /\ Numbers[0] = 1
    /\ \A k \in 1 .. 8 : Numbers[k] = B * Numbers[k - 1]
<1> DEFINE Good(f) == f = [k \in 0 .. 8 |-> IF k = 0 THEN 1 ELSE ByteValues * f[k - 1]]
           p2 == B * B
           p3 == B * p2
           p4 == B * p3
           p5 == B * p4
           p6 == B * p5
           p7 == B * p6
           p8 == B * p7
           g  == [k \in 0 .. 8 |->
                    CASE k = 0 -> 1 [] k = 1 -> B [] k = 2 -> p2 [] k = 3 -> p3 [] k = 4 -> p4
                      [] k = 5 -> p5 [] k = 6 -> p6 [] k = 7 -> p7 [] k = 8 -> p8]
<1>1. Good(g)
  <2>1. \A k \in 0 .. 8 : g[k] = IF k = 0 THEN 1 ELSE ByteValues * g[k - 1]
    <3>1. g[0] = 1 /\ g[1] = B /\ g[2] = p2 /\ g[3] = p3 /\ g[4] = p4
          /\ g[5] = p5 /\ g[6] = p6 /\ g[7] = p7 /\ g[8] = p8
      OBVIOUS
    <3>2. B * 1 = B
      BY ByteAssumption DEF B
    <3> HIDE DEF g
    <3> QED
      BY <3>1, <3>2 DEF B
  <2>2. g = [k \in 0 .. 8 |-> g[k]]
    OBVIOUS
  <2> HIDE DEF g
  <2> QED
    BY <2>1, <2>2
<1>2. Numbers = CHOOSE f : Good(f)
  BY DEF Numbers
<1> HIDE DEF Good, g
<1>3. Good(Numbers)
  BY <1>1, <1>2
<1>4. Numbers = [k \in 0 .. 8 |-> IF k = 0 THEN 1 ELSE ByteValues * Numbers[k - 1]]
  BY <1>3 DEF Good
<1>5. \A k \in 0 .. 8 : Numbers[k] = IF k = 0 THEN 1 ELSE ByteValues * Numbers[k - 1]
  BY <1>4
<1> QED
  BY <1>5 DEF B

LEMMA NumbersType == \A k \in 0 .. 8 : Numbers[k] \in Nat \ {0}
<1>1. B \in Nat \ {0} /\ \A n \in Nat \ {0} : B * n \in Nat \ {0}
  BY ByteAssumption DEF B
<1>2. /\ Numbers[0] \in Nat \ {0}
      /\ \A k \in 1 .. 8 : Numbers[k - 1] \in Nat \ {0} => Numbers[k] \in Nat \ {0}
  <2>1. Numbers[0] = 1 /\ \A k \in 1 .. 8 : Numbers[k] = B * Numbers[k - 1]
    BY NumbersUnfolds
  <2>2. 1 \in Nat \ {0}
    OBVIOUS
  <2> QED
    BY <1>1, <2>1, <2>2, Zenon
<1>3. Numbers[1] \in Nat \ {0}
  BY <1>2
<1>4. Numbers[2] \in Nat \ {0}
  BY <1>2, <1>3
<1>5. Numbers[3] \in Nat \ {0}
  BY <1>2, <1>4
<1>6. Numbers[4] \in Nat \ {0}
  BY <1>2, <1>5
<1>7. Numbers[5] \in Nat \ {0}
  BY <1>2, <1>6
<1>8. Numbers[6] \in Nat \ {0}
  BY <1>2, <1>7
<1>9. Numbers[7] \in Nat \ {0}
  BY <1>2, <1>8
<1> QED
  BY <1>2, <1>3, <1>4, <1>5, <1>6, <1>7, <1>8, <1>9

(* f holds the numbers that the first bytes of `bytes` make. *)
Makes(f, bytes) ==
    /\ f[0] = 0
    /\ \A k \in 1 .. Len(bytes) : f[k] = f[k - 1] + bytes[k] * Numbers[k - 1]

LEMMA NumberOfUnfolds ==
    ASSUME NEW bytes, Len(bytes) \in 0 .. 6
    PROVE  \E f : Makes(f, bytes) /\ NumberOf(bytes) = f[Len(bytes)]
<1> DEFINE n == Len(bytes)
           Good(f) == f = [k \in 0 .. Len(bytes) |->
                              IF k = 0 THEN 0 ELSE f[k - 1] + bytes[k] * Numbers[k - 1]]
           p1 == 0  + bytes[1] * Numbers[0]
           p2 == p1 + bytes[2] * Numbers[1]
           p3 == p2 + bytes[3] * Numbers[2]
           p4 == p3 + bytes[4] * Numbers[3]
           p5 == p4 + bytes[5] * Numbers[4]
           p6 == p5 + bytes[6] * Numbers[5]
           h  == [k \in 0 .. 6 |->
                    CASE k = 0 -> 0 [] k = 1 -> p1 [] k = 2 -> p2 [] k = 3 -> p3
                      [] k = 4 -> p4 [] k = 5 -> p5 [] k = 6 -> p6]
           g  == [k \in 0 .. n |-> h[k]]
           f  == CHOOSE x : Good(x)
<1>1. \A k \in 0 .. 6 : h[k] = IF k = 0 THEN 0 ELSE h[k - 1] + bytes[k] * Numbers[k - 1]
  <2>1. h[0] = 0 /\ h[1] = p1 /\ h[2] = p2 /\ h[3] = p3 /\ h[4] = p4 /\ h[5] = p5 /\ h[6] = p6
    OBVIOUS
  <2> HIDE DEF h
  <2> QED
    BY <2>1
<1> HIDE DEF h
<1>2. Good(g)
  <2>1. \A k \in 0 .. n : g[k] = IF k = 0 THEN 0 ELSE g[k - 1] + bytes[k] * Numbers[k - 1]
    <3>1. n \in 0 .. 6
      OBVIOUS
    <3> HIDE DEF n
    <3>2. \A k \in 0 .. n : k \in 0 .. 6 /\ g[k] = h[k] /\ (k # 0 => g[k - 1] = h[k - 1])
      BY <3>1
    <3> QED
      BY <1>1, <3>2
  <2>2. g = [k \in 0 .. n |-> g[k]]
    OBVIOUS
  <2> HIDE DEF g
  <2> QED
    BY <2>1, <2>2
<1>3. NumberOf(bytes) = f[n]
  BY DEF NumberOf
<1> HIDE DEF Good, g
<1>4. Good(f)
  BY <1>2
<1> HIDE DEF f
<1>5. \A k \in 0 .. n : f[k] = IF k = 0 THEN 0 ELSE f[k - 1] + bytes[k] * Numbers[k - 1]
  BY <1>4 DEF Good
<1>6. Makes(f, bytes)
  BY <1>5 DEF Makes
<1> QED
  BY <1>3, <1>6
-----------------------------------------------------------------------------
(* Arrays of `size` bytes, of which no type here has more than six *)
Sizes   == 0 .. 6
Byte    == 0 .. B - 1
Arrays(size) == [1 .. size -> Byte]

LEMMA NumbersOfBytes ==
    /\ B \in Nat \ {0}
    /\ Numbers[0] = 1
    /\ \A k \in 0 .. 6 : Numbers[k] \in Nat \ {0} /\ Numbers[k + 1] = B * Numbers[k]
<1>1. \A k \in 0 .. 6 : k \in 0 .. 8 /\ k + 1 \in 1 .. 8 /\ (k + 1) - 1 = k
  OBVIOUS
<1> QED
  BY <1>1, NumbersUnfolds, NumbersType, ByteAssumption DEF B

(* A set that holds 0, and with a number the next, up to 6 *)
LEMMA Chain ==
    ASSUME NEW S, 0 \in S, \A k \in 0 .. 5 : k \in S => k + 1 \in S
    PROVE  \A k \in Sizes : k \in S
BY DEF Sizes

LEMMA LengthOfArray ==
    ASSUME NEW size \in Sizes, NEW a \in Arrays(size)
    PROVE  Len(a) = size /\ DOMAIN a = 1 .. size /\ \A k \in 1 .. size : a[k] \in Byte
<1>1. size \in Nat /\ a \in [1 .. size -> Byte]
  BY DEF Sizes, Arrays
<1>2. a \in Seq(Byte)
  BY <1>1
<1> QED
  BY <1>1, <1>2

(* The first k bytes make a number that k bytes have room for. *)
LEMMA NumberFits ==
    ASSUME NEW size \in Sizes, NEW a \in Arrays(size), NEW f, Makes(f, a)
    PROVE  \A k \in 0 .. size : f[k] \in 0 .. Numbers[k] - 1
<1> DEFINE S == {k \in Sizes : k <= size => f[k] \in 0 .. Numbers[k] - 1}
<1>1. 0 \in S
  BY NumbersOfBytes DEF Makes, Sizes
<1>2. ASSUME NEW k \in 0 .. 5, k \in S, k + 1 <= size
      PROVE  f[k + 1] \in 0 .. Numbers[k + 1] - 1
  <2> DEFINE w == Numbers[k]
             x == a[k + 1]
             y == f[k]
  <2>1. k + 1 \in 1 .. size /\ (k + 1) - 1 = k /\ k <= size /\ k \in 0 .. 6
    BY <1>2 DEF Sizes
  <2>2. f[k + 1] = y + x * w
    BY <2>1, LengthOfArray DEF Makes
  <2>3. x \in 0 .. B - 1 /\ y \in 0 .. w - 1 /\ w \in Nat \ {0} /\ Numbers[k + 1] = B * w
    BY <1>2, <2>1, LengthOfArray, NumbersOfBytes DEF Byte
  <2>4. B \in Nat \ {0}
    BY NumbersOfBytes
  <2> HIDE DEF x, y, w
  <2> DEFINE xw == x * w
             bw == B * w
  <2>5. xw \in Nat /\ bw \in Nat /\ xw + w <= bw
    BY <2>3, <2>4
  <2>6. f[k + 1] = y + xw /\ Numbers[k + 1] = bw
    BY <2>2, <2>3
  <2> HIDE DEF xw, bw
  <2> QED
    BY <2>3, <2>5, <2>6
<1>3. \A k \in Sizes : k \in S
  <2>1. \A k \in 0 .. 5 : k \in S => k + 1 \in S
    BY <1>2 DEF Sizes
  <2> QED
    BY <1>1, <2>1, Chain
<1> QED
  BY <1>3 DEF Sizes

(* Arrays of one size that make the same number are the same. *)
LEMMA SameNumber ==
    ASSUME NEW size \in Sizes, NEW a \in Arrays(size), NEW b \in Arrays(size),
           NumberOf(a) = NumberOf(b)
    PROVE  a = b
<1>1. size \in 0 .. 6 /\ Len(a) = size /\ Len(b) = size
  BY LengthOfArray DEF Sizes
<1>2. PICK f : Makes(f, a) /\ NumberOf(a) = f[size]
  BY <1>1, NumberOfUnfolds
<1>3. PICK g : Makes(g, b) /\ NumberOf(b) = g[size]
  BY <1>1, NumberOfUnfolds
<1>4. ASSUME NEW k \in 1 .. size, f[k] = g[k]
      PROVE  a[k] = b[k] /\ f[k - 1] = g[k - 1]
  <2> DEFINE w == Numbers[k - 1]
             x == a[k]
             y == f[k - 1]
             u == b[k]
             v == g[k - 1]
  <2>1. k - 1 \in 0 .. 6 /\ k - 1 \in 0 .. size
    BY <1>1
  <2>2. w \in Nat \ {0} /\ y \in 0 .. w - 1 /\ v \in 0 .. w - 1
    BY <1>2, <1>3, <2>1, NumberFits, NumbersOfBytes
  <2>3. x \in Int /\ u \in Int
    BY LengthOfArray DEF Byte
  <2>4. y + x * w = v + u * w
    BY <1>1, <1>2, <1>3, <1>4 DEF Makes
  <2> HIDE DEF w, x, y, u, v
  <2>5. x * w + y = u * w + v
    BY <2>2, <2>3, <2>4
  <2>6. x = u /\ y = v
    BY <2>2, <2>3, <2>5, Unique
  <2> QED
    BY <2>6 DEF x, y, u, v
<1> DEFINE S == {k \in Sizes : k <= size => f[size - k] = g[size - k]}
<1>5. 0 \in S
  <2>1. size - 0 = size /\ 0 \in Sizes
    BY <1>1 DEF Sizes
  <2> QED
    BY <1>2, <1>3, <2>1
<1>6. ASSUME NEW k \in 0 .. 5, k \in S, k + 1 <= size
      PROVE  f[size - (k + 1)] = g[size - (k + 1)]
  <2>1. size - k \in 1 .. size /\ size - (k + 1) = (size - k) - 1 /\ f[size - k] = g[size - k]
    BY <1>1, <1>6
  <2> QED
    BY <1>4, <2>1
<1>7. \A k \in 0 .. 5 : k \in S => k + 1 \in S
  BY <1>6 DEF Sizes
<1>8. \A k \in Sizes : k \in S
  BY <1>5, <1>7, Chain
<1>9. ASSUME NEW k \in 1 .. size
      PROVE  f[k] = g[k]
  <2>1. size - k \in Sizes /\ size - k <= size /\ size - (size - k) = k
    BY <1>1 DEF Sizes
  <2> QED
    BY <1>8, <2>1
<1> QED
  BY <1>1, <1>4, <1>9 DEF Arrays

(* One more byte of a number *)
LEMMA NextByte ==
    ASSUME NEW b \in Nat \ {0}, NEW w \in Nat \ {0}, NEW n \in Nat
    PROVE  n % (b * w) = (n % w) + ((n \div w) % b) * w
<1> DEFINE q == n \div w
           r == n % w
<1>1. n = q * w + r /\ q \in Nat /\ r \in 0 .. w - 1
  <2>1. n \in Int
    OBVIOUS
  <2> QED
    BY <2>1, Quotient
<1> HIDE DEF q, r
<1> DEFINE p == q \div b
           d == q % b
<1>2. q = p * b + d /\ p \in Nat /\ d \in 0 .. b - 1
  <2>1. q \in Int
    BY <1>1
  <2> QED
    BY <1>1, <2>1, Quotient
<1> HIDE DEF p, d
<1>3. b * w \in Nat \ {0}
  OBVIOUS
<1>4. n = p * (b * w) + (r + d * w)
  <2>1. q * w = (p * b) * w + d * w
    BY <1>1, <1>2
  <2>2. (p * b) * w = p * (b * w)
    BY <1>2
  <2> QED
    BY <1>1, <1>2, <1>3, <2>1, <2>2
<1>5. r + d * w \in 0 .. b * w - 1
  <2>1. d * w + w <= b * w /\ d * w \in Nat
    BY <1>2
  <2> QED
    BY <1>1, <1>2, <1>3, <2>1
<1>6. n % (b * w) = r + d * w
  <2> DEFINE v == b * w
             s == r + d * w
  <2>1. v \in Nat \ {0} /\ p \in Int /\ n = p * v + s /\ s \in 0 .. v - 1
    BY <1>2, <1>3, <1>4, <1>5
  <2> HIDE DEF v, s
  <2>2. (p * v + s) % v = s
    BY <2>1, Remainder
  <2>3. n % v = s
    BY <2>1, <2>2
  <2> QED
    BY <2>3 DEF v, s
<1> QED
  BY <1>6 DEF q, r, p, d

LEMMA BytesOfType ==
    ASSUME NEW size \in Sizes, NEW n \in Nat
    PROVE  BytesOf(n, size) \in Arrays(size)
<1>1. ASSUME NEW i \in 1 .. size
      PROVE  (n \div Numbers[i - 1]) % ByteValues \in Byte
  <2> DEFINE w == Numbers[i - 1]
  <2>0. i - 1 \in 0 .. 6
    BY DEF Sizes
  <2>1. w \in Nat \ {0}
    BY <2>0, NumbersOfBytes
  <2> HIDE DEF w
  <2>2. n \div w \in Int
    BY <2>1, Quotient
  <2>3. (n \div w) % B \in 0 .. B - 1
    BY <2>2, NumbersOfBytes, Quotient
  <2> QED
    BY <2>3 DEF w, B, Byte
<1> QED
  BY <1>1 DEF BytesOf, Arrays

(* The bytes of a number make it again, as far as they have room. *)
LEMMA NumberOfBytes ==
    ASSUME NEW size \in Sizes, NEW n \in Nat
    PROVE  NumberOf(BytesOf(n, size)) = n % Numbers[size]
<1> DEFINE a == BytesOf(n, size)
<1>1. size \in 0 .. 6 /\ a \in Arrays(size) /\ Len(a) = size
  BY BytesOfType, LengthOfArray DEF Sizes
<1>2. \A k \in 1 .. size : a[k] = (n \div Numbers[k - 1]) % B
  BY DEF BytesOf, B
<1> HIDE DEF a
<1>3. PICK f : Makes(f, a) /\ NumberOf(a) = f[size]
  BY <1>1, NumberOfUnfolds
<1> DEFINE S == {k \in Sizes : k <= size => f[k] = n % Numbers[k]}
<1>4. 0 \in S
  <2>1. f[0] = 0 /\ Numbers[0] = 1 /\ n % 1 = 0
    BY <1>3, NumbersOfBytes DEF Makes
  <2> QED
    BY <2>1 DEF Sizes
<1>5. ASSUME NEW k \in 0 .. 5, k \in S, k + 1 <= size
      PROVE  f[k + 1] = n % Numbers[k + 1]
  <2>1. k + 1 \in 1 .. size /\ (k + 1) - 1 = k /\ k \in 0 .. 6
    BY <1>1, <1>5
  <2>2. f[k + 1] = (n % Numbers[k]) + ((n \div Numbers[k]) % B) * Numbers[k]
    BY <1>1, <1>2, <1>3, <1>5, <2>1 DEF Makes
  <2>3. Numbers[k] \in Nat \ {0} /\ Numbers[k + 1] = B * Numbers[k] /\ B \in Nat \ {0}
    BY <2>1, NumbersOfBytes
  <2> QED
    BY <2>2, <2>3, NextByte
<1>6. \A k \in 0 .. 5 : k \in S => k + 1 \in S
  BY <1>5 DEF Sizes
<1>7. \A k \in Sizes : k \in S
  BY <1>4, <1>6, Chain
<1> QED
  BY <1>1, <1>3, <1>7 DEF a

LEMMA NumberOfType ==
    ASSUME NEW size \in Sizes, NEW a \in Arrays(size)
    PROVE  NumberOf(a) \in 0 .. Numbers[size] - 1
<1>1. size \in 0 .. 6 /\ Len(a) = size
  BY LengthOfArray DEF Sizes
<1>2. PICK f : Makes(f, a) /\ NumberOf(a) = f[size]
  BY <1>1, NumberOfUnfolds
<1> QED
  BY <1>1, <1>2, NumberFits

(* An integer with the bytes of an array, and any others after them, gives     *)
(* the array back.                                                             *)
LEMMA BytesOfNumber ==
    ASSUME NEW size \in Sizes, NEW a \in Arrays(size), NEW g \in Nat
    PROVE  BytesOf(NumberOf(a) + g * Numbers[size], size) = a
<1> DEFINE n == NumberOf(a)
           w == Numbers[size]
           m == n + g * w
<1>1. w \in Nat \ {0} /\ n \in 0 .. w - 1
  BY NumbersOfBytes, NumberOfType DEF Sizes
<1> HIDE DEF n, w
<1>2. m \in Nat /\ m % w = n
  <2>1. g * w \in Nat
    BY <1>1
  <2>2. m \in Nat /\ n \in Int
    BY <1>1, <2>1
  <2> QED
    BY <1>1, <2>2, Congruent, RemainderOfSmall
<1> HIDE DEF m
<1>3. BytesOf(m, size) \in Arrays(size) /\ NumberOf(BytesOf(m, size)) = NumberOf(a)
  BY <1>2, BytesOfType, NumberOfBytes DEF n, w
<1> QED
  BY <1>3, SameNumber DEF m, n, w
-----------------------------------------------------------------------------
(* The addresses use these operators as they are. *)

LEMMA SameNumbers == IP!Numbers = Numbers /\ Mac!Numbers = Numbers
BY DEF IP!Numbers, Mac!Numbers, Numbers

LEMMA SameOperators ==
    /\ \A a : IP!NumberOf(a) = NumberOf(a) /\ Mac!NumberOf(a) = NumberOf(a)
    /\ \A n, size : /\ IP!BytesOf(n, size) = BytesOf(n, size)
                     /\ Mac!BytesOf(n, size) = BytesOf(n, size)
<1>1. \A a : IP!NumberOf(a) = NumberOf(a)
  BY DEF IP!NumberOf, NumberOf, IP!Numbers, Numbers
<1>2. \A a : Mac!NumberOf(a) = NumberOf(a)
  BY DEF Mac!NumberOf, NumberOf, Mac!Numbers, Numbers
<1>3. \A n, size : /\ IP!BytesOf(n, size) = BytesOf(n, size)
                    /\ Mac!BytesOf(n, size) = BytesOf(n, size)
  BY SameNumbers DEF IP!BytesOf, Mac!BytesOf, BytesOf
<1> QED
  BY <1>1, <1>2, <1>3

LEMMA TextNumberUnfolds ==
    ASSUME NEW parts, Len(parts) \in 0 .. 6
    PROVE  \E f : /\ f[0] = 0
                  /\ \A k \in 1 .. Len(parts) : f[k] = f[k - 1] * B + parts[k]
                  /\ TextNumber(parts) = f[Len(parts)]
<1> DEFINE n == Len(parts)
           Good(f) == f = [k \in 0 .. Len(parts) |->
                              IF k = 0 THEN 0 ELSE f[k - 1] * ByteValues + parts[k]]
           p1 == 0  * B + parts[1]
           p2 == p1 * B + parts[2]
           p3 == p2 * B + parts[3]
           p4 == p3 * B + parts[4]
           p5 == p4 * B + parts[5]
           p6 == p5 * B + parts[6]
           h  == [k \in 0 .. 6 |->
                    CASE k = 0 -> 0 [] k = 1 -> p1 [] k = 2 -> p2 [] k = 3 -> p3
                      [] k = 4 -> p4 [] k = 5 -> p5 [] k = 6 -> p6]
           g  == [k \in 0 .. n |-> h[k]]
           f  == CHOOSE x : Good(x)
<1>1. \A k \in 0 .. 6 : h[k] = IF k = 0 THEN 0 ELSE h[k - 1] * B + parts[k]
  <2>1. h[0] = 0 /\ h[1] = p1 /\ h[2] = p2 /\ h[3] = p3 /\ h[4] = p4 /\ h[5] = p5 /\ h[6] = p6
    OBVIOUS
  <2> HIDE DEF h
  <2> QED
    BY <2>1
<1> HIDE DEF h
<1>2. Good(g)
  <2>1. \A k \in 0 .. n : g[k] = IF k = 0 THEN 0 ELSE g[k - 1] * B + parts[k]
    <3>1. n \in 0 .. 6
      OBVIOUS
    <3> HIDE DEF n
    <3>2. \A k \in 0 .. n : k \in 0 .. 6 /\ g[k] = h[k] /\ (k # 0 => g[k - 1] = h[k - 1])
      BY <3>1
    <3> QED
      BY <1>1, <3>2
  <2>2. g = [k \in 0 .. n |-> g[k]]
    OBVIOUS
  <2> HIDE DEF g
  <2> QED
    BY <2>1, <2>2 DEF B
<1>3. TextNumber(parts) = f[n]
  BY DEF TextNumber
<1> HIDE DEF Good, g
<1>4. Good(f)
  BY <1>2
<1> HIDE DEF f
<1>5. \A k \in 0 .. n : f[k] = IF k = 0 THEN 0 ELSE f[k - 1] * B + parts[k]
  BY <1>4 DEF Good, B
<1> QED
  BY <1>3, <1>5

LEMMA ReverseArray ==
    ASSUME NEW size \in Sizes, NEW a \in Arrays(size)
    PROVE  /\ Reverse(a) \in Arrays(size) /\ Len(Reverse(a)) = size
           /\ \A k \in 1 .. size : Reverse(a)[k] = a[size - k + 1]
           /\ Reverse(Reverse(a)) = a
<1>1. size \in Nat /\ Len(a) = size /\ a \in [1 .. size -> Byte]
  BY LengthOfArray DEF Sizes, Arrays
<1>2. Reverse(a) = [k \in 1 .. size |-> a[size - k + 1]]
  BY <1>1 DEF Reverse
<1>3. Reverse(a) \in [1 .. size -> Byte]
  BY <1>1, <1>2
<1>4. Len(Reverse(a)) = size
  BY <1>3, LengthOfArray DEF Arrays
<1>5. Reverse(Reverse(a)) = [k \in 1 .. size |-> Reverse(a)[size - k + 1]]
  BY <1>4 DEF Reverse
<1>6. \A k \in 1 .. size : size - k + 1 \in 1 .. size /\ size - (size - k + 1) + 1 = k
  BY <1>1
<1>7. \A k \in 1 .. size : Reverse(Reverse(a))[k] = a[k]
  BY <1>2, <1>5, <1>6
<1>8. Reverse(Reverse(a)) = a
  BY <1>1, <1>5, <1>7
<1> QED
  BY <1>2, <1>3, <1>4, <1>8 DEF Arrays

(* The text of an address, whose first number counts most, is in the order of  *)
(* the integers that the address makes.                                        *)
LEMMA TextIsNumber ==
    ASSUME NEW size \in Sizes, NEW a \in Arrays(size)
    PROVE  TextNumber(Reverse(a)) = NumberOf(a)
<1> DEFINE text == Reverse(a)
<1>1. size \in 0 .. 6 /\ Len(a) = size /\ Len(text) = size
      /\ \A k \in 1 .. size : text[k] = a[size - k + 1]
  BY LengthOfArray, ReverseArray DEF Sizes
<1> HIDE DEF text
<1>2. PICK f : Makes(f, a) /\ NumberOf(a) = f[size]
  BY <1>1, NumberOfUnfolds
<1>3. PICK t : /\ t[0] = 0 /\ TextNumber(text) = t[size]
               /\ \A k \in 1 .. size : t[k] = t[k - 1] * B + text[k]
  <2>1. Len(text) \in 0 .. 6
    BY <1>1
  <2>2. \E t : /\ t[0] = 0
               /\ \A k \in 1 .. Len(text) : t[k] = t[k - 1] * B + text[k]
               /\ TextNumber(text) = t[Len(text)]
    BY <2>1, TextNumberUnfolds
  <2> QED
    BY <1>1, <2>2
<1> DEFINE S == {k \in Sizes : k <= size =>
                   t[k] \in Int /\ f[size] = f[size - k] + t[k] * Numbers[size - k]}
<1>4. 0 \in S
  <2>1. size - 0 = size /\ f[size] \in Int /\ Numbers[size] \in Int
    <3>1. size \in 0 .. size /\ size \in 0 .. 6 /\ size - 0 = size
      BY <1>1
    <3>2. f[size] \in 0 .. Numbers[size] - 1
      BY <1>2, <3>1, NumberFits
    <3>3. Numbers[size] \in Nat \ {0}
      BY <3>1, NumbersOfBytes
    <3> QED
      BY <3>1, <3>2, <3>3
  <2>2. f[size] + 0 * Numbers[size] = f[size]
    BY <2>1
  <2> QED
    BY <1>3, <2>1, <2>2 DEF Sizes
<1>5. ASSUME NEW k \in 0 .. 5, k \in S, k + 1 <= size
      PROVE  t[k + 1] \in Int /\ f[size] = f[size - (k + 1)] + t[k + 1] * Numbers[size - (k + 1)]
  <2> DEFINE j == size - k
             w == Numbers[j - 1]
             x == a[j]
             y == f[j - 1]
             z == t[k]
  <2>1. /\ j \in 1 .. size /\ j - 1 \in 0 .. 6 /\ j - 1 \in 0 .. size /\ (j - 1) + 1 = j
        /\ size - (k + 1) = j - 1 /\ size - (k + 1) + 1 = j
        /\ k + 1 \in 1 .. size /\ (k + 1) - 1 = k
    BY <1>1, <1>5
  <2> HIDE DEF j
  <2>2. /\ w \in Nat \ {0} /\ B \in Nat \ {0} /\ Numbers[j] = B * w
        /\ x \in Int /\ y \in Int /\ z \in Int
    <3>1. w \in Nat \ {0} /\ B \in Nat \ {0} /\ Numbers[j] = B * w
      BY <2>1, NumbersOfBytes
    <3>2. y \in 0 .. w - 1
      BY <1>2, <2>1, NumberFits
    <3>3. x \in Byte
      BY <2>1, LengthOfArray
    <3> QED
      BY <1>5, <3>1, <3>2, <3>3 DEF Byte
  <2>3. f[size] = f[j] + z * Numbers[j]
    BY <1>5 DEF j
  <2>4. f[j] = y + x * w
    BY <1>1, <1>2, <2>1 DEF Makes
  <2>5. t[k + 1] = z * B + x
    BY <1>1, <1>3, <2>1
  <2> HIDE DEF w, x, y, z
  <2>6. (y + x * w) + z * (B * w) = y + (z * B + x) * w
    BY <2>2
  <2>7. f[size] = y + t[k + 1] * w /\ t[k + 1] \in Int
    BY <2>2, <2>3, <2>4, <2>5, <2>6
  <2> QED
    BY <2>1, <2>7 DEF y, w
<1>6. \A k \in 0 .. 5 : k \in S => k + 1 \in S
  BY <1>5 DEF Sizes
<1>7. \A k \in Sizes : k \in S
  BY <1>4, <1>6, Chain
<1>8. t[size] \in Int /\ f[size] = f[0] + t[size] * Numbers[0]
  <2>1. size \in S /\ size - size = 0
    BY <1>1, <1>7
  <2> QED
    BY <1>1, <2>1
<1>9. f[size] = t[size]
  <2>1. f[0] = 0 /\ Numbers[0] = 1
    BY <1>2, NumbersOfBytes DEF Makes
  <2> QED
    BY <1>8, <2>1
<1> QED
  BY <1>2, <1>3, <1>9 DEF text
-----------------------------------------------------------------------------
(* WrapAround.  Part has any limits; Whole, those of the type. *)

(* Native, for the values that ++ and -- meet *)
LEMMA NativeCases ==
    /\ \A v \in TypeMin .. TypeMax : Part!Native(v) = v /\ Whole!Native(v) = v
    /\ Part!Native(TypeMax + 1) = TypeMin /\ Whole!Native(TypeMax + 1) = TypeMin
    /\ Part!Native(TypeMin - 1) = TypeMax /\ Whole!Native(TypeMin - 1) = TypeMax
<1> DEFINE N == TypeMax - TypeMin + 1
<1>1. N \in Nat \ {0} /\ TypeMin \in Int /\ TypeMax \in Int
  BY LimitsAssumption
<1>2. \A x \in 0 .. N - 1 : x % N = x
  BY <1>1
<1>3. N % N = 0 /\ (-1) % N = N - 1
  BY <1>1
<1> QED
  BY <1>1, <1>2, <1>3 DEF Part!Native, Whole!Native

(* ++ goes to the next value and from Max to Min ("Wraps to Min when Max has   *)
(* been reached", says the test), if the type has a value beyond Max or Min is *)
(* its least.                                                                  *)
THEOREM IncrementWraps ==
    ASSUME MaxValue < TypeMax \/ MinValue = TypeMin, NEW v \in MinValue .. MaxValue
    PROVE  Part!Increment(v) = IF v = MaxValue THEN MinValue ELSE v + 1
<1>1. CASE v < TypeMax
  <2>1. v + 1 \in TypeMin .. TypeMax
    BY <1>1, LimitsAssumption
  <2>2. Part!Native(v + 1) = v + 1
    BY <2>1, NativeCases
  <2> QED
    BY <1>1, <2>2, LimitsAssumption DEF Part!Increment, Part!Wrap
<1>2. CASE v = TypeMax
  BY <1>2, NativeCases, LimitsAssumption DEF Part!Increment, Part!Wrap
<1> QED
  BY <1>1, <1>2, LimitsAssumption

(* -- goes to the value before and from Min to Max, if the type has a value    *)
(* before Min or Max is its greatest.                                          *)
THEOREM DecrementWraps ==
    ASSUME TypeMin < MinValue \/ MaxValue = TypeMax, NEW v \in MinValue .. MaxValue
    PROVE  Part!Decrement(v) = IF v = MinValue THEN MaxValue ELSE v - 1
<1>1. CASE v > TypeMin
  <2>1. v - 1 \in TypeMin .. TypeMax
    BY <1>1, LimitsAssumption
  <2>2. Part!Native(v - 1) = v - 1
    BY <2>1, NativeCases
  <2> QED
    BY <1>1, <2>2, LimitsAssumption DEF Part!Decrement, Part!Wrap
<1>2. CASE v = TypeMin
  BY <1>2, NativeCases, LimitsAssumption DEF Part!Decrement, Part!Wrap
<1> QED
  BY <1>1, <1>2, LimitsAssumption

(* The hypotheses are needed: with a Max that is the type's and a Min that is  *)
(* not, the overflow of ++ is taken for a value below Min, and ++ stays at Max *)
(* for ever; and likewise -- at a Min that is the type's.                      *)
THEOREM StuckAtTheEdge ==
    /\ MaxValue = TypeMax /\ TypeMin < MinValue => Part!Increment(MaxValue) = MaxValue
    /\ MinValue = TypeMin /\ MaxValue < TypeMax => Part!Decrement(MinValue) = MinValue
BY NativeCases, LimitsAssumption DEF Part!Increment, Part!Decrement, Part!Wrap

(* Limits that are strictly within the type, or the type's own *)
Within ==
    \/ TypeMin < MinValue /\ MaxValue < TypeMax
    \/ TypeMin = MinValue /\ MaxValue = TypeMax

(* With such limits ++ and -- are inverses of each other. *)
THEOREM Inverses ==
    ASSUME Within, NEW v \in MinValue .. MaxValue
    PROVE  Part!Decrement(Part!Increment(v)) = v /\ Part!Increment(Part!Decrement(v)) = v
<1>1. Part!Increment(v) = IF v = MaxValue THEN MinValue ELSE v + 1
  BY IncrementWraps DEF Within
<1>2. Part!Decrement(v) = IF v = MinValue THEN MaxValue ELSE v - 1
  BY DecrementWraps DEF Within
<1>3. Part!Increment(v) \in MinValue .. MaxValue /\ Part!Decrement(v) \in MinValue .. MaxValue
  BY <1>1, <1>2, LimitsAssumption
<1>4. Part!Decrement(Part!Increment(v))
        = IF Part!Increment(v) = MinValue THEN MaxValue ELSE Part!Increment(v) - 1
  BY <1>3, DecrementWraps DEF Within
<1>5. Part!Increment(Part!Decrement(v))
        = IF Part!Decrement(v) = MaxValue THEN MinValue ELSE Part!Decrement(v) + 1
  BY <1>3, IncrementWraps DEF Within
<1> QED
  BY <1>1, <1>2, <1>4, <1>5, LimitsAssumption
-----------------------------------------------------------------------------
(* What an address is after ++, and where *)

LEMMA AddressTypes ==
    /\ 4 \in Sizes /\ IP!Address = Arrays(4) /\ IP!Size = 4
    /\ 6 \in Sizes /\ Mac!Address = Arrays(6) /\ Mac!Size = 6
BY DEF Sizes, Arrays, Byte, B, IP!Address, IP!Size, IP!Byte, Mac!Address, Mac!Size, Mac!Byte

LEMMA GarbageType == \A g \in Mac!Garbage : g \in Nat
<1>1. Mac!IntSize - Mac!Size = 2 /\ Mac!Numbers[2] \in Nat \ {0}
  BY SameNumbers, NumbersType DEF Mac!IntSize, Mac!Size
<1> QED
  BY <1>1 DEF Mac!Garbage

LEMMA IPIncrement ==
    ASSUME NEW a \in IP!Address
    PROVE  /\ IP!Increment(a) \in IP!Address
           /\ NumberOf(IP!Increment(a)) = (NumberOf(a) + 1) % Numbers[4]
<1> DEFINE w == Numbers[4]
           m == NumberOf(a) + 1
           n == m % w
<1>1. w \in Nat \ {0} /\ m \in Nat
  <2>1. NumberOf(a) \in 0 .. Numbers[4] - 1
    BY AddressTypes, NumberOfType
  <2> QED
    BY <2>1, NumbersOfBytes
<1>2. IP!Increment(a) = BytesOf(n, 4)
  BY SameNumbers, SameOperators, AddressTypes DEF IP!Increment, IP!ParseNumber, IP!ToInt
<1> HIDE DEF w, m
<1>3. n \in 0 .. w - 1
  <2>1. m \in Int
    BY <1>1
  <2> QED
    BY <1>1, <2>1, Quotient
<1>4. n \in Nat /\ n % w = n
  BY <1>1, <1>3, RemainderOfSmall
<1> HIDE DEF n
<1>5. BytesOf(n, 4) \in Arrays(4) /\ NumberOf(BytesOf(n, 4)) = n % w
  BY <1>4, AddressTypes, BytesOfType, NumberOfBytes DEF w
<1> QED
  BY <1>2, <1>4, <1>5, AddressTypes DEF n, m, w

(* The garbage is beyond the six bytes, and so is what the addition carries. *)
LEMMA MacIncrement ==
    ASSUME NEW a \in Mac!Address, NEW g \in Mac!Garbage
    PROVE  /\ Mac!Increment(a, g) \in Mac!Address
           /\ NumberOf(Mac!Increment(a, g)) = (NumberOf(a) + 1) % Numbers[6]
<1> DEFINE w == Numbers[6]
           x == Numbers[8]
           n == NumberOf(a)
           m == n + g * w + 1
           r == m % x
           k == B * B
<1>1. w \in Nat \ {0} /\ x \in Nat \ {0} /\ n \in Nat /\ g \in Nat /\ k \in Nat
  <2>1. NumberOf(a) \in 0 .. Numbers[6] - 1
    BY AddressTypes, NumberOfType
  <2>2. B \in Nat
    BY NumbersOfBytes
  <2> QED
    BY <2>1, <2>2, NumbersType, GarbageType
<1>2. x = k * w
  <2>1. Numbers[8] = B * Numbers[7] /\ Numbers[7] = B * Numbers[6]
    BY NumbersUnfolds
  <2> QED
    BY <1>1, <2>1, NumbersOfBytes
<1>3. Mac!Increment(a, g) = BytesOf(r, 6)
  BY SameNumbers, SameOperators, AddressTypes
     DEF Mac!Increment, Mac!ParseNumber, Mac!ToInt, Mac!IntSize
<1> HIDE DEF w, x, n, k
<1>4. m \in Nat
  BY <1>1
<1>5. m % w = (n + 1) % w
  <2>1. m = (n + 1) + g * w /\ n + 1 \in Int /\ g \in Int
    BY <1>1
  <2> HIDE DEF m
  <2> QED
    BY <1>1, <2>1, Congruent
<1> HIDE DEF m
<1>6. r \in Nat /\ m = (m \div x) * x + r /\ m \div x \in Nat
  <2>1. m \in Int
    BY <1>4
  <2>2. m = (m \div x) * x + (m % x) /\ m % x \in 0 .. x - 1 /\ (m \in Nat => m \div x \in Nat)
    BY <1>1, <2>1, Quotient
  <2>3. m % x \in Nat
    BY <1>1, <2>2
  <2> QED
    BY <1>4, <2>2, <2>3
<1> HIDE DEF r
<1>7. m % w = r % w
  <2> DEFINE q == m \div x
  <2>1. q \in Nat /\ m = q * x + r
    BY <1>6
  <2> HIDE DEF q
  <2>2. q * x = (q * k) * w /\ q * k \in Int
    BY <1>1, <1>2, <2>1
  <2>3. m = r + (q * k) * w /\ r \in Int
    BY <1>1, <1>6, <2>1, <2>2
  <2> QED
    BY <1>1, <2>2, <2>3, Congruent
<1>8. BytesOf(r, 6) \in Arrays(6) /\ NumberOf(BytesOf(r, 6)) = r % w
  BY <1>6, AddressTypes, BytesOfType, NumberOfBytes DEF w
<1> QED
  BY <1>3, <1>5, <1>7, <1>8, AddressTypes DEF n, w
-----------------------------------------------------------------------------
(* Values of a type, and their positions *)

LEMMA CountType == type \in Types => Count \in Nat \ {0}
BY NumbersType, AddressTypes, LimitsAssumption DEF Types, Count

LEMMA PositionOfAddress ==
    /\ type = "ip"  => \A v \in IP!Address  : Position(v) = NumberOf(v)
    /\ type = "mac" => \A v \in Mac!Address : Position(v) = NumberOf(v)
<1>1. \A a : IP!ToText(a) = Reverse(a) /\ Mac!ToText(a) = Reverse(a)
  BY DEF IP!ToText, Mac!ToText, IP!Reverse, Mac!Reverse, Reverse
<1>2. \A v \in IP!Address : TextNumber(IP!ToText(v)) = NumberOf(v)
  BY <1>1, AddressTypes, TextIsNumber
<1>3. \A v \in Mac!Address : TextNumber(Mac!ToText(v)) = NumberOf(v)
  BY <1>1, AddressTypes, TextIsNumber
<1> QED
  BY <1>2, <1>3 DEF Position

(* No two values of a type are at one position. *)
LEMMA PositionIsUnique ==
    ASSUME type \in Types
    PROVE  /\ \A v \in Values(type) : Position(v) \in 0 .. Count - 1
           /\ \A v, w \in Values(type) : Position(v) = Position(w) => v = w
<1>1. CASE type = "ip"
  <2>1. Values(type) = Arrays(4) /\ Count = Numbers[4] /\ 4 \in Sizes
        /\ \A v \in Arrays(4) : Position(v) = NumberOf(v)
    BY <1>1, AddressTypes, PositionOfAddress DEF Values, Count
  <2> QED
    BY <2>1, NumberOfType, SameNumber
<1>2. CASE type = "mac"
  <2>1. Values(type) = Arrays(6) /\ Count = Numbers[6] /\ 6 \in Sizes
        /\ \A v \in Arrays(6) : Position(v) = NumberOf(v)
    BY <1>2, AddressTypes, PositionOfAddress DEF Values, Count
  <2> QED
    BY <2>1, NumberOfType, SameNumber
<1>3. CASE type = "part"
  BY <1>3, LimitsAssumption DEF Values, Position, Count
<1>4. CASE type = "whole"
  BY <1>4, LimitsAssumption DEF Values, Position, Count
<1> QED
  BY <1>1, <1>2, <1>3, <1>4 DEF Types

(* ++ goes to a value of the type, and to none but the next. *)
LEMMA IncrementIsNext ==
    ASSUME type \in Types, MaxValue < TypeMax \/ MinValue = TypeMin,
           NEW v \in Values(type), NEW w \in Increment(v)
    PROVE  w \in Values(type) /\ Position(w) = (Position(v) + 1) % Count
<1>1. CASE type = "ip"
  <2>1. v \in IP!Address /\ w = IP!Increment(v) /\ Count = Numbers[4]
    BY <1>1, AddressTypes DEF Values, Increment, Count
  <2>2. w \in IP!Address /\ NumberOf(w) = (NumberOf(v) + 1) % Count
    BY <2>1, IPIncrement
  <2> QED
    BY <1>1, <2>1, <2>2, PositionOfAddress DEF Values
<1>2. CASE type = "mac"
  <2>1. v \in Mac!Address /\ Count = Numbers[6] /\ \E g \in Mac!Garbage : w = Mac!Increment(v, g)
    BY <1>2, AddressTypes DEF Values, Increment, Count
  <2>2. w \in Mac!Address /\ NumberOf(w) = (NumberOf(v) + 1) % Count
    BY <2>1, MacIncrement
  <2> QED
    BY <1>2, <2>1, <2>2, PositionOfAddress DEF Values
<1>3. CASE type = "part"
  <2> DEFINE n == MaxValue - MinValue + 1
             p == v - MinValue
  <2>1. v \in MinValue .. MaxValue /\ w = Part!Increment(v)
        /\ Position(v) = p /\ Position(w) = w - MinValue /\ Count = n
    BY <1>3 DEF Values, Increment, Count, Position
  <2>2. w = IF v = MaxValue THEN MinValue ELSE v + 1
    BY <2>1, IncrementWraps
  <2>3. n \in Nat \ {0} /\ p \in 0 .. n - 1 /\ w - MinValue = IF p + 1 = n THEN 0 ELSE p + 1
    BY <2>1, <2>2, LimitsAssumption
  <2>4. w \in Values(type)
    BY <1>3, <2>1, <2>2, LimitsAssumption DEF Values
  <2> HIDE DEF n, p
  <2>5. (p + 1) % n = IF p + 1 = n THEN 0 ELSE p + 1
    BY <2>3
  <2> QED
    BY <2>1, <2>3, <2>4, <2>5
<1>4. CASE type = "whole"
  <2> DEFINE n == TypeMax - TypeMin + 1
             p == v - TypeMin
  <2>1. v \in TypeMin .. TypeMax /\ w = Whole!Increment(v)
        /\ Position(v) = p /\ Position(w) = w - TypeMin /\ Count = n
    BY <1>4 DEF Values, Increment, Count, Position
  <2>2. w = IF v = TypeMax THEN TypeMin ELSE v + 1
    <3>1. w = Whole!Native(v + 1)
      BY <2>1 DEF Whole!Increment, Whole!Wrap
    <3>2. v # TypeMax => v + 1 \in TypeMin .. TypeMax
      BY <2>1, LimitsAssumption
    <3> QED
      BY <3>1, <3>2, NativeCases
  <2>3. n \in Nat \ {0} /\ p \in 0 .. n - 1 /\ w - TypeMin = IF p + 1 = n THEN 0 ELSE p + 1
    BY <2>1, <2>2, LimitsAssumption
  <2>4. w \in Values(type)
    BY <1>4, <2>1, <2>2, LimitsAssumption DEF Values
  <2> HIDE DEF n, p
  <2>5. (p + 1) % n = IF p + 1 = n THEN 0 ELSE p + 1
    BY <2>3
  <2> QED
    BY <2>1, <2>3, <2>4, <2>5
<1> QED
  BY <1>1, <1>2, <1>3, <1>4 DEF Types
-----------------------------------------------------------------------------
(* The loop *)

(* Max is followed by Min. *)
MaxWraps == MaxValue < TypeMax \/ MinValue = TypeMin

TypeOK ==
    /\ type \in Types
    /\ from \in Values(type) /\ to \in Values(type)
    /\ form \in Forms \X Forms
    /\ last \in Values(type) /\ value \in Values(type)
    /\ visited \in Seq(Values(type))

Start == Position(from) + IF form[1] = "exclusive" THEN 1 ELSE 0
Stop  == Position(to)   + IF form[2] = "inclusive" THEN 1 ELSE 0

(* The iterator is as many steps from the begin as values were visited, with   *)
(* some of the steps to the end ahead of it or none.                           *)
LoopInv ==
    form \notin Misread =>
        /\ Position(value) = (Start + Len(visited)) % Count
        /\ Position(last) = Stop % Count
        /\ Len(visited) <= (Stop - Start) % Count
        /\ \A i \in DOMAIN visited : Position(visited[i]) = (Start + i - 1) % Count

IInv == TypeOK /\ LoopInv

LEMMA StartType ==
    ASSUME TypeOK
    PROVE  Start \in Int /\ Stop \in Int /\ Count \in Nat \ {0}
           /\ Position(from) \in 0 .. Count - 1 /\ Position(to) \in 0 .. Count - 1
           /\ (Stop - Start) % Count \in 0 .. Count - 1
<1>1. Count \in Nat \ {0} /\ Position(from) \in 0 .. Count - 1 /\ Position(to) \in 0 .. Count - 1
  BY CountType, PositionIsUnique DEF TypeOK
<1>2. Start \in Int /\ Stop \in Int
  BY <1>1 DEF Start, Stop
<1>3. Stop - Start \in Int
  BY <1>2
<1> QED
  BY <1>1, <1>2, <1>3, Quotient

(* The bounds that rangeOf increments are those that their names ask for. *)
LEMMA PassedAsNamed ==
    ASSUME form \in Forms \X Forms, form \notin Misread
    PROVE  Passed(form)[1] = (form[1] = "exclusive") /\ Passed(form)[2] = (form[2] = "inclusive")
BY DEF Passed, Forms, Misread

LEMMA InitIInv ==
    ASSUME MaxWraps, Init
    PROVE  IInv
<1>1. type \in Types /\ from \in Values(type) /\ to \in Values(type)
  BY BoundsAssumption DEF Init
<1>2. form \in Forms \X Forms /\ visited = << >>
  BY DEF Init
<1>3. value \in IF Passed(form)[1] THEN Increment(from) ELSE {from}
  BY DEF Init, RangeOf
<1>4. last \in IF Passed(form)[2] THEN Increment(to) ELSE {to}
  BY DEF Init, RangeOf
<1>5. value \in Values(type) /\ last \in Values(type)
  BY <1>1, <1>3, <1>4, IncrementIsNext DEF MaxWraps
<1>6. TypeOK
  BY <1>1, <1>2, <1>5 DEF TypeOK
<1>7. LoopInv
  <2> SUFFICES ASSUME form \notin Misread
               PROVE  /\ Position(value) = (Start + 0) % Count
                      /\ Position(last) = Stop % Count
                      /\ 0 <= (Stop - Start) % Count
    BY <1>2 DEF LoopInv
  <2>1. /\ Start \in Int /\ Stop \in Int /\ Count \in Nat \ {0}
        /\ Position(from) \in 0 .. Count - 1 /\ Position(to) \in 0 .. Count - 1
        /\ (Stop - Start) % Count \in 0 .. Count - 1
    BY <1>6, StartType
  <2>2. Position(from) % Count = Position(from) /\ Position(to) % Count = Position(to)
    BY <2>1, RemainderOfSmall
  <2>3. Position(value) = Start % Count
    <3>1. CASE form[1] = "exclusive"
      BY <1>1, <1>2, <1>3, <3>1, PassedAsNamed, IncrementIsNext DEF Start, MaxWraps
    <3>2. CASE form[1] # "exclusive"
      <4>1. value = from
        BY <1>2, <1>3, <3>2, PassedAsNamed
      <4>2. Start = Position(from)
        BY <2>1, <3>2 DEF Start
      <4> QED
        BY <2>2, <4>1, <4>2
    <3> QED
      BY <3>1, <3>2
  <2>4. Position(last) = Stop % Count
    <3>1. CASE form[2] = "inclusive"
      BY <1>1, <1>2, <1>4, <3>1, PassedAsNamed, IncrementIsNext DEF Stop, MaxWraps
    <3>2. CASE form[2] # "inclusive"
      <4>1. last = to
        BY <1>2, <1>4, <3>2, PassedAsNamed
      <4>2. Stop = Position(to)
        BY <2>1, <3>2 DEF Stop
      <4> QED
        BY <2>2, <4>1, <4>2
    <3> QED
      BY <3>1, <3>2
  <2> QED
    BY <2>1, <2>3, <2>4
<1> QED
  BY <1>6, <1>7 DEF IInv

(* At the last value, and only there, as many values were visited as there are *)
(* from the begin to the end.                                                  *)
LEMMA LastIsReached ==
    ASSUME IInv, form \notin Misread
    PROVE  value = last <=> Len(visited) = (Stop - Start) % Count
<1> DEFINE n == Len(visited)
<1>1. /\ Start \in Int /\ Stop \in Int /\ Count \in Nat \ {0}
      /\ (Stop - Start) % Count \in 0 .. Count - 1
  BY StartType DEF IInv
<1>2. n \in Nat /\ n <= (Stop - Start) % Count
  BY DEF IInv, TypeOK, LoopInv
<1>3. n \in 0 .. Count - 1
  BY <1>1, <1>2
<1>4. Position(value) = Position(last) <=> n = (Stop - Start) % Count
  <2>1. Position(value) = (Start + n) % Count /\ Position(last) = Stop % Count
    BY DEF IInv, LoopInv
  <2> HIDE DEF n
  <2>2. (Start + n) % Count = Stop % Count <=> n = (Stop - Start) % Count
    BY <1>1, <1>3, StepsBetween
  <2> QED
    BY <2>1, <2>2
<1>5. value = last <=> Position(value) = Position(last)
  BY PositionIsUnique DEF IInv, TypeOK
<1> QED
  BY <1>4, <1>5

LEMMA StepIInv ==
    ASSUME MaxWraps, IInv, Step
    PROVE  IInv'
<1>1. /\ value # last /\ visited' = Append(visited, value) /\ value' \in Increment(value)
      /\ type' = type /\ from' = from /\ to' = to /\ form' = form /\ last' = last
  BY DEF Step, Body
<1>2. /\ type \in Types /\ value \in Values(type)
      /\ visited \in Seq(Values(type)) /\ Len(visited) \in Nat
  BY DEF IInv, TypeOK
<1>3. value' \in Values(type) /\ Position(value') = (Position(value) + 1) % Count
  BY <1>1, <1>2, IncrementIsNext DEF MaxWraps
<1>4. TypeOK'
  BY <1>1, <1>2, <1>3 DEF IInv, TypeOK
<1>5. LoopInv'
  <2> SUFFICES ASSUME form \notin Misread
               PROVE  /\ Position(value') = (Start + Len(visited')) % Count
                      /\ Position(last) = Stop % Count
                      /\ Len(visited') <= (Stop - Start) % Count
                      /\ \A i \in DOMAIN visited' : Position(visited'[i]) = (Start + i - 1) % Count
    <3>1. /\ Start' = Start /\ Stop' = Stop /\ Count' = Count /\ Misread' = Misread
          /\ \A v : Position(v)' = Position(v)
      BY <1>1 DEF Start, Stop, Count, Misread, Position
    <3>2. Position(value)' = Position(value') /\ Position(last)' = Position(last)
      BY <1>1 DEF Position
    <3>3. \A i \in DOMAIN visited' : Position(visited[i])' = Position(visited'[i])
      BY <1>1 DEF Position
    <3> QED
      BY <1>1, <3>1, <3>2, <3>3 DEF LoopInv
  <2>1. /\ Position(value) = (Start + Len(visited)) % Count
        /\ Position(last) = Stop % Count
        /\ Len(visited) <= (Stop - Start) % Count
        /\ \A i \in DOMAIN visited : Position(visited[i]) = (Start + i - 1) % Count
    BY DEF IInv, LoopInv
  <2>2. Len(visited') = Len(visited) + 1
    BY <1>1, <1>2
  <2>3. Start \in Int /\ Count \in Nat \ {0} /\ (Stop - Start) % Count \in 0 .. Count - 1
    BY StartType DEF IInv
  <2>4. Position(value') = (Start + Len(visited')) % Count
    <3> DEFINE n == Start + Len(visited)
    <3>1. n \in Int /\ Start + Len(visited') = n + 1
      BY <1>2, <2>2, <2>3
    <3>2. Position(value') = ((n % Count) + 1) % Count
      BY <1>3, <2>1
    <3> HIDE DEF n
    <3>3. ((n % Count) + 1) % Count = (n + 1) % Count
      <4>1. n \in Int /\ 1 \in Int
        BY <3>1
      <4> QED
        BY <2>3, <4>1, RemainderOfSum
    <3> QED
      BY <3>1, <3>2, <3>3
  <2>5. Len(visited') <= (Stop - Start) % Count
    <3>1. Len(visited) # (Stop - Start) % Count
      BY <1>1, LastIsReached
    <3> QED
      BY <1>2, <2>1, <2>2, <2>3, <3>1
  <2>6. ASSUME NEW i \in DOMAIN visited'
        PROVE  Position(visited'[i]) = (Start + i - 1) % Count
    <3>1. CASE i \in DOMAIN visited
      <4>1. visited'[i] = visited[i]
        BY <1>1, <1>2, <3>1
      <4> QED
        BY <2>1, <3>1, <4>1
    <3>2. CASE i \notin DOMAIN visited
      <4>1. i = Len(visited) + 1 /\ visited'[i] = value
        BY <1>1, <1>2, <2>6, <3>2
      <4>2. Start + i - 1 = Start + Len(visited)
        BY <1>2, <2>3, <4>1
      <4> QED
        BY <2>1, <4>1, <4>2
    <3> QED
      BY <3>1, <3>2
  <2> QED
    BY <2>1, <2>4, <2>5, <2>6
<1> QED
  BY <1>4, <1>5 DEF IInv

(* In every reachable state, for any two bounds of any of the types. *)
THEOREM Invariance ==
    ASSUME MaxWraps
    PROVE  Spec => []IInv
<1>1. Init => IInv
  BY InitIInv
<1>2. IInv /\ [Step]_vars => IInv'
  <2>1. ASSUME IInv, UNCHANGED vars
        PROVE  IInv'
    BY <2>1 DEF vars, IInv, TypeOK, LoopInv, Start, Stop, Count, Misread, Position
  <2> QED
    BY <2>1, StepIInv
<1> QED
  BY <1>1, <1>2, PTL DEF Spec

(* A loop over what rangeOf returns runs once for each value that the names of *)
(* its bounds ask for, in order, and stops there: for bytes and integers of    *)
(* any size, any limits with a Max that wraps, and any bounds.                 *)
THEOREM RangesAreExact ==
    ASSUME MaxWraps
    PROVE  Spec => []RangeIsExact
<1>1. ASSUME IInv
      PROVE  RangeIsExact
  <2> SUFFICES ASSUME form \notin Misread
               PROVE  /\ Len(visited) <= (Stop - Start) % Count
                      /\ \A i \in DOMAIN visited : Position(visited[i]) = (Start + i - 1) % Count
                      /\ value = last => Len(visited) = (Stop - Start) % Count
    BY DEF RangeIsExact, Start, Stop
  <2> QED
    BY <1>1, LastIsReached DEF IInv, LoopInv
<1> QED
  BY <1>1, Invariance, PTL

(* No two rounds of a loop run its body with the same value. *)
VisitsDiffer ==
    form \notin Misread => \A i, j \in DOMAIN visited : visited[i] = visited[j] => i = j

(* No loop visits a value twice: no address is given to a task twice by one    *)
(* call of DeviceDiscoveryService::discover.                                   *)
THEOREM NoValueTwice ==
    ASSUME MaxWraps
    PROVE  Spec => []VisitsDiffer
<1>1. ASSUME IInv, form \notin Misread, NEW i \in DOMAIN visited, NEW j \in DOMAIN visited,
             visited[i] = visited[j]
      PROVE  i = j
  <2> DEFINE m == i - 1
             n == j - 1
             p == Start + n
  <2>1. Start \in Int /\ Count \in Nat \ {0} /\ Len(visited) < Count
    BY <1>1, StartType DEF IInv, TypeOK, LoopInv
  <2>2. m \in 0 .. Count - 1 /\ n \in 0 .. Count - 1 /\ p \in Int /\ p - Start = n
    BY <1>1, <2>1 DEF IInv, TypeOK
  <2>3. Start + i - 1 = Start + m /\ Start + j - 1 = p
    BY <1>1, <2>1 DEF IInv, TypeOK
  <2>4. Position(visited[i]) = (Start + i - 1) % Count
       /\ Position(visited[j]) = (Start + j - 1) % Count
    BY <1>1 DEF IInv, LoopInv
  <2> HIDE DEF p
  <2>5. (Start + m) % Count = p % Count
    BY <1>1, <2>3, <2>4
  <2> HIDE DEF m, n
  <2>6. m = (p - Start) % Count
    BY <2>1, <2>2, <2>5, StepsBetween
  <2>7. m = n
    BY <2>1, <2>2, <2>6, RemainderOfSmall
  <2> QED
    BY <1>1, <2>7 DEF IInv, TypeOK, m, n
<1>2. IInv => VisitsDiffer
  BY <1>1 DEF VisitsDiffer
<1> QED
  BY <1>2, Invariance, PTL
-----------------------------------------------------------------------------
(* Conversions and orders of the values *)

LEMMA ToTextIsReverse ==
    /\ \A a : IP!ToText(a) = Reverse(a) /\ Mac!ToText(a) = Reverse(a)
    /\ \A a : IP!Reverse(a) = Reverse(a) /\ Mac!Reverse(a) = Reverse(a)
BY DEF IP!ToText, Mac!ToText, IP!Reverse, Mac!Reverse, Reverse

LEMMA CopyThere ==
    ASSUME NEW a, NEW f, NEW t
    PROVE  /\ IP!Copy(a, f, t)  = IF f = t THEN a ELSE Reverse(a)
           /\ Mac!Copy(a, f, t) = IF f = t THEN a ELSE Reverse(a)
BY ToTextIsReverse DEF IP!Copy, Mac!Copy

LEMMA PositionsOfAddresses ==
    /\ type = "ip" => \A v \in IP!Address : Position(v) \in 0 .. Count - 1
    /\ type = "mac" => \A v \in Mac!Address : Position(v) \in 0 .. Count - 1
    /\ type = "ip" => \A v, w \in IP!Address : Position(v) = Position(w) => v = w
    /\ type = "mac" => \A v, w \in Mac!Address : Position(v) = Position(w) => v = w
BY PositionIsUnique DEF Types, Values

(* The greatest byte in each place makes the greatest number. *)
LEMMA GreatestNumber ==
    ASSUME NEW size \in Sizes, NEW a \in Arrays(size), \A k \in 1 .. size : a[k] = B - 1
    PROVE  NumberOf(a) = Numbers[size] - 1
<1>1. size \in 0 .. 6 /\ Len(a) = size
  BY LengthOfArray DEF Sizes
<1>2. PICK f : Makes(f, a) /\ NumberOf(a) = f[size]
  BY <1>1, NumberOfUnfolds
<1> DEFINE S == {k \in Sizes : k <= size => f[k] = Numbers[k] - 1}
<1>3. 0 \in S
  BY <1>2, NumbersOfBytes DEF Makes, Sizes
<1>4. ASSUME NEW k \in 0 .. 5, k \in S, k + 1 <= size
      PROVE  f[k + 1] = Numbers[k + 1] - 1
  <2> DEFINE w == Numbers[k]
  <2>1. k + 1 \in 1 .. size /\ (k + 1) - 1 = k /\ k \in 0 .. 6
    BY <1>1, <1>4
  <2>2. f[k + 1] = (w - 1) + (B - 1) * w
    BY <1>1, <1>2, <1>4, <2>1 DEF Makes
  <2>3. w \in Nat \ {0} /\ Numbers[k + 1] = B * w /\ B \in Nat \ {0}
    BY <2>1, NumbersOfBytes
  <2> HIDE DEF w
  <2>4. (w - 1) + (B - 1) * w = B * w - 1
    BY <2>3
  <2> QED
    BY <2>2, <2>3, <2>4
<1>5. \A k \in 0 .. 5 : k \in S => k + 1 \in S
  BY <1>4 DEF Sizes
<1>6. \A k \in Sizes : k \in S
  BY <1>3, <1>5, Chain
<1> QED
  BY <1>1, <1>2, <1>6

LEMMA LessIP ==
    ASSUME type = "ip", NEW v \in IP!Address, NEW w \in IP!Address
    PROVE  IP!Less(v, w) <=> Position(v) < Position(w)
BY SameOperators, PositionOfAddress DEF IP!Less, IP!ToInt

LEMMA LessMac ==
    ASSUME type = "mac", NEW g \in Mac!Garbage, NEW v \in Mac!Address, NEW w \in Mac!Address
    PROVE  Mac!Less(v, w, g, g) <=> Position(v) < Position(w)
<1> DEFINE x == g * Numbers[6]
           p == Position(v)
           q == Position(w)
<1>1. x \in Nat /\ p \in Nat /\ q \in Nat
  <2>1. g \in Nat /\ Numbers[6] \in Nat
    BY GarbageType, NumbersType
  <2>2. p \in 0 .. Count - 1 /\ q \in 0 .. Count - 1
    BY PositionsOfAddresses
  <2> QED
    BY <2>1, <2>2
<1>2. Mac!Less(v, w, g, g) <=> p + x < q + x
  BY SameNumbers, SameOperators, PositionOfAddress, AddressTypes DEF Mac!Less, Mac!ToInt
<1> HIDE DEF x, p, q
<1>3. Mac!Less(v, w, g, g) <=> p < q
  BY <1>1, <1>2
<1> QED
  BY <1>3 DEF p, q

LEMMA BetweenIP ==
    ASSUME type = "ip", value \in IP!Address, from \in IP!Address, to \in IP!Address
    PROVE  Ordered(value, from, IP!Less) /\ Between(value, IP!IsBetween)
<1>1. Ordered(value, from, IP!Less)
  BY LessIP DEF Ordered
<1>2. \A v \in {value, from, to} : Position(v) \in Int
  BY PositionsOfAddresses
<1>3. \A b, e \in {from, to} : IP!IsBetween(value, b, e) <=>
        IF Position(e) < Position(b)
        THEN Position(e) < Position(value) /\ Position(value) < Position(b)
        ELSE Position(b) < Position(value) /\ Position(value) < Position(e)
  BY LessIP DEF IP!IsBetween
<1>4. IP!IsBetween(value, from, to) <=> IP!IsBetween(value, to, from)
  BY <1>2, <1>3
<1>5. Position(from) < Position(value) /\ Position(value) < Position(to)
        => IP!IsBetween(value, from, to)
  BY <1>2, <1>3
<1>6. IP!IsBetween(value, from, to) => value \notin {from, to}
  BY <1>2, <1>3
<1> QED
  BY <1>1, <1>4, <1>5, <1>6 DEF Between

LEMMA BetweenMac ==
    ASSUME type = "mac", value \in Mac!Address, from \in Mac!Address, to \in Mac!Address,
           NEW g \in Mac!Garbage
    PROVE  /\ Ordered(value, from, LAMBDA v, w : Mac!Less(v, w, g, g))
           /\ Between(value, LAMBDA v, b, e : Mac!IsBetween(v, b, e, g))
<1>1. Ordered(value, from, LAMBDA v, w : Mac!Less(v, w, g, g))
  BY LessMac DEF Ordered
<1>2. \A v \in {value, from, to} : Position(v) \in Int
  BY PositionsOfAddresses
<1>3. \A b, e \in {from, to} : Mac!IsBetween(value, b, e, g) <=>
        IF Position(e) < Position(b)
        THEN Position(e) < Position(value) /\ Position(value) < Position(b)
        ELSE Position(b) < Position(value) /\ Position(value) < Position(e)
  BY LessMac DEF Mac!IsBetween
<1>4. Mac!IsBetween(value, from, to, g) <=> Mac!IsBetween(value, to, from, g)
  BY <1>2, <1>3
<1>5. Position(from) < Position(value) /\ Position(value) < Position(to)
        => Mac!IsBetween(value, from, to, g)
  BY <1>2, <1>3
<1>6. Mac!IsBetween(value, from, to, g) => value \notin {from, to}
  BY <1>2, <1>3
<1> QED
  BY <1>1, <1>4, <1>5, <1>6 DEF Between

LEMMA IPAgrees ==
    ASSUME type = "ip", value \in IP!Address, from \in IP!Address, to \in IP!Address
    PROVE  /\ \A o \in Orders : IP!ParseBytes(IP!ToBytes(value, o), o) = value
           /\ IP!ParseText(IP!ToText(value)) = value /\ IP!FromPcpp(IP!ToText(value)) = value
           /\ IP!ParseNumber(IP!ToInt(value)) = value
           /\ IP!IsZero(value) <=> Position(value) = 0
           /\ IP!IsBroadcast(value) <=> Position(value) = Count - 1
           /\ IP!IsLoopback(value) <=> IP!ToText(value) = <<ByteValues \div 2 - 1, 0, 0, 1>>
<1>1. /\ 4 \in Sizes /\ value \in Arrays(4) /\ IP!Size = 4 /\ Len(value) = 4
      /\ Reverse(value) \in Arrays(4) /\ Len(Reverse(value)) = 4 /\ Reverse(Reverse(value)) = value
  BY AddressTypes, LengthOfArray, ReverseArray
<1>2. ASSUME NEW o \in Orders
      PROVE  IP!ParseBytes(IP!ToBytes(value, o), o) = value
  BY <1>1, CopyThere DEF IP!ParseBytes, IP!ToBytes
<1>3. IP!HostOrder # IP!NetworkOrder
  BY DEF IP!HostOrder, IP!NetworkOrder
<1>4. IP!ParseText(IP!ToText(value)) = value
  <2>1. \A i \in DOMAIN Reverse(value) : Reverse(value)[i] \in IP!Byte
    BY <1>1, LengthOfArray DEF IP!Byte, Byte, B
  <2> QED
    BY <1>1, <1>3, <2>1, CopyThere, ToTextIsReverse DEF IP!ParseText
<1>5. IP!FromPcpp(IP!ToText(value)) = value
  BY <1>1, <1>3, CopyThere, ToTextIsReverse DEF IP!FromPcpp
<1>6. IP!ParseNumber(IP!ToInt(value)) = value
  <2>1. NumberOf(value) + 0 * Numbers[4] = NumberOf(value)
    <3>1. NumberOf(value) \in 0 .. Numbers[4] - 1 /\ Numbers[4] \in Nat
      BY <1>1, NumberOfType, NumbersType
    <3> QED
      BY <3>1
  <2>2. BytesOf(NumberOf(value) + 0 * Numbers[4], 4) = value
    BY <1>1, BytesOfNumber
  <2> QED
    BY <1>1, <2>1, <2>2, SameOperators DEF IP!ParseNumber, IP!ToInt
<1>7. IP!IsZero(value) <=> Position(value) = 0
  <2>1. IP!Zero = BytesOf(0, 4) /\ BytesOf(0, 4) \in Arrays(4)
        /\ NumberOf(BytesOf(0, 4)) = 0 % Numbers[4]
    BY <1>1, SameOperators, BytesOfType, NumberOfBytes DEF IP!Zero, IP!ParseNumber
  <2>2. Numbers[4] \in Nat \ {0}
    BY NumbersType
  <2>3. 0 % Numbers[4] = 0
    BY <2>2, RemainderOfSmall
  <2> QED
    BY <1>1, <2>1, <2>3, SameNumber, PositionOfAddress, AddressTypes DEF IP!IsZero
<1>8. IP!IsBroadcast(value) <=> Position(value) = Count - 1
  <2> DEFINE a == [i \in 1 .. 4 |-> B - 1]
  <2>1. a \in Arrays(4) /\ \A k \in 1 .. 4 : a[k] = B - 1
    BY NumbersOfBytes DEF Arrays, Byte
  <2> HIDE DEF a
  <2>2. Reverse(a) \in Arrays(4) /\ \A k \in 1 .. 4 : Reverse(a)[k] = B - 1
    <3>1. \A k \in 1 .. 4 : Reverse(a)[k] = a[4 - k + 1] /\ 4 - k + 1 \in 1 .. 4
      BY <1>1, <2>1, ReverseArray
    <3> QED
      BY <1>1, <2>1, <3>1, ReverseArray
  <2>3. NumberOf(Reverse(a)) = Numbers[4] - 1
    BY <1>1, <2>2, GreatestNumber
  <2>4. IP!Broadcast = Reverse(a)
    BY <1>1, <1>3, <2>1, CopyThere, LengthOfArray DEF IP!Broadcast, IP!ParseBytes, a, B
  <2> QED
    BY <1>1, <2>2, <2>3, <2>4, SameNumber, PositionOfAddress, AddressTypes
       DEF IP!IsBroadcast, Count
<1>9. IP!IsLoopback(value) <=> IP!ToText(value) = <<ByteValues \div 2 - 1, 0, 0, 1>>
  <2> DEFINE t == <<ByteValues \div 2 - 1, 0, 0, 1>>
  <2>1. t \in Arrays(4)
    <3>1. ByteValues \in Nat \ {0, 1}
      BY ByteAssumption
    <3>2. ByteValues \div 2 - 1 \in 0 .. ByteValues - 1
      BY <3>1
    <3> QED
      BY <3>1, <3>2 DEF Arrays, Byte, B
  <2>2. Len(t) = 4
    OBVIOUS
  <2> HIDE DEF t
  <2>3. Reverse(Reverse(t)) = t
    BY <1>1, <2>1, ReverseArray
  <2>4. IP!Loopback = Reverse(t)
    BY <1>1, <1>3, <2>2, CopyThere DEF IP!Loopback, IP!ParseBytes, t
  <2>5. value = Reverse(t) <=> Reverse(value) = t
    BY <1>1, <2>3
  <2> QED
    BY <2>4, <2>5, ToTextIsReverse DEF IP!IsLoopback, t
<1> QED
  BY <1>2, <1>4, <1>5, <1>6, <1>7, <1>8, <1>9

LEMMA MacAgrees ==
    ASSUME type = "mac", value \in Mac!Address, from \in Mac!Address, NEW g \in Mac!Garbage
    PROVE  /\ \A o \in Orders : Mac!ParseBytes(Mac!ToBytes(value, o), o) = value
           /\ Mac!ParseText(Mac!ToText(value)) = value /\ Mac!FromPcpp(Mac!ToText(value)) = value
           /\ Mac!ParseNumber(Mac!ToInt(value, g)) = value
           /\ Mac!IsBroadcast(value, from) <=> Position(value) = Count - 1
<1>1. /\ 6 \in Sizes /\ value \in Arrays(6) /\ Mac!Size = 6 /\ Len(value) = 6
      /\ Reverse(value) \in Arrays(6) /\ Len(Reverse(value)) = 6 /\ Reverse(Reverse(value)) = value
  BY AddressTypes, LengthOfArray, ReverseArray
<1>2. ASSUME NEW o \in Orders
      PROVE  Mac!ParseBytes(Mac!ToBytes(value, o), o) = value
  BY <1>1, CopyThere DEF Mac!ParseBytes, Mac!ToBytes
<1>3. Mac!HostOrder # Mac!NetworkOrder
  BY DEF Mac!HostOrder, Mac!NetworkOrder
(* What a text is read as, of numbers that are bytes *)
<1>4. ASSUME NEW a \in Arrays(6)
      PROVE  Mac!ParseText(a) = Reverse(a)
  <2>1. DOMAIN a = 1 .. 6 /\ Len(a) = 6 /\ \A i \in 1 .. 6 : a[i] \in 0 .. B - 1
    BY <1>1, LengthOfArray DEF Byte
  <2>2. \A i \in 1 .. 6 : a[i] % B = a[i]
    BY <2>1, NumbersOfBytes, RemainderOfSmall
  <2>3. [i \in DOMAIN a |-> a[i] % ByteValues] = a
    BY <2>1, <2>2 DEF Arrays, B
  <2> QED
    BY <1>1, <1>3, <2>1, <2>3, CopyThere DEF Mac!ParseText
<1>5. Mac!ParseText(Mac!ToText(value)) = value
  BY <1>1, <1>4, ToTextIsReverse
<1>6. Mac!FromPcpp(Mac!ToText(value)) = value
  BY <1>1, <1>3, CopyThere, ToTextIsReverse DEF Mac!FromPcpp
<1>7. Mac!ParseNumber(Mac!ToInt(value, g)) = value
  BY <1>1, BytesOfNumber, GarbageType, SameNumbers, SameOperators DEF Mac!ParseNumber, Mac!ToInt
<1>8. Mac!IsBroadcast(value, from) <=> Position(value) = Count - 1
  <2> DEFINE a == [i \in 1 .. 6 |-> B - 1]
  <2>1. a \in Arrays(6) /\ \A k \in 1 .. 6 : a[k] = B - 1
    BY NumbersOfBytes DEF Arrays, Byte
  <2>2. Mac!Broadcast = Mac!ParseText(a)
    BY <1>1 DEF Mac!Broadcast, B
  <2> HIDE DEF a
  <2>3. Reverse(a) \in Arrays(6) /\ \A k \in 1 .. 6 : Reverse(a)[k] = B - 1
    <3>1. \A k \in 1 .. 6 : Reverse(a)[k] = a[6 - k + 1] /\ 6 - k + 1 \in 1 .. 6
      BY <1>1, <2>1, ReverseArray
    <3> QED
      BY <1>1, <2>1, <3>1, ReverseArray
  <2>4. NumberOf(Reverse(a)) = Numbers[6] - 1
    BY <1>1, <2>3, GreatestNumber
  <2>5. Mac!Broadcast = Reverse(a)
    BY <1>4, <2>1, <2>2
  <2> QED
    BY <1>1, <2>3, <2>4, <2>5, SameNumber, PositionOfAddress, AddressTypes
       DEF Mac!IsBroadcast, Count
<1> QED
  BY <1>2, <1>5, <1>6, <1>7, <1>8

LEMMA PartAgrees ==
    ASSUME type = "part", Within, value \in MinValue .. MaxValue
    PROVE  /\ Part!Decrement(Part!Increment(value)) = value /\ Part!Construct(value) = value
           /\ Ordered(value, Part!Default, Part!Less)
<1>1. Part!Decrement(Part!Increment(value)) = value
  BY Inverses
<1>2. Part!Construct(value) = value
  BY LimitsAssumption DEF Part!Construct, Part!Wrap
<1>3. Ordered(value, Part!Default, Part!Less)
  BY LimitsAssumption DEF Ordered, Position, Part!Default, Part!Less
<1> QED
  BY <1>1, <1>2, <1>3

(* Conversions of a value have inverses, values are ordered as their texts,    *)
(* and isBetween agrees with the loop: for bytes and integers of any size and  *)
(* any bounds, with limits of which ++ and -- are inverses.                    *)
THEOREM ConversionsAgree ==
    ASSUME Within
    PROVE  Spec => []ValuesAgree
<1>1. MaxWraps
  BY DEF Within, MaxWraps
<1>2. ASSUME IInv
      PROVE  ValuesAgree
  <2>1. value \in Values(type) /\ from \in Values(type) /\ to \in Values(type)
    BY <1>2 DEF IInv, TypeOK
  <2>2. type = "ip" => value \in IP!Address /\ from \in IP!Address /\ to \in IP!Address
    BY <2>1 DEF Values
  <2>3. type = "mac" => value \in Mac!Address /\ from \in Mac!Address /\ to \in Mac!Address
    BY <2>1 DEF Values
  <2>4. type = "part" => value \in MinValue .. MaxValue
    BY <2>1 DEF Values
  <2> QED
    BY <2>2, <2>3, <2>4, IPAgrees, BetweenIP, MacAgrees, BetweenMac, PartAgrees DEF ValuesAgree
<1> QED
  BY <1>1, <1>2, Invariance, PTL
==============================================================================
