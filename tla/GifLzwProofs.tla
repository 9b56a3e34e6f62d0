---------------------------- MODULE GifLzwProofs ----------------------------
(***************************************************************************)
(* What holds of GifLzw for pixels of any number of colours, codes of any  *)
(* length up to 12 bits, tables of any prime size, packets of any length,  *)
(* and any frames: that every code of the dictionary is found again and    *)
(* every search ends, and that a reader of the format gets back from the   *)
(* bytes the pixels that were given.                                       *)
(*                                                                         *)
(* The steps of a search have one length, which a prime table size does    *)
(* not divide; so the search looks at every slot once (ProbesVisitAll),    *)
(* and ends as long as one is empty.  Once a pair is entered where its     *)
(* search ended, nothing before it is ever emptied but by a clear code,    *)
(* and no other pair is entered there.                                     *)
(*                                                                         *)
(* The reader (GifReader) starts when all the bytes are there, and the     *)
(* encoder knows only those it has written.  So the second invariant,      *)
(* ReadInv, is about every completion: whatever data begins with the bits  *)
(* written so far, a reader comes through them to the state that goes with *)
(* the encoder's (Read), one entry of the dictionary behind (Linked), the  *)
(* string that the encoder has not put out yet aside.  The lemmas about    *)
(* the reader, about sub-blocks, about bits and about the dictionary come  *)
(* first; each code that is put out is then a step of the invariant.       *)
(***************************************************************************)
EXTENDS GifReader, FiniteSetTheorems, SequenceTheorems, WellFoundedInduction, TLAPS
-----------------------------------------------------------------------------
(* Powers of two, up to those of the widest pair.                           *)

\* The powers themselves: none of the provers evaluates them.
LEMMA Powers ==
    /\ TwoTo(0) = 1 /\ TwoTo(1) = 2 /\ TwoTo(2) = 4 /\ TwoTo(3) = 8 /\ TwoTo(4) = 16
    /\ TwoTo(5) = 32 /\ TwoTo(6) = 64 /\ TwoTo(7) = 128 /\ TwoTo(8) = 256 /\ TwoTo(9) = 512
    /\ TwoTo(10) = 1024 /\ TwoTo(11) = 2048 /\ TwoTo(12) = 4096 /\ TwoTo(13) = 8192
    /\ TwoTo(14) = 16384 /\ TwoTo(15) = 32768 /\ TwoTo(16) = 65536 /\ TwoTo(17) = 131072
    /\ TwoTo(18) = 262144 /\ TwoTo(19) = 524288 /\ TwoTo(20) = 1048576 /\ TwoTo(21) = 2097152
  BY DEF TwoTo

\* Each power is twice the one before.
LEMMA PowerNext ==
    ASSUME NEW n \in 0..20
    PROVE  TwoTo(n) \in Nat /\ TwoTo(n) > 0 /\ TwoTo(n + 1) = 2 * TwoTo(n)
<1>1. \/ n = 0 \/ n = 1 \/ n = 2 \/ n = 3 \/ n = 4 \/ n = 5 \/ n = 6 \/ n = 7 \/ n = 8 \/ n = 9
      \/ n = 10 \/ n = 11 \/ n = 12 \/ n = 13 \/ n = 14 \/ n = 15 \/ n = 16 \/ n = 17 \/ n = 18
      \/ n = 19 \/ n = 20
  OBVIOUS
<1> QED
  BY <1>1, Powers

\* The powers of a sum.
LEMMA PowerAdds ==
    ASSUME NEW n \in 0..12, NEW m \in 2..8
    PROVE  TwoTo(n + m) = TwoTo(n) * TwoTo(m)
<1>1. /\ TwoTo(n) \in Nat
      /\ TwoTo(n + 1) = 2 * TwoTo(n)
      /\ TwoTo(n + 2) = 2 * TwoTo(n + 1) /\ TwoTo(n + 3) = 2 * TwoTo(n + 2)
      /\ TwoTo(n + 4) = 2 * TwoTo(n + 3) /\ TwoTo(n + 5) = 2 * TwoTo(n + 4)
      /\ TwoTo(n + 6) = 2 * TwoTo(n + 5) /\ TwoTo(n + 7) = 2 * TwoTo(n + 6)
      /\ TwoTo(n + 8) = 2 * TwoTo(n + 7)
  <2>1. \A i \in 0..7 : TwoTo(n + (i + 1)) = 2 * TwoTo(n + i)
    <3>1. \A i \in 0..7 : n + i \in 0..20 /\ n + (i + 1) = (n + i) + 1
      OBVIOUS
    <3> QED
      BY <3>1, PowerNext
  <2>2. TwoTo(n) \in Nat /\ n + 0 = n
    BY PowerNext
  <2> QED
    BY <2>1, <2>2
<1>2. m = 2 \/ m = 3 \/ m = 4 \/ m = 5 \/ m = 6 \/ m = 7 \/ m = 8
  OBVIOUS
<1>3. CASE m \in {2, 3, 4}
  BY <1>1, <1>3, Powers
<1>4. CASE m \in {5, 6, 7, 8}
  BY <1>1, <1>4, Powers
<1> QED
  BY <1>2, <1>3, <1>4

\* What the sizes have to do with one another.
LEMMA Sizes ==
    /\ InitCodeSize \in 2..8 /\ MaxBits \in 4..12 /\ hshift \in 2..10
    /\ maxmaxcode \in Nat /\ ClearCode \in Nat /\ ClearCode >= 4
    /\ maxmaxcode = ClearCode * TwoTo(hshift) /\ TwoTo(hshift) \in Nat
    /\ ClearCode + 2 <= maxmaxcode
    /\ TwoTo(MaxBits + InitCodeSize) = ClearCode * maxmaxcode
    /\ HSize \in Nat /\ maxmaxcode < HSize
<1>1. InitCodeSize \in 2..8 /\ MaxBits \in 4..12 /\ hshift \in 2..10
  BY SizeAssumption DEF hshift
<1>2. maxmaxcode \in Nat /\ ClearCode \in Nat /\ TwoTo(hshift) \in Nat
  BY <1>1, PowerNext DEF maxmaxcode, ClearCode
<1>3. ClearCode >= 4
  <2>1. \/ InitCodeSize = 2 \/ InitCodeSize = 3 \/ InitCodeSize = 4 \/ InitCodeSize = 5
        \/ InitCodeSize = 6 \/ InitCodeSize = 7 \/ InitCodeSize = 8
    BY <1>1
  <2> QED
    BY <2>1, Powers DEF ClearCode
<1>4. maxmaxcode = TwoTo(hshift) * ClearCode
  <2>1. hshift + InitCodeSize = MaxBits
    BY <1>1 DEF hshift
  <2>2. TwoTo(hshift + InitCodeSize) = TwoTo(hshift) * TwoTo(InitCodeSize)
    BY <1>1, PowerAdds
  <2> QED
    BY <2>1, <2>2 DEF maxmaxcode, ClearCode
<1>5. TwoTo(hshift) >= 2
  <2>1. hshift - 1 \in 0..20 /\ hshift = (hshift - 1) + 1
    BY <1>1
  <2>2. TwoTo(hshift) = 2 * TwoTo(hshift - 1) /\ TwoTo(hshift - 1) \in Nat /\ TwoTo(hshift - 1) > 0
    BY <2>1, PowerNext
  <2> QED
    BY <2>2
<1>6. maxmaxcode >= 2 * ClearCode
  BY <1>2, <1>4, <1>5
<1>7. TwoTo(MaxBits + InitCodeSize) = maxmaxcode * ClearCode
  BY <1>1, PowerAdds DEF maxmaxcode, ClearCode
<1>8. HSize \in Nat /\ maxmaxcode < HSize
  BY <1>2, SizeAssumption DEF maxmaxcode
<1> QED
  BY <1>1, <1>2, <1>3, <1>4, <1>6, <1>7, <1>8
-----------------------------------------------------------------------------
(* The search.                                                              *)

\* Any set of numbers has a least one.
LEMMA LeastNumber ==
    ASSUME NEW S, S \subseteq Nat, S # {}
    PROVE  \E x \in S : \A y \in S : x <= y
<1> DEFINE R == {s \in Nat \X Nat : s[1] < s[2]}
<1>1. IsWellFoundedOn(R, Nat)
  BY NatLessThanWellFounded, Zenon DEF OpToRel
<1>2. \E x \in S : \A y \in S : ~(<<y, x>> \in R)
  <2> HIDE DEF R
  <2> QED
    BY <1>1, WFMin
<1>3. PICK x \in S : \A y \in S : ~(<<y, x>> \in R)
  BY <1>2
<1>4. \A y \in S : x <= y
  <2> SUFFICES ASSUME NEW y \in S PROVE x <= y
    OBVIOUS
  <2>1. x \in Nat /\ y \in Nat
    OBVIOUS
  <2>2. ~(y < x)
    BY <1>3, <2>1
  <2> QED
    BY <2>1, <2>2
<1> QED
  BY <1>4

\* Quotient and remainder.
LEMMA Division ==
    ASSUME NEW x \in Int, NEW M \in Nat, M > 0
    PROVE  \E q \in Int, r \in 0..(M - 1) : q = x \div M /\ r = x % M /\ x = q * M + r
  OBVIOUS

\* What is shifted down is a number, and its low byte a byte.
LEMMA LowByte ==
    ASSUME NEW x \in Nat, NEW t \in Nat, t > 0
    PROVE  x \div t \in Nat /\ (x \div t) % 256 \in 0..255
<1>1. x \div t \in Nat
  OBVIOUS
<1>2. \A q \in Nat : q % 256 \in 0..255
  OBVIOUS
<1> QED
  BY <1>1, <1>2, Zenon

\* A prime divides no product of two smaller numbers.
LEMMA PrimeDividesNoProduct ==
    ASSUME NEW a \in 1..(HSize - 1), NEW d \in 1..(HSize - 1), NEW q \in Int, a * d = HSize * q
    PROVE  FALSE
<1> DEFINE S == {e \in 1..(HSize - 1) : \E n \in Int : a * e = HSize * n}
<1>1. d \in S /\ S \subseteq Nat /\ HSize \in Nat
  BY Sizes
<1>2. PICK e \in S : \A y \in S : e <= y
  <2> HIDE DEF S
  <2> QED
    BY <1>1, LeastNumber
<1>3. e \in 1..(HSize - 1)
  OBVIOUS
<1>4. PICK n \in Int : a * e = HSize * n
  OBVIOUS
<1>5. CASE e = 1
  <2>1. a = HSize * n
    BY <1>4, <1>5
  <2>2. CASE n <= 0
    BY <1>1, <2>1, <2>2
  <2>3. CASE n >= 1
    BY <1>1, <2>1, <2>3
  <2> QED
    BY <2>2, <2>3
<1>6. CASE e # 1
  <2> DEFINE r == HSize % e
             t == HSize \div e
  <2>1. r # 0
    <3>1. e \in 2..(HSize - 1)
      BY <1>1, <1>3, <1>6
    <3>2. \A m \in 2..(HSize - 1) : HSize % m # 0
      BY SizeAssumption
    <3> QED
      BY <3>1, <3>2, Zenon
  <2>2. r \in 0..(e - 1) /\ t \in Int /\ HSize = t * e + r
    BY <1>1, <1>3
  <2> HIDE DEF r, t
  <2>3. a * r = HSize * (a - t * n)
    <3>1. a * r = a * HSize - t * (a * e)
      BY <1>1, <1>3, <2>2
    <3>2. t * (a * e) = HSize * (t * n)
      BY <1>1, <1>4, <2>2
    <3> QED
      BY <1>1, <2>2, <3>1, <3>2
  <2>4. r \in S
    <3>1. r \in 1..(HSize - 1) /\ a - t * n \in Int
      BY <1>1, <1>3, <2>1, <2>2
    <3> QED
      BY <2>3, <3>1
  <2>5. e <= r
    BY <1>2, <2>4
  <2> QED
    BY <1>3, <2>2, <2>5
<1> QED
  BY <1>5, <1>6

-----------------------------------------------------------------------------
(* The steps of a search.                                                   *)

Slots == 0..(HSize - 1)
Codes == 0..(maxmaxcode - 1)
Indexes == 0..(ClearCode - 1)
Pairs == 0..(TwoTo(MaxBits + InitCodeSize) - 1)

\* The search goes through the table in steps of one length.
LEMMA ProbeSteps ==
    ASSUME NEW prefix \in Codes, NEW c \in Indexes
    PROVE  \E i \in Slots, d \in 1..(HSize - 1) :
               \A j \in Slots : Probe(prefix, c, j) = (i - j * d) % HSize
<1> DEFINE i == xor(c * TwoTo(hshift), prefix)
           d == IF i = 0 THEN 1 ELSE HSize - i
<1>1. c * TwoTo(hshift) \in Codes
  <2>1. \A x, y, z \in Nat : x <= y - 1 /\ y >= 1 /\ z >= 1 => x * z <= y * z - 1
    <3>1. \A x, y, z \in Nat : x <= y - 1 /\ y >= 1 /\ z >= 1 => x * z <= (y - 1) * z
      OBVIOUS
    <3>2. \A y, z \in Nat : (y - 1) * z = y * z - z
      OBVIOUS
    <3>3. \A x, z \in Nat : x * z \in Nat
      OBVIOUS
    <3> QED
      BY <3>1, <3>2, <3>3
  <2>2. TwoTo(hshift) >= 1
    BY Sizes, PowerNext
  <2>3. c * TwoTo(hshift) \in Nat
    BY Sizes DEF Indexes
  <2> QED
    BY <2>1, <2>2, <2>3, Sizes DEF Codes, Indexes
<1>2. i \in Codes
  BY <1>1, XorAssumption DEF Codes, maxmaxcode
<1>3. i \in Slots /\ d \in 1..(HSize - 1)
  <2> HIDE DEF i
  <2> QED
    BY <1>2, Sizes DEF Codes, Slots
<1>4. \A j \in Slots : Probe(prefix, c, j) = (i - j * d) % HSize
  BY DEF Probe
<1> QED
  <2> HIDE DEF i, d
  <2> QED
    BY <1>3, <1>4

\* It looks at no slot twice, so that it looks at all of them.
LEMMA ProbesVisitAll ==
    ASSUME NEW prefix \in Codes, NEW c \in Indexes
    PROVE  /\ \A j \in Slots : Probe(prefix, c, j) \in Slots
           /\ \A j, k \in Slots : j < k => Probe(prefix, c, j) # Probe(prefix, c, k)
           /\ \A s \in Slots : \E j \in Slots : Probe(prefix, c, j) = s
<1> DEFINE P(j) == Probe(prefix, c, j)
<1>1. PICK i \in Slots, d \in 1..(HSize - 1) : \A j \in Slots : P(j) = (i - j * d) % HSize
  BY ProbeSteps
<1> HIDE DEF P
<1>2. HSize \in Nat /\ HSize > 1
  BY Sizes
<1>3. \A x \in Int : \E q \in Int, r \in Slots : r = x % HSize /\ x = HSize * q + r
  <2> SUFFICES ASSUME NEW x \in Int
               PROVE  \E q \in Int, r \in Slots : r = x % HSize /\ x = HSize * q + r
    OBVIOUS
  <2>1. PICK q \in Int, r \in Slots : r = x % HSize /\ x = q * HSize + r
    BY <1>2, Division DEF Slots
  <2>2. x = HSize * q + r
    BY <1>2, <2>1 DEF Slots
  <2> QED
    BY <2>1, <2>2, Zenon
<1>4. \A j \in Slots : i - j * d \in Int
  BY <1>2 DEF Slots
<1>5. \A j \in Slots : P(j) \in Slots
  BY <1>1, <1>3, <1>4
<1>6. ASSUME NEW j \in Slots, NEW k \in Slots, j < k PROVE P(j) # P(k)
  <2> SUFFICES ASSUME P(j) = P(k) PROVE FALSE
    OBVIOUS
  <2>1. PICK m \in Int : i - j * d = HSize * m + P(j)
    <3>1. i - j * d \in Int
      BY <1>4
    <3> QED
      BY <1>1, <1>3, <3>1, Zenon
  <2>2. PICK n \in Int : i - k * d = HSize * n + P(k)
    <3>1. i - k * d \in Int
      BY <1>4
    <3> QED
      BY <1>1, <1>3, <3>1, Zenon
  <2>3. P(j) \in Int
    BY <1>2, <1>5 DEF Slots
  <2>4. i \in Int /\ j \in Int /\ k \in Int /\ d \in Int /\ HSize \in Int
    BY <1>2 DEF Slots
  <2>5. k * d - j * d = HSize * m - HSize * n
    <3>1. k * d \in Int /\ j * d \in Int /\ HSize * m \in Int /\ HSize * n \in Int
      BY <2>1, <2>4
    <3> QED
      BY <2>1, <2>2, <2>3, <2>4, <3>1
  <2>6. (k - j) * d = HSize * (m - n)
    BY <2>1, <2>4, <2>5
  <2>7. k - j \in 1..(HSize - 1) /\ m - n \in Int
    BY <1>2, <1>6, <2>1 DEF Slots
  <2> QED
    BY <2>6, <2>7, PrimeDividesNoProduct
<1>7. ASSUME NEW s \in Slots PROVE \E j \in Slots : P(j) = s
  <2> DEFINE f == [j \in Slots |-> P(j)]
  <2>1. \A j, k \in Slots : P(j) = P(k) => j = k
    <3>1. \A j, k \in Slots : j < k \/ k < j \/ j = k
      BY <1>2 DEF Slots
    <3> QED
      BY <1>6, <3>1
  <2>2. f \in Injection(Slots, Slots)
    BY <1>5, <2>1 DEF Injection, IsInjective
  <2>3. IsFiniteSet(Slots)
    BY <1>2, FS_Interval DEF Slots
  <2>4. f \in Surjection(Slots, Slots)
    BY <2>2, <2>3, FS_Injection
  <2>5. \E j \in Slots : f[j] = s
    BY <2>4 DEF Surjection
  <2> QED
    BY <2>5
<1> QED
  BY <1>5, <1>6, <1>7 DEF P

\* A pair in one number, and back.
LEMMA PairCodes ==
    /\ \A p \in Codes, c \in Indexes :
           /\ fcode(p, c) \in Pairs
           /\ prefix_of(fcode(p, c)) = p /\ pixel_of(fcode(p, c)) = c
    /\ \A x \in Pairs :
           /\ prefix_of(x) \in Codes /\ pixel_of(x) \in Indexes
           /\ fcode(prefix_of(x), pixel_of(x)) = x
<1>1. maxmaxcode \in Nat /\ maxmaxcode >= 1 /\ ClearCode \in Nat /\ ClearCode >= 1
  BY Sizes
<1>2. Pairs = 0..(ClearCode * maxmaxcode - 1)
  BY Sizes DEF Pairs
<1>3. ASSUME NEW M \in Nat, NEW n \in Nat, M >= 1, n >= 1,
             NEW p \in 0..(M - 1), NEW c \in 0..(n - 1)
      PROVE  c * M + p \in 0..(n * M - 1) /\ (c * M + p) % M = p /\ (c * M + p) \div M = c
  <2>1. c * M <= n * M - M /\ c * M \in Nat /\ n * M \in Nat
    <3>1. c * M <= (n - 1) * M
      BY <1>3
    <3>2. (n - 1) * M = n * M - M
      BY <1>3
    <3> QED
      BY <1>3, <3>1, <3>2
  <2>2. c * M + p \in 0..(n * M - 1)
    BY <1>3, <2>1
  <2>3. (c * M + p) % M = p /\ (c * M + p) \div M = c
    BY <1>3
  <2> QED
    BY <2>2, <2>3
<1>4. ASSUME NEW M \in Nat, NEW n \in Nat, M >= 1, n >= 1, NEW x \in 0..(n * M - 1)
      PROVE  \E q \in 0..(n - 1), r \in 0..(M - 1) : q = x \div M /\ r = x % M /\ q * M + r = x
  <2>1. n * M \in Nat
    BY <1>4
  <2>2. x \in Nat /\ x < n * M
    BY <2>1
  <2>3. PICK q \in Int, r \in 0..(M - 1) : q = x \div M /\ r = x % M /\ x = q * M + r
    BY <1>4, <2>2, Division
  <2>4. q >= 0
    <3> SUFFICES ASSUME q <= -1 PROVE FALSE
      OBVIOUS
    <3>1. q * M <= (-1) * M
      BY <1>4
    <3>2. q * M \in Int
      BY <1>4
    <3> QED
      BY <1>4, <2>2, <2>3, <3>1, <3>2
  <2>5. q < n
    <3> SUFFICES ASSUME q >= n PROVE FALSE
      BY <1>4
    <3>1. n * M <= q * M
      BY <1>4
    <3>2. q * M \in Int
      BY <1>4
    <3> QED
      BY <2>1, <2>2, <2>3, <3>1, <3>2
  <2>6. r \in 0..(M - 1) /\ q \in 0..(n - 1) /\ q * M + r = x
    BY <1>4, <2>3, <2>4, <2>5
  <2> QED
    BY <2>3, <2>6, Zenon
<1>5. ASSUME NEW p \in Codes, NEW c \in Indexes
      PROVE  /\ fcode(p, c) \in Pairs
             /\ prefix_of(fcode(p, c)) = p /\ pixel_of(fcode(p, c)) = c
  <2>1. /\ c * maxmaxcode + p \in Pairs
        /\ (c * maxmaxcode + p) % maxmaxcode = p /\ (c * maxmaxcode + p) \div maxmaxcode = c
    BY <1>1, <1>2, <1>3 DEF Codes, Indexes
  <2> QED
    BY <2>1, Zenon DEF fcode, prefix_of, pixel_of, maxmaxcode
<1>6. ASSUME NEW x \in Pairs
      PROVE  /\ prefix_of(x) \in Codes /\ pixel_of(x) \in Indexes
             /\ fcode(prefix_of(x), pixel_of(x)) = x
  <2>1. PICK q \in Indexes, r \in Codes : q = x \div maxmaxcode /\ r = x % maxmaxcode
                                         /\ q * maxmaxcode + r = x
    BY <1>1, <1>2, <1>4 DEF Codes, Indexes
  <2>2. prefix_of(x) = r /\ pixel_of(x) = q /\ fcode(r, q) = x
    BY <2>1 DEF fcode, prefix_of, pixel_of, maxmaxcode
  <2> QED
    BY <2>2
<1> QED
  BY <1>5, <1>6

\* Where a search ends: it has passed only slots in use that hold other pairs.
LEMMA SlotIsFirst ==
    ASSUME NEW table, NEW p \in Codes, NEW c \in Indexes, SearchEnds(table, p, c)
    PROVE  \E j \in Slots :
               /\ Slot(table, p, c) = Probe(p, c, j) /\ Probe(p, c, j) \in Slots
               /\ table[Probe(p, c, j)] \in {fcode(p, c), Free}
               /\ \A k \in 0..(j - 1) :
                      k \in Slots /\ table[Probe(p, c, k)] \notin {fcode(p, c), Free}
<1> DEFINE S == {j \in Slots : StopsAt(table, p, c, j)}
           First(j) == StopsAt(table, p, c, j) /\ \A k \in 0..(j - 1) : ~StopsAt(table, p, c, k)
<1>1. HSize \in Nat
  BY Sizes
<1>2. S # {} /\ S \subseteq Nat
  BY <1>1 DEF SearchEnds, Slots
<1>3. \E j \in S : \A k \in S : j <= k
  <2> HIDE DEF S
  <2> QED
    BY <1>2, LeastNumber
<1>4. \E j \in Slots : First(j)
  <2>1. PICK j \in S : \A k \in S : j <= k
    BY <1>3
  <2>2. \A k \in 0..(j - 1) : k \in Slots /\ ~(j <= k)
    BY <1>1, <2>1 DEF Slots
  <2> QED
    BY <2>1, <2>2
<1> DEFINE j == CHOOSE m \in Slots : First(m)
<1>5. j \in Slots /\ First(j)
  <2> HIDE DEF First
  <2> QED
    BY <1>4
<1>6. Slot(table, p, c) = Probe(p, c, j)
  BY DEF Slot, Slots
<1> HIDE DEF j
<1>7. \A k \in 0..(j - 1) : k \in Slots
  BY <1>1, <1>5 DEF Slots
<1> QED
  BY <1>5, <1>6, <1>7, ProbesVisitAll DEF StopsAt

\* An empty slot anywhere ends every search.
LEMMA EmptySlotEndsSearch ==
    ASSUME NEW table, NEW s \in Slots, table[s] = Free, NEW p \in Codes, NEW c \in Indexes
    PROVE  SearchEnds(table, p, c)
  BY ProbesVisitAll DEF SearchEnds, StopsAt, Slots

\* The search for the pair x that a slot holds, where it gets there, ends there.
LEMMA SearchFinds ==
    ASSUME NEW table, NEW x \in Pairs, NEW j \in Slots,
           table[Probe(prefix_of(x), pixel_of(x), j)] = x,
           \A k \in 0..(j - 1) : table[Probe(prefix_of(x), pixel_of(x), k)] \notin {x, Free}
    PROVE  Slot(table, prefix_of(x), pixel_of(x)) = Probe(prefix_of(x), pixel_of(x), j)
<1> DEFINE p == prefix_of(x)
           c == pixel_of(x)
<1>1. p \in Codes /\ c \in Indexes /\ fcode(p, c) = x
  BY PairCodes
<1> HIDE DEF p, c
<1>2. \A k \in 0..(j - 1) : table[Probe(p, c, k)] \notin {x, Free}
  BY DEF p, c
<1>3. table[Probe(p, c, j)] = x
  BY DEF p, c
<1>4. SearchEnds(table, p, c)
  BY <1>1, <1>3 DEF SearchEnds, StopsAt, Slots
<1>5. PICK m \in Slots :
          /\ Slot(table, p, c) = Probe(p, c, m)
          /\ table[Probe(p, c, m)] \in {x, Free}
          /\ \A k \in 0..(m - 1) : table[Probe(p, c, k)] \notin {x, Free}
  BY <1>1, <1>4, SlotIsFirst
<1>6. m = j
  <2>1. m \in Nat /\ j \in Nat
    BY Sizes DEF Slots
  <2>2. m \notin 0..(j - 1)
    BY <1>2, <1>5
  <2>3. j \notin 0..(m - 1)
    BY <1>3, <1>5
  <2> QED
    BY <2>1, <2>2, <2>3
<1> QED
  BY <1>5, <1>6 DEF p, c

\* A table with fewer pairs than slots has an empty one.
LEMMA TableHasRoom ==
    ASSUME NEW table \in [Slots -> {Free} \union Pairs],
           Cardinality({i \in Slots : table[i] # Free}) < HSize
    PROVE  \E s \in Slots : table[s] = Free
<1> SUFFICES ASSUME \A s \in Slots : table[s] # Free
             PROVE  FALSE
  OBVIOUS
<1>1. {i \in Slots : table[i] # Free} = Slots
  OBVIOUS
<1>2. Cardinality(Slots) = HSize
  <2>1. HSize \in Nat /\ HSize > 0
    BY Sizes
  <2> QED
    BY <2>1, FS_Interval DEF Slots
<1> QED
  BY <1>1, <1>2, Sizes
-----------------------------------------------------------------------------
(* Putting codes out.                                                       *)

\* A writer is made of its fields.
LEMMA WriterOf ==
    ASSUME NEW acc \in Nat, NEW bits \in Int, NEW packet \in Seq(0..255), NEW bytes \in Seq(0..255),
           NEW n \in g_init_bits..MaxBits, NEW limit \in Nat, NEW flg \in BOOLEAN
    PROVE  [cur_accum |-> acc, cur_bits |-> bits, accum |-> packet, outs |-> bytes,
            n_bits |-> n, maxcode |-> limit, clear_flg |-> flg] \in Writers
  BY DEF Writers

\* And has these fields.
LEMMA WriterFields ==
    ASSUME NEW w \in Writers
    PROVE  /\ w.cur_accum \in Nat /\ w.cur_bits \in Int
           /\ w.accum \in Seq(0..255) /\ w.outs \in Seq(0..255)
           /\ w.n_bits \in g_init_bits..MaxBits /\ w.maxcode \in Nat /\ w.clear_flg \in BOOLEAN
  BY DEF Writers

\* Only the bytes differ.
Same(v, w) ==
    /\ v.cur_accum = w.cur_accum /\ v.cur_bits = w.cur_bits
    /\ v.n_bits = w.n_bits /\ v.maxcode = w.maxcode /\ v.clear_flg = w.clear_flg

\* A packet that is full at most is written, and room is left in the next.
LEMMA FlushChar ==
    ASSUME NEW w \in Writers, Len(w.accum) <= PacketSize
    PROVE  /\ flush_char(w) \in Writers /\ Len(flush_char(w).accum) < PacketSize
           /\ Same(flush_char(w), w)
<1>1. PacketSize \in 1..255
  BY SizeAssumption
<1>2. w.accum \in Seq(0..255) /\ w.outs \in Seq(0..255)
  BY DEF Writers
<1>3. \A bytes \in Seq(0..255) : Len(bytes) \in Nat
  OBVIOUS
<1>4. CASE w.accum = <<>>
  <2>1. flush_char(w) = w
    BY <1>4 DEF flush_char
  <2>2. Len(w.accum) = 0
    BY <1>4
  <2> QED
    BY <1>1, <2>1, <2>2 DEF Same
<1>5. CASE w.accum # <<>>
  <2> DEFINE bytes == (w.outs \o <<Len(w.accum)>>) \o w.accum
  <2>1. Len(w.accum) \in 0..255
    <3>1. Len(w.accum) \in Nat
      BY <1>2, <1>3
    <3> DEFINE n == Len(w.accum)
    <3>2. n \in Nat /\ n <= PacketSize
      BY <3>1
    <3> HIDE DEF n
    <3>3. n \in 0..255
      BY <1>1, <3>2
    <3> QED
      BY <3>3 DEF n
  <2>2. bytes \in Seq(0..255)
    <3>1. <<Len(w.accum)>> \in Seq(0..255)
      <4>1. \A n \in 0..255 : <<n>> \in Seq(0..255)
        OBVIOUS
      <4> QED
        BY <2>1, <4>1, Zenon
    <3>2. \A s, t, u \in Seq(0..255) : (s \o t) \o u \in Seq(0..255)
      OBVIOUS
    <3> QED
      BY <1>2, <3>1, <3>2
  <2>3. flush_char(w) = [w EXCEPT !.outs = bytes, !.accum = <<>>]
    BY <1>5 DEF flush_char
  <2> HIDE DEF bytes
  <2>4. <<>> \in Seq(0..255) /\ Len(<<>>) = 0
    OBVIOUS
  <2>5. flush_char(w) \in Writers
    BY <2>2, <2>3, <2>4 DEF Writers
  <2>6. flush_char(w).accum = <<>> /\ Same(flush_char(w), w)
    BY <2>3 DEF Writers, Same
  <2>7. Len(flush_char(w).accum) = 0
    BY <2>4, <2>6
  <2> QED
    BY <1>1, <2>5, <2>6, <2>7
<1> QED
  BY <1>4, <1>5

\* So is one that a byte fills.
LEMMA CharOut ==
    ASSUME NEW w \in Writers, Len(w.accum) < PacketSize, NEW b \in 0..255
    PROVE  /\ char_out(w, b) \in Writers /\ Len(char_out(w, b).accum) < PacketSize
           /\ Same(char_out(w, b), w)
<1> DEFINE w1 == [w EXCEPT !.accum = Append(@, b)]
<1>1. w.accum \in Seq(0..255) /\ PacketSize \in Nat
  BY SizeAssumption DEF Writers
<1>2. Append(w.accum, b) \in Seq(0..255) /\ Len(Append(w.accum, b)) = Len(w.accum) + 1
  BY <1>1
<1>3. w1 \in Writers /\ w1.accum = Append(w.accum, b) /\ Same(w1, w)
  BY <1>2 DEF Writers, Same
<1>4. Len(w1.accum) \in Nat /\ Len(w1.accum) <= PacketSize
  BY <1>1, <1>2, <1>3
<1>5. char_out(w, b) = IF Len(w1.accum) >= PacketSize THEN flush_char(w1) ELSE w1
  BY DEF char_out
<1> HIDE DEF w1
<1>6. CASE Len(w1.accum) >= PacketSize
  <2>1. char_out(w, b) = flush_char(w1)
    BY <1>5, <1>6
  <2> QED
    BY <1>3, <1>4, <2>1, FlushChar DEF Same
<1>7. CASE ~(Len(w1.accum) >= PacketSize)
  <2>1. char_out(w, b) = w1
    BY <1>5, <1>7
  <2>2. Len(w1.accum) < PacketSize
    BY <1>1, <1>4, <1>7
  <2> QED
    BY <1>3, <2>1, <2>2
<1> QED
  BY <1>6, <1>7

\* How many bytes the loops of output() put out, and the bits they leave.
LEMMA BytesToPut ==
    ASSUME NEW bits \in -7..19, NEW rest \in {0, 7}, rest = 0 => bits <= 7
    PROVE  LET count == IF bits <= rest THEN 0 ELSE (bits - rest + 7) \div 8
           IN  /\ count \in 0..2
               /\ rest = 7 /\ bits \in 0..19 => bits - 8 * count \in 0..7
               /\ rest = 0 => bits - 8 * count \in -7..0
<1>1. CASE rest = 7
  <2>1. CASE bits <= 7
    BY <1>1, <2>1
  <2>2. CASE bits \in 8..19
    <3>1. \A b \in 8..19 : (b - 7 + 7) \div 8 \in 0..2 /\ b - 8 * ((b - 7 + 7) \div 8) \in 0..7
      OBVIOUS
    <3> QED
      BY <1>1, <2>2, <3>1
  <2> QED
    BY <2>1, <2>2
<1>2. CASE rest = 0
  <2>1. CASE bits <= 0
    BY <1>2, <2>1
  <2>2. CASE bits \in 1..7
    <3>1. \A b \in 1..7 : (b - 0 + 7) \div 8 \in 0..2 /\ b - 8 * ((b - 0 + 7) \div 8) \in -7..0
      OBVIOUS
    <3> QED
      BY <1>2, <2>2, <3>1
  <2> QED
    BY <1>2, <2>1, <2>2
<1> QED
  BY <1>1, <1>2

\* The bytes that the loops of output() put out: their number, each of them, the writer
\* behind them.
ShiftCount(w, rest) == IF w.cur_bits <= rest THEN 0 ELSE (w.cur_bits - rest + 7) \div 8
ByteOf(w, k) == (w.cur_accum \div TwoTo(8 * k)) % 256
PutBytes(w, count) ==
    IF count = 0 THEN w
    ELSE IF count = 1 THEN char_out(w, ByteOf(w, 0))
    ELSE char_out(char_out(w, ByteOf(w, 0)), ByteOf(w, 1))

\* output() puts out the bytes that are full, and no others.
LEMMA ShiftOutIs ==
    ASSUME NEW w \in Writers, Len(w.accum) < PacketSize, NEW rest \in {0, 7},
           w.cur_bits \in -7..19, rest = 0 => w.cur_bits <= 7
    PROVE  LET v == ShiftOut(w, rest)
               count == ShiftCount(w, rest)
               last == PutBytes(w, count)
           IN  /\ count \in 0..2 /\ \A k \in 0..1 : ByteOf(w, k) \in 0..255
               /\ last \in Writers /\ Len(last.accum) < PacketSize /\ Same(last, w)
               /\ v \in Writers /\ v.accum = last.accum /\ v.outs = last.outs
               /\ v.cur_accum = w.cur_accum \div TwoTo(8 * count)
               /\ v.cur_bits = w.cur_bits - 8 * count
               /\ v.n_bits = w.n_bits /\ v.maxcode = w.maxcode /\ v.clear_flg = w.clear_flg
<1> DEFINE count == ShiftCount(w, rest)
           Byte(k) == ByteOf(w, k)
           Entry(g, k) == IF k = 0 THEN w ELSE char_out(g[k - 1], Byte(k - 1))
           after == CHOOSE g : g = [k \in 0..count |-> Entry(g, k)]
           last == after[count]
<1>1. w.cur_bits \in Int /\ w.cur_accum \in Nat
  BY DEF Writers
<1>2. count \in 0..2
  BY BytesToPut DEF ShiftCount
<1>3. ShiftOut(w, rest) = [last EXCEPT !.cur_accum = @ \div TwoTo(8 * count),
                                      !.cur_bits = @ - 8 * count]
  BY DEF ShiftOut, ShiftCount, ByteOf
<1>4. ASSUME NEW k \in 0..1 PROVE Byte(k) \in 0..255
  <2>1. 8 * k \in 0..20
    OBVIOUS
  <2>2. TwoTo(8 * k) \in Nat /\ TwoTo(8 * k) > 0
    BY <2>1, PowerNext
  <2> QED
    BY <1>1, <2>2, LowByte DEF ByteOf
<1> HIDE DEF count, Byte
<1>5. after = [k \in 0..count |-> Entry(after, k)]
  <2> DEFINE one == char_out(w, Byte(0))
             f == [k \in 0..count |-> IF k = 0 THEN w
                                      ELSE IF k = 1 THEN one ELSE char_out(one, Byte(1))]
  <2>1. f = [k \in 0..count |-> Entry(f, k)]
    <3>1. ASSUME NEW k \in 0..count PROVE f[k] = Entry(f, k)
      <4>1. CASE k = 0
        BY <4>1
      <4>2. CASE k = 1
        <5>1. 0 \in 0..count /\ k - 1 = 0
          BY <1>2, <4>2
        <5> QED
          BY <4>2, <5>1
      <4>3. CASE k = 2
        <5>1. 1 \in 0..count /\ k - 1 = 1
          BY <1>2, <4>3
        <5> QED
          BY <4>3, <5>1
      <4> QED
        BY <1>2, <4>1, <4>2, <4>3
    <3> QED
      BY <3>1
  <2>2. \E g : g = [k \in 0..count |-> Entry(g, k)]
    BY <2>1
  <2> HIDE DEF Entry, f
  <2> QED
    BY <2>2
<1> HIDE DEF after
<1> DEFINE Good(v) == v \in Writers /\ Len(v.accum) < PacketSize /\ Same(v, w)
<1>6. ASSUME NEW v, Good(v), NEW k \in 0..1 PROVE Good(char_out(v, Byte(k)))
  <2>1. Byte(k) \in 0..255
    BY <1>4
  <2>2. /\ char_out(v, Byte(k)) \in Writers /\ Len(char_out(v, Byte(k)).accum) < PacketSize
        /\ Same(char_out(v, Byte(k)), v) /\ Same(v, w)
    BY <1>6, <2>1, CharOut
  <2> QED
    BY <2>2 DEF Same
<1>7. Good(last)
  <2>1. Good(after[0])
    <3>1. after[0] = w
      BY <1>2, <1>5
    <3> QED
      BY <3>1 DEF Same
  <2>2. count >= 1 => Good(after[1])
    <3> SUFFICES ASSUME count >= 1 PROVE Good(after[1])
      OBVIOUS
    <3>1. after[1] = char_out(after[0], Byte(0))
      BY <1>2, <1>5
    <3> HIDE DEF Good
    <3> QED
      BY <1>6, <2>1, <3>1
  <2>3. count >= 2 => Good(after[2])
    <3> SUFFICES ASSUME count >= 2 PROVE Good(after[2])
      OBVIOUS
    <3>1. after[2] = char_out(after[1], Byte(1))
      BY <1>2, <1>5
    <3> HIDE DEF Good
    <3> QED
      BY <1>2, <1>6, <2>2, <3>1
  <2>4. count = 0 \/ count = 1 \/ count = 2
    BY <1>2
  <2> HIDE DEF Good
  <2> QED
    BY <2>1, <2>2, <2>3, <2>4
<1> HIDE DEF last
<1> DEFINE bits == w.cur_bits - 8 * count
           accum == w.cur_accum \div TwoTo(8 * count)
<1>8. ShiftOut(w, rest) = [last EXCEPT !.cur_accum = accum, !.cur_bits = bits]
  BY <1>3, <1>7 DEF Writers, Same
<1>9. accum \in Nat /\ bits \in Int
  <2>1. w.cur_accum \in Nat /\ w.cur_bits \in Int
    BY DEF Writers
  <2>2. 8 * count \in 0..20
    BY <1>2
  <2>3. TwoTo(8 * count) \in Nat /\ TwoTo(8 * count) > 0
    BY <2>2, PowerNext
  <2>4. bits \in Int
    BY <1>1, <1>2
  <2> QED
    BY <2>1, <2>3, <2>4, LowByte
<1> HIDE DEF accum, bits
<1>11. last \in Writers
  BY <1>7
<1>12. ShiftOut(w, rest) = [cur_accum |-> accum, cur_bits |-> bits, accum |-> last.accum,
                            outs |-> last.outs, n_bits |-> last.n_bits,
                            maxcode |-> last.maxcode, clear_flg |-> last.clear_flg]
  BY <1>8, <1>11 DEF Writers
<1>13. LET v == ShiftOut(w, rest)
       IN  /\ v \in Writers /\ v.accum = last.accum /\ v.outs = last.outs
           /\ v.cur_accum = accum /\ v.cur_bits = bits /\ v.n_bits = last.n_bits
           /\ v.maxcode = last.maxcode /\ v.clear_flg = last.clear_flg
  <2>1. ShiftOut(w, rest) \in Writers
    BY <1>9, <1>11, <1>12, WriterFields, WriterOf
  <2> QED
    BY <1>12, <2>1
<1>14. last = PutBytes(w, count)
  <2>1. /\ after[0] = w
        /\ count >= 1 => after[1] = char_out(after[0], Byte(0))
        /\ count >= 2 => after[2] = char_out(after[1], Byte(1))
    BY <1>2, <1>5
  <2>2. count = 0 \/ count = 1 \/ count = 2
    BY <1>2
  <2> QED
    BY <2>1, <2>2 DEF PutBytes, last, Byte
<1>15. \A k \in 0..1 : ByteOf(w, k) \in 0..255
  BY <1>4 DEF Byte
<1> QED
  BY <1>2, <1>7, <1>13, <1>14, <1>15 DEF Same, accum, bits, count

\* They put out one byte, two or none.
LEMMA ShiftOutBytes ==
    ASSUME NEW w \in Writers, Len(w.accum) < PacketSize, NEW rest \in {0, 7},
           w.cur_bits \in -7..19, rest = 0 => w.cur_bits <= 7
    PROVE  LET v == ShiftOut(w, rest)
           IN  /\ v \in Writers /\ Len(v.accum) < PacketSize
               /\ v.n_bits = w.n_bits /\ v.maxcode = w.maxcode /\ v.clear_flg = w.clear_flg
               /\ rest = 7 /\ w.cur_bits \in 0..19 => v.cur_bits \in 0..7
               /\ rest = 0 => v.cur_bits \in -7..0
<1> DEFINE v == ShiftOut(w, rest)
           count == ShiftCount(w, rest)
           last == PutBytes(w, count)
<1>1. /\ last \in Writers /\ Len(last.accum) < PacketSize
      /\ v \in Writers /\ v.accum = last.accum /\ v.cur_bits = w.cur_bits - 8 * count
      /\ v.n_bits = w.n_bits /\ v.maxcode = w.maxcode /\ v.clear_flg = w.clear_flg
  BY ShiftOutIs
<1>2. /\ rest = 7 /\ w.cur_bits \in 0..19 => w.cur_bits - 8 * count \in 0..7
      /\ rest = 0 => w.cur_bits - 8 * count \in -7..0
  BY BytesToPut DEF ShiftCount
<1> HIDE DEF v, count
<1> QED
  BY <1>1, <1>2 DEF v

\* The width and its limit stay together.
LEMMA WidenKeeps ==
    ASSUME NEW w, Ready(w), NEW free \in 0..maxmaxcode
    PROVE  Ready(Widen(w, free)) /\ ~Widen(w, free).clear_flg
           /\ Widen(w, free).cur_bits = w.cur_bits
<1>1. g_init_bits \in 0..20 /\ MaxBits \in 0..20 /\ g_init_bits < MaxBits
  BY SizeAssumption DEF g_init_bits
<1>2. \A bits \in 0..20 : MAXCODE(bits) \in Nat
  <2>1. \A bits \in 0..20 : TwoTo(bits) \in Nat /\ TwoTo(bits) > 0
    BY PowerNext
  <2> QED
    BY <2>1 DEF MAXCODE
<1>3. w \in Writers /\ w.n_bits \in g_init_bits..MaxBits
  BY DEF Ready, Writers
<1>4. CASE w.clear_flg
  <2> DEFINE limit == MAXCODE(g_init_bits)
  <2>1. Widen(w, free) = [w EXCEPT !.n_bits = g_init_bits, !.maxcode = limit, !.clear_flg = FALSE]
    BY <1>4 DEF Widen
  <2>2. limit \in Nat /\ g_init_bits \in g_init_bits..MaxBits /\ g_init_bits # MaxBits
    BY <1>1, <1>2
  <2> HIDE DEF limit
  <2>3. Widen(w, free) \in Writers
    <3>1. Widen(w, free) = [cur_accum |-> w.cur_accum, cur_bits |-> w.cur_bits,
                            accum |-> w.accum, outs |-> w.outs, n_bits |-> g_init_bits,
                            maxcode |-> limit, clear_flg |-> FALSE]
      BY <1>3, <2>1 DEF Writers
    <3>2. /\ w.cur_accum \in Nat /\ w.cur_bits \in Int
          /\ w.accum \in Seq(0..255) /\ w.outs \in Seq(0..255) /\ FALSE \in BOOLEAN
      BY <1>3, WriterFields
    <3> QED
      <4> DEFINE v(flg) == [cur_accum |-> w.cur_accum, cur_bits |-> w.cur_bits,
                            accum |-> w.accum, outs |-> w.outs, n_bits |-> g_init_bits,
                            maxcode |-> limit, clear_flg |-> flg]
      <4>1. ASSUME NEW flg \in BOOLEAN PROVE v(flg) \in Writers
        BY <2>2, <3>2, WriterOf
      <4> QED
        BY <3>1, <3>2, <4>1, Zenon
  <2>4. /\ Widen(w, free).n_bits = g_init_bits /\ Widen(w, free).maxcode = limit
        /\ Widen(w, free).clear_flg = FALSE /\ Widen(w, free).accum = w.accum
        /\ Widen(w, free).cur_bits = w.cur_bits
    BY <1>3, <2>1 DEF Writers
  <2> QED
    BY <2>2, <2>3, <2>4 DEF Ready, limit
<1>5. CASE ~w.clear_flg /\ free <= w.maxcode
  <2>1. Widen(w, free) = w
    BY <1>5 DEF Widen
  <2> QED
    BY <1>5, <2>1
<1>6. CASE ~w.clear_flg /\ ~(free <= w.maxcode)
  <2> DEFINE bits == w.n_bits + 1
             limit == IF bits = MaxBits THEN maxmaxcode ELSE MAXCODE(bits)
  <2>1. Widen(w, free) = [w EXCEPT !.n_bits = bits, !.maxcode = limit]
    BY <1>6 DEF Widen
  <2>2. w.n_bits # MaxBits
    BY <1>6, Sizes DEF Ready
  <2>3. bits \in g_init_bits..MaxBits /\ bits \in 0..20
    BY <1>1, <1>3, <2>2
  <2>4. limit \in Nat
    BY <1>2, <2>3, Sizes
  <2>5. Widen(w, free) \in Writers
    <3> HIDE DEF bits, limit
    <3>1. Widen(w, free) = [cur_accum |-> w.cur_accum, cur_bits |-> w.cur_bits,
                            accum |-> w.accum, outs |-> w.outs, n_bits |-> bits,
                            maxcode |-> limit, clear_flg |-> w.clear_flg]
      BY <1>3, <2>1 DEF Writers
    <3> QED
      <4>1. /\ w.cur_accum \in Nat /\ w.cur_bits \in Int /\ w.clear_flg \in BOOLEAN
            /\ w.accum \in Seq(0..255) /\ w.outs \in Seq(0..255)
        BY <1>3, WriterFields
      <4> QED
        BY <2>3, <2>4, <3>1, <4>1, WriterOf
  <2>6. /\ Widen(w, free).n_bits = bits /\ Widen(w, free).maxcode = limit
        /\ Widen(w, free).clear_flg = w.clear_flg /\ Widen(w, free).accum = w.accum
        /\ Widen(w, free).cur_bits = w.cur_bits
    BY <1>3, <2>1 DEF Writers
  <2> HIDE DEF bits
  <2> QED
    BY <1>6, <2>5, <2>6 DEF Ready
<1> QED
  BY <1>4, <1>5, <1>6

\* Between two codes less than a byte is left over; behind the end code, nothing.
LEMMA OutputKeeps ==
    ASSUME NEW w, Ready(w), w.cur_bits \in 0..7,
           NEW code \in Codes, NEW free \in 0..maxmaxcode
    PROVE  /\ Ready(output(w, code, free)) /\ ~output(w, code, free).clear_flg
           /\ output(w, code, free).cur_bits \in -7..7
           /\ code # EOFCode => output(w, code, free).cur_bits \in 0..7
<1> DEFINE accum == (w.cur_accum % TwoTo(w.cur_bits)) + code * TwoTo(w.cur_bits)
           bits == w.cur_bits + w.n_bits
           joined == [w EXCEPT !.cur_accum = accum, !.cur_bits = bits]
           shifted == ShiftOut(joined, 7)
           wider == Widen(shifted, free)
           rest == ShiftOut(wider, 0)
<1>1. output(w, code, free) = IF code = EOFCode THEN flush_char(rest) ELSE wider
  <2>1. joined = [w EXCEPT !.cur_accum = (@ % TwoTo(w.cur_bits)) + code * TwoTo(w.cur_bits),
                           !.cur_bits = @ + w.n_bits]
    BY DEF Ready, Writers
  <2> HIDE DEF joined
  <2> QED
    BY <2>1 DEF output
<1>2. w \in Writers /\ w.cur_accum \in Nat /\ w.n_bits \in g_init_bits..MaxBits
  BY DEF Ready, Writers
<1>3. accum \in Nat /\ bits \in 0..19
  <2>1. TwoTo(w.cur_bits) \in Nat /\ TwoTo(w.cur_bits) > 0
    <3>1. w.cur_bits \in 0..20
      OBVIOUS
    <3> QED
      BY <3>1, PowerNext
  <2>2. code \in Nat
    BY Sizes DEF Codes
  <2>3. w.cur_accum % TwoTo(w.cur_bits) \in Nat
    BY <1>2, <2>1
  <2>4. code * TwoTo(w.cur_bits) \in Nat
    BY <2>1, <2>2
  <2>5. bits \in 0..19
    <3>1. g_init_bits \in Nat /\ MaxBits \in 0..12
      BY SizeAssumption DEF g_init_bits
    <3> QED
      BY <1>2, <3>1
  <2> QED
    BY <2>3, <2>4, <2>5
<1> HIDE DEF accum, bits
<1>4. /\ joined \in Writers /\ joined.cur_bits = bits /\ joined.accum = w.accum
      /\ joined.n_bits = w.n_bits /\ joined.maxcode = w.maxcode
  <2>1. bits \in Int
    BY <1>3
  <2>2. joined \in Writers
    BY <1>2, <1>3, <2>1 DEF Writers
  <2>3. /\ joined.cur_bits = bits /\ joined.accum = w.accum
        /\ joined.n_bits = w.n_bits /\ joined.maxcode = w.maxcode
    BY <1>2 DEF Writers
  <2> QED
    BY <2>2, <2>3
<1>5. Len(w.accum) < PacketSize
  BY DEF Ready
<1> HIDE DEF joined
<1>6. /\ shifted \in Writers /\ Len(shifted.accum) < PacketSize /\ shifted.cur_bits \in 0..7
      /\ shifted.n_bits = joined.n_bits /\ shifted.maxcode = joined.maxcode
  <2>1. joined.cur_bits \in -7..19 /\ joined.cur_bits \in 0..19 /\ Len(joined.accum) < PacketSize
    BY <1>3, <1>4, <1>5
  <2> HIDE DEF shifted
  <2> QED
    BY <1>4, <2>1, ShiftOutBytes DEF shifted
<1>7. Ready(shifted)
  BY <1>4, <1>6 DEF Ready
<1> HIDE DEF shifted
<1>8. Ready(wider) /\ ~wider.clear_flg /\ wider.cur_bits \in 0..7
  BY <1>6, <1>7, WidenKeeps
<1> HIDE DEF wider
<1>9. CASE code # EOFCode
  <2>1. output(w, code, free) = wider
    BY <1>1, <1>9
  <2> QED
    BY <1>8, <2>1
<1>10. CASE code = EOFCode
  <2>1. /\ rest \in Writers /\ Len(rest.accum) < PacketSize /\ rest.cur_bits \in -7..0
        /\ rest.n_bits = wider.n_bits /\ rest.maxcode = wider.maxcode
        /\ rest.clear_flg = wider.clear_flg
    <3>1. wider \in Writers /\ Len(wider.accum) < PacketSize /\ wider.cur_bits \in -7..19
          /\ wider.cur_bits <= 7
      BY <1>8 DEF Ready
    <3> HIDE DEF rest
    <3> QED
      BY <3>1, ShiftOutBytes DEF rest
  <2> HIDE DEF rest
  <2>2. Len(rest.accum) <= PacketSize
    <3>1. Len(rest.accum) \in Nat
      BY <2>1 DEF Writers
    <3> QED
      BY <2>1, <3>1, SizeAssumption
  <2>3. /\ flush_char(rest) \in Writers /\ Len(flush_char(rest).accum) < PacketSize
        /\ Same(flush_char(rest), rest)
    BY <2>1, <2>2, FlushChar
  <2>4. output(w, code, free) = flush_char(rest)
    BY <1>1, <1>10
  <2>5. Ready(flush_char(rest)) /\ ~flush_char(rest).clear_flg
    BY <1>8, <2>1, <2>3 DEF Ready, Same
  <2>6. flush_char(rest).cur_bits \in -7..7
    BY <2>1, <2>3 DEF Same
  <2> QED
    BY <1>10, <2>4, <2>5, <2>6
<1> QED
  BY <1>9, <1>10
-----------------------------------------------------------------------------
(* The dictionary from one code to the next.                                *)

Tables == [Slots -> {Free} \union Pairs]
Used(table) == {i \in DOMAIN table : table[i] # Free}

\* Reached(i), for any table.
ReachedIn(table, i) ==
    \E j \in 0..(HSize - 1) :
        /\ Probe(prefix_of(table[i]), pixel_of(table[i]), j) = i
        /\ \A k \in 0..(j - 1) :
               table[Probe(prefix_of(table[i]), pixel_of(table[i]), k)] \notin {table[i], Free}

\* The table holds the codes up to `free`, and all its pairs are reached.
Complete(table, codes, free) ==
    /\ {codes[i] : i \in Used(table)} = (ClearCode + 2)..(free - 1)
    /\ Cardinality(Used(table)) = free - (ClearCode + 2)
    /\ \A i \in Used(table) : ReachedIn(table, i)

\* Complete, of its three parts.
LEMMA CompleteIs ==
    ASSUME NEW table, NEW codes, NEW free,
           {codes[i] : i \in Used(table)} = (ClearCode + 2)..(free - 1),
           Cardinality(Used(table)) = free - (ClearCode + 2),
           \A i \in Used(table) : ReachedIn(table, i)
    PROVE  Complete(table, codes, free)
  BY DEF Complete

\* The mark of an empty slot cannot be taken for a pair.
LEMMA FreeIsNoPair == Free \notin Pairs /\ Free \in Int
  BY DEF Free, Pairs

\* With the first code to give, an empty table is complete.
LEMMA EmptyTable ==
    cl_hash \in Tables /\ \A codes : Complete(cl_hash, codes, ClearCode + 2)
<1>1. cl_hash \in Tables
  BY DEF cl_hash, Tables, Slots
<1>2. Used(cl_hash) = {}
  BY DEF Used, cl_hash
<1>3. Cardinality({}) = 0
  BY FS_EmptySet
<1>4. (ClearCode + 2)..((ClearCode + 2) - 1) = {} /\ (ClearCode + 2) - (ClearCode + 2) = 0
  BY Sizes
<1>5. ASSUME NEW codes PROVE Complete(cl_hash, codes, ClearCode + 2)
  BY <1>2, <1>3, <1>4 DEF Complete
<1> QED
  BY <1>1, <1>5

\* As long as there are codes to give, every search ends.
LEMMA SearchesEnd ==
    ASSUME NEW table \in Tables, NEW codes, NEW free \in (ClearCode + 2)..maxmaxcode,
           Complete(table, codes, free), NEW p \in Codes, NEW c \in Indexes
    PROVE  SearchEnds(table, p, c)
<1>1. Used(table) = {i \in Slots : table[i] # Free}
  BY DEF Used, Tables
<1>2. free - (ClearCode + 2) < HSize
  BY Sizes
<1>3. Cardinality({i \in Slots : table[i] # Free}) < HSize
  BY <1>1, <1>2 DEF Complete
<1>4. \E s \in Slots : table[s] = Free
  BY <1>3, TableHasRoom DEF Tables
<1> QED
  BY <1>4, EmptySlotEndsSearch

\* An entry gets where its search ended, which no other search has passed.
LEMMA EntryKeeps ==
    ASSUME NEW table \in Tables, NEW codes \in [Slots -> Codes],
           NEW free \in (ClearCode + 2)..(maxmaxcode - 1), Complete(table, codes, free),
           NEW p \in Codes, NEW c \in Indexes, NEW i, i = Slot(table, p, c), table[i] = Free
    PROVE  LET table2 == [table EXCEPT ![i] = fcode(p, c)]
               codes2 == [codes EXCEPT ![i] = free]
           IN  /\ i \in Slots /\ table2 \in Tables /\ codes2 \in [Slots -> Codes]
               /\ Complete(table2, codes2, free + 1)
<1> DEFINE x == fcode(p, c)
           table2 == [table EXCEPT ![i] = x]
           codes2 == [codes EXCEPT ![i] = free]
<1>1. x \in Pairs /\ prefix_of(x) = p /\ pixel_of(x) = c
  BY PairCodes
<1>2. free \in Codes /\ free \in Nat /\ maxmaxcode \in Nat /\ ClearCode \in Nat
  BY Sizes DEF Codes
<1>3. SearchEnds(table, p, c)
  <2>1. free \in (ClearCode + 2)..maxmaxcode
    BY <1>2
  <2> QED
    BY <2>1, SearchesEnd
<1>4. PICK j \in Slots :
          /\ i = Probe(p, c, j) /\ i \in Slots
          /\ \A k \in 0..(j - 1) : k \in Slots /\ table[Probe(p, c, k)] \notin {x, Free}
  BY <1>3, SlotIsFirst
<1> HIDE DEF x
<1>5. table2 \in Tables /\ codes2 \in [Slots -> Codes]
  BY <1>1, <1>2, <1>4 DEF Tables
<1>6. DOMAIN table = Slots /\ DOMAIN table2 = Slots
  BY <1>5 DEF Tables
<1>7. table2[i] = x /\ codes2[i] = free /\ x # Free
  BY <1>1, <1>4, FreeIsNoPair DEF Tables
<1>8. \A m \in Slots : m # i => table2[m] = table[m] /\ codes2[m] = codes[m]
  BY DEF Tables
<1> HIDE DEF table2, codes2
<1>9. Used(table2) = Used(table) \union {i} /\ i \notin Used(table)
  BY <1>4, <1>6, <1>7, <1>8 DEF Used
<1>10. {codes2[m] : m \in Used(table2)} = (ClearCode + 2)..free
  <2>1. Used(table) \subseteq Slots
    BY <1>6 DEF Used
  <2>2. \A m \in Used(table) : codes2[m] = codes[m]
    BY <1>8, <1>9, <2>1
  <2>3. {codes2[m] : m \in Used(table2)} = {codes[m] : m \in Used(table)} \union {free}
    BY <1>7, <1>9, <2>2
  <2>4. {codes[m] : m \in Used(table)} = (ClearCode + 2)..(free - 1)
    BY DEF Complete
  <2>5. (ClearCode + 2)..(free - 1) \union {free} = (ClearCode + 2)..free
    BY <1>2
  <2> QED
    BY <2>3, <2>4, <2>5
<1>11. Cardinality(Used(table2)) = (free + 1) - (ClearCode + 2)
  <2>1. IsFiniteSet(Used(table))
    <3>1. IsFiniteSet(Slots)
      BY Sizes, FS_Interval DEF Slots
    <3>2. Used(table) \in SUBSET Slots
      BY <1>6 DEF Used
    <3> QED
      BY <3>1, <3>2, FS_Subset
  <2>2. Cardinality(Used(table2)) = Cardinality(Used(table)) + 1
    BY <1>9, <2>1, FS_AddElement
  <2>3. Cardinality(Used(table)) = free - (ClearCode + 2)
    BY DEF Complete
  <2> QED
    BY <1>2, <2>2, <2>3
<1>12. ASSUME NEW m \in Used(table2) PROVE ReachedIn(table2, m)
  <2>1. CASE m = i
    <3>1. \A k \in 0..(j - 1) : Probe(p, c, k) \in Slots /\ Probe(p, c, k) # i
      BY <1>4, ProbesVisitAll
    <3>2. \A k \in 0..(j - 1) : table2[Probe(p, c, k)] \notin {x, Free}
      BY <1>4, <1>8, <3>1
    <3>3. prefix_of(table2[m]) = p /\ pixel_of(table2[m]) = c /\ table2[m] = x
      BY <1>1, <1>7, <2>1
    <3> QED
      BY <1>4, <2>1, <3>2, <3>3 DEF ReachedIn, Slots
  <2>2. CASE m # i
    <3> DEFINE y == table[m]
               q == prefix_of(y)
               d == pixel_of(y)
    <3>1. m \in Used(table) /\ m \in Slots /\ table2[m] = y
      BY <1>6, <1>8, <1>9, <2>2 DEF Used
    <3>2. PICK n \in Slots :
              /\ Probe(q, d, n) = m
              /\ \A k \in 0..(n - 1) : table[Probe(q, d, k)] \notin {y, Free}
      BY <3>1 DEF Complete, ReachedIn, Slots
    <3>3. q \in Codes /\ d \in Indexes
      <4>1. y \in Pairs
        BY <3>1 DEF Used, Tables
      <4> HIDE DEF y
      <4> QED
        BY <4>1, PairCodes
    <3>4. table[i] = Free
      OBVIOUS
    <3> HIDE DEF y, q, d
    <3>5. \A k \in 0..(n - 1) : k \in Slots
      BY Sizes DEF Slots
    <3>6. \A k \in 0..(n - 1) : Probe(q, d, k) \in Slots /\ Probe(q, d, k) # i
      BY <3>2, <3>3, <3>4, <3>5, ProbesVisitAll
    <3>7. \A k \in 0..(n - 1) : table2[Probe(q, d, k)] \notin {y, Free}
      BY <1>8, <3>2, <3>6
    <3>8. prefix_of(table2[m]) = q /\ pixel_of(table2[m]) = d
      BY <3>1 DEF q, d
    <3> QED
      BY <3>1, <3>2, <3>7, <3>8 DEF ReachedIn, Slots
  <2> QED
    BY <2>1, <2>2
<1>13. \A next : next = free + 1 => Complete(table2, codes2, next)
  <2> SUFFICES ASSUME NEW next, next = free + 1 PROVE Complete(table2, codes2, next)
    OBVIOUS
  <2>1. next - 1 = free
    BY <1>2
  <2>2. {codes2[m] : m \in Used(table2)} = (ClearCode + 2)..(next - 1)
    BY <1>10, <2>1
  <2>3. Cardinality(Used(table2)) = next - (ClearCode + 2)
    BY <1>11
  <2>4. \A m \in Used(table2) : ReachedIn(table2, m)
    BY <1>12
  <2> QED
    BY <2>2, <2>3, <2>4, CompleteIs
<1>14. Complete(table2, codes2, free + 1)
  BY <1>13
<1> QED
  BY <1>4, <1>5, <1>14 DEF table2, codes2, x
-----------------------------------------------------------------------------
(* The invariant.                                                           *)

\* What every step has to keep of the dictionary.
Dictionary(state, table, codes, free, e) ==
    /\ table \in Tables /\ codes \in [Slots -> Codes]
    /\ e \in Codes /\ free \in 0..maxmaxcode
    /\ state = "encode" => table = cl_hash
    /\ state = "outer_loop" =>
           /\ free \in (ClearCode + 2)..maxmaxcode
           /\ Complete(table, codes, free)
           /\ e \in Indexes \union (ClearCode + 2)..(free - 1)

\* What it has to keep of the writer.
Output(state, w) ==
    /\ Ready(w) /\ ~w.clear_flg /\ w.cur_bits \in -7..7
    /\ state # "encoded" => w.cur_bits \in 0..7

\* Where the encoder is in the frame.
Place == at \in {"encode", "outer_loop", "encoded"} /\ pixAry \in Frames
         /\ curPixel \in 0..Len(pixAry)

\* A writer that is ready is typed.
LEMMA WriterTypes ==
    ASSUME NEW w, Ready(w)
    PROVE  /\ w.n_bits \in g_init_bits..MaxBits /\ w.cur_accum \in Nat
           /\ Len(w.accum) < PacketSize /\ w.outs \in Seq(0..255)
  BY DEF Ready, Writers

\* IInv, in these parts.
LEMMA Parts == IInv <=> Place /\ Dictionary(at, htab, codetab, free_ent, ent) /\ Output(at, writer)
<1>1. TypeOK <=> /\ Place
                 /\ ent \in Codes /\ free_ent \in 0..maxmaxcode
                 /\ htab \in Tables /\ codetab \in [Slots -> Codes]
                 /\ writer.n_bits \in g_init_bits..MaxBits
                 /\ writer.cur_accum \in Nat /\ writer.cur_bits \in -7..7
                 /\ Len(writer.accum) < PacketSize
                 /\ writer.outs \in Seq(0..255)
  BY DEF TypeOK, Place, Codes, Tables, Slots, Pairs
<1>2. TableInv <=> /\ at = "encode" => htab = cl_hash
                   /\ at = "outer_loop" =>
                          /\ free_ent \in (ClearCode + 2)..maxmaxcode
                          /\ Complete(htab, codetab, free_ent)
                          /\ ent \in Indexes \union (ClearCode + 2)..(free_ent - 1)
  BY DEF TableInv, Complete, Used, used, Reached, ReachedIn, Indexes
<1>3. WriterInv <=> /\ Ready(writer) /\ ~writer.clear_flg
                    /\ at # "encoded" => writer.cur_bits \in 0..7
  BY DEF WriterInv
<1>4. Ready(writer) => /\ writer.n_bits \in g_init_bits..MaxBits /\ writer.cur_accum \in Nat
                       /\ Len(writer.accum) < PacketSize /\ writer.outs \in Seq(0..255)
  BY WriterTypes
<1> QED
  BY <1>1, <1>2, <1>3, <1>4, Zenon DEF IInv, Dictionary, Output

\* The same of the state after a step.
LEMMA PartsNext ==
    ASSUME Place', Dictionary(at', htab', codetab', free_ent', ent'), Output(at', writer')
    PROVE  IInv'
<1>1. /\ writer'.n_bits \in g_init_bits..MaxBits /\ writer'.cur_accum \in Nat
      /\ Len(writer'.accum) < PacketSize /\ writer'.outs \in Seq(0..255)
  BY WriterTypes DEF Output
<1>2. TypeOK'
  BY <1>1 DEF TypeOK, Place, Dictionary, Output, Codes, Tables, Slots, Pairs
<1>3. TableInv'
  BY DEF Dictionary, TableInv, Complete, Used, used, Reached, ReachedIn, Indexes
<1>4. WriterInv'
  BY DEF WriterInv, Output, Ready
<1> QED
  BY <1>2, <1>3, <1>4 DEF IInv

\* encode() starts with an empty table and nothing left over.
LEMMA InitKeeps == Init => IInv
<1> SUFFICES ASSUME Init PROVE IInv
  OBVIOUS
<1>1. g_init_bits \in 0..20 /\ g_init_bits < MaxBits /\ PacketSize \in Nat /\ PacketSize > 0
      /\ InitCodeSize \in 0..255
  BY SizeAssumption DEF g_init_bits
<1>2. MAXCODE(g_init_bits) \in Nat
  <2>1. TwoTo(g_init_bits) \in Nat /\ TwoTo(g_init_bits) > 0
    BY <1>1, PowerNext
  <2> QED
    BY <2>1 DEF MAXCODE
<1>3. Place
  <2>1. Len(pixAry) \in Nat
    BY SizeAssumption DEF Init
  <2> QED
    BY <2>1 DEF Init, Place
<1>4. Dictionary(at, htab, codetab, free_ent, ent)
  <2>1. 0 \in Codes /\ 0 \in 0..maxmaxcode
    BY Sizes DEF Codes
  <2>2. htab = cl_hash /\ at = "encode" /\ free_ent = 0 /\ ent = 0
    BY DEF Init
  <2>3. codetab \in [Slots -> Codes]
    BY <2>1 DEF Init, Slots
  <2> QED
    BY <2>1, <2>2, <2>3, EmptyTable DEF Dictionary
<1>5. Output(at, writer)
  <2> DEFINE limit == MAXCODE(g_init_bits)
             size == <<InitCodeSize>>
  <2>1. writer = [cur_accum |-> 0, cur_bits |-> 0, accum |-> <<>>, outs |-> size,
                  n_bits |-> g_init_bits, maxcode |-> limit, clear_flg |-> FALSE]
    BY DEF Init
  <2>2. size \in Seq(0..255) /\ <<>> \in Seq(0..255) /\ Len(<<>>) = 0
    BY <1>1
  <2>3. limit \in Nat /\ g_init_bits \in g_init_bits..MaxBits /\ g_init_bits # MaxBits
    BY <1>1, <1>2, SizeAssumption
  <2> HIDE DEF size, limit
  <2>4. writer \in Writers
    BY <2>1, <2>2, <2>3 DEF Writers
  <2>5. Ready(writer)
    BY <1>1, <2>1, <2>2, <2>3, <2>4 DEF Ready, limit
  <2> QED
    BY <2>1, <2>5 DEF Output
<1> QED
  BY <1>3, <1>4, <1>5, Parts

\* A pixel is an index of the palette.
LEMMA PixelGiven ==
    ASSUME Place, NEW c, nextPixel(c)
    PROVE  c \in Indexes /\ pixAry' = pixAry /\ curPixel' \in 0..Len(pixAry)
<1>1. pixAry \in Seq(Indexes)
  BY SizeAssumption DEF Place, Indexes, ClearCode
<1>2. Len(pixAry) \in Nat
  BY <1>1
<1>3. curPixel + 1 \in 1..Len(pixAry) /\ curPixel' = curPixel + 1
  BY <1>2 DEF Place, nextPixel
<1>4. pixAry[curPixel + 1] \in Indexes
  BY <1>1, <1>3
<1> QED
  BY <1>2, <1>3, <1>4 DEF nextPixel

\* The codes put out are codes, and those of compress() are not the end code.
LEMMA CodesPutOut ==
    /\ ClearCode \in Codes /\ ClearCode # EOFCode /\ EOFCode \in Codes
    /\ ClearCode + 2 \in 0..maxmaxcode
    /\ \A free \in (ClearCode + 2)..maxmaxcode :
           /\ free \in 0..maxmaxcode
           /\ \A e \in Indexes \union (ClearCode + 2)..(free - 1) : e \in Codes /\ e # EOFCode
  BY Sizes DEF Codes, EOFCode, Indexes

\* compress() begins with the first pixel as the string and a clear code.
LEMMA CompressKeeps ==
    ASSUME IInv, NEW c, Compress(c)
    PROVE  IInv'
<1>1. Place /\ Dictionary(at, htab, codetab, free_ent, ent) /\ Output(at, writer)
  BY Parts
<1>2. at = "encode" /\ nextPixel(c) /\ at' = "outer_loop" /\ ent' = c
      /\ free_ent' = ClearCode + 2 /\ htab' = htab /\ codetab' = codetab
      /\ writer' = output(writer, ClearCode, ClearCode + 2)
  BY DEF Compress
<1>3. c \in Indexes /\ pixAry' = pixAry /\ curPixel' \in 0..Len(pixAry)
  BY <1>1, <1>2, PixelGiven
<1>4. Place'
  BY <1>1, <1>2, <1>3 DEF Place
<1>5. Dictionary(at', htab', codetab', free_ent', ent')
  <2>1. htab = cl_hash /\ codetab \in [Slots -> Codes]
    BY <1>1, <1>2 DEF Dictionary
  <2>2. c \in Codes
    BY <1>3, Sizes DEF Codes, Indexes
  <2>3. ClearCode + 2 \in (ClearCode + 2)..maxmaxcode /\ ClearCode + 2 \in 0..maxmaxcode
    BY Sizes
  <2> QED
    BY <1>2, <1>3, <2>1, <2>2, <2>3, EmptyTable DEF Dictionary
<1>6. Output(at', writer')
  <2>1. Ready(writer) /\ writer.cur_bits \in 0..7
    BY <1>1, <1>2 DEF Output
  <2> QED
    BY <1>2, <2>1, CodesPutOut, OutputKeeps DEF Output
<1> QED
  BY <1>4, <1>5, <1>6, PartsNext

\* The string read on is the one of the code found.
LEMMA ExtendKeeps ==
    ASSUME IInv, NEW c, Extend(c)
    PROVE  IInv'
<1>1. Place /\ Dictionary(at, htab, codetab, free_ent, ent) /\ Output(at, writer)
  BY Parts
<1> DEFINE i == Slot(htab, ent, c)
<1>2. at = "outer_loop" /\ nextPixel(c) /\ htab[i] = fcode(ent, c) /\ ent' = codetab[i]
      /\ at' = at /\ free_ent' = free_ent /\ htab' = htab /\ codetab' = codetab
      /\ writer' = writer
  BY DEF Extend
<1>3. c \in Indexes /\ pixAry' = pixAry /\ curPixel' \in 0..Len(pixAry)
  BY <1>1, <1>2, PixelGiven
<1>4. Place'
  BY <1>1, <1>2, <1>3 DEF Place
<1>5. /\ htab \in Tables /\ ent \in Codes /\ codetab \in [Slots -> Codes]
      /\ free_ent \in (ClearCode + 2)..maxmaxcode /\ Complete(htab, codetab, free_ent)
  BY <1>1, <1>2 DEF Dictionary
<1>6. i \in Slots
  <2>1. SearchEnds(htab, ent, c)
    BY <1>3, <1>5, SearchesEnd
  <2> QED
    BY <1>3, <1>5, <2>1, SlotIsFirst
<1>7. i \in Used(htab)
  <2>1. fcode(ent, c) # Free
    BY <1>3, <1>5, PairCodes, FreeIsNoPair
  <2> HIDE DEF i
  <2> QED
    BY <1>2, <1>5, <1>6, <2>1 DEF Used, Tables
<1> HIDE DEF i
<1>8. codetab[i] \in (ClearCode + 2)..(free_ent - 1) /\ codetab[i] \in Codes
  BY <1>5, <1>6, <1>7 DEF Complete
<1>9. Dictionary(at', htab', codetab', free_ent', ent')
  BY <1>1, <1>2, <1>8 DEF Dictionary
<1>10. Output(at', writer')
  BY <1>1, <1>2
<1> QED
  BY <1>4, <1>9, <1>10, PartsNext

\* A code is put out, and the pair entered or the table cleared.
LEMMA PutOutKeeps ==
    ASSUME IInv, NEW c, PutOut(c)
    PROVE  IInv'
<1>1. Place /\ Dictionary(at, htab, codetab, free_ent, ent) /\ Output(at, writer)
  BY Parts
<1> DEFINE i == Slot(htab, ent, c)
           w == output(writer, ent, free_ent)
<1>2. at = "outer_loop" /\ nextPixel(c) /\ htab[i] = Free /\ ent' = c /\ at' = at
  BY DEF PutOut
<1>3. c \in Indexes /\ pixAry' = pixAry /\ curPixel' \in 0..Len(pixAry)
  BY <1>1, <1>2, PixelGiven
<1>4. Place'
  BY <1>1, <1>2, <1>3 DEF Place
<1>5. /\ htab \in Tables /\ ent \in Codes /\ codetab \in [Slots -> Codes]
      /\ free_ent \in (ClearCode + 2)..maxmaxcode /\ Complete(htab, codetab, free_ent)
      /\ ent # EOFCode /\ free_ent \in 0..maxmaxcode
  BY <1>1, <1>2, CodesPutOut DEF Dictionary
<1>6. Ready(w) /\ ~w.clear_flg /\ w.cur_bits \in 0..7
  BY <1>1, <1>2, <1>5, OutputKeeps DEF Output
<1>7. c \in Codes
  BY <1>3, Sizes DEF Codes, Indexes
<1>8. \/ /\ free_ent < maxmaxcode
         /\ codetab' = [codetab EXCEPT ![i] = free_ent]
         /\ htab' = [htab EXCEPT ![i] = fcode(ent, c)]
         /\ free_ent' = free_ent + 1
         /\ writer' = w
      \/ /\ free_ent >= maxmaxcode
         /\ cl_block(w)
  BY DEF PutOut
<1> HIDE DEF w
<1>9. CASE /\ free_ent < maxmaxcode
           /\ codetab' = [codetab EXCEPT ![i] = free_ent]
           /\ htab' = [htab EXCEPT ![i] = fcode(ent, c)]
           /\ free_ent' = free_ent + 1
           /\ writer' = w
  <2>1. /\ free_ent \in (ClearCode + 2)..(maxmaxcode - 1)
        /\ free_ent + 1 \in (ClearCode + 2)..maxmaxcode /\ free_ent + 1 \in 0..maxmaxcode
    BY <1>5, <1>9, Sizes
  <2>2. htab' \in Tables /\ codetab' \in [Slots -> Codes]
        /\ Complete(htab', codetab', free_ent + 1)
    BY <1>2, <1>3, <1>5, <1>9, <2>1, EntryKeeps
  <2>3. Dictionary(at', htab', codetab', free_ent', ent')
    BY <1>2, <1>3, <1>7, <1>9, <2>1, <2>2 DEF Dictionary
  <2>4. Output(at', writer')
    BY <1>6, <1>9 DEF Output
  <2> QED
    BY <1>4, <2>3, <2>4, PartsNext
<1>10. CASE cl_block(w)
  <2> DEFINE v == [w EXCEPT !.clear_flg = TRUE]
  <2>1. /\ htab' = cl_hash /\ codetab' = codetab /\ free_ent' = ClearCode + 2
        /\ writer' = output(v, ClearCode, ClearCode + 2)
    BY <1>10 DEF cl_block
  <2>2. Dictionary(at', htab', codetab', free_ent', ent')
    <3>1. ClearCode + 2 \in (ClearCode + 2)..maxmaxcode /\ ClearCode + 2 \in 0..maxmaxcode
      BY Sizes
    <3> QED
      BY <1>2, <1>3, <1>5, <1>7, <2>1, <3>1, EmptyTable DEF Dictionary
  <2>3. Ready(v) /\ v.cur_bits \in 0..7
    <3>1. w \in Writers
      BY <1>6 DEF Ready
    <3>2. v \in Writers /\ v.accum = w.accum /\ v.n_bits = w.n_bits /\ v.maxcode = w.maxcode
          /\ v.cur_bits = w.cur_bits
      BY <3>1 DEF Writers
    <3> HIDE DEF v
    <3> QED
      BY <1>6, <3>2 DEF Ready
  <2> HIDE DEF v
  <2>4. Output(at', writer')
    BY <2>1, <2>3, CodesPutOut, OutputKeeps DEF Output
  <2> QED
    BY <1>4, <2>2, <2>4, PartsNext
<1> QED
  BY <1>8, <1>9, <1>10

\* The end: behind the end code only the terminator is written.
LEMMA FinishKeeps ==
    ASSUME IInv, Finish
    PROVE  IInv'
<1>1. Place /\ Dictionary(at, htab, codetab, free_ent, ent) /\ Output(at, writer)
  BY Parts
<1> DEFINE w1 == output(writer, ent, free_ent)
           w2 == output(w1, EOFCode, free_ent)
           w3 == [w2 EXCEPT !.outs = Append(@, 0)]
<1>2. at = "outer_loop" /\ at' = "encoded" /\ writer' = w3
      /\ pixAry' = pixAry /\ curPixel' = curPixel /\ ent' = ent /\ free_ent' = free_ent
      /\ htab' = htab /\ codetab' = codetab
  BY DEF Finish
<1>3. Place'
  BY <1>1, <1>2 DEF Place
<1>4. Dictionary(at', htab', codetab', free_ent', ent')
  BY <1>1, <1>2 DEF Dictionary
<1>5. ent \in Codes /\ ent # EOFCode /\ free_ent \in 0..maxmaxcode
  BY <1>1, <1>2, CodesPutOut DEF Dictionary
<1>6. Ready(w1) /\ w1.cur_bits \in 0..7
  BY <1>1, <1>2, <1>5, OutputKeeps DEF Output
<1> HIDE DEF w1
<1>7. Ready(w2) /\ ~w2.clear_flg /\ w2.cur_bits \in -7..7
  BY <1>5, <1>6, CodesPutOut, OutputKeeps
<1> HIDE DEF w2
<1>8. Ready(w3) /\ ~w3.clear_flg /\ w3.cur_bits \in -7..7
  <2>1. w2 \in Writers /\ w2.outs \in Seq(0..255)
    BY <1>7 DEF Ready, Writers
  <2> DEFINE bytes == Append(w2.outs, 0)
  <2>2. bytes \in Seq(0..255)
    BY <2>1
  <2>3. w3 = [w2 EXCEPT !.outs = bytes]
    BY <2>1 DEF Writers
  <2> HIDE DEF bytes, w3
  <2>4. w3 \in Writers /\ w3.accum = w2.accum /\ w3.n_bits = w2.n_bits
        /\ w3.maxcode = w2.maxcode /\ w3.cur_bits = w2.cur_bits
        /\ w3.clear_flg = w2.clear_flg
    BY <2>1, <2>2, <2>3 DEF Writers
  <2> QED
    BY <1>7, <2>4 DEF Ready
<1>9. Output(at', writer')
  BY <1>2, <1>8 DEF Output
<1> QED
  BY <1>3, <1>4, <1>9, PartsNext

\* The invariant is inductive.
LEMMA NextKeeps == IInv /\ [Next]_vars => IInv'
<1> SUFFICES ASSUME IInv, [Next]_vars PROVE IInv'
  OBVIOUS
<1>1. CASE UNCHANGED vars
  <2>1. Place' /\ Dictionary(at', htab', codetab', free_ent', ent') /\ Output(at', writer')
    <3>1. Place /\ Dictionary(at, htab, codetab, free_ent, ent) /\ Output(at, writer)
      BY Parts
    <3> QED
      BY <1>1, <3>1 DEF vars, Place
  <2> QED
    BY <2>1, PartsNext
<1>2. ASSUME NEW c, Compress(c) PROVE IInv'
  BY <1>2, CompressKeeps
<1>3. ASSUME NEW c, Extend(c) PROVE IInv'
  BY <1>3, ExtendKeeps
<1>4. ASSUME NEW c, PutOut(c) PROVE IInv'
  BY <1>4, PutOutKeeps
<1>5. CASE Finish
  BY <1>5, FinishKeeps
<1> QED
  BY <1>1, <1>2, <1>3, <1>4, <1>5 DEF Next

\* What the steps of compress() and output() keep, whatever the frame.
THEOREM Invariance == Spec => []IInv
<1> QED
  BY InitKeeps, NextKeeps, PTL DEF Spec
-----------------------------------------------------------------------------
\* output() never needs more than MaxBits bits for a code, char_out never more than a
\* packet, and compress() never an index past the table.
THEOREM TypeCorrect == Spec => []TypeOK
<1>1. IInv => TypeOK
  BY DEF IInv
<1> QED
  BY <1>1, Invariance, PTL

\* compress(): every code given since the last clear code is found again under its
\* prefix and pixel, and every search comes to an end, whatever pairs collide.
THEOREM CodesAreFoundAgain == Spec => []EveryCodeIsFoundAgain
<1>1. ASSUME IInv PROVE EveryCodeIsFoundAgain
  <2> SUFFICES ASSUME at = "outer_loop" PROVE EveryCodeIsFoundAgain
    BY DEF EveryCodeIsFoundAgain
  <2>1. Dictionary(at, htab, codetab, free_ent, ent)
    BY <1>1, Parts
  <2>2. /\ htab \in Tables /\ ent \in Codes /\ free_ent \in (ClearCode + 2)..maxmaxcode
        /\ Complete(htab, codetab, free_ent)
    BY <2>1 DEF Dictionary
  <2>3. used = Used(htab)
    BY DEF used, Used
  <2>4. ASSUME NEW i \in used
        PROVE  Slot(htab, prefix_of(htab[i]), pixel_of(htab[i])) = i
    <3> DEFINE x == htab[i]
    <3>1. x \in Pairs
      BY <2>2, <2>3 DEF Tables, Used
    <3>2. ReachedIn(htab, i)
      BY <2>2, <2>3 DEF Complete
    <3>3. PICK j \in Slots :
              /\ Probe(prefix_of(x), pixel_of(x), j) = i
              /\ \A k \in 0..(j - 1) :
                     htab[Probe(prefix_of(x), pixel_of(x), k)] \notin {x, Free}
      BY <3>2 DEF ReachedIn, Slots
    <3>4. htab[Probe(prefix_of(x), pixel_of(x), j)] = x
      BY <3>3
    <3> HIDE DEF x
    <3>5. Slot(htab, prefix_of(x), pixel_of(x)) = i
      BY <3>1, <3>3, <3>4, SearchFinds
    <3> QED
      BY <3>5 DEF x
  <2>5. \A c \in 0..(ClearCode - 1) : SearchEnds(htab, ent, c)
    BY <2>2, SearchesEnd DEF Indexes
  <2> QED
    BY <2>2, <2>3, <2>4, <2>5 DEF EveryCodeIsFoundAgain, Complete
<1> QED
  BY <1>1, Invariance, PTL
-----------------------------------------------------------------------------
(* The reader, step by step.                                                *)

NatOrder == {s \in Nat \X Nat : s[1] < s[2]}

\* The order of the natural numbers, for the library's theorem of least elements.
LEMMA NatOrderIsWellFounded == IsWellFoundedOn(NatOrder, Nat)
  BY NatLessThanWellFounded, Zenon DEF OpToRel, NatOrder

\* Induction over the natural numbers, for a set instead of a predicate.
LEMMA InductionOnSets ==
    ASSUME NEW S, 0 \in S, \A n \in Nat : n \in S => n + 1 \in S
    PROVE  Nat \subseteq S
<1> SUFFICES ASSUME ~(Nat \subseteq S) PROVE FALSE
  OBVIOUS
<1> DEFINE T == {n \in Nat : n \notin S}
<1>1. T \subseteq Nat /\ T # {}
  OBVIOUS
<1>2. \E x \in T : \A y \in T : ~(<<y, x>> \in NatOrder)
  <2> HIDE DEF T
  <2> QED
    BY <1>1, WFMin, NatOrderIsWellFounded
<1>3. PICK x \in T : \A y \in T : ~(<<y, x>> \in NatOrder)
  BY <1>2
<1>4. x \in Nat /\ x \notin S /\ x # 0
  OBVIOUS
<1>5. x - 1 \in Nat /\ x - 1 \notin S
  BY <1>4
<1>6. <<x - 1, x>> \in NatOrder
  BY <1>4, <1>5 DEF NatOrder
<1> QED
  BY <1>3, <1>5, <1>6

\* g holds the states of the reader up to n steps behind r, as After computes them.
StatesUpTo(g, input, r, n) == g = [i \in 0..n |-> IF i = 0 THEN r ELSE Step(input, g[i - 1])]

\* There is a table of the states, up to any step.
LEMMA StatesExist ==
    ASSUME NEW input, NEW r, NEW n \in Nat
    PROVE  \E g : StatesUpTo(g, input, r, n)
<1> DEFINE S == {m \in Nat : \E g : StatesUpTo(g, input, r, m)}
<1>1. 0 \in S
  <2> DEFINE g == [i \in 0..0 |-> r]
  <2>1. StatesUpTo(g, input, r, 0)
    BY DEF StatesUpTo
  <2> QED
    BY <2>1
<1>2. ASSUME NEW m \in Nat, NEW g, StatesUpTo(g, input, r, m) PROVE m + 1 \in S
  <2> DEFINE h == [i \in 0..(m + 1) |-> IF i = m + 1 THEN Step(input, g[m]) ELSE g[i]]
  <2>1. ASSUME NEW i \in 0..(m + 1)
        PROVE  h[i] = IF i = 0 THEN r ELSE Step(input, h[i - 1])
    <3>1. CASE i = m + 1
      BY <3>1
    <3>2. CASE i # m + 1
      <4>1. i \in 0..m /\ (i # 0 => i - 1 \in 0..m)
        BY <3>2
      <4>2. g[i] = IF i = 0 THEN r ELSE Step(input, g[i - 1])
        BY <1>2, <4>1 DEF StatesUpTo
      <4> QED
        BY <3>2, <4>1, <4>2
    <3> QED
      BY <3>1, <3>2
  <2>2. StatesUpTo(h, input, r, m + 1)
    BY <2>1 DEF StatesUpTo
  <2> QED
    BY <2>2
<1>3. \A m \in Nat : m \in S => m + 1 \in S
  BY <1>2
<1> HIDE DEF S
<1>4. n \in S
  BY <1>1, <1>3, InductionOnSets
<1> QED
  BY <1>4 DEF S

\* A longer table begins like a shorter one.
LEMMA StatesAgree ==
    ASSUME NEW input, NEW r, NEW n \in Nat, NEW m \in 0..n, NEW g, NEW h,
           StatesUpTo(g, input, r, m), StatesUpTo(h, input, r, n)
    PROVE  g[m] = h[m]
<1> DEFINE S == {i \in Nat : i <= m => g[i] = h[i]}
<1>1. \A i \in 0..m : /\ g[i] = IF i = 0 THEN r ELSE Step(input, g[i - 1])
                      /\ h[i] = IF i = 0 THEN r ELSE Step(input, h[i - 1])
  BY DEF StatesUpTo
<1>2. 0 \in S
  BY <1>1
<1>3. \A i \in Nat : i \in S => i + 1 \in S
  BY <1>1
<1> HIDE DEF S
<1>4. m \in S
  BY <1>2, <1>3, InductionOnSets
<1> QED
  BY <1>4 DEF S

\* After reads its state off such a table.
LEMMA AfterIs ==
    ASSUME NEW input, NEW r, NEW n \in Nat
    PROVE  \E g : StatesUpTo(g, input, r, n) /\ After(input, r, n) = g[n]
<1> DEFINE g == CHOOSE g : StatesUpTo(g, input, r, n)
<1>1. StatesUpTo(g, input, r, n)
  BY StatesExist
<1>2. After(input, r, n) = g[n]
  BY DEF After, StatesUpTo
<1> QED
  BY <1>1, <1>2

\* No step is made in no steps.
LEMMA AfterZero == ASSUME NEW input, NEW r PROVE After(input, r, 0) = r
<1>1. PICK g : StatesUpTo(g, input, r, 0) /\ After(input, r, 0) = g[0]
  BY AfterIs
<1> QED
  BY <1>1 DEF StatesUpTo

\* One more step is a step from the state before.
LEMMA AfterNext ==
    ASSUME NEW input, NEW r, NEW n \in Nat
    PROVE  After(input, r, n + 1) = Step(input, After(input, r, n))
<1>1. PICK g : StatesUpTo(g, input, r, n) /\ After(input, r, n) = g[n]
  BY AfterIs
<1>2. PICK h : StatesUpTo(h, input, r, n + 1) /\ After(input, r, n + 1) = h[n + 1]
  BY AfterIs
<1>3. h[n + 1] = Step(input, h[n])
  BY <1>2 DEF StatesUpTo
<1>4. g[n] = h[n]
  BY <1>1, <1>2, StatesAgree
<1> QED
  BY <1>1, <1>2, <1>3, <1>4

\* A reader that has come to an end stays there.
LEMMA Rests ==
    ASSUME NEW input, NEW r, NEW m \in Nat, NEW n \in Nat, m <= n,
           After(input, r, m).at \notin {"block", "code"}
    PROVE  After(input, r, n) = After(input, r, m)
<1> DEFINE S == {d \in Nat : After(input, r, m + d) = After(input, r, m)}
<1>1. 0 \in S
  OBVIOUS
<1>2. ASSUME NEW d \in Nat, d \in S PROVE d + 1 \in S
  <2>1. After(input, r, (m + d) + 1) = Step(input, After(input, r, m + d))
    BY AfterNext
  <2>2. After(input, r, m + d) = After(input, r, m) /\ (m + d) + 1 = m + (d + 1)
    BY <1>2
  <2>3. Step(input, After(input, r, m)) = After(input, r, m)
    BY DEF Step
  <2> QED
    BY <2>1, <2>2, <2>3
<1> HIDE DEF S
<1>3. n - m \in S
  BY <1>1, <1>2, InductionOnSets
<1> QED
  BY <1>3 DEF S
-----------------------------------------------------------------------------
(* Sub-blocks: what flush_char writes, a reader joins again.                *)

Bytes == 0..255
Block(next, data) == [at |-> "block", next |-> next, data |-> data]

\* Whatever comes behind outs, a reader comes to the end of it with the data Q.
HasBlocks(outs, Q) ==
    /\ outs \in Seq(Bytes) /\ Len(outs) >= 1 /\ outs[1] = InitCodeSize
    /\ Q \in Seq(Bytes)
    /\ \E n \in 0..(Len(outs) - 1) : \A rest \in Seq(Bytes) :
           After(outs \o rest, FirstBlock, n) = Block(Len(outs) + 1, Q)

\* The bytes given to char_out so far: in packets, and in the one begun.
Payload(w, P) == \E Q \in Seq(Bytes) : HasBlocks(w.outs, Q) /\ P = Q \o w.accum

\* Sequences of bytes.
LEMMA BytesJoined ==
    ASSUME NEW s \in Seq(Bytes), NEW t \in Seq(Bytes)
    PROVE  s \o t \in Seq(Bytes) /\ Len(s \o t) = Len(s) + Len(t) /\ Len(s \o t) \in Nat
  BY ConcatProperties

\* Bytes may be joined in any order.
LEMMA BytesAssociate ==
    ASSUME NEW s \in Seq(Bytes), NEW t \in Seq(Bytes), NEW u \in Seq(Bytes)
    PROVE  (s \o t) \o u = s \o (t \o u)
  BY ConcatAssociative

\* Opaque to the provers, which else look into every concatenation they meet.
Joins(u, s, t) == u = s \o t

Joined(u, s, t) ==
    /\ u \in Seq(Bytes) /\ Len(u) = Len(s) + Len(t)
    /\ \A i \in 1..Len(s) : u[i] = s[i]
    /\ \A i \in 1..Len(t) : u[Len(s) + i] = t[i]

\* Where the bytes of the two parts are when they have been joined.
LEMMA BytesPlaces ==
    ASSUME NEW s \in Seq(Bytes), NEW t \in Seq(Bytes), NEW u, Joins(u, s, t)
    PROVE  Joined(u, s, t)
<1>1. PICK n \in Nat, k \in Nat : n = Len(s) /\ k = Len(t)
  BY LenProperties
<1>2. /\ u \in Seq(Bytes) /\ Len(u) = n + k
      /\ \A i \in 1..(n + k) : u[i] = IF i <= n THEN s[i] ELSE t[i - n]
  BY <1>1, ConcatProperties DEF Joins
<1>3. \A i \in 1..n : i \in 1..(n + k) /\ i <= n
  OBVIOUS
<1>4. \A i \in 1..k : n + i \in 1..(n + k) /\ ~(n + i <= n) /\ (n + i) - n = i
  OBVIOUS
<1>5. \A i \in 1..n : u[i] = s[i]
  BY <1>2, <1>3, Zenon
<1>6. \A i \in 1..k : u[n + i] = t[i]
  BY <1>2, <1>4, Zenon
<1> QED
  BY <1>1, <1>2, <1>5, <1>6 DEF Joined

\* What is joined to something longer is joined to its beginning as well.
LEMMA JoinsAssociate ==
    ASSUME NEW a \in Seq(Bytes), NEW b \in Seq(Bytes), NEW c \in Seq(Bytes), NEW d \in Seq(Bytes),
           NEW s, Joins(s, a, b), NEW t, Joins(t, s, c), NEW u, Joins(u, t, d)
    PROVE  \E tail \in Seq(Bytes) : u = a \o tail
<1> DEFINE x == b \o c
           y == x \o d
<1>1. x \in Seq(Bytes)
  BY BytesJoined
<1>2. s = a \o b /\ t = s \o c /\ u = t \o d
  BY DEF Joins
<1>3. (a \o b) \o c = a \o x
  BY BytesAssociate, SMTT(40)
<1> HIDE DEF x
<1>4. t = a \o x
  BY <1>2, <1>3
<1>5. y \in Seq(Bytes)
  BY <1>1, BytesJoined
<1>6. (a \o x) \o d = a \o y
  BY <1>1, BytesAssociate, SMTT(40)
<1> HIDE DEF y
<1>7. u = a \o y
  BY <1>2, <1>4, <1>6
<1> QED
  BY <1>5, <1>7

\* One byte more is a string of one byte joined at the end.
LEMMA BytesAppend ==
    ASSUME NEW s \in Seq(Bytes), NEW b \in Bytes
    PROVE  <<b>> \in Seq(Bytes) /\ Append(s, b) = s \o <<b>> /\ Append(s, b) \in Seq(Bytes)
<1>1. <<b>> \in Seq(Bytes)
  OBVIOUS
<1> QED
  BY <1>1, AppendIsConcat, AppendProperties

\* Nothing joined is nothing changed.
LEMMA BytesEmpty == <<>> \in Seq(Bytes) /\ \A s \in Seq(Bytes) : Len(s) \in Nat /\ s \o <<>> = s
  BY ConcatEmptySeq, LenProperties

\* The places of a sub-block among the bytes.
IsSubBlock(all, t, outs, packet, rest) ==
    LET next == Len(outs) + 1
        length == Len(packet)
    IN  /\ t \in Seq(Bytes) /\ Len(t) = next + length
        /\ Len(outs) >= 1 => t[1] = outs[1]
        /\ \E tail \in Seq(Bytes) : all = outs \o tail
        /\ Len(all) = next + length + Len(rest) /\ Len(rest) \in Nat
        /\ all[next] = length
        /\ SubSeq(all, next + 1, next + length) = packet

\* A packet behind its length is a sub-block to the reader.
LEMMA SubBlock ==
    ASSUME NEW outs \in Seq(Bytes), NEW packet \in Seq(Bytes), NEW rest \in Seq(Bytes),
           NEW b \in Seq(Bytes), Len(b) = 1, b[1] = Len(packet),
           NEW s, Joins(s, outs, b), NEW t, Joins(t, s, packet), NEW all, Joins(all, t, rest)
    PROVE  IsSubBlock(all, t, outs, packet, rest)
<1>1. PICK n \in Nat, k \in Nat, length \in Nat :
          n = Len(outs) /\ length = Len(packet) /\ k = Len(rest)
  BY LenProperties
<1>2. s \in Seq(Bytes) /\ Len(s) = n + 1 /\ \A i \in 1..1 : s[n + i] = b[i]
  <2>1. Joined(s, outs, b)
    BY BytesPlaces
  <2> QED
    BY <1>1, <2>1 DEF Joined
<1>3. \A i \in 1..n : s[i] = outs[i]
  <2>1. Joined(s, outs, b)
    BY BytesPlaces
  <2> QED
    BY <1>1, <2>1 DEF Joined
<1>5. s[n + 1] = length
  BY <1>1, <1>2
<1>6. /\ t \in Seq(Bytes) /\ Len(t) = (n + 1) + length
      /\ \A i \in 1..(n + 1) : t[i] = s[i]
      /\ \A i \in 1..length : t[(n + 1) + i] = packet[i]
  <2>1. Joined(t, s, packet)
    BY <1>2, BytesPlaces
  <2> QED
    BY <1>1, <1>2, <2>1 DEF Joined
<1>8. /\ all \in Seq(Bytes) /\ Len(all) = ((n + 1) + length) + k
      /\ \A i \in 1..((n + 1) + length) : all[i] = t[i]
  <2>1. Joined(all, t, rest)
    BY <1>6, BytesPlaces
  <2> QED
    BY <1>1, <1>6, <2>1 DEF Joined
<1>9. /\ n + 1 \in 1..(n + 1) /\ n + 1 \in 1..((n + 1) + length)
      /\ \A i \in 1..length : (n + 1) + i \in 1..((n + 1) + length)
  BY <1>1
<1>10. all[n + 1] = length
  BY <1>5, <1>6, <1>8, <1>9
<1>11. \A i \in 1..length : all[(n + 1) + i] = packet[i]
  BY <1>6, <1>8, <1>9
<1> DEFINE first == (n + 1) + 1
           end == (n + 1) + length
           sub == SubSeq(all, first, end)
<1>12. sub \in Seq(Bytes) /\ Len(sub) = length /\ \A i \in 1..length : sub[i] = packet[i]
  <2>1. /\ first \in Int /\ end \in Int /\ end - first + 1 = length
        /\ (first <= end <=> length >= 1) /\ (length = 0 \/ length >= 1)
        /\ \A i \in 1..length : first + i - 1 = (n + 1) + i
    BY <1>1
  <2>2. \A i \in first..end : i \in 1..(((n + 1) + length) + k)
    BY <1>1
  <2> HIDE DEF first, end
  <2>3. \A i \in first..end : all[i] \in Bytes
    BY <1>8, <2>2, ElementOfSeq
  <2>4. sub \in Seq(Bytes)
    BY <2>1, <2>3, SubSeqProperties
  <2>5. Len(sub) = IF first <= end THEN end - first + 1 ELSE 0
    BY <2>1, <2>3, SubSeqProperties
  <2>6. \A i \in 1..(end - first + 1) : sub[i] = all[first + i - 1]
    BY <2>1, <2>3, SubSeqProperties
  <2> HIDE DEF sub
  <2>7. Len(sub) = length
    BY <2>1, <2>5
  <2>8. \A i \in 1..length : sub[i] = packet[i]
    BY <1>11, <2>1, <2>6
  <2> QED
    BY <2>4, <2>7, <2>8
<1> HIDE DEF sub
<1>13. sub = packet
  BY <1>1, <1>12, SeqEqual
<1> QED
  <2>1. n >= 1 => t[1] = outs[1]
    BY <1>3, <1>6
  <2>2. \E tail \in Seq(Bytes) : all = outs \o tail
    BY JoinsAssociate, SMTT(40)
  <2>3. SubSeq(all, (n + 1) + 1, (n + 1) + length) = packet
    BY <1>13 DEF sub, first, end
  <2> QED
    BY <1>1, <1>6, <1>8, <1>10, <2>1, <2>2, <2>3 DEF IsSubBlock

\* A block of k bytes behind its length, behind m bytes: room for a step more.
LEMMA StepsFit ==
    ASSUME NEW m \in Nat, NEW n \in 0..(m - 1), NEW k \in 1..255, NEW next, next = m + 1,
           NEW l, l = next + k
    PROVE  n + 1 \in 0..(l - 1) /\ l >= 1
  OBVIOUS

\* The block of k bytes that begins at next ends before l bytes do.
HasRoom(l, next, k) == ~(next > l) /\ k # 0 /\ ~(next + k > l)

\* So the reader does not run out of bytes in such a block.
LEMMA BlockFits ==
    ASSUME NEW m \in Nat, NEW next, next = m + 1, NEW k \in 1..255, NEW more \in Nat,
           NEW l, l = next + k + more
    PROVE  HasRoom(l, next, k)
  BY DEF HasRoom

\* A packet more.
LEMMA BlockAdded ==
    ASSUME NEW outs, NEW Q, HasBlocks(outs, Q), NEW packet \in Seq(Bytes), Len(packet) \in 1..255
    PROVE  HasBlocks((outs \o <<Len(packet)>>) \o packet, Q \o packet)
<1> DEFINE length == Len(packet)
           b == <<length>>
           s == outs \o b
           t == s \o packet
           next == Len(outs) + 1
<1>1. /\ outs \in Seq(Bytes) /\ Len(outs) \in Nat /\ Len(outs) >= 1 /\ outs[1] = InitCodeSize
      /\ Q \in Seq(Bytes) /\ <<>> \in Seq(Bytes)
  BY DEF HasBlocks
<1>2. length \in Bytes /\ length \in 1..255 /\ length = Len(packet)
  BY SMTT(40) DEF Bytes
<1> HIDE DEF length
<1>3. PICK n \in 0..(Len(outs) - 1) : \A rest \in Seq(Bytes) :
          After(outs \o rest, FirstBlock, n) = Block(next, Q)
  BY DEF HasBlocks
<1>4. b \in Seq(Bytes) /\ Len(b) = 1 /\ b[1] = length
  <2>1. b \in Seq(Bytes)
    BY <1>1, <1>2, BytesAppend
  <2> QED
    BY <2>1
<1> HIDE DEF b
<1>5. Joins(s, outs, b) /\ Joins(t, s, packet)
  BY DEF Joins
<1> HIDE DEF s, t, next
<1>6. next = Len(outs) + 1
  BY DEF next
<1>7. ASSUME NEW rest \in Seq(Bytes), NEW all, Joins(all, t, rest)
      PROVE  /\ t \in Seq(Bytes) /\ Len(t) = next + length /\ t[1] = outs[1]
             /\ \E tail \in Seq(Bytes) : all = outs \o tail
             /\ Len(all) = next + length + Len(rest) /\ Len(rest) \in Nat
             /\ all[next] = length
             /\ SubSeq(all, next + 1, next + length) = packet
  <2>1. b[1] = Len(packet)
    BY <1>4 DEF length
  <2>2. IsSubBlock(all, t, outs, packet, rest)
    BY <1>1, <1>4, <1>5, <1>7, <2>1, SubBlock
  <2> QED
    BY <1>1, <2>2 DEF IsSubBlock, next, length
<1>8. t \in Seq(Bytes) /\ Len(t) = next + length /\ t[1] = InitCodeSize
  <2>1. Joins(t \o <<>>, t, <<>>)
    BY DEF Joins
  <2> QED
    BY <1>1, <1>7, <2>1
<1>9. n + 1 \in 0..(Len(t) - 1) /\ Len(t) >= 1
  BY <1>1, <1>2, <1>6, <1>8, StepsFit, ZenonT(40)
<1>10. ASSUME NEW rest \in Seq(Bytes)
       PROVE  After(t \o rest, FirstBlock, n + 1) = Block(Len(t) + 1, Q \o packet)
  <2> DEFINE all == t \o rest
  <2>1. Joins(all, t, rest)
    BY DEF Joins
  <2> HIDE DEF all
  <2>2. PICK tail \in Seq(Bytes) : all = outs \o tail
    BY <1>7, <2>1
  <2>3. /\ Len(all) = next + length + Len(rest) /\ Len(rest) \in Nat
        /\ all[next] = length
        /\ SubSeq(all, next + 1, next + length) = packet
    BY <1>7, <2>1
  <2>4. After(all, FirstBlock, n) = Block(next, Q)
    BY <1>3, <2>2
  <2>5. After(all, FirstBlock, n + 1) = Step(all, Block(next, Q))
    BY <2>4, AfterNext, SMTT(40)
  <2>6. Step(all, Block(next, Q)) = ReadBlock(all, Block(next, Q))
    BY DEF Step, Block
  <2>7. HasRoom(Len(all), next, length)
    BY <1>1, <1>2, <1>6, <2>3, BlockFits
  <2>8. ReadBlock(all, Block(next, Q)) = Block(next + length + 1, Q \o packet)
    BY <2>3, <2>7 DEF ReadBlock, Block, HasRoom
  <2> QED
    BY <1>8, <2>5, <2>6, <2>8 DEF all
<1>11. Q \o packet \in Seq(Bytes)
  BY <1>1, BytesJoined
<1>12. HasBlocks(t, Q \o packet)
  BY <1>8, <1>9, <1>10, <1>11 DEF HasBlocks
<1> QED
  BY <1>12 DEF t, s, b, length

\* flush_char puts the packet begun with the others.
LEMMA FlushPayload ==
    ASSUME NEW w \in Writers, Len(w.accum) <= PacketSize, NEW P, Payload(w, P)
    PROVE  Payload(flush_char(w), P) /\ HasBlocks(flush_char(w).outs, P)
<1>1. w.accum \in Seq(Bytes) /\ Len(w.accum) \in Nat /\ <<>> \in Seq(Bytes)
  BY DEF Writers, Bytes
<1>2. PICK Q \in Seq(Bytes) : HasBlocks(w.outs, Q) /\ P = Q \o w.accum
  BY DEF Payload
<1>3. \A s \in Seq(Bytes) : s \o <<>> = s
  OBVIOUS
<1>4. P \in Seq(Bytes)
  BY <1>1, <1>2
<1>5. CASE w.accum = <<>>
  <2>1. flush_char(w) = w /\ P = Q
    BY <1>2, <1>3, <1>5 DEF flush_char
  <2> QED
    BY <1>2, <2>1
<1>6. CASE w.accum # <<>>
  <2> DEFINE bytes == (w.outs \o <<Len(w.accum)>>) \o w.accum
  <2>1. Len(w.accum) \in 1..255
    <3>1. Len(w.accum) # 0
      BY <1>1, <1>6
    <3> DEFINE n == Len(w.accum)
    <3>2. n \in Nat /\ n <= PacketSize /\ n # 0 /\ PacketSize \in 1..255
      BY <1>1, <3>1, SizeAssumption
    <3> HIDE DEF n
    <3>3. n \in 1..255
      BY <3>2
    <3> QED
      BY <3>3 DEF n
  <2>2. HasBlocks(bytes, P)
    BY <1>1, <1>2, <2>1, BlockAdded
  <2>3. flush_char(w) = [w EXCEPT !.outs = bytes, !.accum = <<>>]
    BY <1>6 DEF flush_char
  <2> HIDE DEF bytes
  <2>4. flush_char(w).outs = bytes /\ flush_char(w).accum = <<>>
    BY <2>3 DEF Writers
  <2>5. P = P \o flush_char(w).accum
    BY <1>3, <1>4, <2>4
  <2> QED
    BY <1>4, <2>2, <2>4, <2>5 DEF Payload
<1> QED
  BY <1>5, <1>6

\* char_out adds a byte.
LEMMA CharOutPayload ==
    ASSUME NEW w \in Writers, Len(w.accum) < PacketSize, NEW P, Payload(w, P), NEW b \in Bytes
    PROVE  Payload(char_out(w, b), Append(P, b))
<1> DEFINE w1 == [w EXCEPT !.accum = Append(@, b)]
<1>1. w.accum \in Seq(Bytes) /\ PacketSize \in Nat
  BY SizeAssumption DEF Writers, Bytes
<1>2. PICK Q \in Seq(Bytes) : HasBlocks(w.outs, Q) /\ P = Q \o w.accum
  BY DEF Payload
<1>3. Append(w.accum, b) \in Seq(Bytes) /\ Len(Append(w.accum, b)) = Len(w.accum) + 1
  BY <1>1
<1>4. w1 \in Writers /\ w1.accum = Append(w.accum, b) /\ w1.outs = w.outs
  BY <1>3 DEF Writers, Bytes
<1>5. Append(P, b) = Q \o Append(w.accum, b)
  <2>1. P \in Seq(Bytes) /\ <<b>> \in Seq(Bytes)
    BY <1>1, <1>2, BytesJoined, BytesAppend
  <2>2. Append(P, b) = P \o <<b>> /\ Append(w.accum, b) = w.accum \o <<b>>
    BY <1>1, <2>1, BytesAppend
  <2>3. (Q \o w.accum) \o <<b>> = Q \o (w.accum \o <<b>>)
    BY <1>1, <1>2, <2>1, BytesAssociate
  <2> QED
    BY <1>2, <2>2, <2>3, Zenon
<1>6. Payload(w1, Append(P, b))
  BY <1>2, <1>4, <1>5 DEF Payload
<1>7. Len(w1.accum) <= PacketSize
  BY <1>1, <1>3, <1>4
<1>8. char_out(w, b) = IF Len(w1.accum) >= PacketSize THEN flush_char(w1) ELSE w1
  BY DEF char_out
<1> HIDE DEF w1
<1> QED
  BY <1>4, <1>6, <1>7, <1>8, FlushPayload

\* With the terminator the reader has all of the data.
LEMMA BlocksEnd ==
    ASSUME NEW outs, NEW Q, HasBlocks(outs, Q)
    PROVE  LET bytes == Append(outs, 0)
               blocks == After(bytes, FirstBlock, Len(bytes))
           IN  Head(bytes) = InitCodeSize /\ blocks.at = "joined" /\ blocks.data = Q
<1> DEFINE bytes == Append(outs, 0)
           next == Len(outs) + 1
<1>1. /\ outs \in Seq(Bytes) /\ Len(outs) \in Nat /\ Len(outs) >= 1 /\ outs[1] = InitCodeSize
      /\ Q \in Seq(Bytes) /\ <<0>> \in Seq(Bytes)
  BY DEF HasBlocks, Bytes
<1>2. PICK n \in 0..(Len(outs) - 1) : \A rest \in Seq(Bytes) :
          After(outs \o rest, FirstBlock, n) = Block(next, Q)
  BY DEF HasBlocks
<1>3. /\ bytes = outs \o <<0>> /\ Len(bytes) = next /\ bytes[next] = 0
      /\ Head(bytes) = InitCodeSize
  BY <1>1
<1> HIDE DEF bytes
<1>4. After(bytes, FirstBlock, n) = Block(next, Q)
  BY <1>1, <1>2, <1>3
<1>5. After(bytes, FirstBlock, n + 1) = ReadBlock(bytes, Block(next, Q))
  <2>1. After(bytes, FirstBlock, n + 1) = Step(bytes, Block(next, Q))
    BY <1>4, AfterNext
  <2> QED
    BY <2>1 DEF Step, Block
<1>6. ReadBlock(bytes, Block(next, Q)) = [at |-> "joined", next |-> next, data |-> Q]
  <2>1. ~(next > Len(bytes)) /\ next = Len(bytes)
    BY <1>1, <1>3
  <2> HIDE DEF next
  <2> QED
    BY <1>3, <2>1 DEF ReadBlock, Block
<1>7. n + 1 \in Nat /\ Len(bytes) \in Nat /\ n + 1 <= Len(bytes)
  BY <1>1, <1>3
<1>8. After(bytes, FirstBlock, Len(bytes)) = After(bytes, FirstBlock, n + 1)
  BY <1>5, <1>6, <1>7, Rests
<1> QED
  BY <1>3, <1>5, <1>6, <1>8 DEF bytes
-----------------------------------------------------------------------------
(* Bits: the codes put together in cur_accum, a reader takes apart.         *)

\* P behind the bytes that the loops of output() have put out.
LongerBy(P, w, count) ==
    IF count = 0 THEN P
    ELSE IF count = 1 THEN Append(P, ByteOf(w, 0))
    ELSE Append(Append(P, ByteOf(w, 0)), ByteOf(w, 1))

\* The loops of output() make the payload longer by the bytes they put out.
LEMMA ShiftOutPayload ==
    ASSUME NEW w \in Writers, Len(w.accum) < PacketSize, NEW rest \in {0, 7},
           w.cur_bits \in -7..19, rest = 0 => w.cur_bits <= 7,
           NEW P \in Seq(Bytes), Payload(w, P)
    PROVE  /\ Payload(ShiftOut(w, rest), LongerBy(P, w, ShiftCount(w, rest)))
           /\ LongerBy(P, w, ShiftCount(w, rest)) \in Seq(Bytes)
<1> DEFINE count == ShiftCount(w, rest)
           v == ShiftOut(w, rest)
           one == char_out(w, ByteOf(w, 0))
           two == char_out(one, ByteOf(w, 1))
<1>1. /\ count \in 0..2 /\ ByteOf(w, 0) \in Bytes /\ ByteOf(w, 1) \in Bytes
      /\ v.accum = PutBytes(w, count).accum /\ v.outs = PutBytes(w, count).outs
  <2>1. \A k \in 0..1 : ByteOf(w, k) \in 0..255
    BY ShiftOutIs
  <2> QED
    BY <2>1, ShiftOutIs DEF Bytes
<1> HIDE DEF count
<1>2. one \in Writers /\ Len(one.accum) < PacketSize
  BY <1>1, CharOut DEF Bytes
<1>3. Payload(one, Append(P, ByteOf(w, 0))) /\ Append(P, ByteOf(w, 0)) \in Seq(Bytes)
  <2>1. Append(P, ByteOf(w, 0)) \in Seq(Bytes)
    BY <1>1, BytesAppend
  <2> QED
    BY <1>1, <2>1, CharOutPayload
<1> HIDE DEF one
<1>4. /\ Payload(two, Append(Append(P, ByteOf(w, 0)), ByteOf(w, 1)))
      /\ Append(Append(P, ByteOf(w, 0)), ByteOf(w, 1)) \in Seq(Bytes)
  <2>1. Append(Append(P, ByteOf(w, 0)), ByteOf(w, 1)) \in Seq(Bytes)
    BY <1>1, <1>3, BytesAppend
  <2> QED
    BY <1>1, <1>2, <1>3, <2>1, CharOutPayload
<1> HIDE DEF two
<1>5. Payload(PutBytes(w, count), LongerBy(P, w, count)) /\ LongerBy(P, w, count) \in Seq(Bytes)
  <2>1. CASE count = 0
    BY <2>1 DEF PutBytes, LongerBy
  <2>2. CASE count = 1
    BY <1>3, <2>2 DEF PutBytes, LongerBy, one
  <2>3. CASE count = 2
    BY <1>4, <2>3 DEF PutBytes, LongerBy, one, two
  <2> QED
    BY <1>1, <2>1, <2>2, <2>3
<1>6. Payload(v, LongerBy(P, w, count))
  BY <1>1, <1>5 DEF Payload
<1> QED
  BY <1>5, <1>6 DEF count

\* What is below a power of two, what is above it, and the two put together: opaque to
\* the provers, but where a lemma is about them.
Low(x, T) == x % T
High(x, T) == x \div T
OnTop(x, T, y) == x + y * T
ThreeBytes(B0, B1, B2) == B0 + 256 * B1 + 65536 * B2

\* The bits of w.cur_accum that are not put out yet come next in the data.
Follows(data, P, w) ==
    /\ data \in Seq(Bytes) /\ Len(data) >= Len(P)
    /\ \A i \in 1..Len(P) : data[i] = P[i]
    /\ w.cur_bits > 0 => /\ Len(data) > Len(P)
                         /\ Low(data[Len(P) + 1], TwoTo(w.cur_bits))
                                = Low(w.cur_accum, TwoTo(w.cur_bits))

\* The byte at place k counted from 0, as CodeAt takes it.
DataByte(data, k) == IF k < Len(data) THEN data[k + 1] ELSE 0

\* A byte of the data, or the 0 behind its end, is a byte.
LEMMA DataBytes ==
    ASSUME NEW data \in Seq(Bytes), NEW k \in Nat
    PROVE  DataByte(data, k) \in Bytes
<1>1. Len(data) \in Nat
  BY LenProperties
<1>2. CASE k < Len(data)
  <2>1. k + 1 \in 1..Len(data)
    BY <1>1, <1>2
  <2>2. data[k + 1] \in Bytes
    BY <2>1, ElementOfSeq
  <2> QED
    BY <1>2, <2>2 DEF DataByte
<1>3. CASE ~(k < Len(data))
  BY <1>3 DEF DataByte, Bytes
<1> QED
  BY <1>2, <1>3

\* The byte and the bit at which a place counted in bits is.
LEMMA PlaceOfCode ==
    ASSUME NEW n \in Nat, NEW b \in 0..7
    PROVE  (8 * n + b) \div 8 = n /\ (8 * n + b) % 8 = b
  OBVIOUS

\* Of a number that is not negative, neither is the quotient.
LEMMA QuotientInNat ==
    ASSUME NEW B \in Nat, NEW T \in Nat, T > 0, NEW q \in Int, NEW x \in 0..(T - 1), B = q * T + x
    PROVE  q \in Nat
<1> SUFFICES ASSUME q <= -1 PROVE FALSE
  OBVIOUS
<1>1. \A y \in Int, t \in Nat : y <= -1 /\ t > 0 => y * t <= -t
  <2>1. \A y \in Int, t \in Nat : y <= -1 /\ t > 0 => (y + 1) * t <= 0
    OBVIOUS
  <2>2. \A y \in Int, t \in Nat : (y + 1) * t = y * t + t /\ y * t \in Int
    OBVIOUS
  <2> QED
    BY <2>1, <2>2
<1>2. q * T <= -T /\ q * T \in Int
  BY <1>1
<1> QED
  BY <1>2

\* Numbers that agree in their lower bits.
LEMMA SameLowBits ==
    ASSUME NEW c \in 0..7, NEW x \in Nat, x < TwoTo(c), NEW B \in Bytes,
           c > 0 => Low(B, TwoTo(c)) = Low(x, TwoTo(c))
    PROVE  \E q \in Nat : B = x + TwoTo(c) * q
<1> DEFINE T == TwoTo(c)
<1>1. T \in Nat /\ T > 0 /\ B \in Nat
  <2>1. c \in 0..20
    OBVIOUS
  <2> QED
    BY <2>1, PowerNext DEF Bytes
<1>2. CASE c = 0
  <2>1. T = 1
    BY <1>2, Powers
  <2>2. x = 0 /\ B = 0 + T * B
    BY <1>1, <2>1
  <2> QED
    BY <1>1, <2>2
<1>3. CASE c > 0
  <2>1. B % T = x % T
    BY <1>3 DEF Low
  <2>2. x < T
    OBVIOUS
  <2> HIDE DEF T
  <2>3. PICK q \in Int, r \in 0..(T - 1) : r = B % T /\ B = q * T + r
    <3>1. B \in Int
      BY <1>1
    <3> QED
      BY <1>1, <3>1, Division
  <2>4. x % T = x
    BY <1>1, <2>2
  <2>5. B = q * T + x
    BY <2>1, <2>3, <2>4
  <2>6. q \in Nat
    <3>1. x \in 0..(T - 1)
      BY <1>1, <2>2
    <3> QED
      BY <1>1, <2>5, <3>1, QuotientInNat
  <2>7. q \in Nat /\ B = x + T * q
    BY <1>1, <2>5, <2>6
  <2> QED
    BY <2>7 DEF T
<1> QED
  BY <1>2, <1>3

\* A number and its lowest byte.
LEMMA Lowest ==
    ASSUME NEW x \in Nat
    PROVE  \E q \in Nat, r \in 0..255 : q = x \div 256 /\ r = x % 256 /\ x = 256 * q + r
<1>1. PICK q \in Int, r \in 0..255 : q = x \div 256 /\ r = x % 256 /\ x = q * 256 + r
  <2>1. 256 \in Nat /\ 256 > 0 /\ 256 - 1 = 255
    OBVIOUS
  <2> QED
    BY <2>1, Division
<1>2. q \in Nat /\ q = x \div 256 /\ r = x % 256 /\ x = 256 * q + r
  BY <1>1
<1> QED
  BY <1>2, ZenonT(40)

\* Shifting by 16 is shifting by 8 twice.
LEMMA LowestTwice == \A x \in Nat : x \div 65536 = (x \div 256) \div 256
  OBVIOUS

\* A power of two that divides 256, and what is spread over two bytes.
Divides(t, u) == t * u = 256
Spreads(t, x, y) == \E z \in Nat : t * z = t * x + 256 * y

\* What is spread over the second byte is a multiple of what divides 256.
LEMMA Spread ==
    ASSUME NEW t \in Nat, NEW u \in Nat, Divides(t, u), NEW x \in Nat, NEW y \in Nat
    PROVE  Spreads(t, x, y)
<1>1. t * (x + u * y) = t * x + (t * u) * y
  OBVIOUS
<1>2. x + u * y \in Nat
  OBVIOUS
<1>3. (t * u) * y = 256 * y
  <2> DEFINE p == t * u
  <2>1. p = 256
    BY DEF Divides
  <2> HIDE DEF p
  <2>2. p * y = 256 * y
    BY <2>1
  <2> QED
    BY <2>2 DEF p
<1> QED
  BY <1>1, <1>2, <1>3 DEF Spreads

\* A number that is put out in k bytes and the lowest c bits of one more.
Begins(A, k, c, B0, B1, B2) ==
    /\ k >= 1 => B0 = Low(A, 256)
    /\ k = 2 => B1 = Low(High(A, 256), 256)
    /\ c > 0 => Low(IF k = 0 THEN B0 ELSE IF k = 1 THEN B1 ELSE B2, TwoTo(c))
                    = Low(High(A, TwoTo(8 * k)), TwoTo(c))

Fits(A, k, c, X) == 8 * k + c <= 19 /\ X = TwoTo(8 * k + c) /\ A < X

\* Of a number that is put out in bytes, the last of which may have more bits on top,
\* three bytes make the number, with something on top.
LEMMA Window ==
    ASSUME NEW A \in Nat, NEW k \in 0..2, NEW c \in 0..7, NEW X, Fits(A, k, c, X),
           NEW B0 \in Bytes, NEW B1 \in Bytes, NEW B2 \in Bytes, Begins(A, k, c, B0, B1, B2)
    PROVE  \E q \in Nat : ThreeBytes(B0, B1, B2) = OnTop(A, X, q)
<1>0. 8 * k + c <= 19 /\ X = TwoTo(8 * k + c) /\ A < TwoTo(8 * k + c)
  BY DEF Fits
<1> SUFFICES \E q \in Nat : B0 + 256 * B1 + 65536 * B2 = A + TwoTo(8 * k + c) * q
  <2>1. TwoTo(8 * k + c) \in Nat
    <3>1. 8 * k + c \in 0..20
      BY <1>0
    <3> QED
      BY <3>1, PowerNext
  <2> QED
    BY <1>0, <2>1 DEF ThreeBytes, OnTop
<1> DEFINE T == TwoTo(c)
           U == TwoTo(8 - c)
<1>1. T \in Nat /\ T > 0 /\ U \in Nat /\ T * U = 256
  <2>1. c \in 0..20 /\ 8 - c \in 0..20
    OBVIOUS
  <2>2. T \in Nat /\ T > 0 /\ U \in Nat
    BY <2>1, PowerNext
  <2>3. T * U = 256
    <3>1. c = 0 \/ c = 1 \/ c = 2 \/ c = 3 \/ c = 4 \/ c = 5 \/ c = 6 \/ c = 7
      OBVIOUS
    <3> QED
      BY <3>1, Powers
  <2> QED
    BY <2>2, <2>3
<1>2. B0 \in Nat /\ B1 \in Nat /\ B2 \in Nat
  BY DEF Bytes
<1>3. TwoTo(8 * 0) = 1 /\ TwoTo(8 * 1) = 256 /\ TwoTo(8 * 2) = 65536
  BY Powers
<1>4. CASE k = 0
  <2>1. TwoTo(8 * k + c) = T /\ TwoTo(8 * k) = 1
    BY <1>3, <1>4
  <2>2. High(A, TwoTo(8 * k)) = A
    BY <2>1 DEF High
  <2>3. PICK q \in Nat : B0 = A + T * q
    <3>1. c > 0 => Low(B0, T) = Low(A, T)
      BY <1>4, <2>2 DEF Begins
    <3>2. A < T
      BY <1>0, <2>1
    <3> QED
      BY <3>1, <3>2, SameLowBits
  <2> DEFINE y == B1 + 256 * B2
  <2>4. y \in Nat
    BY <1>2
  <2> HIDE DEF y, T, U
  <2>6. PICK z \in Nat : T * z = T * q + 256 * y
    <3>1. Divides(T, U)
      BY <1>1 DEF Divides
    <3>2. Spreads(T, q, y)
      BY <1>1, <2>4, <3>1, Spread
    <3> QED
      BY <3>2 DEF Spreads
  <2>7. B0 + 256 * B1 + 65536 * B2 = A + T * z
    <3> DEFINE tz == T * z
               tq == T * q
    <3>1. tz = tq + 256 * y /\ tq \in Nat /\ B0 = A + tq
      BY <1>1, <2>3, <2>6
    <3>2. y = B1 + 256 * B2
      BY DEF y
    <3> HIDE DEF tz, tq
    <3>3. B0 + 256 * B1 + 65536 * B2 = A + tz
      BY <1>2, <3>1, <3>2
    <3> QED
      BY <3>3 DEF tz
  <2> QED
    BY <2>1, <2>6, <2>7
<1>5. CASE k = 1
  <2>1. TwoTo(8 * k + c) = T * 256 /\ TwoTo(8 * k) = 256
    <3>1. TwoTo(c + 8) = T * TwoTo(8) /\ 8 * k + c = c + 8
      BY <1>5, PowerAdds
    <3> QED
      BY <1>3, <1>5, <3>1, Powers
  <2>2. PICK x \in Nat, m \in 0..255 : x = A \div 256 /\ m = A % 256 /\ A = 256 * x + m
    BY Lowest
  <2>3. x < T
    <3>1. A < T * 256
      BY <1>0, <2>1
    <3> HIDE DEF T
    <3> QED
      BY <1>1, <2>2, <3>1
  <2>4. c > 0 => Low(B1, T) = Low(x, T)
    <3>1. High(A, TwoTo(8 * k)) = x
      BY <2>1, <2>2 DEF High
    <3> QED
      BY <1>5, <3>1 DEF Begins
  <2>10. B0 = m
    BY <1>5, <2>2 DEF Low, Begins
  <2>5. PICK q \in Nat : B1 = x + T * q
    BY <2>2, <2>3, <2>4, SameLowBits
  <2> HIDE DEF T, U
  <2>6. \A t, u, p, y \in Nat : t * (p + u * y) = t * p + (t * u) * y /\ p + u * y \in Nat
    OBVIOUS
  <2> DEFINE z == q + U * B2
  <2>7. z \in Nat /\ T * z = T * q + 256 * B2
    BY <1>1, <1>2, <2>6
  <2>8. (T * 256) * z = 256 * (T * z)
    BY <1>1, <2>7
  <2> DEFINE tq == T * q
             tz == T * z
  <2>9. tq \in Nat /\ tz \in Nat /\ tz = tq + 256 * B2 /\ B1 = x + tq
    BY <1>1, <2>5, <2>7
  <2>11. B0 + 256 * B1 + 65536 * B2 = A + 256 * tz
    <3> HIDE DEF tq, tz
    <3> QED
      BY <1>2, <2>2, <2>9, <2>10
  <2> QED
    BY <2>1, <2>7, <2>8, <2>11
<1>6. CASE k = 2
  <2>1. TwoTo(8 * k + c) = T * 65536 /\ TwoTo(8 * k) = 65536
    <3>1. c \in 0..3
      BY <1>0, <1>6
    <3>2. TwoTo(c + 8) = T * TwoTo(8) /\ 8 * k + c = (c + 8) + 8
      BY <1>6, PowerAdds
    <3>3. TwoTo((c + 8) + 8) = TwoTo(c + 8) * TwoTo(8)
      <4>1. c + 8 \in 0..12 /\ 8 \in 2..8
        BY <3>1
      <4> QED
        BY <4>1, PowerAdds
    <3>4. TwoTo((c + 8) + 8) = (T * 256) * 256 /\ TwoTo(8 * k) = 65536
      BY <1>3, <1>6, <3>2, <3>3, Powers
    <3> HIDE DEF T
    <3> QED
      BY <1>1, <3>2, <3>4
  <2>a. PICK y \in Nat, m \in 0..255 : y = A \div 256 /\ m = A % 256 /\ A = 256 * y + m
    BY Lowest
  <2>b. PICK x \in Nat, n \in 0..255 : x = y \div 256 /\ n = y % 256 /\ y = 256 * x + n
    BY Lowest
  <2>c. A \div 65536 = x
    BY <2>a, <2>b, LowestTwice
  <2>3. x < T
    <3>1. A < T * 65536
      BY <1>0, <2>1
    <3> HIDE DEF T
    <3> QED
      BY <1>1, <2>a, <2>b, <3>1
  <2>4. c > 0 => Low(B2, T) = Low(x, T)
    <3>1. High(A, TwoTo(8 * k)) = x
      BY <2>1, <2>c DEF High
    <3> QED
      BY <1>6, <3>1 DEF Begins
  <2>5. B0 = m /\ B1 = n
    <3>1. Low(A, 256) = m
      BY <2>a DEF Low
    <3>2. High(A, 256) = y
      BY <2>a DEF High
    <3>3. Low(y, 256) = n
      BY <2>b DEF Low
    <3> QED
      BY <1>6, <3>1, <3>2, <3>3 DEF Begins
  <2>6. PICK q \in Nat : B2 = x + T * q
    BY <2>3, <2>4, SameLowBits
  <2> HIDE DEF T
  <2> DEFINE tq == T * q
  <2>7. tq \in Nat /\ B2 = x + tq /\ (T * 65536) * q = 65536 * tq
    BY <1>1, <2>6
  <2>8. B0 + 256 * B1 + 65536 * B2 = A + 65536 * tq
    <3> HIDE DEF tq
    <3> QED
      BY <1>2, <2>a, <2>b, <2>5, <2>7
  <2> QED
    BY <2>1, <2>7, <2>8
<1>7. k = 0 \/ k = 1 \/ k = 2
  OBVIOUS
<1> QED
  BY <1>4, <1>5, <1>6, <1>7

\* The bits below a code and the bits above it do not matter.
ComesBack(T, N, a, code) ==
    \A q \in Nat : Low(High(OnTop(OnTop(a, T, code), T * N, q), T), N) = code

\* So the code comes out again when the bits below it are shifted away.
LEMMA CodeComesBack ==
    ASSUME NEW T \in Nat, NEW N \in Nat, T > 0, NEW a \in Nat, a < T, NEW code \in Nat, code < N
    PROVE  ComesBack(T, N, a, code)
<1> SUFFICES ASSUME NEW q \in Nat
             PROVE  Low(High(OnTop(OnTop(a, T, code), T * N, q), T), N) = code
  BY DEF ComesBack
<1> DEFINE x == code + N * q
<1>1. x \in Nat /\ (a + code * T) + q * (T * N) = x * T + a
  OBVIOUS
<1>2. \A y \in Nat : (y * T + a) \div T = y
  OBVIOUS
<1>3. OnTop(OnTop(a, T, code), T * N, q) = x * T + a
  BY <1>1 DEF OnTop
<1>4. x % N = code
  OBVIOUS
<1> HIDE DEF x
<1>5. High(x * T + a, T) = x
  BY <1>1, <1>2 DEF High
<1> QED
  BY <1>3, <1>4, <1>5 DEF Low

\* Powers of the widths that occur multiply when their exponents add.
LEMMA PowerAddsLess ==
    ASSUME NEW n \in 0..12, NEW m \in 0..8
    PROVE  TwoTo(n + m) = TwoTo(n) * TwoTo(m)
<1>1. TwoTo(n) \in Nat /\ TwoTo(n + 1) = 2 * TwoTo(n)
  <2>1. n \in 0..20
    OBVIOUS
  <2> QED
    BY <2>1, PowerNext
<1>2. CASE m = 0
  BY <1>1, <1>2, Powers
<1>3. CASE m = 1
  BY <1>1, <1>3, Powers
<1>4. CASE m \in 2..8
  BY <1>4, PowerAdds
<1> QED
  BY <1>2, <1>3, <1>4

\* A code and what it is put on top of.
CodeParts(b, n, acc, code, T, N, a) ==
    /\ T = TwoTo(b) /\ N = TwoTo(n) /\ a = Low(acc, T)
    /\ T > 0 /\ N > 0 /\ a < T /\ code < N /\ TwoTo(b + n) = T * N
    /\ OnTop(a, T, code) \in Nat /\ OnTop(a, T, code) < T * N

\* The sizes that a code, what it is put on top of and the two together have.
LEMMA CodeOnTop ==
    ASSUME NEW b \in 0..7, NEW n \in 3..12, NEW acc \in Nat, NEW code \in Nat, code < TwoTo(n)
    PROVE  \E T \in Nat, N \in Nat, a \in Nat : CodeParts(b, n, acc, code, T, N, a)
<1>1. PICK T \in Nat, N \in Nat : T = TwoTo(b) /\ N = TwoTo(n) /\ T > 0 /\ N > 0
  <2>1. b \in 0..20 /\ n \in 0..20
    OBVIOUS
  <2> QED
    BY <2>1, PowerNext
<1>2. TwoTo(b + n) = T * N
  <2>1. TwoTo(n + b) = N * T
    <3>1. n \in 0..12 /\ b \in 0..8
      OBVIOUS
    <3> QED
      BY <1>1, <3>1, PowerAddsLess
  <2>2. n + b = b + n
    OBVIOUS
  <2> QED
    BY <1>1, <2>1, <2>2
<1>3. code < N
  BY <1>1
<1>4. PICK a \in 0..(T - 1) : a = Low(acc, T)
  BY <1>1 DEF Low
<1>5. code * T \in Nat /\ code * T <= T * N - T
  <2>1. (N - 1) - code \in Nat
    BY <1>1, <1>3
  <2>2. ((N - 1) - code) * T >= 0
    BY <1>1, <2>1
  <2>3. ((N - 1) - code) * T = T * N - T - code * T
    BY <1>1
  <2> DEFINE x == code * T
             y == T * N
  <2>4. x \in Nat /\ y \in Nat
    BY <1>1
  <2> HIDE DEF x, y
  <2>5. y - T - x >= 0
    BY <2>2, <2>3 DEF x, y
  <2>6. x <= y - T
    BY <1>1, <2>4, <2>5
  <2> QED
    BY <2>4, <2>6 DEF x, y
<1>6. OnTop(a, T, code) \in Nat /\ OnTop(a, T, code) < T * N
  <2> DEFINE x == code * T
             y == T * N
  <2>1. x \in Nat /\ y \in Nat /\ x <= y - T
    BY <1>1, <1>5
  <2> HIDE DEF x, y
  <2>2. a + x \in Nat /\ a + x < y
    BY <1>1, <2>1
  <2> QED
    BY <2>2 DEF x, y, OnTop
<1>7. a \in Nat /\ a < T
  BY <1>1
<1>8. CodeParts(b, n, acc, code, T, N, a)
  BY <1>1, <1>2, <1>3, <1>4, <1>6, <1>7 DEF CodeParts
<1> QED
  BY <1>1, <1>7, <1>8

\* A byte in two parts.
LEMMA ByteSplit == \A b \in 0..7 : \E U \in Nat : Divides(TwoTo(b), U)
<1> SUFFICES ASSUME NEW b \in 0..7 PROVE \E U \in Nat : TwoTo(b) * U = 256
  BY DEF Divides
<1>1. b = 0 \/ b = 1 \/ b = 2 \/ b = 3 \/ b = 4 \/ b = 5 \/ b = 6 \/ b = 7
  OBVIOUS
<1>2. 256 \in Nat /\ 128 \in Nat /\ 64 \in Nat /\ 32 \in Nat /\ 16 \in Nat /\ 8 \in Nat
      /\ 4 \in Nat /\ 2 \in Nat
  OBVIOUS
<1>3. /\ TwoTo(0) * 256 = 256 /\ TwoTo(1) * 128 = 256 /\ TwoTo(2) * 64 = 256
      /\ TwoTo(3) * 32 = 256 /\ TwoTo(4) * 16 = 256 /\ TwoTo(5) * 8 = 256
      /\ TwoTo(6) * 4 = 256 /\ TwoTo(7) * 2 = 256
  BY Powers
<1> QED
  BY <1>1, <1>2, <1>3

\* A number that begins with a, and a code on top.
Found(B0, B1, B2, a, T, code, N) ==
    \E q \in Nat : ThreeBytes(B0, B1, B2) = OnTop(OnTop(a, T, code), T * N, q)

\* What the bits of a byte say of the number they begin.
LEMMA LowBits ==
    ASSUME NEW T \in Nat, T > 0, NEW a \in Nat, a < T, NEW code \in Nat, NEW N \in Nat,
           NEW U \in Nat, Divides(T, U),
           NEW B0 \in Bytes, NEW B1 \in Bytes, NEW B2 \in Bytes, Found(B0, B1, B2, a, T, code, N)
    PROVE  Low(B0, T) = a
<1>0. PICK q \in Nat : ThreeBytes(B0, B1, B2) = OnTop(OnTop(a, T, code), T * N, q)
  BY DEF Found
<1> DEFINE y == B1 + 256 * B2
           z == code + N * q - U * y
           p1 == code * T
           p2 == q * (T * N)
           p3 == (T * U) * y
           zt == T * z
<1>1. y \in Nat /\ B0 \in Nat /\ ThreeBytes(B0, B1, B2) = B0 + 256 * y
  BY DEF Bytes, ThreeBytes
<1>2. OnTop(OnTop(a, T, code), T * N, q) = (a + p1) + p2
  BY DEF OnTop
<1>3. p3 = 256 * y
  <2> DEFINE p == T * U
  <2>1. p = 256 /\ p3 = p * y
    BY DEF Divides
  <2> HIDE DEF p, y, p3
  <2> QED
    BY <2>1
<1> HIDE DEF y
<1>4. z \in Int /\ zt = p1 + p2 - p3 /\ p1 \in Int /\ p2 \in Int /\ p3 \in Int
  BY <1>1
<1> HIDE DEF z, p1, p2, p3
<1>5. B0 = a + zt
  <2>1. B0 + p3 = (a + p1) + p2
    BY <1>0, <1>1, <1>2, <1>3
  <2> HIDE DEF zt
  <2> QED
    BY <1>1, <1>4, <2>1
<1>6. z \in Nat
  <2>1. B0 = z * T + a /\ a \in 0..(T - 1)
    BY <1>4, <1>5
  <2> QED
    BY <1>1, <1>4, <2>1, QuotientInNat
<1>7. ASSUME NEW x \in Nat, NEW r \in Nat, r < T PROVE (r + T * x) % T = r
  BY <1>7
<1> QED
  BY <1>5, <1>6, <1>7 DEF Low

\* What is found at a place, the place being a byte's and a bit's.
CodeFound(data, n, b, width) ==
    Low(High(ThreeBytes(DataByte(data, n), DataByte(data, n + 1), DataByte(data, n + 2)), TwoTo(b)),
        TwoTo(width))

\* The reader's code, by the byte and the bit of its place.
LEMMA CodeIs ==
    ASSUME NEW data, NEW n \in Nat, NEW b \in 0..7, NEW width
    PROVE  CodeAt(data, 8 * n + b, width) = CodeFound(data, n, b, width)
  BY PlaceOfCode, SMTT(40) DEF CodeAt, CodeFound, DataByte, Low, High, ThreeBytes

\* The data goes on, behind L bytes, with k bytes of A and the lowest c bits of the next.
GoesOn(data, L, A, k, c) ==
    /\ Len(data) >= L + k
    /\ k >= 1 => data[L + 1] = Low(A, 256)
    /\ k = 2 => data[L + 2] = Low(High(A, 256), 256)
    /\ c > 0 => /\ Len(data) > L + k
                /\ Low(data[L + k + 1], TwoTo(c)) = Low(High(A, TwoTo(8 * k)), TwoTo(c))

\* A code in the data, some of its lowest bytes already put out.
LEMMA CodeIsThere ==
    ASSUME NEW data \in Seq(Bytes), NEW L \in Nat, NEW b \in 0..7, NEW n \in 3..12, NEW acc \in Nat,
           NEW code \in Nat, code < TwoTo(n),
           NEW A, A = OnTop(Low(acc, TwoTo(b)), TwoTo(b), code),
           NEW k \in 0..2, NEW c \in 0..7, 8 * k + c = b + n,
           GoesOn(data, L, A, k, c)
    PROVE  /\ CodeAt(data, 8 * L + b, n) = code
           /\ Len(data) > L /\ Low(data[L + 1], TwoTo(b)) = Low(acc, TwoTo(b))
           /\ 8 * L + b + n <= 8 * Len(data)
<1>1. PICK T \in Nat, N \in Nat, a \in Nat :
          CodeParts(b, n, acc, code, T, N, a)
  BY CodeOnTop
<1>a. /\ T = TwoTo(b) /\ N = TwoTo(n) /\ a = Low(acc, T)
      /\ T > 0 /\ N > 0 /\ a < T /\ code < N /\ TwoTo(b + n) = T * N
      /\ OnTop(a, T, code) \in Nat /\ OnTop(a, T, code) < T * N
  BY <1>1 DEF CodeParts
<1>c. ComesBack(T, N, a, code)
  BY <1>a, CodeComesBack
<1>2. PICK B0 \in Bytes, B1 \in Bytes, B2 \in Bytes :
          /\ B0 = DataByte(data, L) /\ B1 = DataByte(data, L + 1) /\ B2 = DataByte(data, L + 2)
  <2>1. L + 1 \in Nat /\ L + 2 \in Nat
    OBVIOUS
  <2> QED
    BY <2>1, DataBytes
<1>3. Len(data) \in Nat
  BY LenProperties
<1>b. /\ Len(data) >= L + k /\ (c > 0 => Len(data) > L + k)
      /\ k >= 1 => data[L + 1] = Low(A, 256)
      /\ k = 2 => data[L + 2] = Low(High(A, 256), 256)
      /\ c > 0 => Low(data[L + k + 1], TwoTo(c)) = Low(High(A, TwoTo(8 * k)), TwoTo(c))
  BY DEF GoesOn
<1>4. k = 0 \/ k = 1 \/ k = 2
  OBVIOUS
<1>5. c > 0 \/ k >= 1
  OBVIOUS
<1>6. /\ Len(data) > L /\ B0 = data[L + 1]
      /\ k >= 1 => B0 = Low(A, 256)
      /\ k = 2 => B1 = Low(High(A, 256), 256)
  <2>1. Len(data) > L
    BY <1>3, <1>4, <1>5, <1>b
  <2>2. B0 = data[L + 1]
    BY <1>2, <2>1 DEF DataByte
  <2>3. k = 2 => B1 = data[L + 2]
    <3> SUFFICES ASSUME k = 2 PROVE B1 = data[L + 2]
      OBVIOUS
    <3>1. L + 1 < Len(data) /\ (L + 1) + 1 = L + 2
      BY <1>3, <1>b
    <3> QED
      BY <1>2, <3>1 DEF DataByte
  <2> QED
    BY <1>b, <2>1, <2>2, <2>3
<1>7. c > 0 => Low(IF k = 0 THEN B0 ELSE IF k = 1 THEN B1 ELSE B2, TwoTo(c))
                   = Low(High(A, TwoTo(8 * k)), TwoTo(c))
  <2> SUFFICES ASSUME c > 0
               PROVE  (IF k = 0 THEN B0 ELSE IF k = 1 THEN B1 ELSE B2) = data[L + k + 1]
    BY <1>b
  <2>1. L + k < Len(data)
    BY <1>b
  <2>2. CASE k = 0
    BY <1>6, <2>2
  <2>3. CASE k = 1
    <3>1. L + 1 < Len(data) /\ (L + 1) + 1 = L + k + 1
      BY <2>1, <2>3
    <3> QED
      BY <1>2, <2>3, <3>1 DEF DataByte
  <2>4. CASE k = 2
    <3>1. L + 2 < Len(data) /\ (L + 2) + 1 = L + k + 1
      BY <2>1, <2>4
    <3> QED
      BY <1>2, <2>4, <3>1 DEF DataByte
  <2> QED
    BY <1>4, <2>2, <2>3, <2>4
<1>8. 8 * L + b + n <= 8 * Len(data)
  <2>1. c > 0 => Len(data) >= L + k + 1
    BY <1>3, <1>b
  <2>2. 8 * L + 8 * k + c <= 8 * Len(data)
    BY <1>3, <1>b, <2>1
  <2> QED
    BY <2>2
<1>9. A = OnTop(a, T, code)
  BY <1>a
<1>10. TwoTo(8 * k + c) = T * N
  <2>1. 8 * k + c = b + n
    OBVIOUS
  <2> QED
    BY <1>a, <2>1
<1>11. Found(B0, B1, B2, a, T, code, N)
  <2>1. 8 * k + c <= 19
    OBVIOUS
  <2>2. A \in Nat /\ A < TwoTo(8 * k + c)
    BY <1>a, <1>9, <1>10
  <2>3. Begins(A, k, c, B0, B1, B2)
    BY <1>6, <1>7 DEF Begins
  <2>5. Fits(A, k, c, T * N)
    BY <1>10, <2>1, <2>2 DEF Fits
  <2>4. PICK q \in Nat : ThreeBytes(B0, B1, B2) = OnTop(A, T * N, q)
    BY <2>2, <2>3, <2>5, Window, SMTT(40)
  <2> QED
    BY <1>9, <2>4 DEF Found
<1>12. CodeAt(data, 8 * L + b, n) = code
  <2>1. CodeFound(data, L, b, n) = Low(High(ThreeBytes(B0, B1, B2), T), N)
    BY <1>a, <1>2 DEF CodeFound
  <2>2. PICK q \in Nat : ThreeBytes(B0, B1, B2) = OnTop(OnTop(a, T, code), T * N, q)
    BY <1>11 DEF Found
  <2>3. Low(High(OnTop(OnTop(a, T, code), T * N, q), T), N) = code
    BY <1>c DEF ComesBack
  <2>4. CodeAt(data, 8 * L + b, n) = CodeFound(data, L, b, n)
    BY CodeIs
  <2> QED
    BY <2>1, <2>2, <2>3, <2>4
<1>13. Low(B0, T) = a
  <2>1. PICK U \in Nat : Divides(T, U)
    BY <1>a, ByteSplit
  <2>2. T > 0 /\ a < T /\ Found(B0, B1, B2, a, T, code, N)
    BY <1>a, <1>11
  <2> QED
    BY <2>1, <2>2, LowBits, Zenon
<1> QED
  BY <1>a, <1>6, <1>8, <1>12, <1>13

\* The bytes put out are the lowest of the number.
LEMMA LowestBytes ==
    ASSUME NEW w, w.cur_accum \in Nat
    PROVE  ByteOf(w, 0) = Low(w.cur_accum, 256) /\ ByteOf(w, 1) = Low(High(w.cur_accum, 256), 256)
<1>1. TwoTo(8 * 0) = 1 /\ TwoTo(8 * 1) = 256
  BY Powers
<1>2. w.cur_accum \div 1 = w.cur_accum
  OBVIOUS
<1> QED
  BY <1>1, <1>2 DEF ByteOf, Low, High

\* P2 is P and k bytes more.
IsLonger(P, k, b0, b1, P2) ==
    /\ P2 \in Seq(Bytes) /\ Len(P2) = Len(P) + k
    /\ \A i \in 1..Len(P) : P2[i] = P[i]
    /\ k >= 1 => P2[Len(P) + 1] = b0
    /\ k = 2 => P2[Len(P) + 2] = b1

\* What a byte more leaves of the payload.
LEMMA OneLonger ==
    ASSUME NEW P \in Seq(Bytes), NEW b \in Bytes
    PROVE  /\ Append(P, b) \in Seq(Bytes) /\ Len(Append(P, b)) = Len(P) + 1
           /\ \A i \in 1..Len(P) : Append(P, b)[i] = P[i]
           /\ Append(P, b)[Len(P) + 1] = b
  BY AppendProperties

\* The bytes of a payload made longer by up to two.
LEMMA LongerIs ==
    ASSUME NEW P \in Seq(Bytes), NEW w, NEW k \in 0..2,
           ByteOf(w, 0) \in Bytes, ByteOf(w, 1) \in Bytes
    PROVE  IsLonger(P, k, ByteOf(w, 0), ByteOf(w, 1), LongerBy(P, w, k))
<1>1. Len(P) \in Nat
  BY LenProperties
<1>2. CASE k = 0
  BY <1>1, <1>2 DEF LongerBy, IsLonger
<1> DEFINE one == Append(P, ByteOf(w, 0))
           two == Append(one, ByteOf(w, 1))
<1>3. /\ one \in Seq(Bytes) /\ Len(one) = Len(P) + 1
      /\ \A i \in 1..Len(P) : one[i] = P[i]
      /\ one[Len(P) + 1] = ByteOf(w, 0)
  BY OneLonger
<1>4. LongerBy(P, w, 1) = one /\ LongerBy(P, w, 2) = two
  BY DEF LongerBy
<1> HIDE DEF one
<1>5. /\ two \in Seq(Bytes) /\ Len(two) = Len(one) + 1
      /\ \A i \in 1..Len(one) : two[i] = one[i]
      /\ two[Len(one) + 1] = ByteOf(w, 1)
  BY <1>3, OneLonger
<1> HIDE DEF two
<1>6. CASE k = 1
  BY <1>3, <1>4, <1>6 DEF IsLonger
<1>7. CASE k = 2
  <2>1. Len(two) = Len(P) + 2 /\ Len(one) + 1 = Len(P) + 2
    BY <1>1, <1>3, <1>5
  <2>2. \A i \in 1..Len(P) : two[i] = P[i]
    <3> SUFFICES ASSUME NEW i \in 1..Len(P) PROVE two[i] = P[i]
      OBVIOUS
    <3>1. i \in 1..Len(one)
      BY <1>1, <1>3
    <3> QED
      BY <1>3, <1>5, <3>1
  <2>3. two[Len(P) + 1] = ByteOf(w, 0)
    <3>1. Len(P) + 1 \in 1..Len(one)
      BY <1>1, <1>3
    <3> QED
      BY <1>3, <1>5, <3>1
  <2>4. two[Len(P) + 2] = ByteOf(w, 1)
    BY <1>5, <2>1
  <2> QED
    BY <1>4, <1>5, <1>7, <2>1, <2>2, <2>3, <2>4 DEF IsLonger
<1> QED
  BY <1>2, <1>6, <1>7

\* Data that follows the bytes behind a code goes on with the number from before them.
LEMMA BitsFollow ==
    ASSUME NEW P \in Seq(Bytes), NEW k \in 0..2, NEW A, NEW P2,
           IsLonger(P, k, Low(A, 256), Low(High(A, 256), 256), P2),
           NEW s, s.cur_bits \in 0..7, s.cur_accum = High(A, TwoTo(8 * k)),
           NEW data, Follows(data, P2, s)
    PROVE  /\ GoesOn(data, Len(P), A, k, s.cur_bits) /\ data \in Seq(Bytes)
           /\ \A i \in 1..Len(P) : data[i] = P[i]
<1>1. Len(P) \in Nat
  BY LenProperties
<1>2. /\ Len(P2) = Len(P) + k
      /\ \A i \in 1..Len(P) : P2[i] = P[i]
      /\ k >= 1 => P2[Len(P) + 1] = Low(A, 256)
      /\ k = 2 => P2[Len(P) + 2] = Low(High(A, 256), 256)
  BY DEF IsLonger
<1>3. /\ data \in Seq(Bytes) /\ Len(data) >= Len(P2)
      /\ \A i \in 1..Len(P2) : data[i] = P2[i]
      /\ s.cur_bits > 0 => /\ Len(data) > Len(P2)
                           /\ Low(data[Len(P2) + 1], TwoTo(s.cur_bits))
                                = Low(s.cur_accum, TwoTo(s.cur_bits))
  BY DEF Follows
<1>4. \A i \in 1..Len(P) : data[i] = P[i]
  <2> SUFFICES ASSUME NEW i \in 1..Len(P) PROVE data[i] = P[i]
    OBVIOUS
  <2>1. i \in 1..Len(P2)
    BY <1>1, <1>2
  <2> QED
    BY <1>2, <1>3, <2>1
<1>5. k >= 1 => data[Len(P) + 1] = Low(A, 256)
  <2> SUFFICES ASSUME k >= 1 PROVE data[Len(P) + 1] = Low(A, 256)
    OBVIOUS
  <2>1. Len(P) + 1 \in 1..Len(P2)
    BY <1>1, <1>2
  <2> QED
    BY <1>2, <1>3, <2>1
<1>6. k = 2 => data[Len(P) + 2] = Low(High(A, 256), 256)
  <2> SUFFICES ASSUME k = 2 PROVE data[Len(P) + 2] = Low(High(A, 256), 256)
    OBVIOUS
  <2>1. Len(P) + 2 \in 1..Len(P2)
    BY <1>1, <1>2
  <2> QED
    BY <1>2, <1>3, <2>1
<1>7. s.cur_bits > 0 => /\ Len(data) > Len(P) + k
                        /\ Low(data[Len(P) + k + 1], TwoTo(s.cur_bits))
                             = Low(High(A, TwoTo(8 * k)), TwoTo(s.cur_bits))
  BY <1>2, <1>3
<1>8. Len(data) >= Len(P) + k
  BY <1>2, <1>3
<1> QED
  BY <1>3, <1>4, <1>5, <1>6, <1>7, <1>8 DEF GoesOn

\* A writer that has taken a code, before and behind the loops of output().
WithCode(w, code) == [w EXCEPT !.cur_accum = (@ % TwoTo(w.cur_bits)) + code * TwoTo(w.cur_bits),
                               !.cur_bits = @ + w.n_bits]
Shifted(w, code) == ShiftOut(WithCode(w, code), 7)

\* Codes have 3 bits to 12.
LEMMA WidthIs ==
    ASSUME NEW w \in Writers
    PROVE  w.n_bits \in 3..12
<1>1. w.n_bits \in g_init_bits..MaxBits
  BY WriterFields
<1>2. g_init_bits \in 3..9 /\ MaxBits \in 4..12
  BY SizeAssumption DEF g_init_bits
<1> QED
  BY <1>1, <1>2

\* output() puts the code over the bits that wait, and changes nothing else before it
\* shifts.
LEMMA WithCodeIs ==
    ASSUME NEW w \in Writers, w.cur_bits \in 0..7, NEW code \in Nat
    PROVE  LET j == WithCode(w, code)
           IN  /\ j \in Writers /\ j.cur_bits = w.cur_bits + w.n_bits /\ j.cur_bits \in 0..19
               /\ j.cur_accum = OnTop(Low(w.cur_accum, TwoTo(w.cur_bits)), TwoTo(w.cur_bits), code)
               /\ j.accum = w.accum /\ j.outs = w.outs /\ j.n_bits = w.n_bits
               /\ j.maxcode = w.maxcode /\ j.clear_flg = w.clear_flg
<1> DEFINE acc == OnTop(Low(w.cur_accum, TwoTo(w.cur_bits)), TwoTo(w.cur_bits), code)
           bits == w.cur_bits + w.n_bits
<1>2. /\ w.cur_accum \in Nat /\ w.accum \in Seq(0..255) /\ w.outs \in Seq(0..255)
      /\ w.n_bits \in g_init_bits..MaxBits /\ w.maxcode \in Nat /\ w.clear_flg \in BOOLEAN
  BY WriterFields
<1>3. acc \in Nat
  <2>1. w.cur_bits \in 0..20
    OBVIOUS
  <2>2. TwoTo(w.cur_bits) \in Nat /\ TwoTo(w.cur_bits) > 0
    BY <2>1, PowerNext
  <2>3. Low(w.cur_accum, TwoTo(w.cur_bits)) \in Nat
    BY <1>2, <2>2 DEF Low
  <2> QED
    BY <2>2, <2>3 DEF OnTop
<1> HIDE DEF acc
<1>4. bits \in 0..19 /\ bits \in Int
  <2>1. w.n_bits \in 3..12
    BY WidthIs
  <2> QED
    BY <2>1
<1> HIDE DEF bits
<1>1. WithCode(w, code) = [w EXCEPT !.cur_accum = acc, !.cur_bits = bits]
  BY DEF WithCode, OnTop, Low, acc, bits, Writers
<1>7. WithCode(w, code) = [cur_accum |-> acc, cur_bits |-> bits, accum |-> w.accum, outs |-> w.outs,
                           n_bits |-> w.n_bits, maxcode |-> w.maxcode, clear_flg |-> w.clear_flg]
  BY <1>1 DEF Writers
<1>5. WithCode(w, code) \in Writers
  BY <1>2, <1>3, <1>4, <1>7, WriterOf
<1>6. /\ WithCode(w, code).cur_bits = bits /\ WithCode(w, code).cur_accum = acc
      /\ WithCode(w, code).accum = w.accum /\ WithCode(w, code).outs = w.outs
      /\ WithCode(w, code).n_bits = w.n_bits /\ WithCode(w, code).maxcode = w.maxcode
      /\ WithCode(w, code).clear_flg = w.clear_flg
  BY <1>7
<1> QED
  BY <1>4, <1>5, <1>6 DEF acc, bits

\* The bits given so far.
Pos(P, w) == 8 * Len(P) + w.cur_bits

\* The next code of the data is this one, and the data has gone on with w's bits before.
CodeComesNext(data, P, w, code) ==
    /\ Follows(data, P, w)
    /\ CodeAt(data, Pos(P, w), w.n_bits) = code
    /\ Pos(P, w) + w.n_bits <= 8 * Len(data)

\* P2 is what has been given behind the code, and whatever follows it has the code.
GivesCode(P, w, code, P2, s) ==
    /\ Payload(s, P2)
    /\ Pos(P2, s) = Pos(P, w) + w.n_bits
    /\ \A data : Follows(data, P2, s) => CodeComesNext(data, P, w, code)

\* Behind the shifts of output(), fewer than 8 bits wait, those left of the code.
LEMMA ShiftedIs ==
    ASSUME NEW w \in Writers, Len(w.accum) < PacketSize, w.cur_bits \in 0..7, NEW code \in Nat
    PROVE  LET s == Shifted(w, code)
               j == WithCode(w, code)
               k == ShiftCount(j, 7)
           IN  /\ s \in Writers /\ Len(s.accum) < PacketSize /\ s.cur_bits \in 0..7
               /\ s.n_bits = w.n_bits /\ s.maxcode = w.maxcode /\ s.clear_flg = w.clear_flg
               /\ k \in 0..2 /\ s.cur_bits = (w.cur_bits + w.n_bits) - 8 * k
               /\ s.cur_accum = High(j.cur_accum, TwoTo(8 * k))
               /\ ByteOf(j, 0) \in Bytes /\ ByteOf(j, 1) \in Bytes
<1> DEFINE j == WithCode(w, code)
           s == ShiftOut(j, 7)
           k == ShiftCount(j, 7)
<1>1. /\ j \in Writers /\ j.cur_bits = w.cur_bits + w.n_bits /\ j.cur_bits \in 0..19
      /\ j.accum = w.accum /\ j.n_bits = w.n_bits
      /\ j.maxcode = w.maxcode /\ j.clear_flg = w.clear_flg
  BY WithCodeIs
<1> HIDE DEF j
<1>2. j.cur_bits \in -7..19 /\ Len(j.accum) < PacketSize /\ 7 \in {0, 7} /\ 7 # 0
  BY <1>1
<1>3. /\ k \in 0..2 /\ \A i \in 0..1 : ByteOf(j, i) \in 0..255
      /\ s \in Writers
      /\ s.cur_accum = j.cur_accum \div TwoTo(8 * k)
      /\ s.cur_bits = j.cur_bits - 8 * k
      /\ s.n_bits = j.n_bits /\ s.maxcode = j.maxcode /\ s.clear_flg = j.clear_flg
  BY <1>1, <1>2, ShiftOutIs
<1>4. s.cur_bits \in 0..7 /\ Len(s.accum) < PacketSize
  BY <1>1, <1>2, ShiftOutBytes
<1>5. ByteOf(j, 0) \in Bytes /\ ByteOf(j, 1) \in Bytes
  BY <1>3 DEF Bytes
<1> HIDE DEF s, k
<1>6. s.cur_accum = High(j.cur_accum, TwoTo(8 * k))
  BY <1>3 DEF High
<1> QED
  BY <1>1, <1>3, <1>4, <1>5, <1>6 DEF s, k, j, Shifted

\* output() gives the data a code: whatever comes behind, the reader finds that code
\* at the place the bits had reached.
LEMMA CodeGiven ==
    ASSUME NEW w \in Writers, Len(w.accum) < PacketSize, w.cur_bits \in 0..7, NEW code \in Nat,
           code < TwoTo(w.n_bits), NEW P \in Seq(Bytes), Payload(w, P)
    PROVE  \E P2 \in Seq(Bytes) : GivesCode(P, w, code, P2, Shifted(w, code))
<1> DEFINE j == WithCode(w, code)
           s == Shifted(w, code)
           k == ShiftCount(j, 7)
           P2 == LongerBy(P, j, k)
           A == OnTop(Low(w.cur_accum, TwoTo(w.cur_bits)), TwoTo(w.cur_bits), code)
<1>1. /\ s.cur_bits \in 0..7
      /\ k \in 0..2 /\ s.cur_bits = (w.cur_bits + w.n_bits) - 8 * k
      /\ s.cur_accum = High(j.cur_accum, TwoTo(8 * k))
      /\ ByteOf(j, 0) \in Bytes /\ ByteOf(j, 1) \in Bytes
  BY ShiftedIs
<1>2. /\ j \in Writers /\ j.cur_bits \in 0..19 /\ j.cur_accum = A
      /\ j.accum = w.accum /\ j.outs = w.outs
  BY WithCodeIs
<1>3. j.cur_accum \in Nat /\ w.cur_accum \in Nat
  BY <1>2, WriterFields
<1>4. w.n_bits \in 3..12 /\ Len(P) \in Nat
  BY WidthIs, LenProperties
<1> HIDE DEF j, k, A
<1>5. Payload(s, P2) /\ P2 \in Seq(Bytes)
  <2>1. Payload(j, P)
    BY <1>2 DEF Payload
  <2>2. j.cur_bits \in -7..19 /\ Len(j.accum) < PacketSize
    BY <1>2
  <2>3. Payload(ShiftOut(j, 7), LongerBy(P, j, ShiftCount(j, 7)))
        /\ LongerBy(P, j, ShiftCount(j, 7)) \in Seq(Bytes)
    BY <1>2, <2>1, <2>2, ShiftOutPayload
  <2> QED
    BY <2>3 DEF k, Shifted, j
<1>6. IsLonger(P, k, Low(A, 256), Low(High(A, 256), 256), P2)
  <2>1. IsLonger(P, k, ByteOf(j, 0), ByteOf(j, 1), P2)
    BY <1>1, LongerIs
  <2>2. ByteOf(j, 0) = Low(j.cur_accum, 256) /\ ByteOf(j, 1) = Low(High(j.cur_accum, 256), 256)
    BY <1>3, LowestBytes
  <2> QED
    BY <1>2, <2>1, <2>2
<1> HIDE DEF s, P2
<1>7. Pos(P2, s) = Pos(P, w) + w.n_bits
  <2>1. Len(P2) = Len(P) + k
    BY <1>6 DEF IsLonger
  <2>2. \A L, b, n, x \in Int : 8 * (L + x) + ((b + n) - 8 * x) = (8 * L + b) + n
    OBVIOUS
  <2>3. Len(P) \in Int /\ w.cur_bits \in Int /\ w.n_bits \in Int /\ k \in Int
    BY <1>1, <1>4
  <2>4. 8 * (Len(P) + k) + ((w.cur_bits + w.n_bits) - 8 * k) = (8 * Len(P) + w.cur_bits) + w.n_bits
    BY <2>2, <2>3
  <2>5. s.cur_bits = (w.cur_bits + w.n_bits) - 8 * k
    BY <1>1
  <2> QED
    BY <2>1, <2>4, <2>5 DEF Pos
<1>8. ASSUME NEW data, Follows(data, P2, s) PROVE CodeComesNext(data, P, w, code)
  <2>1. PICK c \in 0..7, b \in 0..7, n \in 3..12, L \in Nat :
            c = s.cur_bits /\ b = w.cur_bits /\ n = w.n_bits /\ L = Len(P)
    BY <1>1, <1>4
  <2>2. s.cur_accum = High(A, TwoTo(8 * k))
    BY <1>1, <1>2
  <2>3. /\ GoesOn(data, Len(P), A, k, s.cur_bits) /\ data \in Seq(Bytes)
        /\ \A i \in 1..Len(P) : data[i] = P[i]
    BY <1>1, <1>6, <1>8, <2>2, BitsFollow
  <2>4. /\ 8 * k + c = b + n /\ code < TwoTo(n)
        /\ A = OnTop(Low(w.cur_accum, TwoTo(b)), TwoTo(b), code)
    <3>1. 8 * k + c = b + n
      BY <1>1, <2>1
    <3> QED
      BY <2>1, <3>1 DEF A
  <2>5. GoesOn(data, L, A, k, c)
    BY <2>1, <2>3
  <2>6. /\ CodeAt(data, 8 * L + b, n) = code
        /\ Len(data) > L /\ Low(data[L + 1], TwoTo(b)) = Low(w.cur_accum, TwoTo(b))
        /\ 8 * L + b + n <= 8 * Len(data)
    BY <1>1, <1>3, <2>3, <2>4, <2>5, CodeIsThere
  <2>7. Follows(data, P, w)
    <3>1. Len(data) >= Len(P) /\ Len(data) > Len(P)
      BY <2>1, <2>6
    <3> QED
      BY <2>1, <2>3, <2>6, <3>1 DEF Follows
  <2> QED
    BY <2>1, <2>6, <2>7 DEF CodeComesNext, Pos
<1> QED
  BY <1>5, <1>7, <1>8 DEF GivesCode, s
-----------------------------------------------------------------------------
(* What the reader has read, while the writer still writes.                 *)

\* In whatever data the bits given so far begin, the reader comes to R in m steps.
ReadsTo(P, w, m, R) == \A data : Follows(data, P, w) => After(data, FirstCode, m) = R

\* In these m steps, one for a code, it comes to the end of w's bits, with these
\* entries, this last string and these pixels.
Read(w, dict, last, out) ==
    \E P \in Seq(Bytes), m \in Nat :
        /\ Payload(w, P) /\ m <= Pos(P, w)
        /\ ReadsTo(P, w, m, Reader(Pos(P, w), w.n_bits, dict, last, out))

\* A reader at a code, and what it makes of it.
LEMMA CodeTaken ==
    ASSUME NEW w \in Writers, NEW P \in Seq(Bytes),
           NEW data, NEW code, CodeComesNext(data, P, w, code), NEW dict, NEW last, NEW out
    PROVE  Step(data, Reader(Pos(P, w), w.n_bits, dict, last, out)) =
               TakeCode(Reader(Pos(P, w) + w.n_bits, w.n_bits, dict, last, out), code)
<1> DEFINE p == Pos(P, w)
           r == Reader(p, w.n_bits, dict, last, out)
<1>1. r.at = "code" /\ r.pos = p /\ r.width = w.n_bits
  BY DEF Reader
<1>2. CodeAt(data, p, w.n_bits) = code /\ p + w.n_bits <= 8 * Len(data)
  BY DEF CodeComesNext
<1>3. [r EXCEPT !.pos = @ + r.width] = Reader(p + w.n_bits, w.n_bits, dict, last, out)
  BY DEF Reader
<1>4. ~(p + w.n_bits > 8 * Len(data))
  <2>1. Len(data) \in Nat
    <3>1. data \in Seq(Bytes)
      BY DEF CodeComesNext, Follows
    <3> QED
      BY <3>1, LenProperties
  <2>2. p \in Int /\ w.n_bits \in Int
    <3>1. Len(P) \in Int /\ w.cur_bits \in Int /\ w.n_bits \in Int
      BY LenProperties, WriterFields, WidthIs
    <3> QED
      BY <3>1 DEF Pos
  <2> HIDE DEF p
  <2> QED
    BY <1>2, <2>1, <2>2
<1> HIDE DEF r, p
<1>5. Step(data, r) = ReadCode(data, r)
  BY <1>1 DEF Step
<1>6. ReadCode(data, r) = TakeCode([r EXCEPT !.pos = @ + r.width], CodeAt(data, r.pos, r.width))
  BY <1>1, <1>4 DEF ReadCode
<1> QED
  BY <1>1, <1>2, <1>3, <1>5, <1>6 DEF r, p

\* The bits are the same, and so are the bytes.
SameBits(v, w) ==
    v.cur_accum = w.cur_accum /\ v.cur_bits = w.cur_bits /\ v.accum = w.accum /\ v.outs = w.outs

\* One code more is given, and one code more is read.
LEMMA CodeRead ==
    ASSUME NEW w \in Writers, Len(w.accum) < PacketSize, w.cur_bits \in 0..7, NEW code \in Nat,
           code < TwoTo(w.n_bits), NEW dict, NEW last, NEW out, Read(w, dict, last, out),
           NEW v, SameBits(v, Shifted(w, code)), NEW dict2, NEW last2, NEW out2,
           \A p : TakeCode(Reader(p, w.n_bits, dict, last, out), code)
                     = Reader(p, v.n_bits, dict2, last2, out2)
    PROVE  Read(v, dict2, last2, out2)
<1>1. PICK P \in Seq(Bytes), m \in Nat :
          /\ Payload(w, P) /\ m <= Pos(P, w)
          /\ ReadsTo(P, w, m, Reader(Pos(P, w), w.n_bits, dict, last, out))
  BY DEF Read
<1>2. PICK P2 \in Seq(Bytes) : GivesCode(P, w, code, P2, Shifted(w, code))
  BY <1>1, CodeGiven
<1>3. Payload(v, P2) /\ Pos(P2, v) = Pos(P, w) + w.n_bits
  BY <1>2 DEF GivesCode, SameBits, Payload, Pos
<1>4. m + 1 \in Nat /\ m + 1 <= Pos(P2, v)
  <2>1. Pos(P, w) \in Int /\ w.n_bits \in 3..12
    <3>1. Len(P) \in Int /\ w.cur_bits \in Int
      BY LenProperties, WriterFields
    <3> QED
      BY <3>1, WidthIs DEF Pos
  <2> QED
    BY <1>1, <1>3, <2>1, SMTT(40)
<1>5. ASSUME NEW data, Follows(data, P2, v)
      PROVE  After(data, FirstCode, m + 1) = Reader(Pos(P2, v), v.n_bits, dict2, last2, out2)
  <2>1. Follows(data, P2, Shifted(w, code))
    BY <1>5 DEF Follows, SameBits
  <2>2. CodeComesNext(data, P, w, code)
    BY <1>2, <2>1 DEF GivesCode
  <2>3. After(data, FirstCode, m) = Reader(Pos(P, w), w.n_bits, dict, last, out)
    <3>1. Follows(data, P, w)
      BY <2>2 DEF CodeComesNext
    <3> QED
      BY <1>1, <3>1 DEF ReadsTo
  <2>4. After(data, FirstCode, m + 1) = Step(data, After(data, FirstCode, m))
    BY AfterNext
  <2>5. Step(data, Reader(Pos(P, w), w.n_bits, dict, last, out)) =
            TakeCode(Reader(Pos(P, w) + w.n_bits, w.n_bits, dict, last, out), code)
    BY <2>2, CodeTaken, SMTT(40)
  <2>6. TakeCode(Reader(Pos(P, w) + w.n_bits, w.n_bits, dict, last, out), code)
            = Reader(Pos(P, w) + w.n_bits, v.n_bits, dict2, last2, out2)
    OBVIOUS
  <2> QED
    BY <1>3, <2>3, <2>4, <2>5, <2>6
<1> QED
  BY <1>3, <1>4, <1>5 DEF Read, ReadsTo

\* The low bits of a low byte.
LEMMA LowOfLow ==
    ASSUME NEW x \in Nat, NEW b \in 0..7
    PROVE  Low(Low(x, 256), TwoTo(b)) = Low(x, TwoTo(b))
<1>1. PICK T \in Nat : T = TwoTo(b) /\ T > 0
  <2>1. b \in 0..20
    OBVIOUS
  <2> QED
    BY <2>1, PowerNext
<1>2. PICK U \in Nat : Divides(T, U)
  BY <1>1, ByteSplit
<1>3. PICK q \in Nat, r \in 0..255 : r = x % 256 /\ x = 256 * q + r
  BY Lowest
<1>4. PICK d \in Int, y \in 0..(T - 1) : y = r % T /\ r = d * T + y
  <2>1. r \in Int
    OBVIOUS
  <2> QED
    BY <1>1, <2>1, Division, ZenonT(40)
<1>5. d \in Nat
  <2>1. r \in Nat
    OBVIOUS
  <2> QED
    BY <1>1, <1>4, <2>1, QuotientInNat
<1>6. Spreads(T, d, q)
  BY <1>1, <1>2, <1>5, Spread
<1>7. PICK z \in Nat : T * z = T * d + 256 * q
  BY <1>6 DEF Spreads
<1>8. x = y + T * z
  <2> DEFINE td == T * d
             tz == T * z
  <2>1. td \in Nat /\ tz = td + 256 * q /\ r = td + y
    BY <1>1, <1>4, <1>5, <1>7
  <2> HIDE DEF td, tz
  <2>2. x = y + tz
    BY <1>1, <1>3, <2>1
  <2> QED
    BY <2>2 DEF tz
<1>9. ASSUME NEW u \in Nat, NEW v \in Nat, v < T PROVE (v + T * u) % T = v
  BY <1>9
<1>10. y \in Nat /\ y < T
  BY <1>1
<1>11. x % T = y
  BY <1>8, <1>9, <1>10
<1>12. Low(x, T) = y
  BY <1>11 DEF Low
<1>13. Low(Low(x, 256), T) = y
  BY <1>3, <1>4 DEF Low
<1> QED
  BY <1>1, <1>12, <1>13

\* What is left over goes out in one byte, and the bytes then follow.
LEMMA RestFollows ==
    ASSUME NEW w \in Writers, Len(w.accum) < PacketSize, w.cur_bits \in 0..7,
           NEW P \in Seq(Bytes), Payload(w, P)
    PROVE  \E P2 \in Seq(Bytes) : Payload(ShiftOut(w, 0), P2) /\ Follows(P2, P, w)
<1> DEFINE k == ShiftCount(w, 0)
           P2 == LongerBy(P, w, k)
<1>1. 0 \in {0, 7} /\ w.cur_bits \in -7..19 /\ w.cur_bits <= 7
  OBVIOUS
<1>2. Payload(ShiftOut(w, 0), P2) /\ P2 \in Seq(Bytes)
  BY <1>1, ShiftOutPayload
<1>3. k \in 0..2 /\ ByteOf(w, 0) \in Bytes /\ ByteOf(w, 1) \in Bytes
  <2>1. k \in 0..2 /\ \A i \in 0..1 : ByteOf(w, i) \in 0..255
    BY <1>1, ShiftOutIs
  <2> QED
    BY <2>1 DEF Bytes
<1>4. w.cur_bits > 0 => k >= 1
  <2>1. \A b \in 1..7 : ~(b <= 0) /\ (b - 0 + 7) \div 8 >= 1
    OBVIOUS
  <2> QED
    BY <2>1 DEF ShiftCount
<1> HIDE DEF k
<1>5. IsLonger(P, k, ByteOf(w, 0), ByteOf(w, 1), P2)
  BY <1>3, LongerIs
<1> HIDE DEF P2
<1>6. /\ Len(P2) = Len(P) + k
      /\ \A i \in 1..Len(P) : P2[i] = P[i]
      /\ k >= 1 => P2[Len(P) + 1] = ByteOf(w, 0)
  BY <1>5 DEF IsLonger
<1>7. Len(P) \in Nat
  BY LenProperties
<1>8. Low(ByteOf(w, 0), TwoTo(w.cur_bits)) = Low(w.cur_accum, TwoTo(w.cur_bits))
  <2>1. w.cur_accum \in Nat
    BY WriterFields
  <2>2. ByteOf(w, 0) = Low(w.cur_accum, 256)
    BY <2>1, LowestBytes
  <2> QED
    BY <2>1, <2>2, LowOfLow
<1>9. w.cur_bits > 0 =>
          /\ Len(P2) > Len(P)
          /\ Low(P2[Len(P) + 1], TwoTo(w.cur_bits)) = Low(w.cur_accum, TwoTo(w.cur_bits))
  BY <1>3, <1>4, <1>6, <1>7, <1>8
<1>10. Len(P2) >= Len(P)
  BY <1>3, <1>6, <1>7
<1> QED
  BY <1>2, <1>6, <1>9, <1>10 DEF Follows

\* The end code, what is left over, the last packet and the terminator: the reader ends
\* with what it has read.
LEMMA EndRead ==
    ASSUME NEW w \in Writers, Len(w.accum) < PacketSize, w.cur_bits \in 0..7,
           EOFCode < TwoTo(w.n_bits), NEW dict, NEW last, NEW out, Read(w, dict, last, out),
           NEW v \in Writers, SameBits(v, Shifted(w, EOFCode))
    PROVE  Decode(Append(flush_char(ShiftOut(v, 0)).outs, 0)) = out
<1>1. PICK P \in Seq(Bytes), m \in Nat :
          /\ Payload(w, P) /\ m <= Pos(P, w)
          /\ ReadsTo(P, w, m, Reader(Pos(P, w), w.n_bits, dict, last, out))
  BY DEF Read
<1>2. ClearCode \in Nat /\ EOFCode \in Nat /\ EOFCode # ClearCode
  BY Sizes DEF EOFCode
<1>3. PICK P2 \in Seq(Bytes) : GivesCode(P, w, EOFCode, P2, Shifted(w, EOFCode))
  BY <1>1, <1>2, CodeGiven
<1>4. Payload(v, P2)
  BY <1>3 DEF GivesCode, SameBits, Payload
<1>5. Len(v.accum) < PacketSize /\ v.cur_bits \in 0..7
  <2>1. Len(Shifted(w, EOFCode).accum) < PacketSize /\ Shifted(w, EOFCode).cur_bits \in 0..7
    BY <1>2, ShiftedIs
  <2> QED
    BY <2>1 DEF SameBits
<1>6. PICK data \in Seq(Bytes) : Payload(ShiftOut(v, 0), data) /\ Follows(data, P2, v)
  BY <1>4, <1>5, RestFollows
<1>7. HasBlocks(flush_char(ShiftOut(v, 0)).outs, data)
  <2>1. ShiftOut(v, 0) \in Writers /\ Len(ShiftOut(v, 0).accum) < PacketSize
    <3>1. 0 \in {0, 7} /\ v.cur_bits \in -7..19 /\ v.cur_bits <= 7
      BY <1>5
    <3> QED
      BY <1>5, <3>1, ShiftOutBytes
  <2>2. Len(ShiftOut(v, 0).accum) <= PacketSize
    <3>1. Len(ShiftOut(v, 0).accum) \in Nat /\ PacketSize \in Nat
      BY <2>1, LenProperties, WriterFields, SizeAssumption
    <3> QED
      BY <2>1, <3>1
  <2> QED
    BY <1>6, <2>1, <2>2, FlushPayload
<1> DEFINE bytes == Append(flush_char(ShiftOut(v, 0)).outs, 0)
           blocks == After(bytes, FirstBlock, Len(bytes))
           codes == After(data, FirstCode, 8 * Len(data))
<1>8. Head(bytes) = InitCodeSize /\ blocks.at = "joined" /\ blocks.data = data
  BY <1>7, BlocksEnd
<1>9. CodeComesNext(data, P, w, EOFCode)
  <2>1. Follows(data, P2, Shifted(w, EOFCode))
    BY <1>6 DEF Follows, SameBits
  <2> QED
    BY <1>3, <2>1 DEF GivesCode
<1>10. After(data, FirstCode, m + 1).at = "ended" /\ After(data, FirstCode, m + 1).out = out
  <2> DEFINE r == Reader(Pos(P, w) + w.n_bits, w.n_bits, dict, last, out)
  <2>1. After(data, FirstCode, m) = Reader(Pos(P, w), w.n_bits, dict, last, out)
    <3>1. Follows(data, P, w)
      BY <1>9 DEF CodeComesNext
    <3> QED
      BY <1>1, <3>1 DEF ReadsTo
  <2>2. After(data, FirstCode, m + 1) = Step(data, After(data, FirstCode, m))
    BY AfterNext
  <2>3. Step(data, Reader(Pos(P, w), w.n_bits, dict, last, out)) = TakeCode(r, EOFCode)
    BY <1>9, CodeTaken
  <2>4. TakeCode(r, EOFCode) = [r EXCEPT !.at = "ended"]
    BY <1>2 DEF TakeCode
  <2>5. [r EXCEPT !.at = "ended"].at = "ended" /\ [r EXCEPT !.at = "ended"].out = out
    BY DEF Reader
  <2> QED
    BY <2>1, <2>2, <2>3, <2>4, <2>5
<1>11. codes = After(data, FirstCode, m + 1)
  <2>1. Len(data) \in Nat /\ 8 * Len(data) \in Nat /\ m + 1 \in Nat
    BY LenProperties
  <2>2. m + 1 <= 8 * Len(data)
    <3>1. Pos(P, w) \in Int /\ w.n_bits \in 3..12
      <4>1. Len(P) \in Int /\ w.cur_bits \in Int
        BY LenProperties, WriterFields
      <4> QED
        BY <4>1, WidthIs DEF Pos
    <3>2. Pos(P, w) + w.n_bits <= 8 * Len(data)
      BY <1>9 DEF CodeComesNext
    <3> QED
      BY <1>1, <2>1, <3>1, <3>2, SMTT(40)
  <2>3. After(data, FirstCode, m + 1).at \notin {"block", "code"}
    BY <1>10
  <2> QED
    BY <2>1, <2>2, <2>3, Rests
<1> QED
  <2>1. Decode(bytes) = IF Head(bytes) = InitCodeSize /\ blocks.at = "joined" /\ codes.at = "ended"
                        THEN codes.out ELSE <<-1>>
    BY <1>8 DEF Decode
  <2> HIDE DEF bytes, blocks, codes
  <2>2. Decode(bytes) = out
    BY <1>8, <1>10, <1>11, <2>1
  <2> QED
    BY <2>2 DEF bytes
-----------------------------------------------------------------------------
(* The dictionary: the strings of the encoder's codes, which the reader has *)
(* one entry later.                                                         *)

Strings == {s \in Seq(Indexes) : s # <<>>}

\* The string of a code, of the entries D, and the codes that have one.
Str(D, code) == IF code < ClearCode THEN <<code>> ELSE D[code - EOFCode]
Known(D) == Indexes \union (ClearCode + 2)..(EOFCode + Len(D))

\* The numbers of the first codes.
LEMMA CodeSizes ==
    /\ ClearCode \in Nat /\ ClearCode >= 4 /\ EOFCode = ClearCode + 1 /\ EOFCode \in Nat
    /\ maxmaxcode \in Nat
  BY Sizes DEF EOFCode

\* A string has a first pixel, which stays when one is added.
LEMMA StringExtends ==
    ASSUME NEW s \in Strings, NEW c \in Indexes
    PROVE  /\ Append(s, c) \in Strings /\ Head(Append(s, c)) = Head(s) /\ Head(s) \in Indexes
           /\ Len(s) \in Nat /\ Len(s) > 0
<1>1. s \in Seq(Indexes) /\ s # <<>>
  BY DEF Strings
<1>2. Len(s) \in Nat /\ Len(s) > 0
  BY <1>1, EmptySeq, LenProperties
<1>3. /\ Append(s, c) \in Seq(Indexes) /\ Len(Append(s, c)) = Len(s) + 1
      /\ \A i \in 1..Len(s) : Append(s, c)[i] = s[i]
  BY <1>1, AppendProperties
<1>4. Append(s, c)[1] = s[1]
  BY <1>2, <1>3
<1>5. Append(s, c) # <<>>
  BY <1>1, AppendProperties
<1>6. Head(Append(s, c)) = Append(s, c)[1] /\ Head(s) = s[1]
  BY <1>1, <1>3, <1>5, HeadTailProperties
<1>7. Head(s) \in Indexes
  BY <1>1, HeadTailProperties
<1> QED
  BY <1>2, <1>3, <1>4, <1>5, <1>6, <1>7 DEF Strings

\* A pixel is a string.
LEMMA OnePixel ==
    ASSUME NEW c \in Indexes
    PROVE  <<c>> \in Strings /\ Head(<<c>>) = c
  BY DEF Strings

\* A code that is known has a string, and is neither of the two that have none.
LEMMA StrIs ==
    ASSUME NEW D \in Seq(Strings), NEW code \in Known(D)
    PROVE  Str(D, code) \in Strings /\ code \in Nat /\ code # ClearCode /\ code # EOFCode
<1>1. Len(D) \in Nat
  BY LenProperties
<1>2. CASE code \in Indexes
  <2>1. code < ClearCode /\ code \in Nat
    BY <1>2, CodeSizes DEF Indexes
  <2>2. Str(D, code) = <<code>>
    BY <2>1 DEF Str
  <2> QED
    BY <1>2, <2>1, <2>2, CodeSizes, OnePixel
<1>3. CASE code \in (ClearCode + 2)..(EOFCode + Len(D))
  <2>1. code \in Nat /\ ~(code < ClearCode) /\ code - EOFCode \in 1..Len(D)
        /\ code # ClearCode /\ code # EOFCode
    BY <1>1, <1>3, CodeSizes
  <2>2. D[code - EOFCode] \in Strings
    BY <2>1, ElementOfSeq
  <2> QED
    BY <2>1, <2>2 DEF Str
<1> QED
  BY <1>2, <1>3 DEF Known

\* A new entry has its string, the others keep theirs.
LEMMA StrKept ==
    ASSUME NEW D \in Seq(Strings), NEW s \in Strings
    PROVE  /\ Append(D, s) \in Seq(Strings) /\ Len(Append(D, s)) = Len(D) + 1
           /\ \A code \in Known(D) :
                  code \in Known(Append(D, s)) /\ Str(Append(D, s), code) = Str(D, code)
           /\ EOFCode + Len(D) + 1 \in Known(Append(D, s))
           /\ Str(Append(D, s), EOFCode + Len(D) + 1) = s
<1> DEFINE E == Append(D, s)
<1>1. Len(D) \in Nat
  BY LenProperties
<1>2. /\ E \in Seq(Strings) /\ Len(E) = Len(D) + 1
      /\ \A i \in 1..Len(D) : E[i] = D[i]
      /\ E[Len(D) + 1] = s
  BY AppendProperties
<1> HIDE DEF E
<1>3. ASSUME NEW code \in Known(D) PROVE code \in Known(E) /\ Str(E, code) = Str(D, code)
  <2>1. CASE code \in Indexes
    <3>1. code < ClearCode
      BY <2>1, CodeSizes DEF Indexes
    <3> QED
      BY <2>1, <3>1 DEF Known, Str
  <2>2. CASE code \in (ClearCode + 2)..(EOFCode + Len(D))
    <3>1. code - EOFCode \in 1..Len(D) /\ ~(code < ClearCode)
          /\ code \in (ClearCode + 2)..(EOFCode + Len(E))
      BY <1>1, <1>2, <2>2, CodeSizes
    <3> QED
      BY <1>2, <3>1 DEF Known, Str
  <2> QED
    BY <2>1, <2>2 DEF Known
<1>4. EOFCode + Len(D) + 1 \in (ClearCode + 2)..(EOFCode + Len(E))
      /\ ~(EOFCode + Len(D) + 1 < ClearCode) /\ (EOFCode + Len(D) + 1) - EOFCode = Len(D) + 1
  BY <1>1, <1>2, CodeSizes
<1>5. EOFCode + Len(D) + 1 \in Known(E) /\ Str(E, EOFCode + Len(D) + 1) = s
  BY <1>2, <1>4 DEF Known, Str
<1> QED
  BY <1>2, <1>3, <1>5 DEF E

\* The pairs of the table mean what their codes do.
Means(D, table, codes) ==
    \A i \in Used(table) :
        /\ codes[i] \in Known(D) /\ prefix_of(table[i]) \in Known(D)
        /\ Str(D, codes[i]) = Append(Str(D, prefix_of(table[i])), pixel_of(table[i]))

\* A new entry of the hash table stands for the string made longer by its pixel.
LEMMA EntryMeans ==
    ASSUME NEW D \in Seq(Strings), NEW table \in Tables, NEW codes \in [Slots -> Codes],
           Means(D, table, codes), NEW i \in Slots, table[i] = Free,
           NEW e \in Known(D), e \in Codes, NEW c \in Indexes, NEW free, free = EOFCode + Len(D) + 1
    PROVE  Means(Append(D, Append(Str(D, e), c)), [table EXCEPT ![i] = fcode(e, c)],
                 [codes EXCEPT ![i] = free])
<1> DEFINE s == Append(Str(D, e), c)
           E == Append(D, s)
           table2 == [table EXCEPT ![i] = fcode(e, c)]
           codes2 == [codes EXCEPT ![i] = free]
<1>1. Str(D, e) \in Strings
  BY StrIs
<1>2. s \in Strings
  BY <1>1, StringExtends
<1> HIDE DEF s
<1>3. /\ \A code \in Known(D) : code \in Known(E) /\ Str(E, code) = Str(D, code)
      /\ free \in Known(E) /\ Str(E, free) = s
  BY <1>2, StrKept
<1> HIDE DEF E
<1>4. prefix_of(fcode(e, c)) = e /\ pixel_of(fcode(e, c)) = c
  BY PairCodes
<1>5. DOMAIN table = Slots /\ DOMAIN table2 = Slots /\ table2[i] = fcode(e, c) /\ codes2[i] = free
      /\ \A k \in Slots : k # i => table2[k] = table[k] /\ codes2[k] = codes[k]
  BY DEF Tables
<1> HIDE DEF table2, codes2
<1>6. ASSUME NEW k \in Used(table2)
      PROVE  /\ codes2[k] \in Known(E) /\ prefix_of(table2[k]) \in Known(E)
             /\ Str(E, codes2[k]) = Append(Str(E, prefix_of(table2[k])), pixel_of(table2[k]))
  <2>1. k \in Slots
    BY <1>5 DEF Used
  <2>2. CASE k = i
    <3>1. codes2[k] = free /\ prefix_of(table2[k]) = e /\ pixel_of(table2[k]) = c
      BY <1>4, <1>5, <2>2
    <3>2. Str(E, free) = Append(Str(E, e), c)
      BY <1>3 DEF s
    <3> QED
      BY <1>3, <3>1, <3>2
  <2>3. CASE k # i
    <3>1. table2[k] = table[k] /\ codes2[k] = codes[k] /\ k \in Used(table)
      BY <1>5, <2>1, <2>3 DEF Used
    <3>2. /\ codes[k] \in Known(D) /\ prefix_of(table[k]) \in Known(D)
          /\ Str(D, codes[k]) = Append(Str(D, prefix_of(table[k])), pixel_of(table[k]))
      BY <3>1 DEF Means
    <3> QED
      BY <1>3, <3>1, <3>2
  <2> QED
    BY <2>2, <2>3
<1>7. Means(E, table2, codes2)
  BY <1>6 DEF Means
<1> QED
  BY <1>7 DEF E, s, table2, codes2

\* The reader's entries and its last string are those of D before the newest, which
\* the first pixel of the string of e will complete.
Linked(D, dict, last, e) ==
    \/ D = <<>> /\ dict = <<>> /\ last = <<>>
    \/ /\ last \in Strings /\ dict \in Seq(Strings)
       /\ D = Append(dict, Append(last, Head(Str(D, e))))

\* What a reader makes of a string code.
LEMMA StringTaken ==
    ASSUME NEW r, NEW code, code # ClearCode, code # EOFCode,
           NEW string, StringOf(r, code) = string, NEW D, Grown(r, string) = D,
           ~(code > EOFCode + Len(r.dict) /\ (code # EOFCode + 1 + Len(r.dict) \/ r.last = <<>>)),
           NEW p, NEW width, NEW dict, NEW last, NEW out, r = Reader(p, width, dict, last, out)
    PROVE  TakeCode(r, code)
             = Reader(p, WidthFor(width, EOFCode + 1 + Len(D)), D, string, out \o string)
<1>1. TakeCode(r, code) = TakeString(r, code)
  BY DEF TakeCode
<1>2. r.pos = p /\ r.width = width /\ r.out = out
  BY DEF Reader
<1> QED
  BY <1>1, <1>2 DEF TakeString

\* The reader takes the code of the next string, the one it is about to enter included,
\* and is then one entry behind again.
LEMMA TakesCode ==
    ASSUME NEW D \in Seq(Strings), NEW e \in Known(D), NEW dict, NEW last, Linked(D, dict, last, e),
           EOFCode + 1 + Len(D) <= maxmaxcode, NEW p, NEW width, NEW out
    PROVE  TakeCode(Reader(p, width, dict, last, out), e)
             = Reader(p, WidthFor(width, EOFCode + 1 + Len(D)), D, Str(D, e), out \o Str(D, e))
<1> DEFINE r == Reader(p, width, dict, last, out)
           s == Str(D, e)
<1>1. r.dict = dict /\ r.last = last
  BY DEF Reader
<1>2. s \in Strings /\ e \in Nat /\ e # ClearCode /\ e # EOFCode
  BY StrIs
<1>3. Len(D) \in Nat
  BY LenProperties
<1> HIDE DEF r, s
<1>4. CASE D = <<>> /\ dict = <<>> /\ last = <<>>
  <2>1. Len(<<>>) = 0
    BY EmptySeq
  <2>2. e < ClearCode
    <3>1. e \notin (ClearCode + 2)..(EOFCode + 0)
      BY CodeSizes
    <3>2. e \in Indexes
      BY <1>4, <2>1, <3>1 DEF Known
    <3> QED
      BY <3>2, CodeSizes DEF Indexes
  <2>3. ~(e > EOFCode + Len(r.dict))
    BY <1>1, <1>2, <1>4, <2>1, <2>2, CodeSizes
  <2>4. StringOf(r, e) = s
    BY <2>2 DEF StringOf, Str, s
  <2>5. Grown(r, s) = D
    BY <1>1, <1>4 DEF Grown
  <2> QED
    BY <1>2, <2>3, <2>4, <2>5, StringTaken DEF r, s
<1>5. CASE /\ last \in Strings /\ dict \in Seq(Strings)
           /\ D = Append(dict, Append(last, Head(s)))
  <2>1. last # <<>> /\ Len(dict) \in Nat
    BY <1>5, LenProperties DEF Strings
  <2>2. Head(s) \in Indexes
    BY <1>2, OnePixel, StringExtends, CodeSizes DEF Indexes
  <2> DEFINE t == Append(last, Head(s))
  <2>3. t \in Strings /\ Head(t) = Head(last)
    BY <1>5, <2>2, StringExtends
  <2> HIDE DEF t
  <2>4. D = Append(dict, t)
    BY <1>5 DEF t
  <2>5. /\ Len(D) = Len(dict) + 1
        /\ \A code \in Known(dict) : Str(D, code) = Str(dict, code)
        /\ Str(D, EOFCode + Len(dict) + 1) = t
    <3>1. /\ Len(Append(dict, t)) = Len(dict) + 1
          /\ \A code \in Known(dict) : Str(Append(dict, t), code) = Str(dict, code)
          /\ Str(Append(dict, t), EOFCode + Len(dict) + 1) = t
      BY <1>5, <2>3, StrKept
    <3> QED
      BY <2>4, <3>1
  <2>6. e \in Known(dict) \/ e = EOFCode + Len(dict) + 1
    <3>1. (ClearCode + 2)..(EOFCode + Len(D))
            = ((ClearCode + 2)..(EOFCode + Len(dict))) \union {EOFCode + Len(dict) + 1}
      BY <2>1, <2>5, CodeSizes
    <3> QED
      BY <3>1 DEF Known
  <2>7. Grown(r, s) = D
    <3>1. ~(EOFCode + 1 + Len(dict) >= maxmaxcode)
      BY <1>3, <2>1, <2>5, CodeSizes
    <3> QED
      BY <1>1, <2>1, <2>4, <3>1 DEF Grown, t
  <2>8. CASE e \in Known(dict)
    <3>1. ~(e > EOFCode + Len(r.dict))
      <4>1. CASE e \in Indexes
        BY <1>1, <2>1, <4>1, CodeSizes DEF Indexes
      <4>2. CASE e \in (ClearCode + 2)..(EOFCode + Len(dict))
        BY <1>1, <2>1, <4>2, CodeSizes
      <4> QED
        BY <2>8, <4>1, <4>2 DEF Known
    <3>2. StringOf(r, e) = s
      <4>1. StringOf(r, e) = Str(dict, e)
        <5>1. e <= EOFCode + Len(dict)
          BY <1>1, <1>2, <2>1, <3>1, CodeSizes
        <5> QED
          BY <1>1, <5>1 DEF StringOf, Str
      <4> QED
        BY <2>5, <2>8, <4>1 DEF s
    <3> QED
      BY <1>2, <2>7, <3>1, <3>2, StringTaken DEF r, s
  <2>9. CASE e = EOFCode + Len(dict) + 1
    <3>1. e = EOFCode + 1 + Len(dict) /\ ~(e < ClearCode) /\ ~(e <= EOFCode + Len(dict))
      BY <2>1, <2>9, CodeSizes
    <3>2. StringOf(r, e) = Append(last, Head(last))
      BY <1>1, <3>1 DEF StringOf
    <3>3. s = t
      BY <2>5, <2>9 DEF s
    <3>4. Head(s) = Head(last)
      BY <2>3, <3>3
    <3>5. StringOf(r, e) = s
      BY <3>2, <3>3, <3>4 DEF t
    <3>6. ~(e # EOFCode + 1 + Len(r.dict) \/ r.last = <<>>)
      BY <1>1, <2>1, <3>1
    <3> QED
      BY <1>2, <2>7, <3>5, <3>6, StringTaken DEF r, s
  <2> QED
    BY <2>6, <2>8, <2>9
<1> QED
  BY <1>4, <1>5 DEF Linked, s
-----------------------------------------------------------------------------
(* Putting codes out, and reading them.                                     *)

\* output(), as the three parts these proofs have.
LEMMA OutputIs ==
    ASSUME NEW w \in Writers, NEW code, NEW free
    PROVE  output(w, code, free) =
               IF code = EOFCode THEN flush_char(ShiftOut(Widen(Shifted(w, code), free), 0))
               ELSE Widen(Shifted(w, code), free)
  BY DEF output, Shifted, WithCode

\* The clear and the end code fit into every width.
LEMMA WideEnough ==
    ASSUME NEW n \in g_init_bits..MaxBits
    PROVE  /\ n \in 3..12 /\ TwoTo(n) \in Nat /\ TwoTo(n) >= ClearCode + ClearCode
           /\ TwoTo(n) <= maxmaxcode
<1>1. InitCodeSize \in 2..8 /\ MaxBits \in 4..12 /\ g_init_bits = InitCodeSize + 1
  BY Sizes DEF g_init_bits
<1>2. n \in 3..12 /\ n - InitCodeSize \in 1..10 /\ n \in 0..20
  BY <1>1
<1>3. TwoTo(n) \in Nat
  BY <1>2, PowerNext
<1>4. TwoTo(n) = TwoTo(n - InitCodeSize) * ClearCode
  <2>1. n - InitCodeSize \in 0..12 /\ (n - InitCodeSize) + InitCodeSize = n
    BY <1>1, <1>2
  <2>2. TwoTo((n - InitCodeSize) + InitCodeSize) = TwoTo(n - InitCodeSize) * TwoTo(InitCodeSize)
    BY <1>1, <2>1, PowerAdds
  <2> QED
    BY <2>1, <2>2 DEF ClearCode
<1>5. TwoTo(n - InitCodeSize) \in Nat /\ TwoTo(n - InitCodeSize) >= 2
  <2>1. (n - InitCodeSize) - 1 \in 0..20 /\ ((n - InitCodeSize) - 1) + 1 = n - InitCodeSize
    BY <1>1, <1>2
  <2>2. /\ TwoTo((n - InitCodeSize) - 1) \in Nat /\ TwoTo((n - InitCodeSize) - 1) > 0
        /\ TwoTo(((n - InitCodeSize) - 1) + 1) = 2 * TwoTo((n - InitCodeSize) - 1)
    BY <2>1, PowerNext
  <2> QED
    BY <2>1, <2>2
<1>6. TwoTo(n) >= ClearCode + ClearCode
  <2>1. \A x, y \in Nat : x >= 2 => x * y >= y + y
    <3> SUFFICES ASSUME NEW x \in Nat, NEW y \in Nat, x >= 2 PROVE x * y >= y + y
      OBVIOUS
    <3>1. (x - 2) * y >= 0 /\ (x - 2) * y = x * y - (y + y)
      OBVIOUS
    <3>2. x * y \in Int
      OBVIOUS
    <3> QED
      BY <3>1, <3>2
  <2> QED
    BY <1>4, <1>5, <2>1, CodeSizes
<1>7. TwoTo(n) <= maxmaxcode
  <2> DEFINE S == {d \in Nat : n + d <= 20 => TwoTo(n) <= TwoTo(n + d)}
  <2>1. 0 \in S
    BY <1>2, <1>3
  <2>2. ASSUME NEW d \in Nat, d \in S PROVE d + 1 \in S
    <3> SUFFICES ASSUME n + (d + 1) <= 20 PROVE TwoTo(n) <= TwoTo(n + (d + 1))
      OBVIOUS
    <3>1. n + d \in 0..20 /\ (n + d) + 1 = n + (d + 1) /\ n + d <= 20
      BY <1>2
    <3>2. TwoTo(n + d) \in Nat /\ TwoTo((n + d) + 1) = 2 * TwoTo(n + d)
      BY <3>1, PowerNext
    <3>3. TwoTo(n) <= TwoTo(n + d)
      BY <2>2, <3>1
    <3> QED
      BY <1>3, <3>1, <3>2, <3>3
  <2> HIDE DEF S
  <2>3. MaxBits - n \in S
    <3>1. MaxBits - n \in Nat
      BY <1>1, <1>2
    <3> QED
      BY <2>1, <2>2, <3>1, InductionOnSets
  <2>4. n + (MaxBits - n) = MaxBits /\ MaxBits <= 20
    BY <1>1, <1>2
  <2> QED
    BY <2>3, <2>4 DEF S, maxmaxcode
<1> QED
  BY <1>2, <1>3, <1>6, <1>7

\* The encoder's codes get wider where the reader expects it.
LEMMA WidenIs ==
    ASSUME NEW w, Ready(w), ~w.clear_flg, NEW free \in Nat, free <= TwoTo(w.n_bits)
    PROVE  LET v == Widen(w, free)
           IN  /\ SameBits(v, w) /\ v.n_bits = WidthFor(w.n_bits, free)
               /\ free < maxmaxcode => free + 1 <= TwoTo(v.n_bits)
<1>1. w \in Writers /\ w.n_bits \in g_init_bits..MaxBits
  BY WriterFields DEF Ready
<1>2. w.n_bits \in 3..12 /\ TwoTo(w.n_bits) \in Nat /\ MaxBits \in Int /\ maxmaxcode \in Nat
  BY <1>1, WideEnough, Sizes
<1>3. w.maxcode = IF w.n_bits = MaxBits THEN maxmaxcode ELSE TwoTo(w.n_bits) - 1
  BY DEF Ready, MAXCODE
<1>4. CASE free <= w.maxcode
  <2>1. Widen(w, free) = w
    BY <1>4 DEF Widen
  <2>2. WidthFor(w.n_bits, free) = w.n_bits
    <3> SUFFICES ASSUME w.n_bits < MaxBits PROVE free # TwoTo(w.n_bits)
      BY DEF WidthFor
    <3>1. free <= TwoTo(w.n_bits) - 1
      BY <1>2, <1>3, <1>4
    <3> QED
      BY <1>2, <3>1
  <2>3. free < maxmaxcode => free + 1 <= TwoTo(w.n_bits)
    <3>1. CASE w.n_bits = MaxBits
      BY <1>2, <3>1 DEF maxmaxcode
    <3>2. CASE w.n_bits # MaxBits
      BY <1>2, <1>3, <1>4, <3>2
    <3> QED
      BY <3>1, <3>2
  <2> QED
    BY <2>1, <2>2, <2>3 DEF SameBits
<1>5. CASE ~(free <= w.maxcode)
  <2> DEFINE bits == w.n_bits + 1
             limit == IF bits = MaxBits THEN maxmaxcode ELSE MAXCODE(bits)
  <2>1. Widen(w, free) = [w EXCEPT !.n_bits = bits, !.maxcode = limit]
    BY <1>5 DEF Widen
  <2> HIDE DEF limit, bits
  <2>2. SameBits(Widen(w, free), w) /\ Widen(w, free).n_bits = bits
    BY <1>1, <2>1 DEF Writers, SameBits
  <2>3. w.n_bits # MaxBits
    <3> SUFFICES ASSUME w.n_bits = MaxBits PROVE FALSE
      OBVIOUS
    <3> QED
      BY <1>2, <1>3, <1>5 DEF maxmaxcode
  <2>4. w.n_bits < MaxBits /\ free = TwoTo(w.n_bits)
    <3>1. w.n_bits < MaxBits
      BY <1>1, <1>2, <2>3
    <3>2. ~(free <= TwoTo(w.n_bits) - 1)
      BY <1>3, <1>5, <2>3
    <3> QED
      BY <1>2, <3>1, <3>2
  <2>5. WidthFor(w.n_bits, free) = bits
    BY <2>4 DEF WidthFor, bits
  <2>6. free + 1 <= TwoTo(bits)
    <3>1. TwoTo(w.n_bits + 1) = 2 * TwoTo(w.n_bits) /\ TwoTo(w.n_bits) > 0
      <4>1. w.n_bits \in 0..20
        BY <1>2
      <4> QED
        BY <4>1, PowerNext
    <3> QED
      BY <1>2, <2>4, <3>1 DEF bits
  <2> QED
    BY <2>2, <2>5, <2>6
<1> QED
  BY <1>4, <1>5

\* Widening the codes leaves the bits, the packet and the bytes as they are.
LEMMA WidenSameBits ==
    ASSUME NEW w \in Writers, NEW free
    PROVE  SameBits(Widen(w, free), w)
<1> DEFINE first == MAXCODE(g_init_bits)
           bits == w.n_bits + 1
           limit == IF bits = MaxBits THEN maxmaxcode ELSE MAXCODE(bits)
<1>1. \/ Widen(w, free) = [w EXCEPT !.n_bits = g_init_bits, !.maxcode = first, !.clear_flg = FALSE]
      \/ Widen(w, free) = w
      \/ Widen(w, free) = [w EXCEPT !.n_bits = bits, !.maxcode = limit]
  BY DEF Widen
<1> HIDE DEF first, bits, limit
<1> QED
  BY <1>1 DEF Writers, SameBits

\* Behind a clear code the codes have their first width again.
LEMMA WidenAfterClear ==
    ASSUME NEW w \in Writers, w.clear_flg, NEW free
    PROVE  SameBits(Widen(w, free), w) /\ Widen(w, free).n_bits = g_init_bits
<1> DEFINE limit == MAXCODE(g_init_bits)
<1>1. Widen(w, free) = [w EXCEPT !.n_bits = g_init_bits, !.maxcode = limit, !.clear_flg = FALSE]
  BY DEF Widen
<1> HIDE DEF limit
<1> QED
  BY <1>1 DEF Writers, SameBits

\* Behind a string's code.
LEMMA StringRead ==
    ASSUME NEW w, Ready(w), ~w.clear_flg, w.cur_bits \in 0..7,
           NEW D \in Seq(Strings), NEW e \in Known(D), NEW free, free = EOFCode + 1 + Len(D),
           free <= TwoTo(w.n_bits), NEW dict, NEW last, NEW out,
           Linked(D, dict, last, e), Read(w, dict, last, out)
    PROVE  LET v == output(w, e, free)
           IN  /\ Read(v, D, Str(D, e), out \o Str(D, e))
               /\ free < maxmaxcode => free + 1 <= TwoTo(v.n_bits)
<1> DEFINE s == Shifted(w, e)
           v == Widen(s, free)
<1>1. w \in Writers /\ Len(w.accum) < PacketSize /\ w.n_bits \in g_init_bits..MaxBits
  BY WriterFields DEF Ready
<1>2. e \in Nat /\ e # ClearCode /\ e # EOFCode /\ Str(D, e) \in Strings
  BY StrIs
<1>3. TwoTo(w.n_bits) \in Nat /\ TwoTo(w.n_bits) <= maxmaxcode /\ Len(D) \in Nat
  BY <1>1, WideEnough, LenProperties
<1>4. free \in Nat /\ free <= maxmaxcode /\ e < TwoTo(w.n_bits)
  <2>1. free \in Nat /\ free <= maxmaxcode
    BY <1>3, CodeSizes
  <2>2. CASE e \in Indexes
    BY <1>3, <2>1, <2>2, CodeSizes DEF Indexes
  <2>3. CASE e \in (ClearCode + 2)..(EOFCode + Len(D))
    BY <1>3, <2>1, <2>3, CodeSizes
  <2> QED
    BY <2>1, <2>2, <2>3 DEF Known
<1>5. /\ s \in Writers /\ Len(s.accum) < PacketSize /\ s.cur_bits \in 0..7
      /\ s.n_bits = w.n_bits /\ s.maxcode = w.maxcode /\ s.clear_flg = w.clear_flg
  BY <1>1, <1>2, ShiftedIs
<1> HIDE DEF s
<1>6. Ready(s) /\ ~s.clear_flg
  BY <1>5 DEF Ready
<1>7. SameBits(v, s) /\ v.n_bits = WidthFor(w.n_bits, free)
      /\ (free < maxmaxcode => free + 1 <= TwoTo(v.n_bits))
  BY <1>4, <1>5, <1>6, WidenIs
<1>8. output(w, e, free) = v
  BY <1>1, <1>2, OutputIs DEF s
<1> HIDE DEF v
<1>9. \A p : TakeCode(Reader(p, w.n_bits, dict, last, out), e)
               = Reader(p, v.n_bits, D, Str(D, e), out \o Str(D, e))
  <2> SUFFICES ASSUME NEW p
               PROVE  TakeCode(Reader(p, w.n_bits, dict, last, out), e)
                        = Reader(p, v.n_bits, D, Str(D, e), out \o Str(D, e))
    OBVIOUS
  <2>1. EOFCode + 1 + Len(D) <= maxmaxcode
    BY <1>4
  <2>2. TakeCode(Reader(p, w.n_bits, dict, last, out), e)
          = Reader(p, WidthFor(w.n_bits, EOFCode + 1 + Len(D)), D, Str(D, e), out \o Str(D, e))
    BY <2>1, TakesCode
  <2> QED
    BY <1>7, <2>2
<1>10. SameBits(v, Shifted(w, e))
  BY <1>7 DEF s
<1> DEFINE more == out \o Str(D, e)
<1> HIDE DEF more
<1>11. \A p : TakeCode(Reader(p, w.n_bits, dict, last, out), e)
               = Reader(p, v.n_bits, D, Str(D, e), more)
  BY <1>9 DEF more
<1>12. Read(v, D, Str(D, e), more)
  BY <1>1, <1>2, <1>4, <1>10, <1>11, CodeRead
<1> QED
  BY <1>7, <1>8, <1>12 DEF more

\* Behind a clear code.
LEMMA ClearRead ==
    ASSUME NEW w, Ready(w), w.cur_bits \in 0..7, NEW dict, NEW last, NEW out,
           Read(w, dict, last, out),
           NEW v, SameBits(v, Shifted(w, ClearCode)), v.n_bits = g_init_bits
    PROVE  Read(v, <<>>, <<>>, out)
<1>1. w \in Writers /\ Len(w.accum) < PacketSize /\ w.n_bits \in g_init_bits..MaxBits
  BY WriterFields DEF Ready
<1>2. ClearCode \in Nat /\ ClearCode < TwoTo(w.n_bits)
  BY <1>1, WideEnough, CodeSizes
<1>3. \A p : TakeCode(Reader(p, w.n_bits, dict, last, out), ClearCode)
               = Reader(p, v.n_bits, <<>>, <<>>, out)
  BY DEF TakeCode, Reader
<1> QED
  BY <1>1, <1>2, <1>3, CodeRead

\* Read looks at no more than the bits and the width.
LEMMA ReadAsWell ==
    ASSUME NEW w, NEW x, SameBits(x, w), x.n_bits = w.n_bits,
           NEW dict, NEW last, NEW out, Read(w, dict, last, out)
    PROVE  Read(x, dict, last, out)
<1>1. PICK P \in Seq(Bytes), m \in Nat :
          /\ Payload(w, P) /\ m <= Pos(P, w)
          /\ ReadsTo(P, w, m, Reader(Pos(P, w), w.n_bits, dict, last, out))
  BY DEF Read
<1>2. Payload(x, P) /\ Pos(P, x) = Pos(P, w)
  BY <1>1 DEF SameBits, Payload, Pos
<1>3. \A data : Follows(data, P, x) => Follows(data, P, w)
  BY DEF SameBits, Follows
<1>4. ReadsTo(P, x, m, Reader(Pos(P, x), x.n_bits, dict, last, out))
  BY <1>1, <1>2, <1>3 DEF ReadsTo
<1> QED
  BY <1>1, <1>2, <1>4 DEF Read

\* When the table is full, and at the start.
LEMMA ClearedRead ==
    ASSUME NEW w, Ready(w), w.cur_bits \in 0..7, NEW dict, NEW last, NEW out,
           Read(w, dict, last, out)
    PROVE  LET v == output([w EXCEPT !.clear_flg = TRUE], ClearCode, ClearCode + 2)
           IN  Read(v, <<>>, <<>>, out) /\ v.n_bits = g_init_bits
<1> DEFINE x == [w EXCEPT !.clear_flg = TRUE]
           s == Shifted(x, ClearCode)
           v == Widen(s, ClearCode + 2)
<1>1. w \in Writers /\ ClearCode \in Nat /\ ClearCode # EOFCode
  BY CodeSizes DEF Ready
<1>2. /\ x \in Writers /\ x.cur_accum = w.cur_accum /\ x.cur_bits = w.cur_bits
      /\ x.accum = w.accum /\ x.outs = w.outs /\ x.n_bits = w.n_bits /\ x.maxcode = w.maxcode
      /\ x.clear_flg = TRUE
  BY <1>1 DEF Writers
<1> HIDE DEF x
<1>3. Ready(x) /\ x.cur_bits \in 0..7 /\ Len(x.accum) < PacketSize
  BY <1>2 DEF Ready
<1>4. Read(x, dict, last, out)
  <2>1. SameBits(x, w)
    BY <1>2 DEF SameBits
  <2> QED
    BY <1>2, <2>1, ReadAsWell
<1>5. s \in Writers /\ s.clear_flg = TRUE
  BY <1>1, <1>2, <1>3, ShiftedIs
<1>6. SameBits(v, s) /\ v.n_bits = g_init_bits
  BY <1>5, WidenAfterClear
<1>7. output(x, ClearCode, ClearCode + 2) = v
  BY <1>1, <1>2, OutputIs
<1> HIDE DEF v
<1>8. Read(v, <<>>, <<>>, out)
  BY <1>3, <1>4, <1>6, ClearRead
<1> QED
  BY <1>6, <1>7, <1>8 DEF x

\* The clear code at the start of a frame, put out by compress before the table is cleared.
LEMMA FirstClearRead ==
    ASSUME NEW w, Ready(w), ~w.clear_flg, w.cur_bits \in 0..7, w.n_bits = g_init_bits,
           NEW dict, NEW last, NEW out, Read(w, dict, last, out)
    PROVE  LET v == output(w, ClearCode, ClearCode + 2)
           IN  Read(v, <<>>, <<>>, out) /\ v.n_bits = g_init_bits
<1> DEFINE s == Shifted(w, ClearCode)
           v == Widen(s, ClearCode + 2)
<1>1. /\ w \in Writers /\ Len(w.accum) < PacketSize /\ ClearCode \in Nat /\ ClearCode # EOFCode
      /\ ClearCode + 2 \in Nat
  BY CodeSizes DEF Ready
<1>2. /\ s \in Writers /\ Len(s.accum) < PacketSize /\ s.cur_bits \in 0..7
      /\ s.n_bits = w.n_bits /\ s.maxcode = w.maxcode /\ s.clear_flg = w.clear_flg
  BY <1>1, ShiftedIs
<1>3. Ready(s) /\ ~s.clear_flg
  BY <1>2 DEF Ready
<1>4. ClearCode + 2 <= TwoTo(g_init_bits) /\ ClearCode + 2 # TwoTo(g_init_bits)
  <2>1. g_init_bits \in g_init_bits..MaxBits
    BY SizeAssumption DEF g_init_bits
  <2> QED
    BY <2>1, WideEnough, CodeSizes
<1> HIDE DEF s
<1>5. SameBits(v, s) /\ v.n_bits = WidthFor(s.n_bits, ClearCode + 2)
  BY <1>1, <1>2, <1>3, <1>4, WidenIs
<1>6. v.n_bits = g_init_bits
  BY <1>2, <1>4, <1>5 DEF WidthFor
<1>7. output(w, ClearCode, ClearCode + 2) = v
  BY <1>1, OutputIs DEF s
<1> HIDE DEF v
<1>8. Read(v, <<>>, <<>>, out)
  BY <1>5, <1>6, ClearRead DEF s
<1> QED
  BY <1>6, <1>7, <1>8

\* Behind the end code.
LEMMA FinishRead ==
    ASSUME NEW w, Ready(w), w.cur_bits \in 0..7, ~w.clear_flg, NEW free \in 0..maxmaxcode,
           NEW dict, NEW last, NEW out, Read(w, dict, last, out)
    PROVE  Decode(Append(output(w, EOFCode, free).outs, 0)) = out
<1> DEFINE s == Shifted(w, EOFCode)
           v == Widen(s, free)
<1>1. w \in Writers /\ Len(w.accum) < PacketSize /\ w.n_bits \in g_init_bits..MaxBits
  BY WriterFields DEF Ready
<1>2. EOFCode \in Nat /\ EOFCode < TwoTo(w.n_bits)
  BY <1>1, WideEnough, CodeSizes
<1>3. /\ s \in Writers /\ Len(s.accum) < PacketSize
      /\ s.n_bits = w.n_bits /\ s.maxcode = w.maxcode /\ s.clear_flg = w.clear_flg
  BY <1>1, <1>2, ShiftedIs
<1>4. Ready(s) /\ ~s.clear_flg
  BY <1>3 DEF Ready
<1> HIDE DEF s
<1>5. v \in Writers /\ SameBits(v, s)
  <2>1. v \in Writers
    BY <1>4, WidenKeeps DEF Ready
  <2>2. SameBits(v, s)
    BY <1>3, WidenSameBits
  <2> QED
    BY <2>1, <2>2
<1>6. output(w, EOFCode, free) = flush_char(ShiftOut(v, 0))
  BY <1>1, OutputIs DEF s
<1> HIDE DEF v
<1>7. Decode(Append(flush_char(ShiftOut(v, 0)).outs, 0)) = out
  BY <1>1, <1>2, <1>5, EndRead DEF s
<1> QED
  BY <1>6, <1>7
-----------------------------------------------------------------------------
(* The pixels.                                                              *)

\* The first n pixels of a frame.
Shown(pix, n, given) ==
    given \in Seq(Indexes) /\ Len(given) = n /\ \A i \in 1..n : given[i] = pix[i]

\* With the next pixel, one more is shown.
LEMMA ShownNext ==
    ASSUME NEW pix \in Seq(Indexes), NEW n \in Nat, n < Len(pix), NEW given, Shown(pix, n, given)
    PROVE  Shown(pix, n + 1, Append(given, pix[n + 1]))
<1> DEFINE c == pix[n + 1]
<1>1. c \in Indexes
  <2>1. n + 1 \in 1..Len(pix)
    BY LenProperties
  <2> QED
    BY <2>1, ElementOfSeq
<1>2. given \in Seq(Indexes) /\ Len(given) = n /\ \A i \in 1..n : given[i] = pix[i]
  BY DEF Shown
<1> DEFINE more == Append(given, c)
<1>3. /\ more \in Seq(Indexes) /\ Len(more) = n + 1
      /\ \A i \in 1..n : more[i] = given[i]
      /\ more[n + 1] = c
  BY <1>1, <1>2, AppendProperties
<1> HIDE DEF more
<1>4. \A i \in 1..(n + 1) : more[i] = pix[i]
  <2> SUFFICES ASSUME NEW i \in 1..(n + 1) PROVE more[i] = pix[i]
    OBVIOUS
  <2>1. CASE i \in 1..n
    BY <1>2, <1>3, <2>1
  <2>2. CASE i = n + 1
    BY <1>3, <2>2
  <2> QED
    BY <2>1, <2>2
<1> QED
  BY <1>3, <1>4 DEF Shown, more

\* The pixels are shown when as many are as the frame has.
LEMMA ShownAll ==
    ASSUME NEW pix \in Seq(Indexes), NEW given, Shown(pix, Len(pix), given)
    PROVE  given = pix
<1>1. given \in Seq(Indexes) /\ Len(given) = Len(pix) /\ \A i \in 1..Len(pix) : given[i] = pix[i]
  BY DEF Shown
<1> QED
  BY <1>1, SeqEqual

\* A pixel behind a string is a pixel behind all that came before it.
LEMMA PixelAdded ==
    ASSUME NEW out \in Seq(Indexes), NEW s \in Strings, NEW c \in Indexes
    PROVE  /\ out \o s \in Seq(Indexes)
           /\ out \o <<c>> = Append(out, c)
           /\ out \o Append(s, c) = Append(out \o s, c)
<1>1. s \in Seq(Indexes) /\ <<c>> \in Seq(Indexes)
  BY DEF Strings
<1>2. out \o s \in Seq(Indexes)
  BY <1>1, ConcatProperties
<1>3. Append(s, c) = s \o <<c>> /\ Append(out, c) = out \o <<c>>
  BY <1>1, AppendIsConcat
<1> DEFINE all == out \o s
<1>4. Append(all, c) = all \o <<c>>
  <2> HIDE DEF all
  <2> QED
    BY <1>2, AppendIsConcat DEF all
<1>5. (out \o s) \o <<c>> = out \o (s \o <<c>>)
  BY <1>1, ConcatAssociative
<1> QED
  BY <1>2, <1>3, <1>4, <1>5
-----------------------------------------------------------------------------
(* The invariant of the reader.                                             *)

\* The reader is one string behind: with that one it has the first n pixels.
ReadSoFar(w, table, codes, free, e, pix, n) ==
    \E D, out, dict, last :
        /\ D \in Seq(Strings) /\ out \in Seq(Indexes)
        /\ Read(w, dict, last, out) /\ Linked(D, dict, last, e)
        /\ Means(D, table, codes) /\ e \in Known(D)
        /\ free = EOFCode + 1 + Len(D) /\ free <= TwoTo(w.n_bits)
        /\ Shown(pix, n, out \o Str(D, e))

ReadInv ==
    /\ at = "encode" =>
           /\ Read(writer, <<>>, <<>>, <<>>) /\ writer.n_bits = g_init_bits /\ curPixel = 0
    /\ at = "outer_loop" => ReadSoFar(writer, htab, codetab, free_ent, ent, pixAry, curPixel)
    /\ DecodesToItsPixels

\* Behind a clear code there is no dictionary, on either side.
LEMMA NothingYet ==
    /\ <<>> \in Seq(Strings) /\ <<>> \in Seq(Indexes) /\ <<>> \in Seq(Bytes)
    /\ EOFCode + 1 + Len(<<>>) = ClearCode + 2
    /\ \A e : Linked(<<>>, <<>>, <<>>, e)
    /\ \A codes : Means(<<>>, cl_hash, codes)
<1>1. <<>> \in Seq(Strings) /\ <<>> \in Seq(Indexes) /\ <<>> \in Seq(Bytes) /\ Len(<<>>) = 0
  BY EmptySeq
<1>2. Used(cl_hash) = {}
  BY DEF Used, cl_hash
<1>3. EOFCode + 1 + Len(<<>>) = ClearCode + 2
  BY <1>1, CodeSizes
<1> QED
  BY <1>1, <1>2, <1>3 DEF Linked, Means

\* Before the frame, the reader has the byte of the code size and no code.
LEMMA InitRead == Init => ReadInv
<1> SUFFICES ASSUME Init PROVE ReadInv
  OBVIOUS
<1> DEFINE size == <<InitCodeSize>>
<1>1. /\ at = "encode" /\ curPixel = 0
      /\ writer.cur_accum = 0 /\ writer.cur_bits = 0 /\ writer.accum = <<>> /\ writer.outs = size
      /\ writer.n_bits = g_init_bits
  BY DEF Init
<1>2. HasBlocks(size, <<>>)
  <2>1. size \in Seq(Bytes) /\ Len(size) = 1 /\ size[1] = InitCodeSize
    <3>1. InitCodeSize \in Bytes
      BY Sizes DEF Bytes
    <3> QED
      BY <3>1
  <2>2. \A rest \in Seq(Bytes) : After(size \o rest, FirstBlock, 0) = Block(2, <<>>)
    BY AfterZero DEF FirstBlock, Block
  <2>3. 0 \in 0..(Len(size) - 1) /\ Len(size) + 1 = 2 /\ Len(size) >= 1
    BY <2>1
  <2> HIDE DEF size
  <2> QED
    BY <2>1, <2>2, <2>3, NothingYet DEF HasBlocks
<1> HIDE DEF size
<1>3. Payload(writer, <<>>)
  <2>1. <<>> \o <<>> = <<>>
    BY NothingYet, BytesEmpty
  <2> QED
    BY <1>1, <1>2, <2>1, NothingYet DEF Payload
<1>4. Pos(<<>>, writer) = 0
  <2>1. Len(<<>>) = 0
    BY EmptySeq
  <2> QED
    BY <1>1, <2>1 DEF Pos
<1>5. ReadsTo(<<>>, writer, 0, Reader(0, g_init_bits, <<>>, <<>>, <<>>))
  BY AfterZero DEF ReadsTo, FirstCode
<1>6. Read(writer, <<>>, <<>>, <<>>)
  <2>1. 0 \in Nat /\ 0 <= 0
    OBVIOUS
  <2> QED
    BY <1>1, <1>3, <1>4, <1>5, <2>1, NothingYet DEF Read
<1> QED
  BY <1>1, <1>6 DEF ReadInv, DecodesToItsPixels

\* Behind a clear code the reader goes on with the encoder's next pixel aside.
LEMMA FreshRead ==
    ASSUME NEW w, w.n_bits = g_init_bits, NEW out \in Seq(Indexes), Read(w, <<>>, <<>>, out),
           NEW c \in Indexes, NEW codes, NEW pix, NEW n, Shown(pix, n, Append(out, c))
    PROVE  ReadSoFar(w, cl_hash, codes, ClearCode + 2, c, pix, n)
<1>1. c \in Known(<<>>) /\ Str(<<>>, c) = <<c>>
  BY CodeSizes DEF Known, Str, Indexes
<1>2. ClearCode + 2 <= TwoTo(w.n_bits)
  <2>1. g_init_bits \in g_init_bits..MaxBits
    BY SizeAssumption DEF g_init_bits
  <2> QED
    BY <2>1, WideEnough, CodeSizes
<1>3. out \o <<c>> = Append(out, c)
  <2>1. <<c>> \in Strings
    BY OnePixel
  <2> QED
    BY <2>1, PixelAdded
<1>4. Shown(pix, n, out \o Str(<<>>, c))
  BY <1>1, <1>3
<1>5. Linked(<<>>, <<>>, <<>>, c) /\ Means(<<>>, cl_hash, codes) /\ <<>> \in Seq(Strings)
      /\ ClearCode + 2 = EOFCode + 1 + Len(<<>>)
  BY NothingYet
<1> QED
  BY <1>1, <1>2, <1>4, <1>5 DEF ReadSoFar

\* A string found in the table takes its next pixel without a code.
LEMMA ExtendRead ==
    ASSUME NEW w, NEW table \in Tables, NEW codes, NEW free, NEW e \in Codes, NEW c \in Indexes,
           NEW pix \in Seq(Indexes), NEW n \in Nat, n < Len(pix), c = pix[n + 1],
           ReadSoFar(w, table, codes, free, e, pix, n),
           NEW i \in Used(table), table[i] = fcode(e, c)
    PROVE  ReadSoFar(w, table, codes, free, codes[i], pix, n + 1)
<1>1. PICK D, out, dict, last :
          /\ D \in Seq(Strings) /\ out \in Seq(Indexes)
          /\ Read(w, dict, last, out) /\ Linked(D, dict, last, e)
          /\ Means(D, table, codes) /\ e \in Known(D)
          /\ free = EOFCode + 1 + Len(D) /\ free <= TwoTo(w.n_bits)
          /\ Shown(pix, n, out \o Str(D, e))
  BY DEF ReadSoFar
<1> DEFINE e2 == codes[i]
           s == Str(D, e)
<1>2. prefix_of(table[i]) = e /\ pixel_of(table[i]) = c
  BY PairCodes
<1>3. e2 \in Known(D) /\ Str(D, e2) = Append(s, c)
  BY <1>1, <1>2 DEF Means
<1>4. s \in Strings
  BY <1>1, StrIs
<1> HIDE DEF s, e2
<1>5. Head(Str(D, e2)) = Head(Str(D, e))
  BY <1>3, <1>4, StringExtends DEF s
<1>6. Linked(D, dict, last, e2)
  BY <1>1, <1>5 DEF Linked
<1>7. out \o Str(D, e2) = Append(out \o s, c)
  BY <1>3, <1>4, PixelAdded
<1>8. Shown(pix, n + 1, Append(out \o s, c))
  <2>1. Shown(pix, n, out \o s)
    BY <1>1 DEF s
  <2> QED
    BY <2>1, ShownNext
<1>9. Shown(pix, n + 1, out \o Str(D, e2))
  BY <1>7, <1>8
<1> QED
  BY <1>1, <1>3, <1>6, <1>9 DEF ReadSoFar, e2

\* A string put out, and an entry made of it, keep the reader one string behind.
LEMMA EntryRead ==
    ASSUME NEW w, Ready(w), ~w.clear_flg, w.cur_bits \in 0..7,
           NEW table \in Tables, NEW codes \in [Slots -> Codes], NEW free \in Nat,
           NEW e \in Codes, NEW c \in Indexes,
           NEW pix \in Seq(Indexes), NEW n \in Nat, n < Len(pix), c = pix[n + 1],
           ReadSoFar(w, table, codes, free, e, pix, n), free < maxmaxcode,
           NEW i \in Slots, table[i] = Free
    PROVE  ReadSoFar(output(w, e, free), [table EXCEPT ![i] = fcode(e, c)],
                     [codes EXCEPT ![i] = free], free + 1, c, pix, n + 1)
<1>1. PICK D, out, dict, last :
          /\ D \in Seq(Strings) /\ out \in Seq(Indexes)
          /\ Read(w, dict, last, out) /\ Linked(D, dict, last, e)
          /\ Means(D, table, codes) /\ e \in Known(D)
          /\ free = EOFCode + 1 + Len(D) /\ free <= TwoTo(w.n_bits)
          /\ Shown(pix, n, out \o Str(D, e))
  BY DEF ReadSoFar
<1> DEFINE s == Str(D, e)
           more == out \o s
           t == Append(s, c)
           E == Append(D, t)
           v == output(w, e, free)
<1>2. Read(v, D, s, more) /\ free + 1 <= TwoTo(v.n_bits)
  <2>1. /\ Read(output(w, e, free), D, Str(D, e), out \o Str(D, e))
        /\ free < maxmaxcode => free + 1 <= TwoTo(output(w, e, free).n_bits)
    BY <1>1, StringRead
  <2> QED
    BY <2>1
<1> HIDE DEF v
<1>3. s \in Strings /\ t \in Strings
  <2>1. s \in Strings
    BY <1>1, StrIs
  <2> QED
    BY <2>1, StringExtends
<1>4. Len(D) \in Nat /\ free = EOFCode + Len(D) + 1
  <2>1. Len(D) \in Nat
    BY LenProperties
  <2> QED
    BY <1>1, <2>1, CodeSizes
<1>5. Means(E, [table EXCEPT ![i] = fcode(e, c)], [codes EXCEPT ![i] = free])
  BY <1>1, <1>4, EntryMeans
<1>6. more \in Seq(Indexes) /\ more \o <<c>> = Append(more, c)
  <2>1. more \in Seq(Indexes)
    BY <1>1, <1>3, PixelAdded
  <2>2. <<c>> \in Strings
    BY OnePixel
  <2> HIDE DEF more
  <2> QED
    BY <2>1, <2>2, PixelAdded
<1>7. Shown(pix, n + 1, Append(more, c))
  <2>1. Shown(pix, n, more)
    BY <1>1
  <2> HIDE DEF more
  <2> QED
    BY <2>1, ShownNext
<1> HIDE DEF more, t
<1>8. E \in Seq(Strings) /\ Len(E) = Len(D) + 1
  BY <1>1, <1>3, StrKept
<1>9. c \in Known(E) /\ Str(E, c) = <<c>>
  BY CodeSizes DEF Known, Str, Indexes
<1>10. Linked(E, D, s, c)
  <2>1. Head(Str(E, c)) = c
    BY <1>9, OnePixel
  <2>2. E = Append(D, Append(s, Head(Str(E, c))))
    BY <2>1 DEF t
  <2> QED
    BY <1>1, <1>3, <2>2 DEF Linked
<1>11. free + 1 = EOFCode + 1 + Len(E)
  BY <1>4, <1>8, CodeSizes
<1>12. Shown(pix, n + 1, more \o Str(E, c))
  BY <1>6, <1>7, <1>9
<1> HIDE DEF E, s
<1>13. ReadSoFar(v, [table EXCEPT ![i] = fcode(e, c)], [codes EXCEPT ![i] = free], free + 1, c,
                 pix, n + 1)
  BY <1>2, <1>5, <1>6, <1>8, <1>9, <1>10, <1>11, <1>12 DEF ReadSoFar
<1> QED
  BY <1>13 DEF v

\* Behind the code of the string, whatever comes next.
LEMMA LastStringRead ==
    ASSUME NEW w, Ready(w), ~w.clear_flg, w.cur_bits \in 0..7,
           NEW table, NEW codes, NEW free, NEW e, NEW pix, NEW n,
           ReadSoFar(w, table, codes, free, e, pix, n)
    PROVE  \E out, dict, last :
               /\ out \in Seq(Indexes) /\ Shown(pix, n, out)
               /\ Read(output(w, e, free), dict, last, out)
<1>1. PICK D, out, dict, last :
          /\ D \in Seq(Strings) /\ out \in Seq(Indexes)
          /\ Read(w, dict, last, out) /\ Linked(D, dict, last, e)
          /\ Means(D, table, codes) /\ e \in Known(D)
          /\ free = EOFCode + 1 + Len(D) /\ free <= TwoTo(w.n_bits)
          /\ Shown(pix, n, out \o Str(D, e))
  BY DEF ReadSoFar
<1>2. Read(output(w, e, free), D, Str(D, e), out \o Str(D, e))
  BY <1>1, StringRead
<1>3. out \o Str(D, e) \in Seq(Indexes)
  BY <1>1 DEF Shown
<1> QED
  BY <1>1, <1>2, <1>3

\* A string put out to a full table, and the clear code of cl_block behind it.
LEMMA FullRead ==
    ASSUME NEW w, Ready(w), ~w.clear_flg, w.cur_bits \in 0..7,
           NEW v, Ready(v), v.cur_bits \in 0..7,
           NEW table, NEW codes, NEW codes2, NEW free, NEW e, v = output(w, e, free),
           NEW c \in Indexes,
           NEW pix \in Seq(Indexes), NEW n \in Nat, n < Len(pix), c = pix[n + 1],
           ReadSoFar(w, table, codes, free, e, pix, n)
    PROVE  ReadSoFar(output([v EXCEPT !.clear_flg = TRUE], ClearCode, ClearCode + 2),
                     cl_hash, codes2, ClearCode + 2, c, pix, n + 1)
<1>1. PICK out, dict, last :
          out \in Seq(Indexes) /\ Read(v, dict, last, out) /\ Shown(pix, n, out)
  BY LastStringRead
<1> DEFINE x == output([v EXCEPT !.clear_flg = TRUE], ClearCode, ClearCode + 2)
<1>2. Read(x, <<>>, <<>>, out) /\ x.n_bits = g_init_bits
  BY <1>1, ClearedRead
<1> HIDE DEF x
<1>3. Shown(pix, n + 1, Append(out, c))
  BY <1>1, ShownNext
<1>4. ReadSoFar(x, cl_hash, codes2, ClearCode + 2, c, pix, n + 1)
  BY <1>1, <1>2, <1>3, FreshRead
<1> QED
  BY <1>4 DEF x

\* The frame, and the pixel given.
LEMMA PixelNext ==
    ASSUME Place, NEW c, nextPixel(c)
    PROVE  /\ pixAry \in Seq(Indexes) /\ curPixel \in Nat /\ curPixel < Len(pixAry)
           /\ c = pixAry[curPixel + 1] /\ c \in Indexes
           /\ curPixel' = curPixel + 1 /\ pixAry' = pixAry
<1>1. pixAry \in Seq(Indexes)
  BY SizeAssumption DEF Place, Indexes, ClearCode
<1>2. Len(pixAry) \in Nat
  BY <1>1, LenProperties
<1>3. curPixel \in Nat
  BY <1>2 DEF Place
<1>4. curPixel < Len(pixAry) /\ c = pixAry[curPixel + 1] /\ curPixel' = curPixel + 1
  BY DEF nextPixel
<1>5. c \in Indexes /\ pixAry' = pixAry
  BY PixelGiven
<1> QED
  BY <1>1, <1>3, <1>4, <1>5

\* A search ends in the table.
LEMMA SearchStaysInTable ==
    ASSUME NEW table, NEW p \in Codes, NEW c \in Indexes, SearchEnds(table, p, c)
    PROVE  Slot(table, p, c) \in Slots
  BY SlotIsFirst

\* compress, before its loop: the clear code and the first pixel.
LEMMA CompressReads ==
    ASSUME IInv, ReadInv, NEW c, Compress(c)
    PROVE  ReadInv'
<1>1. Place /\ Output(at, writer) /\ Dictionary(at, htab, codetab, free_ent, ent)
  BY Parts
<1>2. at = "encode" /\ nextPixel(c) /\ at' = "outer_loop" /\ ent' = c
      /\ free_ent' = ClearCode + 2 /\ htab' = htab /\ codetab' = codetab
      /\ writer' = output(writer, ClearCode, ClearCode + 2)
  BY DEF Compress
<1>3. /\ pixAry \in Seq(Indexes) /\ curPixel \in Nat /\ curPixel < Len(pixAry)
      /\ c = pixAry[curPixel + 1] /\ c \in Indexes
      /\ curPixel' = curPixel + 1 /\ pixAry' = pixAry
  BY <1>1, <1>2, PixelNext
<1>4. Read(writer, <<>>, <<>>, <<>>) /\ writer.n_bits = g_init_bits /\ curPixel = 0
  BY <1>2 DEF ReadInv
<1>5. Ready(writer) /\ ~writer.clear_flg /\ writer.cur_bits \in 0..7
  BY <1>1, <1>2 DEF Output
<1>6. Read(writer', <<>>, <<>>, <<>>) /\ writer'.n_bits = g_init_bits
  BY <1>2, <1>4, <1>5, FirstClearRead
<1>7. Shown(pixAry, 1, Append(<<>>, c))
  <2>1. Shown(pixAry, 0, <<>>)
    BY EmptySeq DEF Shown
  <2>2. Shown(pixAry, curPixel + 1, Append(<<>>, c))
    BY <1>3, <1>4, <2>1, ShownNext
  <2> QED
    BY <1>4, <2>2
<1>8. htab' = cl_hash
  BY <1>1, <1>2 DEF Dictionary
<1>9. ReadSoFar(writer', htab', codetab', free_ent', ent', pixAry', curPixel')
  <2>1. ReadSoFar(writer', cl_hash, codetab', ClearCode + 2, c, pixAry, 1)
    BY <1>3, <1>6, <1>7, FreshRead, NothingYet
  <2>2. curPixel' = 1
    BY <1>3, <1>4
  <2> QED
    BY <1>2, <1>3, <1>8, <2>1, <2>2
<1> QED
  BY <1>2, <1>9 DEF ReadInv, DecodesToItsPixels

\* The loop of compress when the string with the next pixel is in the table.
LEMMA ExtendReads ==
    ASSUME IInv, ReadInv, NEW c, Extend(c)
    PROVE  ReadInv'
<1>1. Place /\ Output(at, writer) /\ Dictionary(at, htab, codetab, free_ent, ent)
  BY Parts
<1> DEFINE i == Slot(htab, ent, c)
<1>2. at = "outer_loop" /\ nextPixel(c) /\ htab[i] = fcode(ent, c) /\ ent' = codetab[i]
      /\ at' = at /\ free_ent' = free_ent /\ htab' = htab /\ codetab' = codetab
      /\ writer' = writer
  BY DEF Extend
<1>3. /\ pixAry \in Seq(Indexes) /\ curPixel \in Nat /\ curPixel < Len(pixAry)
      /\ c = pixAry[curPixel + 1] /\ c \in Indexes
      /\ curPixel' = curPixel + 1 /\ pixAry' = pixAry
  BY <1>1, <1>2, PixelNext
<1>4. htab \in Tables /\ ent \in Codes /\ codetab \in [Slots -> Codes]
      /\ Complete(htab, codetab, free_ent) /\ free_ent \in (ClearCode + 2)..maxmaxcode
  BY <1>1, <1>2 DEF Dictionary
<1>5. i \in Used(htab)
  <2>1. SearchEnds(htab, ent, c)
    BY <1>3, <1>4, SearchesEnd
  <2>2. i \in Slots
    BY <1>3, <1>4, <2>1, SearchStaysInTable
  <2>3. fcode(ent, c) # Free
    BY <1>3, <1>4, PairCodes, FreeIsNoPair
  <2> HIDE DEF i
  <2> QED
    BY <1>2, <1>4, <2>2, <2>3 DEF Used, Tables
<1> HIDE DEF i
<1>6. ReadSoFar(writer, htab, codetab, free_ent, ent, pixAry, curPixel)
  BY <1>2 DEF ReadInv
<1>7. ReadSoFar(writer, htab, codetab, free_ent, codetab[i], pixAry, curPixel + 1)
  BY <1>2, <1>3, <1>4, <1>5, <1>6, ExtendRead
<1>8. ReadSoFar(writer', htab', codetab', free_ent', ent', pixAry', curPixel')
  BY <1>2, <1>3, <1>7
<1> QED
  BY <1>2, <1>8 DEF ReadInv, DecodesToItsPixels

\* The loop of compress when it is not.
LEMMA PutOutReads ==
    ASSUME IInv, ReadInv, NEW c, PutOut(c)
    PROVE  ReadInv'
<1>1. Place /\ Output(at, writer) /\ Dictionary(at, htab, codetab, free_ent, ent)
  BY Parts
<1> DEFINE i == Slot(htab, ent, c)
           w == output(writer, ent, free_ent)
<1>2. at = "outer_loop" /\ nextPixel(c) /\ htab[i] = Free /\ ent' = c /\ at' = at
  BY DEF PutOut
<1>3. /\ pixAry \in Seq(Indexes) /\ curPixel \in Nat /\ curPixel < Len(pixAry)
      /\ c = pixAry[curPixel + 1] /\ c \in Indexes
      /\ curPixel' = curPixel + 1 /\ pixAry' = pixAry
  BY <1>1, <1>2, PixelNext
<1>4. /\ htab \in Tables /\ ent \in Codes /\ codetab \in [Slots -> Codes]
      /\ free_ent \in (ClearCode + 2)..maxmaxcode /\ Complete(htab, codetab, free_ent)
      /\ ent # EOFCode /\ free_ent \in 0..maxmaxcode /\ free_ent \in Nat
  BY <1>1, <1>2, CodesPutOut DEF Dictionary
<1>5. Ready(writer) /\ ~writer.clear_flg /\ writer.cur_bits \in 0..7
  BY <1>1, <1>2 DEF Output
<1>6. Ready(w) /\ w.cur_bits \in 0..7
  BY <1>4, <1>5, OutputKeeps
<1>7. i \in Slots
  <2>1. SearchEnds(htab, ent, c)
    BY <1>3, <1>4, SearchesEnd
  <2> QED
    BY <1>3, <1>4, <2>1, SearchStaysInTable
<1>8. ReadSoFar(writer, htab, codetab, free_ent, ent, pixAry, curPixel)
  BY <1>2 DEF ReadInv
<1>9. \/ /\ free_ent < maxmaxcode
         /\ codetab' = [codetab EXCEPT ![i] = free_ent]
         /\ htab' = [htab EXCEPT ![i] = fcode(ent, c)]
         /\ free_ent' = free_ent + 1
         /\ writer' = w
      \/ cl_block(w)
  BY DEF PutOut
<1> HIDE DEF i
<1>10. CASE /\ free_ent < maxmaxcode
            /\ codetab' = [codetab EXCEPT ![i] = free_ent]
            /\ htab' = [htab EXCEPT ![i] = fcode(ent, c)]
            /\ free_ent' = free_ent + 1
            /\ writer' = w
  <2>1. ReadSoFar(w, [htab EXCEPT ![i] = fcode(ent, c)], [codetab EXCEPT ![i] = free_ent],
                  free_ent + 1, c, pixAry, curPixel + 1)
    BY <1>2, <1>3, <1>4, <1>5, <1>7, <1>8, <1>10, EntryRead
  <2> HIDE DEF w
  <2>2. ReadSoFar(writer', htab', codetab', free_ent', ent', pixAry', curPixel')
    BY <1>2, <1>3, <1>10, <2>1
  <2> QED
    BY <1>2, <2>2 DEF ReadInv, DecodesToItsPixels
<1>11. CASE cl_block(w)
  <2>1. /\ htab' = cl_hash /\ codetab' = codetab /\ free_ent' = ClearCode + 2
        /\ writer' = output([w EXCEPT !.clear_flg = TRUE], ClearCode, ClearCode + 2)
    BY <1>11 DEF cl_block
  <2>2. PICK v : v = w
    OBVIOUS
  <2>3. Ready(v) /\ v.cur_bits \in 0..7 /\ v = output(writer, ent, free_ent)
    BY <1>6, <2>2
  <2>4. ReadSoFar(output([v EXCEPT !.clear_flg = TRUE], ClearCode, ClearCode + 2),
                  cl_hash, codetab', ClearCode + 2, c, pixAry, curPixel + 1)
    BY <1>3, <1>5, <1>8, <2>3, FullRead
  <2> HIDE DEF w
  <2>5. ReadSoFar(writer', htab', codetab', free_ent', ent', pixAry', curPixel')
    BY <1>2, <1>3, <2>1, <2>2, <2>4
  <2> QED
    BY <1>2, <2>5 DEF ReadInv, DecodesToItsPixels
<1> QED
  BY <1>9, <1>10, <1>11

\* compress, behind its loop: the last string, the end code, flush_char.
LEMMA FinishReads ==
    ASSUME IInv, ReadInv, Finish
    PROVE  ReadInv'
<1>1. Place /\ Output(at, writer) /\ Dictionary(at, htab, codetab, free_ent, ent)
  BY Parts
<1> DEFINE w1 == output(writer, ent, free_ent)
           w2 == output(w1, EOFCode, free_ent)
<1>2. /\ at = "outer_loop" /\ at' = "encoded" /\ writer' = [w2 EXCEPT !.outs = Append(@, 0)]
      /\ pixAry' = pixAry /\ curPixel = Len(pixAry)
  BY DEF Finish
<1>3. ent \in Codes /\ ent # EOFCode /\ free_ent \in 0..maxmaxcode
  BY <1>1, <1>2, CodesPutOut DEF Dictionary
<1>4. Ready(writer) /\ ~writer.clear_flg /\ writer.cur_bits \in 0..7
  BY <1>1, <1>2 DEF Output
<1>5. Ready(w1) /\ w1.cur_bits \in 0..7 /\ ~w1.clear_flg
  BY <1>3, <1>4, OutputKeeps
<1>6. pixAry \in Seq(Indexes)
  BY <1>1, SizeAssumption DEF Place, Indexes, ClearCode
<1>7. PICK out, dict, last :
          out \in Seq(Indexes) /\ Read(w1, dict, last, out) /\ Shown(pixAry, Len(pixAry), out)
  <2>1. ReadSoFar(writer, htab, codetab, free_ent, ent, pixAry, Len(pixAry))
    BY <1>2 DEF ReadInv
  <2> QED
    BY <1>4, <2>1, LastStringRead
<1>8. out = pixAry
  BY <1>6, <1>7, ShownAll
<1> HIDE DEF w1
<1>9. Ready(w2)
  BY <1>3, <1>5, CodesPutOut, OutputKeeps
<1>10. Decode(Append(w2.outs, 0)) = out
  BY <1>3, <1>5, <1>7, FinishRead
<1> HIDE DEF w2
<1>11. writer'.outs = Append(w2.outs, 0)
  <2>1. w2 \in Writers
    BY <1>9 DEF Ready
  <2> QED
    BY <1>2, <2>1 DEF Writers
<1> QED
  BY <1>2, <1>8, <1>10, <1>11 DEF ReadInv, DecodesToItsPixels

\* Every step keeps the reader with the encoder.
LEMMA NextReads == IInv /\ ReadInv /\ [Next]_vars => ReadInv'
<1> SUFFICES ASSUME IInv, ReadInv, [Next]_vars PROVE ReadInv'
  OBVIOUS
<1>1. CASE UNCHANGED vars
  BY <1>1 DEF vars, ReadInv, DecodesToItsPixels
<1>2. ASSUME NEW c, Compress(c) PROVE ReadInv'
  BY <1>2, CompressReads
<1>3. ASSUME NEW c, Extend(c) PROVE ReadInv'
  BY <1>3, ExtendReads
<1>4. ASSUME NEW c, PutOut(c) PROVE ReadInv'
  BY <1>4, PutOutReads
<1>5. CASE Finish
  BY <1>5, FinishReads
<1> QED
  BY <1>1, <1>2, <1>3, <1>4, <1>5 DEF Next

\* compress, output, flush_char: whatever the frame, a reader of the format gets back from
\* the bytes the pixels that were given.
THEOREM ReadersGetThePixels == Spec => []DecodesToItsPixels
<1>1. Init => ReadInv
  BY InitRead
<1>2. IInv /\ ReadInv /\ [Next]_vars => ReadInv'
  BY NextReads
<1>3. ReadInv => DecodesToItsPixels
  BY DEF ReadInv
<1>4. Spec => []IInv
  BY Invariance
<1> QED
  BY <1>1, <1>2, <1>3, <1>4, PTL DEF Spec
=============================================================================
