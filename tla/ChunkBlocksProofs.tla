------------------------- MODULE ChunkBlocksProofs -------------------------
(* What cutting on chunk boundaries guarantees, for every selection.        *)
EXTENDS ChunkBlocks, WellFoundedInduction, TLAPS

-----------------------------------------------------------------------------
(* A set of naturals has a least member, which is how the proofs count      *)
(* along a sequence.                                                        *)
LEMMA LeastNumber ==
    ASSUME NEW S, S \subseteq Nat, S # {}
    PROVE  \E x \in S : \A y \in S : x <= y
<1> DEFINE R == OpToRel(<, Nat)
<1>1. IsWellFoundedOn(R, Nat)
  BY NatLessThanWellFounded, Zenon
<1>2. \A a, b \in Nat : a < b => <<a, b>> \in R
  BY DEF OpToRel
<1> HIDE DEF R
<1>3. PICK x \in S : \A y \in S : ~ (<<y, x>> \in R)
  BY <1>1, WFMin
<1>4. \A y \in S : x <= y
  <2> SUFFICES ASSUME NEW y \in S, ~ (x <= y) PROVE FALSE
    OBVIOUS
  <2>1. x \in Nat /\ y \in Nat /\ y < x
    OBVIOUS
  <2> QED
    BY <1>2, <1>3, <2>1
<1> QED
  BY <1>4

(* And one that is bounded a largest.                                       *)
LEMMA LargestExists ==
    ASSUME NEW S, S \subseteq Nat, S # {}, NEW b \in Nat, \A y \in S : y <= b
    PROVE  \E x \in S : \A y \in S : y <= x
<1> DEFINE T == {n \in Nat : \E y \in S : n = b - y}
<1>1. T \subseteq Nat /\ T # {}
  <2>1. PICK y \in S : y \in Nat /\ y <= b
    OBVIOUS
  <2>2. b - y \in T
    BY <2>1
  <2> QED
    BY <2>2
<1>2. PICK x \in T : \A y \in T : x <= y
  <2> HIDE DEF T
  <2> QED
    BY <1>1, LeastNumber
<1>3. PICK m \in S : x = b - m
  BY <1>2
<1>4. ASSUME NEW y \in S PROVE y <= m
  <2>1. b - y \in T
    OBVIOUS
  <2> QED
    BY <1>2, <1>3, <2>1
<1> QED
  BY <1>4

-----------------------------------------------------------------------------
(* Products and quotients keep order. *)

LEMMA TimesKeepsOrder ==
    ASSUME NEW a \in Nat, NEW b \in Nat, NEW c \in Nat, a <= b
    PROVE  a * c <= b * c
<1>1. b * c = a * c + (b - a) * c
  OBVIOUS
<1>2. (b - a) * c >= 0
  OBVIOUS
<1>3. QED
  BY <1>1, <1>2

LEMMA TimesOneMore == ASSUME NEW a \in Int, NEW b \in Int PROVE (a + 1) * b = a * b + b
OBVIOUS

(* A number lies between two multiples, of its quotient and of the next.    *)
LEMMA Quotient ==
    ASSUME NEW n \in Nat, NEW d \in Positive
    PROVE  /\ n \div d \in Nat
           /\ (n \div d) * d <= n
           /\ n < (n \div d + 1) * d
BY DEF Positive

LEMMA QuotientBelow ==
    ASSUME NEW n \in Nat, NEW d \in Positive, NEW q \in Nat
    PROVE  /\ n < q * d => n \div d < q
           /\ n >= q * d => n \div d >= q
<1>1. ASSUME n < q * d, n \div d >= q PROVE FALSE
  BY <1>1, Quotient, TimesKeepsOrder DEF Positive
<1>2. ASSUME n >= q * d, n \div d < q PROVE FALSE
  <2>1. (n \div d + 1) * d <= q * d
    BY <1>2, Quotient, TimesKeepsOrder DEF Positive
  <2>2. QED
    BY <1>2, <2>1, Quotient DEF Positive
<1>3. QED
  BY <1>1, <1>2, Quotient

LEMMA QuotientKeepsOrder ==
    ASSUME NEW a \in Nat, NEW b \in Nat, NEW d \in Positive, a <= b
    PROVE  a \div d <= b \div d
<1>1. a \div d \in Nat /\ (a \div d) * d <= a
  BY Quotient
<1>2. (a \div d) * d \in Nat
  BY <1>1 DEF Positive
<1>3. b >= (a \div d) * d
  BY <1>1, <1>2
<1>4. b \div d >= a \div d
  BY <1>1, <1>3, QuotientBelow
<1>5. QED
  BY <1>1, <1>4, Quotient

(* The quotient rounded up is the least whose multiple reaches the number.  *)
LEMMA RoundsUp ==
    ASSUME NEW n \in Nat, NEW d \in Positive
    PROVE  /\ RoundedUp(n, d) \in Nat
           /\ RoundedUp(n, d) * d >= n
           /\ n > 0 => RoundedUp(n, d) > 0 /\ (RoundedUp(n, d) - 1) * d < n
<1>1. n \div d \in Nat /\ n % d \in Nat /\ n = (n \div d) * d + (n % d) /\ n % d < d
  BY DEF Positive
<1>2. CASE n % d = 0
  <2>1. RoundedUp(n, d) = n \div d
    BY <1>1, <1>2 DEF RoundedUp
  <2>2. n = (n \div d) * d
    BY <1>1, <1>2 DEF Positive
  <2>3. (n \div d - 1) * d = (n \div d) * d - d
    BY <1>1 DEF Positive
  <2>4. n > 0 => n \div d > 0
    BY <1>1, <2>2 DEF Positive
  <2>5. QED
    BY <1>1, <2>1, <2>2, <2>3, <2>4 DEF Positive
<1>3. CASE n % d # 0
  <2>1. RoundedUp(n, d) = n \div d + 1
    BY <1>3 DEF RoundedUp
  <2>2. (n \div d + 1) * d = (n \div d) * d + d
    BY <1>1 DEF Positive
  <2>3. QED
    BY <1>1, <1>3, <2>1, <2>2 DEF Positive
<1>4. QED
  BY <1>2, <1>3

-----------------------------------------------------------------------------
(* Along a selection. *)

LEMMA ElementType ==
    ASSUME NEW axis \in Selection, NEW i \in Nat
    PROVE  /\ axis.start \in Nat /\ axis.stride \in Positive /\ axis.chunk \in Positive
           /\ ElementAt(axis, i) \in Nat
           /\ ChunkOf(axis, i) \in Nat
<1>1. axis.start \in Nat /\ axis.stride \in Positive /\ axis.chunk \in Positive
  BY DEF Selection
<1>2. i * axis.stride \in Nat
  BY <1>1 DEF Positive
<1>3. ElementAt(axis, i) \in Nat
  BY <1>1, <1>2 DEF ElementAt
<1>4. QED
  BY <1>1, <1>3, Quotient DEF ChunkOf

(* Later indices are in the same chunk or in a later one. *)
LEMMA ChunksInOrder ==
    ASSUME NEW axis \in Selection, NEW i \in Nat, NEW j \in Nat, i <= j
    PROVE  ElementAt(axis, i) <= ElementAt(axis, j) /\ ChunkOf(axis, i) <= ChunkOf(axis, j)
<1>1. i * axis.stride <= j * axis.stride
  BY ElementType, TimesKeepsOrder DEF Positive
<1>2. ElementAt(axis, i) <= ElementAt(axis, j)
  BY <1>1, ElementType DEF ElementAt, Positive
<1>3. QED
  BY <1>2, ElementType, QuotientKeepsOrder DEF ChunkOf

(* FirstAt is the first index at or after an element. *)
LEMMA FirstAtIsFirst ==
    ASSUME NEW axis \in Selection, NEW element \in Nat
    PROVE  /\ FirstAt(axis, element) \in Nat
           /\ ElementAt(axis, FirstAt(axis, element)) >= element
           /\ FirstAt(axis, element) > 0 =>
                ElementAt(axis, FirstAt(axis, element) - 1) < element
<1>1. CASE element <= axis.start
  BY <1>1, ElementType DEF FirstAt, ElementAt, Positive
<1>2. CASE element > axis.start
  <2> DEFINE away == element - axis.start
             r == RoundedUp(away, axis.stride)
  <2>1. away \in Nat /\ away > 0
    BY <1>2, ElementType
  <2>2. r \in Nat /\ r > 0 /\ r * axis.stride >= away /\ (r - 1) * axis.stride < away
    BY <2>1, ElementType, RoundsUp
  <2>3. FirstAt(axis, element) = r
    BY <1>2, ElementType DEF FirstAt
  <2> HIDE DEF r
  <2>4. r * axis.stride \in Nat /\ (r - 1) * axis.stride \in Nat
    BY <2>2, ElementType DEF Positive
  <2>5. QED
    BY <2>2, <2>3, <2>4, ElementType DEF ElementAt
<1>3. QED
  BY <1>1, <1>2, ElementType

(* A block cut by AlignedBlockEnd holds something, stays inside what is     *)
(* cut, and ends where no chunk has an index on both sides.                 *)
THEOREM BlockEndsBetweenChunks ==
    ASSUME NEW axis \in Selection, NEW total \in Nat, NEW first \in Nat, first < total,
           NEW desired \in Int
    PROVE  LET last == AlignedBlockEnd(first, desired, total, axis)
           IN  last \in first + 1 .. total /\ CutAt(axis, last, total)
<1> DEFINE target == Least(first + AtLeastOne(desired), total)
           k == ChunkOf(axis, target)
           down == FirstAt(axis, k * axis.chunk)
           up == FirstAt(axis, (k + 1) * axis.chunk)
           last == AlignedBlockEnd(first, desired, total, axis)
<1>1. target \in first + 1 .. total
  BY DEF Least, AtLeastOne
<1>2. k \in Nat /\ k * axis.chunk \in Nat /\ (k + 1) * axis.chunk \in Nat
  BY <1>1, ElementType DEF Positive
<1>3. /\ ElementAt(axis, target) < (k + 1) * axis.chunk
      /\ ElementAt(axis, target) >= k * axis.chunk
  BY <1>1, ElementType, Quotient DEF ChunkOf
<1>4. CASE target = total \/ ChunkOf(axis, target - 1) # k
  <2>1. last = target
    BY <1>4 DEF AlignedBlockEnd
  <2>2. QED
    BY <1>1, <1>4, <2>1 DEF CutAt
<1>5. CASE ~ (target = total \/ ChunkOf(axis, target - 1) # k) /\ down > first
  <2>1. last = down
    BY <1>5 DEF AlignedBlockEnd
  <2>2. /\ down \in Nat /\ ElementAt(axis, down) >= k * axis.chunk
        /\ ElementAt(axis, down - 1) < k * axis.chunk
    BY <1>2, <1>5, FirstAtIsFirst
  <2>3. down - 1 \in Nat /\ target - 1 \in Nat
    BY <1>1, <1>5, <2>2
  <2>4. down <= target
    <3>1. SUFFICES ASSUME down > target PROVE FALSE
      BY <1>1, <2>2
    <3>2. ElementAt(axis, target) <= ElementAt(axis, down - 1)
      BY <1>1, <2>2, <2>3, <3>1, ChunksInOrder
    <3>3. QED
      BY <1>1, <1>2, <1>3, <2>2, <2>3, <3>2, ElementType
  <2>5. ChunkOf(axis, down - 1) < k
    BY <1>2, <2>2, <2>3, ElementType, QuotientBelow DEF ChunkOf
  <2>6. ChunkOf(axis, down) >= k
    BY <1>2, <2>2, ElementType, QuotientBelow DEF ChunkOf
  <2>7. QED
    BY <1>1, <1>2, <1>5, <2>1, <2>2, <2>3, <2>4, <2>5, <2>6, ElementType DEF CutAt
<1>6. CASE ~ (target = total \/ ChunkOf(axis, target - 1) # k) /\ ~ down > first
  <2>1. last = Least(up, total)
    BY <1>6 DEF AlignedBlockEnd
  <2>2. up \in Nat /\ ElementAt(axis, up) >= (k + 1) * axis.chunk
    BY <1>2, FirstAtIsFirst
  <2>3. up > target
    <3>1. SUFFICES ASSUME up <= target PROVE FALSE
      BY <1>1, <2>2
    <3>2. ElementAt(axis, up) <= ElementAt(axis, target)
      BY <1>1, <2>2, <3>1, ChunksInOrder
    <3>3. QED
      BY <1>1, <1>2, <1>3, <2>2, <3>2, ElementType
  <2>4. up - 1 \in Nat /\ ElementAt(axis, up - 1) < (k + 1) * axis.chunk
    BY <1>1, <1>2, <2>2, <2>3, FirstAtIsFirst
  <2>5. ChunkOf(axis, up - 1) < k + 1
    BY <1>2, <2>4, ElementType, QuotientBelow DEF ChunkOf
  <2>6. ChunkOf(axis, up) >= k + 1
    BY <1>2, <2>2, ElementType, QuotientBelow DEF ChunkOf
  <2>7. last \in first + 1 .. total
    BY <1>1, <2>1, <2>2, <2>3 DEF Least
  <2>8. last = total \/ last = up
    BY <2>1 DEF Least
  <2>9. QED
    BY <1>2, <2>2, <2>4, <2>5, <2>6, <2>7, <2>8, ElementType DEF CutAt
<1>7. QED
  BY <1>4, <1>5, <1>6

(* Counting chunks over what is cut at such a place counts each chunk once: *)
(* the chunks of the two sides add up to the chunks of the whole.  This is  *)
(* what lets a walk count its progress a slab at a time.                    *)
THEOREM ChunksAddUp ==
    ASSUME NEW axis \in Selection, NEW a \in Nat, NEW b \in Nat, NEW c \in Nat,
           a < b, b < c, CutAt(axis, b, c)
    PROVE  ChunksTouched(axis, a, c) = ChunksTouched(axis, a, b) + ChunksTouched(axis, b, c)
<1>1. CASE axis.stride >= axis.chunk
  BY <1>1, ElementType DEF ChunksTouched, Positive
<1>2. CASE axis.stride < axis.chunk
  <2> DEFINE k == ChunkOf(axis, b - 1)
  <2>1. /\ b - 1 \in Nat /\ c - 1 \in Nat
        /\ k \in Nat /\ ChunkOf(axis, b) \in Nat /\ ChunkOf(axis, a) \in Nat
        /\ ChunkOf(axis, c - 1) \in Nat
    BY ElementType
  <2>2. k <= ChunkOf(axis, b) /\ k # ChunkOf(axis, b)
    BY <2>1, ChunksInOrder DEF CutAt
  <2>3. ElementAt(axis, b - 1) < (k + 1) * axis.chunk
    BY <2>1, ElementType, Quotient DEF ChunkOf
  <2>4. ElementAt(axis, b) = ElementAt(axis, b - 1) + axis.stride
    <3>1. b * axis.stride = (b - 1) * axis.stride + axis.stride
      BY <2>1, ElementType DEF Positive
    <3>2. (b - 1) * axis.stride \in Nat
      BY <2>1, ElementType DEF Positive
    <3>3. QED
      BY <3>1, <3>2, ElementType DEF ElementAt, Positive
  <2>5. (k + 2) * axis.chunk = (k + 1) * axis.chunk + axis.chunk
    <3>1. \A m, n \in Nat : (m + 2) * n = (m + 1) * n + n
      OBVIOUS
    <3>2. QED
      BY <2>1, <3>1, ElementType DEF Positive
  <2>6. (k + 1) * axis.chunk \in Nat
    BY <2>1, ElementType DEF Positive
  <2>7. ElementAt(axis, b) < (k + 2) * axis.chunk
    <3> HIDE DEF k
    <3>1. QED
      BY <1>2, <2>1, <2>3, <2>4, <2>5, <2>6, ElementType DEF Positive
  <2>8. ChunkOf(axis, b) < k + 2
    BY <2>1, <2>7, ElementType, QuotientBelow, SMTT(40) DEF ChunkOf
  <2>9. ChunkOf(axis, b) = k + 1
    BY <2>1, <2>2, <2>8
  <2>10. QED
    BY <1>2, <2>1, <2>9, ElementType DEF ChunksTouched, Positive
<1>3. QED
  BY <1>1, <1>2, ElementType DEF Positive

LEMMA ChunksTouchedType ==
    ASSUME NEW axis \in Selection, NEW a \in Nat, NEW b \in Nat, a <= b
    PROVE  ChunksTouched(axis, a, b) \in Nat
<1>1. CASE a = b
  BY <1>1 DEF ChunksTouched
<1>2. CASE a < b
  <2>1. b - 1 \in Nat /\ ChunkOf(axis, a) <= ChunkOf(axis, b - 1)
    BY <1>2, ChunksInOrder
  <2>2. QED
    BY <1>2, <2>1, ElementType DEF ChunksTouched
<1>3. QED
  BY <1>1, <1>2

-----------------------------------------------------------------------------
(* A sample of an axis. *)

LEMMA ReachedBy ==
    ASSUME NEW n \in Nat, NEW d \in Positive, NEW j \in Nat
    PROVE  j * d >= n <=> j >= RoundedUp(n, d)
<1>1. PICK r \in Nat : r = RoundedUp(n, d)
  BY RoundsUp
<1>2. r * d >= n /\ (n > 0 => r > 0 /\ (r - 1) * d < n)
  BY <1>1, RoundsUp
<1>3. j >= r => j * d >= r * d
  BY TimesKeepsOrder DEF Positive
<1>4. j < r => r - 1 \in Nat /\ j * d <= (r - 1) * d
  BY TimesKeepsOrder DEF Positive
<1>5. j * d \in Nat /\ r * d \in Nat /\ (r > 0 => (r - 1) * d \in Nat)
  BY DEF Positive
<1>6. ASSUME j < r PROVE j * d < n
  <2>1. n > 0
    <3>1. n = 0 => r = 0
      BY <1>1 DEF RoundedUp, Positive
    <3> QED
      BY <1>6, <3>1
  <2> QED
    BY <1>2, <1>4, <1>5, <1>6, <2>1
<1> QED
  BY <1>1, <1>2, <1>3, <1>5, <1>6

LEMMA Division ==
    ASSUME NEW n \in Nat, NEW d \in Positive
    PROVE  n \div d \in Nat /\ n % d \in Nat /\ n % d < d /\ n = (n \div d) * d + (n % d)
BY DEF Positive

LEMMA MultipleOf ==
    ASSUME NEW x \in Nat, NEW d \in Positive
    PROVE  /\ x % d = 0 => x \div d \in Nat /\ x = (x \div d) * d
           /\ \A j \in Nat : (j * d) % d = 0 /\ (j * d) \div d = j
<1>1. x % d = 0 => x \div d \in Nat /\ x = (x \div d) * d
  BY DEF Positive
<1>2. ASSUME NEW j \in Nat PROVE (j * d) % d = 0 /\ (j * d) \div d = j
  <2>1. PICK y \in Nat : y = j * d
    BY DEF Positive
  <2>2. PICK q \in Nat : q = y \div d
    BY <2>1, Quotient
  <2>3. q >= j /\ q < j + 1
    <3>1. (j + 1) * d = j * d + d
      BY DEF Positive
    <3>2. j * d < (j + 1) * d
      BY <2>1, <3>1 DEF Positive
    <3> QED
      BY <2>1, <2>2, <3>2, QuotientBelow
  <2>4. q = j
    BY <2>3
  <2>5. PICK r \in Nat : r = y % d /\ y = q * d + r
    BY <2>2, Division
  <2>6. r = 0
    BY <2>1, <2>4, <2>5 DEF Positive
  <2> QED
    BY <2>1, <2>2, <2>4, <2>5, <2>6
<1> QED
  BY <1>1, <1>2
=============================================================================
