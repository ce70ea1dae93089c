---------------------------- MODULE PiecesProofs ----------------------------
(* Proofs about Pieces, for every request, budget and size of a buffer: an  *)
(* ordinary read, however it is cut, puts every pixel where an uncut read   *)
(* would, and decodes each chunk once; and however the sample of a prefetch *)
(* is cut and its odometer turned, each chunk a read would decode is        *)
(* decoded once, and no other.                                              *)
EXTENDS Pieces, ChunkBlocksProofs, TLAPS

-----------------------------------------------------------------------------
(* A set of naturals that is bounded has a largest member. *)
LEMMA LargestNumber ==
    ASSUME NEW S, S \subseteq Nat, S # {}, NEW b \in Nat, \A y \in S : y <= b
    PROVE  Max(S) \in S /\ \A y \in S : y <= Max(S)
<1>1. PICK x \in S : \A y \in S : y <= x
  BY LargestExists
<1>2. \E z \in S : \A y \in S : z >= y
  BY <1>1
<1> QED
  BY <1>2 DEF Max

-----------------------------------------------------------------------------
(* Products.  What a product is computed by, up to the n-th factor.         *)
IsUpto(f, s, n) == f = [i \in 0 .. n |-> IF i = 0 THEN 1 ELSE s[i] * f[i - 1]]

LEMMA UptoExists == ASSUME NEW s, NEW n \in Nat PROVE \E f : IsUpto(f, s, n)
<1> DEFINE Bad == {m \in Nat : ~ \E f : IsUpto(f, s, m)}
<1> SUFFICES ASSUME Bad # {} PROVE FALSE
  OBVIOUS
<1>1. PICK x \in Bad : \A y \in Bad : x <= y
  <2>1. Bad \subseteq Nat
    OBVIOUS
  <2> HIDE DEF Bad
  <2> QED
    BY <2>1, LeastNumber
<1>2. x \in Nat /\ ~ \E f : IsUpto(f, s, x)
  BY <1>1
<1>3. x # 0
  <2>1. IsUpto([i \in 0 .. 0 |-> 1], s, 0)
    BY DEF IsUpto
  <2> QED
    BY <1>2, <2>1
<1>4. PICK g : IsUpto(g, s, x - 1)
  <2>1. x - 1 \in Nat /\ ~ (x <= x - 1)
    BY <1>2, <1>3
  <2> QED
    BY <1>1, <2>1
<1>5. PICK f : f = [i \in 0 .. x |-> IF i = x THEN s[x] * g[x - 1] ELSE g[i]]
  OBVIOUS
<1>6. g = [i \in 0 .. x - 1 |-> IF i = 0 THEN 1 ELSE s[i] * g[i - 1]]
  BY <1>4 DEF IsUpto
<1>7. \A i \in 0 .. x : f[i] = IF i = 0 THEN 1 ELSE s[i] * f[i - 1]
  <2> TAKE i \in 0 .. x
  <2>1. CASE i = x
    BY <1>2, <1>3, <1>5, <2>1
  <2>2. CASE i # x
    BY <1>2, <1>3, <1>5, <1>6, <2>2
  <2> QED
    BY <2>1, <2>2
<1>8. f = [i \in 0 .. x |-> IF i = 0 THEN 1 ELSE s[i] * f[i - 1]]
  BY <1>5, <1>7
<1> QED
  BY <1>2, <1>8 DEF IsUpto

LEMMA ProductUpto ==
    ASSUME NEW s, Len(s) \in Nat
    PROVE  \E f : IsUpto(f, s, Len(s)) /\ Product(s) = f[Len(s)]
<1>1. PICK f : f = CHOOSE g : IsUpto(g, s, Len(s))
  OBVIOUS
<1>2. IsUpto(f, s, Len(s))
  BY <1>1, UptoExists
<1>3. Product(s) = f[Len(s)]
  BY <1>1 DEF Product, IsUpto
<1> QED
  BY <1>2, <1>3

(* Two products with the same first factors agree up to there.              *)
LEMMA UptoAgree ==
    ASSUME NEW s, NEW t, NEW f, NEW g, NEW m \in Nat, NEW n \in Nat, NEW k \in Nat, k <= m, k <= n,
           IsUpto(f, s, m), IsUpto(g, t, n), \A i \in 1 .. k : s[i] = t[i]
    PROVE  \A i \in 0 .. k : f[i] = g[i]
<1> DEFINE Bad == {i \in 0 .. k : f[i] # g[i]}
<1> SUFFICES ASSUME Bad # {} PROVE FALSE
  OBVIOUS
<1>1. PICK x \in Bad : \A y \in Bad : x <= y
  <2>1. Bad \subseteq Nat
    OBVIOUS
  <2> HIDE DEF Bad
  <2> QED
    BY <2>1, LeastNumber
<1>2. /\ f[x] = IF x = 0 THEN 1 ELSE s[x] * f[x - 1]
      /\ g[x] = IF x = 0 THEN 1 ELSE t[x] * g[x - 1]
  BY <1>1 DEF IsUpto
<1>3. x # 0 => f[x - 1] = g[x - 1]
  <2> SUFFICES ASSUME x # 0 PROVE f[x - 1] = g[x - 1]
    OBVIOUS
  <2>1. x - 1 \in 0 .. k /\ ~ (x <= x - 1)
    BY <1>1
  <2> QED
    BY <1>1, <2>1
<1> QED
  BY <1>1, <1>2, <1>3

(* Products of naturals are naturals, and of positive numbers positive.     *)
LEMMA UptoWithin ==
    ASSUME NEW s, NEW n \in Nat, NEW f, IsUpto(f, s, n),
           NEW S, 1 \in S, \A a, b \in S : a * b \in S, \A i \in 1 .. n : s[i] \in S
    PROVE  f \in [0 .. n -> S]
<1> DEFINE Bad == {i \in 0 .. n : f[i] \notin S}
<1>1. ASSUME Bad # {} PROVE FALSE
  <2>1. PICK x \in Bad : \A y \in Bad : x <= y
    <3>1. Bad \subseteq Nat
      OBVIOUS
    <3> HIDE DEF Bad
    <3> QED
      BY <1>1, <3>1, LeastNumber
  <2>2. f[x] = IF x = 0 THEN 1 ELSE s[x] * f[x - 1]
    BY <2>1 DEF IsUpto
  <2>3. x # 0 => f[x - 1] \in S /\ s[x] \in S
    <3> SUFFICES ASSUME x # 0 PROVE f[x - 1] \in S /\ s[x] \in S
      OBVIOUS
    <3>1. x - 1 \in 0 .. n /\ ~ (x <= x - 1) /\ x \in 1 .. n
      BY <2>1
    <3> QED
      BY <2>1, <3>1
  <2> QED
    BY <2>1, <2>2, <2>3
<1> QED
  BY <1>1 DEF IsUpto

LEMMA ProductNat == ASSUME NEW s \in Seq(Nat) PROVE Product(s) \in Nat
<1>1. PICK f : IsUpto(f, s, Len(s)) /\ Product(s) = f[Len(s)]
  BY ProductUpto
<1>2. \A a, b \in Nat : a * b \in Nat
  OBVIOUS
<1>3. Len(s) \in Nat /\ \A i \in 1 .. Len(s) : s[i] \in Nat
  OBVIOUS
<1>4. 1 \in Nat
  OBVIOUS
<1>5. f \in [0 .. Len(s) -> Nat]
  BY <1>1, <1>2, <1>3, <1>4, UptoWithin, Zenon
<1> QED
  BY <1>1, <1>3, <1>5

LEMMA ProductPositive == ASSUME NEW s \in Seq(Positive) PROVE Product(s) \in Positive
<1>1. PICK f : IsUpto(f, s, Len(s)) /\ Product(s) = f[Len(s)]
  BY ProductUpto
<1>2. 1 \in Positive /\ \A a, b \in Positive : a * b \in Positive
  BY DEF Positive
<1>3. Len(s) \in Nat /\ \A i \in 1 .. Len(s) : s[i] \in Positive
  OBVIOUS
<1>4. f \in [0 .. Len(s) -> Positive]
  BY <1>1, <1>2, <1>3, UptoWithin, Zenon
<1> QED
  BY <1>1, <1>3, <1>4

(* The elements of the first axes of a request, one more axis at a time.    *)
Counts(ranges) == [i \in DOMAIN ranges |-> ranges[i].count]
Fills(f, ranges) ==
    /\ f \in [0 .. Len(ranges) -> Positive]
    /\ f[0] = 1
    /\ \A i \in 1 .. Len(ranges) : f[i] = ranges[i].count * f[i - 1]
    /\ Elements(ranges) = f[Len(ranges)]
    /\ \A k \in 0 .. Len(ranges) : Elements(SubSeq(ranges, 1, k)) = f[k]

LEMMA RangeFacts ==
    ASSUME NEW ranges \in Seq(Range1)
    PROVE  /\ DOMAIN ranges = 1 .. Len(ranges) /\ Len(ranges) \in Nat
           /\ \A i \in 1 .. Len(ranges) :
                /\ ranges[i] \in Range1
                /\ ranges[i].start \in Nat /\ ranges[i].count \in Positive /\ ranges[i].stride \in Positive
<1>1. \A i \in 1 .. Len(ranges) : ranges[i] \in Range1
  OBVIOUS
<1>2. \A x \in Range1 : x.start \in Nat /\ x.count \in Positive /\ x.stride \in Positive
  BY DEF Range1
<1> QED
  BY <1>1, <1>2

LEMMA CountsType ==
    ASSUME NEW ranges \in Seq(Range1)
    PROVE  Counts(ranges) \in Seq(Positive) /\ Len(Counts(ranges)) = Len(ranges)
<1>1. /\ DOMAIN ranges = 1 .. Len(ranges) /\ Len(ranges) \in Nat
      /\ \A i \in 1 .. Len(ranges) : ranges[i].count \in Positive
  BY RangeFacts
<1>2. Counts(ranges) = [i \in 1 .. Len(ranges) |-> ranges[i].count]
  BY <1>1 DEF Counts
<1>3. \A n \in Nat : \A f \in [1 .. n -> Positive] : f \in Seq(Positive) /\ Len(f) = n
  OBVIOUS
<1>4. Counts(ranges) \in [1 .. Len(ranges) -> Positive]
  BY <1>1, <1>2
<1> QED
  BY <1>1, <1>3, <1>4

LEMMA ElementsUpto == ASSUME NEW ranges \in Seq(Range1) PROVE \E f : Fills(f, ranges)
<1>0. Len(ranges) \in Nat
  OBVIOUS
<1>1. PICK f : IsUpto(f, Counts(ranges), Len(ranges)) /\ Product(Counts(ranges)) = f[Len(ranges)]
  BY CountsType, ProductUpto
<1>2. f \in [0 .. Len(ranges) -> Positive]
  <2>1. 1 \in Positive /\ \A a, b \in Positive : a * b \in Positive
    BY DEF Positive
  <2>2. \A i \in 1 .. Len(ranges) : Counts(ranges)[i] \in Positive
    BY CountsType
  <2> QED
    BY <1>0, <1>1, <2>1, <2>2, UptoWithin
<1>3. f[0] = 1 /\ \A i \in 1 .. Len(ranges) : f[i] = ranges[i].count * f[i - 1]
  <2>1. \A i \in 1 .. Len(ranges) : Counts(ranges)[i] = ranges[i].count
    BY DEF Counts
  <2>2. \A i \in 0 .. Len(ranges) : f[i] = IF i = 0 THEN 1 ELSE Counts(ranges)[i] * f[i - 1]
    BY <1>1 DEF IsUpto
  <2> QED
    BY <1>0, <2>1, <2>2
<1>4. ASSUME NEW k \in 0 .. Len(ranges) PROVE Elements(SubSeq(ranges, 1, k)) = f[k]
  <2>1. PICK t : t = SubSeq(ranges, 1, k)
    OBVIOUS
  <2>2. t \in Seq(Range1) /\ Len(t) = k /\ \A i \in 1 .. k : t[i] = ranges[i]
    BY <2>1
  <2>3. PICK g : IsUpto(g, Counts(t), k) /\ Product(Counts(t)) = g[k]
    BY <2>2, CountsType, ProductUpto
  <2>4. \A i \in 1 .. k : Counts(t)[i] = Counts(ranges)[i]
    BY <2>2 DEF Counts
  <2>5. k \in Nat /\ k <= Len(ranges)
    OBVIOUS
  <2>6. \A i \in 0 .. k : g[i] = f[i]
    BY <1>0, <1>1, <2>3, <2>4, <2>5, UptoAgree, SMTT(40)
  <2>7. g[k] = f[k]
    BY <2>5, <2>6
  <2> QED
    BY <2>1, <2>3, <2>7 DEF Elements, Counts
<1>5. Elements(ranges) = f[Len(ranges)]
  BY <1>1 DEF Elements, Counts
<1> QED
  BY <1>2, <1>3, <1>4, <1>5 DEF Fills

(* The elements of some of the first axes divide those of more of them.     *)
LEMMA FillsDivide ==
    ASSUME NEW ranges \in Seq(Range1), NEW f, Fills(f, ranges), NEW i \in 0 .. Len(ranges)
    PROVE  \A k \in i .. Len(ranges) : \E m \in Positive : f[k] = m * f[i]
<1> DEFINE Bad == {k \in i .. Len(ranges) : ~ \E m \in Positive : f[k] = m * f[i]}
<1> SUFFICES ASSUME Bad # {} PROVE FALSE
  OBVIOUS
<1>0. f[i] \in Nat
  BY DEF Fills, Positive
<1>1. PICK x \in Bad : \A y \in Bad : x <= y
  <2>1. Bad \subseteq Nat
    OBVIOUS
  <2> HIDE DEF Bad
  <2> QED
    BY <2>1, LeastNumber
<1>2. x # i
  <2>1. f[i] = 1 * f[i] /\ 1 \in Positive
    BY <1>0 DEF Positive
  <2> QED
    BY <1>1, <2>1
<1>3. x - 1 \in i .. Len(ranges) /\ x \in 1 .. Len(ranges) /\ ~ (x <= x - 1)
  BY <1>1, <1>2
<1>4. PICK m \in Positive : f[x - 1] = m * f[i]
  BY <1>1, <1>3
<1>5. f[x] = ranges[x].count * f[x - 1] /\ ranges[x].count \in Positive
  BY <1>3, RangeFacts DEF Fills
<1>6. \A a, b \in Positive, c \in Nat : a * b \in Positive /\ a * (b * c) = (a * b) * c
  BY DEF Positive
<1>7. PICK c \in Positive : c = ranges[x].count
  BY <1>5
<1>8. c * m \in Positive /\ f[x] = (c * m) * f[i]
  BY <1>0, <1>4, <1>5, <1>6, <1>7
<1>9. \E n \in Positive : f[x] = n * f[i]
  BY <1>8
<1> QED
  BY <1>1, <1>9

-----------------------------------------------------------------------------
(* Quotients and remainders of a shifted number.                            *)
LEMMA DivShift ==
    ASSUME NEW d \in Positive, NEW q \in Nat, NEW x \in Nat
    PROVE  (q * d + x) \div d = q + x \div d
<1>1. x \div d \in Nat /\ (x \div d) * d <= x /\ x < (x \div d + 1) * d
  BY Quotient
<1>2. PICK y \in Nat : y = x \div d
  BY <1>1
<1>3. q * d + x \in Nat /\ q + y \in Nat /\ d \in Nat
  BY DEF Positive
<1>4. (q + y) * d = q * d + y * d /\ (q + y + 1) * d = q * d + (y + 1) * d
  BY <1>3
<1>5. q * d \in Nat /\ y * d \in Nat /\ (y + 1) * d \in Nat
  BY <1>3
<1>6. q * d + x >= (q + y) * d /\ q * d + x < (q + y + 1) * d
  BY <1>1, <1>2, <1>4, <1>5
<1>7. (q * d + x) \div d >= q + y /\ (q * d + x) \div d < q + y + 1
  BY <1>3, <1>6, QuotientBelow
<1>8. (q * d + x) \div d \in Nat
  BY <1>3, Quotient
<1> QED
  BY <1>2, <1>3, <1>7, <1>8

LEMMA ModShift ==
    ASSUME NEW c \in Positive, NEW q \in Nat, NEW y \in Nat
    PROVE  (q * c + y) % c = y % c
<1>1. \A n \in Nat : n \div c \in Nat /\ n % c \in Nat /\ n = (n \div c) * c + (n % c)
  BY DEF Positive
<1>2. PICK n \in Nat : n = q * c + y
  BY DEF Positive
<1>3. n \div c = q + y \div c
  BY <1>2, DivShift
<1>4. (q + y \div c) * c = q * c + (y \div c) * c
  BY <1>1 DEF Positive
<1>5. q * c \in Nat /\ (y \div c) * c \in Nat
  BY <1>1 DEF Positive
<1> QED
  BY <1>1, <1>2, <1>3, <1>4, <1>5

LEMMA ModSmall ==
    ASSUME NEW c \in Positive, NEW y \in Nat, y < c PROVE y % c = y
BY DEF Positive

-----------------------------------------------------------------------------
(* The part [b, e) of a request along an axis a, as PlanPieces cuts it.     *)
Part(ranges, a, b, e) ==
    [i \in DOMAIN ranges |->
       IF i # a THEN ranges[i]
       ELSE [start |-> ranges[i].start + b * ranges[i].stride, count |-> e - b,
             stride |-> ranges[i].stride]]

LEMMA PartType ==
    ASSUME NEW ranges \in Seq(Range1), NEW a \in 1 .. Len(ranges), NEW b \in Nat, NEW e \in Nat, b < e
    PROVE  /\ Part(ranges, a, b, e) \in Seq(Range1) /\ Len(Part(ranges, a, b, e)) = Len(ranges)
           /\ \A i \in 1 .. Len(ranges) : i # a => Part(ranges, a, b, e)[i] = ranges[i]
           /\ Part(ranges, a, b, e)[a].start = ranges[a].start + b * ranges[a].stride
           /\ Part(ranges, a, b, e)[a].count = e - b
           /\ Part(ranges, a, b, e)[a].stride = ranges[a].stride
<1>1. DOMAIN ranges = 1 .. Len(ranges) /\ Len(ranges) \in Nat /\ \A i \in 1 .. Len(ranges) : ranges[i] \in Range1
  OBVIOUS
<1>2. PICK x : x = [start |-> ranges[a].start + b * ranges[a].stride, count |-> e - b, stride |-> ranges[a].stride]
  OBVIOUS
<1>3. x \in Range1
  <2>1. ranges[a].start \in Nat /\ ranges[a].stride \in Positive
    BY <1>1 DEF Range1
  <2>2. PICK s \in Nat, t \in Nat : s = ranges[a].start /\ t = ranges[a].stride
    BY <2>1 DEF Positive
  <2>3. s + b * t \in Nat
    OBVIOUS
  <2>4. e - b \in Positive
    BY DEF Positive
  <2>5. ranges[a].start + b * ranges[a].stride \in Nat
    BY <2>2, <2>3, Zenon
  <2> QED
    BY <1>2, <2>1, <2>4, <2>5 DEF Range1
<1>4. PICK p : p = [i \in 1 .. Len(ranges) |-> IF i # a THEN ranges[i] ELSE x]
  OBVIOUS
<1>5. p = Part(ranges, a, b, e)
  BY <1>1, <1>2, <1>4 DEF Part
<1>6. p \in [1 .. Len(ranges) -> Range1]
  BY <1>1, <1>3, <1>4
<1>7. \A n \in Nat : \A g \in [1 .. n -> Range1] : g \in Seq(Range1) /\ Len(g) = n
  OBVIOUS
<1>8. p \in Seq(Range1) /\ Len(p) = Len(ranges)
  BY <1>1, <1>6, <1>7
<1>9. (\A i \in 1 .. Len(ranges) : i # a => p[i] = ranges[i]) /\ p[a] = x
  BY <1>4
<1> QED
  BY <1>2, <1>5, <1>8, <1>9

(* Axes of one element add nothing, and the elements of the first axes are  *)
(* what those axes say.                                                     *)
LEMMA FillsOnes ==
    ASSUME NEW ranges \in Seq(Range1), NEW f, Fills(f, ranges), NEW a \in 0 .. Len(ranges),
           \A i \in a + 1 .. Len(ranges) : ranges[i].count = 1
    PROVE  f[Len(ranges)] = f[a]
<1> DEFINE Bad == {k \in a .. Len(ranges) : f[k] # f[a]}
<1>0. Bad \subseteq Nat /\ Len(ranges) \in Nat
  OBVIOUS
<1>1. ASSUME Bad # {} PROVE FALSE
  <2>1. PICK x \in Bad : \A y \in Bad : x <= y
    <3> HIDE DEF Bad
    <3> QED
      BY <1>0, <1>1, LeastNumber
  <2>2. x - 1 \in a .. Len(ranges) /\ x \in a + 1 .. Len(ranges) /\ x \in 1 .. Len(ranges) /\ ~ (x <= x - 1)
    BY <2>1
  <2>3. f[x - 1] = f[a]
    BY <2>1, <2>2
  <2>4. f[x] = 1 * f[x - 1] /\ f[a] \in Nat
    BY <2>2 DEF Fills, Positive
  <2> QED
    BY <2>1, <2>3, <2>4
<1> QED
  BY <1>0, <1>1

LEMMA FillsAgree ==
    ASSUME NEW ranges \in Seq(Range1), NEW part \in Seq(Range1), NEW f, NEW g,
           Fills(f, ranges), Fills(g, part), Len(part) = Len(ranges), NEW a \in 0 .. Len(ranges),
           \A i \in 1 .. a : part[i] = ranges[i]
    PROVE  \A k \in 0 .. a : g[k] = f[k]
<1> DEFINE Bad == {k \in 0 .. a : f[k] # g[k]}
<1>0. Bad \subseteq Nat /\ Len(ranges) \in Nat
  OBVIOUS
<1>1. ASSUME Bad # {} PROVE FALSE
  <2>1. PICK x \in Bad : \A y \in Bad : x <= y
    <3> HIDE DEF Bad
    <3> QED
      BY <1>0, <1>1, LeastNumber
  <2>2. CASE x = 0
    BY <2>1, <2>2 DEF Fills
  <2>3. CASE x # 0
    <3>1. x - 1 \in 0 .. a /\ x \in 1 .. a /\ x \in 1 .. Len(ranges) /\ ~ (x <= x - 1)
      BY <2>1, <2>3
    <3>2. f[x - 1] = g[x - 1]
      BY <2>1, <3>1
    <3> QED
      BY <2>1, <3>1, <3>2 DEF Fills
  <2> QED
    BY <2>2, <2>3
<1> QED
  BY <1>1

(* The pixels of a request, by what its first axes hold.                    *)
LEMMA PixelIs ==
    ASSUME NEW ranges \in Seq(Range1), NEW f, Fills(f, ranges)
    PROVE  /\ DOMAIN Pixels(ranges) = 0 .. f[Len(ranges)] - 1
           /\ \A e \in 0 .. f[Len(ranges)] - 1 :
                Pixels(ranges)[e] =
                  [i \in DOMAIN ranges |->
                     ranges[i].start + ranges[i].stride * ((e \div f[i - 1]) % ranges[i].count)]
<1>1. /\ DOMAIN ranges = 1 .. Len(ranges) /\ Len(ranges) \in Nat
      /\ Elements(ranges) = f[Len(ranges)]
      /\ \A k \in 0 .. Len(ranges) : Elements(SubSeq(ranges, 1, k)) = f[k]
  BY RangeFacts DEF Fills
<1>2. \A i \in 1 .. Len(ranges) : i - 1 \in 0 .. Len(ranges)
  BY <1>1
<1>3. \A i \in DOMAIN ranges : Elements(SubSeq(ranges, 1, i - 1)) = f[i - 1]
  BY <1>1, <1>2
<1>4. PICK each : each = [i \in DOMAIN ranges |-> Elements(SubSeq(ranges, 1, i - 1))]
  OBVIOUS
<1>5. \A i \in DOMAIN ranges : each[i] = f[i - 1]
  BY <1>3, <1>4
<1>6. Pixels(ranges) = [e \in 0 .. f[Len(ranges)] - 1 |->
           [i \in DOMAIN ranges |->
              ranges[i].start + ranges[i].stride * ((e \div each[i]) % ranges[i].count)]]
  BY <1>1, <1>4 DEF Pixels
<1> QED
  BY <1>5, <1>6

(* A part of a request along its slowest axis of more than one element is a *)
(* run of the whole request's pixels, as many as a unit holds from each.    *)
LEMMA PartElements ==
    ASSUME NEW ranges \in Seq(Range1), NEW a \in 1 .. Len(ranges), NEW b \in Nat, NEW e \in Nat,
           b < e, e <= ranges[a].count, \A i \in a + 1 .. Len(ranges) : ranges[i].count = 1
    PROVE  /\ ElementsPerUnit(ranges, a) \in Positive
           /\ Elements(ranges) = ranges[a].count * ElementsPerUnit(ranges, a)
           /\ Elements(Part(ranges, a, b, e)) = (e - b) * ElementsPerUnit(ranges, a)
           /\ \A f, g : Fills(f, ranges) /\ Fills(g, Part(ranges, a, b, e)) =>
                \A k \in 0 .. a - 1 : f[k] = g[k] /\ f[a - 1] = ElementsPerUnit(ranges, a)
<1>0. a - 1 \in 0 .. Len(ranges) /\ a \in 0 .. Len(ranges) /\ a - 1 \in 0 .. a - 1
  OBVIOUS
<1>1. PICK p : p = Part(ranges, a, b, e)
  OBVIOUS
<1>2. /\ p \in Seq(Range1) /\ Len(p) = Len(ranges) /\ p[a].count = e - b
      /\ \A i \in 1 .. Len(ranges) : i # a => p[i] = ranges[i]
  BY <1>1, PartType
<1>3. \A f, g : Fills(f, ranges) /\ Fills(g, p) => \A k \in 0 .. a - 1 : g[k] = f[k]
  <2> SUFFICES ASSUME NEW f, NEW g, Fills(f, ranges), Fills(g, p) PROVE \A k \in 0 .. a - 1 : g[k] = f[k]
    OBVIOUS
  <2>1. \A i \in 1 .. a - 1 : p[i] = ranges[i]
    BY <1>2
  <2> QED
    <3>1. PICK n \in 0 .. Len(ranges) : n = a - 1
      BY <1>0
    <3>2. \A i \in 1 .. n : p[i] = ranges[i]
      BY <2>1, <3>1
    <3>3. \A k \in 0 .. n : g[k] = f[k]
      BY <1>2, <3>2, FillsAgree
    <3> QED
      BY <3>1, <3>3
<1>4. \A f : Fills(f, ranges) => f[a - 1] = ElementsPerUnit(ranges, a)
  BY <1>0 DEF Fills, ElementsPerUnit
<1>5. PICK f : Fills(f, ranges)
  BY ElementsUpto
<1>6. PICK g : Fills(g, p)
  BY <1>2, ElementsUpto
<1>7. f[Len(ranges)] = f[a]
  BY <1>0, <1>5, FillsOnes
<1>8. g[Len(p)] = g[a]
  <2>1. \A i \in a + 1 .. Len(p) : p[i].count = 1
    BY <1>2
  <2> QED
    BY <1>0, <1>2, <1>6, <2>1, FillsOnes
<1>9. f[a] = ranges[a].count * f[a - 1] /\ g[a] = (e - b) * g[a - 1] /\ f[a - 1] \in Positive
  BY <1>0, <1>2, <1>5, <1>6 DEF Fills
<1>10. Elements(ranges) = f[Len(ranges)] /\ Elements(p) = g[Len(p)] /\ g[a - 1] = f[a - 1]
  BY <1>0, <1>3, <1>5, <1>6 DEF Fills
<1> QED
  BY <1>1, <1>3, <1>4, <1>5, <1>7, <1>8, <1>9, <1>10

LEMMA PartPixel ==
    ASSUME NEW ranges \in Seq(Range1), NEW a \in 1 .. Len(ranges), NEW b \in Nat, NEW e \in Nat,
           b < e, e <= ranges[a].count, \A i \in a + 1 .. Len(ranges) : ranges[i].count = 1,
           NEW x \in 0 .. (e - b) * ElementsPerUnit(ranges, a) - 1
    PROVE  /\ b * ElementsPerUnit(ranges, a) + x \in DOMAIN Pixels(ranges)
           /\ x \in DOMAIN Pixels(Part(ranges, a, b, e))
           /\ Pixels(Part(ranges, a, b, e))[x] = Pixels(ranges)[b * ElementsPerUnit(ranges, a) + x]
           /\ Pixels(Part(ranges, a, b, e))[x][a] =
                ranges[a].start + (b + x \div ElementsPerUnit(ranges, a)) * ranges[a].stride
<1>0. /\ DOMAIN ranges = 1 .. Len(ranges) /\ Len(ranges) \in Nat
      /\ ranges[a].count \in Nat /\ ranges[a].start \in Nat /\ ranges[a].stride \in Nat
  BY RangeFacts DEF Positive
<1>1. PICK p : p = Part(ranges, a, b, e)
  OBVIOUS
<1>2. /\ p \in Seq(Range1) /\ Len(p) = Len(ranges) /\ DOMAIN p = 1 .. Len(ranges)
      /\ \A i \in 1 .. Len(ranges) : i # a => p[i] = ranges[i]
      /\ p[a].start = ranges[a].start + b * ranges[a].stride
      /\ p[a].count = e - b /\ p[a].stride = ranges[a].stride
  BY <1>1, PartType, RangeFacts
<1>3. PICK U \in Positive : U = ElementsPerUnit(ranges, a)
  BY PartElements
<1>4. PICK f : Fills(f, ranges)
  BY ElementsUpto
<1>5. PICK g : Fills(g, p)
  BY <1>2, ElementsUpto
<1>6. /\ f[Len(ranges)] = ranges[a].count * U /\ g[Len(p)] = (e - b) * U
      /\ \A k \in 0 .. a - 1 : f[k] = g[k] /\ f[a - 1] = U
  <2>1. /\ Elements(ranges) = ranges[a].count * U /\ Elements(p) = (e - b) * U
        /\ \A h, l : Fills(h, ranges) /\ Fills(l, p) => \A k \in 0 .. a - 1 : h[k] = l[k] /\ h[a - 1] = U
    <3>1. /\ Elements(ranges) = ranges[a].count * ElementsPerUnit(ranges, a)
          /\ Elements(Part(ranges, a, b, e)) = (e - b) * ElementsPerUnit(ranges, a)
          /\ \A h, l : Fills(h, ranges) /\ Fills(l, Part(ranges, a, b, e)) =>
                \A k \in 0 .. a - 1 : h[k] = l[k] /\ h[a - 1] = ElementsPerUnit(ranges, a)
      BY PartElements
    <3> QED
      BY <1>1, <1>3, <3>1, Zenon
  <2>2. Elements(ranges) = f[Len(ranges)] /\ Elements(p) = g[Len(p)]
    BY <1>4, <1>5 DEF Fills
  <2>3. \A k \in 0 .. a - 1 : f[k] = g[k] /\ f[a - 1] = U
    BY <1>4, <1>5, <2>1
  <2> QED
    BY <2>1, <2>2, <2>3
<1>7. f[a - 1] = U /\ g[a - 1] = U
  <2>1. a - 1 \in 0 .. a - 1
    OBVIOUS
  <2> QED
    BY <1>6, <2>1
<1>8. x \in 0 .. (e - b) * U - 1
  BY <1>3
<1>9. PICK y : y = b * U + x
  OBVIOUS
<1>10. /\ x \in Nat /\ y \in Nat /\ y \in 0 .. ranges[a].count * U - 1
       /\ x \div U \in 0 .. e - b - 1 /\ y \div U = b + x \div U
  <2>1. PICK n \in Nat : n = ranges[a].count
    BY <1>0
  <2>2. x \in Nat /\ x < (e - b) * U /\ e <= n
    BY <1>8, <2>1 DEF Positive
  <2>3. U \in Nat /\ e - b \in Nat
    BY DEF Positive
  <2>4. b * U \in Nat /\ (e - b) * U \in Nat /\ n * U \in Nat /\ e * U \in Nat
    BY <2>3
  <2>5. e * U <= n * U
    BY <2>2, <2>3, TimesKeepsOrder
  <2>6. e * U = b * U + (e - b) * U
    BY <2>3
  <2>7. b * U + x \in Nat /\ b * U + x < n * U
    BY <2>2, <2>4, <2>5, <2>6
  <2>8. x \div U \in Nat /\ x \div U < e - b
    BY <2>2, <2>3, <2>4, Quotient, QuotientBelow
  <2>9. (b * U + x) \div U = b + x \div U
    BY <2>2, DivShift
  <2>10. PICK w \in Nat : w = n * U
    BY <2>4
  <2>11. PICK q \in Nat : q = x \div U
    BY <2>8
  <2>12. y \in 0 .. w - 1 /\ q \in 0 .. e - b - 1
    BY <1>9, <2>7, <2>8, <2>10, <2>11
  <2> QED
    BY <1>9, <2>1, <2>2, <2>7, <2>9, <2>10, <2>11, <2>12
<1>11. ASSUME NEW i \in 1 .. Len(ranges)
       PROVE  p[i].start + p[i].stride * ((x \div g[i - 1]) % p[i].count)
                = ranges[i].start + ranges[i].stride * ((y \div f[i - 1]) % ranges[i].count)
  <2>1. CASE i = a
    <3>1. (x \div U) % (e - b) = x \div U /\ (y \div U) % ranges[a].count = b + x \div U
      <4>1. e - b \in Positive /\ ranges[a].count \in Positive
        BY <1>0 DEF Positive
      <4>2. x \div U \in Nat /\ x \div U < e - b /\ b + x \div U \in Nat /\ b + x \div U < ranges[a].count
        BY <1>0, <1>10, SMTT(40)
      <4> QED
        BY <1>10, <4>1, <4>2, ModSmall
    <3>2. PICK q \in Nat : q = x \div U
      BY <1>10
    <3>3. \A s, t \in Nat : (s + b * t) + t * q = s + t * (b + q)
      OBVIOUS
    <3>4. PICK s \in Nat, t \in Nat : s = ranges[a].start /\ t = ranges[a].stride
      BY <1>0
    <3>5. p[i].start = s + b * t /\ p[i].stride = t /\ p[i].count = e - b
      BY <1>2, <2>1, <3>4
    <3>6. p[i].start + p[i].stride * ((x \div g[i - 1]) % p[i].count) = (s + b * t) + t * q
      BY <1>7, <2>1, <3>1, <3>2, <3>5
    <3>7. ranges[i].start + ranges[i].stride * ((y \div f[i - 1]) % ranges[i].count) = s + t * (b + q)
      BY <1>7, <2>1, <3>1, <3>2, <3>4
    <3> QED
      BY <3>3, <3>6, <3>7
  <2>2. CASE i < a
    <3>1. i - 1 \in 0 .. a - 1 /\ i \in 1 .. a - 1 /\ i \in 0 .. Len(ranges) /\ a - 1 \in i .. Len(ranges)
      BY <2>2
    <3>2. PICK d \in Positive : d = f[i - 1] /\ d = g[i - 1]
      <4>1. f[i - 1] = g[i - 1]
        BY <1>6, <3>1
      <4>2. i - 1 \in 0 .. Len(ranges)
        OBVIOUS
      <4>3. f[i - 1] \in Positive
        BY <1>4, <4>2 DEF Fills
      <4> QED
        BY <4>1, <4>3
    <3>3. PICK c \in Positive : c = ranges[i].count /\ f[i] = c * d
      BY <1>4, <3>2, RangeFacts DEF Fills
    <3>4. PICK m \in Positive : U = m * (c * d)
      BY <1>4, <1>7, <3>1, <3>3, FillsDivide
    <3>5. PICK q \in Nat : q = b * m
      BY DEF Positive
    <3>6. y = (q * c) * d + x
      <4>1. \A k, l, r, t \in Nat : k * (l * (r * t)) = ((k * l) * r) * t
        OBVIOUS
      <4>2. b * (m * (c * d)) = ((b * m) * c) * d
        BY <4>1 DEF Positive
      <4> QED
        BY <1>9, <3>4, <3>5, <4>2
    <3>7. q * c \in Nat /\ x \div d \in Nat
      <4>1. q * c \in Nat
        BY DEF Positive
      <4>2. x \div d \in Nat
        BY <1>10, Quotient
      <4> QED
        BY <4>1, <4>2
    <3>8. y \div d = q * c + x \div d
      BY <1>10, <3>6, <3>7, DivShift
    <3>9. (y \div d) % c = (x \div d) % c
      BY <3>7, <3>8, ModShift
    <3> QED
      BY <1>2, <2>2, <3>2, <3>3, <3>9
  <2>3. CASE i > a
    <3>1. i - 1 \in 0 .. Len(ranges) /\ p[i] = ranges[i] /\ ranges[i].count = 1
      BY <1>2, <2>3
    <3>2. f[i - 1] \in Positive /\ g[i - 1] \in Positive
      BY <1>2, <1>4, <1>5, <3>1 DEF Fills
    <3>3. x \div g[i - 1] \in Nat /\ y \div f[i - 1] \in Nat
      BY <1>10, <3>2, Quotient
    <3>4. \A n \in Nat : n % 1 = 0
      OBVIOUS
    <3> QED
      BY <3>1, <3>3, <3>4
  <2> QED
    BY <2>1, <2>2, <2>3
<1>12. /\ x \in DOMAIN Pixels(p)
       /\ Pixels(p)[x] = [i \in 1 .. Len(ranges) |->
                            p[i].start + p[i].stride * ((x \div g[i - 1]) % p[i].count)]
  <2>1. x \in 0 .. g[Len(p)] - 1
    BY <1>6, <1>8
  <2> QED
    <3>1. /\ DOMAIN Pixels(p) = 0 .. g[Len(p)] - 1
          /\ Pixels(p)[x] = [i \in DOMAIN p |-> p[i].start + p[i].stride * ((x \div g[i - 1]) % p[i].count)]
      BY <1>2, <1>5, <2>1, PixelIs, Zenon
    <3> QED
      BY <1>2, <2>1, <3>1, Zenon
<1>13. /\ y \in DOMAIN Pixels(ranges)
       /\ Pixels(ranges)[y] = [i \in 1 .. Len(ranges) |->
                            ranges[i].start + ranges[i].stride * ((y \div f[i - 1]) % ranges[i].count)]
  <2>1. y \in 0 .. f[Len(ranges)] - 1
    BY <1>6, <1>10
  <2> QED
    <3>1. /\ DOMAIN Pixels(ranges) = 0 .. f[Len(ranges)] - 1
          /\ Pixels(ranges)[y] = [i \in DOMAIN ranges |->
                ranges[i].start + ranges[i].stride * ((y \div f[i - 1]) % ranges[i].count)]
      BY <1>4, <2>1, PixelIs, Zenon
    <3> QED
      BY <1>0, <2>1, <3>1, Zenon
<1>14. Pixels(p)[x] = Pixels(ranges)[y]
  BY <1>11, <1>12, <1>13
<1>15. Pixels(p)[x][a] = ranges[a].start + (b + x \div U) * ranges[a].stride
  <2>1. (y \div U) % ranges[a].count = b + x \div U
    <3>1. PICK c \in Nat : c = ranges[a].count
      BY <1>0
    <3>2. PICK q \in 0 .. e - b - 1 : q = x \div U
      BY <1>10
    <3>3. c \in Positive /\ b + q \in Nat /\ b + q < c
      BY <3>1, <3>2 DEF Positive
    <3>4. (b + q) % c = b + q
      BY <3>3, ModSmall
    <3> QED
      BY <1>10, <3>1, <3>2, <3>4, Zenon
  <2>2. Pixels(p)[x][a] = ranges[a].start + ranges[a].stride * (b + x \div U)
    BY <1>7, <1>13, <1>14, <2>1
  <2>3. PICK q \in Nat : q = b + x \div U
    BY <1>10
  <2>4. ranges[a].stride * q = q * ranges[a].stride
    BY <1>0
  <2> QED
    BY <2>2, <2>3, <2>4
<1> QED
  BY <1>1, <1>3, <1>9, <1>12, <1>13, <1>14, <1>15

(* The chunks of a part are those its pixels are in, which along the axis   *)
(* it was cut on are the chunks of its units.                               *)
Along(ranges, shape, a) == [start |-> ranges[a].start, stride |-> ranges[a].stride, chunk |-> shape[a]]
ChunkHolding(ranges, shape, e) == [i \in DOMAIN ranges |-> Pixels(ranges)[e][i] \div shape[i]]

LEMMA PartChunks ==
    ASSUME NEW ranges \in Seq(Range1), NEW shape \in Seq(Positive), NEW a \in 1 .. Len(ranges), NEW b \in Nat, NEW e \in Nat,
           b < e, e <= ranges[a].count, \A i \in a + 1 .. Len(ranges) : ranges[i].count = 1
    PROVE  /\ ChunksOf(Part(ranges, a, b, e), shape) =
                {ChunkHolding(ranges, shape, b * ElementsPerUnit(ranges, a) + x) :
                   x \in 0 .. (e - b) * ElementsPerUnit(ranges, a) - 1}
           /\ \A x \in 0 .. (e - b) * ElementsPerUnit(ranges, a) - 1 :
                \E i \in b .. e - 1 :
                  ChunkHolding(ranges, shape, b * ElementsPerUnit(ranges, a) + x)[a] =
                    ChunkOf(Along(ranges, shape, a), i)
<1>0. DOMAIN ranges = 1 .. Len(ranges)
  BY RangeFacts
<1>1. PICK p : p = Part(ranges, a, b, e)
  OBVIOUS
<1>2. p \in Seq(Range1) /\ DOMAIN p = DOMAIN ranges
  BY <1>0, <1>1, PartType, RangeFacts
<1>3. PICK U \in Positive : U = ElementsPerUnit(ranges, a)
  BY PartElements
<1>4. \A x \in 0 .. (e - b) * U - 1 :
        /\ x \in DOMAIN Pixels(p) /\ Pixels(p)[x] = Pixels(ranges)[b * U + x]
        /\ Pixels(p)[x][a] = ranges[a].start + (b + x \div U) * ranges[a].stride
  BY <1>1, <1>3, PartPixel
<1>5. DOMAIN Pixels(p) = 0 .. (e - b) * U - 1
  <2>1. PICK g : Fills(g, p)
    BY <1>2, ElementsUpto
  <2>2. g[Len(p)] = (e - b) * U
    <3>1. Elements(Part(ranges, a, b, e)) = (e - b) * ElementsPerUnit(ranges, a)
      BY PartElements
    <3> QED
      BY <1>1, <1>3, <2>1, <3>1 DEF Fills
  <2>3. DOMAIN Pixels(p) = 0 .. g[Len(p)] - 1
    BY <1>2, <2>1, PixelIs, Zenon
  <2> QED
    BY <2>2, <2>3, Zenon
<1>6. ChunksOf(p, shape) = {ChunkHolding(ranges, shape, b * U + x) : x \in 0 .. (e - b) * U - 1}
  <2>1. \A x \in 0 .. (e - b) * U - 1 :
          [i \in DOMAIN p |-> Pixels(p)[x][i] \div shape[i]] = ChunkHolding(ranges, shape, b * U + x)
    BY <1>2, <1>4, Zenon DEF ChunkHolding
  <2>2. ChunksOf(p, shape) = {[i \in DOMAIN p |-> Pixels(p)[x][i] \div shape[i]] : x \in 0 .. (e - b) * U - 1}
    BY <1>5, Zenon DEF ChunksOf
  <2>3. ASSUME NEW t PROVE t \in ChunksOf(p, shape) <=>
                             t \in {ChunkHolding(ranges, shape, b * U + x) : x \in 0 .. (e - b) * U - 1}
    BY <2>1, <2>2, Zenon
  <2> QED
    BY <2>3, Zenon
<1>7. ASSUME NEW x \in 0 .. (e - b) * U - 1
      PROVE  \E i \in b .. e - 1 : ChunkHolding(ranges, shape, b * U + x)[a] = ChunkOf(Along(ranges, shape, a), i)
  <2>1. PICK i : i = b + x \div U
    OBVIOUS
  <2>2. ChunkHolding(ranges, shape, b * U + x)[a] = ChunkOf(Along(ranges, shape, a), i)
    <3>1. ChunkHolding(ranges, shape, b * U + x)[a] = Pixels(ranges)[b * U + x][a] \div shape[a]
      BY <1>0 DEF ChunkHolding
    <3>2. Pixels(ranges)[b * U + x][a] = ranges[a].start + i * ranges[a].stride
      BY <1>4, <2>1, Zenon
    <3> QED
      BY <3>1, <3>2 DEF ChunkOf, ElementAt, Along
  <2>3. i \in b .. e - 1
    <3>1. e - b \in Nat /\ U \in Nat /\ x \in Nat /\ (e - b) * U \in Nat
      BY DEF Positive
    <3>2. x < (e - b) * U
      BY <3>1
    <3>3. x \div U \in Nat /\ x \div U < e - b
      BY <3>1, <3>2, Quotient, QuotientBelow
    <3> QED
      BY <2>1, <3>3
  <2> QED
    BY <2>2, <2>3
<1> QED
  BY <1>1, <1>3, <1>6, <1>7, Zenon

-----------------------------------------------------------------------------
(* What PlanPieces works out: the axis it cuts, and units to a piece.       *)
LEMMA SlowestFacts ==
    ASSUME NEW ranges \in Seq(Range1)
    PROVE  /\ SlowestSelectedAxis(ranges) \in 0 .. Len(ranges)
           /\ \A i \in SlowestSelectedAxis(ranges) + 1 .. Len(ranges) : ranges[i].count = 1
<1>0. /\ DOMAIN ranges = 1 .. Len(ranges) /\ Len(ranges) \in Nat
      /\ \A i \in 1 .. Len(ranges) : ranges[i].count \in Positive
  BY RangeFacts
<1>1. PICK S : S = {0} \cup {i \in DOMAIN ranges : ranges[i].count > 1}
  OBVIOUS
<1>2. S \subseteq Nat /\ S # {} /\ S \subseteq 0 .. Len(ranges) /\ \A y \in S : y <= Len(ranges)
  BY <1>0, <1>1
<1>3. PICK m : m = Max(S)
  OBVIOUS
<1>3a. m \in S /\ m \in Nat /\ \A y \in S : y <= m
  BY <1>0, <1>2, <1>3, LargestNumber
<1>4. SlowestSelectedAxis(ranges) = m
  BY <1>1, <1>3 DEF SlowestSelectedAxis
<1>5. ASSUME NEW i \in m + 1 .. Len(ranges) PROVE ranges[i].count = 1
  <2>1. i \in 1 .. Len(ranges) /\ ~ (i <= m)
    BY <1>0, <1>3a
  <2>2. i \notin S
    BY <1>3a, <2>1
  <2>3. ~ (ranges[i].count > 1)
    BY <1>0, <1>1, <2>1, <2>2
  <2> QED
    BY <1>0, <2>1, <2>3 DEF Positive
<1> QED
  BY <1>2, <1>3a, <1>4, <1>5

LEMMA AcrossType ==
    ASSUME NEW length \in Positive, NEW pixel \in Positive, NEW flag \in Positive
    PROVE  FlagChunksAcross(length, pixel, flag) \in Nat
<1> DEFINE Width(k) == (Least((k + 1) * pixel, length) - 1) \div flag - (k * pixel) \div flag + 1
<1>0. length \in Nat /\ pixel \in Nat /\ flag \in Nat /\ length - 1 \in Nat /\ (length - 1) \div pixel \in Nat
  BY Quotient DEF Positive
<1>1. (length - 1) \div flag \in Nat
  BY <1>0, Quotient
<1>2. ASSUME NEW k \in 0 .. (length - 1) \div pixel
      PROVE  Width(k) \in Nat /\ Width(k) <= (length - 1) \div flag + 1
  <2>1. k \in Nat /\ k <= (length - 1) \div pixel
    BY <1>0
  <2>2. k * pixel \in Nat /\ (k + 1) * pixel \in Nat /\ (k + 1) * pixel = k * pixel + pixel
    BY <1>0, <2>1
  <2>3. k * pixel <= length - 1
    <3>1. k * pixel <= ((length - 1) \div pixel) * pixel
      BY <1>0, <2>1, TimesKeepsOrder
    <3>2. ((length - 1) \div pixel) * pixel <= length - 1 /\ ((length - 1) \div pixel) * pixel \in Nat
      BY <1>0, Quotient
    <3> QED
      BY <1>0, <2>2, <3>1, <3>2
  <2>4. PICK last \in Nat : last = Least((k + 1) * pixel, length) - 1 /\ k * pixel <= last /\ last <= length - 1
    BY <1>0, <2>2, <2>3 DEF Least, Positive
  <2>5. /\ last \div flag \in Nat /\ (k * pixel) \div flag \in Nat
        /\ (k * pixel) \div flag <= last \div flag /\ last \div flag <= (length - 1) \div flag
    BY <1>0, <2>2, <2>4, Quotient, QuotientKeepsOrder
  <2> QED
    BY <1>1, <2>4, <2>5
<1> HIDE DEF Width
<1>3. PICK S : S = {1} \cup {Width(k) : k \in 0 .. (length - 1) \div pixel}
  OBVIOUS
<1>4. PICK most \in Nat : most = (length - 1) \div flag + 1
  BY <1>1
<1>5. S \subseteq Nat /\ S # {} /\ \A y \in S : y <= most
  BY <1>1, <1>2, <1>3, <1>4
<1>6. Max(S) \in Nat
  BY <1>5, LargestNumber
<1> QED
  BY <1>3, <1>6 DEF FlagChunksAcross, Width

LEMMA DefaultType ==
    ASSUME NEW b \in Nat PROVE DefaultReadBytes(b) \in Nat
<1>0. DecodedBytesPerRead \in Nat /\ MinChunksPerRead \in Nat /\ MaxDecodedBytesPerRead \in Nat
  BY PiecesAssumption DEF Positive
<1>1. PICK n \in Nat : n = AtLeastOne(b) * MinChunksPerRead
  BY <1>0 DEF AtLeastOne
<1>2. PICK S : S = {DecodedBytesPerRead, n}
  OBVIOUS
<1>3. PICK most \in Nat : \A y \in S : y <= most
  <2>1. \A y \in S : y <= DecodedBytesPerRead + n
    BY <1>0, <1>2
  <2> QED
    BY <1>0, <2>1
<1>4. S \subseteq Nat /\ S # {}
  BY <1>0, <1>2
<1>5. Max(S) \in Nat
  BY <1>3, <1>4, LargestNumber
<1> QED
  BY <1>0, <1>1, <1>2, <1>5 DEF DefaultReadBytes, Least

LEMMA BytesType ==
    ASSUME NEW r \in Reads, NEW mask \in BOOLEAN
    PROVE  ChunkBytes(r, mask) \in Nat /\ BudgetBytes(r, mask) \in Nat
<1>0. /\ r.axes \in Seq(Range1) /\ r.length \in Seq(Positive) /\ r.chunk \in Seq(Positive)
      /\ r.flag_chunk \in Seq(Positive) /\ r.budget \in Nat
      /\ Len(r.length) = Len(r.axes) /\ Len(r.chunk) = Len(r.axes) /\ Len(r.flag_chunk) = Len(r.axes)
  BY PiecesAssumption DEF ReadFields
<1>1. DOMAIN r.axes = 1 .. Len(r.axes) /\ Len(r.axes) \in Nat
  BY <1>0, RangeFacts
<1>2. \A i \in 1 .. Len(r.axes) : r.length[i] \in Positive /\ r.chunk[i] \in Positive /\ r.flag_chunk[i] \in Positive
  BY <1>0
<1>3. \A n \in Nat : \A f \in [1 .. n -> Nat] : f \in Seq(Nat)
  OBVIOUS
<1>4. DecodedFlagBytes(r) \in Nat
  <2>1. ASSUME NEW i \in 1 .. Len(r.axes)
        PROVE  FlagChunksAcross(r.length[i], r.chunk[i], r.flag_chunk[i]) * r.flag_chunk[i] \in Nat
    <3>1. FlagChunksAcross(r.length[i], r.chunk[i], r.flag_chunk[i]) \in Nat /\ r.flag_chunk[i] \in Nat
      BY <1>2, AcrossType DEF Positive
    <3> QED
      BY <3>1
  <2>2. PICK s : s = [i \in DOMAIN r.axes |->
               FlagChunksAcross(r.length[i], r.chunk[i], r.flag_chunk[i]) * r.flag_chunk[i]]
    OBVIOUS
  <2>3. s \in [1 .. Len(r.axes) -> Nat]
    BY <1>1, <2>1, <2>2
  <2>4. s \in Seq(Nat)
    BY <1>1, <1>3, <2>3
  <2> QED
    BY <2>2, <2>4, ProductNat DEF DecodedFlagBytes
<1>5. ChunkElements(r.chunk) \in Nat
  <2>1. r.chunk \in Seq(Nat)
    BY <1>0 DEF Positive
  <2> QED
    BY <2>1, ProductNat DEF ChunkElements
<1>6. ElementBytes \in Nat /\ DecodedBytesPerRead \in Nat /\ MinChunksPerRead \in Nat /\ MaxDecodedBytesPerRead \in Nat
  BY PiecesAssumption DEF Positive
<1>7. ChunkBytes(r, mask) \in Nat
  <2>1. ChunkElements(r.chunk) * ElementBytes \in Nat
    BY <1>5, <1>6
  <2> QED
    BY <1>4, <2>1 DEF ChunkBytes
<1>8. DefaultReadBytes(ChunkBytes(r, mask)) \in Nat
  BY <1>7, DefaultType
<1>9. BudgetBytes(r, mask) \in Nat
  BY <1>0, <1>8 DEF BudgetBytes
<1> QED
  BY <1>7, <1>9

LEMMA UnitsType ==
    ASSUME NEW r \in Reads, NEW mask \in BOOLEAN, NEW ranges \in Seq(Range1),
           Len(ranges) = Len(r.axes), NEW a \in 1 .. Len(ranges)
    PROVE  UnitsPerPiece(r, ranges, a, mask) \in Int
<1>0. r.chunk \in Seq(Positive) /\ Len(r.chunk) = Len(ranges)
  BY PiecesAssumption DEF ReadFields
<1>1. DOMAIN ranges = 1 .. Len(ranges) /\ Len(ranges) \in Nat
  BY <1>0, RangeFacts
<1>2. PICK s : s = [i \in DOMAIN ranges |->
                     IF i = a THEN 1
                     ELSE ChunksTouched([start |-> ranges[i].start, stride |-> ranges[i].stride,
                                         chunk |-> r.chunk[i]], 0, ranges[i].count)]
  OBVIOUS
<1>3. ASSUME NEW i \in 1 .. Len(ranges) PROVE s[i] \in Nat
  <2>1. PICK sel : sel = [start |-> ranges[i].start, stride |-> ranges[i].stride, chunk |-> r.chunk[i]]
    OBVIOUS
  <2>2. sel \in Selection
    BY <1>0, <2>1, RangeFacts DEF Selection
  <2>3. ranges[i].count \in Nat /\ 0 <= ranges[i].count /\ 0 \in Nat
    BY <1>0, RangeFacts DEF Positive
  <2>4. ChunksTouched(sel, 0, ranges[i].count) \in Nat
    BY <2>2, <2>3, ChunksTouchedType
  <2> QED
    BY <1>1, <1>2, <2>1, <2>4
<1>4. s \in [1 .. Len(ranges) -> Nat]
  BY <1>1, <1>2, <1>3
<1>5. \A n \in Nat : \A f \in [1 .. n -> Nat] : f \in Seq(Nat)
  OBVIOUS
<1>6. Product(s) \in Nat
  BY <1>1, <1>4, <1>5, ProductNat
<1>7. PICK other \in Nat : other = Product(s)
  BY <1>6
<1>8. PICK cost \in Nat : cost = ChunkBytes(r, mask) * other
  BY BytesType
<1>9. PICK chunks \in Nat : chunks = AtLeastOne(BudgetBytes(r, mask) \div AtLeastOne(cost))
  <2>1. AtLeastOne(cost) \in Positive
    BY DEF AtLeastOne, Positive
  <2>2. BudgetBytes(r, mask) \div AtLeastOne(cost) \in Nat
    BY <2>1, BytesType, Quotient
  <2> QED
    BY <2>2 DEF AtLeastOne
<1>10. ranges[a].stride \in Positive /\ r.chunk[a] \in Nat
  BY <1>0, RangeFacts DEF Positive
<1>11. AtLeastOne((chunks * r.chunk[a]) \div ranges[a].stride) \in Int
  <2>1. chunks * r.chunk[a] \in Nat
    BY <1>10
  <2>2. (chunks * r.chunk[a]) \div ranges[a].stride \in Nat
    BY <1>10, <2>1, Quotient
  <2> QED
    BY <2>2 DEF AtLeastOne
<1>12. UnitsPerPiece(r, ranges, a, mask) =
         IF ranges[a].stride >= r.chunk[a] THEN chunks
         ELSE AtLeastOne((chunks * r.chunk[a]) \div ranges[a].stride)
  BY <1>2, <1>7, <1>8, <1>9, Zenon DEF UnitsPerPiece
<1>13. CASE ranges[a].stride >= r.chunk[a]
  <2>1. UnitsPerPiece(r, ranges, a, mask) = chunks
    BY <1>12, <1>13, Zenon
  <2> QED
    BY <2>1
<1>14. CASE ~ (ranges[a].stride >= r.chunk[a])
  <2>1. UnitsPerPiece(r, ranges, a, mask) = AtLeastOne((chunks * r.chunk[a]) \div ranges[a].stride)
    BY <1>12, <1>14, Zenon
  <2> QED
    BY <1>11, <2>1
<1> QED
  BY <1>13, <1>14

-----------------------------------------------------------------------------
(* A piece [b, e) of a request that is cut along axis a, or read whole      *)
(* where a is 0: what it fills, with what, and the chunks it decodes.       *)
UnitsOf(ranges, a) == IF a = 0 THEN 1 ELSE ranges[a].count
UnitElements(ranges, a) == IF a = 0 THEN Elements(ranges) ELSE ElementsPerUnit(ranges, a)
OnesAfter(ranges, a) == a # 0 => \A i \in a + 1 .. Len(ranges) : ranges[i].count = 1
IsPiece(ranges, shape, a, b, e, U, lo, hi) ==
    /\ ranges \in Seq(Range1) /\ shape \in Seq(Positive) /\ Len(shape) = Len(ranges)
    /\ a \in 0 .. Len(ranges) /\ OnesAfter(ranges, a)
    /\ b \in Nat /\ e \in Nat /\ b < e /\ e <= UnitsOf(ranges, a)
    /\ U \in Positive /\ U = UnitElements(ranges, a)
    /\ lo \in Nat /\ lo = b * U /\ hi \in Nat /\ hi = e * U

LEMMA WholeIsPart ==
    ASSUME NEW ranges \in Seq(Range1), NEW b, NEW e
    PROVE  Part(ranges, 0, b, e) = ranges
<1>1. DOMAIN ranges = 1 .. Len(ranges) /\ ranges \in [1 .. Len(ranges) -> Range1]
  OBVIOUS
<1>2. \A i \in 1 .. Len(ranges) : i # 0
  OBVIOUS
<1>3. Part(ranges, 0, b, e) = [i \in 1 .. Len(ranges) |-> ranges[i]]
  BY <1>1, <1>2 DEF Part
<1> QED
  BY <1>1, <1>3

LEMMA PieceElements ==
    ASSUME NEW ranges \in Seq(Range1), NEW a \in 0 .. Len(ranges), OnesAfter(ranges, a),
           NEW b \in Nat, NEW e \in Nat, b < e, e <= UnitsOf(ranges, a)
    PROVE  /\ UnitElements(ranges, a) \in Positive /\ UnitsOf(ranges, a) \in Positive
           /\ Elements(ranges) = UnitsOf(ranges, a) * UnitElements(ranges, a)
           /\ Elements(Part(ranges, a, b, e)) = (e - b) * UnitElements(ranges, a)
           /\ DOMAIN Pixels(Part(ranges, a, b, e)) = 0 .. (e - b) * UnitElements(ranges, a) - 1
<1>1. PICK f : Fills(f, ranges)
  BY ElementsUpto
<1>2. Elements(ranges) \in Positive /\ DOMAIN Pixels(ranges) = 0 .. Elements(ranges) - 1
  <2>1. Len(ranges) \in 0 .. Len(ranges)
    OBVIOUS
  <2>2. Elements(ranges) = f[Len(ranges)] /\ f[Len(ranges)] \in Positive
    BY <1>1, <2>1 DEF Fills
  <2>3. DOMAIN Pixels(ranges) = 0 .. f[Len(ranges)] - 1
    BY <1>1, PixelIs, Zenon
  <2> QED
    BY <2>2, <2>3, Zenon
<1>3. CASE a = 0
  <2>1. UnitsOf(ranges, a) = 1 /\ UnitElements(ranges, a) = Elements(ranges) /\ e - b = 1
    BY <1>3 DEF UnitsOf, UnitElements
  <2>2. Part(ranges, a, b, e) = ranges
    BY <1>3, WholeIsPart
  <2>3. 1 * Elements(ranges) = Elements(ranges)
    BY <1>2 DEF Positive
  <2> QED
    BY <1>2, <2>1, <2>2, <2>3 DEF Positive
<1>4. CASE a # 0
  <2>1. a \in 1 .. Len(ranges) /\ \A i \in a + 1 .. Len(ranges) : ranges[i].count = 1
    BY <1>4 DEF OnesAfter
  <2>2. UnitsOf(ranges, a) = ranges[a].count /\ UnitElements(ranges, a) = ElementsPerUnit(ranges, a)
    BY <1>4 DEF UnitsOf, UnitElements
  <2>3. /\ ElementsPerUnit(ranges, a) \in Positive
        /\ Elements(ranges) = ranges[a].count * ElementsPerUnit(ranges, a)
        /\ Elements(Part(ranges, a, b, e)) = (e - b) * ElementsPerUnit(ranges, a)
    BY <2>1, <2>2, PartElements
  <2>4. Part(ranges, a, b, e) \in Seq(Range1)
    BY <2>1, PartType
  <2>5. PICK g : Fills(g, Part(ranges, a, b, e))
    BY <2>4, ElementsUpto
  <2>6. DOMAIN Pixels(Part(ranges, a, b, e)) = 0 .. g[Len(Part(ranges, a, b, e))] - 1
    BY <2>4, <2>5, PixelIs, Zenon
  <2>7. g[Len(Part(ranges, a, b, e))] = (e - b) * ElementsPerUnit(ranges, a)
    BY <2>3, <2>5, Zenon DEF Fills
  <2>8. ranges[a].count \in Positive
    BY <2>1, RangeFacts
  <2> QED
    BY <2>2, <2>3, <2>6, <2>7, <2>8
<1> QED
  BY <1>3, <1>4

LEMMA PiecePixels ==
    ASSUME NEW ranges, NEW shape, NEW a, NEW b, NEW e, NEW U, NEW lo, NEW hi,
           IsPiece(ranges, shape, a, b, e, U, lo, hi)
    PROVE  \A x \in 0 .. (e - b) * U - 1 :
             /\ Pixels(Part(ranges, a, b, e))[x] = Pixels(ranges)[b * U + x]
             /\ a # 0 => \E i \in b .. e - 1 :
                  ChunkHolding(ranges, shape, b * U + x)[a] = ChunkOf(Along(ranges, shape, a), i)
<1>0. /\ ranges \in Seq(Range1) /\ shape \in Seq(Positive)
      /\ a \in 0 .. Len(ranges) /\ OnesAfter(ranges, a)
      /\ b \in Nat /\ e \in Nat /\ b < e /\ e <= UnitsOf(ranges, a)
      /\ U \in Positive /\ U = UnitElements(ranges, a)
  BY DEF IsPiece
<1> TAKE x \in 0 .. (e - b) * U - 1
<1>1. CASE a = 0
  <2>1. Part(ranges, a, b, e) = ranges
    BY <1>0, <1>1, WholeIsPart
  <2>2. b = 0
    BY <1>0, <1>1 DEF UnitsOf
  <2>3. b * U + x = x
    <3>1. x \in Int /\ U \in Nat
      BY <1>0 DEF Positive
    <3> QED
      BY <2>2, <3>1
  <2> QED
    BY <1>1, <2>1, <2>3
<1>2. CASE a # 0
  <2>1. a \in 1 .. Len(ranges) /\ \A i \in a + 1 .. Len(ranges) : ranges[i].count = 1
    BY <1>0, <1>2 DEF OnesAfter
  <2>2. UnitsOf(ranges, a) = ranges[a].count /\ U = ElementsPerUnit(ranges, a)
    BY <1>0, <1>2 DEF UnitsOf, UnitElements
  <2>3. \A y \in 0 .. (e - b) * U - 1 : Pixels(Part(ranges, a, b, e))[y] = Pixels(ranges)[b * U + y]
    <3>1. \A y \in 0 .. (e - b) * ElementsPerUnit(ranges, a) - 1 :
            Pixels(Part(ranges, a, b, e))[y] = Pixels(ranges)[b * ElementsPerUnit(ranges, a) + y]
      BY <1>0, <2>1, <2>2, PartPixel
    <3> QED
      BY <2>2, <3>1, Zenon
  <2>4. \A y \in 0 .. (e - b) * U - 1 : \E i \in b .. e - 1 :
          ChunkHolding(ranges, shape, b * U + y)[a] = ChunkOf(Along(ranges, shape, a), i)
    <3>1. e <= ranges[a].count
      BY <1>0, <2>2
    <3>2. \A y \in 0 .. (e - b) * ElementsPerUnit(ranges, a) - 1 : \E i \in b .. e - 1 :
            ChunkHolding(ranges, shape, b * ElementsPerUnit(ranges, a) + y)[a] = ChunkOf(Along(ranges, shape, a), i)
      BY <1>0, <2>1, <3>1, PartChunks
    <3> QED
      BY <2>2, <3>2, Zenon
  <2> QED
    BY <2>3, <2>4
<1> QED
  BY <1>1, <1>2

(* Counted from the first element of the request.                           *)
LEMMA Shifted ==
    ASSUME NEW lo \in Nat, NEW hi \in Nat
    PROVE  /\ \A x \in 0 .. hi - lo - 1 : lo + x \in lo .. hi - 1 /\ (lo + x) - lo = x
           /\ \A y \in lo .. hi - 1 : y - lo \in 0 .. hi - lo - 1 /\ lo + (y - lo) = y
OBVIOUS

LEMMA PieceSpan ==
    ASSUME NEW ranges, NEW shape, NEW a, NEW b, NEW e, NEW U, NEW lo, NEW hi,
           IsPiece(ranges, shape, a, b, e, U, lo, hi)
    PROVE  /\ lo < hi /\ hi <= Elements(ranges) /\ Elements(ranges) \in Nat
           /\ Elements(Part(ranges, a, b, e)) = hi - lo
           /\ DOMAIN Pixels(Part(ranges, a, b, e)) = 0 .. hi - lo - 1
           /\ \A y \in lo .. hi - 1 : Pixels(Part(ranges, a, b, e))[y - lo] = Pixels(ranges)[y]
           /\ a # 0 => \A y \in lo .. hi - 1 : \E i \in b .. e - 1 :
                ChunkHolding(ranges, shape, y)[a] = ChunkOf(Along(ranges, shape, a), i)
           /\ ChunksOf(Part(ranges, a, b, e), shape) = {ChunkHolding(ranges, shape, y) : y \in lo .. hi - 1}
<1>0. /\ ranges \in Seq(Range1) /\ a \in 0 .. Len(ranges) /\ OnesAfter(ranges, a)
      /\ b \in Nat /\ e \in Nat /\ b < e /\ e <= UnitsOf(ranges, a)
      /\ U \in Positive /\ U = UnitElements(ranges, a)
      /\ lo \in Nat /\ lo = b * U /\ hi \in Nat /\ hi = e * U
  BY DEF IsPiece
<1>00. lo \in Nat /\ hi \in Nat
  BY <1>0
<1>1. PICK p : p = Part(ranges, a, b, e)
  OBVIOUS
<1>2. /\ UnitsOf(ranges, a) \in Positive /\ Elements(ranges) = UnitsOf(ranges, a) * U
      /\ Elements(p) = (e - b) * U /\ DOMAIN Pixels(p) = 0 .. (e - b) * U - 1
  BY <1>0, <1>1, PieceElements
<1>3. (e - b) * U = hi - lo
  BY <1>0 DEF Positive
<1>4. lo < hi
  <2>1. PICK d \in Positive : d = e - b
    BY <1>0 DEF Positive
  <2>2. d * U \in Positive
    BY <1>0 DEF Positive
  <2>3. hi - lo \in Positive
    BY <1>3, <2>1, <2>2, Zenon
  <2> QED
    BY <1>00, <2>3 DEF Positive
<1>5. hi <= Elements(ranges) /\ Elements(ranges) \in Nat
  <2>1. UnitsOf(ranges, a) \in Nat /\ U \in Nat
    BY <1>0, <1>2 DEF Positive
  <2>2. e * U <= UnitsOf(ranges, a) * U /\ UnitsOf(ranges, a) * U \in Nat
    BY <1>0, <2>1, TimesKeepsOrder, SMTT(40)
  <2> QED
    BY <1>0, <1>2, <2>2
<1>6. ASSUME NEW y \in lo .. hi - 1
      PROVE  /\ Pixels(p)[y - lo] = Pixels(ranges)[y]
             /\ a # 0 => \E i \in b .. e - 1 :
                  ChunkHolding(ranges, shape, y)[a] = ChunkOf(Along(ranges, shape, a), i)
  <2>1. PICK x : x = y - lo
    OBVIOUS
  <2>2. x \in 0 .. hi - lo - 1 /\ lo + x = y
    BY <1>00, <2>1, Shifted, Zenon
  <2>3. x \in 0 .. (e - b) * U - 1 /\ b * U + x = y
    BY <1>0, <1>3, <2>2, Zenon
  <2>4. /\ Pixels(p)[x] = Pixels(ranges)[b * U + x]
        /\ a # 0 => \E i \in b .. e - 1 :
             ChunkHolding(ranges, shape, b * U + x)[a] = ChunkOf(Along(ranges, shape, a), i)
    <3>1. \A w \in 0 .. (e - b) * U - 1 :
            /\ Pixels(Part(ranges, a, b, e))[w] = Pixels(ranges)[b * U + w]
            /\ a # 0 => \E i \in b .. e - 1 :
                 ChunkHolding(ranges, shape, b * U + w)[a] = ChunkOf(Along(ranges, shape, a), i)
      BY PiecePixels
    <3> QED
      BY <1>1, <2>3, <3>1, Zenon
  <2> QED
    BY <2>1, <2>3, <2>4, Zenon
<1>7. DOMAIN Pixels(p) = 0 .. hi - lo - 1
  BY <1>2, <1>3
<1>8. DOMAIN p = DOMAIN ranges
  BY <1>1 DEF Part
<1> DEFINE Holding(x) == [i \in DOMAIN ranges |-> Pixels(p)[x][i] \div shape[i]]
<1>9. ChunksOf(p, shape) = {Holding(x) : x \in 0 .. hi - lo - 1}
  BY <1>7, <1>8, Zenon DEF ChunksOf
<1>10. \A y \in lo .. hi - 1 : Holding(y - lo) = ChunkHolding(ranges, shape, y)
  BY <1>6, Zenon DEF ChunkHolding
<1> HIDE DEF Holding
<1>11. ASSUME NEW t PROVE t \in ChunksOf(p, shape) <=> t \in {ChunkHolding(ranges, shape, y) : y \in lo .. hi - 1}
  <2>1. ASSUME t \in ChunksOf(p, shape) PROVE t \in {ChunkHolding(ranges, shape, y) : y \in lo .. hi - 1}
    <3>1. PICK x \in 0 .. hi - lo - 1 : t = Holding(x)
      BY <1>9, <2>1
    <3>2. PICK y : y = lo + x
      OBVIOUS
    <3>3. y \in lo .. hi - 1 /\ y - lo = x
      BY <1>00, <3>1, <3>2, Shifted, Zenon
    <3>4. t = ChunkHolding(ranges, shape, y)
      BY <1>10, <3>1, <3>3, Zenon
    <3> QED
      BY <3>3, <3>4, Zenon
  <2>2. ASSUME t \in {ChunkHolding(ranges, shape, y) : y \in lo .. hi - 1} PROVE t \in ChunksOf(p, shape)
    <3>1. PICK y \in lo .. hi - 1 : t = ChunkHolding(ranges, shape, y)
      BY <2>2, Zenon
    <3>2. y - lo \in 0 .. hi - lo - 1
      BY <1>00, <3>1, Shifted, Zenon
    <3> QED
      BY <1>9, <1>10, <3>1, <3>2, Zenon
  <2> QED
    BY <2>1, <2>2
<1>12. ChunksOf(p, shape) = {ChunkHolding(ranges, shape, y) : y \in lo .. hi - 1}
  BY <1>11, Zenon
<1> QED
  BY <1>1, <1>2, <1>3, <1>4, <1>5, <1>6, <1>7, <1>12, Zenon

(* A cut between chunks: no chunk before it is met again after it.          *)
LEMMA PiecesApart ==
    ASSUME NEW ranges, NEW shape, NEW a, NEW b, NEW e, NEW U, NEW lo, NEW hi,
           IsPiece(ranges, shape, a, b, e, U, lo, hi),
           a # 0 /\ b > 0 => CutAt(Along(ranges, shape, a), b, UnitsOf(ranges, a))
    PROVE  \A y \in 0 .. lo - 1, z \in lo .. hi - 1 :
             ChunkHolding(ranges, shape, y) # ChunkHolding(ranges, shape, z)
<1> SUFFICES ASSUME NEW y \in 0 .. lo - 1, NEW z \in lo .. hi - 1,
                    ChunkHolding(ranges, shape, y) = ChunkHolding(ranges, shape, z)
             PROVE  FALSE
  OBVIOUS
<1>0. /\ ranges \in Seq(Range1) /\ shape \in Seq(Positive) /\ Len(shape) = Len(ranges)
      /\ a \in 0 .. Len(ranges) /\ OnesAfter(ranges, a)
      /\ b \in Nat /\ e \in Nat /\ b < e /\ e <= UnitsOf(ranges, a)
      /\ U \in Positive /\ U = UnitElements(ranges, a) /\ lo \in Nat /\ lo = b * U
  BY DEF IsPiece
<1>01. U \in Nat /\ 0 = 0 * U
  BY <1>0 DEF Positive
<1>1. b # 0
  BY <1>0, <1>01
<1>2. a # 0
  BY <1>0, <1>1 DEF UnitsOf
<1>3. PICK axs : axs = Along(ranges, shape, a)
  OBVIOUS
<1>4. axs \in Selection
  <2>1. a \in 1 .. Len(ranges)
    BY <1>0, <1>2
  <2>2. ranges[a].start \in Nat /\ ranges[a].stride \in Positive /\ shape[a] \in Positive
    BY <1>0, <2>1, RangeFacts
  <2> QED
    BY <1>3, <2>2 DEF Along, Selection
<1>5. UnitsOf(ranges, a) \in Nat
  BY <1>0, PieceElements DEF Positive
<1>6. PICK j \in b .. e - 1 : ChunkHolding(ranges, shape, z)[a] = ChunkOf(axs, j)
  <2>1. \A w \in lo .. hi - 1 : \E i \in b .. e - 1 : ChunkHolding(ranges, shape, w)[a] = ChunkOf(Along(ranges, shape, a), i)
    BY <1>2, PieceSpan
  <2> QED
    BY <1>3, <2>1, Zenon
<1>7. PICK i \in 0 .. b - 1 : ChunkHolding(ranges, shape, y)[a] = ChunkOf(axs, i)
  <2>1. 0 \in Nat /\ 0 < b /\ b <= UnitsOf(ranges, a)
    BY <1>0, <1>1, <1>5
  <2>2. IsPiece(ranges, shape, a, 0, b, U, 0, lo)
    BY <1>0, <1>01, <2>1, Zenon DEF IsPiece
  <2>3. \A w \in 0 .. lo - 1 : \E k \in 0 .. b - 1 : ChunkHolding(ranges, shape, w)[a] = ChunkOf(Along(ranges, shape, a), k)
    BY <1>2, <2>2, PieceSpan
  <2> QED
    BY <1>3, <2>3, Zenon
<1>8. ChunkOf(axs, b - 1) # ChunkOf(axs, b)
  <2>1. b # UnitsOf(ranges, a) /\ b > 0
    BY <1>0, <1>1, <1>5
  <2> QED
    BY <1>2, <1>3, <2>1, Zenon DEF CutAt
<1>9. i \in Nat /\ j \in Nat /\ b - 1 \in Nat /\ i <= b - 1 /\ b - 1 <= b /\ b <= j
  BY <1>0, <1>1, <1>6, <1>7
<1>10. /\ ChunkOf(axs, i) \in Nat /\ ChunkOf(axs, j) \in Nat /\ ChunkOf(axs, b) \in Nat /\ ChunkOf(axs, b - 1) \in Nat
       /\ ChunkOf(axs, i) <= ChunkOf(axs, b - 1) /\ ChunkOf(axs, b - 1) <= ChunkOf(axs, b) /\ ChunkOf(axs, b) <= ChunkOf(axs, j)
  BY <1>0, <1>4, <1>9, ChunksInOrder, ElementType
<1>11. ChunkOf(axs, i) = ChunkOf(axs, j)
  BY <1>6, <1>7, Zenon
<1>12. \A k, l, m, n \in Nat : k <= l /\ l <= m /\ m <= n /\ k = n => l = m
  OBVIOUS
<1> QED
  BY <1>8, <1>10, <1>11, <1>12, Zenon

-----------------------------------------------------------------------------
(* The inductive invariant of an ordinary read.                             *)
ReadTypes ==
    /\ axes = read.axes
    /\ pc \in {"check", "piece", "mask", "pixels", "report", "done", "failed"}
    /\ axis \in 0 .. Len(axes) /\ OnesAfter(axes, axis)
    /\ units_per_piece \in Int /\ begin \in Nat /\ end \in Nat
    /\ DOMAIN destination = 0 .. read.size - 1

(* Pieces end between chunks, and fill the destination one after another.   *)
BetweenChunks(i) == axis # 0 => CutAt(Along(axes, read.chunk, axis), i, UnitsOf(axes, axis))
Progress ==
    /\ begin <= UnitsOf(axes, axis) /\ finished = begin * UnitElements(axes, axis)
    /\ begin > 0 => BetweenChunks(begin)
    /\ pc = "check" => begin = 0
    /\ pc \in {"mask", "pixels"} => end \in begin + 1 .. UnitsOf(axes, axis) /\ BetweenChunks(end)
    /\ pc \notin {"check", "failed"} => Elements(axes) <= read.size
    /\ pc = "done" => begin = UnitsOf(axes, axis)

(* What is finished holds its pixels, and the rest nothing.                 *)
Held ==
    /\ \A e \in 0 .. finished - 1 : destination[e] = [pixel |-> Pixels(axes)[e], masked |-> read.apply_mask]
    /\ \A e \in DOMAIN destination :
         e >= finished /\ destination[e] # Untouched => pc = "failed" /\ e \in Cells

(* The chunks of what is finished were decoded, each once.                  *)
Seen == ~ again /\ decoded = {ChunkHolding(axes, read.chunk, e) : e \in 0 .. finished - 1}

IInv == read \in Reads /\ (~ read.prefetch => ReadTypes /\ Progress /\ Held /\ Seen)

LEMMA RequestFacts ==
    ASSUME NEW r \in Reads
    PROVE  /\ r.axes \in Seq(Range1) /\ r.chunk \in Seq(Positive) /\ Len(r.chunk) = Len(r.axes)
           /\ r.size \in Nat /\ r.apply_mask \in BOOLEAN /\ r.watching \in BOOLEAN /\ r.budget \in Nat
           /\ r.prefetch \in BOOLEAN
           /\ Len(r.axes) > 0 /\ r.flag_chunk \in Seq(Positive) /\ Len(r.flag_chunk) = Len(r.axes)
BY PiecesAssumption DEF ReadFields

LEMMA UnitFacts ==
    ASSUME NEW ranges \in Seq(Range1), NEW a \in 0 .. Len(ranges), OnesAfter(ranges, a)
    PROVE  /\ UnitsOf(ranges, a) \in Positive /\ UnitElements(ranges, a) \in Positive
           /\ UnitsOf(ranges, a) \in Nat /\ UnitElements(ranges, a) \in Nat
           /\ Elements(ranges) = UnitsOf(ranges, a) * UnitElements(ranges, a) /\ Elements(ranges) \in Nat
<1>1. UnitsOf(ranges, a) \in Positive
  <2>1. CASE a = 0
    BY <2>1 DEF UnitsOf, Positive
  <2>2. CASE a # 0
    <3>1. a \in 1 .. Len(ranges)
      BY <2>2
    <3> QED
      BY <2>2, <3>1, RangeFacts DEF UnitsOf
  <2> QED
    BY <2>1, <2>2
<1>2. 0 < 1 /\ 1 <= UnitsOf(ranges, a) /\ 0 \in Nat /\ 1 \in Nat
  BY <1>1 DEF Positive
<1>3. UnitElements(ranges, a) \in Positive /\ Elements(ranges) = UnitsOf(ranges, a) * UnitElements(ranges, a)
  BY <1>2, PieceElements
<1>4. \A m, n \in Positive : m * n \in Nat /\ m \in Nat
  BY DEF Positive
<1> QED
  BY <1>1, <1>3, <1>4

(* The piece being read.                                                    *)
LEMMA PieceOf ==
    ASSUME IInv, ~ read.prefetch, pc \in {"mask", "pixels"}
    PROVE  \E U, hi :
             /\ IsPiece(axes, read.chunk, axis, begin, end, U, finished, hi)
             /\ FirstElement = finished /\ PieceAxes = Part(axes, axis, begin, end)
             /\ hi <= read.size
<1>1. ReadTypes /\ Progress /\ read \in Reads
  BY DEF IInv
<1>2. /\ axes \in Seq(Range1) /\ read.chunk \in Seq(Positive) /\ Len(read.chunk) = Len(axes) /\ read.size \in Nat
      /\ axis \in 0 .. Len(axes) /\ OnesAfter(axes, axis) /\ begin \in Nat /\ end \in Nat
  BY <1>1, RequestFacts DEF ReadTypes
<1>3. /\ UnitsOf(axes, axis) \in Nat /\ UnitElements(axes, axis) \in Positive
      /\ Elements(axes) = UnitsOf(axes, axis) * UnitElements(axes, axis) /\ Elements(axes) \in Nat
  BY <1>2, UnitFacts
<1>4. PICK U \in Positive : U = UnitElements(axes, axis)
  BY <1>3
<1>5. end \in begin + 1 .. UnitsOf(axes, axis) /\ finished = begin * U /\ Elements(axes) <= read.size
  BY <1>1, <1>4 DEF Progress
<1>6. PICK hi \in Nat : hi = end * U
  BY <1>2 DEF Positive
<1>7. begin < end /\ end <= UnitsOf(axes, axis)
  BY <1>2, <1>3, <1>5
<1>8. finished \in Nat
  BY <1>2, <1>5 DEF Positive
<1>9. IsPiece(axes, read.chunk, axis, begin, end, U, finished, hi)
  BY <1>2, <1>4, <1>5, <1>6, <1>7, <1>8, Zenon DEF IsPiece
<1>10. FirstElement = finished
  <2>1. CASE axis = 0
    <3>1. begin = 0
      BY <1>2, <1>7, <2>1 DEF UnitsOf
    <3>2. 0 * U = 0
      BY DEF Positive
    <3> QED
      BY <1>5, <2>1, <3>1, <3>2 DEF FirstElement
  <2>2. CASE axis # 0
    BY <1>4, <1>5, <2>2 DEF FirstElement, UnitElements
  <2> QED
    BY <2>1, <2>2
<1>11. PieceAxes = Part(axes, axis, begin, end)
  BY Zenon DEF PieceAxes, Part
<1>12. hi <= read.size
  <2>1. hi <= Elements(axes)
    BY <1>9, PieceSpan
  <2> QED
    BY <1>2, <1>3, <1>5, <2>1
<1> QED
  BY <1>9, <1>10, <1>11, <1>12

(* What a read of it writes.                                                *)
LEMMA FilledIs ==
    ASSUME IInv, ~ read.prefetch, pc \in {"mask", "pixels"}, NEW U, NEW hi, NEW mask,
           IsPiece(axes, read.chunk, axis, begin, end, U, finished, hi),
           FirstElement = finished, PieceAxes = Part(axes, axis, begin, end), hi <= read.size
    PROVE  /\ DOMAIN Filled(mask) = DOMAIN destination
           /\ finished \in Nat /\ hi \in Nat /\ finished < hi
           /\ FirstElement + Elements(PieceAxes) = hi /\ Cells = finished .. hi - 1
           /\ \A e \in finished .. hi - 1 : Filled(mask)[e] = [pixel |-> Pixels(axes)[e], masked |-> mask]
           /\ \A e \in DOMAIN destination : e \notin finished .. hi - 1 => Filled(mask)[e] = destination[e]
<1>1. /\ finished < hi /\ Elements(PieceAxes) = hi - finished
      /\ DOMAIN Pixels(PieceAxes) = 0 .. hi - finished - 1
      /\ \A y \in finished .. hi - 1 : Pixels(PieceAxes)[y - finished] = Pixels(axes)[y]
  BY PieceSpan
<1>2. finished \in Nat /\ hi \in Nat
  BY DEF IsPiece
<1>3. DOMAIN destination = 0 .. read.size - 1 /\ read.size \in Nat
  BY RequestFacts DEF IInv, ReadTypes
<1>4. finished + (hi - finished) = hi
  BY <1>2
<1>5. FirstElement + Elements(PieceAxes) = hi
  BY <1>1, <1>4
<1>6. Cells = finished .. hi - 1
  <2>1. finished + ((hi - finished) - 1) = hi - 1
    BY <1>2
  <2>2. Cells = finished .. finished + ((hi - finished) - 1)
    BY <1>1, Zenon DEF Cells
  <2> QED
    BY <2>1, <2>2, Zenon
<1>7. PICK d : d = Filled(mask)
  OBVIOUS
<1>8. d = [e \in DOMAIN destination |->
             IF e - finished \in 0 .. hi - finished - 1
             THEN [pixel |-> Pixels(PieceAxes)[e - finished], masked |-> mask] ELSE destination[e]]
  BY <1>1, <1>7, Zenon DEF Filled
<1>9. ASSUME NEW e \in finished .. hi - 1 PROVE d[e] = [pixel |-> Pixels(axes)[e], masked |-> mask]
  <2>1. e \in DOMAIN destination
    BY <1>2, <1>3
  <2>2. e - finished \in 0 .. hi - finished - 1
    BY <1>2
  <2>3. d[e] = [pixel |-> Pixels(PieceAxes)[e - finished], masked |-> mask]
    BY <1>8, <2>1, <2>2, Zenon
  <2> QED
    BY <1>1, <2>3, Zenon
<1>10. ASSUME NEW e \in DOMAIN destination, e \notin finished .. hi - 1 PROVE d[e] = destination[e]
  <2>1. e - finished \notin 0 .. hi - finished - 1
    BY <1>2, <1>3, <1>10
  <2> QED
    BY <1>8, <2>1, Zenon
<1>11. DOMAIN d = DOMAIN destination
  BY <1>8, Zenon
<1> QED
  BY <1>1, <1>2, <1>5, <1>6, <1>7, <1>9, <1>10, <1>11, Zenon

-----------------------------------------------------------------------------
(* Steps that read nothing.                                                 *)
LEMMA StartsUntouched ==
    ASSUME Init PROVE IInv
<1> SUFFICES ASSUME ~ read.prefetch PROVE ReadTypes /\ Progress /\ Held /\ Seen
  BY DEF Init, IInv
<1>1. /\ read \in Reads /\ axes \in Seq(Range1) /\ axes = read.axes /\ read.size \in Nat
  BY RequestFacts DEF Init
<1>2. /\ pc = "check" /\ axis = 0 /\ units_per_piece = 1 /\ begin = 0 /\ end = 0 /\ finished = 0
      /\ decoded = {} /\ ~ again
  BY DEF Init
<1>3. destination = [e \in 0 .. read.size - 1 |-> Untouched]
  BY DEF Init
<1>4. 0 \in 0 .. Len(axes) /\ OnesAfter(axes, 0)
  BY <1>1 DEF OnesAfter
<1>5. ReadTypes
  <2>1. DOMAIN destination = 0 .. read.size - 1
    BY <1>3
  <2> QED
    BY <1>1, <1>2, <1>4, <2>1 DEF ReadTypes
<1>6. Progress
  <2>1. UnitElements(axes, 0) \in Nat /\ UnitsOf(axes, 0) \in Nat
    BY <1>1, <1>4, UnitFacts
  <2>2. \A n \in Nat : 0 <= n /\ 0 = 0 * n
    OBVIOUS
  <2> QED
    BY <1>2, <2>1, <2>2 DEF Progress
<1>7. Held
  <2>1. \A e \in 0 .. finished - 1 : FALSE
    BY <1>2
  <2>2. \A e \in DOMAIN destination : destination[e] = Untouched
    BY <1>3
  <2> QED
    BY <2>1, <2>2, Zenon DEF Held
<1>8. Seen
  <2>1. 0 .. finished - 1 = {}
    BY <1>2
  <2>2. {ChunkHolding(axes, read.chunk, e) : e \in 0 .. finished - 1} = {}
    BY <2>1, Zenon
  <2> QED
    BY <1>2, <2>2 DEF Seen
<1> QED
  BY <1>5, <1>6, <1>7, <1>8

(* What was read stays as it is.                                            *)
LEMMA NothingRead ==
    ASSUME Held, Seen, pc # "failed",
           UNCHANGED <<read, axes, destination, finished, decoded>>, ~ again'
    PROVE  Held' /\ Seen'
<1>1. \A e \in DOMAIN destination : e >= finished => destination[e] = Untouched
  BY DEF Held
<1>2. \A e \in 0 .. finished' - 1 : destination'[e] = [pixel |-> Pixels(axes')[e], masked |-> read'.apply_mask]
  BY Zenon DEF Held
<1>3. \A e \in DOMAIN destination' : e >= finished' => destination'[e] = Untouched
  BY <1>1, Zenon
<1>4. Held'
  BY <1>2, <1>3, Zenon DEF Held, Untouched
<1>5. Seen'
  BY Zenon DEF Seen
<1> QED
  BY <1>4, <1>5

LEMMA Waits ==
    ASSUME IInv, ~ read.prefetch,
           MaskRefused \/ MaskFails \/ ProgressTaken \/ ProgressRefused \/ EndRead \/ AskToStop \/ ReadMask
    PROVE  IInv'
<1>1. /\ read' = read /\ read \in Reads /\ ReadTypes /\ Progress /\ Held /\ Seen
  BY DEF IInv, MaskRefused, MaskFails, ProgressTaken, ProgressRefused, EndRead, AskToStop, ReadMask, Goto
<1>2. UNCHANGED <<axes, axis, units_per_piece, begin, end, destination, finished, decoded>>
  BY DEF MaskRefused, MaskFails, ProgressTaken, ProgressRefused, EndRead, AskToStop, ReadMask, Goto,
         piece, history
<1>3. pc # "failed"
  BY DEF MaskRefused, MaskFails, ProgressTaken, ProgressRefused, EndRead, AskToStop, ReadMask, Ended
<1>3a. ~ again'
  <2>1. ~ again
    BY <1>1 DEF Seen
  <2>2. CASE ReadMask
    BY <2>1, <2>2, Zenon DEF ReadMask, DecodeFlags
  <2>3. CASE ~ ReadMask
    <3>1. again' = again
      BY <2>3 DEF MaskRefused, MaskFails, ProgressTaken, ProgressRefused, EndRead, AskToStop, history
    <3> QED
      BY <2>1, <3>1
  <2> QED
    BY <2>2, <2>3
<1>4. \/ pc' = pc
      \/ pc' = "failed"
      \/ pc \in {"report", "piece"} /\ pc' = "piece"
      \/ pc = "mask" /\ pc' = "pixels"
      \/ pc = "piece" /\ pc' = "done" /\ begin = UnitsOf(axes, axis)
  BY DEF MaskRefused, MaskFails, ProgressTaken, ProgressRefused, EndRead, AskToStop, ReadMask, Goto,
         Units, UnitsOf
<1>5. Held' /\ Seen'
  BY <1>1, <1>2, <1>3, <1>3a, NothingRead
<1>6. ReadTypes'
  BY <1>1, <1>2, <1>4 DEF ReadTypes
<1>7. Progress'
  BY <1>1, <1>2, <1>4 DEF Progress, BetweenChunks
<1> QED
  BY <1>1, <1>5, <1>6, <1>7 DEF IInv

LEMMA Checks ==
    ASSUME IInv, ~ read.prefetch, CheckRead PROVE IInv'
<1>1. /\ read' = read /\ read \in Reads /\ ReadTypes /\ Progress /\ Held /\ Seen
  BY DEF IInv, CheckRead, Goto
<1>2. /\ UNCHANGED <<axes, end, destination, finished, decoded, again>> /\ pc = "check"
      /\ begin' = 0 /\ axis' = SplitAxis
      /\ units_per_piece' = IF axis' = 0 THEN 1 ELSE UnitsPerPiece(read, axes, axis', Masks)
      /\ pc' \in {"failed", "piece"} /\ (pc' = "piece" => ~ (Elements(axes) > Room))
  BY DEF CheckRead, Goto
<1>3. axes \in Seq(Range1) /\ axes = read.axes /\ read.size \in Nat /\ read.apply_mask \in BOOLEAN
  BY <1>1, RequestFacts DEF ReadTypes
<1>4. axis' \in 0 .. Len(axes) /\ OnesAfter(axes, axis')
  <2>1. CASE axis' = 0
    BY <1>3, <2>1 DEF OnesAfter
  <2>2. CASE axis' = SlowestSelectedAxis(axes)
    BY <1>3, <2>2, SlowestFacts DEF OnesAfter
  <2> QED
    BY <1>2, <2>1, <2>2 DEF SplitAxis
<1>5. units_per_piece' \in Int
  <2>1. Masks \in BOOLEAN
    BY DEF Masks
  <2>2. CASE axis' = 0
    BY <1>2, <2>2
  <2>3. CASE axis' # 0
    <3>1. axis' \in 1 .. Len(read.axes)
      BY <1>3, <1>4, <2>3
    <3>2. UnitsPerPiece(read, read.axes, axis', Masks) \in Int
      BY <1>1, <1>3, <2>1, <3>1, UnitsType
    <3> QED
      BY <1>2, <1>3, <2>3, <3>2
  <2> QED
    BY <2>2, <2>3
<1>6. ReadTypes'
  BY <1>1, <1>2, <1>4, <1>5 DEF ReadTypes
<1>7. finished = 0
  <2>1. begin = 0 /\ finished = begin * UnitElements(axes, axis)
    BY <1>1, <1>2 DEF Progress
  <2>2. UnitElements(axes, axis) \in Nat
    BY <1>1, <1>3, UnitFacts DEF ReadTypes
  <2>3. \A n \in Nat : 0 * n = 0
    OBVIOUS
  <2> QED
    BY <2>1, <2>2, <2>3
<1>8. Progress'
  <2>1. UnitElements(axes, axis') \in Nat /\ UnitsOf(axes, axis') \in Nat /\ Elements(axes) \in Nat
    BY <1>3, <1>4, UnitFacts
  <2>2. \A n \in Nat : 0 <= n /\ 0 = 0 * n
    OBVIOUS
  <2>3. begin' <= UnitsOf(axes', axis') /\ finished' = begin' * UnitElements(axes', axis') /\ ~ (begin' > 0)
    BY <1>2, <1>7, <2>1, <2>2
  <2>4. pc' = "piece" => Elements(axes') <= read'.size
    BY <1>1, <1>2, <1>3, <2>1 DEF Room
  <2> QED
    BY <1>2, <2>3, <2>4 DEF Progress
<1>9. Held' /\ Seen'
  <2>1. ~ again'
    BY <1>1, <1>2 DEF Seen
  <2> QED
    BY <1>1, <1>2, <2>1, NothingRead
<1> QED
  BY <1>1, <1>6, <1>8, <1>9 DEF IInv

(* The next piece ends between chunks.                                      *)
LEMMA Cuts ==
    ASSUME IInv, ~ read.prefetch, NextPiece PROVE IInv'
<1>1. /\ read' = read /\ read \in Reads /\ ReadTypes /\ Progress /\ Held /\ Seen
  BY DEF IInv, NextPiece, Goto
<1>2. /\ UNCHANGED <<axes, axis, units_per_piece, begin, destination, finished, decoded, again>>
      /\ pc = "piece" /\ pc' \in {"mask", "pixels"} /\ end' = PieceEnd /\ begin < UnitsOf(axes, axis)
  BY DEF NextPiece, Goto, history, Units, UnitsOf
<1>3. /\ axes \in Seq(Range1) /\ axes = read.axes /\ read.size \in Nat
      /\ read.chunk \in Seq(Positive) /\ Len(read.chunk) = Len(axes)
      /\ axis \in 0 .. Len(axes) /\ OnesAfter(axes, axis) /\ begin \in Nat /\ units_per_piece \in Int
  BY <1>1, RequestFacts DEF ReadTypes
<1>4. UnitsOf(axes, axis) \in Nat
  BY <1>3, UnitFacts
<1>5. PieceEnd \in begin + 1 .. UnitsOf(axes, axis) /\ BetweenChunks(PieceEnd)
  <2>1. CASE axis = 0
    BY <1>2, <1>3, <2>1 DEF PieceEnd, UnitsOf, BetweenChunks
  <2>2. CASE axis # 0
    <3>1. PICK axs : axs = Along(axes, read.chunk, axis)
      OBVIOUS
    <3>2. axs \in Selection
      <4>1. axis \in 1 .. Len(axes)
        BY <1>3, <2>2
      <4>2. axes[axis].start \in Nat /\ axes[axis].stride \in Positive /\ read.chunk[axis] \in Positive
        BY <1>3, <4>1, RangeFacts
      <4> QED
        BY <3>1, <4>2 DEF Along, Selection
    <3>3. PieceEnd = AlignedBlockEnd(begin, units_per_piece, UnitsOf(axes, axis), axs)
      BY <2>2, <3>1, Zenon DEF PieceEnd, Along, Units, UnitsOf
    <3>4. PieceEnd \in begin + 1 .. UnitsOf(axes, axis) /\ CutAt(axs, PieceEnd, UnitsOf(axes, axis))
      BY <1>2, <1>3, <1>4, <3>2, <3>3, BlockEndsBetweenChunks
    <3> QED
      BY <3>1, <3>4 DEF BetweenChunks
  <2> QED
    BY <2>1, <2>2
<1>6. end' \in Nat
  BY <1>2, <1>3, <1>4, <1>5
<1>7. ReadTypes'
  BY <1>1, <1>2, <1>6 DEF ReadTypes
<1>8. Progress'
  BY <1>1, <1>2, <1>5 DEF Progress, BetweenChunks
<1>9. Held' /\ Seen'
  <2>1. ~ again'
    BY <1>1, <1>2 DEF Seen
  <2> QED
    BY <1>1, <1>2, <2>1, NothingRead
<1> QED
  BY <1>1, <1>7, <1>8, <1>9 DEF IInv

-----------------------------------------------------------------------------
(* A piece is read: it carries on where the last one ended, with chunks     *)
(* that are not yet decoded.                                                *)
LEMMA ReadsOn ==
    ASSUME IInv, ~ read.prefetch, ReadPixels PROVE IInv'
<1>1. /\ read' = read /\ read \in Reads /\ ReadTypes /\ Progress /\ Held /\ Seen
  BY DEF IInv, ReadPixels, Goto
<1>2. /\ UNCHANGED <<axes, axis, units_per_piece, end>> /\ pc = "pixels" /\ pc' \in {"report", "piece"}
      /\ destination' = Filled(Masks) /\ finished' = FirstElement + Elements(PieceAxes) /\ begin' = end
      /\ decoded' = decoded \cup ChunksOf(PieceAxes, read.chunk)
      /\ again' = (again \/ decoded \cap ChunksOf(PieceAxes, read.chunk) # {})
  BY DEF ReadPixels, Goto, Decode
<1>3. PICK U, hi :
        /\ IsPiece(axes, read.chunk, axis, begin, end, U, finished, hi)
        /\ FirstElement = finished /\ PieceAxes = Part(axes, axis, begin, end)
        /\ hi <= read.size
  BY <1>2, PieceOf
<1>4. /\ DOMAIN destination' = DOMAIN destination
      /\ finished \in Nat /\ hi \in Nat /\ finished < hi /\ finished' = hi
      /\ \A e \in finished .. hi - 1 : destination'[e] = [pixel |-> Pixels(axes)[e], masked |-> Masks]
      /\ \A e \in DOMAIN destination : e \notin finished .. hi - 1 => destination'[e] = destination[e]
  BY <1>2, <1>3, FilledIs
<1>5. Masks = read.apply_mask
  BY <1>1, RequestFacts DEF Masks
<1>6. hi = end * UnitElements(axes, axis)
  BY <1>3 DEF IsPiece
<1>7. ReadTypes'
  BY <1>1, <1>2, <1>4 DEF ReadTypes
<1>8. Progress'
  <2>1. end \in begin + 1 .. UnitsOf(axes, axis) /\ BetweenChunks(end) /\ Elements(axes) <= read.size
    BY <1>1, <1>2 DEF Progress
  <2>2. end <= UnitsOf(axes, axis)
    BY <2>1
  <2>3. finished' = begin' * UnitElements(axes', axis')
    BY <1>2, <1>4, <1>6, Zenon
  <2> QED
    BY <1>1, <1>2, <2>1, <2>2, <2>3 DEF Progress, BetweenChunks
<1>9. Held'
  <2>1. DOMAIN destination = 0 .. read.size - 1 /\ read.size \in Nat
    BY <1>1, RequestFacts DEF ReadTypes
  <2>2. ASSUME NEW e \in 0 .. hi - 1
        PROVE  destination'[e] = [pixel |-> Pixels(axes)[e], masked |-> read.apply_mask]
    <3>1. CASE e \in finished .. hi - 1
      BY <1>4, <1>5, <3>1, Zenon
    <3>2. CASE e \notin finished .. hi - 1
      <4>1. e \in 0 .. finished - 1 /\ e \in DOMAIN destination
        BY <1>3, <1>4, <2>1, <3>2
      <4>2. destination[e] = [pixel |-> Pixels(axes)[e], masked |-> read.apply_mask]
        BY <1>1, <4>1, Zenon DEF Held
      <4> QED
        BY <1>4, <3>2, <4>1, <4>2, Zenon
    <3> QED
      BY <3>1, <3>2
  <2>3. ASSUME NEW e \in DOMAIN destination, e >= hi PROVE destination'[e] = Untouched
    <3>1. e \notin finished .. hi - 1 /\ e >= finished
      BY <1>4, <2>1, <2>3
    <3>2. destination[e] = Untouched
      BY <1>1, <1>2, <3>1 DEF Held
    <3> QED
      BY <1>4, <3>1, <3>2, Zenon
  <2>4. Untouched' = Untouched
    BY DEF Untouched
  <2> QED
    BY <1>1, <1>2, <1>4, <2>2, <2>3, <2>4, Zenon DEF Held
<1>10. Seen'
  <2>1. ~ again /\ decoded = {ChunkHolding(axes, read.chunk, e) : e \in 0 .. finished - 1}
    BY <1>1, Zenon DEF Seen
  <2>2. ChunksOf(PieceAxes, read.chunk) = {ChunkHolding(axes, read.chunk, y) : y \in finished .. hi - 1}
    BY <1>3, PieceSpan
  <2>3. \A y \in 0 .. finished - 1, z \in finished .. hi - 1 :
          ChunkHolding(axes, read.chunk, y) # ChunkHolding(axes, read.chunk, z)
    <3>1. begin > 0 => BetweenChunks(begin)
      BY <1>1 DEF Progress
    <3>2. axis # 0 /\ begin > 0 => CutAt(Along(axes, read.chunk, axis), begin, UnitsOf(axes, axis))
      BY <3>1 DEF BetweenChunks
    <3> QED
      BY <1>3, <3>2, PiecesApart
  <2>4. decoded \cap ChunksOf(PieceAxes, read.chunk) = {}
    BY <2>1, <2>2, <2>3
  <2>5. ~ again'
    BY <1>2, <2>1, <2>4
  <2>6. \A y : y \in 0 .. hi - 1 <=> y \in 0 .. finished - 1 \/ y \in finished .. hi - 1
    BY <1>4
  <2>7. decoded' = {ChunkHolding(axes, read.chunk, e) : e \in 0 .. hi - 1}
    <3>1. ASSUME NEW t PROVE t \in decoded' <=> t \in {ChunkHolding(axes, read.chunk, e) : e \in 0 .. hi - 1}
      BY <1>2, <2>1, <2>2, <2>6, Zenon
    <3> QED
      BY <3>1, Zenon
  <2> QED
    BY <1>1, <1>2, <1>4, <2>5, <2>7, Zenon DEF Seen
<1> QED
  BY <1>1, <1>7, <1>8, <1>9, <1>10 DEF IInv

(* A read that fails may have written where it was reading, and only there. *)
LEMMA Fails ==
    ASSUME IInv, ~ read.prefetch, PixelsFail PROVE IInv'
<1>1. /\ read' = read /\ read \in Reads /\ ReadTypes /\ Progress /\ Held /\ Seen
  BY DEF IInv, PixelsFail, Goto
<1>2. /\ UNCHANGED <<axes, axis, units_per_piece, begin, end, finished, decoded, again>>
      /\ pc = "pixels" /\ pc' = "failed" /\ destination' \in {destination, Filled(FALSE)}
  BY DEF PixelsFail, Goto, history
<1>3. PICK U, hi :
        /\ IsPiece(axes, read.chunk, axis, begin, end, U, finished, hi)
        /\ FirstElement = finished /\ PieceAxes = Part(axes, axis, begin, end)
        /\ hi <= read.size
  BY <1>2, PieceOf
<1>4. /\ DOMAIN destination' = DOMAIN destination
      /\ finished \in Nat /\ hi \in Nat /\ Cells = finished .. hi - 1
      /\ \A e \in DOMAIN destination : e \notin finished .. hi - 1 => destination'[e] = destination[e]
  <2>1. /\ DOMAIN Filled(FALSE) = DOMAIN destination
        /\ finished \in Nat /\ hi \in Nat /\ Cells = finished .. hi - 1
        /\ \A e \in DOMAIN destination : e \notin finished .. hi - 1 => Filled(FALSE)[e] = destination[e]
    <3>1. PICK mask : mask = FALSE
      OBVIOUS
    <3>2. /\ DOMAIN Filled(mask) = DOMAIN destination
          /\ finished \in Nat /\ hi \in Nat /\ Cells = finished .. hi - 1
          /\ \A e \in DOMAIN destination : e \notin finished .. hi - 1 => Filled(mask)[e] = destination[e]
      <4> HIDE <3>1
      <4> QED
        BY <1>2, <1>3, FilledIs
    <3> QED
      BY <3>1, <3>2, Zenon
  <2>2. CASE destination' = destination
    BY <2>1, <2>2, Zenon
  <2>3. CASE destination' = Filled(FALSE)
    BY <2>1, <2>3, Zenon
  <2> QED
    BY <1>2, <2>2, <2>3, Zenon
<1>5. ReadTypes'
  BY <1>1, <1>2, <1>4 DEF ReadTypes
<1>6. Progress'
  BY <1>1, <1>2 DEF Progress, BetweenChunks
<1>7. Seen'
  BY <1>1, <1>2, Zenon DEF Seen
<1>8. Held'
  <2>0. DOMAIN destination = 0 .. read.size - 1 /\ read.size \in Nat
    BY <1>1, RequestFacts DEF ReadTypes
  <2>1. Cells' = Cells
    BY <1>1, <1>2 DEF Cells, FirstElement, PieceAxes
  <2>2. ASSUME NEW e \in 0 .. finished - 1
        PROVE  destination'[e] = [pixel |-> Pixels(axes)[e], masked |-> read.apply_mask]
    <3>1. e \notin finished .. hi - 1 /\ e \in 0 .. read.size - 1
      <4>1. finished < hi
        BY <1>2, <1>3, FilledIs
      <4> QED
        BY <1>3, <1>4, <2>0, <4>1
    <3>2. destination[e] = [pixel |-> Pixels(axes)[e], masked |-> read.apply_mask]
      BY <1>1, Zenon DEF Held
    <3> QED
      BY <1>4, <2>0, <3>1, <3>2, Zenon
  <2>3. ASSUME NEW e \in DOMAIN destination, e >= finished, destination'[e] # Untouched PROVE e \in Cells
    <3>1. CASE e \in finished .. hi - 1
      BY <1>4, <3>1
    <3>2. CASE e \notin finished .. hi - 1
      <4>1. destination[e] # Untouched
        BY <1>4, <2>3, <3>2, Zenon
      <4> QED
        BY <1>1, <1>2, <2>3, <4>1 DEF Held
    <3> QED
      BY <3>1, <3>2
  <2>4. Untouched' = Untouched
    BY DEF Untouched
  <2> QED
    BY <1>1, <1>2, <1>4, <2>1, <2>2, <2>3, <2>4, Zenon DEF Held
<1> QED
  BY <1>1, <1>5, <1>6, <1>7, <1>8 DEF IInv

-----------------------------------------------------------------------------
(* A read fills its destination from the front, one piece after another,    *)
(* and each piece ends between chunks, whatever was asked for and wherever  *)
(* it is stopped (ReadInPieces and PlanPieces).                             *)
THEOREM PiecesInvariant == Spec => []IInv
<1>1. Init => IInv
  BY StartsUntouched
<1>2. IInv /\ [Next]_vars => IInv'
  <2> SUFFICES ASSUME IInv, [Next]_vars PROVE IInv'
    OBVIOUS
  <2>1. read' = read /\ read \in Reads
    BY DEF IInv, Next, Step, vars, CheckRead, NextPiece, MaskRefused, ReadMask, MaskFails, ReadPixels,
           PixelsFail, ProgressTaken, ProgressRefused, EndRead, PrefetchBegins, PrefetchRefused,
           NextSample, SampleFlags, SampleFails, NextRun, EndPixels, EndPrefetch, AskToStop, Goto
  <2>2. CASE read.prefetch
    BY <2>1, <2>2 DEF IInv
  <2>3. CASE ~ read.prefetch
    <3>1. pc \in {"check", "piece", "mask", "pixels", "report", "done", "failed"}
      BY <2>3 DEF IInv, ReadTypes
    <3>2. CASE CheckRead
      BY <2>3, <3>2, Checks
    <3>3. CASE NextPiece
      BY <2>3, <3>3, Cuts
    <3>4. CASE MaskRefused \/ MaskFails \/ ProgressTaken \/ ProgressRefused \/ EndRead \/ AskToStop \/ ReadMask
      BY <2>3, <3>4, Waits
    <3>5. CASE ReadPixels
      BY <2>3, <3>5, ReadsOn
    <3>6. CASE PixelsFail
      BY <2>3, <3>6, Fails
    <3>7. CASE \/ PrefetchBegins \/ PrefetchRefused \/ NextSample \/ SampleFlags \/ SampleFails
               \/ NextRun \/ EndPixels \/ EndPrefetch
      BY <3>1, <3>7 DEF PrefetchBegins, PrefetchRefused, NextSample, SampleFlags, SampleFails, NextRun,
                        EndPixels, EndPrefetch
    <3>8. CASE UNCHANGED vars
      BY <3>8 DEF vars, IInv, ReadTypes, Progress, BetweenChunks, Held, Seen, Cells, FirstElement,
                  PieceAxes, Untouched
    <3> QED
      BY <3>2, <3>3, <3>4, <3>5, <3>6, <3>7, <3>8 DEF Next, Step
  <2> QED
    BY <2>2, <2>3
<1> QED
  BY <1>1, <1>2, PTL DEF Spec

(* "The finished part is always a prefix": whatever is below what was       *)
(* reported holds the pixel an uncut read would put there, and nothing      *)
(* beyond the piece being read was touched.                                 *)
THEOREM FinishedIsAPrefix == Spec => []PrefixFinal
<1>1. IInv => PrefixFinal
  <2> SUFFICES ASSUME IInv, ~ read.prefetch PROVE PrefixFinal
    BY DEF PrefixFinal
  <2>1. ReadTypes /\ Progress /\ Held /\ read \in Reads
    BY DEF IInv
  <2>2. axes = read.axes
    BY <2>1 DEF ReadTypes
  <2>3. pc = "done" => finished = Elements(read.axes)
    <3> SUFFICES ASSUME pc = "done" PROVE finished = Elements(read.axes)
      OBVIOUS
    <3>1. finished = UnitsOf(axes, axis) * UnitElements(axes, axis)
      BY <2>1 DEF Progress
    <3>2. Elements(axes) = UnitsOf(axes, axis) * UnitElements(axes, axis)
      BY <2>1, RequestFacts, UnitFacts DEF ReadTypes
    <3> QED
      BY <2>2, <3>1, <3>2
  <2> QED
    BY <2>1, <2>2, <2>3, Zenon DEF Held, PrefixFinal
<1> QED
  BY <1>1, PiecesInvariant, PTL

(* No chunk is decoded by two pieces of a read, and a read that ends has    *)
(* decoded the chunks of its request.                                       *)
THEOREM NoChunkTwice == Spec => []PiecesDecodeOnce
<1>1. IInv => PiecesDecodeOnce
  <2> SUFFICES ASSUME IInv, ~ read.prefetch PROVE PiecesDecodeOnce
    BY DEF PiecesDecodeOnce
  <2>1. ReadTypes /\ Progress /\ Seen /\ read \in Reads
    BY DEF IInv
  <2>2. axes = read.axes /\ axes \in Seq(Range1) /\ axis \in 0 .. Len(axes) /\ OnesAfter(axes, axis)
    BY <2>1, RequestFacts DEF ReadTypes
  <2>3. pc = "done" => decoded = ChunksOf(read.axes, read.chunk)
    <3> SUFFICES ASSUME pc = "done" PROVE decoded = ChunksOf(axes, read.chunk)
      BY <2>2
    <3>1. finished = Elements(axes)
      <4>1. finished = UnitsOf(axes, axis) * UnitElements(axes, axis)
        BY <2>1 DEF Progress
      <4>2. Elements(axes) = UnitsOf(axes, axis) * UnitElements(axes, axis)
        BY <2>2, UnitFacts
      <4> QED
        BY <4>1, <4>2
    <3>2. DOMAIN Pixels(axes) = 0 .. Elements(axes) - 1
      BY Zenon DEF Pixels
    <3>3. decoded = {ChunkHolding(axes, read.chunk, e) : e \in DOMAIN Pixels(axes)}
      BY <2>1, <3>1, <3>2, Zenon DEF Seen
    <3> QED
      BY <3>3, Zenon DEF ChunksOf, ChunkHolding
  <2> QED
    BY <2>1, <2>3, Zenon DEF Seen, PiecesDecodeOnce
<1> QED
  BY <1>1, PiecesInvariant, PTL

-----------------------------------------------------------------------------
(* A request by its indices: one for each axis, below the axis' count.      *)
Indices(ranges) ==
    {n \in [1 .. Len(ranges) -> Nat] : \A i \in 1 .. Len(ranges) : n[i] < ranges[i].count}
ChunkAt(ranges, shape, n) == [i \in 1 .. Len(ranges) |-> ChunkOf(Along(ranges, shape, i), n[i])]

(* Every index has an element: its digits are what the index says.          *)
LEMMA ElementOfIndex ==
    ASSUME NEW ranges \in Seq(Range1), NEW f, Fills(f, ranges), NEW n \in Indices(ranges)
    PROVE  \A k \in 0 .. Len(ranges) : \E e \in 0 .. f[k] - 1 :
             \A i \in 1 .. k : (e \div f[i - 1]) % ranges[i].count = n[i]
<1> DEFINE Digits(e, k) == \A i \in 1 .. k : (e \div f[i - 1]) % ranges[i].count = n[i]
           Bad == {k \in 0 .. Len(ranges) : ~ \E e \in 0 .. f[k] - 1 : Digits(e, k)}
<1>0. /\ Len(ranges) \in Nat /\ f \in [0 .. Len(ranges) -> Positive] /\ f[0] = 1
      /\ \A i \in 1 .. Len(ranges) : f[i] = ranges[i].count * f[i - 1]
  BY DEF Fills
<1>1. SUFFICES ASSUME Bad # {} PROVE FALSE
  OBVIOUS
<1>2. PICK x \in Bad : \A y \in Bad : x <= y
  <2>1. Bad \subseteq Nat
    OBVIOUS
  <2> HIDE DEF Bad
  <2> QED
    BY <1>1, <2>1, LeastNumber
<1>3. x \in 0 .. Len(ranges) /\ ~ \E e \in 0 .. f[x] - 1 : Digits(e, x)
  BY <1>2
<1>4. x # 0
  <2>1. 0 \in 0 .. f[0] - 1 /\ Digits(0, 0)
    BY <1>0
  <2> QED
    BY <1>3, <2>1
<1>5. PICK k \in 0 .. Len(ranges) : x = k + 1 /\ x \in 1 .. Len(ranges)
  <2>1. x - 1 \in 0 .. Len(ranges) /\ x = (x - 1) + 1 /\ x \in 1 .. Len(ranges)
    BY <1>0, <1>3, <1>4
  <2> QED
    BY <2>1
<1>6. PICK e \in 0 .. f[k] - 1 : Digits(e, k)
  <2>1. ~ (x <= k)
    BY <1>5
  <2>2. k \notin Bad
    BY <1>2, <2>1
  <2> QED
    BY <2>2
<1>7. PICK F \in Positive : F = f[k]
  BY <1>0
<1>8. PICK c \in Positive : c = ranges[x].count /\ f[x] = c * F
  BY <1>0, <1>5, <1>7, RangeFacts
<1>9. n[x] \in Nat /\ n[x] < c
  BY <1>5, <1>8 DEF Indices
<1>10. PICK d \in Nat : d = n[x]
  BY <1>9
<1>11. PICK w \in Nat : w = d * F + e
  BY <1>7 DEF Positive
<1>12. w \in 0 .. f[x] - 1
  <2>1. PICK G \in Nat, C \in Nat : G = F /\ C = c
    BY DEF Positive
  <2>2. (d + 1) * G <= C * G
    <3>1. d + 1 \in Nat /\ d + 1 <= C
      BY <1>9, <1>10, <2>1
    <3> QED
      BY <3>1, TimesKeepsOrder
  <2>3. (d + 1) * G = d * G + G
    BY TimesOneMore
  <2>3a. PICK u \in Nat, v \in Nat : u = d * G /\ v = C * G
    OBVIOUS
  <2>4. e < G /\ e \in Nat
    BY <1>6, <1>7, <2>1
  <2>5. f[x] = v /\ w = u + e /\ u + G <= v
    BY <1>8, <1>11, <2>1, <2>2, <2>3, <2>3a
  <2> QED
    BY <2>4, <2>5
<1>13. ASSUME NEW i \in 1 .. x PROVE (w \div f[i - 1]) % ranges[i].count = n[i]
  <2>1. CASE i = x
    <3>1. f[i - 1] = F /\ ranges[i].count = c
      BY <1>5, <1>7, <1>8, <2>1
    <3>2. (d * F + e) \div F = d + e \div F
      BY DivShift
    <3>3. e \div F = 0
      <4>1. e \in Nat /\ e < 1 * F /\ 1 \in Nat
        BY <1>6, <1>7 DEF Positive
      <4>2. e \div F < 1 /\ e \div F \in Nat
        BY <4>1, QuotientBelow, Quotient
      <4> QED
        BY <4>2
    <3>4. d % c = d
      BY <1>9, <1>10, ModSmall
    <3> QED
      BY <1>10, <1>11, <2>1, <3>1, <3>2, <3>3, <3>4
  <2>2. CASE i # x
    <3>1. i \in 1 .. k /\ i \in 1 .. Len(ranges) /\ i - 1 \in 0 .. Len(ranges) /\ i \in 0 .. Len(ranges)
          /\ k \in i .. Len(ranges)
      BY <1>0, <1>5, <2>2
    <3>2. PICK m \in Positive : f[k] = m * f[i]
      BY <3>1, FillsDivide
    <3>3. PICK D \in Positive, C \in Positive : D = f[i - 1] /\ C = ranges[i].count /\ f[i] = C * D
      BY <1>0, <3>1, RangeFacts
    <3>4. F = m * (C * D)
      BY <1>7, <3>2, <3>3
    <3>5. ((d * F + e) \div D) % C = (e \div D) % C
      <4>1. m \in Nat /\ e \in Nat /\ C \in Nat /\ D \in Nat
        BY <1>6, <1>7 DEF Positive
      <4>2. PICK p \in Nat : p = d * m
        BY <4>1
      <4>3. PICK q \in Nat : q = p * C
        BY <4>1
      <4>4. d * (m * (C * D)) = ((d * m) * C) * D
        BY <4>1
      <4>5. d * F = q * D
        BY <3>4, <4>2, <4>3, <4>4
      <4>6. (q * D + e) \div D = q + e \div D
        BY <4>1, DivShift
      <4>7. PICK y \in Nat : y = e \div D
        BY <4>1, Quotient
      <4>8. (p * C + y) % C = y % C
        BY ModShift
      <4> QED
        BY <4>3, <4>5, <4>6, <4>7, <4>8
    <3>6. (e \div D) % C = n[i]
      BY <1>6, <3>1, <3>3
    <3> QED
      BY <1>11, <3>3, <3>5, <3>6
  <2> QED
    BY <2>1, <2>2
<1> QED
  BY <1>3, <1>12, <1>13

(* The chunks of a request are those of its indices.                        *)
LEMMA ChunksOfIndices ==
    ASSUME NEW ranges \in Seq(Range1), NEW shape \in Seq(Positive), Len(shape) = Len(ranges)
    PROVE  ChunksOf(ranges, shape) = {ChunkAt(ranges, shape, n) : n \in Indices(ranges)}
<1>0. /\ DOMAIN ranges = 1 .. Len(ranges) /\ Len(ranges) \in Nat
      /\ \A i \in 1 .. Len(ranges) :
           ranges[i].start \in Nat /\ ranges[i].count \in Positive /\ ranges[i].stride \in Positive
  BY RangeFacts
<1>1. PICK f : Fills(f, ranges)
  BY ElementsUpto
<1>2. PICK L : L = 0 .. f[Len(ranges)] - 1
  OBVIOUS
<1>3. /\ DOMAIN Pixels(ranges) = L
      /\ \A e \in L : Pixels(ranges)[e] =
           [i \in DOMAIN ranges |->
              ranges[i].start + ranges[i].stride * ((e \div f[i - 1]) % ranges[i].count)]
  BY <1>1, <1>2, PixelIs, Zenon
<1>4. ASSUME NEW e \in L, NEW n \in Indices(ranges),
             \A i \in 1 .. Len(ranges) : (e \div f[i - 1]) % ranges[i].count = n[i]
      PROVE  [i \in DOMAIN ranges |-> Pixels(ranges)[e][i] \div shape[i]] = ChunkAt(ranges, shape, n)
  <2>1. ASSUME NEW i \in 1 .. Len(ranges)
        PROVE  Pixels(ranges)[e][i] \div shape[i] = ChunkOf(Along(ranges, shape, i), n[i])
    <3>1. Pixels(ranges)[e][i] = ranges[i].start + ranges[i].stride * n[i]
      <4>1. Pixels(ranges)[e][i] =
              ranges[i].start + ranges[i].stride * ((e \div f[i - 1]) % ranges[i].count)
        BY <1>0, <1>3, Zenon
      <4> QED
        BY <1>4, <4>1
    <3>2. n[i] \in Nat /\ ranges[i].stride \in Nat
      BY <1>0 DEF Indices, Positive
    <3>3. ranges[i].stride * n[i] = n[i] * ranges[i].stride
      BY <3>2
    <3>4. Pixels(ranges)[e][i] = ranges[i].start + n[i] * ranges[i].stride
      BY <3>1, <3>3
    <3>5. /\ Along(ranges, shape, i).start = ranges[i].start
          /\ Along(ranges, shape, i).stride = ranges[i].stride
          /\ Along(ranges, shape, i).chunk = shape[i]
      BY DEF Along
    <3> QED
      BY <3>4, <3>5, Zenon DEF ChunkOf, ElementAt
  <2> QED
    BY <1>0, <2>1, Zenon DEF ChunkAt
<1>5. ASSUME NEW e \in L
      PROVE  \E n \in Indices(ranges) :
               \A i \in 1 .. Len(ranges) : (e \div f[i - 1]) % ranges[i].count = n[i]
  <2>1. PICK n : n = [i \in 1 .. Len(ranges) |-> (e \div f[i - 1]) % ranges[i].count]
    OBVIOUS
  <2>2. ASSUME NEW i \in 1 .. Len(ranges)
        PROVE  /\ (e \div f[i - 1]) % ranges[i].count \in Nat
               /\ (e \div f[i - 1]) % ranges[i].count < ranges[i].count
    <3>1. e \in Nat /\ f[i - 1] \in Positive /\ ranges[i].count \in Positive
      BY <1>0, <1>1, <1>2 DEF Fills
    <3>2. PICK q \in Nat : q = e \div f[i - 1]
      BY <3>1, Quotient
    <3>3. q % ranges[i].count \in Nat /\ q % ranges[i].count < ranges[i].count
      BY <3>1, Division
    <3> QED
      BY <3>2, <3>3
  <2>3. n \in Indices(ranges)
    BY <2>1, <2>2 DEF Indices
  <2> QED
    BY <2>1, <2>3
<1>6. ASSUME NEW n \in Indices(ranges)
      PROVE  \E e \in L :
               \A i \in 1 .. Len(ranges) : (e \div f[i - 1]) % ranges[i].count = n[i]
  <2>1. Len(ranges) \in 0 .. Len(ranges)
    BY <1>0
  <2> QED
    BY <1>1, <1>2, <2>1, ElementOfIndex
<1>7. ChunksOf(ranges, shape) =
        {[i \in DOMAIN ranges |-> Pixels(ranges)[e][i] \div shape[i]] : e \in L}
  BY <1>3, Zenon DEF ChunksOf
<1> DEFINE Holding(e) == [i \in DOMAIN ranges |-> Pixels(ranges)[e][i] \div shape[i]]
<1>8. ChunksOf(ranges, shape) = {Holding(e) : e \in L}
  BY <1>7
<1>9. /\ \A e \in L : \E n \in Indices(ranges) : Holding(e) = ChunkAt(ranges, shape, n)
      /\ \A n \in Indices(ranges) : \E e \in L : Holding(e) = ChunkAt(ranges, shape, n)
  <2>1. ASSUME NEW e \in L PROVE \E n \in Indices(ranges) : Holding(e) = ChunkAt(ranges, shape, n)
    BY <1>4, <1>5, Zenon
  <2>2. ASSUME NEW n \in Indices(ranges) PROVE \E e \in L : Holding(e) = ChunkAt(ranges, shape, n)
    BY <1>4, <1>6, Zenon
  <2> QED
    BY <2>1, <2>2
<1> HIDE DEF Holding
<1> QED
  BY <1>8, <1>9

-----------------------------------------------------------------------------
(* The sample of a request: an element in each chunk it touches.            *)
Sel(r, c) == [start |-> r.start, stride |-> r.stride, chunk |-> c]
Sampled(r, c) ==
    LET first_chunk == r.start \div c
        last_chunk  == (r.start + (r.count - 1) * r.stride) \div c
    IN  IF r.stride >= c THEN r
        ELSE [start |-> first_chunk * c, count |-> last_chunk - first_chunk + 1, stride |-> c]

LEMMA SelType ==
    ASSUME NEW r \in Range1, NEW c \in Positive
    PROVE  /\ Sel(r, c) \in Selection
           /\ Sel(r, c).start = r.start /\ Sel(r, c).stride = r.stride /\ Sel(r, c).chunk = c
           /\ r.start \in Nat /\ r.count \in Positive /\ r.stride \in Positive /\ r.count - 1 \in Nat
BY DEF Sel, Selection, Range1, Positive

(* Elements a chunk or more apart are in chunks of their own.               *)
LEMMA WideStride ==
    ASSUME NEW axs \in Selection, axs.stride >= axs.chunk, NEW m \in Nat, NEW n \in Nat, m < n
    PROVE  ChunkOf(axs, m) < ChunkOf(axs, n)
<1>1. PICK c \in Positive, s \in Positive : c = axs.chunk /\ s = axs.stride /\ s >= c
  BY ElementType
<1>2. PICK x \in Nat, y \in Nat : x = ElementAt(axs, m) /\ y = ElementAt(axs, n)
  BY ElementType
<1>3. y >= x + s
  <2>1. ElementAt(axs, m + 1) = x + s
    <3>1. (m + 1) * s = m * s + s
      BY TimesOneMore DEF Positive
    <3>2. m * s \in Nat /\ axs.start \in Nat
      BY ElementType DEF Positive
    <3> QED
      BY <1>1, <1>2, <3>1, <3>2 DEF ElementAt, Positive
  <2>2. ElementAt(axs, m + 1) <= ElementAt(axs, n)
    BY ChunksInOrder
  <2> QED
    BY <1>2, <2>1, <2>2
<1>4. PICK k \in Nat : k = x \div c
  BY Quotient
<1>5. k * c <= x /\ (k + 1) * c = k * c + c /\ k * c \in Nat
  BY <1>4, Quotient, TimesOneMore DEF Positive
<1>6. y >= (k + 1) * c
  <2>1. PICK w \in Nat : w = k * c /\ w <= x /\ (k + 1) * c = w + c
    BY <1>5
  <2>2. s \in Nat /\ c \in Nat
    BY DEF Positive
  <2>3. y >= w + c
    BY <1>1, <1>3, <2>1, <2>2
  <2> QED
    BY <2>1, <2>3
<1>7. y \div c >= k + 1
  BY <1>6, QuotientBelow
<1>8. y \div c \in Nat
  BY Quotient
<1> QED
  BY <1>1, <1>2, <1>4, <1>7, <1>8 DEF ChunkOf

(* Elements less than a chunk apart step over none.                         *)
LEMMA NarrowStride ==
    ASSUME NEW axs \in Selection, axs.stride < axs.chunk, NEW n \in Nat,
           NEW k \in Nat, ChunkOf(axs, 0) <= k, k <= ChunkOf(axs, n)
    PROVE  \E m \in 0 .. n : ChunkOf(axs, m) = k
<1>1. PICK c \in Positive, s \in Positive : c = axs.chunk /\ s = axs.stride /\ s < c
  BY ElementType
<1>2. PICK w \in Nat : w = k * c /\ (k + 1) * c = w + c
  BY TimesOneMore DEF Positive
<1>3. PICK m \in Nat : m = FirstAt(axs, w)
  BY FirstAtIsFirst
<1>4. ElementAt(axs, m) >= w /\ (m > 0 => ElementAt(axs, m - 1) < w)
  BY <1>3, FirstAtIsFirst
<1>5. ElementAt(axs, m) \in Nat /\ ElementAt(axs, n) \in Nat /\ ElementAt(axs, 0) \in Nat
  BY ElementType
<1>6. ElementAt(axs, n) >= w
  <2>1. PICK q \in Nat : q = ElementAt(axs, n) \div c
    BY <1>5, Quotient
  <2>2. k <= q /\ q * c <= ElementAt(axs, n)
    BY <1>1, <1>5, <2>1, Quotient DEF ChunkOf
  <2>3. k * c <= q * c
    BY <2>2, TimesKeepsOrder DEF Positive
  <2>4. PICK v \in Nat : v = q * c
    BY DEF Positive
  <2> QED
    BY <1>2, <1>5, <2>2, <2>3, <2>4
<1>7. m <= n
  <2>1. CASE m > 0 /\ n < m
    <3>1. n <= m - 1 /\ m - 1 \in Nat
      BY <2>1
    <3>2. ElementAt(axs, n) <= ElementAt(axs, m - 1) /\ ElementAt(axs, m - 1) \in Nat
      BY <3>1, ChunksInOrder, ElementType
    <3> QED
      BY <1>4, <1>5, <1>6, <2>1, <3>2
  <2> QED
    BY <2>1
<1>8. ChunkOf(axs, m) = k
  <2>1. ElementAt(axs, m) \div c >= k /\ ElementAt(axs, m) \div c \in Nat
    BY <1>2, <1>4, <1>5, QuotientBelow, Quotient
  <2>2. CASE m = 0
    BY <1>1, <2>1, <2>2 DEF ChunkOf
  <2>3. CASE m > 0
    <3>1. PICK l \in Nat : m = l + 1 /\ l = m - 1
      BY <2>3
    <3>2. ElementAt(axs, m) = ElementAt(axs, l) + s
      <4>1. (l + 1) * s = l * s + s
        BY TimesOneMore DEF Positive
      <4>2. l * s \in Nat /\ axs.start \in Nat
        BY ElementType DEF Positive
      <4> QED
        BY <1>1, <3>1, <4>1, <4>2 DEF ElementAt, Positive
    <3>3. ElementAt(axs, l) < w /\ ElementAt(axs, l) \in Nat
      BY <1>4, <2>3, <3>1, ElementType
    <3>4. ElementAt(axs, m) < w + c
      BY <1>1, <1>5, <3>2, <3>3 DEF Positive
    <3>5. ElementAt(axs, m) < (k + 1) * c
      BY <1>2, <3>4
    <3>6. ElementAt(axs, m) \div c < k + 1
      BY <1>5, <3>5, QuotientBelow
    <3> QED
      BY <1>1, <2>1, <3>6 DEF ChunkOf
  <2> QED
    BY <2>2, <2>3
<1> QED
  BY <1>7, <1>8

LEMMA SampleOfAxis ==
    ASSUME NEW r \in Range1, NEW c \in Positive
    PROVE  /\ Sampled(r, c) \in Range1
           /\ \A m, n \in 0 .. Sampled(r, c).count - 1 :
                ChunkOf(Sel(Sampled(r, c), c), m) = ChunkOf(Sel(Sampled(r, c), c), n) => m = n
           /\ \A m \in 0 .. r.count - 1 : \E n \in 0 .. Sampled(r, c).count - 1 :
                ChunkOf(Sel(Sampled(r, c), c), n) = ChunkOf(Sel(r, c), m)
           /\ \A n \in 0 .. Sampled(r, c).count - 1 : \E m \in 0 .. r.count - 1 :
                ChunkOf(Sel(r, c), m) = ChunkOf(Sel(Sampled(r, c), c), n)
<1>0. /\ Sel(r, c) \in Selection
      /\ Sel(r, c).start = r.start /\ Sel(r, c).stride = r.stride /\ Sel(r, c).chunk = c
      /\ r.start \in Nat /\ r.count \in Positive /\ r.stride \in Positive /\ r.count - 1 \in Nat
  BY SelType
<1>1. CASE r.stride >= c
  <2>1. Sampled(r, c) = r
    BY <1>1 DEF Sampled
  <2>2. ASSUME NEW m \in 0 .. r.count - 1, NEW n \in 0 .. r.count - 1,
               ChunkOf(Sel(r, c), m) = ChunkOf(Sel(r, c), n)
        PROVE  m = n
    <3>1. m \in Nat /\ n \in Nat /\ ChunkOf(Sel(r, c), m) \in Nat
      BY <1>0, ElementType
    <3>2. ~ (m < n) /\ ~ (n < m)
      BY <1>0, <1>1, <2>2, <3>1, WideStride
    <3> QED
      BY <3>1, <3>2
  <2> QED
    BY <2>1, <2>2
<1>2. CASE ~ (r.stride >= c)
  <2>1. PICK first_chunk \in Nat, last_chunk \in Nat :
          first_chunk = ChunkOf(Sel(r, c), 0) /\ last_chunk = ChunkOf(Sel(r, c), r.count - 1)
          /\ first_chunk <= last_chunk
    BY <1>0, ElementType, ChunksInOrder
  <2>2. /\ first_chunk = r.start \div c
        /\ last_chunk = (r.start + (r.count - 1) * r.stride) \div c
    <3>1. 0 * r.stride = 0 /\ r.start + 0 = r.start
      BY <1>0 DEF Positive
    <3> QED
      BY <1>0, <2>1, <3>1 DEF ChunkOf, ElementAt
  <2>3. PICK x : x = [start |-> first_chunk * c, count |-> last_chunk - first_chunk + 1, stride |-> c]
    OBVIOUS
  <2>4. Sampled(r, c) = x
    BY <1>2, <2>2, <2>3 DEF Sampled
  <2>5. /\ x \in Range1 /\ x.start = first_chunk * c /\ x.stride = c
        /\ x.count = last_chunk - first_chunk + 1
    <3>1. first_chunk * c \in Nat /\ last_chunk - first_chunk + 1 \in Positive
      BY <2>1 DEF Positive
    <3> QED
      BY <2>3, <3>1 DEF Range1
  <2>6. ASSUME NEW n \in Nat PROVE ChunkOf(Sel(x, c), n) = first_chunk + n
    <3>1. ElementAt(Sel(x, c), n) = first_chunk * c + n * c
      BY <2>5, SelType DEF ElementAt
    <3>2. (first_chunk + n) * c = first_chunk * c + n * c
      BY DEF Positive
    <3>3. first_chunk + n \in Nat
      OBVIOUS
    <3>4. ((first_chunk + n) * c) \div c = first_chunk + n
      BY <3>3, MultipleOf
    <3>5. Sel(x, c).chunk = c
      BY DEF Sel
    <3> QED
      BY <3>1, <3>2, <3>4, <3>5 DEF ChunkOf
  <2>7. \A m, n \in 0 .. x.count - 1 : ChunkOf(Sel(x, c), m) = ChunkOf(Sel(x, c), n) => m = n
    BY <2>5, <2>6
  <2>8. ASSUME NEW m \in 0 .. r.count - 1
        PROVE  \E n \in 0 .. x.count - 1 : ChunkOf(Sel(x, c), n) = ChunkOf(Sel(r, c), m)
    <3>1. PICK k \in Nat : k = ChunkOf(Sel(r, c), m)
      BY <1>0, ElementType
    <3>2. first_chunk <= k /\ k <= last_chunk
      BY <1>0, <2>1, <3>1, ChunksInOrder
    <3>3. PICK n \in Nat : n = k - first_chunk /\ n <= last_chunk - first_chunk
      BY <3>2
    <3>4. n \in 0 .. x.count - 1 /\ first_chunk + n = k
      BY <2>5, <3>2, <3>3
    <3> QED
      BY <2>6, <3>1, <3>4
  <2>9. ASSUME NEW n \in 0 .. x.count - 1
        PROVE  \E m \in 0 .. r.count - 1 : ChunkOf(Sel(r, c), m) = ChunkOf(Sel(x, c), n)
    <3>1. PICK k \in Nat : k = first_chunk + n /\ first_chunk <= k /\ k <= last_chunk
      BY <2>5
    <3>2. Sel(r, c).stride < Sel(r, c).chunk
      BY <1>0, <1>2 DEF Positive
    <3>3. PICK m \in 0 .. r.count - 1 : ChunkOf(Sel(r, c), m) = k
      BY <1>0, <2>1, <3>1, <3>2, NarrowStride
    <3> QED
      BY <2>5, <2>6, <3>1, <3>3
  <2> QED
    BY <2>4, <2>5, <2>7, <2>8, <2>9
<1> QED
  BY <1>1, <1>2

(* Every index of a sample is in a chunk of its own.                        *)
ChunkEach(s, shape) ==
    \A i \in 1 .. Len(s) : \A m, n \in 0 .. s[i].count - 1 :
      ChunkOf(Along(s, shape, i), m) = ChunkOf(Along(s, shape, i), n) => m = n

LEMMA SampleOfRequest ==
    ASSUME NEW ranges \in Seq(Range1), NEW shape \in Seq(Positive), Len(shape) = Len(ranges)
    PROVE  /\ OneElementPerChunk(shape, ranges) \in Seq(Range1)
           /\ Len(OneElementPerChunk(shape, ranges)) = Len(ranges)
           /\ ChunkEach(OneElementPerChunk(shape, ranges), shape)
           /\ ChunksOf(OneElementPerChunk(shape, ranges), shape) = ChunksOf(ranges, shape)
<1>0. /\ DOMAIN ranges = 1 .. Len(ranges) /\ Len(ranges) \in Nat
      /\ \A i \in 1 .. Len(ranges) : ranges[i] \in Range1 /\ shape[i] \in Positive
  BY RangeFacts
<1>1. PICK s : s = OneElementPerChunk(shape, ranges)
  OBVIOUS
<1>2. s = [i \in 1 .. Len(ranges) |-> Sampled(ranges[i], shape[i])]
  BY <1>0, <1>1, Zenon DEF OneElementPerChunk, Sampled
<1>3. \A i \in 1 .. Len(ranges) : s[i] = Sampled(ranges[i], shape[i]) /\ s[i] \in Range1
  BY <1>0, <1>2, SampleOfAxis
<1>4. s \in Seq(Range1) /\ Len(s) = Len(ranges)
  <2>1. \A n \in Nat : \A f \in [1 .. n -> Range1] : f \in Seq(Range1) /\ Len(f) = n
    OBVIOUS
  <2>2. s \in [1 .. Len(ranges) -> Range1]
    BY <1>2, <1>3, Zenon
  <2> QED
    BY <1>0, <2>1, <2>2
<1>5. \A i \in 1 .. Len(ranges) :
        /\ Along(s, shape, i) = Sel(Sampled(ranges[i], shape[i]), shape[i])
        /\ Along(ranges, shape, i) = Sel(ranges[i], shape[i])
  BY <1>3, Zenon DEF Along, Sel
<1>5a. ASSUME NEW i \in 1 .. Len(ranges)
       PROVE  /\ \A m, n \in 0 .. s[i].count - 1 :
                   ChunkOf(Along(s, shape, i), m) = ChunkOf(Along(s, shape, i), n) => m = n
              /\ \A m \in 0 .. ranges[i].count - 1 : \E n \in 0 .. s[i].count - 1 :
                   ChunkOf(Along(s, shape, i), n) = ChunkOf(Along(ranges, shape, i), m)
              /\ \A n \in 0 .. s[i].count - 1 : \E m \in 0 .. ranges[i].count - 1 :
                   ChunkOf(Along(ranges, shape, i), m) = ChunkOf(Along(s, shape, i), n)
  <2>1. PICK r \in Range1, c \in Positive : r = ranges[i] /\ c = shape[i]
    BY <1>0
  <2>2. /\ s[i] = Sampled(r, c) /\ Along(s, shape, i) = Sel(Sampled(r, c), c)
        /\ Along(ranges, shape, i) = Sel(r, c)
    BY <1>3, <1>5, <2>1
  <2>3. \A m, n \in 0 .. Sampled(r, c).count - 1 :
          ChunkOf(Sel(Sampled(r, c), c), m) = ChunkOf(Sel(Sampled(r, c), c), n) => m = n
    BY SampleOfAxis
  <2>4. \A m \in 0 .. r.count - 1 : \E n \in 0 .. Sampled(r, c).count - 1 :
          ChunkOf(Sel(Sampled(r, c), c), n) = ChunkOf(Sel(r, c), m)
    BY SampleOfAxis
  <2>5. \A n \in 0 .. Sampled(r, c).count - 1 : \E m \in 0 .. r.count - 1 :
          ChunkOf(Sel(r, c), m) = ChunkOf(Sel(Sampled(r, c), c), n)
    BY SampleOfAxis
  <2> QED
    BY <2>1, <2>2, <2>3, <2>4, <2>5
<1>6. ChunkEach(s, shape)
  BY <1>4, <1>5a, Zenon DEF ChunkEach
<1>7. ASSUME NEW n \in Indices(ranges)
      PROVE  \E m \in Indices(s) : ChunkAt(s, shape, m) = ChunkAt(ranges, shape, n)
  <2> DEFINE Alike(i, k) == /\ k \in 0 .. s[i].count - 1
                            /\ ChunkOf(Along(s, shape, i), k) = ChunkOf(Along(ranges, shape, i), n[i])
  <2>1. ASSUME NEW i \in 1 .. Len(ranges) PROVE \E k : Alike(i, k)
    <3>1. n[i] \in 0 .. ranges[i].count - 1
      BY <1>0, RangeFacts DEF Indices, Positive
    <3> QED
      BY <1>5a, <3>1
  <2>2. PICK m : m = [i \in 1 .. Len(ranges) |-> CHOOSE k : Alike(i, k)]
    OBVIOUS
  <2>3. \A i \in 1 .. Len(ranges) : Alike(i, m[i])
    <3> HIDE DEF Alike
    <3> QED
      BY <2>1, <2>2, Zenon
  <2>4. \A i \in 1 .. Len(ranges) : m[i] \in Nat /\ m[i] < s[i].count
    BY <1>4, <2>3, RangeFacts DEF Positive
  <2>5. m \in Indices(s)
    <3>1. m \in [1 .. Len(s) -> Nat]
      BY <1>4, <2>2, <2>4
    <3> QED
      BY <1>4, <2>4, <3>1 DEF Indices
  <2>6. ChunkAt(s, shape, m) = ChunkAt(ranges, shape, n)
    BY <1>4, <2>3 DEF ChunkAt
  <2> QED
    BY <2>5, <2>6
<1>8. ASSUME NEW m \in Indices(s)
      PROVE  \E n \in Indices(ranges) : ChunkAt(ranges, shape, n) = ChunkAt(s, shape, m)
  <2> DEFINE Alike(i, k) == /\ k \in 0 .. ranges[i].count - 1
                            /\ ChunkOf(Along(ranges, shape, i), k) = ChunkOf(Along(s, shape, i), m[i])
  <2>1. ASSUME NEW i \in 1 .. Len(ranges) PROVE \E k : Alike(i, k)
    <3>1. m[i] \in 0 .. s[i].count - 1
      BY <1>4, RangeFacts DEF Indices, Positive
    <3> QED
      BY <1>5a, <3>1
  <2>2. PICK n : n = [i \in 1 .. Len(ranges) |-> CHOOSE k : Alike(i, k)]
    OBVIOUS
  <2>3. \A i \in 1 .. Len(ranges) : Alike(i, n[i])
    <3> HIDE DEF Alike
    <3> QED
      BY <2>1, <2>2, Zenon
  <2>4. \A i \in 1 .. Len(ranges) : n[i] \in Nat /\ n[i] < ranges[i].count
    BY <1>0, <2>3, SMTT(40) DEF Range1, Positive
  <2>5. n \in Indices(ranges)
    <3>1. n \in [1 .. Len(ranges) -> Nat]
      BY <2>2, <2>4
    <3> QED
      BY <2>4, <3>1 DEF Indices
  <2>6. ChunkAt(ranges, shape, n) = ChunkAt(s, shape, m)
    BY <1>4, <2>3 DEF ChunkAt
  <2> QED
    BY <2>5, <2>6
<1>9. ChunksOf(s, shape) = ChunksOf(ranges, shape)
  <2>1. /\ ChunksOf(s, shape) = {ChunkAt(s, shape, n) : n \in Indices(s)}
        /\ ChunksOf(ranges, shape) = {ChunkAt(ranges, shape, n) : n \in Indices(ranges)}
    BY <1>4, ChunksOfIndices
  <2> QED
    BY <1>7, <1>8, <2>1
<1> QED
  BY <1>1, <1>4, <1>6, <1>9

(* Different indices of a sample are in different chunks.                   *)
LEMMA IndicesApart ==
    ASSUME NEW s \in Seq(Range1), NEW shape, ChunkEach(s, shape),
           NEW m \in Indices(s), NEW n \in Indices(s), ChunkAt(s, shape, m) = ChunkAt(s, shape, n)
    PROVE  m = n
<1>1. ASSUME NEW i \in 1 .. Len(s) PROVE m[i] = n[i]
  <2>1. m[i] \in 0 .. s[i].count - 1 /\ n[i] \in 0 .. s[i].count - 1
    BY RangeFacts, SMTT(40) DEF Indices, Positive
  <2>2. ChunkOf(Along(s, shape, i), m[i]) = ChunkOf(Along(s, shape, i), n[i])
    <3>1. ChunkAt(s, shape, m)[i] = ChunkAt(s, shape, n)[i]
      OBVIOUS
    <3> QED
      BY <3>1 DEF ChunkAt
  <2> QED
    BY <2>1, <2>2 DEF ChunkEach
<1> QED
  BY <1>1 DEF Indices

-----------------------------------------------------------------------------
(* A part of a sample, from lo on as many of each axis as q counts.         *)
IsBox(q, s, lo) ==
    /\ q \in Seq(Range1) /\ s \in Seq(Range1) /\ Len(q) = Len(s)
    /\ lo \in [1 .. Len(s) -> Nat]
    /\ \A i \in 1 .. Len(s) :
         /\ q[i].start = s[i].start + lo[i] * s[i].stride
         /\ q[i].stride = s[i].stride
         /\ lo[i] + q[i].count <= s[i].count
Box(s, q, lo) ==
    {n \in Indices(s) : \A i \in 1 .. Len(s) : lo[i] <= n[i] /\ n[i] < lo[i] + q[i].count}
Image(s, shape, N) == {ChunkAt(s, shape, n) : n \in N}

LEMMA ChunksOfBox ==
    ASSUME NEW q, NEW s, NEW lo, IsBox(q, s, lo), NEW shape \in Seq(Positive), Len(shape) = Len(s)
    PROVE  ChunksOf(q, shape) = Image(s, shape, Box(s, q, lo))
<1>0. /\ q \in Seq(Range1) /\ s \in Seq(Range1) /\ Len(q) = Len(s) /\ lo \in [1 .. Len(s) -> Nat]
      /\ \A i \in 1 .. Len(s) :
           /\ q[i].start = s[i].start + lo[i] * s[i].stride /\ q[i].stride = s[i].stride
           /\ lo[i] + q[i].count <= s[i].count
  BY DEF IsBox
<1>1. \A i \in 1 .. Len(s) :
        /\ s[i].start \in Nat /\ s[i].stride \in Nat /\ s[i].count \in Nat
        /\ q[i].count \in Nat /\ lo[i] \in Nat
  BY <1>0, RangeFacts DEF Positive
<1>2. ASSUME NEW i \in 1 .. Len(s), NEW m \in Nat
      PROVE  ChunkOf(Along(q, shape, i), m) = ChunkOf(Along(s, shape, i), lo[i] + m)
  <2>1. PICK st \in Nat, sd \in Nat, l \in Nat : st = s[i].start /\ sd = s[i].stride /\ l = lo[i]
    BY <1>1
  <2>2. (st + l * sd) + m * sd = st + (l + m) * sd
    OBVIOUS
  <2>3. /\ Along(q, shape, i).start = st + l * sd /\ Along(q, shape, i).stride = sd
        /\ Along(s, shape, i).start = st /\ Along(s, shape, i).stride = sd
        /\ Along(q, shape, i).chunk = shape[i] /\ Along(s, shape, i).chunk = shape[i]
    BY <1>0, <2>1, Zenon DEF Along
  <2> QED
    BY <2>1, <2>2, <2>3, Zenon DEF ChunkOf, ElementAt
<1>3. ASSUME NEW m \in Indices(q)
      PROVE  \E n \in Box(s, q, lo) : ChunkAt(s, shape, n) = ChunkAt(q, shape, m)
  <2>1. \A i \in 1 .. Len(s) : m[i] \in Nat /\ m[i] < q[i].count
    BY <1>0 DEF Indices
  <2>2. PICK n : n = [i \in 1 .. Len(s) |-> lo[i] + m[i]]
    OBVIOUS
  <2>3. \A i \in 1 .. Len(s) :
          n[i] \in Nat /\ n[i] < s[i].count /\ lo[i] <= n[i] /\ n[i] < lo[i] + q[i].count
    BY <1>0, <1>1, <2>1, <2>2
  <2>4. n \in Box(s, q, lo)
    BY <2>2, <2>3 DEF Box, Indices
  <2>5. ChunkAt(s, shape, n) = ChunkAt(q, shape, m)
    BY <1>0, <1>2, <2>1, <2>2 DEF ChunkAt
  <2> QED
    BY <2>4, <2>5
<1>4. ASSUME NEW n \in Box(s, q, lo)
      PROVE  \E m \in Indices(q) : ChunkAt(q, shape, m) = ChunkAt(s, shape, n)
  <2>1. \A i \in 1 .. Len(s) : n[i] \in Nat /\ lo[i] <= n[i] /\ n[i] < lo[i] + q[i].count
    BY DEF Box, Indices
  <2>2. PICK m : m = [i \in 1 .. Len(s) |-> n[i] - lo[i]]
    OBVIOUS
  <2>3. \A i \in 1 .. Len(s) : m[i] \in Nat /\ m[i] < q[i].count /\ lo[i] + m[i] = n[i]
    BY <1>1, <2>1, <2>2
  <2>4. m \in Indices(q)
    <3>1. m \in [1 .. Len(q) -> Nat]
      BY <1>0, <2>2, <2>3
    <3> QED
      BY <1>0, <2>3, <3>1 DEF Indices
  <2>5. ChunkAt(q, shape, m) = ChunkAt(s, shape, n)
    BY <1>0, <1>2, <2>3 DEF ChunkAt
  <2> QED
    BY <2>4, <2>5
<1>5. ChunksOf(q, shape) = {ChunkAt(q, shape, m) : m \in Indices(q)}
  BY <1>0, ChunksOfIndices
<1> QED
  BY <1>3, <1>4, <1>5 DEF Image

(* Parts of a sample that share no index share no chunk.                    *)
LEMMA PartsApart ==
    ASSUME NEW s \in Seq(Range1), NEW shape, ChunkEach(s, shape),
           NEW N, N \subseteq Indices(s), NEW M, M \subseteq Indices(s), N \cap M = {}
    PROVE  Image(s, shape, N) \cap Image(s, shape, M) = {}
<1> SUFFICES ASSUME NEW n \in N, NEW m \in M, ChunkAt(s, shape, n) = ChunkAt(s, shape, m) PROVE FALSE
  BY DEF Image
<1>1. n \in Indices(s) /\ m \in Indices(s)
  OBVIOUS
<1>2. n = m
  BY <1>1, IndicesApart
<1> QED
  BY <1>2

LEMMA ImageUnion ==
    ASSUME NEW s, NEW shape, NEW N, NEW M
    PROVE  Image(s, shape, N \cup M) = Image(s, shape, N) \cup Image(s, shape, M)
BY DEF Image

-----------------------------------------------------------------------------
(* The indices ForEachPiece comes to before an odometer a and a place f of  *)
(* the axis c that is cut, and where the piece at them starts.              *)
Before(n, a, c) ==
    \E k \in 1 .. c - 1 : n[k] < a[k] /\ \A j \in 1 .. k - 1 : n[j] = a[j]
Level(n, a, c) == \A j \in 1 .. c - 1 : n[j] = a[j]
Earlier(s, c, a, f) ==
    {n \in Indices(s) : Before(n, a, c) \/ (Level(n, a, c) /\ n[c] < f)}
From(s, c, a, f) ==
    [i \in 1 .. Len(s) |-> IF i < c THEN a[i] ELSE IF i = c THEN f ELSE 0]

(* A place of the loop.                                                     *)
IsPlace(s, c, a, f) ==
    /\ s \in Seq(Range1) /\ c \in 1 .. Len(s)
    /\ a \in [1 .. Len(s) -> Nat] /\ \A i \in 1 .. Len(s) : a[i] < s[i].count
    /\ f \in Nat /\ f < s[c].count

(* The loop starts with nothing before it.                                  *)
LEMMA StartsEmpty ==
    ASSUME NEW s \in Seq(Range1), Len(s) > 0, NEW c \in 1 .. Len(s)
    PROVE  LET a == [i \in 1 .. Len(s) |-> 0]
           IN  IsPlace(s, c, a, 0) /\ Earlier(s, c, a, 0) = {}
<1> DEFINE a == [i \in 1 .. Len(s) |-> 0]
<1>0. Len(s) \in Nat /\ \A i \in 1 .. Len(s) : s[i].count \in Nat /\ s[i].count > 0
  BY RangeFacts DEF Positive
<1>1. IsPlace(s, c, a, 0)
  BY <1>0 DEF IsPlace
<1>2. ASSUME NEW n \in Earlier(s, c, a, 0) PROVE FALSE
  <2>1. \A i \in 1 .. Len(s) : n[i] \in Nat /\ a[i] = 0
    BY DEF Earlier, Indices
  <2>2. ~ Before(n, a, c)
    BY <1>0, <2>1 DEF Before
  <2>3. ~ (n[c] < 0)
    BY <2>1
  <2> QED
    BY <2>2, <2>3 DEF Earlier
<1> QED
  BY <1>1, <1>2

(* A piece takes up where what was before it ends.                          *)
LEMMA PieceFollows ==
    ASSUME NEW s, NEW c, NEW a, NEW f, IsPlace(s, c, a, f),
           NEW q, IsBox(q, s, From(s, c, a, f)),
           \A i \in 1 .. c - 1 : q[i].count = 1,
           \A i \in c + 1 .. Len(s) : q[i].count = s[i].count
    PROVE  /\ Earlier(s, c, a, f) \cap Box(s, q, From(s, c, a, f)) = {}
           /\ Earlier(s, c, a, f) \cup Box(s, q, From(s, c, a, f)) = Earlier(s, c, a, f + q[c].count)
<1> DEFINE lo == From(s, c, a, f)
<1>0. /\ Len(s) \in Nat /\ c \in 1 .. Len(s) /\ c \in Nat /\ f \in Nat
      /\ \A i \in 1 .. Len(s) : a[i] \in Nat /\ q[i].count \in Nat /\ s[i].count \in Nat
      /\ q[c].count \in Nat
  <2>1. s \in Seq(Range1) /\ q \in Seq(Range1) /\ Len(q) = Len(s) /\ c \in 1 .. Len(s) /\ f \in Nat
        /\ a \in [1 .. Len(s) -> Nat]
    BY DEF IsPlace, IsBox
  <2>2. Len(s) \in Nat /\ \A i \in 1 .. Len(s) : s[i].count \in Positive
    BY <2>1, RangeFacts
  <2>3. \A i \in 1 .. Len(q) : q[i].count \in Positive
    BY <2>1, RangeFacts
  <2>4. \A x \in Positive : x \in Nat
    BY DEF Positive
  <2> QED
    BY <2>1, <2>2, <2>3, <2>4
<1>1. ASSUME NEW n \in Indices(s)
      PROVE  n \in Box(s, q, lo) <=> Level(n, a, c) /\ f <= n[c] /\ n[c] < f + q[c].count
  <2>1. \A i \in 1 .. Len(s) : n[i] \in Nat /\ n[i] < s[i].count
    BY DEF Indices
  <2>2. ASSUME n \in Box(s, q, lo)
        PROVE  Level(n, a, c) /\ f <= n[c] /\ n[c] < f + q[c].count
    <3>1. \A i \in 1 .. Len(s) : lo[i] <= n[i] /\ n[i] < lo[i] + q[i].count
      BY <2>2 DEF Box
    <3>2. \A i \in 1 .. c - 1 : i \in 1 .. Len(s) /\ lo[i] = a[i] /\ q[i].count = 1
      BY <1>0 DEF From
    <3>3. lo[c] = f
      BY <1>0 DEF From
    <3>4. Level(n, a, c)
      <4> SUFFICES ASSUME NEW i \in 1 .. c - 1 PROVE n[i] = a[i]
        BY DEF Level
      <4>1. i \in 1 .. Len(s) /\ lo[i] = a[i] /\ q[i].count = 1
        BY <3>2
      <4>2. a[i] <= n[i] /\ n[i] < a[i] + 1
        BY <3>1, <4>1
      <4>3. a[i] \in Nat /\ n[i] \in Nat
        BY <1>0, <2>1, <4>1
      <4> QED
        BY <4>2, <4>3
    <3> QED
      BY <1>0, <3>1, <3>3, <3>4
  <2>3. ASSUME Level(n, a, c), f <= n[c], n[c] < f + q[c].count
        PROVE  n \in Box(s, q, lo)
    <3>1. ASSUME NEW i \in 1 .. Len(s) PROVE lo[i] <= n[i] /\ n[i] < lo[i] + q[i].count
      <4>1. CASE i < c
        <5>1. lo[i] = a[i] /\ q[i].count = 1 /\ n[i] = a[i]
          BY <1>0, <2>3, <4>1 DEF From, Level
        <5> QED
          BY <1>0, <5>1
      <4>2. CASE i = c
        BY <1>0, <2>3, <4>2 DEF From
      <4>3. CASE i > c
        <5>0. i \in c + 1 .. Len(s) /\ ~ (i < c) /\ i # c
          BY <1>0, <4>3
        <5>1. lo[i] = 0 /\ q[i].count = s[i].count
          BY <5>0 DEF From
        <5> QED
          BY <1>0, <2>1, <5>1
      <4> QED
        BY <1>0, <4>1, <4>2, <4>3
    <3> QED
      BY <3>1 DEF Box
  <2> QED
    BY <2>2, <2>3
<1>2. ASSUME NEW n, Before(n, a, c), Level(n, a, c) PROVE FALSE
  <2>1. PICK k \in 1 .. c - 1 : n[k] < a[k]
    BY <1>2 DEF Before
  <2>2. n[k] = a[k] /\ a[k] \in Nat
    BY <1>0, <1>2, <2>1 DEF Level
  <2> QED
    BY <2>1, <2>2
<1>3. \A n \in Indices(s) : n[c] \in Nat
  BY <1>0 DEF Indices
<1>4. Earlier(s, c, a, f) \cap Box(s, q, lo) = {}
  <2> SUFFICES ASSUME NEW n \in Earlier(s, c, a, f), n \in Box(s, q, lo) PROVE FALSE
    OBVIOUS
  <2>1. n \in Indices(s) /\ (Before(n, a, c) \/ (Level(n, a, c) /\ n[c] < f))
    BY DEF Earlier
  <2>2. Level(n, a, c) /\ f <= n[c] /\ n[c] \in Nat
    BY <1>1, <1>3, <2>1
  <2> QED
    BY <1>0, <1>2, <2>1, <2>2
<1>5. ASSUME NEW n \in Indices(s)
      PROVE  (n \in Earlier(s, c, a, f) \/ n \in Box(s, q, lo)) <=> n \in Earlier(s, c, a, f + q[c].count)
  <2>1. n[c] \in Nat /\ (n[c] < f + q[c].count <=> n[c] < f \/ (f <= n[c] /\ n[c] < f + q[c].count))
    BY <1>0, <1>3
  <2> QED
    BY <1>1, <2>1 DEF Earlier
<1>6. \A n : /\ n \in Box(s, q, lo) => n \in Indices(s)
             /\ n \in Earlier(s, c, a, f) => n \in Indices(s)
             /\ n \in Earlier(s, c, a, f + q[c].count) => n \in Indices(s)
  BY DEF Box, Earlier
<1> HIDE DEF lo
<1>7. Earlier(s, c, a, f) \cup Box(s, q, lo) = Earlier(s, c, a, f + q[c].count)
  BY <1>5, <1>6
<1> QED
  BY <1>4, <1>7 DEF lo

(* An index that is nowhere above an odometer, and level with it up to some *)
(* axis, is before it or level with it.                                     *)
LEMMA BeforeOrLevel ==
    ASSUME NEW c \in Nat, NEW n, NEW a, \A i \in 1 .. c - 1 : n[i] \in Nat /\ a[i] \in Nat /\ n[i] <= a[i]
    PROVE  Before(n, a, c) \/ Level(n, a, c)
<1> DEFINE Off == {i \in 1 .. c - 1 : n[i] # a[i]}
<1>1. CASE Off = {}
  BY <1>1 DEF Level
<1>2. CASE Off # {}
  <2>1. PICK k \in Off : \A j \in Off : k <= j
    <3>1. Off \subseteq Nat
      OBVIOUS
    <3> HIDE DEF Off
    <3> QED
      BY <1>2, <3>1, LeastNumber
  <2>2. k \in 1 .. c - 1 /\ n[k] < a[k]
    BY <2>1
  <2>3. ASSUME NEW j \in 1 .. k - 1 PROVE n[j] = a[j]
    <3>1. j \in 1 .. c - 1 /\ ~ (k <= j)
      BY <2>2
    <3>2. j \notin Off
      BY <2>1, <3>1
    <3> QED
      BY <3>1, <3>2
  <2> QED
    BY <2>2, <2>3 DEF Before
<1> QED
  BY <1>1, <1>2

(* When the odometer cannot be turned all of the sample is behind it.       *)
LEMMA TurnedOver ==
    ASSUME NEW s, NEW c, NEW a, NEW f, IsPlace(s, c, a, f), ~ CanTurn(a, s, c)
    PROVE  Earlier(s, c, a, s[c].count) = Indices(s)
<1>0. /\ Len(s) \in Nat /\ c \in 1 .. Len(s) /\ c \in Nat
      /\ \A i \in 1 .. Len(s) : a[i] \in Nat /\ s[i].count \in Nat /\ a[i] < s[i].count
  BY RangeFacts, SMTT(40) DEF IsPlace, Positive
<1>1. ASSUME NEW n \in Indices(s) PROVE n \in Earlier(s, c, a, s[c].count)
  <2>1. \A i \in 1 .. Len(s) : n[i] \in Nat /\ n[i] < s[i].count
    BY DEF Indices
  <2>2. \A i \in 1 .. c - 1 : n[i] \in Nat /\ a[i] \in Nat /\ n[i] <= a[i]
    BY <1>0, <2>1 DEF CanTurn
  <2>3. Before(n, a, c) \/ Level(n, a, c)
    BY <1>0, <2>2, BeforeOrLevel
  <2> QED
    BY <1>0, <2>1, <2>3 DEF Earlier
<1> QED
  BY <1>1 DEF Earlier

(* And when it can, its next element comes right after.                     *)
LEMMA Turns ==
    ASSUME NEW s, NEW c, NEW a, NEW f, IsPlace(s, c, a, f), CanTurn(a, s, c)
    PROVE  /\ IsPlace(s, c, Odometer(a, s, c), 0)
           /\ Earlier(s, c, Odometer(a, s, c), 0) = Earlier(s, c, a, s[c].count)
<1>0. /\ s \in Seq(Range1) /\ Len(s) \in Nat /\ c \in 1 .. Len(s) /\ c \in Nat
      /\ a \in [1 .. Len(s) -> Nat]
      /\ \A i \in 1 .. Len(s) : a[i] \in Nat /\ s[i].count \in Nat /\ s[i].count > 0 /\ a[i] < s[i].count
  BY RangeFacts DEF IsPlace, Positive
<1> DEFINE Turnable == {k \in 1 .. c - 1 : a[k] + 1 < s[k].count}
<1>1. PICK j : j = Max(Turnable)
  OBVIOUS
<1>2. j \in Turnable /\ \A k \in Turnable : k <= j
  <2>1. Turnable \subseteq Nat /\ Turnable # {} /\ \A k \in Turnable : k <= c
    <3>1. Turnable # {}
      BY DEF CanTurn
    <3>2. \A k \in 1 .. c - 1 : k \in Nat /\ k <= c
      BY <1>0
    <3> QED
      BY <3>1, <3>2
  <2> HIDE DEF Turnable
  <2> QED
    BY <1>0, <1>1, <2>1, LargestNumber
<1>3. j \in 1 .. c - 1 /\ a[j] + 1 < s[j].count /\ j \in 1 .. Len(s) /\ j \in Nat
  BY <1>0, <1>2
<1>4. \A k \in j + 1 .. c - 1 : k \in 1 .. Len(s) /\ s[k].count <= a[k] + 1
  <2> SUFFICES ASSUME NEW k \in j + 1 .. c - 1 PROVE k \in 1 .. Len(s) /\ s[k].count <= a[k] + 1
    OBVIOUS
  <2>1. k \in 1 .. c - 1 /\ k \in 1 .. Len(s) /\ ~ (k <= j)
    BY <1>0, <1>3
  <2>2. ~ (a[k] + 1 < s[k].count)
    BY <1>2, <2>1
  <2> QED
    BY <1>0, <2>1, <2>2
<1>5. PICK b : b = Odometer(a, s, c)
  OBVIOUS
<1>6. b = [k \in 1 .. Len(s) |-> IF k < j THEN a[k] ELSE IF k = j THEN a[k] + 1 ELSE 0]
  BY <1>0, <1>1, <1>5 DEF Odometer
<1>7. /\ \A k \in 1 .. j - 1 : b[k] = a[k]
      /\ b[j] = a[j] + 1
      /\ \A k \in j + 1 .. Len(s) : b[k] = 0
  BY <1>0, <1>3, <1>6
<1>8. IsPlace(s, c, b, 0)
  <2>1. \A k \in 1 .. Len(s) : b[k] \in Nat /\ b[k] < s[k].count
    BY <1>0, <1>3, <1>6
  <2>2. b \in [1 .. Len(s) -> Nat]
    BY <1>6, <2>1
  <2> QED
    BY <1>0, <2>1, <2>2 DEF IsPlace
<1>9. ASSUME NEW n \in Indices(s), Before(n, b, c) PROVE Before(n, a, c) \/ Level(n, a, c)
  <2>0. \A i \in 1 .. Len(s) : n[i] \in Nat /\ n[i] < s[i].count
    BY DEF Indices
  <2>1. PICK k \in 1 .. c - 1 : n[k] < b[k] /\ \A i \in 1 .. k - 1 : n[i] = b[i]
    BY <1>9 DEF Before
  <2>2. CASE k < j
    <3>1. n[k] < a[k] /\ \A i \in 1 .. k - 1 : n[i] = a[i]
      BY <1>3, <1>7, <2>1, <2>2
    <3> QED
      BY <2>1, <3>1 DEF Before
  <2>3. CASE k = j
    <3>1. ASSUME NEW i \in 1 .. c - 1 PROVE n[i] \in Nat /\ a[i] \in Nat /\ n[i] <= a[i]
      <4>0. i \in 1 .. Len(s) /\ n[i] \in Nat /\ a[i] \in Nat /\ n[i] < s[i].count /\ s[i].count \in Nat
        BY <1>0, <2>0
      <4>1. CASE i < j
        BY <1>3, <1>7, <2>1, <2>3, <4>0, <4>1
      <4>2. CASE i = j
        BY <1>7, <2>1, <2>3, <4>0, <4>2
      <4>3. CASE i > j
        <5>1. s[i].count <= a[i] + 1
          BY <1>3, <1>4, <4>3
        <5> QED
          BY <4>0, <5>1
      <4> QED
        BY <1>3, <4>1, <4>2, <4>3, <4>0
    <3> QED
      BY <1>0, <3>1, BeforeOrLevel
  <2>4. CASE k > j
    <3>1. b[k] = 0 /\ n[k] \in Nat
      BY <1>0, <1>3, <1>7, <2>0, <2>1, <2>4
    <3> QED
      BY <2>1, <3>1
  <2> QED
    BY <1>3, <2>1, <2>2, <2>3, <2>4
<1>10. ASSUME NEW n \in Indices(s), Before(n, a, c) \/ Level(n, a, c) PROVE Before(n, b, c)
  <2>0. \A i \in 1 .. Len(s) : n[i] \in Nat
    BY DEF Indices
  <2>1. ASSUME \A i \in 1 .. j : n[i] = a[i] PROVE Before(n, b, c)
    <3>1. n[j] < b[j] /\ \A i \in 1 .. j - 1 : n[i] = b[i]
      BY <1>0, <1>3, <1>7, <2>1
    <3> QED
      BY <1>3, <3>1 DEF Before
  <2>2. CASE Level(n, a, c)
    BY <1>0, <1>3, <2>1, <2>2 DEF Level
  <2>3. CASE Before(n, a, c)
    <3>1. PICK k \in 1 .. c - 1 : n[k] < a[k] /\ \A i \in 1 .. k - 1 : n[i] = a[i]
      BY <2>3 DEF Before
    <3>2. CASE k <= j
      <4>1. a[k] \in Nat /\ n[k] \in Nat
        BY <1>0, <2>0, <3>1
      <4>2. n[k] < b[k]
        BY <1>3, <1>7, <3>1, <3>2, <4>1
      <4>3. \A i \in 1 .. k - 1 : n[i] = b[i]
        BY <1>3, <1>7, <3>1, <3>2
      <4> QED
        BY <3>1, <4>2, <4>3 DEF Before
    <3>3. CASE k > j
      BY <1>3, <2>1, <3>1, <3>3
    <3> QED
      BY <1>3, <3>1, <3>2, <3>3
  <2> QED
    BY <1>10, <2>2, <2>3
<1>11. \A n \in Indices(s) : n[c] \in Nat /\ n[c] < s[c].count
  BY <1>0 DEF Indices
<1>12. ASSUME NEW n \in Indices(s)
       PROVE  n \in Earlier(s, c, b, 0) <=> n \in Earlier(s, c, a, s[c].count)
  <2>1. ~ (n[c] < 0) /\ n[c] < s[c].count
    BY <1>11
  <2> QED
    BY <1>9, <1>10, <2>1 DEF Earlier
<1>13. Earlier(s, c, b, 0) = Earlier(s, c, a, s[c].count)
  BY <1>12 DEF Earlier
<1> QED
  BY <1>5, <1>8, <1>13

-----------------------------------------------------------------------------
(* A piece of a sample is read in parts: what of it lies below b units of   *)
(* the axis a it is cut along, the whole of it being one unit where a is 0. *)
Inner(s, q, lo, a, b) == {n \in Box(s, q, lo) : IF a = 0 THEN b > 0 ELSE n[a] < lo[a] + b}
Shift(lo, a, b) == [i \in DOMAIN lo |-> IF i = a THEN lo[i] + b ELSE lo[i]]

LEMMA BoxFacts ==
    ASSUME NEW q, NEW s, NEW lo, IsBox(q, s, lo)
    PROVE  /\ q \in Seq(Range1) /\ s \in Seq(Range1) /\ Len(q) = Len(s) /\ lo \in [1 .. Len(s) -> Nat]
           /\ Len(s) \in Nat
           /\ \A i \in 1 .. Len(s) :
                /\ q[i].start = s[i].start + lo[i] * s[i].stride /\ q[i].stride = s[i].stride
                /\ lo[i] + q[i].count <= s[i].count
                /\ lo[i] \in Nat /\ q[i].count \in Nat /\ q[i].count > 0 /\ s[i].count \in Nat
                /\ s[i].start \in Nat /\ s[i].stride \in Nat
<1>1. /\ q \in Seq(Range1) /\ s \in Seq(Range1) /\ Len(q) = Len(s) /\ lo \in [1 .. Len(s) -> Nat]
      /\ \A i \in 1 .. Len(s) :
           /\ q[i].start = s[i].start + lo[i] * s[i].stride /\ q[i].stride = s[i].stride
           /\ lo[i] + q[i].count <= s[i].count
  BY DEF IsBox
<1>2. Len(s) \in Nat /\ \A i \in 1 .. Len(s) :
        s[i].count \in Positive /\ s[i].start \in Nat /\ s[i].stride \in Positive
  BY <1>1, RangeFacts
<1>3. \A i \in 1 .. Len(q) : q[i].count \in Positive
  BY <1>1, RangeFacts
<1>4. \A x \in Positive : x \in Nat /\ x > 0
  BY DEF Positive
<1> QED
  BY <1>1, <1>2, <1>3, <1>4

(* A piece as PlanPieces cuts it is the next part of the box.               *)
LEMMA PartIsBox ==
    ASSUME NEW q, NEW s, NEW lo, IsBox(q, s, lo), NEW a \in 0 .. Len(q),
           NEW b \in Nat, NEW e \in Nat, b < e, e <= UnitsOf(q, a)
    PROVE  /\ IsBox(Part(q, a, b, e), s, Shift(lo, a, b))
           /\ Inner(s, q, lo, a, b) \cap Box(s, Part(q, a, b, e), Shift(lo, a, b)) = {}
           /\ Inner(s, q, lo, a, b) \cup Box(s, Part(q, a, b, e), Shift(lo, a, b)) = Inner(s, q, lo, a, e)
<1>0. /\ q \in Seq(Range1) /\ s \in Seq(Range1) /\ Len(q) = Len(s) /\ lo \in [1 .. Len(s) -> Nat]
      /\ Len(s) \in Nat
  BY BoxFacts
<1>1. \A i \in 1 .. Len(s) :
        /\ q[i].start = s[i].start + lo[i] * s[i].stride /\ q[i].stride = s[i].stride
        /\ lo[i] + q[i].count <= s[i].count
        /\ lo[i] \in Nat /\ q[i].count \in Nat /\ q[i].count > 0 /\ s[i].count \in Nat
        /\ s[i].start \in Nat /\ s[i].stride \in Nat
  BY BoxFacts
<1>2. CASE a = 0
  <2>1. Part(q, a, b, e) = q
    BY <1>0, <1>2, WholeIsPart
  <2>2. b = 0 /\ e = 1
    BY <1>2 DEF UnitsOf
  <2>3. Shift(lo, a, b) = lo
    <3>1. \A i \in 1 .. Len(s) : i # a
      BY <1>2
    <3>2. Shift(lo, a, b) = [i \in 1 .. Len(s) |-> lo[i]]
      BY <1>0, <3>1 DEF Shift
    <3> QED
      BY <1>0, <3>2
  <2>4. Inner(s, q, lo, a, b) = {} /\ Inner(s, q, lo, a, e) = Box(s, q, lo)
    BY <1>2, <2>2 DEF Inner
  <2> QED
    BY <2>1, <2>3, <2>4, Zenon
<1>3. CASE a # 0
  <2>0. a \in 1 .. Len(s) /\ a \in 1 .. Len(q) /\ e <= q[a].count
    BY <1>0, <1>3 DEF UnitsOf
  <2>1. PICK p : p = Part(q, a, b, e)
    OBVIOUS
  <2>2. /\ p \in Seq(Range1) /\ Len(p) = Len(q)
        /\ \A i \in 1 .. Len(q) : i # a => p[i] = q[i]
        /\ p[a].start = q[a].start + b * q[a].stride
        /\ p[a].count = e - b
        /\ p[a].stride = q[a].stride
    <3>1. q \in Seq(Range1) /\ a \in 1 .. Len(q) /\ b \in Nat /\ e \in Nat /\ b < e
      BY <1>0, <2>0
    <3>2. /\ Part(q, a, b, e) \in Seq(Range1) /\ Len(Part(q, a, b, e)) = Len(q)
          /\ \A i \in 1 .. Len(q) : i # a => Part(q, a, b, e)[i] = q[i]
          /\ Part(q, a, b, e)[a].start = q[a].start + b * q[a].stride
          /\ Part(q, a, b, e)[a].count = e - b
          /\ Part(q, a, b, e)[a].stride = q[a].stride
      BY <3>1, PartType, Zenon
    <3> QED
      BY <2>1, <3>2, Zenon
  <2>3. PICK l : l = Shift(lo, a, b)
    OBVIOUS
  <2>4. l \in [1 .. Len(s) -> Nat] /\ l[a] = lo[a] + b /\ \A i \in 1 .. Len(s) : i # a => l[i] = lo[i]
    <3>1. l = [i \in 1 .. Len(s) |-> IF i = a THEN lo[i] + b ELSE lo[i]]
      BY <1>0, <2>3 DEF Shift
    <3> QED
      BY <1>1, <2>0, <3>1
  <2>5. ASSUME NEW i \in 1 .. Len(s)
        PROVE  /\ p[i].start = s[i].start + l[i] * s[i].stride /\ p[i].stride = s[i].stride
               /\ l[i] + p[i].count <= s[i].count
    <3>1. CASE i # a
      BY <1>0, <1>1, <2>2, <2>4, <3>1
    <3>2. CASE i = a
      <4>1. PICK st \in Nat, sd \in Nat, k \in Nat : st = s[a].start /\ sd = s[a].stride /\ k = lo[a]
        BY <1>1, <2>0
      <4>2. (st + k * sd) + b * sd = st + (k + b) * sd
        OBVIOUS
      <4>3. q[a].start = st + k * sd /\ q[a].stride = sd
        BY <1>1, <2>0, <4>1
      <4>4. p[a].start = s[a].start + l[a] * s[a].stride /\ p[a].stride = s[a].stride
        BY <2>2, <2>4, <4>1, <4>2, <4>3
      <4>5. l[a] + p[a].count <= s[a].count
        <5>1. k + q[a].count <= s[a].count /\ q[a].count \in Nat /\ s[a].count \in Nat
          BY <1>0, <1>1, <2>0, <4>1 DEF Range1, Positive
        <5>2. l[a] = k + b /\ p[a].count = e - b
          BY <2>2, <2>4, <4>1
        <5> QED
          BY <2>0, <5>1, <5>2, SMTT(40)
      <4> QED
        BY <3>2, <4>4, <4>5
    <3> QED
      BY <3>1, <3>2
  <2>6. IsBox(p, s, l)
    BY <1>0, <2>2, <2>4, <2>5 DEF IsBox
  <2>7. ASSUME NEW n \in Indices(s)
        PROVE  n \in Box(s, p, l) <=> n \in Box(s, q, lo) /\ lo[a] + b <= n[a] /\ n[a] < lo[a] + e
    <3>1. \A i \in 1 .. Len(s) : n[i] \in Nat
      BY DEF Indices
    <3>2. l[a] + p[a].count = lo[a] + e /\ lo[a] \in Nat
      <4>1. lo[a] \in Nat /\ l[a] = lo[a] + b /\ p[a].count = e - b
        BY <1>1, <2>0, <2>2, <2>4
      <4> QED
        BY <4>1
    <3>3. ASSUME n \in Box(s, p, l)
          PROVE  n \in Box(s, q, lo) /\ lo[a] + b <= n[a] /\ n[a] < lo[a] + e
      <4>1. \A i \in 1 .. Len(s) : l[i] <= n[i] /\ n[i] < l[i] + p[i].count
        BY <3>3 DEF Box
      <4>2. lo[a] + b <= n[a] /\ n[a] < lo[a] + e
        BY <2>0, <2>4, <3>2, <4>1
      <4>3. ASSUME NEW i \in 1 .. Len(s) PROVE lo[i] <= n[i] /\ n[i] < lo[i] + q[i].count
        <5>1. CASE i # a
          BY <1>0, <2>2, <2>4, <4>1, <5>1
        <5>2. CASE i = a
          BY <1>1, <2>0, <3>1, <4>2, <5>2
        <5> QED
          BY <5>1, <5>2
      <4> QED
        BY <4>2, <4>3 DEF Box
    <3>4. ASSUME n \in Box(s, q, lo), lo[a] + b <= n[a], n[a] < lo[a] + e
          PROVE  n \in Box(s, p, l)
      <4>1. \A i \in 1 .. Len(s) : lo[i] <= n[i] /\ n[i] < lo[i] + q[i].count
        BY <3>4 DEF Box
      <4>2. ASSUME NEW i \in 1 .. Len(s) PROVE l[i] <= n[i] /\ n[i] < l[i] + p[i].count
        <5>1. CASE i # a
          BY <1>0, <2>2, <2>4, <4>1, <5>1
        <5>2. CASE i = a
          BY <2>4, <3>2, <3>4, <5>2
        <5> QED
          BY <5>1, <5>2
      <4> QED
        BY <4>2 DEF Box
    <3> QED
      BY <3>3, <3>4
  <2>8. \A n : n \in Box(s, p, l) \/ n \in Box(s, q, lo) => n \in Indices(s) /\ n[a] \in Nat
    BY <2>0 DEF Box, Indices
  <2>9. \A n : /\ n \in Inner(s, q, lo, a, b) <=> n \in Box(s, q, lo) /\ n[a] < lo[a] + b
               /\ n \in Inner(s, q, lo, a, e) <=> n \in Box(s, q, lo) /\ n[a] < lo[a] + e
    BY <1>3 DEF Inner
  <2>10. lo[a] \in Nat
    BY <1>1, <2>0
  <2>11. ASSUME NEW n
         PROVE  /\ ~ (n \in Inner(s, q, lo, a, b) /\ n \in Box(s, p, l))
                /\ n \in Inner(s, q, lo, a, e) <=> n \in Inner(s, q, lo, a, b) \/ n \in Box(s, p, l)
    <3>1. CASE n \notin Box(s, q, lo)
      BY <2>7, <2>8, <2>9, <3>1
    <3>2. CASE n \in Box(s, q, lo)
      <4>1. n \in Indices(s) /\ n[a] \in Nat
        BY <2>8, <3>2
      <4>2. /\ n[a] < lo[a] + b <=> ~ (lo[a] + b <= n[a])
            /\ n[a] < lo[a] + b => n[a] < lo[a] + e
        BY <2>10, <4>1
      <4>3. /\ n \in Inner(s, q, lo, a, b) <=> n[a] < lo[a] + b
            /\ n \in Inner(s, q, lo, a, e) <=> n[a] < lo[a] + e
            /\ n \in Box(s, p, l) <=> lo[a] + b <= n[a] /\ n[a] < lo[a] + e
        BY <2>7, <2>9, <3>2, <4>1
      <4> QED
        BY <4>2, <4>3
    <3> QED
      BY <3>1, <3>2
  <2>12. Inner(s, q, lo, a, b) \cap Box(s, p, l) = {}
    BY <2>11
  <2>13. Inner(s, q, lo, a, b) \cup Box(s, p, l) = Inner(s, q, lo, a, e)
    BY <2>11
  <2> QED
    BY <2>1, <2>3, <2>6, <2>12, <2>13
<1> QED
  BY <1>2, <1>3

(* Nothing of a piece is before its first unit, all of it before its last.  *)
LEMMA InnerEnds ==
    ASSUME NEW q, NEW s, NEW lo, IsBox(q, s, lo), NEW a \in 0 .. Len(q)
    PROVE  Inner(s, q, lo, a, 0) = {} /\ Inner(s, q, lo, a, UnitsOf(q, a)) = Box(s, q, lo)
<1>0. Len(q) = Len(s) /\ Len(s) \in Nat /\ \A i \in 1 .. Len(s) : lo[i] \in Nat /\ q[i].count \in Nat
  BY BoxFacts
<1>1. CASE a = 0
  BY <1>1 DEF Inner, UnitsOf
<1>2. CASE a # 0
  <2>1. a \in 1 .. Len(s) /\ lo[a] \in Nat
    BY <1>0, <1>2
  <2>2. \A n \in Box(s, q, lo) : n[a] \in Nat /\ lo[a] <= n[a] /\ n[a] < lo[a] + q[a].count
    BY <2>1 DEF Box, Indices
  <2>3. \A n \in Box(s, q, lo) : ~ (n[a] < lo[a] + 0)
    BY <2>1, <2>2
  <2> QED
    BY <1>2, <2>2, <2>3 DEF Inner, UnitsOf
<1> QED
  BY <1>1, <1>2

-----------------------------------------------------------------------------
(* The piece of a sample at a place of the loop, r of the cut axis at most. *)
PieceAt(s, c, a, f, r) ==
    [i \in DOMAIN s |->
       IF i < c THEN [start |-> s[i].start + a[i] * s[i].stride, count |-> 1, stride |-> s[i].stride]
       ELSE IF i = c THEN [start |-> s[i].start + f * s[i].stride, count |-> Least(r, s[i].count - f),
                           stride |-> s[i].stride]
       ELSE s[i]]

LEMMA PieceIsBox ==
    ASSUME NEW s, NEW c, NEW a, NEW f, IsPlace(s, c, a, f), NEW r \in Positive
    PROVE  /\ IsBox(PieceAt(s, c, a, f, r), s, From(s, c, a, f))
           /\ \A i \in 1 .. c - 1 : PieceAt(s, c, a, f, r)[i].count = 1
           /\ PieceAt(s, c, a, f, r)[c].count = Least(r, s[c].count - f)
           /\ \A i \in c + 1 .. Len(s) : PieceAt(s, c, a, f, r)[i] = s[i]
<1>0. /\ s \in Seq(Range1) /\ c \in 1 .. Len(s) /\ c \in Nat /\ Len(s) \in Nat /\ DOMAIN s = 1 .. Len(s)
      /\ a \in [1 .. Len(s) -> Nat] /\ f \in Nat /\ f < s[c].count /\ r \in Nat /\ r > 0
  BY RangeFacts DEF IsPlace, Positive
<1>1. \A i \in 1 .. Len(s) :
        /\ s[i] \in Range1 /\ s[i].start \in Nat /\ s[i].stride \in Positive /\ s[i].stride \in Nat
        /\ s[i].count \in Nat /\ s[i].count > 0 /\ a[i] \in Nat /\ a[i] < s[i].count
  <2>1. \A i \in 1 .. Len(s) :
          s[i] \in Range1 /\ s[i].start \in Nat /\ s[i].stride \in Positive /\ s[i].count \in Positive
    BY <1>0, RangeFacts
  <2>2. \A x \in Positive : x \in Nat /\ x > 0
    BY DEF Positive
  <2>3. \A i \in 1 .. Len(s) : a[i] < s[i].count
    BY DEF IsPlace
  <2> QED
    BY <1>0, <2>1, <2>2, <2>3
<1>2. PICK q : q = PieceAt(s, c, a, f, r)
  OBVIOUS
<1>3. q = [i \in 1 .. Len(s) |->
             IF i < c THEN [start |-> s[i].start + a[i] * s[i].stride, count |-> 1, stride |-> s[i].stride]
             ELSE IF i = c THEN [start |-> s[i].start + f * s[i].stride, count |-> Least(r, s[i].count - f),
                                 stride |-> s[i].stride]
             ELSE s[i]]
  BY <1>0, <1>2 DEF PieceAt
<1>4. PICK lo : lo = From(s, c, a, f)
  OBVIOUS
<1>5. /\ lo = [i \in 1 .. Len(s) |-> IF i < c THEN a[i] ELSE IF i = c THEN f ELSE 0]
      /\ lo \in [1 .. Len(s) -> Nat]
  BY <1>0, <1>1, <1>4 DEF From
<1>5a. \A x, y, z \in Nat : x + y * z \in Nat
  OBVIOUS
<1>6. ASSUME NEW i \in 1 .. Len(s)
      PROVE  /\ q[i] \in Range1
             /\ q[i].start = s[i].start + lo[i] * s[i].stride
             /\ q[i].stride = s[i].stride
             /\ lo[i] + q[i].count <= s[i].count
  <2>0. PICK st \in Nat, sd \in Positive, ct \in Nat, k \in Nat :
          st = s[i].start /\ sd = s[i].stride /\ ct = s[i].count /\ k = a[i] /\ sd \in Nat /\ k < ct
    BY <1>1
  <2>1. CASE i < c
    <3>1. q[i] = [start |-> st + k * sd, count |-> 1, stride |-> sd] /\ lo[i] = k
      BY <1>3, <1>5, <2>0, <2>1
    <3>2. st + k * sd \in Nat /\ 1 \in Positive /\ k + 1 <= ct
      <4>1. st + k * sd \in Nat
        BY <1>5a, <2>0
      <4> QED
        BY <2>0, <4>1 DEF Positive
    <3>3. q[i] \in Range1
      BY <3>1, <3>2 DEF Range1
    <3> QED
      BY <2>0, <3>1, <3>2, <3>3
  <2>2. CASE i = c
    <3>1. q[i] = [start |-> st + f * sd, count |-> Least(r, ct - f), stride |-> sd] /\ lo[i] = f
      BY <1>3, <1>5, <2>0, <2>2
    <3>2. Least(r, ct - f) \in Positive /\ f + Least(r, ct - f) <= ct
      BY <1>0, <2>0, <2>2 DEF Least, Positive
    <3>3. st + f * sd \in Nat
      BY <1>0, <1>5a, <2>0
    <3>4. q[i] \in Range1
      BY <3>1, <3>2, <3>3 DEF Range1
    <3> QED
      BY <2>0, <3>1, <3>2, <3>4
  <2>3. CASE i > c
    <3>1. q[i] = s[i] /\ lo[i] = 0
      BY <1>0, <1>3, <1>5, <2>3
    <3>2. st = st + 0 * sd /\ 0 + ct <= ct
      BY <2>0
    <3> QED
      BY <1>1, <2>0, <3>1, <3>2
  <2> QED
    BY <1>0, <2>1, <2>2, <2>3
<1>7. q \in Seq(Range1) /\ Len(q) = Len(s)
  <2>1. \A n \in Nat : \A g \in [1 .. n -> Range1] : g \in Seq(Range1) /\ Len(g) = n
    OBVIOUS
  <2>2. q \in [1 .. Len(s) -> Range1]
    BY <1>3, <1>6
  <2> QED
    BY <1>0, <2>1, <2>2
<1>8. IsBox(q, s, lo)
  BY <1>0, <1>5, <1>6, <1>7 DEF IsBox
<1>9. /\ \A i \in 1 .. c - 1 : q[i].count = 1
      /\ q[c].count = Least(r, s[c].count - f)
      /\ \A i \in c + 1 .. Len(s) : q[i] = s[i]
  <2>1. ASSUME NEW i \in 1 .. c - 1 PROVE q[i].count = 1
    <3>1. i \in 1 .. Len(s) /\ i < c
      BY <1>0
    <3> QED
      BY <1>3, <3>1
  <2>2. q[c].count = Least(r, s[c].count - f)
    BY <1>0, <1>3
  <2>3. ASSUME NEW i \in c + 1 .. Len(s) PROVE q[i] = s[i]
    <3>1. i \in 1 .. Len(s) /\ ~ (i < c) /\ i # c
      BY <1>0
    <3> QED
      BY <1>3, <3>1
  <2> QED
    BY <2>1, <2>2, <2>3
<1> QED
  BY <1>2, <1>4, <1>8, <1>9

(* Axes of one element add nothing in front either.                         *)
LEMMA OnesBefore ==
    ASSUME NEW q \in Seq(Range1), NEW k \in 1 .. Len(q), \A i \in 1 .. k - 1 : q[i].count = 1
    PROVE  Elements(q) = q[k].count * InnerElements(q, k)
<1>0. Len(q) \in Nat /\ k \in Nat
  OBVIOUS
<1>1. PICK f : Fills(f, q)
  BY ElementsUpto
<1>2. /\ f \in [0 .. Len(q) -> Positive] /\ f[0] = 1
      /\ \A i \in 1 .. Len(q) : f[i] = q[i].count * f[i - 1]
      /\ Elements(q) = f[Len(q)]
  BY <1>1 DEF Fills
<1>3. PICK t : t = SubSeq(q, k + 1, Len(q))
  OBVIOUS
<1>4. t \in Seq(Range1) /\ Len(t) = Len(q) - k /\ \A i \in 1 .. Len(q) - k : t[i] = q[k + i]
  BY <1>0, <1>3
<1>5. PICK g : Fills(g, t)
  BY <1>4, ElementsUpto
<1>6. /\ g \in [0 .. Len(q) - k -> Positive] /\ g[0] = 1
      /\ \A i \in 1 .. Len(q) - k : g[i] = q[k + i].count * g[i - 1]
      /\ Elements(t) = g[Len(q) - k]
  BY <1>4, <1>5 DEF Fills
<1>7. ASSUME NEW i \in 0 .. k - 1 PROVE f[i] = 1
  <2> DEFINE Bad == {j \in 0 .. k - 1 : f[j] # 1}
  <2> SUFFICES ASSUME Bad # {} PROVE FALSE
    OBVIOUS
  <2>1. PICK x \in Bad : \A y \in Bad : x <= y
    <3>1. Bad \subseteq Nat
      OBVIOUS
    <3> HIDE DEF Bad
    <3> QED
      BY <3>1, LeastNumber
  <2>2. x \in 1 .. k - 1 /\ x \in 1 .. Len(q) /\ x - 1 \in 0 .. k - 1 /\ ~ (x <= x - 1)
    BY <1>0, <1>2, <2>1
  <2>3. f[x - 1] = 1
    BY <2>1, <2>2
  <2>4. f[x] = 1 * 1
    BY <1>2, <2>2, <2>3
  <2> QED
    BY <2>1, <2>4
<1>8. PICK d \in Positive : d = q[k].count /\ f[k] = d
  <2>1. f[k - 1] = 1 /\ q[k].count \in Positive
    BY <1>0, <1>7, RangeFacts
  <2>2. \A x \in Positive : x * 1 = x
    BY DEF Positive
  <2> QED
    BY <1>2, <2>1, <2>2
<1>9. f[Len(q)] = d * g[Len(q) - k]
  <2> DEFINE Bad == {j \in 0 .. Len(q) - k : f[k + j] # d * g[j]}
  <2>1. ASSUME Bad # {} PROVE FALSE
    <3>1. PICK x \in Bad : \A y \in Bad : x <= y
      <4>1. Bad \subseteq Nat
        OBVIOUS
      <4> HIDE DEF Bad
      <4> QED
        BY <2>1, <4>1, LeastNumber
    <3>2. x # 0
      <4>1. d * g[0] = d /\ f[k + 0] = d
        BY <1>0, <1>6, <1>8 DEF Positive
      <4> QED
        BY <3>1, <4>1
    <3>3. PICK y \in 0 .. Len(q) - k : x = y + 1 /\ x \in 1 .. Len(q) - k /\ ~ (x <= y)
      <4>1. x - 1 \in 0 .. Len(q) - k /\ x = (x - 1) + 1 /\ x \in 1 .. Len(q) - k /\ ~ (x <= x - 1)
        BY <1>0, <3>1, <3>2
      <4> QED
        BY <4>1
    <3>4. f[k + y] = d * g[y]
      BY <3>1, <3>3
    <3>5. k + x \in 1 .. Len(q) /\ (k + x) - 1 = k + y /\ x - 1 = y
      BY <1>0, <3>3
    <3>6. PICK C \in Nat, G \in Nat : C = q[k + x].count /\ G = g[y]
      <4>1. q[k + x].count \in Positive /\ g[y] \in Positive
        BY <1>6, <3>3, <3>5, RangeFacts
      <4> QED
        BY <4>1 DEF Positive
    <3>7. f[k + x] = C * (d * G) /\ g[x] = C * G
      BY <1>2, <1>6, <3>3, <3>4, <3>5, <3>6
    <3>8. C * (d * G) = d * (C * G)
      BY DEF Positive
    <3> QED
      BY <3>1, <3>7, <3>8
  <2>2. Len(q) - k \in 0 .. Len(q) - k /\ k + (Len(q) - k) = Len(q)
    BY <1>0
  <2> QED
    BY <2>1, <2>2
<1> QED
  BY <1>2, <1>3, <1>6, <1>8, <1>9 DEF InnerElements

(* The elements a piece holds.                                              *)
LEMMA ElementsType == ASSUME NEW q \in Seq(Range1) PROVE Elements(q) \in Positive
<1>1. PICK f : Fills(f, q)
  BY ElementsUpto
<1>2. Len(q) \in 0 .. Len(q)
  OBVIOUS
<1> QED
  BY <1>1, <1>2 DEF Fills

(* The first axis whose followers fit is cut, into runs that fit.           *)
LEMMA CutFacts ==
    ASSUME NEW s \in Seq(Range1), Len(s) > 0, NEW most \in Positive
    PROVE  LET c == CutAxis(s, most)
           IN  /\ c \in 1 .. Len(s)
               /\ RunLength(most, InnerElements(s, c)) \in Positive
               /\ InnerElements(s, c) \in Positive
               /\ RunLength(most, InnerElements(s, c)) * InnerElements(s, c) <= most
<1>0. Len(s) \in Nat /\ DOMAIN s = 1 .. Len(s) /\ Len(s) \in 1 .. Len(s) /\ most \in Nat /\ most >= 1
  BY DEF Positive
<1>1. ASSUME NEW k \in 1 .. Len(s) PROVE InnerElements(s, k) \in Positive
  <2>1. SubSeq(s, k + 1, Len(s)) \in Seq(Range1)
    BY <1>0
  <2> QED
    BY <2>1, ElementsType DEF InnerElements
<1>2. PICK S : S = {k \in DOMAIN s : InnerElements(s, k) <= most}
  OBVIOUS
<1>3. S \subseteq Nat /\ S \subseteq 1 .. Len(s)
  BY <1>0, <1>2
<1>4. Len(s) \in S
  <2>1. SubSeq(s, Len(s) + 1, Len(s)) \in Seq(Range1) /\ Len(SubSeq(s, Len(s) + 1, Len(s))) = 0
    BY <1>0
  <2>2. PICK t \in Seq(Range1) : t = SubSeq(s, Len(s) + 1, Len(s)) /\ Len(t) = 0
    BY <2>1
  <2>3. PICK f : Fills(f, t)
    BY ElementsUpto
  <2>4. Elements(t) = 1
    BY <2>2, <2>3 DEF Fills
  <2> QED
    BY <1>0, <1>2, <2>2, <2>4 DEF InnerElements
<1>5. PICK x \in S : \A y \in S : x <= y
  <2> HIDE <1>2
  <2> QED
    BY <1>3, <1>4, LeastNumber
<1>6. PICK c : c = CutAxis(s, most)
  OBVIOUS
<1>7. c \in S
  <2>1. c = CHOOSE z \in S : \A y \in S : z <= y
    BY <1>2, <1>6, Zenon DEF CutAxis, Min
  <2> QED
    BY <1>5, <2>1
<1>8. c \in 1 .. Len(s) /\ InnerElements(s, c) <= most /\ InnerElements(s, c) \in Positive
  BY <1>1, <1>2, <1>3, <1>7
<1>9. PICK n \in Positive : n = InnerElements(s, c) /\ n <= most /\ n \in Nat
  BY <1>8 DEF Positive
<1>10. AtLeastOne(n) = n
  BY <1>9 DEF AtLeastOne, Positive
<1>11. PICK w \in Nat : w = most \div n /\ w * n <= most
  BY <1>0, <1>9, Quotient
<1>12. w >= 1
  <2>1. most >= 1 * n /\ 1 \in Nat
    BY <1>0, <1>9
  <2> QED
    BY <1>0, <1>11, <2>1, QuotientBelow
<1>13. RunLength(most, n) = w
  BY <1>10, <1>11, <1>12 DEF RunLength, AtLeastOne
<1>14. w \in Positive
  BY <1>12 DEF Positive
<1> QED
  BY <1>6, <1>8, <1>9, <1>11, <1>13, <1>14

(* So a piece fits what it is read into.                                    *)
LEMMA PieceFits ==
    ASSUME NEW s, NEW c, NEW a, NEW f, IsPlace(s, c, a, f), NEW r \in Positive,
           NEW most \in Nat, r * InnerElements(s, c) <= most
    PROVE  Elements(PieceAt(s, c, a, f, r)) <= most /\ Elements(PieceAt(s, c, a, f, r)) \in Nat
<1>0. /\ s \in Seq(Range1) /\ c \in 1 .. Len(s) /\ Len(s) \in Nat /\ f \in Nat /\ f < s[c].count
      /\ s[c].count \in Nat
  BY RangeFacts DEF IsPlace, Positive
<1>1. PICK q : q = PieceAt(s, c, a, f, r)
  OBVIOUS
<1>2. /\ IsBox(q, s, From(s, c, a, f))
      /\ \A i \in 1 .. c - 1 : q[i].count = 1
      /\ q[c].count = Least(r, s[c].count - f)
      /\ \A i \in c + 1 .. Len(s) : q[i] = s[i]
  BY <1>1, PieceIsBox
<1>3. q \in Seq(Range1) /\ Len(q) = Len(s)
  BY <1>2, BoxFacts
<1>4. Elements(q) = q[c].count * InnerElements(q, c)
  BY <1>0, <1>2, <1>3, OnesBefore
<1>5. SubSeq(q, c + 1, Len(q)) = SubSeq(s, c + 1, Len(s))
  <2>1. SubSeq(q, c + 1, Len(s)) = [i \in 1 .. Len(s) - c |-> q[c + i]]
    BY <1>0, <1>3
  <2>2. SubSeq(s, c + 1, Len(s)) = [i \in 1 .. Len(s) - c |-> s[c + i]]
    BY <1>0
  <2>3. \A i \in 1 .. Len(s) - c : c + i \in c + 1 .. Len(s)
    BY <1>0
  <2> QED
    BY <1>2, <1>3, <2>1, <2>2, <2>3
<1>6. InnerElements(q, c) = InnerElements(s, c)
  BY <1>5 DEF InnerElements
<1>7. PICK n \in Nat : n = InnerElements(s, c)
  <2>1. SubSeq(s, c + 1, Len(s)) \in Seq(Range1)
    BY <1>0
  <2> QED
    BY <2>1, ElementsType DEF InnerElements, Positive
<1>8. PICK m \in Nat : m = q[c].count /\ m <= r /\ r \in Nat
  BY <1>0, <1>2 DEF Least, Positive
<1>9. m * n <= r * n
  BY <1>8, TimesKeepsOrder
<1>10. m * n \in Nat /\ r * n \in Nat /\ r * n <= most /\ Elements(q) = m * n
  BY <1>4, <1>6, <1>7, <1>8
<1>11. PICK u \in Nat, v \in Nat : u = m * n /\ v = r * n
  BY <1>10
<1> QED
  BY <1>1, <1>9, <1>10, <1>11

-----------------------------------------------------------------------------
(* What a piece of the sample decodes, whole or a part at a time: chunks    *)
(* that come after those of what is behind it, and no others.               *)
IsSample(s, shape) ==
    s \in Seq(Range1) /\ shape \in Seq(Positive) /\ Len(shape) = Len(s) /\ ChunkEach(s, shape)

LEMMA PieceDecodes ==
    ASSUME NEW s, NEW shape, IsSample(s, shape), NEW c, NEW a, NEW f, IsPlace(s, c, a, f),
           NEW r \in Positive, NEW q, q = PieceAt(s, c, a, f, r)
    PROVE  /\ Image(s, shape, Earlier(s, c, a, f)) \cap ChunksOf(q, shape) = {}
           /\ Image(s, shape, Earlier(s, c, a, f)) \cup ChunksOf(q, shape)
                = Image(s, shape, Earlier(s, c, a, f + Least(r, s[c].count - f)))
<1>1. /\ s \in Seq(Range1) /\ shape \in Seq(Positive) /\ Len(shape) = Len(s) /\ ChunkEach(s, shape)
  BY DEF IsSample
<1>2. PICK lo : lo = From(s, c, a, f)
  OBVIOUS
<1>3. /\ IsBox(q, s, lo)
      /\ \A i \in 1 .. c - 1 : q[i].count = 1
      /\ q[c].count = Least(r, s[c].count - f)
      /\ \A i \in c + 1 .. Len(s) : q[i] = s[i]
  BY <1>2, PieceIsBox
<1>4. ChunksOf(q, shape) = Image(s, shape, Box(s, q, lo))
  BY <1>1, <1>3, ChunksOfBox
<1>5. /\ Earlier(s, c, a, f) \cap Box(s, q, lo) = {}
      /\ Earlier(s, c, a, f) \cup Box(s, q, lo) = Earlier(s, c, a, f + Least(r, s[c].count - f))
  <2>1. \A i \in c + 1 .. Len(s) : q[i].count = s[i].count
    BY <1>3
  <2> QED
    BY <1>2, <1>3, <2>1, PieceFollows
<1>6. Earlier(s, c, a, f) \subseteq Indices(s) /\ Box(s, q, lo) \subseteq Indices(s)
  BY DEF Earlier, Box
<1>7. Image(s, shape, Earlier(s, c, a, f)) \cap Image(s, shape, Box(s, q, lo)) = {}
  BY <1>1, <1>5, <1>6, PartsApart
<1>8. Image(s, shape, Earlier(s, c, a, f)) \cup Image(s, shape, Box(s, q, lo))
        = Image(s, shape, Earlier(s, c, a, f) \cup Box(s, q, lo))
  BY ImageUnion
<1> QED
  BY <1>4, <1>5, <1>7, <1>8, Zenon

LEMMA PartDecodes ==
    ASSUME NEW s, NEW shape, IsSample(s, shape), NEW c, NEW a, NEW f, IsPlace(s, c, a, f),
           NEW r \in Positive, NEW q, q = PieceAt(s, c, a, f, r), NEW x \in 0 .. Len(q),
           NEW b \in Nat, NEW e \in Nat, b < e, e <= UnitsOf(q, x),
           NEW N, N = Earlier(s, c, a, f) \cup Inner(s, q, From(s, c, a, f), x, b)
    PROVE  /\ Image(s, shape, N) \cap ChunksOf(Part(q, x, b, e), shape) = {}
           /\ Image(s, shape, N) \cup ChunksOf(Part(q, x, b, e), shape)
                = Image(s, shape, Earlier(s, c, a, f) \cup Inner(s, q, From(s, c, a, f), x, e))
<1>1. /\ s \in Seq(Range1) /\ shape \in Seq(Positive) /\ Len(shape) = Len(s) /\ ChunkEach(s, shape)
  BY DEF IsSample
<1>2. PICK lo : lo = From(s, c, a, f)
  OBVIOUS
<1>3. /\ IsBox(q, s, lo)
      /\ \A i \in 1 .. c - 1 : q[i].count = 1
      /\ \A i \in c + 1 .. Len(s) : q[i].count = s[i].count
  <2>1. /\ IsBox(q, s, lo)
        /\ \A i \in 1 .. c - 1 : q[i].count = 1
        /\ \A i \in c + 1 .. Len(s) : q[i] = s[i]
    BY <1>2, PieceIsBox
  <2> QED
    BY <2>1
<1>4. PICK p, l : p = Part(q, x, b, e) /\ l = Shift(lo, x, b)
  OBVIOUS
<1>5. /\ IsBox(p, s, l)
      /\ Inner(s, q, lo, x, b) \cap Box(s, p, l) = {}
      /\ Inner(s, q, lo, x, b) \cup Box(s, p, l) = Inner(s, q, lo, x, e)
  BY <1>3, <1>4, PartIsBox
<1>6. ChunksOf(p, shape) = Image(s, shape, Box(s, p, l))
  BY <1>1, <1>5, ChunksOfBox
<1>7. Earlier(s, c, a, f) \cap Box(s, q, lo) = {}
  BY <1>2, <1>3, PieceFollows
<1>8. Box(s, p, l) \subseteq Box(s, q, lo)
  <2>1. Inner(s, q, lo, x, e) \subseteq Box(s, q, lo)
    BY DEF Inner
  <2> QED
    BY <1>5, <2>1
<1>9. N \cap Box(s, p, l) = {} /\ N \cup Box(s, p, l) = Earlier(s, c, a, f) \cup Inner(s, q, lo, x, e)
  BY <1>2, <1>5, <1>7, <1>8
<1>10. N \subseteq Indices(s) /\ Box(s, p, l) \subseteq Indices(s)
  BY DEF Earlier, Box, Inner
<1>11. Image(s, shape, N) \cap Image(s, shape, Box(s, p, l)) = {}
  BY <1>1, <1>9, <1>10, PartsApart
<1>12. Image(s, shape, N) \cup Image(s, shape, Box(s, p, l)) = Image(s, shape, N \cup Box(s, p, l))
  BY ImageUnion
<1> QED
  BY <1>2, <1>4, <1>6, <1>9, <1>11, <1>12, Zenon

(* A piece that has been read to its last unit is behind.                   *)
LEMMA PieceBehind ==
    ASSUME NEW s, NEW c, NEW a, NEW f, IsPlace(s, c, a, f), NEW r \in Positive,
           NEW q, q = PieceAt(s, c, a, f, r), NEW x \in 0 .. Len(q)
    PROVE  /\ Earlier(s, c, a, f) \cup Inner(s, q, From(s, c, a, f), x, 0) = Earlier(s, c, a, f)
           /\ Earlier(s, c, a, f) \cup Inner(s, q, From(s, c, a, f), x, UnitsOf(q, x))
                = Earlier(s, c, a, f + Least(r, s[c].count - f))
<1>2. PICK lo : lo = From(s, c, a, f)
  OBVIOUS
<1>3. /\ IsBox(q, s, lo)
      /\ \A i \in 1 .. c - 1 : q[i].count = 1
      /\ q[c].count = Least(r, s[c].count - f)
      /\ \A i \in c + 1 .. Len(s) : q[i] = s[i]
  BY <1>2, PieceIsBox
<1>4. Inner(s, q, lo, x, 0) = {} /\ Inner(s, q, lo, x, UnitsOf(q, x)) = Box(s, q, lo)
  BY <1>3, InnerEnds
<1>5. Earlier(s, c, a, f) \cup Box(s, q, lo) = Earlier(s, c, a, f + Least(r, s[c].count - f))
  <2>1. \A i \in c + 1 .. Len(s) : q[i].count = s[i].count
    BY <1>3
  <2> QED
    BY <1>2, <1>3, <2>1, PieceFollows
<1> QED
  BY <1>2, <1>4, <1>5

-----------------------------------------------------------------------------
(* Where a prefetch is.  The sample it goes through and what of it has been *)
(* decoded; the place the loop is at, and that its pieces fit.              *)
InLoop == pc \in {"sample", "check", "piece", "pixels", "flags", "sampled"}
Shape == IF sampling = "pixels" THEN read.chunk ELSE read.flag_chunk
Got == IF sampling = "pixels" THEN decoded ELSE flags
Passed == Earlier(sample, cut, at, first)
Here == From(sample, cut, at, first)

LoopInv ==
    /\ sampling \in {"pixels", "flags"}
    /\ sample = OneElementPerChunk(Shape, read.axes)
    /\ IsPlace(sample, cut, at, first)
    /\ run \in Positive /\ buffer \in Nat /\ run * InnerElements(sample, cut) <= buffer
    /\ sampling = "pixels" => flags = {}
    /\ sampling = "flags" => read.apply_mask /\ decoded = ChunksOf(read.axes, read.chunk)
PlaceInv ==
    /\ pc \in {"sample", "check", "flags"} => Got = Image(sample, Shape, Passed)
    /\ pc \in {"check", "piece", "pixels"} => sampling = "pixels"
    /\ pc = "flags" => sampling = "flags"
    /\ pc \in {"check", "flags", "piece", "pixels"} => axes = PieceAt(sample, cut, at, first, run)
    /\ pc \in {"piece", "pixels"} =>
         /\ axis \in 0 .. Len(axes) /\ OnesAfter(axes, axis) /\ units_per_piece \in Int
         /\ begin \in Nat /\ begin <= UnitsOf(axes, axis)
         /\ decoded = Image(sample, Shape, Passed \cup Inner(sample, axes, Here, axis, begin))
    /\ pc = "pixels" => end \in begin + 1 .. UnitsOf(axes, axis)
    /\ pc = "sampled" =>
         Got = Image(sample, Shape,
                     Earlier(sample, cut, at, first + Least(run, sample[cut].count - first)))
PrefetchInv ==
    read \in Reads /\
    (read.prefetch =>
       /\ pc \in {"prefetch", "done", "failed"} \/ InLoop
       /\ ~ again /\ ~ too_small
       /\ pc = "prefetch" => decoded = {} /\ flags = {}
       /\ InLoop => LoopInv /\ PlaceInv
       /\ pc = "done" =>
            /\ decoded = ChunksOf(read.axes, read.chunk)
            /\ flags = IF read.apply_mask THEN ChunksOf(read.axes, read.flag_chunk) ELSE {})

(* The sample of either kind, and what it stands for.                       *)
LEMMA SampleFacts ==
    ASSUME NEW r \in Reads, NEW shape, shape \in {r.chunk, r.flag_chunk},
           NEW s, s = OneElementPerChunk(shape, r.axes)
    PROVE  IsSample(s, shape) /\ Len(s) = Len(r.axes) /\ Len(s) > 0
           /\ Image(s, shape, Indices(s)) = ChunksOf(r.axes, shape)
<1>1. r.axes \in Seq(Range1) /\ Len(r.axes) > 0 /\ shape \in Seq(Positive) /\ Len(shape) = Len(r.axes)
  BY RequestFacts
<1>2. /\ s \in Seq(Range1) /\ Len(s) = Len(r.axes) /\ ChunkEach(s, shape)
      /\ ChunksOf(s, shape) = ChunksOf(r.axes, shape)
  BY <1>1, SampleOfRequest
<1>3. ChunksOf(s, shape) = Image(s, shape, Indices(s))
  BY <1>1, <1>2, ChunksOfIndices DEF Image
<1> QED
  BY <1>1, <1>2, <1>3 DEF IsSample

(* The loop begins with nothing behind it and pieces that fit the buffer.   *)
LEMMA Begins ==
    ASSUME NEW of, of \in {"pixels", "flags"}, read \in Reads, BeginSample(of),
           NEW shape, shape = IF of = "pixels" THEN read.chunk ELSE read.flag_chunk
    PROVE  /\ sampling' = of /\ sample' = OneElementPerChunk(shape, read.axes)
           /\ IsPlace(sample', cut', at', first')
           /\ run' \in Positive /\ buffer' \in Nat /\ run' * InnerElements(sample', cut') <= buffer'
           /\ Earlier(sample', cut', at', first') = {}
<1>0. /\ read.budget \in Nat /\ read.flag_chunk \in Seq(Positive) /\ read.axes \in Seq(Range1)
      /\ DOMAIN read.axes = 1 .. Len(read.axes)
  BY RequestFacts
<1>1. PICK s : s = OneElementPerChunk(shape, read.axes)
  OBVIOUS
<1>2. s \in Seq(Range1) /\ Len(s) = Len(read.axes) /\ Len(s) > 0
  <2>1. shape \in {read.chunk, read.flag_chunk}
    OBVIOUS
  <2> QED
    BY <1>1, <2>1, SampleFacts DEF IsSample
<1>3. PICK bytes \in Positive : bytes = IF of = "pixels" THEN FloatBytes ELSE 1
  BY PiecesAssumption DEF Positive
<1>4. PICK size \in Positive : size = Least(Elements(s), SampleElements(read, bytes))
  <2>1. Elements(s) \in Positive
    BY <1>2, ElementsType
  <2>2. SampleElements(read, bytes) \in Positive
    <3>1. read.budget \div bytes \in Nat
      BY <1>0, <1>3, Quotient
    <3>2. AtLeastOne(read.budget \div bytes) \in Positive
      BY <3>1 DEF AtLeastOne, Positive
    <3> QED
      BY <3>2, PiecesAssumption DEF SampleElements
  <2> QED
    BY <2>1, <2>2 DEF Least
<1>5. PICK most \in Positive : most = (IF of = "pixels" THEN size ELSE FlagPiece(size)) /\ most <= size
  <2>1. CASE of = "pixels"
    BY <1>4, <2>1 DEF Positive
  <2>2. CASE of # "pixels"
    <3>1. PICK chunk_bytes \in Positive : chunk_bytes = ChunkElements(read.flag_chunk)
      BY <1>0, ProductPositive DEF ChunkElements
    <3>2. PICK budget \in Nat :
            budget = IF read.budget # 0 THEN read.budget ELSE DefaultReadBytes(chunk_bytes)
      BY <1>0, <3>1, DefaultType DEF Positive
    <3>3. PICK n \in Positive : n = AtLeastOne(budget \div chunk_bytes)
      <4>1. budget \div chunk_bytes \in Nat
        BY <3>1, <3>2, Quotient
      <4> QED
        BY <4>1 DEF AtLeastOne, Positive
    <3>4. FlagPiece(size) = Least(size, n)
      BY <3>1, <3>2, <3>3, Zenon DEF FlagPiece
    <3>5. Least(size, n) \in Positive /\ Least(size, n) <= size
      BY <1>4, <3>3 DEF Least, Positive
    <3> QED
      BY <2>2, <3>4, <3>5
  <2> QED
    BY <2>1, <2>2
<1>6. /\ sampling' = of /\ sample' = s /\ buffer' = size /\ first' = 0
      /\ at' = [i \in 1 .. Len(s) |-> 0]
  <2>1. sampling' = of /\ sample' = s
    BY <1>1, Zenon DEF BeginSample
  <2>2. buffer' = size
    BY <1>3, <1>4, <2>1, Zenon DEF BeginSample
  <2>3. first' = 0 /\ at' = [i \in 1 .. Len(s) |-> 0]
    BY <1>0, <1>2 DEF BeginSample
  <2> QED
    BY <2>1, <2>2, <2>3
<1>7. cut' = CutAxis(s, most) /\ run' = RunLength(most, InnerElements(s, cut'))
  BY <1>5, <1>6, Zenon DEF BeginSample
<1>8. /\ cut' \in 1 .. Len(s) /\ run' \in Positive /\ InnerElements(s, cut') \in Positive
      /\ run' * InnerElements(s, cut') <= most
  BY <1>2, <1>7, CutFacts
<1>9. IsPlace(s, cut', at', first') /\ Earlier(s, cut', at', first') = {}
  BY <1>2, <1>6, <1>8, StartsEmpty
<1>10. run' * InnerElements(s, cut') <= size /\ size \in Nat
  <2>1. PICK m \in Nat, n \in Nat : m = run' /\ n = InnerElements(s, cut') /\ m * n <= most
    BY <1>8 DEF Positive
  <2>2. PICK w \in Nat : w = m * n
    OBVIOUS
  <2>3. w <= most /\ most <= size /\ most \in Nat /\ size \in Nat
    BY <1>5, <2>1, <2>2 DEF Positive
  <2>4. w <= size
    BY <2>3
  <2> QED
    BY <2>1, <2>2, <2>3, <2>4
<1> QED
  BY <1>1, <1>6, <1>8, <1>9, <1>10

-----------------------------------------------------------------------------
(* The loop's facts, for its steps.                                         *)
LEMMA LoopFacts ==
    ASSUME PrefetchInv, read.prefetch, InLoop
    PROVE  /\ read \in Reads /\ LoopInv /\ PlaceInv /\ ~ again /\ ~ too_small
           /\ IsSample(sample, Shape) /\ Len(sample) = Len(read.axes) /\ Len(sample) > 0
           /\ Image(sample, Shape, Indices(sample)) = ChunksOf(read.axes, Shape)
<1>1. read \in Reads /\ LoopInv /\ PlaceInv /\ ~ again /\ ~ too_small
  BY DEF PrefetchInv
<1>2. Shape \in {read.chunk, read.flag_chunk} /\ sample = OneElementPerChunk(Shape, read.axes)
  BY <1>1 DEF LoopInv, Shape
<1> QED
  BY <1>1, <1>2, SampleFacts

(* The piece the loop is at.                                                *)
LEMMA PieceFacts ==
    ASSUME PrefetchInv, read.prefetch, InLoop, axes = PieceAt(sample, cut, at, first, run)
    PROVE  /\ axes \in Seq(Range1) /\ Len(axes) = Len(sample)
           /\ Elements(axes) <= buffer /\ Elements(axes) \in Nat /\ buffer \in Nat
<1>1. IsPlace(sample, cut, at, first) /\ run \in Positive /\ buffer \in Nat
      /\ run * InnerElements(sample, cut) <= buffer
  BY LoopFacts DEF LoopInv
<1>2. IsBox(axes, sample, From(sample, cut, at, first))
  BY <1>1, PieceIsBox
<1>3. Elements(axes) <= buffer /\ Elements(axes) \in Nat
  BY <1>1, PieceFits
<1> QED
  BY <1>1, <1>2, <1>3, BoxFacts

LEMMA PrefetchStarts == ASSUME Init PROVE PrefetchInv
BY DEF Init, PrefetchInv, InLoop

(* A prefetch that is stopped, refused or fails has done nothing twice.     *)
LEMMA PrefetchFails ==
    ASSUME PrefetchInv, read.prefetch, PrefetchRefused \/ SampleFails \/ PixelsFail PROVE PrefetchInv'
<1>1. read' = read /\ pc' = "failed" /\ again' = again /\ too_small' = too_small
  BY DEF PrefetchRefused, SampleFails, PixelsFail, Goto, history
<1> QED
  BY <1>1 DEF PrefetchInv, InLoop

LEMMA PrefetchWaits ==
    ASSUME PrefetchInv, read.prefetch, AskToStop \/ UNCHANGED vars PROVE PrefetchInv'
<1>1. UNCHANGED <<read, pc, axes, axis, units_per_piece, begin, end, sampling, sample, buffer, cut, run,
                  at, first, decoded, flags, again, too_small>>
  BY DEF AskToStop, vars, piece, loop, history
<1> QED
  BY <1>1 DEF PrefetchInv, InLoop, LoopInv, PlaceInv, Got, Shape, Passed, Here

(* The pixels' sample comes first.                                          *)
LEMMA PixelsBegin ==
    ASSUME PrefetchInv, read.prefetch, PrefetchBegins PROVE PrefetchInv'
<1>1. /\ read' = read /\ read \in Reads /\ pc' = "sample" /\ ~ again' /\ ~ too_small'
      /\ decoded' = {} /\ flags' = {} /\ BeginSample("pixels")
  BY DEF PrefetchInv, PrefetchBegins, history
<1>2. /\ sampling' = "pixels" /\ sample' = OneElementPerChunk(read.chunk, read.axes)
      /\ IsPlace(sample', cut', at', first')
      /\ run' \in Positive /\ buffer' \in Nat /\ run' * InnerElements(sample', cut') <= buffer'
      /\ Earlier(sample', cut', at', first') = {}
  BY <1>1, Begins
<1>3. Shape' = read.chunk /\ Got' = {}
  BY <1>1, <1>2 DEF Shape, Got
<1>4. LoopInv'
  BY <1>1, <1>2, <1>3 DEF LoopInv
<1>5. Image(sample', Shape', {}) = {}
  BY DEF Image
<1>6. PlaceInv'
  BY <1>1, <1>2, <1>3, <1>5 DEF PlaceInv, Passed
<1> QED
  BY <1>1, <1>4, <1>6 DEF PrefetchInv, InLoop

LEMMA TakesPiece ==
    ASSUME PrefetchInv, read.prefetch, NextSample PROVE PrefetchInv'
<1>1. /\ pc = "sample" /\ pc' = IF sampling = "pixels" THEN "check" ELSE "flags"
      /\ UNCHANGED <<read, sampling, sample, buffer, cut, run, at, first, decoded, flags, again, too_small>>
      /\ axes' = SamplePiece
  BY DEF NextSample, Goto, loop, history
<1>2. read \in Reads /\ LoopInv /\ PlaceInv /\ ~ again /\ ~ too_small
  BY <1>1, LoopFacts DEF InLoop
<1>3. axes' = PieceAt(sample, cut, at, first, run)
  BY <1>1, Zenon DEF SamplePiece, PieceAt
<1>4. LoopInv'
  BY <1>1, <1>2 DEF LoopInv, Shape
<1>5. PlaceInv'
  <2>1. Got = Image(sample, Shape, Passed) /\ sampling \in {"pixels", "flags"}
    BY <1>1, <1>2 DEF PlaceInv, LoopInv
  <2>2. Got' = Got /\ Shape' = Shape /\ Passed' = Passed
    BY <1>1 DEF Got, Shape, Passed
  <2> QED
    BY <1>1, <1>3, <2>1, <2>2 DEF PlaceInv
<1> QED
  BY <1>1, <1>2, <1>4, <1>5 DEF PrefetchInv, InLoop

(* A piece of the sample fits its buffer, so it is not refused.             *)
LEMMA PieceChecked ==
    ASSUME PrefetchInv, read.prefetch, CheckRead PROVE PrefetchInv'
<1>1. /\ pc = "check" /\ pc' \in {"failed", "piece"}
      /\ UNCHANGED <<read, sampling, sample, buffer, cut, run, at, first, axes, decoded, flags, again>>
      /\ too_small' = (Elements(axes) > Room) /\ axis' = SplitAxis /\ begin' = 0
      /\ units_per_piece' = IF axis' = 0 THEN 1 ELSE UnitsPerPiece(read, axes, axis', Masks)
  BY DEF CheckRead, Goto, loop
<1>2. read \in Reads /\ LoopInv /\ PlaceInv /\ ~ again /\ ~ too_small /\ Len(sample) = Len(read.axes)
  BY <1>1, LoopFacts DEF InLoop
<1>3. /\ axes = PieceAt(sample, cut, at, first, run) /\ sampling = "pixels"
      /\ Got = Image(sample, Shape, Passed)
  BY <1>1, <1>2 DEF PlaceInv
<1>4. /\ axes \in Seq(Range1) /\ Len(axes) = Len(sample)
      /\ Elements(axes) <= buffer /\ Elements(axes) \in Nat /\ buffer \in Nat
  BY <1>1, <1>3, PieceFacts DEF InLoop
<1>5. ~ too_small'
  <2>1. Room = buffer
    BY DEF Room
  <2>2. ~ (Elements(axes) > buffer)
    BY <1>4
  <2> QED
    BY <1>1, <2>1, <2>2, Zenon
<1>6. LoopInv'
  BY <1>1, <1>2 DEF LoopInv, Shape
<1>7. axis' \in 0 .. Len(axes) /\ OnesAfter(axes, axis')
  <2>1. CASE axis' = 0
    BY <1>4, <2>1 DEF OnesAfter
  <2>2. CASE axis' = SlowestSelectedAxis(axes)
    BY <1>4, <2>2, SlowestFacts DEF OnesAfter
  <2> QED
    BY <1>1, <2>1, <2>2 DEF SplitAxis
<1>8. units_per_piece' \in Int
  <2>1. Masks \in BOOLEAN
    BY DEF Masks
  <2>2. CASE axis' = 0
    BY <1>1, <2>2
  <2>3. CASE axis' # 0
    <3>1. axis' \in 1 .. Len(axes)
      BY <1>4, <1>7, <2>3
    <3>2. UnitsPerPiece(read, axes, axis', Masks) \in Int
      BY <1>2, <1>4, <2>1, <3>1, UnitsType
    <3> QED
      BY <1>1, <2>3, <3>2
  <2> QED
    BY <2>2, <2>3
<1>9. PlaceInv'
  <2>1. IsPlace(sample, cut, at, first) /\ run \in Positive
    BY <1>2 DEF LoopInv
  <2>2. Passed \cup Inner(sample, axes, Here, axis', 0) = Passed
    BY <1>3, <1>7, <2>1, PieceBehind DEF Passed, Here
  <2>3. 0 <= UnitsOf(axes, axis')
    BY <1>4, <1>7, UnitFacts
  <2>4. decoded' = Image(sample, Shape, Passed)
    BY <1>1, <1>3 DEF Got
  <2>5. Shape' = Shape /\ Passed' = Passed /\ Here' = Here
    BY <1>1 DEF Shape, Passed, Here
  <2> QED
    BY <1>1, <1>3, <1>7, <1>8, <2>2, <2>3, <2>4, <2>5 DEF PlaceInv
<1> QED
  BY <1>1, <1>2, <1>5, <1>6, <1>9 DEF PrefetchInv, InLoop

LEMMA PartTaken ==
    ASSUME PrefetchInv, read.prefetch, NextPiece PROVE PrefetchInv'
<1>1. /\ pc = "piece" /\ begin < UnitsOf(axes, axis) /\ end' = PieceEnd
      /\ UNCHANGED <<read, sampling, sample, buffer, cut, run, at, first, axes, axis, units_per_piece, begin,
                     decoded, flags, again, too_small>>
  BY DEF NextPiece, Goto, loop, history, Units, UnitsOf
<1>2. pc' = "pixels"
  BY DEF NextPiece, Goto, Masks
<1>3. read \in Reads /\ LoopInv /\ PlaceInv /\ ~ again /\ ~ too_small /\ Len(sample) = Len(read.axes)
  BY <1>1, LoopFacts DEF InLoop
<1>4. /\ axes = PieceAt(sample, cut, at, first, run) /\ sampling = "pixels"
      /\ axis \in 0 .. Len(axes) /\ OnesAfter(axes, axis) /\ units_per_piece \in Int /\ begin \in Nat
      /\ begin <= UnitsOf(axes, axis)
      /\ decoded = Image(sample, Shape, Passed \cup Inner(sample, axes, Here, axis, begin))
  BY <1>1, <1>3 DEF PlaceInv
<1>5. axes \in Seq(Range1) /\ Len(axes) = Len(sample)
  BY <1>1, <1>4, PieceFacts DEF InLoop
<1>6. UnitsOf(axes, axis) \in Nat
  BY <1>4, <1>5, UnitFacts
<1>7. PieceEnd \in begin + 1 .. UnitsOf(axes, axis)
  <2>1. CASE axis = 0
    BY <1>1, <1>4, <2>1 DEF PieceEnd, UnitsOf
  <2>2. CASE axis # 0
    <3>1. PICK axs : axs = Along(axes, read.chunk, axis)
      OBVIOUS
    <3>2. axs \in Selection
      <4>1. axis \in 1 .. Len(axes) /\ read.chunk \in Seq(Positive) /\ Len(read.chunk) = Len(axes)
        BY <1>3, <1>4, <1>5, <2>2, RequestFacts
      <4>2. axes[axis].start \in Nat /\ axes[axis].stride \in Positive /\ read.chunk[axis] \in Positive
        BY <1>5, <4>1, RangeFacts
      <4> QED
        BY <3>1, <4>2 DEF Along, Selection
    <3>3. PieceEnd = AlignedBlockEnd(begin, units_per_piece, UnitsOf(axes, axis), axs)
      BY <2>2, <3>1, Zenon DEF PieceEnd, Along, Units, UnitsOf
    <3> QED
      BY <1>1, <1>4, <1>6, <3>2, <3>3, BlockEndsBetweenChunks
  <2> QED
    BY <2>1, <2>2
<1>8. LoopInv'
  BY <1>1, <1>3 DEF LoopInv, Shape
<1>9. PlaceInv'
  <2>1. Shape' = Shape /\ Passed' = Passed /\ Here' = Here
    BY <1>1 DEF Shape, Passed, Here
  <2> QED
    BY <1>1, <1>2, <1>4, <1>7, <2>1 DEF PlaceInv
<1> QED
  BY <1>1, <1>2, <1>3, <1>8, <1>9 DEF PrefetchInv, InLoop

(* A part of a piece is read: chunks that nothing before it touched.        *)
LEMMA PartRead ==
    ASSUME PrefetchInv, read.prefetch, ReadPixels PROVE PrefetchInv'
<1>1. /\ pc = "pixels" /\ begin' = end
      /\ UNCHANGED <<read, sampling, sample, buffer, cut, run, at, first, axes, axis, units_per_piece,
                     flags, too_small>>
      /\ decoded' = decoded \cup ChunksOf(PieceAxes, read.chunk)
      /\ again' = (again \/ decoded \cap ChunksOf(PieceAxes, read.chunk) # {})
  BY DEF ReadPixels, Goto, loop, Decode
<1>2. pc' = "piece"
  BY DEF ReadPixels, Goto, Watched
<1>3. read \in Reads /\ LoopInv /\ PlaceInv /\ ~ again /\ ~ too_small /\ IsSample(sample, Shape)
  BY <1>1, LoopFacts DEF InLoop
<1>4. /\ axes = PieceAt(sample, cut, at, first, run) /\ sampling = "pixels"
      /\ axis \in 0 .. Len(axes) /\ OnesAfter(axes, axis) /\ units_per_piece \in Int /\ begin \in Nat
      /\ decoded = Image(sample, Shape, Passed \cup Inner(sample, axes, Here, axis, begin))
      /\ end \in begin + 1 .. UnitsOf(axes, axis)
  BY <1>1, <1>3 DEF PlaceInv
<1>5. axes \in Seq(Range1) /\ UnitsOf(axes, axis) \in Nat
  <2>1. axes \in Seq(Range1)
    BY <1>1, <1>4, PieceFacts DEF InLoop
  <2> QED
    BY <1>4, <2>1, UnitFacts
<1>6. end \in Nat /\ begin < end /\ end <= UnitsOf(axes, axis)
  BY <1>4, <1>5
<1>7. PieceAxes = Part(axes, axis, begin, end) /\ Shape = read.chunk
  BY <1>4, Zenon DEF PieceAxes, Part, Shape
<1>8. /\ decoded \cap ChunksOf(PieceAxes, read.chunk) = {}
      /\ decoded' = Image(sample, Shape, Passed \cup Inner(sample, axes, Here, axis, end))
  <2>1. IsPlace(sample, cut, at, first) /\ run \in Positive
    BY <1>3 DEF LoopInv
  <2>2. PICK N : N = Passed \cup Inner(sample, axes, Here, axis, begin)
    OBVIOUS
  <2>3. /\ Image(sample, Shape, N) \cap ChunksOf(Part(axes, axis, begin, end), Shape) = {}
        /\ Image(sample, Shape, N) \cup ChunksOf(Part(axes, axis, begin, end), Shape)
             = Image(sample, Shape, Passed \cup Inner(sample, axes, Here, axis, end))
    BY <1>3, <1>4, <1>6, <2>1, <2>2, PartDecodes DEF Passed, Here
  <2> QED
    BY <1>1, <1>4, <1>7, <2>2, <2>3, Zenon
<1>9. ~ again'
  BY <1>1, <1>3, <1>8, Zenon
<1>10. LoopInv'
  BY <1>1, <1>3, <1>4 DEF LoopInv, Shape
<1>11. PlaceInv'
  <2>1. Shape' = Shape /\ Passed' = Passed /\ Here' = Here
    BY <1>1 DEF Shape, Passed, Here
  <2> QED
    BY <1>1, <1>2, <1>4, <1>6, <1>8, <2>1 DEF PlaceInv
<1> QED
  BY <1>1, <1>2, <1>3, <1>9, <1>10, <1>11 DEF PrefetchInv, InLoop

LEMMA PieceRead ==
    ASSUME PrefetchInv, read.prefetch, EndRead PROVE PrefetchInv'
<1>1. /\ pc = "piece" /\ pc' = "sampled" /\ begin = UnitsOf(axes, axis)
      /\ UNCHANGED <<read, sampling, sample, buffer, cut, run, at, first, decoded, flags, again, too_small>>
  BY DEF EndRead, Goto, loop, history, Units, UnitsOf
<1>2. read \in Reads /\ LoopInv /\ PlaceInv /\ ~ again /\ ~ too_small
  BY <1>1, LoopFacts DEF InLoop
<1>3. /\ axes = PieceAt(sample, cut, at, first, run) /\ sampling = "pixels" /\ axis \in 0 .. Len(axes)
      /\ decoded = Image(sample, Shape, Passed \cup Inner(sample, axes, Here, axis, begin))
  BY <1>1, <1>2 DEF PlaceInv
<1>4. Got = Image(sample, Shape, Earlier(sample, cut, at, first + Least(run, sample[cut].count - first)))
  <2>1. IsPlace(sample, cut, at, first) /\ run \in Positive
    BY <1>2 DEF LoopInv
  <2>2. Passed \cup Inner(sample, axes, Here, axis, UnitsOf(axes, axis))
          = Earlier(sample, cut, at, first + Least(run, sample[cut].count - first))
    BY <1>3, <2>1, PieceBehind DEF Passed, Here
  <2>3. Got = decoded
    BY <1>3 DEF Got
  <2> QED
    BY <1>1, <1>3, <2>2, <2>3, Zenon
<1>5. LoopInv'
  BY <1>1, <1>2 DEF LoopInv, Shape
<1>6. PlaceInv'
  <2>1. Shape' = Shape /\ Got' = Got
    BY <1>1 DEF Shape, Got
  <2> QED
    BY <1>1, <1>4, <2>1 DEF PlaceInv
<1> QED
  BY <1>1, <1>2, <1>5, <1>6 DEF PrefetchInv, InLoop

(* A piece of the flag's sample is read as it is.                           *)
LEMMA FlagsRead ==
    ASSUME PrefetchInv, read.prefetch, SampleFlags PROVE PrefetchInv'
<1>1. /\ pc = "flags" /\ too_small' = (Elements(axes) > buffer)
      /\ UNCHANGED <<read, sampling, sample, buffer, cut, run, at, first, decoded>>
      /\ (~ too_small' => pc' = "sampled" /\ DecodeFlags(axes))
  BY DEF SampleFlags, Goto, loop
<1>2. read \in Reads /\ LoopInv /\ PlaceInv /\ ~ again /\ ~ too_small /\ IsSample(sample, Shape)
  BY <1>1, LoopFacts DEF InLoop
<1>3. /\ axes = PieceAt(sample, cut, at, first, run) /\ sampling = "flags"
      /\ Got = Image(sample, Shape, Passed)
  BY <1>1, <1>2 DEF PlaceInv
<1>4. Elements(axes) <= buffer /\ Elements(axes) \in Nat /\ buffer \in Nat
  BY <1>1, <1>3, PieceFacts DEF InLoop
<1>5. ~ too_small' /\ pc' = "sampled"
  <2>1. ~ (Elements(axes) > buffer)
    BY <1>4
  <2> QED
    BY <1>1, <2>1, Zenon
<1>6. /\ flags' = flags \cup ChunksOf(axes, read.flag_chunk)
      /\ again' = (again \/ (read.prefetch /\ flags \cap ChunksOf(axes, read.flag_chunk) # {}))
  BY <1>1, <1>5, Zenon DEF DecodeFlags
<1>7. Shape = read.flag_chunk /\ Got = flags
  BY <1>3 DEF Shape, Got
<1>8. /\ flags \cap ChunksOf(axes, read.flag_chunk) = {}
      /\ flags' = Image(sample, Shape, Earlier(sample, cut, at, first + Least(run, sample[cut].count - first)))
  <2>1. IsPlace(sample, cut, at, first) /\ run \in Positive
    BY <1>2 DEF LoopInv
  <2>2. /\ Image(sample, Shape, Passed) \cap ChunksOf(axes, Shape) = {}
        /\ Image(sample, Shape, Passed) \cup ChunksOf(axes, Shape)
             = Image(sample, Shape, Earlier(sample, cut, at, first + Least(run, sample[cut].count - first)))
    BY <1>2, <1>3, <2>1, PieceDecodes DEF Passed
  <2> QED
    BY <1>3, <1>6, <1>7, <2>2, Zenon
<1>9. ~ again'
  BY <1>2, <1>6, <1>8, Zenon
<1>10. LoopInv'
  BY <1>1, <1>2, <1>3 DEF LoopInv, Shape
<1>11. PlaceInv'
  <2>1. Shape' = Shape /\ Got' = flags'
    BY <1>1, <1>3 DEF Shape, Got
  <2> QED
    BY <1>1, <1>5, <1>8, <2>1 DEF PlaceInv
<1> QED
  BY <1>1, <1>2, <1>5, <1>9, <1>10, <1>11 DEF PrefetchInv, InLoop

(* Along the cut axis, or on to the next element of the axes before it.     *)
LEMMA LoopGoesOn ==
    ASSUME PrefetchInv, read.prefetch, NextRun PROVE PrefetchInv'
<1>1. /\ pc = "sampled" /\ pc' = "sample"
      /\ UNCHANGED <<read, sampling, sample, buffer, cut, run, decoded, flags, again, too_small>>
      /\ \/ RunsLeft /\ first' = first + run /\ at' = at
         \/ ~ RunsLeft /\ CanTurn(at, sample, cut) /\ first' = 0 /\ at' = Odometer(at, sample, cut)
  BY DEF NextRun, history
<1>2. read \in Reads /\ LoopInv /\ PlaceInv /\ ~ again /\ ~ too_small
  BY <1>1, LoopFacts DEF InLoop
<1>3. /\ Got = Image(sample, Shape, Earlier(sample, cut, at, first + Least(run, sample[cut].count - first)))
      /\ IsPlace(sample, cut, at, first) /\ run \in Positive
  BY <1>1, <1>2 DEF PlaceInv, LoopInv
<1>4. first \in Nat /\ first < sample[cut].count /\ sample[cut].count \in Nat /\ run \in Nat /\ run > 0
  BY <1>3, RangeFacts DEF IsPlace, Positive
<1>5. /\ IsPlace(sample, cut, at', first')
      /\ Earlier(sample, cut, at', first')
           = Earlier(sample, cut, at, first + Least(run, sample[cut].count - first))
  <2>1. CASE RunsLeft /\ first' = first + run /\ at' = at
    <3>1. first + run < sample[cut].count
      BY <2>1 DEF RunsLeft
    <3>2. Least(run, sample[cut].count - first) = run
      BY <1>4, <3>1 DEF Least
    <3>3. IsPlace(sample, cut, at', first')
      BY <1>3, <1>4, <2>1, <3>1 DEF IsPlace
    <3> QED
      BY <2>1, <3>2, <3>3
  <2>2. CASE ~ RunsLeft /\ CanTurn(at, sample, cut) /\ first' = 0 /\ at' = Odometer(at, sample, cut)
    <3>1. ~ (first + run < sample[cut].count)
      BY <2>2 DEF RunsLeft
    <3>2. first + Least(run, sample[cut].count - first) = sample[cut].count
      BY <1>4, <3>1 DEF Least
    <3>3. IsPlace(sample, cut, at', 0) /\ Earlier(sample, cut, at', 0) = Earlier(sample, cut, at, sample[cut].count)
      BY <1>3, <2>2, Turns
    <3> QED
      BY <2>2, <3>2, <3>3
  <2> QED
    BY <1>1, <2>1, <2>2
<1>6. LoopInv'
  BY <1>1, <1>2, <1>5 DEF LoopInv, Shape
<1>7. PlaceInv'
  <2>1. Shape' = Shape /\ Got' = Got /\ Passed' = Earlier(sample, cut, at', first')
    BY <1>1 DEF Shape, Got, Passed
  <2>2. Got' = Image(sample', Shape', Passed')
    BY <1>1, <1>3, <1>5, <2>1
  <2> QED
    BY <1>1, <2>2 DEF PlaceInv
<1> QED
  BY <1>1, <1>2, <1>6, <1>7 DEF PrefetchInv, InLoop

(* When the odometer has turned over, the chunks of the request are         *)
(* decoded, all of them.                                                    *)
LEMMA LoopOver ==
    ASSUME PrefetchInv, read.prefetch, pc = "sampled", ~ RunsLeft, ~ CanTurn(at, sample, cut)
    PROVE  Got = ChunksOf(read.axes, Shape)
<1>1. /\ LoopInv /\ PlaceInv /\ Image(sample, Shape, Indices(sample)) = ChunksOf(read.axes, Shape)
  BY LoopFacts DEF InLoop
<1>2. /\ Got = Image(sample, Shape, Earlier(sample, cut, at, first + Least(run, sample[cut].count - first)))
      /\ IsPlace(sample, cut, at, first) /\ run \in Positive
  BY <1>1 DEF PlaceInv, LoopInv
<1>3. first \in Nat /\ first < sample[cut].count /\ sample[cut].count \in Nat /\ run \in Nat /\ run > 0
  BY <1>2, RangeFacts DEF IsPlace, Positive
<1>4. first + Least(run, sample[cut].count - first) = sample[cut].count
  BY <1>3 DEF Least, RunsLeft
<1>5. Earlier(sample, cut, at, sample[cut].count) = Indices(sample)
  BY <1>2, TurnedOver
<1> QED
  BY <1>1, <1>2, <1>4, <1>5, Zenon

LEMMA FlagsBegin ==
    ASSUME PrefetchInv, read.prefetch, EndPixels PROVE PrefetchInv'
<1>1. /\ pc = "sampled" /\ ~ RunsLeft /\ ~ CanTurn(at, sample, cut)
      /\ sampling = "pixels" /\ read.apply_mask /\ BeginSample("flags") /\ pc' = "sample"
      /\ UNCHANGED <<read, decoded, flags, again, too_small>>
  BY DEF EndPixels, history
<1>2. read \in Reads /\ LoopInv /\ ~ again /\ ~ too_small
  BY <1>1, LoopFacts DEF InLoop
<1>3. flags = {}
  BY <1>1, <1>2 DEF LoopInv
<1>4. decoded = ChunksOf(read.axes, read.chunk)
  BY <1>1, LoopOver DEF Got, Shape
<1>5. /\ sampling' = "flags" /\ sample' = OneElementPerChunk(read.flag_chunk, read.axes)
      /\ IsPlace(sample', cut', at', first')
      /\ run' \in Positive /\ buffer' \in Nat /\ run' * InnerElements(sample', cut') <= buffer'
      /\ Earlier(sample', cut', at', first') = {}
  BY <1>1, <1>2, Begins
<1>6. Shape' = read.flag_chunk /\ Got' = {}
  BY <1>1, <1>3, <1>5 DEF Shape, Got
<1>7. LoopInv'
  BY <1>1, <1>4, <1>5, <1>6 DEF LoopInv
<1>8. Image(sample', Shape', {}) = {}
  BY DEF Image
<1>9. PlaceInv'
  BY <1>1, <1>5, <1>6, <1>8 DEF PlaceInv, Passed
<1> QED
  BY <1>1, <1>2, <1>7, <1>9 DEF PrefetchInv, InLoop

LEMMA PrefetchEnds ==
    ASSUME PrefetchInv, read.prefetch, EndPrefetch PROVE PrefetchInv'
<1>1. /\ pc = "sampled" /\ ~ RunsLeft /\ ~ CanTurn(at, sample, cut)
      /\ (sampling = "flags" \/ ~ read.apply_mask) /\ pc' = "done"
      /\ UNCHANGED <<read, decoded, flags, again, too_small>>
  BY DEF EndPrefetch, Goto, history
<1>2. read \in Reads /\ LoopInv /\ ~ again /\ ~ too_small
  BY <1>1, LoopFacts DEF InLoop
<1>3. Got = ChunksOf(read.axes, Shape)
  BY <1>1, LoopOver
<1>4. /\ decoded = ChunksOf(read.axes, read.chunk)
      /\ flags = IF read.apply_mask THEN ChunksOf(read.axes, read.flag_chunk) ELSE {}
  <2>1. CASE sampling = "flags"
    BY <1>2, <1>3, <2>1 DEF LoopInv, Got, Shape
  <2>2. CASE sampling = "pixels"
    BY <1>1, <1>2, <1>3, <2>2 DEF LoopInv, Got, Shape
  <2> QED
    BY <1>2, <2>1, <2>2 DEF LoopInv
<1> QED
  BY <1>1, <1>2, <1>4 DEF PrefetchInv, InLoop

-----------------------------------------------------------------------------
(* Whatever a prefetch is cut into, what it has decoded is the part of the  *)
(* sample behind the place its loop is at (PrefetchChunks, ForEachPiece).   *)
THEOREM PrefetchInvariant == Spec => []PrefetchInv
<1>1. Init => PrefetchInv
  BY PrefetchStarts
<1>2. PrefetchInv /\ [Next]_vars => PrefetchInv'
  <2> SUFFICES ASSUME PrefetchInv, [Next]_vars PROVE PrefetchInv'
    OBVIOUS
  <2>1. read' = read /\ read \in Reads
    BY DEF PrefetchInv, Next, Step, vars, CheckRead, NextPiece, MaskRefused, ReadMask, MaskFails, ReadPixels,
           PixelsFail, ProgressTaken, ProgressRefused, EndRead, PrefetchBegins, PrefetchRefused,
           NextSample, SampleFlags, SampleFails, NextRun, EndPixels, EndPrefetch, AskToStop, Goto
  <2>2. CASE ~ read.prefetch
    BY <2>1, <2>2 DEF PrefetchInv
  <2>3. CASE read.prefetch
    <3>1. pc \in {"prefetch", "done", "failed", "sample", "check", "piece", "pixels", "flags", "sampled"}
      BY <2>3 DEF PrefetchInv, InLoop
    <3>2. CASE PrefetchRefused \/ SampleFails \/ PixelsFail
      BY <2>3, <3>2, PrefetchFails
    <3>3. CASE AskToStop \/ UNCHANGED vars
      BY <2>3, <3>3, PrefetchWaits
    <3>4. CASE PrefetchBegins
      BY <2>3, <3>4, PixelsBegin
    <3>5. CASE NextSample
      BY <2>3, <3>5, TakesPiece
    <3>6. CASE CheckRead
      BY <2>3, <3>6, PieceChecked
    <3>7. CASE NextPiece
      BY <2>3, <3>7, PartTaken
    <3>8. CASE ReadPixels
      BY <2>3, <3>8, PartRead
    <3>9. CASE EndRead
      BY <2>3, <3>9, PieceRead
    <3>10. CASE SampleFlags
      BY <2>3, <3>10, FlagsRead
    <3>11. CASE NextRun
      BY <2>3, <3>11, LoopGoesOn
    <3>12. CASE EndPixels
      BY <2>3, <3>12, FlagsBegin
    <3>13. CASE EndPrefetch
      BY <2>3, <3>13, PrefetchEnds
    <3>14. CASE MaskRefused \/ ReadMask \/ MaskFails \/ ProgressTaken \/ ProgressRefused
      BY <3>1, <3>14 DEF MaskRefused, ReadMask, MaskFails, ProgressTaken, ProgressRefused
    <3> QED
      BY <3>2, <3>3, <3>4, <3>5, <3>6, <3>7, <3>8, <3>9, <3>10, <3>11, <3>12, <3>13, <3>14
         DEF Next, Step
  <2> QED
    BY <2>2, <2>3, RequestFacts, <2>1
<1> QED
  BY <1>1, <1>2, PTL DEF Spec

(* A prefetch "decodes exactly the chunks a read of request would", the     *)
(* pixels' and the flag's, each once, and is never refused for a buffer of  *)
(* its own, for every request, chunking and budget.                         *)
THEOREM PrefetchIsExact == Spec => []PrefetchExact
<1>1. PrefetchInv => PrefetchExact
  BY DEF PrefetchInv, PrefetchExact
<1> QED
  BY <1>1, PrefetchInvariant, PTL
=============================================================================
