----------------------------- MODULE PassProofs -----------------------------
(* Proofs about Pass, for every plan. *)
EXTENDS Pass, ChunkBlocksProofs, FiniteSetTheorems

-----------------------------------------------------------------------------
(* A sampled pixel is in the index-th of the chunks that are sampled.       *)
SampleIndex(x, axis, sample) ==
    IF sample < axis.chunk THEN x \div axis.chunk ELSE x \div sample
IsSample(x, axis, sample) == x \in Nat /\ x < axis.length /\ x % sample = 0
ChunksAlong(axis, sample) == AtLeastOne(SampledChunks(axis.length, axis.chunk, sample))

LEMMA AxisFacts ==
    ASSUME NEW axis \in Axis
    PROVE  axis.length \in Positive /\ axis.chunk \in Positive
BY DEF Axis

(* The last sample of an axis. *)
LEMMA LastSample ==
    ASSUME NEW axis \in Axis, NEW sample \in Positive
    PROVE  \E last \in Nat :
             /\ last * sample < axis.length
             /\ \A j \in Nat : j * sample < axis.length => j <= last
             /\ ChunksAlong(axis, sample) =
                  IF sample < axis.chunk THEN (last * sample) \div axis.chunk + 1 ELSE last + 1
<1>1. axis.length - 1 \in Nat /\ axis.length # 0 /\ axis.length \in Nat /\ axis.chunk \in Positive
  BY AxisFacts DEF Positive
<1>2. PICK last \in Nat : last = (axis.length - 1) \div sample
  BY <1>1, Quotient
<1>3. last * sample \in Nat /\ last * sample <= axis.length - 1
  BY <1>1, <1>2, Quotient DEF Positive
<1>4. ASSUME NEW j \in Nat, j * sample < axis.length PROVE j <= last
  <2>1. j * sample \in Nat
    BY DEF Positive
  <2>2. axis.length - 1 >= j * sample
    BY <1>1, <1>4, <2>1
  <2> QED
    BY <1>1, <1>2, <2>2, QuotientBelow
<1>5. PICK q \in Nat : q = (last * sample) \div axis.chunk
  BY <1>1, <1>3, Quotient
<1>6. SampledChunks(axis.length, axis.chunk, sample) =
        IF sample < axis.chunk THEN q + 1 ELSE last + 1
  <2>1. last + 1 - 1 = last
    OBVIOUS
  <2> QED
    BY <1>1, <1>2, <1>5, <2>1 DEF SampledChunks
<1>7. ChunksAlong(axis, sample) = IF sample < axis.chunk THEN q + 1 ELSE last + 1
  BY <1>6 DEF ChunksAlong, AtLeastOne
<1> QED
  BY <1>1, <1>3, <1>4, <1>5, <1>7

LEMMA ChunksAlongType ==
    ASSUME NEW axis \in Axis, NEW sample \in Positive
    PROVE  ChunksAlong(axis, sample) \in Positive
<1>1. PICK last \in Nat :
             /\ ChunksAlong(axis, sample) =
                  IF sample < axis.chunk THEN (last * sample) \div axis.chunk + 1 ELSE last + 1
  BY LastSample
<1>2. last * sample \in Nat
  BY DEF Positive
<1>3. (last * sample) \div axis.chunk \in Nat
  BY <1>2, AxisFacts, Quotient
<1> QED
  BY <1>1, <1>3 DEF Positive

(* Its index is one of the sampled chunks, and that chunk is the pixel's.   *)
LEMMA IndexOfSample ==
    ASSUME NEW axis \in Axis, NEW sample \in Positive, NEW x, IsSample(x, axis, sample)
    PROVE  /\ SampleIndex(x, axis, sample) \in 0 .. ChunksAlong(axis, sample) - 1
           /\ x \div axis.chunk = SampledChunk(SampleIndex(x, axis, sample), axis.chunk, sample)
<1>1. PICK last \in Nat :
             /\ last * sample < axis.length
             /\ \A j \in Nat : j * sample < axis.length => j <= last
             /\ ChunksAlong(axis, sample) =
                  IF sample < axis.chunk THEN (last * sample) \div axis.chunk + 1 ELSE last + 1
  BY LastSample
<1>2. x \in Nat /\ x < axis.length /\ x % sample = 0
  BY DEF IsSample
<1>3. PICK j \in Nat : j = x \div sample /\ x = j * sample
  BY <1>2, MultipleOf
<1>4. j <= last
  BY <1>1, <1>2, <1>3
<1>5. j * sample <= last * sample /\ last * sample \in Nat
  BY <1>4, TimesKeepsOrder DEF Positive
<1>6. CASE sample < axis.chunk
  <2>1. PICK q \in Nat : q = (last * sample) \div axis.chunk
    BY <1>5, AxisFacts, Quotient
  <2>2. x \div axis.chunk \in Nat /\ x \div axis.chunk <= q
    BY <1>2, <1>3, <1>5, <2>1, AxisFacts, Quotient, QuotientKeepsOrder
  <2>3. SampleIndex(x, axis, sample) = x \div axis.chunk
    BY <1>6 DEF SampleIndex
  <2> QED
    BY <1>1, <1>6, <2>1, <2>2, <2>3 DEF SampledChunk
<1>7. CASE ~ (sample < axis.chunk)
  <2>1. SampleIndex(x, axis, sample) = j
    BY <1>3, <1>7 DEF SampleIndex
  <2> QED
    BY <1>1, <1>3, <1>4, <1>7, <2>1 DEF SampledChunk
<1> QED
  BY <1>6, <1>7

(* And each of the sampled chunks has a sample. *)
LEMMA SampleOfIndex ==
    ASSUME NEW axis \in Axis, NEW sample \in Positive, NEW i \in 0 .. ChunksAlong(axis, sample) - 1
    PROVE  \E x : IsSample(x, axis, sample) /\ SampleIndex(x, axis, sample) = i
<1>1. PICK last \in Nat :
             /\ last * sample < axis.length
             /\ \A j \in Nat : j * sample < axis.length => j <= last
             /\ ChunksAlong(axis, sample) =
                  IF sample < axis.chunk THEN (last * sample) \div axis.chunk + 1 ELSE last + 1
  BY LastSample
<1>2. i \in Nat /\ last * sample \in Nat /\ i * axis.chunk \in Nat
  <2>1. i \in Nat
    BY ChunksAlongType DEF Positive
  <2> QED
    BY <2>1, AxisFacts DEF Positive
<1>3. ASSUME NEW j \in Nat, j <= last
      PROVE  IsSample(j * sample, axis, sample) /\ (j * sample) \div sample = j
  <2>1. j * sample \in Nat /\ j * sample <= last * sample
    BY <1>3, TimesKeepsOrder DEF Positive
  <2>2. (j * sample) % sample = 0 /\ (j * sample) \div sample = j
    BY <2>1, MultipleOf
  <2> QED
    BY <1>1, <1>2, <2>1, <2>2, AxisFacts DEF IsSample, Positive
<1>4. CASE sample < axis.chunk
  <2>1. PICK q \in Nat : q = (last * sample) \div axis.chunk
    BY <1>2, AxisFacts, Quotient
  <2>2. i <= q
    BY <1>1, <1>2, <1>4, <2>1
  <2>3. q * axis.chunk <= last * sample
    BY <1>2, <2>1, AxisFacts, Quotient
  <2>4. i * axis.chunk <= q * axis.chunk
    BY <1>2, <2>2, AxisFacts, TimesKeepsOrder DEF Positive
  <2>5. PICK j \in Nat : j = RoundedUp(i * axis.chunk, sample)
    BY <1>2, RoundsUp
  <2>6. j * sample >= i * axis.chunk
    BY <1>2, <2>5, RoundsUp
  <2>7. j <= last
    <3>1. q * axis.chunk \in Nat
      BY AxisFacts DEF Positive
    <3>2. last * sample >= i * axis.chunk
      BY <1>2, <2>3, <2>4, <3>1
    <3> QED
      BY <1>2, <2>5, <3>2, ReachedBy
  <2>8. j * sample < (i + 1) * axis.chunk
    <3>1. (i + 1) * axis.chunk = i * axis.chunk + axis.chunk
      <4>1. i \in Int /\ axis.chunk \in Int
        BY <1>2, AxisFacts DEF Positive
      <4> QED
        BY <4>1, TimesOneMore
    <3>2. CASE i = 0
      <4>1. i * axis.chunk = 0
        BY <3>2, AxisFacts DEF Positive
      <4>2. j = 0
        BY <2>5, <4>1 DEF RoundedUp, Positive
      <4> QED
        BY <1>2, <3>1, <3>2, <4>1, <4>2, AxisFacts DEF Positive
    <3>3. CASE i > 0
      <4>1. i * axis.chunk > 0
        BY <1>2, <3>3, AxisFacts DEF Positive
      <4>2. (j - 1) * sample < i * axis.chunk /\ j > 0
        BY <1>2, <2>5, <4>1, RoundsUp
      <4>3. j * sample = (j - 1) * sample + sample
        BY <4>2 DEF Positive
      <4>4. (j - 1) * sample \in Nat
        BY <4>2 DEF Positive
      <4> QED
        BY <1>2, <1>4, <3>1, <4>2, <4>3, <4>4, AxisFacts DEF Positive
    <3> QED
      BY <1>2, <3>2, <3>3
  <2>9. j * sample \in Nat
    BY DEF Positive
  <2>10. (j * sample) \div axis.chunk = i
    <3>1. PICK k \in Nat : k = (j * sample) \div axis.chunk
      BY <2>9, AxisFacts, Quotient
    <3>2. k >= i /\ k < i + 1
      BY <1>2, <2>6, <2>8, <2>9, <3>1, AxisFacts, QuotientBelow
    <3> QED
      BY <1>2, <3>1, <3>2
  <2>11. SampleIndex(j * sample, axis, sample) = i
    BY <1>4, <2>10 DEF SampleIndex
  <2> QED
    BY <1>3, <2>7, <2>11
<1>5. CASE ~ (sample < axis.chunk)
  <2>1. i <= last
    BY <1>1, <1>2, <1>5
  <2>2. SampleIndex(i * sample, axis, sample) = i
    BY <1>2, <1>3, <1>5, <2>1 DEF SampleIndex
  <2> QED
    BY <1>2, <1>3, <2>1, <2>2
<1> QED
  BY <1>4, <1>5

(* The sampled chunks are different ones. *)
LEMMA SampledChunksDiffer ==
    ASSUME NEW chunk \in Positive, NEW sample \in Positive, NEW i \in Nat, NEW j \in Nat, i < j
    PROVE  /\ SampledChunk(i, chunk, sample) \in Nat /\ SampledChunk(j, chunk, sample) \in Nat
           /\ SampledChunk(i, chunk, sample) < SampledChunk(j, chunk, sample)
<1>1. CASE sample < chunk
  BY <1>1 DEF SampledChunk
<1>2. CASE ~ (sample < chunk)
  <2>1. i * sample \in Nat /\ j * sample \in Nat /\ (i + 1) * sample \in Nat
    BY DEF Positive
  <2>2. PICK q \in Nat : q = (i * sample) \div chunk
    BY <2>1, Quotient
  <2>3. PICK r \in Nat : r = (j * sample) \div chunk
    BY <2>1, Quotient
  <2>4. q * chunk <= i * sample /\ q * chunk \in Nat
    BY <2>1, <2>2, Quotient DEF Positive
  <2>5. (i + 1) * sample <= j * sample
    BY TimesKeepsOrder DEF Positive
  <2>6. (i + 1) * sample = i * sample + sample /\ (q + 1) * chunk = q * chunk + chunk
    BY DEF Positive
  <2>7. j * sample >= (q + 1) * chunk
    BY <1>2, <2>1, <2>4, <2>5, <2>6 DEF Positive
  <2>8. r >= q + 1
    BY <2>1, <2>3, <2>7, QuotientBelow
  <2> QED
    BY <1>2, <2>2, <2>3, <2>8 DEF SampledChunk
<1> QED
  BY <1>1, <1>2

(* A sampled range has the multiples of the sample that lie in it. *)
LEMMA RangeSamples ==
    ASSUME NEW first \in Nat, NEW past \in Nat, NEW sample \in Positive, NEW x
    PROVE  x \in Samples(SampledRange(first, past, sample), sample)
             <=> x \in Nat /\ x % sample = 0 /\ first <= x /\ x < past
<1>1. PICK a \in Nat : a = RoundedUp(first, sample)
  BY RoundsUp
<1>2. PICK b \in Nat : b = RoundedUp(past, sample)
  BY RoundsUp
<1>3. PICK count : count = IF b > a THEN b - a ELSE 0
  OBVIOUS
<1>4. /\ SampledRange(first, past, sample).start = a * sample
      /\ SampledRange(first, past, sample).count = count
  BY <1>1, <1>2, <1>3 DEF SampledRange
<1>5. x \in Samples(SampledRange(first, past, sample), sample)
        <=> \E n \in 0 .. count - 1 : x = a * sample + n * sample
  BY <1>4 DEF Samples
<1>6. ASSUME NEW n \in 0 .. count - 1, x = a * sample + n * sample
      PROVE  x \in Nat /\ x % sample = 0 /\ first <= x /\ x < past
  <2>1. n \in Nat /\ a + n < b
    BY <1>3
  <2>2. PICK j \in Nat : j = a + n
    BY <2>1
  <2>3. (a + n) * sample = a * sample + n * sample
    BY <2>1 DEF Positive
  <2>4. x = j * sample /\ x \in Nat
    BY <1>6, <2>2, <2>3 DEF Positive
  <2>5. j >= a /\ ~ (j >= b)
    BY <2>1, <2>2
  <2>6. x >= first /\ ~ (x >= past)
    BY <1>1, <1>2, <2>4, <2>5, ReachedBy
  <2>7. x % sample = 0
    BY <2>4, MultipleOf
  <2> QED
    BY <2>4, <2>6, <2>7
<1>7. ASSUME x \in Nat, x % sample = 0, first <= x, x < past
      PROVE  \E n \in 0 .. count - 1 : x = a * sample + n * sample
  <2>1. PICK j \in Nat : x = j * sample
    BY <1>7, MultipleOf
  <2>2. j * sample >= first /\ ~ (j * sample >= past)
    BY <1>7, <2>1
  <2>3. j >= a /\ j < b
    BY <1>1, <1>2, <2>2, ReachedBy
  <2>4. j - a \in 0 .. count - 1
    BY <1>3, <2>3
  <2>5. a * sample + (j - a) * sample = j * sample
    BY <2>3 DEF Positive
  <2> QED
    BY <2>1, <2>4, <2>5
<1> QED
  BY <1>5, <1>6, <1>7

(* The samples of some of the sampled chunks are those whose index is one   *)
(* of theirs.                                                               *)
LEMMA SamplesOfChunks ==
    ASSUME NEW axis \in Axis, NEW sample \in Positive, NEW first \in Nat, NEW count \in Positive,
           first + count <= ChunksAlong(axis, sample), NEW x
    PROVE  x \in Samples(SamplesOf(axis, sample, first, count), sample)
             <=> IsSample(x, axis, sample)
                   /\ SampleIndex(x, axis, sample) \in first .. first + count - 1
<1>1. axis.length \in Nat /\ axis.chunk \in Positive /\ axis.chunk \in Nat
  BY AxisFacts DEF Positive
<1>2. PICK final \in Nat : final = first + count - 1
  BY DEF Positive
<1>3. PICK a \in Nat : a = SampledChunk(first, axis.chunk, sample)
  <2>1. first + 1 \in Nat /\ first < first + 1
    OBVIOUS
  <2> QED
    BY <1>1, <2>1, SampledChunksDiffer
<1>4. PICK b \in Nat : b = SampledChunk(final, axis.chunk, sample)
  <2>1. final + 1 \in Nat /\ final < final + 1
    OBVIOUS
  <2> QED
    BY <1>1, <2>1, SampledChunksDiffer
<1>5. a * axis.chunk \in Nat /\ (b + 1) * axis.chunk \in Nat
  BY <1>1
<1>6. PICK past \in Nat : past = Least(axis.length, (b + 1) * axis.chunk)
  BY <1>1, <1>5 DEF Least
<1>7. SamplesOf(axis, sample, first, count) = SampledRange(a * axis.chunk, past, sample)
  BY <1>2, <1>3, <1>4, <1>6 DEF SamplesOf
<1>8. \A y \in Nat : y < past <=> y < axis.length /\ y < (b + 1) * axis.chunk
  BY <1>1, <1>5, <1>6 DEF Least
<1>9. x \in Samples(SamplesOf(axis, sample, first, count), sample)
        <=> x \in Nat /\ x % sample = 0 /\ a * axis.chunk <= x /\ x < axis.length
              /\ x < (b + 1) * axis.chunk
  BY <1>5, <1>7, <1>8, RangeSamples
<1>10. ASSUME IsSample(x, axis, sample)
       PROVE  (a * axis.chunk <= x /\ x < (b + 1) * axis.chunk)
                <=> SampleIndex(x, axis, sample) \in first .. final
  <2>1. x \in Nat
    BY <1>10 DEF IsSample
  <2>2. CASE sample < axis.chunk
    <3>1. a = first /\ b = final
      BY <1>3, <1>4, <2>2 DEF SampledChunk
    <3>2. PICK k \in Nat : k = x \div axis.chunk
      BY <1>1, <2>1, Quotient
    <3>3. (x >= first * axis.chunk <=> k >= first) /\ (x < (final + 1) * axis.chunk <=> k < final + 1)
      <4>1. first * axis.chunk \in Nat /\ (final + 1) * axis.chunk \in Nat
        BY <1>1
      <4> QED
        BY <1>1, <2>1, <3>2, <4>1, QuotientBelow, SMTT(40)
    <3>4. SampleIndex(x, axis, sample) = k
      BY <2>2, <3>2 DEF SampleIndex
    <3> QED
      BY <1>5, <2>1, <3>1, <3>3, <3>4
  <2>3. CASE ~ (sample < axis.chunk)
    <3>1. PICK k \in Nat : k = x \div sample /\ x = k * sample
      BY <1>10, <2>1, MultipleOf DEF IsSample
    <3>2. SampleIndex(x, axis, sample) = k
      BY <2>3, <3>1 DEF SampleIndex
    <3>3. first * sample \in Nat /\ final * sample \in Nat
      BY DEF Positive
    <3>4. a = (first * sample) \div axis.chunk /\ b = (final * sample) \div axis.chunk
      BY <1>3, <1>4, <2>3 DEF SampledChunk
    <3>5. /\ a * axis.chunk <= first * sample /\ first * sample < (a + 1) * axis.chunk
          /\ b * axis.chunk <= final * sample /\ final * sample < (b + 1) * axis.chunk
      BY <1>1, <3>3, <3>4, Quotient
    <3>6. (a + 1) * axis.chunk = a * axis.chunk + axis.chunk
            /\ (b + 1) * axis.chunk = b * axis.chunk + axis.chunk
      BY <1>1, TimesOneMore
    <3>7. b * axis.chunk \in Nat /\ (a + 1) * axis.chunk \in Nat
      BY <1>1
    <3>8. ASSUME k >= first PROVE x >= a * axis.chunk
      <4>1. first * sample <= k * sample
        BY <3>8, TimesKeepsOrder DEF Positive
      <4> QED
        BY <1>5, <2>1, <3>1, <3>3, <3>5, <4>1
    <3>9. ASSUME k < first PROVE x < a * axis.chunk
      <4>1. (k + 1) * sample <= first * sample
        BY <3>9, TimesKeepsOrder DEF Positive
      <4>2. (k + 1) * sample = k * sample + sample
        BY TimesOneMore DEF Positive
      <4> QED
        BY <1>1, <1>5, <2>1, <2>3, <3>1, <3>3, <3>5, <3>6, <3>7, <4>1, <4>2 DEF Positive
    <3>10. ASSUME k <= final PROVE x < (b + 1) * axis.chunk
      <4>1. k * sample <= final * sample
        BY <3>10, TimesKeepsOrder DEF Positive
      <4> QED
        BY <1>5, <2>1, <3>1, <3>3, <3>5, <4>1
    <3>11. ASSUME k > final PROVE x >= (b + 1) * axis.chunk
      <4>1. (final + 1) * sample <= k * sample
        BY <3>11, TimesKeepsOrder DEF Positive
      <4>2. (final + 1) * sample = final * sample + sample
        BY TimesOneMore DEF Positive
      <4> QED
        BY <1>1, <1>5, <2>1, <2>3, <3>1, <3>3, <3>5, <3>6, <3>7, <4>1, <4>2 DEF Positive
    <3>12. (a * axis.chunk <= x /\ x < (b + 1) * axis.chunk) <=> (k >= first /\ k <= final)
      BY <1>5, <2>1, <3>8, <3>9, <3>10, <3>11
    <3> QED
      BY <3>2, <3>12
  <2> QED
    BY <2>2, <2>3
<1> QED
  BY <1>2, <1>9, <1>10 DEF IsSample

-----------------------------------------------------------------------------
(* The bands of a plane and their segments. *)

LEMMA Affords ==
    ASSUME NEW n \in Nat, NEW few \in Nat, NEW many \in Nat, few <= many
    PROVE  /\ UnitsAffordable(n, few) \in Positive /\ UnitsAffordable(n, many) \in Positive
           /\ UnitsAffordable(n, many) <= UnitsAffordable(n, few)
<1>1. PICK d \in Positive : d = AtLeastOne(few)
  BY DEF AtLeastOne, Positive
<1>2. PICK e \in Positive : e = AtLeastOne(many)
  BY DEF AtLeastOne, Positive
<1>3. d <= e /\ d \in Nat /\ e \in Nat
  BY <1>1, <1>2 DEF AtLeastOne, Positive
<1>4. PICK q \in Nat : q = n \div d
  BY Quotient
<1>5. PICK r \in Nat : r = n \div e
  BY Quotient
<1>6. r * e <= n /\ d * r <= e * r /\ r * d \in Nat /\ r * e \in Nat
  BY <1>3, <1>5, Quotient, TimesKeepsOrder
<1>7. r * d = d * r /\ r * e = e * r
  BY <1>3
<1>8. n >= r * d
  BY <1>6, <1>7
<1>9. q >= r
  BY <1>4, <1>8, QuotientBelow
<1> QED
  BY <1>1, <1>2, <1>4, <1>5, <1>9 DEF UnitsAffordable, AtLeastOne, Positive

LEMMA RoundsUpToFewer ==
    ASSUME NEW n \in Nat, NEW d \in Positive, NEW e \in Positive, d <= e
    PROVE  RoundedUp(n, e) <= RoundedUp(n, d)
<1>1. PICK j \in Nat : j = RoundedUp(n, d)
  BY RoundsUp
<1>2. d * j <= e * j /\ d * j = j * d /\ e * j = j * e /\ j * d \in Nat /\ j * e \in Nat
  BY TimesKeepsOrder DEF Positive
<1>3. j * d >= n
  BY <1>1, RoundsUp
<1>4. j * e >= n
  BY <1>2, <1>3
<1> QED
  BY <1>1, <1>4, ReachedBy

LEMMA PlaneNumbers ==
    ASSUME NEW p \in PlanFields
    PROVE  /\ p.u \in Axis /\ p.v \in Axis /\ p.sample \in Positive /\ p.chunks_per_read \in Nat
           /\ RowChunks(p) = ChunksAlong(p.u, p.sample) /\ RowChunks(p) \in Positive
           /\ ColumnChunks(p) = ChunksAlong(p.v, p.sample) /\ ColumnChunks(p) \in Positive
           /\ BandRows(p) \in Positive /\ Bands(p) \in Positive
           /\ Bands(p) * BandRows(p) >= ColumnChunks(p)
           /\ (Bands(p) - 1) * BandRows(p) < ColumnChunks(p)
<1>1. p.u \in Axis /\ p.v \in Axis /\ p.sample \in Positive /\ p.chunks_per_read \in Nat
  BY DEF PlanFields
<1>2. /\ RowChunks(p) = ChunksAlong(p.u, p.sample)
      /\ ColumnChunks(p) = ChunksAlong(p.v, p.sample)
  BY DEF RowChunks, ColumnChunks, ChunksAlong
<1>3. RowChunks(p) \in Positive /\ ColumnChunks(p) \in Positive
  BY <1>1, <1>2, ChunksAlongType
<1>4. BandRows(p) \in Positive
  <2>1. RowChunks(p) \in Nat /\ RowChunks(p) <= RowChunks(p)
    BY <1>3 DEF Positive
  <2> QED
    BY <1>1, <2>1, Affords DEF BandRows
<1>5. /\ Bands(p) \in Nat /\ Bands(p) > 0
      /\ Bands(p) * BandRows(p) >= ColumnChunks(p)
      /\ (Bands(p) - 1) * BandRows(p) < ColumnChunks(p)
  BY <1>3, <1>4, RoundsUp DEF Bands, Positive
<1> QED
  BY <1>1, <1>2, <1>3, <1>4, <1>5 DEF Positive

(* Every band has rows, the last what is left of them, and is cut in no     *)
(* more segments than the first.                                            *)
IsBand(p, band) == band \in Nat /\ band < Bands(p)
BandFacts(p, band) ==
    /\ RowsOf(p, band) \in Positive /\ RowsOf(p, band) <= BandRows(p)
    /\ band * BandRows(p) \in Nat
    /\ band * BandRows(p) + RowsOf(p, band) <= ColumnChunks(p)
    /\ band + 1 < Bands(p) => RowsOf(p, band) = BandRows(p)
    /\ band + 1 = Bands(p) => band * BandRows(p) + RowsOf(p, band) = ColumnChunks(p)
    /\ Width(p, band) \in Positive /\ Segments(p, band) \in Positive
    /\ Segments(p, band) * Width(p, band) >= RowChunks(p)
    /\ \A s \in Nat : s < Segments(p, band) <=> s * Width(p, band) < RowChunks(p)

LEMMA FactsOfBand == ASSUME NEW p \in PlanFields, NEW band, IsBand(p, band) PROVE BandFacts(p, band)
<1>1. PICK B \in Positive : B = BandRows(p)
  BY PlaneNumbers
<1>2. PICK C \in Positive : C = ColumnChunks(p)
  BY PlaneNumbers
<1>3. PICK N \in Positive : N = Bands(p)
  BY PlaneNumbers
<1>4. PICK R \in Positive : R = RowChunks(p)
  BY PlaneNumbers
<1>5. B \in Nat /\ C \in Nat /\ N \in Nat /\ R \in Nat /\ B > 0 /\ R > 0
  BY DEF Positive
<1>6. N * B >= C /\ (N - 1) * B < C
  BY <1>1, <1>2, <1>3, PlaneNumbers
<1>7. band \in Nat /\ band < N
  BY <1>3 DEF IsBand
<1>8. PICK at \in Nat : at = band * B
  BY <1>5, <1>7
<1>9. at < C
  <2>1. band * B <= (N - 1) * B
    BY <1>5, <1>7, TimesKeepsOrder
  <2>2. (N - 1) * B \in Nat
    BY <1>5, <1>7
  <2> QED
    BY <1>5, <1>6, <1>8, <2>1, <2>2
<1>10. band + 1 < N => at + B <= C
  <2> SUFFICES ASSUME band + 1 < N PROVE at + B <= C
    OBVIOUS
  <2>1. (band + 1) * B <= (N - 1) * B
    BY <1>5, <1>7, TimesKeepsOrder
  <2>2. (band + 1) * B = at + B
    BY <1>5, <1>7, <1>8, TimesOneMore
  <2>3. (N - 1) * B \in Nat
    BY <1>5, <1>7
  <2> QED
    BY <1>5, <1>6, <2>1, <2>2, <2>3
<1>11. band + 1 = N => at + B >= C
  BY <1>5, <1>6, <1>7, <1>8, TimesOneMore
<1>12. PICK rows : rows = Least(B, C - at)
  OBVIOUS
<1>13. RowsOf(p, band) = rows
  BY <1>1, <1>2, <1>8, <1>12 DEF RowsOf
<1>14. /\ rows \in Positive /\ rows <= B /\ at + rows <= C
       /\ band + 1 < N => rows = B
       /\ band + 1 = N => at + rows = C
  BY <1>5, <1>9, <1>10, <1>11, <1>12 DEF Least, Positive
<1>15. PICK W \in Positive : W = Width(p, band)
  <2>1. rows \in Nat
    BY <1>14 DEF Positive
  <2> QED
    BY <1>13, <2>1, PlaneNumbers, Affords DEF Width
<1>16. PICK S \in Nat : S = Segments(p, band) /\ S > 0 /\ S * W >= R
  BY <1>4, <1>5, <1>15, RoundsUp DEF Segments
<1>17. ASSUME NEW s \in Nat PROVE s < S <=> s * W < R
  <2>1. s * W >= R <=> s >= S
    BY <1>4, <1>5, <1>15, <1>16, ReachedBy DEF Segments
  <2>2. s * W \in Nat
    BY DEF Positive
  <2> QED
    BY <1>5, <2>1, <2>2
<1> QED
  BY <1>1, <1>2, <1>3, <1>4, <1>7, <1>8, <1>13, <1>14, <1>15, <1>16, <1>17 DEF BandFacts, Positive

LEMMA SegmentsOfBands ==
    ASSUME NEW p \in PlanFields, NEW band, IsBand(p, band)
    PROVE  /\ Segments(p, band) <= Segments(p, 0)
           /\ band + 1 < Bands(p) => Segments(p, band) = Segments(p, 0)
           /\ IsBand(p, 0)
<1>1. IsBand(p, 0)
  BY PlaneNumbers DEF IsBand, Positive
<1>2. BandFacts(p, band) /\ BandFacts(p, 0)
  BY <1>1, FactsOfBand
<1>3. RowsOf(p, band) \in Nat /\ RowsOf(p, 0) \in Nat /\ BandRows(p) \in Nat
        /\ Bands(p) \in Nat /\ RowChunks(p) \in Nat
  BY <1>2, PlaneNumbers DEF BandFacts, Positive
<1>4. CASE band = 0
  BY <1>1, <1>2, <1>4 DEF BandFacts, Positive
<1>5. CASE band # 0
  <2>1. 0 + 1 < Bands(p) /\ RowsOf(p, 0) = BandRows(p)
    BY <1>2, <1>3, <1>5 DEF IsBand, BandFacts
  <2>2. RowsOf(p, band) <= RowsOf(p, 0)
    BY <1>2, <2>1 DEF BandFacts
  <2>3. Width(p, 0) <= Width(p, band)
    BY <1>3, <2>2, PlaneNumbers, Affords DEF Width
  <2>4. Segments(p, band) <= Segments(p, 0)
    BY <1>2, <1>3, <2>3, RoundsUpToFewer DEF Segments, BandFacts
  <2>5. band + 1 < Bands(p) => Segments(p, band) = Segments(p, 0)
    BY <1>2, <2>1 DEF BandFacts, Segments, Width
  <2> QED
    BY <1>1, <2>4, <2>5
<1> QED
  BY <1>4, <1>5

(* A place among the bands of a plane, and the number it has. *)
IsPlace(p, band, segment) ==
    IsBand(p, band) /\ segment \in Nat /\ segment < Segments(p, band)
PlaceNumber(p, band, segment) == band * Segments(p, 0) + segment + 1
BandOf(p, i) == (i - 1) \div Segments(p, 0)
SegmentOf(p, i) == (i - 1) % Segments(p, 0)
PlacesOf(p) == (Bands(p) - 1) * Segments(p, 0) + Segments(p, Bands(p) - 1)

LEMMA PlaneNumbered ==
    ASSUME NEW p \in PlanFields
    PROVE  /\ PlacesOf(p) \in Positive
           /\ PlaneBands(p) = [i \in 1 .. PlacesOf(p) |-> Segment(p, BandOf(p, i), SegmentOf(p, i))]
<1>1. IsBand(p, 0) /\ IsBand(p, Bands(p) - 1) /\ Bands(p) - 1 \in Nat
  BY PlaneNumbers DEF IsBand, Positive
<1>2. Segments(p, 0) \in Positive /\ Segments(p, Bands(p) - 1) \in Positive
  BY <1>1, FactsOfBand DEF BandFacts
<1>3. (Bands(p) - 1) * Segments(p, 0) \in Nat
  BY <1>1, <1>2 DEF Positive
<1> QED
  BY <1>2, <1>3 DEF PlacesOf, PlaneBands, BandOf, SegmentOf, Positive

(* Every number up to the last is that of a place. *)
LEMMA PlaceOfNumber ==
    ASSUME NEW p \in PlanFields, NEW i \in 1 .. PlacesOf(p)
    PROVE  /\ IsPlace(p, BandOf(p, i), SegmentOf(p, i))
           /\ PlaceNumber(p, BandOf(p, i), SegmentOf(p, i)) = i
<1>1. PICK S \in Positive : S = Segments(p, 0)
  BY PlaneNumbers, FactsOfBand, SegmentsOfBands DEF BandFacts, IsBand, Positive
<1>2. PICK N \in Positive : N = Bands(p)
  BY PlaneNumbers
<1>3. S \in Nat /\ N \in Nat /\ N - 1 \in Nat /\ S > 0
  BY DEF Positive
<1>4. IsBand(p, N - 1)
  BY <1>2, <1>3 DEF IsBand
<1>5. PICK L \in Nat : L = Segments(p, N - 1) /\ L <= S
  BY <1>1, <1>4, FactsOfBand, SegmentsOfBands DEF BandFacts, Positive
<1>6. PICK full \in Nat : full = (N - 1) * S
  BY <1>3
<1>7. PlacesOf(p) = full + L
  BY <1>1, <1>2, <1>5, <1>6 DEF PlacesOf
<1>8. PICK n \in Nat : n = i - 1 /\ n < full + L
  BY <1>7
<1>9. PICK b \in Nat : b = n \div S
  BY Quotient
<1>10. PICK s \in Nat : s = n % S /\ s < S /\ n = b * S + s
  BY <1>9, Division
<1>11. BandOf(p, i) = b /\ SegmentOf(p, i) = s
  BY <1>1, <1>8, <1>9, <1>10 DEF BandOf, SegmentOf
<1>12. b < N
  <2>1. N * S = full + S
    <3>1. N - 1 + 1 = N
      BY <1>3
    <3> QED
      BY <1>3, <1>6, <3>1, TimesOneMore
  <2>2. n < N * S
    BY <1>3, <1>5, <1>8, <2>1
  <2> QED
    BY <1>3, <1>9, <2>2, QuotientBelow
<1>13. IsBand(p, b)
  BY <1>2, <1>12 DEF IsBand
<1>14. s < Segments(p, b)
  <2>1. CASE b + 1 < N
    BY <1>1, <1>2, <1>10, <1>13, <2>1, SegmentsOfBands
  <2>2. CASE b = N - 1
    <3>1. b * S = full
      BY <1>6, <2>2
    <3>2. s < L
      BY <1>3, <1>8, <1>10, <3>1
    <3> QED
      BY <1>5, <2>2, <3>2
  <2> QED
    BY <1>3, <1>12, <2>1, <2>2
<1> QED
  <2>1. IsPlace(p, b, s)
    BY <1>13, <1>14 DEF IsPlace
  <2>2. PICK m \in Nat : m = b * S
    BY <1>3
  <2>3. m + s + 1 = i
    BY <1>8, <1>10, <2>2
  <2>4. PlaceNumber(p, b, s) = i
    BY <1>1, <2>2, <2>3 DEF PlaceNumber
  <2> QED
    BY <1>11, <2>1, <2>4

(* And every place has one of them. *)
LEMMA NumberOfPlace ==
    ASSUME NEW p \in PlanFields, NEW band, NEW segment, IsPlace(p, band, segment)
    PROVE  LET i == PlaceNumber(p, band, segment)
           IN  i \in 1 .. PlacesOf(p) /\ BandOf(p, i) = band /\ SegmentOf(p, i) = segment
<1>1. PICK S \in Positive : S = Segments(p, 0)
  BY PlaneNumbers, FactsOfBand, SegmentsOfBands DEF BandFacts, IsBand, Positive
<1>2. PICK N \in Positive : N = Bands(p)
  BY PlaneNumbers
<1>3. S \in Nat /\ N \in Nat /\ N - 1 \in Nat /\ S > 0
  BY DEF Positive
<1>4. IsBand(p, band) /\ band \in Nat /\ band < N /\ segment \in Nat /\ segment < Segments(p, band)
  BY <1>2 DEF IsPlace, IsBand
<1>5. PICK n \in Nat : n = band * S + segment
  BY <1>3, <1>4
<1>6. segment < S
  BY <1>1, <1>3, <1>4, FactsOfBand, SegmentsOfBands DEF BandFacts, Positive
<1>7. n \div S = band
  <2>1. PICK q \in Nat : q = n \div S
    BY Quotient
  <2>2. (band + 1) * S = band * S + S /\ band * S \in Nat
    BY <1>3, <1>4, TimesOneMore
  <2>3. n >= band * S /\ n < (band + 1) * S
    BY <1>3, <1>4, <1>5, <1>6, <2>2
  <2>4. q >= band /\ q < band + 1
    BY <1>4, <2>1, <2>3, QuotientBelow
  <2> QED
    BY <1>4, <2>1, <2>4
<1>8. n % S = segment
  <2>1. PICK s \in Nat : s = n % S /\ n = band * S + s
    BY <1>7, Division
  <2>2. band * S \in Nat
    BY <1>3, <1>4
  <2> QED
    BY <1>4, <1>5, <2>1, <2>2
<1>9. PICK i \in Nat : i = PlaceNumber(p, band, segment) /\ i = n + 1
  BY <1>1, <1>5 DEF PlaceNumber
<1>10. i <= PlacesOf(p)
  <2>1. PICK full \in Nat : full = (N - 1) * S
    BY <1>3
  <2>2. PICK L \in Nat : L = Segments(p, N - 1)
    <3>1. IsBand(p, N - 1)
      BY <1>2, <1>3 DEF IsBand
    <3> QED
      BY <3>1, FactsOfBand DEF BandFacts, Positive
  <2>3. PlacesOf(p) = full + L
    BY <1>1, <1>2, <2>1, <2>2 DEF PlacesOf
  <2>4. CASE band = N - 1
    BY <1>4, <1>5, <1>9, <2>1, <2>2, <2>3, <2>4
  <2>5. CASE band + 1 < N
    <3>1. (band + 1) * S <= (N - 1) * S
      BY <1>3, <1>4, <2>5, TimesKeepsOrder
    <3>2. (band + 1) * S = band * S + S /\ band * S \in Nat
      BY <1>3, <1>4, TimesOneMore
    <3> QED
      BY <1>3, <1>4, <1>5, <1>6, <1>9, <2>1, <2>2, <2>3, <3>1, <3>2
  <2> QED
    BY <1>3, <1>4, <2>4, <2>5
<1> QED
  <2>1. i - 1 = n /\ i \in 1 .. PlacesOf(p)
    BY <1>9, <1>10, PlaneNumbered DEF Positive
  <2> QED
    BY <1>1, <1>7, <1>8, <1>9, <2>1 DEF BandOf, SegmentOf

-----------------------------------------------------------------------------
(* What a segment covers, by the indices of its sampled chunks. *)

ColumnOf(p, band, segment) == segment * Width(p, band)
WidthOf(p, band, segment) == Least(Width(p, band), RowChunks(p) - ColumnOf(p, band, segment))
InPlace(p, band, segment, a, b) ==
    /\ a \in ColumnOf(p, band, segment)
               .. ColumnOf(p, band, segment) + WidthOf(p, band, segment) - 1
    /\ b \in band * BandRows(p) .. band * BandRows(p) + RowsOf(p, band) - 1

LEMMA SegmentWithin ==
    ASSUME NEW p \in PlanFields, NEW band, NEW segment, IsPlace(p, band, segment)
    PROVE  /\ ColumnOf(p, band, segment) \in Nat /\ WidthOf(p, band, segment) \in Positive
           /\ WidthOf(p, band, segment) <= Width(p, band)
           /\ ColumnOf(p, band, segment) + WidthOf(p, band, segment) <= RowChunks(p)
           /\ Segment(p, band, segment).chunks = WidthOf(p, band, segment) * RowsOf(p, band)
           /\ Segment(p, band, segment).u =
                SamplesOf(p.u, p.sample, ColumnOf(p, band, segment), WidthOf(p, band, segment))
           /\ Segment(p, band, segment).v =
                SamplesOf(p.v, p.sample, band * BandRows(p), RowsOf(p, band))
<1>1. PICK W \in Positive : W = Width(p, band)
  BY FactsOfBand DEF IsPlace, BandFacts
<1>2. PICK R \in Positive : R = RowChunks(p)
  BY PlaneNumbers
<1>3. W \in Nat /\ W > 0 /\ R \in Nat /\ segment \in Nat
  BY DEF Positive, IsPlace
<1>4. PICK column \in Nat : column = segment * W
  BY <1>3
<1>5. column < R
  BY <1>1, <1>2, <1>3, <1>4, FactsOfBand DEF IsPlace, BandFacts
<1>6. ColumnOf(p, band, segment) = column
  BY <1>1, <1>4 DEF ColumnOf
<1>7. PICK width : width = Least(W, R - column)
  OBVIOUS
<1>8. width \in Positive /\ width <= W /\ column + width <= R
  BY <1>3, <1>5, <1>7 DEF Least, Positive
<1>9. WidthOf(p, band, segment) = width
  BY <1>1, <1>2, <1>6, <1>7 DEF WidthOf
<1>10. /\ Segment(p, band, segment).chunks = WidthOf(p, band, segment) * RowsOf(p, band)
       /\ Segment(p, band, segment).u =
            SamplesOf(p.u, p.sample, ColumnOf(p, band, segment), WidthOf(p, band, segment))
       /\ Segment(p, band, segment).v =
            SamplesOf(p.v, p.sample, band * BandRows(p), RowsOf(p, band))
  BY DEF Segment, ColumnOf, WidthOf
<1> QED
  BY <1>1, <1>2, <1>6, <1>8, <1>9, <1>10

(* Every sampled chunk of the plane is in one segment, and in no other. *)
LEMMA SomePlace ==
    ASSUME NEW p \in PlanFields, NEW a \in Nat, NEW b \in Nat, a < RowChunks(p), b < ColumnChunks(p)
    PROVE  \E band, segment : IsPlace(p, band, segment) /\ InPlace(p, band, segment, a, b)
<1>1. PICK B \in Positive : B = BandRows(p)
  BY PlaneNumbers
<1>2. PICK C \in Positive : C = ColumnChunks(p)
  BY PlaneNumbers
<1>3. PICK N \in Positive : N = Bands(p) /\ N * B >= C
  BY <1>1, <1>2, PlaneNumbers
<1>4. B \in Nat /\ C \in Nat /\ N \in Nat /\ N * B \in Nat
  BY DEF Positive
<1>5. PICK band \in Nat : band = b \div B
  BY Quotient
<1>6. band * B <= b /\ b < (band + 1) * B /\ (band + 1) * B = band * B + B /\ band * B \in Nat
  BY <1>4, <1>5, Quotient, TimesOneMore
<1>7. band < N
  <2>1. b < N * B
    BY <1>2, <1>3, <1>4
  <2> QED
    BY <1>4, <1>5, <2>1, QuotientBelow
<1>8. IsBand(p, band)
  BY <1>3, <1>7 DEF IsBand
<1>9. BandFacts(p, band)
  BY <1>8, FactsOfBand
<1>10. PICK rows \in Nat : rows = RowsOf(p, band) /\ (band + 1 < N => rows = B)
                             /\ (band + 1 = N => band * B + rows = C)
  BY <1>1, <1>2, <1>3, <1>9 DEF BandFacts, Positive
<1>11. b < band * B + rows
  BY <1>2, <1>4, <1>6, <1>7, <1>10
<1>12. PICK W \in Positive : W = Width(p, band)
  BY <1>9 DEF BandFacts
<1>13. PICK segment \in Nat : segment = a \div W
  BY Quotient
<1>14. PICK column \in Nat : column = segment * W
  BY DEF Positive
<1>15. column <= a /\ a < column + W
  BY <1>13, <1>14, Quotient, TimesOneMore DEF Positive
<1>16. PICK R \in Nat : R = RowChunks(p) /\ a < R
  BY PlaneNumbers DEF Positive
<1>17. column < R
  BY <1>15, <1>16
<1>18. segment < Segments(p, band)
  BY <1>9, <1>12, <1>14, <1>16, <1>17 DEF BandFacts
<1>19. a \in column .. column + Least(W, R - column) - 1
  BY <1>15, <1>16 DEF Least, Positive
<1>20. b \in band * B .. band * B + rows - 1
  BY <1>6, <1>11
<1>21. ColumnOf(p, band, segment) = column /\ WidthOf(p, band, segment) = Least(W, R - column)
  BY <1>12, <1>14, <1>16 DEF ColumnOf, WidthOf
<1>22. InPlace(p, band, segment, a, b)
  BY <1>1, <1>10, <1>19, <1>20, <1>21 DEF InPlace
<1>23. IsPlace(p, band, segment)
  BY <1>8, <1>18 DEF IsPlace
<1> QED
  BY <1>22, <1>23

LEMMA OnePlace ==
    ASSUME NEW p \in PlanFields, NEW a, NEW b, NEW band, NEW segment,
           IsPlace(p, band, segment), InPlace(p, band, segment, a, b)
    PROVE  /\ a \in Nat /\ a < RowChunks(p) /\ b \in Nat /\ b < ColumnChunks(p)
           /\ band = b \div BandRows(p) /\ segment = a \div Width(p, band)
<1>1. PICK B \in Positive : B = BandRows(p)
  BY PlaneNumbers
<1>2. PICK W \in Positive : W = Width(p, band)
  BY FactsOfBand DEF IsPlace, BandFacts
<1>3. PICK C \in Nat : C = ColumnChunks(p)
  BY PlaneNumbers DEF Positive
<1>4. PICK R \in Nat : R = RowChunks(p)
  BY PlaneNumbers DEF Positive
<1>5. B \in Nat /\ W \in Nat /\ band \in Nat /\ segment \in Nat
  BY DEF Positive, IsPlace, IsBand
<1>6. PICK top \in Nat : top = band * B
  BY <1>5
<1>7. PICK rows \in Nat : rows = RowsOf(p, band) /\ rows <= B /\ top + rows <= C
  BY <1>1, <1>3, <1>6, FactsOfBand DEF BandFacts, IsPlace, Positive
<1>8. b \in Nat /\ top <= b /\ b < top + B /\ b < C
  <2>1. b \in top .. top + rows - 1
    BY <1>1, <1>6, <1>7 DEF InPlace
  <2> QED
    BY <1>3, <1>5, <1>7, <2>1
<1>9. PICK column \in Nat : column = segment * W /\ column = ColumnOf(p, band, segment)
  BY <1>2, <1>5 DEF ColumnOf
<1>10. PICK width \in Nat : width = WidthOf(p, band, segment) /\ width <= W /\ column + width <= R
  BY <1>2, <1>4, <1>9, SegmentWithin DEF Positive
<1>11. a \in Nat /\ column <= a /\ a < column + W /\ a < R
  <2>1. a \in column .. column + width - 1
    BY <1>9, <1>10 DEF InPlace
  <2> QED
    BY <1>4, <1>5, <1>10, <2>1
<1>12. \A n, q, d \in Nat : d \in Positive /\ q * d <= n /\ n < q * d + d => n \div d = q
  <2> SUFFICES ASSUME NEW n \in Nat, NEW q \in Nat, NEW d \in Positive, q * d <= n, n < q * d + d
               PROVE  n \div d = q
    OBVIOUS
  <2>1. (q + 1) * d = q * d + d /\ q * d \in Nat
    BY TimesOneMore DEF Positive
  <2>2. PICK k \in Nat : k = n \div d
    BY Quotient
  <2>3. k >= q /\ k < q + 1
    BY <2>1, <2>2, QuotientBelow
  <2> QED
    BY <2>2, <2>3
<1>13. b \div B = band
  BY <1>5, <1>6, <1>8, <1>12
<1>14. a \div W = segment
  BY <1>5, <1>9, <1>11, <1>12
<1> QED
  BY <1>1, <1>2, <1>3, <1>4, <1>8, <1>11, <1>13, <1>14

-----------------------------------------------------------------------------
(* The segments cover the plane. *)

PixelsOf(p, i) == Samples(PlaneBands(p)[i].u, p.sample) \X Samples(PlaneBands(p)[i].v, p.sample)
ChunksIn(p, i) == {<<px[1] \div p.u.chunk, px[2] \div p.v.chunk>> : px \in PixelsOf(p, i)}
Across(p, x) == SampleIndex(x, p.u, p.sample)
Down(p, y) == SampleIndex(y, p.v, p.sample)

LEMMA PixelsOfPlace ==
    ASSUME NEW p \in PlanFields, NEW i \in 1 .. PlacesOf(p), NEW x, NEW y
    PROVE  /\ IsPlace(p, BandOf(p, i), SegmentOf(p, i))
           /\ <<x, y>> \in PixelsOf(p, i)
                <=> /\ IsSample(x, p.u, p.sample) /\ IsSample(y, p.v, p.sample)
                    /\ InPlace(p, BandOf(p, i), SegmentOf(p, i), Across(p, x), Down(p, y))
<1>1. PICK band, segment : band = BandOf(p, i) /\ segment = SegmentOf(p, i)
  OBVIOUS
<1>2. IsPlace(p, band, segment)
  BY <1>1, PlaceOfNumber
<1>3. PlaneBands(p)[i] = Segment(p, band, segment)
  BY <1>1, PlaneNumbered
<1>4. PICK column \in Nat : column = ColumnOf(p, band, segment)
  BY <1>2, SegmentWithin
<1>5. PICK width \in Positive : width = WidthOf(p, band, segment)
                                  /\ column + width <= ChunksAlong(p.u, p.sample)
  BY <1>2, <1>4, SegmentWithin, PlaneNumbers
<1>6. PICK top \in Nat : top = band * BandRows(p)
  BY <1>2, FactsOfBand DEF IsPlace, BandFacts
<1>7. PICK rows \in Positive : rows = RowsOf(p, band) /\ top + rows <= ChunksAlong(p.v, p.sample)
  BY <1>2, <1>6, FactsOfBand, PlaneNumbers DEF IsPlace, BandFacts
<1>8. /\ PlaneBands(p)[i].u = SamplesOf(p.u, p.sample, column, width)
      /\ PlaneBands(p)[i].v = SamplesOf(p.v, p.sample, top, rows)
  BY <1>2, <1>3, <1>4, <1>5, <1>6, <1>7, SegmentWithin
<1>9. p.u \in Axis /\ p.v \in Axis /\ p.sample \in Positive
  BY PlaneNumbers
<1>10. x \in Samples(PlaneBands(p)[i].u, p.sample)
         <=> IsSample(x, p.u, p.sample) /\ Across(p, x) \in column .. column + width - 1
  BY <1>5, <1>8, <1>9, SamplesOfChunks DEF Across
<1>11. y \in Samples(PlaneBands(p)[i].v, p.sample)
         <=> IsSample(y, p.v, p.sample) /\ Down(p, y) \in top .. top + rows - 1
  BY <1>7, <1>8, <1>9, SamplesOfChunks DEF Down
<1>12. InPlace(p, band, segment, Across(p, x), Down(p, y))
         <=> Across(p, x) \in column .. column + width - 1 /\ Down(p, y) \in top .. top + rows - 1
  BY <1>4, <1>5, <1>6, <1>7 DEF InPlace
<1> QED
  BY <1>1, <1>2, <1>10, <1>11, <1>12 DEF PixelsOf

(* The chunks of a segment, by their indices. *)
LEMMA ChunksOfPlace ==
    ASSUME NEW p \in PlanFields, NEW i \in 1 .. PlacesOf(p), NEW k
    PROVE  k \in ChunksIn(p, i)
             <=> \E a, b : /\ InPlace(p, BandOf(p, i), SegmentOf(p, i), a, b)
                           /\ k = <<SampledChunk(a, p.u.chunk, p.sample),
                                    SampledChunk(b, p.v.chunk, p.sample)>>
<1>1. p.u \in Axis /\ p.v \in Axis /\ p.sample \in Positive
  BY PlaneNumbers
<1>2. ASSUME k \in ChunksIn(p, i)
      PROVE  \E a, b : /\ InPlace(p, BandOf(p, i), SegmentOf(p, i), a, b)
                       /\ k = <<SampledChunk(a, p.u.chunk, p.sample),
                                SampledChunk(b, p.v.chunk, p.sample)>>
  <2>1. PICK px \in PixelsOf(p, i) : k = <<px[1] \div p.u.chunk, px[2] \div p.v.chunk>>
    BY <1>2 DEF ChunksIn
  <2>2. PICK x, y : px = <<x, y>>
    BY <2>1 DEF PixelsOf
  <2>3. /\ IsSample(x, p.u, p.sample) /\ IsSample(y, p.v, p.sample)
        /\ InPlace(p, BandOf(p, i), SegmentOf(p, i), Across(p, x), Down(p, y))
    BY <2>1, <2>2, PixelsOfPlace
  <2>4. /\ x \div p.u.chunk = SampledChunk(Across(p, x), p.u.chunk, p.sample)
        /\ y \div p.v.chunk = SampledChunk(Down(p, y), p.v.chunk, p.sample)
    BY <1>1, <2>3, IndexOfSample DEF Across, Down
  <2> QED
    BY <2>1, <2>2, <2>3, <2>4
<1>3. ASSUME NEW a, NEW b, InPlace(p, BandOf(p, i), SegmentOf(p, i), a, b),
             k = <<SampledChunk(a, p.u.chunk, p.sample), SampledChunk(b, p.v.chunk, p.sample)>>
      PROVE  k \in ChunksIn(p, i)
  <2>1. /\ a \in Nat /\ a < ChunksAlong(p.u, p.sample) /\ ChunksAlong(p.u, p.sample) \in Nat
        /\ b \in Nat /\ b < ChunksAlong(p.v, p.sample) /\ ChunksAlong(p.v, p.sample) \in Nat
    BY <1>3, PlaceOfNumber, OnePlace, PlaneNumbers DEF Positive
  <2>2. a \in 0 .. ChunksAlong(p.u, p.sample) - 1 /\ b \in 0 .. ChunksAlong(p.v, p.sample) - 1
    BY <2>1
  <2>3. PICK x : IsSample(x, p.u, p.sample) /\ Across(p, x) = a
    BY <1>1, <2>2, SampleOfIndex DEF Across
  <2>4. PICK y : IsSample(y, p.v, p.sample) /\ Down(p, y) = b
    BY <1>1, <2>2, SampleOfIndex DEF Down
  <2>5. <<x, y>> \in PixelsOf(p, i)
    BY <1>3, <2>3, <2>4, PixelsOfPlace
  <2>6. /\ x \div p.u.chunk = SampledChunk(a, p.u.chunk, p.sample)
        /\ y \div p.v.chunk = SampledChunk(b, p.v.chunk, p.sample)
    BY <1>1, <2>3, <2>4, IndexOfSample DEF Across, Down
  <2>7. k = <<(<<x, y>>)[1] \div p.u.chunk, (<<x, y>>)[2] \div p.v.chunk>>
    BY <1>3, <2>6
  <2> QED
    BY <2>5, <2>7 DEF ChunksIn
<1> QED
  BY <1>2, <1>3

LEMMA SampledChunkOnce ==
    ASSUME NEW chunk \in Positive, NEW sample \in Positive, NEW a \in Nat, NEW b \in Nat,
           SampledChunk(a, chunk, sample) = SampledChunk(b, chunk, sample)
    PROVE  a = b
<1>1. ASSUME a < b PROVE FALSE
  BY <1>1, SampledChunksDiffer
<1>2. ASSUME b < a PROVE FALSE
  BY <1>2, SampledChunksDiffer
<1> QED
  BY <1>1, <1>2

(* No chunk is in two of them. *)
LEMMA PlacesApart ==
    ASSUME NEW p \in PlanFields, NEW i \in 1 .. PlacesOf(p), NEW j \in 1 .. PlacesOf(p),
           NEW k, k \in ChunksIn(p, i), k \in ChunksIn(p, j)
    PROVE  i = j
<1>1. PICK a, b : /\ InPlace(p, BandOf(p, i), SegmentOf(p, i), a, b)
                  /\ k = <<SampledChunk(a, p.u.chunk, p.sample), SampledChunk(b, p.v.chunk, p.sample)>>
  BY ChunksOfPlace
<1>2. PICK c, d : /\ InPlace(p, BandOf(p, j), SegmentOf(p, j), c, d)
                  /\ k = <<SampledChunk(c, p.u.chunk, p.sample), SampledChunk(d, p.v.chunk, p.sample)>>
  BY ChunksOfPlace
<1>3. /\ IsPlace(p, BandOf(p, i), SegmentOf(p, i)) /\ PlaceNumber(p, BandOf(p, i), SegmentOf(p, i)) = i
      /\ IsPlace(p, BandOf(p, j), SegmentOf(p, j)) /\ PlaceNumber(p, BandOf(p, j), SegmentOf(p, j)) = j
  BY PlaceOfNumber
<1>4. a \in Nat /\ b \in Nat /\ c \in Nat /\ d \in Nat
  BY <1>1, <1>2, <1>3, OnePlace
<1>5. /\ SampledChunk(a, p.u.chunk, p.sample) = SampledChunk(c, p.u.chunk, p.sample)
      /\ SampledChunk(b, p.v.chunk, p.sample) = SampledChunk(d, p.v.chunk, p.sample)
  BY <1>1, <1>2
<1>6. p.u.chunk \in Positive /\ p.v.chunk \in Positive /\ p.sample \in Positive
  BY PlaneNumbers, AxisFacts
<1>7. a = c /\ b = d
  BY <1>4, <1>5, <1>6, SampledChunkOnce
<1>8. BandOf(p, i) = BandOf(p, j)
  BY <1>1, <1>2, <1>3, <1>7, OnePlace
<1>9. SegmentOf(p, i) = SegmentOf(p, j)
  BY <1>1, <1>2, <1>3, <1>7, <1>8, OnePlace
<1> QED
  BY <1>3, <1>8, <1>9

(* And a segment has as many as it says. *)
LEMMA PlaceCounts ==
    ASSUME NEW p \in PlanFields, NEW i \in 1 .. PlacesOf(p)
    PROVE  Cardinality(ChunksIn(p, i)) = PlaneBands(p)[i].chunks
<1>1. PICK band, segment : band = BandOf(p, i) /\ segment = SegmentOf(p, i)
  OBVIOUS
<1>2. IsPlace(p, band, segment)
  BY <1>1, PlaceOfNumber
<1>3. PICK column \in Nat : column = ColumnOf(p, band, segment)
  BY <1>2, SegmentWithin
<1>4. PICK width \in Positive : width = WidthOf(p, band, segment)
  BY <1>2, SegmentWithin
<1>5. PICK top \in Nat : top = band * BandRows(p)
  BY <1>2, FactsOfBand DEF IsPlace, BandFacts
<1>6. PICK rows \in Positive : rows = RowsOf(p, band)
  BY <1>2, FactsOfBand DEF IsPlace, BandFacts
<1>7. PlaneBands(p)[i].chunks = width * rows
  BY <1>1, <1>2, <1>4, <1>6, PlaneNumbered, SegmentWithin
<1>8. width \in Nat /\ rows \in Nat /\ rows > 0 /\ width > 0
  BY DEF Positive
<1>9. PICK n \in Nat : n = width * rows
  BY <1>8
<1> DEFINE U(a) == SampledChunk(a, p.u.chunk, p.sample)
           V(b) == SampledChunk(b, p.v.chunk, p.sample)
           F == [k \in 1 .. n |-> <<U(column + (k - 1) \div rows), V(top + ((k - 1) % rows))>>]
<1>10. ASSUME NEW k
       PROVE  k \in ChunksIn(p, i)
                <=> \E a \in column .. column + width - 1 : \E b \in top .. top + rows - 1 :
                      k = <<U(a), V(b)>>
  <2>1. \A a, b : InPlace(p, BandOf(p, i), SegmentOf(p, i), a, b)
                   <=> a \in column .. column + width - 1 /\ b \in top .. top + rows - 1
    BY <1>1, <1>3, <1>4, <1>5, <1>6 DEF InPlace
  <2>2. k \in ChunksIn(p, i)
          <=> \E a, b : InPlace(p, BandOf(p, i), SegmentOf(p, i), a, b) /\ k = <<U(a), V(b)>>
    BY ChunksOfPlace
  <2> HIDE DEF U, V
  <2> QED
    BY <2>1, <2>2
<1>11. p.u.chunk \in Positive /\ p.v.chunk \in Positive /\ p.sample \in Positive
  BY PlaneNumbers, AxisFacts
<1>12. \A a, b \in Nat : (U(a) = U(b) => a = b) /\ (V(a) = V(b) => a = b)
  BY <1>11, SampledChunkOnce
<1> HIDE DEF U, V
<1>13. ASSUME NEW k \in 1 .. n
       PROVE  \E q, r \in Nat : /\ q = (k - 1) \div rows /\ r = (k - 1) % rows
                                /\ k - 1 = q * rows + r /\ r < rows /\ q < width
  <2>1. k - 1 \in Nat /\ k - 1 < width * rows
    BY <1>9
  <2>2. PICK q \in Nat : q = (k - 1) \div rows
    BY <2>1, Quotient
  <2>3. q < width
    BY <1>8, <2>1, <2>2, QuotientBelow
  <2>4. PICK r \in Nat : r = (k - 1) % rows /\ r < rows /\ k - 1 = q * rows + r
    BY <2>1, <2>2, Division
  <2> QED
    BY <2>2, <2>3, <2>4
<1>14. \A k \in 1 .. n : F[k] \in ChunksIn(p, i)
  <2> SUFFICES ASSUME NEW k \in 1 .. n PROVE F[k] \in ChunksIn(p, i)
    OBVIOUS
  <2>1. PICK q, r \in Nat : /\ q = (k - 1) \div rows /\ r = (k - 1) % rows
                            /\ r < rows /\ q < width
    BY <1>13
  <2>2. F[k] = <<U(column + q), V(top + r)>>
    BY <2>1
  <2>3. column + q \in column .. column + width - 1 /\ top + r \in top .. top + rows - 1
    BY <1>8, <2>1
  <2> QED
    BY <1>10, <2>2, <2>3
<1>15. ASSUME NEW k \in 1 .. n, NEW l \in 1 .. n, F[k] = F[l] PROVE k = l
  <2>1. PICK q, r \in Nat : /\ q = (k - 1) \div rows /\ r = (k - 1) % rows
                            /\ k - 1 = q * rows + r
    BY <1>13
  <2>2. PICK s, t \in Nat : /\ s = (l - 1) \div rows /\ t = (l - 1) % rows
                            /\ l - 1 = s * rows + t
    BY <1>13
  <2>3. F[k] = <<U(column + q), V(top + r)>> /\ F[l] = <<U(column + s), V(top + t)>>
    BY <2>1, <2>2
  <2>4. U(column + q) = U(column + s) /\ V(top + r) = V(top + t)
    BY <1>15, <2>3
  <2>5. column + q = column + s /\ top + r = top + t
    BY <1>12, <2>4
  <2>6. q = s /\ r = t
    BY <2>5
  <2>7. k - 1 = l - 1
    BY <2>1, <2>2, <2>6
  <2> QED
    BY <2>7
<1>16. ASSUME NEW c \in ChunksIn(p, i) PROVE \E k \in 1 .. n : F[k] = c
  <2>1. PICK a \in column .. column + width - 1, b \in top .. top + rows - 1 : c = <<U(a), V(b)>>
    BY <1>10
  <2>2. PICK q \in Nat : q = a - column /\ q < width
    BY <1>8
  <2>3. PICK r \in Nat : r = b - top /\ r < rows
    BY <1>8
  <2>4. PICK m \in Nat : m = q * rows + r
    BY <1>8
  <2>5. m < n
    <3>1. (q + 1) * rows <= width * rows
      BY <1>8, <2>2, TimesKeepsOrder
    <3>2. (q + 1) * rows = q * rows + rows /\ q * rows \in Nat
      BY <1>8, TimesOneMore
    <3> QED
      BY <1>8, <1>9, <2>3, <2>4, <3>1, <3>2
  <2>6. m + 1 \in 1 .. n /\ m + 1 - 1 = m
    BY <2>5
  <2>7. m \div rows = q
    <3>1. PICK z \in Nat : z = m \div rows
      BY Quotient
    <3>2. (q + 1) * rows = q * rows + rows /\ q * rows \in Nat
      BY <1>8, TimesOneMore
    <3>3. m >= q * rows /\ m < (q + 1) * rows
      BY <1>8, <2>3, <2>4, <3>2
    <3>4. z >= q /\ z < q + 1
      BY <3>1, <3>3, QuotientBelow
    <3> QED
      BY <3>1, <3>4
  <2>8. m % rows = r
    <3>1. PICK z \in Nat : z = m % rows /\ m = q * rows + z
      BY <2>7, Division
    <3>2. q * rows \in Nat
      BY <1>8
    <3> QED
      BY <2>4, <3>1, <3>2
  <2>9. F[m + 1] = <<U(column + q), V(top + r)>>
    BY <2>6, <2>7, <2>8
  <2>10. column + q = a /\ top + r = b
    BY <2>2, <2>3
  <2> QED
    BY <2>1, <2>6, <2>9, <2>10
<1> HIDE DEF F
<1>17. F \in Bijection(1 .. n, ChunksIn(p, i))
  <2>1. F \in [1 .. n -> ChunksIn(p, i)]
    BY <1>14 DEF F
  <2> QED
    BY <1>15, <1>16, <2>1 DEF Bijection, Injection, Surjection, IsInjective
<1>18. IsFiniteSet(1 .. n) /\ Cardinality(1 .. n) = n
  BY FS_Interval
<1> QED
  BY <1>7, <1>9, <1>17, <1>18, FS_Bijection DEF ExistsBijection

LEMMA CoversThePlane ==
    ASSUME TypeOK, plan.plane
    PROVE  PlaneCovered
<1>1. PICK p \in PlanFields : p = plan
  BY PlansAssumption DEF TypeOK
<1>2. DOMAIN PlaneBands(p) = 1 .. PlacesOf(p)
  BY PlaneNumbered
<1> DEFINE sampled(axis) == {x \in 0 .. axis.length - 1 : x % p.sample = 0}
<1>3. p.u \in Axis /\ p.v \in Axis /\ p.sample \in Positive
  BY PlaneNumbers
<1>4. ASSUME NEW axis \in Axis, NEW x PROVE x \in sampled(axis) <=> IsSample(x, axis, p.sample)
  BY AxisFacts DEF IsSample, Positive
<1>5. UNION {PixelsOf(p, i) : i \in 1 .. PlacesOf(p)} = sampled(p.u) \X sampled(p.v)
  <2> HIDE DEF sampled
  <2>1. ASSUME NEW i \in 1 .. PlacesOf(p), NEW px \in PixelsOf(p, i)
        PROVE  px \in sampled(p.u) \X sampled(p.v)
    <3>1. PICK x, y : px = <<x, y>>
      BY <2>1 DEF PixelsOf
    <3>2. IsSample(x, p.u, p.sample) /\ IsSample(y, p.v, p.sample)
      BY <2>1, <3>1, PixelsOfPlace
    <3> QED
      BY <1>3, <1>4, <3>1, <3>2
  <2>2. ASSUME NEW x \in sampled(p.u), NEW y \in sampled(p.v)
        PROVE  \E i \in 1 .. PlacesOf(p) : <<x, y>> \in PixelsOf(p, i)
    <3>1. IsSample(x, p.u, p.sample) /\ IsSample(y, p.v, p.sample)
      BY <1>3, <1>4, <2>2
    <3>2. PICK a, b : a = Across(p, x) /\ b = Down(p, y)
      OBVIOUS
    <3>3. a \in Nat /\ a < RowChunks(p) /\ b \in Nat /\ b < ColumnChunks(p)
      <4>1. /\ a \in 0 .. ChunksAlong(p.u, p.sample) - 1
            /\ b \in 0 .. ChunksAlong(p.v, p.sample) - 1
        BY <1>3, <3>1, <3>2, IndexOfSample DEF Across, Down
      <4> QED
        BY <4>1, PlaneNumbers DEF Positive
    <3>4. PICK band, segment : IsPlace(p, band, segment) /\ InPlace(p, band, segment, a, b)
      BY <3>3, SomePlace
    <3>5. PICK i \in 1 .. PlacesOf(p) : BandOf(p, i) = band /\ SegmentOf(p, i) = segment
      BY <3>4, NumberOfPlace
    <3> QED
      BY <3>1, <3>2, <3>4, <3>5, PixelsOfPlace
  <2>3. ASSUME NEW px
        PROVE  px \in sampled(p.u) \X sampled(p.v)
                 <=> \E i \in 1 .. PlacesOf(p) : px \in PixelsOf(p, i)
    <3>1. ASSUME px \in sampled(p.u) \X sampled(p.v)
          PROVE  \E i \in 1 .. PlacesOf(p) : px \in PixelsOf(p, i)
      <4>1. PICK x \in sampled(p.u), y \in sampled(p.v) : px = <<x, y>>
        BY <3>1
      <4> QED
        BY <2>2, <4>1
    <3> QED
      BY <2>1, <3>1
  <2> QED
    BY <2>3
<1>6. \A f, g \in 1 .. PlacesOf(p) : f # g => ChunksIn(p, f) \cap ChunksIn(p, g) = {}
  BY PlacesApart
<1>7. \A f \in 1 .. PlacesOf(p) : PlaneBands(p)[f].chunks = Cardinality(ChunksIn(p, f))
  BY PlaceCounts
<1> QED
  BY <1>1, <1>2, <1>5, <1>6, <1>7 DEF PlaneCovered, PixelsOf, ChunksIn

-----------------------------------------------------------------------------
(* Sums of chunks, a footprint at a time. *)
IsSum(f, s, n) == f = [i \in 0 .. n |-> IF i = 0 THEN 0 ELSE f[i - 1] + s[i]]

LEMMA SumExists == ASSUME NEW s, NEW n \in Nat PROVE \E f : IsSum(f, s, n)
<1> DEFINE Bad == {m \in Nat : ~ \E f : IsSum(f, s, m)}
<1> SUFFICES ASSUME Bad # {} PROVE FALSE
  OBVIOUS
<1>1. PICK x \in Bad : \A y \in Bad : x <= y
  <2>1. Bad \subseteq Nat
    OBVIOUS
  <2> HIDE DEF Bad
  <2> QED
    BY <2>1, LeastNumber
<1>2. x \in Nat /\ ~ \E f : IsSum(f, s, x)
  BY <1>1
<1>3. x # 0
  <2>1. IsSum([i \in 0 .. 0 |-> 0], s, 0)
    BY DEF IsSum
  <2> QED
    BY <1>2, <2>1
<1>4. PICK g : IsSum(g, s, x - 1)
  <2>1. x - 1 \in Nat /\ ~ (x <= x - 1)
    BY <1>2, <1>3
  <2> QED
    BY <1>1, <2>1
<1>5. PICK f : f = [i \in 0 .. x |-> IF i = x THEN g[x - 1] + s[x] ELSE g[i]]
  OBVIOUS
<1>6. g = [i \in 0 .. x - 1 |-> IF i = 0 THEN 0 ELSE g[i - 1] + s[i]]
  BY <1>4 DEF IsSum
<1>7. \A i \in 0 .. x : f[i] = IF i = 0 THEN 0 ELSE f[i - 1] + s[i]
  <2> TAKE i \in 0 .. x
  <2>1. CASE i = x
    BY <1>2, <1>3, <1>5, <2>1
  <2>2. CASE i # x
    BY <1>2, <1>3, <1>5, <1>6, <2>2
  <2> QED
    BY <2>1, <2>2
<1>8. f = [i \in 0 .. x |-> IF i = 0 THEN 0 ELSE f[i - 1] + s[i]]
  BY <1>5, <1>7
<1> QED
  BY <1>2, <1>8 DEF IsSum

LEMMA SumStep ==
    ASSUME NEW s \in Seq(Positive)
    PROVE  /\ ChunksBefore(s, 0) = 0
           /\ \A n \in 1 .. Len(s) : ChunksBefore(s, n) = ChunksBefore(s, n - 1) + s[n]
<1>1. PICK f : f = CHOOSE g : IsSum(g, s, Len(s))
  OBVIOUS
<1>2. Len(s) \in Nat
  OBVIOUS
<1>3. IsSum(f, s, Len(s))
  BY <1>1, <1>2, SumExists
<1>4. \A n : ChunksBefore(s, n) = f[n]
  BY <1>1 DEF ChunksBefore, IsSum
<1>5. \A n \in 0 .. Len(s) : f[n] = IF n = 0 THEN 0 ELSE f[n - 1] + s[n]
  BY <1>3 DEF IsSum
<1> QED
  BY <1>2, <1>4, <1>5

(* They are numbers, and grow. *)
LEMMA SumsGrow ==
    ASSUME NEW s \in Seq(Positive)
    PROVE  \A n \in 0 .. Len(s) : ChunksBefore(s, n) \in Nat /\ ChunksBefore(s, n) >= n
<1> DEFINE Bad == {n \in 0 .. Len(s) : ~ (ChunksBefore(s, n) \in Nat /\ ChunksBefore(s, n) >= n)}
<1> SUFFICES ASSUME Bad # {} PROVE FALSE
  OBVIOUS
<1>1. PICK x \in Bad : \A y \in Bad : x <= y
  <2>1. Bad \subseteq Nat
    OBVIOUS
  <2> HIDE DEF Bad
  <2> QED
    BY <2>1, LeastNumber
<1>2. x \in 0 .. Len(s) /\ ~ (ChunksBefore(s, x) \in Nat /\ ChunksBefore(s, x) >= x)
  BY <1>1
<1>3. x # 0
  BY <1>2, SumStep
<1>4. x - 1 \in 0 .. Len(s) /\ ~ (x <= x - 1) /\ x \in 1 .. Len(s)
  BY <1>2, <1>3
<1>5. ChunksBefore(s, x - 1) \in Nat /\ ChunksBefore(s, x - 1) >= x - 1
  BY <1>1, <1>4
<1>6. s[x] \in Nat /\ s[x] > 0
  BY <1>4 DEF Positive
<1> QED
  BY <1>2, <1>4, <1>5, <1>6, SumStep

LEMMA SumsInOrder ==
    ASSUME NEW s \in Seq(Positive), NEW m \in 0 .. Len(s)
    PROVE  \A n \in m .. Len(s) : ChunksBefore(s, m) <= ChunksBefore(s, n)
<1> DEFINE Bad == {n \in m .. Len(s) : ~ (ChunksBefore(s, m) <= ChunksBefore(s, n))}
<1> SUFFICES ASSUME Bad # {} PROVE FALSE
  OBVIOUS
<1>1. PICK x \in Bad : \A y \in Bad : x <= y
  <2>1. Bad \subseteq Nat
    OBVIOUS
  <2> HIDE DEF Bad
  <2> QED
    BY <2>1, LeastNumber
<1>2. x \in m .. Len(s) /\ ~ (ChunksBefore(s, m) <= ChunksBefore(s, x))
  BY <1>1
<1>3. x # m
  BY <1>2, SumsGrow
<1>4. x - 1 \in m .. Len(s) /\ ~ (x <= x - 1) /\ x \in 1 .. Len(s) /\ x - 1 \in 0 .. Len(s)
  BY <1>2, <1>3
<1>5. ChunksBefore(s, m) <= ChunksBefore(s, x - 1)
  BY <1>1, <1>4
<1>6. s[x] \in Nat /\ ChunksBefore(s, x - 1) \in Nat /\ ChunksBefore(s, m) \in Nat
  BY <1>4, SumsGrow DEF Positive
<1> QED
  BY <1>2, <1>4, <1>5, <1>6, SumStep

(* The chunks of a plane up to and with a place: the bands before it, and   *)
(* of its own band the columns it comes to.                                 *)
PastColumn(p, band, segment) == ColumnOf(p, band, segment) + WidthOf(p, band, segment)
Swept(p, band, segment) ==
    (band * BandRows(p)) * RowChunks(p) + RowsOf(p, band) * PastColumn(p, band, segment)

LEMMA SegmentsMeet ==
    ASSUME NEW p \in PlanFields, NEW band, NEW segment, IsPlace(p, band, segment)
    PROVE  /\ segment > 0 => IsPlace(p, band, segment - 1)
                               /\ PastColumn(p, band, segment - 1) = ColumnOf(p, band, segment)
           /\ segment + 1 = Segments(p, band) => PastColumn(p, band, segment) = RowChunks(p)
           /\ segment = 0 => ColumnOf(p, band, segment) = 0
<1>1. IsBand(p, band) /\ segment \in Nat /\ segment < Segments(p, band)
  BY DEF IsPlace
<1>2. PICK W \in Positive : W = Width(p, band)
  BY <1>1, FactsOfBand DEF BandFacts
<1>3. PICK R \in Nat : R = RowChunks(p)
  BY PlaneNumbers DEF Positive
<1>4. PICK S \in Nat : S = Segments(p, band) /\ S * W >= R
                         /\ \A s \in Nat : s < S <=> s * W < R
  BY <1>1, <1>2, <1>3, FactsOfBand DEF BandFacts, Positive
<1>5. W \in Nat
  BY DEF Positive
<1>6. PICK column \in Nat : column = segment * W /\ column < R
  BY <1>1, <1>4, <1>5
<1>7. PastColumn(p, band, segment) = column + Least(W, R - column)
  BY <1>2, <1>3, <1>6 DEF PastColumn, ColumnOf, WidthOf
<1>8. ASSUME segment > 0
      PROVE  IsPlace(p, band, segment - 1)
               /\ PastColumn(p, band, segment - 1) = ColumnOf(p, band, segment)
  <2>1. IsPlace(p, band, segment - 1)
    BY <1>1, <1>4, <1>8 DEF IsPlace
  <2>2. PICK before \in Nat : before = (segment - 1) * W /\ before + W = column
    <3>1. segment - 1 \in Nat /\ segment - 1 + 1 = segment
      BY <1>1, <1>8
    <3>2. (segment - 1 + 1) * W = (segment - 1) * W + W
      BY <1>5, <3>1, TimesOneMore
    <3>3. (segment - 1) * W \in Nat
      BY <1>5, <3>1
    <3> QED
      BY <1>6, <3>1, <3>2, <3>3
  <2>3. PastColumn(p, band, segment - 1) = before + Least(W, R - before)
    BY <1>2, <1>3, <2>2 DEF PastColumn, ColumnOf, WidthOf
  <2>4. before + Least(W, R - before) = column
    BY <1>5, <1>6, <2>2 DEF Least
  <2>5. ColumnOf(p, band, segment) = column
    BY <1>2, <1>6 DEF ColumnOf
  <2> QED
    BY <2>1, <2>3, <2>4, <2>5
<1>9. ASSUME segment + 1 = Segments(p, band) PROVE PastColumn(p, band, segment) = RowChunks(p)
  <2>1. column + W >= R
    <3>1. (segment + 1) * W = segment * W + W
      BY <1>1, <1>5, TimesOneMore
    <3> QED
      BY <1>4, <1>6, <1>9, <3>1
  <2> QED
    BY <1>3, <1>5, <1>6, <1>7, <2>1 DEF Least
<1>10. segment = 0 => ColumnOf(p, band, segment) = 0
  BY <1>2, <1>5 DEF ColumnOf
<1> QED
  BY <1>8, <1>9, <1>10

LEMMA PlaneShape ==
    ASSUME NEW p \in PlanFields, p.plane
    PROVE  /\ Shape(p) \in Seq(Positive) /\ Len(Shape(p)) = PlacesOf(p)
           /\ \A i \in 1 .. PlacesOf(p) :
                Shape(p)[i] = WidthOf(p, BandOf(p, i), SegmentOf(p, i)) * RowsOf(p, BandOf(p, i))
<1>1. PICK n \in Nat : n = PlacesOf(p)
  BY PlaneNumbered DEF Positive
<1>2. DOMAIN PlaneBands(p) = 1 .. n
  BY <1>1, PlaneNumbered
<1>3. Shape(p) = [i \in 1 .. n |-> PlaneBands(p)[i].chunks]
  BY <1>2 DEF Shape
<1>4. ASSUME NEW i \in 1 .. n
      PROVE  /\ PlaneBands(p)[i].chunks =
                  WidthOf(p, BandOf(p, i), SegmentOf(p, i)) * RowsOf(p, BandOf(p, i))
             /\ PlaneBands(p)[i].chunks \in Positive
  <2>1. PICK band, segment : band = BandOf(p, i) /\ segment = SegmentOf(p, i)
    OBVIOUS
  <2>2. IsPlace(p, band, segment)
    BY <1>1, <2>1, PlaceOfNumber
  <2>3. PlaneBands(p)[i].chunks = WidthOf(p, band, segment) * RowsOf(p, band)
    BY <1>1, <2>1, <2>2, PlaneNumbered, SegmentWithin
  <2>4. WidthOf(p, band, segment) \in Positive /\ RowsOf(p, band) \in Positive
    BY <2>2, SegmentWithin, FactsOfBand DEF IsPlace, BandFacts
  <2>5. \A a, b \in Positive : a * b \in Positive
    BY DEF Positive
  <2> QED
    BY <2>1, <2>3, <2>4, <2>5
<1>5. Shape(p) \in [1 .. n -> Positive]
  BY <1>3, <1>4
<1> QED
  BY <1>1, <1>3, <1>4, <1>5

LEMMA SweptUpTo ==
    ASSUME NEW p \in PlanFields, p.plane
    PROVE  \A i \in 1 .. PlacesOf(p) :
             ChunksBefore(Shape(p), i) = Swept(p, BandOf(p, i), SegmentOf(p, i))
<1>1. PICK n \in Nat : n = PlacesOf(p)
  BY PlaneNumbered DEF Positive
<1>2. PICK s \in Seq(Positive) : s = Shape(p) /\ Len(s) = n
  BY <1>1, PlaneShape
<1>3. PICK R \in Nat : R = RowChunks(p)
  BY PlaneNumbers DEF Positive
<1>4. PICK B \in Nat : B = BandRows(p)
  BY PlaneNumbers DEF Positive
<1> DEFINE Bad == {i \in 1 .. n : ChunksBefore(s, i) # Swept(p, BandOf(p, i), SegmentOf(p, i))}
<1>5. ASSUME Bad # {} PROVE FALSE
  <2>1. PICK i \in Bad : \A y \in Bad : i <= y
    <3>1. Bad \subseteq Nat
      OBVIOUS
    <3> HIDE DEF Bad
    <3> QED
      BY <1>5, <3>1, LeastNumber
  <2>2. i \in 1 .. n /\ ChunksBefore(s, i) # Swept(p, BandOf(p, i), SegmentOf(p, i))
    BY <2>1
  <2>3. \A j \in 1 .. n : j < i => ChunksBefore(s, j) = Swept(p, BandOf(p, j), SegmentOf(p, j))
    BY <2>1
  <2> HIDE DEF Bad
  <2>4. PICK band, segment : band = BandOf(p, i) /\ segment = SegmentOf(p, i)
    OBVIOUS
  <2>5. IsPlace(p, band, segment) /\ PlaceNumber(p, band, segment) = i
    BY <1>1, <2>2, <2>4, PlaceOfNumber
  <2>6. IsBand(p, band) /\ band \in Nat /\ segment \in Nat /\ segment < Segments(p, band)
    BY <2>5 DEF IsPlace, IsBand
  <2>7. PICK rows \in Nat : rows = RowsOf(p, band)
    BY <2>6, FactsOfBand DEF BandFacts, Positive
  <2>8. PICK width \in Nat : width = WidthOf(p, band, segment)
    BY <2>5, SegmentWithin DEF Positive
  <2>9. PICK column \in Nat : column = ColumnOf(p, band, segment)
    BY <2>5, SegmentWithin
  <2>10. s[i] = width * rows
    BY <1>1, <1>2, <2>2, <2>4, <2>7, <2>8, PlaneShape
  <2>11. ChunksBefore(s, i) = ChunksBefore(s, i - 1) + width * rows
    BY <1>2, <2>2, <2>10, SumStep
  <2>12. Swept(p, band, segment) = (band * B) * R + rows * (column + width)
    BY <1>3, <1>4, <2>7, <2>8, <2>9 DEF Swept, PastColumn
  <2>13. ChunksBefore(s, i - 1) = (band * B) * R + rows * column
    <3>1. CASE segment > 0
      <4>1. IsPlace(p, band, segment - 1) /\ PastColumn(p, band, segment - 1) = column
        BY <2>5, <2>9, <3>1, SegmentsMeet
      <4>2. PlaceNumber(p, band, segment - 1) = i - 1
        <5>1. PICK m \in Nat : m = band * Segments(p, 0)
          <6>1. Segments(p, 0) \in Nat
            BY <2>6, FactsOfBand, SegmentsOfBands DEF BandFacts, Positive
          <6> QED
            BY <2>6, <6>1
        <5> QED
          BY <2>5, <2>6, <5>1 DEF PlaceNumber
      <4>3. i - 1 \in 1 .. n /\ BandOf(p, i - 1) = band /\ SegmentOf(p, i - 1) = segment - 1
        BY <1>1, <4>1, <4>2, NumberOfPlace
      <4>4. ChunksBefore(s, i - 1) = Swept(p, band, segment - 1)
        BY <2>2, <2>3, <4>3
      <4> QED
        BY <1>3, <1>4, <2>7, <4>1, <4>4 DEF Swept
    <3>2. CASE segment = 0 /\ band = 0
      <4>1. i - 1 = 0 /\ column = 0
        <5>1. Segments(p, 0) \in Nat
          BY <2>6, FactsOfBand, SegmentsOfBands DEF BandFacts, Positive
        <5>2. i = 0 * Segments(p, 0) + 0 + 1
          BY <2>5, <3>2 DEF PlaceNumber
        <5> QED
          BY <2>5, <2>9, <3>2, <5>1, <5>2, SegmentsMeet
      <4>2. ChunksBefore(s, i - 1) = 0
        BY <1>2, <4>1, SumStep
      <4> QED
        BY <3>2, <4>1, <4>2
    <3>3. CASE segment = 0 /\ band > 0
      <4>1. PICK a \in Nat : a = band - 1
        BY <2>6, <3>3
      <4>2. IsBand(p, a) /\ a + 1 < Bands(p)
        BY <2>6, <4>1, PlaneNumbers DEF IsBand, Positive
      <4>3. PICK S \in Positive : S = Segments(p, 0) /\ S = Segments(p, a)
        BY <4>2, FactsOfBand, SegmentsOfBands DEF BandFacts
      <4>4. S \in Nat /\ S - 1 \in Nat
        BY DEF Positive
      <4>5. IsPlace(p, a, S - 1)
        BY <4>2, <4>3, <4>4 DEF IsPlace
      <4>6. PlaceNumber(p, a, S - 1) = i - 1
        <5>1. PICK m \in Nat : m = a * S
          BY <4>4
        <5>2. (a + 1) * S = m + S
          BY <4>4, <5>1, TimesOneMore
        <5>3. i = m + S + 0 + 1
          <6>1. band = a + 1
            BY <2>6, <4>1
          <6>2. i = (a + 1) * S + 0 + 1
            BY <2>5, <3>3, <4>3, <6>1 DEF PlaceNumber
          <6> QED
            BY <5>2, <6>2
        <5>4. PlaceNumber(p, a, S - 1) = m + (S - 1) + 1
          BY <4>3, <5>1 DEF PlaceNumber
        <5> QED
          BY <4>4, <5>3, <5>4
      <4>7. i - 1 \in 1 .. n /\ BandOf(p, i - 1) = a /\ SegmentOf(p, i - 1) = S - 1
        BY <1>1, <4>5, <4>6, NumberOfPlace
      <4>8. ChunksBefore(s, i - 1) = Swept(p, a, S - 1)
        BY <2>2, <2>3, <4>7
      <4>9. PastColumn(p, a, S - 1) = R
        BY <1>3, <4>3, <4>4, <4>5, SegmentsMeet, SMTT(40)
      <4>10. RowsOf(p, a) = B
        BY <1>4, <4>2, FactsOfBand DEF BandFacts
      <4>11. Swept(p, a, S - 1) = (a * B) * R + B * R
        BY <1>3, <1>4, <4>9, <4>10 DEF Swept
      <4>12. (a * B) * R + B * R = (band * B) * R
        <5>1. (a + 1) * B = a * B + B
          BY TimesOneMore
        <5>2. PICK m \in Nat : m = a * B
          OBVIOUS
        <5>3. (m + B) * R = m * R + B * R
          OBVIOUS
        <5>4. band = a + 1
          BY <2>6, <4>1
        <5>5. band * B = m + B
          BY <5>1, <5>2, <5>4
        <5> QED
          BY <5>2, <5>3, <5>5
      <4>13. column = 0
        BY <2>5, <2>9, <3>3, SegmentsMeet
      <4> QED
        BY <4>8, <4>11, <4>12, <4>13
    <3> QED
      BY <2>6, <3>1, <3>2, <3>3
  <2>14. rows * (column + width) = rows * column + width * rows
    OBVIOUS
  <2>15. PICK m \in Nat : m = (band * B) * R
    BY <2>6
  <2>16. PICK c \in Nat : c = rows * column
    OBVIOUS
  <2>17. PICK w \in Nat : w = width * rows
    OBVIOUS
  <2> QED
    BY <2>2, <2>4, <2>11, <2>12, <2>13, <2>14, <2>15, <2>16, <2>17
<1> QED
  BY <1>1, <1>2, <1>5

(* All of what is walked is a layer of it. *)
LEMMA LayerIsTheSum ==
    ASSUME NEW p \in PlanFields
    PROVE  /\ Shape(p) \in Seq(Positive)
           /\ LayerChunks(p) = ChunksBefore(Shape(p), Len(Shape(p)))
           /\ LayerChunks(p) \in Nat
<1>1. CASE ~ p.plane
  <2>1. Shape(p) = p.regions /\ p.regions \in Seq(Positive)
    BY <1>1 DEF Shape, PlanFields
  <2>2. LayerChunks(p) = ChunksBefore(Shape(p), Len(Shape(p)))
    BY <1>1, <2>1 DEF LayerChunks
  <2>3. Len(Shape(p)) \in 0 .. Len(Shape(p))
    BY <2>1
  <2> QED
    BY <2>1, <2>2, <2>3, SumsGrow
<1>2. CASE p.plane
  <2>1. PICK n \in Positive : n = PlacesOf(p)
    BY PlaneNumbered
  <2>2. Shape(p) \in Seq(Positive) /\ Len(Shape(p)) = n
    BY <1>2, <2>1, PlaneShape
  <2>3. PICK R \in Positive : R = RowChunks(p)
    BY PlaneNumbers
  <2>4. PICK C \in Positive : C = ColumnChunks(p)
    BY PlaneNumbers
  <2>5. PICK N \in Positive : N = Bands(p)
    BY PlaneNumbers
  <2>6. N - 1 \in Nat /\ R \in Nat /\ C \in Nat /\ N - 1 + 1 = N /\ R > 0 /\ C > 0
    BY DEF Positive
  <2>7. PICK a \in Nat : a = N - 1 /\ IsBand(p, a)
    BY <2>5, <2>6 DEF IsBand
  <2>8. PICK L \in Positive : L = Segments(p, a)
    BY <2>7, FactsOfBand DEF BandFacts
  <2>9. IsPlace(p, a, L - 1) /\ L - 1 \in Nat /\ L - 1 + 1 = L
    BY <2>7, <2>8 DEF IsPlace, Positive
  <2>10. PlaceNumber(p, a, L - 1) = n
    <3>1. Segments(p, 0) \in Nat
      BY <2>7, FactsOfBand, SegmentsOfBands DEF BandFacts, Positive
    <3>2. PICK m \in Nat : m = a * Segments(p, 0)
      BY <3>1
    <3> QED
      BY <2>1, <2>5, <2>7, <2>8, <2>9, <3>2 DEF PlaceNumber, PlacesOf, Positive
  <2>11. n \in 1 .. n /\ BandOf(p, n) = a /\ SegmentOf(p, n) = L - 1
    BY <2>1, <2>9, <2>10, NumberOfPlace
  <2>12. ChunksBefore(Shape(p), n) = Swept(p, a, L - 1)
    BY <1>2, <2>1, <2>11, SweptUpTo
  <2>13. PastColumn(p, a, L - 1) = R
    BY <2>3, <2>8, <2>9, SegmentsMeet
  <2>14. PICK top \in Nat : top = a * BandRows(p)
    BY <2>7, FactsOfBand DEF BandFacts
  <2>15. PICK rows \in Nat : rows = RowsOf(p, a) /\ top + rows = C
    BY <2>4, <2>5, <2>6, <2>7, <2>14, FactsOfBand DEF BandFacts, Positive
  <2>16. Swept(p, a, L - 1) = top * R + rows * R
    BY <2>3, <2>13, <2>14, <2>15 DEF Swept
  <2>17. top * R + rows * R = R * C
    <3>1. (top + rows) * R = top * R + rows * R
      BY <2>6
    <3>2. C * R = R * C
      BY <2>6
    <3> QED
      BY <2>15, <3>1, <3>2
  <2>18. R * C \in Nat /\ R * C > 0
    BY <2>6
  <2>19. LayerChunks(p) = R * C
    BY <1>2, <2>3, <2>4, <2>18 DEF LayerChunks, AtLeastOne
  <2> QED
    BY <2>2, <2>12, <2>16, <2>17, <2>18, <2>19
<1> QED
  BY <1>1, <1>2

-----------------------------------------------------------------------------
(* What a plan holds. *)
LEMMA PlanFacts ==
    ASSUME NEW p \in Plans
    PROVE  /\ p.spectral \in Selection
           /\ p.count \in Nat /\ p.count > 0
           /\ p.in_blocks \in BOOLEAN
           /\ p.chunks_per_read \in Nat /\ p.budget_channels \in Nat /\ p.hint \in Nat
           /\ Shape(p) \in Seq(Positive)
           /\ LayerChunks(p) \in Nat
<1>1. p \in PlanFields
  BY PlansAssumption
<1> QED
  BY <1>1, LayerIsTheSum DEF PlanFields, Positive

(* The lengths asked of a block and of a slab are numbers. *)
LEMMA DesiredTypes ==
    ASSUME NEW p \in Plans
    PROVE  /\ EmitChannels(p) \in Int
           /\ \A chunks \in Positive, room \in Nat : Least(SlabChannels(p, chunks), room) \in Int
<1>1. \A a, b \in Int : Least(a, b) \in Int /\ AtLeastOne(a) \in Int
  BY DEF Least, AtLeastOne
<1>2. \A n \in Nat, m \in Nat : UnitsAffordable(n, m) \in Nat
  <2>1. SUFFICES ASSUME NEW n \in Nat, NEW m \in Nat PROVE UnitsAffordable(n, m) \in Nat
    OBVIOUS
  <2>2. AtLeastOne(m) \in Positive
    BY DEF AtLeastOne, Positive
  <2>3. n \div AtLeastOne(m) \in Nat
    BY <2>2, Quotient
  <2>4. QED
    BY <2>3 DEF UnitsAffordable, AtLeastOne
<1>3. LeastChannels(p) \in Nat
  BY PlanFacts, RoundsUp DEF LeastChannels, Selection, Positive
<1>4. EmitChannels(p) \in Int
  <2>1. UnitsAffordable(p.chunks_per_read, LayerChunks(p)) \in Nat
    BY <1>2, PlanFacts
  <2>2. Least(p.count, UnitsAffordable(p.chunks_per_read, LayerChunks(p))) \in Int
    BY <2>1, PlanFacts DEF Least
  <2>3. Least(p.count, UnitsAffordable(p.chunks_per_read, LayerChunks(p))) * LeastChannels(p) \in Int
    BY <1>3, <2>2
  <2> DEFINE spatial == IF LayerChunks(p) = 0 THEN p.count
                        ELSE Least(p.count, UnitsAffordable(p.chunks_per_read, LayerChunks(p)))
                               * LeastChannels(p)
             wanted == IF p.hint = 0 THEN spatial ELSE p.hint
  <2>4. wanted \in Int
    BY <2>3, PlanFacts
  <2>5. EmitChannels(p) = Least(Least(wanted, p.budget_channels), p.count)
    BY DEF EmitChannels
  <2> HIDE DEF wanted
  <2>6. Least(wanted, p.budget_channels) \in Int
    BY <2>4, PlanFacts DEF Least
  <2>7. QED
    BY <2>5, <2>6, PlanFacts DEF Least
<1>5. ASSUME NEW chunks \in Positive, NEW room \in Nat
      PROVE  Least(SlabChannels(p, chunks), room) \in Int
  <2>1. UnitsAffordable(p.chunks_per_read, chunks) \in Nat
    BY <1>2, PlanFacts DEF Positive
  <2>2. UnitsAffordable(p.chunks_per_read, chunks) * LeastChannels(p) \in Int
    BY <1>3, <2>1
  <2>3. QED
    BY <1>1, <2>2 DEF SlabChannels
<1>6. QED
  BY <1>4, <1>5

(* A cut of a cut: the end of a slab falls between chunks, or where its     *)
(* block ends.                                                              *)
LEMMA CutInside ==
    ASSUME TypeOK, NEW first \in Nat, NEW total \in Nat, NEW desired \in Int,
           first < total, total <= plan.count, Aligned(total)
    PROVE  LET last == AlignedBlockEnd(first, desired, total, plan.spectral)
           IN  last \in first + 1 .. total /\ Aligned(last)
<1> DEFINE last == AlignedBlockEnd(first, desired, total, plan.spectral)
<1>1. last \in first + 1 .. total /\ CutAt(plan.spectral, last, total)
  BY PlanFacts, BlockEndsBetweenChunks DEF TypeOK
<1>2. QED
  BY <1>1 DEF Aligned, CutAt

-----------------------------------------------------------------------------
LEMMA InitHolds == Init => IInv
<1> SUFFICES ASSUME Init PROVE IInv
  OBVIOUS
<1>1. plan \in Plans /\ shape = Shape(plan) /\ Len(shape) \in Nat /\ shape \in Seq(Positive)
  BY PlanFacts DEF Init
<1>2. Last(plan) \in Nat
  <2>1. plan.count - 1 \in Nat /\ plan.spectral \in Selection
    BY <1>1, PlanFacts
  <2>2. QED
    BY <2>1, ElementType DEF Last
<1>3. TypeOK
  <2>1. filled \in [Cells -> Seq(Nat)] /\ decoded \in [Chunks -> Nat]
    BY DEF Init
  <2>2. plan.count \in Nat
    BY <1>1, PlanFacts
  <2>3. told \in BOOLEAN /\ told_before \in BOOLEAN /\ pc \in Places
    BY DEF Init, Places
  <2>4. /\ begin \in 0 .. plan.count /\ end \in 0 .. plan.count
        /\ slab_begin \in 0 .. plan.count /\ slab_end \in 0 .. plan.count
        /\ reads_done \in Nat /\ chunks_done \in Nat
        /\ footprint \in 1 .. Len(shape) + 1
    BY <1>1, <2>2 DEF Init
  <2>5. QED
    BY <1>1, <2>1, <2>3, <2>4 DEF TypeOK
<1>4. CutInv
  BY <1>1, PlanFacts DEF Init, CutInv, Aligned, Walking, Finished
<1>5. FilledInv /\ StopInv
  BY DEF Init, FilledInv, StopInv, Walking, Finished
<1>6. DecodedInv
  <2>1. \A k \in Chunks : decoded[k] = 0
    BY DEF Init
  <2>2. \A f \in Footprints : Reached(f) = 0
    BY DEF Init, Reached, Walking, Finished
  <2>3. \A f \in Footprints, c \in 0 .. Last(plan) : <<f, c>> \in Chunks
    BY DEF Chunks
  <2>4. QED
    BY <2>1, <2>2, <2>3 DEF DecodedInv
<1>7. QED
  BY <1>3, <1>4, <1>5, <1>6 DEF IInv

-----------------------------------------------------------------------------
(* The types the steps below go by. *)
LEMMA Grounds ==
    ASSUME TypeOK
    PROVE  /\ plan \in Plans /\ plan.count \in Nat /\ plan.count > 0
           /\ plan.spectral \in Selection /\ plan.in_blocks \in BOOLEAN
           /\ shape \in Seq(Positive) /\ Len(shape) \in Nat
           /\ begin \in Nat /\ end \in Nat /\ slab_begin \in Nat /\ slab_end \in Nat
           /\ footprint \in Nat
           /\ Footprints = 1 .. Len(shape)
<1>1. plan \in Plans /\ shape = Shape(plan)
  BY DEF TypeOK
<1>2. /\ plan.count \in Nat /\ plan.count > 0
      /\ plan.spectral \in Selection /\ plan.in_blocks \in BOOLEAN
      /\ shape \in Seq(Positive) /\ Len(shape) \in Nat
  BY <1>1, PlanFacts
<1>3. QED
  BY <1>1, <1>2 DEF TypeOK, Footprints

(* A step that reads nothing: what was walked stays walked, and what is in  *)
(* the block stays in it.                                                   *)
LEMMA NothingRead ==
    ASSUME IInv, TypeOK', CutInv', StopInv',
           UNCHANGED <<plan, shape, begin, filled, decoded>>,
           pc' = "failed" \/ \A f \in Footprints : Reached(f)' = Reached(f),
           pc' \in Walking \cup {"walk"} \/ Finished' =>
              pc \in Walking \cup {"walk"} \/ Finished,
           pc # "failed"
    PROVE  IInv'
<1>1. Footprints' = Footprints /\ Chunks' = Chunks /\ Last(plan)' = Last(plan)
  BY DEF Footprints, Chunks
<1>2. DecodedInv'
  BY <1>1 DEF IInv, DecodedInv
<1>3. FilledInv'
  <2>1. SUFFICES ASSUME pc' \in Walking \cup {"walk"} \/ Finished'
                 PROVE  FilledInv'
    BY DEF FilledInv
  <2>2. pc' # "failed"
    BY <2>1 DEF Walking, Finished
  <2>3. QED
    BY <1>1, <2>1, <2>2 DEF IInv, FilledInv
<1>4. QED
  BY <1>2, <1>3 DEF IInv

-----------------------------------------------------------------------------
LEMMA AskToStopKeeps == ASSUME IInv, AskToStop PROVE IInv'
<1>1. TypeOK'
  BY DEF IInv, TypeOK, AskToStop, walk, history, Footprints, Cells, Chunks
<1>2. CutInv' /\ StopInv'
  BY DEF IInv, CutInv, StopInv, AskToStop, walk, history, Finished, Aligned
<1>3. QED
  BY <1>1, <1>2, NothingRead DEF AskToStop, walk, history, Reached, Finished

LEMMA BeginBlockKeeps == ASSUME IInv, BeginBlock PROVE IInv'
<1>1. TypeOK /\ CutInv
  BY DEF IInv
<1>2. end' \in begin + 1 .. plan.count /\ Aligned(end)'
  <2>1. CASE plan.in_blocks
    <3>1. end' = AlignedBlockEnd(begin, EmitChannels(plan), plan.count, plan.spectral)
      BY <2>1 DEF BeginBlock
    <3>2. EmitChannels(plan) \in Int
      BY <1>1, Grounds, DesiredTypes
    <3>3. Aligned(plan.count)
      BY DEF Aligned, CutAt
    <3>4. begin \in Nat /\ plan.count \in Nat /\ begin < plan.count
      BY <1>1, Grounds DEF BeginBlock
    <3> DEFINE desired == EmitChannels(plan)
               total == plan.count
    <3>5. desired \in Int /\ total \in Nat /\ begin < total /\ total <= plan.count /\ Aligned(total)
      BY <3>2, <3>3, <3>4
    <3> HIDE DEF desired, total
    <3>6. /\ AlignedBlockEnd(begin, desired, total, plan.spectral) \in begin + 1 .. total
          /\ Aligned(AlignedBlockEnd(begin, desired, total, plan.spectral))
      BY <1>1, <3>4, <3>5, CutInside
    <3>7. QED
      BY <3>1, <3>6 DEF Aligned, BeginBlock, desired, total
  <2>2. CASE ~ plan.in_blocks
    BY <1>1, <2>2, Grounds DEF BeginBlock, Aligned, CutAt
  <2>3. QED
    BY <2>1, <2>2
<1>3. filled' = [c \in Cells |-> <<>>] /\ Cells' = Cells /\ Chunks' = Chunks
  BY DEF BeginBlock, Reset, Cells, Chunks, Footprints
<1>4. filled' \in [Cells' -> Seq(Nat)] /\ decoded' \in [Chunks' -> Nat]
  BY <1>1, <1>3 DEF BeginBlock, TypeOK
<1>5. TypeOK'
  <2>1. told' \in BOOLEAN /\ told_before' \in BOOLEAN /\ pc' \in Places
    BY <1>1 DEF BeginBlock, TypeOK, Places
  <2>2. QED
    BY <1>1, <1>2, <1>4, <2>1, Grounds DEF BeginBlock, TypeOK
<1>6. CutInv'
  BY <1>1, <1>2, Grounds DEF BeginBlock, CutInv, Walking, Finished, Aligned
<1>7. \A f \in Footprints : Reached(f) = begin /\ Reached(f)' = begin
  BY DEF BeginBlock, Reached, Walking, Finished
<1>8. FilledInv'
  <2>1. \A f \in Footprints', i \in 0 .. plan'.count - 1 : filled'[<<f, i>>] = <<>>
    BY <1>3 DEF BeginBlock, Cells, Footprints
  <2>2. \A i \in 0 .. plan.count - 1 : ~ (begin + i < begin)
    BY <1>1, Grounds
  <2>3. QED
    BY <1>7, <2>1, <2>2 DEF FilledInv, BeginBlock, Footprints
<1>9. DecodedInv'
  BY <1>3, <1>7 DEF IInv, DecodedInv, BeginBlock, Footprints
<1>10. StopInv'
  BY DEF BeginBlock, StopInv
<1>11. QED
  BY <1>5, <1>6, <1>8, <1>9, <1>10 DEF IInv

LEMMA EndPassKeeps == ASSUME IInv, EndPass PROVE IInv'
<1>1. TypeOK /\ CutInv
  BY DEF IInv
<1>2. plan.in_blocks
  BY <1>1, Grounds DEF EndPass, CutInv
<1>3. TypeOK'
  BY <1>1 DEF TypeOK, EndPass, walk, history, Footprints, Cells, Chunks, Places
<1>4. CutInv' /\ StopInv'
  BY <1>1, <1>2 DEF IInv, CutInv, StopInv, EndPass, walk, history, Finished, Aligned, Walking
<1>5. QED
  BY <1>2, <1>3, <1>4, NothingRead DEF EndPass, walk, history, Reached, Finished, Walking

LEMMA BeginWalkKeeps == ASSUME IInv, BeginWalk PROVE IInv'
<1>1. TypeOK /\ CutInv
  BY DEF IInv
<1>2. TypeOK'
  BY <1>1, Grounds DEF TypeOK, BeginWalk, history, Footprints, Cells, Chunks, Places
<1>3. CutInv' /\ StopInv'
  BY <1>1, Grounds DEF IInv, CutInv, StopInv, BeginWalk, MayWalk, history, Finished, Aligned, Walking
<1>4. \A f \in Footprints : Reached(f)' = Reached(f)
  BY <1>1, Grounds DEF BeginWalk, Reached, Finished, Walking
<1>5. QED
  BY <1>2, <1>3, <1>4, NothingRead DEF BeginWalk, history

LEMMA NextSlabKeeps == ASSUME IInv, NextSlab PROVE IInv'
<1>1. TypeOK /\ CutInv
  BY DEF IInv
<1>2. slab_end' \in slab_begin + 1 .. end /\ Aligned(slab_end)'
  <2> DEFINE desired == Least(SlabChannels(plan, shape[footprint]), end - slab_begin)
  <2>1. shape[footprint] \in Positive /\ end - slab_begin \in Nat
    BY <1>1, Grounds DEF NextSlab, TypeOK
  <2>2. desired \in Int
    BY <1>1, <2>1, Grounds, DesiredTypes
  <2>3. slab_end' = AlignedBlockEnd(slab_begin, desired, end, plan.spectral)
    BY DEF NextSlab
  <2> HIDE DEF desired
  <2>4. end <= plan.count /\ Aligned(end) /\ slab_begin < end
    BY <1>1, Grounds DEF TypeOK, CutInv, NextSlab
  <2>5. /\ AlignedBlockEnd(slab_begin, desired, end, plan.spectral) \in slab_begin + 1 .. end
        /\ Aligned(AlignedBlockEnd(slab_begin, desired, end, plan.spectral))
    BY <1>1, <2>2, <2>4, Grounds, CutInside
  <2>6. QED
    BY <2>3, <2>5 DEF Aligned, NextSlab
<1>3. TypeOK'
  BY <1>1, <1>2, Grounds, SMTT(40) DEF TypeOK, NextSlab, history, Footprints, Cells, Chunks, Places
<1>4. CutInv' /\ StopInv'
  BY <1>1, <1>2, Grounds DEF IInv, CutInv, StopInv, NextSlab, history, Finished, Aligned, Walking
<1>5. \A f \in Footprints : Reached(f)' = Reached(f)
  BY DEF NextSlab, Reached, Finished, Walking
<1>6. QED
  BY <1>3, <1>4, <1>5, NothingRead DEF NextSlab, history, Walking

LEMMA NextFootprintKeeps == ASSUME IInv, NextFootprint PROVE IInv'
<1>1. TypeOK /\ CutInv
  BY DEF IInv
<1>2. TypeOK'
  BY <1>1, Grounds DEF TypeOK, NextFootprint, history, Footprints, Cells, Chunks
<1>3. CutInv' /\ StopInv'
  BY <1>1, Grounds DEF IInv, CutInv, StopInv, NextFootprint, history, Finished, Aligned, Walking
<1>4. \A f \in Footprints : Reached(f)' = Reached(f)
  BY <1>1, Grounds DEF NextFootprint, Reached, Finished, Walking
<1>5. QED
  BY <1>2, <1>3, <1>4, NothingRead DEF NextFootprint, history, Walking

LEMMA EndWalkKeeps == ASSUME IInv, EndWalk PROVE IInv'
<1>1. TypeOK /\ CutInv
  BY DEF IInv
<1>2. TypeOK'
  BY <1>1 DEF TypeOK, EndWalk, walk, history, Footprints, Cells, Chunks, Places
<1>3. footprint = Len(shape) + 1
  BY <1>1, Grounds DEF TypeOK, EndWalk
<1>4. CutInv' /\ StopInv'
  BY <1>1, <1>3, Grounds DEF IInv, CutInv, StopInv, EndWalk, walk, history, Finished, Aligned, Walking
<1>5. \A f \in Footprints : Reached(f)' = Reached(f)
  BY DEF EndWalk, walk, Reached, Finished, Walking
<1>6. QED
  BY <1>2, <1>4, <1>5, NothingRead DEF EndWalk, history, Walking

LEMMA WalkRefusedKeeps == ASSUME IInv, WalkRefused PROVE IInv'
<1>1. TypeOK /\ CutInv
  BY DEF IInv
<1>2. TypeOK'
  BY <1>1 DEF TypeOK, WalkRefused, walk, history, Footprints, Cells, Chunks, Places
<1>3. CutInv' /\ StopInv'
  BY <1>1 DEF IInv, CutInv, StopInv, WalkRefused, walk, history, Finished, Aligned, Walking
<1>4. pc' = "failed" \/ \A f \in Footprints : Reached(f)' = Reached(f)
  BY DEF WalkRefused, walk, history, Reached, Finished, Walking
<1>5. QED
  BY <1>2, <1>3, <1>4, NothingRead DEF WalkRefused, walk, history, Finished, Walking

LEMMA ReportTakenKeeps == ASSUME IInv, ReportTaken PROVE IInv'
<1>1. TypeOK /\ CutInv
  BY DEF IInv
<1>2. TypeOK'
  BY <1>1 DEF TypeOK, ReportTaken, walk, history, Footprints, Cells, Chunks, Places
<1>3. CutInv' /\ StopInv'
  BY <1>1 DEF IInv, CutInv, StopInv, ReportTaken, walk, history, Finished, Aligned, Walking
<1>4. pc' = "failed" \/ \A f \in Footprints : Reached(f)' = Reached(f)
  BY DEF ReportTaken, walk, history, Reached, Finished, Walking
<1>5. QED
  BY <1>2, <1>3, <1>4, NothingRead DEF ReportTaken, walk, history, Finished, Walking

LEMMA ReportRefusedKeeps == ASSUME IInv, ReportRefused PROVE IInv'
<1>1. TypeOK /\ CutInv
  BY DEF IInv
<1>2. TypeOK'
  BY <1>1 DEF TypeOK, ReportRefused, walk, history, Footprints, Cells, Chunks, Places
<1>3. CutInv' /\ StopInv'
  BY <1>1 DEF IInv, CutInv, StopInv, ReportRefused, walk, history, Finished, Aligned, Walking
<1>4. pc' = "failed" \/ \A f \in Footprints : Reached(f)' = Reached(f)
  BY DEF ReportRefused, walk, history, Reached, Finished, Walking
<1>5. QED
  BY <1>2, <1>3, <1>4, NothingRead DEF ReportRefused, walk, history, Finished, Walking

LEMMA ReadFailsKeeps == ASSUME IInv, ReadFails PROVE IInv'
<1>1. TypeOK /\ CutInv
  BY DEF IInv
<1>2. TypeOK'
  BY <1>1 DEF TypeOK, ReadFails, walk, history, Footprints, Cells, Chunks, Places
<1>3. CutInv' /\ StopInv'
  BY <1>1 DEF IInv, CutInv, StopInv, ReadFails, walk, history, Finished, Aligned, Walking
<1>4. pc' = "failed" \/ \A f \in Footprints : Reached(f)' = Reached(f)
  BY DEF ReadFails, walk, history, Reached, Finished, Walking
<1>5. QED
  BY <1>2, <1>3, <1>4, NothingRead DEF ReadFails, walk, history, Finished, Walking

LEMMA BlockRefusedKeeps == ASSUME IInv, BlockRefused PROVE IInv'
<1>1. TypeOK /\ CutInv
  BY DEF IInv
<1>2. TypeOK'
  BY <1>1 DEF TypeOK, BlockRefused, walk, history, Footprints, Cells, Chunks, Places
<1>3. CutInv' /\ StopInv'
  BY <1>1 DEF IInv, CutInv, StopInv, BlockRefused, walk, history, Finished, Aligned, Walking
<1>4. pc' = "failed" \/ \A f \in Footprints : Reached(f)' = Reached(f)
  BY DEF BlockRefused, walk, history, Reached, Finished, Walking
<1>5. QED
  BY <1>2, <1>3, <1>4, NothingRead DEF BlockRefused, walk, history, Finished, Walking

LEMMA BeginReadKeeps == ASSUME IInv, BeginRead PROVE IInv'
<1>1. TypeOK /\ CutInv
  BY DEF IInv
<1>2. TypeOK'
  BY <1>1 DEF TypeOK, BeginRead, history, Footprints, Cells, Chunks, Places
<1>3. CutInv' /\ StopInv'
  BY <1>1 DEF IInv, CutInv, StopInv, BeginRead, history, Finished, Aligned, Walking
<1>4. pc' = "failed" \/ \A f \in Footprints : Reached(f)' = Reached(f)
  BY DEF BeginRead, history, Reached, Finished, Walking
<1>5. QED
  BY <1>2, <1>3, <1>4, NothingRead DEF BeginRead, history, Finished, Walking

LEMMA ReadRefusedKeeps == ASSUME IInv, ReadRefused PROVE IInv'
<1>1. TypeOK /\ CutInv
  BY DEF IInv
<1>2. TypeOK'
  BY <1>1 DEF TypeOK, ReadRefused, history, Footprints, Cells, Chunks, Places
<1>3. CutInv' /\ StopInv'
  BY <1>1 DEF IInv, CutInv, StopInv, ReadRefused, history, Finished, Aligned, Walking
<1>4. pc' = "failed" \/ \A f \in Footprints : Reached(f)' = Reached(f)
  BY DEF ReadRefused, history, Reached, Finished, Walking
<1>5. QED
  BY <1>2, <1>3, <1>4, NothingRead DEF ReadRefused, history, Finished, Walking

(* The block is handed over: every footprint has been walked to its end,    *)
(* which is where the next begins.                                          *)
LEMMA BlockTakenKeeps == ASSUME IInv, BlockTaken PROVE IInv'
<1>1. TypeOK /\ CutInv
  BY DEF IInv
<1>2. TypeOK'
  BY <1>1 DEF TypeOK, BlockTaken, walk, history, Footprints, Cells, Chunks, Places
<1>3. plan.in_blocks
  BY <1>1, Grounds DEF BlockTaken, CutInv
<1>4. CutInv' /\ StopInv'
  BY <1>1, <1>3 DEF IInv, CutInv, StopInv, BlockTaken, walk, history, Finished, Aligned, Walking
<1>5. FilledInv'
  BY <1>3 DEF FilledInv, BlockTaken, Walking, Finished
<1>6. footprint = Len(shape) + 1
  BY <1>1 DEF CutInv, BlockTaken, Finished
<1>7. \A f \in Footprints : Reached(f) = end
  BY <1>1, <1>6, Grounds DEF BlockTaken, Reached, Finished
<1>8. \A f \in Footprints : Reached(f)' = end
  BY <1>3 DEF BlockTaken, Reached, Finished, Walking
<1>9. Footprints' = Footprints /\ Chunks' = Chunks /\ Last(plan)' = Last(plan)
  BY DEF BlockTaken, walk, Footprints, Chunks
<1>10. DecodedInv'
  BY <1>7, <1>8, <1>9 DEF IInv, DecodedInv, BlockTaken, history
<1>11. QED
  BY <1>2, <1>4, <1>5, <1>10 DEF IInv

-----------------------------------------------------------------------------
(* A slab starts where a chunk does, so no chunk it touches was touched     *)
(* before it.                                                               *)
LEMMA NotDecodedBefore ==
    ASSUME TypeOK, NEW first \in Nat, first < plan.count, Aligned(first),
           NEW i \in Nat, i < first, NEW j \in Nat, first <= j
    PROVE  ChunkOf(plan.spectral, i) # ChunkOf(plan.spectral, j)
<1>1. plan.spectral \in Selection /\ plan.count \in Nat
  BY Grounds
<1>2. first - 1 \in Nat /\ i <= first - 1
  OBVIOUS
<1>3. ChunkOf(plan.spectral, first - 1) # ChunkOf(plan.spectral, first)
  BY <1>1 DEF Aligned, CutAt
<1>4. /\ ChunkOf(plan.spectral, i) <= ChunkOf(plan.spectral, first - 1)
      /\ ChunkOf(plan.spectral, first - 1) <= ChunkOf(plan.spectral, first)
      /\ ChunkOf(plan.spectral, first) <= ChunkOf(plan.spectral, j)
  <2>1. ChunkOf(plan.spectral, i) <= ChunkOf(plan.spectral, first - 1)
    BY <1>1, <1>2, ChunksInOrder
  <2>2. ChunkOf(plan.spectral, first - 1) <= ChunkOf(plan.spectral, first)
    BY <1>1, <1>2, ChunksInOrder
  <2>3. ChunkOf(plan.spectral, first) <= ChunkOf(plan.spectral, j)
    BY <1>1, ChunksInOrder
  <2>4. QED
    BY <2>1, <2>2, <2>3
<1>5. /\ ChunkOf(plan.spectral, i) \in Nat /\ ChunkOf(plan.spectral, first - 1) \in Nat
      /\ ChunkOf(plan.spectral, first) \in Nat /\ ChunkOf(plan.spectral, j) \in Nat
  BY <1>1, <1>2, ElementType
<1>6. QED
  BY <1>3, <1>4, <1>5

(* The slab that is read carries its footprint on from where it was.        *)
LEMMA ReadReaches ==
    ASSUME IInv, Read
    PROVE  /\ \A f \in Footprints : f # footprint => Reached(f)' = Reached(f)
           /\ \A f \in Footprints : f = footprint => Reached(f) = slab_begin /\ Reached(f)' = slab_end
           /\ footprint \in Footprints
           /\ slab_begin \in begin .. slab_end - 1 /\ slab_end <= end /\ end <= plan.count
           /\ Aligned(slab_begin) /\ Aligned(slab_end)
<1>1. TypeOK /\ CutInv
  BY DEF IInv
<1>2. footprint \in Footprints
  BY <1>1, Grounds DEF Read, CutInv, TypeOK
<1>3. /\ slab_begin \in begin .. slab_end - 1 /\ slab_end <= end /\ end <= plan.count
      /\ Aligned(slab_begin) /\ Aligned(slab_end)
  BY <1>1, Grounds DEF Read, CutInv, TypeOK, Walking
<1>4. /\ \A f \in Footprints : f # footprint => Reached(f)' = Reached(f)
      /\ \A f \in Footprints : f = footprint => Reached(f) = slab_begin /\ Reached(f)' = slab_end
  BY <1>1, Grounds DEF Read, Reached, Walking
<1>5. QED
  BY <1>2, <1>3, <1>4

LEMMA ReadFills == ASSUME IInv, Read PROVE FilledInv' /\ filled' \in [Cells -> Seq(Nat)]
<1> DEFINE place(i) == i \in slab_begin - begin .. slab_begin - begin + Length - 1
           channel(i) == ElementAt(plan.spectral, slab_begin + i - (slab_begin - begin))
<1>1. TypeOK /\ FilledInv
  BY DEF IInv
<1>2. \A f \in Footprints, i \in 0 .. plan.count - 1 :
        filled[<<f, i>>] = IF begin + i < Reached(f)
                           THEN <<ElementAt(plan.spectral, begin + i)>> ELSE <<>>
  BY <1>1 DEF FilledInv, Read, Walking
<1>3. \A f \in Footprints, i \in 0 .. plan.count - 1 :
        filled'[<<f, i>>] = IF f = footprint /\ place(i)
                            THEN Append(filled[<<f, i>>], channel(i)) ELSE filled[<<f, i>>]
  BY DEF Read, Cells, ChannelIndex
<1>4. ASSUME NEW f \in Footprints, NEW i \in 0 .. plan.count - 1
      PROVE  /\ filled'[<<f, i>>] = IF begin + i < Reached(f)'
                                    THEN <<ElementAt(plan.spectral, begin + i)>> ELSE <<>>
             /\ filled'[<<f, i>>] \in Seq(Nat)
  <2>1. i \in Nat /\ begin + i \in Nat /\ plan.spectral \in Selection
    BY <1>1, Grounds
  <2>2. ElementAt(plan.spectral, begin + i) \in Nat
    BY <2>1, ElementType
  <2>3. <<ElementAt(plan.spectral, begin + i)>> \in Seq(Nat) /\ <<>> \in Seq(Nat)
    BY <2>2
  <2> DEFINE one == <<ElementAt(plan.spectral, begin + i)>>
  <2>4. filled[<<f, i>>] = IF begin + i < Reached(f) THEN one ELSE <<>>
    BY <1>2
  <2>5. filled'[<<f, i>>] = IF f = footprint /\ place(i)
                            THEN Append(filled[<<f, i>>], channel(i)) ELSE filled[<<f, i>>]
    BY <1>3
  <2>6. Append(<<>>, ElementAt(plan.spectral, begin + i)) = one
    BY <2>2
  <2>7. slab_begin + i - (slab_begin - begin) = begin + i
    BY <1>1, <2>1, Grounds
  <2>8. channel(i) = ElementAt(plan.spectral, begin + i)
    BY <2>7
  <2>9. place(i) <=> (slab_begin <= begin + i /\ begin + i < slab_end)
    BY <1>1, <2>1, Grounds, SMTT(40) DEF Length
  <2>10. Append(<<>>, channel(i)) = one
    BY <2>6, <2>8
  <2> HIDE DEF place, channel, one
  <2>11. filled'[<<f, i>>] = IF begin + i < Reached(f)' THEN one ELSE <<>>
    <3>1. CASE f # footprint
      <4>1. Reached(f)' = Reached(f)
        BY <3>1, ReadReaches
      <4>2. QED
        BY <2>4, <2>5, <3>1, <4>1
    <3>2. CASE f = footprint
      <4>1. Reached(f) = slab_begin /\ Reached(f)' = slab_end
        BY <3>2, ReadReaches
      <4>2. slab_begin \in Nat /\ slab_end \in Nat /\ slab_begin < slab_end
        BY <1>1, Grounds, ReadReaches
      <4>3. CASE begin + i < slab_begin
        <5>1. filled'[<<f, i>>] = one
          <6>1. ~ place(i)
            BY <2>1, <2>9, <4>2, <4>3
          <6>2. filled'[<<f, i>>] = filled[<<f, i>>]
            BY <2>5, <6>1
          <6>3. QED
            BY <2>4, <4>1, <4>3, <6>2
        <5>2. begin + i < slab_end
          BY <2>1, <4>2, <4>3
        <5>3. QED
          BY <4>1, <5>1, <5>2
      <4>4. CASE slab_begin <= begin + i /\ begin + i < slab_end
        <5>1. filled[<<f, i>>] = <<>>
          BY <2>1, <2>4, <4>1, <4>2, <4>4
        <5>2. filled'[<<f, i>>] = one
          BY <2>5, <2>9, <2>10, <3>2, <4>4, <5>1
        <5>3. QED
          BY <4>1, <4>4, <5>2
      <4>5. CASE slab_end <= begin + i
        <5>1. ~ (begin + i < slab_begin) /\ ~ (begin + i < slab_end)
          BY <2>1, <4>2, <4>5
        <5>2. QED
          BY <2>4, <2>5, <2>9, <4>1, <5>1
      <4>6. QED
        BY <2>1, <4>2, <4>3, <4>4, <4>5
    <3>3. QED
      BY <3>1, <3>2
  <2>12. filled'[<<f, i>>] \in Seq(Nat)
    BY <2>3, <2>11 DEF one
  <2>13. QED
    BY <2>11, <2>12 DEF one
<1> HIDE DEF place, channel
<1>5. FilledInv'
  <2>1. Footprints' = Footprints /\ plan' = plan /\ begin' = begin
    BY DEF Read, Footprints
  <2>2. QED
    BY <1>4, <2>1 DEF FilledInv
<1>6. \A c \in Cells : filled'[c] \in Seq(Nat)
  <2>1. SUFFICES ASSUME NEW c \in Cells PROVE filled'[c] \in Seq(Nat)
    OBVIOUS
  <2>2. PICK f \in Footprints, i \in 0 .. plan.count - 1 : c = <<f, i>>
    BY DEF Cells
  <2>3. QED
    BY <1>4, <2>2
<1>7. QED
  BY <1>5, <1>6 DEF Read

LEMMA ReadDecodes == ASSUME IInv, Read PROVE DecodedInv' /\ decoded' \in [Chunks -> Nat]
<1> DEFINE touched(c) == \E i \in slab_begin .. slab_end - 1 : ChunkOf(plan.spectral, i) = c
           before(n, c) == \E i \in 0 .. n - 1 : ChunkOf(plan.spectral, i) = c
<1>1. TypeOK /\ DecodedInv
  BY DEF IInv
<1>2. \A f \in Footprints, c \in 0 .. Last(plan) :
        decoded[<<f, c>>] = IF before(Reached(f), c) THEN 1 ELSE 0
  BY <1>1 DEF DecodedInv, Read
<1>3. \A f \in Footprints, c \in 0 .. Last(plan) :
        decoded'[<<f, c>>] = IF f = footprint /\ touched(c) THEN decoded[<<f, c>>] + 1
                             ELSE decoded[<<f, c>>]
  BY DEF Read, Chunks
<1>4. \A c \in 0 .. Last(plan) : touched(c) => ~ before(slab_begin, c)
  <2>1. SUFFICES ASSUME NEW c \in 0 .. Last(plan),
                        NEW i \in 0 .. slab_begin - 1, ChunkOf(plan.spectral, i) = c,
                        NEW j \in slab_begin .. slab_end - 1, ChunkOf(plan.spectral, j) = c
                 PROVE  FALSE
    OBVIOUS
  <2>2. /\ i \in Nat /\ j \in Nat /\ slab_begin \in Nat /\ i < slab_begin /\ slab_begin <= j
        /\ slab_begin < plan.count /\ Aligned(slab_begin)
    BY <1>1, Grounds, ReadReaches
  <2>3. QED
    BY <1>1, <2>1, <2>2, NotDecodedBefore
<1>5. \A c \in 0 .. Last(plan) : before(slab_end, c) <=> before(slab_begin, c) \/ touched(c)
  BY <1>1, Grounds, ReadReaches
<1>6. ASSUME NEW f \in Footprints, NEW c \in 0 .. Last(plan)
      PROVE  decoded'[<<f, c>>] = IF before(Reached(f)', c) THEN 1 ELSE 0
  <2> HIDE DEF before, touched
  <2>1. CASE f # footprint
    BY <1>2, <1>3, <2>1, ReadReaches
  <2>2. CASE f = footprint
    <3>1. decoded[<<f, c>>] = IF before(slab_begin, c) THEN 1 ELSE 0
      BY <1>2, <2>2, ReadReaches
    <3>2. decoded'[<<f, c>>] = IF touched(c) THEN decoded[<<f, c>>] + 1 ELSE decoded[<<f, c>>]
      BY <1>3, <2>2
    <3>3. touched(c) => ~ before(slab_begin, c)
      BY <1>4
    <3>4. before(slab_end, c) <=> before(slab_begin, c) \/ touched(c)
      BY <1>5
    <3>5. decoded'[<<f, c>>] = IF before(slab_end, c) THEN 1 ELSE 0
      BY <3>1, <3>2, <3>3, <3>4
    <3>6. Reached(f)' = slab_end
      BY <2>2, ReadReaches
    <3>7. QED
      BY <3>5, <3>6
  <2>3. QED
    BY <2>1, <2>2
<1>7. \A k \in Chunks : decoded'[k] \in Nat /\ decoded'[k] <= 1
  <2> HIDE DEF before
  <2>1. QED
    BY <1>6 DEF Chunks
<1>8. Footprints' = Footprints /\ Chunks' = Chunks /\ Last(plan)' = Last(plan)
  BY DEF Read, Footprints, Chunks
<1>9. DecodedInv'
  <2>1. plan' = plan
    BY DEF Read
  <2>2. QED
    BY <1>6, <1>7, <1>8, <2>1 DEF DecodedInv
<1>10. QED
  BY <1>7, <1>9 DEF Read

LEMMA ReadKeeps == ASSUME IInv, Read PROVE IInv'
<1>1. TypeOK /\ CutInv
  BY DEF IInv
<1>2. chunks_done' \in Nat
  <2>1. shape[footprint] \in Nat
    BY <1>1, ReadReaches, Grounds DEF Positive
  <2>2. ChunksTouched(plan.spectral, slab_begin, slab_end) \in Nat
    <3>1. /\ plan.spectral \in Selection /\ slab_begin \in Nat /\ slab_end \in Nat
          /\ slab_begin <= slab_end
      <4>1. slab_begin \in begin .. slab_end - 1
        BY ReadReaches
      <4>2. QED
        BY <1>1, <4>1, Grounds
    <3>2. QED
      BY <3>1, ChunksTouchedType
  <2>3. shape[footprint] * ChunksTouched(plan.spectral, slab_begin, slab_end) \in Nat
    BY <2>1, <2>2
  <2>4. QED
    BY <1>1, <2>3 DEF Read, TypeOK
<1>3. Cells' = Cells /\ Chunks' = Chunks
  BY DEF Read, Cells, Chunks, Footprints
<1>4. filled' \in [Cells' -> Seq(Nat)] /\ decoded' \in [Chunks' -> Nat]
  BY <1>3, ReadFills, ReadDecodes
<1>5. TypeOK'
  <2>1. pc' \in Places /\ told' \in BOOLEAN /\ told_before' \in BOOLEAN
    BY <1>1 DEF Read, TypeOK, Places
  <2>2. QED
    BY <1>1, <1>2, <1>4, <2>1 DEF Read, TypeOK
<1>6. CutInv'
  BY <1>1, ReadReaches, Grounds DEF Read, CutInv, Walking, Finished, Aligned
<1>7. StopInv'
  BY DEF IInv, StopInv, Read
<1>8. QED
  BY <1>5, <1>6, <1>7, ReadFills, ReadDecodes DEF IInv

-----------------------------------------------------------------------------
LEMMA StutterKeeps == ASSUME IInv, UNCHANGED vars PROVE IInv'
<1>1. TypeOK'
  BY DEF IInv, TypeOK, vars, Footprints, Cells, Chunks
<1>2. CutInv' /\ StopInv'
  BY DEF IInv, CutInv, StopInv, vars, Finished, Aligned
<1>3. FilledInv'
  BY DEF IInv, FilledInv, vars, Finished, Reached, Footprints
<1>4. DecodedInv'
  BY DEF IInv, DecodedInv, vars, Finished, Reached, Footprints, Chunks
<1>5. QED
  BY <1>1, <1>2, <1>3, <1>4 DEF IInv

(* Every step of a pass keeps the cuts between chunks, the block's places   *)
(* in agreement with what was walked, and the chunks decoded so far.        *)
THEOREM PassInductive == Spec => []IInv
<1>1. IInv /\ [Next]_vars => IInv'
  <2>1. SUFFICES ASSUME IInv, [Next]_vars PROVE IInv'
    OBVIOUS
  <2>2. CASE UNCHANGED vars
    BY <2>1, <2>2, StutterKeeps
  <2>3. CASE Step
    BY <2>1, <2>3, BeginBlockKeeps, EndPassKeeps, BeginWalkKeeps, WalkRefusedKeeps,
       NextSlabKeeps, NextFootprintKeeps, EndWalkKeeps, ReportTakenKeeps, ReportRefusedKeeps,
       BeginReadKeeps, ReadRefusedKeeps, ReadKeeps, ReadFailsKeeps, BlockTakenKeeps,
       BlockRefusedKeeps DEF Step
  <2>4. CASE AskToStop
    BY <2>1, <2>4, AskToStopKeeps
  <2>5. QED
    BY <2>1, <2>2, <2>3, <2>4 DEF Next, Ended
<1>2. QED
  BY <1>1, InitHolds, PTL DEF Spec

(* A pass never leaves its types. *)
THEOREM PassTypeCorrect == Spec => []TypeOK
<1>1. IInv => TypeOK
  BY DEF IInv
<1>2. QED
  BY <1>1, PassInductive, PTL

(* Whatever is walked, in whatever blocks and slabs, what is handed over    *)
(* has each of its channels in its place, once.                             *)
THEOREM AccumulatedOnceEver == Spec => []AccumulatedOnce
<1>1. IInv => AccumulatedOnce
  <2>1. SUFFICES ASSUME IInv, Finished, NEW f \in Footprints, NEW i \in begin .. end - 1
                 PROVE  filled[<<f, i - begin>>] = <<ElementAt(plan.spectral, i)>>
    BY DEF AccumulatedOnce
  <2>2. TypeOK /\ footprint = Len(shape) + 1
    BY <2>1 DEF IInv, CutInv
  <2>3. Reached(f) = end
    BY <2>1, <2>2, Grounds DEF Reached
  <2>4. i - begin \in 0 .. plan.count - 1 /\ begin + (i - begin) = i /\ i < end
    BY <2>1, <2>2, Grounds DEF TypeOK
  <2>5. filled[<<f, i - begin>>] =
          IF begin + (i - begin) < Reached(f)
          THEN <<ElementAt(plan.spectral, begin + (i - begin))>> ELSE <<>>
    BY <2>1, <2>4 DEF IInv, FilledInv
  <2>6. QED
    BY <2>3, <2>4, <2>5
<1>2. QED
  BY <1>1, PassInductive, PTL

(* No chunk of a footprint is decoded twice in a pass, and one that ends    *)
(* has decoded each it selects from.                                        *)
THEOREM ChunkDecodedOnceEver == Spec => []ChunkDecodedOnce
<1>1. IInv => ChunkDecodedOnce
  <2>1. SUFFICES ASSUME IInv PROVE ChunkDecodedOnce
    OBVIOUS
  <2>2. TypeOK /\ CutInv /\ DecodedInv
    BY <2>1 DEF IInv
  <2>3. ASSUME pc = "done", NEW f \in Footprints, NEW i \in 0 .. plan.count - 1
        PROVE  decoded[<<f, ChunkOf(plan.spectral, i)>>] = 1
    <3>1. Reached(f) = plan.count
      BY <2>2, <2>3, Grounds DEF CutInv, Reached, Finished, Walking
    <3>2. plan.spectral \in Selection /\ i \in Nat /\ plan.count - 1 \in Nat /\ i <= plan.count - 1
      BY <2>2, Grounds
    <3>3. ChunkOf(plan.spectral, i) \in 0 .. Last(plan)
      BY <3>2, ElementType, ChunksInOrder DEF Last
    <3>4. QED
      BY <2>2, <2>3, <3>1, <3>3 DEF DecodedInv
  <2>4. QED
    BY <2>2, <2>3 DEF ChunkDecodedOnce, DecodedInv
<1>2. QED
  BY <1>1, PassInductive, PTL

(* A stop asked for before a block begins is heeded in it. *)
THEOREM StopHeededEver == Spec => []StopHeeded
<1>1. IInv => StopHeeded
  BY DEF IInv, StopInv, StopHeeded
<1>2. QED
  BY <1>1, PassInductive, PTL

-----------------------------------------------------------------------------
(* Progress. *)

(* Chunks counted over two stretches that meet at a cut. *)
LEMMA StretchesAddUp ==
    ASSUME TypeOK, NEW a \in Nat, NEW b \in Nat, NEW c \in Nat,
           a <= b, b <= c, c <= plan.count, Aligned(b)
    PROVE  /\ ChunksTouched(plan.spectral, a, b) \in Nat
           /\ ChunksTouched(plan.spectral, b, c) \in Nat
           /\ ChunksTouched(plan.spectral, a, c) =
                ChunksTouched(plan.spectral, a, b) + ChunksTouched(plan.spectral, b, c)
<1>1. plan.spectral \in Selection /\ plan.count \in Nat
  BY Grounds
<1>2. /\ ChunksTouched(plan.spectral, a, b) \in Nat
      /\ ChunksTouched(plan.spectral, b, c) \in Nat
  BY <1>1, ChunksTouchedType
<1>3. CASE a = b \/ b = c
  BY <1>2, <1>3 DEF ChunksTouched
<1>4. CASE a < b /\ b < c
  <2>1. CutAt(plan.spectral, b, c)
    BY <1>1, <1>4 DEF Aligned, CutAt
  <2> QED
    BY <1>1, <1>2, <1>4, <2>1, ChunksAddUp
<1> QED
  BY <1>2, <1>3, <1>4

(* What holds channels touches chunks. *)
LEMMA TouchesSome ==
    ASSUME NEW axis \in Selection, NEW a \in Nat, NEW b \in Nat, a < b
    PROVE  ChunksTouched(axis, a, b) \in Nat /\ ChunksTouched(axis, a, b) > 0
<1>1. b - 1 \in Nat /\ ChunkOf(axis, a) <= ChunkOf(axis, b - 1)
  BY ChunksInOrder
<1>2. ChunkOf(axis, a) \in Nat /\ ChunkOf(axis, b - 1) \in Nat
  BY <1>1, ElementType
<1> QED
  BY <1>1, <1>2, ChunksTouchedType DEF ChunksTouched

(* The chunks of the footprints walked through are a number. *)
LEMMA FootprintsBefore ==
    ASSUME TypeOK
    PROVE  /\ footprint - 1 \in 0 .. Len(shape)
           /\ ChunksBefore(shape, footprint - 1) \in Nat
           /\ ChunksBefore(shape, footprint - 1) >= footprint - 1
<1>1. footprint - 1 \in 0 .. Len(shape)
  BY Grounds DEF TypeOK
<1> QED
  BY <1>1, Grounds, SumsGrow

(* As a walk begins, none of it is walked. *)
LEMMA BeginWalkCounts == ASSUME IInv, ProgressInv, BeginWalk PROVE ProgressInv'
<1>1. TypeOK
  BY DEF IInv
<1>2. footprint' = 1 /\ slab_begin' = begin /\ begin' = begin /\ end' = end /\ shape' = shape
      /\ plan' = plan /\ pc' = "slab" /\ chunks_done' = 0 /\ reads_done' = 0
  BY DEF ProgressInv, BeginWalk
<1>3. ChunksBefore(shape, 0) = 0
  BY <1>1, Grounds, SumStep
<1>4. begin \in Nat /\ end \in Nat /\ begin < end
  BY <1>1, Grounds DEF IInv, CutInv, BeginWalk
<1>5. PICK t \in Nat : t = ChunksTouched(plan.spectral, begin, end)
  BY <1>1, <1>4, Grounds, ChunksTouchedType
<1>6. ChunksTouched(plan.spectral, begin, begin) = 0
  BY DEF ChunksTouched
<1>7. ChunksWalked' = 0 * t + (IF 1 > Len(shape) THEN 0 ELSE shape[1] * 0)
  BY <1>2, <1>3, <1>5, <1>6 DEF ChunksWalked
<1>8. 1 <= Len(shape) => shape[1] \in Nat
  BY <1>1, Grounds DEF Positive
<1>9. ChunksWalked' = 0
  BY <1>1, <1>5, <1>7, <1>8, Grounds
<1> QED
  BY <1>2, <1>9 DEF ProgressInv

(* A footprint walked to the block's end counts as one walked through. *)
LEMMA NextFootprintCounts == ASSUME IInv, ProgressInv, NextFootprint PROVE ProgressInv'
<1>1. TypeOK
  BY DEF IInv
<1>2. /\ footprint' = footprint + 1 /\ slab_begin' = begin /\ begin' = begin /\ end' = end
      /\ shape' = shape /\ plan' = plan /\ pc' = "slab" /\ chunks_done' = chunks_done
      /\ footprint <= Len(shape) /\ slab_begin = end /\ pc = "slab"
  BY DEF NextFootprint
<1>3. footprint \in 1 .. Len(shape) /\ Len(shape) \in Nat /\ footprint + 1 - 1 = footprint
  BY <1>1, <1>2, Grounds DEF TypeOK
<1>4. begin \in Nat /\ end \in Nat /\ begin < end
  BY <1>1, <1>2, Grounds DEF IInv, CutInv, Walking
<1>5. PICK t \in Nat : t = ChunksTouched(plan.spectral, begin, end)
  BY <1>1, <1>4, Grounds, ChunksTouchedType
<1>6. PICK s \in Nat : s = shape[footprint]
  BY <1>1, <1>3, Grounds DEF Positive
<1>7. PICK n \in Nat : n = ChunksBefore(shape, footprint - 1)
  BY <1>1, FootprintsBefore
<1>8. ChunksBefore(shape, footprint) = n + s
  BY <1>1, <1>3, <1>6, <1>7, Grounds, SumStep
<1>9. chunks_done = n * t + s * t
  BY <1>2, <1>3, <1>5, <1>6, <1>7 DEF ProgressInv, ChunksWalked, Walking
<1>10. ChunksWalked' = (n + s) * t
  <2>1. ChunksTouched(plan.spectral, begin, begin) = 0
    BY DEF ChunksTouched
  <2>2. footprint + 1 <= Len(shape) => shape[footprint + 1] \in Nat
    BY <1>1, <1>3, Grounds DEF Positive
  <2>3. ChunksWalked' = ChunksBefore(shape, footprint) * t
                          + (IF footprint + 1 > Len(shape) THEN 0 ELSE shape[footprint + 1] * 0)
    BY <1>2, <1>3, <1>5, <2>1 DEF ChunksWalked
  <2>4. (n + s) * t \in Nat
    OBVIOUS
  <2> QED
    BY <1>3, <1>8, <2>2, <2>3, <2>4
<1>11. chunks_done' = ChunksWalked'
  BY <1>2, <1>9, <1>10
<1>12. footprint' > 1
  BY <1>2, <1>3
<1> QED
  BY <1>2, <1>11, <1>12 DEF ProgressInv

(* What a read adds is what the slab carries its footprint on by. *)
LEMMA ReadCounts == ASSUME IInv, ProgressInv, Read PROVE ProgressInv'
<1>1. TypeOK
  BY DEF IInv
<1>2. /\ footprint' = footprint /\ slab_begin' = slab_end /\ begin' = begin /\ end' = end
      /\ shape' = shape /\ plan' = plan /\ pc' = "slab" /\ pc = "read"
      /\ chunks_done' = chunks_done
           + shape[footprint] * ChunksTouched(plan.spectral, slab_begin, slab_end)
  BY DEF Read
<1>3. /\ footprint \in 1 .. Len(shape) /\ Len(shape) \in Nat /\ plan.count \in Nat
      /\ begin \in Nat /\ end \in Nat /\ slab_begin \in Nat /\ slab_end \in Nat
      /\ begin <= slab_begin /\ slab_begin < slab_end /\ slab_end <= end /\ end <= plan.count
      /\ Aligned(slab_begin)
  BY <1>1, ReadReaches, Grounds
<1>4. PICK t \in Nat : t = ChunksTouched(plan.spectral, begin, end)
  <2>1. begin <= end
    BY <1>3
  <2> QED
    BY <1>1, <1>3, <2>1, Grounds, ChunksTouchedType
<1>5. PICK s \in Nat : s = shape[footprint]
  BY <1>1, <1>3, Grounds DEF Positive
<1>6. PICK n \in Nat : n = ChunksBefore(shape, footprint - 1)
  BY <1>1, FootprintsBefore
<1>7. PICK x \in Nat, y \in Nat : /\ x = ChunksTouched(plan.spectral, begin, slab_begin)
                                 /\ y = ChunksTouched(plan.spectral, slab_begin, slab_end)
                                 /\ x + y = ChunksTouched(plan.spectral, begin, slab_end)
  <2>1. slab_begin <= slab_end /\ slab_end <= plan.count
    BY <1>3
  <2>2. /\ ChunksTouched(plan.spectral, begin, slab_begin) \in Nat
        /\ ChunksTouched(plan.spectral, slab_begin, slab_end) \in Nat
        /\ ChunksTouched(plan.spectral, begin, slab_end) =
             ChunksTouched(plan.spectral, begin, slab_begin)
               + ChunksTouched(plan.spectral, slab_begin, slab_end)
    <3>1. PICK a \in Nat, b \in Nat, c \in Nat : a = begin /\ b = slab_begin /\ c = slab_end
      BY <1>3
    <3>2. TypeOK /\ a <= b /\ b <= c /\ c <= plan.count /\ Aligned(b)
      BY <1>1, <1>3, <2>1, <3>1
    <3>3. /\ ChunksTouched(plan.spectral, a, b) \in Nat
          /\ ChunksTouched(plan.spectral, b, c) \in Nat
          /\ ChunksTouched(plan.spectral, a, c) =
               ChunksTouched(plan.spectral, a, b) + ChunksTouched(plan.spectral, b, c)
      BY <3>2, StretchesAddUp
    <3> QED
      BY <3>1, <3>3, Zenon
  <2> QED
    BY <2>2
<1>8. chunks_done = n * t + s * x
  BY <1>2, <1>3, <1>4, <1>5, <1>6, <1>7 DEF ProgressInv, ChunksWalked, Walking
<1>9. ChunksWalked' = n * t + s * (x + y)
  BY <1>2, <1>3, <1>4, <1>5, <1>6, <1>7 DEF ChunksWalked
<1>10. chunks_done' = n * t + s * x + s * y
  BY <1>2, <1>5, <1>7, <1>8
<1>11. n * t + s * (x + y) = n * t + s * x + s * y
  <2>1. s * (x + y) = s * x + s * y
    OBVIOUS
  <2>2. n * t \in Nat /\ s * x \in Nat /\ s * y \in Nat
    OBVIOUS
  <2> QED
    BY <2>1, <2>2
<1>12. slab_begin' > begin'
  BY <1>2, <1>3
<1> QED
  BY <1>2, <1>9, <1>10, <1>11, <1>12 DEF ProgressInv

(* Every other step leaves what is counted as it is. *)
LEMMA OthersCount ==
    ASSUME IInv, ProgressInv,
           \/ BeginBlock \/ EndPass \/ WalkRefused \/ NextSlab \/ EndWalk
           \/ ReportTaken \/ ReportRefused \/ BeginRead \/ ReadRefused \/ ReadFails
           \/ BlockTaken \/ BlockRefused \/ AskToStop \/ UNCHANGED vars
    PROVE  ProgressInv'
<1>1. TypeOK
  BY DEF IInv
<1>2. CASE BeginBlock
  BY <1>2 DEF BeginBlock, ProgressInv, Walking, Finished
<1>3. CASE EndPass
  <2>1. plan.in_blocks
    BY <1>1, <1>3, Grounds DEF IInv, EndPass, CutInv
  <2> QED
    BY <1>3, <2>1 DEF EndPass, ProgressInv, Walking, Finished
<1>4. CASE WalkRefused \/ ReportRefused \/ ReadRefused \/ ReadFails \/ BlockRefused
  BY <1>4 DEF WalkRefused, ReportRefused, ReadRefused, ReadFails, BlockRefused, ProgressInv,
              Walking, Finished
<1>5. CASE NextSlab
  BY <1>5 DEF NextSlab, ProgressInv, ChunksWalked, Walking, Finished
<1>6. CASE EndWalk
  BY <1>6 DEF EndWalk, walk, ProgressInv, ChunksWalked, Walking, Finished
<1>7. CASE ReportTaken
  BY <1>7 DEF ReportTaken, walk, ProgressInv, ChunksWalked, Walking, Finished
<1>8. CASE BeginRead
  BY <1>8 DEF BeginRead, ProgressInv, ChunksWalked, Walking, Finished
<1>9. CASE BlockTaken
  <2>1. plan.in_blocks
    BY <1>1, <1>9, Grounds DEF IInv, BlockTaken, CutInv
  <2> QED
    BY <1>9, <2>1 DEF BlockTaken, ProgressInv, Walking, Finished
<1>10. CASE AskToStop
  BY <1>10 DEF AskToStop, walk, ProgressInv, ChunksWalked, Finished
<1>11. CASE UNCHANGED vars
  BY <1>11 DEF vars, ProgressInv, ChunksWalked, Finished
<1> QED
  BY <1>2, <1>3, <1>4, <1>5, <1>6, <1>7, <1>8, <1>9, <1>10, <1>11

(* At every moment of a pass its progress is the chunks it has walked. *)
THEOREM ProgressCounts == Spec => []ProgressInv
<1>1. Init => ProgressInv
  BY DEF Init, ProgressInv, Walking, Finished
<1>2. IInv /\ ProgressInv /\ [Next]_vars => ProgressInv'
  <2> SUFFICES ASSUME IInv, ProgressInv, [Next]_vars PROVE ProgressInv'
    OBVIOUS
  <2>1. CASE BeginWalk
    BY <2>1, BeginWalkCounts
  <2>2. CASE NextFootprint
    BY <2>2, NextFootprintCounts
  <2>3. CASE Read
    BY <2>3, ReadCounts
  <2> QED
    BY <2>1, <2>2, <2>3, OthersCount DEF Next, Step, Ended
<1> QED
  BY <1>1, <1>2, PassInductive, PTL DEF Spec

(* The whole of a block, and the part of it that is walked. *)
LEMMA Total ==
    ASSUME TypeOK, begin < end
    PROVE  \E t \in Nat, l \in Nat :
             /\ t > 0 /\ t = ChunksTouched(plan.spectral, begin, end)
             /\ l = LayerChunks(plan) /\ l = ChunksBefore(shape, Len(shape))
             /\ l > 0 => ChunksCovering(plan, begin, end) = l * t
<1>1. PICK t \in Nat : t > 0 /\ t = ChunksTouched(plan.spectral, begin, end)
  BY Grounds, TouchesSome
<1>2. plan \in PlanFields /\ shape = Shape(plan)
  BY PlansAssumption DEF TypeOK
<1>3. PICK l \in Nat : l = LayerChunks(plan) /\ l = ChunksBefore(shape, Len(shape))
  BY <1>2, LayerIsTheSum
<1>4. ASSUME l > 0 PROVE ChunksCovering(plan, begin, end) = l * t
  <2>1. l * t \in Nat /\ l * t > 0
    BY <1>1, <1>4
  <2> QED
    BY <1>1, <1>3, <1>4, <2>1 DEF ChunksCovering, AtLeastOne
<1> QED
  BY <1>1, <1>3, <1>4

(* When progress is told some of the block is done, and some is left. *)
LEMMA ReportIsPart ==
    ASSUME IInv, ProgressInv, pc = "report"
    PROVE  0 < chunks_done /\ chunks_done < ChunksCovering(plan, begin, end)
<1>1. TypeOK
  BY DEF IInv
<1>2. /\ footprint \in 1 .. Len(shape) /\ Len(shape) \in Nat /\ plan.count \in Nat
      /\ begin \in Nat /\ end \in Nat /\ slab_begin \in Nat
      /\ begin <= slab_begin /\ slab_begin < end /\ begin < end /\ end <= plan.count
      /\ Aligned(slab_begin)
  BY <1>1, Grounds DEF IInv, TypeOK, CutInv, Walking
<1>3. PICK t \in Nat, l \in Nat :
         /\ t > 0 /\ t = ChunksTouched(plan.spectral, begin, end)
         /\ l = ChunksBefore(shape, Len(shape))
         /\ l > 0 => ChunksCovering(plan, begin, end) = l * t
  BY <1>1, <1>2, Total
<1>4. PICK s \in Nat : s = shape[footprint] /\ s > 0
  BY <1>1, <1>2, Grounds DEF Positive
<1>5. PICK n \in Nat : n = ChunksBefore(shape, footprint - 1) /\ n >= footprint - 1
  BY <1>1, FootprintsBefore
<1>6. n + s <= l
  <2>1. ChunksBefore(shape, footprint) = n + s
    BY <1>1, <1>2, <1>4, <1>5, Grounds, SumStep
  <2>2. footprint \in 0 .. Len(shape) /\ Len(shape) \in footprint .. Len(shape)
    BY <1>2
  <2> QED
    BY <1>1, <1>3, <2>1, <2>2, Grounds, SumsInOrder
<1>7. PICK x \in Nat, y \in Nat : /\ x = ChunksTouched(plan.spectral, begin, slab_begin)
                                 /\ y > 0 /\ x + y = t
  <2>1. slab_begin <= end
    BY <1>2
  <2>2. ChunksTouched(plan.spectral, slab_begin, end) > 0
    BY <1>1, <1>2, Grounds, TouchesSome
  <2>3. /\ ChunksTouched(plan.spectral, begin, slab_begin) \in Nat
        /\ ChunksTouched(plan.spectral, slab_begin, end) \in Nat
        /\ ChunksTouched(plan.spectral, begin, end) =
             ChunksTouched(plan.spectral, begin, slab_begin)
               + ChunksTouched(plan.spectral, slab_begin, end)
    BY <1>1, <1>2, <2>1, StretchesAddUp
  <2> QED
    BY <1>3, <2>2, <2>3
<1>8. chunks_done = n * t + s * x
  BY <1>2, <1>3, <1>4, <1>5, <1>7 DEF ProgressInv, ChunksWalked, Walking
<1>9. 0 < chunks_done
  <2>1. n * t \in Nat /\ s * x \in Nat
    OBVIOUS
  <2>2. CASE footprint > 1
    <3>1. n > 0
      BY <1>2, <1>5, <2>2
    <3>2. n * t > 0
      BY <1>3, <3>1
    <3> QED
      BY <1>8, <2>1, <3>2
  <2>3. CASE slab_begin > begin
    <3>1. x > 0
      BY <1>1, <1>2, <1>7, <2>3, Grounds, TouchesSome
    <3>2. s * x > 0
      BY <1>4, <3>1
    <3> QED
      BY <1>8, <2>1, <3>2
  <2> QED
    BY <2>2, <2>3 DEF ProgressInv
<1>10. chunks_done < l * t
  <2>1. PICK r \in Nat : l = n + s + r
    <3>1. l - (n + s) \in Nat /\ l = n + s + (l - (n + s))
      BY <1>6
    <3> QED
      BY <3>1
  <2>2. (n + s + r) * (x + y) = n * (x + y) + s * x + s * y + r * (x + y)
    OBVIOUS
  <2>3. s * y > 0 /\ s * y \in Nat
    BY <1>4, <1>7
  <2>4. n * (x + y) \in Nat /\ s * x \in Nat /\ r * (x + y) \in Nat
    OBVIOUS
  <2>5. l * t = n * t + s * x + s * y + r * (x + y)
    BY <1>7, <2>1, <2>2
  <2>6. n * t \in Nat
    OBVIOUS
  <2> QED
    BY <1>8, <2>3, <2>4, <2>5, <2>6
<1> QED
  BY <1>3, <1>4, <1>6, <1>9, <1>10

(* When a block is done all of it is. *)
LEMMA FinishedIsWhole ==
    ASSUME IInv, ProgressInv, Finished, LayerChunks(plan) > 0
    PROVE  chunks_done = ChunksCovering(plan, begin, end)
<1>1. TypeOK
  BY DEF IInv
<1>2. footprint = Len(shape) + 1 /\ Len(shape) \in Nat /\ begin < end
  BY <1>1, Grounds DEF IInv, CutInv, Finished, Walking
<1>3. PICK t \in Nat, l \in Nat :
         /\ t = ChunksTouched(plan.spectral, begin, end)
         /\ l = LayerChunks(plan) /\ l = ChunksBefore(shape, Len(shape))
         /\ l > 0 => ChunksCovering(plan, begin, end) = l * t
  BY <1>1, <1>2, Total
<1>4. footprint - 1 = Len(shape) /\ footprint > Len(shape)
  BY <1>2
<1>5. chunks_done = l * t + 0
  BY <1>3, <1>4 DEF ProgressInv, ChunksWalked
<1>6. l * t \in Nat
  OBVIOUS
<1> QED
  BY <1>3, <1>5, <1>6

(* The progress a pass tells is honest, of every image, sample, selection   *)
(* and budget: the bands it is counted over cover the plane and no chunk    *)
(* twice, it is a proper part of the whole when it is told, and the whole   *)
(* when the block is handed over.                                           *)
THEOREM ProgressHonestEver == Spec => []ProgressHonest
<1>1. IInv /\ ProgressInv => ProgressHonest
  <2> SUFFICES ASSUME IInv, ProgressInv PROVE ProgressHonest
    OBVIOUS
  <2>1. PlaneCovered
    <3>1. CASE plan.plane
      BY <3>1, CoversThePlane DEF IInv
    <3>2. CASE ~ plan.plane
      BY <3>2 DEF PlaneCovered
    <3> QED
      BY <3>1, <3>2
  <2> QED
    BY <2>1, ReportIsPart, FinishedIsWhole DEF ProgressHonest
<1> QED
  BY <1>1, PassInductive, ProgressCounts, PTL
=============================================================================
