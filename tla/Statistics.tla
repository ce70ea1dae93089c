---------------------------- MODULE Statistics ----------------------------
(***************************************************************************)
(* The statistics of a set of pixels, and how two sets' are put together:  *)
(* src/src/reduce/deviations.h, the per-pixel loop of spectral_reduce.cc   *)
(* and the fold and merge of statistic_slots.h.                            *)
(*                                                                         *)
(* A pixel is a small integer or NonFinite.  The mean's offset and the sum *)
(* of squared deviations are fractions of the count, and are kept times    *)
(* it: every number here is an integer, and exact where the code rounds.   *)
(***************************************************************************)
EXTENDS ChunkBlocks, FiniteSets, Sequences, SequencesExt

CONSTANTS NonFinite,       \* a pixel that is NaN or an infinity
          PosInf, NegInf,  \* the identities of min and max
          NaN              \* an extremum of no pixels, as reported

StatisticOrder == <<"num_pixels", "nan_count", "sum", "sum_sq", "min", "max", "sum_sq_dev">>

Untouched == [s \in ToSet(StatisticOrder) \cup {"base", "offset"} |->
                CASE s = "min" -> PosInf [] s = "max" -> NegInf [] OTHER -> 0]

Smaller(a, b) == IF a = PosInf THEN b ELSE IF b = PosInf THEN a ELSE Least(a, b)
Larger(a, b) == IF a = NegInf THEN b ELSE IF b = NegInf THEN a ELSE Greatest(a, b)

(* How far apart the means of two sets are, times both their counts. *)
Between(a, b) ==
    (b.base - a.base) * a.num_pixels * b.num_pixels
      + b.offset * a.num_pixels - a.offset * b.num_pixels

(* Spread::Merge: the formula of Chan, Golub and LeVeque.  The base stays   *)
(* where the first set put it.                                              *)
MergeSpread(a, b) ==
    LET n == a.num_pixels + b.num_pixels
        both == a.num_pixels * b.num_pixels
        between == Between(a, b)
    IN  IF b.num_pixels = 0
          THEN [base |-> a.base, offset |-> a.offset, sum_sq_dev |-> a.sum_sq_dev]
        ELSE IF a.num_pixels = 0
          THEN [base |-> b.base, offset |-> b.offset, sum_sq_dev |-> b.sum_sq_dev]
        ELSE [base |-> a.base,
              offset |-> (a.offset * n + between) \div a.num_pixels,
              sum_sq_dev |-> (n * (a.sum_sq_dev * b.num_pixels + b.sum_sq_dev * a.num_pixels)
                                + between * between) \div both]

(* Two sets of pixels' values as one's.  The deviations are put together    *)
(* first, while the counts are those of before.                             *)
Combined(a, b) ==
    LET spread == MergeSpread(a, b)
    IN  [s \in DOMAIN a |->
           CASE s = "min" -> Smaller(a.min, b.min)
             [] s = "max" -> Larger(a.max, b.max)
             [] s \in {"base", "offset", "sum_sq_dev"} -> spread[s]
             [] OTHER -> a[s] + b[s]]

(* AccumulateRow: the totals of one span's selected pixels.  The distances  *)
(* are taken from its first finite pixel.                                   *)
Total(values, Value(_)) == FoldLeft(LAMBDA sum, v : sum + Value(v), 0, values)
SpanTotals(values) ==
    LET finite == SelectSeq(values, LAMBDA v : v # NonFinite)
        good   == Len(finite)
        shift  == IF good = 0 THEN 0 ELSE Head(finite)
        distances == Total(finite, LAMBDA v : v - shift)
    IN  [num_pixels |-> good, nan_count |-> Len(values) - good,
         sum |-> Total(finite, LAMBDA v : v), sum_sq |-> Total(finite, LAMBDA v : v * v),
         min |-> FoldLeft(Smaller, PosInf, finite), max |-> FoldLeft(Larger, NegInf, finite),
         base |-> shift, offset |-> distances,
         sum_sq_dev |-> good * Total(finite, LAMBDA v : (v - shift) * (v - shift))
                          - distances * distances]

(* A statistic of points by its definition, for comparing with. *)
StatisticOf(s, points, Value(_)) ==
    LET finite == {p \in points : Value(p) # NonFinite}
        sum == MapThenSumSet(Value, finite)
        sum_sq == MapThenSumSet(LAMBDA p : Value(p) * Value(p), finite)
    IN  CASE s = "num_pixels" -> Cardinality(finite)
          [] s = "nan_count" -> Cardinality(points \ finite)
          [] s = "sum" -> sum
          [] s = "sum_sq" -> sum_sq
          [] s = "min" -> IF finite = {} THEN NaN ELSE Min({Value(p) : p \in finite})
          [] s = "max" -> IF finite = {} THEN NaN ELSE Max({Value(p) : p \in finite})
          [] s = "sum_sq_dev" -> Cardinality(finite) * sum_sq - sum * sum
===========================================================================
