------------------------- MODULE GrowingHistogram -------------------------
(***************************************************************************)
(* A histogram whose range grows to fit what arrives, and what it is laid  *)
(* over when the range wanted is known: src/src/reduce/growing_histogram.h.*)
(*                                                                         *)
(* Values are floats of a small precision: Floats has the magnitudes they  *)
(* come in, as integers, so that a float's spacing grows with it.  Ranges  *)
(* and widths, doubles in the code, are exact.                             *)
(***************************************************************************)
EXTENDS ChunkBlocks, FiniteSets, Sequences, SequencesExt

CONSTANT Floats              \* magnitudes of the finite floats, 0 among them

ASSUME FloatsAssumption ==
    /\ Floats \subseteq Nat /\ 0 \in Floats /\ 1 \in Floats
    /\ \E largest \in Floats : \A f \in Floats : f <= largest

CountsOf(bins) == [b \in 0 .. bins - 1 |-> 0]
Added(a, b) == [i \in DOMAIN a |-> a[i] + b[i]]
Magnitude(v) == IF v < 0 THEN -v ELSE v
LargestFloat == Max(Floats)

(* The sum of counts numbered from 0. *)
SumBefore(counts, n) ==
    LET upto[i \in 0 .. Cardinality(DOMAIN counts)] == IF i = 0 THEN 0 ELSE upto[i - 1] + counts[i - 1]
    IN  upto[n]
Sum(counts) == SumBefore(counts, Cardinality(DOMAIN counts))

NewHistogram(bins) == [counts |-> CountsOf(bins), lower |-> 0, width |-> 1, seeded |-> FALSE]
Bins(g) == Cardinality(DOMAIN g.counts)
Top(g) == g.lower + g.width * Bins(g)

(* The distance to the next float up, or at the largest to the one below. *)
Spacing(v) ==
    LET at == Magnitude(v)
    IN  IF at < LargestFloat THEN Min({f \in Floats : f > at}) - at
        ELSE at - Max({f \in Floats : f < at})

Seeded(g, v) ==
    IF g.seeded THEN g
    ELSE [g EXCEPT !.width = Spacing(v), !.lower = v - Spacing(v) * (Bins(g) \div 2), !.seeded = TRUE]

(* A fault: growing downward leaves the old range in the lower half. *)
MergeIntoOwnHalf(g, upward) ==
    [m \in DOMAIN g.counts |->
       LET half == Bins(g) \div 2
       IN  IF m < half THEN g.counts[2 * m] + g.counts[2 * m + 1] ELSE 0]

(* The old range is one half of the new: bins 2m and 2m + 1 are bin m of it.*)
Merged(g, upward) ==
    [m \in DOMAIN g.counts |->
       LET half == Bins(g) \div 2
           of   == IF upward THEN m ELSE m - half
       IN  IF of \in 0 .. half - 1 THEN g.counts[2 * of] + g.counts[2 * of + 1] ELSE 0]

Grow(g, upward) ==
    [g EXCEPT !.counts = Merged(g, upward),
              !.lower = IF upward THEN @ ELSE @ - g.width * Bins(g),
              !.width = 2 * @]

(* Grown until the value is inside, downward first, then upward.  Growing   *)
(* reaches one further at least, so it takes no more than the distance.     *)
GrowTowards(g, v) == IF v < g.lower THEN Grow(g, FALSE) ELSE IF v >= Top(g) THEN Grow(g, TRUE) ELSE g
GrownTowards(g, v, n) ==
    LET grown[i \in 0 .. n] == IF i = 0 THEN g ELSE GrowTowards(grown[i - 1], v)
    IN  grown[n]
Fitted(g, v) ==
    LET h == Seeded(g, v)
    IN  GrownTowards(h, v, Magnitude(v - h.lower))

AddValue(g, v) ==
    LET h   == Fitted(g, v)
        bin == Least((v - h.lower) \div h.width, Bins(h) - 1)
    IN  [h EXCEPT !.counts[bin] = @ + 1]

(* One value after another. *)
AddFirst(g, values, n) ==
    LET added[i \in 0 .. n] == IF i = 0 THEN g ELSE AddValue(added[i - 1], values[i])
    IN  added[n]
AddValues(g, values) == AddFirst(g, values, Len(values))

-----------------------------------------------------------------------------
Clamped(n, least, most) == Greatest(least, Least(n, most))

(* A fault: all the leftovers go to the first bin. *)
LeftoversToFirst(rest, taken) == 0

(* Who has the largest fraction left, the first of equals. *)
LargestRemainder(rest, taken) ==
    LET open == DOMAIN rest \ taken
    IN  CHOOSE k \in open : \A l \in open : rest[l] < rest[k] \/ (rest[l] = rest[k] /\ k <= l)

(* The first so many of them. *)
Takers(rest, n) ==
    LET takers[i \in 0 .. n] == IF i = 0 THEN {} ELSE takers[i - 1] \cup {LargestRemainder(rest, takers[i - 1])}
    IN  takers[n]

(* A provisional bin's count over the target bins it overlaps, by how much  *)
(* of it each covers, the leftovers to the largest remainders.  Lengths are *)
(* times the number of target bins, fractions times what is covered.        *)
Whole(count, pieces) == [k \in DOMAIN pieces |-> (count * pieces[k]) \div Sum(pieces)]
Rest(count, pieces) == [k \in DOMAIN pieces |-> (count * pieces[k]) % Sum(pieces)]
Shares(count, pieces) ==
    LET whole  == Whole(count, pieces)
        takers == Takers(Rest(count, pieces), count - Sum(whole))
    IN  [k \in DOMAIN pieces |-> whole[k] + (IF k \in takers THEN 1 ELSE 0)]

(* Where a provisional bin's pixels go, of bins over [lower, upper]. *)
SplitBin(g, i, bins, lower, upper) ==
    LET from == g.lower + g.width * i
        to   == from + g.width
        span == upper - lower
        first == Clamped(((from - lower) * bins) \div span, 0, bins - 1)
        last  == Clamped(((to - lower) * bins) \div span, 0, bins - 1)
        low(b)  == Greatest(from * bins, lower * bins + span * b)
        high(b) == Least(to * bins, lower * bins + span * (b + 1))
        pieces == [k \in 0 .. last - first |-> Greatest(0, high(first + k) - low(first + k))]
        shares == IF first = last \/ Sum(pieces) = 0
                  THEN [k \in {0} |-> g.counts[i]] ELSE Shares(g.counts[i], pieces)
    IN  [b \in 0 .. bins - 1 |-> IF b - first \in DOMAIN shares THEN shares[b - first] ELSE 0]

(* Every pixel of one value goes in the first bin. *)
Aggregate(g, bins, lower, upper) ==
    IF ~ (lower < upper) THEN [CountsOf(bins) EXCEPT ![0] = Sum(g.counts)]
    ELSE FoldSet(LAMBDA i, out : Added(out, SplitBin(g, i, bins, lower, upper)),
                 CountsOf(bins), {i \in DOMAIN g.counts : g.counts[i] # 0})

-----------------------------------------------------------------------------
(* A histogram of values: every one of them is between its ends, and in     *)
(* each bin are counted those between its edges.                            *)
Within(g, i, v) == g.lower + g.width * i <= v /\ v < g.lower + g.width * (i + 1)
Holds(g, values) ==
    /\ \A n \in DOMAIN values : g.lower <= values[n] /\ values[n] < Top(g)
    /\ \A i \in DOMAIN g.counts : g.counts[i] = Cardinality({n \in DOMAIN values : Within(g, i, values[n])})
===========================================================================
