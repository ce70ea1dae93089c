---------------------------- MODULE Histograms ----------------------------
(***************************************************************************)
(* The histogram of every plane against fixed bounds, and the histogram of *)
(* a whole cube against the bounds its own pixels turn out to have:        *)
(* src/src/reduce/plane_histogram.cc and provisional_histograms.h, over    *)
(* the pass of Pass.                                                       *)
(*                                                                         *)
(* Pixels are floats of a small precision, and a bound may fall between    *)
(* two of them (GrowingHistogram).                                         *)
(***************************************************************************)
EXTENDS Statistics, TaskSplit, GrowingHistogram

CONSTANTS Requests,          \* the images and histograms to compute
          None,
          MaxBins,           \* kMaxHistogramBins
          ProvisionalPerBin, LeastProvisional, MostProvisional,  \* of tuning.h
          PartialBudget,     \* kHistogramPartialBudgetBytes
          CubeBudget,        \* kCubeAccumulatorCacheBytes
          EmitBudget         \* kSpectralEmitBudgetBytes

-----------------------------------------------------------------------------
(* The request. *)

(* The float nearest to a number; no bound given lies between two of them.  *)
Narrow(v) ==
    LET away(f) == Magnitude(Magnitude(v) - f)
        nearest == CHOOSE f \in Floats : \A h \in Floats : away(f) < away(h) \/ (away(f) = away(h) /\ f <= h)
    IN  IF v < 0 THEN -nearest ELSE nearest
FitsFloat(v) == Magnitude(v) <= LargestFloat

(* A request whose planes the image has is refused only for these. *)
ValidateBins(r) == r.bins # 0 /\ r.bins <= MaxBins
ValidateRange(r) == r.lower < r.upper /\ FitsFloat(r.lower) /\ FitsFloat(r.upper)
Accepted(r) ==
    /\ ValidateBins(r)
    /\ IF r.cube THEN r.sample # 0 ELSE r.sink /\ ValidateRange(r)

(* How many bins a provisional histogram has: a power of two. *)
Resolution(r) ==
    LET asked == IF r.provisional # 0 THEN r.provisional
                 ELSE Clamped(r.bins * ProvisionalPerBin, LeastProvisional, MostProvisional)
        rounded[n \in Nat] == IF n < Least(asked, MaxBins) THEN rounded[2 * n] ELSE n
    IN  rounded[2]

AccumulatorBytes(r) == 8 * (IF r.cube THEN Resolution(r) ELSE r.bins)
Most(r) == MostTasks(IF r.cube THEN CubeBudget ELSE PartialBudget, AccumulatorBytes(r))

PlanOf(r) ==
    [u |-> r.u, v |-> r.v, sample |-> r.sample, spectral |-> r.spectral, count |-> r.count,
     chunks_per_read |-> r.chunks_per_read,
     budget_channels |-> AtLeastOne(EmitBudget \div (8 * AtLeastOne(r.bins))),
     hint |-> r.hint, in_blocks |-> ~ r.cube, plane |-> TRUE, regions |-> <<>>]

(* The bin of a pixel, against bounds narrowed to floats: by the width the  *)
(* request's own bounds give, unless no float holds their span or that      *)
(* width; then by the width of the narrowed ones, and all in the first bin  *)
(* when they are one.  The width is a fraction, compared times the bins and *)
(* not narrowed.                                                            *)
Admits(r, value) == value # NonFinite /\ Narrow(r.lower) <= value /\ value <= Narrow(r.upper)
FiniteOffsets(r) ==
    LET span  == Narrow(r.upper) - Narrow(r.lower)
        width == r.upper - r.lower
    IN  /\ span > 0 /\ span <= LargestFloat
        /\ width > 0 /\ width <= LargestFloat * r.bins
BinOf(r, value) ==
    LET lower == Narrow(r.lower)
        span  == Narrow(r.upper) - lower
        offset == IF FiniteOffsets(r) THEN ((value - lower) * r.bins) \div (r.upper - r.lower)
                  ELSE IF span > 0 THEN ((value - lower) * r.bins) \div span ELSE 0
    IN  Least(offset, r.bins - 1)

-----------------------------------------------------------------------------
VARIABLES
    \* the pass
    plan, shape, pc, told, begin, end, footprint, slab_begin, slab_end, reads_done, chunks_done,
    told_before, filled, decoded,
    \* the histograms
    request,
    counts,         \* of the block: by channel of it and bin
    accumulators,   \* of the cube: each task's provisional histogram and totals
    partials,       \* of a plane: each task's counts
    plane_at,       \* the plane of the slab being binned
    waiting,        \* tasks not yet run; None when there is no split
    given,          \* what the caller was last given
    seen            \* the values each accumulator was given, for the properties

pass == <<plan, shape, pc, told, begin, end, footprint, slab_begin, slab_end, reads_done,
          chunks_done, told_before, filled, decoded>>
held == <<request, counts, accumulators, partials, plane_at, waiting, given, seen>>
vars == <<pass, held>>

Walk == INSTANCE Pass WITH Plans <- {}

band == Walk!PlaneBands(plan)[footprint]
Length == slab_end - slab_begin

(* Row v of a plane of the slab, sampled along u. *)
RowOf(v, channel) ==
    [n \in 1 .. band.u.count |->
       request.pixels[<<band.u.start + (n - 1) * plan.sample, band.v.start + v * plan.sample,
                        ElementAt(plan.spectral, slab_begin + channel)>>]]

(* TakeRows: rows of the whole read, numbered across its planes.  The       *)
(* totals are made apart and put in at the end.                             *)
NewAccumulator(r) == [growing |-> NewHistogram(Resolution(r)), totals |-> Untouched]
FiniteOf(row) == SelectSeq(row, LAMBDA value : value # NonFinite)
ReadRow(index) == RowOf(index % band.v.count, index \div band.v.count)
RowsOf(share) == [k \in 1 .. share.last - share.first |-> ReadRow(share.first + k - 1)]

TakeRows(into, rows) ==
    LET totals == FoldLeft(LAMBDA sum, row : Combined(sum, SpanTotals(row)), Untouched, rows)
    IN  [growing |-> AddValues(into.growing, FiniteOf(FlattenSeq(rows))),
         totals  |-> Combined(into.totals, totals)]

(* Collect: the extremes of all of them are the range, and each provisional *)
(* histogram is laid over it on its own.                                    *)
Collect ==
    LET all == FoldLeft(LAMBDA sum, a : Combined(sum, a.totals), Untouched, accumulators)
        parts == [k \in DOMAIN accumulators |->
                    Aggregate(accumulators[k].growing, request.bins, all.min, all.max)]
    IN  IF all.num_pixels = 0
        THEN [totals |-> [all EXCEPT !.min = NaN, !.max = NaN], counts |-> CountsOf(request.bins)]
        ELSE [totals |-> all, counts |-> FoldLeft(Added, CountsOf(request.bins), parts)]

(* Rows of a plane, binned into counts. *)
Binned(into, rows) ==
    FoldLeft(LAMBDA c, value : IF Admits(request, value)
                               THEN [c EXCEPT ![BinOf(request, value)] = @ + 1] ELSE c,
             into, FlattenSeq(rows))
PlaneRows(share) ==
    [k \in 1 .. share.last - share.first |-> RowOf(share.first + k - 1, plane_at)]

SlabRows == IF request.cube THEN Length * band.v.count ELSE band.v.count
Tasks == PlanRowTasks(band.u.count, SlabRows, Most(request))

-----------------------------------------------------------------------------
Init ==
    /\ request \in Requests
    /\ plan = PlanOf(request) /\ shape = <<>>
    /\ pc = "request" /\ told = FALSE
    /\ begin = 0 /\ end = 0 /\ footprint = 1 /\ slab_begin = 0 /\ slab_end = 0
    /\ reads_done = 0 /\ chunks_done = 0 /\ told_before = FALSE
    /\ filled = <<>> /\ decoded = <<>>
    /\ counts = <<>> /\ accumulators = <<>> /\ partials = <<>>
    /\ plane_at = 0 /\ waiting = None /\ given = None /\ seen = <<>>

Refuse ==
    /\ pc = "request" /\ ~ Accepted(request)
    /\ pc' = "failed"
    /\ UNCHANGED <<plan, shape, told, begin, end, footprint, slab_begin, slab_end, reads_done,
                   chunks_done, told_before, filled, decoded, held>>

Accept ==
    /\ pc = "request" /\ Accepted(request)
    /\ shape' = Walk!Shape(plan)
    /\ filled' = [c \in (DOMAIN shape') \X (0 .. plan.count - 1) |-> <<>>]
    /\ decoded' = [k \in (DOMAIN shape') \X (0 .. Walk!Last(plan)) |-> 0]
    /\ accumulators' = IF request.cube THEN [k \in 1 .. Most(request) |-> NewAccumulator(request)] ELSE <<>>
    /\ seen' = [k \in DOMAIN accumulators' |-> <<>>]
    /\ pc' = "block"
    /\ UNCHANGED <<plan, told, begin, end, footprint, slab_begin, slab_end, reads_done, chunks_done,
                   told_before, request, counts, partials, plane_at, waiting, given>>

(* InBlocks resets the block's counts; Whole keeps the accumulators. *)
BeginBlock ==
    /\ Walk!BeginBlock
    /\ counts' = IF request.cube THEN <<>>
                 ELSE [c \in 0 .. end' - begin - 1 |-> CountsOf(request.bins)]
    /\ UNCHANGED <<request, accumulators, partials, plane_at, waiting, given, seen>>

WalkOn ==
    /\ \/ Walk!EndPass \/ Walk!BeginWalk \/ Walk!WalkRefused \/ Walk!NextSlab
       \/ Walk!NextFootprint \/ Walk!BeginRead \/ Walk!ReadRefused
       \/ (plan.in_blocks /\ Walk!EndWalk)
    /\ UNCHANGED held

(* What the caller is given: a block's counts, or a snapshot of the cube.   *)
Give(complete) ==
    /\ given' = [complete |-> complete, first |-> begin,
                 result |-> IF request.cube THEN Collect ELSE counts]
    /\ UNCHANGED <<request, counts, accumulators, partials, plane_at, waiting, seen>>

Report == (Walk!ReportTaken \/ Walk!ReportRefused) /\ Give(FALSE)
Deliver == (Walk!BlockTaken \/ Walk!BlockRefused) /\ Give(TRUE)
Answer == ~ plan.in_blocks /\ Walk!EndWalk /\ Give(TRUE)

(* The planes of a slab one after another, or the whole read at once, in as *)
(* many tasks as it is worth: a plane of one is binned into the block.      *)
PlaneLeft == request.cube \/ plane_at < Length
SplitRows ==
    /\ pc = "read" /\ waiting = None /\ PlaneLeft
    /\ IF request.cube \/ Tasks > 1
       THEN /\ waiting' = 0 .. Tasks - 1
            /\ partials' = IF request.cube THEN <<>> ELSE [t \in 0 .. Tasks - 1 |-> CountsOf(request.bins)]
            /\ UNCHANGED <<counts, plane_at>>
       ELSE /\ counts' = [counts EXCEPT ![slab_begin - begin + plane_at] =
                            Binned(@, PlaneRows([first |-> 0, last |-> band.v.count]))]
            /\ plane_at' = plane_at + 1
            /\ UNCHANGED <<waiting, partials>>
    /\ UNCHANGED <<pass, request, accumulators, given, seen>>

AccumulatorOf(task) == task + 1

RunTask(t) ==
    /\ waiting # None /\ t \in waiting
    /\ LET share == Share(t, Tasks, SlabRows)
           a == AccumulatorOf(t)
       IN  IF request.cube
           THEN /\ accumulators' = [accumulators EXCEPT ![a] = TakeRows(@, RowsOf(share))]
                /\ seen' = [seen EXCEPT ![a] = @ \o FiniteOf(FlattenSeq(RowsOf(share)))]
                /\ UNCHANGED partials
           ELSE /\ partials' = [partials EXCEPT ![t] = Binned(@, PlaneRows(share))]
                /\ UNCHANGED <<accumulators, seen>>
    /\ waiting' = waiting \ {t}
    /\ UNCHANGED <<pass, request, counts, plane_at, given>>

(* A fault: the sum of a band's tasks is stored over the bands before it. *)
StorePartials ==
    /\ waiting = {} /\ ~ request.cube
    /\ counts' = [counts EXCEPT ![slab_begin - begin + plane_at] =
                    FoldSet(LAMBDA t, sum : Added(sum, partials[t]), CountsOf(request.bins), DOMAIN partials)]
    /\ plane_at' = plane_at + 1
    /\ waiting' = None /\ partials' = <<>>
    /\ UNCHANGED <<pass, request, accumulators, given, seen>>

(* Once its tasks are done, a plane's partials are summed; a read's are the *)
(* accumulators themselves.                                                 *)
SumPartials ==
    /\ waiting = {} /\ ~ request.cube
    /\ counts' = [counts EXCEPT ![slab_begin - begin + plane_at] =
                    FoldSet(LAMBDA t, sum : Added(sum, partials[t]), @, DOMAIN partials)]
    /\ plane_at' = plane_at + 1
    /\ waiting' = None /\ partials' = <<>>
    /\ UNCHANGED <<pass, request, accumulators, given, seen>>

EndSlab ==
    /\ IF request.cube THEN waiting = {} ELSE waiting = None /\ plane_at = Length
    /\ Walk!Read
    /\ plane_at' = 0 /\ waiting' = None
    /\ UNCHANGED <<request, counts, accumulators, partials, given, seen>>

SlabFails == waiting = None /\ plane_at = 0 /\ Walk!ReadFails /\ UNCHANGED held

AskToStop == pc # "request" /\ Walk!AskToStop /\ UNCHANGED held
Ended == Walk!Ended /\ UNCHANGED held

Next ==
    \/ Refuse \/ Accept \/ BeginBlock \/ WalkOn \/ Report \/ Deliver \/ Answer
    \/ SplitRows \/ (\E t \in 0 .. PoolSize - 1 : RunTask(t)) \/ SumPartials \/ EndSlab \/ SlabFails
    \/ AskToStop \/ Ended

Spec == Init /\ [][Next]_vars

-----------------------------------------------------------------------------
(* The sampled pixels of the image, and those of a channel the pass has     *)
(* read so far.                                                             *)
Sampled == {x \in 0 .. plan.u.length - 1 : x % plan.sample = 0}
             \X {y \in 0 .. plan.v.length - 1 : y % plan.sample = 0}
InBand(p, b) ==
    /\ p[1] \in b.u.start .. b.u.start + (b.u.count - 1) * plan.sample
    /\ p[2] \in b.v.start .. b.v.start + (b.v.count - 1) * plan.sample
ReadSoFar(channel) ==
    {p \in Sampled : \E f \in DOMAIN shape :
       channel < Walk!Reached(f) /\ InBand(p, Walk!PlaneBands(plan)[f])}
ValueAt(p, channel) == request.pixels[<<p[1], p[2], ElementAt(plan.spectral, channel)>>]

(* A bin reaches from its lower edge to the next bin's, the last one to the *)
(* upper bound, which may lie above its edge; over bounds that are one      *)
(* float there is only the first.                                           *)
LiesIn(value, b) ==
    LET lower == Narrow(request.lower)
        narrow == Narrow(request.upper) - lower
        span == IF narrow > LargestFloat THEN narrow ELSE request.upper - request.lower
        AtLeast(edge) == (value - lower) * request.bins >= span * edge
    IN  IF narrow = 0 THEN b = 0 ELSE AtLeast(b) /\ (b = request.bins - 1 \/ ~ AtLeast(b + 1))

(* Each plane of a block is given with every pixel of it between the        *)
(* narrowed bounds in one bin, the one whose edges it lies between, however *)
(* the plane was cut into bands and its rows into tasks; and a part-filled  *)
(* block with those read so far.                                            *)
PlaneCountsExact ==
    (given # None) /\ ~ request.cube
      /\ pc = (IF given.complete THEN "block" ELSE "check") =>
        \A c \in DOMAIN given.result :
          LET channel == given.first + c
              pixels == {p \in IF given.complete THEN Sampled ELSE ReadSoFar(channel) :
                           Admits(request, ValueAt(p, channel))}
          IN  /\ Sum(given.result[c]) = Cardinality(pixels)
              /\ \A b \in 0 .. request.bins - 1 :
                   given.result[c][b] = Cardinality({p \in pixels : LiesIn(ValueAt(p, channel), b)})

(* Growing keeps every count where it belongs: a provisional histogram has  *)
(* in each bin the values its task was given that lie between the bin's     *)
(* edges, and every one of them is in some bin.                             *)
GrowthExact == \A k \in DOMAIN accumulators : Holds(accumulators[k].growing, seen[k])

(* What target bin b is due of a provisional bin's pixels, were they spread *)
(* evenly over the part of it between the bounds: the share times covered.  *)
Overlap(g, i, b, lower, upper) ==
    LET bins == request.bins
        from == (g.lower + g.width * i) * bins
        low  == Greatest(from, lower * bins + (upper - lower) * b)
        high == Least(from + g.width * bins, lower * bins + (upper - lower) * (b + 1))
    IN  Greatest(0, high - low)

(* A cube's histogram, or a snapshot of it, has the statistics of the       *)
(* pixels read by their definitions and a count for every finite one of     *)
(* them; and each bin has the pixels it is due of every provisional bin, to *)
(* within one pixel of each of those that reach across an edge of it.       *)
CubeExact ==
    (given # None) /\ request.cube /\ pc = (IF given.complete THEN "done" ELSE "check") =>
      LET totals == given.result.totals
          points == {<<p, c>> \in Sampled \X (0 .. plan.count - 1) : given.complete \/ p \in ReadSoFar(c)}
          filledBins(k) == {i \in DOMAIN accumulators[k].growing.counts : accumulators[k].growing.counts[i] > 0}
          overlap(k, i, b) == Overlap(accumulators[k].growing, i, b, totals.min, totals.max)
          covered(k, i) == MapThenSumSet(LAMBDA b : overlap(k, i, b), 0 .. request.bins - 1)
          due(k, i, b) == accumulators[k].growing.counts[i] * overlap(k, i, b)
          fewest(k, i, b) == IF covered(k, i) = 0 THEN 0 ELSE due(k, i, b) \div covered(k, i)
          most(k, i, b) == IF covered(k, i) = 0 THEN accumulators[k].growing.counts[i]
                           ELSE (due(k, i, b) + covered(k, i) - 1) \div covered(k, i)
          over(count(_, _, _), b) ==
            MapThenSumSet(LAMBDA k : MapThenSumSet(LAMBDA i : count(k, i, b), filledBins(k)), DOMAIN accumulators)
      IN  /\ \A s \in ToSet(StatisticOrder) :
               totals[s] = StatisticOf(s, points, LAMBDA q : ValueAt(q[1], q[2]))
          /\ Sum(given.result.counts) = totals.num_pixels
          /\ totals.num_pixels > 0 /\ totals.min < totals.max =>
               \A b \in 0 .. request.bins - 1 :
                 given.result.counts[b] \in over(fewest, b) .. over(most, b)
===========================================================================
