--------------------------- MODULE SpectralReduce ---------------------------
(***************************************************************************)
(* Statistics of regions, channel by channel: src/src/reduce/              *)
(* spectral_reduce.cc, statistic_slots.h, deviations.h and plane_selection.h.*)
(*                                                                         *)
(* The regions are placed and indexed (Occupancy), a pass walks the        *)
(* footprints they occupy (Pass), and each slab it reads is divided into   *)
(* tasks (TaskSplit), which any threads of the pool run in any order, each *)
(* into a partial of its own.  Once all are done the partials are merged   *)
(* into the block, which is handed to the sink between reads and when it   *)
(* is filled.                                                              *)
(***************************************************************************)
EXTENDS Occupancy, TaskSplit, Statistics

CONSTANTS Requests,        \* the images, regions and statistics to reduce
          None,
          PartialBudget,   \* kSpectralPartialBudgetBytes
          EmitBudget       \* kSpectralEmitBudgetBytes

-----------------------------------------------------------------------------
(* The statistics asked for and the values kept for them. *)

Layout(requested) ==
    requested \cup (IF "sum_sq_dev" \in requested THEN {"num_pixels", "sum"} ELSE {})

(* With the deviations, the base and the offset of the mean their merges    *)
(* need, which no block reports.                                            *)
Stored(layout) == layout \cup (IF "sum_sq_dev" \in layout THEN {"base", "offset"} ELSE {})
BytesPerChannel(layout, regions) == regions * Cardinality(Stored(layout)) * 8

EmptySlots(layout) == [s \in Stored(layout) |-> Untouched[s]]
EmptyBlock(layout, regions, channels) ==
    [r \in 1 .. regions |-> [c \in 0 .. channels - 1 |-> EmptySlots(layout)]]

(* Faults, for checking that the properties notice them. *)
CountedFirst(slots, row) ==
    IF "sum_sq_dev" \in DOMAIN slots
    THEN [Combined(slots, row) EXCEPT !.sum_sq_dev =
            MergeSpread([slots EXCEPT !.num_pixels = @ + row.num_pixels], row).sum_sq_dev]
    ELSE Combined(slots, row)

(* A span into its row's totals, a row's totals into a region's slots at a  *)
(* channel, and a task's slots into the block's.                            *)
AddSpan(totals, span) == Combined(totals, span)
Fold(slots, row) == Combined(slots, row)
MergeSlots(slots, partial) == Combined(slots, partial)

-----------------------------------------------------------------------------
(* The request. *)

(* Whether the image has the planes asked for.  Compared by dividing the    *)
(* room that is left: a multiplied span may wrap.                           *)
CheckedPlanes(image, planes) ==
    /\ planes.stride # 0 /\ planes.count # 0 /\ planes.start < image.channels
    /\ planes.count - 1 <= (image.channels - 1 - planes.start) \div planes.stride
    /\ IF image.polarizations = None THEN planes.polarization = 0
       ELSE planes.polarization < image.polarizations
    /\ IF image.times = None THEN planes.time = 0 ELSE planes.time < image.times

(* A request that is not refused before any pixel is read. *)
Accepted(r) ==
    /\ r.sink /\ r.statistics # {}
    /\ CheckedPlanes(r.image, r.planes)
    /\ r.regions # <<>> /\ Len(r.regions) <= MaxRegions
    /\ \A i \in DOMAIN r.regions : Placeable(r.regions[i], r.image.plane)
    /\ Incidences(IndexOf(r.regions, r.image.chunk_u, r.image.chunk_v, r.image.swap_spatial))
         <= MaxIncidences

(* The pass's plan of a request; footprints is what it walks. *)
PlanOf(r, footprints) ==
    [u |-> [length |-> 1, chunk |-> 1], v |-> [length |-> 1, chunk |-> 1], sample |-> 1,
     spectral |-> [start |-> r.planes.start, stride |-> r.planes.stride, chunk |-> r.image.chunk_z],
     count |-> r.planes.count, chunks_per_read |-> r.chunks_per_read,
     budget_channels |-> AtLeastOne(EmitBudget \div
                           AtLeastOne(BytesPerChannel(Layout(r.statistics), Len(r.regions)))),
     hint |-> r.hint, in_blocks |-> TRUE, plane |-> FALSE,
     regions |-> [f \in DOMAIN footprints |-> footprints[f].chunks]]

VARIABLES
    \* the pass
    plan, shape, pc, told, begin, end, footprint, slab_begin, slab_end, reads_done, chunks_done,
    told_before, filled, decoded,
    \* the reduction
    request,
    index,         \* occupancy
    footprints,
    accumulator,   \* the block's values: by region, channel of the block and statistic
    partials,      \* a task's values of the slab
    waiting,       \* tasks of the slab not yet run; None when there is no slab
    block          \* the last block the sink was handed

TheRequest == <<request, index, footprints>>
held == <<accumulator, partials, waiting, block>>
pass == <<plan, shape, pc, told, begin, end, footprint, slab_begin, slab_end, reads_done,
          chunks_done, told_before, filled, decoded>>
vars == <<pass, TheRequest, held>>

Walk == INSTANCE Pass WITH Plans <- {}

-----------------------------------------------------------------------------
layout == Layout(request.statistics)
regions == Len(request.regions)
Length == slab_end - slab_begin
here == footprints[footprint]

(* The image's pixel at u, v and an index of the selection. *)
PixelAt(u, v, channel) ==
    LET z == ElementAt(plan.spectral, channel)
    IN  IF request.image.swap_spatial THEN request.image.pixels[<<v, u, z>>]
        ELSE request.image.pixels[<<u, v, z>>]

(* One row of a region inside a chunk cell: its spans' totals as one's. *)
RowTotals(region, y, u0, u1, channel) ==
    LET spans == ForEachSpan(region, y, u0, u1)
        values(span) == LET at == Selected(region, y, span)
                        IN  [k \in DOMAIN at |-> PixelAt(at[k], y, slab_begin + channel)]
    IN  FoldLeft(AddSpan, Untouched, [k \in DOMAIN spans |-> SpanTotals(values(spans[k]))])

(* One unit of a slab, a channel of it and a chunk cell of the footprint,   *)
(* into a partial.                                                          *)
AccumulateUnit(partial, unit) ==
    LET cu_span == here.cu_end - here.cu_begin
        cells   == AtLeastOne((here.cv_end - here.cv_begin) * cu_span)
        channel == unit \div cells
        cv == here.cv_begin + (unit % cells) \div cu_span
        cu == here.cu_begin + ((unit % cells) % cu_span)
        u0 == Greatest(here.u_start, cu * index.chunk_u)
        u1 == Least(here.u_end, (cu + 1) * index.chunk_u)
        v0 == Greatest(here.v_start, cv * index.chunk_v)
        v1 == Least(here.v_end, (cv + 1) * index.chunk_v)
        touching == ToSet(RegionsTouching(index, cu, cv))
        rows(r) == SetToSortSeq(RowsWithin(index.regions[r], u0, u1, v0, v1), <)
        totals(r) == [k \in DOMAIN rows(r) |->
                        RowTotals(index.regions[r], rows(r)[k], u0, u1, channel)]
    IN  IF v0 >= v1 \/ u0 >= u1 THEN partial
        ELSE [r \in DOMAIN partial |->
                IF r \in touching
                THEN [partial[r] EXCEPT ![channel] = FoldLeft(Fold, @, totals(r))]
                ELSE partial[r]]

Units == Length * AtLeastOne((here.cv_end - here.cv_begin) * (here.cu_end - here.cu_begin))

(* How many tasks a slab is divided into, by what a partial costs. *)
SlabTasks ==
    PlanRowTasks(index.chunk_u * index.chunk_v, Units,
                 MostTasks(PartialBudget, AtLeastOne(BytesPerChannel(layout, regions) * Length)))

(* Settle: untouched extrema to NaN, and every NaN back to its identity. *)
Extrema == [min |-> PosInf, max |-> NegInf]
Settle(values, Extremum(_, _)) ==
    [r \in DOMAIN values |-> [c \in DOMAIN values[r] |-> [s \in DOMAIN values[r][c] |->
        IF s \in DOMAIN Extrema THEN Extremum(s, values[r][c][s]) ELSE values[r][c][s]]]]
Settled(values) == Settle(values, LAMBDA s, v : IF v \in {PosInf, NegInf} THEN NaN ELSE v)
Restored(values) == Settle(values, LAMBDA s, v : IF v = NaN THEN Extrema[s] ELSE v)

(* HandOver: the sink's for the length of the call. *)
HandOver(complete) ==
    /\ block' = [first |-> begin, complete |-> complete, values |-> Settled(accumulator)]
    /\ accumulator' = Restored(Settled(accumulator))
    /\ UNCHANGED <<TheRequest, partials, waiting>>

-----------------------------------------------------------------------------
Init ==
    /\ request \in Requests
    /\ index = None /\ footprints = <<>>
    /\ plan = PlanOf(request, <<>>) /\ shape = <<>>
    /\ pc = "place" /\ told = FALSE
    /\ begin = 0 /\ end = 0 /\ footprint = 1 /\ slab_begin = 0 /\ slab_end = 0
    /\ reads_done = 0 /\ chunks_done = 0 /\ told_before = FALSE
    /\ filled = <<>> /\ decoded = <<>>
    /\ accumulator = <<>> /\ partials = <<>> /\ waiting = None /\ block = None

(* ReduceSpectral up to the pass: the request is checked, the regions are   *)
(* placed and what they occupy is cut once.                                 *)
Refuse ==
    /\ pc = "place" /\ ~ Accepted(request)
    /\ pc' = "failed"
    /\ UNCHANGED <<plan, shape, told, begin, end, footprint, slab_begin, slab_end, reads_done,
                   chunks_done, told_before, filled, decoded, TheRequest, held>>

Place ==
    /\ pc = "place" /\ Accepted(request)
    /\ index' = IndexOf(request.regions, request.image.chunk_u, request.image.chunk_v,
                        request.image.swap_spatial)
    /\ footprints' = FootprintsOf(index', request.chunks_per_read)
    /\ plan' = PlanOf(request, footprints')
    /\ shape' = plan'.regions
    /\ filled' = [c \in (DOMAIN shape') \X (0 .. plan'.count - 1) |-> <<>>]
    /\ decoded' = [k \in (DOMAIN shape') \X (0 .. Walk!Last(plan')) |-> 0]
    /\ pc' = "block"
    /\ UNCHANGED <<told, begin, end, footprint, slab_begin, slab_end, reads_done, chunks_done,
                   told_before, request, held>>

(* InBlocks: a block's accumulator, reset; the walk's own steps; and what   *)
(* the sink is handed before a read and at the end of a block.              *)
BeginBlock ==
    /\ Walk!BeginBlock
    /\ accumulator' = EmptyBlock(layout, regions, end' - begin)
    /\ UNCHANGED <<TheRequest, partials, waiting, block>>

WalkOn ==
    /\ \/ Walk!EndPass \/ Walk!BeginWalk \/ Walk!WalkRefused \/ Walk!NextSlab
       \/ Walk!NextFootprint \/ Walk!EndWalk \/ Walk!BeginRead \/ Walk!ReadRefused
    /\ UNCHANGED <<TheRequest, held>>

Report == (Walk!ReportTaken \/ Walk!ReportRefused) /\ HandOver(FALSE)
Deliver == (Walk!BlockTaken \/ Walk!BlockRefused) /\ HandOver(TRUE)

(* accumulate_slab: the split, and a partial of its own for every task. *)
SplitSlab ==
    /\ pc = "read" /\ waiting = None
    /\ waiting' = 0 .. SlabTasks - 1
    /\ partials' = [t \in waiting' |-> EmptyBlock(layout, regions, Length)]
    /\ UNCHANGED <<pass, TheRequest, accumulator, block>>

RunTask(t) ==
    /\ waiting # None /\ t \in waiting
    /\ LET share == Share(t, SlabTasks, Units)
           units == [k \in 1 .. share.last - share.first |-> share.first + k - 1]
       IN  partials' = [partials EXCEPT ![t] = FoldLeft(AccumulateUnit, @, units)]
    /\ waiting' = waiting \ {t}
    /\ UNCHANGED <<pass, TheRequest, accumulator, block>>

(* The first place of the block a slab's channels go in. *)
BlockChannelOf(channel) == channel - begin

(* MergeInOrder: the partials, task by task, at the slab's place. *)
MergeInOrder ==
    LET at == BlockChannelOf(slab_begin)
        order == SetToSortSeq(DOMAIN partials, <)
        of(r, c) == [k \in DOMAIN order |-> partials[order[k]][r][c - at]]
    IN  [r \in DOMAIN accumulator |-> [c \in DOMAIN accumulator[r] |->
           IF c \in at .. at + Length - 1 THEN FoldLeft(MergeSlots, accumulator[r][c], of(r, c))
           ELSE accumulator[r][c]]]

MergeSlab ==
    /\ waiting = {}
    /\ Walk!Read
    /\ accumulator' = MergeInOrder
    /\ waiting' = None /\ partials' = <<>>
    /\ UNCHANGED <<TheRequest, block>>

SlabFails == waiting = None /\ Walk!ReadFails /\ UNCHANGED <<TheRequest, held>>

AskToStop == pc # "place" /\ Walk!AskToStop /\ UNCHANGED <<TheRequest, held>>
Ended == Walk!Ended /\ UNCHANGED <<TheRequest, held>>

Next ==
    \/ Refuse \/ Place \/ BeginBlock \/ WalkOn \/ Report \/ Deliver
    \/ SplitSlab \/ (\E t \in 0 .. PoolSize - 1 : RunTask(t)) \/ MergeSlab \/ SlabFails
    \/ AskToStop \/ Ended

Spec == Init /\ [][Next]_vars

-----------------------------------------------------------------------------
(* What a region selects, in the caller's own terms. *)
SelectedBy(region) ==
    {<<x, y>> \in (region.x_start .. region.x_start + region.width - 1)
                    \X (region.y_start .. region.y_start + region.height - 1) :
       region.mask # NoMask =>
         Byte(region.mask, (y - region.y_start) * region.width + (x - region.x_start)) # 0}

(* Where a pixel of the caller's is on the walk's axes, the footprint whose *)
(* chunks it is in, and whether that was read at a channel of the block.    *)
UV(p) == IF request.image.swap_spatial THEN <<p[2], p[1]>> ELSE p
ChunkAt(p) == <<UV(p)[1] \div index.chunk_u, UV(p)[2] \div index.chunk_v>>
ChunkCells(f) == (footprints[f].cu_begin .. footprints[f].cu_end - 1)
                   \X (footprints[f].cv_begin .. footprints[f].cv_end - 1)
WasRead(p, channel) ==
    \E f \in DOMAIN footprints : ChunkAt(p) \in ChunkCells(f) /\ channel < Walk!Reached(f)

(* What the sink is handed has, of every region at every channel, each      *)
(* statistic asked for as its definition gives it from the caller's raster: *)
(* of all that the region selects in a complete block, and of what has been *)
(* read of it in a part-filled one.  Whichever axis the walk follows,       *)
(* however the regions were cut into runs, footprints, slabs and tasks, and *)
(* whatever was handed over before.                                         *)
BlockExact ==
    (block # None) /\ pc = (IF block.complete THEN "block" ELSE "check") =>
      \A r \in DOMAIN block.values : \A c \in DOMAIN block.values[r], s \in request.statistics :
        LET channel == block.first + c
            pixels == {p \in SelectedBy(request.regions[r]) :
                         block.complete \/ WasRead(p, channel)}
            value(p) == request.image.pixels[<<p[1], p[2], ElementAt(plan.spectral, channel)>>]
        IN  block.values[r][c][s] = StatisticOf(s, pixels, value)

(* The footprints are what the regions occupy and nothing else: every chunk *)
(* a selected pixel is in belongs to one footprint, no footprint has a      *)
(* chunk no region selects from, each is within what a read affords or is   *)
(* one chunk, and its slab has every selected pixel of its chunks.          *)
FootprintsExact ==
    pc = "block" /\ begin = 0 =>
      LET selected == UNION {SelectedBy(request.regions[r]) : r \in DOMAIN request.regions}
          slab(f) == (footprints[f].u_start .. footprints[f].u_end - 1)
                        \X (footprints[f].v_start .. footprints[f].v_end - 1)
      IN  /\ UNION {ChunkCells(f) : f \in DOMAIN footprints} = {ChunkAt(p) : p \in selected}
          /\ \A f, g \in DOMAIN footprints : f # g => ChunkCells(f) \cap ChunkCells(g) = {}
          /\ \A f \in DOMAIN footprints :
               /\ footprints[f].chunks = Cardinality(ChunkCells(f))
               /\ footprints[f].chunks <= AtLeastOne(request.chunks_per_read)
               /\ {UV(p) : p \in {q \in selected : ChunkAt(q) \in ChunkCells(f)}} \subseteq slab(f)
=============================================================================
