-------------------------------- MODULE Pass --------------------------------
(***************************************************************************)
(* One pass over an image: src/src/reduce/pass.h, pass.cc, pass_plan.h and *)
(* pass_read.cc.                                                           *)
(*                                                                         *)
(* A pass cuts the selected channels into blocks, walks each footprint of  *)
(* a block along the spectrum a slab at a time, tells its caller what it   *)
(* has before every read but the first, and hands a block over when it is  *)
(* filled (InBlocks), or takes the selection as one run (Whole).  The      *)
(* caller may refuse at any hand-over, and its control may say stop at any *)
(* moment.                                                                 *)
(*                                                                         *)
(* A plan is what PlanPass worked out; budgets are counted in chunks.      *)
(***************************************************************************)
EXTENDS ChunkBlocks, FiniteSets, Sequences

CONSTANTS Plans     \* the images and requests to walk

(* A plan's fields: the plane's axes u and v, the sample taken of them, the *)
(* spectral selection, the chunks a read may decode, the channels a block   *)
(* may hold, the caller's hint of that (0: none), whether the pass is       *)
(* InBlocks or Whole, and what it walks: the plane, or a region set's       *)
(* footprints, each the chunks it occupies.                                 *)
Axis == [length : Positive, chunk : Positive]
PlanFields == [u : Axis, v : Axis, sample : Positive, spectral : Selection,
               count : Positive, chunks_per_read : Nat, budget_channels : Positive,
               hint : Nat, in_blocks : BOOLEAN, plane : BOOLEAN, regions : Seq(Positive)]

-----------------------------------------------------------------------------
(* What PlanPass works out. *)

LeastChannels(p) == RoundedUp(p.spectral.chunk, p.spectral.stride)
RowChunks(p) == AtLeastOne(SampledChunks(p.u.length, p.u.chunk, p.sample))
ColumnChunks(p) == AtLeastOne(SampledChunks(p.v.length, p.v.chunk, p.sample))
BandRows(p) == UnitsAffordable(p.chunks_per_read, RowChunks(p))
SlabChannels(p, chunks) ==
    AtLeastOne(UnitsAffordable(p.chunks_per_read, chunks) * LeastChannels(p))

(* The plane in bands of chunk rows, each in pieces along its rows when a   *)
(* row is wider than a read: the nested loops of OverBands, band by band.   *)
Bands(p) == RoundedUp(ColumnChunks(p), BandRows(p))
RowsOf(p, band) == Least(BandRows(p), ColumnChunks(p) - band * BandRows(p))
Width(p, band) == UnitsAffordable(p.chunks_per_read, RowsOf(p, band))
Segments(p, band) == RoundedUp(RowChunks(p), Width(p, band))

SamplesOf(axis, sample, first, count) ==
    LET chunk_at(i) == SampledChunk(i, axis.chunk, sample)
    IN  SampledRange(chunk_at(first) * axis.chunk,
                     Least(axis.length, (chunk_at(first + count - 1) + 1) * axis.chunk), sample)

Segment(p, band, segment) ==
    LET column == segment * Width(p, band)
        width  == Least(Width(p, band), RowChunks(p) - column)
    IN  [u |-> SamplesOf(p.u, p.sample, column, width),
         v |-> SamplesOf(p.v, p.sample, band * BandRows(p), RowsOf(p, band)),
         chunks |-> width * RowsOf(p, band)]

(* Every band but the last is as many segments as the first. *)
PlaneBands(p) ==
    [i \in 1 .. (Bands(p) - 1) * Segments(p, 0) + Segments(p, Bands(p) - 1) |->
       Segment(p, (i - 1) \div Segments(p, 0), (i - 1) % Segments(p, 0))]

(* What is walked, as the chunks each footprint occupies. *)
Shape(p) == IF p.plane THEN [f \in DOMAIN PlaneBands(p) |-> PlaneBands(p)[f].chunks]
            ELSE p.regions

(* The chunks of the first n footprints. *)
ChunksBefore(chunks, n) ==
    LET upto[i \in 0 .. Len(chunks)] == IF i = 0 THEN 0 ELSE upto[i - 1] + chunks[i]
    IN  upto[n]

(* The chunks one spectral layer of what is walked occupies. *)
LayerChunks(p) ==
    IF p.plane THEN AtLeastOne(RowChunks(p) * ColumnChunks(p))
    ELSE ChunksBefore(p.regions, Len(p.regions))

(* A plan is one a checked request gives. *)
ASSUME PlansAssumption == Plans \subseteq PlanFields

(* A region set that occupies nothing leaves the whole read budget. *)
EmitChannels(p) ==
    LET spatial == IF LayerChunks(p) = 0 THEN p.count
                   ELSE Least(p.count, UnitsAffordable(p.chunks_per_read, LayerChunks(p)))
                          * LeastChannels(p)
    IN  Least(Least(IF p.hint = 0 THEN spatial ELSE p.hint, p.budget_channels), p.count)

ChunksCovering(p, begin, end) ==
    AtLeastOne(AtLeastOne(LayerChunks(p)) * ChunksTouched(p.spectral, begin, end))

-----------------------------------------------------------------------------
VARIABLES
    plan, shape,    \* _plan, and the footprints of _shape
    pc,             \* where the pass is: see Places
    told,           \* the caller's control says stop
    begin, end,     \* the block, as indices into the selection
    footprint,      \* which footprint is walked
    slab_begin, slab_end,
    reads_done, chunks_done,
    \* what happened, for the properties
    told_before,    \* told, as the block began
    filled,         \* channels put in each place of the block, by footprint
    decoded         \* how often each chunk of a footprint was decoded

walk == <<footprint, slab_begin, slab_end, reads_done, chunks_done>>
history == <<told_before, filled, decoded>>
vars == <<plan, shape, pc, told, begin, end, footprint, slab_begin, slab_end, reads_done,
          chunks_done, told_before, filled, decoded>>

Places == {"block", "walk", "slab", "report", "check", "read", "deliver", "done", "failed"}

Last(p) == ChunkOf(p.spectral, p.count - 1)
Footprints == 1 .. Len(shape)
Cells == Footprints \X (0 .. plan.count - 1)
Chunks == Footprints \X (0 .. Last(plan))

(* Faults, for checking that the properties notice them. *)
EveryWalkAllowed == TRUE
ReadFromBlockStart == slab_begin - begin

(* The block's accumulators, emptied. *)
Reset == filled' = [c \in Cells |-> <<>>]

(* The spectral range of a read: absolute, where a slab's place in the      *)
(* block it fills is counted from the block's start.                        *)
ChannelIndex == slab_begin

(* Init: InBlocks starts at the first channel; Whole is one run of them all.*)
Init ==
    /\ plan \in Plans
    /\ shape = Shape(plan)
    /\ pc = "block" /\ told = FALSE
    /\ begin = 0 /\ end = 0
    /\ footprint = 1 /\ slab_begin = 0 /\ slab_end = 0
    /\ reads_done = 0 /\ chunks_done = 0
    /\ told_before = FALSE
    /\ filled = [c \in Cells |-> <<>>]
    /\ decoded = [k \in Chunks |-> 0]

(* Cancellation or the deadline: the caller's control, at any moment. *)
AskToStop ==
    /\ ~ told /\ pc \notin {"done", "failed"}
    /\ told' = TRUE
    /\ UNCHANGED <<plan, shape, pc, begin, end, walk, history>>

(* InBlocks' loop: the next block, its accumulator reset and its counts.    *)
(* Whole: all of the selection, once.                                       *)
BeginBlock ==
    /\ pc = "block" /\ begin < plan.count
    /\ end' = IF plan.in_blocks
              THEN AlignedBlockEnd(begin, EmitChannels(plan), plan.count, plan.spectral)
              ELSE plan.count
    /\ reads_done' = 0 /\ chunks_done' = 0
    /\ Reset
    /\ told_before' = told
    /\ pc' = "walk"
    /\ UNCHANGED <<plan, shape, told, begin, footprint, slab_begin, slab_end, decoded>>

EndPass ==
    /\ pc = "block" /\ begin = plan.count
    /\ pc' = "done"
    /\ UNCHANGED <<plan, shape, told, begin, end, walk, history>>

(* Walk: asked here too, for a shape of no footprints makes no read. *)
MayWalk == ~ told

BeginWalk ==
    /\ pc = "walk" /\ MayWalk
    /\ footprint' = 1 /\ slab_begin' = begin
    /\ pc' = "slab"
    /\ UNCHANGED <<plan, shape, told, begin, end, slab_end, reads_done, chunks_done, history>>

WalkRefused ==
    /\ pc = "walk" /\ ~ MayWalk
    /\ pc' = "failed"
    /\ UNCHANGED <<plan, shape, told, begin, end, walk, history>>

(* Over's loop: the next slab of the footprint, which is reported before if *)
(* it is not the first read of the walk.                                    *)
NextSlab ==
    /\ pc = "slab" /\ footprint <= Len(shape) /\ slab_begin < end
    /\ slab_end' = AlignedBlockEnd(slab_begin,
                       Least(SlabChannels(plan, shape[footprint]), end - slab_begin),
                       end, plan.spectral)
    /\ pc' = IF reads_done > 0 THEN "report" ELSE "check"
    /\ UNCHANGED <<plan, shape, told, begin, end, footprint, slab_begin, reads_done, chunks_done, history>>

NextFootprint ==
    /\ pc = "slab" /\ footprint <= Len(shape) /\ slab_begin = end
    /\ footprint' = footprint + 1
    /\ slab_begin' = begin
    /\ UNCHANGED <<plan, shape, pc, told, begin, end, slab_end, reads_done, chunks_done, history>>

(* The walk is over: a block is handed over, a whole run returns. *)
EndWalk ==
    /\ pc = "slab" /\ footprint > Len(shape)
    /\ pc' = IF plan.in_blocks THEN "deliver" ELSE "done"
    /\ UNCHANGED <<plan, shape, told, begin, end, walk, history>>

(* The report of a part-filled block, or of progress: the caller goes on,   *)
(* or refuses and the pass is cancelled.                                    *)
ReportTaken ==
    /\ pc = "report"
    /\ pc' = "check"
    /\ UNCHANGED <<plan, shape, told, begin, end, walk, history>>

ReportRefused ==
    /\ pc = "report"
    /\ pc' = "failed"
    /\ UNCHANGED <<plan, shape, told, begin, end, walk, history>>

BeginRead ==
    /\ pc = "check" /\ ~ told
    /\ reads_done' = reads_done + 1
    /\ pc' = "read"
    /\ UNCHANGED <<plan, shape, told, begin, end, footprint, slab_begin, slab_end, chunks_done, history>>

ReadRefused ==
    /\ pc = "check" /\ told
    /\ reads_done' = reads_done + 1
    /\ pc' = "failed"
    /\ UNCHANGED <<plan, shape, told, begin, end, footprint, slab_begin, slab_end, chunks_done, history>>

(* ReadSlab, its flag folded in, and the visit: the slab's channels go in   *)
(* their places of the block, and every chunk they touch was decoded.       *)
Length == slab_end - slab_begin
Read ==
    /\ pc = "read"
    /\ filled' = [c \in Cells |->
         LET first_channel == slab_begin - begin IN
         IF c[1] = footprint /\ c[2] \in first_channel .. first_channel + Length - 1
         THEN Append(filled[c], ElementAt(plan.spectral, ChannelIndex + c[2] - first_channel))
         ELSE filled[c]]
    /\ decoded' = [k \in Chunks |->
         IF k[1] = footprint
              /\ \E i \in slab_begin .. slab_end - 1 : ChunkOf(plan.spectral, i) = k[2]
         THEN decoded[k] + 1 ELSE decoded[k]]
    /\ chunks_done' = chunks_done +
         shape[footprint] * ChunksTouched(plan.spectral, slab_begin, slab_end)
    /\ slab_begin' = slab_end
    /\ pc' = "slab"
    /\ UNCHANGED <<plan, shape, told, begin, end, footprint, slab_end, reads_done, told_before>>

(* The pixels or the flag could not be read, or the visitor threw. *)
ReadFails ==
    /\ pc = "read"
    /\ pc' = "failed"
    /\ UNCHANGED <<plan, shape, told, begin, end, walk, history>>

(* The block, complete: taken, and the next begins, or refused. *)
BlockTaken ==
    /\ pc = "deliver"
    /\ begin' = end
    /\ pc' = "block"
    /\ UNCHANGED <<plan, shape, told, end, walk, history>>

BlockRefused ==
    /\ pc = "deliver"
    /\ pc' = "failed"
    /\ UNCHANGED <<plan, shape, told, begin, end, walk, history>>

Step ==
    \/ BeginBlock \/ EndPass \/ BeginWalk \/ WalkRefused
    \/ NextSlab \/ NextFootprint \/ EndWalk
    \/ ReportTaken \/ ReportRefused \/ BeginRead \/ ReadRefused \/ Read \/ ReadFails
    \/ BlockTaken \/ BlockRefused

Ended == pc \in {"done", "failed"} /\ UNCHANGED vars

Next == Step \/ AskToStop \/ Ended

Spec == Init /\ [][Next]_vars

(* The thread that called the reduction runs it; storage and the caller's   *)
(* callbacks come back.                                                     *)
FairSpec == Spec /\ WF_vars(Step)

-----------------------------------------------------------------------------
TypeOK ==
    /\ plan \in Plans /\ shape = Shape(plan)
    /\ pc \in Places
    /\ told \in BOOLEAN /\ told_before \in BOOLEAN
    /\ begin \in 0 .. plan.count /\ end \in 0 .. plan.count
    /\ footprint \in 1 .. Len(shape) + 1
    /\ slab_begin \in 0 .. plan.count /\ slab_end \in 0 .. plan.count
    /\ reads_done \in Nat /\ chunks_done \in Nat
    /\ filled \in [Cells -> Seq(Nat)]
    /\ decoded \in [Chunks -> Nat]

(* A block handed over, and a whole run that returns, has in each place the *)
(* channel that belongs there, of every footprint, once: not the channel of *)
(* another block, none twice and none missing.                              *)
Finished == pc = "deliver" \/ (pc = "done" /\ ~ plan.in_blocks)
AccumulatedOnce ==
    Finished =>
      \A f \in Footprints, i \in begin .. end - 1 :
        filled[<<f, i - begin>>] = <<ElementAt(plan.spectral, i)>>

(* "Splitting inside a chunk would make one decode serve two blocks, and    *)
(* every caller here decodes a chunk exactly once": over a whole pass, in   *)
(* whatever blocks and slabs, no chunk of a footprint is decoded twice, and *)
(* a pass that ends has decoded every one it selects from.                  *)
ChunkDecodedOnce ==
    /\ \A k \in Chunks : decoded[k] <= 1
    /\ pc = "done" => \A f \in Footprints, i \in 0 .. plan.count - 1 :
                        decoded[<<f, ChunkOf(plan.spectral, i)>>] = 1

(* As a pass begins, the bands of its plane have every sampled pixel in one *)
(* segment and no other, the chunks a segment says it occupies are the ones *)
(* it has a sample in, and none of them is another segment's.               *)
Samples(range, sample) == {range.start + n * sample : n \in 0 .. range.count - 1}
PlaneCovered ==
    plan.plane /\ pc = "block" /\ begin = 0 /\ ~ told =>
      LET bands  == PlaneBands(plan)
          pixels(f) == Samples(bands[f].u, plan.sample) \X Samples(bands[f].v, plan.sample)
          chunks(f) == {<<px[1] \div plan.u.chunk, px[2] \div plan.v.chunk>> : px \in pixels(f)}
          sampled(axis) == {x \in 0 .. axis.length - 1 : x % plan.sample = 0}
      IN  /\ UNION {pixels(f) : f \in DOMAIN bands} = sampled(plan.u) \X sampled(plan.v)
          /\ \A f, g \in DOMAIN bands : f # g => chunks(f) \cap chunks(g) = {}
          /\ \A f \in DOMAIN bands : bands[f].chunks = Cardinality(chunks(f))

(* Progress is a fraction of what is decoded: something is done and less    *)
(* than all when it is told, a read being still to come, and all of it is   *)
(* done at the end, unless there was nothing to read.  What it is counted   *)
(* by is right: the bands of a plane are PlaneCovered.                      *)
ProgressHonest ==
    LET total == ChunksCovering(plan, begin, end) IN
    /\ PlaneCovered
    /\ pc = "report" => 0 < chunks_done /\ chunks_done < total
    /\ Finished /\ LayerChunks(plan) > 0 => chunks_done = total

(* A pass already told to stop when a block begins reads nothing of it, and *)
(* hands over no complete one: not even of a region set that occupies       *)
(* nothing, which makes no read to stop at.                                 *)
StopHeeded == told_before => pc \notin {"read", "deliver", "done"}

(* A pass ends, whatever it is asked to walk: no slab and no block is cut   *)
(* to nothing.                                                              *)
PassEnds == <>(pc \in {"done", "failed"})

(* "How much decoded chunk data one read of the pixels should hold at       *)
(* once", exceeded only because "no read holds less than one chunk": a read *)
(* of the walk is within the budget, or is one chunk.                       *)
ReadWithinBudget ==
    pc = "read" =>
      LET chunks == shape[footprint] * ChunksTouched(plan.spectral, slab_begin, slab_end)
      IN  chunks <= plan.chunks_per_read \/ chunks = 1

-----------------------------------------------------------------------------
(* The inductive invariant behind AccumulatedOnce, ChunkDecodedOnce and     *)
(* StopHeeded.  Blocks and slabs are cut between chunks; each footprint has *)
(* been walked from the first channel to Reached, and nowhere else.         *)

Walking == {"slab", "report", "check", "read", "deliver"}
Reached(f) ==
    IF pc \in Walking \/ Finished
    THEN IF f < footprint THEN end ELSE IF f = footprint THEN slab_begin ELSE begin
    ELSE begin

Aligned(i) == i = 0 \/ CutAt(plan.spectral, i, plan.count)

CutInv ==
    /\ Aligned(begin) /\ Aligned(end)
    /\ pc \in Walking \cup {"walk"} => begin < end
    /\ pc \in Walking => slab_begin \in begin .. end /\ Aligned(slab_begin)
    /\ pc \in {"report", "check", "read"} =>
         footprint <= Len(shape) /\ slab_end \in slab_begin + 1 .. end /\ Aligned(slab_end)
    /\ Finished => footprint = Len(shape) + 1
    /\ IF plan.in_blocks THEN pc = "done" => begin = plan.count
       ELSE /\ begin = 0 /\ pc # "deliver"
            /\ pc \in Walking \cup {"walk", "done"} => end = plan.count

FilledInv ==
    pc \in Walking \cup {"walk"} \/ Finished =>
      \A f \in Footprints, i \in 0 .. plan.count - 1 :
        filled[<<f, i>>] = IF begin + i < Reached(f)
                           THEN <<ElementAt(plan.spectral, begin + i)>> ELSE <<>>

DecodedInv ==
    /\ \A k \in Chunks : decoded[k] <= 1
    /\ pc # "failed" =>
         \A f \in Footprints, c \in 0 .. Last(plan) :
           decoded[<<f, c>>] = IF \E i \in 0 .. Reached(f) - 1 : ChunkOf(plan.spectral, i) = c
                               THEN 1 ELSE 0

StopInv == told_before => told /\ pc \in {"walk", "failed"}

IInv == TypeOK /\ CutInv /\ FilledInv /\ DecodedInv /\ StopInv

(* What ProgressHonest needs beside it: progress is what the footprints     *)
(* walked through count, and what of the one being walked was read; and a   *)
(* second read follows one that read.                                       *)
ChunksWalked ==
    ChunksBefore(shape, footprint - 1) * ChunksTouched(plan.spectral, begin, end)
      + (IF footprint > Len(shape) THEN 0
         ELSE shape[footprint] * ChunksTouched(plan.spectral, begin, slab_begin))

ProgressInv ==
    /\ pc = "walk" => reads_done = 0 /\ chunks_done = 0
    /\ pc \in Walking \/ Finished => chunks_done = ChunksWalked
    /\ pc = "report" \/ (pc = "slab" /\ reads_done > 0) => footprint > 1 \/ slab_begin > begin
=============================================================================
