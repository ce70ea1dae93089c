# carta-zarr in TLA+

carta-zarr is a read-only C++17 library that opens XRADIO images kept as Zarr v3
directories, describes them, reads their pixels and reduces them (spectra, statistics,
histograms), for an interactive viewer. Its results are floating point and its storage
is a file system, which are not the subject here. What is hard in it is the control: a
pool of threads shared by several callers, a prefetch thread raced by frames and by
cancellation, memo tables whose computations nest, handles that outlive the datasets they
were opened for, and walks over chunked arrays that must touch every pixel and decode
every chunk exactly once while a caller may stop them at any point. That is what these
modules model.

Paths below are relative to the repository's root (`src/` in `PROJECT.json` is that root).

## 1. Inventory

| Component | State | Operations | Hard behaviour | Modelled by |
|---|---|---|---|---|
| Work pool (`src/work_pool.*`) | `_body`, `_tasks`, `_next`, `_running`, `_generation`, `_failure`, `_stopping`, the threads | constructor, `Run`, `Worker`, `DrainTasks`, `StopWorkers` | several callers, slow wakers, throwing bodies, refused thread starts | `WorkPool`, `ParallelFor`, `WorkPoolProofs` |
| Read-ahead (`src/read_ahead.*`) | `_cancelled`, `_under_way`, noted times, requested runs, counters, one thread | `Served`, the prefetch body, `Cancel`, `Join`, destructor | a frame racing a prefetch, `Cancel` from another thread, failed starts | `ReadAhead`, `ReadAheadProofs` |
| Store (`src/store.*`, `src/memo.h`) | six memo tables, the root document's consolidated copy | open, node, array and verified metadata, inventory, value reads | locks held across nested reads, storage that fails and recovers, documents rewritten, copies that are stale or oddly spelled | `StoreCaches` and `StoreCachesProofs` (the tables), `Profile` and `Images` (the answers) |
| Array handles (`src/zarr/store_context.*`, `pixel_reader.cc`) | a table of opened arrays per context, keyed by store id and path | open or reuse, sweep, read | two opens racing, pools outliving stores | `ArrayHandles`, `ArrayHandlesProofs` |
| Chunk arithmetic (`src/chunk_blocks.h`) | none | `AlignedBlockEnd`, `ChunksTouched`, `SampledChunks`, `UnitsAffordable`, `ReadCost` | boundaries, strides, zero budgets | `ChunkBlocks`, `ChunkBlocksProofs`, `Pieces` |
| Pass (`src/reduce/pass*`) | the walk: block, footprint, slab, progress | `PlanPass`, `InBlocks`, `Whole`, `Walk`, `Over`, `OverBands` | cuts within cuts, stops, refusals, failures | `Pass`, `PassProofs` |
| Read in pieces (`src/read/*`) | the piece being read, what is finished | `ReadInPieces`, `PlanPieces`, `PrefetchChunks`, `ForEachPiece` | stopping part-way, cuts on any axis, sampling one element a chunk | `Pieces`, `PiecesProofs` |
| Occupancy, region runs, footprints (`src/reduce/occupancy.*`, `region_runs.*`) | chunks a region set has pixels in | `Of`, `Footprints`, `RunsAlongU` | rasters of any shape, regions over edges, either axis order, budgets | `Occupancy` |
| Reductions (`spectral_reduce.*`, `statistic_slots.h`, `task_split.h`, `deviations.h`) | the block's slots, a partial per task | request checks, slabs to tasks, fold, merge, hand-over | tasks finishing in any order, part-filled hand-overs, stops and failures | `SpectralReduce`, `Statistics`, `TaskSplit` (proved about in `WorkPoolProofs`) |
| Histograms (`growing_histogram.h`, `provisional_histograms.h`, `plane_histogram.*`) | bins and ranges, an accumulator per task | `Add`, `Grow`, `Aggregate`, `Collect`, plane binning | growth keeping counts, leftovers, values on edges, bounds between floats | `GrowingHistogram` (proved about in `WorkPoolProofs`), `Histograms` |
| Transport (`src/zarr/transport.*`, `dataset_size.cc`) | the walk: directories it is inside, what it found | open, listing, measuring, declared sizes | links and cycles, unreadable directories, deadlines at the end of the clock | `StoreWalk`, `StoreWalkProofs` |
| Facade (`src/carta_zarr.cc`) | cached image descriptions | open, describe, read, reduce | failures asked again, exceptions at the boundary | `Images`, `StoreWalk`, and parts in `ReadAhead` and `ArrayHandles` |
| Schema (`src/schema/**`) | none | probe, qualify, describe, flags, axes, beams | what is listed and what opens judged apart (ADR 0009), names in any spelling, stale copies | `Profile`, `Images` |
| Codecs (`src/zarr/*_array.cc`, `array_metadata.cc`) | none | decode labels, address tables, storage layout | codec order, transposes, overhanging chunks | `Values`, `Profile` |

How they meet: the facade opens a store (`OpenStore`), whose reads go through the memo
tables to the transport; an image's pixels are read through `ReadInPieces`, which asks the
pixel reader, which takes a handle from a context's table; a reduction plans a pass, whose
slabs are read by the pixel reader and whose rows are spread over the context's work pool;
a read-ahead is told of each frame and calls `PrefetchChunks` on a thread of its own. The
caller takes part in all of it: its `ReadControl` says stop and its callback may refuse.

`PROJECT.json` lists under `hazards` the places where this goes wrong in ways a unit test
hardly reaches, each with the properties that would notice.

## 2. Modules and how they correspond to the code

Every module opens with what it stands for; `map` in `PROJECT.json` gives the lines of each
definition. Definitions named `...OffByOne`, `...Unchecked` and the like, grouped under
"Faults", are plausible mistakes in the code; each property is known to fail when the
definition a fault belongs to is replaced by it.

**WorkPool.** Every section under `_mutex` is one action (the mutex is never held over
anything that blocks), the places between sections are values of `pc`. `_body` is a pointer
into the frame of a caller's `Run`; in the model it is that caller, so a stale pointer is a
worker holding the name of a caller whose `Run` is not open. A condition variable is the
value `"asleep"`: going to sleep requires having seen the predicate false under the lock, a
notification makes sleepers look again, and `SpuriousWake` may at any time. The constructor
starts threads one by one and may be refused any of them, upon which it stops those it has.
A `Run` of no tasks, of one task, or on a pool without threads never takes the locks.

**ParallelFor** is what `Run` promises: calls of several callers, each task begun at most
once, all of them finished when a call returns, an exception only if one of its own bodies
threw. `WorkPool!KeepsPromise` instantiates it over the pool's state.

**ReadAhead.** A plane is its channel and a run is the chunk of `Depth[image]` channels around
it. A frame shows a plane of each of some images, and the frames ahead are any sequence of
such: played on, back, in place or by leaps. `Served` is split where it releases the mutex: judging the frame, joining the last
thread, deciding, starting the thread outside the lock, putting everything back when the
start fails; what it throws the facade catches, raises `_cancelled` for, and then takes the
lock. The prefetch thread looks at `_cancelled` before each image. Time is a bounded
count of ticks and two events may share one.

**StoreCaches.** A thread is a stack of the reads it is inside, because `Memo` holds a table's
lock while it computes and computations ask other tables. A table's answers to one key are a
sequence: `Memo` never erases an entry, it only adds one that supersedes a storage failure,
and earlier references stay valid. A document is a value standing for all it says;
`Described` is the part `RequireSameArray` compares. `made` counts the reads that answered:
`node_metadata`'s by node, and by spelling those `VerifyArray` makes of a document the root's
copy accounts for. The storage fails and recovers, and a
node's own document is rewritten, between any two steps.

**ArrayHandles.** A handle is known by what was on disk when it was opened. `Lookup`, the open
outside the lock and `Keep` (with its sweep of handles of closed stores) are separate steps,
so two opens race each other, a rewrite and the closing of the dataset.

**ChunkBlocks** is the arithmetic alone: a selection is a start, a stride and a chunk length.

**Pass.** A plan is what `PlanPass` works out; each footprint is the number of chunks it
occupies. A slab's contents are the channels read into it, so a channel in the wrong place or
read for another block is visible. `Step` covers the loops of `InBlocks`, `Whole`, `Walk` and
`Over`, with the hand-overs a caller may refuse and a read that may fail; `AskToStop` is the
caller's `ReadControl`. Bands and segments of a plane (`OverBands`) are computed as they are
in the code.

**Pieces.** A request is a range per axis. `PlanPieces` cuts it along the slowest axis that
selects more than one element, by a budget in bytes turned into chunks. The mask is applied
piece by piece. A prefetch reads one element of each chunk into a scratch buffer, in runs
that `ForEachPiece` visits by an odometer; the buffer's size is part of the model. A pixel is
known by where it is in the image, so misplaced and missing pixels are visible.

**TaskSplit**, **Statistics** and **Occupancy** are arithmetic: how many tasks a read is split
in and which rows each has; the statistics of a set of pixels and how those of two sets are put
together; and how regions become runs along the walked axis, occupied chunks and footprints.
Runs along the axis a raster is not written along are found as the code does, by its rows' edges
compared a word of bytes at a time, counted, and sorted into columns.
Pixels are small integers, and what the code keeps as a fraction (the mean's offset, the sum of
squared deviations) is kept times the count, so that every merge is exact.

**SpectralReduce** composes them with `Pass` (`Walk == INSTANCE Pass`): regions are placed and
indexed, the pass walks the footprints, each slab is split into tasks that any thread runs at
any time into a partial of its own, the partials are merged in order into the block, and the
block goes to the sink between reads and when it is filled. The steps of the walk are Pass's
own actions; what is new is what is done with the pixels.

**GrowingHistogram** is one accumulator's histogram: seeded around its first value, doubled by
merging bins in pairs until a value fits, and laid over other bins by largest remainder.
**Histograms** is the other client of `Pass`: `ComputeHistogram` bins each plane against
bounds narrowed to floats, `ComputeCubeHistogram` adds every pixel to a growing histogram per
task and re-aggregates the accumulators onto the range the pixels turned out to have. Floats
have three bits of precision (`Floats`), so that spacing grows with magnitude and a bound falls between two of them, as the code's do.

**StoreWalk.** A directory stands for its real path and has entries. The recursive iterator is
a stack; `Enter` keeps the ancestors it compares links with as `LinkedWalk` does, cutting them
back to the depth the iterator is at, and takes no link that leads to one of them or that
cannot be resolved. A directory may refuse to be enumerated,
by permission (which a listing passes over and measuring does not) or otherwise (an error).
A size is measured against a deadline on a clock with an end; when it cannot be, the declared
size of the arrays, which may overflow, stands in. Three variables only remember, for the
properties: `links`, the links the walk came through to where it is, and `named` and `counted`,
the ways (a name and the directories along it) the listing and the latest measuring came by.

**Values**, **Profile** and **Images** follow a dataset from the location to the opened image.
`Values` is decoding: UTF-32 labels behind a chain of checksums and a compressor, tables
addressed by dimension name, linear descriptions of axes. `Profile` is what the documents
imply: names normalised, the consolidated copy filed, arrays verified against their own
documents, coordinates, flags, qualification, storage layout through transposes and sharding.
`Images` is the order it happens in: open the store, take the inventory, qualify node by node,
decide, then open images one by one into the dataset's table, and read beams. In any step a
read not yet answered may fail; it is asked again by the next operation that needs it, since
the store keeps only answers (`StoreCaches` shows that it does). A location is a record of all
that is on disk there; a name is the sequence of its parts.

**MC…** modules give the constants: a set of requests or plans, symmetry where readers or
threads are interchangeable and no liveness is checked.

## 3. Runs

| Run | Instance | What it shows |
|---|---|---|
| `pool` | 2 started threads, 2 callers, a `Run` of 0–3 tasks each | no stale body, no task twice or left out, exceptions go where they belong, the pool implements `ParallelFor`, and every `Run` and `StopWorkers` end |
| `read_ahead` | 2 images with chunks 1 and 2 deep, 3 channels, 3 frames, 2 ticks; 4 things shown and 6 sequences ahead, that go on, go back, leap, leave an image out, or are shorter or longer than is looked at | one thread at most and none after the handle; after `Cancel` nothing begins; a late frame beside a prefetch stops it for good and no other does; letting go ends |
| `read_ahead_passed_over` | the smallest such instance | *finding* |
| `store_caches` | 2 threads, 2 nodes, one with two spellings, one absent, a refused name, storage failures, one rewrite | one read of a node for all spellings, and one a spelling to verify a copy; failures forgotten, verification, the inventory, answers that stand, every call returns |
| `array_handles` | 2 readers, 3 contexts, 1 path, 1 rewrite | no handle of a rewritten dataset, one handle per array, dead handles swept |
| `pass` | about 2,600 plans: every phase of start 0–1, stride 1–3 and chunk 1–4; planes of up to 6 by 5 pixels, sampled, with budgets of none to five chunks | each channel in its place once, each chunk decoded once, honest progress over planes that are covered, stops heeded, termination |
| `pieces` | images of 4 by 6 by 3 pixels, requests in and out of phase with the chunks on two axes, budgets from one chunk to several, flagged or not | the finished part is a right prefix, chunks decoded once, prefetches exact and within their buffer, termination |
| `reduce` | an image of 5 by 4 by 3 pixels on either axis order, up to 2 regions, solid, diagonal, fragmented and empty rasters, tasks in any order | blocks hold the statistics by definition, footprints are exactly the occupied chunks |
| `histogram` | cubes of 4 by 4 by 3 floats of both signs, flat or not finite; bounds between floats, on one float, wider than any | counts of planes exact, growth exact, cubes exact to the rounding of shares |
| `store_walk` | trees of up to half a dozen directories with links to groups, the root, each other and above; unreadable directories and links that cannot be resolved; timeouts of none, some and past the clock | every node listed by every way through links that can be resolved; no link come through twice on one way, so that a walk ends; a size said to be measured is the bytes of every file by those ways; none given up before its timeout |
| `images` | 219 locations, each odd in one way (copies, spellings, flags, layouts, codecs, labels, axes, beams, roots, broken nodes), one read failing per step, 3 requests | what is listed opens, with the right flag, as its own documents and values have it; refusals say why |
| `pass_budget` | strides and starts out of phase | *finding* |

Why the bounds are enough. In the pool, two workers and two callers give every pair the code
distinguishes (worker against worker, worker against the calling thread, caller against
caller), and three tasks let one task be running, one be claimed and one be given up; the
safety part is proved for every size. In the read-ahead there is one prefetch thread by
design; three frames allow a prefetch, a frame beside it and a frame after it, and the two
depths make the images' runs change at different frames. In the store two threads suffice for
a cycle of two locks, and the lock order checked is a global one, so it excludes longer
cycles. The arithmetic repeats with the least common multiple of stride and chunk length,
which the plans exceed. Reductions and histograms use images whose chunks are cut by every
edge (5 by 4 pixels in chunks of 2 and 3), so a footprint, a band and a task each have a first,
a middle and a short last one; two regions are what an overlap takes. In `images` a location is
odd in one place at a time, and in pairs where two oddities meet (a stale copy of a flagged
image, a broken node beside another): a decision is about one node and the few documents it
names. Names of bounds (`MaxTasks`, `MaxRuns`, `MaxClock`, `MaxFrames`,
`MaxCalls`, `MaxRewrites`, `MaxContexts`, `MaxVersion`, `MaxSizes`, `MaxLost`, `MaxAsks`) are constants of the modules. A module
in which the world simply stops asking has a stuttering disjunct that says so, so deadlock is
checked everywhere except `array_handles`, where readers may stop at any time.

Fairness. Each thread that can take a step takes one in the end (weak fairness per thread),
which is what an operating system gives a runnable thread; mutexes and condition variables
are used so that no stronger assumption is needed. A task's body and a read of storage end,
by returning or failing: bodies are loops over a buffer, and storage reads are ordinary file
reads. In `ReadAhead` only a decode that was cancelled is assumed to end, which is what the
cancellation hook of the read promises. No fairness is assumed of callers: nobody has to call
`Run`, serve a frame, cancel, or destroy anything, and spurious wake-ups need not happen.

## 4. Proofs

The proofs hold for every value of the constants.

**WorkPoolProofs** proves `Spec => []IInv` and from it `TypeOK`, `NoStaleBody`,
`TaskRunsOnce`, `RunIsComplete`, `QuietBetweenRuns` and the action property
`NoClaimAfterFailure`, for any number of threads, callers, tasks and `Run`s (assumptions:
the counts are naturals, callers are not numbers and not the null pointer). None of the
properties is inductive alone. `IInv` adds: who holds `_run` and that only it publishes
(`LockInv`); which fields are set in which phase of the pool (`PhaseInv`) and of a `Run`
(`FieldsInv`); that `_running` is exactly the number of workers that have not finished this
generation, told by `seen` and `pc` (`WorkerInv`); where each caller stands and what its
locals hold (`CallerInv`); that the claimed, finished and unclaimed tasks are split as `_next`
says (`TaskInv`); and that an exception kept is of the `Run` that is open (`ThrewInv`). There
is one lemma per action. The key step is `FinishGeneration`: the cardinality of the workers
still out goes down by one, so zero means nobody can still hold the body.

**ChunkBlocksProofs** proves that `AlignedBlockEnd` advances, stays inside and cuts between
chunks (`BlockEndsBetweenChunks`), and that chunk counts of adjoining runs cut that way add up
(`ChunksAddUp`), from lemmas on quotients that the SMT backend does not have by itself.

**PassProofs** proves `Spec => []IInv` for every set of plans of the right shape, and from it
`TypeOK`, `AccumulatedOnce`, `ChunkDecodedOnce` and `StopHeeded`. `IInv` says that begins and
ends of blocks and slabs are cuts between chunks (`CutInv`), that each footprint has been
walked from the first channel to `Reached(f)` and nowhere else, in terms of the block's places
(`FilledInv`) and of chunks (`DecodedInv`), and that a pass told to stop in time is not reading
(`StopInv`). `ProgressHonest` rests on `ProgressInv`, proved beside it: what is counted is
`ChunksWalked`, the chunks of the footprints behind times the layers of the block, and of the
one being walked the layers its slabs have read (`ChunksAddUp` has them add up slab by slab).
That it reaches the whole and not more is arithmetic of the plan: the rows of the bands and the
columns of the segments tile the sampled plane, their chunks add up to `LayerChunks`, and sums
over the footprints are had by induction on how many. The one assumption, `PlansAssumption`, is
that a plan has the fields a checked request gives.

**WorkPoolProofs**, second part, proves the refinement `Spec => KeepsPromise`: `Init` maps to
`ParallelFor`'s, and each action of the pool is one of its actions or leaves its variables
alone. The mapping is `KeepsPromise`'s own (a Run is open while its caller is not idle; a task
is active while a thread is in its body; the tasks left are those not claimed), computed by
where the caller is (`UnclaimedAt`). The steps rest on `IInv` of the pool: `BodiesApart` has the
bodies of one Run run under different worker indices, and the return of a Run needs that
nobody is out, which is the cardinality argument above.

**WorkPoolProofs**, third part, is about what is spread over the pool, the arithmetic of
`TaskSplit` and `GrowingHistogram`, for any sizes. `SharesTile`: the rows of a read's tasks
cover it and do not overlap; `TasksAfforded`: there are no more tasks than accumulators or rows.
`GrowthHolds`: given any values, a histogram of an even number of bins has each of them between
its ends and counted in the one bin it lies in. Growing once keeps that because bins 2m and
2m + 1 are the two halves of bin m of the new range, so that the indices counted in them are
disjoint and their union is counted in m; growing until the value fits ends because every
growth comes one nearer at least, so as many growths as the value is away suffice; values follow
one another by the same induction. `NewGrowthHolds` is the case of a new accumulator. It is the
operator of `GrowthExact`, which the run checks of every accumulator of a pass.
`SharesAddUp`: of a count shared over pieces that are T in all, the whole parts times T and the
remainders add up to the count times T, so the leftovers are fewer than the pieces that have a
remainder; each taker has one, and so every share is less than a pixel from its due and none is
lost. `FloatsAssumption` is that magnitudes are naturals, 0 and 1 among them, with a largest.

**ReadAheadProofs** proves `OneThread`, `CancelStartsNothingMore` and `LateFrameStops` for any
images, depths, channels and sequences of frames. `IInv` says who may assign the thread: a `Served` between
deciding and starting has `_under_way` set and stands beside no thread at work, so a second
`Served`, `Cancel` and the last owner find nothing to assign or to leave behind (`Handover`);
`_cancelled` goes up before the lock is asked for (`Flagged`); and the three times the code
notes tell, however they tie, whether a prefetch was under way as a frame began
(`Remembered`), which is what a late frame is judged by. `ReadAheadAssumption` has images be
naturals: they are indices of the code's vector, and the next one left is the least.
`FramesAssumption` has a frame show a channel of the animation, or nothing, of each image.

**StoreCachesProofs** proves `NodeReadOnce`, `FailureForgotten`, `VerifiedAgrees`,
`InventoryStands`, `AnswersStand` and `LockOrder` for any threads, names, spellings, documents
and storage failures. `IInv` is about a thread's stack of reads and about the tables. Of a
stack: each read above another is the one that one asked for, and its table comes later in one
fixed order (`Nested`, from which `LockOrder`, so that no threads wait in a ring); a read that
computes holds its table's lock and its key has no answer that stands (`Computes`, `Holds`);
what it has been told is the answer that stands (`Told`); no thread that began after storage
recovered carries a failure (`Forgets`). Of the tables: what was answered from reading,
counted by who reads (`ReadOnce`), from the root's copy (`Had`), by parsing (`Parses`), by comparing (`Verified`)
and by listing (`Taken`). Nothing stands still meanwhile: documents are rewritten and storage
fails and recovers between any two steps. `StoreAssumption` states what the constants are:
names and threads differ from the values standing for none, a canonical name is a node, and
array documents are not groups.

**ArrayHandlesProofs** proves `NoHandleOfBefore`, `OneHandle` and `ClosedStoresLetGo` for any
readers, contexts, paths and rewrites. The argument is that ids are never reused: a key of the
table is of a store made by now and its handle was opened since (`Filed`), a store's documents
are no newer than the disk's (`Older`), a read in flight keeps its store and its pool open
(`Held`), and the handle it goes by is the one filed (`Shared`).

**PiecesProofs** proves `PrefixFinal` and `PiecesDecodeOnce` for every request, image, chunk
shape, budget and buffer (of ordinary reads; a prefetch is next). First the arithmetic of a
request: `Product` is a recursive function, about which induction is had from the least number
a claim fails at (`LeastNumber`); `FillsDivide`, `DivShift` and `ModShift` then give
`PartPixel`: the x-th pixel of the part [b, e) along the slowest axis of more than one element
is the (b U + x)-th of the whole, where a unit fills U elements. It needs that every axis after
the cut one has one element, which is why `SlowestSelectedAxis` is the axis cut. `PieceSpan`
says the same of a piece in either case, cut or whole, and `PiecesApart`, from `ChunksInOrder`,
that no chunk before a cut between chunks is met after it. `IInv` has pieces begin and end at
such cuts, `finished` be the elements of the units before `begin` (`Progress`), what is
finished hold its pixels and the rest nothing unless a read failed (`Held`), and the chunks
decoded be those of what is finished (`Seen`). `PiecesAssumption` has a request be checked
against its image: an axis at least, and a range, a length and two chunk lengths for each.

`PrefetchExact` rests on an invariant of its own, `PrefetchInv`. The sample of a request has an
element in each chunk the request selects from and no two in one (`SampledChunks`, per axis), so
a set of its elements stands for a set of chunks. The odometer's place orders the sample: what
is behind it (`Passed`) has been decoded, and the elements from it that one run covers are a box
of the sample, cut again by `PlanPieces`, whose pieces before `begin` are decoded too. A turn of
the odometer makes the elements of a finished run part of what is behind; when it cannot turn
there is nothing before it. `LoopInv` has a run's elements fit the scratch buffer, which is why
no piece is refused as the caller's mistake, and elements met once are chunks met once.

**StoreWalkProofs** proves both properties of `StoreWalk` for any trees, links, clocks and sizes:
`EveryNodeListed` is `NoLinkTwice` and `AllListed`, `SizeHonest` is `SizeWhole` and
`TimeoutHonoured`, with an invariant for each of the four. `WalkInv`: the ancestors are those of the place the iterator is at,
and each link come through leads to the ancestor after it; one taken again would lead to a
directory among the ancestors, which `Enter` refuses, hence `NoLinkTwice`. `TimeInv`: a
measuring has the deadline of its own start and timeout, which is a timeout later or the end of
the clock. `ListInv`: a way on from a directory looked into has been come by, or is left in
the frame of the iterator that stands for that directory; with an empty stack nothing is left,
so the ways are all there are through links that can be resolved (`AreAll`). A link that is not taken leads to a directory along
its own way, which has been come to, so the directories at the ends of ways are closed and
every one reachable at all is among them. `MeasureInv`: the same of the ways measured; each
directory on them was open and each file taken known, and the total is the number of bytes, as
a set, of the files by those ways that are not left. `TreesAssumption` says what a file system is: a directory has one entry of a
name, of a kind the walk tells apart, and what an entry leads to is there.

`IInv` of the pool, `QuietBetweenRuns`, `LockOrder` and the inductive invariants of the other
components are proved and not part of a run.

**Only model-checked.** Every liveness property (`EverythingEnds`, `LetGoEnds`,
`EveryCallReturns`, `PassEnds`, `ReadEnds`): the prover has no fairness. `BlockExact` and
`FootprintsExact` of `SpectralReduce` and `CubeExact` and `PlaneCountsExact` of `Histograms`
compare a computation made of folds, which take an operator as a parameter, with a definition
over the pixels of the image; what they are made of is proved (the pass, the split in tasks,
the growth, the shares), their composition is checked. `GrowthExact` as an invariant is among them: its
operator is proved, that a task's rows are the ones `seen` has is not. The properties of
`Images` are about documents and names worked through by folds, one place at a time.

## 5. What was found

Two places where a comment says more than the code does have a run that shows it; `findings`
in `PROJECT.json` quotes both sides.

1. `read_ahead.h` says a run is prefetched unless it has been decoded ahead already. The code
   notes a run when it decides on the prefetch; one that failed, or was cut short, is passed
   over too.
2. `read.h` has a pass's read stay within the budget unless it is a single chunk. With a
   stride that does not divide the chunk, or a selection that begins inside a chunk, a slab
   touches a chunk more than counted.

Met while modelling, and without a run of their own:

- `transport.cc:31-33` says of a walk that measures that a size "that leaves a directory out is
  not the store's size, however it is labelled". `StoredSizeBytes` does not look at what `Enter`
  returns (`transport.cc:234`), so a link to a directory that could not be resolved at that
  moment (`transport.cc:56`) is left out and the size is said to be measured, as it is in the
  model (trees with an `Unresolved` entry). `SizeHonest`, and the theorems about it, are
  therefore about what can be come to through links that can be resolved.
- `work_pool.h` says calls of `Run` are serialised. A call with one task, or on a pool without
  threads, goes inline without the lock and runs beside another's tasks. Each call still keeps
  its own promise (`KeepsPromise`).
- `read_ahead.h` has `caught_up` count runs, as `prefetches` does. The code counts one per
  prefetch, however many images it was for.
- `transport.cc` says a link to a directory the walk is inside is not followed. A link to a
  directory *containing* one of those is, and the directory inside it is walked again. The walk
  still ends: each way back passes a link no other part of the way passed.
- `qualification.cc` has what is listed and what opens be "the same set in both directions".
  That is so when no read failed during the probe (`ListedOpens` asks for that): a declared
  flag outside the root's copy whose document could not be read for a moment has its image
  listed as unopenable, and it opens later.
- `FindDataGroups` compares the names of a group as they are written, while flags are compared
  normalised, so an image spelled oddly by its group is masked by the group's flag and not said
  to be in it.
- `src/read/pieces.h` gives `buffer_too_small` as the answer to a destination that is too
  small, and `CheckRead` returns `invalid_argument`.

## 6. Not modelled

- Rounding: statistics, shares and axes are exact here, and the tolerances of
  `linear_axis.cc` are none, radians are degrees there, and the width of a plane histogram's
  bins is a fraction that is not narrowed to a float. NaN and infinities are one value, `NonFinite`.
- Which fields a JSON document must have and what their texts are: a document is whole, or
  wrong in one of the ways the code answers differently to. Error texts, units, reference
  frames, projections and observation metadata (`observation.cc`, most of `direction.cc`) are
  copied or converted one by one, for which unit tests are the right tool.
- The decompressors, TensorStore, the file system and the clock: external, by the outcomes the
  code tells apart; in `StoreCaches` TensorStore, which opens an array's own document again
  later than the store verified it, decodes by any the array has had meanwhile, and the failure
  to open one that is no array any more is left out. The tree stands still while it is walked, and a read of `Images` that fails
  does so throughout the operation that meets it.
- `BuildSelection` and its refusals of a malformed request, and negative timeouts; requests
  here are ones the image has.
- `Guarded` and the rest of the facade that only checks and forwards.
- Benchmarks (`bench/`): sequential measuring programs. Vendored code and build files.

## 7. Plan

The plan is done for modelling, and every safety property of the concurrent components, the
walks of pixels and chunks, and the walks of a store is proved. What could follow:

1. `GrowthExact` and `PlaneCountsExact` as invariants of `Histograms`, from `PassProofs` and
   `GrowthHolds`; the folds over tasks and rows would first be written as recursive functions,
   as `GrowingHistogram` is.
2. `FootprintsExact` of `Occupancy`, likewise: its bands are a fold over rows of chunks.

`BlockExact`, `CubeExact` and `Images` stay with TLC.
