------------------------------- MODULE Pieces -------------------------------
(***************************************************************************)
(* An ordinary read, cut into pieces, and a prefetch of the chunks a read  *)
(* would decode: src/src/read/pieces.cc and pieces_read.cc, with what a    *)
(* read costs from src/src/chunk_blocks.h.                                 *)
(*                                                                         *)
(* A range of an axis is [start, count, stride]; a request is one for each *)
(* axis of the image, the fastest first.  PlanPieces cuts all its pieces   *)
(* before the first is read; nothing it goes by changes meanwhile, so the  *)
(* next piece is cut here when it is wanted.  A pixel is known by where it *)
(* is in the image.                                                        *)
(***************************************************************************)
EXTENDS ChunkBlocks, Sequences, FiniteSets, FiniteSetsExt, Functions

CONSTANTS Reads,                \* requests, with the image they are of
          ElementBytes,         \* of the pixels as they are stored
          FloatBytes,           \* of a pixel as it is returned
          DecodedBytesPerRead, MinChunksPerRead, MaxDecodedBytesPerRead,
          SampleMost            \* kSampleElements

(* A request: whether it is for pixels or for their chunks, the ranges, the *)
(* image's axes and how they and their flag are chunked, the caller's       *)
(* budget in bytes (0: none), its buffer in elements, and whether it is     *)
(* told of progress and has the flag applied.                               *)
Range1 == [start : Nat, count : Positive, stride : Positive]
ReadFields == [prefetch : BOOLEAN, axes : Seq(Range1), length : Seq(Positive),
               chunk : Seq(Positive), flag_chunk : Seq(Positive), budget : Nat,
               size : Nat, watching : BOOLEAN, apply_mask : BOOLEAN]

(* An image has axes, and a request that was checked against it a range and *)
(* a chunk length for each of them.                                         *)
ASSUME PiecesAssumption ==
    /\ {ElementBytes, FloatBytes, DecodedBytesPerRead, MinChunksPerRead,
        MaxDecodedBytesPerRead, SampleMost} \subseteq Positive
    /\ \A r \in Reads :
         /\ r \in ReadFields /\ Len(r.axes) > 0
         /\ Len(r.length) = Len(r.axes) /\ Len(r.chunk) = Len(r.axes) /\ Len(r.flag_chunk) = Len(r.axes)

Product(s) == LET upto[i \in 0 .. Len(s)] == IF i = 0 THEN 1 ELSE s[i] * upto[i - 1]
              IN  upto[Len(s)]
Elements(ranges) == Product([i \in DOMAIN ranges |-> ranges[i].count])
ChunkElements(shape) == Product(shape)

(* The pixels of a request by where they are in the image, in the order of  *)
(* a dense destination: axis 0 is the fastest.                              *)
Pixels(ranges) ==
    LET each == [i \in DOMAIN ranges |-> Elements(SubSeq(ranges, 1, i - 1))]
    IN  [e \in 0 .. Elements(ranges) - 1 |->
           [i \in DOMAIN ranges |->
              ranges[i].start + ranges[i].stride * ((e \div each[i]) % ranges[i].count)]]
ChunksOf(ranges, shape) ==
    LET pixels == Pixels(ranges)
    IN  {[i \in DOMAIN ranges |-> pixels[e][i] \div shape[i]] : e \in DOMAIN pixels}

-----------------------------------------------------------------------------
(* What a read costs. *)

DefaultReadBytes(chunk_bytes) ==
    Least(MaxDecodedBytesPerRead, Max({DecodedBytesPerRead, AtLeastOne(chunk_bytes) * MinChunksPerRead}))

(* The most flag chunks a pixel chunk lies across along an axis. *)
FlagChunksAcross(length, pixel, flag) ==
    Max({1} \cup {(Least((k + 1) * pixel, length) - 1) \div flag - (k * pixel) \div flag + 1 :
                    k \in 0 .. (length - 1) \div pixel})

DecodedFlagBytes(r) ==
    Product([i \in DOMAIN r.axes |->
               FlagChunksAcross(r.length[i], r.chunk[i], r.flag_chunk[i]) * r.flag_chunk[i]])

ChunkBytes(r, apply_mask) ==
    ChunkElements(r.chunk) * ElementBytes + (IF apply_mask THEN DecodedFlagBytes(r) ELSE 0)
BudgetBytes(r, apply_mask) ==
    IF r.budget # 0 THEN r.budget ELSE DefaultReadBytes(ChunkBytes(r, apply_mask))

-----------------------------------------------------------------------------
(* Faults, for checking that the properties notice them. *)
ElementsThrough(ranges, axis) == Elements(SubSeq(ranges, 1, axis))
SpanOfRange(shape, ranges) ==
    [i \in DOMAIN ranges |->
       IF ranges[i].stride >= shape[i] THEN ranges[i]
       ELSE [start |-> (ranges[i].start \div shape[i]) * shape[i], stride |-> shape[i],
             count |-> RoundedUp(ranges[i].count * ranges[i].stride, shape[i])]]
OdometerStuck(at, ranges, cut) ==
    LET j == Max({k \in 1 .. cut - 1 : at[k] + 1 < ranges[k].count})
    IN  [k \in DOMAIN at |-> IF k < j THEN at[k] ELSE 0]

(* How a read is cut. *)

(* The slowest axis that selects more than one element, or 0. *)
SlowestSelectedAxis(ranges) == Max({0} \cup {i \in DOMAIN ranges : ranges[i].count > 1})

UnitsPerPiece(r, ranges, axis, apply_mask) ==
    LET other_chunks ==
          Product([i \in DOMAIN ranges |->
                     IF i = axis THEN 1
                     ELSE ChunksTouched([start |-> ranges[i].start, stride |-> ranges[i].stride,
                                         chunk |-> r.chunk[i]], 0, ranges[i].count)])
        chunks == AtLeastOne(BudgetBytes(r, apply_mask)
                               \div AtLeastOne(ChunkBytes(r, apply_mask) * other_chunks))
    IN  IF ranges[axis].stride >= r.chunk[axis] THEN chunks
        ELSE AtLeastOne((chunks * r.chunk[axis]) \div ranges[axis].stride)

(* What one unit of the cut axis fills of the destination. *)
ElementsPerUnit(ranges, axis) == Elements(SubSeq(ranges, 1, axis - 1))

(* One selected element in every chunk a request touches. *)
OneElementPerChunk(shape, ranges) ==
    [i \in DOMAIN ranges |->
       LET first == ranges[i].start \div shape[i]
           last  == (ranges[i].start + (ranges[i].count - 1) * ranges[i].stride) \div shape[i]
       IN  IF ranges[i].stride >= shape[i] THEN ranges[i]
           ELSE [start |-> first * shape[i], count |-> last - first + 1, stride |-> shape[i]]]

(* ForEachPiece: the first axis whose followers fit together is cut into    *)
(* runs; the axes before it are taken an element at a time.                 *)
InnerElements(ranges, k) == Elements(SubSeq(ranges, k + 1, Len(ranges)))
CutAxis(ranges, most) == Min({k \in DOMAIN ranges : InnerElements(ranges, k) <= most})
RunLength(most, inner) == AtLeastOne(most \div AtLeastOne(inner))

(* The next element of the axes before the cut, the last of them fastest. *)
CanTurn(at, ranges, cut) == \E k \in 1 .. cut - 1 : at[k] + 1 < ranges[k].count
Odometer(at, ranges, cut) ==
    LET j == Max({k \in 1 .. cut - 1 : at[k] + 1 < ranges[k].count})
    IN  [k \in DOMAIN at |-> IF k < j THEN at[k] ELSE IF k = j THEN at[k] + 1 ELSE 0]

SampleElements(r, element_bytes) ==
    IF r.budget = 0 THEN SampleMost ELSE AtLeastOne(r.budget \div element_bytes)

-----------------------------------------------------------------------------
VARIABLES
    read,       \* the request
    pc,         \* where it is: see Places
    told,       \* the caller's control says stop
    \* ReadInPieces and PlanPieces
    axes,       \* the request it was given: the caller's, or a piece of a sample
    axis,       \* the axis it is cut along, or 0
    units_per_piece,
    begin, end, \* the piece, as units of the cut axis
    destination,\* what each element of the buffer holds
    finished,   \* elements of the destination that are final
    \* ForEachPiece
    sampling,   \* whose sample it goes through: the pixels' or the flag's
    sample, buffer, cut, run,
    at, first,  \* its odometer, and where it is along the cut axis
    \* what happened, for the properties
    decoded, flags,     \* the pixel and the flag chunks decoded
    again,              \* one of them was decoded a second time
    too_small           \* a buffer did not hold what was to be read into it

piece == <<axes, axis, units_per_piece, begin, end, destination, finished>>
loop == <<sampling, sample, buffer, cut, run, at, first>>
history == <<decoded, flags, again, too_small>>
vars == <<read, pc, told, axes, axis, units_per_piece, begin, end, destination, finished,
          sampling, sample, buffer, cut, run, at, first, decoded, flags, again, too_small>>

Places == {"check", "piece", "mask", "pixels", "report", "prefetch", "sample", "flags",
           "sampled", "done", "failed"}
Ended == pc \in {"done", "failed"}

(* The pixels of a prefetch are read without their flag, nobody being told. *)
Masks == read.apply_mask /\ ~ read.prefetch
Watched == read.watching /\ ~ read.prefetch

(* The sample ForEachPiece goes through, the buffer it is read into, the    *)
(* most of it at once, and so its cut and its runs.                         *)
FlagPiece(buffer_size) ==
    LET bytes == ChunkElements(read.flag_chunk)
    IN  Least(buffer_size,
              AtLeastOne((IF read.budget # 0 THEN read.budget ELSE DefaultReadBytes(bytes))
                            \div bytes))
BeginSample(of) ==
    LET element_bytes == IF of = "pixels" THEN FloatBytes ELSE 1
        most == IF of = "pixels" THEN buffer' ELSE FlagPiece(buffer')
    IN  /\ sampling' = of
        /\ sample' = OneElementPerChunk(IF of = "pixels" THEN read.chunk ELSE read.flag_chunk,
                                        read.axes)
        /\ buffer' = Least(Elements(sample'), SampleElements(read, element_bytes))
        /\ cut' = CutAxis(sample', most)
        /\ run' = RunLength(most, InnerElements(sample', cut'))
        /\ at' = [i \in DOMAIN read.axes |-> 0] /\ first' = 0

SamplePiece ==
    [i \in DOMAIN sample |->
       IF i < cut THEN [start |-> sample[i].start + at[i] * sample[i].stride, count |-> 1,
                        stride |-> sample[i].stride]
       ELSE IF i = cut THEN [start |-> sample[i].start + first * sample[i].stride,
                             count |-> Least(run, sample[i].count - first),
                             stride |-> sample[i].stride]
       ELSE sample[i]]

(* A read is cut with somebody to tell of progress, or a stated budget. *)
SplitAxis == IF ~ Watched /\ read.budget = 0 THEN 0 ELSE SlowestSelectedAxis(axes)
Units == IF axis = 0 THEN 1 ELSE axes[axis].count
PieceEnd ==
    IF axis = 0 THEN 1
    ELSE AlignedBlockEnd(begin, units_per_piece, Units,
                         [start |-> axes[axis].start, stride |-> axes[axis].stride,
                          chunk |-> read.chunk[axis]])
PieceAxes ==
    [i \in DOMAIN axes |->
       IF i # axis THEN axes[i]
       ELSE [start |-> axes[i].start + begin * axes[i].stride, count |-> end - begin,
             stride |-> axes[i].stride]]
FirstElement == IF axis = 0 THEN 0 ELSE begin * ElementsPerUnit(axes, axis)

Untouched == [pixel |-> <<>>, masked |-> FALSE]
Cells == FirstElement .. FirstElement + Elements(PieceAxes) - 1
Filled(masked) ==
    LET pixels == Pixels(PieceAxes)
        from == FirstElement
    IN  [e \in DOMAIN destination |->
           IF e - from \in DOMAIN pixels THEN [pixel |-> pixels[e - from], masked |-> masked]
           ELSE destination[e]]

Init ==
    /\ read \in Reads
    /\ pc = IF read.prefetch THEN "prefetch" ELSE "check"
    /\ told = FALSE
    /\ axes = read.axes /\ axis = 0 /\ units_per_piece = 1 /\ begin = 0 /\ end = 0
    /\ destination = [e \in 0 .. (IF read.prefetch THEN 0 ELSE read.size) - 1 |-> Untouched]
    /\ finished = 0
    /\ sampling = "pixels" /\ sample = read.axes /\ buffer = 0 /\ cut = 1 /\ run = 1
    /\ at = [i \in DOMAIN read.axes |-> 0] /\ first = 0
    /\ decoded = {} /\ flags = {} /\ again = FALSE /\ too_small = FALSE

(* Cancellation or the deadline: the caller's control, at any moment. *)
AskToStop ==
    /\ ~ told /\ ~ Ended
    /\ told' = TRUE
    /\ UNCHANGED <<read, pc, piece, loop, history>>

(* The chunks of a request are decoded; of a read's flag some may be again. *)
Decode(request) ==
    LET chunks == ChunksOf(request, read.chunk) IN
    /\ decoded' = decoded \cup chunks
    /\ again' = (again \/ decoded \cap chunks # {})
DecodeFlags(request) ==
    LET chunks == ChunksOf(request, read.flag_chunk) IN
    /\ flags' = flags \cup chunks
    /\ again' = (again \/ (read.prefetch /\ flags \cap chunks # {}))

Goto(where) == pc' = where /\ UNCHANGED <<read, told, loop>>

-----------------------------------------------------------------------------
(* ReadInPieces. *)

Room == IF read.prefetch THEN buffer ELSE read.size

CheckRead ==
    /\ pc = "check"
    /\ too_small' = (Elements(axes) > Room)
    /\ Goto(IF too_small' \/ told THEN "failed" ELSE "piece")
    /\ axis' = SplitAxis
    /\ units_per_piece' = IF axis' = 0 THEN 1 ELSE UnitsPerPiece(read, axes, axis', Masks)
    /\ begin' = 0
    /\ UNCHANGED <<axes, end, destination, finished, decoded, flags, again>>

NextPiece ==
    /\ pc = "piece" /\ begin < Units
    /\ end' = PieceEnd
    /\ Goto(IF Masks THEN "mask" ELSE "pixels")
    /\ UNCHANGED <<axes, axis, units_per_piece, begin, destination, finished, history>>

(* The flag first: it refuses, is not to be had, or is held for the pixels. *)
MaskRefused ==
    /\ pc = "mask"
    /\ read.budget # 0 /\ Elements(PieceAxes) > read.budget
    /\ Goto("failed")
    /\ UNCHANGED <<piece, history>>

ReadMask ==
    /\ pc = "mask" /\ ~ told
    /\ read.budget = 0 \/ Elements(PieceAxes) <= read.budget
    /\ DecodeFlags(PieceAxes)
    /\ Goto("pixels")
    /\ UNCHANGED <<piece, decoded, too_small>>

MaskFails ==
    /\ pc = "mask"
    /\ Goto("failed")
    /\ UNCHANGED <<piece, history>>

(* The pixels, with the flag folded in before anybody sees them. *)
ReadPixels ==
    /\ pc = "pixels" /\ ~ told
    /\ Decode(PieceAxes)
    /\ destination' = Filled(Masks)
    /\ finished' = FirstElement + Elements(PieceAxes)
    /\ begin' = end
    /\ Goto(IF Watched THEN "report" ELSE "piece")
    /\ UNCHANGED <<axes, axis, units_per_piece, end, flags, too_small>>

(* A failed read, or one that a stop was seen after, may have written.      *)
PixelsFail ==
    /\ pc = "pixels"
    /\ destination' \in {destination, Filled(FALSE)}
    /\ Goto("failed")
    /\ UNCHANGED <<axes, axis, units_per_piece, begin, end, finished, history>>

ProgressTaken ==
    /\ pc = "report"
    /\ Goto("piece")
    /\ UNCHANGED <<piece, history>>

ProgressRefused ==
    /\ pc = "report"
    /\ Goto("failed")
    /\ UNCHANGED <<piece, history>>

EndRead ==
    /\ pc = "piece" /\ begin = Units
    /\ Goto(IF read.prefetch THEN "sampled" ELSE "done")
    /\ UNCHANGED <<piece, history>>

-----------------------------------------------------------------------------
(* PrefetchChunks: ForEachPiece over the pixels' sample, each piece of it a *)
(* read, then over the flag's, each piece of it read as it is.              *)

PrefetchBegins ==
    /\ pc = "prefetch" /\ ~ told
    /\ BeginSample("pixels")
    /\ pc' = "sample"
    /\ UNCHANGED <<read, told, piece, history>>

PrefetchRefused ==
    /\ pc = "prefetch" /\ told
    /\ Goto("failed")
    /\ UNCHANGED <<piece, history>>

NextSample ==
    /\ pc = "sample"
    /\ axes' = SamplePiece
    /\ Goto(IF sampling = "pixels" THEN "check" ELSE "flags")
    /\ UNCHANGED <<axis, units_per_piece, begin, end, destination, finished, history>>

SampleFlags ==
    /\ pc = "flags" /\ ~ told
    /\ too_small' = (Elements(axes) > buffer)
    /\ IF too_small' THEN UNCHANGED <<flags, again>> ELSE DecodeFlags(axes)
    /\ Goto(IF too_small' THEN "failed" ELSE "sampled")
    /\ UNCHANGED <<piece, decoded>>

SampleFails ==
    /\ pc = "flags"
    /\ Goto("failed")
    /\ UNCHANGED <<piece, history>>

(* On along the cut axis, then to the next element of the axes before it.   *)
RunsLeft == first + run < sample[cut].count

NextRun ==
    /\ pc = "sampled"
    /\ \/ RunsLeft /\ first' = first + run /\ UNCHANGED at
       \/ /\ ~ RunsLeft /\ CanTurn(at, sample, cut)
          /\ first' = 0 /\ at' = Odometer(at, sample, cut)
    /\ pc' = "sample"
    /\ UNCHANGED <<read, told, sampling, sample, buffer, cut, run, piece, history>>

(* The pixels' sample is over, and the flag's begins if it is applied.      *)
EndPixels ==
    /\ pc = "sampled" /\ ~ RunsLeft /\ ~ CanTurn(at, sample, cut)
    /\ sampling = "pixels" /\ read.apply_mask
    /\ BeginSample("flags")
    /\ pc' = "sample"
    /\ UNCHANGED <<read, told, piece, history>>

EndPrefetch ==
    /\ pc = "sampled" /\ ~ RunsLeft /\ ~ CanTurn(at, sample, cut)
    /\ sampling = "flags" \/ ~ read.apply_mask
    /\ Goto("done")
    /\ UNCHANGED <<piece, history>>

Step ==
    \/ CheckRead \/ NextPiece \/ MaskRefused \/ ReadMask \/ MaskFails
    \/ ReadPixels \/ PixelsFail \/ ProgressTaken \/ ProgressRefused \/ EndRead
    \/ PrefetchBegins \/ PrefetchRefused \/ NextSample \/ SampleFlags \/ SampleFails
    \/ NextRun \/ EndPixels \/ EndPrefetch

Next == Step \/ AskToStop \/ (Ended /\ UNCHANGED vars)

Spec == Init /\ [][Next]_vars

(* The thread that reads goes on; storage and the callback come back. *)
FairSpec == Spec /\ WF_vars(Step)

-----------------------------------------------------------------------------
(* "The finished part is always a prefix": whatever a read is cut into and  *)
(* wherever it stops, every element below what was reported holds the pixel *)
(* an uncut read would put there, flagged if flags are applied, and nothing *)
(* beyond the piece being read has been touched.                            *)
PrefixFinal ==
    ~ read.prefetch =>
      /\ LET pixels == Pixels(read.axes) IN
         \A e \in 0 .. finished - 1 :
           destination[e] = [pixel |-> pixels[e], masked |-> read.apply_mask]
      /\ \A e \in DOMAIN destination :
           e >= finished /\ destination[e] # Untouched => pc = "failed" /\ e \in Cells
      /\ pc = "done" => finished = Elements(read.axes)

(* "Rounded out to a chunk boundary, so that no chunk is decoded by two     *)
(* pieces": and a read that ends has decoded those it selects from.         *)
PiecesDecodeOnce ==
    ~ read.prefetch =>
      /\ ~ again
      /\ pc = "done" => decoded = ChunksOf(read.axes, read.chunk)

(* A prefetch "decodes exactly the chunks a read of request would", the     *)
(* pixels' and the flag's, each once, whatever it is cut into; and it never *)
(* asks for more of a sample than the buffer it allocated holds, which      *)
(* would refuse a prefetch the caller did nothing wrong in.                 *)
PrefetchExact ==
    read.prefetch =>
      /\ ~ again /\ ~ too_small
      /\ pc = "done" =>
           /\ decoded = ChunksOf(read.axes, read.chunk)
           /\ flags = IF read.apply_mask THEN ChunksOf(read.axes, read.flag_chunk) ELSE {}

(* A read and a prefetch end: no piece is cut to nothing, and the odometer  *)
(* turns over.                                                              *)
ReadEnds == <>Ended
=============================================================================
