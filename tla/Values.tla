------------------------------- MODULE Values -------------------------------
(***************************************************************************)
(* What a description reads besides metadata: labels, decoded by this      *)
(* library (src/src/zarr/string_array.cc), tables of numbers addressed by  *)
(* the names of their dimensions (numeric_array.cc, beam_table.cc), and    *)
(* the linear description of an axis (linear_axis.cc).                     *)
(*                                                                         *)
(* An array's document is a record with its shape, the names of its        *)
(* dimensions (dims), its chunk shape (grid), its codecs, the way it keys  *)
(* its chunks (keys) and its fill value (fill).                            *)
(***************************************************************************)
EXTENDS ChunkBlocks, SequencesExt

Refused == <<-1>>      \* in place of a label that was not had, and alone in place of all of them

Product(s) == FoldLeft(LAMBDA a, b : a * b, 1, s)
Repeat(x, n) == [k \in 1 .. n |-> x]

-----------------------------------------------------------------------------
(* Labels: fixed-length UTF-32, in chunks. *)

kUnicodeMax == 1114111
kSurrogateMin == 55296
kSurrogateMax == 57343

(* A code point as UTF-8, for one that is a character. *)
AppendUtf8(code) ==
    LET Continued(shift) == 128 + ((code \div shift) % 64)
    IN  IF code < 128 THEN <<code>>
        ELSE IF code < 2048 THEN <<192 + code \div 64, Continued(1)>>
        ELSE IF code < 65536 THEN <<224 + code \div 4096, Continued(64), Continued(1)>>
        ELSE <<240 + code \div 262144, Continued(4096), Continued(64), Continued(1)>>
IsCodePoint(code) == code <= kUnicodeMax /\ ~ (code >= kSurrogateMin /\ code <= kSurrogateMax)

(* Four bytes as a number.  One with a high byte is past the last character *)
(* whatever the rest of it is.                                              *)
ReadUint32(bytes, little) ==
    LET b == IF little THEN bytes ELSE Reverse(bytes)
    IN  IF b[4] > 0 THEN kUnicodeMax + 1 ELSE b[1] + 256 * b[2] + 65536 * b[3]

(* An element of a chunk: the characters before the first null. *)
BeforeNull(codes) == SubSeq(codes, 1, Min({k \in DOMAIN codes : codes[k] = 0} \cup {Len(codes) + 1}) - 1)
Encoded(value) ==
    IF \A k \in DOMAIN value : IsCodePoint(value[k])
    THEN FoldLeft(LAMBDA text, code : text \o AppendUtf8(code), <<>>, value)
    ELSE Refused
DecodeElement(units, little) ==
    Encoded(BeforeNull([k \in DOMAIN units |-> ReadUint32(units[k], little)]))

Compressors == {"blosc", "gzip", "zstd"}

(* The codec chain of a string array, walked in order: one compressor, the  *)
(* byte order, and how many checksums are on either side of the compressor. *)
NoCodecs == [fails |-> FALSE, compressor |-> <<>>, bytes |-> FALSE, little |-> TRUE,
             crcBefore |-> 0, crcAfter |-> 0]
Unsupported(info) == [info EXCEPT !.fails = TRUE]
ParseStringCodec(info, codec) ==
    CASE codec.name \in Compressors ->
            IF info.compressor # <<>> THEN Unsupported(info)
            ELSE [info EXCEPT !.compressor = <<codec.name>>]
      [] codec.name = "bytes" ->
            IF info.bytes THEN Unsupported(info)
            ELSE [info EXCEPT !.bytes = TRUE, !.little = codec.endian # "big"]
      [] codec.name = "crc32c" ->
            IF info.compressor # <<>> THEN [info EXCEPT !.crcAfter = @ + 1]
            ELSE [info EXCEPT !.crcBefore = @ + 1]
      [] codec.name = "transpose" -> IF codec.order = <<1>> THEN info ELSE Unsupported(info)
      [] OTHER -> Unsupported(info)
ParseStringCodecs(codecs) == FoldLeft(ParseStringCodec, NoCodecs, codecs)

(* A chunk on disk: what it is wrapped in, outermost first, and the units   *)
(* of four bytes inside.  A checksum that is not there, or not the one of   *)
(* its bytes, and a stream of another compressor are all refused.           *)
Wrap(by) == [by |-> by, sound |-> TRUE]
Unreadable == <<[by |-> "nothing", sound |-> FALSE]>>
StripCrc32c(wraps) == IF wraps # <<>> /\ wraps[1] = Wrap("crc32c") THEN Tail(wraps) ELSE Unreadable
DecompressBytesCodec(wraps, codec) ==
    IF wraps # <<>> /\ wraps[1] = Wrap(codec) THEN Tail(wraps) ELSE Unreadable
Unwrapped(wraps, by) ==
    IF by = "crc32c" THEN StripCrc32c(wraps) ELSE DecompressBytesCodec(wraps, by)

(* Fault, for checking that the properties notice it. *)
ChecksumsAsInTheChain(info) ==
    Repeat("crc32c", info.crcBefore) \o info.compressor \o Repeat("crc32c", info.crcAfter)

DecodeOrder(info) ==
    Repeat("crc32c", info.crcAfter) \o info.compressor \o Repeat("crc32c", info.crcBefore)

(* The bytes of a chunk, when they are those its chunk shape accounts for.  *)
DecodeStringChunk(file, info, expected) ==
    IF /\ FoldLeft(Unwrapped, file.wraps, DecodeOrder(info)) = <<>>
       /\ Len(file.units) = expected
    THEN file.units ELSE <<>>

StringWidth(doc) == doc.lengthBytes \div 4
IsFixedLengthUtf32(doc) ==
    doc.data = "fixed_length_utf32" /\ doc.lengthBytes > 0 /\ doc.lengthBytes % 4 = 0
KeyEncodings == {"default/", "default.", "v2"}
GetStringChunkPath(doc, index) == <<doc.keys, index>>

ParseStringArrayLayout(doc) ==
    IF ~ IsFixedLengthUtf32(doc) \/ Len(doc.shape) # 1 \/ Len(doc.grid) # 1 THEN "unsupported_data_type"
    ELSE IF doc.grid[1] = 0 \/ doc.fill = Refused THEN "invalid_metadata"
    ELSE "ok"

(* Why labels cannot be decoded, from metadata alone; "ok" when they can. *)
CheckFixedLengthUtf32StringArray(doc) ==
    IF ParseStringArrayLayout(doc) # "ok" THEN ParseStringArrayLayout(doc)
    ELSE IF ParseStringCodecs(doc.codecs).fails \/ doc.keys \notin KeyEncodings THEN "unsupported_codec"
    ELSE "ok"

(* The last chunk may overhang the array. *)
ElementsOf(doc, index) == Least(doc.grid[1], doc.shape[1] - index * doc.grid[1])

DecodeFixedLengthUtf32(doc, units, count, little) ==
    [e \in 1 .. count |->
        DecodeElement(SubSeq(units, (e - 1) * StringWidth(doc) + 1, e * StringWidth(doc)), little)]

(* One chunk of labels: the fill value for one never written. *)
ReadStringChunk(doc, files, index) ==
    LET path  == GetStringChunkPath(doc, index)
        count == ElementsOf(doc, index)
        info  == ParseStringCodecs(doc.codecs)
        units == DecodeStringChunk(files[path], info, doc.grid[1] * StringWidth(doc))
    IN  IF path \notin DOMAIN files THEN Repeat(doc.fill, count)
        ELSE IF units = <<>> THEN <<Refused>>
        ELSE DecodeFixedLengthUtf32(doc, units, count, info.little)

ChunkCount(doc) == (doc.shape[1] + doc.grid[1] - 1) \div doc.grid[1]
ReadFixedLengthUtf32StringArray(doc, files) ==
    FlattenSeq([k \in 1 .. ChunkCount(doc) |-> ReadStringChunk(doc, files, k - 1)])
-----------------------------------------------------------------------------
(* Numbers, in the order of their own document's shape, the last dimension *)
(* fastest.                                                                *)

FindDimensionIndex(doc, name) == {k \in DOMAIN doc.dims : doc.dims[k] = name}
HasDimension(doc, name) == FindDimensionIndex(doc, name) # {}
Extent(doc, name) == doc.shape[Min(FindDimensionIndex(doc, name))]

MakeNumericArray(doc, values) == Len(values) = Product(doc.shape)

Strides(doc) == [d \in DOMAIN doc.shape |-> Product(SubSeq(doc.shape, d + 1, Len(doc.shape)))]

(* The value at an index, counted from zero, of each dimension named; the   *)
(* others are taken at zero.                                                *)
At(doc, values, index) ==
    LET Offset(name) == index[name] * Strides(doc)[Min(FindDimensionIndex(doc, name))]
    IN  values[1 + MapThenSumSet(Offset, DOMAIN index)]

-----------------------------------------------------------------------------
(* The beams of an image: a table of parameters, found by their labels.     *)

(* Labels are bytes; the parameters are these in capitals. *)
Upper(label) == [k \in DOMAIN label |-> IF label[k] \in 97 .. 122 THEN label[k] - 32 ELSE label[k]]
Spelling == [MAJOR |-> <<77, 65, 74, 79, 82>>, MINOR |-> <<77, 73, 78, 79, 82>>, PA |-> <<80, 65>>]

(* Where a parameter is in the table, the last of its labels if several.    *)
FindBeamParameterIndex(labels, parameter) == {k \in DOMAIN labels : Upper(labels[k]) = Spelling[parameter]}
BeamParameters == DOMAIN Spelling

ReadBeamValue(doc, values, place, parameter) ==
    LET named == [frequency |-> place.channel, polarization |-> place.polarization,
                  beam_params_label |-> parameter]
    IN  At(doc, values, IF HasDimension(doc, "time") THEN named @@ ("time" :> place.time) ELSE named)

BeamTableUsable(doc, labels) ==
    /\ \A name \in {"frequency", "polarization", "beam_params_label"} : HasDimension(doc, name)
    /\ Len(labels) = Extent(doc, "beam_params_label")
    /\ \A parameter \in BeamParameters : FindBeamParameterIndex(labels, parameter) # {}

(* Every plane's beam, time slowest. *)
BeamPlaces(doc) ==
    [time : 0 .. (IF HasDimension(doc, "time") THEN Extent(doc, "time") - 1 ELSE 0),
     channel : 0 .. Extent(doc, "frequency") - 1, polarization : 0 .. Extent(doc, "polarization") - 1]
DescribeBeams(doc, values, labels) ==
    [place \in BeamPlaces(doc) |->
        [parameter \in BeamParameters |->
            ReadBeamValue(doc, values, place, Max(FindBeamParameterIndex(labels, parameter)) - 1)]]

-----------------------------------------------------------------------------
(* An axis as a reference pixel, counted from one, a reference value and an *)
(* increment.  Samples are whole numbers, so the tolerances of the code are *)
(* none; a pixel is a fraction, numerator and denominator.                  *)

NotFinite == 1000000    \* stands for a sample that is not a finite number

NoFit == [increment |-> <<>>, pixel |-> <<>>, value |-> <<>>, uniform |-> FALSE, diagnostics |-> <<>>]
Distance(a, b) == IF a < b THEN b - a ELSE a - b
IsEvenlySpaced(values, increment) == \A k \in 3 .. Len(values) : values[k] - values[k - 1] = increment
ClosestIndex(values, reference) ==
    Min({k \in DOMAIN values :
            \A j \in DOMAIN values : Distance(values[k], reference) <= Distance(values[j], reference)})

FitLinearAxis(values, reference) ==
    LET first   == values[2] - values[1]
        uniform == IsEvenlySpaced(values, first)
        step    == IF uniform THEN (values[Len(values)] - values[1]) \div (Len(values) - 1) ELSE first
        closest == ClosestIndex(values, reference)
        exact   == values[closest] = reference
    IN  IF Len(values) < 2 THEN NoFit
        ELSE IF NotFinite \in ToSet(values) THEN [NoFit EXCEPT !.diagnostics = <<"nonuniform_axis">>]
        ELSE IF first = 0 THEN [NoFit EXCEPT !.increment = <<0>>]
        ELSE [increment |-> <<step>>, value |-> <<reference>>, uniform |-> uniform,
              pixel |-> IF exact THEN <<closest, 1>> ELSE <<(reference - values[1]) + step, step>>,
              diagnostics |-> (IF uniform THEN <<>> ELSE <<"nonuniform_axis">>)
                                \o (IF exact THEN <<>> ELSE <<"inexact_reference_pixel">>)]

(* A direction axis is linear by construction: one that is not says so.     *)
FitDirectionAxis(values) ==
    LET fit == FitLinearAxis(values, 0)
    IN  IF fit.pixel # <<>> THEN fit
        ELSE [fit EXCEPT !.diagnostics = Append(@, "degenerate_axis")]

(* A spectral axis that is not even is described by its channels alone.     *)
FitSpectralAxis(values, reference) ==
    LET fit == FitLinearAxis(values, reference)
    IN  IF fit.uniform THEN fit
        ELSE [NoFit EXCEPT !.diagnostics = SelectSeq(fit.diagnostics, LAMBDA d : d = "nonuniform_axis")]
=============================================================================
