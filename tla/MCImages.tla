------------------------------ MODULE MCImages ------------------------------
(* Stores of one image, written in the ways that are read differently:      *)
(* copies of the metadata that are spelled oddly, stale or partial; flags   *)
(* named by the image, by groups or by nothing; nodes that are not images,  *)
(* or not whole; labels behind every order of codecs; tables and axes that  *)
(* are laid out or spaced unusually.                                        *)
EXTENDS Images

MCNameOrder ==
    <<<<"BEAM">>, <<"BROKEN">>, <<"FLAG">>, <<"FLAG2">>, <<"MODEL">>, <<"SKY">>, <<"beam_params_label">>,
      <<"frequency">>, <<"l">>, <<"m">>, <<"polarization">>, <<"sub">>, <<"sub", "SKY">>, <<"time">>,
      <<"u">>, <<"v">>>>

-----------------------------------------------------------------------------
(* Documents. *)

NoAttrs == [type |-> "", imageType |-> "", flag |-> <<>>, beams |-> <<>>, dtype |-> "", reference |-> <<>>]
Bytes(endian) == [name |-> "bytes", endian |-> endian]
Codec(name) == [name |-> name]
Transpose(order) == [name |-> "transpose", order |-> order]
Sharded(chunk) == [name |-> "sharding_indexed", chunk |-> chunk]

Array(dims, shape, data) ==
    [type |-> "array", parses |-> "ok", dims |-> dims, shape |-> shape, data |-> data, lengthBytes |-> 8,
     grid |-> shape, codecs |-> <<Bytes("little")>>, keys |-> "default/", fill |-> <<>>, attrs |-> NoAttrs]
Group == [Array(<<>>, <<>>, "none") EXCEPT !.type = "group"]
Garbage == [Group EXCEPT !.type = "garbage"]

SkyDims == <<"time", "frequency", "polarization", "l", "m">>
SkyShape == <<2, 3, 3, 2, 3>>
Sky(data) == [Array(SkyDims, SkyShape, data) EXCEPT !.attrs.type = "sky", !.attrs.beams = <<"BEAM">>]
AFlag == [Array(SkyDims, SkyShape, "bool") EXCEPT !.attrs.type = "flag"]
Numeric(name, n) == Array(<<name>>, <<n>>, "float64")
Labels(name, n) == Array(<<name>>, <<n>>, "fixed_length_utf32")

-----------------------------------------------------------------------------
(* What arrays hold.  A chunk of labels is written by its chain of codecs,  *)
(* first to last, the last outermost.                                       *)

Unit(code, endian) ==
    LET low == <<code % 256, (code \div 256) % 256, code \div 65536, 0>>
    IN  IF endian = "big" THEN Reverse(low) ELSE low
EndianOf(doc) == (SelectSeq(doc.codecs, LAMBDA c : c.name = "bytes"))[1].endian
Written(doc, label) ==
    [k \in 1 .. StringWidth(doc) |-> Unit(IF k <= Len(label) THEN label[k] ELSE 0, EndianOf(doc))]
Around(doc) ==
    Reverse([k \in 1 .. Len(SelectSeq(doc.codecs, LAMBDA c : c.name \in Compressors \cup {"crc32c"})) |->
        Wrap(SelectSeq(doc.codecs, LAMBDA c : c.name \in Compressors \cup {"crc32c"})[k].name)])
WrittenChunk(doc, labels, index) ==
    [wraps |-> Around(doc),
     units |-> FlattenSeq([e \in 1 .. doc.grid[1] |->
                    LET n == index * doc.grid[1] + e
                    IN  Written(doc, IF n <= Len(labels) THEN labels[n] ELSE <<63>>)])]
WrittenLabels(doc, labels, indices) ==
    [path \in {<<doc.keys, index>> : index \in indices} |-> WrittenChunk(doc, labels, path[2])]
AllChunks(doc) == 0 .. ChunkCount(doc) - 1

(* The table of beams, each value the place it is the value of. *)
BeamDims == {"time", "frequency", "polarization", "beam_params_label"}
BeamExtent == [time |-> 2, frequency |-> 3, polarization |-> 3, beam_params_label |-> 3]
Beam(dims) == Array(dims, [k \in DOMAIN dims |-> BeamExtent[dims[k]]], "float64")
BeamValues(doc) ==
    LET Place(n, d) == (n \div Product(SubSeq(doc.shape, d + 1, Len(doc.shape)))) % doc.shape[d]
    IN  [n \in 1 .. Product(doc.shape) |->
            [name \in BeamDims |->
                IF HasDimension(doc, name) THEN Place(n - 1, Min(FindDimensionIndex(doc, name))) ELSE 0]]

-----------------------------------------------------------------------------
(* A whole store, and stores with a part of it otherwise. *)

(* Labels of one to four bytes a character, at the ends of each. *)
Written3 == <<<<127, 128>>, <<2047, 2048>>, <<65535, 65536>>>>
BeamLabels == <<<<80, 97>>, <<77, 65, 74, 79, 82>>, <<109, 105, 110, 111, 114>>>>
LongLabels(name, n) == [Labels(name, n) EXCEPT !.lengthBytes = 20]

PlainOwn ==
    <<"SKY">> :> Sky("float32") @@ <<"l">> :> Numeric("l", 2) @@ <<"m">> :> Numeric("m", 3)
    @@ <<"frequency">> :> Numeric("frequency", 3) @@ <<"polarization">> :> Labels("polarization", 3)
    @@ <<"time">> :> Numeric("time", 2) @@ <<"FLAG">> :> AFlag
    @@ <<"BEAM">> :> Beam(<<"time", "frequency", "polarization", "beam_params_label">>)
    @@ <<"beam_params_label">> :> LongLabels("beam_params_label", 3)

Plain ==
    [root |-> "ok", block |-> <<>>, listed |-> FALSE, own |-> PlainOwn, groups |-> {}, type |-> "",
     system |-> TRUE, frail |-> {}, asks |-> {<<"SKY">>},
     files |-> <<"polarization">> :> WrittenLabels(PlainOwn[<<"polarization">>], Written3, {0})
               @@ <<"beam_params_label">> :> WrittenLabels(PlainOwn[<<"beam_params_label">>], BeamLabels, {0}),
     numbers |-> <<"l">> :> <<1, -1>> @@ <<"m">> :> <<-2, 0, 2>> @@ <<"frequency">> :> <<100, 110, 120>>
                 @@ <<"time">> :> <<5, 8>> @@ <<"BEAM">> :> BeamValues(PlainOwn[<<"BEAM">>]),
     labels |-> <<"polarization">> :> Written3 @@ <<"beam_params_label">> :> BeamLabels]

Having(location, docs) == [location EXCEPT !.own = docs @@ @]
Without(location, gone) == [location EXCEPT !.own = [n \in DOMAIN @ \ gone |-> @[n]]]
Asking(location, ids) == [location EXCEPT !.asks = ids]

(* The copy of all the documents but some, those of the store before. *)
Entry(keys, doc) == [keys |-> keys, doc |-> doc]
Copied(location, left) ==
    LET kept == SelectSeq(MCNameOrder, LAMBDA node : node \in DOMAIN location.own \ left)
    IN  [location EXCEPT !.listed = TRUE,
                         !.block = [k \in DOMAIN kept |-> Entry(<<kept[k]>>, location.own[kept[k]])]]
Also(location, entries) == [location EXCEPT !.block = entries \o @]
Frail(location, reads) == [location EXCEPT !.frail = reads]

(* The polarization's labels, of a document and the chunks of it there are. *)
Labelled(doc, indices, labels) ==
    [Having(Plain, <<"polarization">> :> doc) EXCEPT
        !.files = [@ EXCEPT ![<<"polarization">>] = WrittenLabels(doc, Written3, indices)],
        !.labels = [@ EXCEPT ![<<"polarization">>] = labels]]
Spoilt(doc, Broken(_)) ==
    [Labelled(doc, AllChunks(doc), <<>>) EXCEPT
        !.files = [@ EXCEPT ![<<"polarization">>] = [p \in DOMAIN @ |-> Broken(@[p])]]]
Chain(names) == [k \in DOMAIN names |-> IF names[k] \in {"little", "big"} THEN Bytes(names[k]) ELSE Codec(names[k])]
Through(names) == [Labels("polarization", 3) EXCEPT !.codecs = Chain(names)]
InTwos(doc) == [doc EXCEPT !.grid = <<2>>]

Axis(name, values) == [Plain EXCEPT !.numbers = [@ EXCEPT ![<<name>>] = values]]

AGroup(name, sky, flag) == [name |-> name, sky |-> sky, flag |-> flag, others |-> {}]

-----------------------------------------------------------------------------
(* The families. *)

Roots == {[Plain EXCEPT !.root = wrong] : wrong \in DOMAIN RootRefusal}

(* Copies: whole, spelled oddly, naming a node twice or none, older than    *)
(* the store, or older than a part of it.                                   *)
Consolidated ==
    LET Oddly == <<Entry(<<<<".", "SKY">>>>, Sky("float32")), Entry(<<<<"", "FLAG", "zarr.json">>>>, AFlag),
                   Entry(<<<<"zarr.json">>>>, Group), Entry(<<<<"sub">>, <<"SKY", "zarr.json">>>>, Sky("float32"))>>
        Nested == Having(Plain, <<"sub", "SKY">> :> Sky("float32"))
    IN  {Asking(Also(Copied(Nested, {<<"SKY">>, <<"FLAG">>, <<"sub", "SKY">>}), Oddly),
                {<<"SKY">>, <<"sub", "SKY">>, <<".", "SKY">>}),
         Also(Copied(Plain, {<<"SKY">>}), <<Entry(<<<<"..", "SKY">>>>, Sky("float32"))>>),
         Also(Copied(Plain, {}), <<Entry(<<<<".", "SKY">>>>, Sky("float32"))>>),
         Frail(Copied(Plain, {<<"l">>, <<"FLAG">>}), {<<"node", <<"l">>>>, <<"own", <<"SKY">>>>, <<"values", <<"m">>>>}),
         Frail(Copied(Having(Plain, <<"SKY">> :> [Sky("float32") EXCEPT !.attrs.flag = <<"FLAG">>]), {<<"FLAG">>}),
               {<<"node", <<"FLAG">>>>, <<"own", <<"polarization">>>>}),
         Without(Copied(Plain, {}), {<<"SKY">>}), Without(Copied(Plain, {}), {<<"l">>})}
        \cup {Having(Copied(Plain, {}), now) :
                now \in {<<"SKY">> :> Sky("float64"),
                         <<"SKY">> :> [Sky("float32") EXCEPT !.dims = <<"time", "polarization", "frequency", "l", "m">>],
                         <<"SKY">> :> [Sky("float32") EXCEPT !.grid = <<1, 1, 1, 2, 2>>],
                         <<"frequency">> :> [Numeric("frequency", 3) EXCEPT !.attrs.reference = <<110>>],
                         <<"m">> :> Numeric("m", 4), <<"FLAG">> :> [AFlag EXCEPT !.parses = "unsupported_codec"]}}
        \cup {[Labelled(Through(<<"big", "zstd">>), {0}, Written3) EXCEPT
                !.listed = TRUE, !.block = Copied(Plain, {}).block]}

(* Flags: named by the image or by groups, in any spelling; two that fit;   *)
(* one that another image has; ones that do not fit.                        *)
Flagged(flag) == Having(Plain, <<"SKY">> :> [Sky("float32") EXCEPT !.attrs.flag = flag])
TwoFlags(location) == Having(location, <<"FLAG2">> :> AFlag)
Grouped(location, groups) == [location EXCEPT !.groups = groups]
Flags ==
    {Without(Plain, {<<"FLAG">>}), TwoFlags(Plain), Flagged(<<".", "FLAG">>), TwoFlags(Flagged(<<"FLAG2">>)),
     Flagged(<<"FLAG2">>), Flagged(<<"..", "FLAG">>), Flagged(<<"l">>),
     Grouped(TwoFlags(Plain), {AGroup("a", <<".", "SKY">>, <<"FLAG2">>), AGroup("b", <<"SKY">>, <<".", "FLAG2">>)}),
     Grouped(TwoFlags(Plain), {AGroup("a", <<"SKY">>, <<"FLAG2">>), AGroup("b", <<"SKY">>, <<"FLAG">>)}),
     Asking(Grouped(Having(TwoFlags(Plain), <<"MODEL">> :> Sky("float32")),
                    {AGroup("a", <<"MODEL">>, <<".", "FLAG2">>), AGroup("b", <<"SKY">>, <<>>)}),
            {<<"SKY">>, <<"MODEL">>})}
    \cup {Having(location, <<"FLAG">> :> flag) :
            location \in {Plain, Flagged(<<"FLAG">>)},
            flag \in {[AFlag EXCEPT !.shape[2] = 2], [AFlag EXCEPT !.data = "int8"], Garbage,
                      [AFlag EXCEPT !.data = "int8", !.attrs.dtype = "bool", !.grid = <<1, 2, 3, 2, 2>>]}}

(* Nodes that are not images, or not whole, alone and beside one that is.   *)
Broken ==
    {Garbage, [Group EXCEPT !.type = "widget"], [Sky("float32") EXCEPT !.parses = "unsupported_codec"],
     Sky("complex64"), Array(<<"l">> \o SkyDims, <<2>> \o SkyShape, "float32"),
     [Sky("float32") EXCEPT !.shape[2] = 4], [Sky("float32") EXCEPT !.attrs.flag = <<"l">>],
     Array(<<"time", "frequency", "polarization", "u", "v">>, SkyShape, "float32"), Numeric("l", 2), Group}
Beside ==
    {Asking(Having(Plain, <<"BROKEN">> :> doc), {<<"SKY">>, <<"BROKEN">>}) : doc \in Broken}
    \cup {[Asking(Having(location, name :> doc), {}) EXCEPT !.type = type] :
            location \in {Without(Plain, {<<"SKY">>}),
                          Having(Without(Plain, {<<"SKY">>}), <<"BEAM">> :> Garbage),
                          Having(Without(Plain, {<<"SKY">>}), <<"BEAM">> :> Sky("complex64"))},
            name \in {<<"BROKEN">>, <<"MODEL">>}, doc \in Broken, type \in {"", "image_dataset"}}
    \cup {Having(Plain, <<"m">> :> doc) : doc \in {Labels("m", 3), Garbage, [Numeric("m", 3) EXCEPT !.parses = "invalid_metadata"]}}
    \cup {[Plain EXCEPT !.system = FALSE], Without(Plain, {<<"time">>}),
          Frail(Plain, {<<"node", <<"SKY">>>>, <<"values", <<"polarization">>>>, <<"values", <<"BEAM">>>>})}

(* Labels: every order of checksums and a compressor, either byte order,    *)
(* the last chunk overhanging, chunks never written and chunks spoilt.      *)
Chains == {<<"little">>, <<"big", "gzip">>, <<"little", "crc32c", "zstd">>, <<"little", "blosc", "crc32c">>,
           <<"big", "crc32c", "gzip", "crc32c", "crc32c">>}
BadChains == {<<"little", "gzip", "zstd">>, <<"little", "big">>, <<"little", "lz4">>}
OddLabels ==
    {Labelled(InTwos(Through(chain)), {0, 1}, Written3) : chain \in Chains}
    \cup {Labelled(Through(chain), {0}, <<>>) : chain \in BadChains}
    \cup {Labelled([InTwos(Through(<<"little">>)) EXCEPT !.fill = <<73>>, !.keys = keys], {0},
                   <<Written3[1], Written3[2], <<73>>>>) : keys \in KeyEncodings \cup {"odd"}}
    \cup {Labelled([InTwos(Through(<<"little">>)) EXCEPT !.fill = Refused], {0, 1}, <<>>),
          Labelled([Through(<<"little">>) EXCEPT !.codecs = <<Transpose(<<1>>), Bytes("little")>>], {0}, Written3),
          Labelled([Through(<<"little">>) EXCEPT !.lengthBytes = 6], {}, <<>>)}
    \cup {Spoilt(Through(<<"little", "zstd", "crc32c">>), LAMBDA f : [f EXCEPT !.wraps[1].sound = FALSE]),
          Spoilt(Through(<<"little", "zstd">>), LAMBDA f : [f EXCEPT !.wraps[1].by = "gzip"]),
          Spoilt(Through(<<"little">>), LAMBDA f : [f EXCEPT !.units = Append(@, Unit(65, "little"))]),
          Spoilt(Through(<<"little">>), LAMBDA f : [f EXCEPT !.units[1] = Unit(kSurrogateMin, "little")]),
          Spoilt(Through(<<"little">>), LAMBDA f : [f EXCEPT !.units[3] = <<65, 0, 0, 1>>])}

(* Tables of beams in other orders, without a time, of no real numbers, or  *)
(* with other labels.                                                       *)
Beamed(doc) == [Having(Plain, <<"BEAM">> :> doc) EXCEPT !.numbers = [@ EXCEPT ![<<"BEAM">>] = BeamValues(doc)]]
Tables ==
    {Beamed(Beam(dims)) :
        dims \in {<<"beam_params_label", "polarization", "frequency", "time">>,
                  <<"frequency", "beam_params_label", "polarization">>, <<"time", "frequency", "beam_params_label">>}}
    \cup {[Plain EXCEPT !.numbers = [@ EXCEPT ![<<"BEAM">>] = Tail(@)]],
          Having(Plain, <<"BEAM">> :> [PlainOwn[<<"BEAM">>] EXCEPT !.data = "complex64"]),
          Having(Plain, <<"SKY">> :> [Sky("float32") EXCEPT !.attrs.beams = <<>>]),
          Without(Plain, {<<"BEAM">>}), Without(Plain, {<<"beam_params_label">>}),
          [Plain EXCEPT !.files = [@ EXCEPT ![<<"beam_params_label">>] =
                WrittenLabels(LongLabels("beam_params_label", 3), <<<<80>>, <<77>>, <<80, 65>>>>, {0})]]}

Axes ==
    {Axis("l", <<0, -3>>), Axis("l", <<1, 1>>), Axis("m", <<0, 1, 3>>), Axis("m", <<-1, 0, NotFinite>>),
     Axis("m", <<1, 4, 7>>), Axis("frequency", <<100, 110, 125>>), Axis("frequency", <<120, 110, 100>>)}
    \cup {Having(Plain, <<"frequency">> :> [Numeric("frequency", 3) EXCEPT !.attrs.reference = <<value>>]) :
            value \in {105, 120}}

(* Chunks in shards, behind transposes. *)
Laid(grid, codecs) == Having(Plain, <<"SKY">> :> [Sky("float32") EXCEPT !.grid = grid, !.codecs = codecs])
Layouts ==
    {Laid(<<1, 2, 3, 1, 3>>, <<Bytes("little")>>),
     Laid(<<2, 3, 3, 2, 3>>, <<Sharded(<<1, 3, 1, 2, 2>>), Bytes("little")>>),
     Laid(<<2, 2, 3, 2, 3>>, <<Transpose(<<5, 4, 3, 2, 1>>), Sharded(<<2, 1, 3, 2, 1>>)>>),
     Laid(<<2, 3, 3, 2, 3>>, <<Transpose(<<2, 3, 1, 4, 5>>), Transpose(<<1, 3, 2, 5, 4>>), Sharded(<<3, 1, 2, 1, 2>>)>>)}

MCLocations == {Plain} \cup Roots \cup Consolidated \cup Flags \cup Beside \cup OddLabels \cup Tables \cup Axes \cup Layouts
=============================================================================
