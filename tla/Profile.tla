------------------------------ MODULE Profile ------------------------------
(***************************************************************************)
(* What the XRADIO profile decides from the documents of a store: which    *)
(* variables are images it will open, which flag masks one, and how an     *)
(* image is described (src/src/schema, over the reads of src/src/store.cc).*)
(*                                                                         *)
(* A name is the sequence of its parts, "" where a slash stands alone:     *)
(* "./SKY" is <<".", "SKY">> and "/SKY" is <<"", "SKY">>.  A store, as an  *)
(* operation finds it, is a record s:                                      *)
(*     copy    the documents of the root's consolidated metadata, by node  *)
(*     listed  whether there is such a copy, taken as the listing          *)
(*     own     the documents the nodes have themselves, by node            *)
(*     groups  the root's data_groups; type, system: more of its attributes*)
(*     files, numbers   what label arrays and numeric arrays hold          *)
(*     lost    reads that fail for now, <<what, node>>                     *)
(* A document has a type, whether it parses as an array, and the fields of *)
(* Values with its data type (data) and attributes (attrs).                *)
(***************************************************************************)
EXTENDS Values

CONSTANT NameOrder      \* every name, in the order of std::string

-----------------------------------------------------------------------------
(* Names.  The empty name is none: what normalizing refuses. *)

NormalizeNodeName(path) ==
    LET normalized == SelectSeq(path, LAMBDA part : part \notin {"", "."})
    IN  IF path = <<>> \/ path[1] = "" \/ ".." \in ToSet(path) THEN <<>> ELSE normalized

Canonical(path) == IF NormalizeNodeName(path) = <<>> THEN path ELSE NormalizeNodeName(path)

NormalizeMetadataKey(key) ==
    LET named == {k \in DOMAIN key : key[k] # ""}
        bare  == IF named = {} THEN <<>> ELSE SubSeq(key, Min(named), Len(key))
    IN  IF bare # <<>> /\ Last(bare) = "zarr.json" THEN Front(bare) ELSE bare

(* A document of the block by the keys that lead to it, an object without a *)
(* node_type being one to look inside.                                      *)
KeyedBy(keys) == FoldLeft(LAMBDA prefix, key : NormalizeMetadataKey(prefix \o key), <<>>, keys)

(* The block, filed by canonical name, its own root left out. *)
Filed(block) == {k \in DOMAIN block : KeyedBy(block[k].keys) # <<>>}
FiledAs(block, k) == NormalizeNodeName(KeyedBy(block[k].keys))
CollectRefuses(block) ==
    \/ \E k \in Filed(block) : FiledAs(block, k) = <<>>
    \/ \E j, k \in Filed(block) : j # k /\ FiledAs(block, j) = FiledAs(block, k)
CollectConsolidatedMetadata(block) ==
    [node \in {FiledAs(block, k) : k \in Filed(block)} |->
        block[CHOOSE k \in Filed(block) : FiledAs(block, k) = node].doc]

-----------------------------------------------------------------------------
(* Reads of the store.  What it has read it keeps (StoreCaches), so only    *)
(* what was never read can be lost.                                         *)

Got(doc) == [code |-> "ok", doc |-> doc]
Failed(code) == [code |-> code]
Ok(answer) == answer.code = "ok"
AndThen(answer, Then(_)) == IF Ok(answer) THEN Then(answer.doc) ELSE answer

ParseNodeMetadata(doc) == IF doc.type = "garbage" THEN Failed("invalid_metadata") ELSE Got(doc)
ParseArrayMetadata(doc) ==
    IF doc.type # "array" THEN Failed("invalid_metadata")
    ELSE IF doc.parses # "ok" THEN Failed(doc.parses) ELSE Got(doc)

(* What the transport gives for a document. *)
ReadNodeBytes(s, what, node) ==
    IF <<what, node>> \in s.lost THEN Failed("io_error")
    ELSE IF node \notin DOMAIN s.own THEN Failed("not_found")
    ELSE Got(s.own[node])

ReadCanonical(s, node) ==
    IF node = <<>> THEN Failed("invalid_argument")
    ELSE IF node \in DOMAIN s.copy THEN Got(s.copy[node])
    ELSE AndThen(ReadNodeBytes(s, "node", node), ParseNodeMetadata)
ReadNodeMetadata(s, path) == ReadCanonical(s, NormalizeNodeName(path))
ReadArrayMetadata(s, path) == AndThen(ReadNodeMetadata(s, path), ParseArrayMetadata)

(* The axis each axis of the array is once the transposes before the        *)
(* sharding codec have been through it.                                     *)
Sharding(doc) == {k \in DOMAIN doc.codecs : doc.codecs[k].name = "sharding_indexed"}
Transposes(doc) == SelectSeq(SubSeq(doc.codecs, 1, Min(Sharding(doc)) - 1), LAMBDA c : c.name = "transpose")
DecodedAxes(doc) ==
    FoldLeft(LAMBDA decoded, codec : [k \in DOMAIN decoded |-> decoded[codec.order[k]]],
             [k \in DOMAIN doc.shape |-> k], Transposes(doc))
(* Fault: the inner chunk shape on the axes it is written in. *)
InnerAsWritten(doc) == doc.codecs[Min(Sharding(doc))].chunk

(* The inner chunk shape, put back on the axes a read names. *)
InnerShape(doc) ==
    LET decoded == DecodedAxes(doc)
        inner   == doc.codecs[Min(Sharding(doc))].chunk
    IN  [axis \in DOMAIN doc.shape |-> inner[CHOOSE k \in DOMAIN decoded : decoded[k] = axis]]
ParseStorageLayout(doc) ==
    IF Sharding(doc) = {} THEN [chunk |-> doc.grid, shard |-> <<>>]
    ELSE [chunk |-> InnerShape(doc), shard |-> doc.grid]

(* What the copy and the document of its own must have the same. *)
RequireSameArray(copy, own) ==
    /\ copy.shape = own.shape
    /\ copy.dims = own.dims
    /\ copy.data = own.data
    /\ ParseStorageLayout(copy) = ParseStorageLayout(own)
    /\ copy.attrs = own.attrs

(* An array held to its own document, which is what its values are decoded  *)
(* with.                                                                    *)
ReadOwnArray(s, name) ==
    IF <<"own", name>> \notin s.lost /\ name \notin DOMAIN s.own THEN Failed("invalid_metadata")
    ELSE AndThen(ReadNodeBytes(s, "own", name), ParseArrayMetadata)
VerifyArray(s, path) ==
    AndThen(ReadArrayMetadata(s, path), LAMBDA copy :
        IF NormalizeNodeName(path) \notin DOMAIN s.copy THEN Got(copy)
        ELSE AndThen(ReadOwnArray(s, NormalizeNodeName(path)), LAMBDA own :
            IF RequireSameArray(copy, own) THEN Got(own) ELSE Failed("invalid_metadata")))

(* The nodes of the store, in order of name. *)
NodeNames(s) == SelectSeq(NameOrder, LAMBDA node : node \in DOMAIN (IF s.listed THEN s.copy ELSE s.own))
NodeKind(document) ==
    IF Ok(document) /\ document.doc.type \in {"group", "array"} THEN document.doc.type ELSE "unrecognised"
NodeEntry(s, node) ==
    [name |-> node, kind |-> NodeKind(ReadNodeMetadata(s, node)), array |-> ReadArrayMetadata(s, node)]
Inventory(s) == [k \in DOMAIN NodeNames(s) |-> NodeEntry(s, NodeNames(s)[k])]
InventoryFails(s) ==
    \E k \in DOMAIN NodeNames(s) : ReadNodeMetadata(s, NodeNames(s)[k]).code \notin {"ok", "invalid_metadata"}
FindNode(inventory, name) == {k \in DOMAIN inventory : inventory[k].name = name}

RealTypes == {"int8", "uint8", "int16", "uint16", "int32", "uint32", "int64", "uint64",
              "float16", "float32", "float64"}

Read(doc, values) == [code |-> "ok", doc |-> doc, values |-> values]
(* Cast: every real type is read as double, and so are booleans. *)
CastsToDouble(data) == data \in RealTypes \cup {"bool"}
ReadNumericValues(s, node, doc) ==
    IF <<"values", node>> \in s.lost \/ node \notin DOMAIN s.numbers THEN Failed("io_error")
    ELSE IF ~ CastsToDouble(doc.data) THEN Failed("unsupported_data_type")
    ELSE IF MakeNumericArray(doc, s.numbers[node]) THEN Read(doc, s.numbers[node])
    ELSE Failed("invalid_metadata")
ReadNumericArray(s, path) ==
    AndThen(VerifyArray(s, path), LAMBDA own : ReadNumericValues(s, NormalizeNodeName(path), own))

ReadLabels(doc, values) == IF Refused \in ToSet(values) THEN Failed("decode_error") ELSE Read(doc, values)
ReadStrings(s, node, doc) ==
    IF CheckFixedLengthUtf32StringArray(doc) # "ok" THEN Failed(CheckFixedLengthUtf32StringArray(doc))
    ELSE IF <<"values", node>> \in s.lost THEN Failed("io_error")
    ELSE ReadLabels(doc, ReadFixedLengthUtf32StringArray(doc, s.files[node]))
ReadStringArray1D(s, path) ==
    AndThen(VerifyArray(s, path), LAMBDA own : ReadStrings(s, NormalizeNodeName(path), own))
-----------------------------------------------------------------------------
(* The coordinates of an image dataset. *)

Coordinate(name, kind, plane) == [name |-> name, kind |-> kind, plane |-> plane]
kCoordinates ==
    <<Coordinate("l", "numeric", "sky"), Coordinate("m", "numeric", "sky"),
      Coordinate("frequency", "numeric", "both"), Coordinate("polarization", "labels", "both"),
      Coordinate("time", "numeric", "both"),
      Coordinate("u", "numeric", "aperture"), Coordinate("v", "numeric", "aperture")>>
OnPlane(plane) == SelectSeq(kCoordinates, LAMBDA c : c.plane \in {"both", plane})
CarriesPlane(doc, plane) == \A k \in DOMAIN OnPlane(plane) : HasDimension(doc, OnPlane(plane)[k].name)

IsRealDataType(data) == data \in RealTypes

(* Whether a coordinate is well formed in itself: "ok", or why not. *)
CheckCoordinate(doc, coordinate) ==
    LET typed == IF coordinate.kind = "labels" THEN IsFixedLengthUtf32(doc) ELSE IsRealDataType(doc.data)
    IN  IF doc.dims # <<coordinate.name>> THEN "invalid_metadata"
        ELSE IF ~ typed THEN "unsupported_data_type"
        ELSE IF coordinate.kind = "labels" THEN CheckFixedLengthUtf32StringArray(doc) ELSE "ok"

(* The first dimension of an image that is not the length of the coordinate *)
(* it names; a coordinate that does not read is passed over.                *)
ExtentDisagreement(s, doc) ==
    {axis \in DOMAIN doc.dims :
        LET coordinate == ReadArrayMetadata(s, <<doc.dims[axis]>>)
        IN  Ok(coordinate) /\ coordinate.doc.shape # <<doc.shape[axis]>>}

DescribeAxes(doc) ==
    [k \in DOMAIN OnPlane("sky") |->
        LET stored == Min(FindDimensionIndex(doc, OnPlane("sky")[k].name))
        IN  [name |-> OnPlane("sky")[k].name, length |-> doc.shape[stored], stored |-> stored]]

(* Every sky-plane coordinate's samples; the first that does not read fails *)
(* them all.                                                                *)
ReadCoordinate(s, coordinate) ==
    IF coordinate.kind = "labels" THEN ReadStringArray1D(s, <<coordinate.name>>)
    ELSE ReadNumericArray(s, <<coordinate.name>>)
ReadCoordinateValues(s) == [k \in DOMAIN OnPlane("sky") |-> ReadCoordinate(s, OnPlane("sky")[k])]

-----------------------------------------------------------------------------
(* The flag of an image. *)

IsFlag(doc) == doc.attrs.type = "flag"
HoldsBooleans(doc) == doc.data = "bool" \/ (doc.data = "int8" /\ doc.attrs.dtype = "bool")
RequireUsableFlag(flag, image) ==
    IF ~ IsFlag(flag) THEN "invalid_metadata"
    ELSE IF ~ HoldsBooleans(flag) THEN "unsupported_data_type"
    ELSE IF flag.dims # image.dims \/ flag.shape # image.shape THEN "invalid_metadata"
    ELSE "ok"

(* The flags of the groups whose sky is this image, and those of others.    *)
FlagsOfDataGroups(s, id) ==
    LET naming == {g \in s.groups : g.flag # <<>>}
        mine   == {g \in naming : Canonical(g.sky) = id}
    IN  [own |-> {Canonical(g.flag) : g \in mine}, others |-> {Canonical(g.flag) : g \in naming \ mine}]

Flag(name) == [code |-> "ok", name |-> name]
NoFlag == Flag(<<>>)

RequireDeclaredFlag(s, doc, spelt) ==
    AndThen(ReadArrayMetadata(s, Canonical(spelt)), LAMBDA flag :
        IF RequireUsableFlag(flag, doc) = "ok" THEN Flag(Canonical(spelt))
        ELSE Failed(RequireUsableFlag(flag, doc)))

(* What an image declares: its own attribute or, with none, its groups'. *)
Declares(s, doc, id) == IF doc.attrs.flag # <<>> THEN {doc.attrs.flag} ELSE FlagsOfDataGroups(s, id).own
OneDeclared(s, doc, declared) ==
    IF declared = {} THEN NoFlag
    ELSE IF Cardinality(declared) > 1 THEN Failed("invalid_metadata")
    ELSE RequireDeclaredFlag(s, doc, CHOOSE flag \in declared : TRUE)
DeclaredFlag(s, doc, id) == OneDeclared(s, doc, Declares(s, doc, id))

(* With none declared, the one variable that could be it, unless another    *)
(* image has it.                                                            *)
MatchingFlags(s, inventory, doc, id) ==
    {entry \in ToSet(inventory) :
        /\ entry.kind = "array" /\ Ok(entry.array)
        /\ entry.name \notin FlagsOfDataGroups(s, id).others
        /\ RequireUsableFlag(entry.array.doc, doc) = "ok"}
(* Fault: with more than one, any. *)
AnyMatching(matching) ==
    IF matching # {} THEN Flag((CHOOSE entry \in matching : TRUE).name) ELSE NoFlag

OneMatching(matching) ==
    IF Cardinality(matching) = 1 THEN Flag((CHOOSE entry \in matching : TRUE).name) ELSE NoFlag
DetermineFlag(s, inventory, doc, id) ==
    IF Declares(s, doc, id) # {} THEN DeclaredFlag(s, doc, id)
    ELSE OneMatching(MatchingFlags(s, inventory, doc, id))

-----------------------------------------------------------------------------
(* Which nodes are images, and which of those open. *)

Qualification(listed, openable, diagnostic, malformed) ==
    [listed |-> listed, openable |-> openable, diagnostic |-> diagnostic, malformed |-> malformed]
NotAnImage == Qualification(FALSE, FALSE, "none", FALSE)
Unlisted(diagnostic) == Qualification(FALSE, FALSE, diagnostic, TRUE)
Unopenable(diagnostic, malformed) == Qualification(TRUE, FALSE, diagnostic, malformed)

(* Fault: the listing does not ask for the declared flag. *)
FlagNotAskedFor(s, doc, id) == FALSE
UnusableDeclaredFlag(s, doc, id) == ~ Ok(DeclaredFlag(s, doc, id))
QualifySky(s, doc, id) ==
    IF ~ IsRealDataType(doc.data) THEN Unopenable("unsupported_data_type", FALSE)
    ELSE IF Len(doc.dims) # Len(OnPlane("sky")) THEN Unopenable("invalid_metadata", TRUE)
    ELSE IF ExtentDisagreement(s, doc) # {} THEN Unopenable("invalid_metadata", TRUE)
    ELSE IF UnusableDeclaredFlag(s, doc, id) THEN Unopenable("invalid_metadata", TRUE)
    ELSE Qualification(TRUE, TRUE, "none", FALSE)

QualifyNode(s, entry) ==
    IF entry.kind = "group" THEN NotAnImage
    ELSE IF entry.kind = "unrecognised" THEN Unlisted("unrecognised_node")
    ELSE IF ~ Ok(entry.array) THEN Unlisted("unreadable_array")
    ELSE IF IsFlag(entry.array.doc) THEN NotAnImage
    ELSE IF CarriesPlane(entry.array.doc, "sky") THEN QualifySky(s, entry.array.doc, entry.name)
    ELSE IF CarriesPlane(entry.array.doc, "aperture") THEN Unopenable("unsupported_coordinate_plane", FALSE)
    ELSE NotAnImage

(* What qualifying a node reads: its coordinates up to the one it disagrees *)
(* with, and then the flag it declares.                                     *)
FlagReads(declared) == {<<"node", Canonical(flag)>> : flag \in {f \in declared : Cardinality(declared) = 1}}
ExtentReads(doc, wrong, declared) ==
    IF wrong = {} THEN {<<"node", <<name>>>> : name \in ToSet(doc.dims)} \cup FlagReads(declared)
    ELSE {<<"node", <<doc.dims[k]>>>> : k \in 1 .. Min(wrong)}
ConsultedFor(s, doc, id) ==
    IF ~ IsFlag(doc) /\ CarriesPlane(doc, "sky") /\ IsRealDataType(doc.data) /\ Len(doc.dims) = Len(OnPlane("sky"))
    THEN ExtentReads(doc, ExtentDisagreement(s, doc), Declares(s, doc, id)) ELSE {}
Consulted(s, entry) ==
    IF entry.kind = "array" /\ Ok(entry.array) THEN ConsultedFor(s, entry.array.doc, entry.name) ELSE {}

(* The answer to opening a variable by name: "ok", or the error. *)
RequireOpenable(entry, qualified) ==
    IF qualified.openable THEN "ok"
    ELSE IF qualified.listed
    THEN IF qualified.malformed THEN "invalid_metadata" ELSE "unsupported_data_type"
    ELSE IF qualified.diagnostic # "none"
    THEN IF entry.kind = "array" THEN entry.array.code ELSE "invalid_metadata"
    ELSE "not_found"
RequireNode(s, entry) == RequireOpenable(entry, QualifyNode(s, entry))
RequireQualified(s, inventory, id) ==
    IF FindNode(inventory, id) = {} THEN "not_found"
    ELSE RequireNode(s, inventory[Min(FindNode(inventory, id))])

-----------------------------------------------------------------------------
(* An image described. *)

kKnownImages ==
    <<"SKY", "MODEL", "RESIDUAL", "POINT_SPREAD_FUNCTION", "PRIMARY_BEAM", "MASK_DECONVOLVE">>
KnownImageRank(id) ==
    LET found == SelectInSeq(kKnownImages, LAMBDA known : id = <<known>>)
    IN  IF found = 0 THEN Len(kKnownImages) + 1 ELSE found
ImageRoleOf(doc) ==
    LET declared == IF doc.attrs.type = "flag" THEN "" ELSE doc.attrs.type
    IN  IF declared = "" THEN doc.attrs.imageType ELSE declared
FindDataGroups(s, id) == {g.name : g \in {h \in s.groups : id \in {h.sky, h.flag} \cup h.others}}

BuildChunkGeometry(axes, layout) ==
    LET OnAxes(shape) == [k \in DOMAIN axes |-> shape[axes[k].stored]]
        chunk == OnAxes(layout.chunk)
    IN  [chunk |-> chunk, shard |-> IF layout.shard = <<>> THEN chunk ELSE OnAxes(layout.shard),
         grid |-> [k \in DOMAIN axes |-> (axes[k].length + chunk[k] - 1) \div chunk[k]],
         fastest |-> IF axes[2].stored > axes[1].stored THEN "m" ELSE "l"]
=============================================================================
