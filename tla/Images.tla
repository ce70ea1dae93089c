------------------------------- MODULE Images -------------------------------
(***************************************************************************)
(* A dataset from the location it is opened at to the images opened from   *)
(* it: OpenStore, the probe that lists the images (InspectImages), and     *)
(* Dataset::OpenImage with its table of descriptions (src/src/carta_zarr.cc*)
(* over src/src/schema).  Reads of the store may fail at any point and be  *)
(* asked again; what has been answered stands, as StoreCaches shows.       *)
(*                                                                         *)
(* A location is a record with the fields Profile gives a store, and:      *)
(*     root    what is wrong with the root's document, "ok" if nothing     *)
(*     block   its consolidated metadata, the documents with their keys    *)
(*     frail   the reads that may fail there                               *)
(*     asks    the names a caller opens                                    *)
(*     labels  for the properties: the labels written, as code points      *)
(***************************************************************************)
EXTENDS Profile

CONSTANTS
    Locations,
    MaxLost,    \* bound: reads that fail in one step
    MaxAsks     \* bound: images opened and beam tables read of one dataset

ASSUME ImagesAssumption == MaxLost \in Nat /\ MaxAsks \in Nat

VARIABLES
    store,
    phase,      \* "closed", "listing", "qualifying", "open", "probed" or "refused"
    use,        \* "dataset" or "schema": which of Open and ProbeSchema asked
    copy,       \* the consolidated documents, by node
    known,      \* the reads that have been answered
    nodes,      \* the store's Inventory, once taken
    at,         \* nodes qualified so far
    found,      \* Discovered: what they were
    answer,     \* the answer of Open or ProbeSchema
    images,     \* Dataset::Impl::image_descriptors
    said,       \* the answer of the last OpenImage or ReadBeams
    clean,      \* no read that qualifying a node asked for has failed
    asks

dataset == <<known, nodes, at, found, answer, images, said, clean, asks>>
vars == <<store, phase, use, copy, dataset>>

View(lost) ==
    [copy |-> copy, listed |-> store.listed, own |-> store.own, groups |-> store.groups,
     files |-> store.files, numbers |-> store.numbers, lost |-> lost]
Losses == {lost \in SUBSET (store.frail \ known) : Cardinality(lost) <= MaxLost}
Answered(reads, lost) == known' = known \cup (reads \ lost)

Nothing == [code |-> "none", kind |-> "none", first |-> <<>>]
NothingFound == [images |-> <<>>, diagnostics |-> <<>>, malformations |-> {}, evidence |-> FALSE]
NothingSaid == [op |-> "none", id |-> <<>>, why |-> "none", code |-> "none"]

Init ==
    /\ store \in Locations
    /\ phase = "closed" /\ use = "dataset" /\ copy = <<>>
    /\ known = {} /\ nodes = <<>> /\ at = 0 /\ found = NothingFound /\ answer = Nothing
    /\ images = <<>> /\ said = NothingSaid /\ clean = TRUE /\ asks = 0

-----------------------------------------------------------------------------
(* Opening the store. *)

RootRefusal ==
    [absent |-> "not_zarr", unreadable |-> "io_error", garbage |-> "invalid_metadata",
     list |-> "invalid_metadata", formatless |-> "invalid_metadata", version2 |-> "unsupported_zarr_version",
     array |-> "not_zarr", block |-> "invalid_metadata"]

Refuse(code) ==
    /\ phase' = "refused" /\ answer' = [Nothing EXCEPT !.code = code]
    /\ UNCHANGED <<store, copy, known, nodes, at, found, images, said, clean, asks>>

OpenStore ==
    \/ store.root # "ok" /\ Refuse(RootRefusal[store.root])
    \/ store.root = "ok" /\ CollectRefuses(store.block) /\ Refuse("invalid_metadata")
    \/ /\ store.root = "ok" /\ ~ CollectRefuses(store.block)
       /\ phase' = "listing" /\ copy' = CollectConsolidatedMetadata(store.block)
       /\ UNCHANGED <<store, dataset>>

OpenDataset == phase = "closed" /\ use' = "dataset" /\ OpenStore
ProbeSchema == phase = "closed" /\ use' = "schema" /\ OpenStore
(* A schema the library has no profile for is refused before the store is touched. *)
ProbeUnknownSchema == phase = "closed" /\ use' = "schema" /\ Refuse("unsupported_schema")

-----------------------------------------------------------------------------
(* The probe: the listing, a node at a time, and what follows from it. *)

TakeInventory(lost) ==
    /\ phase = "listing"
    /\ IF InventoryFails(View(lost)) THEN Refuse("io_error") /\ UNCHANGED use
       ELSE /\ phase' = "qualifying"
            /\ nodes' = Inventory(View(lost))
            /\ Answered({<<"node", entry.name>> : entry \in ToSet(nodes')}, lost)
            /\ UNCHANGED <<store, use, copy, at, found, answer, images, said, clean, asks>>

ImageEntry(entry, qualified) ==
    [id |-> entry.name, openable |-> qualified.openable, role |-> ImageRoleOf(entry.array.doc),
     axes |-> IF qualified.openable THEN DescribeAxes(entry.array.doc) ELSE <<>>]

Discover(entry, qualified) ==
    [images |-> IF qualified.listed THEN Append(found.images, ImageEntry(entry, qualified)) ELSE found.images,
     diagnostics |-> IF qualified.diagnostic = "none" THEN found.diagnostics
                     ELSE Append(found.diagnostics, entry.name),
     malformations |-> found.malformations
                        \cup {k \in {Len(found.diagnostics) + 1} : qualified.malformed},
     evidence |-> found.evidence \/ qualified.listed \/ KnownImageRank(entry.name) <= Len(kKnownImages)]

QualifyNext(lost) ==
    /\ phase = "qualifying" /\ at < Len(nodes)
    /\ at' = at + 1
    /\ found' = Discover(nodes[at'], QualifyNode(View(lost), nodes[at']))
    /\ \E reads \in {Consulted(View(lost), nodes[at'])} :
        Answered(reads, lost) /\ clean' = (clean /\ reads \cap lost = {})
    /\ UNCHANGED <<store, phase, use, copy, nodes, answer, images, said, asks>>

(* Known images first, in the profile's order, then by name. *)
Before(a, b) ==
    \/ KnownImageRank(a.id) < KnownImageRank(b.id)
    \/ /\ KnownImageRank(a.id) = KnownImageRank(b.id)
       /\ SelectInSeq(NameOrder, LAMBDA n : n = a.id) < SelectInSeq(NameOrder, LAMBDA n : n = b.id)
Sorted(entries) == SortSeq(entries, Before)
Openable(entries) == SelectSeq(Sorted(entries), LAMBDA image : image.openable)

(* Fault: the order nodes were met in. *)
FirstAsMet == IF found.diagnostics = <<>> THEN <<>> ELSE found.diagnostics[1]

(* A refusal is reported by its first diagnostic: a malformation, if it was *)
(* one that closed the store.                                               *)
FirstSaid ==
    IF found.diagnostics = <<>> THEN <<>>
    ELSE found.diagnostics[IF found.malformations = {} THEN 1 ELSE Min(found.malformations)]

(* A coordinate that is there, and is one, is met; one that could not be    *)
(* read is neither.                                                         *)
CoordinateMet(document, array, coordinate) ==
    IF document.code = "not_found" THEN "unmet"
    ELSE IF ~ Ok(document) THEN document.code
    ELSE IF Ok(array) /\ CheckCoordinate(array.doc, coordinate) = "ok" THEN "met" ELSE "unmet"
UpToUnmet(met) ==
    LET wrong == {k \in DOMAIN met : met[k] # "met"}
    IN  IF wrong = {} THEN [upTo |-> Len(met), met |-> "met"] ELSE [upTo |-> Min(wrong), met |-> met[Min(wrong)]]
RequireCoordinate(s, coordinate) ==
    CoordinateMet(ReadNodeMetadata(s, <<coordinate.name>>), ReadArrayMetadata(s, <<coordinate.name>>), coordinate)
RequirePresentCoordinates(s) ==
    UpToUnmet([k \in DOMAIN OnPlane("sky") |-> RequireCoordinate(s, OnPlane("sky")[k])])

MatchWithoutImages ==
    IF found.malformations # {} /\ (found.evidence \/ store.type = "image_dataset") THEN "invalid" ELSE "no_match"
MatchWithImages(met) ==
    IF met \notin {"met", "unmet"} THEN met
    ELSE IF met = "met" /\ store.system THEN "match" ELSE "invalid"

(* With an image to open, the first diagnostic is discovery's own, and only *)
(* when it said nothing the coordinate that was not met.                    *)
FirstWithImages(present) ==
    LET unmet == IF present.met = "unmet" THEN << <<OnPlane("sky")[present.upTo].name>> >> ELSE <<>>
        all   == found.diagnostics \o unmet
    IN  IF all = <<>> THEN <<>> ELSE all[1]

RefusalCode == [match |-> "ok", invalid |-> "invalid_metadata", no_match |-> "unsupported_schema"]

Conclude(kind, first) ==
    /\ phase' = IF kind \notin DOMAIN RefusalCode THEN "refused"
                ELSE IF use = "schema" THEN "probed"
                ELSE IF kind = "match" THEN "open" ELSE "refused"
    /\ answer' = [code |-> IF kind \in DOMAIN RefusalCode THEN RefusalCode[kind] ELSE kind,
                  kind |-> kind, first |-> first]

Decide(lost) ==
    /\ phase = "qualifying" /\ at = Len(nodes)
    /\ IF Openable(found.images) = <<>>
       THEN Conclude(MatchWithoutImages, FirstSaid) /\ UNCHANGED known
       ELSE \E present \in {RequirePresentCoordinates(View(lost))} :
            /\ Conclude(MatchWithImages(present.met), FirstWithImages(present))
            /\ Answered({<<"node", <<OnPlane("sky")[k].name>>>> : k \in 1 .. present.upTo}, lost)
    /\ UNCHANGED <<store, use, copy, nodes, at, found, images, said, clean, asks>>
-----------------------------------------------------------------------------
(* Opening an image. *)

SkyCoordinates == OnPlane("sky")
AxisOf(name) == SelectInSeq(SkyCoordinates, LAMBDA c : c.name = name)

SpectralReference(s, values) ==
    LET reference == ReadNodeMetadata(s, <<"frequency">>).doc.attrs.reference
    IN  IF reference = <<>> THEN values[1] ELSE reference[1]
DescribeSpectral(s, values) == IF values = <<>> THEN NoFit ELSE FitSpectralAxis(values, SpectralReference(s, values))

DescribeImageFrom(s, id, doc, flag, values) ==
    LET axes == DescribeAxes(doc)
        Samples(name) == values[AxisOf(name)].values
    IN  [axes |-> axes, role |-> ImageRoleOf(doc), groups |-> FindDataGroups(s, id), mask |-> flag,
         ambiguous |-> Cardinality(MatchingFlags(s, nodes, doc, id)) > 1 /\ flag = <<>>,
         l |-> FitDirectionAxis(Samples("l")), m |-> FitDirectionAxis(Samples("m")),
         spectral |-> DescribeSpectral(s, Samples("frequency")),
         labels |-> Samples("polarization"), times |-> Samples("time"),
         geometry |-> BuildChunkGeometry(axes, ParseStorageLayout(doc)),
         flagGeometry |-> IF flag = <<>> THEN <<>>
                          ELSE <<BuildChunkGeometry(axes, ParseStorageLayout(VerifyArray(s, flag).doc))>>]

(* How far describing an image gets, with the error it stops at: the image  *)
(* is qualified, held to its own document, its coordinates read (as many as *)
(* read says), its flag found and held to its own document.  The image is   *)
(* qualified again before its flag is looked for, with the same answer: a   *)
(* read fails throughout a call here or not at all.                         *)
Stopped(why, code, read, mask) == [why |-> why, code |-> code, read |-> read, mask |-> mask]
WithFlag(s, id, doc, values, flag) ==
    IF ~ Ok(flag) THEN Stopped("flag", flag.code, Len(values), <<>>)
    ELSE IF flag.name # <<>> /\ ~ Ok(VerifyArray(s, flag.name))
    THEN Stopped("unverified flag", VerifyArray(s, flag.name).code, Len(values), flag.name)
    ELSE [why |-> "opened", code |-> "ok", read |-> Len(values), mask |-> flag.name,
          image |-> DescribeImageFrom(s, id, doc, flag.name, values)]
WithValues(s, id, doc, values, failed) ==
    IF failed # {} THEN Stopped("values", values[Min(failed)].code, Min(failed), <<>>)
    ELSE WithFlag(s, id, doc, values, DetermineFlag(s, nodes, doc, id))
Coordinated(s, id, doc, values) == WithValues(s, id, doc, values, {k \in DOMAIN values : ~ Ok(values[k])})
Held(s, id, verified) ==
    IF Ok(verified) THEN Coordinated(s, id, ReadArrayMetadata(s, id).doc, ReadCoordinateValues(s))
    ELSE Stopped("unverified", verified.code, 0, <<>>)
Qualified(s, id, qualified) ==
    IF qualified = "ok" THEN Held(s, id, VerifyArray(s, id)) ELSE Stopped("unqualified", qualified, 0, <<>>)
DescribeImage(s, id) == Qualified(s, id, RequireQualified(s, nodes, id))

(* What it has read by then. *)
VerifyReads(node) == {<<"node", node>>, <<"own", node>>}
ValueReads(s, node) ==
    {<<"own", node>>} \cup (IF Ok(VerifyArray(s, node)) THEN {<<"values", node>>} ELSE {})
DescribeReads(s, id, described) ==
    UNION {Consulted(s, nodes[k]) : k \in FindNode(nodes, id)}
    \cup (IF described.why = "unqualified" THEN {} ELSE VerifyReads(id))
    \cup UNION {ValueReads(s, <<SkyCoordinates[k].name>>) : k \in 1 .. described.read}
    \cup VerifyReads(described.mask)

(* The dataset's mutex is held throughout; a description that succeeded is  *)
(* kept, under the name asked for.                                          *)
OpenImage(id, lost) ==
    /\ phase = "open" /\ asks < MaxAsks
    /\ asks' = asks + 1
    /\ IF id \in DOMAIN images
       THEN /\ said' = [op |-> "open", id |-> id, why |-> "opened", code |-> "ok"]
            /\ UNCHANGED <<images, known>>
       ELSE \E described \in {DescribeImage(View(lost), id)} :
            /\ said' = [op |-> "open", id |-> id, why |-> described.why, code |-> described.code]
            /\ images' = IF described.why = "opened" THEN images @@ (id :> described.image) ELSE images
            /\ Answered(DescribeReads(View(lost), id, described), lost)
    /\ UNCHANGED <<store, phase, use, copy, nodes, at, found, answer, clean>>

(* The beams of an opened image; none is the answer for one that names none.*)
BeamAnswer(code, beams) == [code |-> code, beams |-> beams]
BeamsBy(table, labels) ==
    IF ~ Ok(table) THEN BeamAnswer(table.code, <<>>)
    ELSE IF ~ Ok(labels) THEN BeamAnswer(labels.code, <<>>)
    ELSE IF ~ BeamTableUsable(table.doc, labels.values) THEN BeamAnswer("invalid_metadata", <<>>)
    ELSE BeamAnswer("ok", DescribeBeams(table.doc, table.values, labels.values))
Beams(s, named) ==
    IF named = <<>> THEN BeamAnswer("ok", <<>>)
    ELSE BeamsBy(ReadNumericArray(s, named), ReadStringArray1D(s, <<"beam_params_label">>))
BeamReads(s, named) ==
    IF named = <<>> THEN {}
    ELSE {<<"node", named>>} \cup ValueReads(s, named)
         \cup (IF ~ Ok(ReadNumericArray(s, named)) THEN {}
               ELSE {<<"node", <<"beam_params_label">>>>} \cup ValueReads(s, <<"beam_params_label">>))

ReadBeams(id, lost) ==
    /\ phase = "open" /\ asks < MaxAsks /\ id \in DOMAIN images
    /\ asks' = asks + 1
    /\ \E named \in {ReadNodeMetadata(View(lost), id).doc.attrs.beams} : \E read \in {Beams(View(lost), named)} :
        /\ said' = [op |-> "beams", id |-> id, why |-> "beams", code |-> read.code, beams |-> read.beams]
        /\ Answered(BeamReads(View(lost), NormalizeNodeName(named)), lost)
    /\ UNCHANGED <<store, phase, use, copy, nodes, at, found, answer, images, clean>>

(* The dataset is let go, and what it had read with it. *)
Close ==
    /\ phase \in {"open", "probed", "refused"}
    /\ phase' = "closed" /\ copy' = <<>> /\ UNCHANGED <<store, use>>
    /\ known' = {} /\ nodes' = <<>> /\ at' = 0 /\ found' = NothingFound /\ answer' = Nothing
    /\ images' = <<>> /\ said' = NothingSaid /\ clean' = TRUE /\ asks' = 0

Next ==
    \/ OpenDataset \/ ProbeSchema \/ ProbeUnknownSchema \/ Close
    \/ \E lost \in Losses : TakeInventory(lost) \/ QualifyNext(lost) \/ Decide(lost)
    \/ \E id \in store.asks, lost \in Losses : OpenImage(id, lost) \/ ReadBeams(id, lost)

Spec == Init /\ [][Next]_vars
-----------------------------------------------------------------------------
(* Properties. *)

Named(path) == NormalizeNodeName(path)
Opened == DOMAIN images

(* What the listing offers and what opens are the same set: an image listed *)
(* openable is refused only because its own documents or its values could   *)
(* not be had or disagree, never by the rules the listing already applied,  *)
(* and it opens with the axes and the role it was listed with; everything   *)
(* else is refused by those rules.  All this of a listing none of whose     *)
(* reads failed: one that could not be made leaves its node out, and the    *)
(* node may open when it is asked for later (qualification.cc, flag.cc,     *)
(* image.cc).                                                               *)
ListedOpens ==
    said.op = "open" /\ clean =>
        LET listed == {image \in ToSet(found.images) : image.id = said.id /\ image.openable}
        IN  IF listed = {} THEN said.why = "unqualified"
            ELSE /\ said.why \notin {"unqualified", "flag"}
                 /\ said.why = "opened" => \A image \in listed :
                        /\ image.axes = images[said.id].axes
                        /\ image.role = images[said.id].role

(* The mask of an opened image is the flag it declares, itself or through a *)
(* data group, however spelled; with none declared it is the one flag of    *)
(* the image's shape that no group gives to another image, if there is one; *)
(* and it is a flag of the image's dimensions by its own document (flag.cc).*)
FlagRight ==
    \A id \in Opened :
        LET mask   == images[id].mask
            claims == IF store.own[id].attrs.flag # <<>> THEN {store.own[id].attrs.flag}
                      ELSE {g.flag : g \in {h \in store.groups : h.flag # <<>> /\ Named(h.sky) = id}}
            taken  == {Named(g.flag) : g \in {h \in store.groups : h.flag # <<>>}}
            Fits(doc) == doc.attrs.type = "flag" /\ doc.dims = store.own[id].dims
                            /\ doc.shape = store.own[id].shape /\ HoldsBooleans(doc)
            free   == {entry \in ToSet(nodes) : /\ entry.kind = "array" /\ Ok(entry.array)
                                                /\ entry.name \notin taken /\ Fits(entry.array.doc)}
        IN  /\ IF claims # {} THEN {Named(path) : path \in claims} = {mask}
               ELSE IF mask = <<>> THEN Cardinality(free) # 1 ELSE {entry.name : entry \in free} = {mask}
            /\ mask # <<>> => Fits(store.own[mask])

(* An opened image is described as its own document has it, whatever copy   *)
(* it was listed from: every axis where the document has it, as long as it  *)
(* and as the samples of its coordinate, and two elements along an axis in  *)
(* one chunk of the geometry just when the codecs put them in one chunk     *)
(* (store.cc VerifyArray, coordinates.cc, array_metadata.cc).               *)
EncodedAt(doc, place) ==
    FoldLeft(LAMBDA p, codec : [k \in DOMAIN p |-> p[codec.order[k]]], place, Transposes(doc))
InOneChunk(doc, p, q) ==
    LET Within(place) == EncodedAt(doc, [k \in DOMAIN place |-> place[k] % doc.grid[k]])
        inner == doc.codecs[Min(Sharding(doc))].chunk
    IN  /\ \A k \in DOMAIN p : p[k] \div doc.grid[k] = q[k] \div doc.grid[k]
        /\ Sharding(doc) # {} =>
            \A k \in DOMAIN p : Within(p)[k] \div inner[k] = Within(q)[k] \div inner[k]
Samples(image, name) ==
    IF name = "polarization" THEN image.labels
    ELSE IF name = "time" THEN image.times ELSE store.numbers[<<name>>]
OpenedAgrees ==
    \A id \in Opened :
        LET own   == store.own[id]
            Along(axis, n) == [k \in DOMAIN own.shape |-> IF k = axis THEN n ELSE 0]
        IN  \A k \in 1 .. Len(own.dims) :
                LET axis  == images[id].axes[k]
                    chunk == images[id].geometry.chunk[k]
                IN  /\ own.dims[axis.stored] = axis.name
                    /\ own.shape[axis.stored] = axis.length
                    /\ Len(Samples(images[id], axis.name)) = axis.length
                    /\ \A p, q \in 0 .. axis.length - 1 :
                            p \div chunk = q \div chunk
                                <=> InOneChunk(own, Along(axis.stored, p), Along(axis.stored, q))

(* A store nothing opens in is called broken just when a node of it is and  *)
(* something says it is of images, and the node it is reported by is one    *)
(* that is broken (image.cc, InspectImages).                                *)
RefusalSays ==
    answer.kind \in {"invalid", "no_match"} /\ Openable(found.images) = <<>> =>
        LET IsImage(entry, plane) == entry.kind = "array" /\ Ok(entry.array)
                                        /\ ~ IsFlag(entry.array.doc) /\ CarriesPlane(entry.array.doc, plane)
            broken == {entry \in ToSet(nodes) :
                          \/ entry.kind = "unrecognised"
                          \/ entry.kind = "array" /\ ~ Ok(entry.array)
                          \/ IsImage(entry, "sky") /\ IsRealDataType(entry.array.doc.data)}
            imagelike == \/ store.type = "image_dataset"
                         \/ \E entry \in ToSet(nodes) :
                                \/ IsImage(entry, "sky") \/ IsImage(entry, "aperture")
                                \/ \E k \in DOMAIN kKnownImages : entry.name = <<kKnownImages[k]>>
        IN  /\ answer.kind = "invalid" <=> broken # {} /\ imagelike
            /\ answer.kind = "invalid" => answer.first \in {entry.name : entry \in broken}

(* UTF-8 read back, a lead byte and the bytes that continue it at a time.   *)
CodePoints(bytes) ==
    LET leads == SelectSeq([k \in DOMAIN bytes |-> k], LAMBDA k : bytes[k] \notin 128 .. 191)
        Bits(byte) == IF byte < 128 THEN byte ELSE IF byte < 224 THEN byte - 192
                      ELSE IF byte < 240 THEN byte - 224 ELSE byte - 240
        Past(n) == IF n = Len(leads) THEN Len(bytes) + 1 ELSE leads[n + 1]
    IN  [n \in DOMAIN leads |->
            FoldLeft(LAMBDA code, byte : code * 64 + (byte - 128), Bits(bytes[leads[n]]),
                     SubSeq(bytes, leads[n] + 1, Past(n) - 1))]

(* A linear description reproduces every sample of the axis it is given     *)
(* for, unless it says it is an approximation (linear_axis.cc).             *)
Reproduces(fit, values) ==
    fit.pixel # <<>> /\ "nonuniform_axis" \notin ToSet(fit.diagnostics) =>
        \A k \in DOMAIN values :
            (k * fit.pixel[2] - fit.pixel[1]) * fit.increment[1] = (values[k] - fit.value[1]) * fit.pixel[2]

(* The labels of an opened image are the ones written, from whatever codecs *)
(* wrapped the chunks they are in; a chunk that is not what was written     *)
(* gives none, and only that is refused as undecodable.  The axes it is     *)
(* described with reproduce the ones written.  The beam of a plane has its  *)
(* parameters from the places of the table that the labels and the plane    *)
(* name, whatever order the table is in (string_array.cc, linear_axis.cc,   *)
(* beam_table.cc).                                                          *)
ValuesExact ==
    /\ \A id \in Opened :
        /\ [k \in DOMAIN images[id].labels |-> CodePoints(images[id].labels[k])]
               = store.labels[<<"polarization">>]
        /\ Reproduces(images[id].l, store.numbers[<<"l">>])
        /\ Reproduces(images[id].m, store.numbers[<<"m">>])
        /\ Reproduces(images[id].spectral, store.numbers[<<"frequency">>])
    /\ said.why = "values" /\ said.code = "decode_error" => store.labels[<<"polarization">>] = <<>>
    /\ said.op = "beams" /\ said.code = "ok" =>
        \A place \in DOMAIN said.beams, parameter \in BeamParameters :
            LET value == said.beams[place][parameter]
            IN  /\ value.frequency = place.channel /\ value.polarization = place.polarization
                /\ value.time = place.time
                /\ Upper(store.labels[<<"beam_params_label">>][value.beam_params_label + 1])
                        = Spelling[parameter]
=============================================================================
