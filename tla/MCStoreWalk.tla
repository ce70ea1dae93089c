---------------------------- MODULE MCStoreWalk ----------------------------
(* Trees with links to their own groups, to the root, to each other and to *)
(* a directory above the store; links that cannot be resolved; directories *)
(* that may not be enumerated; arrays that cannot be sized; and locations  *)
(* that do not open.                                                       *)
EXTENDS StoreWalk

ADir(name, d) == [name |-> name, kind |-> "dir", to |-> d, bytes |-> 0]
ALink(name, d) == [name |-> name, kind |-> "link", to |-> d, bytes |-> 0]
Unresolved(name, d) == [name |-> name, kind |-> "unresolved", to |-> d, bytes |-> 0]
AFile(name, bytes) == [name |-> name, kind |-> "file", to |-> "none", bytes |-> bytes]
Odd(name, kind) == [name |-> name, kind |-> kind, to |-> "none", bytes |-> 0]

Group == [type |-> "group", parses |-> TRUE, element |-> None, shape |-> <<>>]
Array(element, shape) == [type |-> "array", parses |-> TRUE, element |-> element, shape |-> shape]
Unparsed == [type |-> "malformed", parses |-> FALSE, element |-> None, shape |-> <<>>]

Holding(doc, entries) == [access |-> "open", doc |-> doc, entries |-> entries]
Refusing(access, doc) == [access |-> access, doc |-> doc, entries |-> {AFile("hidden", 1)}]
Located(path) == [scheme |-> "none", path |-> path, is |-> "directory"]
ATree(dirs) == [root |-> "store", dirs |-> dirs @@ [d \in {"none"} |-> Holding(None, {})],
                copy |-> None, location |-> Located("store")]

ASky(entries) == Holding(Array(2, <<3, 2>>), {AFile("zarr.json", 1), AFile("c", 5)} \cup entries)

Plain == ATree(
    "store" :> Holding(Group, {AFile("zarr.json", 1), ADir("plain", "plain"), ADir("G", "g")}) @@
    "plain" :> Holding(None, {ADir("SKY", "sky"), Odd("pipe", "other")}) @@
    "sky"   :> ASky({ADir("chunks", "chunks")}) @@
    "chunks" :> Holding(Group, {AFile("0", 4)}) @@
    "g"     :> Holding(Unparsed, {AFile("zarr.json", 2)}))

(* Two links to one group, which has a link to itself and one to the root.  *)
Linked == ATree(
    "store" :> Holding(Group, {ALink("A", "g"), ALink("B", "g"), AFile("zarr.json", 1)}) @@
    "g"     :> Holding(Group, {ALink("SELF", "g"), ALink("ROOT", "store"), ADir("SKY", "sky")}) @@
    "sky"   :> ASky({}))

(* Two groups, each with a link to the other and a directory of its own. *)
Crossed == ATree(
    "store" :> Holding(Group, {ADir("P", "p"), ADir("Q", "q")}) @@
    "p"     :> Holding(Group, {ALink("q", "q"), ADir("SKY", "sky")}) @@
    "q"     :> Holding(None, {ALink("p", "p"), ADir("MASK", "mask")}) @@
    "sky"   :> ASky({}) @@
    "mask"  :> ASky({ALink("up", "q")}))

(* A link from the store to what it is in. *)
Above == ATree(
    "outer" :> Holding(None, {ADir("store", "store"), AFile("notes", 3)}) @@
    "store" :> Holding(Group, {ALink("up", "outer"), ADir("SKY", "sky")}) @@
    "sky"   :> ASky({}))

(* Links that cannot be resolved, in the root and in a group come to by     *)
(* another link, to a group that is nowhere else and to one that is.        *)
Far == ATree(
    "store" :> Holding(Group, {Unresolved("FAR", "far"), ALink("A", "g"), ADir("SKY", "sky")}) @@
    "g"     :> Holding(Group, {Unresolved("SKY", "sky"), Unresolved("UP", "store"), AFile("zarr.json", 2)}) @@
    "far"   :> Holding(Group, {AFile("zarr.json", 3)}) @@
    "sky"   :> ASky({}))

Denied(access) == ATree(
    "store" :> Holding(Group, {ADir("SKY", "sky"), ADir("locked", "locked"), ALink("L", "locked")}) @@
    "locked" :> Refusing(access, Group) @@
    "sky"   :> ASky({}))

Unsized(doc, entry) == ATree(
    "store" :> Holding(Group, {ADir("SKY", "sky"), ADir("X", "x"), entry}) @@
    "x"     :> Holding(doc, {}) @@
    "sky"   :> ASky({}))

RootOnly(access) == ATree("store" :> [Holding(Group, {AFile("zarr.json", 1)}) EXCEPT !.access = access])

MCTrees ==
    {Plain, Linked, Crossed, Above, Far, Denied("denied"), Denied("broken"),
     RootOnly("open"), RootOnly("denied"), RootOnly("broken"),
     [Denied("denied") EXCEPT !.copy = {[name |-> <<"SKY">>, doc |-> Array(2, <<3, 2>>)],
                                        [name |-> <<"G">>, doc |-> Group]}]}
    \cup {Unsized(doc, entry) :
            doc \in {Array(None, <<2>>), [Array(1, <<1>>) EXCEPT !.parses = FALSE], Array(4, <<0, 9>>),
                     Array(8, <<8, 0>>), Array(1, <<>>), Array(4, <<10>>)},
            entry \in {AFile("big", 60), AFile("gone", None), Odd("to nowhere", "dangling"), Odd("pipe", "other")}}
    \cup {[Plain EXCEPT !.location = at] :
            at \in {[scheme |-> "none", path |-> "", is |-> "missing"], [scheme |-> "s3", path |-> "store", is |-> "directory"],
                    [scheme |-> "file", path |-> "", is |-> "missing"], [scheme |-> "file", path |-> "store", is |-> "directory"],
                    [scheme |-> "none", path |-> "nowhere", is |-> "missing"],
                    [scheme |-> "none", path |-> "notes", is |-> "file"]}}
=============================================================================
