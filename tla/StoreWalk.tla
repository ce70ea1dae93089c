----------------------------- MODULE StoreWalk -----------------------------
(***************************************************************************)
(* A store where it lives, a directory tree with links: opening it,        *)
(* listing its nodes and measuring it (src/src/zarr/transport.cc), and the *)
(* size of a dataset, measured or declared (src/src/dataset_size.cc and    *)
(* Dataset::Size of src/src/carta_zarr.cc).                                *)
(*                                                                         *)
(* A directory stands for its real path.  It has entries: directories,     *)
(* links to directories, some of which the filesystem will not give the    *)
(* real path of, files of some bytes, and what is neither; what its        *)
(* zarr.json says; and whether it lets itself be enumerated.               *)
(***************************************************************************)
EXTENDS ChunkBlocks, SequencesExt

CONSTANTS
    Trees,          \* filesystems, with the locations asked for in them
    None,
    Timeouts,       \* milliseconds a caller allows for measuring
    Starts,         \* what the clock may say when it is asked
    MaxClock,       \* time_point::max
    TicksPerMs,
    MaxBytes,       \* the largest std::uint64_t
    MaxSizes        \* bound: sizes asked for

ASSUME StoreWalkAssumption ==
    /\ MaxClock \in Nat /\ Starts \subseteq 0 .. MaxClock /\ Timeouts \subseteq Nat
    /\ TicksPerMs \in Nat \ {0} /\ MaxBytes \in Nat /\ MaxSizes \in Nat
    /\ None # "cancelled"

(* A directory has one entry of a name, of a kind the walk tells apart, and *)
(* what an entry leads to is there.                                         *)
ASSUME TreesAssumption ==
    \A t \in Trees :
      /\ t.root \in DOMAIN t.dirs
      /\ \A d \in DOMAIN t.dirs : \A e \in t.dirs[d].entries :
           /\ e.name \in STRING /\ e.to \in DOMAIN t.dirs
           /\ e.kind \in {"dir", "link", "unresolved", "file", "dangling", "other"}
           /\ e.bytes \in Nat \cup {None}
           /\ \A f \in t.dirs[d].entries : e.name = f.name => e = f

VARIABLES
    tree,
    pc,         \* "closed", "listing", "open", "measuring" or "refused"
    stack,      \* the directories the iterator is inside: what is left of each
    ancestors,  \* LinkedWalk::_ancestors: the real path of each, and of the last entered
    inventory,  \* names of the nodes, with what their documents say
    clock, asked, deadline,
    total,      \* bytes of the files the walk has come by
    given,      \* the latest answer of Size
    sizes,      \* how many there were
    \* for the properties
    links,      \* the links the walk came through, to where it is
    named,      \* the ways the listing has come by
    counted     \* the ways the latest measuring has

walk == <<stack, ancestors, links, total>>
vars == <<tree, pc, walk, inventory, clock, asked, deadline, given, sizes, named, counted>>

Dir(d) == tree.dirs[d]
Depth == Len(stack) - 1

-----------------------------------------------------------------------------
(* The iterator. *)

Left(frames) == {k \in DOMAIN frames : frames[k].left # {}}
Incremented(frames) == SubSeq(frames, 1, IF Left(frames) = {} THEN 0 ELSE Max(Left(frames)))
Inside(d, name) == [dir |-> d, name |-> name, left |-> Dir(d).entries]

IsDirectory(e) == e.kind \in {"dir", "link", "unresolved"}
(* What canonical says of a link to a directory: a path, or an error. *)
Resolves(e) == e.kind # "unresolved"
Taken(e) == [stack EXCEPT ![Len(stack)].left = @ \ {e}]

(* Faults, for checking that the properties notice them. *)
AncestorsAsTheyWere == ancestors
WaitFrom(now, timeout) ==
    LET wrapped == (now + timeout * TicksPerMs) % (2 * (MaxClock + 1))
    IN  IF wrapped > MaxClock THEN wrapped - 2 * (MaxClock + 1) ELSE wrapped

(* LinkedWalk::Enter: the ancestors cut back to the entry's depth, a link   *)
(* compared with them, and one that cannot be resolved not taken.           *)
Ancestors == SubSeq(ancestors, 1, Depth + 1)
EnterUnlessItself(e) == Resolves(e) /\ (e.kind = "link" => e.to # Last(Ancestors))
Enter(e) == Resolves(e) /\ (e.kind = "link" => e.to \notin ToSet(Ancestors))
EnteredFrom(e) ==
    /\ ancestors' = IF Enter(e) THEN Append(Ancestors, e.to) ELSE Ancestors
    /\ links' = IF Enter(e)
                THEN Append(SubSeq(links, 1, Depth), IF e.kind = "link" THEN <<Last(stack).dir, e.name>> ELSE None)
                ELSE links

(* A fault: a size passes over it too. *)
RecursedIfAllowed(e) ==
    CASE Dir(e.to).access = "open" -> "entered"
      [] Dir(e.to).access = "denied" -> "skipped"
      [] OTHER -> "failed"

(* What increment does about a directory whose enumeration is refused: a    *)
(* listing passes over one it has no permission for, a size does not.       *)
Recursed(e) ==
    CASE Dir(e.to).access = "open" -> "entered"
      [] Dir(e.to).access = "denied" /\ pc = "listing" -> "skipped"
      [] OTHER -> "failed"

BeginWalk(d) ==
    /\ stack' = Incremented(<<Inside(d, <<>>)>>)
    /\ ancestors' = <<d>>
    /\ links' = <<>>
    /\ total' = 0

(* A way to a directory: a name and the directories along it. *)
RootWay == [name |-> <<>>, dirs |-> <<tree.root>>]
WayTo(e) == [name |-> Append(Last(stack).name, e.name), dirs |-> Append(Ancestors, e.to)]

EndWalk == stack' = <<>> /\ ancestors' = <<>> /\ links' = <<>>

-----------------------------------------------------------------------------
(* OpenFilesystemTransport of a location, resolved once; and an inventory   *)
(* that is the root's consolidated copy when there is one.                  *)
NormalizeLocation(at) ==
    IF at.path = "" \/ at.scheme \notin {"none", "file"} THEN None ELSE at.path
Opens(at) == NormalizeLocation(at) # None /\ at.is = "directory"

Open ==
    /\ pc = "closed"
    /\ IF ~ Opens(tree.location)
       THEN pc' = "refused" /\ UNCHANGED <<walk, inventory, named>>
       ELSE IF tree.copy # None
       THEN pc' = "open" /\ inventory' = tree.copy /\ UNCHANGED <<walk, named>>
       ELSE /\ IF Dir(tree.root).access = "open" THEN BeginWalk(tree.root) /\ pc' = "listing"
               ELSE UNCHANGED walk /\ pc' = IF Dir(tree.root).access = "denied" THEN "open" ELSE "refused"
            /\ inventory' = {} /\ named' = {RootWay}
    /\ UNCHANGED <<tree, clock, asked, deadline, given, sizes, counted>>

(* ListNodes at one entry.  A directory with a document is a node, and an   *)
(* array's chunks are not looked into.                                      *)
ListEntry(e) ==
    LET name == WayTo(e).name
        doc  == Dir(e.to).doc
        listed == IsDirectory(e) /\ Enter(e)
        recursion == IF ~ listed \/ (doc # None /\ doc.type = "array") THEN "skipped" ELSE Recursed(e)
    IN  /\ pc = "listing"
        /\ IF IsDirectory(e) THEN EnteredFrom(e) ELSE UNCHANGED <<ancestors, links>>
        /\ named' = IF listed THEN named \cup {WayTo(e)} ELSE named
        /\ inventory' = IF listed /\ doc # None THEN inventory \cup {[name |-> name, doc |-> doc]} ELSE inventory
        /\ stack' = IF recursion = "failed" THEN <<>>
                    ELSE Incremented(IF recursion = "entered" THEN Append(Taken(e), Inside(e.to, name)) ELSE Taken(e))
        /\ pc' = IF recursion = "failed" THEN "refused" ELSE pc
        /\ UNCHANGED <<tree, total, clock, asked, deadline, given, sizes, counted>>

Listed ==
    /\ pc = "listing" /\ stack = <<>>
    /\ pc' = "open"
    /\ EndWalk
    /\ UNCHANGED <<tree, inventory, total, clock, asked, deadline, given, sizes, named, counted>>

-----------------------------------------------------------------------------
(* Dataset::Size. *)

(* A timeout too far off for the clock is none at all. *)
DeadlineFor(now, timeout) ==
    IF timeout >= (MaxClock - now) \div TicksPerMs THEN MaxClock ELSE now + timeout * TicksPerMs

(* An array's bytes by its document, or None when they do not fit. *)
ArrayBytes(doc) ==
    LET times(bytes, n) ==
          IF bytes = None \/ bytes = 0 THEN bytes
          ELSE IF n = 0 THEN 0
          ELSE IF bytes > MaxBytes \div n THEN None ELSE bytes * n
    IN  FoldLeft(times, doc.element, doc.shape)
Arrays == {entry \in inventory : entry.doc.type = "array"}
Sizeable(doc) == doc.parses /\ doc.element # None /\ ArrayBytes(doc) # None
DeclaredTotal == MapThenSumSet(LAMBDA entry : ArrayBytes(entry.doc), Arrays)
Declares == Arrays # {} /\ (\A entry \in Arrays : Sizeable(entry.doc)) /\ DeclaredTotal <= MaxBytes

Measured(bytes) == [basis |-> "measured", bytes |-> bytes, cut |-> None]
Declared(cut) ==
    IF Declares THEN [basis |-> "declared", bytes |-> DeclaredTotal, cut |-> cut]
    ELSE [basis |-> "error", bytes |-> 0, cut |-> cut]

(* DatasetSizeBytes: whatever kept the store from being measured. *)
FallBack(cut) ==
    /\ given' = Declared(cut)
    /\ pc' = "open"
    /\ EndWalk
    /\ UNCHANGED <<total, counted>>

Size(timeout) ==
    /\ pc = "open" /\ sizes < MaxSizes
    /\ sizes' = sizes + 1
    /\ asked' = [at |-> clock, timeout |-> timeout]
    /\ deadline' = DeadlineFor(clock, timeout)
    /\ IF Dir(tree.root).access # "open" THEN FallBack("unreadable")
       ELSE pc' = "measuring" /\ BeginWalk(tree.root) /\ given' = None /\ counted' = {RootWay}
    /\ UNCHANGED <<tree, inventory, clock, named>>

(* StoredSizeBytes at one entry.  What Enter says is not looked at: where   *)
(* it says no, the iterator does not go in and the walk goes on.            *)
Expired ==
    /\ pc = "measuring" /\ stack # <<>> /\ clock >= deadline
    /\ FallBack("cancelled")
    /\ UNCHANGED <<tree, inventory, clock, asked, deadline, sizes, named>>

MeasureDirectory(e) ==
    LET recursion == IF Enter(e) THEN Recursed(e) ELSE "skipped"
    IN  IF recursion = "failed" THEN FallBack("unreadable")
        ELSE /\ EnteredFrom(e)
             /\ stack' = Incremented(IF recursion = "entered" THEN Append(Taken(e), Inside(e.to, WayTo(e).name))
                                     ELSE Taken(e))
             /\ counted' = IF recursion = "entered" THEN counted \cup {WayTo(e)} ELSE counted
             /\ UNCHANGED <<total, given, pc>>

MeasureFile(e) ==
    IF e.bytes = None \/ e.bytes > MaxBytes - total THEN FallBack("unreadable")
    ELSE /\ total' = total + e.bytes
         /\ stack' = Incremented(Taken(e))
         /\ UNCHANGED <<ancestors, links, given, pc, counted>>

MeasureEntry(e) ==
    /\ pc = "measuring" /\ clock < deadline
    /\ CASE IsDirectory(e)      -> MeasureDirectory(e)
         [] e.kind = "file"     -> MeasureFile(e)
         [] e.kind = "dangling" -> FallBack("unreadable")
         [] e.kind = "other"    ->
              stack' = Incremented(Taken(e)) /\ UNCHANGED <<ancestors, links, total, given, pc, counted>>
    /\ UNCHANGED <<tree, inventory, clock, asked, deadline, sizes, named>>

SizeMeasured ==
    /\ pc = "measuring" /\ stack = <<>>
    /\ given' = Measured(total)
    /\ pc' = "open"
    /\ EndWalk
    /\ UNCHANGED <<tree, inventory, total, clock, asked, deadline, sizes, named, counted>>

-----------------------------------------------------------------------------
Tick ==
    /\ pc = "measuring" /\ clock < MaxClock
    /\ clock' = clock + 1
    /\ UNCHANGED <<tree, pc, walk, inventory, asked, deadline, given, sizes, named, counted>>

Ended == (pc = "refused" \/ (pc = "open" /\ sizes = MaxSizes)) /\ UNCHANGED vars

Init ==
    /\ tree \in Trees
    /\ pc = "closed" /\ inventory = {}
    /\ stack = <<>> /\ ancestors = <<>> /\ links = <<>> /\ total = 0
    /\ clock \in Starts /\ asked = None /\ deadline = 0 /\ given = None /\ sizes = 0
    /\ named = {} /\ counted = {}

Here == IF stack = <<>> THEN {} ELSE Last(stack).left
Next ==
    \/ Open \/ (\E e \in Here : ListEntry(e)) \/ Listed
    \/ (\E timeout \in Timeouts : Size(timeout)) \/ Expired \/ (\E e \in Here : MeasureEntry(e)) \/ SizeMeasured
    \/ Tick \/ Ended

Spec == Init /\ [][Next]_vars

-----------------------------------------------------------------------------
(* The directories that can be come to from the root, through directories   *)
(* that are looked into and links that can be resolved: the smallest set    *)
(* that is closed.                                                          *)
Ways(d) == {e \in Dir(d).entries : IsDirectory(e) /\ Resolves(e)}
Closed(ds, looked) == \A d \in ds \cap looked : \A e \in Ways(d) : e.to \in ds
Reachable(looked) ==
    {d \in DOMAIN tree.dirs :
       \A ds \in SUBSET DOMAIN tree.dirs : tree.root \in ds /\ Closed(ds, looked) => d \in ds}

(* The ways on from one: by its directories, and by its links but those     *)
(* that lead to a directory along it or cannot be resolved.                 *)
At(w) == Last(w.dirs)
Ons(w) == {e \in Ways(At(w)) : e.kind = "link" => e.to \notin ToSet(w.dirs)}
By(w, e) == [name |-> Append(w.name, e.name), dirs |-> Append(w.dirs, e.to)]
(* Ways that are the root's and the ways on from those looked into.  A way  *)
(* on is longer, so only one set is that: every way there is.               *)
AreAll(ways, looked) == ways = {RootWay} \cup UNION {{By(w, e) : e \in Ons(w)} : w \in looked}

(* A listing has each node under every name there is a way by, whatever was *)
(* walked before it; and every directory there is any way to, round cycles  *)
(* or not, is come to, but those inside an array, below a directory that    *)
(* may not be enumerated or behind a link that cannot be resolved, all of   *)
(* which a listing passes over (ListNodes).                                 *)
InArray(d) == Dir(d).doc # None /\ Dir(d).doc.type = "array"
LookedInto(w) == Dir(At(w)).access = "open" /\ (w = RootWay \/ ~ InArray(At(w)))
Enumerated == {d \in DOMAIN tree.dirs : Dir(d).access = "open" /\ (d = tree.root \/ ~ InArray(d))}
NodesBy(ways) ==
    {[name |-> w.name, doc |-> Dir(At(w)).doc] : w \in {w \in ways \ {RootWay} : Dir(At(w)).doc # None}}
AllListed ==
    pc = "open" /\ tree.copy = None =>
      /\ AreAll(named, {w \in named : LookedInto(w)})
      /\ inventory = NodesBy(named)
      /\ \A d \in Reachable(Enumerated) : \E w \in named : At(w) = d

(* No link is come through twice on the way to where a walk is, so the walk *)
(* is never deeper than the tree has directories for each of its links, and *)
(* it ends, whatever cycles they make (LinkedWalk).                         *)
NoLinkTwice == \A j, k \in DOMAIN links : j # k /\ links[j] # None => links[j] # links[k]

(* The links of a store keep no walk from ending and none of its nodes from *)
(* being listed (ListNodes, LinkedWalk).                                    *)
EveryNodeListed == NoLinkTwice /\ AllListed

(* A size is measured only when every directory that can be come to through *)
(* links that can be resolved was looked into and every file there counted: *)
(* it is the bytes of the files by every such way, all of them known        *)
(* (StoredSizeBytes).  What lies behind a link that cannot be resolved is   *)
(* left out, and the size called measured all the same, though a comment at *)
(* LinkedWalk says that a size with a directory left out is not one.        *)
FilesIn(d) == {e \in Dir(d).entries : e.kind = "file"}
BytesBy(files) == UNION {{<<f, n>> : n \in 1 .. f[2].bytes} : f \in files}
SizeWhole ==
    (given # None) /\ given.basis = "measured" =>
      /\ AreAll(counted, counted)
      /\ \A w \in counted :
           Dir(At(w)).access = "open" /\ \A e \in Dir(At(w)).entries : e.kind # "dangling" /\ (e.kind = "file" => e.bytes # None)
      /\ given.bytes = Cardinality(BytesBy(UNION {{<<w, e>> : e \in FilesIn(At(w))} : w \in counted}))
      /\ \A d \in Reachable(DOMAIN tree.dirs) : \E w \in counted : At(w) = d

(* Measuring is given up for lack of time only once the caller's timeout    *)
(* has passed, or the clock has no more time to give, however far off the   *)
(* timeout was (carta_zarr.cc, Dataset::Size).                              *)
TimeoutHonoured ==
    (given # None) /\ given.cut = "cancelled" =>
      clock - asked.at >= Least(asked.timeout * TicksPerMs, MaxClock - asked.at)

(* A size is that of all that can be come to through links that can be      *)
(* resolved, or says that it is not, and then not for want of time unless   *)
(* the caller's time was up (DatasetSizeBytes).                             *)
SizeHonest == SizeWhole /\ TimeoutHonoured
=============================================================================
