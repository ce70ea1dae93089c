---------------------------- MODULE ArrayHandles ----------------------------
(***************************************************************************)
(* The tables of opened arrays in src/src/zarr/store_context.cc, and the   *)
(* read that takes a handle from one, src/src/zarr/pixel_reader.cc.        *)
(*                                                                         *)
(* Every StoreContext has a table: a store's own, for reads through the    *)
(* session's cache, and a cache pool's, for the reads through it, filed    *)
(* under the store read.  A pool outlives the stores read through it, and  *)
(* a dataset may be closed, rewritten and opened again meanwhile.  A       *)
(* handle is known by what was on disk when it was opened: that is what it *)
(* goes on reading.                                                        *)
(***************************************************************************)
EXTENDS Integers, FiniteSets

CONSTANTS Readers,      \* threads that read
          Paths,        \* where arrays lie
          MaxContexts,  \* bound: StoreContexts made
          MaxVersion    \* bound: rewrites of a path

ASSUME HandlesAssumption == MaxContexts \in Nat /\ MaxVersion \in Nat

VARIABLES
    version,    \* what is on disk at each path
    made,       \* the counter ids come from
    stores,     \* ids of the open stores
    pools,      \* ids of the pools somebody holds
    born,       \* what was on disk when each store was opened
    table,      \* _arrays of each context: handles by <<store id, path>>
    read        \* each thread's read

vars == <<version, made, stores, pools, born, table, read>>

Ids == 1 .. MaxContexts
NoHandle == [path |-> "none", version |-> -1]
Idle == [at |-> "idle", store |-> 0, through |-> 0, path |-> "none",
         handle |-> NoHandle, stop |-> FALSE]
Empty == [k \in {} |-> NoHandle]

(* Faults, for checking that the properties notice them. *)
KeyByPath(store, path) == <<0, path>>
HandOutOwn(held, key, opened) == opened
SweepNothing(held) == held

(* Filed under the store's id, which is never reused, and the path. *)
Key(store, path) == <<store, path>>

-----------------------------------------------------------------------------
(* Contexts come and go. *)
NewId == made + 1

(* Dataset::Open: CloneForStore. *)
OpenDataset ==
    /\ made < MaxContexts
    /\ made' = NewId
    /\ stores' = stores \cup {NewId}
    /\ born' = [born EXCEPT ![NewId] = version]
    /\ table' = [table EXCEPT ![NewId] = Empty]
    /\ UNCHANGED <<version, pools, read>>

(* The last Dataset or Image that holds the store goes, and its table with  *)
(* it.  A read in flight holds it.                                          *)
CloseDataset(s) ==
    /\ s \in stores
    /\ \A r \in Readers : read[r].store # s
    /\ stores' = stores \ {s}
    /\ table' = [table EXCEPT ![s] = Empty]
    /\ UNCHANGED <<version, made, pools, born, read>>

(* Context::NewCachePool: WithCachePool. *)
NewCachePool ==
    /\ made < MaxContexts
    /\ made' = NewId
    /\ pools' = pools \cup {NewId}
    /\ table' = [table EXCEPT ![NewId] = Empty]
    /\ UNCHANGED <<version, stores, born, read>>

LetGoPool(p) ==
    /\ p \in pools
    /\ \A r \in Readers : read[r].through # p
    /\ pools' = pools \ {p}
    /\ table' = [table EXCEPT ![p] = Empty]
    /\ UNCHANGED <<version, made, stores, born, read>>

(* Somebody rewrites an array. *)
Rewrite(path) ==
    /\ version[path] < MaxVersion
    /\ version' = [version EXCEPT ![path] = @ + 1]
    /\ UNCHANGED <<made, stores, pools, born, table, read>>

-----------------------------------------------------------------------------
(* ReadInto.  control may ask for a stop at any time: a cancellation, or a  *)
(* deadline gone by.                                                        *)
Goto(r, where) == read' = [read EXCEPT ![r].at = where]
Return(r) == read' = [read EXCEPT ![r] = Idle]

BeginRead(r, s, through, path) ==
    /\ read[r].at = "idle"
    /\ s \in stores /\ through \in pools \cup {s}
    /\ read' = [read EXCEPT ![r] = [Idle EXCEPT !.at = "check", !.store = s,
                                       !.through = through, !.path = path]]
    /\ UNCHANGED <<version, made, stores, pools, born, table>>

AskToStop(r) ==
    /\ read[r].at # "idle" /\ ~ read[r].stop
    /\ read' = [read EXCEPT ![r].stop = TRUE]
    /\ UNCHANGED <<version, made, stores, pools, born, table>>

(* CheckReadControl, before the handle is taken, once it is and after the   *)
(* chunks are read.                                                         *)
After == [check |-> "lookup", recheck |-> "chunks", last |-> "idle"]
CheckReadControl(r) ==
    /\ read[r].at \in DOMAIN After
    /\ IF read[r].stop \/ read[r].at = "last" THEN Return(r) ELSE Goto(r, After[read[r].at])
    /\ UNCHANGED <<version, made, stores, pools, born, table>>

(* OpenArrayOf: a lookup under the lock, *)
Lookup(r) ==
    /\ read[r].at = "lookup"
    /\ LET held == table[read[r].through]
           key == Key(read[r].store, read[r].path)
       IN  IF key \in DOMAIN held
           THEN read' = [read EXCEPT ![r].handle = held[key], ![r].at = "recheck"]
           ELSE Goto(r, "open")
    /\ UNCHANGED <<version, made, stores, pools, born, table>>

(* an open outside it, which may fail, *)
OpenZarr3File(r) ==
    /\ read[r].at = "open"
    /\ read' = [read EXCEPT ![r].at = "keep",
                            ![r].handle = [path |-> read[r].path, version |-> version[read[r].path]]]
    /\ UNCHANGED <<version, made, stores, pools, born, table>>

OpenFails(r) ==
    /\ read[r].at = "open"
    /\ Return(r)
    /\ UNCHANGED <<version, made, stores, pools, born, table>>

(* and under the lock again what closed stores left is dropped, and the     *)
(* handle kept, unless another thread's landed first.                       *)
Sweep(held) == [k \in {j \in DOMAIN held : j[1] \in stores} |-> held[k]]
HandOut(held, key, opened) == IF key \in DOMAIN held THEN held[key] ELSE opened

Keep(r) ==
    /\ read[r].at = "keep"
    /\ LET held == Sweep(table[read[r].through])
           key == Key(read[r].store, read[r].path)
           kept == IF key \in DOMAIN held THEN held[key] ELSE read[r].handle
       IN
       /\ table' = [table EXCEPT ![read[r].through] =
                      [k \in DOMAIN held \cup {key} |-> IF k = key THEN kept ELSE held[k]]]
       /\ read' = [read EXCEPT ![r].handle = HandOut(held, key, read[r].handle),
                               ![r].at = "recheck"]
    /\ UNCHANGED <<version, made, stores, pools, born>>

(* TensorStore reads the chunks, or the read fails. *)
ReadChunks(r) ==
    /\ read[r].at = "chunks"
    /\ Goto(r, "last") \/ Return(r)
    /\ UNCHANGED <<version, made, stores, pools, born, table>>

-----------------------------------------------------------------------------
Init ==
    /\ version = [p \in Paths |-> 0]
    /\ made = 0 /\ stores = {} /\ pools = {}
    /\ born = [s \in Ids |-> version]
    /\ table = [c \in Ids |-> Empty]
    /\ read = [r \in Readers |-> Idle]

ReadStep(r) ==
    \/ CheckReadControl(r) \/ Lookup(r)
    \/ OpenZarr3File(r) \/ OpenFails(r) \/ Keep(r) \/ ReadChunks(r)

Next ==
    \/ OpenDataset \/ NewCachePool
    \/ \E s \in Ids : CloseDataset(s) \/ LetGoPool(s)
    \/ \E p \in Paths : Rewrite(p)
    \/ \E r \in Readers :
         \/ \E s, c \in Ids, p \in Paths : BeginRead(r, s, c, p)
         \/ AskToStop(r) \/ ReadStep(r)

Spec == Init /\ [][Next]_vars

-----------------------------------------------------------------------------
HasHandle == {"keep", "recheck", "chunks", "last"}

(* A dataset "closed, rewritten and opened again through the same pool" is  *)
(* not "read through the handle opened for the one before": what a read     *)
(* reads through is the array asked for, and no older than the store.       *)
NoHandleOfBefore ==
    \A r \in Readers : read[r].at \in HasHandle =>
        /\ read[r].handle.path = read[r].path
        /\ read[r].handle.version >= born[read[r].store][read[r].path]

(* "Open an array once and hand back the same handle afterwards": two reads *)
(* of a store through one cache never read through different handles,       *)
(* however their opens raced each other and a rewrite.                      *)
OneHandle ==
    \A r, q \in Readers :
        /\ read[r].at \in HasHandle \ {"keep"} /\ read[q].at \in HasHandle \ {"keep"}
        /\ read[r].store = read[q].store /\ read[r].through = read[q].through
        /\ read[r].path = read[q].path
        => read[r].handle = read[q].handle

(* "The handles of a store that has closed are dropped the next time the    *)
(* pool opens one": a pool never gains a handle and keeps a dead one.       *)
ClosedStoresLetGo ==
    [][\A c \in pools : DOMAIN table'[c] \ DOMAIN table[c] # {} =>
         \A k \in DOMAIN table'[c] : k[1] \in stores]_vars
=============================================================================
