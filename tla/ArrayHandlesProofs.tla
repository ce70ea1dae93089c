------------------------- MODULE ArrayHandlesProofs -------------------------
(* Proofs about ArrayHandles, for any number of threads, paths, contexts    *)
(* and rewrites.                                                            *)
EXTENDS ArrayHandles, TLAPS

Handle == [path : Paths \cup {"none"}, version : Int]
Reading == [at : {"idle", "lookup", "open", "check"} \cup HasHandle,
            store : Ids \cup {0}, through : Ids \cup {0}, path : Paths \cup {"none"},
            handle : Handle, stop : BOOLEAN]

Types ==
    /\ version \in [Paths -> Nat]
    /\ made \in 0 .. MaxContexts
    /\ stores \in SUBSET (1 .. made) /\ pools \in SUBSET (1 .. made)
    /\ born \in [Ids -> [Paths -> Nat]]
    /\ DOMAIN table = Ids
    /\ read \in [Readers -> Reading]

(* A context is a store's or a pool's, and a read in flight holds both it   *)
(* goes by.                                                                 *)
Held ==
    /\ stores \cap pools = {}
    /\ \A r \in Readers : read[r].at # "idle" =>
         /\ read[r].store \in stores /\ read[r].path \in Paths
         /\ read[r].through \in pools \cup {read[r].store}

(* What was on disk when a store was opened is no newer than what is there. *)
Older == \A s \in Ids, p \in Paths : born[s][p] <= version[p]

(* A key is of a store made by now, open or not, and what is filed under it *)
(* is a handle of its path opened since that store was.                     *)
Filed ==
    \A c \in Ids : \A k \in DOMAIN table[c] :
        /\ k \in Ids \X Paths /\ k[1] <= made
        /\ table[c][k] \in Handle
        /\ table[c][k].path = k[2]
        /\ table[c][k].version >= born[k[1]][k[2]]

(* Once it has the handle it reads through, a read has the one filed.       *)
Shared ==
    \A r \in Readers : read[r].at \in HasHandle \ {"keep"} =>
        LET key == Key(read[r].store, read[r].path) IN
        /\ key \in DOMAIN table[read[r].through]
        /\ read[r].handle = table[read[r].through][key]

IInv == Types /\ Held /\ Older /\ Filed /\ NoHandleOfBefore /\ Shared

(* What a read is at from one step to the next: the record with its fields  *)
(* changed, the others' untouched.                                          *)
LEMMA Returned == Idle \in Reading
BY DEF Idle, NoHandle, Reading, Handle

-----------------------------------------------------------------------------
LEMMA HandlesInit == Init => IInv
<1> SUFFICES ASSUME Init PROVE IInv
  OBVIOUS
<1>1. Types
  BY Returned, HandlesAssumption DEF Init, Types, Ids
<1>2. Held /\ NoHandleOfBefore /\ Shared
  BY DEF Init, Held, NoHandleOfBefore, Shared, Idle, HasHandle
<1>3. Older /\ Filed
  BY DEF Init, Older, Filed, Empty
<1> QED
  BY <1>1, <1>2, <1>3 DEF IInv

(* A new context has an id no key has and no read goes by.                  *)
LEMMA OpenDatasetKeeps == IInv /\ OpenDataset => IInv'
<1> SUFFICES ASSUME IInv, OpenDataset PROVE IInv'
  OBVIOUS
<1> USE HandlesAssumption DEF IInv, Ids
<1>1. Types'
  BY DEF OpenDataset, Types, NewId
<1>2. Held'
  BY DEF OpenDataset, Types, Held, NewId
<1>3. Older'
  BY DEF OpenDataset, Types, Older, NewId
<1>4. Filed'
  BY DEF OpenDataset, Types, Filed, NewId, Empty
<1>5. NoHandleOfBefore'
  BY DEF OpenDataset, Types, Held, NoHandleOfBefore, NewId, HasHandle
<1>6. Shared'
  BY DEF OpenDataset, Types, Held, Shared, NewId, HasHandle
<1> QED
  BY <1>1, <1>2, <1>3, <1>4, <1>5, <1>6

LEMMA NewCachePoolKeeps == IInv /\ NewCachePool => IInv'
<1> SUFFICES ASSUME IInv, NewCachePool PROVE IInv'
  OBVIOUS
<1> USE HandlesAssumption DEF IInv, Ids
<1>1. Types' /\ Held' /\ Older'
  BY DEF NewCachePool, Types, Held, Older, NewId
<1>2. Filed'
  BY DEF NewCachePool, Types, Filed, NewId, Empty
<1>3. NoHandleOfBefore'
  BY DEF NewCachePool, NoHandleOfBefore
<1>4. Shared'
  BY DEF NewCachePool, Types, Held, Shared, NewId, HasHandle
<1> QED
  BY <1>1, <1>2, <1>3, <1>4

(* A store or a pool goes only when no read goes by it.                     *)
LEMMA CloseDatasetKeeps == ASSUME NEW s \in Ids, IInv, CloseDataset(s) PROVE IInv'
<1> USE HandlesAssumption DEF IInv, Ids
<1>1. Types' /\ Held' /\ Older'
  BY DEF CloseDataset, Types, Held, Older
<1>2. Filed'
  BY DEF CloseDataset, Types, Filed, Empty
<1>3. NoHandleOfBefore'
  BY DEF CloseDataset, NoHandleOfBefore
<1>4. Shared'
  BY DEF CloseDataset, Types, Held, Shared, HasHandle
<1> QED
  BY <1>1, <1>2, <1>3, <1>4

LEMMA LetGoPoolKeeps == ASSUME NEW p \in Ids, IInv, LetGoPool(p) PROVE IInv'
<1> USE HandlesAssumption DEF IInv, Ids
<1>1. Types' /\ Held' /\ Older'
  BY DEF LetGoPool, Types, Held, Older
<1>2. Filed'
  BY DEF LetGoPool, Types, Filed, Empty
<1>3. NoHandleOfBefore'
  BY DEF LetGoPool, NoHandleOfBefore
<1>4. Shared'
  BY DEF LetGoPool, Types, Held, Shared, HasHandle
<1> QED
  BY <1>1, <1>2, <1>3, <1>4

LEMMA RewriteKeeps == ASSUME NEW p \in Paths, IInv, Rewrite(p) PROVE IInv'
<1>1. Types' /\ Older'
  BY DEF IInv, Rewrite, Types, Older
<1>2. Held' /\ Filed' /\ NoHandleOfBefore' /\ Shared'
  BY DEF IInv, Rewrite, Held, Filed, NoHandleOfBefore, Shared
<1> QED
  BY <1>1, <1>2 DEF IInv

(* What the invariant asks of a read.                                       *)
Sound(a) ==
    /\ a \in Reading
    /\ a.at # "idle" => a.store \in stores /\ a.path \in Paths /\ a.through \in pools \cup {a.store}
    /\ a.at \in HasHandle => a.handle.path = a.path /\ a.handle.version >= born[a.store][a.path]
    /\ a.at \in HasHandle \ {"keep"} =>
         /\ Key(a.store, a.path) \in DOMAIN table[a.through]
         /\ a.handle = table[a.through][Key(a.store, a.path)]

LEMMA ReadsSound == ASSUME IInv, NEW r \in Readers PROVE Sound(read[r])
BY DEF IInv, Types, Held, NoHandleOfBefore, Shared, Sound

(* A read that goes on soundly keeps the invariant.                         *)
LEMMA ReadGoesOn ==
    ASSUME IInv, NEW r \in Readers, NEW a, Sound(a), read' = [read EXCEPT ![r] = a],
           UNCHANGED <<version, made, stores, pools, born, table>>
    PROVE  IInv'
<1>1. /\ read' \in [Readers -> Reading]
      /\ read'[r] = a
      /\ \A q \in Readers \ {r} : read'[q] = read[q]
  BY DEF IInv, Types, Sound
<1>2. Types' /\ Older' /\ Filed'
  BY <1>1 DEF IInv, Types, Older, Filed
<1>3. \A q \in Readers : Sound(read'[q])
  BY <1>1, ReadsSound
<1>4. Held' /\ NoHandleOfBefore' /\ Shared'
  BY <1>3 DEF Sound, IInv, Held, NoHandleOfBefore, Shared
<1> QED
  BY <1>2, <1>4 DEF IInv

(* Moving to another point, and being asked to stop.                        *)
LEMMA Moved ==
    ASSUME NEW a, Sound(a), NEW where \in {"idle", "lookup", "open", "check"} \cup HasHandle,
           where \in HasHandle \ {"keep"} => a.at \in HasHandle \ {"keep"},
           where = "keep" => a.at = "keep",
           a.at # "idle"
    PROVE  Sound([a EXCEPT !.at = where])
<1>1. [a EXCEPT !.at = where] \in Reading
  BY DEF Sound, Reading
<1> QED
  BY <1>1 DEF Sound, Reading, HasHandle

LEMMA Stopped == ASSUME NEW a, Sound(a) PROVE Sound([a EXCEPT !.stop = TRUE])
<1>1. [a EXCEPT !.stop = TRUE] \in Reading
  BY DEF Sound, Reading
<1> QED
  BY <1>1 DEF Sound, Reading

LEMMA TookHandle ==
    ASSUME NEW a, Sound(a), a.at # "idle", NEW h \in Handle, NEW where \in {"keep", "recheck"},
           h.path = a.path, h.version >= born[a.store][a.path],
           where = "recheck" => /\ Key(a.store, a.path) \in DOMAIN table[a.through]
                                /\ h = table[a.through][Key(a.store, a.path)]
    PROVE  Sound([a EXCEPT !.handle = h, !.at = where])
<1>1. [a EXCEPT !.handle = h, !.at = where] \in Reading
  BY DEF Sound, Reading, HasHandle
<1> QED
  BY <1>1 DEF Sound, Reading

LEMMA IdleSound == Sound(Idle)
BY Returned DEF Sound, Idle, HasHandle

(* The steps of a read that leave the table alone.                          *)
LEMMA ReadKeeps ==
    ASSUME NEW r \in Readers, IInv,
           \/ \E s, c \in Ids, p \in Paths : BeginRead(r, s, c, p)
           \/ AskToStop(r) \/ CheckReadControl(r) \/ Lookup(r)
           \/ OpenZarr3File(r) \/ OpenFails(r) \/ ReadChunks(r)
    PROVE  IInv'
<1> DEFINE a == read[r]
<1>1. UNCHANGED <<version, made, stores, pools, born, table>>
  BY DEF BeginRead, AskToStop, CheckReadControl, Lookup, OpenZarr3File, OpenFails, ReadChunks
<1>2. Sound(a) /\ a.at \in {"idle", "lookup", "open", "check"} \cup HasHandle
  BY ReadsSound DEF Sound, Reading
<1>3. SUFFICES \E b : Sound(b) /\ read' = [read EXCEPT ![r] = b]
  BY <1>1, ReadGoesOn
<1>4. CASE Return(r)
  BY <1>4, IdleSound DEF Return
<1>5. ASSUME NEW where \in {"idle", "lookup", "open", "check"} \cup HasHandle,
             Goto(r, where), a.at # "idle",
             where \in HasHandle \ {"keep"} => a.at \in HasHandle \ {"keep"},
             where # "keep"
      PROVE  \E b : Sound(b) /\ read' = [read EXCEPT ![r] = b]
  <2>1. Sound([a EXCEPT !.at = where])
    BY <1>2, <1>5, Moved
  <2> QED
    BY <1>5, <2>1 DEF Goto
<1>6. ASSUME NEW s \in Ids, NEW c \in Ids, NEW p \in Paths, BeginRead(r, s, c, p)
      PROVE  \E b : Sound(b) /\ read' = [read EXCEPT ![r] = b]
  <2> DEFINE b == [Idle EXCEPT !.at = "check", !.store = s, !.through = c, !.path = p]
  <2>1. b \in Reading
    BY Returned DEF Reading
  <2>2. b.at = "check" /\ b.store = s /\ b.through = c /\ b.path = p
    BY DEF Idle
  <2>3. Sound(b)
    BY <1>6, <2>1, <2>2 DEF BeginRead, Sound, HasHandle
  <2> QED
    BY <1>6, <2>3 DEF BeginRead
<1>7. CASE AskToStop(r)
  BY <1>2, <1>7, Stopped DEF AskToStop
<1>8. CASE CheckReadControl(r)
  <2>1. a.at \in {"check", "recheck", "last"}
    BY <1>8 DEF CheckReadControl, After
  <2>2. \/ Return(r)
        \/ a.at = "check" /\ Goto(r, "lookup")
        \/ a.at = "recheck" /\ Goto(r, "chunks")
    BY <1>8, <2>1 DEF CheckReadControl, After
  <2> QED
    BY <1>4, <1>5, <2>2 DEF HasHandle
<1>9. CASE Lookup(r)
  <2> DEFINE held == table[a.through]
             key == Key(a.store, a.path)
  <2>1. a.at = "lookup" /\ a.through \in Ids
    BY HandlesAssumption, <1>2, <1>9 DEF Lookup, Sound, IInv, Types, Ids
  <2>2. CASE key \in DOMAIN held
    <3>1. /\ held[key] \in Handle
          /\ held[key].path = a.path
          /\ held[key].version >= born[a.store][a.path]
      BY <2>1, <2>2 DEF IInv, Filed, Key
    <3>2. Sound([a EXCEPT !.handle = held[key], !.at = "recheck"])
      BY <1>2, <2>1, <2>2, <3>1, TookHandle
    <3>3. read' = [read EXCEPT ![r] = [a EXCEPT !.handle = held[key], !.at = "recheck"]]
      BY <1>9, <2>2 DEF Lookup
    <3> QED
      BY <3>2, <3>3
  <2>3. CASE key \notin DOMAIN held
    BY <1>5, <1>9, <2>1, <2>3 DEF Lookup, HasHandle
  <2> QED
    BY <2>2, <2>3
<1>10. CASE OpenZarr3File(r)
  <2> DEFINE h == [path |-> a.path, version |-> version[a.path]]
  <2>1. a.at = "open" /\ a.path \in Paths /\ a.store \in Ids
    BY HandlesAssumption, <1>2, <1>10 DEF OpenZarr3File, Sound, IInv, Types, Ids
  <2>2. h \in Handle /\ h.path = a.path /\ h.version >= born[a.store][a.path]
    BY <2>1 DEF Handle, IInv, Types, Older
  <2>3. Sound([a EXCEPT !.handle = h, !.at = "keep"])
    BY <1>2, <2>1, <2>2, TookHandle
  <2>4. read' = [read EXCEPT ![r] = [a EXCEPT !.handle = h, !.at = "keep"]]
    BY <1>10 DEF OpenZarr3File
  <2> QED
    BY <2>3, <2>4
<1>11. CASE OpenFails(r)
  BY <1>4, <1>11 DEF OpenFails
<1>12. CASE ReadChunks(r)
  BY <1>4, <1>5, <1>12 DEF ReadChunks, HasHandle
<1> QED
  BY <1>6, <1>7, <1>8, <1>9, <1>10, <1>11, <1>12

(* The sweep drops no key of a store that is open, so what other reads      *)
(* share stays, and a handle that landed first is the one handed out.       *)
LEMMA KeepKeeps == ASSUME NEW r \in Readers, IInv, Keep(r) PROVE IInv'
<1> USE DEF IInv
<1> DEFINE through == read[r].through
           key == Key(read[r].store, read[r].path)
           held == Sweep(table[through])
           kept == IF key \in DOMAIN held THEN held[key] ELSE read[r].handle
           after == [k \in DOMAIN held \cup {key} |-> IF k = key THEN kept ELSE held[k]]
<1>1. /\ table' = [table EXCEPT ![through] = after]
      /\ read' = [read EXCEPT ![r].handle = kept, ![r].at = "recheck"]
      /\ UNCHANGED <<version, made, stores, pools, born>>
  BY DEF Keep, HandOut
<1>2. /\ read[r].at = "keep" /\ through \in Ids
      /\ read[r].store \in stores /\ read[r].store \in Ids /\ read[r].store <= made
      /\ read[r].path \in Paths /\ read[r].handle \in Handle
      /\ through \in pools \cup {read[r].store}
  BY DEF Keep, Types, Held, Reading, Ids
<1>3. /\ DOMAIN held = {k \in DOMAIN table[through] : k[1] \in stores}
      /\ \A k \in DOMAIN held : held[k] = table[through][k]
  BY DEF Sweep
<1>4. /\ kept \in Handle /\ kept.path = read[r].path
      /\ kept.version >= born[read[r].store][read[r].path]
  BY <1>2, <1>3 DEF Filed, NoHandleOfBefore, HasHandle, Key
<1>5. /\ DOMAIN after = DOMAIN held \cup {key}
      /\ after[key] = kept
      /\ \A k \in DOMAIN held : after[k] = table[through][k]
  BY <1>3
<1> HIDE DEF after, kept, held
<1>6. Types'
  <2>1. read[r] \in Reading
    BY DEF Types
  <2>2. [read[r] EXCEPT !.handle = kept, !.at = "recheck"] \in Reading
    BY <1>4, <2>1 DEF Reading, HasHandle
  <2>3. read' = [read EXCEPT ![r] = [read[r] EXCEPT !.handle = kept, !.at = "recheck"]]
    BY <1>1
  <2>4. read' \in [Readers -> Reading]
    BY <2>2, <2>3 DEF Types
  <2> QED
    BY <1>1, <2>4 DEF Types
<1>7. Held' /\ Older'
  BY <1>1, <1>2 DEF Types, Held, Older
<1>8. NoHandleOfBefore'
  BY <1>1, <1>2, <1>4 DEF Types, NoHandleOfBefore
<1>9. Filed'
  <2>1. SUFFICES ASSUME NEW c \in Ids, NEW k \in DOMAIN table'[c]
                 PROVE  /\ k \in Ids \X Paths /\ k[1] <= made
                        /\ table'[c][k] \in Handle
                        /\ table'[c][k].path = k[2]
                        /\ table'[c][k].version >= born[k[1]][k[2]]
    BY <1>1 DEF Filed
  <2>2. CASE c # through
    BY <1>1, <2>1, <2>2 DEF Filed, Types
  <2>3. CASE c = through /\ k = key
    BY <1>1, <1>2, <1>4, <1>5, <2>1, <2>3 DEF Types, Key
  <2>4. CASE c = through /\ k # key
    BY <1>1, <1>2, <1>3, <1>5, <2>1, <2>4 DEF Filed, Types
  <2> QED
    BY <2>2, <2>3, <2>4
<1>10. Shared'
  <2>1. SUFFICES ASSUME NEW q \in Readers, read'[q].at \in HasHandle \ {"keep"}
                 PROVE  LET mine == Key(read'[q].store, read'[q].path) IN
                        /\ mine \in DOMAIN table'[read'[q].through]
                        /\ read'[q].handle = table'[read'[q].through][mine]
    BY DEF Shared
  <2>2. CASE q = r
    <3>1. /\ read'[q].store = read[r].store /\ read'[q].path = read[r].path
          /\ read'[q].through = through /\ read'[q].handle = kept
      BY <1>1, <2>2 DEF Types, Reading
    <3>2. table'[through] = after
      BY <1>1, <1>2 DEF Types
    <3> QED
      BY <1>5, <3>1, <3>2
  <2>3. CASE q # r
    <3>1. read'[q] = read[q]
      BY <1>1, <2>3 DEF Types
    <3>2. /\ read[q].store \in stores
          /\ Key(read[q].store, read[q].path) \in DOMAIN table[read[q].through]
          /\ read[q].handle = table[read[q].through][Key(read[q].store, read[q].path)]
      BY <2>1, <3>1 DEF Held, Shared, HasHandle
    <3>3. CASE read[q].through # through
      BY <1>1, <3>1, <3>2, <3>3 DEF Types
    <3>4. CASE read[q].through = through
      <4>1. table'[through] = after
        BY <1>1, <1>2 DEF Types
      <4>2. Key(read[q].store, read[q].path) \in DOMAIN held
        BY <1>3, <3>2, <3>4 DEF Key
      <4> QED
        BY <1>5, <3>1, <3>2, <3>4, <4>1, <4>2
    <3> QED
      BY <3>3, <3>4
  <2> QED
    BY <2>2, <2>3
<1> QED
  BY <1>6, <1>7, <1>8, <1>9, <1>10

LEMMA HandlesStep == IInv /\ [Next]_vars => IInv'
<1>1. ASSUME IInv, UNCHANGED vars PROVE IInv'
  BY <1>1 DEF IInv, vars, Types, Held, Older, Filed, NoHandleOfBefore, Shared
<1>2. ASSUME NEW r \in Readers, IInv, ReadStep(r) PROVE IInv'
  BY <1>2, ReadKeeps, KeepKeeps DEF ReadStep
<1> QED
  BY <1>1, <1>2, OpenDatasetKeeps, NewCachePoolKeeps, CloseDatasetKeeps, LetGoPoolKeeps,
     RewriteKeeps, ReadKeeps DEF Next

(* Every handle kept or being read through was opened for a store, under    *)
(* that store's id and no earlier than it, so an id that is new finds none  *)
(* (StoreContext::Lookup and Keep, and the ids stores are given).           *)
THEOREM HandlesInvariant == Spec => []IInv
BY HandlesInit, HandlesStep, PTL DEF Spec

(* No dataset that was closed, rewritten and opened again is read through a *)
(* handle of the one before, however long a pool lives.                     *)
THEOREM NeverAHandleOfBefore == Spec => []NoHandleOfBefore
<1>1. IInv => NoHandleOfBefore
  BY DEF IInv
<1> QED
  BY <1>1, HandlesInvariant, PTL

(* Reads of one store's array through one cache share their handle, however *)
(* their opens raced.                                                       *)
THEOREM AlwaysOneHandle == Spec => []OneHandle
<1>1. IInv => OneHandle
  BY DEF IInv, Shared, OneHandle
<1> QED
  BY <1>1, HandlesInvariant, PTL

(* A pool that gains a handle keeps none of a store that has closed.        *)
THEOREM DeadHandlesDropped == Spec => ClosedStoresLetGo
<1>1. ASSUME IInv, [Next]_vars, NEW c \in pools, DOMAIN table'[c] \ DOMAIN table[c] # {}
      PROVE  \A k \in DOMAIN table'[c] : k[1] \in stores
  <2>1. c \in Ids /\ c <= made /\ c # NewId
    BY <1>1, HandlesAssumption DEF IInv, Types, Ids, NewId
  <2>2. PICK r \in Readers : Keep(r)
    <3>1. CASE OpenDataset \/ NewCachePool
      BY <1>1, <2>1, <3>1 DEF OpenDataset, NewCachePool, IInv, Types
    <3>2. ASSUME NEW s \in Ids, CloseDataset(s) \/ LetGoPool(s) PROVE FALSE
      <4>1. table'[c] = Empty \/ table'[c] = table[c]
        BY <1>1, <2>1, <3>2 DEF CloseDataset, LetGoPool, IInv, Types
      <4> QED
        BY <1>1, <4>1 DEF Empty
    <3>3. ASSUME table' = table PROVE FALSE
      BY <1>1, <3>3
    <3> QED
      BY <1>1, <3>1, <3>2, <3>3 DEF Next, ReadStep, Rewrite, BeginRead, AskToStop, CheckReadControl,
         Lookup, OpenZarr3File, OpenFails, ReadChunks, vars
  <2> DEFINE held == Sweep(table[read[r].through])
             key == Key(read[r].store, read[r].path)
  <2>3. c = read[r].through => DOMAIN table'[c] = DOMAIN held \cup {key}
    <3> SUFFICES ASSUME c = read[r].through PROVE DOMAIN table'[c] = DOMAIN held \cup {key}
      OBVIOUS
    <3> DEFINE kept == IF key \in DOMAIN held THEN held[key] ELSE read[r].handle
               after == [k \in DOMAIN held \cup {key} |-> IF k = key THEN kept ELSE held[k]]
    <3>1. table' = [table EXCEPT ![c] = after]
      BY <2>2 DEF Keep
    <3>2. table'[c] = after
      BY <1>1, <2>1, <3>1 DEF IInv, Types
    <3> QED
      BY <3>2
  <2>4. c = read[r].through
    BY <1>1, <2>1, <2>2 DEF Keep, IInv, Types
  <2>5. read[r].store \in stores
    BY <1>1, <2>2 DEF Keep, IInv, Held
  <2> QED
    BY <2>3, <2>4, <2>5 DEF Sweep, Key
<1>2. IInv /\ [Next]_vars =>
        [\A c \in pools : DOMAIN table'[c] \ DOMAIN table[c] # {} =>
           \A k \in DOMAIN table'[c] : k[1] \in stores]_vars
  BY <1>1
<1> QED
  BY <1>2, HandlesInvariant, PTL DEF Spec, ClosedStoresLetGo
=============================================================================
