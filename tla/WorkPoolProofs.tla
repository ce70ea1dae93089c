--------------------------- MODULE WorkPoolProofs ---------------------------
(* Proofs about WorkPool, for every pool size, set of callers and bound;    *)
(* and about what the tasks of a reduction are: how rows are split among    *)
(* them, and the histogram each of them fills on its own.                   *)
EXTENDS WorkPool, TaskSplit, GrowingHistogram, ChunkBlocksProofs, FiniteSetTheorems, TLAPS

USE DEF TaskSet

(* The threads of the pool and the callers' threads are different threads. *)
LEMMA ThreadFacts ==
    /\ Workers \cap Callers = {}
    /\ Threads = Workers \cup Callers
    /\ None \notin Callers
    /\ Workers \subseteq Nat
    /\ Size \in Nat
<1>1. Workers \subseteq Nat
  BY SizeAssumption DEF Workers
<1>2. QED
  BY <1>1, SizeAssumption, CallersAssumption DEF Threads

(* Counting workers: sets of them are finite, and all of them are Size. *)
LEMMA WorkerCount ==
    /\ IsFiniteSet(Workers) /\ Cardinality(Workers) = Size
    /\ \A S \in SUBSET Workers :
          /\ IsFiniteSet(S)
          /\ Cardinality(S) \in 0 .. Size
          /\ Cardinality(S) = 0 <=> S = {}
          /\ \A w \in S : Cardinality(S \ {w}) = Cardinality(S) - 1
<1>1. IsFiniteSet(Workers) /\ Cardinality(Workers) = Size
  BY FS_Interval, SizeAssumption DEF Workers
<1>2. ASSUME NEW S \in SUBSET Workers
      PROVE  /\ IsFiniteSet(S)
             /\ Cardinality(S) \in 0 .. Size
             /\ Cardinality(S) = 0 <=> S = {}
             /\ \A w \in S : Cardinality(S \ {w}) = Cardinality(S) - 1
  <2>1. IsFiniteSet(S) /\ Cardinality(S) <= Size
    BY <1>1, FS_Subset
  <2>2. Cardinality(S) \in Nat
    BY <2>1, FS_CardinalityType
  <2>3. Cardinality(S) = 0 <=> S = {}
    BY <2>1, FS_EmptySet
  <2>4. ASSUME NEW w \in S PROVE Cardinality(S \ {w}) = Cardinality(S) - 1
    BY <2>1, FS_RemoveElement
  <2>5. QED
    BY <2>1, <2>2, <2>3, <2>4, SizeAssumption
<1>3. QED
  BY <1>1, <1>2

(* Out is a set of workers, so it can be counted. *)
LEMMA OutSubset == Out \subseteq Workers
  BY DEF Out

(* What a step leaves alone stays right.  A caller's part of the invariant  *)
(* reads only the caller's own state, and next and tasks while it waits.    *)
LEMMA CallerFrame ==
    ASSUME NEW c \in Callers, CallerOK(c),
           pc'[c] = pc[c], my_body'[c] = my_body[c], my_task'[c] = my_task[c],
           result'[c] = result[c], done'[c] = done[c], want'[c] = want[c],
           got'[c] = got[c], c \in threw' <=> c \in threw,
           pc[c] \in {"await", "asleep"} => next' = next /\ tasks' = tasks
    PROVE  CallerOK(c)'
  BY DEF CallerOK

(* Who has which task does not change when no thread enters or leaves a     *)
(* body, nor the task counter moves.                                        *)
LEMMA TaskFrame ==
    ASSUME TaskInv, next' = next,
           \A t \in Threads : pc'[t] = "body" <=> pc[t] = "body",
           \A t \in Threads : pc[t] = "body" =>
               /\ my_task'[t] = my_task[t] /\ my_body'[t] = my_body[t]
               /\ done'[my_body[t]] = done[my_body[t]],
           \A c \in Callers : pc'[c] \in Published =>
               /\ pc[c] \in Published
               /\ done'[c] = done[c] /\ want'[c] = want[c]
               /\ c \in threw => c \in threw'
    PROVE  TaskInv'
  BY DEF TaskInv

(* The invariant holds of a pool about to start its workers. *)
LEMMA InitIInv == Init => IInv
<1> SUFFICES ASSUME Init PROVE IInv
  OBVIOUS
<1> USE ThreadFacts, BoundsAssumption DEF Init
<1>1. TypeOK
  BY DEF TypeOK, WorkerPC, CallerPC
<1>2. LockInv /\ PhaseInv /\ WorkerInv /\ TaskInv /\ ThrewInv /\ RunIsComplete
  BY DEF LockInv, PhaseInv, WorkerInv, TaskInv, ThrewInv, RunIsComplete,
         HoldsRunLock, Published
<1>3. CallerInv
  BY DEF CallerInv, CallerOK, Inline
<1>4. FieldsInv
  BY DEF FieldsInv, Published, HoldsRunLock, Out
<1>5. QED
  BY <1>1, <1>2, <1>3, <1>4 DEF IInv

(* A thread inside DrainTasks works for the Run that is published, whose    *)
(* caller holds _run.                                                       *)
LEMMA AtWork ==
    ASSUME IInv
    PROVE  \A t \in Threads :
              \/ pc[t] \in {"claim", "body", "caught"}
              \/ t \in Workers /\ pc[t] = "finish"
              => /\ body \in Callers /\ pc[body] \in Published /\ run_lock = body
                 /\ pc[t] # "finish" => my_body[t] = body
                 /\ t \in Callers => t = body
<1> USE ThreadFacts DEF IInv
<1> SUFFICES ASSUME NEW t \in Threads,
                    \/ pc[t] \in {"claim", "body", "caught"}
                    \/ t \in Workers /\ pc[t] = "finish"
             PROVE  /\ body \in Callers /\ pc[body] \in Published /\ run_lock = body
                    /\ pc[t] # "finish" => my_body[t] = body
                    /\ t \in Callers => t = body
  OBVIOUS
<1>1. CASE t \in Workers
  <2>1. t \in Out
    BY <1>1 DEF Out
  <2>2. PICK c \in Callers : pc[c] \in Published
    BY <2>1 DEF FieldsInv
  <2>3. body = c /\ run_lock = c
    BY <2>2 DEF FieldsInv, LockInv, Published
  <2>4. QED
    BY <1>1, <2>2, <2>3 DEF WorkerInv
<1>2. CASE t \in Callers
  <2>1. pc[t] \in Published
    BY <1>2 DEF Published, HoldsRunLock
  <2>2. body = t /\ run_lock = t
    BY <1>2, <2>1 DEF FieldsInv, LockInv, Published
  <2>3. QED
    BY <1>2, <2>1, <2>2 DEF CallerInv, CallerOK, Inline
<1>3. QED
  BY <1>1, <1>2

(* At most one Run is published. *)
LEMMA OnePublished ==
    ASSUME IInv, NEW c \in Callers, NEW d \in Callers,
           pc[c] \in HoldsRunLock, pc[d] \in HoldsRunLock
    PROVE  c = d
  BY DEF IInv, LockInv

(* StartWorker preserves the inductive invariant. *)
LEMMA StartWorkerStep == ASSUME IInv, StartWorker PROVE IInv'
<1> USE ThreadFacts, BoundsAssumption DEF IInv, StartWorker, Goto, fields, locals, history
<1>1. TypeOK'
  BY DEF TypeOK, WorkerPC, CallerPC
<1>2. LockInv'
  BY DEF TypeOK, LockInv, HoldsRunLock
<1>3. PhaseInv'
  BY DEF TypeOK, PhaseInv
<1>4. Out' = Out
  BY DEF TypeOK, Out, WorkerInv
<1>5. FieldsInv'
  BY <1>4 DEF TypeOK, FieldsInv, LockInv, CallerInv, CallerOK, WorkerInv, HoldsRunLock, Published
<1>6. WorkerInv'
  BY DEF TypeOK, WorkerInv, FieldsInv, PhaseInv
<1>7. CallerInv'
  BY CallerFrame DEF TypeOK, CallerInv
<1>8. TaskInv'
  BY TaskFrame DEF TypeOK, Published, HoldsRunLock
<1>9. ThrewInv'
  BY DEF TypeOK, ThrewInv, LockInv, FieldsInv, WorkerInv, CallerInv, HoldsRunLock, Published
<1>10. RunIsComplete'
  BY DEF TypeOK, RunIsComplete, CallerInv, CallerOK
<1>11. QED
  BY <1>1, <1>2, <1>3, <1>5, <1>6, <1>7, <1>8, <1>9, <1>10

(* AllStarted preserves the inductive invariant. *)
LEMMA AllStartedStep == ASSUME IInv, AllStarted PROVE IInv'
<1> USE ThreadFacts, BoundsAssumption DEF IInv, AllStarted, Goto, fields, locals, history
<1>1. TypeOK'
  BY DEF TypeOK, WorkerPC, CallerPC
<1>2. LockInv'
  BY DEF TypeOK, LockInv, HoldsRunLock
<1>3. PhaseInv'
  BY DEF TypeOK, PhaseInv
<1>4. Out' = Out
  BY DEF TypeOK, Out, WorkerInv
<1>5. FieldsInv'
  BY <1>4 DEF TypeOK, FieldsInv, LockInv, CallerInv, CallerOK, WorkerInv, HoldsRunLock, Published
<1>6. WorkerInv'
  BY DEF TypeOK, WorkerInv, FieldsInv, PhaseInv
<1>7. CallerInv'
  BY CallerFrame DEF TypeOK, CallerInv
<1>8. TaskInv'
  BY TaskFrame DEF TypeOK, Published, HoldsRunLock
<1>9. ThrewInv'
  BY DEF TypeOK, ThrewInv, LockInv, FieldsInv, WorkerInv, CallerInv, HoldsRunLock, Published
<1>10. RunIsComplete'
  BY DEF TypeOK, RunIsComplete, CallerInv, CallerOK
<1>11. QED
  BY <1>1, <1>2, <1>3, <1>5, <1>6, <1>7, <1>8, <1>9, <1>10

(* StartRefused preserves the inductive invariant. *)
LEMMA StartRefusedStep == ASSUME IInv, StartRefused PROVE IInv'
<1> USE ThreadFacts, BoundsAssumption DEF IInv, StartRefused, Goto, fields, locals, history
<1>1. TypeOK'
  BY DEF TypeOK, WorkerPC, CallerPC
<1>2. LockInv'
  BY DEF TypeOK, LockInv, HoldsRunLock
<1>3. PhaseInv'
  BY DEF TypeOK, PhaseInv
<1>4. Out' = Out
  BY DEF TypeOK, Out, WorkerInv
<1>5. FieldsInv'
  BY <1>4 DEF TypeOK, FieldsInv, LockInv, CallerInv, CallerOK, WorkerInv, HoldsRunLock, Published
<1>6. WorkerInv'
  BY DEF TypeOK, WorkerInv, FieldsInv, PhaseInv
<1>7. CallerInv'
  BY CallerFrame DEF TypeOK, CallerInv
<1>8. TaskInv'
  BY TaskFrame DEF TypeOK, Published, HoldsRunLock
<1>9. ThrewInv'
  BY DEF TypeOK, ThrewInv, LockInv, FieldsInv, WorkerInv, CallerInv, HoldsRunLock, Published
<1>10. RunIsComplete'
  BY DEF TypeOK, RunIsComplete, CallerInv, CallerOK
<1>11. QED
  BY <1>1, <1>2, <1>3, <1>5, <1>6, <1>7, <1>8, <1>9, <1>10

(* Destroy preserves the inductive invariant. *)
LEMMA DestroyStep == ASSUME IInv, Destroy PROVE IInv'
<1> USE ThreadFacts, BoundsAssumption DEF IInv, Destroy, Goto, fields, locals, history
<1>1. TypeOK'
  BY DEF TypeOK, WorkerPC, CallerPC
<1>2. LockInv'
  BY DEF TypeOK, LockInv, HoldsRunLock
<1>3. PhaseInv'
  BY DEF TypeOK, PhaseInv
<1>4. Out' = Out
  BY DEF TypeOK, Out, WorkerInv
<1>5. FieldsInv'
  BY <1>4 DEF TypeOK, FieldsInv, LockInv, CallerInv, CallerOK, WorkerInv, HoldsRunLock, Published
<1>6. WorkerInv'
  BY DEF TypeOK, WorkerInv, FieldsInv, PhaseInv
<1>7. CallerInv'
  BY CallerFrame DEF TypeOK, CallerInv
<1>8. TaskInv'
  BY TaskFrame DEF TypeOK, Published, HoldsRunLock
<1>9. ThrewInv'
  BY DEF TypeOK, ThrewInv, LockInv, FieldsInv, WorkerInv, CallerInv, HoldsRunLock, Published
<1>10. RunIsComplete'
  BY DEF TypeOK, RunIsComplete, CallerInv, CallerOK
<1>11. QED
  BY <1>1, <1>2, <1>3, <1>5, <1>6, <1>7, <1>8, <1>9, <1>10

(* NotifyStop preserves the inductive invariant. *)
LEMMA NotifyStopStep == ASSUME IInv, NotifyStop PROVE IInv'
<1> USE ThreadFacts, BoundsAssumption DEF IInv, WakeAll, Goto, fields, locals, history
<1>a. /\ phase = "stopping" /\ phase' = "joining" /\ UNCHANGED <<run_lock, fields, locals, history>>
      /\ pc' \in [Threads -> WorkerPC \cup CallerPC]
      /\ \A w \in Workers : pc'[w] = IF pc[w] = "asleep" THEN "check" ELSE pc[w]
      /\ \A c \in Callers : pc'[c] = pc[c]
  BY DEF NotifyStop, TypeOK, WorkerPC
<1> USE <1>a
<1>1. TypeOK'
  BY DEF TypeOK, WorkerPC, CallerPC
<1>2. LockInv'
  BY DEF TypeOK, LockInv, HoldsRunLock
<1>3. PhaseInv'
  BY DEF TypeOK, PhaseInv
<1>4. Out' = Out
  BY DEF TypeOK, Out, WorkerInv
<1>5. FieldsInv'
  BY <1>4 DEF TypeOK, FieldsInv, LockInv, CallerInv, CallerOK, WorkerInv, HoldsRunLock, Published
<1>6. WorkerInv'
  BY DEF TypeOK, WorkerInv, FieldsInv, PhaseInv
<1>7. CallerInv'
  BY CallerFrame DEF TypeOK, CallerInv
<1>8. TaskInv'
  BY TaskFrame DEF TypeOK, Published, HoldsRunLock
<1>9. ThrewInv'
  BY DEF TypeOK, ThrewInv, LockInv, FieldsInv, WorkerInv, CallerInv, HoldsRunLock, Published
<1>10. RunIsComplete'
  BY DEF TypeOK, RunIsComplete, CallerInv, CallerOK
<1>11. QED
  BY <1>1, <1>2, <1>3, <1>5, <1>6, <1>7, <1>8, <1>9, <1>10

(* Joined preserves the inductive invariant. *)
LEMMA JoinedStep == ASSUME IInv, Joined PROVE IInv'
<1> USE ThreadFacts, BoundsAssumption DEF IInv, Joined, Goto, fields, locals, history
<1>1. TypeOK'
  BY DEF TypeOK, WorkerPC, CallerPC
<1>2. LockInv'
  BY DEF TypeOK, LockInv, HoldsRunLock
<1>3. PhaseInv'
  BY DEF TypeOK, PhaseInv
<1>4. Out' = Out
  BY DEF TypeOK, Out, WorkerInv
<1>5. FieldsInv'
  BY <1>4 DEF TypeOK, FieldsInv, LockInv, CallerInv, CallerOK, WorkerInv, HoldsRunLock, Published
<1>6. WorkerInv'
  BY DEF TypeOK, WorkerInv, FieldsInv, PhaseInv
<1>7. CallerInv'
  BY CallerFrame DEF TypeOK, CallerInv
<1>8. TaskInv'
  BY TaskFrame DEF TypeOK, Published, HoldsRunLock
<1>9. ThrewInv'
  BY DEF TypeOK, ThrewInv, LockInv, FieldsInv, WorkerInv, CallerInv, HoldsRunLock, Published
<1>10. RunIsComplete'
  BY DEF TypeOK, RunIsComplete, CallerInv, CallerOK
<1>11. QED
  BY <1>1, <1>2, <1>3, <1>5, <1>6, <1>7, <1>8, <1>9, <1>10

(* WakeToStop preserves the inductive invariant. *)
LEMMA WakeToStopStep == ASSUME IInv, NEW w \in Workers, WakeToStop(w) PROVE IInv'
<1> USE ThreadFacts, BoundsAssumption DEF IInv, WakeToStop, Stopping, Goto, fields, locals, history
<1>a. Out = {}
  BY DEF PhaseInv, FieldsInv, Published, HoldsRunLock
<1>1. TypeOK'
  BY DEF TypeOK, WorkerPC, CallerPC
<1>2. LockInv'
  BY DEF TypeOK, LockInv, HoldsRunLock
<1>3. PhaseInv'
  BY DEF TypeOK, PhaseInv
<1>4. Out' = Out
  BY <1>a DEF TypeOK, Out
<1>5. FieldsInv'
  BY <1>4 DEF TypeOK, FieldsInv, LockInv, CallerInv, CallerOK, WorkerInv, HoldsRunLock, Published
<1>6. WorkerInv'
  BY DEF TypeOK, WorkerInv, FieldsInv, PhaseInv
<1>7. CallerInv'
  BY CallerFrame DEF TypeOK, CallerInv
<1>8. TaskInv'
  BY TaskFrame DEF TypeOK, Published, HoldsRunLock
<1>9. ThrewInv'
  BY DEF TypeOK, ThrewInv, LockInv, FieldsInv, WorkerInv, CallerInv, HoldsRunLock, Published
<1>10. RunIsComplete'
  BY DEF TypeOK, RunIsComplete, CallerInv, CallerOK
<1>11. QED
  BY <1>1, <1>2, <1>3, <1>5, <1>6, <1>7, <1>8, <1>9, <1>10

(* WakeToWork preserves the inductive invariant. *)
LEMMA WakeToWorkStep == ASSUME IInv, NEW w \in Workers, WakeToWork(w) PROVE IInv'
<1> USE ThreadFacts, BoundsAssumption DEF IInv, WakeToWork, Stopping, Goto, fields, locals, history
<1>1. TypeOK'
  BY DEF TypeOK, WorkerPC, CallerPC
<1>2. LockInv'
  BY DEF TypeOK, LockInv, HoldsRunLock
<1>3. PhaseInv'
  BY DEF TypeOK, PhaseInv
<1>4. Out' = Out
  BY DEF TypeOK, Out, WorkerInv
<1>5. FieldsInv'
  BY <1>4 DEF TypeOK, FieldsInv, Published, HoldsRunLock
<1>6. WorkerInv'
  BY DEF TypeOK, WorkerInv, FieldsInv, PhaseInv
<1>7. CallerInv'
  BY CallerFrame DEF TypeOK, CallerInv
<1>8. TaskInv'
  BY TaskFrame DEF TypeOK, Published, HoldsRunLock
<1>9. ThrewInv'
  BY DEF TypeOK, ThrewInv, LockInv, FieldsInv, WorkerInv, CallerInv, HoldsRunLock, Published
<1>10. RunIsComplete'
  BY DEF TypeOK, RunIsComplete, CallerInv, CallerOK
<1>11. QED
  BY <1>1, <1>2, <1>3, <1>5, <1>6, <1>7, <1>8, <1>9, <1>10

(* SleepOnWake preserves the inductive invariant. *)
LEMMA SleepOnWakeStep == ASSUME IInv, NEW w \in Workers, SleepOnWake(w) PROVE IInv'
<1> USE ThreadFacts, BoundsAssumption DEF IInv, SleepOnWake, Stopping, Goto, fields, locals, history
<1>1. TypeOK'
  BY DEF TypeOK, WorkerPC, CallerPC
<1>2. LockInv'
  BY DEF TypeOK, LockInv, HoldsRunLock
<1>3. PhaseInv'
  BY DEF TypeOK, PhaseInv
<1>4. Out' = Out
  BY DEF TypeOK, Out, WorkerInv
<1>5. FieldsInv'
  BY <1>4 DEF TypeOK, FieldsInv, LockInv, CallerInv, CallerOK, WorkerInv, HoldsRunLock, Published
<1>6. WorkerInv'
  BY DEF TypeOK, WorkerInv, FieldsInv, PhaseInv
<1>7. CallerInv'
  BY CallerFrame DEF TypeOK, CallerInv
<1>8. TaskInv'
  BY TaskFrame DEF TypeOK, Published, HoldsRunLock
<1>9. ThrewInv'
  BY DEF TypeOK, ThrewInv, LockInv, FieldsInv, WorkerInv, CallerInv, HoldsRunLock, Published
<1>10. RunIsComplete'
  BY DEF TypeOK, RunIsComplete, CallerInv, CallerOK
<1>11. QED
  BY <1>1, <1>2, <1>3, <1>5, <1>6, <1>7, <1>8, <1>9, <1>10

(* FinishGeneration preserves the inductive invariant. *)
LEMMA FinishGenerationStep == ASSUME IInv, NEW w \in Workers, FinishGeneration(w) PROVE IInv'
<1> USE ThreadFacts, BoundsAssumption DEF IInv, Goto, fields, locals, history
<1>a. body \in Callers /\ pc[body] \in Published /\ w \in Out
  BY AtWork DEF Out, FinishGeneration
<1>b. running = Cardinality(Out) /\ running \in 1 .. Size
  BY <1>a, WorkerCount, OutSubset DEF FieldsInv
<1>c. /\ pc[w] = "finish" /\ running' = running - 1
      /\ UNCHANGED <<phase, run_lock, body, tasks, next, generation, failure, locals, history>>
      /\ pc' \in [Threads -> WorkerPC \cup CallerPC]
      /\ \A v \in Workers : pc'[v] = IF v = w THEN "check" ELSE pc[v]
      /\ \A c \in Callers : \/ pc'[c] = pc[c]
                            \/ pc[c] = "asleep" /\ pc'[c] = "await"
  BY DEF FinishGeneration, TypeOK, WorkerPC, CallerPC
<1> USE <1>c
<1>1. TypeOK'
  BY <1>b DEF TypeOK, WorkerPC, CallerPC
<1>2. LockInv'
  BY DEF TypeOK, LockInv, HoldsRunLock
<1>3. PhaseInv'
  BY DEF TypeOK, PhaseInv
<1>4. Out' = Out \ {w} /\ running' = Cardinality(Out')
  <2>1. Out' = Out \ {w}
    BY DEF TypeOK, Out, WorkerInv
  <2>2. QED
    BY <2>1, <1>a, <1>b, WorkerCount, OutSubset
<1>5. FieldsInv'
  BY <1>4, <1>a DEF TypeOK, FieldsInv, Published, HoldsRunLock
<1>6. WorkerInv'
  BY DEF TypeOK, WorkerInv, FieldsInv, PhaseInv
<1>7. CallerInv'
  <2>1. ASSUME NEW c \in Callers PROVE CallerOK(c)'
    <3>1. CASE pc'[c] = pc[c]
      BY <3>1, CallerFrame DEF TypeOK, CallerInv
    <3>2. CASE pc[c] = "asleep" /\ pc'[c] = "await"
      BY <3>2 DEF TypeOK, CallerInv, CallerOK, Inline
    <3>3. QED
      BY <3>1, <3>2
  <2>2. QED
    BY <2>1 DEF CallerInv
<1>8. TaskInv'
  BY TaskFrame DEF TypeOK, Published, HoldsRunLock
<1>9. ThrewInv'
  BY DEF TypeOK, ThrewInv, LockInv, FieldsInv, WorkerInv, CallerInv, HoldsRunLock, Published
<1>10. RunIsComplete'
  BY DEF TypeOK, RunIsComplete, CallerInv, CallerOK
<1>11. QED
  BY <1>1, <1>2, <1>3, <1>5, <1>6, <1>7, <1>8, <1>9, <1>10

(* SpuriousWake preserves the inductive invariant. *)
LEMMA SpuriousWakeStep == ASSUME IInv, NEW t \in Threads, SpuriousWake(t) PROVE IInv'
<1> USE ThreadFacts, BoundsAssumption DEF IInv, SpuriousWake, Goto, fields, locals, history
<1>1. TypeOK'
  BY DEF TypeOK, WorkerPC, CallerPC
<1>2. LockInv'
  BY DEF TypeOK, LockInv, HoldsRunLock
<1>3. PhaseInv'
  BY DEF TypeOK, PhaseInv
<1>4. Out' = Out
  BY DEF TypeOK, Out, WorkerInv
<1>5. FieldsInv'
  BY <1>4 DEF TypeOK, FieldsInv, LockInv, CallerInv, CallerOK, WorkerInv, HoldsRunLock, Published
<1>6. WorkerInv'
  BY DEF TypeOK, WorkerInv, FieldsInv, PhaseInv
<1>7. CallerInv'
  <2>1. \A c \in Callers \ {t} : CallerOK(c)'
    BY CallerFrame DEF TypeOK, CallerInv
  <2>2. t \in Callers => CallerOK(t)'
    BY DEF TypeOK, CallerInv, CallerOK, Inline
  <2>3. QED
    BY <2>1, <2>2 DEF CallerInv
<1>8. TaskInv'
  BY TaskFrame DEF TypeOK, Published, HoldsRunLock
<1>9. ThrewInv'
  BY DEF TypeOK, ThrewInv, LockInv, FieldsInv, WorkerInv, CallerInv, HoldsRunLock, Published
<1>10. RunIsComplete'
  BY DEF TypeOK, RunIsComplete, CallerInv, CallerOK
<1>11. QED
  BY <1>1, <1>2, <1>3, <1>5, <1>6, <1>7, <1>8, <1>9, <1>10

(* ClaimTask preserves the inductive invariant. *)
LEMMA ClaimTaskStep == ASSUME IInv, NEW t \in Threads, ClaimTask(t) PROVE IInv'
<1> USE ThreadFacts, BoundsAssumption DEF IInv, ClaimTask, TaskLeft, Goto, fields, locals, history
<1>a. my_body[t] = body /\ body \in Callers /\ pc[body] \in Published /\ (t \in Callers => t = body)
  BY AtWork
<1>1. TypeOK'
  BY DEF TypeOK, WorkerPC, CallerPC
<1>2. LockInv'
  BY DEF TypeOK, LockInv, HoldsRunLock
<1>3. PhaseInv'
  BY DEF TypeOK, PhaseInv
<1>4. Out' = Out
  BY DEF TypeOK, Out, WorkerInv
<1>5. FieldsInv'
  BY <1>4 DEF TypeOK, FieldsInv, LockInv, CallerInv, CallerOK, WorkerInv, HoldsRunLock, Published
<1>6. WorkerInv'
  BY DEF TypeOK, WorkerInv, FieldsInv, PhaseInv
<1>7. CallerInv'
  <2>1. ASSUME NEW d \in Callers PROVE CallerOK(d)'
    <3>1. CASE d # body
      BY <3>1, <1>a, OnePublished, CallerFrame DEF TypeOK, CallerInv, Published, HoldsRunLock
    <3>2. CASE d = body
      BY <3>2, <1>a, SMTT(40) DEF TypeOK, CallerInv, CallerOK, Inline, FieldsInv
    <3>3. QED
      BY <3>1, <3>2
  <2>2. QED
    BY <2>1 DEF CallerInv
<1>8. TaskInv'
  <2>1. ASSUME NEW u \in Threads, pc'[u] = "body"
        PROVE  /\ my_task'[u] < next' /\ my_task'[u] \notin done[my_body[u]]
               /\ \A v \in Threads \ {u} : pc'[v] = "body" => my_task'[v] # my_task'[u]
    <3>1. CASE u = t
      BY <3>1, <1>a DEF TypeOK, TaskInv
    <3>2. CASE u # t
      BY <3>2, <2>1 DEF TypeOK, TaskInv
    <3>3. QED
      BY <3>1, <3>2
  <2>2. \A u \in Threads : pc[u] = "body" => pc'[u] = "body" /\ my_task'[u] = my_task[u]
    BY DEF TypeOK
  <2>3. pc'[t] = "body" /\ my_task'[t] = next
    BY DEF TypeOK
  <2>4. \A d \in Callers : pc'[d] \in Published => pc[d] \in Published
    BY DEF TypeOK, Published, HoldsRunLock
  <2>5. ASSUME NEW d \in Callers, pc'[d] \in Published, NEW k \in TaskSet(want[d])
        PROVE  \/ k >= next' \/ k \in done[d] \/ d \in threw
               \/ \E u \in Threads : pc'[u] = "body" /\ my_task'[u] = k
    <3>1. CASE k = next
      BY <3>1, <2>3
    <3>2. CASE k # next
      BY <3>2, <2>2, <2>4, <2>5 DEF TypeOK, TaskInv
    <3>3. QED
      BY <3>1, <3>2
  <2>6. \A d \in Callers : pc'[d] \in Published => \A k \in done[d] : k < next'
    BY <2>4 DEF TypeOK, TaskInv
  <2>7. QED
    BY <2>1, <2>5, <2>6 DEF TaskInv
<1>9. ThrewInv'
  BY DEF TypeOK, ThrewInv, LockInv, FieldsInv, WorkerInv, CallerInv, HoldsRunLock, Published
<1>10. RunIsComplete'
  BY DEF TypeOK, RunIsComplete, CallerInv, CallerOK
<1>11. QED
  BY <1>1, <1>2, <1>3, <1>5, <1>6, <1>7, <1>8, <1>9, <1>10

(* NothingLeft preserves the inductive invariant. *)
LEMMA NothingLeftStep == ASSUME IInv, NEW t \in Threads, NothingLeft(t) PROVE IInv'
<1> USE ThreadFacts, BoundsAssumption DEF IInv, NothingLeft, TaskLeft, LeaveDrain, Goto, fields, locals, history
<1>1. TypeOK'
  BY DEF TypeOK, WorkerPC, CallerPC
<1>2. LockInv'
  BY DEF TypeOK, LockInv, HoldsRunLock
<1>3. PhaseInv'
  BY DEF TypeOK, PhaseInv
<1>4. Out' = Out
  BY DEF TypeOK, Out, WorkerInv
<1>5. FieldsInv'
  BY <1>4 DEF TypeOK, FieldsInv, LockInv, CallerInv, CallerOK, WorkerInv, HoldsRunLock, Published
<1>6. WorkerInv'
  BY DEF TypeOK, WorkerInv, FieldsInv, PhaseInv
<1>7. CallerInv'
  <2>1. \A c \in Callers \ {t} : CallerOK(c)'
    BY CallerFrame DEF TypeOK, CallerInv
  <2>2. t \in Callers => CallerOK(t)'
    BY DEF TypeOK, CallerInv, CallerOK, Inline
  <2>3. QED
    BY <2>1, <2>2 DEF CallerInv
<1>8. TaskInv'
  BY TaskFrame DEF TypeOK, Published, HoldsRunLock
<1>9. ThrewInv'
  BY DEF TypeOK, ThrewInv, LockInv, FieldsInv, WorkerInv, CallerInv, HoldsRunLock, Published
<1>10. RunIsComplete'
  BY DEF TypeOK, RunIsComplete, CallerInv, CallerOK
<1>11. QED
  BY <1>1, <1>2, <1>3, <1>5, <1>6, <1>7, <1>8, <1>9, <1>10

(* BodyReturns preserves the inductive invariant. *)
LEMMA BodyReturnsStep == ASSUME IInv, NEW t \in Threads, BodyReturns(t) PROVE IInv'
<1> USE ThreadFacts, BoundsAssumption DEF IInv, BodyReturns, Goto, fields, locals, history
<1>a. my_body[t] = body /\ body \in Callers /\ pc[body] \in Published /\ (t \in Callers => t = body)
  BY AtWork
<1>1. TypeOK'
  BY <1>a DEF TypeOK, WorkerPC, CallerPC
<1>2. LockInv'
  BY DEF TypeOK, LockInv, HoldsRunLock
<1>3. PhaseInv'
  BY DEF TypeOK, PhaseInv
<1>4. Out' = Out
  BY DEF TypeOK, Out, WorkerInv
<1>5. FieldsInv'
  BY <1>4 DEF TypeOK, FieldsInv, LockInv, CallerInv, CallerOK, WorkerInv, HoldsRunLock, Published
<1>6. WorkerInv'
  BY DEF TypeOK, WorkerInv, FieldsInv, PhaseInv
<1>7. CallerInv'
  <2>1. ASSUME NEW d \in Callers PROVE CallerOK(d)'
    <3>1. CASE d # body
      BY <3>1, <1>a, CallerFrame DEF TypeOK, CallerInv
    <3>2. CASE d = body
      BY <3>2, <1>a DEF TypeOK, CallerInv, CallerOK, Inline, Published, HoldsRunLock
    <3>3. QED
      BY <3>1, <3>2
  <2>2. QED
    BY <2>1 DEF CallerInv
<1>8. TaskInv'
  <2>1. ASSUME NEW u \in Threads, pc'[u] = "body"
        PROVE  /\ my_task[u] < next /\ my_task[u] \notin done'[my_body[u]]
               /\ \A v \in Threads \ {u} : pc'[v] = "body" => my_task[v] # my_task[u]
    <3>1. u # t /\ pc[u] = "body" /\ my_body[u] = body
      BY <2>1, AtWork DEF TypeOK
    <3>2. QED
      BY <3>1, <1>a DEF TypeOK, TaskInv
  <2>2. ASSUME NEW d \in Callers, pc'[d] \in Published
        PROVE  /\ d = body /\ pc[d] \in Published
               /\ done'[d] = done[d] \cup {my_task[t]}
               /\ my_task[t] < next
    <3>1. pc[d] \in Published
      BY <2>2 DEF TypeOK, Published, HoldsRunLock
    <3>2. d = body
      BY <3>1 DEF FieldsInv
    <3>3. QED
      BY <3>1, <3>2, <1>a DEF TypeOK, TaskInv
  <2>3. ASSUME NEW d \in Callers, pc'[d] \in Published, NEW k \in TaskSet(want[d])
        PROVE  \/ k >= next \/ k \in done'[d] \/ d \in threw
               \/ \E u \in Threads : pc'[u] = "body" /\ my_task[u] = k
    <3>1. CASE \E u \in Threads \ {t} : pc[u] = "body" /\ my_task[u] = k
      BY <3>1 DEF TypeOK
    <3>2. CASE ~ \E u \in Threads \ {t} : pc[u] = "body" /\ my_task[u] = k
      BY <2>2, <2>3, <3>2 DEF TypeOK, TaskInv
    <3>3. QED
      BY <3>1, <3>2
  <2>4. \A d \in Callers : pc'[d] \in Published => \A k \in done'[d] : k < next
    BY <2>2 DEF TaskInv
  <2>5. QED
    BY <2>1, <2>3, <2>4 DEF TaskInv
<1>9. ThrewInv'
  BY DEF TypeOK, ThrewInv, LockInv, FieldsInv, WorkerInv, CallerInv, HoldsRunLock, Published
<1>10. RunIsComplete'
  <2>1. result[body] = "none"
    BY <1>a DEF CallerInv, CallerOK, Published, HoldsRunLock
  <2>2. QED
    BY <2>1, <1>a DEF TypeOK, RunIsComplete
<1>11. QED
  BY <1>1, <1>2, <1>3, <1>5, <1>6, <1>7, <1>8, <1>9, <1>10

(* BodyThrows preserves the inductive invariant. *)
LEMMA BodyThrowsStep == ASSUME IInv, NEW t \in Threads, BodyThrows(t) PROVE IInv'
<1> USE ThreadFacts, BoundsAssumption DEF IInv, BodyThrows, Goto, fields, locals, history
<1>a. my_body[t] = body /\ body \in Callers /\ pc[body] \in Published /\ (t \in Callers => t = body)
  BY AtWork
<1>1. TypeOK'
  BY <1>a DEF TypeOK, WorkerPC, CallerPC
<1>2. LockInv'
  BY DEF TypeOK, LockInv, HoldsRunLock
<1>3. PhaseInv'
  BY DEF TypeOK, PhaseInv
<1>4. Out' = Out
  BY DEF TypeOK, Out, WorkerInv
<1>5. FieldsInv'
  BY <1>4 DEF TypeOK, FieldsInv, LockInv, CallerInv, CallerOK, WorkerInv, HoldsRunLock, Published
<1>6. WorkerInv'
  BY DEF TypeOK, WorkerInv, FieldsInv, PhaseInv
<1>7. CallerInv'
  <2>1. ASSUME NEW d \in Callers PROVE CallerOK(d)'
    <3>1. CASE d # body
      BY <3>1, <1>a, CallerFrame DEF TypeOK, CallerInv
    <3>2. CASE d = body
      BY <3>2, <1>a DEF TypeOK, CallerInv, CallerOK, Inline, Published, HoldsRunLock
    <3>3. QED
      BY <3>1, <3>2
  <2>2. QED
    BY <2>1 DEF CallerInv
<1>8. TaskInv'
  BY <1>a, AtWork DEF TypeOK, TaskInv, LockInv, FieldsInv, WorkerInv, CallerInv, HoldsRunLock, Published
<1>9. ThrewInv'
  BY DEF TypeOK, ThrewInv, LockInv, FieldsInv, WorkerInv, CallerInv, HoldsRunLock, Published
<1>10. RunIsComplete'
  <2>1. result[body] = "none"
    BY <1>a DEF CallerInv, CallerOK, Published, HoldsRunLock
  <2>2. QED
    BY <2>1, <1>a DEF TypeOK, RunIsComplete
<1>11. QED
  BY <1>1, <1>2, <1>3, <1>5, <1>6, <1>7, <1>8, <1>9, <1>10

(* KeepFailure preserves the inductive invariant. *)
LEMMA KeepFailureStep == ASSUME IInv, NEW t \in Threads, KeepFailure(t) PROVE IInv'
<1> USE ThreadFacts, BoundsAssumption DEF IInv, KeepFailure, FirstFailure, GiveUpUnclaimed, LeaveDrain, Goto, fields, locals, history
<1>a. my_body[t] = body /\ body \in Callers /\ pc[body] \in Published /\ (t \in Callers => t = body)
  BY AtWork
<1>1. TypeOK'
  BY DEF TypeOK, WorkerPC, CallerPC
<1>2. LockInv'
  BY DEF TypeOK, LockInv, HoldsRunLock
<1>3. PhaseInv'
  BY DEF TypeOK, PhaseInv
<1>4. Out' = Out
  BY DEF TypeOK, Out, WorkerInv
<1>5. FieldsInv'
  BY <1>4, <1>a DEF TypeOK, FieldsInv, LockInv, ThrewInv, HoldsRunLock, Published
<1>6. WorkerInv'
  BY DEF TypeOK, WorkerInv, FieldsInv, PhaseInv
<1>7. CallerInv'
  <2>1. ASSUME NEW d \in Callers PROVE CallerOK(d)'
    <3>1. CASE d # body
      BY <3>1, <1>a, OnePublished, CallerFrame DEF TypeOK, CallerInv, Published, HoldsRunLock
    <3>2. CASE d = body
      BY <3>2, <1>a DEF TypeOK, CallerInv, CallerOK, Inline, FieldsInv
    <3>3. QED
      BY <3>1, <3>2
  <2>2. QED
    BY <2>1 DEF CallerInv
<1>8. TaskInv'
  <2>1. \A u \in Threads : pc'[u] = "body" => pc[u] = "body" /\ my_task'[u] = my_task[u] /\ my_body'[u] = my_body[u]
    BY DEF TypeOK
  <2>2. \A u \in Threads : pc[u] = "body" => u # t /\ pc'[u] = "body" /\ my_task'[u] = my_task[u]
    BY DEF TypeOK
  <2>3. \A c \in Callers : pc'[c] \in Published => pc[c] \in Published
    BY DEF TypeOK, Published, HoldsRunLock
  <2>4. next' >= next
    BY <1>a DEF TypeOK, FieldsInv
  <2>5. ASSUME NEW u \in Threads, pc'[u] = "body"
        PROVE  /\ my_task'[u] < next' /\ my_task'[u] \notin done[my_body'[u]]
               /\ \A v \in Threads \ {u} : pc'[v] = "body" => my_task'[v] # my_task'[u]
    BY <2>1, <2>4, <2>5 DEF TypeOK, TaskInv
  <2>6. ASSUME NEW c \in Callers, pc'[c] \in Published
        PROVE  /\ c \in threw
               /\ \A k \in done[c] : k < next'
    <3>1. pc[c] \in Published /\ c = body
      BY <2>3, <2>6 DEF FieldsInv
    <3>2. c \in threw
      BY <3>1, <1>a DEF ThrewInv
    <3>3. QED
      BY <3>1, <3>2, <2>4 DEF TypeOK, TaskInv
  <2>7. QED
    BY <2>5, <2>6 DEF TaskInv
<1>9. ThrewInv'
  <2>1. \A u \in Threads : pc'[u] = "caught" => pc[u] = "caught" /\ my_body'[u] = my_body[u]
    BY DEF TypeOK
  <2>2. ASSUME NEW c \in Callers, pc'[c] \in Published PROVE failure' = c
    <3>1. pc[c] \in Published
      BY <2>2 DEF TypeOK, Published, HoldsRunLock
    <3>2. c = body /\ failure \in {None, c}
      BY <3>1 DEF FieldsInv
    <3>3. QED
      BY <3>2, <1>a
  <2>3. QED
    BY <2>1, <2>2 DEF ThrewInv
<1>10. RunIsComplete'
  BY DEF TypeOK, RunIsComplete, CallerInv, CallerOK
<1>11. QED
  BY <1>1, <1>2, <1>3, <1>5, <1>6, <1>7, <1>8, <1>9, <1>10

(* RunNothing preserves the inductive invariant. *)
LEMMA RunNothingStep == ASSUME IInv, NEW c \in Callers, NEW n \in 0 .. MaxTasks, RunNothing(c, n) PROVE IInv'
<1> USE ThreadFacts, BoundsAssumption DEF IInv, RunNothing, EnterRun, Goto, fields, locals, history
<1>1. TypeOK'
  BY DEF TypeOK, WorkerPC, CallerPC
<1>2. LockInv'
  BY DEF TypeOK, LockInv, HoldsRunLock
<1>3. PhaseInv'
  BY DEF TypeOK, PhaseInv
<1>4. Out' = Out
  BY DEF TypeOK, Out, WorkerInv
<1>5. FieldsInv'
  BY <1>4 DEF TypeOK, FieldsInv, LockInv, CallerInv, CallerOK, WorkerInv, HoldsRunLock, Published
<1>6. WorkerInv'
  BY DEF TypeOK, WorkerInv, FieldsInv, PhaseInv
<1>7. CallerInv'
  <2>1. CallerOK(c)'
    BY DEF TypeOK, CallerInv, CallerOK, Inline
  <2>2. \A d \in Callers \ {c} : CallerOK(d)'
    BY CallerFrame DEF TypeOK, CallerInv
  <2>3. QED
    BY <2>1, <2>2 DEF CallerInv
<1>8. TaskInv'
  BY TaskFrame, AtWork DEF TypeOK, Published, HoldsRunLock
<1>9. ThrewInv'
  <2>1. \A t \in Threads : pc[t] = "caught" => my_body[t] # c /\ t # c
    BY AtWork DEF Published, HoldsRunLock
  <2>2. QED
    BY <2>1 DEF TypeOK, ThrewInv, Published, HoldsRunLock
<1>10. RunIsComplete'
  BY DEF TypeOK, RunIsComplete, CallerInv, CallerOK
<1>11. QED
  BY <1>1, <1>2, <1>3, <1>5, <1>6, <1>7, <1>8, <1>9, <1>10

(* RunInline preserves the inductive invariant. *)
LEMMA RunInlineStep == ASSUME IInv, NEW c \in Callers, NEW n \in 0 .. MaxTasks, RunInline(c, n) PROVE IInv'
<1> USE ThreadFacts, BoundsAssumption DEF IInv, RunInline, EnterRun, Goto, fields, locals, history
<1>1. TypeOK'
  BY DEF TypeOK, WorkerPC, CallerPC
<1>2. LockInv'
  BY DEF TypeOK, LockInv, HoldsRunLock
<1>3. PhaseInv'
  BY DEF TypeOK, PhaseInv
<1>4. Out' = Out
  BY DEF TypeOK, Out, WorkerInv
<1>5. FieldsInv'
  BY <1>4 DEF TypeOK, FieldsInv, LockInv, CallerInv, CallerOK, WorkerInv, HoldsRunLock, Published
<1>6. WorkerInv'
  BY DEF TypeOK, WorkerInv, FieldsInv, PhaseInv
<1>7. CallerInv'
  <2>1. CallerOK(c)'
    BY DEF TypeOK, CallerInv, CallerOK, Inline
  <2>2. \A d \in Callers \ {c} : CallerOK(d)'
    BY CallerFrame DEF TypeOK, CallerInv
  <2>3. QED
    BY <2>1, <2>2 DEF CallerInv
<1>8. TaskInv'
  BY TaskFrame, AtWork DEF TypeOK, Published, HoldsRunLock
<1>9. ThrewInv'
  <2>1. \A t \in Threads : pc[t] = "caught" => my_body[t] # c /\ t # c
    BY AtWork DEF Published, HoldsRunLock
  <2>2. QED
    BY <2>1 DEF TypeOK, ThrewInv, Published, HoldsRunLock
<1>10. RunIsComplete'
  BY DEF TypeOK, RunIsComplete, CallerInv, CallerOK
<1>11. QED
  BY <1>1, <1>2, <1>3, <1>5, <1>6, <1>7, <1>8, <1>9, <1>10

(* RunPooled preserves the inductive invariant. *)
LEMMA RunPooledStep == ASSUME IInv, NEW c \in Callers, NEW n \in 0 .. MaxTasks, RunPooled(c, n) PROVE IInv'
<1> USE ThreadFacts, BoundsAssumption DEF IInv, RunPooled, EnterRun, Goto, fields, locals, history
<1>1. TypeOK'
  BY DEF TypeOK, WorkerPC, CallerPC
<1>2. LockInv'
  BY DEF TypeOK, LockInv, HoldsRunLock
<1>3. PhaseInv'
  BY DEF TypeOK, PhaseInv
<1>4. Out' = Out
  BY DEF TypeOK, Out, WorkerInv
<1>5. FieldsInv'
  BY <1>4 DEF TypeOK, FieldsInv, LockInv, CallerInv, CallerOK, WorkerInv, HoldsRunLock, Published
<1>6. WorkerInv'
  BY DEF TypeOK, WorkerInv, FieldsInv, PhaseInv
<1>7. CallerInv'
  <2>1. CallerOK(c)'
    BY DEF TypeOK, CallerInv, CallerOK, Inline
  <2>2. \A d \in Callers \ {c} : CallerOK(d)'
    BY CallerFrame DEF TypeOK, CallerInv
  <2>3. QED
    BY <2>1, <2>2 DEF CallerInv
<1>8. TaskInv'
  BY TaskFrame, AtWork DEF TypeOK, Published, HoldsRunLock
<1>9. ThrewInv'
  <2>1. \A t \in Threads : pc[t] = "caught" => my_body[t] # c /\ t # c
    BY AtWork DEF Published, HoldsRunLock
  <2>2. QED
    BY <2>1 DEF TypeOK, ThrewInv, Published, HoldsRunLock
<1>10. RunIsComplete'
  BY DEF TypeOK, RunIsComplete, CallerInv, CallerOK
<1>11. QED
  BY <1>1, <1>2, <1>3, <1>5, <1>6, <1>7, <1>8, <1>9, <1>10

(* InlineNext preserves the inductive invariant. *)
LEMMA InlineNextStep == ASSUME IInv, NEW c \in Callers, InlineNext(c) PROVE IInv'
<1> USE ThreadFacts, BoundsAssumption DEF IInv, InlineNext, InlineTaskLeft, Goto, fields, locals, history
<1>1. TypeOK'
  BY DEF TypeOK, WorkerPC, CallerPC
<1>2. LockInv'
  BY DEF TypeOK, LockInv, HoldsRunLock
<1>3. PhaseInv'
  BY DEF TypeOK, PhaseInv
<1>4. Out' = Out
  BY DEF TypeOK, Out, WorkerInv
<1>5. FieldsInv'
  BY <1>4 DEF TypeOK, FieldsInv, LockInv, CallerInv, CallerOK, WorkerInv, HoldsRunLock, Published
<1>6. WorkerInv'
  BY DEF TypeOK, WorkerInv, FieldsInv, PhaseInv
<1>7. CallerInv'
  <2>1. CallerOK(c)'
    BY DEF TypeOK, CallerInv, CallerOK, Inline
  <2>2. \A d \in Callers \ {c} : CallerOK(d)'
    BY CallerFrame DEF TypeOK, CallerInv
  <2>3. QED
    BY <2>1, <2>2 DEF CallerInv
<1>8. TaskInv'
  BY TaskFrame DEF TypeOK, Published, HoldsRunLock
<1>9. ThrewInv'
  BY DEF TypeOK, ThrewInv, LockInv, FieldsInv, WorkerInv, CallerInv, HoldsRunLock, Published
<1>10. RunIsComplete'
  BY DEF TypeOK, RunIsComplete, CallerInv, CallerOK
<1>11. QED
  BY <1>1, <1>2, <1>3, <1>5, <1>6, <1>7, <1>8, <1>9, <1>10

(* InlineEnd preserves the inductive invariant. *)
LEMMA InlineEndStep == ASSUME IInv, NEW c \in Callers, InlineEnd(c) PROVE IInv'
<1> USE ThreadFacts, BoundsAssumption DEF IInv, InlineEnd, InlineTaskLeft, Goto, fields, locals, history
<1>1. TypeOK'
  BY DEF TypeOK, WorkerPC, CallerPC
<1>2. LockInv'
  BY DEF TypeOK, LockInv, HoldsRunLock
<1>3. PhaseInv'
  BY DEF TypeOK, PhaseInv
<1>4. Out' = Out
  BY DEF TypeOK, Out, WorkerInv
<1>5. FieldsInv'
  BY <1>4 DEF TypeOK, FieldsInv, LockInv, CallerInv, CallerOK, WorkerInv, HoldsRunLock, Published
<1>6. WorkerInv'
  BY DEF TypeOK, WorkerInv, FieldsInv, PhaseInv
<1>7. CallerInv'
  <2>1. CallerOK(c)'
    BY DEF TypeOK, CallerInv, CallerOK, Inline
  <2>2. \A d \in Callers \ {c} : CallerOK(d)'
    BY CallerFrame DEF TypeOK, CallerInv
  <2>3. QED
    BY <2>1, <2>2 DEF CallerInv
<1>8. TaskInv'
  BY TaskFrame DEF TypeOK, Published, HoldsRunLock
<1>9. ThrewInv'
  BY DEF TypeOK, ThrewInv, LockInv, FieldsInv, WorkerInv, CallerInv, HoldsRunLock, Published
<1>10. RunIsComplete'
  <2>1. done[c] = TaskSet(want[c]) /\ c \notin threw
    BY DEF TypeOK, CallerInv, CallerOK, Inline
  <2>2. QED
    BY <2>1 DEF TypeOK, RunIsComplete
<1>11. QED
  BY <1>1, <1>2, <1>3, <1>5, <1>6, <1>7, <1>8, <1>9, <1>10

(* InlineBodyReturns preserves the inductive invariant. *)
LEMMA InlineBodyReturnsStep == ASSUME IInv, NEW c \in Callers, InlineBodyReturns(c) PROVE IInv'
<1> USE ThreadFacts, BoundsAssumption DEF IInv, InlineBodyReturns, Goto, fields, locals, history
<1>1. TypeOK'
  BY DEF TypeOK, WorkerPC, CallerPC
<1>2. LockInv'
  BY DEF TypeOK, LockInv, HoldsRunLock
<1>3. PhaseInv'
  BY DEF TypeOK, PhaseInv
<1>4. Out' = Out
  BY DEF TypeOK, Out, WorkerInv
<1>5. FieldsInv'
  BY <1>4 DEF TypeOK, FieldsInv, LockInv, CallerInv, CallerOK, WorkerInv, HoldsRunLock, Published
<1>6. WorkerInv'
  BY DEF TypeOK, WorkerInv, FieldsInv, PhaseInv
<1>7. CallerInv'
  <2>1. TaskSet(my_task[c]) \cup {my_task[c]} = TaskSet(my_task[c] + 1)
    BY DEF TypeOK
  <2>2. CallerOK(c)'
    BY <2>1 DEF TypeOK, CallerInv, CallerOK, Inline
  <2>3. \A d \in Callers \ {c} : CallerOK(d)'
    BY CallerFrame DEF TypeOK, CallerInv
  <2>4. QED
    BY <2>2, <2>3 DEF CallerInv
<1>8. TaskInv'
  <2>1. \A t \in Threads : pc[t] = "body" => my_body[t] # c
    BY AtWork DEF Published, HoldsRunLock
  <2>2. QED
    BY <2>1, TaskFrame DEF TypeOK, Published, HoldsRunLock
<1>9. ThrewInv'
  BY DEF TypeOK, ThrewInv, LockInv, FieldsInv, WorkerInv, CallerInv, HoldsRunLock, Published
<1>10. RunIsComplete'
  <2>1. result[c] = "none"
    BY DEF CallerInv, CallerOK
  <2>2. QED
    BY <2>1 DEF TypeOK, RunIsComplete
<1>11. QED
  BY <1>1, <1>2, <1>3, <1>5, <1>6, <1>7, <1>8, <1>9, <1>10

(* InlineBodyThrows preserves the inductive invariant. *)
LEMMA InlineBodyThrowsStep == ASSUME IInv, NEW c \in Callers, InlineBodyThrows(c) PROVE IInv'
<1> USE ThreadFacts, BoundsAssumption DEF IInv, InlineBodyThrows, Goto, fields, locals, history
<1>1. TypeOK'
  BY DEF TypeOK, WorkerPC, CallerPC
<1>2. LockInv'
  BY DEF TypeOK, LockInv, HoldsRunLock
<1>3. PhaseInv'
  BY DEF TypeOK, PhaseInv
<1>4. Out' = Out
  BY DEF TypeOK, Out, WorkerInv
<1>5. FieldsInv'
  BY <1>4 DEF TypeOK, FieldsInv, LockInv, CallerInv, CallerOK, WorkerInv, HoldsRunLock, Published
<1>6. WorkerInv'
  BY DEF TypeOK, WorkerInv, FieldsInv, PhaseInv
<1>7. CallerInv'
  <2>1. CallerOK(c)'
    BY DEF TypeOK, CallerInv, CallerOK, Inline
  <2>2. \A d \in Callers \ {c} : CallerOK(d)'
    BY CallerFrame DEF TypeOK, CallerInv
  <2>3. QED
    BY <2>1, <2>2 DEF CallerInv
<1>8. TaskInv'
  BY TaskFrame DEF TypeOK, Published, HoldsRunLock
<1>9. ThrewInv'
  BY DEF TypeOK, ThrewInv, LockInv, FieldsInv, WorkerInv, CallerInv, HoldsRunLock, Published
<1>10. RunIsComplete'
  <2>1. result[c] = "none"
    BY DEF CallerInv, CallerOK
  <2>2. QED
    BY <2>1 DEF TypeOK, RunIsComplete
<1>11. QED
  BY <1>1, <1>2, <1>3, <1>5, <1>6, <1>7, <1>8, <1>9, <1>10

(* Unwind preserves the inductive invariant. *)
LEMMA UnwindStep == ASSUME IInv, NEW c \in Callers, Unwind(c) PROVE IInv'
<1> USE ThreadFacts, BoundsAssumption DEF IInv, Unwind, Goto, fields, locals, history
<1>1. TypeOK'
  BY DEF TypeOK, WorkerPC, CallerPC
<1>2. LockInv'
  BY DEF TypeOK, LockInv, HoldsRunLock
<1>3. PhaseInv'
  BY DEF TypeOK, PhaseInv
<1>4. Out' = Out
  BY DEF TypeOK, Out, WorkerInv
<1>5. FieldsInv'
  BY <1>4 DEF TypeOK, FieldsInv, LockInv, CallerInv, CallerOK, WorkerInv, HoldsRunLock, Published
<1>6. WorkerInv'
  BY DEF TypeOK, WorkerInv, FieldsInv, PhaseInv
<1>7. CallerInv'
  <2>1. CallerOK(c)'
    BY DEF TypeOK, CallerInv, CallerOK, Inline
  <2>2. \A d \in Callers \ {c} : CallerOK(d)'
    BY CallerFrame DEF TypeOK, CallerInv
  <2>3. QED
    BY <2>1, <2>2 DEF CallerInv
<1>8. TaskInv'
  BY TaskFrame DEF TypeOK, Published, HoldsRunLock
<1>9. ThrewInv'
  BY DEF TypeOK, ThrewInv, LockInv, FieldsInv, WorkerInv, CallerInv, HoldsRunLock, Published
<1>10. RunIsComplete'
  BY DEF TypeOK, RunIsComplete, CallerInv, CallerOK
<1>11. QED
  BY <1>1, <1>2, <1>3, <1>5, <1>6, <1>7, <1>8, <1>9, <1>10

(* LockRun preserves the inductive invariant. *)
LEMMA LockRunStep == ASSUME IInv, NEW c \in Callers, LockRun(c) PROVE IInv'
<1> USE ThreadFacts, BoundsAssumption DEF IInv, LockRun, Goto, fields, locals, history
<1>1. TypeOK'
  BY DEF TypeOK, WorkerPC, CallerPC
<1>2. LockInv'
  BY DEF TypeOK, LockInv, HoldsRunLock
<1>3. PhaseInv'
  BY DEF TypeOK, PhaseInv
<1>4. Out' = Out
  BY DEF TypeOK, Out, WorkerInv
<1>5. FieldsInv'
  BY <1>4 DEF TypeOK, FieldsInv, LockInv, CallerInv, CallerOK, WorkerInv, HoldsRunLock, Published
<1>6. WorkerInv'
  BY DEF TypeOK, WorkerInv, FieldsInv, PhaseInv
<1>7. CallerInv'
  <2>1. CallerOK(c)'
    BY DEF TypeOK, CallerInv, CallerOK, Inline
  <2>2. \A d \in Callers \ {c} : CallerOK(d)'
    BY CallerFrame DEF TypeOK, CallerInv
  <2>3. QED
    BY <2>1, <2>2 DEF CallerInv
<1>8. TaskInv'
  BY TaskFrame DEF TypeOK, Published, HoldsRunLock
<1>9. ThrewInv'
  BY DEF TypeOK, ThrewInv, LockInv, FieldsInv, WorkerInv, CallerInv, HoldsRunLock, Published
<1>10. RunIsComplete'
  BY DEF TypeOK, RunIsComplete, CallerInv, CallerOK
<1>11. QED
  BY <1>1, <1>2, <1>3, <1>5, <1>6, <1>7, <1>8, <1>9, <1>10

(* Publish preserves the inductive invariant. *)
LEMMA PublishStep == ASSUME IInv, NEW c \in Callers, Publish(c) PROVE IInv'
<1> USE ThreadFacts, BoundsAssumption DEF IInv, Publish, WorkersToWaitFor, Goto, fields, locals, history
<1>a. \A d \in Callers : pc[d] \notin Published
  BY OnePublished DEF Published, HoldsRunLock
<1>b. Out = {} /\ failure = None /\ phase = "ready"
  BY <1>a DEF FieldsInv, PhaseInv
<1>c. \A t \in Threads : pc[t] \notin {"claim", "body", "caught"}
  BY <1>a, AtWork
<1>d. done[c] = {} /\ c \notin threw
  BY DEF CallerInv, CallerOK
<1>1. TypeOK'
  BY DEF TypeOK, WorkerPC, CallerPC
<1>2. LockInv'
  BY DEF TypeOK, LockInv, HoldsRunLock
<1>3. PhaseInv'
  BY DEF TypeOK, PhaseInv
<1>4. Out' = Workers /\ running' = Cardinality(Out')
  <2>1. ASSUME NEW w \in Workers PROVE w \in Out'
    <3>1. pc[w] \in {"check", "asleep"}
      BY <1>b DEF TypeOK, PhaseInv, Out, WorkerPC
    <3>2. QED
      BY <3>1 DEF TypeOK, WorkerInv, Out
  <2>2. Out' = Workers
    BY <2>1 DEF Out
  <2>3. QED
    BY <2>2, WorkerCount
<1>5. FieldsInv'
  BY <1>4, <1>a, <1>b, OnePublished DEF TypeOK, FieldsInv, Published, HoldsRunLock
<1>6. WorkerInv'
  <2>1. \A w \in Workers : pc[w] \in {"check", "asleep"}
    BY <1>b DEF TypeOK, PhaseInv, Out, WorkerPC
  <2>2. QED
    BY <2>1 DEF TypeOK, WorkerInv
<1>7. CallerInv'
  <2>1. CallerOK(c)'
    BY DEF TypeOK, CallerInv, CallerOK, Inline
  <2>2. \A d \in Callers \ {c} : CallerOK(d)'
    BY <1>a, CallerFrame DEF TypeOK, CallerInv, Published, HoldsRunLock
  <2>3. QED
    BY <2>1, <2>2 DEF CallerInv
<1>8. TaskInv'
  BY <1>a, <1>c, <1>d DEF TypeOK, TaskInv, Published, HoldsRunLock
<1>9. ThrewInv'
  BY <1>a, <1>c, <1>d DEF TypeOK, ThrewInv, Published, HoldsRunLock
<1>10. RunIsComplete'
  BY DEF TypeOK, RunIsComplete, CallerInv, CallerOK
<1>11. QED
  BY <1>1, <1>2, <1>3, <1>5, <1>6, <1>7, <1>8, <1>9, <1>10

(* NotifyWorkers preserves the inductive invariant. *)
LEMMA NotifyWorkersStep == ASSUME IInv, NEW c \in Callers, NotifyWorkers(c) PROVE IInv'
<1> USE ThreadFacts, BoundsAssumption DEF IInv, WakeAll, Goto, fields, locals, history
<1>a. /\ pc[c] = "notify" /\ UNCHANGED <<phase, run_lock, fields, locals, history>>
      /\ pc' \in [Threads -> WorkerPC \cup CallerPC]
      /\ \A w \in Workers : pc'[w] = IF pc[w] = "asleep" THEN "check" ELSE pc[w]
      /\ \A d \in Callers : pc'[d] = IF d = c THEN "claim" ELSE pc[d]
  BY DEF NotifyWorkers, TypeOK, WorkerPC, CallerPC
<1> USE <1>a
<1>1. TypeOK'
  BY DEF TypeOK, WorkerPC, CallerPC
<1>2. LockInv'
  BY DEF TypeOK, LockInv, HoldsRunLock
<1>3. PhaseInv'
  BY DEF TypeOK, PhaseInv
<1>4. Out' = Out
  BY DEF TypeOK, Out, WorkerInv
<1>5. FieldsInv'
  <2>1. \A d \in Callers : pc'[d] \in Published <=> pc[d] \in Published
    BY DEF Published, HoldsRunLock
  <2>2. QED
    BY <1>4, <2>1 DEF FieldsInv
<1>6. WorkerInv'
  BY DEF TypeOK, WorkerInv, FieldsInv, PhaseInv
<1>7. CallerInv'
  <2>1. CallerOK(c)'
    BY DEF TypeOK, CallerInv, CallerOK, Inline
  <2>2. \A d \in Callers \ {c} : CallerOK(d)'
    BY CallerFrame DEF TypeOK, CallerInv
  <2>3. QED
    BY <2>1, <2>2 DEF CallerInv
<1>8. TaskInv'
  BY TaskFrame DEF TypeOK, Published, HoldsRunLock
<1>9. ThrewInv'
  BY DEF TypeOK, ThrewInv, LockInv, FieldsInv, WorkerInv, CallerInv, HoldsRunLock, Published
<1>10. RunIsComplete'
  BY DEF TypeOK, RunIsComplete, CallerInv, CallerOK
<1>11. QED
  BY <1>1, <1>2, <1>3, <1>5, <1>6, <1>7, <1>8, <1>9, <1>10

(* SleepOnDone preserves the inductive invariant. *)
LEMMA SleepOnDoneStep == ASSUME IInv, NEW c \in Callers, SleepOnDone(c) PROVE IInv'
<1> USE ThreadFacts, BoundsAssumption DEF IInv, SleepOnDone, WorkersOut, Goto, fields, locals, history
<1>1. TypeOK'
  BY DEF TypeOK, WorkerPC, CallerPC
<1>2. LockInv'
  BY DEF TypeOK, LockInv, HoldsRunLock
<1>3. PhaseInv'
  BY DEF TypeOK, PhaseInv
<1>4. Out' = Out
  BY DEF TypeOK, Out, WorkerInv
<1>5. FieldsInv'
  BY <1>4 DEF TypeOK, FieldsInv, LockInv, CallerInv, CallerOK, WorkerInv, HoldsRunLock, Published
<1>6. WorkerInv'
  BY DEF TypeOK, WorkerInv, FieldsInv, PhaseInv
<1>7. CallerInv'
  <2>1. CallerOK(c)'
    BY DEF TypeOK, CallerInv, CallerOK, Inline, WorkersOut
  <2>2. \A d \in Callers \ {c} : CallerOK(d)'
    BY CallerFrame DEF TypeOK, CallerInv
  <2>3. QED
    BY <2>1, <2>2 DEF CallerInv
<1>8. TaskInv'
  BY TaskFrame DEF TypeOK, Published, HoldsRunLock
<1>9. ThrewInv'
  BY DEF TypeOK, ThrewInv, LockInv, FieldsInv, WorkerInv, CallerInv, HoldsRunLock, Published
<1>10. RunIsComplete'
  BY DEF TypeOK, RunIsComplete, CallerInv, CallerOK
<1>11. QED
  BY <1>1, <1>2, <1>3, <1>5, <1>6, <1>7, <1>8, <1>9, <1>10

(* TakeDown preserves the inductive invariant. *)
LEMMA TakeDownStep == ASSUME IInv, NEW c \in Callers, TakeDown(c) PROVE IInv'
<1> USE ThreadFacts, BoundsAssumption DEF IInv, TakeDown, WorkersOut, TakeFailure, Goto, fields, locals, history
<1>a. body = c /\ tasks = want[c] /\ next = tasks /\ pc[c] \in Published
  <2>1. pc[c] \in Published
    BY DEF Published, HoldsRunLock
  <2>2. body = c /\ tasks = want[c] /\ next <= tasks
    BY <2>1 DEF FieldsInv
  <2>3. next >= tasks
    BY DEF CallerInv, CallerOK
  <2>4. QED
    BY <2>1, <2>2, <2>3 DEF TypeOK
<1>b. Out = {}
  <2>1. Cardinality(Out) = 0
    BY <1>a DEF FieldsInv
  <2>2. QED
    BY <2>1, WorkerCount, OutSubset
<1>c. \A d \in Callers : pc[d] \in Published => d = c
  BY <1>a DEF FieldsInv
<1>d. \A t \in Threads : pc[t] \notin {"claim", "body", "caught"}
  BY <1>a, <1>b, AtWork DEF Out
<1>1. TypeOK'
  BY DEF TypeOK, WorkerPC, CallerPC
<1>2. LockInv'
  BY DEF TypeOK, LockInv, HoldsRunLock
<1>3. PhaseInv'
  BY DEF TypeOK, PhaseInv
<1>4. Out' = Out
  BY DEF TypeOK, Out, WorkerInv
<1>5. FieldsInv'
  BY <1>4, <1>b, <1>c DEF TypeOK, FieldsInv, Published, HoldsRunLock
<1>6. WorkerInv'
  BY <1>d DEF TypeOK, WorkerInv
<1>7. CallerInv'
  <2>1. ASSUME c \notin threw PROVE done[c] = TaskSet(want[c])
    <3>1. \A k \in done[c] : k \in TaskSet(want[c])
      BY <1>a DEF TypeOK, TaskInv
    <3>2. \A k \in TaskSet(want[c]) : k \in done[c]
      BY <1>a, <1>d, <2>1 DEF TypeOK, TaskInv
    <3>3. QED
      BY <3>1, <3>2
  <2>2. c \in threw <=> failure # None
    BY <1>a, <1>d DEF TypeOK, ThrewInv, FieldsInv
  <2>3. CallerOK(c)'
    BY <2>1, <2>2 DEF TypeOK, CallerInv, CallerOK, Inline
  <2>4. \A d \in Callers \ {c} : CallerOK(d)'
    BY <1>c, CallerFrame DEF TypeOK, CallerInv, Published, HoldsRunLock
  <2>5. QED
    BY <2>3, <2>4 DEF CallerInv
<1>8. TaskInv'
  BY <1>c, <1>d DEF TypeOK, TaskInv, Published, HoldsRunLock
<1>9. ThrewInv'
  BY <1>c, <1>d DEF TypeOK, ThrewInv, Published, HoldsRunLock
<1>10. RunIsComplete'
  BY DEF TypeOK, RunIsComplete, CallerInv, CallerOK
<1>11. QED
  BY <1>1, <1>2, <1>3, <1>5, <1>6, <1>7, <1>8, <1>9, <1>10

(* LeaveRun preserves the inductive invariant. *)
LEMMA LeaveRunStep == ASSUME IInv, NEW c \in Callers, LeaveRun(c) PROVE IInv'
<1> USE ThreadFacts, BoundsAssumption DEF IInv, LeaveRun, Goto, fields, locals, history
<1>1. TypeOK'
  BY DEF TypeOK, WorkerPC, CallerPC
<1>2. LockInv'
  BY DEF TypeOK, LockInv, HoldsRunLock
<1>3. PhaseInv'
  BY DEF TypeOK, PhaseInv
<1>4. Out' = Out
  BY DEF TypeOK, Out, WorkerInv
<1>5. FieldsInv'
  BY <1>4 DEF TypeOK, FieldsInv, LockInv, CallerInv, CallerOK, WorkerInv, HoldsRunLock, Published
<1>6. WorkerInv'
  BY DEF TypeOK, WorkerInv, FieldsInv, PhaseInv
<1>7. CallerInv'
  <2>1. CallerOK(c)'
    BY DEF TypeOK, CallerInv, CallerOK, Inline
  <2>2. \A d \in Callers \ {c} : CallerOK(d)'
    BY CallerFrame DEF TypeOK, CallerInv
  <2>3. QED
    BY <2>1, <2>2 DEF CallerInv
<1>8. TaskInv'
  BY TaskFrame DEF TypeOK, Published, HoldsRunLock
<1>9. ThrewInv'
  BY DEF TypeOK, ThrewInv, LockInv, FieldsInv, WorkerInv, CallerInv, HoldsRunLock, Published
<1>10. RunIsComplete'
  BY DEF TypeOK, RunIsComplete, CallerInv, CallerOK
<1>11. QED
  BY <1>1, <1>2, <1>3, <1>5, <1>6, <1>7, <1>8, <1>9, <1>10

(* The whole invariant is inductive. *)
LEMMA NextIInv == IInv /\ [Next]_vars => IInv'
<1> SUFFICES ASSUME IInv, [Next]_vars PROVE IInv'
  OBVIOUS
<1>1. CASE StartWorker \/ AllStarted \/ StartRefused \/ Destroy
  BY <1>1, StartWorkerStep, AllStartedStep, StartRefusedStep, DestroyStep
<1>2. CASE StopStep
  BY <1>2, NotifyStopStep, JoinedStep DEF StopStep
<1>3. ASSUME NEW t \in Threads, DrainTasks(t) PROVE IInv'
  BY <1>3, ClaimTaskStep, NothingLeftStep, BodyReturnsStep, BodyThrowsStep,
     KeepFailureStep DEF DrainTasks
<1>4. ASSUME NEW w \in Workers, WorkerStep(w) PROVE IInv'
  BY <1>3, <1>4, ThreadFacts, WakeToStopStep, WakeToWorkStep, SleepOnWakeStep,
     FinishGenerationStep DEF WorkerStep
<1>5. ASSUME NEW t \in Threads, SpuriousWake(t) PROVE IInv'
  BY <1>5, SpuriousWakeStep
<1>6. ASSUME NEW c \in Callers, StartRun(c) PROVE IInv'
  BY <1>6, RunNothingStep, RunInlineStep, RunPooledStep DEF StartRun
<1>7. ASSUME NEW c \in Callers, RunStep(c) PROVE IInv'
  BY <1>3, <1>7, ThreadFacts, InlineNextStep, InlineEndStep, InlineBodyReturnsStep,
     InlineBodyThrowsStep, UnwindStep, LockRunStep, PublishStep, NotifyWorkersStep,
     SleepOnDoneStep, TakeDownStep, LeaveRunStep DEF RunStep
<1>8. CASE UNCHANGED vars
  <2> USE <1>8 DEF vars
  <2>1. Out' = Out
    BY DEF Out
  <2>2. TypeOK' /\ LockInv' /\ PhaseInv' /\ RunIsComplete'
    BY DEF IInv, TypeOK, LockInv, PhaseInv, RunIsComplete
  <2>3. FieldsInv' /\ WorkerInv'
    BY <2>1 DEF IInv, FieldsInv, WorkerInv
  <2>4. CallerInv' /\ TaskInv' /\ ThrewInv'
    BY DEF IInv, CallerInv, CallerOK, TaskInv, ThrewInv
  <2>5. QED
    BY <2>2, <2>3, <2>4 DEF IInv
<1>9. QED
  BY <1>1, <1>2, <1>4, <1>5, <1>6, <1>7, <1>8 DEF Next, Terminated

(* The inductive invariant holds of every pool: any number of workers, any   *)
(* callers, any number of Runs and of tasks.                                *)
THEOREM Inductive == Spec => []IInv
<1>1. QED
  BY InitIInv, NextIInv, PTL DEF Spec

(* The pool's state has its type in every reachable state; _running, an     *)
(* unsigned count, never goes below zero or above the number of workers.    *)
THEOREM TypeCorrect == Spec => []TypeOK
<1>1. IInv => TypeOK
  BY DEF IInv
<1>2. QED
  BY <1>1, Inductive, PTL

(* WorkPool::Run waits for the workers: no worker holds the body of a Run   *)
(* that is not published.                                                   *)
THEOREM NoStaleBodyEver == Spec => []NoStaleBody
<1>1. IInv => NoStaleBody
  BY AtWork, ThreadFacts DEF NoStaleBody, WorksFor, Published, HoldsRunLock
<1>2. QED
  BY <1>1, Inductive, PTL

(* DrainTasks gives every task to one thread, once. *)
THEOREM TaskRunsOnceEver == Spec => []TaskRunsOnce
<1>1. ASSUME IInv PROVE TaskRunsOnce
  <2> SUFFICES ASSUME NEW t \in Threads, InBody(t)
               PROVE  /\ my_task[t] \in TaskSet(want[my_body[t]])
                      /\ my_task[t] \notin done[my_body[t]]
                      /\ \A u \in Threads \ {t} :
                            InBody(u) /\ my_body[u] = my_body[t]
                              => my_task[u] # my_task[t]
    BY DEF TaskRunsOnce
  <2>1. CASE pc[t] = "body"
    <3>1. my_body[t] = body /\ body \in Callers /\ pc[body] \in Published
      BY <1>1, <2>1, AtWork
    <3>2. my_task[t] < next /\ next <= want[body] /\ my_task[t] \in Nat /\ want[body] \in Nat
      BY <1>1, <2>1, <3>1, BoundsAssumption DEF IInv, TaskInv, FieldsInv, TypeOK
    <3>3. \A u \in Threads \ {t} : pc[u] = "inline" => my_body[u] = u /\ u # body
      BY <1>1, <3>1, ThreadFacts
         DEF IInv, CallerInv, CallerOK, TypeOK, WorkerPC, Inline, Published, HoldsRunLock
    <3>4. QED
      BY <1>1, <2>1, <3>1, <3>2, <3>3 DEF IInv, TaskInv, TypeOK, InBody
  <2>2. CASE pc[t] = "inline"
    <3>1. t \in Callers /\ my_body[t] = t
      BY <1>1, <2>2, ThreadFacts DEF IInv, TypeOK, WorkerPC, CallerInv, CallerOK, Inline
    <3>2. \A u \in Threads \ {t} : pc[u] = "inline" => my_body[u] # t
      BY <1>1, ThreadFacts DEF IInv, TypeOK, WorkerPC, CallerInv, CallerOK, Inline
    <3>3. \A u \in Threads : pc[u] = "body" => my_body[u] # t
      BY <1>1, <2>2, AtWork DEF Published, HoldsRunLock
    <3>4. my_task[t] \in TaskSet(want[t]) /\ my_task[t] \notin done[t]
      BY <1>1, <2>2, <3>1, BoundsAssumption DEF IInv, TypeOK, CallerInv, CallerOK, Inline
    <3>5. QED
      BY <3>1, <3>2, <3>3, <3>4 DEF InBody
  <2>3. QED
    BY <2>1, <2>2 DEF InBody
<1>2. QED
  BY <1>1, Inductive, PTL

(* A Run that returns did every task; one that throws had a body throw. *)
THEOREM RunIsCompleteEver == Spec => []RunIsComplete
<1>1. IInv => RunIsComplete
  BY DEF IInv
<1>2. QED
  BY <1>1, Inductive, PTL

(* Between two Runs nobody is out there and no exception is left over. *)
THEOREM QuietBetweenRunsEver == Spec => []QuietBetweenRuns
<1>1. ASSUME IInv PROVE QuietBetweenRuns
  <2> SUFFICES ASSUME run_lock = None
               PROVE  /\ running = 0 /\ failure = None /\ body = None
                      /\ \A w \in Workers :
                            pc[w] \in {"unstarted", "check", "asleep", "exited"}
    BY DEF QuietBetweenRuns
  <2>1. \A c \in Callers : pc[c] \notin Published
    BY <1>1, ThreadFacts DEF IInv, LockInv, Published
  <2>2. running = 0 /\ failure = None /\ body = None /\ Out = {}
    BY <1>1, <2>1 DEF IInv, FieldsInv
  <2>3. QED
    BY <1>1, <2>2 DEF IInv, TypeOK, Out, WorkerPC
<1>2. QED
  BY <1>1, Inductive, PTL

(* Once an exception is kept, no task is claimed. *)
THEOREM NoClaimAfterFailureEver == Spec => NoClaimAfterFailure
<1>1. ASSUME IInv, [Next]_vars, NEW t \in Threads, pc[t] = "claim", pc'[t] = "body"
      PROVE  failure = None
  <2>1. TaskLeft
    <3> USE <1>1, ThreadFacts DEF Goto
    <3> pc \in [Threads -> WorkerPC \cup CallerPC]
      BY DEF IInv, TypeOK
    <3>1. CASE StartWorker \/ AllStarted \/ StartRefused \/ Destroy \/ StopStep
      BY <3>1 DEF StartWorker, AllStarted, StartRefused, Destroy, StopStep,
                  NotifyStop, Joined, WakeAll
    <3>2. ASSUME NEW u \in Threads, DrainTasks(u) PROVE TaskLeft
      BY <3>2 DEF DrainTasks, ClaimTask, NothingLeft, BodyReturns, BodyThrows,
                  KeepFailure, LeaveDrain
    <3>3. ASSUME NEW w \in Workers, WorkerStep(w) PROVE TaskLeft
      BY <3>2, <3>3 DEF WorkerStep, WakeToStop, WakeToWork, SleepOnWake,
                        FinishGeneration
    <3>4. ASSUME NEW u \in Threads, SpuriousWake(u) PROVE TaskLeft
      BY <3>4 DEF SpuriousWake
    <3>5. ASSUME NEW c \in Callers, StartRun(c) PROVE TaskLeft
      BY <3>5 DEF StartRun, RunNothing, RunInline, RunPooled, EnterRun
    <3>6. ASSUME NEW c \in Callers, RunStep(c) PROVE TaskLeft
      BY <3>2, <3>6 DEF RunStep, InlineNext, InlineEnd, InlineBodyReturns,
           InlineBodyThrows, Unwind, LockRun, Publish, NotifyWorkers, WakeAll,
           SleepOnDone, TakeDown, LeaveRun
    <3>7. CASE UNCHANGED vars
      BY <3>7 DEF vars
    <3>8. QED
      BY <3>1, <3>3, <3>4, <3>5, <3>6, <3>7 DEF Next, Terminated
  <2>2. body \in Callers /\ pc[body] \in Published
    BY <1>1, AtWork
  <2>3. QED
    BY <1>1, <2>1, <2>2 DEF IInv, TypeOK, FieldsInv, TaskLeft
<1>2. IInv /\ [Next]_vars =>
        [\A t \in Threads : pc[t] = "claim" /\ pc'[t] = "body" => failure = None]_vars
  BY <1>1
<1>3. QED
  BY <1>2, Inductive, PTL DEF Spec, NoClaimAfterFailure

-----------------------------------------------------------------------------
(* WorkPool implements ParallelFor: every step of the pool is a step of the *)
(* promise Run makes its caller, or one that caller cannot see.             *)

HIDE DEF TaskSet

(* What the pool's state says of ParallelFor's.                             *)
RunsBodyOf(t, c) == InBody(t) /\ my_body[t] = c
ActiveOf(c) == {<<WorkerIndex(t), my_task[t]>> : t \in {u \in Threads : InBody(u) /\ my_body[u] = c}}
Opened == {c \in Callers : pc[c] # "idle"}
Todo == [c \in Callers |-> Unclaimed(c)]
Active == [c \in Callers |-> ActiveOf(c)]

(* The tasks of a Run nobody has begun, by where its caller is.             *)
AtFields == {"notify", "claim", "body", "caught", "await", "asleep"}
UnclaimedAt(c) ==
    /\ pc[c] = "loop" => Unclaimed(c) = my_task[c] .. want[c] - 1
    /\ pc[c] \in {"inline", "unwind"} => Unclaimed(c) = my_task[c] + 1 .. want[c] - 1
    /\ pc[c] \in {"enter", "publish"} => Unclaimed(c) = 0 .. want[c] - 1
    /\ pc[c] \in {"idle", "leave"} => Unclaimed(c) = {}
    /\ pc[c] \in AtFields => Unclaimed(c) = next .. want[c] - 1

LEMMA UnclaimedFacts == \A c \in Callers : UnclaimedAt(c) /\ UnclaimedAt(c)'
<1>1. ASSUME NEW c \in Callers PROVE UnclaimedAt(c)
  BY DEF UnclaimedAt, Unclaimed, AtFields, TaskSet
<1>2. ASSUME NEW c \in Callers PROVE UnclaimedAt(c)'
  BY DEF UnclaimedAt, Unclaimed, AtFields, TaskSet
<1> QED
  BY <1>1, <1>2

(* A caller neither its own step nor a step of the Run it published leaves  *)
(* has the tasks it had.                                                    *)
LEMMA UnclaimedKept ==
    ASSUME IInv, NEW c \in Callers,
           pc'[c] = pc[c], my_task'[c] = my_task[c], want'[c] = want[c],
           pc[c] \in AtFields => next' = next
    PROVE  Unclaimed(c)' = Unclaimed(c)
<1>1. \/ pc[c] = "loop" \/ pc[c] \in {"inline", "unwind"} \/ pc[c] \in {"enter", "publish"}
      \/ pc[c] \in {"idle", "leave"} \/ pc[c] \in AtFields
  BY DEF IInv, TypeOK, CallerPC, AtFields
<1> QED
  BY <1>1, UnclaimedFacts DEF UnclaimedAt

(* The bodies of a Run, when none, one more or one fewer is running.        *)
LEMMA ActiveKept ==
    ASSUME NEW c \in Callers,
           \A t \in Threads : RunsBodyOf(t, c)' <=> RunsBodyOf(t, c),
           \A t \in Threads : RunsBodyOf(t, c) => my_task'[t] = my_task[t]
    PROVE  ActiveOf(c)' = ActiveOf(c)
BY DEF ActiveOf, RunsBodyOf, InBody, WorkerIndex

LEMMA ActiveAdds ==
    ASSUME NEW c \in Callers, NEW t \in Threads, RunsBodyOf(t, c)', ~ RunsBodyOf(t, c),
           \A u \in Threads \ {t} : RunsBodyOf(u, c)' <=> RunsBodyOf(u, c),
           \A u \in Threads \ {t} : RunsBodyOf(u, c) => my_task'[u] = my_task[u]
    PROVE  ActiveOf(c)' = ActiveOf(c) \cup {<<WorkerIndex(t), my_task'[t]>>}
BY DEF ActiveOf, RunsBodyOf, InBody, WorkerIndex

LEMMA ActiveDrops ==
    ASSUME NEW c \in Callers, NEW t \in Threads, RunsBodyOf(t, c), ~ RunsBodyOf(t, c)',
           \A u \in Threads \ {t} : RunsBodyOf(u, c)' <=> RunsBodyOf(u, c),
           \A u \in Threads \ {t} : RunsBodyOf(u, c) =>
               my_task'[u] = my_task[u] /\ WorkerIndex(u) # WorkerIndex(t)
    PROVE  ActiveOf(c)' = ActiveOf(c) \ {<<WorkerIndex(t), my_task[t]>>}
BY DEF ActiveOf, RunsBodyOf, InBody, WorkerIndex

(* The bodies of one Run have worker indices of their own, and a Run that   *)
(* is not published has no body but its caller's, inline.                   *)
LEMMA BodiesApart ==
    ASSUME IInv, NEW c \in Callers, NEW t \in Threads, RunsBodyOf(t, c)
    PROVE  /\ WorkerIndex(t) \in 0 .. Size
           /\ \/ pc[t] = "body" /\ c = body /\ pc[c] \in AtFields
              \/ pc[t] = "inline" /\ t = c
           /\ \A u \in Threads \ {t} : RunsBodyOf(u, c) => WorkerIndex(u) # WorkerIndex(t)
<1>1. /\ \A u \in Workers : u \in 1 .. Size /\ u \notin Callers
      /\ \A u \in Threads : u \in Workers \/ u \in Callers
  BY ThreadFacts DEF Workers
<1>2. WorkerIndex(t) \in 0 .. Size
  BY <1>1, SizeAssumption DEF WorkerIndex
<1>3. ASSUME NEW u \in Threads, RunsBodyOf(u, c)
      PROVE  /\ u \in Callers => u = c
             /\ \/ pc[u] = "body" /\ c = body /\ pc[c] \in AtFields
                \/ pc[u] = "inline" /\ u = c
  <2>1. CASE pc[u] = "body"
    BY <1>3, <2>1, AtWork DEF RunsBodyOf, AtFields, Published, HoldsRunLock
  <2>2. CASE pc[u] = "inline"
    BY <1>1, <1>3, <2>2 DEF IInv, TypeOK, WorkerPC, CallerInv, CallerOK, Inline, RunsBodyOf
  <2> QED
    BY <1>3, <2>1, <2>2 DEF RunsBodyOf, InBody
<1>4. ASSUME NEW u \in Threads \ {t}, RunsBodyOf(u, c) PROVE WorkerIndex(u) # WorkerIndex(t)
  BY <1>1, <1>3, <1>4, SizeAssumption DEF WorkerIndex
<1> QED
  BY <1>2, <1>3, <1>4

-----------------------------------------------------------------------------
(* The steps of ParallelFor, in the pool's terms.                           *)
LEMMA Unseen ==
    ASSUME Opened' = Opened, UNCHANGED <<done, threw, result>>,
           \A c \in Callers : Unclaimed(c)' = Unclaimed(c),
           \A c \in Callers : ActiveOf(c)' = ActiveOf(c)
    PROVE  UNCHANGED Promise!vars
<1>1. Todo' = Todo /\ Active' = Active
  BY DEF Todo, Active
<1> QED
  BY <1>1 DEF Promise!vars, Opened, Todo, Active, ActiveOf

LEMMA Calls ==
    ASSUME NEW c \in Callers, NEW n \in 0 .. MaxTasks, pc[c] = "idle",
           \A d \in Callers : Unclaimed(d)' = IF d = c THEN 0 .. n - 1 ELSE Unclaimed(d),
           \A d \in Callers : ActiveOf(d)' = ActiveOf(d),
           done' = [done EXCEPT ![c] = {}], threw' = threw \ {c},
           \/ n = 0 /\ result' = [result EXCEPT ![c] = "returned"] /\ Opened' = Opened
           \/ n > 0 /\ result' = [result EXCEPT ![c] = "none"] /\ Opened' = Opened \cup {c}
    PROVE  Promise!Next
<1>1. Todo' = [Todo EXCEPT ![c] = 0 .. n - 1] /\ Active' = Active /\ c \notin Opened
  BY DEF Todo, Active, Opened
<1>2. Promise!Call(c, n)
  BY <1>1 DEF Promise!Call, Opened, Todo, Active, ActiveOf
<1> QED
  BY <1>2 DEF Promise!Next

LEMMA Begins ==
    ASSUME NEW c \in Callers, NEW task, NEW t \in Threads, WorkerIndex(t) \in 0 .. Size,
           pc[c] # "idle", task \in Unclaimed(c), Opened' = Opened, UNCHANGED <<done, threw, result>>,
           \A u \in Threads : RunsBodyOf(u, c) => WorkerIndex(u) # WorkerIndex(t),
           \A d \in Callers : Unclaimed(d)' = IF d = c THEN Unclaimed(c) \ {task} ELSE Unclaimed(d),
           \A d \in Callers : ActiveOf(d)' = IF d = c THEN ActiveOf(c) \cup {<<WorkerIndex(t), task>>}
                                              ELSE ActiveOf(d)
    PROVE  Promise!Next
<1>1. /\ Todo' = [Todo EXCEPT ![c] = @ \ {task}]
      /\ Active' = [Active EXCEPT ![c] = @ \cup {<<WorkerIndex(t), task>>}]
      /\ c \in Opened /\ task \in Todo[c]
  BY DEF Todo, Active, Opened
<1>2. \A a \in Active[c] : a[1] # WorkerIndex(t)
  BY DEF Active, ActiveOf, RunsBodyOf
<1>3. Promise!Begin(c, task, WorkerIndex(t))
  BY <1>1, <1>2 DEF Promise!Begin, Opened, Todo, Active, ActiveOf
<1> QED
  BY <1>1, <1>3 DEF Promise!Next, Todo

LEMMA Ends ==
    ASSUME NEW c \in Callers, NEW t \in Threads, RunsBodyOf(t, c), Opened' = Opened,
           \/ done' = [done EXCEPT ![c] = @ \cup {my_task[t]}] /\ threw' = threw
           \/ done' = done /\ threw' = threw \cup {c},
           result' = result,
           \A d \in Callers : Unclaimed(d)' = Unclaimed(d),
           \A d \in Callers : ActiveOf(d)' = IF d = c THEN ActiveOf(c) \ {<<WorkerIndex(t), my_task[t]>>}
                                              ELSE ActiveOf(d)
    PROVE  Promise!Next
<1>0. PICK a : a = <<WorkerIndex(t), my_task[t]>>
  OBVIOUS
<1>1. /\ Todo' = Todo /\ Active' = [Active EXCEPT ![c] = @ \ {a}]
      /\ a \in Active[c] /\ a[2] = my_task[t]
  BY <1>0 DEF Todo, Active, ActiveOf, RunsBodyOf
<1>2. Promise!End(c, a) \/ Promise!Throw(c, a)
  BY <1>1 DEF Promise!End, Promise!Throw, Opened, Todo, Active, ActiveOf
<1> QED
  BY <1>1, <1>2 DEF Promise!Next, Active, ActiveOf

LEMMA GivesUp ==
    ASSUME NEW c \in Callers, pc[c] # "idle", c \in threw, Opened' = Opened,
           UNCHANGED <<done, threw, result>>,
           \A d \in Callers : Unclaimed(d)' = IF d = c THEN {} ELSE Unclaimed(d),
           \A d \in Callers : ActiveOf(d)' = ActiveOf(d)
    PROVE  Promise!Next
<1>1. Todo' = [Todo EXCEPT ![c] = {}] /\ Active' = Active /\ c \in Opened
  BY DEF Todo, Active, Opened
<1>2. Promise!GiveUp(c)
  BY <1>1 DEF Promise!GiveUp, Opened, Todo, Active, ActiveOf
<1> QED
  BY <1>2 DEF Promise!Next

LEMMA ReturnsToCaller ==
    ASSUME NEW c \in Callers, pc[c] # "idle", \A t \in Threads : ~ RunsBodyOf(t, c),
           Unclaimed(c) = {} \/ c \in threw, Opened' = Opened \ {c}, UNCHANGED <<done, threw>>,
           result' = [result EXCEPT ![c] = IF c \in threw THEN "threw" ELSE "returned"],
           \A d \in Callers : Unclaimed(d)' = IF d = c THEN {} ELSE Unclaimed(d),
           \A d \in Callers : ActiveOf(d)' = ActiveOf(d)
    PROVE  Promise!Next
<1>1. /\ Todo' = [Todo EXCEPT ![c] = {}] /\ Active' = Active /\ c \in Opened
      /\ Todo[c] = {} \/ c \in threw
  BY DEF Todo, Active, Opened
<1>2. Active[c] = {}
  BY DEF Active, ActiveOf, RunsBodyOf
<1>3. Promise!Return(c)
  BY <1>1, <1>2 DEF Promise!Return, Opened, Todo, Active, ActiveOf
<1> QED
  BY <1>3 DEF Promise!Next

-----------------------------------------------------------------------------
(* A step that no caller sees: callers stay where they are, or move between *)
(* the points of a published Run, and no thread enters or leaves a body.    *)
LEMMA Hidden ==
    ASSUME IInv, UNCHANGED <<done, threw, result>>,
           \A c \in Callers : pc'[c] = "idle" <=> pc[c] = "idle",
           \A c \in Callers : Unclaimed(c)' = Unclaimed(c),
           \A t \in Threads : InBody(t)' <=> InBody(t),
           \A t \in Threads : InBody(t) => my_task'[t] = my_task[t] /\ my_body'[t] = my_body[t]
    PROVE  UNCHANGED Promise!vars
<1>1. Opened' = Opened
  BY DEF Opened
<1>2. ASSUME NEW c \in Callers PROVE ActiveOf(c)' = ActiveOf(c)
  <2>1. \A t \in Threads : RunsBodyOf(t, c)' <=> RunsBodyOf(t, c)
    BY DEF RunsBodyOf
  <2>2. \A t \in Threads : RunsBodyOf(t, c) => my_task'[t] = my_task[t]
    BY DEF RunsBodyOf
  <2> QED
    BY <2>1, <2>2, ActiveKept
<1> QED
  BY <1>1, <1>2, Unseen

LEMMA QuietStep ==
    ASSUME IInv, UNCHANGED <<next, want, done, threw, result>>,
           \A c \in Callers : \/ pc'[c] = pc[c] /\ my_task'[c] = my_task[c]
                              \/ pc[c] \in AtFields /\ pc'[c] \in AtFields,
           \A t \in Threads : InBody(t)' <=> InBody(t),
           \A t \in Threads : InBody(t) => my_task'[t] = my_task[t] /\ my_body'[t] = my_body[t]
    PROVE  UNCHANGED Promise!vars
<1>1. ASSUME NEW c \in Callers PROVE Unclaimed(c)' = Unclaimed(c)
  <2>1. CASE pc'[c] = pc[c] /\ my_task'[c] = my_task[c]
    BY <2>1, UnclaimedKept
  <2>2. CASE pc[c] \in AtFields /\ pc'[c] \in AtFields
    BY <2>2, UnclaimedFacts DEF UnclaimedAt
  <2> QED
    BY <2>1, <2>2
<1>2. \A c \in Callers : pc'[c] = "idle" <=> pc[c] = "idle"
  BY DEF AtFields
<1> QED
  BY <1>1, <1>2, Hidden

LEMMA PoolLife ==
    ASSUME IInv, StartWorker \/ AllStarted \/ StartRefused \/ Destroy \/ StopStep
    PROVE  UNCHANGED Promise!vars
<1>0. pc \in [Threads -> WorkerPC \cup CallerPC] /\ Workers \cap Callers = {} /\ Threads = Workers \cup Callers
  BY ThreadFacts DEF IInv, TypeOK
<1>1. UNCHANGED <<next, want, done, threw, result, my_task, my_body>>
  BY DEF StartWorker, AllStarted, StartRefused, Destroy, StopStep, NotifyStop, Joined, fields, locals, history
<1>2. \A c \in Callers : pc'[c] = pc[c]
  BY <1>0 DEF StartWorker, AllStarted, StartRefused, Destroy, StopStep, NotifyStop, Joined, Goto, WakeAll
<1>3. \A t \in Threads : InBody(t)' <=> InBody(t)
  BY <1>0 DEF StartWorker, AllStarted, StartRefused, Destroy, StopStep, NotifyStop, Joined, Goto, WakeAll, InBody
<1> QED
  BY <1>1, <1>2, <1>3, QuietStep

LEMMA WorkerWaits ==
    ASSUME IInv, NEW w \in Workers, WakeToStop(w) \/ WakeToWork(w) \/ SleepOnWake(w) \/ FinishGeneration(w)
    PROVE  UNCHANGED Promise!vars
<1>0. /\ pc \in [Threads -> WorkerPC \cup CallerPC] /\ my_body \in [Threads -> Callers \cup {None}]
      /\ Workers \cap Callers = {} /\ Threads = Workers \cup Callers
  BY ThreadFacts DEF IInv, TypeOK
<1>1. UNCHANGED <<next, want, done, threw, result, my_task>>
  BY DEF WakeToStop, WakeToWork, SleepOnWake, FinishGeneration, fields, locals, history
<1>2. pc[w] \in {"check", "finish"} /\ pc'[w] \in {"exited", "claim", "asleep", "check"}
  BY <1>0 DEF WakeToStop, WakeToWork, SleepOnWake, FinishGeneration, Goto
<1>3. \A t \in Threads \ {w} :
        /\ my_body'[t] = my_body[t]
        /\ \/ pc'[t] = pc[t]
           \/ t \in Callers /\ pc[t] = "asleep" /\ pc'[t] = "await"
  BY <1>0 DEF WakeToStop, WakeToWork, SleepOnWake, FinishGeneration, Goto, locals
<1>4. \A t \in Threads : InBody(t)' <=> InBody(t)
  BY <1>2, <1>3 DEF InBody
<1>5. \A t \in Threads : InBody(t) => my_body'[t] = my_body[t]
  BY <1>2, <1>3 DEF InBody
<1>6. \A c \in Callers : \/ pc'[c] = pc[c]
                         \/ pc[c] \in AtFields /\ pc'[c] \in AtFields
  BY <1>0, <1>3 DEF AtFields
<1> QED
  BY <1>1, <1>4, <1>5, <1>6, QuietStep

LEMMA SpuriouslyWoken ==
    ASSUME IInv, NEW t \in Threads, SpuriousWake(t) PROVE UNCHANGED Promise!vars
<1>0. /\ pc \in [Threads -> WorkerPC \cup CallerPC]
      /\ Workers \cap Callers = {} /\ Threads = Workers \cup Callers
  BY ThreadFacts DEF IInv, TypeOK
<1>1. UNCHANGED <<next, want, done, threw, result, my_task, my_body>>
  BY DEF SpuriousWake, fields, locals, history
<1>2. /\ pc[t] = "asleep" /\ pc'[t] = IF t \in Workers THEN "check" ELSE "await"
      /\ \A u \in Threads \ {t} : pc'[u] = pc[u]
  BY <1>0 DEF SpuriousWake, Goto
<1>3. \A u \in Threads : InBody(u)' <=> InBody(u)
  BY <1>2 DEF InBody
<1>4. \A c \in Callers : pc'[c] = pc[c] \/ (pc[c] \in AtFields /\ pc'[c] \in AtFields)
  BY <1>0, <1>2 DEF AtFields
<1> QED
  BY <1>1, <1>3, <1>4, QuietStep

(* A thread that takes a step of its own and leaves the others alone.       *)
LEMMA OneMoves ==
    ASSUME IInv, NEW t \in Threads, NEW where, Goto(t, where)
    PROVE  pc'[t] = where /\ \A u \in Threads \ {t} : pc'[u] = pc[u]
BY DEF Goto, IInv, TypeOK

LEMMA FindsNothingLeft ==
    ASSUME IInv, NEW t \in Threads, NothingLeft(t) PROVE UNCHANGED Promise!vars
<1>0. /\ my_body \in [Threads -> Callers \cup {None}] /\ my_task \in [Threads -> Nat]
      /\ Workers \cap Callers = {} /\ Threads = Workers \cup Callers
  BY ThreadFacts DEF IInv, TypeOK
<1>1. UNCHANGED <<next, want, done, threw, result>>
  BY DEF NothingLeft, LeaveDrain, fields, history
<1>2. /\ pc[t] = "claim" /\ pc'[t] = IF t \in Workers THEN "finish" ELSE "await"
      /\ \A u \in Threads \ {t} : pc'[u] = pc[u] /\ my_task'[u] = my_task[u] /\ my_body'[u] = my_body[u]
  BY <1>0, OneMoves DEF NothingLeft, LeaveDrain
<1>3. \A u \in Threads : InBody(u)' <=> InBody(u)
  BY <1>2 DEF InBody
<1>4. \A u \in Threads : InBody(u) => my_task'[u] = my_task[u] /\ my_body'[u] = my_body[u]
  BY <1>2 DEF InBody
<1>5. \A c \in Callers : \/ pc'[c] = pc[c] /\ my_task'[c] = my_task[c]
                         \/ pc[c] \in AtFields /\ pc'[c] \in AtFields
  BY <1>0, <1>2 DEF AtFields
<1> QED
  BY <1>1, <1>3, <1>4, <1>5, QuietStep

LEMMA CallerWaits ==
    ASSUME IInv, NEW c \in Callers, NotifyWorkers(c) \/ SleepOnDone(c) PROVE UNCHANGED Promise!vars
<1>0. /\ pc \in [Threads -> WorkerPC \cup CallerPC]
      /\ Workers \cap Callers = {} /\ Threads = Workers \cup Callers
  BY ThreadFacts DEF IInv, TypeOK
<1>1. UNCHANGED <<next, want, done, threw, result, my_task, my_body>>
  BY DEF NotifyWorkers, SleepOnDone, fields, locals, history
<1>2. /\ pc[c] \in {"notify", "await"} /\ pc'[c] \in {"claim", "asleep"}
      /\ \A u \in Callers \ {c} : pc'[u] = pc[u]
      /\ \A w \in Workers : pc'[w] = pc[w] \/ (pc[w] = "asleep" /\ pc'[w] = "check")
  BY <1>0 DEF NotifyWorkers, SleepOnDone, WakeAll, Goto
<1>3. \A u \in Threads : InBody(u)' <=> InBody(u)
  BY <1>0, <1>2 DEF InBody
<1>4. \A d \in Callers : pc'[d] = pc[d] \/ (pc[d] \in AtFields /\ pc'[d] \in AtFields)
  BY <1>2 DEF AtFields
<1> QED
  BY <1>1, <1>3, <1>4, QuietStep

(* Locking _run, publishing the Run and taking it down.                     *)
LEMMA CallerPublishes ==
    ASSUME IInv, NEW c \in Callers, LockRun(c) \/ Publish(c) \/ TakeDown(c) PROVE UNCHANGED Promise!vars
<1>0. /\ pc \in [Threads -> WorkerPC \cup CallerPC] /\ got \in [Callers -> Callers \cup {None}]
      /\ Workers \cap Callers = {} /\ Threads = Workers \cup Callers
  BY ThreadFacts DEF IInv, TypeOK
<1>1. UNCHANGED <<want, done, threw, result, my_task, my_body>>
  BY DEF LockRun, Publish, TakeDown, locals, history
<1>2. /\ \/ pc[c] = "enter" /\ pc'[c] = "publish" /\ next' = next
         \/ pc[c] = "publish" /\ pc'[c] = "notify" /\ next' = 0
         \/ pc[c] = "await" /\ pc'[c] = "leave" /\ next' = next
      /\ \A u \in Threads \ {c} : pc'[u] = pc[u]
  BY <1>0, OneMoves DEF LockRun, Publish, TakeDown, fields
<1>3. \A u \in Threads : InBody(u)' <=> InBody(u)
  BY <1>2 DEF InBody
<1>4. \A d \in Callers : pc'[d] = "idle" <=> pc[d] = "idle"
  BY <1>0, <1>2
<1>5. ASSUME NEW d \in Callers PROVE Unclaimed(d)' = Unclaimed(d)
  <2>1. CASE d # c
    <3>1. pc[c] = "publish" => pc[d] \notin AtFields
      BY <2>1, OnePublished DEF HoldsRunLock, AtFields
    <3> QED
      BY <1>0, <1>1, <1>2, <2>1, <3>1, UnclaimedKept
  <2>2. CASE d = c /\ pc[c] # "await"
    BY <1>1, <1>2, <2>2, UnclaimedFacts DEF UnclaimedAt, AtFields
  <2>3. CASE d = c /\ pc[c] = "await"
    <3>1. next >= want[c] /\ next \in Int /\ want[c] \in Int
      BY <2>3 DEF IInv, TypeOK, FieldsInv, CallerInv, CallerOK, Published, HoldsRunLock
    <3>2. next .. want[c] - 1 = {}
      BY <3>1
    <3> QED
      BY <1>2, <2>3, <3>2, UnclaimedFacts DEF UnclaimedAt, AtFields
  <2> QED
    BY <2>1, <2>2, <2>3
<1> QED
  BY <1>1, <1>3, <1>4, <1>5, Hidden

-----------------------------------------------------------------------------
(* A step that its caller sees is taken by one thread, for one Run.         *)
Alone(t) == \A u \in Threads \ {t} :
    pc'[u] = pc[u] /\ my_task'[u] = my_task[u] /\ my_body'[u] = my_body[u]

LEMMA IndicesApart ==
    ASSUME NEW t \in Threads, NEW u \in Threads, t # u, ~ (t \in Callers /\ u \in Callers)
    PROVE  WorkerIndex(t) # WorkerIndex(u) /\ WorkerIndex(t) \in 0 .. Size
<1>1. \A w \in Threads : w \in Callers \/ (w \in 1 .. Size /\ w \notin Callers)
  BY ThreadFacts DEF Workers
<1> QED
  BY <1>1, SizeAssumption DEF WorkerIndex

(* The Runs it is not taken for keep their tasks and their bodies.          *)
LEMMA OtherRuns ==
    ASSUME IInv, NEW t \in Threads, NEW c \in Callers, Alone(t),
           \A d \in Callers \ {c} : want'[d] = want[d],
           t \in Callers => t = c,
           next' = next \/ pc[c] \in AtFields,
           \A d \in Callers \ {c} : ~ RunsBodyOf(t, d) /\ ~ RunsBodyOf(t, d)'
    PROVE  \A d \in Callers \ {c} : Unclaimed(d)' = Unclaimed(d) /\ ActiveOf(d)' = ActiveOf(d)
<1> TAKE d \in Callers \ {c}
<1>1. d \in Threads \ {t} /\ pc'[d] = pc[d] /\ my_task'[d] = my_task[d]
  BY ThreadFacts DEF Alone
<1>2. pc[c] \in AtFields => pc[d] \notin AtFields
  BY OnePublished DEF AtFields, HoldsRunLock
<1>3. Unclaimed(d)' = Unclaimed(d)
  BY <1>1, <1>2, UnclaimedKept
<1>4. \A u \in Threads : RunsBodyOf(u, d)' <=> RunsBodyOf(u, d)
  BY DEF Alone, RunsBodyOf, InBody
<1>5. \A u \in Threads : RunsBodyOf(u, d) => my_task'[u] = my_task[u]
  BY DEF Alone
<1>6. ActiveOf(d)' = ActiveOf(d)
  BY <1>4, <1>5, ActiveKept
<1> QED
  BY <1>3, <1>6

LEMMA ClaimTaskPromised == ASSUME IInv, NEW t \in Threads, ClaimTask(t) PROVE Promise!Next
<1>0. /\ my_task \in [Threads -> Nat] /\ next \in Nat /\ want \in [Callers -> 0 .. MaxTasks]
      /\ Workers \cap Callers = {} /\ Threads = Workers \cup Callers
  BY ThreadFacts DEF IInv, TypeOK
<1>1. UNCHANGED <<want, done, threw, result, my_body>> /\ next' = next + 1 /\ pc[t] = "claim" /\ next < tasks
  BY DEF ClaimTask, TaskLeft, history
<1>2. pc'[t] = "body" /\ my_task'[t] = next /\ Alone(t)
  BY <1>0, <1>1, OneMoves DEF ClaimTask, Alone
<1>3. PICK c \in Callers : c = body /\ my_body[t] = c /\ pc[c] \in Published /\ (t \in Callers => t = c)
  BY <1>1, AtWork
<1>4. tasks = want[c] /\ pc[c] \in AtFields /\ pc'[c] \in AtFields
  BY <1>0, <1>1, <1>2, <1>3 DEF IInv, FieldsInv, Published, HoldsRunLock, AtFields, Alone
<1>5. ASSUME NEW u \in Threads, RunsBodyOf(u, c) PROVE u # t /\ WorkerIndex(t) # WorkerIndex(u)
  <2>1. u # t
    BY <1>1, <1>5 DEF RunsBodyOf, InBody
  <2>2. u \in Callers => u = c
    BY <1>4, <1>5, BodiesApart, AtWork DEF AtFields
  <2> QED
    BY <1>3, <2>1, <2>2, IndicesApart
<1>6. WorkerIndex(t) \in 0 .. Size
  BY <1>0, SizeAssumption DEF WorkerIndex, Workers
<1>7. next \in Unclaimed(c) /\ Unclaimed(c)' = Unclaimed(c) \ {next}
  <2>1. Unclaimed(c) = next .. want[c] - 1
    BY <1>4, UnclaimedFacts DEF UnclaimedAt
  <2>2. Unclaimed(c)' = next + 1 .. want[c] - 1
    BY <1>1, <1>4, UnclaimedFacts DEF UnclaimedAt
  <2> QED
    BY <1>0, <1>1, <1>4, <2>1, <2>2
<1>8. ActiveOf(c)' = ActiveOf(c) \cup {<<WorkerIndex(t), next>>}
  <2>1. RunsBodyOf(t, c)' /\ ~ RunsBodyOf(t, c)
    BY <1>1, <1>2, <1>3 DEF RunsBodyOf, InBody
  <2>2. \A u \in Threads \ {t} : RunsBodyOf(u, c)' <=> RunsBodyOf(u, c)
    BY <1>2 DEF RunsBodyOf, InBody, Alone
  <2>3. \A u \in Threads \ {t} : RunsBodyOf(u, c) => my_task'[u] = my_task[u]
    BY <1>2 DEF Alone
  <2> QED
    BY <1>2, <2>1, <2>2, <2>3, ActiveAdds
<1>9. \A d \in Callers \ {c} : Unclaimed(d)' = Unclaimed(d) /\ ActiveOf(d)' = ActiveOf(d)
  <2>1. \A d \in Callers \ {c} : ~ RunsBodyOf(t, d) /\ ~ RunsBodyOf(t, d)'
    BY <1>1, <1>3 DEF RunsBodyOf
  <2> QED
    BY <1>1, <1>2, <1>3, <1>4, <2>1, OtherRuns
<1>10. Opened' = Opened
  BY <1>0, <1>1, <1>2 DEF Opened, Alone
<1>11. pc[c] # "idle" /\ UNCHANGED <<done, threw, result>>
  BY <1>1, <1>4 DEF AtFields
<1>12. \A d \in Callers : Unclaimed(d)' = IF d = c THEN Unclaimed(c) \ {next} ELSE Unclaimed(d)
  BY <1>7, <1>9
<1>13. \A d \in Callers : ActiveOf(d)' = IF d = c THEN ActiveOf(c) \cup {<<WorkerIndex(t), next>>} ELSE ActiveOf(d)
  BY <1>8, <1>9
<1>14. \A u \in Threads : RunsBodyOf(u, c) => WorkerIndex(u) # WorkerIndex(t)
  BY <1>5
<1> QED
  BY <1>6, <1>7, <1>10, <1>11, <1>12, <1>13, <1>14, Begins

(* A body ends, by returning or by throwing, on a worker or inline.         *)
LEMMA BodyEnds ==
    ASSUME IInv, NEW t \in Threads, NEW c \in Callers, RunsBodyOf(t, c), Alone(t),
           \/ pc'[t] \in {"claim", "caught"} /\ pc[t] = "body"
           \/ pc'[t] = "loop" /\ pc[t] = "inline" /\ my_task'[t] = my_task[t] + 1
           \/ pc'[t] = "unwind" /\ pc[t] = "inline" /\ my_task'[t] = my_task[t],
           UNCHANGED <<next, want, my_body, result>>,
           \/ done' = [done EXCEPT ![c] = @ \cup {my_task[t]}] /\ threw' = threw
           \/ done' = done /\ threw' = threw \cup {c}
    PROVE  Promise!Next
<1>0. Workers \cap Callers = {} /\ Threads = Workers \cup Callers
  BY ThreadFacts
<1>1. /\ \/ pc[t] = "body" /\ c = body /\ pc[c] \in AtFields
         \/ pc[t] = "inline" /\ t = c
      /\ \A u \in Threads \ {t} : RunsBodyOf(u, c) => WorkerIndex(u) # WorkerIndex(t)
  BY BodiesApart
<1>2. t \in Callers => t = c
  BY <1>1, AtWork
<1>3. ActiveOf(c)' = ActiveOf(c) \ {<<WorkerIndex(t), my_task[t]>>}
  <2>1. ~ RunsBodyOf(t, c)'
    BY DEF RunsBodyOf, InBody
  <2>2. \A u \in Threads \ {t} : RunsBodyOf(u, c)' <=> RunsBodyOf(u, c)
    BY DEF RunsBodyOf, InBody, Alone
  <2>3. \A u \in Threads \ {t} : RunsBodyOf(u, c) => my_task'[u] = my_task[u] /\ WorkerIndex(u) # WorkerIndex(t)
    BY <1>1 DEF Alone
  <2> QED
    BY <2>1, <2>2, <2>3, ActiveDrops
<1>4. \A d \in Callers \ {c} : Unclaimed(d)' = Unclaimed(d) /\ ActiveOf(d)' = ActiveOf(d)
  <2>1. \A d \in Callers \ {c} : ~ RunsBodyOf(t, d) /\ ~ RunsBodyOf(t, d)'
    BY DEF RunsBodyOf
  <2> QED
    BY <1>2, <2>1, OtherRuns
<1>5. Unclaimed(c)' = Unclaimed(c)
  <2>1. CASE pc[t] = "body"
    <3>1. pc[c] \in AtFields /\ pc'[c] \in AtFields
      BY <1>0, <1>1, <2>1 DEF AtFields, Alone
    <3> QED
      BY <3>1, UnclaimedFacts DEF UnclaimedAt
  <2>2. CASE pc[t] = "inline"
    BY <1>1, <2>2, UnclaimedFacts DEF UnclaimedAt
  <2> QED
    BY <1>1, <2>1, <2>2
<1>6. Opened' = Opened
  BY <1>0 DEF Opened, Alone
<1>7. \A d \in Callers : Unclaimed(d)' = Unclaimed(d)
  BY <1>4, <1>5
<1>8. \A d \in Callers : ActiveOf(d)' = IF d = c THEN ActiveOf(c) \ {<<WorkerIndex(t), my_task[t]>>} ELSE ActiveOf(d)
  BY <1>3, <1>4
<1> QED
  BY <1>6, <1>7, <1>8, Ends

LEMMA BodyPromised == ASSUME IInv, NEW t \in Threads, BodyReturns(t) \/ BodyThrows(t) PROVE Promise!Next
<1>1. PICK c \in Callers : c = my_body[t]
  BY AtWork DEF BodyReturns, BodyThrows
<1>2. RunsBodyOf(t, c)
  BY <1>1 DEF BodyReturns, BodyThrows, RunsBodyOf, InBody
<1>3. pc[t] = "body" /\ pc'[t] \in {"claim", "caught"} /\ Alone(t)
  BY OneMoves DEF BodyReturns, BodyThrows, Alone, locals
<1>4. UNCHANGED <<next, want, my_body, result>>
  BY DEF BodyReturns, BodyThrows, locals, fields
<1>5. \/ done' = [done EXCEPT ![c] = @ \cup {my_task[t]}] /\ threw' = threw
      \/ done' = done /\ threw' = threw \cup {c}
  BY <1>1 DEF BodyReturns, BodyThrows
<1> QED
  BY <1>2, <1>3, <1>4, <1>5, BodyEnds

LEMMA InlineBodyPromised ==
    ASSUME IInv, NEW c \in Callers, InlineBodyReturns(c) \/ InlineBodyThrows(c) PROVE Promise!Next
<1>0. c \in Threads /\ my_task \in [Threads -> Nat]
  BY ThreadFacts DEF IInv, TypeOK
<1>1. RunsBodyOf(c, c)
  BY DEF InlineBodyReturns, InlineBodyThrows, RunsBodyOf, InBody, IInv, CallerInv, CallerOK, Inline
<1>2. \/ pc'[c] = "loop" /\ pc[c] = "inline" /\ my_task'[c] = my_task[c] + 1
      \/ pc'[c] = "unwind" /\ pc[c] = "inline" /\ my_task'[c] = my_task[c]
  BY <1>0, OneMoves DEF InlineBodyReturns, InlineBodyThrows, locals
<1>3. Alone(c)
  BY <1>0, OneMoves DEF InlineBodyReturns, InlineBodyThrows, locals, Alone
<1>4. UNCHANGED <<next, want, my_body, result>>
  BY DEF InlineBodyReturns, InlineBodyThrows, locals, fields
<1>5. \/ done' = [done EXCEPT ![c] = @ \cup {my_task[c]}] /\ threw' = threw
      \/ done' = done /\ threw' = threw \cup {c}
  BY DEF InlineBodyReturns, InlineBodyThrows
<1> QED
  BY <1>0, <1>1, <1>2, <1>3, <1>4, <1>5, BodyEnds

(* The catch block gives up what nobody has claimed of a Run that failed.   *)
LEMMA KeepFailurePromised == ASSUME IInv, NEW t \in Threads, KeepFailure(t) PROVE Promise!Next
<1>0. /\ my_body \in [Threads -> Callers \cup {None}] /\ my_task \in [Threads -> Nat] /\ tasks \in Nat
      /\ want \in [Callers -> 0 .. MaxTasks]
      /\ Workers \cap Callers = {} /\ Threads = Workers \cup Callers
  BY ThreadFacts DEF IInv, TypeOK
<1>1. UNCHANGED <<want, done, threw, result>> /\ next' = tasks /\ pc[t] = "caught"
  BY DEF KeepFailure, GiveUpUnclaimed, LeaveDrain, history
<1>2. pc'[t] = (IF t \in Workers THEN "finish" ELSE "await") /\ Alone(t)
  BY <1>0, OneMoves DEF KeepFailure, LeaveDrain, Alone
<1>3. PICK c \in Callers : c = body /\ my_body[t] = c /\ pc[c] \in Published /\ (t \in Callers => t = c)
  BY <1>1, AtWork
<1>4. tasks = want[c] /\ pc[c] \in AtFields /\ pc'[c] \in AtFields /\ c \in threw
  BY <1>0, <1>1, <1>2, <1>3 DEF IInv, FieldsInv, ThrewInv, Published, HoldsRunLock, AtFields, Alone
<1>5. \A d \in Callers : ~ RunsBodyOf(t, d) /\ ~ RunsBodyOf(t, d)'
  BY <1>1, <1>2 DEF RunsBodyOf, InBody
<1>6. \A d \in Callers \ {c} : Unclaimed(d)' = Unclaimed(d) /\ ActiveOf(d)' = ActiveOf(d)
  BY <1>1, <1>2, <1>3, <1>4, <1>5, OtherRuns
<1>7. Unclaimed(c)' = {}
  BY <1>0, <1>1, <1>4, UnclaimedFacts DEF UnclaimedAt
<1>8. ActiveOf(c)' = ActiveOf(c)
  <2>1. \A u \in Threads : RunsBodyOf(u, c)' <=> RunsBodyOf(u, c)
    BY <1>2, <1>5 DEF RunsBodyOf, InBody, Alone
  <2>2. \A u \in Threads : RunsBodyOf(u, c) => my_task'[u] = my_task[u]
    BY <1>2, <1>5 DEF Alone
  <2> QED
    BY <2>1, <2>2, ActiveKept
<1>9. Opened' = Opened
  BY <1>0, <1>1, <1>2 DEF Opened, Alone
<1>10. \A d \in Callers : Unclaimed(d)' = IF d = c THEN {} ELSE Unclaimed(d)
  BY <1>6, <1>7
<1>11. \A d \in Callers : ActiveOf(d)' = ActiveOf(d)
  BY <1>6, <1>8
<1>12. pc[c] # "idle"
  BY <1>4 DEF AtFields
<1> QED
  BY <1>1, <1>4, <1>9, <1>10, <1>11, <1>12, GivesUp

-----------------------------------------------------------------------------
(* A step of a caller outside DrainTasks that begins, goes on with or ends  *)
(* its own Run, running no body before or after.                            *)
LEMMA OwnRun ==
    ASSUME IInv, NEW c \in Callers, Alone(c), \A d \in Callers \ {c} : want'[d] = want[d], next' = next,
           ~ InBody(c), ~ InBody(c)'
    PROVE  /\ \A d \in Callers \ {c} : Unclaimed(d)' = Unclaimed(d)
           /\ \A d \in Callers : ActiveOf(d)' = ActiveOf(d)
<1>0. c \in Threads
  BY ThreadFacts
<1>1. \A d \in Callers : ~ RunsBodyOf(c, d) /\ ~ RunsBodyOf(c, d)'
  BY DEF RunsBodyOf
<1>2. \A d \in Callers \ {c} : Unclaimed(d)' = Unclaimed(d) /\ ActiveOf(d)' = ActiveOf(d)
  BY <1>0, <1>1, OtherRuns
<1>3. \A u \in Threads : RunsBodyOf(u, c)' <=> RunsBodyOf(u, c)
  BY <1>1 DEF RunsBodyOf, InBody, Alone
<1>4. \A u \in Threads : RunsBodyOf(u, c) => my_task'[u] = my_task[u]
  BY <1>1 DEF Alone
<1>5. ActiveOf(c)' = ActiveOf(c)
  BY <1>3, <1>4, ActiveKept
<1> QED
  BY <1>2, <1>5

LEMMA StartRunPromised ==
    ASSUME IInv, NEW c \in Callers, NEW n \in 0 .. MaxTasks,
           RunNothing(c, n) \/ RunInline(c, n) \/ RunPooled(c, n)
    PROVE  Promise!Next
<1>0. /\ c \in Threads /\ my_body \in [Threads -> Callers \cup {None}] /\ my_task \in [Threads -> Nat]
      /\ want \in [Callers -> 0 .. MaxTasks] /\ Callers \subseteq Threads /\ n \in Nat
  BY ThreadFacts, BoundsAssumption DEF IInv, TypeOK
<1>1. /\ UNCHANGED <<next, my_task>> /\ pc[c] = "idle" /\ want' = [want EXCEPT ![c] = n]
      /\ done' = [done EXCEPT ![c] = {}] /\ threw' = threw \ {c}
  BY DEF RunNothing, RunInline, RunPooled, EnterRun, fields
<1>2. Alone(c)
  BY <1>0, <1>1, OneMoves DEF RunNothing, RunInline, RunPooled, Alone
<1>3. \/ n = 0 /\ result' = [result EXCEPT ![c] = "returned"] /\ pc'[c] = "idle"
      \/ n > 0 /\ result' = [result EXCEPT ![c] = "none"] /\ pc'[c] \in {"loop", "enter"}
  BY <1>0, <1>1, OneMoves DEF RunNothing, RunInline, RunPooled
<1>4. ~ InBody(c) /\ ~ InBody(c)'
  BY <1>1, <1>3 DEF InBody
<1>5. /\ \A d \in Callers \ {c} : Unclaimed(d)' = Unclaimed(d)
      /\ \A d \in Callers : ActiveOf(d)' = ActiveOf(d)
  <2>1. \A d \in Callers \ {c} : want'[d] = want[d]
    BY <1>0, <1>1
  <2> QED
    BY <1>1, <1>2, <1>4, <2>1, OwnRun
<1>6. my_task'[c] = 0 /\ want'[c] = n
  BY <1>0, <1>1 DEF IInv, CallerInv, CallerOK
<1>7. Unclaimed(c)' = 0 .. n - 1
  <2>1. CASE n = 0 /\ pc'[c] = "idle"
    <3>1. 0 .. n - 1 = {}
      BY <2>1
    <3> QED
      BY <2>1, <3>1, UnclaimedFacts DEF UnclaimedAt
  <2>2. CASE pc'[c] \in {"loop", "enter"}
    BY <1>6, <2>2, UnclaimedFacts DEF UnclaimedAt
  <2> QED
    BY <1>3, <2>1, <2>2
<1>8. \A d \in Callers : Unclaimed(d)' = IF d = c THEN 0 .. n - 1 ELSE Unclaimed(d)
  BY <1>5, <1>7
<1>9. \/ n = 0 /\ result' = [result EXCEPT ![c] = "returned"] /\ Opened' = Opened
      \/ n > 0 /\ result' = [result EXCEPT ![c] = "none"] /\ Opened' = Opened \cup {c}
  BY <1>0, <1>1, <1>2, <1>3 DEF Opened, Alone
<1> QED
  BY <1>1, <1>5, <1>8, <1>9, Calls

LEMMA InlineNextPromised == ASSUME IInv, NEW c \in Callers, InlineNext(c) PROVE Promise!Next
<1>0. c \in Threads /\ my_task \in [Threads -> Nat] /\ want \in [Callers -> 0 .. MaxTasks] /\ Callers \subseteq Threads
  BY ThreadFacts, BoundsAssumption DEF IInv, TypeOK
<1>1. /\ UNCHANGED <<next, my_task, my_body, want, done, threw, result>>
      /\ pc[c] = "loop" /\ my_task[c] < want[c]
  BY DEF InlineNext, InlineTaskLeft, fields, locals, history
<1>2. pc'[c] = "inline" /\ Alone(c)
  BY <1>0, <1>1, OneMoves DEF InlineNext, Alone
<1>3. my_body[c] = c
  BY <1>1 DEF IInv, CallerInv, CallerOK, Inline
<1>4. \A u \in Threads : ~ RunsBodyOf(u, c)
  <2>1. ASSUME NEW u \in Threads, RunsBodyOf(u, c) PROVE FALSE
    BY <1>1, <2>1, BodiesApart DEF AtFields
  <2> QED
    BY <2>1
<1>5. WorkerIndex(c) \in 0 .. Size
  BY SizeAssumption DEF WorkerIndex
<1>6. \A d \in Callers \ {c} : Unclaimed(d)' = Unclaimed(d) /\ ActiveOf(d)' = ActiveOf(d)
  <2>1. \A d \in Callers \ {c} : ~ RunsBodyOf(c, d) /\ ~ RunsBodyOf(c, d)'
    BY <1>1, <1>3 DEF RunsBodyOf
  <2> QED
    BY <1>0, <1>1, <1>2, <2>1, OtherRuns
<1>7. my_task[c] \in Unclaimed(c) /\ Unclaimed(c)' = Unclaimed(c) \ {my_task[c]}
  <2>1. Unclaimed(c) = my_task[c] .. want[c] - 1 /\ Unclaimed(c)' = my_task[c] + 1 .. want[c] - 1
    BY <1>1, <1>2, UnclaimedFacts DEF UnclaimedAt
  <2>2. my_task[c] \in Int /\ want[c] \in Int
    BY <1>0
  <2> QED
    BY <1>1, <2>1, <2>2
<1>8. ActiveOf(c)' = ActiveOf(c) \cup {<<WorkerIndex(c), my_task[c]>>}
  <2>1. RunsBodyOf(c, c)' /\ ~ RunsBodyOf(c, c)
    BY <1>1, <1>2, <1>3 DEF RunsBodyOf, InBody
  <2>2. \A u \in Threads \ {c} : RunsBodyOf(u, c)' <=> RunsBodyOf(u, c)
    BY <1>2 DEF RunsBodyOf, InBody, Alone
  <2>3. \A u \in Threads \ {c} : RunsBodyOf(u, c) => my_task'[u] = my_task[u]
    BY <1>2 DEF Alone
  <2> QED
    BY <1>0, <1>1, <2>1, <2>2, <2>3, ActiveAdds
<1>9. Opened' = Opened
  BY <1>0, <1>1, <1>2 DEF Opened, Alone
<1>10. \A d \in Callers : Unclaimed(d)' = IF d = c THEN Unclaimed(c) \ {my_task[c]} ELSE Unclaimed(d)
  BY <1>6, <1>7
<1>11. \A d \in Callers : ActiveOf(d)' = IF d = c THEN ActiveOf(c) \cup {<<WorkerIndex(c), my_task[c]>>} ELSE ActiveOf(d)
  BY <1>6, <1>8
<1> QED
  BY <1>0, <1>1, <1>4, <1>5, <1>7, <1>9, <1>10, <1>11, Begins

(* Run ends: inline, unwinding, or once the workers are done with it.       *)
LEMMA LeavesPromised ==
    ASSUME IInv, NEW c \in Callers, InlineEnd(c) \/ Unwind(c) \/ LeaveRun(c) PROVE Promise!Next
<1>0. /\ c \in Threads /\ my_body \in [Threads -> Callers \cup {None}] /\ my_task \in [Threads -> Nat]
      /\ want \in [Callers -> 0 .. MaxTasks] /\ Callers \subseteq Threads
  BY ThreadFacts DEF IInv, TypeOK
<1>1. UNCHANGED <<next, want, done, threw>> /\ pc[c] \in {"loop", "unwind", "leave"}
  BY DEF InlineEnd, Unwind, LeaveRun, fields
<1>2. pc'[c] = "idle"
  BY <1>0, OneMoves DEF InlineEnd, Unwind, LeaveRun
<1>3. Alone(c)
  BY <1>0, OneMoves DEF InlineEnd, Unwind, LeaveRun, Alone
<1>4. \A u \in Threads : ~ RunsBodyOf(u, c)
  <2>1. ASSUME NEW u \in Threads, RunsBodyOf(u, c) PROVE FALSE
    BY <1>1, <2>1, BodiesApart DEF AtFields
  <2> QED
    BY <2>1
<1>5. result' = [result EXCEPT ![c] = IF c \in threw THEN "threw" ELSE "returned"]
  BY DEF InlineEnd, Unwind, LeaveRun, IInv, CallerInv, CallerOK
<1>6. Unclaimed(c) = {} \/ c \in threw
  <2>1. CASE pc[c] = "loop"
    <3>1. my_task[c] \in Int /\ want[c] \in Int /\ ~ (my_task[c] < want[c])
      BY <1>0, <2>1 DEF InlineEnd, Unwind, LeaveRun, InlineTaskLeft
    <3> QED
      BY <2>1, <3>1, UnclaimedFacts DEF UnclaimedAt
  <2>2. CASE pc[c] = "unwind"
    BY <2>2 DEF IInv, CallerInv, CallerOK
  <2>3. CASE pc[c] = "leave"
    BY <2>3, UnclaimedFacts DEF UnclaimedAt
  <2> QED
    BY <1>1, <2>1, <2>2, <2>3
<1>7. ~ InBody(c) /\ ~ InBody(c)'
  BY <1>1, <1>2 DEF InBody
<1>8. /\ \A d \in Callers \ {c} : Unclaimed(d)' = Unclaimed(d)
      /\ \A d \in Callers : ActiveOf(d)' = ActiveOf(d)
  BY <1>1, <1>3, <1>7, OwnRun
<1>9. \A d \in Callers : Unclaimed(d)' = IF d = c THEN {} ELSE Unclaimed(d)
  BY <1>2, <1>8, UnclaimedFacts DEF UnclaimedAt
<1>10. Opened' = Opened \ {c}
  BY <1>0, <1>2, <1>3 DEF Opened, Alone
<1> QED
  BY <1>1, <1>4, <1>5, <1>6, <1>8, <1>9, <1>10, ReturnsToCaller

-----------------------------------------------------------------------------
LEMMA PromiseInit == Init => Promise!Init
<1> SUFFICES ASSUME Init PROVE Promise!Init
  OBVIOUS
<1>0. Workers \cap Callers = {} /\ Threads = Workers \cup Callers
  BY ThreadFacts
<1>1. \A c \in Callers : pc[c] = "idle"
  BY <1>0 DEF Init
<1>2. Todo = [c \in Callers |-> {}]
  BY <1>1, UnclaimedFacts DEF Todo, UnclaimedAt
<1>3. Active = [c \in Callers |-> {}]
  BY <1>0 DEF Init, Active, ActiveOf, InBody
<1>4. Opened = {}
  BY <1>1 DEF Opened
<1> QED
  BY <1>2, <1>3, <1>4 DEF Promise!Init, Init, Todo, Active, ActiveOf, Opened

(* Every step of the pool is a step of the promise, or none of it.          *)
LEMMA PromiseStep == IInv /\ [Next]_vars => [Promise!Next]_Promise!vars
<1> SUFFICES ASSUME IInv, [Next]_vars PROVE Promise!Next \/ UNCHANGED Promise!vars
  OBVIOUS
<1>1. CASE StartWorker \/ AllStarted \/ StartRefused \/ Destroy \/ StopStep
  BY <1>1, PoolLife
<1>2. ASSUME NEW t \in Threads, DrainTasks(t) PROVE Promise!Next \/ UNCHANGED Promise!vars
  BY <1>2, ClaimTaskPromised, FindsNothingLeft, BodyPromised, KeepFailurePromised DEF DrainTasks
<1>3. ASSUME NEW w \in Workers, WorkerStep(w) PROVE Promise!Next \/ UNCHANGED Promise!vars
  BY <1>2, <1>3, WorkerWaits, ThreadFacts DEF WorkerStep
<1>4. ASSUME NEW t \in Threads, SpuriousWake(t) PROVE Promise!Next \/ UNCHANGED Promise!vars
  BY <1>4, SpuriouslyWoken
<1>5. ASSUME NEW c \in Callers, StartRun(c) PROVE Promise!Next \/ UNCHANGED Promise!vars
  BY <1>5, StartRunPromised DEF StartRun
<1>6. ASSUME NEW c \in Callers, RunStep(c) PROVE Promise!Next \/ UNCHANGED Promise!vars
  BY <1>2, <1>6, InlineNextPromised, InlineBodyPromised, LeavesPromised, CallerPublishes,
     CallerWaits, ThreadFacts DEF RunStep
<1>7. CASE UNCHANGED vars
  <2>1. UNCHANGED <<next, want, done, threw, result, my_task, my_body, pc>>
    BY <1>7 DEF vars
  <2>2. \A t \in Threads : InBody(t)' <=> InBody(t)
    BY <2>1 DEF InBody
  <2> QED
    BY <2>1, <2>2, QuietStep
<1> QED
  BY <1>1, <1>3, <1>4, <1>5, <1>6, <1>7 DEF Next, Terminated

(* The pool implements Run's promise to its callers (the class comment of   *)
(* work_pool.h): seen through the tasks nobody has claimed, the bodies      *)
(* running and how each Run ended, every step of every worker and caller is *)
(* one that ParallelFor allows, whatever the pool's size.                   *)
THEOREM PoolKeepsPromise == Spec => KeepsPromise
BY Inductive, PromiseInit, PromiseStep, PTL DEF Spec, KeepsPromise, Promise!Spec

-----------------------------------------------------------------------------
(* How a read's rows are divided among the tasks of a Run. *)
UnitsOf(task, parts, units) ==
    {u \in Nat : Share(task, parts, units).first <= u /\ u < Share(task, parts, units).last}

LEMMA PerTaskEnough ==
    ASSUME NEW parts \in Positive, NEW units \in Positive
    PROVE  \E per \in Positive : per = (units + parts - 1) \div parts /\ units <= parts * per
<1>1. PICK n \in Nat : n = units + parts - 1
  BY DEF Positive
<1>2. PICK per \in Nat : per = n \div parts
  BY <1>1, Division
<1>3. PICK r \in Nat : r = n % parts
  BY <1>1, Division
<1>4. n = per * parts + r /\ r < parts
  BY <1>1, <1>2, <1>3, Division
<1>5. per * parts \in Nat /\ per * parts = parts * per
  BY <1>2 DEF Positive
<1>6. units <= parts * per
  BY <1>1, <1>4, <1>5 DEF Positive
<1>7. per # 0
  BY <1>6 DEF Positive
<1> QED
  BY <1>1, <1>2, <1>6, <1>7 DEF Positive

(* Whatever a read is split in, each of its rows is one task's and no       *)
(* other's, so that nothing is accumulated twice or left out                *)
(* (TaskRows, TaskSplit::Run).                                              *)
THEOREM SharesTile ==
    ASSUME NEW parts \in Nat \ {0}, NEW units \in Nat, NEW u \in 0 .. units - 1
    PROVE  \E task \in 0 .. parts - 1 : \A other \in 0 .. parts - 1 : u \in UnitsOf(other, parts, units) <=> other = task
<1>1. parts \in Positive /\ units \in Positive /\ u \in Nat /\ u < units
  BY DEF Positive
<1>2. CASE parts <= 1
  <2>1. parts = 1
    BY <1>1, <1>2 DEF Positive
  <2>2. \A other \in 0 .. parts - 1 : other = 0 /\ u \in UnitsOf(other, parts, units)
    BY <1>1, <2>1 DEF UnitsOf, Share
  <2> QED
    BY <2>1, <2>2
<1>3. CASE ~ (parts <= 1)
  <2>1. PICK per \in Positive : per = (units + parts - 1) \div parts /\ units <= parts * per
    BY <1>1, PerTaskEnough
  <2>2. PICK task \in Nat : task = u \div per
    BY <1>1, <2>1, Quotient
  <2>3. task * per <= u /\ u < (task + 1) * per
    BY <1>1, <2>1, <2>2, Quotient
  <2>4. task < parts
    <3>1. parts * per \in Nat /\ u < parts * per
      BY <1>1, <2>1 DEF Positive
    <3> QED
      BY <1>1, <2>2, <3>1, QuotientBelow
  <2>5. ASSUME NEW other \in 0 .. parts - 1
        PROVE  u \in UnitsOf(other, parts, units) <=> other = task
    <3>1. other \in Nat /\ other + 1 \in Nat
      OBVIOUS
    <3>2. PICK first \in Nat, last \in Nat : first = other * per /\ last = (other + 1) * per
      BY <2>1, <3>1 DEF Positive
    <3>3. Share(other, parts, units) =
            [first |-> IF first < units THEN first ELSE units, last |-> IF last < units THEN last ELSE units]
      BY <1>3, <2>1, <3>2 DEF Share, TaskRows
    <3>4. u \in UnitsOf(other, parts, units) <=> first <= u /\ u < last
      BY <1>1, <3>2, <3>3 DEF UnitsOf
    <3>5. CASE other = task
      BY <2>3, <3>2, <3>4, <3>5
    <3>6. ASSUME first <= u, u < last
          PROVE  other = task
      <4>1. task >= other
        BY <1>1, <2>1, <2>2, <3>1, <3>2, <3>6, QuotientBelow
      <4>2. task < other + 1
        BY <1>1, <2>1, <2>2, <3>1, <3>2, <3>6, QuotientBelow
      <4> QED
        BY <2>2, <3>1, <4>1, <4>2
    <3> QED
      BY <3>4, <3>5, <3>6
  <2>6. task \in 0 .. parts - 1
    BY <2>2, <2>4
  <2> QED
    BY <2>5, <2>6
<1> QED
  BY <1>2, <1>3

(* A read is split in no more tasks than there are accumulators for, nor    *)
(* than it has rows, and in one at least if it has any; and a reduction has *)
(* accumulators for as many as it has threads at most (TaskSplit).          *)
THEOREM TasksAfforded ==
    ASSUME NEW budget \in Nat, NEW accumulator \in Nat, NEW pixels \in Nat, NEW rows \in Nat
    PROVE  /\ MostTasks(budget, accumulator) \in 1 .. PoolSize
           /\ PlanRowTasks(pixels, rows, MostTasks(budget, accumulator)) <= MostTasks(budget, accumulator)
           /\ PlanRowTasks(pixels, rows, MostTasks(budget, accumulator)) \in 0 .. rows
           /\ PlanRowTasks(pixels, rows, MostTasks(budget, accumulator)) = 0 <=> rows = 0
<1>1. PoolSize \in Positive /\ LeastPixelsPerTask \in Positive
  BY PoolSizeAssumption, LeastPixelsAssumption DEF Positive
<1>2. PICK each \in Positive : each = IF accumulator < 1 THEN 1 ELSE accumulator
  BY DEF Positive
<1>3. PICK held \in Nat : held = budget \div each
  BY <1>2, Division
<1>4. PICK most \in Nat : most = MostTasks(budget, accumulator)
  BY <1>1, <1>2, <1>3 DEF MostTasks, Positive
<1>5. most \in 1 .. PoolSize
  BY <1>1, <1>2, <1>3, <1>4 DEF MostTasks, Positive
<1>6. pixels * rows \in Nat
  OBVIOUS
<1>7. PICK worth \in Nat : worth = (pixels * rows) \div LeastPixelsPerTask
  BY <1>1, <1>6, Division
<1>8. PICK parts : parts = PlanRowTasks(pixels, rows, most)
  OBVIOUS
<1>9. parts = IF rows = 0 THEN 0
              ELSE IF pixels = 0 \/ most <= 1 THEN 1
              ELSE LET held_by == IF most < rows THEN most ELSE rows
                       afforded == IF worth < 1 THEN 1 ELSE worth
                   IN  IF held_by < afforded THEN held_by ELSE afforded
  BY <1>7, <1>8 DEF PlanRowTasks
<1>10. parts <= most /\ parts \in 0 .. rows /\ (parts = 0 <=> rows = 0)
  BY <1>5, <1>9
<1> QED
  BY <1>4, <1>5, <1>8, <1>10

-----------------------------------------------------------------------------
(* A histogram of an even number of bins that has yet to see a value, or    *)
(* holds the values it has seen.                                            *)
Growing(half) == [counts : [0 .. 2 * half - 1 -> Nat], lower : Int, width : Positive, seeded : BOOLEAN]
HistogramOf(g, half, values) ==
    /\ g \in Growing(half) /\ Holds(g, values)
    /\ g.seeded \/ values = <<>>

LEMMA BinNumbers ==
    ASSUME NEW half \in Positive, NEW g \in Growing(half)
    PROVE  /\ DOMAIN g.counts = 0 .. 2 * half - 1 /\ Bins(g) = 2 * half /\ Bins(g) \div 2 = half
           /\ g.width \in Nat /\ g.width > 0 /\ g.lower \in Int
           /\ g.width * (2 * half) \in Nat /\ Top(g) = g.lower + g.width * (2 * half) /\ Top(g) > g.lower
<1>1. half \in Nat /\ half > 0 /\ 2 * half \in Nat /\ 2 * half > 0
  BY DEF Positive
<1>2. DOMAIN g.counts = 0 .. 2 * half - 1 /\ g.width \in Nat /\ g.width > 0 /\ g.lower \in Int
  BY DEF Growing, Positive
<1>3. Bins(g) = 2 * half
  BY <1>1, <1>2, FS_Interval DEF Bins
<1>4. (2 * half) \div 2 = half
  BY <1>1
<1>5. PICK w \in Nat, b \in Nat : w = g.width /\ b = 2 * half /\ w > 0 /\ b > 0
  BY <1>1, <1>2
<1>6. w * b \in Nat /\ w * b > 0
  BY <1>5
<1> QED
  BY <1>2, <1>3, <1>4, <1>5, <1>6, SMTT(40) DEF Top

LEMMA LargestIs ==
    ASSUME NEW S, S \subseteq Nat, NEW x \in S, \A y \in S : y <= x
    PROVE  Max(S) \in S /\ \A y \in S : y <= Max(S)
<1>1. \A y \in S : x >= y
  OBVIOUS
<1>2. PICK m : m = CHOOSE z \in S : \A y \in S : z >= y
  OBVIOUS
<1>3. m \in S /\ \A y \in S : m >= y
  BY <1>1, <1>2, Zenon
<1>4. Max(S) = m
  BY <1>2 DEF Max
<1> QED
  BY <1>3, <1>4

(* There is a float above every one but the largest, and one below that.    *)
LEMMA SpacingPositive ==
    ASSUME NEW v \in Int
    PROVE  Spacing(v) \in Positive
<1>1. PICK at \in Nat : at = Magnitude(v)
  BY DEF Magnitude
<1>2. 0 \in Floats /\ 1 \in Floats /\ Floats \subseteq Nat
  BY FloatsAssumption
<1>3. PICK most \in Floats : \A f \in Floats : f <= most
  BY FloatsAssumption
<1>4. LargestFloat \in Floats /\ \A f \in Floats : f <= LargestFloat
  BY <1>2, <1>3, LargestIs DEF LargestFloat
<1>5. CASE at < LargestFloat
  <2>1. PICK above : above = {f \in Floats : f > at}
    OBVIOUS
  <2>2. above \subseteq Nat /\ above # {} /\ \A f \in above : f > at
    BY <1>2, <1>4, <1>5, <2>1
  <2>3. PICK x \in above : \A y \in above : x <= y
    BY <2>2, LeastNumber
  <2>4. Min(above) \in above
    BY <2>3 DEF Min
  <2>5. Spacing(v) = Min(above) - at
    BY <1>1, <1>5, <2>1 DEF Spacing
  <2>6. PICK m \in above : m = Min(above)
    BY <2>4
  <2>7. m \in Nat /\ m - at \in Nat /\ m - at # 0
    BY <2>2, <2>6
  <2> QED
    BY <2>5, <2>6, <2>7 DEF Positive
<1>6. CASE ~ (at < LargestFloat)
  <2>1. PICK below : below = {f \in Floats : f < at}
    OBVIOUS
  <2>2. at >= 1
    BY <1>2, <1>4, <1>6
  <2>3. below \subseteq Nat /\ 0 \in below /\ \A f \in below : f < at
    <3>1. 0 < at
      BY <2>2
    <3> QED
      BY <1>2, <2>1, <3>1
  <2>4. PICK x \in below : \A y \in below : y <= x
    <3>1. \A y \in below : y <= at
      BY <2>3
    <3> QED
      BY <2>3, <3>1, LargestExists
  <2>6. Max(below) \in below
    BY <2>3, <2>4, LargestIs
  <2>7. Spacing(v) = at - Max(below)
    BY <1>1, <1>6, <2>1 DEF Spacing
  <2>8. PICK m \in below : m = Max(below)
    BY <2>6
  <2>9. m \in Nat /\ at - m \in Nat /\ at - m # 0
    BY <2>3, <2>8
  <2> QED
    BY <2>7, <2>8, <2>9 DEF Positive
<1> QED
  BY <1>5, <1>6

LEMMA SeededKeeps ==
    ASSUME NEW half \in Positive, NEW g, NEW values \in Seq(Int), HistogramOf(g, half, values), NEW v \in Int
    PROVE  HistogramOf(Seeded(g, v), half, values) /\ Seeded(g, v).seeded
<1>1. CASE g.seeded
  BY <1>1 DEF Seeded, HistogramOf
<1>2. CASE ~ g.seeded
  <2>1. g \in Growing(half) /\ values = <<>>
    BY <1>2 DEF HistogramOf
  <2>2. PICK s \in Positive : s = Spacing(v)
    BY SpacingPositive
  <2>3. Bins(g) \div 2 = half /\ half \in Nat
    BY <2>1, BinNumbers DEF Positive
  <2>4. PICK low \in Int : low = v - s * half
    BY <2>2, <2>3 DEF Positive
  <2>5. Seeded(g, v) = [g EXCEPT !.width = s, !.lower = low, !.seeded = TRUE]
    BY <1>2, <2>2, <2>3, <2>4 DEF Seeded
  <2>6. PICK h : h = Seeded(g, v)
    OBVIOUS
  <2>7. h \in Growing(half) /\ h.counts = g.counts /\ h.seeded = TRUE
    BY <2>1, <2>2, <2>4, <2>5, <2>6 DEF Growing
  <2>8. Holds(h, values)
    <3>1. DOMAIN values = {}
      BY <2>1
    <3>2. \A i \in DOMAIN g.counts : g.counts[i] = Cardinality({})
      <4>1. \A i : {n \in DOMAIN values : Within(g, i, values[n])} = {}
        BY <3>1
      <4> QED
        BY <4>1 DEF HistogramOf, Holds
    <3>3. \A i : {n \in DOMAIN values : Within(h, i, values[n])} = {}
      BY <3>1
    <3> QED
      BY <2>7, <3>1, <3>2, <3>3 DEF Holds
  <2> QED
    BY <2>6, <2>7, <2>8 DEF HistogramOf
<1> QED
  BY <1>1, <1>2

(* The values from one edge up to the next. *)
Between(values, a, b) == {n \in DOMAIN values : a <= values[n] /\ values[n] < b}

LEMMA BetweenAdds ==
    ASSUME NEW values \in Seq(Int), NEW a \in Int, NEW b \in Int, NEW c \in Int, a <= b, b <= c
    PROVE  Cardinality(Between(values, a, c)) = Cardinality(Between(values, a, b)) + Cardinality(Between(values, b, c))
<1>1. PICK S, T : S = Between(values, a, b) /\ T = Between(values, b, c)
  OBVIOUS
<1>2. IsFiniteSet(S) /\ IsFiniteSet(T)
  <2>1. IsFiniteSet(DOMAIN values)
    <3>1. DOMAIN values = 1 .. Len(values) /\ Len(values) \in Int
      OBVIOUS
    <3> QED
      BY <3>1, FS_Interval
  <2>2. S \in SUBSET DOMAIN values /\ T \in SUBSET DOMAIN values
    BY <1>1 DEF Between
  <2> QED
    BY <2>1, <2>2, FS_Subset
<1>3. \A n \in DOMAIN values : values[n] \in Int
  OBVIOUS
<1>4. S \cup T = Between(values, a, c) /\ S \cap T = {}
  BY <1>1, <1>3 DEF Between
<1>5. Cardinality(S \cup T) = Cardinality(S) + Cardinality(T) - Cardinality(S \cap T)
  BY <1>2, FS_Union
<1>6. Cardinality(S) \in Nat /\ Cardinality(T) \in Nat
  BY <1>2, FS_CardinalityType
<1>7. Cardinality(S \cap T) = 0
  BY <1>4, FS_EmptySet
<1>8. Cardinality(S \cup T) = Cardinality(S) + Cardinality(T)
  BY <1>5, <1>6, <1>7
<1> QED
  BY <1>1, <1>4, <1>8

LEMMA BetweenNone ==
    ASSUME NEW values \in Seq(Int), NEW a \in Int, NEW b \in Int,
           \A n \in DOMAIN values : values[n] < a \/ values[n] >= b
    PROVE  Cardinality(Between(values, a, b)) = 0
<1>1. \A n \in DOMAIN values : values[n] \in Int
  OBVIOUS
<1>2. Between(values, a, b) = {}
  BY <1>1 DEF Between
<1> QED
  BY <1>2, FS_EmptySet

LEMMA HoldsBetween ==
    ASSUME NEW half \in Positive, NEW g \in Growing(half), NEW values
    PROVE  Holds(g, values) <=>
             /\ \A n \in DOMAIN values : g.lower <= values[n] /\ values[n] < Top(g)
             /\ \A i \in 0 .. 2 * half - 1 :
                  g.counts[i] = Cardinality(Between(values, g.lower + g.width * i, g.lower + g.width * (i + 1)))
<1>1. DOMAIN g.counts = 0 .. 2 * half - 1
  BY BinNumbers
<1>2. \A i : {n \in DOMAIN values : Within(g, i, values[n])}
               = Between(values, g.lower + g.width * i, g.lower + g.width * (i + 1))
  BY DEF Within, Between
<1> QED
  BY <1>1, <1>2, Zenon DEF Holds

LEMMA EdgeType == ASSUME NEW low \in Int, NEW w \in Int, NEW i \in Int PROVE low + w * i \in Int
OBVIOUS

LEMMA TwiceOver ==
    ASSUME NEW w \in Nat, NEW n \in Nat, NEW d \in Nat
    PROVE  /\ w * d \in Nat /\ (2 * w) * n \in Nat /\ w * (2 * (n + d)) = (2 * w) * n + 2 * (w * d)
OBVIOUS

(* The edges of the bins, by the numbers there are. *)
LEMMA Edges ==
    ASSUME NEW low \in Int, NEW w \in Nat, w > 0, NEW m \in Nat
    PROVE  /\ low + (2 * w) * m = low + w * (2 * m)
           /\ low + (2 * w) * (m + 1) = low + w * (2 * m + 1 + 1)
           /\ low + w * (2 * m) <= low + w * (2 * m + 1)
           /\ low + w * (2 * m + 1) <= low + w * (2 * m + 1 + 1)
<1>1. PICK x \in Nat : x = w * m
  OBVIOUS
<1>2. (2 * w) * m = 2 * x /\ w * (2 * m) = 2 * x
  BY <1>1
<1>3. (2 * w) * (m + 1) = 2 * x + 2 * w /\ w * (2 * m + 1) = 2 * x + w /\ w * (2 * m + 1 + 1) = 2 * x + 2 * w
  BY <1>1
<1> QED
  BY <1>2, <1>3

LEMMA EdgesBelow ==
    ASSUME NEW low \in Int, NEW w \in Nat, NEW half \in Nat, NEW m \in Nat
    PROVE  /\ low - w * (2 * half) + (2 * w) * (m + half) = low + w * (2 * m)
           /\ low - w * (2 * half) + (2 * w) * (m + half + 1) = low + w * (2 * m + 1 + 1)
<1>1. PICK x \in Nat, y \in Nat : x = w * m /\ y = w * half
  OBVIOUS
<1>2. w * (2 * m) = 2 * x /\ w * (2 * m + 1 + 1) = 2 * x + 2 * w
  BY <1>1
<1>3. w * (2 * half) = 2 * y /\ (2 * w) * (m + half) = 2 * x + 2 * y
      /\ (2 * w) * (m + half + 1) = 2 * x + 2 * y + 2 * w
  BY <1>1
<1> QED
  BY <1>1, <1>2, <1>3

LEMMA GrowFields ==
    ASSUME NEW half \in Positive, NEW g \in Growing(half), NEW upward \in BOOLEAN
    PROVE  /\ Grow(g, upward) \in Growing(half) /\ Grow(g, upward).seeded = g.seeded
           /\ Grow(g, upward).counts = Merged(g, upward) /\ Grow(g, upward).width = 2 * g.width
           /\ Grow(g, upward).lower = IF upward THEN g.lower ELSE g.lower - g.width * (2 * half)
           /\ Top(Grow(g, upward)) = IF upward THEN Top(g) + g.width * (2 * half) ELSE Top(g)
<1>1. /\ DOMAIN g.counts = 0 .. 2 * half - 1 /\ Bins(g) = 2 * half /\ Bins(g) \div 2 = half
      /\ g.width \in Nat /\ g.width > 0 /\ g.lower \in Int
      /\ g.width * (2 * half) \in Nat /\ Top(g) = g.lower + g.width * (2 * half)
  BY BinNumbers
<1>2. half \in Nat /\ half > 0
  BY DEF Positive
<1>3. PICK low \in Int : low = IF upward THEN g.lower ELSE g.lower - g.width * (2 * half)
  BY <1>1
<1>4. PICK c : c = Merged(g, upward)
  OBVIOUS
<1>5. c \in [0 .. 2 * half - 1 -> Nat]
  <2>1. g.counts \in [0 .. 2 * half - 1 -> Nat]
    BY DEF Growing
  <2>2. ASSUME NEW m \in 0 .. 2 * half - 1, NEW of \in 0 .. half - 1
        PROVE  g.counts[2 * of] + g.counts[2 * of + 1] \in Nat
    <3>1. 2 * of \in 0 .. 2 * half - 1 /\ 2 * of + 1 \in 0 .. 2 * half - 1
      BY <1>2
    <3>2. \A k \in 0 .. 2 * half - 1 : g.counts[k] \in Nat
      BY <2>1
    <3>3. g.counts[2 * of] \in Nat /\ g.counts[2 * of + 1] \in Nat
      BY <3>1, <3>2, Zenon
    <3> QED
      BY <3>3
  <2>3. c = [m \in 0 .. 2 * half - 1 |->
               LET of == IF upward THEN m ELSE m - half
               IN  IF of \in 0 .. half - 1 THEN g.counts[2 * of] + g.counts[2 * of + 1] ELSE 0]
    BY <1>1, <1>4 DEF Merged
  <2> QED
    BY <2>2, <2>3
<1>6. PICK w \in Positive : w = 2 * g.width
  BY <1>1 DEF Positive
<1>7. PICK h : h = Grow(g, upward)
  OBVIOUS
<1>8. h = [g EXCEPT !.counts = c, !.lower = low, !.width = w]
  BY <1>1, <1>3, <1>4, <1>6, <1>7 DEF Grow, Growing
<1>9. h \in Growing(half) /\ h.counts = c /\ h.lower = low /\ h.width = w /\ h.seeded = g.seeded
  BY <1>3, <1>5, <1>6, <1>8 DEF Growing
<1>10. Top(h) = low + w * (2 * half)
  BY <1>9, BinNumbers
<1>11. w * (2 * half) = g.width * (2 * half) + g.width * (2 * half)
  BY <1>1, <1>2, <1>6
<1>12. CASE upward
  <2>1. low = g.lower
    BY <1>3, <1>12
  <2>2. Top(h) = Top(g) + g.width * (2 * half)
    BY <1>1, <1>10, <1>11, <2>1
  <2> QED
    BY <1>4, <1>6, <1>7, <1>9, <1>12, <2>1, <2>2, Zenon
<1>13. CASE ~ upward
  <2>1. low = g.lower - g.width * (2 * half)
    BY <1>3, <1>13
  <2>2. Top(h) = Top(g)
    BY <1>1, <1>10, <1>11, <2>1
  <2> QED
    BY <1>4, <1>6, <1>7, <1>9, <1>13, <2>1, <2>2, Zenon
<1> QED
  BY <1>12, <1>13

(* The old bins in pairs, and nothing in the other half.                    *)
LEMMA MergedBin ==
    ASSUME NEW half \in Positive, NEW g \in Growing(half), NEW upward \in BOOLEAN,
           NEW m \in 0 .. 2 * half - 1, NEW of \in Int, of = IF upward THEN m ELSE m - half
    PROVE  /\ of \in 0 .. half - 1 => Merged(g, upward)[m] = g.counts[2 * of] + g.counts[2 * of + 1]
           /\ of \notin 0 .. half - 1 => Merged(g, upward)[m] = 0
<1>1. DOMAIN g.counts = 0 .. 2 * half - 1 /\ Bins(g) \div 2 = half
  BY BinNumbers
<1> QED
  BY <1>1 DEF Merged

LEMMA GrowKeeps ==
    ASSUME NEW half \in Positive, NEW g, NEW values \in Seq(Int), HistogramOf(g, half, values), g.seeded,
           NEW upward \in BOOLEAN
    PROVE  HistogramOf(Grow(g, upward), half, values)
<1>1. g \in Growing(half) /\ Holds(g, values)
  BY DEF HistogramOf
<1>2. half \in Nat /\ half > 0
  BY DEF Positive
<1>3. PICK low \in Int, w \in Nat : low = g.lower /\ w = g.width /\ w > 0 /\ Top(g) = low + w * (2 * half)
  BY <1>1, BinNumbers
<1>4. PICK S \in Nat : S = w * (2 * half)
  BY <1>2, <1>3
<1>5. /\ \A n \in DOMAIN values : low <= values[n] /\ values[n] < low + S
      /\ \A i \in 0 .. 2 * half - 1 :
           g.counts[i] = Cardinality(Between(values, low + w * i, low + w * (i + 1)))
  BY <1>1, <1>3, <1>4, HoldsBetween
<1>6. PICK h : h = Grow(g, upward)
  OBVIOUS
<1>7. /\ h \in Growing(half) /\ h.seeded = g.seeded /\ h.counts = Merged(g, upward) /\ h.width = 2 * w
      /\ h.lower = (IF upward THEN low ELSE low - S)
      /\ Top(h) = IF upward THEN low + S + S ELSE low + S
  <2>1. /\ h \in Growing(half) /\ h.seeded = g.seeded /\ h.counts = Merged(g, upward) /\ h.width = 2 * g.width
        /\ h.lower = (IF upward THEN g.lower ELSE g.lower - g.width * (2 * half))
        /\ Top(h) = IF upward THEN Top(g) + g.width * (2 * half) ELSE Top(g)
    <3>1. /\ Grow(g, upward) \in Growing(half) /\ Grow(g, upward).seeded = g.seeded
          /\ Grow(g, upward).counts = Merged(g, upward) /\ Grow(g, upward).width = 2 * g.width
          /\ Grow(g, upward).lower = IF upward THEN g.lower ELSE g.lower - g.width * (2 * half)
          /\ Top(Grow(g, upward)) = IF upward THEN Top(g) + g.width * (2 * half) ELSE Top(g)
      BY <1>1, GrowFields
    <3> QED
      BY <1>6, <3>1, Zenon
  <2> QED
    BY <1>3, <1>4, <2>1, Zenon
<1>8. \A n \in DOMAIN values : values[n] \in Int
  OBVIOUS
<1>9. \A n \in DOMAIN values : h.lower <= values[n] /\ values[n] < Top(h)
  BY <1>4, <1>5, <1>7, <1>8
<1>10. ASSUME NEW m \in 0 .. 2 * half - 1
       PROVE  h.counts[m] = Cardinality(Between(values, h.lower + h.width * m, h.lower + h.width * (m + 1)))
  <2>1. PICK of \in Int : of = IF upward THEN m ELSE m - half
    <3>1. m \in Int /\ m - half \in Int
      BY <1>2
    <3> QED
      BY <3>1, Zenon
  <2>2. CASE of \in 0 .. half - 1
    <3>1. of \in Nat /\ 2 * of \in 0 .. 2 * half - 1 /\ 2 * of + 1 \in 0 .. 2 * half - 1 /\ m \in Nat
      BY <1>2, <2>2
    <3>2. PICK a \in Int, b \in Int, c \in Int :
             a = low + w * (2 * of) /\ b = low + w * (2 * of + 1) /\ c = low + w * (2 * of + 1 + 1)
      <4>1. PICK x \in Nat, y \in Nat, z \in Nat : x = 2 * of /\ y = 2 * of + 1 /\ z = 2 * of + 1 + 1
        BY <3>1
      <4>2. low + w * x \in Int /\ low + w * y \in Int /\ low + w * z \in Int
        BY EdgeType
      <4> QED
        BY <4>1, <4>2
    <3>3. a <= b /\ b <= c
      BY <1>2, <1>3, <3>1, <3>2, Edges
    <3>4. h.lower + h.width * m = a /\ h.lower + h.width * (m + 1) = c
      <4>1. CASE upward
        <5>1. of = m /\ h.lower = low /\ h.width = 2 * w
          BY <1>7, <2>1, <4>1
        <5>2. /\ low + (2 * w) * of = low + w * (2 * of)
              /\ low + (2 * w) * (of + 1) = low + w * (2 * of + 1 + 1)
          BY <1>2, <1>3, <3>1, Edges
        <5> QED
          BY <3>2, <5>1, <5>2, Zenon
      <4>2. CASE ~ upward
        <5>1. m = of + half /\ h.lower = low - w * (2 * half) /\ h.width = 2 * w
          BY <1>2, <1>4, <1>7, <2>1, <4>2
        <5>2. /\ low - w * (2 * half) + (2 * w) * (of + half) = low + w * (2 * of)
              /\ low - w * (2 * half) + (2 * w) * (of + half + 1) = low + w * (2 * of + 1 + 1)
          BY <1>2, <3>1, EdgesBelow
        <5> QED
          BY <3>2, <5>1, <5>2, Zenon
      <4> QED
        BY <4>1, <4>2
    <3>5. h.counts[m] = g.counts[2 * of] + g.counts[2 * of + 1]
      BY <1>1, <1>7, <2>1, <2>2, MergedBin
    <3>6. g.counts[2 * of] = Cardinality(Between(values, a, b)) /\ g.counts[2 * of + 1] = Cardinality(Between(values, b, c))
      BY <1>5, <3>1, <3>2
    <3>7. Cardinality(Between(values, a, c)) = Cardinality(Between(values, a, b)) + Cardinality(Between(values, b, c))
      BY <3>3, BetweenAdds
    <3> QED
      BY <3>4, <3>5, <3>6, <3>7
  <2>3. CASE of \notin 0 .. half - 1
    <3>1. PICK a \in Int, b \in Int : a = h.lower + h.width * m /\ b = h.lower + h.width * (m + 1)
      <4>1. PICK l \in Int, k \in Int : l = h.lower /\ k = h.width
        <5>1. h.lower \in Int /\ h.width \in Nat
          BY <1>7, BinNumbers
        <5> QED
          BY <5>1
      <4>2. PICK i \in Int, j \in Int : i = m /\ j = m + 1
        OBVIOUS
      <4>3. l + k * i \in Int /\ l + k * j \in Int
        BY EdgeType
      <4> QED
        BY <4>1, <4>2, <4>3
    <3>2. a >= low + S \/ b <= low
      <4>1. CASE upward
        <5>1. m \in Nat /\ m >= half /\ a = low + (2 * w) * m
          BY <1>2, <1>7, <2>1, <2>3, <3>1, <4>1
        <5>2. PICK d \in Nat : m = half + d
          <6>1. m - half \in Nat /\ m = half + (m - half)
            BY <1>2, <5>1
          <6> QED
            BY <6>1
        <5>3. PICK e \in Nat : e = w * d
          BY <5>2
        <5>4. (2 * w) * (half + d) = w * (2 * half) + 2 * e
          BY <1>2, <5>2, <5>3
        <5>5. a = low + S + 2 * e
          BY <1>4, <5>1, <5>2, <5>4
        <5> QED
          BY <1>4, <5>3, <5>5
      <4>2. CASE ~ upward
        <5>1. m \in Nat /\ m + 1 <= half /\ b = low - S + (2 * w) * (m + 1)
          BY <1>2, <1>7, <2>1, <2>3, <3>1, <4>2
        <5>2. PICK d \in Nat : d = half - (m + 1)
          BY <1>2, <5>1
        <5>3. half = m + 1 + d
          BY <1>2, <5>1, <5>2
        <5>4. PICK n \in Nat : n = m + 1
          BY <5>1
        <5>5. PICK e \in Nat, f \in Nat : e = w * d /\ f = (2 * w) * n /\ w * (2 * (n + d)) = f + 2 * e
          BY TwiceOver
        <5>6. S = f + 2 * e
          BY <1>4, <5>3, <5>4, <5>5
        <5> QED
          BY <5>1, <5>4, <5>5, <5>6
      <4> QED
        BY <4>1, <4>2
    <3>3. \A n \in DOMAIN values : values[n] < a \/ values[n] >= b
      BY <1>4, <1>5, <1>8, <3>1, <3>2, SMTT(40)
    <3>4. Cardinality(Between(values, a, b)) = 0
      BY <3>3, BetweenNone
    <3>5. h.counts[m] = 0
      BY <1>1, <1>7, <2>1, <2>3, MergedBin
    <3> QED
      BY <3>1, <3>4, <3>5
  <2> QED
    BY <2>2, <2>3
<1>11. Holds(h, values)
  BY <1>7, <1>9, <1>10, HoldsBetween
<1> QED
  BY <1>6, <1>7, <1>11 DEF HistogramOf

-----------------------------------------------------------------------------
(* What is applied so many times over is there, whatever it is.             *)
Repeats(f, S, x, step, n) ==
    f \in [0 .. n -> S] /\ f[0] = x /\ \A i \in 1 .. n : f[i] = step[i][f[i - 1]]

LEMMA Repeated ==
    ASSUME NEW S, NEW n \in Nat, NEW x \in S, NEW step, step \in [1 .. n -> [S -> S]]
    PROVE  \E f : Repeats(f, S, x, step, n)
<1> USE DEF Repeats
<1> DEFINE Fine(f, m) == Repeats(f, S, x, step, m)
           Bad == {m \in 0 .. n : ~ \E f : Fine(f, m)}
<1> SUFFICES ASSUME Bad # {} PROVE FALSE
  <2>1. n \in 0 .. n
    OBVIOUS
  <2> QED
    BY <2>1
<1>1. PICK b \in Bad : \A y \in Bad : b <= y
  <2>1. Bad \subseteq Nat
    OBVIOUS
  <2> HIDE DEF Bad
  <2> QED
    BY <2>1, LeastNumber
<1>2. b \in 0 .. n /\ ~ \E f : Fine(f, b)
  BY <1>1
<1>3. b # 0
  <2>1. Fine([i \in 0 .. 0 |-> x], 0)
    OBVIOUS
  <2> QED
    BY <1>2, <2>1
<1>4. b - 1 \in 0 .. n /\ ~ (b <= b - 1) /\ b \in 1 .. n
  BY <1>2, <1>3
<1>5. PICK g : Fine(g, b - 1)
  BY <1>1, <1>4
<1>6. g[b - 1] \in S
  <2>1. b - 1 \in 0 .. b - 1
    BY <1>4
  <2> QED
    BY <1>5, <2>1
<1>7. PICK y \in S : y = step[b][g[b - 1]]
  <2>1. step[b] \in [S -> S]
    BY <1>4
  <2> QED
    BY <1>6, <2>1
<1>8. PICK f : f = [i \in 0 .. b |-> IF i = b THEN y ELSE g[i]]
  OBVIOUS
<1>9. \A i \in 0 .. b - 1 : f[i] = g[i] /\ g[i] \in S
  <2>1. \A i \in 0 .. b - 1 : i \in 0 .. b /\ i # b
    BY <1>4
  <2> QED
    BY <1>5, <1>8, <2>1
<1>10. f[b] = y
  BY <1>4, <1>8
<1>11. f \in [0 .. b -> S]
  <2>1. \A i \in 0 .. b : i = b \/ i \in 0 .. b - 1
    BY <1>4
  <2> QED
    BY <1>7, <1>8, <1>9, <2>1
<1>12. f[0] = x
  <2>1. 0 \in 0 .. b - 1
    BY <1>4
  <2> QED
    BY <1>5, <1>9, <2>1
<1>13. ASSUME NEW i \in 1 .. b PROVE f[i] = step[i][f[i - 1]]
  <2>1. i - 1 \in 0 .. b - 1
    BY <1>4
  <2>2. CASE i = b
    BY <1>7, <1>9, <1>10, <2>1, <2>2
  <2>3. CASE i # b
    <3>1. i \in 1 .. b - 1 /\ i \in 0 .. b - 1
      BY <1>4, <2>3
    <3> QED
      BY <1>5, <1>9, <2>1, <3>1
  <2> QED
    BY <2>2, <2>3
<1> QED
  BY <1>2, <1>11, <1>12, <1>13

(* The distance a value is outside the range, and the histograms that hold  *)
(* given values.                                                            *)
Away(g, v) == IF v < g.lower THEN g.lower - v ELSE IF v >= Top(g) THEN v - Top(g) + 1 ELSE 0
Holding(half, values) == {h \in Growing(half) : HistogramOf(h, half, values) /\ h.seeded = TRUE}

LEMMA AwayType ==
    ASSUME NEW half \in Positive, NEW g \in Growing(half), NEW v \in Int
    PROVE  Away(g, v) \in Nat /\ Away(g, v) <= Magnitude(v - g.lower)
           /\ (Away(g, v) = 0 => g.lower <= v /\ v < Top(g))
<1>1. PICK low \in Int, top \in Int : low = g.lower /\ top = Top(g) /\ top > low
  <2>1. g.lower \in Int /\ g.width * (2 * half) \in Nat /\ Top(g) = g.lower + g.width * (2 * half) /\ Top(g) > g.lower
    BY BinNumbers
  <2>2. Top(g) \in Int
    BY <2>1
  <2> QED
    BY <2>1, <2>2
<1> QED
  BY <1>1 DEF Away, Magnitude

(* Growing keeps what is held, and comes one nearer at least.               *)
LEMMA TowardsKeeps ==
    ASSUME NEW half \in Positive, NEW values \in Seq(Int), NEW g \in Holding(half, values), NEW v \in Int
    PROVE  /\ GrowTowards(g, v) \in Holding(half, values)
           /\ Away(GrowTowards(g, v), v) <= Away(g, v)
           /\ Away(g, v) > 0 => Away(GrowTowards(g, v), v) < Away(g, v)
<1>1. g \in Growing(half) /\ HistogramOf(g, half, values) /\ g.seeded = TRUE
  BY DEF Holding
<1>2. ASSUME NEW up \in BOOLEAN PROVE Grow(g, up) \in Holding(half, values)
  <2>1. HistogramOf(Grow(g, up), half, values)
    BY <1>1, GrowKeeps
  <2>2. Grow(g, up) \in Growing(half) /\ Grow(g, up).seeded = g.seeded
    BY <1>1, GrowFields
  <2> QED
    BY <1>1, <2>1, <2>2, Zenon DEF Holding
<1>3. PICK low \in Int, S \in Nat : low = g.lower /\ S = g.width * (2 * half) /\ Top(g) = low + S /\ S > 0
  <2>1. g.lower \in Int /\ g.width * (2 * half) \in Nat /\ Top(g) = g.lower + g.width * (2 * half) /\ Top(g) > g.lower
    BY <1>1, BinNumbers
  <2> QED
    BY <2>1
<1>4. CASE v < low
  <2>1. PICK h : h = Grow(g, FALSE)
    OBVIOUS
  <2>2. GrowTowards(g, v) = h
    BY <1>3, <1>4, <2>1 DEF GrowTowards
  <2>3. h.lower = low - S /\ Top(h) = low + S
    BY <1>1, <1>3, <2>1, GrowFields
  <2>4. h \in Holding(half, values)
    BY <1>2, <2>1
  <2>5. Away(g, v) = low - v
    BY <1>3, <1>4 DEF Away
  <2>6. ~ (v >= low + S)
    BY <1>3, <1>4
  <2>7. Away(h, v) = IF v < low - S THEN low - S - v ELSE 0
    BY <2>3, <2>6 DEF Away
  <2>8. Away(h, v) < Away(g, v)
    BY <1>3, <1>4, <2>5, <2>7
  <2>9. Away(h, v) \in Int /\ Away(g, v) \in Int
    BY <1>3, <2>5, <2>7
  <2> QED
    BY <2>2, <2>4, <2>8, <2>9
<1>5. CASE ~ (v < low) /\ v >= low + S
  <2>1. PICK h : h = Grow(g, TRUE)
    OBVIOUS
  <2>2. GrowTowards(g, v) = h
    BY <1>3, <1>5, <2>1 DEF GrowTowards
  <2>3. h.lower = low /\ Top(h) = low + S + S
    BY <1>1, <1>3, <2>1, GrowFields
  <2>4. h \in Holding(half, values)
    BY <1>2, <2>1
  <2>5. Away(g, v) = v - (low + S) + 1
    BY <1>3, <1>5 DEF Away
  <2>6. Away(h, v) = IF v >= low + S + S THEN v - (low + S + S) + 1 ELSE 0
    BY <1>5, <2>3 DEF Away
  <2>7. Away(h, v) < Away(g, v)
    BY <1>3, <1>5, <2>5, <2>6
  <2>8. Away(h, v) \in Int /\ Away(g, v) \in Int
    BY <1>3, <2>5, <2>6, SMTT(40)
  <2> QED
    BY <2>2, <2>4, <2>7, <2>8
<1>6. CASE ~ (v < low) /\ ~ (v >= low + S)
  <2>1. GrowTowards(g, v) = g
    BY <1>3, <1>6 DEF GrowTowards
  <2>2. Away(g, v) = 0
    BY <1>3, <1>6 DEF Away
  <2> QED
    BY <2>1, <2>2
<1> QED
  BY <1>4, <1>5, <1>6

IsGrown(f, g, v, n) == f = [i \in 0 .. n |-> IF i = 0 THEN g ELSE GrowTowards(f[i - 1], v)]

LEMMA GrownExists ==
    ASSUME NEW half \in Positive, NEW values \in Seq(Int), NEW g \in Holding(half, values), NEW v \in Int, NEW n \in Nat
    PROVE  \E f : IsGrown(f, g, v, n)
<1>1. PICK S : S = Holding(half, values)
  OBVIOUS
<1>2. PICK step : step = [i \in 1 .. n |-> [h \in S |-> GrowTowards(h, v)]]
  OBVIOUS
<1>3. step \in [1 .. n -> [S -> S]]
  <2>1. \A h \in S : GrowTowards(h, v) \in S
    BY <1>1, TowardsKeeps
  <2> QED
    BY <1>2, <2>1
<1>4. PICK f : f \in [0 .. n -> S] /\ f[0] = g /\ \A i \in 1 .. n : f[i] = step[i][f[i - 1]]
  <2>1. g \in S
    BY <1>1
  <2>2. PICK f : Repeats(f, S, g, step, n)
    BY <1>3, <2>1, Repeated
  <2> QED
    BY <2>2 DEF Repeats
<1>5. ASSUME NEW i \in 0 .. n PROVE f[i] = IF i = 0 THEN g ELSE GrowTowards(f[i - 1], v)
  <2>1. CASE i = 0
    BY <1>4, <2>1
  <2>2. CASE i # 0
    <3>1. i \in 1 .. n /\ i - 1 \in 0 .. n
      BY <2>2
    <3>2. f[i - 1] \in S
      BY <1>4, <3>1
    <3>4. step[i][f[i - 1]] = GrowTowards(f[i - 1], v)
      BY <1>2, <3>1, <3>2
    <3> QED
      BY <1>4, <2>2, <3>1, <3>4
  <2> QED
    BY <2>1, <2>2
<1> QED
  BY <1>4, <1>5 DEF IsGrown

(* After as many times as it was away, the value is inside. *)
LEMMA GrownFits ==
    ASSUME NEW half \in Positive, NEW values \in Seq(Int), NEW g \in Holding(half, values), NEW v \in Int,
           NEW n \in Nat, Away(g, v) <= n
    PROVE  /\ GrownTowards(g, v, n) \in Holding(half, values)
           /\ GrownTowards(g, v, n).lower <= v /\ v < Top(GrownTowards(g, v, n))
<1>1. PICK f : f = CHOOSE h : IsGrown(h, g, v, n)
  OBVIOUS
<1>2. IsGrown(f, g, v, n)
  BY <1>1, GrownExists
<1>3. GrownTowards(g, v, n) = f[n]
  BY <1>1 DEF GrownTowards, IsGrown
<1>4. \A i \in 0 .. n : f[i] = IF i = 0 THEN g ELSE GrowTowards(f[i - 1], v)
  BY <1>2 DEF IsGrown
<1> DEFINE Good(i) == f[i] \in Holding(half, values) /\ Away(f[i], v) <= n - i
           Bad == {i \in 0 .. n : ~ Good(i)}
<1>5. Bad = {}
  <2> SUFFICES ASSUME Bad # {} PROVE FALSE
    OBVIOUS
  <2>1. PICK b \in Bad : \A y \in Bad : b <= y
    <3>1. Bad \subseteq Nat
      OBVIOUS
    <3> HIDE DEF Bad
    <3> QED
      BY <3>1, LeastNumber
  <2>2. b \in 0 .. n /\ ~ Good(b)
    BY <2>1
  <2>3. b # 0
    <3>1. f[0] = g
      BY <1>4
    <3> QED
      BY <2>2, <3>1
  <2>4. b - 1 \in 0 .. n /\ ~ (b <= b - 1)
    BY <2>2, <2>3
  <2>5. Good(b - 1)
    BY <2>1, <2>4
  <2>6. PICK h \in Holding(half, values) : h = f[b - 1] /\ Away(h, v) <= n - (b - 1)
    BY <2>5
  <2>7. f[b] = GrowTowards(h, v)
    BY <1>4, <2>2, <2>3, <2>6
  <2>8. /\ GrowTowards(h, v) \in Holding(half, values)
        /\ Away(GrowTowards(h, v), v) <= Away(h, v)
        /\ Away(h, v) > 0 => Away(GrowTowards(h, v), v) < Away(h, v)
    BY TowardsKeeps
  <2>9. Away(h, v) \in Nat /\ Away(GrowTowards(h, v), v) \in Nat
    BY <2>8, AwayType DEF Holding
  <2>10. Away(GrowTowards(h, v), v) <= n - b
    BY <2>2, <2>4, <2>6, <2>8, <2>9
  <2> QED
    BY <2>2, <2>7, <2>8, <2>10
<1>6. Good(n)
  <2>1. n \in 0 .. n
    OBVIOUS
  <2> QED
    BY <1>5, <2>1
<1>7. f[n] \in Growing(half)
  BY <1>6 DEF Holding
<1>8. Away(f[n], v) \in Nat
  BY <1>7, AwayType
<1>9. Away(f[n], v) = 0
  BY <1>6, <1>8
<1>10. f[n].lower <= v /\ v < Top(f[n])
  BY <1>7, <1>9, AwayType
<1> QED
  BY <1>3, <1>6, <1>10

LEMMA FittedHolds ==
    ASSUME NEW half \in Positive, NEW values \in Seq(Int), NEW g, HistogramOf(g, half, values), NEW v \in Int
    PROVE  Fitted(g, v) \in Holding(half, values) /\ Fitted(g, v).lower <= v /\ v < Top(Fitted(g, v))
<1>1. PICK h : h = Seeded(g, v)
  OBVIOUS
<1>2. HistogramOf(h, half, values) /\ h.seeded
  BY <1>1, SeededKeeps
<1>3. h \in Growing(half)
  BY <1>2 DEF HistogramOf
<1>4. h.seeded = TRUE
  <2>1. h.seeded \in BOOLEAN
    BY <1>3 DEF Growing
  <2> QED
    BY <1>2, <2>1
<1>5. h \in Holding(half, values)
  BY <1>2, <1>3, <1>4 DEF Holding
<1>6. PICK n \in Nat : n = Magnitude(v - h.lower)
  <2>1. v - h.lower \in Int
    BY <1>3, BinNumbers
  <2> QED
    BY <2>1 DEF Magnitude
<1>7. Away(h, v) <= n
  BY <1>3, <1>6, AwayType
<1>8. Fitted(g, v) = GrownTowards(h, v, n)
  BY <1>1, <1>6 DEF Fitted
<1> QED
  BY <1>5, <1>7, <1>8, GrownFits

(* A value is in the bin its distance from the lower end says, and no other.*)
LEMMA OneBin ==
    ASSUME NEW half \in Positive, NEW g \in Growing(half), NEW v \in Int, g.lower <= v, v < Top(g)
    PROVE  LET bin == Least((v - g.lower) \div g.width, Bins(g) - 1)
           IN  bin \in 0 .. 2 * half - 1 /\ \A i \in 0 .. 2 * half - 1 : Within(g, i, v) <=> i = bin
<1>1. half \in Nat /\ half > 0
  BY DEF Positive
<1>2. PICK low \in Int, w \in Positive : low = g.lower /\ w = g.width /\ Top(g) = low + w * (2 * half) /\ Bins(g) = 2 * half
  <2>1. g.width \in Positive
    BY DEF Growing
  <2> QED
    BY <2>1, BinNumbers
<1>3. PICK d \in Nat : d = v - low
  BY <1>2
<1>4. w \in Nat /\ w > 0
  BY DEF Positive
<1>5. PICK q \in Nat : q = d \div w /\ q * w <= d /\ d < (q + 1) * w
  BY Quotient
<1>6. q < 2 * half
  <2>1. d < (2 * half) * w
    <3>1. PICK x \in Nat : x = w * (2 * half) /\ x = (2 * half) * w
      BY <1>1, <1>4
    <3> QED
      BY <1>2, <1>3, <3>1
  <2>2. 2 * half \in Nat
    BY <1>1
  <2> QED
    BY <1>5, <2>1, <2>2, QuotientBelow
<1>7. Least((v - g.lower) \div g.width, Bins(g) - 1) = q
  BY <1>1, <1>2, <1>3, <1>5, <1>6 DEF Least
<1>8. ASSUME NEW i \in 0 .. 2 * half - 1 PROVE Within(g, i, v) <=> i = q
  <2>1. i \in Nat
    OBVIOUS
  <2>2. PICK x \in Nat, y \in Nat : x = w * i /\ x = i * w /\ y = w * (i + 1) /\ y = (i + 1) * w
    BY <1>4, <2>1
  <2>3. Within(g, i, v) <=> x <= d /\ d < y
    BY <1>2, <1>3, <2>2 DEF Within
  <2>4. i = q => x <= d /\ d < y
    BY <1>5, <2>2
  <2>5. x <= d => q >= i
    BY <1>5, <2>1, <2>2, QuotientBelow
  <2>6. d < y => q < i + 1
    BY <1>5, <2>1, <2>2, QuotientBelow
  <2> QED
    BY <1>5, <2>1, <2>3, <2>4, <2>5, <2>6
<1> QED
  BY <1>1, <1>5, <1>6, <1>7, <1>8

(* One value more is counted in that bin. *)
LEMMA AddValueHolds ==
    ASSUME NEW half \in Positive, NEW values \in Seq(Int), NEW g, HistogramOf(g, half, values), NEW v \in Int
    PROVE  HistogramOf(AddValue(g, v), half, Append(values, v))
<1>1. PICK h \in Holding(half, values) : h = Fitted(g, v) /\ h.lower <= v /\ v < Top(h)
  BY FittedHolds
<1>2. h \in Growing(half) /\ Holds(h, values) /\ h.seeded = TRUE
  BY DEF Holding, HistogramOf
<1>3. PICK bin : bin = Least((v - h.lower) \div h.width, Bins(h) - 1)
  OBVIOUS
<1>4. bin \in 0 .. 2 * half - 1 /\ \A i \in 0 .. 2 * half - 1 : Within(h, i, v) <=> i = bin
  BY <1>1, <1>2, <1>3, OneBin
<1>5. PICK c : c = [h.counts EXCEPT ![bin] = @ + 1]
  OBVIOUS
<1>6. PICK k : k = AddValue(g, v)
  OBVIOUS
<1>7. k = [h EXCEPT !.counts = c]
  BY <1>1, <1>2, <1>3, <1>5, <1>6 DEF AddValue, Growing
<1>8. h.counts \in [0 .. 2 * half - 1 -> Nat]
  BY <1>2 DEF Growing
<1>9. c \in [0 .. 2 * half - 1 -> Nat]
  <2>1. h.counts[bin] + 1 \in Nat
    <3>1. PICK x \in Nat : x = h.counts[bin]
      BY <1>4, <1>8
    <3> QED
      BY <3>1
  <2> QED
    BY <1>4, <1>5, <1>8, <2>1
<1>10. k \in Growing(half) /\ k.counts = c /\ k.lower = h.lower /\ k.width = h.width /\ k.seeded = TRUE
  BY <1>2, <1>7, <1>9 DEF Growing
<1>11. Top(k) = Top(h)
  BY <1>2, <1>10, BinNumbers
<1>12. PICK after, last : after = Append(values, v) /\ last = Len(values) + 1
  OBVIOUS
<1>13. /\ after \in Seq(Int) /\ DOMAIN after = DOMAIN values \cup {last} /\ last \notin DOMAIN values
       /\ after[last] = v /\ \A n \in DOMAIN values : after[n] = values[n]
  BY <1>12
<1>14. \A n \in DOMAIN after : k.lower <= after[n] /\ after[n] < Top(k)
  <2>1. \A n \in DOMAIN values : h.lower <= values[n] /\ values[n] < Top(h)
    BY <1>2 DEF Holds
  <2> QED
    BY <1>1, <1>10, <1>11, <1>13, <2>1, Zenon
<1>15. ASSUME NEW i \in DOMAIN k.counts
       PROVE  k.counts[i] = Cardinality({n \in DOMAIN after : Within(k, i, after[n])})
  <2>1. i \in 0 .. 2 * half - 1
    BY <1>9, <1>10
  <2>2. PICK B : B = {n \in DOMAIN values : Within(h, i, values[n])}
    OBVIOUS
  <2>3. h.counts[i] = Cardinality(B)
    BY <1>2, <1>8, <2>1, <2>2 DEF Holds
  <2>4. IsFiniteSet(B) /\ last \notin B
    <3>1. DOMAIN values = 1 .. Len(values) /\ Len(values) \in Int
      OBVIOUS
    <3>2. IsFiniteSet(DOMAIN values)
      BY <3>1, FS_Interval
    <3>3. B \in SUBSET DOMAIN values
      BY <2>2
    <3> QED
      BY <1>13, <3>2, <3>3, FS_Subset
  <2>5. \A x : Within(k, i, x) <=> Within(h, i, x)
    BY <1>10 DEF Within
  <2>6. CASE i = bin
    <3>1. Within(h, i, v)
      BY <1>4, <2>1, <2>6
    <3>2. {n \in DOMAIN after : Within(k, i, after[n])} = B \cup {last}
      BY <1>13, <2>2, <2>5, <3>1, Zenon
    <3>3. Cardinality(B \cup {last}) = Cardinality(B) + 1
      BY <2>4, FS_AddElement
    <3>4. c[i] = h.counts[i] + 1
      BY <1>4, <1>5, <1>8, <2>6
    <3> QED
      BY <1>10, <2>3, <3>2, <3>3, <3>4
  <2>7. CASE i # bin
    <3>1. ~ Within(h, i, v)
      BY <1>4, <2>1, <2>7
    <3>2. {n \in DOMAIN after : Within(k, i, after[n])} = B
      BY <1>13, <2>2, <2>5, <3>1, Zenon
    <3>3. c[i] = h.counts[i]
      BY <1>5, <1>8, <2>1, <2>7
    <3> QED
      BY <1>10, <2>3, <3>2, <3>3
  <2> QED
    BY <2>6, <2>7
<1>16. Holds(k, after)
  BY <1>14, <1>15 DEF Holds
<1> QED
  BY <1>6, <1>10, <1>12, <1>16 DEF HistogramOf

(* So many of the values after those before. *)
Taken(before, values, n) ==
    [k \in 1 .. Len(before) + n |-> IF k <= Len(before) THEN before[k] ELSE values[k - Len(before)]]
IsAdded(f, g, values, n) == f = [i \in 0 .. n |-> IF i = 0 THEN g ELSE AddValue(f[i - 1], values[i])]

LEMMA TakenStep ==
    ASSUME NEW before \in Seq(Int), NEW values \in Seq(Int)
    PROVE  /\ Taken(before, values, 0) = before
           /\ Taken(before, values, Len(values)) = before \o values
           /\ \A n \in 0 .. Len(values) : Taken(before, values, n) \in Seq(Int)
           /\ \A n \in 1 .. Len(values) :
                Taken(before, values, n) = Append(Taken(before, values, n - 1), values[n])
<1>1. Len(before) \in Nat /\ Len(values) \in Nat
  OBVIOUS
<1>2. \A n \in 0 .. Len(values) : Taken(before, values, n) \in Seq(Int)
  <2> TAKE n \in 0 .. Len(values)
  <2>1. PICK len \in Nat : len = Len(before) + n
    BY <1>1
  <2>2. ASSUME NEW k \in 1 .. len
        PROVE  (IF k <= Len(before) THEN before[k] ELSE values[k - Len(before)]) \in Int
    BY <1>1, <2>1
  <2>3. Taken(before, values, n) \in [1 .. len -> Int]
    BY <2>1, <2>2 DEF Taken
  <2> QED
    BY <2>3
<1>3. ASSUME NEW n \in 1 .. Len(values)
      PROVE  Taken(before, values, n) = Append(Taken(before, values, n - 1), values[n])
  <2>1. PICK s, t : s = Taken(before, values, n) /\ t = Taken(before, values, n - 1)
    OBVIOUS
  <2>2. s \in Seq(Int) /\ t \in Seq(Int)
    BY <1>1, <1>2, <2>1
  <2>3. PICK len \in Nat : len = Len(before) + n - 1
    <3>1. Len(before) + n - 1 \in Nat
      BY <1>1
    <3> QED
      BY <3>1
  <2>4. t = [k \in 1 .. len |-> IF k <= Len(before) THEN before[k] ELSE values[k - Len(before)]]
    BY <1>1, <2>1, <2>3 DEF Taken
  <2>5. s = [k \in 1 .. len + 1 |-> IF k <= Len(before) THEN before[k] ELSE values[k - Len(before)]]
    BY <1>1, <2>1, <2>3 DEF Taken
  <2>6. Len(t) = len /\ Len(s) = len + 1
    BY <2>2, <2>3, <2>4, <2>5
  <2>7. s[len + 1] = values[n]
    BY <1>1, <2>3, <2>5
  <2>8. \A k \in 1 .. len : s[k] = t[k]
    BY <2>3, <2>4, <2>5
  <2>9. PICK u : u = Append(t, values[n])
    OBVIOUS
  <2>10. u \in Seq(Int) /\ Len(u) = len + 1 /\ u[len + 1] = values[n] /\ \A k \in 1 .. len : u[k] = t[k]
    BY <2>2, <2>3, <2>6, <2>9
  <2>11. \A k \in 1 .. len + 1 : s[k] = u[k]
    <3>1. \A k \in 1 .. len + 1 : k = len + 1 \/ k \in 1 .. len
      BY <2>3
    <3> QED
      BY <2>7, <2>8, <2>10, <3>1, Zenon
  <2>12. s = u
    BY <2>2, <2>6, <2>10, <2>11
  <2> QED
    BY <2>1, <2>9, <2>12
<1>4. Taken(before, values, 0) = before
  BY <1>1 DEF Taken
<1>5. Taken(before, values, Len(values)) = before \o values
  <2>1. PICK s, t : s = Taken(before, values, Len(values)) /\ t = before \o values
    OBVIOUS
  <2>2. PICK len \in Nat : len = Len(before) + Len(values)
    BY <1>1
  <2>3. Len(values) \in 0 .. Len(values)
    BY <1>1
  <2>4. s \in Seq(Int) /\ s = [k \in 1 .. len |-> IF k <= Len(before) THEN before[k] ELSE values[k - Len(before)]]
    BY <1>2, <2>1, <2>2, <2>3 DEF Taken
  <2>5. Len(s) = len
    BY <2>2, <2>4
  <2>6. t \in Seq(Int) /\ Len(t) = len
    BY <2>1, <2>2
  <2>7. \A k \in 1 .. len : t[k] = IF k <= Len(before) THEN before[k] ELSE values[k - Len(before)]
    BY <1>1, <2>1, <2>2
  <2>8. \A k \in 1 .. len : s[k] = t[k]
    BY <2>4, <2>7
  <2>9. s = t
    BY <2>4, <2>5, <2>6, <2>8
  <2> QED
    BY <2>1, <2>9
<1> QED
  BY <1>2, <1>3, <1>4, <1>5

(* A provisional histogram stays exact whatever it is given: after any      *)
(* values, growing as often as it takes to reach each, every value is       *)
(* between its ends and is counted in the one bin whose edges it lies       *)
(* between (GrowingHistogram::Add, for every even number of bins).          *)
THEOREM GrowthHolds ==
    ASSUME NEW half \in Positive, NEW before \in Seq(Int), NEW values \in Seq(Int),
           NEW g, HistogramOf(g, half, before)
    PROVE  HistogramOf(AddValues(g, values), half, before \o values)
<1>1. PICK n \in Nat : n = Len(values)
  OBVIOUS
<1>2. PICK S : S = {h \in Growing(half) : \E vs \in Seq(Int) : HistogramOf(h, half, vs)}
  OBVIOUS
<1>3. PICK step : step = [i \in 1 .. n |-> [h \in S |-> AddValue(h, values[i])]]
  OBVIOUS
<1>4. step \in [1 .. n -> [S -> S]]
  <2>1. ASSUME NEW i \in 1 .. n, NEW h \in S PROVE AddValue(h, values[i]) \in S
    <3>1. PICK vs \in Seq(Int) : HistogramOf(h, half, vs)
      BY <1>2
    <3>2. values[i] \in Int
      BY <1>1
    <3>3. HistogramOf(AddValue(h, values[i]), half, Append(vs, values[i]))
      BY <3>1, <3>2, AddValueHolds
    <3>4. AddValue(h, values[i]) \in Growing(half)
      BY <3>3 DEF HistogramOf
    <3>5. Append(vs, values[i]) \in Seq(Int)
      BY <3>1, <3>2
    <3> QED
      BY <1>2, <3>3, <3>4, <3>5
  <2> QED
    BY <1>3, <2>1
<1>5. g \in S
  BY <1>2 DEF HistogramOf
<1>6. \E f : IsAdded(f, g, values, n)
  <2>1. PICK f : Repeats(f, S, g, step, n)
    BY <1>4, <1>5, Repeated
  <2>2. f \in [0 .. n -> S] /\ f[0] = g /\ \A i \in 1 .. n : f[i] = step[i][f[i - 1]]
    BY <2>1 DEF Repeats
  <2>3. ASSUME NEW i \in 0 .. n PROVE f[i] = IF i = 0 THEN g ELSE AddValue(f[i - 1], values[i])
    <3>1. CASE i = 0
      BY <2>2, <3>1
    <3>2. CASE i # 0
      <4>1. i \in 1 .. n /\ i - 1 \in 0 .. n
        BY <3>2
      <4>2. f[i - 1] \in S
        BY <2>2, <4>1
      <4>3. step[i][f[i - 1]] = AddValue(f[i - 1], values[i])
        BY <1>3, <4>1, <4>2
      <4> QED
        BY <2>2, <3>2, <4>1, <4>3
    <3> QED
      BY <3>1, <3>2
  <2> QED
    BY <2>2, <2>3 DEF IsAdded
<1>7. PICK f : f = CHOOSE h : IsAdded(h, g, values, n)
  OBVIOUS
<1>8. \A i \in 0 .. n : f[i] = IF i = 0 THEN g ELSE AddValue(f[i - 1], values[i])
  <2>1. IsAdded(f, g, values, n)
    BY <1>6, <1>7
  <2> QED
    BY <2>1 DEF IsAdded
<1>9. AddValues(g, values) = f[n]
  BY <1>1, <1>7 DEF AddValues, AddFirst, IsAdded
<1> DEFINE Bad == {i \in 0 .. n : ~ HistogramOf(f[i], half, Taken(before, values, i))}
<1>10. Bad = {}
  <2> SUFFICES ASSUME Bad # {} PROVE FALSE
    OBVIOUS
  <2>1. PICK b \in Bad : \A y \in Bad : b <= y
    <3>1. Bad \subseteq Nat
      OBVIOUS
    <3> HIDE DEF Bad
    <3> QED
      BY <3>1, LeastNumber
  <2>2. b \in 0 .. n /\ ~ HistogramOf(f[b], half, Taken(before, values, b))
    BY <2>1
  <2>3. b # 0
    <3>1. f[0] = g /\ Taken(before, values, 0) = before
      BY <1>8, TakenStep
    <3> QED
      BY <2>2, <3>1
  <2>4. b - 1 \in 0 .. n /\ ~ (b <= b - 1) /\ b \in 1 .. Len(values)
    BY <1>1, <2>2, <2>3
  <2>5. PICK h, vs : h = f[b - 1] /\ vs = Taken(before, values, b - 1)
    OBVIOUS
  <2>6. HistogramOf(h, half, vs) /\ vs \in Seq(Int) /\ values[b] \in Int
    <3>1. HistogramOf(f[b - 1], half, Taken(before, values, b - 1))
      BY <2>1, <2>4
    <3>2. b - 1 \in 0 .. Len(values)
      BY <1>1, <2>4
    <3>3. Taken(before, values, b - 1) \in Seq(Int)
      BY <3>2, TakenStep
    <3>4. values[b] \in Int
      BY <2>4
    <3> QED
      BY <2>5, <3>1, <3>3, <3>4
  <2>7. HistogramOf(AddValue(h, values[b]), half, Append(vs, values[b]))
    BY <2>6, AddValueHolds
  <2>8. f[b] = AddValue(h, values[b]) /\ Taken(before, values, b) = Append(vs, values[b])
    BY <1>8, <2>2, <2>3, <2>4, <2>5, TakenStep
  <2> QED
    BY <2>2, <2>7, <2>8
<1>11. HistogramOf(f[n], half, Taken(before, values, n))
  <2>1. n \in 0 .. n
    OBVIOUS
  <2> QED
    BY <1>10, <2>1
<1> QED
  BY <1>1, <1>9, <1>11, TakenStep

(* A new one of an even number of bins holds nothing, so what it is first   *)
(* given it holds (NewAccumulator's histogram).                             *)
THEOREM NewGrowthHolds ==
    ASSUME NEW half \in Positive, NEW values \in Seq(Int)
    PROVE  Holds(AddValues(NewHistogram(2 * half), values), values)
<1>1. half \in Nat /\ half > 0
  BY DEF Positive
<1>2. PICK g : g = NewHistogram(2 * half)
  OBVIOUS
<1>3. g \in Growing(half)
  BY <1>1, <1>2 DEF NewHistogram, CountsOf, Growing, Positive
<1>4. Holds(g, <<>>)
  <2>1. \A i : {n \in DOMAIN <<>> : Within(g, i, <<>>[n])} = {}
    OBVIOUS
  <2>2. \A i \in DOMAIN g.counts : g.counts[i] = 0
    BY <1>2 DEF NewHistogram, CountsOf
  <2> QED
    BY <2>1, <2>2, FS_EmptySet DEF Holds
<1>5. HistogramOf(g, half, <<>>)
  BY <1>3, <1>4 DEF HistogramOf
<1>6. <<>> \in Seq(Int)
  OBVIOUS
<1>7. HistogramOf(AddValues(g, values), half, <<>> \o values)
  BY <1>5, <1>6, GrowthHolds
<1>8. <<>> \o values = values
  OBVIOUS
<1> QED
  BY <1>2, <1>7, <1>8 DEF HistogramOf

-----------------------------------------------------------------------------
(* Sums of counts numbered from 0. *)
IsTotal(f, c, n) == f = [i \in 0 .. n |-> IF i = 0 THEN 0 ELSE f[i - 1] + c[i - 1]]

LEMMA TotalExists ==
    ASSUME NEW n \in Nat, NEW c \in [0 .. n - 1 -> Int]
    PROVE  \E f \in [0 .. n -> Int] : IsTotal(f, c, n)
<1>1. PICK step : step = [i \in 1 .. n |-> [x \in Int |-> x + c[i - 1]]]
  OBVIOUS
<1>2. step \in [1 .. n -> [Int -> Int]]
  <2>1. ASSUME NEW i \in 1 .. n, NEW x \in Int PROVE x + c[i - 1] \in Int
    <3>1. c[i - 1] \in Int
      OBVIOUS
    <3> QED
      BY <3>1
  <2> QED
    BY <1>1, <2>1
<1>3. 0 \in Int
  OBVIOUS
<1>4. PICK f : Repeats(f, Int, 0, step, n)
  BY <1>2, <1>3, Repeated
<1>5. f \in [0 .. n -> Int] /\ f[0] = 0 /\ \A i \in 1 .. n : f[i] = step[i][f[i - 1]]
  BY <1>4 DEF Repeats
<1>6. ASSUME NEW i \in 0 .. n PROVE f[i] = IF i = 0 THEN 0 ELSE f[i - 1] + c[i - 1]
  <2>1. CASE i = 0
    BY <1>5, <2>1
  <2>2. CASE i # 0
    <3>1. i \in 1 .. n /\ i - 1 \in 0 .. n
      BY <2>2
    <3>2. f[i - 1] \in Int
      BY <1>5, <3>1
    <3>3. step[i][f[i - 1]] = f[i - 1] + c[i - 1]
      BY <1>1, <3>1, <3>2
    <3> QED
      BY <1>5, <2>2, <3>1, <3>3
  <2> QED
    BY <2>1, <2>2
<1>7. IsTotal(f, c, n)
  BY <1>5, <1>6 DEF IsTotal
<1> QED
  BY <1>5, <1>7

LEMMA SumsUp ==
    ASSUME NEW n \in Nat, NEW c \in [0 .. n - 1 -> Int]
    PROVE  /\ Sum(c) = SumBefore(c, n) /\ SumBefore(c, 0) = 0
           /\ \A i \in 0 .. n : SumBefore(c, i) \in Int
           /\ \A i \in 1 .. n : SumBefore(c, i) = SumBefore(c, i - 1) + c[i - 1]
<1>1. Cardinality(DOMAIN c) = n
  <2>1. DOMAIN c = 0 .. n - 1
    OBVIOUS
  <2>2. Cardinality(0 .. n - 1) = n
    <3>1. 0 \in Int /\ n - 1 \in Int
      OBVIOUS
    <3>2. Cardinality(0 .. n - 1) = IF 0 > n - 1 THEN 0 ELSE n - 1 - 0 + 1
      BY <3>1, FS_Interval
    <3> QED
      BY <3>2
  <2> QED
    BY <2>1, <2>2
<1>2. PICK f : f = CHOOSE h : IsTotal(h, c, n)
  OBVIOUS
<1>3. IsTotal(f, c, n)
  BY <1>2, TotalExists
<1>4. \A i : SumBefore(c, i) = f[i]
  BY <1>1, <1>2 DEF SumBefore, IsTotal
<1>5. \A i \in 0 .. n : f[i] = IF i = 0 THEN 0 ELSE f[i - 1] + c[i - 1]
  BY <1>3 DEF IsTotal
<1>6. Sum(c) = SumBefore(c, n)
  BY <1>1 DEF Sum
<1>7. f[0] = 0 /\ \A i \in 1 .. n : f[i] = f[i - 1] + c[i - 1]
  BY <1>5
<1> DEFINE Bad == {i \in 0 .. n : f[i] \notin Int}
<1>8. Bad = {}
  <2> SUFFICES ASSUME Bad # {} PROVE FALSE
    OBVIOUS
  <2>1. PICK b \in Bad : \A y \in Bad : b <= y
    <3>1. Bad \subseteq Nat
      OBVIOUS
    <3> HIDE DEF Bad
    <3> QED
      BY <3>1, LeastNumber
  <2>2. b \in 0 .. n /\ f[b] \notin Int
    BY <2>1
  <2>3. b # 0
    BY <1>7, <2>2
  <2>4. b \in 1 .. n /\ b - 1 \in 0 .. n /\ ~ (b <= b - 1) /\ b - 1 \in 0 .. n - 1
    BY <2>2, <2>3
  <2>5. f[b - 1] \in Int /\ c[b - 1] \in Int
    BY <2>1, <2>4
  <2> QED
    BY <1>7, <2>2, <2>4, <2>5
<1> QED
  BY <1>4, <1>6, <1>7, <1>8

LEMMA OneMoreTerm ==
    ASSUME NEW t \in Int, NEW x \in Int, NEW y \in Int, NEW z \in Int, NEW p \in Int, NEW q \in Int, x = t * y + z
    PROVE  x + (t * p + q) = t * (y + p) + (z + q)
<1>1. PICK e \in Int, f \in Int : e = t * y /\ f = t * p
  OBVIOUS
<1>2. t * (y + p) = e + f
  BY <1>1
<1> QED
  BY <1>1, <1>2

(* Sums of counts that are so many times others, and others more.           *)
Combines(a, b, c, t, n) == \A k \in 0 .. n - 1 : a[k] = t * b[k] + c[k]

LEMMA SumsCombine ==
    ASSUME NEW n \in Nat, NEW a \in [0 .. n - 1 -> Int], NEW b \in [0 .. n - 1 -> Int], NEW c \in [0 .. n - 1 -> Int],
           NEW t \in Int, Combines(a, b, c, t, n)
    PROVE  Sum(a) = t * Sum(b) + Sum(c)
<1>a. ASSUME NEW m \in 1 .. n, SumBefore(a, m - 1) = t * SumBefore(b, m - 1) + SumBefore(c, m - 1)
      PROVE  SumBefore(a, m) = t * SumBefore(b, m) + SumBefore(c, m)
  <2>1. m - 1 \in 0 .. n /\ m - 1 \in 0 .. n - 1
    OBVIOUS
  <2>2. PICK x, y, z, p, q :
           /\ x = SumBefore(a, m - 1) /\ y = SumBefore(b, m - 1) /\ z = SumBefore(c, m - 1)
           /\ p = b[m - 1] /\ q = c[m - 1]
    OBVIOUS
  <2>3. SumBefore(a, m - 1) \in Int /\ SumBefore(b, m - 1) \in Int /\ SumBefore(c, m - 1) \in Int
    BY <2>1, SumsUp
  <2>4. x \in Int /\ y \in Int /\ z \in Int /\ p \in Int /\ q \in Int
    BY <2>1, <2>2, <2>3
  <2>5. a[m - 1] = t * p + q
    BY <2>1, <2>2 DEF Combines
  <2>6. SumBefore(a, m) = SumBefore(a, m - 1) + a[m - 1]
    BY SumsUp
  <2>7. SumBefore(b, m) = SumBefore(b, m - 1) + b[m - 1]
    BY SumsUp
  <2>8. SumBefore(c, m) = SumBefore(c, m - 1) + c[m - 1]
    BY SumsUp
  <2>9. x = t * y + z
    BY <1>a, <2>2, Zenon
  <2>10. x + (t * p + q) = t * (y + p) + (z + q)
    BY <2>4, <2>9, OneMoreTerm
  <2> QED
    BY <2>2, <2>5, <2>6, <2>7, <2>8, <2>10, Zenon
<1> DEFINE Good(i) == SumBefore(a, i) = t * SumBefore(b, i) + SumBefore(c, i)
           Bad == {i \in 0 .. n : ~ Good(i)}
<1>1. Bad = {}
  <2> SUFFICES ASSUME Bad # {} PROVE FALSE
    OBVIOUS
  <2>1. PICK m \in Bad : \A y \in Bad : m <= y
    <3>1. Bad \subseteq Nat
      OBVIOUS
    <3> HIDE DEF Bad
    <3> QED
      BY <3>1, LeastNumber
  <2>2. m \in 0 .. n /\ ~ Good(m)
    BY <2>1
  <2>3. m # 0
    <3>1. SumBefore(a, 0) = 0 /\ SumBefore(b, 0) = 0 /\ SumBefore(c, 0) = 0
      BY SumsUp
    <3> QED
      BY <2>2, <3>1
  <2>4. m \in 1 .. n /\ m - 1 \in 0 .. n /\ ~ (m <= m - 1)
    BY <2>2, <2>3
  <2>5. Good(m - 1)
    BY <2>1, <2>4
  <2> QED
    BY <1>a, <2>2, <2>4, <2>5, Zenon
<1>2. Good(n)
  <2>1. n \in 0 .. n
    OBVIOUS
  <2> QED
    BY <1>1, <2>1
<1> QED
  BY <1>2, SumsUp

Counts(n) == [0 .. n - 1 -> Int]

LEMMA SumsOf ==
    \A n \in Nat : \A a \in Counts(n), b \in Counts(n), c \in Counts(n) :
      \A t \in Int : Combines(a, b, c, t, n) => Sum(a) = t * Sum(b) + Sum(c)
BY SumsCombine DEF Counts

LEMMA SumsInOrder ==
    ASSUME NEW n \in Nat, NEW a \in [0 .. n - 1 -> Int], NEW b \in [0 .. n - 1 -> Int],
           \A k \in 0 .. n - 1 : a[k] <= b[k]
    PROVE  Sum(a) <= Sum(b)
<1> DEFINE Good(i) == SumBefore(a, i) <= SumBefore(b, i)
           Bad == {i \in 0 .. n : ~ Good(i)}
<1>1. Bad = {}
  <2> SUFFICES ASSUME Bad # {} PROVE FALSE
    OBVIOUS
  <2>1. PICK m \in Bad : \A y \in Bad : m <= y
    <3>1. Bad \subseteq Nat
      OBVIOUS
    <3> HIDE DEF Bad
    <3> QED
      BY <3>1, LeastNumber
  <2>2. m \in 0 .. n /\ ~ Good(m)
    BY <2>1
  <2>3. m # 0
    <3>1. SumBefore(a, 0) = 0 /\ SumBefore(b, 0) = 0
      BY SumsUp
    <3> QED
      BY <2>2, <3>1
  <2>4. m \in 1 .. n /\ m - 1 \in 0 .. n /\ ~ (m <= m - 1) /\ m - 1 \in 0 .. n - 1
    BY <2>2, <2>3
  <2>5. Good(m - 1)
    BY <2>1, <2>4
  <2>6. SumBefore(a, m - 1) \in Int /\ SumBefore(b, m - 1) \in Int
    BY <2>4, SumsUp
  <2>7. a[m - 1] \in Int /\ b[m - 1] \in Int /\ a[m - 1] <= b[m - 1]
    BY <2>4
  <2>8. SumBefore(a, m) = SumBefore(a, m - 1) + a[m - 1]
    BY <2>4, SumsUp
  <2>9. SumBefore(b, m) = SumBefore(b, m - 1) + b[m - 1]
    BY <2>4, SumsUp
  <2> QED
    BY <2>2, <2>5, <2>6, <2>7, <2>8, <2>9
<1>2. Good(n)
  <2>1. n \in 0 .. n
    OBVIOUS
  <2> QED
    BY <1>1, <2>1
<1> QED
  BY <1>2, SumsUp

(* One for every one there is. *)
OneFor(T, n) == [k \in 0 .. n - 1 |-> IF k \in T THEN 1 ELSE 0]

LEMMA SumOfOnes ==
    ASSUME NEW n \in Nat, NEW T, T \subseteq 0 .. n - 1
    PROVE  OneFor(T, n) \in [0 .. n - 1 -> Int] /\ Sum(OneFor(T, n)) = Cardinality(T)
<1>1. PICK c : c = OneFor(T, n)
  OBVIOUS
<1>2. c \in [0 .. n - 1 -> Int] /\ \A k \in 0 .. n - 1 : c[k] = IF k \in T THEN 1 ELSE 0
  BY <1>1 DEF OneFor
<1>a. \A k \in T : k \in Int /\ k >= 0 /\ k < n
  OBVIOUS
<1>none. {k \in T : k < 0} = {}
  <2>1. \A k \in T : ~ (k < 0)
    BY <1>a
  <2> QED
    BY <2>1, Zenon
<1> DEFINE Upto(i) == {k \in T : k < i}
           Good(i) == SumBefore(c, i) = Cardinality(Upto(i))
           Bad == {i \in 0 .. n : ~ Good(i)}
<1>3. Bad = {}
  <2> SUFFICES ASSUME Bad # {} PROVE FALSE
    OBVIOUS
  <2>1. PICK m \in Bad : \A y \in Bad : m <= y
    <3>1. Bad \subseteq Nat
      OBVIOUS
    <3> HIDE DEF Bad
    <3> QED
      BY <3>1, LeastNumber
  <2>2. m \in 0 .. n /\ ~ Good(m)
    BY <2>1
  <2>3. m # 0
    <3>1. SumBefore(c, 0) = 0
      BY <1>2, SumsUp
    <3>2. Upto(0) = {}
      BY <1>none, Zenon
    <3> QED
      BY <2>2, <3>1, <3>2, FS_EmptySet
  <2>4. m \in 1 .. n /\ m - 1 \in 0 .. n /\ ~ (m <= m - 1) /\ m - 1 \in 0 .. n - 1
    BY <2>2, <2>3
  <2>5. Good(m - 1)
    BY <2>1, <2>4
  <2>6. PICK S : S = Upto(m - 1)
    OBVIOUS
  <2>7. IsFiniteSet(S) /\ Cardinality(S) \in Nat /\ m - 1 \notin S
    <3>1. 0 \in Int /\ n - 1 \in Int
      OBVIOUS
    <3>2. IsFiniteSet(0 .. n - 1)
      BY <3>1, FS_Interval
    <3>3. S \in SUBSET (0 .. n - 1)
      BY <2>6
    <3>4. IsFiniteSet(S)
      BY <3>2, <3>3, FS_Subset
    <3>5. m - 1 \notin S
      BY <2>4, <2>6
    <3> QED
      BY <3>4, <3>5, FS_CardinalityType
  <2>8. SumBefore(c, m) = SumBefore(c, m - 1) + c[m - 1]
    BY <1>2, <2>4, SumsUp
  <2>9. SumBefore(c, m - 1) = Cardinality(S)
    BY <2>5, <2>6
  <2>10. CASE m - 1 \in T
    <3>1. Upto(m) = S \cup {m - 1}
      <4>1. \A k \in T : k < m <=> k < m - 1 \/ k = m - 1
        BY <1>a, <2>4
      <4> QED
        BY <2>6, <2>10, <4>1, Zenon
    <3>2. Cardinality(S \cup {m - 1}) = Cardinality(S) + 1
      BY <2>7, FS_AddElement
    <3>3. c[m - 1] = 1
      BY <1>2, <2>4, <2>10
    <3> QED
      BY <2>2, <2>8, <2>9, <3>1, <3>2, <3>3
  <2>11. CASE m - 1 \notin T
    <3>1. Upto(m) = S
      <4>1. \A k \in T : k < m <=> k < m - 1
        BY <1>a, <2>4, <2>11
      <4> QED
        BY <2>6, <4>1, Zenon
    <3>2. c[m - 1] = 0
      BY <1>2, <2>4, <2>11
    <3> QED
      BY <2>2, <2>7, <2>8, <2>9, <3>1, <3>2
  <2> QED
    BY <2>10, <2>11
<1>4. Good(n)
  <2>1. n \in 0 .. n
    OBVIOUS
  <2> QED
    BY <1>3, <2>1
<1>5. Upto(n) = T
  BY <1>a
<1>6. Sum(c) = SumBefore(c, n)
  BY <1>2, SumsUp
<1> QED
  BY <1>1, <1>2, <1>4, <1>5, <1>6

-----------------------------------------------------------------------------
(* Whoever takes a leftover had as large a remainder as anyone left. *)
LEMMA TakerIsOpen ==
    ASSUME NEW n \in Nat, NEW rest \in [0 .. n - 1 -> Nat], NEW bound \in Nat,
           \A k \in 0 .. n - 1 : rest[k] <= bound, NEW taken, (0 .. n - 1) \ taken # {}
    PROVE  /\ LargestRemainder(rest, taken) \in (0 .. n - 1) \ taken
           /\ \A l \in (0 .. n - 1) \ taken : rest[l] <= rest[LargestRemainder(rest, taken)]
<1>1. PICK open : open = (0 .. n - 1) \ taken
  OBVIOUS
<1>2. open # {} /\ \A k \in open : k \in 0 .. n - 1 /\ k \in Nat /\ rest[k] \in Nat /\ rest[k] <= bound
  BY <1>1
<1>3. PICK V : V = {x \in Nat : \E l \in open : x = rest[l]}
  OBVIOUS
<1>4. V \subseteq Nat /\ V # {} /\ \A x \in V : x <= bound
  BY <1>2, <1>3
<1>5. PICK v \in V : \A x \in V : x <= v
  BY <1>4, LargestExists
<1>6. PICK M : M = {l \in open : rest[l] = v}
  OBVIOUS
<1>7. M \subseteq Nat /\ M # {}
  BY <1>2, <1>3, <1>5, <1>6
<1>8. PICK k \in M : \A l \in M : k <= l
  BY <1>7, LeastNumber
<1>9. k \in open /\ \A l \in open : rest[l] < rest[k] \/ (rest[l] = rest[k] /\ k <= l)
  <2>1. k \in open /\ rest[k] = v
    BY <1>6, <1>8
  <2>2. ASSUME NEW l \in open PROVE rest[l] < rest[k] \/ (rest[l] = rest[k] /\ k <= l)
    <3>1. rest[l] \in Nat /\ rest[l] \in V /\ rest[l] <= v /\ v \in Nat
      BY <1>2, <1>3, <1>4, <1>5
    <3>2. rest[l] = v => k <= l
      BY <1>6, <1>8
    <3> QED
      BY <2>1, <3>1, <3>2
  <2> QED
    BY <2>1, <2>2
<1>10. PICK e : e = CHOOSE j \in open : \A l \in open : rest[l] < rest[j] \/ (rest[l] = rest[j] /\ j <= l)
  OBVIOUS
<1>11. e \in open /\ \A l \in open : rest[l] < rest[e] \/ (rest[l] = rest[e] /\ e <= l)
  BY <1>9, <1>10, Zenon
<1>12. LargestRemainder(rest, taken) = e
  <2>1. DOMAIN rest = 0 .. n - 1
    OBVIOUS
  <2> QED
    BY <1>1, <1>10, <2>1, Zenon DEF LargestRemainder
<1>13. \A l \in open : rest[l] <= rest[e]
  BY <1>2, <1>11
<1> QED
  BY <1>1, <1>11, <1>12, <1>13

IsTaken(f, rest, n) == f = [i \in 0 .. n |-> IF i = 0 THEN {} ELSE f[i - 1] \cup {LargestRemainder(rest, f[i - 1])}]

LEMMA TakenExists ==
    ASSUME NEW n \in Nat, NEW rest \in [0 .. n - 1 -> Nat], NEW bound \in Nat,
           \A k \in 0 .. n - 1 : rest[k] <= bound, NEW m \in Nat
    PROVE  \E f : IsTaken(f, rest, m)
<1>1. PICK D, z : D = 0 .. n - 1 /\ z = LargestRemainder(rest, D)
  OBVIOUS
<1>2. PICK S : S = SUBSET (D \cup {z})
  OBVIOUS
<1>3. ASSUME NEW T \in S PROVE T \cup {LargestRemainder(rest, T)} \in S
  <2>1. CASE D \ T = {}
    <3>1. DOMAIN rest = D /\ D \ D = {}
      BY <1>1
    <3>2. LargestRemainder(rest, T) = z
      BY <1>1, <2>1, <3>1 DEF LargestRemainder
    <3> QED
      BY <1>2, <3>2
  <2>2. CASE D \ T # {}
    <3>1. LargestRemainder(rest, T) \in D
      BY <1>1, <2>2, TakerIsOpen
    <3> QED
      BY <1>2, <3>1
  <2> QED
    BY <2>1, <2>2
<1>4. PICK step : step = [i \in 1 .. m |-> [T \in S |-> T \cup {LargestRemainder(rest, T)}]]
  OBVIOUS
<1>5. step \in [1 .. m -> [S -> S]]
  BY <1>3, <1>4
<1>6. {} \in S
  BY <1>2
<1>7. PICK f : Repeats(f, S, {}, step, m)
  BY <1>5, <1>6, Repeated
<1>8. f \in [0 .. m -> S] /\ f[0] = {} /\ \A i \in 1 .. m : f[i] = step[i][f[i - 1]]
  BY <1>7 DEF Repeats
<1>9. ASSUME NEW i \in 0 .. m
      PROVE  f[i] = IF i = 0 THEN {} ELSE f[i - 1] \cup {LargestRemainder(rest, f[i - 1])}
  <2>1. CASE i = 0
    BY <1>8, <2>1
  <2>2. CASE i # 0
    <3>1. i \in 1 .. m /\ i - 1 \in 0 .. m
      BY <2>2
    <3>2. f[i - 1] \in S
      BY <1>8, <3>1
    <3>3. step[i][f[i - 1]] = f[i - 1] \cup {LargestRemainder(rest, f[i - 1])}
      BY <1>4, <3>1, <3>2
    <3> QED
      BY <1>8, <2>2, <3>1, <3>3
  <2> QED
    BY <2>1, <2>2
<1> QED
  BY <1>8, <1>9 DEF IsTaken

LEMMA TakersAre ==
    ASSUME NEW n \in Nat, NEW rest \in [0 .. n - 1 -> Nat], NEW bound \in Nat,
           \A k \in 0 .. n - 1 : rest[k] <= bound, NEW m \in 0 .. n
    PROVE  /\ Takers(rest, m) \subseteq 0 .. n - 1 /\ Cardinality(Takers(rest, m)) = m
           /\ \A k \in Takers(rest, m), l \in (0 .. n - 1) \ Takers(rest, m) : rest[l] <= rest[k]
<1>1. PICK f : f = CHOOSE h : IsTaken(h, rest, m)
  OBVIOUS
<1>2. m \in Nat
  OBVIOUS
<1>3. IsTaken(f, rest, m)
  BY <1>1, <1>2, TakenExists
<1>4. Takers(rest, m) = f[m]
  BY <1>1 DEF Takers, IsTaken
<1>5. \A i \in 0 .. m : f[i] = IF i = 0 THEN {} ELSE f[i - 1] \cup {LargestRemainder(rest, f[i - 1])}
  BY <1>3 DEF IsTaken
<1> DEFINE Good(i) == /\ f[i] \subseteq 0 .. n - 1 /\ IsFiniteSet(f[i]) /\ Cardinality(f[i]) = i
                      /\ \A k \in f[i], l \in (0 .. n - 1) \ f[i] : rest[l] <= rest[k]
           Bad == {i \in 0 .. m : ~ Good(i)}
<1>6. Good(0)
  <2>1. f[0] = {}
    <3>1. 0 \in 0 .. m
      OBVIOUS
    <3> QED
      BY <1>5, <3>1, Zenon
  <2> QED
    BY <2>1, FS_EmptySet
<1>7. ASSUME NEW i \in 1 .. m, Good(i - 1) PROVE Good(i)
  <2>1. PICK T, e : T = f[i - 1] /\ e = LargestRemainder(rest, T)
    OBVIOUS
  <2>2. /\ T \subseteq 0 .. n - 1 /\ IsFiniteSet(T) /\ Cardinality(T) = i - 1
        /\ \A k \in T, l \in (0 .. n - 1) \ T : rest[l] <= rest[k]
    BY <1>7, <2>1
  <2>3. (0 .. n - 1) \ T # {}
    <3>1. Cardinality(0 .. n - 1) = n
      <4>1. 0 \in Int /\ n - 1 \in Int
        OBVIOUS
      <4>2. Cardinality(0 .. n - 1) = IF 0 > n - 1 THEN 0 ELSE n - 1 - 0 + 1
        BY <4>1, FS_Interval
      <4> QED
        BY <4>2
    <3>2. ASSUME (0 .. n - 1) \ T = {} PROVE FALSE
      <4>1. T = 0 .. n - 1
        BY <2>2, <3>2
      <4>2. i - 1 = n
        BY <2>2, <3>1, <4>1
      <4> QED
        BY <4>2
    <3> QED
      BY <3>2
  <2>4. e \in (0 .. n - 1) \ T /\ \A l \in (0 .. n - 1) \ T : rest[l] <= rest[e]
    BY <2>1, <2>3, TakerIsOpen
  <2>5. f[i] = T \cup {e}
    <3>1. i \in 0 .. m /\ i # 0
      OBVIOUS
    <3> QED
      BY <1>5, <2>1, <3>1, Zenon
  <2>6. IsFiniteSet(T \cup {e}) /\ Cardinality(T \cup {e}) = i - 1 + 1
    BY <2>2, <2>4, FS_AddElement
  <2>7. \A k \in T \cup {e}, l \in (0 .. n - 1) \ (T \cup {e}) : rest[l] <= rest[k]
    BY <2>2, <2>4, Zenon
  <2>8. T \cup {e} \subseteq 0 .. n - 1
    BY <2>2, <2>4, Zenon
  <2>9. i - 1 + 1 = i
    OBVIOUS
  <2> QED
    BY <2>5, <2>6, <2>7, <2>8, <2>9, Zenon
<1>8. Bad = {}
  <2> SUFFICES ASSUME Bad # {} PROVE FALSE
    OBVIOUS
  <2>1. PICK b \in Bad : \A y \in Bad : b <= y
    <3>1. Bad \subseteq Nat
      OBVIOUS
    <3> HIDE DEF Bad
    <3> QED
      BY <3>1, LeastNumber
  <2> HIDE DEF Good
  <2>2. b \in 0 .. m /\ ~ Good(b)
    BY <2>1
  <2>3. b # 0
    BY <1>6, <2>2
  <2>4. b \in 1 .. m /\ b - 1 \in 0 .. m /\ ~ (b <= b - 1)
    BY <2>2, <2>3
  <2>5. Good(b - 1)
    BY <2>1, <2>4
  <2> QED
    BY <1>7, <2>2, <2>4, <2>5, Zenon
<1>9. Good(m)
  <2>1. m \in 0 .. m
    OBVIOUS
  <2> HIDE DEF Good
  <2> QED
    BY <1>8, <2>1
<1> QED
  BY <1>4, <1>9, Zenon

(* What a share comes to in whole pixels, and what is left of it. *)
LEMMA WholeAndRest ==
    ASSUME NEW n \in Nat, NEW pieces \in [0 .. n - 1 -> Nat], NEW count \in Nat, NEW T \in Positive, T = Sum(pieces)
    PROVE  /\ Whole(count, pieces) \in [0 .. n - 1 -> Nat] /\ Rest(count, pieces) \in [0 .. n - 1 -> Nat]
           /\ \A k \in 0 .. n - 1 : /\ Rest(count, pieces)[k] < T
                                    /\ count * pieces[k] = T * Whole(count, pieces)[k] + Rest(count, pieces)[k]
<1>1. ASSUME NEW k \in 0 .. n - 1
      PROVE  /\ (count * pieces[k]) \div T \in Nat /\ (count * pieces[k]) % T \in Nat
             /\ (count * pieces[k]) % T < T
             /\ count * pieces[k] = T * ((count * pieces[k]) \div T) + ((count * pieces[k]) % T)
  <2>1. PICK p \in Nat : p = pieces[k]
    OBVIOUS
  <2>2. PICK a \in Nat : a = count * p
    BY <2>1
  <2>3. a \div T \in Nat /\ a % T \in Nat /\ a % T < T /\ a = (a \div T) * T + (a % T)
    BY Division
  <2>4. (a \div T) * T = T * (a \div T)
    BY <2>3 DEF Positive
  <2>5. count * pieces[k] = a
    BY <2>1, <2>2, Zenon
  <2>6. a = T * (a \div T) + (a % T)
    BY <2>3, <2>4, Zenon
  <2> QED
    BY <2>3, <2>5, <2>6, Zenon
<1>2. Whole(count, pieces) = [k \in 0 .. n - 1 |-> (count * pieces[k]) \div T]
  BY DEF Whole
<1>3. Rest(count, pieces) = [k \in 0 .. n - 1 |-> (count * pieces[k]) % T]
  BY DEF Rest
<1>4. Whole(count, pieces) \in [0 .. n - 1 -> Nat]
  BY <1>1, <1>2, Zenon
<1>5. Rest(count, pieces) \in [0 .. n - 1 -> Nat]
  BY <1>1, <1>3, Zenon
<1>6. ASSUME NEW k \in 0 .. n - 1
      PROVE  /\ Rest(count, pieces)[k] < T
             /\ count * pieces[k] = T * Whole(count, pieces)[k] + Rest(count, pieces)[k]
  <2>1. Whole(count, pieces)[k] = (count * pieces[k]) \div T
    BY <1>2, Zenon
  <2>2. Rest(count, pieces)[k] = (count * pieces[k]) % T
    BY <1>3, Zenon
  <2> QED
    BY <1>1, <2>1, <2>2, Zenon
<1> QED
  BY <1>4, <1>5, <1>6

LEMMA LeftoversFit ==
    ASSUME NEW t \in Positive, NEW n \in Nat, NEW l \in Int, NEW r \in Int, r = t * l, r >= 0, r <= (t - 1) * n + 0
    PROVE  l \in 0 .. n
<1>1. t \in Nat /\ t > 0
  BY DEF Positive
<1>2. ASSUME l < 0 PROVE FALSE
  <2>1. PICK d \in Nat : l = 0 - 1 - d
    <3>1. 0 - 1 - l \in Nat /\ l = 0 - 1 - (0 - 1 - l)
      BY <1>2
    <3> QED
      BY <3>1
  <2>2. t * (0 - 1 - d) = 0 - t - t * d /\ t * d >= 0 /\ t * d \in Int
    BY <1>1, <2>1
  <2> QED
    BY <1>1, <2>1, <2>2
<1>3. ASSUME l > n PROVE FALSE
  <2>1. PICK d \in Nat : l = n + 1 + d
    <3>1. l - n - 1 \in Nat /\ l = n + 1 + (l - n - 1)
      BY <1>3
    <3> QED
      BY <3>1
  <2>2. PICK x \in Nat, y \in Nat : x = t * n /\ y = t * d
    BY <1>1, <2>1
  <2>3. t * (n + 1 + d) = x + t + y
    BY <1>1, <2>1, <2>2
  <2>4. (t - 1) * n = x - n
    BY <1>1, <2>2
  <2> QED
    BY <1>1, <2>1, <2>2, <2>3, <2>4
<1> QED
  BY <1>2, <1>3

(* Shared out, a provisional bin's pixels are all still there, and no       *)
(* target bin is a whole pixel away from what it is due of them by how much *)
(* of the bin it covers (GrowingHistogram::Aggregate, for any pieces).      *)
THEOREM SharesAddUp ==
    ASSUME NEW n \in Nat, NEW pieces \in [0 .. n - 1 -> Nat], NEW count \in Nat, Sum(pieces) \in Positive
    PROVE  /\ Sum(Shares(count, pieces)) = count
           /\ \A k \in 0 .. n - 1 :
                /\ Sum(pieces) * Shares(count, pieces)[k] < count * pieces[k] + Sum(pieces)
                /\ count * pieces[k] < Sum(pieces) * Shares(count, pieces)[k] + Sum(pieces)
<1>1. PICK T \in Positive : T = Sum(pieces)
  OBVIOUS
<1>2. T \in Nat /\ T > 0 /\ T - 1 \in Nat
  BY DEF Positive
<1>3. PICK whole, rest : whole = Whole(count, pieces) /\ rest = Rest(count, pieces)
  OBVIOUS
<1>4. /\ whole \in [0 .. n - 1 -> Nat] /\ rest \in [0 .. n - 1 -> Nat]
      /\ \A k \in 0 .. n - 1 : rest[k] < T /\ count * pieces[k] = T * whole[k] + rest[k]
  BY <1>1, <1>3, WholeAndRest
<1>a. whole \in [0 .. n - 1 -> Int] /\ rest \in [0 .. n - 1 -> Int] /\ pieces \in [0 .. n - 1 -> Int]
  BY <1>4
<1>b. rest \in [0 .. n - 1 -> Nat]
  BY <1>4
<1>5. /\ whole \in [0 .. n - 1 -> Int] /\ rest \in [0 .. n - 1 -> Int] /\ pieces \in [0 .. n - 1 -> Int]
      /\ \A k \in 0 .. n - 1 : rest[k] <= T - 1 /\ rest[k] >= 0
  BY <1>2, <1>4, SMTT(40)
<1>6. PICK none : none = OneFor({}, n)
  OBVIOUS
<1>7. none \in [0 .. n - 1 -> Int] /\ Sum(none) = 0 /\ \A k \in 0 .. n - 1 : none[k] = 0
  <2>1. none \in [0 .. n - 1 -> Int] /\ Sum(none) = Cardinality({})
    BY <1>6, SumOfOnes
  <2>2. \A k \in 0 .. n - 1 : none[k] = 0
    BY <1>6 DEF OneFor
  <2> QED
    BY <2>1, <2>2, FS_EmptySet
<1>8. PICK W \in Int, R \in Int : W = Sum(whole) /\ R = Sum(rest)
  <2>1. n \in 0 .. n
    OBVIOUS
  <2>2. Sum(whole) \in Int
    BY <1>5, <2>1, SumsUp, ZenonT(40)
  <2>3. Sum(rest) \in Int
    BY <1>5, <2>1, SumsUp, ZenonT(40)
  <2> QED
    BY <2>2, <2>3
<1>9. count * T = T * W + R
  <2>1. PICK due : due = [k \in 0 .. n - 1 |-> count * pieces[k]]
    OBVIOUS
  <2>2. \A k \in 0 .. n - 1 : count * pieces[k] \in Int
    BY <1>5, EdgeType
  <2>3. due \in [0 .. n - 1 -> Int]
    BY <2>1, <2>2, Zenon
  <2>4. Combines(due, whole, rest, T, n)
    BY <1>4, <2>1, Zenon DEF Combines
  <2>5. Combines(due, pieces, none, count, n)
    <3>1. \A k \in 0 .. n - 1 : due[k] = count * pieces[k]
      BY <2>1, Zenon
    <3>2. \A k \in 0 .. n - 1 : due[k] \in Int /\ none[k] = 0
      BY <1>7, <2>3
    <3> QED
      BY <3>1, <3>2 DEF Combines
  <2>6. Sum(due) = T * Sum(whole) + Sum(rest)
    <3>1. T \in Int
      BY <1>2
    <3>2. due \in Counts(n) /\ whole \in Counts(n) /\ rest \in Counts(n)
      BY <1>a, <2>3 DEF Counts
    <3> QED
      BY <2>4, <3>1, <3>2, SumsOf, ZenonT(40)
  <2>7. Sum(due) = count * Sum(pieces) + Sum(none)
    <3>1. count \in Int
      OBVIOUS
    <3>2. due \in Counts(n) /\ pieces \in Counts(n) /\ none \in Counts(n)
      BY <1>a, <1>7, <2>3 DEF Counts
    <3> QED
      BY <2>5, <3>1, <3>2, SumsOf, ZenonT(40)
  <2>8. count * T \in Int
    BY <1>2
  <2> QED
    BY <1>1, <1>7, <1>8, <2>6, <2>7, <2>8
<1>10. PICK L \in Int : L = count - W
  OBVIOUS
<1>11. R = T * L
  <2>1. T * (count - W) = count * T - T * W /\ count * T \in Int /\ T * W \in Int
    BY <1>2
  <2> QED
    BY <1>9, <1>10, <2>1
<1>12. R >= 0
  <2>1. \A k \in 0 .. n - 1 : none[k] <= rest[k]
    BY <1>5, <1>7
  <2>2. Sum(none) <= Sum(rest)
    BY <1>5, <1>7, <2>1, SumsInOrder
  <2> QED
    BY <1>7, <1>8, <2>2
(* What is left over is less than one for each of those it came from. *)
<1>13. ASSUME NEW some, some \subseteq 0 .. n - 1, \A k \in (0 .. n - 1) \ some : rest[k] = 0
       PROVE  R <= (T - 1) * Cardinality(some) + 0
  <2>1. PICK ones : ones = OneFor(some, n)
    OBVIOUS
  <2>2. ones \in [0 .. n - 1 -> Int] /\ Sum(ones) = Cardinality(some)
    BY <1>13, <2>1, SumOfOnes
  <2>3. PICK most : most = [k \in 0 .. n - 1 |-> (T - 1) * ones[k] + none[k]]
    OBVIOUS
  <2>4. \A k \in 0 .. n - 1 : ones[k] = IF k \in some THEN 1 ELSE 0
    BY <2>1 DEF OneFor
  <2>5. \A k \in 0 .. n - 1 : (T - 1) * ones[k] + none[k] = IF k \in some THEN T - 1 ELSE 0
    <3>1. (T - 1) * 1 + 0 = T - 1 /\ (T - 1) * 0 + 0 = 0
      BY <1>2
    <3> QED
      BY <1>7, <2>4, <3>1, Zenon
  <2>6. most \in [0 .. n - 1 -> Int] /\ \A k \in 0 .. n - 1 : most[k] = IF k \in some THEN T - 1 ELSE 0
    BY <1>2, <2>3, <2>5
  <2>7. \A k \in 0 .. n - 1 : rest[k] <= most[k]
    <3>1. \A k \in 0 .. n - 1 : k \notin some => rest[k] = 0
      BY <1>13
    <3> QED
      BY <1>5, <2>6, <3>1
  <2>8. Sum(rest) <= Sum(most)
    BY <1>5, <2>6, <2>7, SumsInOrder
  <2>9. Combines(most, ones, none, T - 1, n)
    BY <2>3, Zenon DEF Combines
  <2>10. T - 1 \in Int
    BY <1>2
  <2>11. Sum(most) = (T - 1) * Sum(ones) + Sum(none)
    BY <1>7, <2>2, <2>6, <2>9, <2>10, SumsCombine, SMTT(40)
  <2> QED
    BY <1>7, <1>8, <2>2, <2>8, <2>11, Zenon
<1>14. L \in 0 .. n
  <2>1. Cardinality(0 .. n - 1) = n
    <3>1. 0 \in Int /\ n - 1 \in Int
      OBVIOUS
    <3>2. Cardinality(0 .. n - 1) = IF 0 > n - 1 THEN 0 ELSE n - 1 - 0 + 1
      BY <3>1, FS_Interval
    <3> QED
      BY <3>2
  <2>2. R <= (T - 1) * Cardinality(0 .. n - 1) + 0
    <3>1. \A k \in (0 .. n - 1) \ (0 .. n - 1) : rest[k] = 0
      OBVIOUS
    <3> QED
      BY <1>13, <3>1
  <2>3. R <= (T - 1) * n + 0
    BY <2>1, <2>2, Zenon
  <2> QED
    BY <1>11, <1>12, <2>3, LeftoversFit
<1>15. PICK takers : takers = Takers(rest, L)
  OBVIOUS
<1>16. /\ takers \subseteq 0 .. n - 1 /\ Cardinality(takers) = L
       /\ \A k \in takers, l \in (0 .. n - 1) \ takers : rest[l] <= rest[k]
  <2>1. PICK bound \in Nat : bound = T - 1
    BY <1>2
  <2>2. \A k \in 0 .. n - 1 : rest[k] <= bound
    BY <1>5, <2>1
  <2>3. /\ Takers(rest, L) \subseteq 0 .. n - 1 /\ Cardinality(Takers(rest, L)) = L
        /\ \A k \in Takers(rest, L), l \in (0 .. n - 1) \ Takers(rest, L) : rest[l] <= rest[k]
    BY <1>b, <1>14, <2>2, TakersAre, ZenonT(40)
  <2> QED
    BY <1>15, <2>3, ZenonT(40)
<1>17. ASSUME NEW k \in takers PROVE rest[k] > 0
  <2>1. rest[k] \in Nat
    BY <1>4, <1>16
  <2> SUFFICES ASSUME rest[k] = 0 PROVE FALSE
    BY <2>1
  <2>2. \A l \in (0 .. n - 1) \ takers : rest[l] = 0
    BY <1>4, <1>16
  <2>3. R <= (T - 1) * L + 0
    BY <1>13, <1>16, <2>2
  <2>4. L \in 0 .. 0
    <3>1. L \in Nat
      BY <1>14
    <3>2. (T - 1) * L = T * L - L /\ T * L \in Int
      BY <1>2, <3>1
    <3> QED
      BY <1>11, <2>3, <3>1, <3>2
  <2>5. IsFiniteSet(takers)
    <3>1. 0 \in Int /\ n - 1 \in Int
      OBVIOUS
    <3>2. IsFiniteSet(0 .. n - 1)
      BY <3>1, FS_Interval
    <3> QED
      BY <1>16, <3>2, FS_Subset
  <2>6. Cardinality(takers) = 0
    BY <1>16, <2>4
  <2> QED
    BY <2>5, <2>6, FS_EmptySet
<1>18. PICK shares : shares = Shares(count, pieces)
  OBVIOUS
<1>19. shares = [k \in 0 .. n - 1 |-> whole[k] + (IF k \in takers THEN 1 ELSE 0)]
  BY <1>3, <1>8, <1>10, <1>15, <1>18 DEF Shares
<1>20. Sum(shares) = count
  <2>1. PICK ones : ones = OneFor(takers, n)
    OBVIOUS
  <2>2. ones \in [0 .. n - 1 -> Int] /\ Sum(ones) = Cardinality(takers)
    BY <1>16, <2>1, SumOfOnes
  <2>3. \A k \in 0 .. n - 1 : ones[k] = IF k \in takers THEN 1 ELSE 0
    BY <2>1 DEF OneFor
  <2>4. \A k \in 0 .. n - 1 : shares[k] = whole[k] + ones[k]
    BY <1>19, <2>3, Zenon
  <2>5. \A k \in 0 .. n - 1 : whole[k] \in Int /\ ones[k] \in Int
    BY <1>5, <2>2
  <2>6. shares \in [0 .. n - 1 -> Int]
    BY <1>19, <2>3, <2>4, <2>5
  <2>7. PICK one \in Int : one = 1
    OBVIOUS
  <2>8. Combines(shares, whole, ones, one, n)
    BY <2>4, <2>5, <2>7 DEF Combines
  <2>9. Sum(shares) = one * Sum(whole) + Sum(ones)
    <3>1. shares \in Counts(n) /\ whole \in Counts(n) /\ ones \in Counts(n)
      BY <1>a, <2>2, <2>6 DEF Counts
    <3>2. one \in Int /\ n \in Nat
      BY <2>7
    <3> QED
      BY <2>8, <3>1, <3>2, SumsOf
  <2> QED
    BY <1>8, <1>10, <1>16, <2>2, <2>7, <2>9
<1>21. ASSUME NEW k \in 0 .. n - 1
       PROVE  T * shares[k] < count * pieces[k] + T /\ count * pieces[k] < T * shares[k] + T
  <2>1. PICK w \in Nat, r \in Nat : w = whole[k] /\ r = rest[k]
    BY <1>4
  <2>2. count * pieces[k] = T * w + r /\ r < T
    BY <1>4, <2>1, Zenon
  <2>3. PICK x \in Nat : x = T * w
    BY <1>2, <2>1
  <2>4. CASE k \in takers
    <3>1. shares[k] = w + 1 /\ r > 0
      BY <1>17, <1>19, <2>1, <2>4
    <3>2. T * (w + 1) = x + T
      BY <1>2, <2>1, <2>3
    <3>3. T * shares[k] = x + T /\ count * pieces[k] = x + r
      BY <2>2, <2>3, <3>1, <3>2, Zenon
    <3>4. x + T < x + r + T /\ x + r < x + T + T
      <4>1. r < T /\ r > 0
        BY <2>2, <3>1
      <4> QED
        BY <1>2, <4>1
    <3> QED
      BY <3>3, <3>4, Zenon
  <2>5. CASE k \notin takers
    <3>1. shares[k] = w
      BY <1>19, <2>1, <2>5
    <3>2. T * shares[k] = x /\ count * pieces[k] = x + r
      BY <2>2, <2>3, <3>1, Zenon
    <3>3. x < x + r + T /\ x + r < x + T
      <4>1. r < T
        BY <2>2
      <4> QED
        BY <1>2, <4>1
    <3> QED
      BY <3>2, <3>3, Zenon
  <2> QED
    BY <2>4, <2>5
<1> QED
  BY <1>1, <1>18, <1>20, <1>21, Zenon
=============================================================================
