------------------------------ MODULE WorkPool ------------------------------
(***************************************************************************)
(* The library's own threads: src/src/work_pool.cc.                        *)
(*                                                                         *)
(* A pool of Size + 1 threads (Size started ones plus whichever thread     *)
(* calls Run) spreads the tasks of one Run over its workers.  The pool is  *)
(* shared by a whole Context, so several callers may be inside Run at      *)
(* once.                                                                   *)
(*                                                                         *)
(* Every section that holds _mutex is one action: _mutex is never held     *)
(* across anything that blocks.  What lies between two sections is where   *)
(* threads interleave, and is a value of pc.  A condition variable is the  *)
(* value "asleep" of pc: wait(lock, pred) goes to sleep only after seeing  *)
(* pred false under the lock, and a wake-up only makes it look again.      *)
(***************************************************************************)
EXTENDS Integers, FiniteSets

CONSTANTS Size,       \* _workers.size() once the constructor is through
          Callers,    \* threads that call Run on the shared pool
          None,       \* the null pointer / no holder
          MaxTasks,   \* bound: tasks of one Run
          MaxRuns     \* bound: Runs each caller makes

ASSUME SizeAssumption == Size \in Nat
ASSUME BoundsAssumption == MaxTasks \in Nat /\ MaxRuns \in Nat
ASSUME CallersAssumption ==
    /\ None \notin Callers
    /\ Callers \cap Nat = {}

Workers == 1 .. Size
Threads == Workers \cup Callers
TaskSet(n) == 0 .. n - 1

VARIABLES
    pc,          \* where each thread is
    phase,       \* the pool object's life: constructor, in use, StopWorkers
    run_lock,    \* _run: the caller holding it
    \* the one set of fields _mutex guards
    body,        \* _body: the Run it belongs to, named by its caller
    tasks,       \* _tasks
    next,        \* _next
    running,     \* _running
    generation,  \* _generation
    failure,     \* _failure: the Run whose body threw it
    \* locals of the threads
    seen,        \* Worker's seen
    my_body,     \* the body a thread in DrainTasks was handed
    my_task,     \* the task it claimed last
    want,        \* Run's tasks argument
    got,         \* Run's local failure
    \* what happened, for the properties
    runs,        \* how many Runs each caller has begun
    done,        \* tasks of a caller's latest Run whose body returned
    threw,       \* callers a body of whose latest Run threw
    result       \* how a caller's latest Run ended

fields == <<body, tasks, next, running, generation, failure>>
locals == <<seen, my_body, my_task, want, got>>
history == <<runs, done, threw, result>>
vars == <<pc, phase, run_lock, body, tasks, next, running, generation, failure,
          seen, my_body, my_task, want, got, runs, done, threw, result>>

WorkerPC == {"unstarted", "check", "asleep", "claim", "body", "caught",
             "finish", "exited"}
CallerPC == {"idle", "loop", "inline", "unwind", "enter", "publish", "notify",
             "claim", "body", "caught", "await", "asleep", "leave"}

\* _stopping is set for good by StopWorkers.
Stopping == phase \in {"stopping", "joining", "gone"}

(* The index a thread hands to the bodies it runs.  The calling thread is 0. *)
WorkerIndex(t) == IF t \in Callers THEN 0 ELSE t

(* Inside a body, whichever way Run got there. *)
InBody(t) == pc[t] \in {"body", "inline"}

Goto(t, where) == pc' = [pc EXCEPT ![t] = where]

-----------------------------------------------------------------------------
(* Faults: plausible mistakes, none of them part of the specification, each *)
(* put in the place of the operation it is named after to see that a        *)
(* property notices it.                                                     *)

ClaimTaskKeepsCounter(t) ==
    /\ pc[t] = "claim" /\ next < tasks
    /\ my_task' = [my_task EXCEPT ![t] = next]
    /\ Goto(t, "body")
    /\ UNCHANGED <<phase, run_lock, fields, seen, my_body, want, got, history>>

TaskLeftOffByOne == next + 1 < tasks
WorkersOutIgnored == FALSE
FirstFailureDropped(t) == failure
GiveUpNothing == UNCHANGED next
WorkersToWaitForWithCaller == Size + 1

-----------------------------------------------------------------------------
(* WorkPool::WorkPool.  Workers start in index order; a refused thread      *)
(* stops the ones already started and leaves no pool.                       *)
StartWorker ==
    /\ phase = "starting"
    /\ \E w \in Workers :
          /\ pc[w] = "unstarted"
          /\ \A v \in 1 .. w - 1 : pc[v] # "unstarted"
          /\ Goto(w, "check")
    /\ UNCHANGED <<phase, run_lock, fields, locals, history>>

AllStarted ==
    /\ phase = "starting"
    /\ \A w \in Workers : pc[w] # "unstarted"
    /\ phase' = "ready"
    /\ UNCHANGED <<pc, run_lock, fields, locals, history>>

StartRefused ==
    /\ phase = "starting"
    /\ \E w \in Workers : pc[w] = "unstarted"
    /\ phase' = "stopping"
    /\ UNCHANGED <<pc, run_lock, fields, locals, history>>

(* ~WorkPool.  The pool's last owner is gone, so no caller is inside Run.   *)
Destroy ==
    /\ phase = "ready"
    /\ \A c \in Callers : pc[c] = "idle"
    /\ phase' = "stopping"
    /\ UNCHANGED <<pc, run_lock, fields, locals, history>>

(* A notify_all: every worker asleep in _wake looks at its predicate again. *)
WakeAll == [t \in Threads |->
              IF t \in Workers /\ pc[t] = "asleep" THEN "check" ELSE pc[t]]

(* StopWorkers, after _stopping is set: wake, then join every worker.       *)
NotifyStop ==
    /\ phase = "stopping"
    /\ pc' = WakeAll
    /\ phase' = "joining"
    /\ UNCHANGED <<run_lock, fields, locals, history>>

Joined ==
    /\ phase = "joining"
    /\ \A w \in Workers : pc[w] \in {"unstarted", "exited"}
    /\ phase' = "gone"
    /\ UNCHANGED <<pc, run_lock, fields, locals, history>>

-----------------------------------------------------------------------------
(* WorkPool::Worker. *)

(* The wait on _wake: the predicate is read under _mutex, and _stopping     *)
(* comes before a generation not seen yet.                                  *)
WakeToStop(w) ==
    /\ pc[w] = "check"
    /\ Stopping
    /\ Goto(w, "exited")
    /\ UNCHANGED <<phase, run_lock, fields, locals, history>>

WakeToWork(w) ==
    /\ pc[w] = "check"
    /\ ~ Stopping
    /\ generation # seen[w]
    /\ seen' = [seen EXCEPT ![w] = generation]
    /\ my_body' = [my_body EXCEPT ![w] = body]
    /\ Goto(w, "claim")
    /\ UNCHANGED <<phase, run_lock, fields, my_task, want, got, history>>

SleepOnWake(w) ==
    /\ pc[w] = "check"
    /\ ~ Stopping
    /\ generation = seen[w]
    /\ Goto(w, "asleep")
    /\ UNCHANGED <<phase, run_lock, fields, locals, history>>

(* The last section of Worker: one worker fewer out there.  _done is        *)
(* notified under the lock, and only the Run's own caller waits on it.      *)
FinishGeneration(w) ==
    /\ pc[w] = "finish"
    /\ running' = running - 1
    /\ pc' = [t \in Threads |->
                IF t = w THEN "check"
                ELSE IF running' = 0 /\ t \in Callers /\ pc[t] = "asleep"
                     THEN "await" ELSE pc[t]]
    /\ UNCHANGED <<phase, run_lock, body, tasks, next, generation, failure,
                   locals, history>>

(* A condition variable may wake a sleeper for no reason. *)
SpuriousWake(t) ==
    /\ pc[t] = "asleep"
    /\ Goto(t, IF t \in Workers THEN "check" ELSE "await")
    /\ UNCHANGED <<phase, run_lock, fields, locals, history>>

-----------------------------------------------------------------------------
(* WorkPool::DrainTasks, the same for a worker and for the calling thread.  *)

LeaveDrain(t) ==
    /\ Goto(t, IF t \in Workers THEN "finish" ELSE "await")
    /\ my_body' = [my_body EXCEPT ![t] = None]
    /\ my_task' = [my_task EXCEPT ![t] = 0]
    /\ UNCHANGED <<seen, want, got>>

TaskLeft == next < tasks

ClaimTask(t) ==
    /\ pc[t] = "claim"
    /\ TaskLeft
    /\ my_task' = [my_task EXCEPT ![t] = next]
    /\ next' = next + 1
    /\ Goto(t, "body")
    /\ UNCHANGED <<phase, run_lock, body, tasks, running, generation, failure,
                   seen, my_body, want, got, history>>

NothingLeft(t) ==
    /\ pc[t] = "claim"
    /\ ~ TaskLeft
    /\ LeaveDrain(t)
    /\ UNCHANGED <<phase, run_lock, fields, history>>

BodyReturns(t) ==
    /\ pc[t] = "body"
    /\ done' = [done EXCEPT ![my_body[t]] = @ \cup {my_task[t]}]
    /\ Goto(t, "claim")
    /\ UNCHANGED <<phase, run_lock, fields, locals, runs, threw, result>>

BodyThrows(t) ==
    /\ pc[t] = "body"
    /\ threw' = threw \cup {my_body[t]}
    /\ Goto(t, "caught")
    /\ UNCHANGED <<phase, run_lock, fields, locals, runs, done, result>>

(* The catch block: the first exception is kept, and every task not yet     *)
(* claimed is given up.                                                     *)
FirstFailure(t) == IF failure = None THEN my_body[t] ELSE failure
GiveUpUnclaimed == next' = tasks

KeepFailure(t) ==
    /\ pc[t] = "caught"
    /\ failure' = FirstFailure(t)
    /\ GiveUpUnclaimed
    /\ LeaveDrain(t)
    /\ UNCHANGED <<phase, run_lock, body, tasks, running, generation, history>>

-----------------------------------------------------------------------------
(* WorkPool::Run. *)

(* Run is entered with n tasks.  No task returns at once; one task, or a    *)
(* pool of one thread, runs inline and goes near neither lock.              *)
EnterRun(c, n) ==
    /\ phase = "ready"
    /\ pc[c] = "idle"
    /\ runs[c] < MaxRuns
    /\ runs' = [runs EXCEPT ![c] = @ + 1]
    /\ want' = [want EXCEPT ![c] = n]
    /\ done' = [done EXCEPT ![c] = {}]
    /\ threw' = threw \ {c}
    /\ UNCHANGED <<phase, run_lock, fields, seen, my_task, got>>

RunNothing(c, n) ==
    /\ n = 0
    /\ EnterRun(c, n)
    /\ result' = [result EXCEPT ![c] = "returned"]
    /\ UNCHANGED <<pc, my_body>>

RunInline(c, n) ==
    /\ n > 0 /\ (Size = 0 \/ n = 1)
    /\ EnterRun(c, n)
    /\ Goto(c, "loop")
    /\ my_body' = [my_body EXCEPT ![c] = c]
    /\ result' = [result EXCEPT ![c] = "none"]

RunPooled(c, n) ==
    /\ Size > 0 /\ n > 1
    /\ EnterRun(c, n)
    /\ Goto(c, "enter")
    /\ my_body' = [my_body EXCEPT ![c] = c]
    /\ result' = [result EXCEPT ![c] = "none"]

(* The inline loop: the task counter is a local, and an exception leaves    *)
(* Run from where it was thrown.                                            *)
InlineTaskLeft(c) == my_task[c] < want[c]

InlineNext(c) ==
    /\ pc[c] = "loop"
    /\ InlineTaskLeft(c)
    /\ Goto(c, "inline")
    /\ UNCHANGED <<phase, run_lock, fields, locals, history>>

InlineEnd(c) ==
    /\ pc[c] = "loop"
    /\ ~ InlineTaskLeft(c)
    /\ Goto(c, "idle")
    /\ my_body' = [my_body EXCEPT ![c] = None]
    /\ my_task' = [my_task EXCEPT ![c] = 0]
    /\ result' = [result EXCEPT ![c] = "returned"]
    /\ UNCHANGED <<phase, run_lock, fields, seen, want, got, runs, done, threw>>

InlineBodyReturns(c) ==
    /\ pc[c] = "inline"
    /\ done' = [done EXCEPT ![c] = @ \cup {my_task[c]}]
    /\ my_task' = [my_task EXCEPT ![c] = @ + 1]
    /\ Goto(c, "loop")
    /\ UNCHANGED <<phase, run_lock, fields, seen, my_body, want, got,
                   runs, threw, result>>

InlineBodyThrows(c) ==
    /\ pc[c] = "inline"
    /\ threw' = threw \cup {c}
    /\ Goto(c, "unwind")
    /\ UNCHANGED <<phase, run_lock, fields, locals, runs, done, result>>

Unwind(c) ==
    /\ pc[c] = "unwind"
    /\ Goto(c, "idle")
    /\ my_body' = [my_body EXCEPT ![c] = None]
    /\ my_task' = [my_task EXCEPT ![c] = 0]
    /\ result' = [result EXCEPT ![c] = "threw"]
    /\ UNCHANGED <<phase, run_lock, fields, seen, want, got, runs, done, threw>>

(* lock_guard serialised(_run). *)
LockRun(c) ==
    /\ pc[c] = "enter"
    /\ run_lock = None
    /\ run_lock' = c
    /\ Goto(c, "publish")
    /\ UNCHANGED <<phase, fields, locals, history>>

(* Counted before any worker wakes: Run waits for exactly these. *)
WorkersToWaitFor == Size

Publish(c) ==
    /\ pc[c] = "publish"
    /\ body' = c
    /\ tasks' = want[c]
    /\ next' = 0
    /\ running' = WorkersToWaitFor
    /\ generation' = generation + 1
    /\ Goto(c, "notify")
    /\ UNCHANGED <<phase, run_lock, failure, locals, history>>

NotifyWorkers(c) ==
    /\ pc[c] = "notify"
    /\ pc' = [WakeAll EXCEPT ![c] = "claim"]
    /\ UNCHANGED <<phase, run_lock, fields, locals, history>>

WorkersOut == running # 0

TakeFailure(c) == got' = [got EXCEPT ![c] = failure] /\ failure' = None

(* The wait on _done, and what Run clears before it lets go of _mutex. *)
SleepOnDone(c) ==
    /\ pc[c] = "await"
    /\ WorkersOut
    /\ Goto(c, "asleep")
    /\ UNCHANGED <<phase, run_lock, fields, locals, history>>

TakeDown(c) ==
    /\ pc[c] = "await"
    /\ ~ WorkersOut
    /\ body' = None
    /\ tasks' = 0
    /\ TakeFailure(c)
    /\ Goto(c, "leave")
    /\ UNCHANGED <<phase, run_lock, next, running, generation,
                   seen, my_body, my_task, want, history>>

(* Leaving Run, by rethrowing or by returning, releases _run. *)
LeaveRun(c) ==
    /\ pc[c] = "leave"
    /\ result' = [result EXCEPT ![c] = IF got[c] = None THEN "returned" ELSE "threw"]
    /\ run_lock' = None
    /\ got' = [got EXCEPT ![c] = None]
    /\ Goto(c, "idle")
    /\ UNCHANGED <<phase, fields, seen, my_body, my_task, want, runs, done, threw>>

-----------------------------------------------------------------------------
Init ==
    /\ pc = [t \in Threads |-> IF t \in Workers THEN "unstarted" ELSE "idle"]
    /\ phase = "starting"
    /\ run_lock = None
    /\ body = None /\ tasks = 0 /\ next = 0
    /\ running = 0 /\ generation = 0 /\ failure = None
    /\ seen = [w \in Workers |-> 0]
    /\ my_body = [t \in Threads |-> None]
    /\ my_task = [t \in Threads |-> 0]
    /\ want = [c \in Callers |-> 0]
    /\ got = [c \in Callers |-> None]
    /\ runs = [c \in Callers |-> 0]
    /\ done = [c \in Callers |-> {}]
    /\ threw = {}
    /\ result = [c \in Callers |-> "none"]

DrainTasks(t) ==
    \/ ClaimTask(t) \/ NothingLeft(t)
    \/ BodyReturns(t) \/ BodyThrows(t) \/ KeepFailure(t)

WorkerStep(w) ==
    \/ WakeToStop(w) \/ WakeToWork(w) \/ SleepOnWake(w)
    \/ DrainTasks(w)
    \/ FinishGeneration(w)

StartRun(c) ==
    \E n \in 0 .. MaxTasks : RunNothing(c, n) \/ RunInline(c, n) \/ RunPooled(c, n)

RunStep(c) ==
    \/ InlineNext(c) \/ InlineEnd(c)
    \/ InlineBodyReturns(c) \/ InlineBodyThrows(c) \/ Unwind(c)
    \/ LockRun(c) \/ Publish(c) \/ NotifyWorkers(c)
    \/ DrainTasks(c)
    \/ SleepOnDone(c) \/ TakeDown(c) \/ LeaveRun(c)

StopStep == NotifyStop \/ Joined

(* The pool has been destroyed and every thread of it has ended. *)
Terminated == phase = "gone" /\ UNCHANGED vars

Next ==
    \/ StartWorker \/ AllStarted \/ StartRefused
    \/ Destroy \/ StopStep
    \/ \E w \in Workers : WorkerStep(w)
    \/ \E t \in Threads : SpuriousWake(t)
    \/ \E c \in Callers : StartRun(c) \/ RunStep(c)
    \/ Terminated

Spec == Init /\ [][Next]_vars

(* Every thread that can take a step is scheduled in the end, and a body    *)
(* ends: it is arithmetic over a buffer.  Nobody has to call Run, destroy   *)
(* the pool, or be woken without a reason.                                  *)
Fairness ==
    /\ \A w \in Workers : WF_vars(WorkerStep(w))
    /\ \A c \in Callers : WF_vars(RunStep(c))
    /\ WF_vars(StopStep)

FairSpec == Spec /\ Fairness

-----------------------------------------------------------------------------
TypeOK ==
    /\ pc \in [Threads -> WorkerPC \cup CallerPC]
    /\ \A w \in Workers : pc[w] \in WorkerPC
    /\ \A c \in Callers : pc[c] \in CallerPC
    /\ phase \in {"starting", "ready", "stopping", "joining", "gone"}
    /\ run_lock \in Callers \cup {None}
    /\ body \in Callers \cup {None}
    /\ tasks \in Nat /\ next \in Nat
    /\ running \in 0 .. Size
    /\ generation \in Nat
    /\ failure \in Callers \cup {None}
    /\ seen \in [Workers -> Nat]
    /\ my_body \in [Threads -> Callers \cup {None}]
    /\ my_task \in [Threads -> Nat]
    /\ want \in [Callers -> 0 .. MaxTasks]
    /\ got \in [Callers -> Callers \cup {None}]
    /\ runs \in [Callers -> 0 .. MaxRuns]
    /\ done \in [Callers -> SUBSET Nat]
    /\ threw \in SUBSET Callers
    /\ result \in [Callers -> {"none", "returned", "threw"}]

(* A thread is at work for a Run from the moment it is handed the body      *)
(* until it has left DrainTasks.                                            *)
WorksFor(t, c) == my_body[t] = c /\ pc[t] \in {"claim", "body", "caught"}

(* "Run blocks until every worker has finished, so a caller's buffers stay  *)
(* alive for the whole span" (work_pool.h).  No worker holds the body of a  *)
(* Run that is not open: not before it was published, not after it          *)
(* returned.                                                                *)
NoStaleBody ==
    \A w \in Workers, c \in Callers :
        WorksFor(w, c) =>
            pc[c] \in {"notify", "claim", "body", "caught", "await", "asleep"}

(* No task of one Run is given to two threads, nor again once its body has  *)
(* returned; and a body is handed a task its Run asked for.                 *)
TaskRunsOnce ==
    \A t \in Threads :
        InBody(t) =>
            /\ my_task[t] \in TaskSet(want[my_body[t]])
            /\ my_task[t] \notin done[my_body[t]]
            /\ \A u \in Threads \ {t} :
                  InBody(u) /\ my_body[u] = my_body[t] => my_task[u] # my_task[t]

(* A Run that returned ran every one of its tasks; one that threw did so    *)
(* because a body of its own threw, never a body of the Run before it.      *)
RunIsComplete ==
    \A c \in Callers :
        /\ result[c] = "returned" =>
              /\ done[c] = TaskSet(want[c])
              /\ c \notin threw
        /\ result[c] = "threw" => c \in threw

(* Between two Runs the pool is as the next Run must find it: nobody out    *)
(* there, no exception left over.                                           *)
QuietBetweenRuns ==
    run_lock = None =>
        /\ running = 0 /\ failure = None /\ body = None
        /\ \A w \in Workers : pc[w] \in {"unstarted", "check", "asleep", "exited"}

(* "If a body throws, no task not yet claimed is started" once the          *)
(* exception has been kept.                                                 *)
NoClaimAfterFailure ==
    [][\A t \in Threads : pc[t] = "claim" /\ pc'[t] = "body" => failure = None]_vars

(* Every Run ends, whatever its bodies do, and so does StopWorkers: no      *)
(* wake-up is lost, and no worker waited for that is not to come.           *)
EverythingEnds ==
    /\ \A c \in Callers : pc[c] # "idle" ~> pc[c] = "idle"
    /\ phase = "stopping" ~> phase = "gone"

-----------------------------------------------------------------------------
(* The inductive invariant behind the safety properties. *)

HoldsRunLock == {"publish", "notify", "claim", "body", "caught", "await",
                 "asleep", "leave"}
Published == HoldsRunLock \ {"publish", "leave"}
Inline == {"loop", "inline", "unwind"}

(* Workers the open Run still has to hear from: at work for it, or yet to   *)
(* see that the generation moved.                                           *)
Out == {w \in Workers :
          \/ pc[w] \in {"claim", "body", "caught", "finish"}
          \/ pc[w] \in {"check", "asleep"} /\ seen[w] # generation}

LockInv == \A c \in Callers : pc[c] \in HoldsRunLock <=> run_lock = c

PhaseInv ==
    /\ phase \in {"starting", "ready"} => \A w \in Workers : pc[w] # "exited"
    /\ phase = "ready" => \A w \in Workers : pc[w] # "unstarted"
    /\ phase # "ready" => \A c \in Callers : pc[c] = "idle"

(* The fields while a Run is published, and when none is. *)
FieldsInv ==
    /\ \A c \in Callers : pc[c] \in Published =>
          /\ body = c /\ tasks = want[c] /\ next <= tasks
          /\ running = Cardinality(Out)
          /\ failure \in {None, c}
          /\ failure = c => c \in threw /\ next = tasks
    /\ (\A c \in Callers : pc[c] \notin Published) =>
          /\ body = None /\ tasks = 0 /\ running = 0 /\ failure = None
          /\ Out = {}

WorkerInv ==
    \A w \in Workers :
        /\ pc[w] \in {"claim", "body", "caught"} => my_body[w] = body
        /\ pc[w] \in {"claim", "body", "caught", "finish"} => seen[w] = generation
        /\ seen[w] <= generation
        /\ pc[w] = "unstarted" => seen[w] = generation

CallerOK(c) ==
    /\ pc[c] \in Inline \cup {"enter", "publish", "notify", "claim", "body", "caught"}
          => my_body[c] = c
    /\ pc[c] # "idle" => result[c] = "none"
    /\ pc[c] \in {"idle", "enter", "publish", "notify", "await", "asleep", "leave"}
          => my_task[c] = 0
    /\ pc[c] \in {"enter", "publish"} => done[c] = {} /\ c \notin threw
    /\ pc[c] \in Inline => done[c] = TaskSet(my_task[c]) /\ my_task[c] <= want[c]
    /\ pc[c] \in {"loop", "inline"} => c \notin threw
    /\ pc[c] = "inline" => my_task[c] < want[c]
    /\ pc[c] = "unwind" => c \in threw
    /\ pc[c] \in {"await", "asleep"} => next >= tasks
    /\ pc[c] = "leave" =>
          /\ got[c] = None => done[c] = TaskSet(want[c]) /\ c \notin threw
          /\ got[c] # None => c \in threw

CallerInv == \A c \in Callers : CallerOK(c)

(* Who has which task of the published Run: every one below next is done,   *)
(* with exactly one thread, or lost to a throw.                             *)
TaskInv ==
    /\ \A t \in Threads : pc[t] = "body" =>
          /\ my_task[t] < next
          /\ my_task[t] \notin done[my_body[t]]
          /\ \A u \in Threads \ {t} : pc[u] = "body" => my_task[u] # my_task[t]
    /\ \A c \in Callers : pc[c] \in Published =>
          /\ \A k \in done[c] : k < next
          /\ \A k \in TaskSet(want[c]) :
                \/ k >= next
                \/ k \in done[c]
                \/ c \in threw
                \/ \E t \in Threads : pc[t] = "body" /\ my_task[t] = k

ThrewInv ==
    /\ \A t \in Threads : pc[t] = "caught" => my_body[t] \in threw
    /\ \A c \in Callers : pc[c] \in Published /\ c \in threw =>
          failure = c \/ \E t \in Threads : pc[t] = "caught"

IInv ==
    /\ TypeOK /\ LockInv /\ PhaseInv /\ FieldsInv
    /\ WorkerInv /\ CallerInv /\ TaskInv /\ ThrewInv /\ RunIsComplete

-----------------------------------------------------------------------------
(* The tasks of c's Run nobody has begun. *)
Unclaimed(c) ==
    CASE pc[c] = "loop"                  -> my_task[c] .. want[c] - 1
      [] pc[c] \in {"inline", "unwind"}  -> my_task[c] + 1 .. want[c] - 1
      [] pc[c] \in {"enter", "publish"}  -> TaskSet(want[c])
      [] pc[c] \in {"idle", "leave"}     -> {}
      [] OTHER                           -> next .. want[c] - 1

(* The pool implements the promise of Run: every step of a thread is a step *)
(* of the abstract call it works for, or changes nothing its caller sees.   *)
Promise == INSTANCE ParallelFor WITH
    Indices <- 0 .. Size,
    open <- {c \in Callers : pc[c] # "idle"},
    todo <- [c \in Callers |-> Unclaimed(c)],
    active <- [c \in Callers |->
                 {<<WorkerIndex(t), my_task[t]>> :
                    t \in {u \in Threads : InBody(u) /\ my_body[u] = c}}],
    finished <- done,
    failed <- threw,
    outcome <- result

KeepsPromise == Promise!Spec
=============================================================================
