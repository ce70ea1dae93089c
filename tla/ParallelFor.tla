---------------------------- MODULE ParallelFor ----------------------------
(***************************************************************************)
(* What WorkPool::Run promises a caller (the class comment and Run's own   *)
(* in src/src/work_pool.h), with no threads, locks or counters in it: the  *)
(* tasks of a call are each begun at most once, by a worker index no other *)
(* body of that call is using; the call ends when no body of it is         *)
(* running, normally when every task is done and by throwing when a body   *)
(* threw.                                                                   *)
(***************************************************************************)
EXTENDS Naturals

CONSTANTS Callers,    \* threads that call Run
          Indices,    \* worker indices, [0, size())
          MaxTasks    \* bound: tasks of one call

VARIABLES open,       \* callers inside a call
          todo,       \* tasks of a call not yet begun
          active,     \* <<worker index, task>> of the bodies running
          finished,   \* tasks whose body returned
          failed,     \* callers a body of whose latest call threw
          outcome     \* how a caller's latest call ended

vars == <<open, todo, active, finished, failed, outcome>>

Init ==
    /\ open = {}
    /\ todo = [c \in Callers |-> {}]
    /\ active = [c \in Callers |-> {}]
    /\ finished = [c \in Callers |-> {}]
    /\ failed = {}
    /\ outcome = [c \in Callers |-> "none"]

Call(c, n) ==
    /\ c \notin open
    /\ todo' = [todo EXCEPT ![c] = 0 .. n - 1]
    /\ finished' = [finished EXCEPT ![c] = {}]
    /\ failed' = failed \ {c}
    /\ \/ /\ n = 0
          /\ outcome' = [outcome EXCEPT ![c] = "returned"]
          /\ UNCHANGED open
       \/ /\ n > 0
          /\ outcome' = [outcome EXCEPT ![c] = "none"]
          /\ open' = open \cup {c}
    /\ UNCHANGED active

Begin(c, task, index) ==
    /\ c \in open
    /\ task \in todo[c]
    /\ \A a \in active[c] : a[1] # index
    /\ todo' = [todo EXCEPT ![c] = @ \ {task}]
    /\ active' = [active EXCEPT ![c] = @ \cup {<<index, task>>}]
    /\ UNCHANGED <<open, finished, failed, outcome>>

End(c, a) ==
    /\ a \in active[c]
    /\ active' = [active EXCEPT ![c] = @ \ {a}]
    /\ finished' = [finished EXCEPT ![c] = @ \cup {a[2]}]
    /\ UNCHANGED <<open, todo, failed, outcome>>

Throw(c, a) ==
    /\ a \in active[c]
    /\ active' = [active EXCEPT ![c] = @ \ {a}]
    /\ failed' = failed \cup {c}
    /\ UNCHANGED <<open, todo, finished, outcome>>

(* Only after a throw may tasks be left undone. *)
GiveUp(c) ==
    /\ c \in open \cap failed
    /\ todo' = [todo EXCEPT ![c] = {}]
    /\ UNCHANGED <<open, active, finished, failed, outcome>>

Return(c) ==
    /\ c \in open
    /\ active[c] = {}
    /\ todo[c] = {} \/ c \in failed
    /\ open' = open \ {c}
    /\ todo' = [todo EXCEPT ![c] = {}]
    /\ outcome' = [outcome EXCEPT ![c] = IF c \in failed THEN "threw" ELSE "returned"]
    /\ UNCHANGED <<active, finished, failed>>

Next ==
    \E c \in Callers :
        \/ \E n \in 0 .. MaxTasks : Call(c, n)
        \/ \E task \in todo[c], index \in Indices : Begin(c, task, index)
        \/ \E a \in active[c] : End(c, a) \/ Throw(c, a)
        \/ GiveUp(c) \/ Return(c)

Spec == Init /\ [][Next]_vars
=============================================================================
