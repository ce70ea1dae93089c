----------------------------- MODULE TaskSplit -----------------------------
(***************************************************************************)
(* How one read's arithmetic is divided among the pool: TaskSplit of       *)
(* src/src/reduce/task_split.h, and PlanRowTasks and TaskRows of           *)
(* src/src/work_pool.cc.  A reduction gives each task an accumulator of    *)
(* its own, so it makes no more tasks than it affords accumulators.        *)
(***************************************************************************)
EXTENDS Integers

CONSTANTS PoolSize,             \* workers.size(): started threads and the caller
          LeastPixelsPerTask    \* kLeastPixelsPerTask

ASSUME PoolSizeAssumption == PoolSize \in Nat \ {0}
ASSUME LeastPixelsAssumption == LeastPixelsPerTask \in Nat \ {0}

LOCAL OneOrMore(n) == IF n < 1 THEN 1 ELSE n
LOCAL Lesser(a, b) == IF a < b THEN a ELSE b

(* The most tasks a read is split in. *)
MostTasks(budget_bytes, accumulator_bytes) ==
    Lesser(PoolSize, OneOrMore(budget_bytes \div OneOrMore(accumulator_bytes)))

PlanRowTasks(row_pixels, rows, max_tasks) ==
    IF rows = 0 THEN 0
    ELSE IF row_pixels = 0 \/ max_tasks <= 1 THEN 1
    ELSE Lesser(Lesser(max_tasks, rows), OneOrMore((row_pixels * rows) \div LeastPixelsPerTask))

(* The rows [first, last) of a task, counted from 0; one past the last row  *)
(* has none.                                                                *)
TaskRows(task, tasks, rows) ==
    LET per_task == (rows + tasks - 1) \div tasks
    IN  [first |-> Lesser(task * per_task, rows), last |-> Lesser((task + 1) * per_task, rows)]

(* What TaskSplit::Run hands the body of a task: all of the units when they *)
(* are one task's, which a read of none still calls.                        *)
Share(task, tasks, units) ==
    IF tasks <= 1 THEN [first |-> 0, last |-> units] ELSE TaskRows(task, tasks, units)
=============================================================================
