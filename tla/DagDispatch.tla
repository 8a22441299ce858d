---------------------------- MODULE DagDispatch ----------------------------
(***************************************************************************)
(* A workflow of nodes with dependencies: its validation and its plan of   *)
(* levels (janus/src/workflow/dag.rs), and the driver in the daemon that   *)
(* starts one task per node, level by level, and judges each of them by    *)
(* the rows of its steps (handle_dispatch_dag, is_task_successful).        *)
(*                                                                         *)
(* A task here is what the driver can see of it: the rows of its steps and *)
(* how its worker returned.  A second worker may take over an unfinished   *)
(* task (Continue, cold start); the driver does not know of it.            *)
(***************************************************************************)
EXTENDS Naturals, Sequences, FiniteSets

CONSTANTS Nodes,     \* node ids a workflow file may name
          Inline,    \* those with steps of their own instead of a workflow's name
          Steps,     \* number of steps of a node's workflow
          Polls,     \* looks that is_task_successful takes at the rows (5)
          Crashes    \* bound: crashes of the daemon

ASSUME NodesAssumption == IsFiniteSet(Nodes)
ASSUME StepsAssumption == Steps \in Nat \ {0}
ASSUME PollsAssumption == Polls \in Nat \ {0}

VARIABLES nodes, needs,            \* the file: fixed from the start
          inDegree, queue, levels, \* plan()
          driver,                  \* program counter of handle_dispatch_dag
          level,                   \* the level it is at
          todo,                    \* nodes of the level not yet dispatched, then not yet judged
          polls,                   \* looks taken at the rows of the task it judges
          row,                     \* metamach_step_meta: a node's steps
          worker,                  \* the task of the join handle
          second                   \* a worker the driver knows nothing of

graph == <<nodes, needs>>
plan == <<inDegree, queue, levels>>
tasks == <<row, worker, second>>
vars == <<graph, plan, driver, level, todo, polls, tasks>>

Step == 1..Steps
NoRow == "none"
Drivers == {"validate", "plan", "refused", "dispatch", "await", "done", "aborted", "lost"}

TypeOK ==
  /\ nodes \subseteq Nodes /\ needs \in [nodes -> SUBSET Nodes]
  /\ inDegree \in [nodes -> 0..Cardinality(Nodes)]
  /\ queue \subseteq nodes
  /\ levels \in Seq(SUBSET nodes)
  /\ driver \in Drivers
  /\ level \in 0..Len(levels)
  /\ todo \subseteq nodes
  /\ polls \in 0..Polls
  /\ row \in [Nodes -> [Step -> {NoRow, "RUNNING", "COMPLETED", "FAILED"}]]
  /\ worker \in [Nodes -> {"none", "running", "ok", "err", "gone"}]
  /\ second \in [Nodes -> {"none", "running", "gone"}]

(* Any file that parses. *)
Init ==
  /\ nodes \in SUBSET Nodes
  /\ needs \in [nodes -> SUBSET Nodes]
  /\ inDegree = [n \in nodes |-> Cardinality(needs[n])]
  /\ queue = {} /\ levels = <<>>
  /\ driver = "validate"
  /\ level = 0 /\ todo = {} /\ polls = 0
  /\ row = [n \in Nodes |-> [i \in Step |-> NoRow]]
  /\ worker = [n \in Nodes |-> "none"]
  /\ second = [n \in Nodes |-> "none"]

-----------------------------------------------------------------------------
(* validate() and plan() *)

Validate ==
  /\ driver = "validate"
  /\ driver' = IF nodes = {} \/ \E n \in nodes : ~(needs[n] \subseteq nodes)
               THEN "refused" ELSE "plan"
  /\ queue' = {n \in nodes : inDegree[n] = 0}
  /\ UNCHANGED <<graph, inDegree, levels, level, todo, polls, tasks>>

\* Mutant: every node loses a dependency for each node of the level.
PlanLevel_all ==
  /\ driver = "plan" /\ queue # {}
  /\ inDegree' = [n \in nodes |-> inDegree[n] - Cardinality(queue)]
  /\ queue' = {n \in nodes : inDegree'[n] = 0}
  /\ levels' = Append(levels, queue)
  /\ UNCHANGED <<graph, driver, level, todo, polls, tasks>>

\* Mutant: a node is ready with the first of its dependencies.
PlanLevel_first ==
  /\ driver = "plan" /\ queue # {}
  /\ inDegree' = [n \in nodes |-> IF needs[n] \cap queue = {} THEN inDegree[n] ELSE 0]
  /\ queue' = {n \in nodes : inDegree[n] > 0 /\ inDegree'[n] = 0}
  /\ levels' = Append(levels, queue)
  /\ UNCHANGED <<graph, driver, level, todo, polls, tasks>>

(* One turn of Kahn's loop: the queue becomes a level, and the nodes whose *)
(* last dependency is in it become the next queue.                         *)
PlanLevel ==
  /\ driver = "plan" /\ queue # {}
  /\ inDegree' = [n \in nodes |-> inDegree[n] - Cardinality(needs[n] \cap queue)]
  /\ queue' = {n \in nodes : inDegree'[n] = 0 /\ needs[n] \cap queue # {}}
  /\ levels' = Append(levels, queue)
  /\ UNCHANGED <<graph, driver, level, todo, polls, tasks>>

Sorted == UNION {levels[k] : k \in 1..Len(levels)}

EndPlan ==
  /\ driver = "plan" /\ queue = {}
  /\ IF Sorted # nodes
     THEN driver' = "refused" /\ UNCHANGED <<level, todo>>
     ELSE driver' = "dispatch" /\ level' = 1 /\ todo' = levels[1]
  /\ UNCHANGED <<graph, plan, polls, tasks>>

-----------------------------------------------------------------------------
(* The driver *)

Dispatch(n) ==
  /\ driver = "dispatch" /\ n \in todo
  /\ worker' = [worker EXCEPT ![n] = "running"]
  /\ IF todo = {n}
     THEN driver' = "await" /\ todo' = levels[level]
     ELSE UNCHANGED driver /\ todo' = todo \ {n}
  /\ UNCHANGED <<graph, plan, level, polls, row, second>>

(* A workflow that does not load, or a database that is offline: the       *)
(* driver returns, and what it had started goes on without it.             *)
DispatchFails ==
  /\ driver = "dispatch"
  /\ driver' = "aborted"
  /\ UNCHANGED <<graph, plan, level, todo, polls, tasks>>

(* The level is over when the last of its handles was judged. *)
Succeeded(n) ==
  /\ polls' = 0
  /\ IF todo # {n} THEN todo' = todo \ {n} /\ UNCHANGED <<driver, level>>
     ELSE IF level = Len(levels)
          THEN driver' = "done" /\ todo' = {} /\ UNCHANGED level
          ELSE driver' = "dispatch" /\ level' = level + 1 /\ todo' = levels[level + 1]

Abort == driver' = "aborted" /\ UNCHANGED <<level, todo, polls>>

RowsOf(n) == {row[n][i] : i \in Step} \ {NoRow}

(* is_task_successful: one look at the rows of the task. *)
Judge(n) ==
  \/ /\ RowsOf(n) = {"COMPLETED"}
     /\ Succeeded(n)
  \/ /\ "FAILED" \in RowsOf(n)
     /\ Abort
  \/ /\ RowsOf(n) # {"COMPLETED"} /\ "FAILED" \notin RowsOf(n)
     /\ polls < Polls
     /\ polls' = polls + 1
     /\ UNCHANGED <<driver, level, todo>>

(* The pool or the query fails: the look is lost. *)
Unreadable ==
  /\ polls < Polls
  /\ polls' = polls + 1
  /\ UNCHANGED <<driver, level, todo>>

\* Mutant: the handle is not awaited before the rows are read.
AwaitNode_unjoined(n) ==
  /\ driver = "await" /\ n \in todo
  /\ Judge(n)
  /\ UNCHANGED <<graph, plan, tasks>>

\* Mutant: the rows are polled without a limit.
AwaitNode_endless(n) ==
  /\ driver = "await" /\ n \in todo
  /\ worker[n] = "ok" /\ Judge(n)
  /\ UNCHANGED <<graph, plan, tasks>>

(* The handles of a level are awaited one after the other, in any order. *)
AwaitNode(n) ==
  /\ driver = "await" /\ n \in todo
  /\ polls > 0 => worker[n] = "ok"
  /\ \/ worker[n] = "ok" /\ Judge(n)
     \/ worker[n] = "ok" /\ Unreadable
     \/ worker[n] = "ok" /\ polls = Polls /\ Abort
     \/ worker[n] = "err" /\ Abort
  /\ UNCHANGED <<graph, plan, tasks>>

-----------------------------------------------------------------------------
(* The tasks *)

Alive(n) == worker[n] = "running" \/ second[n] = "running"

StartStep(n, i) ==
  /\ Alive(n)
  /\ row[n][i] \in {NoRow, "FAILED"}
  /\ \A j \in 1..(i - 1) : row[n][j] = "COMPLETED"
  /\ row' = [row EXCEPT ![n][i] = "RUNNING"]
  /\ UNCHANGED <<graph, plan, driver, level, todo, polls, worker, second>>

EndStep(n, i) ==
  /\ Alive(n)
  /\ row[n][i] = "RUNNING"
  /\ \E s \in {"COMPLETED", "FAILED"} : row' = [row EXCEPT ![n][i] = s]
  /\ UNCHANGED <<graph, plan, driver, level, todo, polls, worker, second>>

Complete(n) == \A i \in Step : row[n][i] = "COMPLETED"

(* run_workflow returns Ok also when a step failed for good or was stopped *)
(* or suspended, and Err when a call fails.                                *)
Return(n) ==
  /\ worker[n] = "running"
  /\ \/ /\ Complete(n) \/ RowsOf(n) \cap {"RUNNING", "FAILED"} # {}
        /\ worker' = [worker EXCEPT ![n] = "ok"]
     \/ worker' = [worker EXCEPT ![n] = "err"]
  /\ UNCHANGED <<graph, plan, driver, level, todo, polls, row, second>>

(* reconcile starts a worker for a task with a step in progress, if it     *)
(* finds the workflow by its name: that of an inline node is in no file.   *)
TakeOver(n) ==
  /\ worker[n] # "none" /\ second[n] = "none"
  /\ n \notin Inline
  /\ "RUNNING" \in RowsOf(n)
  /\ second' = [second EXCEPT ![n] = "running"]
  /\ UNCHANGED <<graph, plan, driver, level, todo, polls, row, worker>>

SecondReturns(n) ==
  /\ second[n] = "running"
  /\ second' = [second EXCEPT ![n] = "gone"]
  /\ UNCHANGED <<graph, plan, driver, level, todo, polls, row, worker>>

(* The driver is in memory only. *)
Crash ==
  /\ Crashes > 0 /\ driver \in {"dispatch", "await"}
  /\ driver' = "lost"
  /\ worker' = [n \in Nodes |-> IF worker[n] = "running" THEN "gone" ELSE worker[n]]
  /\ second' = [n \in Nodes |-> IF second[n] = "running" THEN "gone" ELSE second[n]]
  /\ UNCHANGED <<graph, plan, level, todo, polls, row>>

Task(n) == (\E i \in Step : StartStep(n, i) \/ EndStep(n, i)) \/ Return(n)

Driver ==
  \/ Validate \/ PlanLevel \/ EndPlan
  \/ \E n \in Nodes : Dispatch(n) \/ AwaitNode(n)
  \/ DispatchFails

Next ==
  \/ Driver
  \/ \E n \in Nodes : Task(n) \/ TakeOver(n) \/ SecondReturns(n)
  \/ Crash

(* The daemon polls its driver and the workers; that the worker of a node  *)
(* ends, and not only moves, is what the workflow engine promises.         *)
Fairness ==
  /\ WF_vars(Driver)
  /\ \A n \in Nodes : WF_vars(Task(n)) /\ SF_vars(Return(n))

Spec == Init /\ [][Next]_vars /\ Fairness

-----------------------------------------------------------------------------
Planned == driver \notin {"validate", "plan", "refused"}

(* The plan that the declaration of a level asks for: the dependencies of  *)
(* a node are in earlier levels, one of them in the level just before.     *)
IsLayering(ls) ==
  /\ UNION {ls[k] : k \in 1..Len(ls)} = nodes
  /\ \A k, l \in 1..Len(ls) : k # l => ls[k] \cap ls[l] = {}
  /\ \A k \in 1..Len(ls) : \A n \in ls[k] :
       /\ needs[n] \subseteq UNION {ls[l] : l \in 1..(k - 1)}
       /\ k > 1 => needs[n] \cap ls[k - 1] # {}

Cyclic == \E S \in (SUBSET nodes) \ {{}} : \A n \in S : needs[n] \cap S # {}

(* plan() finds the layering of every graph that has one, and validate()   *)
(* refuses exactly the others: no nodes, an unknown dependency, a cycle    *)
(* (also of one node).                                                     *)
PlanIsLayering ==
  /\ Planned => IsLayering(levels)
  /\ driver = "refused" <=>
       driver \notin {"validate", "plan"} /\
       (nodes = {} \/ (\E n \in nodes : ~(needs[n] \subseteq nodes)) \/ Cyclic)

(* A node is started only when everything it needs is complete, for every  *)
(* graph, and although rows of steps that have not begun are missing and   *)
(* the database may not answer.  The exception is a task that a second     *)
(* worker took over: is_task_successful does not know how many steps there *)
(* are, and takes the rows of a task that this worker is still at, between *)
(* two steps, for a finished one.                                          *)
NeedsCompleted ==
  LET Trusted(d) == Complete(d) \/ second[d] # "none" IN
  /\ \A n \in nodes : worker[n] # "none" => \A d \in needs[n] : Trusted(d)
  /\ driver = "done" => \A n \in nodes : Trusted(n)

(* The driver comes to an end: the plan's loop, the waiting for handles    *)
(* and the polling of rows are all bounded.                                *)
DriverSettles == <>(driver \in {"refused", "done", "aborted", "lost"})

=============================================================================
