---------------------------- MODULE AbsurdQueue ----------------------------
(***************************************************************************)
(* One queue of the durable execution engine: the stored procedures of     *)
(* janus/sql/absurd.sql over the tables t_<queue> (tasks), r_<queue>       *)
(* (runs), c_<queue> (checkpoints), e_<queue> (events) and w_<queue>       *)
(* (waits).  The callers are the workers of the daemon, but the procedures *)
(* never check who calls: a worker whose lease is gone may still call any  *)
(* of them with its old run, so every action here is open to every caller. *)
(*                                                                         *)
(* A procedure is one transaction and one action: it takes its row locks   *)
(* before it decides (FOR UPDATE / FOR SHARE), so its effect is that of a  *)
(* single step.  set_task_checkpoint_state is the exception: it reads the  *)
(* run and the present owner WITHOUT locks and writes afterwards, so it is *)
(* two actions here.  A procedure that raises is rolled back, i.e. not     *)
(* enabled.                                                                *)
(*                                                                         *)
(* A deadline column (available_at, claim_expires_at, timeout_at) is kept  *)
(* as the time still left until it; "<= now" in the SQL is "= 0" here, and *)
(* Tick lets one unit pass for all of them.  Lease columns are read only   *)
(* in state running, so the model keeps them at 0 in every other state.    *)
(* A run is identified by its task and attempt: run ids are fresh UUIDs    *)
(* and an attempt number is used by one run of a task only.                *)
(***************************************************************************)
EXTENDS Naturals

CONSTANTS
  Tasks,          \* task ids the callers may spawn
  Steps,          \* step (checkpoint) names
  Events,         \* event names
  Payloads,       \* event payloads and checkpoint states
  CkptStates,     \* those that callers pass to set_task_checkpoint_state
  None,           \* SQL NULL
  MaxAttempts,    \* max_attempts given to spawn_task (the adapter passes 3)
  AttemptCap,     \* bound: highest attempt number retry_task may reach
  ClaimTimeout,   \* lease length granted by claim_task (the adapter passes 30)
  ExtendBy,       \* lease length granted by extend_claim
  RetryDelay,     \* delay of the task's retry strategy (0: strategy "none")
  AwaitTimeouts,  \* timeouts passed to await_event
  SleepDelays     \* delays passed to schedule_run

ASSUME QueueAssumption ==
  /\ MaxAttempts \in Nat \ {0}
  /\ AttemptCap \in Nat
  /\ MaxAttempts <= AttemptCap
  /\ ClaimTimeout \in Nat \ {0}
  /\ ExtendBy \in Nat \ {0}
  /\ RetryDelay \in Nat
  /\ AwaitTimeouts \subseteq Nat
  /\ SleepDelays \subseteq Nat
  /\ CkptStates \subseteq Payloads
  /\ None \notin Payloads
  /\ None \notin Events

VARIABLES
  task,      \* t_<queue>: [state, attempts, max, lastRun] of every task
  run,       \* r_<queue>: run[t][a] is the run of attempt a of task t
  ckpt,      \* c_<queue>: ckpt[t][s] is the checkpoint of step s
  latest,    \* the checkpoint name with the greatest updated_at, per task
  event,     \* e_<queue>: the payload, None while not emitted
  wait,      \* w_<queue>: the wait rows
  writing    \* set_task_checkpoint_state calls in flight; saw: the owner they read

vars == <<task, run, ckpt, latest, event, wait, writing>>

-----------------------------------------------------------------------------
(* Rows                                                                    *)

Attempts == 1..AttemptCap

Live     == {"pending", "sleeping", "running"}
Terminal == {"completed", "failed", "cancelled"}
States   == Live \cup Terminal \cup {"none"}     \* "none": no row yet

Task == [state : States, attempts : Nat, max : Nat, lastRun : Nat]
Run  == [state : States, due : Nat, lease : Nat,
         wake : Events \cup {None}, payload : Payloads \cup {None}]
Ckpt == [owner : Nat, payload : Payloads \cup {None}]
Wait == [task : Tasks, attempt : Attempts, step : Steps,
         event : Events, left : Nat]
Call == [task : Tasks, attempt : Attempts, step : Steps,
         payload : Payloads, saw : Nat \cup {None}]

NewRun(st, d) ==
  [state |-> st, due |-> d, lease |-> 0, wake |-> None, payload |-> None]

NoRun  == NewRun("none", 0)
NoTask == [state |-> "none", attempts |-> 0, max |-> 0, lastRun |-> 0]
NoCkpt == [owner |-> 0, payload |-> None]

WithRun(rn, t, a, r) == [rn EXCEPT ![t] = [@ EXCEPT ![a] = r]]

Larger(x, y) == IF x > y THEN x ELSE y

TypeOK ==
  /\ task \in [Tasks -> Task]
  /\ run \in [Tasks -> [Attempts -> Run]]
  /\ ckpt \in [Tasks -> [Steps -> Ckpt]]
  /\ latest \in [Tasks -> Steps \cup {None}]
  /\ event \in [Events -> Payloads \cup {None}]
  /\ wait \subseteq Wait
  /\ writing \subseteq Call

Init ==
  /\ task = [t \in Tasks |-> NoTask]
  /\ run = [t \in Tasks |-> [a \in Attempts |-> NoRun]]
  /\ ckpt = [t \in Tasks |-> [s \in Steps |-> NoCkpt]]
  /\ latest = [t \in Tasks |-> None]
  /\ event = [e \in Events |-> None]
  /\ wait = {}
  /\ writing = {}

-----------------------------------------------------------------------------
(* spawn_task: a pending task with its first run, available at once.       *)

SpawnTask(t) ==
  /\ task[t].state = "none"
  /\ task' = [task EXCEPT ![t] = [state |-> "pending", attempts |-> 1,
                                  max |-> MaxAttempts, lastRun |-> 1]]
  /\ run' = WithRun(run, t, 1, NewRun("pending", 0))
  /\ UNCHANGED <<ckpt, latest, event, wait, writing>>

-----------------------------------------------------------------------------
(* fail_run.  The tables after it, as functions of the tables before it,   *)
(* because claim_task fails an expired run in the same transaction.        *)

\* Mutant: an off-by-one grants one attempt too many.
HasRetryOffByOne(tk, t, a) == a <= tk[t].max
HasRetry(tk, t, a) == a + 1 <= tk[t].max

\* Mutant: a state name the other procedures do not know.
RetryStateRetrying == "retrying"
RetryState == IF RetryDelay > 0 THEN "sleeping" ELSE "pending"

TasksAfterFail(tk, t, a) ==
  LET last == IF HasRetry(tk, t, a) THEN a + 1 ELSE a
  IN  [tk EXCEPT ![t] =
         [state    |-> IF HasRetry(tk, t, a) THEN RetryState ELSE "failed",
          attempts |-> Larger(@.attempts, last),
          max      |-> @.max,
          lastRun  |-> last]]

\* Mutant: the retry is inserted but the run itself is left as it was.
RunsAfterFailLeftOpen(tk, rn, t, a) ==
  [rn EXCEPT ![t] = [x \in Attempts |->
     IF x = a + 1 /\ HasRetry(tk, t, a) THEN NewRun(RetryState, RetryDelay)
     ELSE rn[t][x]]]

RunsAfterFail(tk, rn, t, a) ==
  [rn EXCEPT ![t] = [x \in Attempts |->
     IF x = a THEN [rn[t][a] EXCEPT !.state = "failed", !.lease = 0, !.wake = None]
     ELSE IF x = a + 1 /\ HasRetry(tk, t, a) THEN NewRun(RetryState, RetryDelay)
     ELSE rn[t][x]]]

\* Mutant: the wait rows are not deleted.
WaitsKept(wt, t, a) == wt
WaitsWithout(wt, t, a) == {w \in wt : ~(w.task = t /\ w.attempt = a)}

\* Mutant: the checks of the run's state are dropped.
CanFailAnyRun(t, a) == run[t][a].state # "none"
CanFail(t, a) == run[t][a].state \in {"running", "sleeping"}

FailRun(t, a) ==
  /\ CanFail(t, a)
  /\ task' = TasksAfterFail(task, t, a)
  /\ run' = RunsAfterFail(task, run, t, a)
  /\ wait' = WaitsWithout(wait, t, a)
  /\ UNCHANGED <<ckpt, latest, event, writing>>

-----------------------------------------------------------------------------
(* claim_task with quantity 1, as the adapter calls it: first fail one run *)
(* whose lease has expired, if there is one, then lease a run that is due. *)
(* The order of available_at among due runs is not kept: any may be taken. *)
(* No task carries a cancellation policy, so that sweep finds nothing.     *)

\* Mutant: the lease sweep is left out.
ExpiredRunsNoSweep == {r \in Tasks \X Attempts : FALSE}

ExpiredRuns ==
  {r \in Tasks \X Attempts :
     run[r[1]][r[2]].state = "running" /\ run[r[1]][r[2]].lease = 0}

\* Mutant: sleeping runs that fell due are forgotten.
DueRunsPendingOnly(tk, rn) ==
  {r \in Tasks \X Attempts :
     /\ rn[r[1]][r[2]].state = "pending"
     /\ rn[r[1]][r[2]].due = 0
     /\ tk[r[1]].state \in Live}

DueRuns(tk, rn) ==
  {r \in Tasks \X Attempts :
     /\ rn[r[1]][r[2]].state \in {"pending", "sleeping"}
     /\ rn[r[1]][r[2]].due = 0
     /\ tk[r[1]].state \in Live}

\* The claim itself, on the tables the sweep left.
Lease(tk, rn, wt, t, a) ==
  /\ <<t, a>> \in DueRuns(tk, rn)
  /\ task' = [tk EXCEPT ![t] =
                [@ EXCEPT !.state = "running", !.attempts = Larger(tk[t].attempts, a),
                          !.lastRun = a]]
  /\ run' = WithRun(rn, t, a,
                [rn[t][a] EXCEPT !.state = "running", !.lease = ClaimTimeout])
  /\ wait' = {w \in wt : ~(w.task = t /\ w.attempt = a /\ w.left = 0)}

\* claim_task that returns run a of task t.
ClaimTask(t, a) ==
  /\ \/ /\ ExpiredRuns = {}
        /\ Lease(task, run, wait, t, a)
     \/ \E x \in ExpiredRuns :
          Lease(TasksAfterFail(task, x[1], x[2]),
                RunsAfterFail(task, run, x[1], x[2]),
                WaitsWithout(wait, x[1], x[2]), t, a)
  /\ UNCHANGED <<ckpt, latest, event, writing>>

\* claim_task that returns no row, but may have failed an expired run.
ClaimNothing ==
  /\ \E x \in ExpiredRuns :
       /\ DueRuns(TasksAfterFail(task, x[1], x[2]),
                  RunsAfterFail(task, run, x[1], x[2])) = {}
       /\ FailRun(x[1], x[2])

-----------------------------------------------------------------------------
(* The other calls on a leased run                                         *)

\* Mutant: only a cancelled run is refused.
CanCompleteUnlessCancelled(t, a) == run[t][a].state \notin {"none", "cancelled"}
CanComplete(t, a) == run[t][a].state = "running"

CompleteRun(t, a) ==
  /\ CanComplete(t, a)
  /\ run' = WithRun(run, t, a, [run[t][a] EXCEPT !.state = "completed", !.lease = 0])
  /\ task' = [task EXCEPT ![t] = [@ EXCEPT !.state = "completed", !.lastRun = a]]
  /\ wait' = WaitsWithout(wait, t, a)
  /\ UNCHANGED <<ckpt, latest, event, writing>>

ScheduleRun(t, a, d) ==
  /\ run[t][a].state = "running"
  /\ run' = WithRun(run, t, a,
       [run[t][a] EXCEPT !.state = "sleeping", !.lease = 0, !.due = d, !.wake = None])
  /\ task' = [task EXCEPT ![t] = [@ EXCEPT !.state = "sleeping"]]
  /\ UNCHANGED <<ckpt, latest, event, wait, writing>>

CanExtend(t, a) ==
  /\ task[t].state # "cancelled"
  /\ run[t][a].state = "running"

ExtendClaim(t, a) ==
  /\ CanExtend(t, a)
  /\ run' = WithRun(run, t, a, [run[t][a] EXCEPT !.lease = ExtendBy])
  /\ UNCHANGED <<task, ckpt, latest, event, wait, writing>>

\* reconcile of coldstart.rs, before it starts a worker: the lease a dead daemon
\* left on a running run is made to expire at once.
ExpireLease(t, a) ==
  /\ run[t][a].state = "running"
  /\ run' = WithRun(run, t, a, [run[t][a] EXCEPT !.lease = 0, !.due = 0])
  /\ UNCHANGED <<task, ckpt, latest, event, wait, writing>>

(* set_task_checkpoint_state: the run is read, ...                         *)
CanCheckpoint(t, a) ==
  /\ run[t][a].state \notin {"none", "failed"}
  /\ task[t].state # "cancelled"

CheckpointCall(t, a, s, p) ==
  /\ CanCheckpoint(t, a)
  /\ \A c \in writing : ~(c.task = t /\ c.attempt = a)
  /\ writing' = writing \cup {[task |-> t, attempt |-> a, step |-> s,
                               payload |-> p, saw |-> None]}
  /\ UNCHANGED <<task, run, ckpt, latest, event, wait>>

(* ... then the present owner, ...                                         *)
\* Mutant: the attempt of the present owner is not compared.
MayOverwriteAlways(attempt, existing) == TRUE
MayOverwrite(attempt, existing) == attempt >= existing

CheckpointRead(c) ==
  /\ c \in writing /\ c.saw = None
  /\ LET owner == ckpt[c.task][c.step].owner IN
       writing' = (writing \ {c}) \cup
         (IF MayOverwrite(c.attempt, owner) THEN {[c EXCEPT !.saw = owner]} ELSE {})
  /\ UNCHANGED <<task, run, ckpt, latest, event, wait>>

(* ... and the upsert.                                                     *)
WriteCkpt(t, a, s, p) ==
  /\ ckpt' = [ckpt EXCEPT ![t] = [@ EXCEPT ![s] = [owner |-> a, payload |-> p]]]
  /\ latest' = [latest EXCEPT ![t] = s]

CheckpointWrite(c) ==
  /\ c \in writing /\ c.saw # None
  /\ WriteCkpt(c.task, c.attempt, c.step, c.payload)
  /\ writing' = writing \ {c}
  /\ UNCHANGED <<task, run, event, wait>>

-----------------------------------------------------------------------------
(* await_event.  AwaitCached returns the checkpoint of the step whatever   *)
(* the state of the run and changes nothing; the others need a running run *)
(* of a task that is not cancelled.                                        *)

AwaitCached(t, s) == ckpt[t][s].payload # None

CanAwait(t, a, s) ==
  /\ ~AwaitCached(t, s)
  /\ task[t].state # "cancelled"
  /\ run[t][a].state = "running"

\* The event was emitted: its payload becomes the step's checkpoint.
AwaitResolved(t, a, s, e) ==
  /\ CanAwait(t, a, s)
  /\ event[e] # None
  /\ WriteCkpt(t, a, s, event[e])
  /\ run' = WithRun(run, t, a, [run[t][a] EXCEPT !.payload = None])
  /\ UNCHANGED <<task, event, wait, writing>>

ResumedByTimeout(t, a, e) ==
  /\ run[t][a].wake = e
  /\ run[t][a].payload = None

\* The run was claimed because its wait timed out.
AwaitTimedOut(t, a, s, e) ==
  /\ CanAwait(t, a, s)
  /\ event[e] = None
  /\ ResumedByTimeout(t, a, e)
  /\ run' = WithRun(run, t, a, [run[t][a] EXCEPT !.wake = None])
  /\ UNCHANGED <<task, ckpt, latest, event, wait, writing>>

\* Nothing to return yet: register the wait, give up the lease, sleep.
AwaitSuspend(t, a, s, e, d) ==
  /\ CanAwait(t, a, s)
  /\ event[e] = None
  /\ ~ResumedByTimeout(t, a, e)
  /\ wait' = {w \in wait : ~(w.task = t /\ w.attempt = a /\ w.step = s)} \cup
             {[task |-> t, attempt |-> a, step |-> s, event |-> e, left |-> d]}
  /\ run' = WithRun(run, t, a,
       [run[t][a] EXCEPT !.state = "sleeping", !.lease = 0, !.due = d, !.wake = e,
                         !.payload = None])
  /\ task' = [task EXCEPT ![t] = [@ EXCEPT !.state = "sleeping"]]
  /\ UNCHANGED <<ckpt, latest, event, writing>>

-----------------------------------------------------------------------------
(* emit_event: the first payload wins; a later call changes nothing.  It   *)
(* wakes the sleeping runs that wait for the event and whose wait has not  *)
(* expired, and stores the payload as the checkpoint of their steps.       *)

\* Mutant: a wait in its last unit of time is skipped.
WokenTooEarly(e) ==
  {w \in wait : w.event = e /\ w.left > 1 /\ run[w.task][w.attempt].state = "sleeping"}

Woken(e) ==
  {w \in wait : w.event = e /\ w.left > 0 /\ run[w.task][w.attempt].state = "sleeping"}

\* Mutant: the upsert lost its "where payload is null".
NotEmittedIgnored(e) == TRUE
NotEmitted(e) == event[e] = None

EmitEvent(e, p) ==
  /\ NotEmitted(e)
  /\ event' = [event EXCEPT ![e] = p]
  /\ run' = [t \in Tasks |-> [a \in Attempts |->
       IF \E w \in Woken(e) : w.task = t /\ w.attempt = a
       THEN [run[t][a] EXCEPT !.state = "pending", !.due = 0, !.wake = None,
                              !.payload = p, !.lease = 0]
       ELSE run[t][a]]]
  /\ task' = [t \in Tasks |->
       IF \E w \in Woken(e) : w.task = t
       THEN [task[t] EXCEPT !.state = "pending"] ELSE task[t]]
  /\ ckpt' = [t \in Tasks |-> [s \in Steps |->
       IF \E w \in Woken(e) : w.task = t /\ w.step = s
       THEN [owner |-> (CHOOSE w \in Woken(e) : w.task = t /\ w.step = s).attempt,
             payload |-> p]
       ELSE ckpt[t][s]]]
  /\ latest' = [t \in Tasks |->
       IF \E w \in Woken(e) : w.task = t
       THEN (CHOOSE w \in Woken(e) : w.task = t).step ELSE latest[t]]
  /\ wait' = {w \in wait :
       ~(w.event = e /\ (w.left = 0 \/ \E v \in Woken(e) :
                                          v.task = w.task /\ v.attempt = w.attempt))}
  /\ UNCHANGED writing

-----------------------------------------------------------------------------
(* cancel_task and the in-place retry_task: operator calls.                *)

CancelTask(t) ==
  /\ task[t].state \in Live
  /\ task' = [task EXCEPT ![t] = [@ EXCEPT !.state = "cancelled"]]
  /\ run' = [run EXCEPT ![t] = [a \in Attempts |->
       IF run[t][a].state \in Live
       THEN [run[t][a] EXCEPT !.state = "cancelled", !.lease = 0] ELSE run[t][a]]]
  /\ wait' = {w \in wait : w.task # t}
  /\ UNCHANGED <<ckpt, latest, event, writing>>

\* m is the requested max_attempts; without one it is the present max + 1.
RetryTask(t, m) ==
  /\ task[t].state = "failed"
  /\ m > task[t].attempts
  /\ LET a == task[t].attempts + 1 IN
       /\ run' = WithRun(run, t, a, NewRun("pending", 0))
       /\ task' = [task EXCEPT ![t] = [state |-> "pending",
                     attempts |-> Larger(task[t].attempts, a),
                     max |-> m, lastRun |-> a]]
  /\ UNCHANGED <<ckpt, latest, event, wait, writing>>

-----------------------------------------------------------------------------
(* One unit of time.                                                       *)

Less(n) == IF n > 0 THEN n - 1 ELSE 0

Tick ==
  /\ run' = [t \in Tasks |-> [a \in Attempts |->
       [run[t][a] EXCEPT !.due = Less(@), !.lease = Less(@)]]]
  /\ wait' = {[w EXCEPT !.left = Less(@)] : w \in wait}
  /\ UNCHANGED <<task, ckpt, latest, event, writing>>

-----------------------------------------------------------------------------
AwaitEvent(t, a, s, e) ==
  \/ AwaitResolved(t, a, s, e)
  \/ AwaitTimedOut(t, a, s, e)
  \/ \E d \in AwaitTimeouts : AwaitSuspend(t, a, s, e, d)

RunCall(t, a) ==
  \/ ClaimTask(t, a)
  \/ CompleteRun(t, a)
  \/ FailRun(t, a)
  \/ ExtendClaim(t, a)
  \/ ExpireLease(t, a)
  \/ \E d \in SleepDelays : ScheduleRun(t, a, d)
  \/ \E s \in Steps, p \in CkptStates : CheckpointCall(t, a, s, p)
  \/ \E s \in Steps, e \in Events : AwaitEvent(t, a, s, e)

TaskCall(t) ==
  \/ SpawnTask(t)
  \/ CancelTask(t)
  \/ \E m \in Attempts : RetryTask(t, m)

Next ==
  \/ \E t \in Tasks : TaskCall(t)
  \/ \E t \in Tasks, a \in Attempts : RunCall(t, a)
  \/ ClaimNothing
  \/ \E c \in writing : CheckpointRead(c) \/ CheckpointWrite(c)
  \/ \E e \in Events, p \in Payloads : EmitEvent(e, p)
  \/ Tick

Spec == Init /\ [][Next]_vars

-----------------------------------------------------------------------------
(* Safety                                                                  *)

LiveAttempts(t) == {a \in Attempts : run[t][a].state \in Live}

\* A task never has two runs that can execute, and the one it has is its
\* newest attempt: claim_task's lease sweep and fail_run never leave the old
\* run claimable next to its retry, whatever stale callers do.
OneLiveRun ==
  \A t \in Tasks : \A a \in LiveAttempts(t) :
    a = task[t].attempts /\ a = task[t].lastRun

\* The state column of the task, which non_terminal_tasks and the daemon's
\* polling read, is the state of its newest run: no sequence of calls lets the
\* two tables drift apart.
TaskMatchesRun ==
  \A t \in Tasks : task[t].state # "none" =>
    /\ task[t].attempts \in Attempts
    /\ task[t].state = run[t][task[t].attempts].state

\* No lost wake-up: a run that still sleeps on an event that was emitted is
\* already due, so the next claim takes it (await_event registering its wait
\* against emit_event reading the wait table).
NoLostWakeup ==
  \A t \in Tasks, a \in Attempts :
    LET r == run[t][a] IN
    (r.state = "sleeping" /\ r.wake # None) =>
      IF event[r.wake] # None THEN r.due = 0
      ELSE r.due = 0 \/ \E w \in wait : /\ w.task = t /\ w.attempt = a
                                        /\ w.event = r.wake /\ w.left > 0

\* A wait row belongs to a run that sleeps on its event and falls due when the
\* wait times out: no wait survives the run's failure, completion or wake-up.
WaitsAreForSleepers ==
  \A w \in wait :
    LET r == run[w.task][w.attempt] IN
    r.state = "sleeping" /\ r.wake = w.event /\ r.due = w.left

\* A task uses up no more attempts than it was given.
AttemptsBounded ==
  \A t \in Tasks : task[t].attempts <= task[t].max

Safety ==
  /\ OneLiveRun
  /\ TaskMatchesRun
  /\ NoLostWakeup
  /\ WaitsAreForSleepers
  /\ AttemptsBounded

-----------------------------------------------------------------------------
(* The engine implements the abstract task of module DurableTask.          *)

Durable == INSTANCE DurableTask WITH
  life <- [t \in Tasks |-> [state   |-> task[t].state,
                            attempt |-> task[t].attempts,
                            budget  |-> task[t].max]]

\* Every sequence of procedure calls, stale ones included, moves a task only as
\* DurableTask allows: one attempt at a time, no attempt beyond the budget, no
\* way back from completed or cancelled.
ImplementsDurableTask == Durable!Spec

-----------------------------------------------------------------------------
(* What a step may never do                                                *)

\* An event keeps its first payload for ever: a second verdict for the same
\* event name is dropped, whoever emits it (absurd.sql "first write wins").
EventsImmutable ==
  [][\A e \in Events : event[e] # None => event'[e] = event[e]]_vars

\* A run that ended stays ended, whatever a caller holding its id does: in
\* particular a worker whose lease was swept cannot complete or revive it.
EndedRunsStay ==
  [][\A t \in Tasks, a \in Attempts :
       run[t][a].state \in Terminal => run'[t][a].state = run[t][a].state]_vars

\* Checkpoints are fenced by attempt: an older attempt replaces the checkpoint
\* of a newer one only if its call had read the table before the newer one
\* wrote (the reads of set_task_checkpoint_state take no lock).
CheckpointFence ==
  [][\A t \in Tasks, s \in Steps :
       ckpt'[t][s].owner < ckpt[t][s].owner =>
         \E c \in writing : /\ c.task = t /\ c.step = s
                            /\ c.attempt = ckpt'[t][s].owner
                            /\ c.saw # None /\ c.saw < ckpt[t][s].owner]_vars

-----------------------------------------------------------------------------
(* Fairness: time passes, and every worker of the queue polls claim_task   *)
(* (workflow/mod.rs, the claim loop).  claim_task takes due runs in the    *)
(* order they fell due, so one that stays due is taken: strong fairness.   *)

Fairness ==
  /\ WF_vars(Tick)
  /\ WF_vars(ClaimNothing)
  /\ \A t \in Tasks, a \in Attempts : SF_vars(ClaimTask(t, a))

FairSpec == Spec /\ Fairness

\* A suspended or delayed run does not sleep for ever: its event, its timeout
\* or its delay brings it back to a claim.
SleepersWake ==
  \A t \in Tasks, a \in Attempts :
    run[t][a].state = "sleeping" ~> run[t][a].state # "sleeping"

\* A run whose worker died is taken off it: an expired lease does not last.
ExpiredLeasesRecovered ==
  \A t \in Tasks, a \in Attempts :
    (run[t][a].state = "running" /\ run[t][a].lease = 0)
      ~> ~(run[t][a].state = "running" /\ run[t][a].lease = 0)
=============================================================================
