# Verification of MetaMach (janus)

This directory holds TLA+ models of the durable workflow engine of MetaMach,
TLC configurations that check them on small instances, and proofs that TLAPS
checks for every instance. Paths below are relative to the repository root;
`wf` stands for `janus/src/workflow/mod.rs`, `daemon` for
`janus/src/bin/janus_daemon.rs`, `sql` for `janus/sql/absurd.sql`.

## 1. The system

The janus daemon runs workflows: a blueprint names a workflow, a list of steps,
and each step is a shell command run in a tmux session. Progress is kept in
PostgreSQL by the *absurd* stored procedures (tasks, runs, leases, checkpoints,
events), so that a task survives the daemon. Commands pass through `janush`,
which asks the daemon's Tool Guard; a command that needs approval suspends its
step until a human answers a card.

| Component | State | Operations | Hard behaviour | What makes it correct |
|---|---|---|---|---|
| absurd queue (`sql`) | tables t_ (tasks), r_ (runs), c_ (checkpoints), e_ (events), w_ (waits) of a queue | spawn, claim, complete, fail, schedule, extend, checkpoint, await, emit, cancel, retry | calls of any worker at any time, also of one whose lease is gone; lease expiry swept inside claim; unlocked reads in the checkpoint call | one executable run per task, task and newest run agree, no lost wake-up, attempts bounded, events and ended runs immutable, newer owners' checkpoints not overwritten |
| durable engine adapter (`janus/src/absurd/adapter.rs`) | none | one call or SELECT per operation | what it believes the procedures do | as above |
| workflow engine (`wf`) | a worker (call of `run_workflow`) per task: run, step, correction attempt | claim loop, resume point, launch and poll a session, checkpoint, corrections, await a verdict | every database call is a point where a crash, Stop, Continue, verdict or lease expiry comes between; tmux sessions outlive the daemon | steps finish once and in order; a resumed step does not run beside its old session; a guarded step is not completed unapproved; tasks end |
| progress overlay (`janus/src/absurd/mod.rs`) | `metamach_step_meta`: status, hitl_verdict per step | upsert, running, finalize, suspend, record verdict | second copy of what absurd knows, written separately | agrees with the checkpoints where recovery relies on it |
| cold start (`janus/src/coldstart.rs`) | none | select tasks by overlay, expire their leases, start workers | runs at startup and on Continue, then while workers may be live | every interrupted task is resumed, none twice at once |
| Tool Guard, janush (`janus/src/tool_guard`, `janus/src/bin/janush.rs`) | the rules of agents.toml and the file time they were loaded at | reload, evaluate, answer; execute, rewrite or refuse | edits while a command is judged, a daemon that ends in between, suspension written after the answer | what runs was permitted by rules in force; a dangerous command gets a card |
| HITL gateway (`janus/src/gateway/mod.rs`) | pending cards in memory, one awaiter each | dispatch, callback by HTTP, answer from the TUI, timeout | callbacks late, duplicate, or between the timeout and its clean-up | one answer per card; who is told 200 was heard; a card is answerable until it expires |
| daemon (`daemon`), sockets and clients (`janus/src/spawn.rs`, `janus/src/uds.rs`) | PID file, socket file, connections, detached tasks | start, serve, stop; clients that start it when nobody answers | starts at the same time, files of a dead daemon, reused PIDs; all handlers concurrent, much of their work detached | one daemon at a time, reachable; a started one is found |
| DAG (`janus/src/workflow/dag.rs`, `daemon` 914-1080) | the nodes' plan and the progress of one dispatch, in memory | validate, plan levels, dispatch level by level, judge each node | success judged by polling the overlay while other workers go on | the plan is the layering of the graph; a node starts only after what it needs succeeded |
| store: pools and fallback buffer (`janus/src/absurd/mod.rs`, `fallback.rs`) | pools, the blueprint's database, an SQLite ring of at most 1000 events | write or buffer, connect, drain and replay, create the database | outage, failure in the middle of a replay, replay older than the overlay, two that create one database | no accepted write is lost but where the code says so |
| blueprint lifecycle (`janus/src/lifecycle.rs`) | catalogue row, blueprint database, production_report.md | onboard, offboard | steps that fail one after the other, retries of a client that timed out, beside writers and replay | what is deleted was reported and is audited; an onboarded blueprint has its schema |
| tmux backend (`janus/src/tmux`) | sessions | create, kill, list, poll | independent of the daemon | names identify sessions |
| harvest, credentials, agents, output filter | little or none | parsing, I/O, process launching | - | - |

How they interact: `Dispatch` spawns a task in the queue and starts a worker;
the worker claims runs, writes the overlay and the checkpoints, and polls its
session; `janush` inside the session asks the daemon, which answers and *then*,
in a task of its own, suspends the step and sends the card; the answer goes to
the verdict sink, which writes the overlay and emits the event on which the
worker's run sleeps; Stop writes the overlay; Continue and startup read the
overlay and start workers. A DAG dispatch starts one task per node and reads the
overlay to judge it. Every one of these writes goes through the store, which
buffers it while the blueprint cannot be reached; onboarding makes the
blueprint's database and offboarding empties its overlay, whatever else runs.

`PROJECT.json` lists every component with its status, the hazards with their
lines, and the source lines of each definition.

## 2. The modules

| Module | Models |
|---|---|
| `AbsurdQueue` | the stored procedures over one queue |
| `DurableTask` | abstract: what a durable task promises (one attempt at a time, terminal states, a fixed order of its states) |
| `WorkflowEngine` | the engine, sessions, guard, gateway, sink, Stop, Continue, crash, cold start; `Q == INSTANCE AbsurdQueue` |
| `Workflow` | abstract: steps finish in order, stay finished, and the task completes only with all of them |
| `HitlGateway` | the pending map, the awaiters and the callbacks |
| `DagDispatch` | validation, plan and dispatch of a workflow of nodes |
| `ToolGuard` | the rules and their reload, GuardCheck, and janush |
| `DaemonStart` | the PID lock, the socket, and the clients that start daemons |
| `BlueprintStore` | pools, degraded mode, the ring and its replay, the making of a blueprint's database |
| `BlueprintLifecycle` | onboarding and offboarding; EXTENDS `BlueprintStore` and runs beside its writers and its replay |
| `MC...` | the instances TLC checks, one per module |
| `AbsurdQueueProofs` | the inductive invariant of `AbsurdQueue` and the theorems about its states |
| `AbsurdQueueSteps` | theorems about its steps, and that it implements `DurableTask` |
| `WorkflowEngineProofs` | the inductive invariants of `WorkflowEngine`, on top of those of the queue, and that it implements `Workflow` |
| `DaemonStartProofs`, `DagDispatchProofs`, `HitlGatewayProofs`, `ToolGuardProofs`, `BlueprintProofs` | the inductive invariants of these modules (`BlueprintProofs`: of the store and the lifecycle together) and the theorems that follow |

### AbsurdQueue

One action per procedure, which is one transaction: PostgreSQL's row locks
(`FOR UPDATE`, `FOR SHARE`), taken before it decides, make it atomic. The exception is
`set_task_checkpoint_state`, which reads the run, then the stored owner, and
writes, each in a statement of its own that takes no lock and has its own snapshot:
it is three actions, `CheckpointCall`, `CheckpointRead` and `CheckpointWrite`, with
the call in flight in `writing`. A procedure that raises changes nothing, so its guard is
simply not enabled; the engine tests those guards (`CanComplete`, `CanFail`, ...)
to take its error paths.

Time is relative: `lease` and `wake` are the ticks left, and `Tick` counts them
all down to 0 (expired, due). An action that needs an expired lease tests for 0.
Runs are numbered by their attempt; `AttemptCap` bounds what `retry_task` may
add. `latest[t]` is the checkpoint with the newest `updated_at`, which
`get_last_checkpoint` of the adapter selects. `claim_task` is one action that
fails every expired run (minting retries), then leases one due run; the model
lets it take any due run, a superset of the code's order. `ExpireLease` is the
UPDATE of the cold start, which reaches into the run table directly.

Callers are unconstrained: any run or task procedure may be called at any time
with any attempt, which includes late calls of workers that lost their lease.

### WorkflowEngine

A worker is a record with a program counter that names the database call it
makes next; an action is that call together with the local code up to the next
await. The table gives the counters in the order of the code.

| pc | Action | Code |
|---|---|---|
| loop | `KillStaleSessions` | `wf` 782-807 |
| claim, check | `Claim`, `ClaimNone`, `CheckTerminal` | `wf` 191-206 |
| resume | `ResumePoint` | `wf` 209-226, 829-864 |
| start, launch | `StartStep`, `LaunchStep` | `wf` 483-522, 727-745 |
| poll | `SawExit`, `RenewLease`, `PollFailed` | `wf` 524-537, 990-1015 |
| lost | `StopOrLoss` | `wf` 537-561 |
| status | `ReadSuspended`, `ReadSuccess`, `ReadFailure` | `wf` 563-722 |
| park, giveup, stale | `Park`, `GiveUp`, `StaleHead` | the `finalize_step` calls of those branches |
| ckpt, final | `Checkpoint`, `FinishStep` | `wf` 656-682, 747-770 |
| complete, fail | `CompleteTask`, `FailTask` | `wf` 213-226, 268-318, 951-982 |
| await | `AwaitVerdict` | `wf` 879-984 |

`rerun` says that the worker is inside `hitl_await_and_rerun`; `then` says
whether it returns or loops after `fail_run`. A session is the state of its
command: waiting for the guard, at work, or dead with an exit. It survives a crash
of the daemon, and disappears with the host. `suspending` holds the detached
tasks of GuardCheck, `card` the pending cards, `sink` the detached tasks of the
verdict sink; a crash loses all three. `resuming` are the tasks a reconcile has
selected and not yet started.

Abstractions, all of them recorded here:

- A checkpoint is its status or verdict; a card is the step it asks about (several
  identical cards of a step are one).
- Database calls fail only where the procedure raises. A call in flight when the
  daemon dies commits or is lost before the daemon is back.
- Whether HEAD moved and whether files outside the writes list changed are
  free choices of `ReadSuccess`; whether `create_session` fails, of `LaunchStep`.
- Which commands need approval is fixed per step (`Guarded`); blacklist hits,
  which can never be approved, and the cognitive check are not in the model.
- The lease may run out at any time, although a healthy worker renews it every
  10 of its 30 seconds: the model allows more.
- No code writes a checkpoint that is neither COMPLETED nor a verdict, so the
  `AwaitHITL` branch of `run_workflow` (228-249) is unreachable and left out.
- Of a sandbox only the separate tmux server is modelled (`Sandboxed`).
- A second Stop of a task whose step is not in progress changes nothing and is
  left out.

### HitlGateway

The map lies behind a mutex; every action holds it at most once, and what the code
does between two acquisitions, or outside the lock, is an action of its own. So
`Resolve` (the lookup, the check of `expires_at`, taking the sender out of the entry)
and `Deliver` (the send) are two steps, and so are `TuiFind` and `TuiResolve`, which
look a card up by task and then resolve it by id. `entry` is what the map holds,
`channel` the one-shot channel, `awaiter` the thread that `dispatch` spawns: it
sends the card over all channels, waits, reports to the sink or removes the entry.
A receiver that is about to be dropped (`elapsed`) still takes a verdict.

`left` counts down to `expires_at`, set at dispatch; `timer` is the awaiter's own
timeout, which starts only when the cards are sent. Both come from
`JANUS_HITL_TIMEOUT_SECS` (1800 s by default); their order is what
`TimelyCardsAnswerable` rests on. The signature is a guard with two outcomes,
checked before anything is looked up. A crash is not modelled here: it loses
everything (`WorkflowEngine` and `ToolGuard` model that).

### DagDispatch

`Init` takes any file that parses: any nodes, any needs, known or not. `Validate`,
`PlanLevel` (one turn of Kahn's loop) and `EndPlan` are `dag.rs`; `Dispatch` and
`AwaitNode` are the loops of `handle_dispatch_dag`; `Judge` is one look of
`is_task_successful` at the overlay, repeated up to `Polls` times (5 in the code).
Of a task the module keeps what the driver can see: the rows of its steps and how
its worker returned. `run_workflow` also returns Ok for a step that failed for good,
was rejected or was stopped, which is why the driver looks at the rows at all. A
second worker (`TakeOver`: Continue and cold start) goes on behind its back. The
driver is in memory only, so a crash ends it; what it started goes on without it,
and so it does after an abort.

### ToolGuard

A profile is the set of commands its patterns hit; globbing is data. `Boot` and
`BootStat` are `load_merged`, which reads the texts first and the file's time
afterwards; `Evaluate` compares the time and decides, or takes the lock and leaves
the loading to `load_fresh`, which looks the time up once more (`LoadStat`) and then
reads the primary file alone (`Load`), so that an edit may come before, between and
after. `Decide`
is the order of `evaluate`. `Conclude` is the rest of GuardCheck: the cognitive
provider, the query for an approval, the answer; `SendCard` is the task it spawns.
`shell` is the janush of a call, which fails closed. `seen` records which rules
were in force between a call and its verdict, and `InForce` says what that means:
the merge of both files from a start on, the primary file alone from its first
change on.

### DaemonStart

Each system call on the PID file and on the socket path is a step: read, truncate,
write; unlink, bind; and the two unlinks of `cleanup`, which do not look whose files
they remove. A dead PID may be given to another process (`Reuse`). Clients are those of
`janus`, `herdr-janus` (which also polls), Studio and janush (which never start a
daemon); a client that started a daemon probes until it listens or gives up.

### BlueprintStore and BlueprintLifecycle

A write is a number, and a row of the overlay holds the number of the write that
set its status and of the one that set its verdict, so that "lost" and "overwritten"
can be told. `StartStep`, `SetStatus` and `RecordVerdict` have the three ways of the
code: the query succeeds (`Direct`, or `NoRow` for an UPDATE of nothing), the query
fails on a pool that was there (`Refused`: an error, and nothing is buffered), or
there is no pool to be had (`Buffer`). `EnsureDatabase`, `InitSchema` and `Migrate`
make a database, for an onboard and for the replay alike; both may be at it.
`Connect` is an attempt of `spawn_connect`, `Drain`, `ReplayEnsure` and
`ReplayUpsert` the replay, which empties the ring first and applies it afterwards.
The rows are in the order of `updated_at`, the newest first: `Put` moves a written row
to the front.

`BlueprintLifecycle` adds the requests. Each is a task of its own, and nothing in the
code keeps two of them, or a request and a running task, apart. `Scan` to `Commit` are
the statements of an offboard, with the report a set of rows; of the overlay it reads
the `RecentSteps` newest (50 in the code), and counts, deletes and audits in three
statements on two databases; `uncounted` is what a request has deleted and not told
the audit log. Requests are numbered in the order they come, since
nothing else tells them apart.

## 3. The runs

Passing runs; the bounds are in the `.cfg` files. Every property has a mutant in
`PROJECT.json`, a plausible bug in one mapped definition that the run detects.

| Run | Instance | Shows |
|---|---|---|
| `queue_two_tasks` | 2 tasks, 2 attempts and a third by `retry_task`, 2 steps, 1 event, delayed retries; without `set_task_checkpoint_state`, on which nothing checked here depends | one executable run per task (`OneLiveRun`), task and newest run agree (`TaskMatchesRun`), a run sleeping on an emitted event is due (`NoLostWakeup`), wait rows belong to sleepers (`WaitsAreForSleepers`), the queue implements `DurableTask` |
| `queue_one_task` | 1 task, 2 + 1 attempts, 2 payloads, delayed retries, fair polling | types; attempts stay in the budget (`AttemptsBounded`); the first emit of an event is final (`EventsImmutable`); an ended run is not touched again (`EndedRunsStay`); a checkpoint changes owner only forwards, except in the window of an unlocked read (`CheckpointFence`); sleepers wake, expired leases are swept |
| `engine_crash` | 1 task, 2 steps (one guarded), 1 worker, 2 attempts, 2 corrections, 1 crash | types; never two sessions at work (`NoDoubleExecution`); a checkpointed step gets no new session (`FinishedStepsNotRedone`); the engine implements `Workflow` |
| `engine_guard` | 2 guarded steps, answers APPROVED and OVERRIDDEN | a guarded step completes only after a verdict on a card of its own (`GuardedStepsApproved`) |
| `engine_continue` | 2 workers, one Stop, one Continue, a writes list | a sleeping task has a worker that will claim it (`SleepersHaveWorkers`); with two workers on one task the engine still implements `Workflow` |
| `engine_live` | 3 steps (one manual, one sandboxed), 3 attempts, fair worker | a dispatched task completes or fails (`TasksSettle`) |
| `hitl_gateway` | 1 card, 3 callbacks by HTTP or TUI, a timeout of 2 ticks | at most one answer, and who is told 200 was heard (`AcceptedAnswersHeard`); a card is answerable until it expires (`TimelyCardsAnswerable`); callbacks and awaiters end (`CardsSettle`) |
| `dag_dispatch` | every file of up to 3 nodes (one inline), 2 steps each, 2 polls, 1 crash | the plan is the layering of the graph, and exactly the graphs without one are refused (`PlanIsLayering`); no node starts early (`NeedsCompleted`); the driver ends (`DriverSettles`) |
| `tool_guard` | 2 calls of one step, a project file that may be absent, broken or there, 2 edits, 1 crash | what ran was permitted by rules in force (`RunsArePermitted`); a dangerous command ends in a card (`DangerousBlocksGetCards`) |
| `daemon_start` | 3 daemons over the files of a dead one, 2 clients, 2 kills or stops, 1 reused PID | one daemon at a time, its files its own (`LockHolds`); a client that starts one finds one (`StartsRecover`) |
| `blueprints` | 2 steps (symmetric), 3 writes, a ring of 2 events, 2 requests, 1 recent row, 1 attempt to connect, 1 outage or crash besides one at the start | an accepted write is in the row, the ring or the replay (`TransitionsKept`); what is deleted was reported (`PurgedRowsReported`) and audited (`PurgesAudited`); an onboarded blueprint has its schema (`OnboardedIsUsable`) |

Why the bounds are enough. Two attempts are the least that have a stale caller
and its replacement, three the least with an operator's retry after the budget.
Two tasks are the least that share an event or compete for claims; the tables of
different tasks are otherwise independent. Leases and delays of one or two ticks
already separate "running", "expired" and "swept", and a tick may fall between any
two calls. Two steps are the least for an order and for a verdict that reaches
the wrong step; two corrections the least with a session of another name. One
crash is the bound that keeps the instance small; after it the state is again
one from which a worker starts, with what the first one left behind.

For the other modules: three callbacks are the least where one is accepted, one
loses the race and one is late; two ticks separate a card that expires from a timer
that starts late. Three nodes are the least with two levels of two kinds (a chain, a
fork, a join) and with a cycle beside a sound node; two polls the least that fail
once and succeed. Two calls and two edits give a verdict on each side of a reload,
and an edit inside one. Three daemons are two that race and one that comes
after them. In `blueprints` each of the nine things the properties except was seen to
be needed: without it TLC finds the property violated, so the instance reaches the
eviction, the replay over a newer row, the failing replay, the crash, the purge, the
second offboard, the lost audit, the miscounted one and the unfinished database.

Several invariants except such a case by a history variable (`tooLate`, `second`,
`blurred`, `raced`, `excused`, `mishaps`, `halfMade`). Each is a window the code
really leaves, said at the property; the property says that there is no other.

Instances without a crash, a Stop or a Continue say nothing about them, and four of the
engine's properties hold under conditions only, which the runs meet and the theorems
name. `NoDoubleExecution`, `FinishedStepsNotRedone` and, where verdicts are given,
`ImplementsWorkflow` need that nobody asks for Continue, which gives a task a second
worker; the first also that no step is sandboxed where the daemon may crash.
`SleepersHaveWorkers` needs that the daemon does not crash and that the queue has one
task. Outside each of them fails, as told below.

### Disagreements with the code's own statements

One run checks a property that quotes the repository, and TLC finds it violated by
what the code does.

| Run | The statement | What happens |
|---|---|---|
| `engine_second_card` | `wf` 933 "the GuardCheck handler ALLOWs it now" | the event of the first step's verdict resolves the second step's await; the rerun is blocked, unasked |

Others were met while modelling, and are not given a run.

Engine:

- `wf` 199 "the claimed task is the one we're running": tasks of one workflow share a
  queue, and the worker dies holding another task's claim.
- `wf` 908 "Returns `Some(task_id)` when the task is terminal": `fail_run` may have
  minted a retry that nobody claims.
- `wf` 563 "the authoritative signal is the overlay status": the status may be read
  before the detached suspension wrote it, and a blocked command counts as a failure.
- `docs/SPEC.md` 32 "Recovery and rescheduling of interrupted tasks": after a crash
  between steps no overlay row selects the task.
- `wf` 184 "prevents double-execution of the resumed step": sessions on a sandbox's own
  tmux server are not found; and Continue (`daemon` 1139) while a task has a worker
  makes a second one, whose session may run beside a correction session of the first.
- A rerun that is suspended again loops with its run still leased (`wf` 970 "re-await
  on the next loop iteration"), always so after OVERRIDDEN, which GuardCheck does not
  accept (`daemon` 276).
- After the HITL timeout the step is run again, not awaited again (`wf` 209).
- `janus/src/coldstart.rs` 8 "resume from the last `COMPLETED` checkpoint": after Stop and
  Continue the first worker may still be inside its call of `set_checkpoint` (attempt 1)
  when the second one sleeps on a verdict for that step (attempt 2). The call writes
  COMPLETED, and `emit_event` then puts the verdict in its place, so the step is done
  again.
- A worker of a queue with several tasks may claim another one's run and end, and after
  a crash nobody claims a task that sleeps, so a verdict may wake a task without a worker.
- Stop compares session names with the hyphenated task id, which none contains
  (`daemon` 1101 against `docs/SPEC.md` 26).
- The adapter documents `fail_run` as "fail without auto-retry"
  (`janus/src/absurd/adapter.rs` 93), but the procedure retries.

Gateway: an answered card stays in the map, so that the TUI may find it in place of the
task's pending one (`janus/src/gateway/mod.rs` 301). An answer that passed the check in
time but arrives between the awaiter's last poll and the drop of its receiver is told
200 and not heard; so is the answer to a card that is still being sent when a later
callback finds it expired and removes it.

DAG: `is_task_successful` does not know how many steps a task has, so with a second
worker between two steps a task passes as complete. Inline workflows (`__inline_<id>`)
are in no file, so cold start cannot resume them; the others are read only when their
level is dispatched.

Tool Guard: an edit between the reading of the texts and of the time, or the second of
two within the file system's resolution, is never loaded; nor is the removal of a file
that was made between the second look at its time and the reading, since no time is
remembered with its text (`janus/src/tool_guard/mod.rs` 128-143). After the first reload only
the primary file counts, so the global roles are gone, its `default` blacklist
included. A file that is removed or does not parse means no rules. The cognitive
provider's reason replaces any verdict, so a dangerous command is then blocked without
a card. An approval lifts the block for every command of the step that needs one, and
a lifted command is not checked for permissions or money any more.

Start: the lock is a read and then a write, so two daemons may both pass; one of them is
unreachable and the clean-up of either removes the other's files. A PID that another
process has blocks every start. A daemon that is leaving still makes others refuse.

Store: `janus/src/absurd/mod.rs` 470 says that a write in an outage is buffered "so the
transition is not lost"; with a cached pool it is an error and nothing is buffered. The
ring is replayed once per daemon, after connecting, which is tried 5 times, 2 s apart;
what is recorded later waits for the next daemon. Events may be replayed over rows
written before the catalogue was connected. An event of `record_hitl_resolution` is replayed as a
status, and the verdict is never set. A failure or a crash in the replay loses the
rest. It may insert rows of an offboarded blueprint, or make the database of one that
was never registered. `absurd.sql` cannot be loaded twice, so the loser of a race
fails. A pool of an unfinished database makes `ensure_blueprint_db` report success.

Lifecycle: a client gives up after 3 s, an offboard may smelt for 120 s, so retries run
beside the first; one that scans after the purge replaces the report by an empty one,
which is a loss if the first was not committed. Rows beyond the 50 newest, and rows
written after the scan, are deleted unreported. The audit entry is written after the
deletion, not before (`janus/src/absurd/mod.rs` 746). An offboard that ends after a later onboard
marks it OFFBOARDED. Nothing stops an offboard of a blueprint with running tasks.

### Fairness

`AbsurdQueue!FairSpec`: time passes (weak fairness of `Tick`) and somebody polls
`claim_task`. Claims need strong fairness: a due run is not always the one a claim
takes, but the procedure takes runs in the order they fell due, so one that stays
due is taken in the end. The polling is the claim loop of a worker, once a second.

`WorkflowEngine!FairSpec`: each database call of a worker returns (weak fairness of
each of its actions), a claim succeeds if it can be made again and again (strong,
for the reason above), and commands end. The last is an assumption about the user's
commands: `poll_exit_with_lease` has no limit, and a command that never ends keeps
its task for ever. Nothing is assumed of humans, dispatch, crash or Stop. Liveness
is checked without guarded steps, crash, Stop and Continue: with a rejection or a
crash between steps a task may have no worker (above).

The other modules assume that what the runtime or the system has begun goes on (weak
fairness), and nothing of humans, clients or editors: in `HitlGateway` the clock,
the awaiters and the callbacks that were accepted; in `DagDispatch` the driver and
the tasks, and that the worker of a node returns in the end (strong fairness, since a
task may be retried meanwhile), which `TasksSettle` is about; in `ToolGuard` the
handling of a call and the spawned task; in `DaemonStart` the start and the clean-up
of a process. `BlueprintLifecycle` has no liveness property: the ring may wait for ever.

## 4. The proofs

Eight modules hold theorems: two about the queue, one about the engine on it, and one each
about the start of the daemon, the dispatch of a DAG, the gateway, the guard and the
blueprints. Every invariant that a run checks is proved in one of them. So is every action
property and both refinements. The bounds of the instances are parameters there: a theorem
holds for any number of tasks, workers, steps, calls, crashes and so on.

### The queue

`AbsurdQueueProofs` and `AbsurdQueueSteps` prove, for any sets of tasks, steps, events and payloads and
any budget, lease and timeout (assumption `QueueAssumption`: the numbers are
natural, budgets and leases positive, `None` is no event or payload):

| Theorem | |
|---|---|
| `TypeCorrect` | `Spec => []TypeOK` |
| `OneLiveRunAlways` | at most one executable run per task, the newest attempt |
| `TaskMatchesRunAlways` | the state of a task is that of its newest run |
| `NoLostWakeupAlways` | a run sleeping on an emitted event is due |
| `WaitsAreForSleepersAlways` | wait rows are those of runs that sleep on their event |
| `AttemptsBoundedAlways` | attempts never exceed the budget |
| `EventsNeverChange` | an event keeps its first payload |
| `EndedRunsStayEnded` | no call changes the state of a run that ended |
| `CheckpointFenceHolds` | an older attempt replaces a newer one's checkpoint only if its call read the table before |
| `QueueImplementsDurableTask` | `Spec => ImplementsDurableTask` |

None of these is inductive alone. `OneLiveRun` needs that older attempts have
ended (`Newest`) and that attempts above the task's counter do not exist
(`Numbering`), `NoLostWakeup` needs that a run sleeping on an event that was not
emitted has its wait row (`Sleepers`), since `emit_event` wakes only the runs it
finds there, and that wait rows are right (`WaitRows`), since it wakes all of
those. The conjunction `IInv` is inductive. The preservation proof follows the
procedures: a lemma for each says which rows it rewrites, and one for each part of
`IInv` that the rewriting keeps it; failing a run, which `fail_run` and the sweep of
`claim_task` share, is one lemma over any tables, composed with the lease.

The step theorems of `AbsurdQueueSteps` use `IInv` of the state before the step.
`EndedRunsStay` holds because a procedure either checks that its run is live or
writes an attempt that `Numbering` says does not exist yet. The refinement shows
call by call which move of `DurableTask` the task's row makes (`Moves`); the case
that is not a single move of a single procedure is `claim_task`, which may fail a
task's attempt and lease its next one at once. From the moves it follows that
attempt numbers only grow, which with `Fenced` (an owner is an attempt the task has
reached, a call in flight read an owner no newer than itself) gives
`CheckpointFence`.

### The start, the DAG and the gateway

| Module | Theorem | |
|---|---|---|
| `DaemonStartProofs` | `TypeCorrect` | `Spec => []TypeOK` |
| | `LockHoldsAlways` | at most one daemon past the lock, the files its own, unless two checked before either wrote |
| `DagDispatchProofs` | `TypeCorrect` | `Spec => []TypeOK` |
| | `PlanIsLayeringAlways` | a plan is the layering of its graph; exactly the graphs without one are refused |
| | `NeedsCompletedAlways` | a node starts after what it needs completed; success is reported of complete nodes only |
| `HitlGatewayProofs` | `TypeCorrect` | `Spec => []TypeOK` |
| | `AcceptedAnswersHeardAlways` | at most one accepted answer per card, and the sink gets that one |
| | `TimelyCardsAnswerableAlways` | a card stays answerable until it expires |

`DaemonStart`, for any number of daemons, clients and kills (`KillsAssumption`: a
natural number). As long as no two daemons checked the lock together, one that was not
refused found nobody past the write, and nobody comes past it before it has written.
From this `IInv` gets that at most one daemon is past the check (`Alone`), and that the
PID file (`OwnPid`) and the socket (`OwnSocket`) of a serving one are its own; the
exceptions are carried through the steps by the history variable that the property names.

`DagDispatch`, for any finite set of nodes and any numbers of steps and polls
(`NodesAssumption`: both positive). `PlanInv` says that an in-degree counts the needs that are
not yet in a level, that the next level holds the nodes with none left, and that Kahn's loop
never touches a set of nodes each of which needs one of the set; at the end of the loop the
nodes left over are such a set, or there are none. `DriverInv` says that a worker which
returned Ok left a complete task or a row that shows it is not (`ReturnedRows`; rows of
completed steps are not rewritten), and that the nodes of earlier levels are complete or
had a second worker (`LevelsDone`); by the layering, what a node needs lies in those.

`HitlGateway`, for any number of cards, tasks and callbacks and any timeout
(`TimeoutAssumption`: positive; `NullAssumption`: the null values are none of the
others). `OneOwner`: the callbacks of a card that hold its sender or were told 200 are at most one,
and then the entry is not pending. `ChannelRight`: the channel holds the verdict of the
accepted one, or was dropped with the entry and never had one. `SinkRight`: the sink has what
the channel has, and an awaiter that did not report was answered too late or not at all.
`Timing`: the awaiter's timer ends no earlier than `expires_at`, so an awaiter that
gives up and a callback that fails to deliver remove no entry before; this is what makes
the removal at the end of `resolve_callback` harmless to a card that can still be answered.

### The engine

`WorkflowEngineProofs`, for any sets of tasks and workers and any numbers of steps,
attempts, corrections, crashes, Stops and Continues (`EngineAssumption`):

| Theorem | Condition | |
|---|---|---|
| `TypeCorrect` | | `Spec => []TypeOK` |
| `GuardedStepsApprovedAlways` | | a step that needs approval completes only after a verdict on a card of its own |
| `NoDoubleExecutionAlways` | no Continue; no crash, or no sandbox | a task has at most one session at work |
| `FinishedStepsNotRedoneAlways` | no Continue | a step with its COMPLETED checkpoint gets no session again |
| `EngineImplementsWorkflow` | no Continue | `Spec => ImplementsWorkflow` |
| `SleepersHaveWorkersAlways` | no crash, one task | a sleeping task has a worker that will claim it |

The queue inside the engine is the one of `AbsurdQueueProofs`: every step of the engine is
a call of its procedures, leaves the tables alone, or loses the calls under way in a
crash (`QueueMoves`), so the queue's invariant is kept and its lemmas are used as they are.

`TInv` adds to the types what a worker's counter says of its other fields (`Locals`).
`GuardedStepsApproved` needs what must not have happened to a guarded step before
a verdict on it (`Unapproved`): its command did not run, so no session of it ended well,
no worker saw that, and no call of `set_checkpoint` for it is under way.

Without Continue a task has at most one worker (`UInv`): one is started by a dispatch, for a
task that did not exist, or by the cold start, when the crash has left none. Then, for
`NoDoubleExecution`, a session that is at work is polled by that worker (`Polled`), or
it is the one that a crash left and the task's next worker has not searched yet
(`Leftover`). For the other two, `PInv` says of each task that there is a number `k` such that
exactly the steps up to `k` are finished, that the newest checkpoint is of step `k` or
`k + 1`, that wait rows and calls under way are for step `k + 1`, and that the worker stands
there too (`Table`, `Calls`, `Place`). The wait rows are what makes this hard: `emit_event`
writes the verdict over whatever checkpoint the waiting step has.

The refinement sorts the steps of the engine into four kinds, seen from `Workflow`
(`Pauses`, `Spawns`, `Ends`, `Advances`), and shows of each action which kind it is.

`SleepersHaveWorkers` has an invariant of its own (`SleepInv`): the sleeping task is
attended by a worker in its claim loop. `await_event` is called by a worker that goes there
next.

### The guard

`ToolGuardProofs`, for any calls, roles, commands, files and rules and any number of
edits and crashes (assumptions: the rules are of roles, a call has a role and a command,
`Bad` is not `Absent`):

| Theorem | |
|---|---|
| `TypeCorrect` | `Spec => []TypeOK` |
| `RunsArePermittedAlways` | what executes was permitted by rules in force during its call |

`RulesKnown` is the heart of `GInv`: as long as no change left no newer time behind, the
daemon's rules are those of the file whose time it remembers, so that equal times mean
rules in force; in the middle of a load the time it has looked up is not newer than the file,
and none only of a file that is not there. The last part is what the case above
breaks, which takes three edits, one more than the run has. `Answers` carries it to the
verdict: it is what `evaluate` decides by rules that the call has seen, a cognitive
denial, or the lifting of an approval that a human gave (`ApprovalsAreGiven`).

### The blueprints

`BlueprintProofs`, for any steps, ring (`MaxEntries` at least 1), attempts, writes and
faults, and any requests (`StoreAssumption`, `LifecycleAssumption`):

| Theorem | |
|---|---|
| `TypeCorrect` | `Spec => []TypeOK` |
| `TransitionsKeptAlways` | the last accepted write of a step that is not excused is in its row, the ring or the replay |
| `OnboardedIsUsableAlways` | an onboard that answered Ok leaves the whole schema |
| `PurgedRowsReportedAlways` | what an offboard read and deleted is in the report or in git |
| `PurgesAuditedAlways` | the audit log accounts for every deleted row |

`KInv` says where the last write of a step is: if the ring has events of the step, its
newest there (`LastOf`); if only the replay has, its newest there; else in the row. So an
event that the replay writes over a row is the last write or is followed by it. It
needs `Connected`: when the replay drains the ring it has nothing left of an earlier
drain. What a step does to the ring and the drained events is one notion, `Follows`
(the events of a step, without the oldest), and what it does to the table another, `Put`,
whose lemmas say that a step never has two rows.

`OInv`: a pool is one of a complete database, unless somebody kept one of an unfinished
database (`halfMade`), so `ensure_blueprint_db` is right to do nothing if there is one.
`PInv`: what a request is about to delete of what it read has been told as well, not only
what is gone; a second offboard between its steps would otherwise undo the report unseen.
`PurgesAudited` is inductive as it stands.

### What is left to TLC

The liveness properties (`SleepersWake`, `ExpiredLeasesRecovered`, `TasksSettle`,
`CardsSettle`, `DriverSettles`, `DangerousBlocksGetCards`, `StartsRecover`): fairness and
ENABLED are out of the prover's reach. Only model-checked too is that two workers on one task
implement `Workflow` as long as no verdict is given (`engine_continue`). No definition is
recursive over data, so nothing else is left for that reason.

## 5. Not modelled

- Queue: `get_task_checkpoint_state(s)` (they only read, and nothing calls them),
  `retry_task` spawning a new task, the cleanup, partition and cron procedures (they
  delete ended tasks; nothing here schedules them), idempotency keys and cancellation
  policies (the adapter passes none).
- Engine: database calls that fail for no reason of the procedures, sandbox worktrees,
  logs. An outage is modelled in `BlueprintStore`, where the code has an answer to
  it; the engine's only answer is to return the error.
- Store: `progress` and `active_blueprints`, which only read; `gc_old_caches`, which
  clears captured output nothing depends on; an upgrade from an older schema version.
- Lifecycle: the self-checks (they only warn), the LLM (its answer stands for the
  rows it was given), a smelt that panics, a report file that is half written.
- Guard: the matching of globs and the classification of a command line, which are
  inputs; the writes list is a free choice in `WorkflowEngine`.
- Daemon: harvest requests, saving and listing workflows, requests that only read.
- Harvest (git worktrees and refs; its result does not steer the engine), credentials
  (cold start builds an empty map), agents (command lines and tables), the output filter.

## 6. Plan

1. `EngineImplementsWorkflow` for two workers on a task where no verdict is given. `PInv` rests
   on one worker per task; there it would have to rest on the checkpoints alone, which
   nothing but a verdict ever takes back.
2. `SleepersHaveWorkers` for several tasks, as a statement of which task may be left: the
   one whose run another worker claimed.
3. A liveness run of the replay: what is buffered is applied, if Postgres stays up and
   the daemon is started again.
