--------------------------- MODULE WorkflowEngine ---------------------------
(***************************************************************************)
(* The workflow engine of janus: run_workflow and run_steps of             *)
(* janus/src/workflow/mod.rs, over one queue of AbsurdQueue, together with *)
(* what runs beside it in the daemon: the GuardCheck, Stop and Continue    *)
(* requests, the HITL gateway and its verdict sink (bin/janus_daemon.rs),  *)
(* the cold start (coldstart.rs), and the tmux sessions, which survive the *)
(* daemon.                                                                 *)
(*                                                                         *)
(* A worker is one call of run_workflow.  It is a sequence of database     *)
(* calls with awaits between them, so each call is an action, with the     *)
(* local code that follows it up to the next await.  pc names the call the *)
(* worker makes next.                                                      *)
(*                                                                         *)
(* Abstracted: a session's content is how its command ends, a checkpoint   *)
(* its status or verdict, a verdict card the step it asks about.  Database *)
(* calls do not fail, except where the stored procedure raises.            *)
(***************************************************************************)
EXTENDS Naturals, FiniteSets

CONSTANTS
  Tasks,           \* task ids, all of one workflow of one blueprint: one queue
  Workers,         \* bound: calls of run_workflow at the same time
  None,
  NumSteps,        \* the workflow has the steps 1..NumSteps
  Manual,          \* the steps without a command
  Guarded,         \* the steps whose command the Tool Guard rules require_approval
  Watched,         \* the steps with a writes list
  Sandboxed,       \* the steps with isolation = "sandbox": a tmux server of their own
  Verdicts,        \* what a human may answer to a card
  MaxAttempts,     \* max_attempts of spawn_task
  MaxCorrections,  \* max_correction_attempts of a step
  LeaseTime,       \* lease length (30 s), for claim and extend alike
  HitlTimeout,     \* hitl_timeout_secs
  Crashes, Stops, Continues   \* bounds: how often each may happen

Steps == 1..NumSteps
HumanVerdicts == {"APPROVED", "REJECTED", "OVERRIDDEN"}
CkptValues == {"COMPLETED"} \cup HumanVerdicts

ASSUME EngineAssumption ==
  /\ NumSteps \in Nat \ {0}
  /\ Manual \subseteq Steps /\ Guarded \subseteq Steps /\ Watched \subseteq Steps
  /\ Sandboxed \subseteq Steps
  /\ Verdicts \subseteq HumanVerdicts
  /\ MaxAttempts \in Nat \ {0}
  /\ MaxCorrections \in Nat \ {0}
  /\ LeaseTime \in Nat \ {0}
  /\ HitlTimeout \in Nat
  /\ Crashes \in Nat /\ Stops \in Nat /\ Continues \in Nat
  /\ None \notin Tasks \cup Steps /\ None \notin CkptValues

VARIABLES
  task, run, ckpt, latest, event, wait, writing,    \* AbsurdQueue
  status,      \* status[t, s]: the overlay row of the step ("none": no row)
  verdict,     \* verdict[t, s]: its hitl_verdict column
  pane,        \* pane[t, s, n]: the session of correction attempt n of the step
  worker,      \* worker[w]: the calls of run_workflow
  suspending,  \* suspend_step + dispatch tasks that GuardCheck left running
  card,        \* cards that wait for a human: pending entries of the gateway
  sink,        \* on_verdict tasks: [task, step, verdict, recorded]
  up,          \* the daemon is running
  resuming,    \* tasks a reconcile selected and has not yet given a worker
  left         \* the bounds not yet used up

queueVars == <<task, run, ckpt, latest, event, wait, writing>>
hitlVars  == <<suspending, card, sink>>
envVars   == <<up, resuming, left>>
vars == <<queueVars, status, verdict, pane, worker, hitlVars, envVars>>

\* The verdict event of a task is named after the task alone.
Q == INSTANCE AbsurdQueue WITH
       Events <- Tasks, Payloads <- CkptValues, CkptStates <- {"COMPLETED"},
       AttemptCap <- MaxAttempts, ClaimTimeout <- LeaseTime, ExtendBy <- LeaseTime,
       RetryDelay <- 0, AwaitTimeouts <- {HitlTimeout}, SleepDelays <- {}

Attempts    == 1..MaxAttempts
Corrections == 1..MaxCorrections

-----------------------------------------------------------------------------
(* State                                                                   *)

Statuses == {"none", "STARTING", "RUNNING", "SUSPENDED", "STOPPED", "COMPLETED",
             "FAILED"}

\* A session: absent, its command waiting for the Tool Guard, running, or dead
\* with an exit code (0, non-zero, non-zero with a quota message).
Endings    == {"ok", "bad", "quota"}
PaneStates == {"none", "asking", "working"} \cup Endings

Free == {"off", "error"}     \* run_workflow has returned Ok or Err
Pcs  == Free \cup
        {"loop", "claim", "check", "resume", "start", "launch", "poll", "lost",
         "status", "park", "giveup", "stale", "ckpt", "final", "await", "fail",
         "complete"}

\* task: its task; attempt: the run it claimed last; step, try: where run_steps is;
\* seen: the exit of the session or the status read; rerun: inside
\* hitl_await_and_rerun; then: where it goes after fail_run.
Worker == [pc : Pcs, task : Tasks \cup {None}, attempt : 0..MaxAttempts,
           step : 1..(NumSteps + 1), try : Corrections,
           seen : Endings \cup Statuses, rerun : BOOLEAN, then : {"loop", "off"}]

Begin(t) == [pc |-> "loop", task |-> t, attempt |-> 0, step |-> 1, try |-> 1,
             seen |-> "none", rerun |-> FALSE, then |-> "loop"]
Off == [Begin(None) EXCEPT !.pc = "off"]

TypeOK ==
  /\ Q!TypeOK
  /\ status \in [Tasks \X Steps -> Statuses]
  /\ verdict \in [Tasks \X Steps -> HumanVerdicts \cup {None}]
  /\ pane \in [Tasks \X Steps \X Corrections -> PaneStates]
  /\ worker \in [Workers -> Worker]
  /\ suspending \subseteq Tasks \X Steps
  /\ card \subseteq Tasks \X Steps
  /\ sink \subseteq [task : Tasks, step : Steps, verdict : HumanVerdicts,
                     recorded : BOOLEAN]
  /\ up \in BOOLEAN
  /\ resuming \subseteq Tasks
  /\ left \in [crash : 0..Crashes, stop : 0..Stops, continue : 0..Continues]

Init ==
  /\ Q!Init
  /\ status = [x \in Tasks \X Steps |-> "none"]
  /\ verdict = [x \in Tasks \X Steps |-> None]
  /\ pane = [x \in Tasks \X Steps \X Corrections |-> "none"]
  /\ worker = [w \in Workers |-> Off]
  /\ suspending = {} /\ card = {} /\ sink = {}
  /\ up = TRUE /\ resuming = {}
  /\ left = [crash |-> Crashes, stop |-> Stops, continue |-> Continues]

Become(w, v) == worker' = [worker EXCEPT ![w] = v]
Go(w, pc)    == Become(w, [worker[w] EXCEPT !.pc = pc])

SetStatus(t, s, st) == status' = [status EXCEPT ![<<t, s>>] = st]
SetPane(t, s, n, p) == pane' = [pane EXCEPT ![<<t, s, n>>] = p]

-----------------------------------------------------------------------------
(* run_workflow: the claim loop                                            *)

\* Dispatch: spawn_workflow, then run_workflow detached.
Dispatch(w, t) ==
  /\ up
  /\ worker[w].pc \in Free
  /\ Q!SpawnTask(t)
  /\ Become(w, Begin(t))
  /\ UNCHANGED <<status, verdict, pane, hitlVars, envVars>>

\* Mutant: the sessions of correction attempts are not recognised.
StaleSessionsFirstOnly(t) ==
  {x \in DOMAIN pane : x[1] = t /\ x[2] \notin Sandboxed /\ x[3] = 1}

\* The servers of the workflow's hosts are searched, not those of sandboxes.
StaleSessions(t) == {x \in DOMAIN pane : x[1] = t /\ x[2] \notin Sandboxed}

KillStaleSessions(w) ==
  /\ worker[w].pc = "loop"
  /\ pane' = [x \in DOMAIN pane |->
                IF x \in StaleSessions(worker[w].task) THEN "none" ELSE pane[x]]
  /\ Go(w, "claim")
  /\ UNCHANGED <<queueVars, status, verdict, hitlVars, envVars>>

\* The queue is shared by all tasks of the workflow: claim_task may hand over
\* another one, and then ensure! ends the worker with the claim in its hands.
Claim(w) ==
  /\ worker[w].pc = "claim"
  /\ \E u \in Tasks, a \in Attempts :
       /\ Q!ClaimTask(u, a)
       /\ IF u = worker[w].task
          THEN Become(w, [worker[w] EXCEPT !.pc = "resume", !.attempt = a])
          ELSE Go(w, "error")
  /\ UNCHANGED <<status, verdict, pane, hitlVars, envVars>>

ClaimNone(w) ==
  /\ worker[w].pc = "claim"
  /\ \/ Q!ClaimNothing
     \/ Q!ExpiredRuns = {} /\ Q!DueRuns(task, run) = {} /\ UNCHANGED queueVars
  /\ Go(w, "check")
  /\ UNCHANGED <<status, verdict, pane, hitlVars, envVars>>

\* Mutant: non_terminal_tasks forgets the sleeping ones.
NonTerminalAwake(t) == task[t].state \in {"pending", "running"}
NonTerminal(t) == task[t].state \in Q!Live

\* task_non_terminal: poll again, or return.
CheckTerminal(w) ==
  /\ worker[w].pc = "check"
  /\ Go(w, IF NonTerminal(worker[w].task) THEN "loop" ELSE "off")
  /\ UNCHANGED <<queueVars, status, verdict, pane, hitlVars, envVars>>

\* resume_point.  No code writes a checkpoint that is neither COMPLETED nor a
\* verdict, so its AwaitHITL outcome does not occur.
LastCkpt(t) == IF latest[t] = None THEN None ELSE ckpt[t][latest[t]].payload

\* Mutant: the index of a step and its position are mixed up.
ResumeStepTwoOn(t) == IF latest[t] = None THEN 1 ELSE latest[t] + 2
\* Mutant: the completed step is run again.
ResumeStepAgain(t) == IF latest[t] = None THEN 1 ELSE latest[t]
ResumeStep(t) ==
  IF latest[t] = None THEN 1
  ELSE IF LastCkpt(t) = "COMPLETED" THEN latest[t] + 1 ELSE latest[t]

ResumePoint(w) ==
  /\ worker[w].pc = "resume"
  /\ LET t == worker[w].task IN
       Become(w, [worker[w] EXCEPT
         !.pc = IF LastCkpt(t) = "REJECTED" THEN "fail" ELSE "start",
         !.step = ResumeStep(t), !.try = 1, !.rerun = FALSE,
         !.then = IF LastCkpt(t) = "REJECTED" THEN "off" ELSE "loop"])
  /\ UNCHANGED <<queueVars, status, verdict, pane, hitlVars, envVars>>

-----------------------------------------------------------------------------
(* run_steps                                                               *)

\* Mutant: the last step is not run.
AllStepsDoneEarly(v) == v.step >= NumSteps
AllStepsDone(v) == v.step > NumSteps

\* upsert_step_start; after the last step, Done.
StartStep(w) ==
  /\ worker[w].pc = "start"
  /\ IF AllStepsDone(worker[w])
     THEN Go(w, "complete") /\ UNCHANGED status
     ELSE Go(w, "launch") /\ SetStatus(worker[w].task, worker[w].step, "STARTING")
  /\ UNCHANGED <<queueVars, verdict, pane, hitlVars, envVars>>

\* set_step_running, then the session, which replaces one of the same name.
\* A step without a command goes straight to its checkpoint.
LaunchStep(w) ==
  LET v == worker[w] IN
  /\ v.pc = "launch"
  /\ SetStatus(v.task, v.step, "RUNNING")
  /\ IF v.step \in Manual
     THEN Go(w, "ckpt") /\ UNCHANGED pane
     ELSE \/ Go(w, "poll") /\ SetPane(v.task, v.step, v.try, "asking")
          \/ Go(w, "giveup") /\ SetPane(v.task, v.step, v.try, "none")
  /\ UNCHANGED <<queueVars, verdict, hitlVars, envVars>>

\* poll_exit_with_lease: the exit code, ...
SawExit(w) ==
  LET v == worker[w] IN
  /\ v.pc = "poll"
  /\ pane[v.task, v.step, v.try] \in Endings
  /\ Become(w, [v EXCEPT !.pc = "status", !.seen = pane[v.task, v.step, v.try]])
  /\ SetPane(v.task, v.step, v.try, "none")
  /\ UNCHANGED <<queueVars, status, verdict, hitlVars, envVars>>

\* ... a renewed lease, ...
RenewLease(w) ==
  /\ worker[w].pc = "poll"
  /\ Q!ExtendClaim(worker[w].task, worker[w].attempt)
  /\ UNCHANGED <<status, verdict, pane, worker, hitlVars, envVars>>

\* ... or an error: the session is gone, or the run is no longer ours.
PollFailed(w) ==
  LET v == worker[w] IN
  /\ v.pc = "poll"
  /\ pane[v.task, v.step, v.try] = "none" \/ ~Q!CanExtend(v.task, v.attempt)
  /\ Go(w, "lost")
  /\ SetPane(v.task, v.step, v.try, "none")
  /\ UNCHANGED <<queueVars, status, verdict, hitlVars, envVars>>

\* Suspended: the first time the verdict is awaited in place; inside
\* hitl_await_and_rerun it only returns to the claim loop.
AfterSuspension(v) == IF v.rerun THEN "loop" ELSE "await"

StopOrLoss(w) ==
  LET v == worker[w] IN
  /\ v.pc = "lost"
  /\ Go(w, IF status[v.task, v.step] = "STOPPED" THEN AfterSuspension(v) ELSE "giveup")
  /\ UNCHANGED <<queueVars, status, verdict, pane, hitlVars, envVars>>

\* The overlay is read again once the session has ended; then the exit decides.
Suspended(v) == status[v.task, v.step] \in {"SUSPENDED", "STOPPED"}

ReadSuspended(w) ==
  LET v == worker[w] IN
  /\ v.pc = "status" /\ Suspended(v)
  /\ Become(w, [v EXCEPT !.pc = "park", !.seen = status[v.task, v.step]])
  /\ UNCHANGED <<queueVars, status, verdict, pane, hitlVars, envVars>>

ReadSuccess(w) ==
  LET v == worker[w] IN
  /\ v.pc = "status" /\ ~Suspended(v) /\ v.seen = "ok"
  /\ \/ Go(w, "ckpt")
     \/ Go(w, "stale")                             \* HEAD moved meanwhile
     \/ /\ v.step \in Watched                      \* files outside the writes list
        /\ Become(w, [v EXCEPT !.pc = "park", !.seen = "SUSPENDED"])
  /\ UNCHANGED <<queueVars, status, verdict, pane, hitlVars, envVars>>

\* A quota message fails the run (after a sleep, outside a rerun); any other
\* failure is tried again in a fresh session.
ReadFailure(w) ==
  LET v == worker[w] IN
  /\ v.pc = "status" /\ ~Suspended(v) /\ v.seen \in {"bad", "quota"}
  /\ IF v.seen = "quota" THEN Go(w, "fail")
     ELSE IF v.try < MaxCorrections
          THEN Become(w, [v EXCEPT !.pc = "start", !.try = @ + 1])
          ELSE Go(w, "giveup")
  /\ UNCHANGED <<queueVars, status, verdict, pane, hitlVars, envVars>>

\* finalize_step on the three ways out that do not complete the step.
Park(w) ==
  LET v == worker[w] IN
  /\ v.pc = "park"
  /\ SetStatus(v.task, v.step, v.seen)
  /\ Go(w, AfterSuspension(v))
  /\ UNCHANGED <<queueVars, verdict, pane, hitlVars, envVars>>

GiveUp(w) ==
  LET v == worker[w] IN
  /\ v.pc = "giveup"
  /\ SetStatus(v.task, v.step, "FAILED")
  /\ Go(w, "fail")
  /\ UNCHANGED <<queueVars, verdict, pane, hitlVars, envVars>>

StaleHead(w) ==
  LET v == worker[w] IN
  /\ v.pc = "stale"
  /\ SetStatus(v.task, v.step, "SUSPENDED")
  /\ Go(w, "fail")
  /\ UNCHANGED <<queueVars, verdict, pane, hitlVars, envVars>>

\* set_checkpoint: refused by an error, or on its way.
Checkpoint(w) ==
  LET v == worker[w] IN
  /\ v.pc = "ckpt"
  /\ \/ Q!CheckpointCall(v.task, v.attempt, v.step, "COMPLETED") /\ Go(w, "final")
     \/ ~Q!CanCheckpoint(v.task, v.attempt) /\ UNCHANGED queueVars /\ Go(w, "error")
  /\ UNCHANGED <<status, verdict, pane, hitlVars, envVars>>

\* The call has returned: finalize_step COMPLETED, then the next step.
FinishStep(w) ==
  LET v == worker[w] IN
  /\ v.pc = "final"
  /\ \A c \in writing : ~(c.task = v.task /\ c.attempt = v.attempt)
  /\ SetStatus(v.task, v.step, "COMPLETED")
  /\ Become(w, [v EXCEPT !.pc = "start", !.step = @ + 1, !.try = 1])
  /\ UNCHANGED <<queueVars, verdict, pane, hitlVars, envVars>>

-----------------------------------------------------------------------------
(* Its outcomes                                                            *)

CompleteTask(w) ==
  LET v == worker[w] IN
  /\ v.pc = "complete"
  /\ \/ Q!CompleteRun(v.task, v.attempt) /\ Go(w, "off")
     \/ /\ ~Q!CanComplete(v.task, v.attempt)
        /\ UNCHANGED queueVars /\ Go(w, "error")
  /\ UNCHANGED <<status, verdict, pane, hitlVars, envVars>>

\* Mutant: the worker returns and leaves the retry to nobody.
AfterFailureReturn(v) == "off"
AfterFailure(v) == v.then

FailTask(w) ==
  LET v == worker[w] IN
  /\ v.pc = "fail"
  /\ \/ Q!FailRun(v.task, v.attempt) /\ Go(w, AfterFailure(v))
     \/ ~Q!CanFail(v.task, v.attempt) /\ UNCHANGED queueVars /\ Go(w, "error")
  /\ UNCHANGED <<status, verdict, pane, hitlVars, envVars>>

\* hitl_await: what await_event returns decides.
Decide(w, answer) ==
  Become(w, IF answer \in {"APPROVED", "OVERRIDDEN"}
            THEN [worker[w] EXCEPT !.pc = "start", !.rerun = TRUE, !.try = 1]
            ELSE [worker[w] EXCEPT !.pc = "fail", !.then = "off"])

AwaitVerdict(w) ==
  LET t == worker[w].task
      a == worker[w].attempt
      s == worker[w].step
  IN
  /\ worker[w].pc = "await"
  /\ \/ Q!AwaitCached(t, s) /\ Decide(w, ckpt[t][s].payload) /\ UNCHANGED queueVars
     \/ Q!AwaitResolved(t, a, s, t) /\ Decide(w, event[t])
     \/ Q!AwaitTimedOut(t, a, s, t) /\ Decide(w, None)
     \/ Q!AwaitSuspend(t, a, s, t, HitlTimeout) /\ Go(w, "loop")
     \/ /\ ~Q!AwaitCached(t, s) /\ ~Q!CanAwait(t, a, s)
        /\ UNCHANGED queueVars /\ Go(w, "error")
  /\ UNCHANGED <<status, verdict, pane, hitlVars, envVars>>

-----------------------------------------------------------------------------
(* The session, the Tool Guard and the human                               *)

\* Mutant: the verdict event of the task is taken for the verdict on the step.
AllowedByTask(t, s) == s \notin Guarded \/ event[t] = "APPROVED"
Allowed(t, s) == s \notin Guarded \/ verdict[t, s] = "APPROVED"

\* janush asks before it runs the command; it fails closed (exit 126) when the
\* answer is BLOCK or the daemon does not answer.
GuardCheck(t, s, n) ==
  /\ pane[t, s, n] = "asking"
  /\ SetPane(t, s, n, IF up /\ Allowed(t, s) THEN "working" ELSE "bad")
  /\ suspending' = IF up /\ ~Allowed(t, s) THEN suspending \cup {<<t, s>>}
                   ELSE suspending
  /\ UNCHANGED <<queueVars, status, verdict, worker, card, sink, envVars>>

CommandEnds(t, s, n) ==
  /\ pane[t, s, n] = "working"
  /\ \E r \in Endings : SetPane(t, s, n, r)
  /\ UNCHANGED <<queueVars, status, verdict, worker, hitlVars, envVars>>

\* The task GuardCheck left behind: suspend_step, then the card.
SuspendStep(t, s) ==
  /\ <<t, s>> \in suspending
  /\ SetStatus(t, s, "SUSPENDED")
  /\ suspending' = suspending \ {<<t, s>>}
  /\ card' = card \cup {<<t, s>>}
  /\ UNCHANGED <<queueVars, verdict, pane, worker, sink, envVars>>

Answer(t, s, v) ==
  /\ <<t, s>> \in card
  /\ card' = card \ {<<t, s>>}
  /\ sink' = sink \cup {[task |-> t, step |-> s, verdict |-> v, recorded |-> FALSE]}
  /\ UNCHANGED <<queueVars, status, verdict, pane, worker, suspending, envVars>>

CardExpires(t, s) ==
  /\ <<t, s>> \in card
  /\ card' = card \ {<<t, s>>}
  /\ UNCHANGED <<queueVars, status, verdict, pane, worker, suspending, sink, envVars>>

\* DbVerdictSink: first the overlay, then the event.
RecordVerdict(x) ==
  /\ x \in sink /\ ~x.recorded
  /\ verdict' = [verdict EXCEPT ![<<x.task, x.step>>] = x.verdict]
  /\ sink' = (sink \ {x}) \cup {[x EXCEPT !.recorded = TRUE]}
  /\ UNCHANGED <<queueVars, status, pane, worker, suspending, card, envVars>>

EmitVerdict(x) ==
  /\ x \in sink /\ x.recorded
  /\ \/ Q!EmitEvent(x.task, x.verdict)
     \/ ~Q!NotEmitted(x.task) /\ UNCHANGED queueVars
  /\ sink' = sink \ {x}
  /\ UNCHANGED <<status, verdict, pane, worker, suspending, card, envVars>>

-----------------------------------------------------------------------------
(* Stop, Continue, crash and cold start                                    *)

\* handle_stop: it looks for sessions by the hyphenated task id, which no session
\* name contains, and marks the step in progress.
Stop(t) ==
  /\ up /\ left.stop > 0
  /\ left' = [left EXCEPT !.stop = @ - 1]
  /\ \E s \in Steps : /\ status[t, s] \in {"STARTING", "RUNNING"}
                      /\ SetStatus(t, s, "STOPPED")
  /\ UNCHANGED <<queueVars, verdict, pane, worker, hitlVars, up, resuming>>

\* cold_start_running_tasks, without those a SUSPENDED step represents.
Resumable ==
  {t \in Tasks :
     /\ \E s \in Steps : status[t, s] \in {"STARTING", "RUNNING", "STOPPED"}
     /\ \A s \in Steps : status[t, s] # "SUSPENDED"}

Continue ==
  /\ up /\ left.continue > 0
  /\ left' = [left EXCEPT !.continue = @ - 1]
  /\ resuming' = resuming \cup Resumable
  /\ UNCHANGED <<queueVars, status, verdict, pane, worker, hitlVars, up>>

\* reconcile, for one of the tasks it selected.
ResumeTask(w, t) ==
  /\ t \in resuming
  /\ worker[w].pc \in Free
  /\ \/ \E a \in Attempts : Q!ExpireLease(t, a)
     \/ /\ \A a \in Attempts : run[t][a].state # "running"
        /\ UNCHANGED queueVars
  /\ Become(w, Begin(t))
  /\ resuming' = resuming \ {t}
  /\ UNCHANGED <<status, verdict, pane, hitlVars, up, left>>

\* The daemon dies; its sessions live on, unless the host went down too.
Crash ==
  /\ up /\ left.crash > 0
  /\ left' = [left EXCEPT !.crash = @ - 1]
  /\ up' = FALSE
  /\ worker' = [w \in Workers |-> Off]
  /\ suspending' = {} /\ card' = {} /\ sink' = {} /\ resuming' = {}
  /\ pane' \in {pane, [x \in DOMAIN pane |-> "none"]}
  /\ writing' \in {writing, {}}
  /\ UNCHANGED <<task, run, ckpt, latest, event, wait, status, verdict>>

\* A call the database still executes ends before the daemon is back.
Restart ==
  /\ ~up /\ writing = {}
  /\ up' = TRUE
  /\ resuming' = Resumable
  /\ UNCHANGED <<queueVars, status, verdict, pane, worker, hitlVars, left>>

DbWrites ==
  /\ \E c \in writing : Q!CheckpointRead(c) \/ Q!CheckpointWrite(c)
  /\ UNCHANGED <<status, verdict, pane, worker, hitlVars, envVars>>

Tick ==
  /\ Q!Tick
  /\ UNCHANGED <<status, verdict, pane, worker, hitlVars, envVars>>

-----------------------------------------------------------------------------
WorkerStep(w) ==
  \/ KillStaleSessions(w) \/ Claim(w) \/ ClaimNone(w) \/ CheckTerminal(w)
  \/ ResumePoint(w) \/ StartStep(w) \/ LaunchStep(w)
  \/ SawExit(w) \/ RenewLease(w) \/ PollFailed(w) \/ StopOrLoss(w)
  \/ ReadSuspended(w) \/ ReadSuccess(w) \/ ReadFailure(w)
  \/ Park(w) \/ GiveUp(w) \/ StaleHead(w) \/ Checkpoint(w) \/ FinishStep(w)
  \/ CompleteTask(w) \/ FailTask(w) \/ AwaitVerdict(w)

SessionStep(t, s) ==
  \E n \in Corrections : GuardCheck(t, s, n) \/ CommandEnds(t, s, n)

HitlStep(t, s) ==
  \/ SuspendStep(t, s)
  \/ \E v \in Verdicts : Answer(t, s, v)
  \/ CardExpires(t, s)

Next ==
  \/ \E w \in Workers : WorkerStep(w)
  \/ \E w \in Workers, t \in Tasks : Dispatch(w, t) \/ ResumeTask(w, t)
  \/ \E t \in Tasks, s \in Steps : SessionStep(t, s) \/ HitlStep(t, s)
  \/ \E x \in sink : RecordVerdict(x) \/ EmitVerdict(x)
  \/ \E t \in Tasks : Stop(t)
  \/ Continue \/ Crash \/ Restart
  \/ DbWrites \/ Tick

Spec == Init /\ [][Next]_vars

-----------------------------------------------------------------------------
(* Safety                                                                  *)

LivePanes(t) == {x \in DOMAIN pane : x[1] = t /\ pane[x] \in {"asking", "working"}}

\* A task never has two sessions at work at the same time, whatever a crashed
\* daemon left running ("so a resumed step doesn't double-execute against a
\* stale pane", kill_stale_sessions).
NoDoubleExecution == \A t \in Tasks : Cardinality(LivePanes(t)) <= 1

\* A step that needs approval is completed only after a verdict on a card of that
\* very step: neither the task-wide verdict event nor any race of suspend_step,
\* the session's exit and the verdict sink gets it past the GuardCheck.
GuardedStepsApproved ==
  \A t \in Tasks : \A s \in Guarded \ Manual :
    ckpt[t][s].payload = "COMPLETED" => verdict[t, s] # None

\* A task that sleeps on a verdict has a worker that will claim it again.
SleepersHaveWorkers ==
  \A t \in Tasks : up /\ task[t].state = "sleeping" =>
    \E w \in Workers : worker[w].task = t /\ worker[w].pc \notin Free

\* A step that has its COMPLETED checkpoint gets no session again, after any
\* number of retries, verdicts, crashes and restarts (resume_point).
FinishedStepsNotRedone ==
  [][\A x \in DOMAIN pane :
       pane[x] = "none" /\ pane'[x] = "asking" =>
         ckpt[x[1]][x[2]].payload # "COMPLETED"]_vars

\* The engine implements the abstract workflow of module Workflow: steps are
\* checkpointed in order, stay so, and a task completes only with all of them.
Finished(t) == {s \in Steps : ckpt[t][s].payload = "COMPLETED"}

Outcome(t) ==
  CASE task[t].state \in Q!Live -> "active"
    [] task[t].state = "none"    -> "none"
    [] OTHER                     -> task[t].state

Abstract == INSTANCE Workflow WITH
  outcome  <- [t \in Tasks |-> Outcome(t)],
  finished <- [t \in Tasks |-> Finished(t)]

ImplementsWorkflow == Abstract!Spec

-----------------------------------------------------------------------------
(* Liveness: the worker's calls return, commands end (the engine sets them *)
(* no limit), janush and its timeout answer, time passes.  SF for a claim: *)
(* the claim loop passes by it again and again.                            *)

Fairness ==
  /\ \A w \in Workers :
       /\ WF_vars(KillStaleSessions(w)) /\ SF_vars(Claim(w)) /\ WF_vars(ClaimNone(w))
       /\ WF_vars(CheckTerminal(w)) /\ WF_vars(ResumePoint(w))
       /\ WF_vars(StartStep(w)) /\ WF_vars(LaunchStep(w))
       /\ WF_vars(SawExit(w)) /\ WF_vars(PollFailed(w)) /\ WF_vars(StopOrLoss(w))
       /\ WF_vars(ReadSuspended(w)) /\ WF_vars(ReadSuccess(w)) /\ WF_vars(ReadFailure(w))
       /\ WF_vars(Park(w)) /\ WF_vars(GiveUp(w)) /\ WF_vars(StaleHead(w))
       /\ WF_vars(Checkpoint(w)) /\ WF_vars(FinishStep(w))
       /\ WF_vars(CompleteTask(w)) /\ WF_vars(FailTask(w)) /\ WF_vars(AwaitVerdict(w))
  /\ \A t \in Tasks, s \in Steps : WF_vars(SessionStep(t, s))
  /\ WF_vars(DbWrites) /\ WF_vars(Tick)

FairSpec == Spec /\ Fairness

\* A dispatched task ends: through corrections, quota and stale-HEAD failures and
\* retries the worker neither leaves it nor waits for what never comes.
TasksSettle ==
  \A t \in Tasks : task[t].state # "none" ~> task[t].state \in Q!Terminal

-----------------------------------------------------------------------------
(* What the code's comments and documents say and the code does not keep   *)

\* "the GuardCheck handler ALLOWs it now that hitl_verdict=APPROVED is recorded
\* on the overlay": a step that runs again because it was approved is not blocked.
ApprovedRerunsPass ==
  [][\A w \in Workers :
       LET v == worker[w] IN
       /\ v.pc = "poll" /\ v.rerun /\ up
       /\ ckpt[v.task][v.step].payload = "APPROVED"
       /\ pane[v.task, v.step, v.try] = "asking"
       => pane'[v.task, v.step, v.try] # "bad"]_vars

=============================================================================
