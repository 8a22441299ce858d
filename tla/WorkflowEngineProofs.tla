------------------------ MODULE WorkflowEngineProofs ------------------------
(***************************************************************************)
(* Proofs about WorkflowEngine for any number of tasks, workers, steps,    *)
(* attempts and corrections.  The queue under the engine is the AbsurdQueue*)
(* of AbsurdQueueProofs, so its invariant and its step lemmas are used     *)
(* here as they are.                                                       *)
(***************************************************************************)
EXTENDS WorkflowEngine, FiniteSetTheorems, TLAPS

\* The queue of the engine, with the lemmas about it.
QP == INSTANCE AbsurdQueueSteps WITH
        Events <- Tasks, Payloads <- CkptValues, CkptStates <- {"COMPLETED"},
        AttemptCap <- MaxAttempts, ClaimTimeout <- LeaseTime, ExtendBy <- LeaseTime,
        RetryDelay <- 0, AwaitTimeouts <- {HitlTimeout}, SleepDelays <- {}

LEMMA QueueConstants == QP!QueueAssumption
BY EngineAssumption DEF QP!QueueAssumption, CkptValues

-----------------------------------------------------------------------------
(* The procedures the engine calls are those of QP                         *)

LEMMA SameProcedures ==
  /\ Q!Init <=> QP!Init
  /\ Q!TypeOK <=> QP!TypeOK
  /\ Q!ClaimNothing => QP!ClaimNothing
  /\ Q!Tick => QP!Tick
  /\ \A t \in Tasks : Q!SpawnTask(t) => QP!SpawnTask(t)
  /\ \A t \in Tasks, p \in CkptValues : Q!EmitEvent(t, p) => QP!EmitEvent(t, p)
  /\ \A c \in writing : /\ Q!CheckpointRead(c) => QP!CheckpointRead(c)
                        /\ Q!CheckpointWrite(c) => QP!CheckpointWrite(c)
<1>1. Q!Init <=> QP!Init
  BY DEF Q!Init, QP!Init, Q!NoTask, QP!NoTask, Q!NoRun, QP!NoRun, Q!NoCkpt, QP!NoCkpt,
         Q!NewRun, QP!NewRun, Q!Attempts, QP!Attempts
<1>2. Q!TypeOK <=> QP!TypeOK
  BY DEF Q!TypeOK, QP!TypeOK, Q!Task, QP!Task, Q!Run, QP!Run, Q!Ckpt, QP!Ckpt,
         Q!Wait, QP!Wait, Q!Call, QP!Call, Q!Attempts, QP!Attempts, Q!States, QP!States,
         Q!Live, QP!Live, Q!Terminal, QP!Terminal
<1>3. Q!ClaimNothing => QP!ClaimNothing
  BY DEF Q!ClaimNothing, QP!ClaimNothing, Q!ExpiredRuns, QP!ExpiredRuns,
         Q!DueRuns, QP!DueRuns, Q!TasksAfterFail, QP!TasksAfterFail,
         Q!RunsAfterFail, QP!RunsAfterFail, Q!WaitsWithout, QP!WaitsWithout,
         Q!HasRetry, QP!HasRetry, Q!RetryState, QP!RetryState, Q!Larger, QP!Larger,
         Q!NewRun, QP!NewRun, Q!Live, QP!Live, Q!Attempts, QP!Attempts,
         Q!FailRun, QP!FailRun, Q!CanFail, QP!CanFail
<1>4. Q!Tick => QP!Tick
  BY DEF Q!Tick, QP!Tick, Q!Attempts, QP!Attempts, Q!Less, QP!Less
<1>5. ASSUME NEW t \in Tasks PROVE Q!SpawnTask(t) => QP!SpawnTask(t)
  BY DEF Q!SpawnTask, QP!SpawnTask, Q!WithRun, QP!WithRun, Q!NewRun, QP!NewRun
<1>6. ASSUME NEW t \in Tasks, NEW p \in CkptValues
      PROVE  Q!EmitEvent(t, p) => QP!EmitEvent(t, p)
  BY DEF Q!EmitEvent, QP!EmitEvent, Q!NotEmitted, QP!NotEmitted, Q!Woken, QP!Woken,
         Q!Attempts, QP!Attempts
<1>7. ASSUME NEW c \in writing
      PROVE  /\ Q!CheckpointRead(c) => QP!CheckpointRead(c)
             /\ Q!CheckpointWrite(c) => QP!CheckpointWrite(c)
  BY DEF Q!CheckpointRead, QP!CheckpointRead, Q!CheckpointWrite, QP!CheckpointWrite,
         Q!MayOverwrite, QP!MayOverwrite, Q!WriteCkpt, QP!WriteCkpt
<1> QED
  BY <1>1, <1>2, <1>3, <1>4, <1>5, <1>6, <1>7

LEMMA SameRunCalls ==
  ASSUME NEW t \in Tasks, NEW a \in Attempts
  PROVE  /\ Q!ClaimTask(t, a) => QP!ClaimTask(t, a)
         /\ Q!CompleteRun(t, a) => QP!CompleteRun(t, a)
         /\ Q!FailRun(t, a) => QP!FailRun(t, a)
         /\ Q!ExtendClaim(t, a) => QP!ExtendClaim(t, a)
         /\ Q!ExpireLease(t, a) => QP!ExpireLease(t, a)
         /\ \A s \in Steps :
              /\ Q!CheckpointCall(t, a, s, "COMPLETED") =>
                   QP!CheckpointCall(t, a, s, "COMPLETED")
              /\ Q!AwaitResolved(t, a, s, t) => QP!AwaitResolved(t, a, s, t)
              /\ Q!AwaitTimedOut(t, a, s, t) => QP!AwaitTimedOut(t, a, s, t)
              /\ Q!AwaitSuspend(t, a, s, t, HitlTimeout) =>
                   QP!AwaitSuspend(t, a, s, t, HitlTimeout)
<1>1. Q!ClaimTask(t, a) => QP!ClaimTask(t, a)
  BY DEF Q!ClaimTask, QP!ClaimTask, Q!Lease, QP!Lease, Q!WithRun, QP!WithRun,
         Q!ExpiredRuns, QP!ExpiredRuns, Q!DueRuns, QP!DueRuns,
         Q!TasksAfterFail, QP!TasksAfterFail, Q!RunsAfterFail, QP!RunsAfterFail,
         Q!WaitsWithout, QP!WaitsWithout, Q!HasRetry, QP!HasRetry,
         Q!RetryState, QP!RetryState, Q!Larger, QP!Larger, Q!NewRun, QP!NewRun,
         Q!Live, QP!Live, Q!Attempts, QP!Attempts
<1>2. Q!CompleteRun(t, a) => QP!CompleteRun(t, a)
  BY DEF Q!CompleteRun, QP!CompleteRun, Q!CanComplete, QP!CanComplete,
         Q!WithRun, QP!WithRun, Q!WaitsWithout, QP!WaitsWithout
<1>3. Q!FailRun(t, a) => QP!FailRun(t, a)
  BY DEF Q!FailRun, QP!FailRun, Q!CanFail, QP!CanFail,
         Q!TasksAfterFail, QP!TasksAfterFail, Q!RunsAfterFail, QP!RunsAfterFail,
         Q!WaitsWithout, QP!WaitsWithout, Q!HasRetry, QP!HasRetry,
         Q!RetryState, QP!RetryState, Q!Larger, QP!Larger, Q!NewRun, QP!NewRun,
         Q!Attempts, QP!Attempts
<1>4. /\ Q!ExtendClaim(t, a) => QP!ExtendClaim(t, a)
      /\ Q!ExpireLease(t, a) => QP!ExpireLease(t, a)
  BY DEF Q!ExtendClaim, QP!ExtendClaim, Q!CanExtend, QP!CanExtend, Q!WithRun, QP!WithRun,
         Q!ExpireLease, QP!ExpireLease
<1>5. ASSUME NEW s \in Steps
      PROVE  Q!CheckpointCall(t, a, s, "COMPLETED") =>
               QP!CheckpointCall(t, a, s, "COMPLETED")
  BY DEF Q!CheckpointCall, QP!CheckpointCall, Q!CanCheckpoint, QP!CanCheckpoint
<1>6. ASSUME NEW s \in Steps
      PROVE  /\ Q!AwaitResolved(t, a, s, t) => QP!AwaitResolved(t, a, s, t)
             /\ Q!AwaitTimedOut(t, a, s, t) => QP!AwaitTimedOut(t, a, s, t)
             /\ Q!AwaitSuspend(t, a, s, t, HitlTimeout) =>
                  QP!AwaitSuspend(t, a, s, t, HitlTimeout)
  BY DEF Q!AwaitResolved, QP!AwaitResolved, Q!AwaitTimedOut, QP!AwaitTimedOut,
         Q!AwaitSuspend, QP!AwaitSuspend, Q!CanAwait, QP!CanAwait,
         Q!AwaitCached, QP!AwaitCached, Q!ResumedByTimeout, QP!ResumedByTimeout,
         Q!WithRun, QP!WithRun, Q!WriteCkpt, QP!WriteCkpt
<1> QED
  BY <1>1, <1>2, <1>3, <1>4, <1>5, <1>6

-----------------------------------------------------------------------------
(* The types                                                               *)

Fresh  == {"loop", "claim", "check"}      \* before the claim of a run
AtStep == {"launch", "poll", "lost", "status", "park", "giveup", "stale", "ckpt",
           "await", "final"}              \* inside a step

\* What the program counter says of a worker's local state.
Local(v) ==
  /\ v.pc \notin Free => v.task \in Tasks
  /\ v.pc \notin Free \cup Fresh => v.attempt \in Attempts
  /\ v.pc \in AtStep => v.step \in Steps
  /\ v.pc = "status" => v.seen \in Endings
  /\ v.pc = "park" => v.seen \in {"SUSPENDED", "STOPPED"}

Locals == \A w \in Workers : Local(worker[w])

TInv == TypeOK /\ Locals /\ QP!FenceInv

\* Only w has moved.
Others(w) ==
  /\ worker' \in [Workers -> Worker]
  /\ \A x \in Workers : x # w => worker'[x] = worker[x]

\* The assignments to a worker's fields.
Like(u, v) ==
  /\ u.task = v.task /\ u.attempt = v.attempt /\ u.step = v.step /\ u.try = v.try
  /\ u.seen = v.seen /\ u.rerun = v.rerun /\ u.then = v.then

LEMMA SetPc ==
  ASSUME NEW v \in Worker, NEW p \in Pcs
  PROVE  LET u == [v EXCEPT !.pc = p] IN u \in Worker /\ u.pc = p /\ Like(u, v)
BY DEF Worker, Like

LEMMA BeginFields ==
  ASSUME NEW t \in Tasks \cup {None}
  PROVE  /\ Begin(t) \in Worker /\ Begin(t).pc = "loop" /\ Begin(t).task = t
         /\ Off \in Worker /\ Off.pc = "off" /\ Off.task = None
<1>1. ASSUME NEW u \in Tasks \cup {None}
      PROVE  Begin(u) \in Worker /\ Begin(u).pc = "loop" /\ Begin(u).task = u
  <2>1. 1 \in 1..(NumSteps + 1) /\ 1 \in Corrections /\ 0 \in 0..MaxAttempts
    BY EngineAssumption DEF Corrections
  <2>2. "loop" \in Pcs /\ "none" \in Endings \cup Statuses /\ FALSE \in BOOLEAN
    BY DEF Pcs, Statuses
  <2> QED
    BY <2>1, <2>2 DEF Begin, Worker
<1>2. "off" \in Pcs
  BY DEF Pcs, Free
<1>3. Off \in Worker /\ Off.pc = "off" /\ Off.task = None
  BY <1>1, <1>2, SetPc DEF Off, Like
<1> QED
  BY <1>1, <1>3

LEMMA BecomeEffect ==
  ASSUME worker \in [Workers -> Worker], NEW w \in Workers, NEW v \in Worker,
         Become(w, v)
  PROVE  Others(w) /\ worker'[w] = v
BY DEF Become, Others

LEMMA GoEffect ==
  ASSUME worker \in [Workers -> Worker], NEW w \in Workers, NEW p \in Pcs, Go(w, p)
  PROVE  Others(w) /\ worker'[w].pc = p /\ Like(worker'[w], worker[w])
<1> DEFINE u == [worker[w] EXCEPT !.pc = p]
<1>1. u \in Worker /\ u.pc = p /\ Like(u, worker[w])
  BY SetPc
<1>2. Become(w, u)
  BY DEF Go
<1> HIDE DEF u
<1> QED
  BY <1>1, <1>2, BecomeEffect

-----------------------------------------------------------------------------
(* What each step does to its worker                                       *)

LEMMA ClaimEffect ==
  ASSUME TInv, NEW w \in Workers, Claim(w)
  PROVE  /\ Others(w) /\ worker'[w].task = worker[w].task
         /\ \E u \in Tasks, a \in Attempts :
              /\ Q!ClaimTask(u, a)
              /\ \/ /\ u = worker[w].task
                    /\ worker'[w].pc = "resume" /\ worker'[w].attempt = a
                 \/ u # worker[w].task /\ worker'[w].pc = "error"
<1>0. worker \in [Workers -> Worker] /\ worker[w] \in Worker
  BY DEF TInv, TypeOK
<1>1. PICK u \in Tasks, a \in Attempts :
        /\ Q!ClaimTask(u, a)
        /\ IF u = worker[w].task
           THEN Become(w, [worker[w] EXCEPT !.pc = "resume", !.attempt = a])
           ELSE Go(w, "error")
  BY DEF Claim
<1>2. "resume" \in Pcs /\ "error" \in Pcs /\ a \in 0..MaxAttempts
  BY EngineAssumption DEF Pcs, Free, Attempts
<1>3. CASE u = worker[w].task
  <2> DEFINE v == [worker[w] EXCEPT !.pc = "resume", !.attempt = a]
  <2>1. v \in Worker /\ v.pc = "resume" /\ v.task = worker[w].task /\ v.attempt = a
    BY <1>0, <1>2 DEF Worker
  <2>2. Become(w, v)
    BY <1>1, <1>3
  <2> HIDE DEF v
  <2>3. Others(w) /\ worker'[w] = v
    BY <1>0, <2>1, <2>2, BecomeEffect
  <2> QED
    BY <1>1, <1>3, <2>1, <2>3
<1>4. CASE u # worker[w].task
  BY <1>0, <1>1, <1>2, <1>4, GoEffect DEF Like
<1> QED
  BY <1>3, <1>4

LEMMA ResumeStepInRange ==
  ASSUME TInv, NEW t \in Tasks
  PROVE  ResumeStep(t) \in 1..(NumSteps + 1)
<1>1. latest[t] \in Steps \cup {None}
  BY SameProcedures DEF TInv, TypeOK, QP!TypeOK
<1> QED
  BY <1>1, EngineAssumption DEF ResumeStep, Steps

LEMMA ResumePointEffect ==
  ASSUME TInv, NEW w \in Workers, ResumePoint(w)
  PROVE  /\ Others(w)
         /\ worker'[w].pc \in {"fail", "start"} /\ worker'[w].task = worker[w].task
         /\ worker'[w].attempt = worker[w].attempt
         /\ worker'[w].step = ResumeStep(worker[w].task)
<1> DEFINE t == worker[w].task
           p == IF LastCkpt(t) = "REJECTED" THEN "fail" ELSE "start"
           h == IF LastCkpt(t) = "REJECTED" THEN "off" ELSE "loop"
           r == ResumeStep(t)
           u == [worker[w] EXCEPT !.pc = p, !.step = r, !.try = 1, !.rerun = FALSE, !.then = h]
<1>0. worker \in [Workers -> Worker] /\ worker[w] \in Worker
  BY DEF TInv, TypeOK
<1>1. t \in Tasks
  BY DEF TInv, Locals, Local, ResumePoint, Free
<1>2. r \in 1..(NumSteps + 1)
  BY <1>1, ResumeStepInRange
<1>3. p \in {"fail", "start"} /\ p \in Pcs /\ h \in {"loop", "off"}
  BY DEF Pcs
<1>4. 1 \in Corrections
  BY EngineAssumption DEF Corrections
<1>5. Become(w, u)
  BY DEF ResumePoint
<1> HIDE DEF p, h, r
<1>6. /\ u \in Worker /\ u.pc = p /\ u.task = t /\ u.attempt = worker[w].attempt
      /\ u.step = r
  BY <1>0, <1>2, <1>3, <1>4 DEF Worker
<1> HIDE DEF u
<1>7. Others(w) /\ worker'[w] = u
  BY <1>0, <1>5, <1>6, BecomeEffect
<1> QED
  BY <1>3, <1>6, <1>7 DEF r

LEMMA SawExitEffect ==
  ASSUME TInv, NEW w \in Workers, SawExit(w)
  PROVE  LET v == worker[w]  u == worker'[w] IN
         /\ Others(w) /\ v.pc = "poll" /\ u.pc = "status" /\ u.task = v.task
         /\ u.attempt = v.attempt /\ u.step = v.step
         /\ u.seen = pane[v.task, v.step, v.try] /\ u.seen \in Endings
<1> DEFINE v == worker[w]
           e == pane[v.task, v.step, v.try]
           u == [v EXCEPT !.pc = "status", !.seen = e]
<1>0. worker \in [Workers -> Worker] /\ v \in Worker
  BY DEF TInv, TypeOK
<1>1. e \in Endings /\ Become(w, u) /\ v.pc = "poll" /\ "status" \in Pcs
  BY DEF SawExit, Pcs
<1> HIDE DEF e
<1>2. /\ u \in Worker /\ u.pc = "status" /\ u.task = v.task /\ u.attempt = v.attempt
      /\ u.step = v.step /\ u.seen = e
  BY <1>0, <1>1 DEF Worker
<1> HIDE DEF u
<1>3. Others(w) /\ worker'[w] = u
  BY <1>0, <1>1, <1>2, BecomeEffect
<1> QED
  BY <1>1, <1>2, <1>3 DEF e

LEMMA SeenEffect ==
  ASSUME TInv, NEW w \in Workers, NEW e \in Statuses,
         Become(w, [worker[w] EXCEPT !.pc = "park", !.seen = e])
  PROVE  /\ Others(w) /\ worker'[w].pc = "park" /\ worker'[w].task = worker[w].task
         /\ worker'[w].attempt = worker[w].attempt /\ worker'[w].step = worker[w].step
         /\ worker'[w].seen = e
<1> DEFINE u == [worker[w] EXCEPT !.pc = "park", !.seen = e]
<1>0. worker \in [Workers -> Worker] /\ worker[w] \in Worker /\ "park" \in Pcs
  BY DEF TInv, TypeOK, Pcs
<1>1. /\ u \in Worker /\ u.pc = "park" /\ u.task = worker[w].task
      /\ u.attempt = worker[w].attempt /\ u.step = worker[w].step /\ u.seen = e
  BY <1>0 DEF Worker
<1>2. Become(w, u)
  OBVIOUS
<1> HIDE DEF u
<1> QED
  BY <1>0, <1>1, <1>2, BecomeEffect

LEMMA ReadSuspendedEffect ==
  ASSUME TInv, NEW w \in Workers, ReadSuspended(w)
  PROVE  /\ Others(w) /\ worker'[w].pc = "park" /\ worker'[w].task = worker[w].task
         /\ worker'[w].attempt = worker[w].attempt /\ worker'[w].step = worker[w].step
         /\ worker'[w].seen \in {"SUSPENDED", "STOPPED"}
<1> DEFINE e == status[worker[w].task, worker[w].step]
<1>1. e \in {"SUSPENDED", "STOPPED"} /\ e \in Statuses
  BY DEF ReadSuspended, Suspended, Statuses
<1>2. Become(w, [worker[w] EXCEPT !.pc = "park", !.seen = e])
  BY DEF ReadSuspended
<1> HIDE DEF e
<1> QED
  BY <1>1, <1>2, SeenEffect

LEMMA ReadSuccessEffect ==
  ASSUME TInv, NEW w \in Workers, ReadSuccess(w)
  PROVE  /\ Others(w) /\ worker'[w].task = worker[w].task
         /\ worker'[w].attempt = worker[w].attempt /\ worker'[w].step = worker[w].step
         /\ worker[w].seen = "ok"
         /\ \/ worker'[w].pc \in {"ckpt", "stale"}
            \/ worker'[w].pc = "park" /\ worker'[w].seen = "SUSPENDED"
<1>0. worker \in [Workers -> Worker] /\ "ckpt" \in Pcs /\ "stale" \in Pcs
      /\ worker[w].seen = "ok" /\ "SUSPENDED" \in Statuses
  BY DEF TInv, TypeOK, Pcs, ReadSuccess, Statuses
<1>1. CASE Go(w, "ckpt") \/ Go(w, "stale")
  BY <1>0, <1>1, GoEffect DEF Like
<1>2. CASE Become(w, [worker[w] EXCEPT !.pc = "park", !.seen = "SUSPENDED"])
  BY <1>0, <1>2, SeenEffect
<1> QED
  BY <1>1, <1>2 DEF ReadSuccess

LEMMA ReadFailureEffect ==
  ASSUME TInv, NEW w \in Workers, ReadFailure(w)
  PROVE  /\ Others(w) /\ worker'[w].task = worker[w].task
         /\ worker'[w].attempt = worker[w].attempt /\ worker'[w].step = worker[w].step
         /\ worker'[w].pc \in {"fail", "start", "giveup"}
<1>0. /\ worker \in [Workers -> Worker] /\ worker[w] \in Worker
      /\ "fail" \in Pcs /\ "start" \in Pcs /\ "giveup" \in Pcs
  BY DEF TInv, TypeOK, Pcs
<1>1. CASE Go(w, "fail") \/ Go(w, "giveup")
  BY <1>0, <1>1, GoEffect DEF Like
<1>2. CASE /\ worker[w].try < MaxCorrections
           /\ Become(w, [worker[w] EXCEPT !.pc = "start", !.try = @ + 1])
  <2> DEFINE n == worker[w].try + 1
             u == [worker[w] EXCEPT !.pc = "start", !.try = n]
  <2>1. n \in Corrections
    BY <1>0, <1>2, EngineAssumption DEF Worker, Corrections
  <2>2. Become(w, u)
    BY <1>2
  <2> HIDE DEF n
  <2>3. /\ u \in Worker /\ u.pc = "start" /\ u.task = worker[w].task
        /\ u.attempt = worker[w].attempt /\ u.step = worker[w].step
    BY <1>0, <2>1 DEF Worker
  <2> HIDE DEF u
  <2> QED
    BY <1>0, <2>2, <2>3, BecomeEffect
<1> QED
  BY <1>1, <1>2 DEF ReadFailure

LEMMA FinishStepEffect ==
  ASSUME TInv, NEW w \in Workers, FinishStep(w)
  PROVE  /\ Others(w) /\ worker'[w].pc = "start" /\ worker'[w].task = worker[w].task
         /\ worker'[w].attempt = worker[w].attempt
         /\ worker'[w].step = worker[w].step + 1
<1> DEFINE s == worker[w].step + 1
           u == [worker[w] EXCEPT !.pc = "start", !.step = s, !.try = 1]
<1>0. worker \in [Workers -> Worker] /\ worker[w] \in Worker /\ "start" \in Pcs
  BY DEF TInv, TypeOK, Pcs
<1>1. s \in 1..(NumSteps + 1) /\ 1 \in Corrections
  <2>1. worker[w].step \in Steps
    BY DEF TInv, Locals, Local, FinishStep, AtStep
  <2> QED
    BY <2>1, EngineAssumption DEF Steps, Corrections
<1>2. Become(w, u)
  BY DEF FinishStep
<1> HIDE DEF s
<1>3. /\ u \in Worker /\ u.pc = "start" /\ u.task = worker[w].task
      /\ u.attempt = worker[w].attempt /\ u.step = s
  BY <1>0, <1>1 DEF Worker
<1> HIDE DEF u
<1> QED
  BY <1>0, <1>2, <1>3, BecomeEffect DEF s

LEMMA DecideEffect ==
  ASSUME TInv, NEW w \in Workers, NEW answer, Decide(w, answer)
  PROVE  /\ Others(w) /\ worker'[w].pc \in {"start", "fail"}
         /\ worker'[w].task = worker[w].task
         /\ worker'[w].attempt = worker[w].attempt /\ worker'[w].step = worker[w].step
<1>0. /\ worker \in [Workers -> Worker] /\ worker[w] \in Worker
      /\ "start" \in Pcs /\ "fail" \in Pcs /\ "off" \in {"loop", "off"}
      /\ 1 \in Corrections
  BY EngineAssumption DEF TInv, TypeOK, Pcs, Corrections
<1> DEFINE x == [worker[w] EXCEPT !.pc = "start", !.rerun = TRUE, !.try = 1]
           y == [worker[w] EXCEPT !.pc = "fail", !.then = "off"]
<1>1. /\ x \in Worker /\ x.pc = "start" /\ x.task = worker[w].task
      /\ x.attempt = worker[w].attempt /\ x.step = worker[w].step
  BY <1>0 DEF Worker
<1>2. /\ y \in Worker /\ y.pc = "fail" /\ y.task = worker[w].task
      /\ y.attempt = worker[w].attempt /\ y.step = worker[w].step
  BY <1>0 DEF Worker
<1>3. Become(w, x) \/ Become(w, y)
  BY DEF Decide
<1> HIDE DEF x, y
<1> QED
  BY <1>0, <1>1, <1>2, <1>3, BecomeEffect

-----------------------------------------------------------------------------
(* Every step is a step of the queue, leaves it alone, or is a crash that  *)
(* takes the calls in flight with it                                       *)

CallsLost ==
  UNCHANGED <<task, run, ckpt, latest, event, wait>> /\ writing' = {}

QueueMoves == QP!Next \/ UNCHANGED queueVars \/ CallsLost

LEMMA RunCallMoves ==
  ASSUME NEW t \in Tasks, NEW a \in Attempts, QP!RunCall(t, a)
  PROVE  QueueMoves
BY DEF QueueMoves, QP!Next, Attempts, QP!Attempts

LEMMA WorkerQueueStep ==
  ASSUME TInv, NEW w \in Workers, WorkerStep(w)
  PROVE  QP!Next \/ UNCHANGED queueVars
<1> USE DEF queueVars
<1> DEFINE t == worker[w].task
           a == worker[w].attempt
           s == worker[w].step
<1>0. /\ worker[w].pc \notin Free => t \in Tasks
      /\ worker[w].pc \notin Free \cup Fresh => a \in Attempts
      /\ worker[w].pc \in AtStep => s \in Steps
  BY DEF TInv, Locals, Local
<1>1. CASE \/ KillStaleSessions(w) \/ CheckTerminal(w) \/ ResumePoint(w)
           \/ StartStep(w) \/ LaunchStep(w) \/ SawExit(w) \/ PollFailed(w)
           \/ StopOrLoss(w) \/ ReadSuspended(w) \/ ReadSuccess(w) \/ ReadFailure(w)
           \/ Park(w) \/ GiveUp(w) \/ StaleHead(w) \/ FinishStep(w)
  BY <1>1 DEF KillStaleSessions, CheckTerminal, ResumePoint, StartStep, LaunchStep,
              SawExit, PollFailed, StopOrLoss, ReadSuspended, ReadSuccess, ReadFailure,
              Park, GiveUp, StaleHead, FinishStep
<1>2. ASSUME NEW u \in Tasks, NEW b \in Attempts, QP!RunCall(u, b)
      PROVE  QP!Next
  BY <1>2 DEF QP!Next, Attempts, QP!Attempts
<1>3. CASE Claim(w)
  <2>1. PICK u \in Tasks, b \in Attempts : Q!ClaimTask(u, b)
    BY <1>3 DEF Claim
  <2> QED
    BY <1>2, <2>1, SameRunCalls DEF QP!RunCall
<1>4. CASE ClaimNone(w)
  BY <1>4, SameProcedures DEF ClaimNone, QP!Next
<1>5. CASE RenewLease(w)
  <2>1. t \in Tasks /\ a \in Attempts /\ Q!ExtendClaim(t, a)
    BY <1>0, <1>5 DEF RenewLease, Free, Fresh
  <2> QED
    BY <1>2, <2>1, SameRunCalls DEF QP!RunCall
<1>6. CASE Checkpoint(w)
  <2>1. t \in Tasks /\ a \in Attempts /\ s \in Steps
    BY <1>0, <1>6 DEF Checkpoint, Free, Fresh, AtStep
  <2>2. CASE UNCHANGED queueVars
    BY <2>2
  <2>3. CASE Q!CheckpointCall(t, a, s, "COMPLETED")
    <3>1. QP!CheckpointCall(t, a, s, "COMPLETED")
      BY <2>1, <2>3, SameRunCalls
    <3> QED
      BY <1>2, <2>1, <3>1 DEF QP!RunCall
  <2> QED
    BY <1>6, <2>2, <2>3 DEF Checkpoint
<1>7. CASE CompleteTask(w) \/ FailTask(w)
  <2>1. t \in Tasks /\ a \in Attempts
    BY <1>0, <1>7 DEF CompleteTask, FailTask, Free, Fresh
  <2>2. \/ UNCHANGED queueVars
        \/ Q!CompleteRun(t, a) \/ Q!FailRun(t, a)
    BY <1>7 DEF CompleteTask, FailTask
  <2> QED
    BY <1>2, <2>1, <2>2, SameRunCalls DEF QP!RunCall
<1>8. CASE AwaitVerdict(w)
  <2>1. t \in Tasks /\ a \in Attempts /\ s \in Steps
    BY <1>0, <1>8 DEF AwaitVerdict, Free, Fresh, AtStep
  <2>2. \/ UNCHANGED queueVars
        \/ Q!AwaitResolved(t, a, s, t)
        \/ Q!AwaitTimedOut(t, a, s, t)
        \/ Q!AwaitSuspend(t, a, s, t, HitlTimeout)
    BY <1>8 DEF AwaitVerdict
  <2>3. UNCHANGED queueVars \/ QP!AwaitEvent(t, a, s, t)
    BY <2>1, <2>2, SameRunCalls DEF QP!AwaitEvent
  <2> QED
    BY <1>2, <2>1, <2>3 DEF QP!RunCall
<1> QED
  BY <1>1, <1>3, <1>4, <1>5, <1>6, <1>7, <1>8 DEF WorkerStep

LEMMA QueueStep ==
  ASSUME TInv, [Next]_vars
  PROVE  QueueMoves
<1> USE DEF QueueMoves, queueVars
<1>1. CASE \E w \in Workers : WorkerStep(w)
  BY <1>1, WorkerQueueStep
<1>2. CASE \E w \in Workers, t \in Tasks : Dispatch(w, t)
  BY <1>2, SameProcedures DEF Dispatch, QP!Next, QP!TaskCall
<1>3. CASE \E w \in Workers, t \in Tasks : ResumeTask(w, t)
  <2>1. PICK w \in Workers, t \in Tasks : ResumeTask(w, t)
    BY <1>3
  <2>2. UNCHANGED queueVars \/ \E a \in Attempts : Q!ExpireLease(t, a)
    BY <2>1 DEF ResumeTask
  <2>3. ASSUME NEW a \in Attempts, Q!ExpireLease(t, a)
        PROVE  QueueMoves
    BY <2>3, SameRunCalls, RunCallMoves DEF QP!RunCall
  <2> QED
    BY <2>2, <2>3
<1>4. CASE \E t \in Tasks, s \in Steps : SessionStep(t, s) \/ HitlStep(t, s)
  <2>1. PICK t \in Tasks, s \in Steps : SessionStep(t, s) \/ HitlStep(t, s)
    BY <1>4
  <2>2. ASSUME NEW n \in Corrections, GuardCheck(t, s, n) \/ CommandEnds(t, s, n)
        PROVE  UNCHANGED queueVars
    BY <2>2 DEF GuardCheck, CommandEnds
  <2>3. CASE SuspendStep(t, s) \/ CardExpires(t, s) \/ \E v \in Verdicts : Answer(t, s, v)
    BY <2>3 DEF SuspendStep, Answer, CardExpires
  <2> QED
    BY <2>1, <2>2, <2>3 DEF SessionStep, HitlStep
<1>5. CASE \E x \in sink : RecordVerdict(x)
  BY <1>5 DEF RecordVerdict
<1>6. CASE \E x \in sink : EmitVerdict(x)
  <2>1. PICK x \in sink : EmitVerdict(x)
    BY <1>6
  <2>2. x.task \in Tasks /\ x.verdict \in CkptValues
    BY DEF TInv, TypeOK, CkptValues
  <2> QED
    BY <2>1, <2>2, SameProcedures DEF EmitVerdict, QP!Next
<1>7. CASE (\E t \in Tasks : Stop(t)) \/ Continue \/ Restart \/ Crash \/ UNCHANGED vars
  BY <1>7 DEF Stop, Continue, Restart, Crash, CallsLost, vars
<1>8. CASE DbWrites
  BY <1>8, SameProcedures DEF DbWrites, QP!Next
<1>9. CASE Tick
  BY <1>9, SameProcedures DEF Tick, QP!Next
<1> QED
  BY <1>1, <1>2, <1>3, <1>4, <1>5, <1>6, <1>7, <1>8, <1>9 DEF Next

\* The queue's invariant survives whatever the engine does.
LEMMA QueueInvStep ==
  ASSUME TInv, [Next]_vars
  PROVE  QP!FenceInv'
<1>0. QP!FenceInv
  BY DEF TInv
<1>1. CASE QP!Next \/ UNCHANGED queueVars
  BY <1>0, <1>1, QueueConstants, QP!FenceStep DEF queueVars, QP!vars
<1>2. CASE CallsLost
  <2> USE <1>0, <1>2 DEF CallsLost
  <2>1. QP!IInv'
    <3>1. QP!TypeOK'
      BY DEF QP!FenceInv, QP!IInv, QP!TypeOK
    <3>2. QP!Tables(task, run, wait, event)'
      BY DEF QP!FenceInv, QP!IInv
    <3> QED
      BY <3>1, <3>2 DEF QP!IInv
  <2>2. QP!Fenced'
    BY DEF QP!FenceInv, QP!Fenced
  <2> QED
    BY <2>1, <2>2 DEF QP!FenceInv
<1> QED
  BY <1>1, <1>2, QueueStep DEF QueueMoves

-----------------------------------------------------------------------------
(* The overlay and the sessions a worker touches are those of its step     *)

LEMMA SetStatusEffect ==
  ASSUME status \in [Tasks \X Steps -> Statuses],
         NEW t \in Tasks, NEW s \in Steps, NEW st \in Statuses, SetStatus(t, s, st)
  PROVE  /\ status' \in [Tasks \X Steps -> Statuses]
         /\ status'[t, s] = st
         /\ \A u \in Tasks, r \in Steps :
              ~(u = t /\ r = s) => status'[u, r] = status[u, r]
<1>1. <<t, s>> \in Tasks \X Steps
  OBVIOUS
<1> QED
  BY <1>1 DEF SetStatus

\* A worker touches the overlay row and the sessions of its own step only, and
\* the only session it starts is the one it launches.
Touches(w) ==
  LET v == worker[w] IN
  /\ status' \in [Tasks \X Steps -> Statuses]
  /\ pane' \in [Tasks \X Steps \X Corrections -> PaneStates]
  /\ \A t \in Tasks, s \in Steps : t # v.task => status'[t, s] = status[t, s]
  /\ \A t \in Tasks, s \in Steps, n \in Corrections :
       \/ pane'[t, s, n] = pane[t, s, n]
       \/ pane'[t, s, n] = "none"
       \/ /\ pane'[t, s, n] = "asking" /\ v.pc = "launch" /\ worker'[w].pc = "poll"
          /\ t = v.task /\ s = v.step /\ n = v.try

Frame(w) ==
  /\ Others(w) /\ worker'[w].task = worker[w].task /\ worker[w].pc \notin Free
  /\ Local(worker'[w])
  /\ UNCHANGED <<verdict, hitlVars, envVars>>
  /\ Touches(w)

LEMMA TouchesNothing ==
  ASSUME TInv, NEW w \in Workers, UNCHANGED <<status, pane>>
  PROVE  Touches(w)
BY DEF Touches, TInv, TypeOK

LEMMA TouchesStatus ==
  ASSUME TInv, NEW w \in Workers, worker[w].pc \in AtStep \cup {"start"},
         worker[w].step \in Steps,
         NEW st \in Statuses, SetStatus(worker[w].task, worker[w].step, st),
         UNCHANGED pane
  PROVE  Touches(w)
<1> DEFINE t == worker[w].task
           s == worker[w].step
<1>1. t \in Tasks /\ status \in [Tasks \X Steps -> Statuses]
  BY DEF TInv, TypeOK, Locals, Local, AtStep, Free
<1>2. /\ status' \in [Tasks \X Steps -> Statuses]
      /\ \A u \in Tasks, r \in Steps : ~(u = t /\ r = s) => status'[u, r] = status[u, r]
  BY <1>1, SetStatusEffect
<1> QED
  BY <1>1, <1>2 DEF Touches, TInv, TypeOK

LEMMA TouchesPane ==
  ASSUME TInv, NEW w \in Workers, worker[w].pc \in AtStep,
         SetPane(worker[w].task, worker[w].step, worker[w].try, "none"),
         UNCHANGED status
  PROVE  Touches(w)
<1> DEFINE t == worker[w].task
           s == worker[w].step
           n == worker[w].try
<1>1. t \in Tasks /\ s \in Steps
  BY DEF TInv, Locals, Local, AtStep, Free
<1>2. n \in Corrections /\ "none" \in PaneStates
  BY DEF TInv, TypeOK, Worker, PaneStates
<1>3. /\ status \in [Tasks \X Steps -> Statuses]
      /\ pane \in [Tasks \X Steps \X Corrections -> PaneStates]
  BY DEF TInv, TypeOK
<1>4. /\ pane' \in [Tasks \X Steps \X Corrections -> PaneStates]
      /\ pane'[t, s, n] = "none"
      /\ \A u \in Tasks, r \in Steps, m \in Corrections :
           ~(u = t /\ r = s /\ m = n) => pane'[u, r, m] = pane[u, r, m]
  <2>1. <<t, s, n>> \in Tasks \X Steps \X Corrections
    BY <1>1, <1>2
  <2>2. pane' = [pane EXCEPT ![<<t, s, n>>] = "none"]
    BY DEF SetPane
  <2> HIDE DEF t, s, n
  <2> QED
    BY <1>2, <1>3, <2>1, <2>2
<1> QED
  BY <1>1, <1>2, <1>3, <1>4 DEF Touches

LEMMA WorkerFrame ==
  ASSUME TInv, NEW w \in Workers, WorkerStep(w)
  PROVE  Frame(w)
<1> DEFINE v == worker[w]
<1>0. /\ worker \in [Workers -> Worker] /\ v \in Worker
      /\ v.pc \notin Free => v.task \in Tasks
      /\ v.pc \notin Free \cup Fresh => v.attempt \in Attempts
      /\ v.pc \in AtStep => v.step \in Steps
      /\ v.pc = "status" => v.seen \in Endings
      /\ v.pc = "park" => v.seen \in {"SUSPENDED", "STOPPED"}
  BY DEF TInv, TypeOK, Locals, Local
<1>1. ASSUME NEW p \in Pcs, Go(w, p), v.pc \notin Free,
             p \in Free \cup Fresh \/ v.pc \notin Free \cup Fresh,
             p \in AtStep => v.pc \in AtStep \/ v.step \in Steps,
             p \notin {"status", "park"}
      PROVE  /\ Others(w) /\ worker'[w].task = v.task /\ Local(worker'[w])
             /\ worker'[w].pc = p
  BY <1>0, <1>1, GoEffect DEF Local, Like
<1>2. /\ {"claim", "off", "error", "check", "loop", "launch", "complete", "ckpt", "poll",
          "giveup", "lost", "await", "stale", "fail", "final"} \subseteq Pcs
      /\ {"STARTING", "RUNNING", "FAILED", "SUSPENDED", "STOPPED", "COMPLETED"}
           \subseteq Statuses
  BY DEF Pcs, Free, Statuses
<1> USE DEF Free, Fresh, AtStep
<1>3. CASE KillStaleSessions(w)
  <2>1. v.pc = "loop" /\ Go(w, "claim") /\ UNCHANGED <<status, verdict, hitlVars, envVars>>
    BY <1>3 DEF KillStaleSessions
  <2>2. /\ pane' \in [Tasks \X Steps \X Corrections -> PaneStates]
        /\ \A t \in Tasks, s \in Steps, n \in Corrections :
             pane'[t, s, n] = pane[t, s, n] \/ pane'[t, s, n] = "none"
    <3>1. "none" \in PaneStates
      BY DEF PaneStates
    <3>2. pane \in [Tasks \X Steps \X Corrections -> PaneStates]
      BY DEF TInv, TypeOK
    <3>3. pane' = [x \in Tasks \X Steps \X Corrections |->
                     IF x \in StaleSessions(v.task) THEN "none" ELSE pane[x]]
      BY <1>3, <3>2 DEF KillStaleSessions
    <3> QED
      BY <3>1, <3>2, <3>3
  <2>3. Touches(w)
    BY <2>1, <2>2 DEF Touches, TInv, TypeOK
  <2> QED
    BY <1>1, <1>2, <2>1, <2>3 DEF Frame
<1>4. CASE Claim(w)
  BY <1>4, <1>0, ClaimEffect, TouchesNothing DEF Frame, Local, Claim
<1>5. CASE ClaimNone(w) \/ CheckTerminal(w)
  BY <1>5, <1>1, <1>2, TouchesNothing DEF Frame, ClaimNone, CheckTerminal
<1>6. CASE ResumePoint(w)
  BY <1>6, <1>0, ResumePointEffect, TouchesNothing DEF Frame, Local, ResumePoint
<1>7. CASE StartStep(w)
  <2>1. CASE v.step > NumSteps
    <3>1. Go(w, "complete") /\ v.pc = "start" /\ UNCHANGED <<status, pane, verdict, hitlVars, envVars>>
      BY <1>7, <2>1 DEF StartStep, AllStepsDone
    <3> QED
      BY <3>1, <1>1, <1>2, TouchesNothing DEF Frame
  <2>2. CASE ~(v.step > NumSteps)
    <3>1. /\ Go(w, "launch") /\ v.pc = "start" /\ UNCHANGED <<pane, verdict, hitlVars, envVars>>
          /\ SetStatus(v.task, v.step, "STARTING")
      BY <1>7, <2>2 DEF StartStep, AllStepsDone
    <3>2. v.step \in Steps
      BY <1>0, <2>2, EngineAssumption DEF Worker, Steps
    <3>3. Touches(w)
      BY <1>2, <3>1, <3>2, TouchesStatus
    <3> QED
      BY <3>1, <3>2, <3>3, <1>1, <1>2 DEF Frame
  <2> QED
    BY <2>1, <2>2
<1>8. CASE LaunchStep(w)
  <2> USE <1>8 DEF LaunchStep
  <2>1. v.pc = "launch" /\ v.task \in Tasks /\ v.step \in Steps /\ v.try \in Corrections
    BY <1>0 DEF Worker
  <2> DEFINE t == v.task
             s == v.step
             n == v.try
  <2>2. /\ status' \in [Tasks \X Steps -> Statuses]
        /\ \A u \in Tasks, r \in Steps : ~(u = t /\ r = s) => status'[u, r] = status[u, r]
    <3>1. status \in [Tasks \X Steps -> Statuses]
      BY DEF TInv, TypeOK
    <3>2. SetStatus(t, s, "RUNNING") /\ "RUNNING" \in Statuses
      BY <1>2
    <3> QED
      BY <2>1, <3>1, <3>2, SetStatusEffect
  <2>3. pane \in [Tasks \X Steps \X Corrections -> PaneStates]
        /\ "asking" \in PaneStates /\ "none" \in PaneStates
    BY DEF TInv, TypeOK, PaneStates
  <2>7. ASSUME NEW p \in PaneStates, SetPane(t, s, n, p)
        PROVE  /\ pane' \in [Tasks \X Steps \X Corrections -> PaneStates]
               /\ pane'[t, s, n] = p
               /\ \A u \in Tasks, r \in Steps, m \in Corrections :
                    ~(u = t /\ r = s /\ m = n) => pane'[u, r, m] = pane[u, r, m]
    <3>1. <<t, s, n>> \in Tasks \X Steps \X Corrections
      BY <2>1
    <3>2. pane' = [pane EXCEPT ![<<t, s, n>>] = p]
      BY <2>7 DEF SetPane
    <3> HIDE DEF t, s, n
    <3> QED
      BY <2>3, <3>1, <3>2
  <2>4. CASE Go(w, "ckpt") /\ UNCHANGED pane
    BY <1>1, <1>2, <2>1, <2>2, <2>3, <2>4 DEF Frame, Touches
  <2>5. CASE Go(w, "poll") /\ SetPane(v.task, v.step, v.try, "asking")
    <3>1. /\ Others(w) /\ worker'[w].task = v.task /\ Local(worker'[w])
          /\ worker'[w].pc = "poll"
      BY <1>1, <1>2, <2>1, <2>5
    <3>2. /\ pane' \in [Tasks \X Steps \X Corrections -> PaneStates]
          /\ pane'[t, s, n] = "asking"
          /\ \A u \in Tasks, r \in Steps, m \in Corrections :
               ~(u = t /\ r = s /\ m = n) => pane'[u, r, m] = pane[u, r, m]
      BY <2>3, <2>5, <2>7
    <3>3. Touches(w)
      BY <2>1, <2>2, <3>1, <3>2 DEF Touches
    <3>4. UNCHANGED <<verdict, hitlVars, envVars>>
      OBVIOUS
    <3> QED
      BY <2>1, <3>1, <3>3, <3>4 DEF Frame
  <2>6. CASE Go(w, "giveup") /\ SetPane(v.task, v.step, v.try, "none")
    BY <1>1, <1>2, <2>1, <2>2, <2>3, <2>6, <2>7 DEF Frame, Touches
  <2> QED
    BY <2>4, <2>5, <2>6
<1>9. CASE SawExit(w)
  BY <1>9, <1>0, SawExitEffect, TouchesPane DEF Frame, Local, SawExit
<1>10. CASE RenewLease(w)
  <2>1. Others(w) /\ worker'[w] = v
    BY <1>0, <1>10 DEF RenewLease, Others
  <2> QED
    BY <1>10, <2>1, TouchesNothing DEF Frame, RenewLease, TInv, Locals
<1>11. CASE PollFailed(w)
  BY <1>11, <1>0, <1>1, <1>2, TouchesPane DEF Frame, PollFailed
<1>12. CASE StopOrLoss(w)
  BY <1>12, <1>0, <1>1, <1>2, TouchesNothing DEF Frame, StopOrLoss, AfterSuspension
<1>13. CASE ReadSuspended(w)
  BY <1>13, <1>0, ReadSuspendedEffect, TouchesNothing DEF Frame, Local, ReadSuspended
<1>14. CASE ReadSuccess(w)
  BY <1>14, <1>0, ReadSuccessEffect, TouchesNothing DEF Frame, Local, ReadSuccess
<1>15. CASE ReadFailure(w)
  BY <1>15, <1>0, ReadFailureEffect, TouchesNothing DEF Frame, Local, ReadFailure
<1>16. CASE Park(w)
  <2>1. Touches(w)
    BY <1>16, <1>0, <1>2, TouchesStatus DEF Park
  <2> QED
    BY <1>16, <1>0, <1>1, <1>2, <2>1 DEF Frame, Park, AfterSuspension
<1>17. CASE GiveUp(w)
  <2>1. Touches(w)
    BY <1>17, <1>0, <1>2, TouchesStatus DEF GiveUp
  <2> QED
    BY <1>17, <1>0, <1>1, <1>2, <2>1 DEF Frame, GiveUp
<1>18. CASE StaleHead(w)
  <2>1. Touches(w)
    BY <1>18, <1>0, <1>2, TouchesStatus DEF StaleHead
  <2> QED
    BY <1>18, <1>0, <1>1, <1>2, <2>1 DEF Frame, StaleHead
<1>19. CASE Checkpoint(w)
  BY <1>19, <1>0, <1>1, <1>2, TouchesNothing DEF Frame, Checkpoint
<1>20. CASE FinishStep(w)
  <2>1. Touches(w)
    BY <1>20, <1>0, <1>2, TouchesStatus DEF FinishStep
  <2> QED
    BY <1>20, <1>0, <2>1, FinishStepEffect DEF Frame, Local, FinishStep
<1>21. CASE CompleteTask(w)
  BY <1>21, <1>0, <1>1, <1>2, TouchesNothing DEF Frame, CompleteTask
<1>22. CASE FailTask(w)
  <2>1. v.then \in {"loop", "off"}
    BY <1>0 DEF Worker
  <2> QED
    BY <1>22, <1>0, <1>1, <1>2, <2>1, TouchesNothing DEF Frame, FailTask, AfterFailure
<1>23. CASE AwaitVerdict(w)
  <2>1. v.pc = "await" /\ UNCHANGED <<status, verdict, pane, hitlVars, envVars>>
    BY <1>23 DEF AwaitVerdict
  <2>2. Go(w, "loop") \/ Go(w, "error") \/ \E answer : Decide(w, answer)
    BY <1>23 DEF AwaitVerdict
  <2>3. CASE \E answer : Decide(w, answer)
    BY <1>0, <2>1, <2>3, DecideEffect, TouchesNothing DEF Frame, Local
  <2> QED
    BY <1>1, <1>2, <2>1, <2>2, <2>3, TouchesNothing DEF Frame
<1> HIDE DEF Free, Fresh, AtStep
<1> QED
  BY <1>3, <1>4, <1>5, <1>6, <1>7, <1>8, <1>9, <1>10, <1>11, <1>12, <1>13, <1>14, <1>15,
     <1>16, <1>17, <1>18, <1>19, <1>20, <1>21, <1>22, <1>23 DEF WorkerStep

-----------------------------------------------------------------------------
(* Type correctness                                                        *)

\* TypeOK beside the queue and the workers.
DataOK ==
  /\ status \in [Tasks \X Steps -> Statuses]
  /\ verdict \in [Tasks \X Steps -> HumanVerdicts \cup {None}]
  /\ pane \in [Tasks \X Steps \X Corrections -> PaneStates]
  /\ suspending \subseteq Tasks \X Steps
  /\ card \subseteq Tasks \X Steps
  /\ sink \subseteq [task : Tasks, step : Steps, verdict : HumanVerdicts,
                     recorded : BOOLEAN]
  /\ up \in BOOLEAN
  /\ resuming \subseteq Tasks
  /\ left \in [crash : 0..Crashes, stop : 0..Stops, continue : 0..Continues]

WorkersOK == worker \in [Workers -> Worker] /\ Locals

LEMMA TInvParts == TInv <=> QP!FenceInv /\ DataOK /\ WorkersOK
<1>1. QP!FenceInv => Q!TypeOK
  BY SameProcedures DEF QP!FenceInv, QP!IInv
<1> QED
  BY <1>1 DEF TInv, TypeOK, DataOK, WorkersOK

LEMMA QueueTypeNext == QP!TypeOK' => Q!TypeOK'
BY DEF Q!TypeOK, QP!TypeOK, Q!Task, QP!Task, Q!Run, QP!Run, Q!Ckpt, QP!Ckpt,
       Q!Wait, QP!Wait, Q!Call, QP!Call, Q!Attempts, QP!Attempts, Q!States, QP!States,
       Q!Live, QP!Live, Q!Terminal, QP!Terminal

LEMMA TInvPartsNext == QP!FenceInv' /\ DataOK' /\ WorkersOK' => TInv'
<1>1. QP!FenceInv' => Q!TypeOK'
  BY QueueTypeNext DEF QP!FenceInv, QP!IInv
<1> QED
  BY <1>1 DEF TInv, TypeOK, DataOK, WorkersOK

\* A new call of run_workflow.
LEMMA BeginEffect ==
  ASSUME TInv, NEW w \in Workers, NEW t \in Tasks, Become(w, Begin(t))
  PROVE  /\ Others(w) /\ worker'[w].pc = "loop" /\ worker'[w].task = t
         /\ Local(worker'[w])
<1>1. Begin(t) \in Worker /\ Begin(t).pc = "loop" /\ Begin(t).task = t
  BY BeginFields
<1>2. worker \in [Workers -> Worker]
  BY DEF TInv, TypeOK
<1>3. Others(w) /\ worker'[w] = Begin(t)
  BY <1>1, <1>2, BecomeEffect
<1> QED
  BY <1>1, <1>3 DEF Local, Free, Fresh, AtStep

LEMMA OthersKeepTypes ==
  ASSUME TInv, NEW w \in Workers, Others(w), Local(worker'[w])
  PROVE  WorkersOK'
BY DEF TInv, Locals, Others, WorkersOK

\* The worker's part: all workers are off after a crash.
LEMMA WorkersStep ==
  ASSUME TInv, [Next]_vars
  PROVE  WorkersOK'
<1>1. CASE \E w \in Workers : WorkerStep(w)
  BY <1>1, WorkerFrame, OthersKeepTypes DEF Frame
<1>2. CASE \E w \in Workers, t \in Tasks : Dispatch(w, t) \/ ResumeTask(w, t)
  BY <1>2, BeginEffect, OthersKeepTypes DEF Dispatch, ResumeTask
<1>3. CASE Crash
  <2>1. Off \in Worker /\ Off.pc = "off"
    BY BeginFields
  <2>2. worker' = [w \in Workers |-> Off]
    BY <1>3 DEF Crash
  <2> QED
    BY <2>1, <2>2 DEF WorkersOK, Locals, Local, Free, AtStep
<1>4. CASE UNCHANGED worker
  BY <1>4 DEF TInv, TypeOK, WorkersOK, Locals
<1>5. CASE \E t \in Tasks, s \in Steps : SessionStep(t, s) \/ HitlStep(t, s)
  BY <1>4, <1>5 DEF SessionStep, HitlStep, GuardCheck, CommandEnds, SuspendStep, Answer,
                    CardExpires
<1>6. CASE \/ \E x \in sink : RecordVerdict(x) \/ EmitVerdict(x)
           \/ \E t \in Tasks : Stop(t)
           \/ Continue \/ Restart \/ DbWrites \/ Tick \/ UNCHANGED vars
  BY <1>4, <1>6 DEF RecordVerdict, EmitVerdict, Stop, Continue, Restart, DbWrites, Tick, vars
<1> QED
  BY <1>1, <1>2, <1>3, <1>5, <1>6 DEF Next

LEMMA LeftFields ==
  ASSUME NEW l \in [crash : 0..Crashes, stop : 0..Stops, continue : 0..Continues]
  PROVE  /\ l.crash \in 0..Crashes /\ l.stop \in 0..Stops /\ l.continue \in 0..Continues
         /\ l.crash > 0 => [l EXCEPT !.crash = @ - 1] \in
              [crash : 0..Crashes, stop : 0..Stops, continue : 0..Continues]
         /\ l.stop > 0 => [l EXCEPT !.stop = @ - 1] \in
              [crash : 0..Crashes, stop : 0..Stops, continue : 0..Continues]
         /\ l.continue > 0 => [l EXCEPT !.continue = @ - 1] \in
              [crash : 0..Crashes, stop : 0..Stops, continue : 0..Continues]
<1>1. l.crash \in 0..Crashes /\ l.stop \in 0..Stops /\ l.continue \in 0..Continues
  OBVIOUS
<1>2. /\ l.crash > 0 => l.crash - 1 \in 0..Crashes
      /\ l.stop > 0 => l.stop - 1 \in 0..Stops
      /\ l.continue > 0 => l.continue - 1 \in 0..Continues
  BY <1>1, EngineAssumption
<1> QED
  BY <1>1, <1>2, Zenon

LEMMA DataStep ==
  ASSUME TInv, [Next]_vars
  PROVE  DataOK'
<1>0. DataOK
  BY TInvParts
<1>1. CASE \E w \in Workers : WorkerStep(w)
  BY <1>0, <1>1, WorkerFrame DEF Frame, Touches, DataOK, hitlVars, envVars
<1>2. CASE \E w \in Workers, t \in Tasks : Dispatch(w, t) \/ ResumeTask(w, t)
  BY <1>0, <1>2 DEF Dispatch, ResumeTask, DataOK, hitlVars, envVars
<1>3. ASSUME NEW t \in Tasks, NEW s \in Steps, NEW n \in Corrections,
             GuardCheck(t, s, n) \/ CommandEnds(t, s, n)
      PROVE  DataOK'
  <2>1. PICK p \in PaneStates : SetPane(t, s, n, p)
    <3>1. CASE GuardCheck(t, s, n)
      <4>1. /\ SetPane(t, s, n, "working") \/ SetPane(t, s, n, "bad")
            /\ {"working", "bad"} \subseteq PaneStates
        BY <3>1 DEF GuardCheck, PaneStates, Endings
      <4> QED
        BY <4>1
    <3>2. CASE CommandEnds(t, s, n)
      BY <3>2 DEF CommandEnds, PaneStates
    <3> QED
      BY <1>3, <3>1, <3>2
  <2>2. pane' \in [Tasks \X Steps \X Corrections -> PaneStates]
    BY <1>0, <2>1 DEF SetPane, DataOK
  <2>3. suspending' \subseteq Tasks \X Steps
    BY <1>0, <1>3 DEF GuardCheck, CommandEnds, DataOK, hitlVars
  <2>4. UNCHANGED <<status, verdict, card, sink, envVars>>
    BY <1>3 DEF GuardCheck, CommandEnds, hitlVars
  <2> QED
    BY <1>0, <2>2, <2>3, <2>4 DEF DataOK, envVars
<1>4. ASSUME NEW t \in Tasks, NEW s \in Steps, SuspendStep(t, s)
      PROVE  DataOK'
  <2>1. "SUSPENDED" \in Statuses
    BY DEF Statuses
  <2>2. status' \in [Tasks \X Steps -> Statuses]
    BY <1>0, <1>4, <2>1, SetStatusEffect DEF SuspendStep, DataOK
  <2> QED
    BY <1>0, <1>4, <2>2 DEF SuspendStep, DataOK, envVars
<1>5. ASSUME NEW t \in Tasks, NEW s \in Steps, NEW v \in Verdicts,
             Answer(t, s, v)
      PROVE  DataOK'
  <2>1. v \in HumanVerdicts
    BY EngineAssumption
  <2>2. [task |-> t, step |-> s, verdict |-> v, recorded |-> FALSE]
          \in [task : Tasks, step : Steps, verdict : HumanVerdicts, recorded : BOOLEAN]
    BY <2>1
  <2> QED
    BY <1>0, <1>5, <2>2 DEF Answer, DataOK, envVars
<1>6. CASE \E t \in Tasks, s \in Steps : SessionStep(t, s) \/ HitlStep(t, s)
  <2>1. ASSUME NEW t \in Tasks, NEW s \in Steps, CardExpires(t, s)
        PROVE  DataOK'
    BY <1>0, <2>1 DEF CardExpires, DataOK, envVars
  <2> QED
    BY <1>3, <1>4, <1>5, <1>6, <2>1 DEF SessionStep, HitlStep
<1>7. ASSUME NEW x \in sink, RecordVerdict(x)
      PROVE  DataOK'
  <2>1. /\ x \in [task : Tasks, step : Steps, verdict : HumanVerdicts, recorded : BOOLEAN]
        /\ x.task \in Tasks /\ x.step \in Steps /\ x.verdict \in HumanVerdicts
    BY <1>0 DEF DataOK
  <2>2. verdict' \in [Tasks \X Steps -> HumanVerdicts \cup {None}]
    BY <1>0, <1>7, <2>1 DEF RecordVerdict, DataOK
  <2>3. [x EXCEPT !.recorded = TRUE]
          \in [task : Tasks, step : Steps, verdict : HumanVerdicts, recorded : BOOLEAN]
    BY <2>1
  <2> QED
    BY <1>0, <1>7, <2>2, <2>3 DEF RecordVerdict, DataOK, envVars
<1>8. CASE \E x \in sink : EmitVerdict(x)
  BY <1>0, <1>8 DEF EmitVerdict, DataOK, envVars
<1>9. ASSUME NEW t \in Tasks, Stop(t)
      PROVE  DataOK'
  <2>1. PICK s \in Steps : SetStatus(t, s, "STOPPED")
    BY <1>9 DEF Stop
  <2>2. status' \in [Tasks \X Steps -> Statuses]
    BY <1>0, <2>1, SetStatusEffect DEF DataOK, Statuses
  <2>3. left' \in [crash : 0..Crashes, stop : 0..Stops, continue : 0..Continues]
    BY <1>0, <1>9, LeftFields DEF Stop, DataOK
  <2> QED
    BY <1>0, <1>9, <2>2, <2>3 DEF Stop, DataOK, hitlVars
<1>10. CASE Continue
  <2>1. left' \in [crash : 0..Crashes, stop : 0..Stops, continue : 0..Continues]
    BY <1>0, <1>10, LeftFields DEF Continue, DataOK
  <2> QED
    BY <1>0, <1>10, <2>1 DEF Continue, Resumable, DataOK, hitlVars
<1>11. CASE Crash
  <2>1. left' \in [crash : 0..Crashes, stop : 0..Stops, continue : 0..Continues]
    BY <1>0, <1>11, LeftFields DEF Crash, DataOK
  <2>2. pane' \in [Tasks \X Steps \X Corrections -> PaneStates]
    BY <1>0, <1>11 DEF Crash, DataOK, PaneStates
  <2> QED
    BY <1>0, <1>11, <2>1, <2>2 DEF Crash, DataOK
<1>12. CASE Restart \/ DbWrites \/ Tick \/ UNCHANGED vars
  BY <1>0, <1>12 DEF Restart, Resumable, DbWrites, Tick, vars, DataOK, hitlVars, envVars
<1> QED
  BY <1>1, <1>2, <1>6, <1>7, <1>8, <1>9, <1>10, <1>11, <1>12 DEF Next

LEMMA TInvStep == TInv /\ [Next]_vars => TInv'
BY QueueInvStep, DataStep, WorkersStep, TInvPartsNext

LEMMA TInvInit == Init => TInv
<1> SUFFICES ASSUME Init PROVE TInv
  OBVIOUS
<1>1. QP!FenceInv
  <2>1. QP!Init
    BY SameProcedures DEF Init
  <2> QED
    BY <2>1, QP!InitIInv, QueueConstants
    DEF QP!Init, QP!FenceInv, QP!Fenced, QP!NoCkpt, QP!NoTask
<1>2. WorkersOK
  <2>1. Off \in Worker /\ Off.pc = "off"
    BY BeginFields
  <2> QED
    BY <2>1 DEF Init, WorkersOK, Locals, Local, Free, AtStep
<1>3. DataOK
  <2>1. left \in [crash : 0..Crashes, stop : 0..Stops, continue : 0..Continues]
    BY EngineAssumption DEF Init
  <2> QED
    BY <2>1 DEF Init, DataOK, Statuses, PaneStates
<1> QED
  BY <1>1, <1>2, <1>3, TInvParts

LEMMA TInvAlways == Spec => []TInv
BY TInvInit, TInvStep, PTL DEF Spec

\* In every state the tables, the overlay, the sessions and every worker's local
\* state have their types, whatever crashes and stale calls do.
THEOREM TypeCorrect == Spec => []TypeOK
<1>1. TInv => TypeOK
  BY DEF TInv
<1> QED
  BY <1>1, TInvAlways, PTL

-----------------------------------------------------------------------------
(* Which steps write a checkpoint, send one on its way, or emit an event   *)

WritesCkpt ==
  \/ \E w \in Workers : AwaitVerdict(w)
  \/ \E x \in sink : EmitVerdict(x)
  \/ DbWrites

LEMMA CkptKept ==
  ASSUME TInv, [Next]_vars
  PROVE  \/ /\ UNCHANGED <<ckpt, latest, event>>
            /\ writing' \subseteq writing \/ \E w \in Workers : Checkpoint(w)
         \/ WritesCkpt
<1>1. CASE \E w \in Workers : WorkerStep(w)
  <2>1. PICK w \in Workers : WorkerStep(w)
    BY <1>1
  <2>2. CASE Claim(w)
    BY <2>2, ClaimEffect DEF Q!ClaimTask
  <2>3. CASE ClaimNone(w) \/ RenewLease(w) \/ Checkpoint(w) \/ CompleteTask(w) \/ FailTask(w)
    BY <2>3 DEF ClaimNone, RenewLease, Checkpoint, CompleteTask, FailTask, queueVars,
                Q!ClaimNothing, Q!FailRun, Q!ExtendClaim, Q!CheckpointCall, Q!CompleteRun
  <2>4. CASE UNCHANGED queueVars
    BY <2>4 DEF queueVars
  <2>5. CASE AwaitVerdict(w)
    BY <2>5 DEF WritesCkpt
  <2> QED
    BY <2>1, <2>2, <2>3, <2>4, <2>5
    DEF WorkerStep, KillStaleSessions, CheckTerminal, ResumePoint, StartStep, LaunchStep,
        SawExit, PollFailed, StopOrLoss, ReadSuspended, ReadSuccess, ReadFailure, Park,
        GiveUp, StaleHead, FinishStep
<1>2. CASE \E w \in Workers, t \in Tasks : Dispatch(w, t) \/ ResumeTask(w, t)
  BY <1>2 DEF Dispatch, ResumeTask, Q!SpawnTask, Q!ExpireLease, queueVars
<1>3. CASE \E t \in Tasks, s \in Steps : SessionStep(t, s) \/ HitlStep(t, s)
  BY <1>3 DEF SessionStep, HitlStep, GuardCheck, CommandEnds, SuspendStep, Answer,
              CardExpires, queueVars
<1>4. CASE \E x \in sink : RecordVerdict(x) \/ EmitVerdict(x)
  BY <1>4 DEF RecordVerdict, WritesCkpt, queueVars
<1>5. CASE (\E t \in Tasks : Stop(t)) \/ Continue \/ Crash \/ Restart \/ UNCHANGED vars
  BY <1>5 DEF Stop, Continue, Crash, Restart, queueVars, vars
<1>6. CASE Tick
  BY <1>6 DEF Tick, Q!Tick
<1> QED
  BY <1>1, <1>2, <1>3, <1>4, <1>5, <1>6 DEF Next, WritesCkpt


-----------------------------------------------------------------------------
(* Guarded steps                                                           *)

EventsHuman == \A t \in Tasks : event[t] \in HumanVerdicts \cup {None}

\* As long as no verdict on the step was recorded its command does not run, so
\* nothing that follows from a run of the command has happened either.
Unapproved(t, s) ==
  /\ ckpt[t][s].payload # "COMPLETED"
  /\ \A c \in writing : ~(c.task = t /\ c.step = s)
  /\ \A n \in Corrections : pane[t, s, n] \notin {"working", "ok"}
  /\ \A w \in Workers : worker[w].task = t /\ worker[w].step = s =>
       /\ worker[w].pc # "ckpt"
       /\ worker[w].pc = "status" => worker[w].seen # "ok"

GInv ==
  /\ EventsHuman
  /\ \A t \in Tasks, s \in Guarded \ Manual : verdict[t, s] = None => Unapproved(t, s)

LEMMA VerdictsKept ==
  ASSUME TInv, [Next]_vars, NEW t \in Tasks, NEW s \in Steps, verdict'[t, s] = None
  PROVE  verdict[t, s] = None
<1>1. CASE \E x \in sink : RecordVerdict(x)
  <2>1. PICK x \in sink : RecordVerdict(x)
    BY <1>1
  <2>2. x.verdict \in HumanVerdicts /\ x.task \in Tasks /\ x.step \in Steps
        /\ verdict \in [Tasks \X Steps -> HumanVerdicts \cup {None}]
    BY DEF TInv, TypeOK
  <2>3. x.verdict # None
    BY <2>2, EngineAssumption DEF CkptValues
  <2> QED
    BY <2>1, <2>2, <2>3 DEF RecordVerdict
<1>2. CASE UNCHANGED verdict
  BY <1>2
<1>3. CASE \E w \in Workers : WorkerStep(w)
  BY <1>2, <1>3, WorkerFrame DEF Frame
<1>4. CASE ~\E w \in Workers : WorkerStep(w)
  BY <1>1, <1>2, <1>4
  DEF Next, Dispatch, ResumeTask, SessionStep, HitlStep, GuardCheck, CommandEnds,
      SuspendStep, Answer, CardExpires, EmitVerdict, Stop, Continue, Crash, Restart,
      DbWrites, Tick, vars
<1> QED
  BY <1>3, <1>4

\* What leads a worker to a checkpoint, and to the exit it has seen.
LEMMA ReachesCkpt ==
  ASSUME TInv, NEW w \in Workers, WorkerStep(w), worker'[w].pc \in {"ckpt", "status"}
  PROVE  LET v == worker[w]  u == worker'[w] IN
         /\ u.step = v.step /\ u.task = v.task /\ v.task \in Tasks /\ v.step \in Steps
         /\ v.try \in Corrections
         /\ u.pc = "ckpt" => \/ v.step \in Manual
                             \/ v.pc = "status" /\ v.seen = "ok"
         /\ u.pc = "status" => v.pc = "poll" /\ u.seen = pane[v.task, v.step, v.try]
<1> DEFINE v == worker[w]
<1>0. /\ worker \in [Workers -> Worker] /\ v \in Worker
      /\ v.pc \notin Free => v.task \in Tasks
      /\ v.pc \in AtStep => v.step \in Steps
      /\ v.try \in Corrections
  BY DEF TInv, TypeOK, Locals, Local, Worker
<1>1. ASSUME NEW p \in Pcs, Go(w, p)
      PROVE  worker'[w].pc = p /\ Like(worker'[w], v)
  BY <1>0, <1>1, GoEffect
<1>2. /\ {"claim", "off", "error", "check", "loop", "launch", "complete", "ckpt", "poll",
          "giveup", "lost", "await", "stale", "fail", "final"} \subseteq Pcs
  BY DEF Pcs, Free
<1>3. CASE \/ KillStaleSessions(w) \/ ClaimNone(w) \/ CheckTerminal(w) \/ StartStep(w)
           \/ StopOrLoss(w) \/ Park(w) \/ GiveUp(w) \/ StaleHead(w) \/ PollFailed(w)
           \/ Checkpoint(w) \/ CompleteTask(w)
  BY <1>1, <1>2, <1>3 DEF KillStaleSessions, ClaimNone, CheckTerminal, StartStep,
     StopOrLoss, Park, GiveUp, StaleHead, PollFailed, Checkpoint, CompleteTask, AfterSuspension
<1>4. CASE FailTask(w)
  BY <1>0, <1>1, <1>2, <1>4 DEF FailTask, AfterFailure, Worker
<1>5. CASE Claim(w) \/ ResumePoint(w) \/ ReadSuspended(w) \/ ReadFailure(w) \/ FinishStep(w)
  BY <1>5, ClaimEffect, ResumePointEffect, ReadSuspendedEffect, ReadFailureEffect,
     FinishStepEffect
<1>6. CASE AwaitVerdict(w)
  BY <1>1, <1>2, <1>6, DecideEffect DEF AwaitVerdict
<1>7. CASE RenewLease(w)
  BY <1>7 DEF RenewLease
<1>8. CASE LaunchStep(w)
  BY <1>0, <1>1, <1>2, <1>8 DEF LaunchStep, Like, AtStep, Free
<1>9. CASE SawExit(w)
  BY <1>0, <1>9, SawExitEffect DEF AtStep, Free
<1>10. CASE ReadSuccess(w)
  BY <1>0, <1>10, ReadSuccessEffect DEF ReadSuccess, AtStep, Free
<1> QED
  BY <1>3, <1>4, <1>5, <1>6, <1>7, <1>8, <1>9, <1>10 DEF WorkerStep

SessionMoves(t, s, n) == GuardCheck(t, s, n) \/ CommandEnds(t, s, n)

SessionChange(t, s, n) ==
  /\ pane[t, s, n] \in {"asking", "working"}
  /\ pane'[t, s, n] = "working" => pane[t, s, n] = "asking" /\ up /\ Allowed(t, s)
  /\ pane'[t, s, n] \in Endings \cup {"working"}
  /\ pane[t, s, n] = "asking" => pane'[t, s, n] \in {"working", "bad"}
  /\ \A u \in Tasks, r \in Steps, m \in Corrections :
       ~(u = t /\ r = s /\ m = n) => pane'[u, r, m] = pane[u, r, m]

\* What a session's own step does to it.
LEMMA SessionEffect ==
  ASSUME TInv, NEW t \in Tasks, NEW s \in Steps, NEW n \in Corrections,
         SessionMoves(t, s, n)
  PROVE  SessionChange(t, s, n)
<1>1. <<t, s, n>> \in Tasks \X Steps \X Corrections
      /\ pane \in [Tasks \X Steps \X Corrections -> PaneStates]
  BY DEF TInv, TypeOK
<1>2. ASSUME NEW p, SetPane(t, s, n, p)
      PROVE  /\ pane'[t, s, n] = p
             /\ \A u \in Tasks, r \in Steps, m \in Corrections :
                  ~(u = t /\ r = s /\ m = n) => pane'[u, r, m] = pane[u, r, m]
  BY <1>1, <1>2 DEF SetPane
<1>3. CASE GuardCheck(t, s, n)
  <2>1. pane[t, s, n] = "asking"
    BY <1>3 DEF GuardCheck
  <2>2. CASE up /\ Allowed(t, s)
    <3>1. SetPane(t, s, n, "working")
      BY <1>3, <2>2 DEF GuardCheck
    <3> QED
      BY <1>2, <2>1, <2>2, <3>1 DEF Endings, SessionChange
  <2>3. CASE ~(up /\ Allowed(t, s))
    <3>1. SetPane(t, s, n, "bad")
      BY <1>3, <2>3 DEF GuardCheck
    <3>2. /\ pane'[t, s, n] = "bad"
          /\ \A u \in Tasks, r \in Steps, m \in Corrections :
               ~(u = t /\ r = s /\ m = n) => pane'[u, r, m] = pane[u, r, m]
      BY <1>2, <3>1
    <3> QED
      BY <2>1, <3>2 DEF Endings, SessionChange
  <2> QED
    BY <2>2, <2>3
<1>4. CASE CommandEnds(t, s, n)
  <2>1. PICK r \in Endings : SetPane(t, s, n, r)
    BY <1>4 DEF CommandEnds
  <2>2. pane[t, s, n] = "working"
    BY <1>4 DEF CommandEnds
  <2> QED
    BY <1>2, <2>1, <2>2 DEF Endings, SessionChange
<1> QED
  BY <1>3, <1>4 DEF SessionMoves

\* The steps that change a session: its worker's, its own, and a crash.
LEMMA PaneKept ==
  ASSUME TInv, [Next]_vars
  PROVE  \/ \E w \in Workers : WorkerStep(w)
         \/ \E t \in Tasks, s \in Steps, n \in Corrections :
              SessionMoves(t, s, n) /\ UNCHANGED worker
         \/ Crash
         \/ UNCHANGED pane
BY DEF SessionMoves, Next, Dispatch, ResumeTask, SessionStep, HitlStep, GuardCheck, CommandEnds,
      SuspendStep, Answer, CardExpires, RecordVerdict, EmitVerdict, Stop, Continue, Restart,
      DbWrites, Tick, vars

LEMMA CommandsAllowed ==
  ASSUME TInv, [Next]_vars, NEW t \in Tasks, NEW s \in Steps, NEW n \in Corrections,
         pane'[t, s, n] \in {"working", "ok"}
  PROVE  pane[t, s, n] \in {"working", "ok"} \/ Allowed(t, s)
<1>1. CASE \E w \in Workers : WorkerStep(w)
  BY <1>1, WorkerFrame DEF Frame, Touches
<1>2. ASSUME NEW u \in Tasks, NEW r \in Steps, NEW m \in Corrections,
             SessionMoves(u, r, m)
      PROVE  pane[t, s, n] \in {"working", "ok"} \/ Allowed(t, s)
  <2>1. CASE u = t /\ r = s /\ m = n
    BY <1>2, <2>1, SessionEffect DEF SessionChange
  <2>2. CASE ~(u = t /\ r = s /\ m = n)
    <3>1. SessionChange(u, r, m)
      BY <1>2, SessionEffect
    <3> QED
      BY <2>2, <3>1 DEF SessionChange
  <2> QED
    BY <2>1, <2>2
<1>3. CASE Crash
  <2>1. pane' = pane \/ pane' = [x \in DOMAIN pane |-> "none"]
    BY <1>3 DEF Crash
  <2>2. <<t, s, n>> \in DOMAIN pane
    BY DEF TInv, TypeOK
  <2> QED
    BY <2>1, <2>2
<1> QED
  BY <1>1, <1>2, <1>3, PaneKept

\* The four ways a checkpoint's payload comes about.
LEMMA CkptChanges ==
  ASSUME TInv, EventsHuman, [Next]_vars, NEW t \in Tasks, NEW s \in Steps
  PROVE  \/ ckpt'[t][s] = ckpt[t][s]
         \/ ckpt'[t][s].payload \in HumanVerdicts
         \/ \E c \in writing : /\ c.task = t /\ c.step = s /\ c.saw # None
                               /\ QP!CheckpointWrite(c)
<1>0. ckpt \in [Tasks -> [Steps -> QP!Ckpt]]
  BY SameProcedures DEF TInv, TypeOK, QP!TypeOK
<1>1. ASSUME NEW u, NEW a, NEW r, NEW p, QP!WriteCkpt(u, a, r, p)
      PROVE  \/ ckpt'[t][s] = ckpt[t][s]
             \/ u = t /\ r = s /\ ckpt'[t][s].payload = p
  BY <1>0, <1>1 DEF QP!WriteCkpt
<1>2. CASE \E w \in Workers : AwaitVerdict(w)
  <2>1. PICK w \in Workers : AwaitVerdict(w)
    BY <1>2
  <2> DEFINE u == worker[w].task
             a == worker[w].attempt
             r == worker[w].step
  <2>2. u \in Tasks /\ a \in Attempts /\ r \in Steps
    BY <2>1 DEF AwaitVerdict, TInv, Locals, Local, Free, Fresh, AtStep
  <2>3. \/ UNCHANGED ckpt
        \/ Q!AwaitResolved(u, a, r, u)
    BY <2>1 DEF AwaitVerdict, queueVars, Q!AwaitTimedOut, Q!AwaitSuspend
  <2>4. CASE Q!AwaitResolved(u, a, r, u)
    <3>1. event[u] # None /\ QP!WriteCkpt(u, a, r, event[u])
      BY <2>2, <2>4, SameRunCalls DEF QP!AwaitResolved
    <3>2. event[u] \in HumanVerdicts
      BY <2>2, <3>1 DEF EventsHuman
    <3> QED
      BY <1>1, <3>1, <3>2
  <2> QED
    BY <2>3, <2>4
<1>3. CASE \E x \in sink : EmitVerdict(x)
  <2>1. PICK x \in sink : EmitVerdict(x)
    BY <1>3
  <2>2. x.task \in Tasks /\ x.verdict \in HumanVerdicts /\ x.verdict \in CkptValues
    BY DEF TInv, TypeOK, CkptValues
  <2>3. UNCHANGED ckpt \/ QP!EmitEvent(x.task, x.verdict)
    BY <2>1, <2>2, SameProcedures DEF EmitVerdict, queueVars
  <2>4. CASE QP!EmitEvent(x.task, x.verdict)
    <3>1. CASE \E y \in QP!Woken(x.task) : y.task = t /\ y.step = s
      <4>1. ckpt'[t][s] = [owner |-> (CHOOSE y \in QP!Woken(x.task) :
                                        y.task = t /\ y.step = s).attempt,
                           payload |-> x.verdict]
        BY <2>4, <3>1 DEF QP!EmitEvent
      <4> QED
        BY <2>2, <4>1
    <3>2. CASE ~\E y \in QP!Woken(x.task) : y.task = t /\ y.step = s
      BY <2>4, <3>2 DEF QP!EmitEvent
    <3> QED
      BY <3>1, <3>2
  <2> QED
    BY <2>3, <2>4
<1>4. CASE DbWrites
  <2>1. PICK c \in writing : QP!CheckpointRead(c) \/ QP!CheckpointWrite(c)
    BY <1>4, SameProcedures DEF DbWrites
  <2>2. CASE QP!CheckpointRead(c)
    BY <2>2 DEF QP!CheckpointRead
  <2>3. CASE QP!CheckpointWrite(c)
    BY <1>1, <2>3 DEF QP!CheckpointWrite
  <2> QED
    BY <2>1, <2>2, <2>3
<1> QED
  BY <1>2, <1>3, <1>4, CkptKept DEF WritesCkpt

\* The calls in flight after a step.
LEMMA CallsInFlight ==
  ASSUME TInv, [Next]_vars, NEW c \in writing'
  PROVE  \/ \E d \in writing : /\ c.task = d.task /\ c.step = d.step
                               /\ c.attempt = d.attempt /\ c.payload = d.payload
         \/ \E w \in Workers :
              /\ Checkpoint(w) /\ worker[w].pc = "ckpt"
              /\ c.task = worker[w].task /\ c.step = worker[w].step
              /\ c.attempt = worker[w].attempt /\ c.payload = "COMPLETED"
<1>0. writing \subseteq QP!Call
  BY SameProcedures DEF TInv, TypeOK, QP!TypeOK
<1>1. CASE writing' \subseteq writing
  BY <1>1
<1>2. CASE \E w \in Workers : Checkpoint(w)
  <2>1. PICK w \in Workers : Checkpoint(w)
    BY <1>2
  <2>2. worker[w].pc = "ckpt"
    BY <2>1 DEF Checkpoint
  <2>3. CASE Q!CheckpointCall(worker[w].task, worker[w].attempt, worker[w].step, "COMPLETED")
    BY <2>1, <2>2, <2>3 DEF Q!CheckpointCall
  <2> QED
    BY <1>1, <2>1, <2>3 DEF Checkpoint, queueVars
<1>3. CASE DbWrites
  <2>1. PICK d \in writing : QP!CheckpointRead(d) \/ QP!CheckpointWrite(d)
    BY <1>3, SameProcedures DEF DbWrites
  <2>2. CASE QP!CheckpointRead(d)
    <3>1. c \in writing \/ c = [d EXCEPT !.saw = ckpt[d.task][d.step].owner]
      BY <2>2 DEF QP!CheckpointRead
    <3>2. d \in QP!Call
      BY <1>0
    <3>3. LET e == [d EXCEPT !.saw = ckpt[d.task][d.step].owner] IN
          /\ e.task = d.task /\ e.step = d.step /\ e.attempt = d.attempt
          /\ e.payload = d.payload
      BY <3>2 DEF QP!Call
    <3> QED
      BY <3>1, <3>3
  <2>3. CASE QP!CheckpointWrite(d)
    BY <1>1, <2>3 DEF QP!CheckpointWrite
  <2> QED
    BY <2>1, <2>2, <2>3
<1>4. CASE \E w \in Workers : AwaitVerdict(w)
  BY <1>1, <1>4 DEF AwaitVerdict, queueVars, Q!AwaitResolved, Q!AwaitTimedOut, Q!AwaitSuspend
<1>5. CASE \E x \in sink : EmitVerdict(x)
  BY <1>1, <1>5 DEF EmitVerdict, queueVars, Q!EmitEvent
<1> QED
  BY <1>1, <1>2, <1>3, <1>4, <1>5, CkptKept DEF WritesCkpt

LEMMA EventsStep ==
  ASSUME TInv, EventsHuman, [Next]_vars
  PROVE  EventsHuman'
<1>1. CASE UNCHANGED event
  BY <1>1 DEF EventsHuman
<1>2. CASE \E x \in sink : EmitVerdict(x)
  <2>1. PICK x \in sink : EmitVerdict(x)
    BY <1>2
  <2>2. x.task \in Tasks /\ x.verdict \in HumanVerdicts
    BY DEF TInv, TypeOK
  <2>3. event \in [Tasks -> CkptValues \cup {None}]
    BY SameProcedures DEF TInv, TypeOK, QP!TypeOK
  <2> QED
    BY <1>1, <2>1, <2>2, <2>3 DEF EmitVerdict, queueVars, Q!EmitEvent, EventsHuman
<1>3. CASE \E w \in Workers : AwaitVerdict(w)
  BY <1>1, <1>3 DEF AwaitVerdict, queueVars, Q!AwaitResolved, Q!AwaitTimedOut, Q!AwaitSuspend
<1>4. CASE DbWrites
  BY <1>1, <1>4 DEF DbWrites, Q!CheckpointRead, Q!CheckpointWrite
<1> QED
  BY <1>1, <1>2, <1>3, <1>4, CkptKept DEF WritesCkpt

\* A step that no verdict was recorded on stays as it was.
LEMMA UnapprovedStep ==
  ASSUME TInv, EventsHuman, [Next]_vars, NEW t \in Tasks, NEW s \in Guarded \ Manual,
         verdict[t, s] = None, Unapproved(t, s)
  PROVE  Unapproved(t, s)'
<1>0. s \in Steps /\ ~Allowed(t, s)
  BY EngineAssumption DEF Allowed, CkptValues, HumanVerdicts
<1>1. ckpt'[t][s].payload # "COMPLETED"
  <2>1. \/ ckpt'[t][s] = ckpt[t][s]
        \/ ckpt'[t][s].payload \in HumanVerdicts
        \/ \E c \in writing : c.task = t /\ c.step = s
    BY <1>0, CkptChanges
  <2> QED
    BY <2>1 DEF Unapproved, HumanVerdicts
<1>2. ASSUME NEW c \in writing', c.task = t, c.step = s
      PROVE  FALSE
  <2>1. \/ \E d \in writing : d.task = t /\ d.step = s
        \/ \E w \in Workers : /\ worker[w].pc = "ckpt" /\ worker[w].task = t
                               /\ worker[w].step = s
    BY <1>2, CallsInFlight
  <2> QED
    BY <2>1 DEF Unapproved
<1>3. \A n \in Corrections : pane'[t, s, n] \notin {"working", "ok"}
  BY <1>0, CommandsAllowed DEF Unapproved
<1>4. ASSUME NEW w \in Workers, worker'[w].task = t, worker'[w].step = s
      PROVE  /\ worker'[w].pc # "ckpt"
             /\ worker'[w].pc = "status" => worker'[w].seen # "ok"
  <2>1. CASE WorkerStep(w)
    BY <1>0, <1>4, <2>1, ReachesCkpt DEF Unapproved
  <2>2. CASE worker'[w] = worker[w]
    BY <1>4, <2>2 DEF Unapproved
  <2>3. CASE \E x \in Workers : WorkerStep(x) /\ x # w
    BY <2>2, <2>3, WorkerFrame DEF Frame, Others
  <2>4. CASE \E x \in Workers, u \in Tasks : Dispatch(x, u) \/ ResumeTask(x, u)
    BY <2>2, <2>4, BeginEffect DEF Dispatch, ResumeTask, Others
  <2>5. CASE Crash
    <3>1. worker'[w].pc = "off"
      BY <2>5, BeginFields DEF Crash
    <3> QED
      BY <3>1
  <2>6. CASE UNCHANGED worker
    BY <2>2, <2>6
  <2> QED
    BY <2>1, <2>3, <2>4, <2>5, <2>6
    DEF Next, SessionStep, HitlStep, GuardCheck, CommandEnds, SuspendStep, Answer,
        CardExpires, RecordVerdict, EmitVerdict, Stop, Continue, Restart, DbWrites, Tick, vars
<1> QED
  BY <1>1, <1>2, <1>3, <1>4 DEF Unapproved

LEMMA GInvStep == TInv /\ GInv /\ [Next]_vars => GInv'
<1> SUFFICES ASSUME TInv, GInv, [Next]_vars PROVE GInv'
  OBVIOUS
<1>1. EventsHuman'
  BY EventsStep DEF GInv
<1>2. ASSUME NEW t \in Tasks, NEW s \in Guarded \ Manual, verdict'[t, s] = None
      PROVE  Unapproved(t, s)'
  <2>1. s \in Steps
    BY EngineAssumption
  <2>2. verdict[t, s] = None
    BY <1>2, <2>1, VerdictsKept
  <2> QED
    BY <2>2, UnapprovedStep DEF GInv
<1> QED
  BY <1>1, <1>2 DEF GInv

LEMMA GInvInit == Init => GInv
<1> SUFFICES ASSUME Init PROVE GInv
  OBVIOUS
<1>1. /\ \A t \in Tasks : event[t] = None
      /\ writing = {}
      /\ \A t \in Tasks, s \in Steps : ckpt[t][s].payload = None
  BY DEF Init, Q!Init, Q!NoCkpt
<1>2. Off.pc = "off"
  BY BeginFields
<1>3. /\ \A t \in Tasks, s \in Steps, n \in Corrections : pane[t, s, n] = "none"
      /\ \A w \in Workers : worker[w].pc = "off"
  BY <1>2 DEF Init
<1>4. None # "COMPLETED" /\ Guarded \subseteq Steps
  BY EngineAssumption DEF CkptValues
<1> QED
  BY <1>1, <1>3, <1>4 DEF GInv, EventsHuman, Unapproved

\* A step that needs approval has its COMPLETED checkpoint only after a verdict on
\* a card of that very step, for every schedule, crash, retry and Continue: the
\* GuardCheck is never got around.
THEOREM GuardedStepsApprovedAlways == Spec => []GuardedStepsApproved
<1>1. Guarded \ Manual \subseteq Steps
  BY EngineAssumption
<1>2. GInv => GuardedStepsApproved
  BY <1>1 DEF GInv, Unapproved, GuardedStepsApproved
<1> QED
  BY <1>2, GInvInit, GInvStep, TInvAlways, PTL DEF Spec

-----------------------------------------------------------------------------
(* One worker for each task.  Continue reconciles tasks that still have a  *)
(* worker, so what follows holds as long as nobody asks for it.            *)

Busy(w, t) == worker[w].task = t /\ worker[w].pc \notin Free

OneWorker ==
  \A t \in Tasks : \A w, x \in Workers : Busy(w, t) /\ Busy(x, t) => w = x

\* A task that still waits for the cold start to give it a worker has none.
ResumingIdle == \A t \in resuming, w \in Workers : ~Busy(w, t)

\* Nothing of the daemon is left while it is down.
DownIdle ==
  ~up => /\ \A w \in Workers : worker[w].pc \in Free
         /\ resuming = {} /\ sink = {} /\ suspending = {} /\ card = {}

\* Nobody works on a task that was not spawned, and nothing shows a trace of it.
Unborn(t) ==
  /\ \A w \in Workers : ~Busy(w, t)
  /\ t \notin resuming
  /\ \A s \in Steps : status[t, s] = "none" /\ <<t, s>> \notin suspending
  /\ \A s \in Steps, n \in Corrections : pane[t, s, n] = "none"

UInv ==
  /\ OneWorker /\ ResumingIdle /\ DownIdle
  /\ \A t \in Tasks : task[t].state = "none" => Unborn(t)

LEMMA AttemptsKept ==
  ASSUME TInv, [Next]_vars, NEW t \in Tasks
  PROVE  /\ task[t].attempts \in Nat /\ task'[t].attempts \in Nat
         /\ task[t].attempts <= task'[t].attempts
<1>1. CASE QP!Next \/ UNCHANGED queueVars
  BY <1>1, QueueConstants, QP!AttemptsGrow DEF TInv, QP!FenceInv, queueVars, QP!vars
<1>2. CASE CallsLost
  BY <1>2 DEF CallsLost, TInv, QP!FenceInv, QP!IInv, QP!TypeOK, QP!Task
<1> QED
  BY <1>1, <1>2, QueueStep DEF QueueMoves

\* A task that was spawned stays so.
LEMMA StaysSpawned ==
  ASSUME TInv, [Next]_vars, NEW t \in Tasks, task'[t].state = "none"
  PROVE  task[t].state = "none"
<1>1. task'[t].attempts = 0
  BY QueueInvStep DEF QP!FenceInv, QP!IInv, QP!Tables, QP!Numbering
<1>2. task[t].attempts = 0
  BY <1>1, AttemptsKept
<1> QED
  BY <1>2 DEF TInv, QP!FenceInv, QP!IInv, QP!Tables, QP!Numbering

\* The parts of UInv that a step leaves alone when it starts no worker.
LEMMA UnbornKept ==
  ASSUME TInv, UInv, [Next]_vars,
         \A w \in Workers, t \in Tasks : Busy(w, t)' => Busy(w, t),
         resuming' \subseteq resuming,
         \A t \in Tasks, s \in Steps :
           /\ status[t, s] = "none" => task[t].state # "none" \/ status'[t, s] = "none"
           /\ <<t, s>> \in suspending' \ suspending => task[t].state # "none",
         \A t \in Tasks, s \in Steps, n \in Corrections :
           pane[t, s, n] = "none" => task[t].state # "none" \/ pane'[t, s, n] = "none",
         DownIdle'
  PROVE  UInv'
<1>1. OneWorker' /\ ResumingIdle'
  <2>1. resuming \subseteq Tasks
    BY DEF TInv, TypeOK
  <2> QED
    BY <2>1 DEF UInv, OneWorker, ResumingIdle
<1>2. ASSUME NEW t \in Tasks, task'[t].state = "none"
      PROVE  Unborn(t)'
  <2>1. task[t].state = "none"
    BY <1>2, StaysSpawned
  <2>2. Unborn(t)
    BY <2>1 DEF UInv
  <2> QED
    BY <2>1, <2>2 DEF Unborn
<1> QED
  BY <1>1, <1>2 DEF UInv

LEMMA UWorkerStep ==
  ASSUME TInv, UInv, NEW w \in Workers, WorkerStep(w)
  PROVE  UInv'
<1>0. [Next]_vars
  BY DEF Next
<1>1. Frame(w) /\ worker[w].task \in Tasks
  BY WorkerFrame DEF Frame, TInv, Locals, Local
<1>2. Busy(w, worker[w].task) /\ up
  BY <1>1 DEF Frame, Busy, UInv, DownIdle
<1>3. task[worker[w].task].state # "none"
  BY <1>1, <1>2 DEF UInv, Unborn
<1>4. \A x \in Workers, t \in Tasks : Busy(x, t)' => Busy(x, t)
  BY <1>1 DEF Frame, Others, Busy
<1>5. DownIdle' /\ resuming' = resuming /\ suspending' = suspending
  BY <1>1, <1>2 DEF Frame, DownIdle, hitlVars, envVars
<1>6. \A t \in Tasks, s \in Steps :
        status[t, s] = "none" => task[t].state # "none" \/ status'[t, s] = "none"
  BY <1>1, <1>3 DEF Frame, Touches
<1>7. \A t \in Tasks, s \in Steps, n \in Corrections :
        pane[t, s, n] = "none" => task[t].state # "none" \/ pane'[t, s, n] = "none"
  <2>1. ASSUME NEW t \in Tasks, NEW s \in Steps, NEW n \in Corrections
        PROVE  \/ pane'[t, s, n] = pane[t, s, n]
               \/ pane'[t, s, n] = "none"
               \/ t = worker[w].task
    <3>1. Touches(w)
      BY <1>1 DEF Frame
    <3> QED
      BY <3>1 DEF Touches
  <2> QED
    BY <1>3, <2>1
<1> QED
  BY <1>0, <1>4, <1>5, <1>6, <1>7, UnbornKept

\* A worker begins, for a task that has none.
LEMMA UBeginStep ==
  ASSUME TInv, UInv, NEW w \in Workers, NEW t \in Tasks,
         Dispatch(w, t) \/ ResumeTask(w, t)
  PROVE  UInv'
<1>0. [Next]_vars
  BY DEF Next
<1>1. /\ Others(w) /\ worker'[w].pc = "loop" /\ worker'[w].task = t
      /\ worker[w].pc \in Free
  BY BeginEffect DEF Dispatch, ResumeTask
<1>2. /\ \A x \in Workers : ~Busy(x, t)
      /\ up /\ UNCHANGED <<status, pane, up, suspending, card, sink>>
      /\ resuming' \subseteq resuming /\ t \notin resuming'
  <2>1. CASE Dispatch(w, t)
    BY <2>1 DEF Dispatch, Q!SpawnTask, UInv, Unborn, hitlVars, envVars
  <2>2. CASE ResumeTask(w, t)
    BY <2>2 DEF ResumeTask, UInv, ResumingIdle, DownIdle, hitlVars
  <2> QED
    BY <2>1, <2>2
<1>3. task'[t].state # "none"
  <2>1. CASE Dispatch(w, t)
    <3>1. task \in [Tasks -> QP!Task]
      BY SameProcedures DEF TInv, TypeOK, QP!TypeOK
    <3> QED
      BY <2>1, <3>1 DEF Dispatch, Q!SpawnTask
  <2>2. CASE ResumeTask(w, t)
    <3>1. task[t].state # "none"
      BY <2>2 DEF ResumeTask, UInv, Unborn
    <3> QED
      BY <1>0, <3>1, StaysSpawned
  <2> QED
    BY <2>1, <2>2
<1>4. \A x \in Workers, u \in Tasks : Busy(x, u)' => Busy(x, u) \/ (x = w /\ u = t)
  BY <1>1 DEF Others, Busy
<1>5. OneWorker' /\ ResumingIdle' /\ DownIdle'
  <2>1. resuming \subseteq Tasks
    BY DEF TInv, TypeOK
  <2> QED
    BY <1>2, <1>4, <2>1 DEF UInv, OneWorker, ResumingIdle, DownIdle
<1>6. ASSUME NEW u \in Tasks, task'[u].state = "none"
      PROVE  Unborn(u)'
  <2>1. Unborn(u) /\ u # t
    BY <1>0, <1>3, <1>6, StaysSpawned DEF UInv
  <2> QED
    BY <1>2, <1>4, <2>1 DEF Unborn
<1> QED
  BY <1>5, <1>6 DEF UInv

LEMMA USessionStep ==
  ASSUME TInv, UInv, NEW t \in Tasks, NEW s \in Steps, NEW n \in Corrections,
         SessionMoves(t, s, n)
  PROVE  UInv'
<1>0. [Next]_vars
  BY DEF Next, SessionStep, SessionMoves
<1>1. SessionChange(t, s, n)
  BY SessionEffect
<1>2. UNCHANGED <<status, worker, card, sink, up, resuming>>
  BY DEF SessionMoves, GuardCheck, CommandEnds, hitlVars, envVars
<1>3. /\ suspending' \subseteq suspending \cup {<<t, s>>}
      /\ ~up => suspending' = suspending
  BY DEF SessionMoves, GuardCheck, CommandEnds, hitlVars
<1>4. task[t].state # "none"
  BY <1>1 DEF SessionChange, UInv, Unborn
<1>5. \A u \in Tasks, r \in Steps, m \in Corrections :
        pane[u, r, m] = "none" => task[u].state # "none" \/ pane'[u, r, m] = "none"
  BY <1>1, <1>4 DEF SessionChange
<1>6. DownIdle'
  BY <1>2, <1>3 DEF DownIdle, UInv
<1>7. \A u \in Tasks, r \in Steps :
        <<u, r>> \in suspending' \ suspending => task[u].state # "none"
  BY <1>3, <1>4
<1>8. \A w \in Workers, u \in Tasks : Busy(w, u)' => Busy(w, u)
  BY <1>2 DEF Busy
<1> QED
  BY <1>0, <1>2, <1>5, <1>6, <1>7, <1>8, UnbornKept

LEMMA UHitlStep ==
  ASSUME TInv, UInv,
         \/ \E t \in Tasks, s \in Steps : HitlStep(t, s)
         \/ \E x \in sink : RecordVerdict(x) \/ EmitVerdict(x)
         \/ \E t \in Tasks : Stop(t)
  PROVE  UInv'
<1>0. [Next]_vars
  BY DEF Next
<1>1. /\ UNCHANGED <<worker, pane, up, resuming>> /\ up
      /\ suspending' \subseteq suspending
  BY DEF HitlStep, SuspendStep, Answer, CardExpires, RecordVerdict, EmitVerdict, Stop,
         UInv, DownIdle, envVars, hitlVars
<1>2. ASSUME NEW u \in Tasks, NEW r \in Steps, status[u, r] = "none"
      PROVE  task[u].state # "none" \/ status'[u, r] = "none"
  <2>0. status \in [Tasks \X Steps -> Statuses]
    BY DEF TInv, TypeOK
  <2>1. CASE \E t \in Tasks, s \in Steps : SuspendStep(t, s)
    <3>1. PICK t \in Tasks, s \in Steps : SuspendStep(t, s)
      BY <2>1
    <3>2. task[t].state # "none"
      BY <3>1 DEF SuspendStep, UInv, Unborn
    <3>3. u # t => status'[u, r] = status[u, r]
      BY <2>0, <3>1 DEF SuspendStep, SetStatus
    <3> QED
      BY <1>2, <3>2, <3>3
  <2>2. CASE \E t \in Tasks : Stop(t)
    <3>1. PICK t \in Tasks, s \in Steps :
            status[t, s] \in {"STARTING", "RUNNING"} /\ SetStatus(t, s, "STOPPED")
      BY <2>2 DEF Stop
    <3>2. ~(u = t /\ r = s)
      BY <1>2, <3>1
    <3> QED
      BY <1>2, <2>0, <3>1, <3>2 DEF SetStatus
  <2>3. CASE UNCHANGED status
    BY <1>2, <2>3
  <2> QED
    BY <2>1, <2>2, <2>3 DEF HitlStep, Answer, CardExpires, RecordVerdict, EmitVerdict
<1>3. \A w \in Workers, u \in Tasks : Busy(w, u)' => Busy(w, u)
  BY <1>1 DEF Busy
<1> QED
  BY <1>0, <1>1, <1>2, <1>3, UnbornKept DEF DownIdle

LEMMA UCrashStep ==
  ASSUME TInv, UInv, Crash \/ Restart
  PROVE  UInv'
<1>0. [Next]_vars
  BY DEF Next
<1>1. CASE Crash
  <2>1. \A w \in Workers : worker'[w].pc \in Free
    BY <1>1, BeginFields DEF Crash, Free
  <2>2. DownIdle' /\ status' = status /\ suspending' = {} /\ resuming' = {}
    BY <1>1, <2>1 DEF Crash, DownIdle
  <2>3. \A t \in Tasks, s \in Steps, n \in Corrections :
          pane[t, s, n] = "none" => pane'[t, s, n] = "none"
    <3>1. pane' = pane \/ pane' = [x \in DOMAIN pane |-> "none"]
      BY <1>1 DEF Crash
    <3>2. DOMAIN pane = Tasks \X Steps \X Corrections
      BY DEF TInv, TypeOK
    <3> QED
      BY <3>1, <3>2
  <2>4. \A w \in Workers, t \in Tasks : Busy(w, t)' => Busy(w, t)
    BY <2>1 DEF Busy
  <2> QED
    BY <1>0, <2>2, <2>3, <2>4, UnbornKept
<1>2. CASE Restart
  <2>1. \A w \in Workers : worker[w].pc \in Free
    BY <1>2 DEF Restart, UInv, DownIdle
  <2>2. /\ UNCHANGED <<status, pane, worker, suspending, task>> /\ up' = TRUE
        /\ resuming' = Resumable
    BY <1>2 DEF Restart, hitlVars, queueVars
  <2>3. OneWorker' /\ ResumingIdle' /\ DownIdle'
    BY <2>1, <2>2 DEF OneWorker, ResumingIdle, DownIdle, Busy
  <2>4. ASSUME NEW t \in Tasks, task[t].state = "none"
        PROVE  Unborn(t)'
    <3>1. Unborn(t)
      BY <2>4 DEF UInv
    <3>2. t \notin Resumable
      BY <3>1 DEF Unborn, Resumable
    <3> QED
      BY <2>2, <3>1, <3>2 DEF Unborn, Busy
  <2> QED
    BY <2>2, <2>3, <2>4 DEF UInv
<1> QED
  BY <1>1, <1>2

LEMMA NoContinue == ASSUME TInv, Continues = 0 PROVE ~Continue
BY DEF TInv, TypeOK, Continue

LEMMA UInvStep ==
  ASSUME Continues = 0, TInv, UInv, [Next]_vars
  PROVE  UInv'
<1>1. CASE DbWrites \/ Tick \/ UNCHANGED vars
  <2>1. UNCHANGED <<status, pane, worker, suspending, resuming, up, sink, card>>
    BY <1>1 DEF DbWrites, Tick, vars, hitlVars, envVars
  <2> QED
    BY <2>1, UnbornKept DEF Busy, DownIdle, UInv
<1> QED
  BY <1>1, UWorkerStep, UBeginStep, USessionStep, UHitlStep, UCrashStep, NoContinue
  DEF Next, SessionStep, SessionMoves

LEMMA UInvInit == Init => UInv
<1> SUFFICES ASSUME Init PROVE UInv
  OBVIOUS
<1>1. \A w \in Workers : worker[w].pc \in Free
  BY BeginFields DEF Init, Free
<1> QED
  BY <1>1 DEF Init, UInv, OneWorker, ResumingIdle, DownIdle, Unborn, Busy

-----------------------------------------------------------------------------
(* No task has two sessions at work: kill_stale_sessions comes before the  *)
(* first launch of every worker, and reaches every server that a crash may *)
(* have left a session on.                                                 *)

\* Session n of step s of task t runs its command, or waits for the Tool Guard.
Live(t, s, n) == pane[t, s, n] \in {"asking", "working"}

Single(t) ==
  \A s, r \in Steps, n, m \in Corrections :
    Live(t, s, n) /\ Live(t, r, m) => s = r /\ n = m

\* Worker w polls session n of step s of task t.
Polls(w, t, s, n) ==
  /\ worker[w].pc = "poll" /\ worker[w].task = t
  /\ worker[w].step = s /\ worker[w].try = n

Polled(t) ==
  \A s \in Steps, n \in Corrections :
    Live(t, s, n) => \E w \in Workers : Polls(w, t, s, n)

\* What a crash has left, until a worker of the task has searched for it.
Leftover(t) ==
  /\ left.crash < Crashes
  /\ \A w \in Workers : Busy(w, t) => worker[w].pc = "loop"
  /\ Single(t)

SInv == \A t \in Tasks : Polled(t) \/ Leftover(t)

LEMMA PolledIsSingle ==
  ASSUME OneWorker, NEW t \in Tasks, Polled(t)
  PROVE  Single(t)
<1> SUFFICES ASSUME NEW s \in Steps, NEW r \in Steps, NEW n \in Corrections,
                    NEW m \in Corrections, Live(t, s, n), Live(t, r, m)
             PROVE  s = r /\ n = m
  BY DEF Single
<1>1. PICK w \in Workers : Polls(w, t, s, n)
  BY DEF Polled
<1>2. PICK x \in Workers : Polls(x, t, r, m)
  BY DEF Polled
<1>3. w = x
  BY <1>1, <1>2 DEF OneWorker, Busy, Polls, Free
<1> QED
  BY <1>1, <1>2, <1>3 DEF Polls

\* The worker of a task is the one that polls its session.
LEMMA OnlyItsWorkerPolls ==
  ASSUME OneWorker, NEW w \in Workers, NEW t \in Tasks, Busy(w, t), Polled(t),
         NEW s \in Steps, NEW n \in Corrections, Live(t, s, n)
  PROVE  Polls(w, t, s, n)
BY DEF Polled, OneWorker, Busy, Polls, Free

LEMMA KillsAll ==
  ASSUME TInv, NEW w \in Workers, KillStaleSessions(w), Sandboxed = {},
         NEW t, t = worker[w].task, NEW s \in Steps, NEW n \in Corrections
  PROVE  ~Live(t, s, n)'
<1>1. t \in Tasks /\ DOMAIN pane = Tasks \X Steps \X Corrections
  BY DEF TInv, TypeOK, Locals, Local, KillStaleSessions, Free
<1>2. <<t, s, n>> \in StaleSessions(t)
  BY <1>1 DEF StaleSessions
<1>3. pane' = [x \in DOMAIN pane |-> IF x \in StaleSessions(t) THEN "none" ELSE pane[x]]
  BY DEF KillStaleSessions
<1>4. pane'[t, s, n] = "none"
  BY <1>1, <1>2, <1>3
<1> QED
  BY <1>4 DEF Live

LEMMA LaunchEffect ==
  ASSUME TInv, NEW w \in Workers, LaunchStep(w)
  PROVE  worker'[w].step = worker[w].step /\ worker'[w].try = worker[w].try
<1>1. worker \in [Workers -> Worker] /\ "ckpt" \in Pcs /\ "poll" \in Pcs /\ "giveup" \in Pcs
  BY DEF TInv, TypeOK, Pcs
<1> QED
  BY <1>1, GoEffect DEF LaunchStep, Like

\* A worker's step leaves its own task polled.
LEMMA OwnSessions ==
  ASSUME Crashes = 0 \/ Sandboxed = {}, TInv, UInv, SInv,
         NEW w \in Workers, WorkerStep(w), NEW t, t = worker[w].task
  PROVE  Polled(t)'
<1> DEFINE v == worker[w]
<1>1. /\ Frame(w) /\ t \in Tasks /\ Busy(w, t) /\ OneWorker
  BY WorkerFrame DEF Frame, TInv, Locals, Local, Busy, UInv
<1>2. Touches(w) /\ worker'[w].task = t
  BY <1>1 DEF Frame
<1> SUFFICES ASSUME NEW s \in Steps, NEW n \in Corrections, Live(t, s, n)'
             PROVE  Polls(w, t, s, n)'
  BY <1>2 DEF Polled
<1>3. \/ Live(t, s, n)
      \/ v.pc = "launch" /\ worker'[w].pc = "poll" /\ s = v.step /\ n = v.try
  BY <1>1, <1>2 DEF Touches, Live
<1>4. CASE v.pc = "launch" /\ worker'[w].pc = "poll" /\ s = v.step /\ n = v.try
  <2>1. LaunchStep(w)
    BY <1>4 DEF WorkerStep, KillStaleSessions, Claim, ClaimNone, CheckTerminal,
      ResumePoint, StartStep, SawExit, RenewLease, PollFailed, StopOrLoss,
      ReadSuspended, ReadSuccess, ReadFailure, Park, GiveUp, StaleHead, Checkpoint,
      FinishStep, CompleteTask, FailTask, AwaitVerdict
  <2> QED
    BY <1>2, <1>4, <2>1, LaunchEffect DEF Polls
<1>5. CASE Live(t, s, n)
  <2>1. CASE KillStaleSessions(w)
    <3>1. Sandboxed # {} /\ Crashes = 0
      BY <2>1, KillsAll
    <3>2. left.crash \in 0..Crashes
      BY DEF TInv, TypeOK
    <3>3. Polled(t)
      BY <1>1, <3>1, <3>2 DEF SInv, Leftover
    <3>4. v.pc = "poll"
      BY <1>1, <1>5, <3>3, OnlyItsWorkerPolls DEF Polls
    <3> QED
      BY <2>1, <3>4 DEF KillStaleSessions
  <2>2. CASE v.pc # "loop"
    <3>1. Polled(t)
      BY <1>1, <2>2 DEF SInv, Leftover
    <3>2. Polls(w, t, s, n)
      BY <1>1, <1>5, <3>1, OnlyItsWorkerPolls
    <3>3. s = v.step /\ n = v.try /\ v.pc = "poll"
      BY <3>2 DEF Polls
    <3>4. CASE RenewLease(w)
      BY <3>2, <3>4 DEF RenewLease, Polls
    <3>5. CASE SawExit(w) \/ PollFailed(w)
      <4>1. pane' = [pane EXCEPT ![<<t, s, n>>] = "none"]
        BY <3>3, <3>5 DEF SawExit, PollFailed, SetPane
      <4>2. <<t, s, n>> \in DOMAIN pane
        BY <1>1 DEF TInv, TypeOK
      <4>3. pane'[t, s, n] = "none"
        BY <4>1, <4>2
      <4> QED
        BY <4>3 DEF Live
    <3> QED
      BY <3>3, <3>4, <3>5 DEF WorkerStep, KillStaleSessions, Claim, ClaimNone,
        CheckTerminal, ResumePoint, StartStep, LaunchStep, StopOrLoss,
        ReadSuspended, ReadSuccess, ReadFailure, Park, GiveUp, StaleHead, Checkpoint,
        FinishStep, CompleteTask, FailTask, AwaitVerdict
  <2> QED
    BY <2>1, <2>2 DEF WorkerStep, Claim, ClaimNone, CheckTerminal,
      ResumePoint, StartStep, LaunchStep, SawExit, RenewLease, PollFailed, StopOrLoss,
      ReadSuspended, ReadSuccess, ReadFailure, Park, GiveUp, StaleHead, Checkpoint,
      FinishStep, CompleteTask, FailTask, AwaitVerdict
<1> QED
  BY <1>3, <1>4, <1>5

\* The tasks whose worker does not move.
LEMMA OtherSessions ==
  ASSUME NEW t \in Tasks, Polled(t) \/ Leftover(t), left'.crash = left.crash,
         \A s \in Steps, n \in Corrections : Live(t, s, n)' => Live(t, s, n),
         \A w \in Workers : worker[w].pc \notin Free /\ worker[w].task = t =>
                              worker'[w] = worker[w],
         \A w \in Workers : Busy(w, t)' => Busy(w, t) \/ worker'[w].pc = "loop"
  PROVE  (Polled(t) \/ Leftover(t))'
<1>1. CASE Polled(t)
  <2> SUFFICES ASSUME NEW s \in Steps, NEW n \in Corrections, Live(t, s, n)'
               PROVE  \E w \in Workers : Polls(w, t, s, n)'
    BY DEF Polled
  <2>1. PICK w \in Workers : Polls(w, t, s, n)
    BY <1>1 DEF Polled
  <2> QED
    BY <2>1 DEF Polls, Free
<1>2. CASE Leftover(t)
  <2>1. Single(t)'
    BY <1>2 DEF Leftover, Single
  <2>2. \A w \in Workers : Busy(w, t)' => worker'[w].pc = "loop"
    BY <1>2 DEF Leftover, Busy
  <2> QED
    BY <1>2, <2>1, <2>2 DEF Leftover
<1> QED
  BY <1>1, <1>2

LEMMA SInvStep ==
  ASSUME Crashes = 0 \/ Sandboxed = {}, TInv, UInv, SInv, [Next]_vars
  PROVE  SInv'
<1>1. CASE \E w \in Workers : WorkerStep(w)
  <2>1. PICK w \in Workers : WorkerStep(w)
    BY <1>1
  <2>2. Frame(w) /\ Touches(w)
    BY <2>1, WorkerFrame DEF Frame
  <2>3. ASSUME NEW t \in Tasks, t # worker[w].task
        PROVE  (Polled(t) \/ Leftover(t))'
    <3>1. \A s \in Steps, n \in Corrections : Live(t, s, n)' => Live(t, s, n)
      BY <2>2, <2>3 DEF Touches, Live
    <3>2. \A x \in Workers : worker[x].task = t => worker'[x] = worker[x]
      BY <2>2, <2>3 DEF Frame, Others
    <3>3. \A x \in Workers : Busy(x, t)' => Busy(x, t)
      BY <2>2, <2>3 DEF Frame, Others, Busy
    <3>4. Polled(t) \/ Leftover(t)
      BY DEF SInv
    <3>5. left'.crash = left.crash
      BY <2>2 DEF Frame, envVars
    <3> QED
      BY <3>1, <3>2, <3>3, <3>4, <3>5, OtherSessions
  <2> QED
    BY <2>1, <2>3, OwnSessions DEF SInv
<1>2. CASE \E w \in Workers, t \in Tasks : Dispatch(w, t) \/ ResumeTask(w, t)
  <2>1. PICK w \in Workers, t \in Tasks : Dispatch(w, t) \/ ResumeTask(w, t)
    BY <1>2
  <2>2. Others(w) /\ worker'[w].pc = "loop" /\ worker[w].pc \in Free
        /\ UNCHANGED <<pane, left>>
    BY <2>1, BeginEffect DEF Dispatch, ResumeTask, envVars
  <2>3. ASSUME NEW u \in Tasks
        PROVE  (Polled(u) \/ Leftover(u))'
    <3>1. \A s \in Steps, n \in Corrections : Live(u, s, n)' => Live(u, s, n)
      BY <2>2 DEF Live
    <3>2. /\ \A x \in Workers : worker[x].pc \notin Free /\ worker[x].task = u =>
                worker'[x] = worker[x]
          /\ \A x \in Workers : Busy(x, u)' => Busy(x, u) \/ worker'[x].pc = "loop"
      BY <2>2 DEF Others, Busy
    <3>3. Polled(u) \/ Leftover(u)
      BY DEF SInv
    <3>4. left'.crash = left.crash
      BY <2>2
    <3> QED
      BY <3>1, <3>2, <3>3, <3>4, OtherSessions
  <2> QED
    BY <2>3 DEF SInv
<1>3. CASE Crash
  <2>1. \A w \in Workers : worker'[w].pc \in Free
    BY <1>3, BeginFields DEF Crash, Free
  <2>2. left'.crash < Crashes
    <3>1. left \in [crash : 0..Crashes, stop : 0..Stops, continue : 0..Continues]
      BY DEF TInv, TypeOK
    <3>2. left.crash \in 0..Crashes /\ left'.crash = left.crash - 1
      BY <1>3, <3>1 DEF Crash
    <3> QED
      BY <3>2, EngineAssumption
  <2>3. ASSUME NEW t \in Tasks
        PROVE  Leftover(t)'
    <3>1. Single(t)
      BY PolledIsSingle DEF SInv, Leftover, UInv
    <3>2. \A s \in Steps, n \in Corrections : Live(t, s, n)' => Live(t, s, n)
      <4>1. pane' = pane \/ pane' = [x \in DOMAIN pane |-> "none"]
        BY <1>3 DEF Crash
      <4>2. DOMAIN pane = Tasks \X Steps \X Corrections
        BY DEF TInv, TypeOK
      <4> QED
        BY <4>1, <4>2 DEF Live
    <3> QED
      BY <2>1, <2>2, <3>1, <3>2 DEF Leftover, Single, Busy
  <2> QED
    BY <2>3 DEF SInv
<1>4. CASE \E t \in Tasks, s \in Steps, n \in Corrections : SessionMoves(t, s, n)
  <2>1. PICK t \in Tasks, s \in Steps, n \in Corrections : SessionMoves(t, s, n)
    BY <1>4
  <2>2. SessionChange(t, s, n) /\ UNCHANGED <<worker, left>>
    BY <2>1, SessionEffect DEF SessionMoves, GuardCheck, CommandEnds, envVars
  <2>3. ASSUME NEW u \in Tasks
        PROVE  (Polled(u) \/ Leftover(u))'
    <3>1. \A r \in Steps, m \in Corrections : Live(u, r, m)' => Live(u, r, m)
      BY <2>2 DEF SessionChange, Live
    <3>2. /\ Polled(u) \/ Leftover(u)
          /\ \A x \in Workers : Busy(x, u)' => Busy(x, u)
      BY <2>2 DEF SInv, Busy
    <3> QED
      BY <2>2, <3>1, <3>2, OtherSessions
  <2> QED
    BY <2>3 DEF SInv
<1>5. CASE UNCHANGED <<pane, worker>> /\ left'.crash = left.crash
  <2>1. \A t \in Tasks : Polled(t)' = Polled(t)
    BY <1>5 DEF Polled, Live, Polls
  <2>2. \A t \in Tasks : Leftover(t)' = Leftover(t)
    BY <1>5 DEF Leftover, Single, Live, Busy
  <2> QED
    BY <2>1, <2>2 DEF SInv
<1>6. CASE \/ \E t \in Tasks : Stop(t)
           \/ Continue
  <2>1. left \in [crash : 0..Crashes, stop : 0..Stops, continue : 0..Continues]
    BY DEF TInv, TypeOK
  <2>2. left'.crash = left.crash
    BY <1>6, <2>1 DEF Stop, Continue
  <2> QED
    BY <1>5, <1>6, <2>2 DEF Stop, Continue
<1> QED
  BY <1>1, <1>2, <1>3, <1>4, <1>5, <1>6
  DEF Next, vars, SessionStep, SessionMoves, HitlStep, SuspendStep, Answer, CardExpires,
      RecordVerdict, EmitVerdict, Restart, DbWrites, Tick, envVars, hitlVars

LEMMA SInvInit == Init => SInv
<1> SUFFICES ASSUME Init, NEW t \in Tasks PROVE Polled(t)
  BY DEF SInv
<1> QED
  BY DEF Init, Polled, Live

LEMMA SInvExcludes == ASSUME TInv, UInv, SInv PROVE NoDoubleExecution
<1> SUFFICES ASSUME NEW t \in Tasks PROVE Cardinality(LivePanes(t)) <= 1
  BY DEF NoDoubleExecution
<1>1. Single(t)
  BY PolledIsSingle DEF SInv, Leftover, UInv
<1>2. \A x, y \in LivePanes(t) : x = y
  <2>1. ASSUME NEW x \in LivePanes(t)
        PROVE  \E s \in Steps, n \in Corrections : x = <<t, s, n>> /\ Live(t, s, n)
    <3>1. x \in Tasks \X Steps \X Corrections /\ x[1] = t
      BY DEF TInv, TypeOK, LivePanes
    <3>2. PICK u \in Tasks, s \in Steps, n \in Corrections : x = <<u, s, n>>
      BY <3>1
    <3>3. u = t
      BY <3>1, <3>2
    <3>4. pane[x] \in {"asking", "working"}
      BY DEF LivePanes
    <3> QED
      BY <3>2, <3>3, <3>4 DEF Live
  <2> QED
    BY <1>1, <2>1 DEF Single
<1>3. CASE LivePanes(t) = {}
  BY <1>3, FS_EmptySet
<1>4. CASE \E x \in LivePanes(t) : TRUE
  <2>1. PICK x \in LivePanes(t) : TRUE
    BY <1>4
  <2>2. LivePanes(t) = {x}
    BY <1>2, <2>1
  <2> QED
    BY <2>2, FS_Singleton
<1> QED
  BY <1>3, <1>4

\* A task never has two sessions at work (kill_stale_sessions), for any number of
\* tasks, workers, crashes, stops, failures and retries, as long as nobody asks for
\* Continue and no daemon crashes while a step runs in a sandbox of its own: those
\* servers kill_stale_sessions does not search.
THEOREM NoDoubleExecutionAlways ==
  ASSUME Continues = 0, Crashes = 0 \/ Sandboxed = {}
  PROVE  Spec => []NoDoubleExecution
<1> DEFINE I == UInv /\ SInv
<1>1. Init => I
  BY UInvInit, SInvInit
<1>2. TInv /\ I /\ [Next]_vars => I'
  BY UInvStep, SInvStep
<1>3. TInv /\ I => NoDoubleExecution
  BY SInvExcludes
<1> HIDE DEF I
<1> QED
  BY <1>1, <1>2, <1>3, TInvAlways, PTL DEF Spec

-----------------------------------------------------------------------------
(* What the calls of the engine do to the outcome and the rows of a task   *)

Active == {"pending", "sleeping", "running"}

\* The outcome of t stays as it is.
Same(t) == task'[t].state = task[t].state \/ (task[t].state \in Active /\ task'[t].state \in Active)

Fails(t) == task[t].state \in Active /\ task'[t].state = "failed"

SameOutcomes == \A t \in Tasks : Same(t)

OneFails == \E t \in Tasks : Fails(t) /\ \A u \in Tasks : u # t => Same(u)

\* No wait row of a task is for a step that had none.
WaitsStay ==
  \A x \in wait' : \E y \in wait : y.task = x.task /\ y.step = x.step

LEMMA FailedTask ==
  ASSUME NEW tk \in [Tasks -> QP!Task], NEW t \in Tasks, NEW a
  PROVE  LET tk2 == QP!TasksAfterFail(tk, t, a) IN
         /\ tk2[t].state \in {"pending", "failed"}
         /\ \A u \in Tasks : u # t => tk2[u] = tk[u]
BY DEF QP!TasksAfterFail, QP!RetryState

LEMMA NewestIsLive ==
  ASSUME QP!FenceInv, NEW t \in Tasks, NEW a \in Attempts, run[t][a].state \in Active
  PROVE  task[t].state \in Active /\ a = task[t].attempts
BY DEF QP!FenceInv, QP!IInv, QP!Tables, QP!Newest, QP!Live, Active, Attempts, QP!Attempts

LEMMA FailOutcome ==
  ASSUME QP!FenceInv, NEW t \in Tasks, NEW a \in Attempts, QP!FailRun(t, a)
  PROVE  (SameOutcomes \/ OneFails) /\ wait' \subseteq wait
<1>1. task \in [Tasks -> QP!Task]
  BY DEF QP!FenceInv, QP!IInv, QP!TypeOK
<1>2. task[t].state \in Active
  BY NewestIsLive DEF QP!FailRun, QP!CanFail, Active
<1>3. /\ task'[t].state \in {"pending", "failed"}
      /\ \A u \in Tasks : u # t => task'[u] = task[u]
  BY <1>1, FailedTask DEF QP!FailRun
<1>4. wait' \subseteq wait
  BY DEF QP!FailRun, QP!WaitsWithout
<1> QED
  BY <1>2, <1>3, <1>4 DEF SameOutcomes, OneFails, Same, Fails, Active

LEMMA LeasedTask ==
  ASSUME NEW tk \in [Tasks -> QP!Task], NEW rn, NEW wt, NEW t \in Tasks, NEW a \in Attempts,
         QP!Lease(tk, rn, wt, t, a)
  PROVE  /\ task'[t].state = "running" /\ task'[t].lastRun = a
         /\ \A u \in Tasks : u # t => task'[u] = tk[u]
         /\ tk[t].state \in Active
         /\ wait' \subseteq wt
<1>1. tk[t].state \in Active
  BY DEF QP!Lease, QP!DueRuns, QP!Live, Active
<1>2. wait' \subseteq wt
  BY DEF QP!Lease
<1> DEFINE k == [tk[t] EXCEPT !.state = "running", !.attempts = QP!Larger(tk[t].attempts, a),
                              !.lastRun = a]
<1>3. k.state = "running" /\ k.lastRun = a
  BY DEF QP!Task
<1>4. task' = [tk EXCEPT ![t] = k]
  BY DEF QP!Lease
<1> HIDE DEF k
<1> QED
  BY <1>1, <1>2, <1>3, <1>4

LEMMA ClaimOutcome ==
  ASSUME QP!FenceInv, NEW t \in Tasks, NEW a \in Attempts, QP!ClaimTask(t, a)
  PROVE  /\ SameOutcomes \/ OneFails
         /\ wait' \subseteq wait
         /\ task'[t].state = "running" /\ task'[t].lastRun = a
<1>1. task \in [Tasks -> QP!Task]
  BY DEF QP!FenceInv, QP!IInv, QP!TypeOK
<1>2. CASE QP!Lease(task, run, wait, t, a)
  <2>1. /\ task'[t].state = "running" /\ task'[t].lastRun = a
        /\ \A u \in Tasks : u # t => task'[u] = task[u]
        /\ task[t].state \in Active /\ wait' \subseteq wait
    BY <1>1, <1>2, LeasedTask
  <2> QED
    BY <2>1 DEF SameOutcomes, Same, Active
<1>3. CASE \E x \in QP!ExpiredRuns :
             QP!Lease(QP!TasksAfterFail(task, x[1], x[2]),
                      QP!RunsAfterFail(task, run, x[1], x[2]),
                      QP!WaitsWithout(wait, x[1], x[2]), t, a)
  <2>1. PICK x \in QP!ExpiredRuns :
             QP!Lease(QP!TasksAfterFail(task, x[1], x[2]),
                      QP!RunsAfterFail(task, run, x[1], x[2]),
                      QP!WaitsWithout(wait, x[1], x[2]), t, a)
    BY <1>3
  <2> DEFINE tk == QP!TasksAfterFail(task, x[1], x[2])
             rn == QP!RunsAfterFail(task, run, x[1], x[2])
             wt == QP!WaitsWithout(wait, x[1], x[2])
  <2>2. x[1] \in Tasks /\ x[2] \in Attempts /\ run[x[1]][x[2]].state = "running"
    BY DEF QP!ExpiredRuns, QP!Attempts, Attempts
  <2>3. task[x[1]].state \in Active
    BY <2>2, NewestIsLive DEF Active
  <2>4. /\ tk[x[1]].state \in {"pending", "failed"}
        /\ \A u \in Tasks : u # x[1] => tk[u] = task[u]
    BY <1>1, <2>2, FailedTask
  <2>5. tk \in [Tasks -> QP!Task]
    <3>1. QP!Tables(task, run, wait, event)
      BY DEF QP!FenceInv, QP!IInv
    <3>2. x[2] \in QP!Attempts /\ run[x[1]][x[2]].state \in {"running", "sleeping"}
      BY <2>2 DEF QP!Attempts, Attempts
    <3>3. QP!Tables(tk, rn, wt, event)
      BY <2>2, <3>1, <3>2, QueueConstants, QP!FailKeepsTables
    <3> QED
      BY <3>3 DEF QP!Tables, QP!Rows
  <2>6. wt \subseteq wait /\ QP!Lease(tk, rn, wt, t, a)
    BY <2>1 DEF QP!WaitsWithout
  <2> HIDE DEF tk, rn, wt
  <2>7. /\ task'[t].state = "running" /\ task'[t].lastRun = a
        /\ \A u \in Tasks : u # t => task'[u] = tk[u]
        /\ tk[t].state \in Active /\ wait' \subseteq wt
    BY <2>5, <2>6, LeasedTask
  <2>8. SameOutcomes \/ OneFails
    BY <2>2, <2>3, <2>4, <2>7 DEF SameOutcomes, OneFails, Same, Fails, Active
  <2> QED
    BY <2>6, <2>7, <2>8
<1> QED
  BY <1>2, <1>3 DEF QP!ClaimTask

\* A task that was just claimed waits for nothing, and the claimed run is its newest.
LEMMA ClaimedWaits ==
  ASSUME QP!FenceInv', NEW t \in Tasks, task'[t].state = "running"
  PROVE  /\ \A x \in wait' : x.task # t
         /\ task'[t].lastRun = task'[t].attempts
<1>1. /\ QP!Newest(task', run') /\ QP!WaitRows(run', wait') /\ QP!Numbering(task', run')
      /\ wait' \subseteq QP!Wait
  BY DEF QP!FenceInv, QP!IInv, QP!Tables, QP!Rows
<1>2. ASSUME NEW x \in wait', x.task = t
      PROVE  FALSE
  <2>1. x.attempt \in QP!Attempts /\ run'[t][x.attempt].state = "sleeping"
    BY <1>1, <1>2 DEF QP!WaitRows, QP!Wait
  <2> QED
    BY <1>1, <2>1 DEF QP!Newest, QP!Live
<1> QED
  BY <1>1, <1>2 DEF QP!Numbering

\* Sets a field of one row of task.
LEMMA SetsState ==
  ASSUME task \in [Tasks -> QP!Task], NEW t \in Tasks, NEW st,
         task' = [task EXCEPT ![t] = [@ EXCEPT !.state = st]]
  PROVE  task'[t].state = st /\ \A u \in Tasks : u # t => task'[u] = task[u]
<1> DEFINE k == [task[t] EXCEPT !.state = st]
<1>1. k.state = st
  BY DEF QP!Task
<1>2. task' = [task EXCEPT ![t] = k]
  OBVIOUS
<1> HIDE DEF k
<1> QED
  BY <1>1, <1>2

LEMMA SuspendOutcome ==
  ASSUME QP!FenceInv, NEW t \in Tasks, NEW a \in Attempts, NEW s \in Steps,
         QP!AwaitSuspend(t, a, s, t, HitlTimeout)
  PROVE  /\ SameOutcomes
         /\ \A x \in wait' : x \in wait \/ (x.task = t /\ x.step = s)
<1>1. task \in [Tasks -> QP!Task]
  BY DEF QP!FenceInv, QP!IInv, QP!TypeOK
<1>2. task[t].state \in Active
  BY NewestIsLive DEF QP!AwaitSuspend, QP!CanAwait, Active
<1>3. task'[t].state = "sleeping" /\ \A u \in Tasks : u # t => task'[u] = task[u]
  BY <1>1, SetsState DEF QP!AwaitSuspend
<1>4. \A x \in wait' : x \in wait \/ (x.task = t /\ x.step = s)
  BY DEF QP!AwaitSuspend
<1> QED
  BY <1>2, <1>3, <1>4 DEF SameOutcomes, Same, Active

LEMMA CompleteOutcome ==
  ASSUME QP!FenceInv, NEW t \in Tasks, NEW a \in Attempts, QP!CompleteRun(t, a)
  PROVE  /\ task[t].state \in Active /\ task'[t].state = "completed"
         /\ \A u \in Tasks : u # t => Same(u)
         /\ wait' \subseteq wait
<1>1. task \in [Tasks -> QP!Task]
  BY DEF QP!FenceInv, QP!IInv, QP!TypeOK
<1>2. task[t].state \in Active
  BY NewestIsLive DEF QP!CompleteRun, QP!CanComplete, Active
<1> DEFINE k == [task[t] EXCEPT !.state = "completed", !.lastRun = a]
<1>3. k.state = "completed"
  BY DEF QP!Task
<1>4. task' = [task EXCEPT ![t] = k]
  BY DEF QP!CompleteRun
<1> HIDE DEF k
<1>5. task'[t].state = "completed" /\ \A u \in Tasks : u # t => task'[u] = task[u]
  BY <1>1, <1>3, <1>4
<1>6. wait' \subseteq wait
  BY DEF QP!CompleteRun, QP!WaitsWithout
<1> QED
  BY <1>2, <1>5, <1>6 DEF Same

\* emit_event wakes what waits and writes the verdict where it waits.
LEMMA EmitOutcome ==
  ASSUME QP!FenceInv, NEW e \in Tasks, NEW p \in CkptValues, QP!EmitEvent(e, p)
  PROVE  /\ SameOutcomes /\ wait' \subseteq wait
         /\ \A t \in Tasks :
              \/ ckpt'[t] = ckpt[t] /\ latest'[t] = latest[t]
              \/ \E x \in wait :
                   /\ x.task = t /\ latest'[t] = x.step
         /\ \A t \in Tasks, s \in Steps :
              \/ ckpt'[t][s] = ckpt[t][s]
              \/ ckpt'[t][s].payload = p /\ \E x \in wait : x.task = t /\ x.step = s
<1>1. task \in [Tasks -> QP!Task] /\ ckpt \in [Tasks -> [Steps -> QP!Ckpt]]
      /\ wait \subseteq QP!Wait
  BY DEF QP!FenceInv, QP!IInv, QP!TypeOK
<1> DEFINE W == QP!Woken(e)
<1>2. \A x \in W : x \in wait /\ run[x.task][x.attempt].state = "sleeping"
  BY DEF QP!Woken
<1>3. ASSUME NEW t \in Tasks
      PROVE  Same(t)
  <2>1. CASE \E x \in W : x.task = t
    <3>1. PICK x \in W : x.task = t
      BY <2>1
    <3>2. x.attempt \in Attempts
      BY <1>1, <1>2 DEF QP!Wait, QP!Attempts, Attempts
    <3>3. task[t].state \in Active
      BY <1>2, <3>1, <3>2, NewestIsLive DEF Active
    <3>4. task'[t] = [task[t] EXCEPT !.state = "pending"]
      BY <2>1 DEF QP!EmitEvent
    <3>5. task'[t].state = "pending"
      BY <1>1, <3>4 DEF QP!Task
    <3> QED
      BY <3>3, <3>5 DEF Same, Active
  <2>2. CASE ~\E x \in W : x.task = t
    <3>1. task'[t] = task[t]
      BY <2>2 DEF QP!EmitEvent
    <3> QED
      BY <3>1 DEF Same
  <2> QED
    BY <2>1, <2>2
<1>4. wait' \subseteq wait
  BY DEF QP!EmitEvent
<1>5. ASSUME NEW t \in Tasks, NEW s \in Steps
      PROVE  \/ ckpt'[t][s] = ckpt[t][s]
             \/ ckpt'[t][s].payload = p /\ \E x \in wait : x.task = t /\ x.step = s
  <2>1. ckpt'[t][s] =
          IF \E x \in W : x.task = t /\ x.step = s
          THEN [owner |-> (CHOOSE x \in W : x.task = t /\ x.step = s).attempt,
                payload |-> p]
          ELSE ckpt[t][s]
    BY <1>1 DEF QP!EmitEvent
  <2> QED
    BY <1>2, <2>1
<1>6. ASSUME NEW t \in Tasks
      PROVE  \/ ckpt'[t] = ckpt[t] /\ latest'[t] = latest[t]
             \/ \E x \in wait : x.task = t /\ latest'[t] = x.step
  <2>1. CASE \E x \in W : x.task = t
    <3> DEFINE x == CHOOSE x \in W : x.task = t
    <3>1. x \in W /\ x.task = t
      BY <2>1
    <3>2. latest'[t] = x.step
      BY <2>1 DEF QP!EmitEvent
    <3> HIDE DEF x
    <3> QED
      BY <1>2, <3>1, <3>2
  <2>2. CASE ~\E x \in W : x.task = t
    <3>1. latest'[t] = latest[t]
      BY <2>2 DEF QP!EmitEvent
    <3>2. \A s \in Steps : ckpt'[t][s] = ckpt[t][s]
      BY <1>1, <2>2 DEF QP!EmitEvent
    <3>3. ckpt'[t] = [s \in Steps |-> ckpt'[t][s]] /\ ckpt[t] = [s \in Steps |-> ckpt[t][s]]
      BY <1>1 DEF QP!EmitEvent
    <3> QED
      BY <3>1, <3>2, <3>3
  <2> QED
    BY <2>1, <2>2
<1> QED
  BY <1>3, <1>4, <1>5, <1>6 DEF SameOutcomes

-----------------------------------------------------------------------------
(* Progress: the steps of a task are finished in order, and everything that *)
(* is under way for it is about the next one                                *)

Done(t, s)  == ckpt[t][s].payload = "COMPLETED"
InFlight(t) == \E c \in writing : c.task = t

\* The rows of task t, of which the first k steps are finished.
Table(t, k) ==
  /\ \A s \in Steps : Done(t, s) <=> s <= k
  /\ IF latest[t] = None THEN k = 0 ELSE latest[t] \in {k, k + 1}
  /\ \A x \in wait : x.task = t => x.step = k + 1
  /\ \A c \in writing : c.task = t => c.step = k + 1
  /\ task[t].state = "completed" => k = NumSteps

AtNext == {"start", "complete"} \cup (AtStep \ {"final"})

\* Where a worker of t stands then.
Place(t, k, w) ==
  LET v == worker[w] IN
  /\ v.pc \notin Fresh => /\ \A x \in wait : x.task # t
                          /\ \A s \in Steps : ckpt[t][s].owner <= v.attempt
  /\ v.pc \in AtNext => v.step = k + 1
  /\ v.pc = "complete" => k = NumSteps
  /\ v.pc = "final" => v.step = IF InFlight(t) THEN k + 1 ELSE k

Finishing(w, c) ==
  /\ worker[w].pc = "final"
  /\ worker[w].task = c.task /\ worker[w].attempt = c.attempt

\* The calls of set_checkpoint that are under way.
Calls(t) ==
  /\ \A c, d \in writing : c.task = t /\ d.task = t => c = d
  /\ \A c \in writing : c.task = t => c.payload = "COMPLETED"
  /\ InFlight(t) => \A x \in wait : x.task # t
  /\ \A c \in writing : c.task = t /\ up => \E w \in Workers : Finishing(w, c)

Progress(t, k) ==
  Table(t, k) /\ \A w \in Workers : Busy(w, t) => Place(t, k, w)

PInv ==
  \A t \in Tasks : /\ task[t].state # "cancelled"
                   /\ Calls(t)
                   /\ \E k \in 0..NumSteps : Progress(t, k)

\* A step that leaves the rows of t as they are, but for those it removes.
RowsKept(t) ==
  /\ ckpt'[t] = ckpt[t] /\ latest'[t] = latest[t]
  /\ \A x \in wait' : x.task = t => \E y \in wait : y.task = t /\ y.step = x.step
  /\ \A c \in writing' : c.task = t => c \in writing
  /\ \A c \in writing : c.task = t => c \in writing'
  /\ \A st \in {"completed", "cancelled"} : task'[t].state = st => task[t].state = st

LEMMA TableKept ==
  ASSUME NEW t, NEW k, RowsKept(t), Table(t, k)
  PROVE  Table(t, k)'
BY DEF RowsKept, Table, Done

LEMMA PlaceKept ==
  ASSUME NEW t, NEW k, NEW w, RowsKept(t), worker'[w] = worker[w], Place(t, k, w)
  PROVE  Place(t, k, w)'
<1>1. InFlight(t)' = InFlight(t)
  BY DEF RowsKept, InFlight
<1> QED
  BY <1>1 DEF RowsKept, Place

\* The task of no worker that moves.
LEMMA ProgressKept ==
  ASSUME NEW t \in Tasks, NEW k, RowsKept(t), Progress(t, k),
         \A w \in Workers : worker'[w] = worker[w] \/ ~Busy(w, t)' \/ worker'[w].pc \in Fresh
  PROVE  Progress(t, k)'
<1>1. Table(t, k)'
  BY TableKept DEF Progress
<1>2. ASSUME NEW w \in Workers, Busy(w, t)'
      PROVE  Place(t, k, w)'
  <2>1. CASE worker'[w] = worker[w]
    <3>1. Busy(w, t)
      BY <1>2, <2>1 DEF Busy
    <3> QED
      BY <2>1, <3>1, PlaceKept DEF Progress
  <2>2. CASE worker'[w].pc \in Fresh
    BY <2>2 DEF Place, Fresh, AtNext, AtStep
  <2> QED
    BY <1>2, <2>1, <2>2
<1> QED
  BY <1>1, <1>2 DEF Progress

LEMMA CallsKept ==
  ASSUME NEW t \in Tasks, RowsKept(t), Calls(t), up' => up,
         \A w \in Workers, c \in writing :
           c.task = t /\ up' /\ Finishing(w, c) => Finishing(w, c)'
  PROVE  Calls(t)'
<1>1. \A c \in writing' : c.task = t => c \in writing
  BY DEF RowsKept
<1>2. /\ \A c, d \in writing' : c.task = t /\ d.task = t => c = d
      /\ \A c \in writing' : c.task = t => c.payload = "COMPLETED"
  BY <1>1 DEF Calls
<1>3. InFlight(t)' => \A x \in wait' : x.task # t
  BY <1>1 DEF Calls, InFlight, RowsKept
<1>4. ASSUME NEW c \in writing', c.task = t, up'
      PROVE  \E w \in Workers : Finishing(w, c)'
  <2>1. c \in writing
    BY <1>1, <1>4
  <2>2. PICK w \in Workers : Finishing(w, c)
    BY <1>4, <2>1 DEF Calls
  <2> QED
    BY <1>4, <2>1, <2>2
<1> QED
  BY <1>2, <1>3, <1>4 DEF Calls

\* A worker under way on a task is the one that finishes its call.
LEMMA OnlyFinisher ==
  ASSUME UInv, NEW t \in Tasks, Calls(t), NEW w \in Workers, Busy(w, t),
         NEW c \in writing, c.task = t
  PROVE  Finishing(w, c)
<1>1. up
  BY DEF UInv, DownIdle, Busy
<1>2. PICK x \in Workers : Finishing(x, c)
  BY <1>1 DEF Calls
<1>3. x = w
  BY <1>2 DEF Finishing, UInv, OneWorker, Busy, Free
<1> QED
  BY <1>2, <1>3

\* The worker resumes with the step after the finished ones.
LEMMA ResumesNext ==
  ASSUME TInv, NEW t \in Tasks, NEW k \in 0..NumSteps, Table(t, k)
  PROVE  ResumeStep(t) = k + 1
<1>1. latest[t] \in Steps \cup {None}
  BY SameProcedures DEF TInv, TypeOK, QP!TypeOK
<1>2. CASE latest[t] = None
  BY <1>2 DEF Table, ResumeStep
<1>3. CASE latest[t] # None
  <2>1. latest[t] \in Steps /\ latest[t] \in {k, k + 1}
    BY <1>1, <1>3 DEF Table
  <2>2. LastCkpt(t) = "COMPLETED" <=> latest[t] <= k
    BY <1>3, <2>1 DEF LastCkpt, Table, Done
  <2> QED
    BY <1>3, <2>1, <2>2, EngineAssumption DEF ResumeStep, Steps
<1> QED
  BY <1>2, <1>3

-----------------------------------------------------------------------------
(* How a worker walks through the steps                                    *)

Walk(w) ==
  LET v == worker[w]  u == worker'[w] IN
  /\ v.pc = "final" => \A c \in writing : ~(c.task = v.task /\ c.attempt = v.attempt)
  /\ \/ u.pc \in Free \cup Fresh
     \/ /\ u.pc = "resume"
        /\ task'[v.task].state = "running" /\ u.attempt = task'[v.task].lastRun
     \/ /\ v.pc \notin Free \cup Fresh /\ u.attempt = v.attempt
        /\ \/ u.pc = "fail"
           \/ v.pc = "resume" /\ u.pc = "start" /\ u.step = ResumeStep(v.task)
           \/ v.pc \in AtNext /\ u.pc \in AtNext \ {"complete"} /\ u.step = v.step
           \/ v.pc = "start" /\ u.pc = "complete" /\ u.step = v.step /\ v.step > NumSteps
           \/ v.pc = "final" /\ u.pc = "start" /\ u.step = v.step + 1

\* What is kept when no row but that of task changes.
Quiet ==
  /\ SameOutcomes \/ OneFails
  /\ UNCHANGED <<ckpt, latest, writing>> /\ WaitsStay

LEMMA QuietKeepsRows == Quiet => \A t \in Tasks : RowsKept(t)
BY DEF Quiet, SameOutcomes, OneFails, Same, Fails, WaitsStay, RowsKept, Active

LEMMA NothingIsQuiet == UNCHANGED <<task, ckpt, latest, wait, writing>> => Quiet
BY DEF Quiet, SameOutcomes, Same, WaitsStay

\* The steps of a worker that write rows for its step.
Begins(w) ==
  LET v == worker[w] IN
  /\ v.pc = "ckpt" /\ worker'[w].pc = "final" /\ Like(worker'[w], v)
  /\ QP!CheckpointCall(v.task, v.attempt, v.step, "COMPLETED")

Resolves(w) ==
  LET v == worker[w] IN
  /\ v.pc = "await" /\ worker'[w].pc \in {"start", "fail"}
  /\ worker'[w].attempt = v.attempt /\ worker'[w].step = v.step
  /\ QP!AwaitResolved(v.task, v.attempt, v.step, v.task)

Suspends(w) ==
  LET v == worker[w] IN
  /\ v.pc = "await" /\ worker'[w].pc = "loop"
  /\ QP!AwaitSuspend(v.task, v.attempt, v.step, v.task, HitlTimeout)

Completes(w) ==
  LET v == worker[w] IN
  /\ v.pc = "complete" /\ worker'[w].pc = "off"
  /\ QP!CompleteRun(v.task, v.attempt)

LEMMA GoPc ==
  ASSUME TInv, NEW w \in Workers, NEW p \in Pcs, Go(w, p)
  PROVE  worker'[w].pc = p /\ Like(worker'[w], worker[w])
<1>1. worker \in [Workers -> Worker]
  BY DEF TInv, TypeOK
<1> QED
  BY <1>1, GoEffect

\* The steps that make no call of the queue.
LEMMA LocalWalk ==
  ASSUME TInv, NEW w \in Workers,
         \/ KillStaleSessions(w) \/ CheckTerminal(w) \/ ResumePoint(w)
         \/ StartStep(w) \/ LaunchStep(w) \/ SawExit(w) \/ PollFailed(w)
         \/ StopOrLoss(w) \/ ReadSuspended(w) \/ ReadSuccess(w) \/ ReadFailure(w)
         \/ Park(w) \/ GiveUp(w) \/ StaleHead(w) \/ FinishStep(w)
  PROVE  Walk(w) /\ UNCHANGED queueVars
<1> DEFINE v == worker[w]
<1> USE DEF Free, Fresh, AtNext, AtStep
<1>0. {"claim", "off", "error", "check", "loop", "launch", "complete", "ckpt", "poll",
       "giveup", "lost", "await", "stale", "fail", "final", "status"} \subseteq Pcs
  BY DEF Pcs, Free
<1>1. ASSUME NEW p \in Pcs, Go(w, p), v.pc # "final",
             \/ p \in Free \cup Fresh
             \/ p = "fail" /\ v.pc \notin Free \cup Fresh
             \/ v.pc \in AtNext /\ p \in AtNext \ {"complete"}
             \/ v.pc = "start" /\ p = "complete" /\ v.step > NumSteps
      PROVE  Walk(w)
  <2>1. worker'[w].pc = p /\ Like(worker'[w], v)
    BY <1>1, GoPc
  <2> QED
    BY <1>1, <2>1 DEF Walk, Like
<1>2. CASE KillStaleSessions(w) \/ CheckTerminal(w)
  BY <1>0, <1>1, <1>2 DEF KillStaleSessions, CheckTerminal
<1>3. CASE ResumePoint(w)
  BY <1>3, ResumePointEffect DEF ResumePoint, Walk
<1>4. CASE StartStep(w)
  <2>1. v.pc = "start" /\ UNCHANGED queueVars
    BY <1>4 DEF StartStep
  <2>2. \/ Go(w, "complete") /\ v.step > NumSteps
        \/ Go(w, "launch")
    BY <1>4 DEF StartStep, AllStepsDone
  <2> QED
    BY <1>0, <1>1, <2>1, <2>2
<1>5. CASE LaunchStep(w)
  <2>1. /\ v.pc = "launch" /\ UNCHANGED queueVars
        /\ Go(w, "ckpt") \/ Go(w, "poll") \/ Go(w, "giveup")
    BY <1>5 DEF LaunchStep
  <2> QED
    BY <1>0, <1>1, <2>1
<1>6. CASE SawExit(w)
  BY <1>6, SawExitEffect DEF SawExit, Walk
<1>7. CASE PollFailed(w)
  BY <1>0, <1>1, <1>7 DEF PollFailed
<1>8. CASE StopOrLoss(w) \/ Park(w)
  <2>1. /\ v.pc \in {"lost", "park"} /\ UNCHANGED queueVars
        /\ Go(w, "loop") \/ Go(w, "await") \/ Go(w, "giveup")
    BY <1>8 DEF StopOrLoss, Park, AfterSuspension
  <2> QED
    BY <1>0, <1>1, <2>1
<1>9. CASE ReadSuspended(w)
  BY <1>9, ReadSuspendedEffect DEF ReadSuspended, Walk
<1>10. CASE ReadSuccess(w)
  BY <1>10, ReadSuccessEffect DEF ReadSuccess, Walk
<1>11. CASE ReadFailure(w)
  BY <1>11, ReadFailureEffect DEF ReadFailure, Walk
<1>12. CASE GiveUp(w) \/ StaleHead(w)
  BY <1>0, <1>1, <1>12 DEF GiveUp, StaleHead
<1>13. CASE FinishStep(w)
  BY <1>13, FinishStepEffect DEF FinishStep, Walk
<1> QED
  BY <1>2, <1>3, <1>4, <1>5, <1>6, <1>7, <1>8, <1>9, <1>10, <1>11, <1>12, <1>13

LEMMA WorkerWalk ==
  ASSUME TInv, NEW w \in Workers, WorkerStep(w)
  PROVE  \/ Quiet /\ Walk(w)
         \/ Begins(w) \/ Resolves(w) \/ Suspends(w) \/ Completes(w)
<1> USE DEF Free, Fresh, AtNext, AtStep
<1> DEFINE v == worker[w]
           t == worker[w].task
           a == worker[w].attempt
           s == worker[w].step
<1>0. /\ v.pc \notin Free => t \in Tasks
      /\ v.pc \notin Free \cup Fresh => a \in Attempts
      /\ v.pc \in AtStep => s \in Steps
      /\ QP!FenceInv
  BY DEF TInv, Locals, Local
<1>1. {"off", "error", "check", "loop", "fail", "final"} \subseteq Pcs
  BY DEF Pcs
<1>2. CASE Claim(w)
  <2>1. v.pc = "claim" /\ worker'[w].task = t
    BY <1>2, ClaimEffect DEF Claim
  <2>2. PICK u \in Tasks, b \in Attempts :
          /\ Q!ClaimTask(u, b)
          /\ \/ u = t /\ worker'[w].pc = "resume" /\ worker'[w].attempt = b
             \/ u # t /\ worker'[w].pc = "error"
    BY <1>2, ClaimEffect
  <2>3. QP!ClaimTask(u, b)
    BY <2>2, SameRunCalls
  <2>4. /\ SameOutcomes \/ OneFails
        /\ wait' \subseteq wait
        /\ task'[u].state = "running" /\ task'[u].lastRun = b
    BY <1>0, <2>3, ClaimOutcome
  <2>5. Quiet
    BY <2>3, <2>4 DEF Quiet, WaitsStay, QP!ClaimTask
  <2> QED
    BY <2>1, <2>2, <2>4, <2>5 DEF Walk
<1>3. ASSUME Q!ClaimNothing
      PROVE  Quiet
  <2>1. PICK x \in QP!ExpiredRuns : QP!FailRun(x[1], x[2])
    BY <1>3, SameProcedures DEF QP!ClaimNothing
  <2>2. x[1] \in Tasks /\ x[2] \in Attempts
    BY DEF QP!ExpiredRuns, QP!Attempts, Attempts
  <2> QED
    BY <1>0, <2>1, <2>2, FailOutcome DEF Quiet, WaitsStay, QP!FailRun
<1>4. CASE ClaimNone(w)
  <2>1. v.pc = "claim" /\ worker'[w].pc = "check"
    BY <1>1, <1>4, GoPc DEF ClaimNone
  <2>2. Quiet
    BY <1>3, <1>4, NothingIsQuiet DEF ClaimNone, queueVars
  <2> QED
    BY <2>1, <2>2 DEF Walk
<1>5. CASE RenewLease(w)
  <2>1. v.pc = "poll" /\ worker' = worker /\ UNCHANGED <<task, ckpt, latest, wait, writing>>
    BY <1>5 DEF RenewLease, Q!ExtendClaim
  <2> QED
    BY <2>1, NothingIsQuiet DEF Walk
<1>6. CASE Checkpoint(w)
  <2>1. v.pc = "ckpt" /\ t \in Tasks /\ a \in Attempts /\ s \in Steps
    BY <1>0, <1>6 DEF Checkpoint
  <2>2. CASE Q!CheckpointCall(t, a, s, "COMPLETED") /\ Go(w, "final")
    <3>1. QP!CheckpointCall(t, a, s, "COMPLETED")
      BY <2>1, <2>2, SameRunCalls
    <3> QED
      BY <1>1, <2>1, <2>2, <3>1, GoPc DEF Begins
  <2>3. CASE UNCHANGED queueVars /\ Go(w, "error")
    BY <1>1, <2>1, <2>3, GoPc, NothingIsQuiet DEF Walk, queueVars
  <2> QED
    BY <1>6, <2>2, <2>3 DEF Checkpoint
<1>7. CASE CompleteTask(w)
  <2>1. v.pc = "complete" /\ t \in Tasks /\ a \in Attempts
    BY <1>0, <1>7 DEF CompleteTask
  <2>2. CASE Q!CompleteRun(t, a) /\ Go(w, "off")
    BY <1>1, <2>1, <2>2, GoPc, SameRunCalls DEF Completes
  <2>3. CASE UNCHANGED queueVars /\ Go(w, "error")
    BY <1>1, <2>1, <2>3, GoPc, NothingIsQuiet DEF Walk, queueVars
  <2> QED
    BY <1>7, <2>2, <2>3 DEF CompleteTask
<1>8. CASE FailTask(w)
  <2>1. v.pc = "fail" /\ t \in Tasks /\ a \in Attempts
    BY <1>0, <1>8 DEF FailTask
  <2>2. worker'[w].pc \in Free \cup Fresh
    <3>1. v.then \in {"loop", "off"}
      BY DEF TInv, TypeOK, Worker
    <3> QED
      BY <1>1, <1>8, <3>1, GoPc DEF FailTask, AfterFailure
  <2>3. Quiet
    <3>1. CASE Q!FailRun(t, a)
      <4>1. QP!FailRun(t, a)
        BY <2>1, <3>1, SameRunCalls
      <4> QED
        BY <1>0, <2>1, <4>1, FailOutcome DEF Quiet, WaitsStay, QP!FailRun
    <3>2. CASE UNCHANGED queueVars
      BY <3>2, NothingIsQuiet DEF queueVars
    <3> QED
      BY <1>8, <3>1, <3>2 DEF FailTask
  <2> QED
    BY <2>1, <2>2, <2>3 DEF Walk
<1>9. CASE AwaitVerdict(w)
  <2>1. v.pc = "await" /\ t \in Tasks /\ a \in Attempts /\ s \in Steps
    BY <1>0, <1>9 DEF AwaitVerdict
  <2>2. ASSUME NEW answer, Decide(w, answer)
        PROVE  /\ worker'[w].pc \in {"start", "fail"}
               /\ worker'[w].attempt = a /\ worker'[w].step = s
    BY <2>2, DecideEffect
  <2>3. CASE UNCHANGED queueVars /\ (Go(w, "error") \/ Decide(w, ckpt[t][s].payload))
    <3>1. Quiet
      BY <2>3, NothingIsQuiet DEF queueVars
    <3>2. CASE Go(w, "error")
      BY <1>1, <2>1, <3>1, <3>2, GoPc DEF Walk
    <3>3. CASE Decide(w, ckpt[t][s].payload)
      BY <2>1, <2>2, <3>1, <3>3 DEF Walk
    <3> QED
      BY <2>3, <3>2, <3>3
  <2>4. CASE Q!AwaitResolved(t, a, s, t) /\ Decide(w, event[t])
    BY <2>1, <2>2, <2>4, SameRunCalls DEF Resolves
  <2>5. CASE Q!AwaitTimedOut(t, a, s, t) /\ Decide(w, None)
    <3>1. Quiet
      BY <2>5, NothingIsQuiet DEF Q!AwaitTimedOut
    <3> QED
      BY <2>1, <2>2, <2>5, <3>1 DEF Walk
  <2>6. CASE Q!AwaitSuspend(t, a, s, t, HitlTimeout) /\ Go(w, "loop")
    BY <1>1, <2>1, <2>6, GoPc, SameRunCalls DEF Suspends
  <2> QED
    BY <1>9, <2>3, <2>4, <2>5, <2>6 DEF AwaitVerdict
<1>10. CASE Walk(w) /\ UNCHANGED queueVars
  BY <1>10, NothingIsQuiet DEF queueVars
<1> QED
  BY <1>2, <1>4, <1>5, <1>6, <1>7, <1>8, <1>9, <1>10, LocalWalk DEF WorkerStep

-----------------------------------------------------------------------------
(* A worker's step keeps the progress of every task                        *)

LEMMA QuietWorker ==
  ASSUME TInv, TInv', UInv, PInv, NEW w \in Workers, Frame(w), Quiet, Walk(w)
  PROVE  PInv'
<1> SUFFICES ASSUME NEW t \in Tasks
             PROVE  /\ task'[t].state # "cancelled"
                    /\ Calls(t)'
                    /\ \E k \in 0..NumSteps : Progress(t, k)'
  BY DEF PInv
<1>0. RowsKept(t) /\ up' = up /\ worker'[w].task = worker[w].task /\ Others(w)
      /\ worker[w].pc \notin Free
  BY QuietKeepsRows DEF Frame, envVars
<1>1. PICK k \in 0..NumSteps : Progress(t, k)
  BY DEF PInv
<1>2. Calls(t) /\ task'[t].state # "cancelled"
  BY <1>0 DEF PInv, RowsKept
<1>3. CASE t # worker[w].task
  <2>1. \A x \in Workers : worker'[x] = worker[x] \/ ~Busy(x, t)'
    BY <1>0, <1>3 DEF Others, Busy
  <2>2. \A x \in Workers, c \in writing : c.task = t /\ Finishing(x, c) => Finishing(x, c)'
    BY <1>0, <1>3 DEF Others, Finishing
  <2> QED
    BY <1>0, <1>1, <1>2, <2>1, <2>2, ProgressKept, CallsKept
<1>4. CASE t = worker[w].task
  <2> DEFINE v == worker[w]
             u == worker'[w]
  <2>1. Busy(w, t) /\ Place(t, k, w) /\ Table(t, k)
    BY <1>0, <1>1, <1>4 DEF Busy, Progress
  <2>2. \A x \in Workers : Busy(x, t)' => x = w
    BY <1>0, <2>1 DEF Others, Busy, UInv, OneWorker
  <2>3. ~InFlight(t)
    <3> SUFFICES ASSUME NEW c \in writing, c.task = t PROVE FALSE
      BY DEF InFlight
    <3>1. Finishing(w, c)
      BY <1>2, <2>1, OnlyFinisher
    <3> QED
      BY <1>4, <3>1 DEF Finishing, Walk
  <2>4. Calls(t)' /\ ~InFlight(t)'
    BY <1>0, <2>3 DEF RowsKept, Calls, InFlight
  <2>5. Table(t, k)'
    BY <1>0, <2>1, TableKept
  <2>6. ASSUME Busy(w, t)'
        PROVE  Place(t, k, w)'
    <3>1. CASE u.pc \in Free \cup Fresh
      BY <2>6, <3>1 DEF Busy, Place, Free, Fresh, AtNext, AtStep
    <3>2. CASE /\ u.pc = "resume"
               /\ task'[t].state = "running" /\ u.attempt = task'[t].lastRun
      <4>1. QP!FenceInv'
        BY DEF TInv
      <4>2. (\A x \in wait' : x.task # t) /\ task'[t].lastRun = task'[t].attempts
        BY <3>2, <4>1, ClaimedWaits
      <4>3. \A s \in Steps : ckpt'[t][s].owner <= task'[t].attempts
        BY <4>1 DEF QP!FenceInv, QP!Fenced
      <4> QED
        BY <3>2, <4>2, <4>3 DEF Place, Free, AtNext, AtStep
    <3>3. CASE /\ v.pc \notin Free \cup Fresh /\ u.attempt = v.attempt
               /\ \/ u.pc = "fail"
                  \/ v.pc = "resume" /\ u.pc = "start" /\ u.step = ResumeStep(t)
                  \/ v.pc \in AtNext /\ u.pc \in AtNext \ {"complete"} /\ u.step = v.step
                  \/ /\ v.pc = "start" /\ u.pc = "complete"
                     /\ u.step = v.step /\ v.step > NumSteps
                  \/ v.pc = "final" /\ u.pc = "start" /\ u.step = v.step + 1
      <4>1. /\ \A x \in wait' : x.task # t
            /\ \A s \in Steps : ckpt'[t][s].owner <= u.attempt
        BY <1>0, <2>1, <3>3 DEF Place, RowsKept
      <4>2. CASE u.pc = "fail"
        BY <4>1, <4>2 DEF Place, AtNext, AtStep
      <4>3. CASE v.pc = "resume" /\ u.pc = "start" /\ u.step = ResumeStep(t)
        BY <2>1, <4>1, <4>3, ResumesNext DEF Place
      <4>4. CASE v.pc \in AtNext /\ u.pc \in AtNext \ {"complete"} /\ u.step = v.step
        BY <2>1, <4>1, <4>4 DEF Place, AtNext, AtStep
      <4>5. CASE v.pc = "start" /\ u.pc = "complete" /\ u.step = v.step /\ v.step > NumSteps
        <5>1. u.step = k + 1 /\ k = NumSteps
          BY <1>1, <2>1, <4>5, EngineAssumption DEF Place, AtNext
        <5> QED
          BY <4>1, <4>5, <5>1 DEF Place
      <4>6. CASE v.pc = "final" /\ u.pc = "start" /\ u.step = v.step + 1
        BY <2>1, <2>3, <4>1, <4>6 DEF Place
      <4> QED
        BY <3>3, <4>2, <4>3, <4>4, <4>5, <4>6
    <3> QED
      BY <1>4, <3>1, <3>2, <3>3 DEF Walk
  <2>7. Progress(t, k)'
    BY <2>2, <2>5, <2>6 DEF Progress
  <2> QED
    BY <1>2, <2>4, <2>7
<1> QED
  BY <1>3, <1>4

\* A worker calls set_checkpoint.
LEMMA BeginsCall ==
  ASSUME NEW w, Begins(w)
  PROVE  \E c \in writing' : /\ writing' = writing \cup {c}
                             /\ c.task = worker[w].task
                             /\ c.attempt = worker[w].attempt
                             /\ c.step = worker[w].step
                             /\ c.payload = "COMPLETED"
<1> DEFINE v == worker[w]
           c == [task |-> v.task, attempt |-> v.attempt, step |-> v.step,
                 payload |-> "COMPLETED", saw |-> None]
<1>1. writing' = writing \cup {c}
  BY DEF Begins, QP!CheckpointCall
<1>2. /\ c.task = v.task /\ c.attempt = v.attempt /\ c.step = v.step
      /\ c.payload = "COMPLETED"
  OBVIOUS
<1> HIDE DEF c
<1> QED
  BY <1>1, <1>2

LEMMA BeginsWorker ==
  ASSUME TInv, UInv, NEW w \in Workers, Frame(w), Begins(w),
         NEW t, t = worker[w].task, NEW k \in 0..NumSteps, Calls(t), Progress(t, k)
  PROVE  Calls(t)' /\ Progress(t, k)'
<1> DEFINE v == worker[w]
           u == worker'[w]
<1>0. /\ Others(w) /\ u.task = t /\ t \in Tasks /\ Busy(w, t)
      /\ v.pc = "ckpt" /\ u.pc = "final" /\ u.attempt = v.attempt /\ u.step = v.step
      /\ up
  BY DEF Frame, TInv, Locals, Local, Begins, Like, Busy, Free, UInv, DownIdle
<1>1. UNCHANGED <<task, ckpt, latest, wait>>
  BY DEF Begins, QP!CheckpointCall
<1>2. PICK c \in writing' :
        /\ writing' = writing \cup {c}
        /\ c.task = t /\ c.attempt = v.attempt /\ c.step = v.step
        /\ c.payload = "COMPLETED"
  BY BeginsCall
<1>3. ~InFlight(t)
  <2> SUFFICES ASSUME NEW d \in writing, d.task = t PROVE FALSE
    BY DEF InFlight
  <2> QED
    BY <1>0, OnlyFinisher DEF Finishing
<1>4. Place(t, k, w) /\ v.step = k + 1 /\ \A x \in wait : x.task # t
  BY <1>0 DEF Progress, Place, AtNext, AtStep, Fresh
<1>5. Calls(t)'
  <2>1. Finishing(w, c)'
    BY <1>0, <1>2 DEF Finishing
  <2>2. \A d \in writing' : d.task = t => d = c
    BY <1>2, <1>3 DEF InFlight
  <2> QED
    BY <1>1, <1>2, <1>4, <2>1, <2>2 DEF Calls
<1>6. Table(t, k)'
  BY <1>1, <1>2, <1>4 DEF Progress, Table, Done
<1>7. Place(t, k, w)'
  <2>1. InFlight(t)'
    BY <1>1, <1>2 DEF InFlight
  <2> QED
    BY <1>0, <1>1, <1>4, <2>1 DEF Place, Fresh, AtNext, AtStep
<1>8. \A x \in Workers : Busy(x, t)' => x = w
  BY <1>0 DEF Others, Busy, UInv, OneWorker
<1> QED
  BY <1>5, <1>6, <1>7, <1>8 DEF Progress

\* await_event returns at once: the verdict becomes the checkpoint of the step.
LEMMA ResolvesWorker ==
  ASSUME TInv, UInv, EventsHuman, NEW w \in Workers, Frame(w), Resolves(w),
         NEW t, t = worker[w].task, NEW k \in 0..NumSteps, Calls(t), Progress(t, k)
  PROVE  Calls(t)' /\ Progress(t, k)'
<1> DEFINE v == worker[w]
           u == worker'[w]
<1>0. /\ Others(w) /\ u.task = t /\ t \in Tasks /\ Busy(w, t) /\ v.step \in Steps
      /\ v.pc = "await" /\ u.pc \in {"start", "fail"}
      /\ u.attempt = v.attempt /\ u.step = v.step /\ v.attempt \in Attempts
  BY DEF Frame, TInv, Locals, Local, Resolves, Busy, Free, Fresh, AtStep
<1>1. /\ UNCHANGED <<task, wait, writing>>
      /\ QP!WriteCkpt(t, v.attempt, v.step, event[t]) /\ event[t] # None
  BY DEF Resolves, QP!AwaitResolved
<1>2. ~InFlight(t)
  <2> SUFFICES ASSUME NEW d \in writing, d.task = t PROVE FALSE
    BY DEF InFlight
  <2> QED
    BY <1>0, OnlyFinisher DEF Finishing
<1>3. /\ Table(t, k) /\ v.step = k + 1 /\ \A x \in wait : x.task # t
      /\ \A s \in Steps : ckpt[t][s].owner <= v.attempt
  BY <1>0 DEF Progress, Place, AtNext, AtStep, Fresh
<1>4. /\ ckpt'[t][v.step] = [owner |-> v.attempt, payload |-> event[t]]
      /\ \A s \in Steps : s # v.step => ckpt'[t][s] = ckpt[t][s]
      /\ latest'[t] = v.step
  <2>1. ckpt \in [Tasks -> [Steps -> QP!Ckpt]] /\ latest \in [Tasks -> Steps \cup {None}]
    BY DEF TInv, QP!FenceInv, QP!IInv, QP!TypeOK
  <2> QED
    BY <1>0, <1>1, <2>1 DEF QP!WriteCkpt
<1>5. event[t] # "COMPLETED"
  BY <1>0, <1>1 DEF EventsHuman, HumanVerdicts
<1>6. ~(v.step <= k) /\ None # v.step
  BY <1>0, <1>3, EngineAssumption DEF Steps
<1>7. Table(t, k)'
  <2>1. \A s \in Steps : Done(t, s)' = Done(t, s)
    BY <1>0, <1>3, <1>4, <1>5, <1>6 DEF Done, Table
  <2> QED
    BY <1>1, <1>3, <1>4, <1>6, <2>1 DEF Table
<1>8. Place(t, k, w)'
  <2>1. \A s \in Steps : ckpt'[t][s].owner <= u.attempt
    BY <1>0, <1>3, <1>4, EngineAssumption DEF Attempts
  <2> QED
    BY <1>0, <1>1, <1>3, <2>1 DEF Place, Fresh, AtNext, AtStep
<1>9. Calls(t)'
  BY <1>1, <1>2 DEF Calls, InFlight
<1>10. \A x \in Workers : Busy(x, t)' => x = w
  BY <1>0 DEF Others, Busy, UInv, OneWorker
<1> QED
  BY <1>7, <1>8, <1>9, <1>10 DEF Progress

\* await_event suspends the run: its wait row is for the next step.
LEMMA SuspendsWorker ==
  ASSUME TInv, UInv, NEW w \in Workers, Frame(w), Suspends(w),
         NEW t, t = worker[w].task, NEW k \in 0..NumSteps, Calls(t), Progress(t, k)
  PROVE  Calls(t)' /\ Progress(t, k)' /\ SameOutcomes
<1> DEFINE v == worker[w]
           u == worker'[w]
<1>0. /\ Others(w) /\ u.task = t /\ t \in Tasks /\ Busy(w, t) /\ v.step \in Steps
      /\ v.pc = "await" /\ u.pc = "loop" /\ v.attempt \in Attempts
  BY DEF Frame, TInv, Locals, Local, Suspends, Busy, Free, Fresh, AtStep
<1>1. /\ UNCHANGED <<ckpt, latest, writing>> /\ SameOutcomes
      /\ \A x \in wait' : x \in wait \/ (x.task = t /\ x.step = v.step)
  <2>1. QP!AwaitSuspend(t, v.attempt, v.step, t, HitlTimeout)
    BY DEF Suspends
  <2> QED
    BY <1>0, <2>1, SuspendOutcome DEF QP!AwaitSuspend, TInv
<1>2. ~InFlight(t)
  <2> SUFFICES ASSUME NEW d \in writing, d.task = t PROVE FALSE
    BY DEF InFlight
  <2> QED
    BY <1>0, OnlyFinisher DEF Finishing
<1>3. Table(t, k) /\ v.step = k + 1
  BY <1>0 DEF Progress, Place, AtNext, AtStep
<1>4. Table(t, k)'
  BY <1>0, <1>1, <1>3 DEF Table, Done, SameOutcomes, Same, Active
<1>5. Place(t, k, w)'
  BY <1>0 DEF Place, Fresh, AtNext, AtStep
<1>6. Calls(t)'
  BY <1>1, <1>2 DEF Calls, InFlight
<1>7. \A x \in Workers : Busy(x, t)' => x = w
  BY <1>0 DEF Others, Busy, UInv, OneWorker
<1> QED
  BY <1>1, <1>4, <1>5, <1>6, <1>7 DEF Progress

\* complete_run, after the last step.
LEMMA CompletesWorker ==
  ASSUME TInv, UInv, NEW w \in Workers, Frame(w), Completes(w),
         NEW t, t = worker[w].task, NEW k \in 0..NumSteps, Calls(t), Progress(t, k)
  PROVE  /\ Calls(t)' /\ Progress(t, k)' /\ k = NumSteps
         /\ task[t].state \in Active /\ task'[t].state = "completed"
         /\ \A x \in Tasks : x # t => Same(x)
<1> DEFINE v == worker[w]
           u == worker'[w]
<1>0. /\ Others(w) /\ t \in Tasks /\ Busy(w, t)
      /\ v.pc = "complete" /\ u.pc = "off" /\ v.attempt \in Attempts
  BY DEF Frame, TInv, Locals, Local, Completes, Busy, Free, Fresh
<1>1. /\ UNCHANGED <<ckpt, latest, writing>> /\ wait' \subseteq wait
      /\ task[t].state \in Active /\ task'[t].state = "completed"
      /\ \A x \in Tasks : x # t => Same(x)
  <2>1. QP!CompleteRun(t, v.attempt)
    BY DEF Completes
  <2> QED
    BY <1>0, <2>1, CompleteOutcome DEF QP!CompleteRun, TInv
<1>2. ~InFlight(t)
  <2> SUFFICES ASSUME NEW d \in writing, d.task = t PROVE FALSE
    BY DEF InFlight
  <2> QED
    BY <1>0, OnlyFinisher DEF Finishing
<1>3. Table(t, k) /\ k = NumSteps
  BY <1>0 DEF Progress, Place
<1>4. Table(t, k)'
  BY <1>1, <1>3 DEF Table, Done
<1>5. Calls(t)'
  BY <1>1, <1>2 DEF Calls, InFlight
<1>6. \A x \in Workers : ~Busy(x, t)'
  BY <1>0 DEF Others, Busy, UInv, OneWorker, Free
<1> QED
  BY <1>1, <1>3, <1>4, <1>5, <1>6 DEF Progress

-----------------------------------------------------------------------------
(* Every step keeps the progress of every task                             *)

\* A call for one task leaves the rows of the others alone.
LEMMA OthersRows ==
  ASSUME TInv, NEW w \in Workers, worker[w].pc \notin Free \cup Fresh,
         Begins(w) \/ Resolves(w) \/ Suspends(w) \/ Completes(w),
         NEW t \in Tasks, t # worker[w].task
  PROVE  RowsKept(t)
<1> DEFINE u == worker[w].task
           a == worker[w].attempt
           s == worker[w].step
<1>0. u \in Tasks /\ a \in Attempts /\ QP!FenceInv
  BY DEF TInv, Locals, Local
<1>1. CASE Begins(w)
  <2>1. PICK d \in writing' : writing' = writing \cup {d} /\ d.task = u
    BY <1>1, BeginsCall
  <2>2. UNCHANGED <<task, ckpt, latest, wait>>
    BY <1>1 DEF Begins, QP!CheckpointCall
  <2> QED
    BY <2>1, <2>2 DEF RowsKept
<1>2. CASE Resolves(w)
  <2>1. UNCHANGED <<task, wait, writing>> /\ QP!WriteCkpt(u, a, s, event[u])
    BY <1>2 DEF Resolves, QP!AwaitResolved
  <2>2. ckpt \in [Tasks -> [Steps -> QP!Ckpt]] /\ latest \in [Tasks -> Steps \cup {None}]
    BY <1>0 DEF QP!FenceInv, QP!IInv, QP!TypeOK
  <2>3. ckpt'[t] = ckpt[t] /\ latest'[t] = latest[t]
    BY <1>0, <2>1, <2>2 DEF QP!WriteCkpt
  <2> QED
    BY <2>1, <2>3 DEF RowsKept
<1>3. CASE Suspends(w)
  <2>1. QP!AwaitSuspend(u, a, s, u, HitlTimeout) /\ s \in Steps
    BY <1>3 DEF Suspends, TInv, Locals, Local, AtStep
  <2>2. SameOutcomes /\ \A x \in wait' : x \in wait \/ (x.task = u /\ x.step = s)
    BY <1>0, <2>1, SuspendOutcome
  <2>3. UNCHANGED <<ckpt, latest, writing>>
    BY <2>1 DEF QP!AwaitSuspend
  <2> QED
    BY <2>2, <2>3 DEF RowsKept, SameOutcomes, Same, Active
<1>4. CASE Completes(w)
  <2>1. QP!CompleteRun(u, a)
    BY <1>4 DEF Completes
  <2>2. Same(t) /\ wait' \subseteq wait
    BY <1>0, <2>1, CompleteOutcome
  <2>3. UNCHANGED <<ckpt, latest, writing>>
    BY <2>1 DEF QP!CompleteRun
  <2> QED
    BY <2>2, <2>3 DEF RowsKept, Same, Active
<1> QED
  BY <1>1, <1>2, <1>3, <1>4

LEMMA PWorkerStep ==
  ASSUME TInv, TInv', UInv, EventsHuman, PInv, NEW w \in Workers, WorkerStep(w)
  PROVE  PInv'
<1>1. Frame(w)
  BY WorkerFrame
<1>2. CASE Quiet /\ Walk(w)
  BY <1>1, <1>2, QuietWorker
<1>3. CASE Begins(w) \/ Resolves(w) \/ Suspends(w) \/ Completes(w)
  <2> SUFFICES ASSUME NEW t \in Tasks
               PROVE  /\ task'[t].state # "cancelled"
                      /\ Calls(t)'
                      /\ \E k \in 0..NumSteps : Progress(t, k)'
    BY DEF PInv
  <2>1. PICK k \in 0..NumSteps : Progress(t, k)
    BY DEF PInv
  <2>2. Calls(t) /\ task[t].state # "cancelled"
    BY DEF PInv
  <2>3. CASE t = worker[w].task
    <3>1. CASE Begins(w)
      BY <1>1, <2>1, <2>2, <2>3, <3>1, BeginsWorker DEF Begins, QP!CheckpointCall
    <3>2. CASE Resolves(w)
      BY <1>1, <2>1, <2>2, <2>3, <3>2, ResolvesWorker DEF Resolves, QP!AwaitResolved
    <3>3. CASE Suspends(w)
      BY <1>1, <2>1, <2>2, <2>3, <3>3, SuspendsWorker DEF SameOutcomes, Same, Active
    <3>4. CASE Completes(w)
      BY <1>1, <2>1, <2>2, <2>3, <3>4, CompletesWorker
    <3> QED
      BY <1>3, <3>1, <3>2, <3>3, <3>4
  <2>4. CASE t # worker[w].task
    <3>1. RowsKept(t)
      BY <1>3, <2>4, OthersRows DEF Begins, Resolves, Suspends, Completes, Free, Fresh
    <3>2. \A x \in Workers : worker'[x] = worker[x] \/ ~Busy(x, t)'
      BY <1>1, <2>4 DEF Frame, Others, Busy
    <3>3. \A x \in Workers, c \in writing : c.task = t /\ Finishing(x, c) => Finishing(x, c)'
      BY <1>1, <2>4 DEF Frame, Others, Finishing
    <3>4. up' = up
      BY <1>1 DEF Frame, envVars
    <3>5. Progress(t, k)'
      BY <2>1, <3>1, <3>2, ProgressKept
    <3>6. Calls(t)'
      BY <2>2, <3>1, <3>3, <3>4, CallsKept
    <3> QED
      BY <2>2, <3>1, <3>5, <3>6 DEF RowsKept
  <2> QED
    BY <2>3, <2>4
<1> QED
  BY <1>2, <1>3, WorkerWalk

\* Steps that write no row and start workers at most.
LEMMA RowsKeptStep ==
  ASSUME PInv, \A t \in Tasks : RowsKept(t), up' => up,
         \A w \in Workers : \/ worker'[w] = worker[w]
                            \/ worker[w].pc \in Free /\ worker'[w].pc \in Fresh
  PROVE  PInv'
<1> SUFFICES ASSUME NEW t \in Tasks
             PROVE  /\ task'[t].state # "cancelled"
                    /\ Calls(t)'
                    /\ \E k \in 0..NumSteps : Progress(t, k)'
  BY DEF PInv
<1>1. PICK k \in 0..NumSteps : Progress(t, k)
  BY DEF PInv
<1>2. Progress(t, k)'
  BY <1>1, ProgressKept
<1>3. \A w \in Workers, c \in writing : Finishing(w, c) => Finishing(w, c)'
  BY DEF Finishing, Free
<1>4. Calls(t)'
  BY <1>3, CallsKept DEF PInv
<1> QED
  BY <1>2, <1>4 DEF PInv, RowsKept

LEMMA PBeginStep ==
  ASSUME TInv, PInv, NEW w \in Workers, NEW t \in Tasks,
         Dispatch(w, t) \/ ResumeTask(w, t)
  PROVE  PInv'
<1>1. /\ Others(w) /\ worker'[w].pc = "loop" /\ worker[w].pc \in Free /\ up' = up
  BY BeginEffect DEF Dispatch, ResumeTask, envVars
<1>2. \A u \in Tasks : RowsKept(u)
  <2>1. CASE Dispatch(w, t)
    <3>1. task \in [Tasks -> QP!Task]
      BY DEF TInv, QP!FenceInv, QP!IInv, QP!TypeOK
    <3>2. task'[t].state = "pending" /\ \A u \in Tasks : u # t => task'[u] = task[u]
      BY <2>1, <3>1 DEF Dispatch, Q!SpawnTask
    <3>3. UNCHANGED <<ckpt, latest, wait, writing>>
      BY <2>1 DEF Dispatch, Q!SpawnTask
    <3> QED
      BY <3>2, <3>3 DEF RowsKept
  <2>2. CASE ResumeTask(w, t)
    <3>1. UNCHANGED <<task, ckpt, latest, wait, writing>>
      BY <2>2 DEF ResumeTask, Q!ExpireLease, queueVars
    <3> QED
      BY <3>1 DEF RowsKept
  <2> QED
    BY <2>1, <2>2
<1> QED
  BY <1>1, <1>2, RowsKeptStep DEF Others, Fresh

\* emit_event writes for a task that waits: no worker of it is past its claim.
LEMMA PEmitStep ==
  ASSUME TInv, PInv, NEW e \in Tasks, NEW p \in HumanVerdicts, Q!EmitEvent(e, p),
         UNCHANGED <<worker, up>>
  PROVE  PInv'
<1> SUFFICES ASSUME NEW t \in Tasks
             PROVE  /\ task'[t].state # "cancelled"
                    /\ Calls(t)'
                    /\ \E k \in 0..NumSteps : Progress(t, k)'
  BY DEF PInv
<1>1. PICK k \in 0..NumSteps : Progress(t, k)
  BY DEF PInv
<1>2. QP!EmitEvent(e, p) /\ p \in CkptValues
  BY SameProcedures DEF CkptValues
<1>3. /\ SameOutcomes /\ wait' \subseteq wait
      /\ \/ ckpt'[t] = ckpt[t] /\ latest'[t] = latest[t]
         \/ \E x \in wait : x.task = t /\ latest'[t] = x.step
      /\ \A s \in Steps :
           \/ ckpt'[t][s] = ckpt[t][s]
           \/ ckpt'[t][s].payload = p /\ \E x \in wait : x.task = t /\ x.step = s
  BY <1>2, EmitOutcome DEF TInv
<1>4. writing' = writing
  BY <1>2 DEF QP!EmitEvent
<1>5. Same(t) /\ Calls(t) /\ task[t].state # "cancelled"
  BY <1>3 DEF SameOutcomes, PInv
<1>6. CASE ckpt'[t] = ckpt[t] /\ latest'[t] = latest[t]
  <2>1. RowsKept(t)
    BY <1>3, <1>4, <1>5, <1>6 DEF RowsKept, Same, Active
  <2>2. Progress(t, k)'
    BY <1>1, <2>1, ProgressKept
  <2>3. \A w \in Workers, c \in writing : Finishing(w, c) => Finishing(w, c)'
    BY DEF Finishing
  <2>4. Calls(t)'
    BY <1>5, <2>1, <2>3, CallsKept
  <2> QED
    BY <1>5, <2>1, <2>2, <2>4 DEF RowsKept
<1>7. CASE \E x \in wait : x.task = t /\ latest'[t] = x.step
  <2>1. PICK x \in wait : x.task = t /\ latest'[t] = x.step
    BY <1>7
  <2>2. x.step = k + 1 /\ x.step \in Steps
    BY <1>1, <2>1 DEF Progress, Table, TInv, QP!FenceInv, QP!IInv, QP!TypeOK, QP!Wait
  <2>3. ~InFlight(t)
    BY <1>5, <2>1 DEF Calls
  <2>4. \A w \in Workers : Busy(w, t) => worker[w].pc \in Fresh
    BY <1>1, <2>1 DEF Progress, Place
  <2>5. p # "COMPLETED"
    BY DEF HumanVerdicts
  <2>6. \A s \in Steps : Done(t, s)' <=> s <= k
    <3> SUFFICES ASSUME NEW s \in Steps PROVE Done(t, s)' <=> s <= k
      OBVIOUS
    <3>1. CASE ckpt'[t][s] = ckpt[t][s]
      BY <1>1, <3>1 DEF Progress, Table, Done
    <3>2. CASE ckpt'[t][s].payload = p /\ \E y \in wait : y.task = t /\ y.step = s
      <4>1. s = k + 1
        BY <1>1, <3>2 DEF Progress, Table
      <4> QED
        BY <2>5, <3>2, <4>1 DEF Done
    <3> QED
      BY <1>3, <3>1, <3>2
  <2>7. Table(t, k)'
    <3>1. None # latest'[t]
      BY <2>1, <2>2, EngineAssumption
    <3> QED
      BY <1>1, <1>3, <1>4, <1>5, <2>1, <2>2, <2>6, <3>1
      DEF Progress, Table, Same, Active
  <2>8. \A w \in Workers : Busy(w, t)' => Place(t, k, w)'
    BY <2>4 DEF Busy, Place, Fresh, AtNext, AtStep
  <2>9. Calls(t)'
    BY <1>4, <2>3 DEF Calls, InFlight
  <2> QED
    BY <1>5, <2>7, <2>8, <2>9 DEF Progress, Same, Active
<1> QED
  BY <1>3, <1>6, <1>7

LEMMA PCrashStep ==
  ASSUME TInv, PInv, Crash
  PROVE  PInv'
<1> SUFFICES ASSUME NEW t \in Tasks
             PROVE  /\ task'[t].state # "cancelled"
                    /\ Calls(t)'
                    /\ \E k \in 0..NumSteps : Progress(t, k)'
  BY DEF PInv
<1>1. PICK k \in 0..NumSteps : Progress(t, k)
  BY DEF PInv
<1>2. /\ UNCHANGED <<task, ckpt, latest, wait>> /\ writing' \subseteq writing /\ ~up'
      /\ \A w \in Workers : worker'[w].pc \in Free
  BY BeginFields DEF Crash, Free
<1>3. Table(t, k)' /\ \A w \in Workers : ~Busy(w, t)'
  BY <1>1, <1>2 DEF Progress, Table, Done, Busy
<1>4. Calls(t)'
  BY <1>2 DEF PInv, Calls, InFlight
<1> QED
  BY <1>2, <1>3, <1>4 DEF PInv, Progress

LEMMA PRestartStep ==
  ASSUME TInv, UInv, PInv, Restart
  PROVE  PInv'
<1> SUFFICES ASSUME NEW t \in Tasks
             PROVE  /\ task'[t].state # "cancelled"
                    /\ Calls(t)'
                    /\ \E k \in 0..NumSteps : Progress(t, k)'
  BY DEF PInv
<1>1. PICK k \in 0..NumSteps : Progress(t, k)
  BY DEF PInv
<1>2. /\ UNCHANGED <<task, ckpt, latest, wait, writing, worker>> /\ writing = {}
      /\ \A w \in Workers : worker'[w].pc \in Free
  BY DEF Restart, queueVars, UInv, DownIdle
<1>3. Table(t, k)' /\ \A w \in Workers : ~Busy(w, t)'
  BY <1>1, <1>2 DEF Progress, Table, Done, Busy
<1>4. Calls(t)'
  BY <1>2 DEF Calls, InFlight
<1> QED
  BY <1>2, <1>3, <1>4 DEF PInv, Progress

-----------------------------------------------------------------------------
(* The calls of set_checkpoint under way, and the end of the argument      *)

\* The rows of the tasks the call is not about.
LEMMA DbOthers ==
  ASSUME TInv, NEW c \in writing, Q!CheckpointRead(c) \/ Q!CheckpointWrite(c),
         NEW t \in Tasks, t # c.task
  PROVE  RowsKept(t)
<1>1. CASE Q!CheckpointRead(c)
  <2>1. PICK o : \/ writing' = writing \ {c}
                 \/ writing' = (writing \ {c}) \cup {[c EXCEPT !.saw = o]}
    BY <1>1 DEF Q!CheckpointRead
  <2> DEFINE d == [c EXCEPT !.saw = o]
  <2>2. d.task = c.task
    BY DEF TInv, QP!FenceInv, QP!IInv, QP!TypeOK, QP!Call
  <2>3. writing' = writing \ {c} \/ writing' = (writing \ {c}) \cup {d}
    BY <2>1
  <2> HIDE DEF d
  <2>4. UNCHANGED <<task, ckpt, latest, wait>>
    BY <1>1 DEF Q!CheckpointRead
  <2> QED
    BY <2>2, <2>3, <2>4 DEF RowsKept
<1>2. CASE Q!CheckpointWrite(c)
  <2>1. /\ UNCHANGED <<task, wait>> /\ writing' = writing \ {c}
        /\ Q!WriteCkpt(c.task, c.attempt, c.step, c.payload)
    BY <1>2 DEF Q!CheckpointWrite
  <2>2. ckpt'[t] = ckpt[t] /\ latest'[t] = latest[t]
    BY <2>1 DEF Q!WriteCkpt, TInv, QP!FenceInv, QP!IInv, QP!TypeOK
  <2> QED
    BY <2>1, <2>2 DEF RowsKept
<1> QED
  BY <1>1, <1>2

\* The owner is read: the call of a worker that is still there goes on.
LEMMA ReadOwn ==
  ASSUME TInv, UInv, NEW c \in writing, Q!CheckpointRead(c), UNCHANGED <<worker, up>>,
         NEW t \in Tasks, t = c.task, NEW k \in 0..NumSteps, Calls(t), Progress(t, k)
  PROVE  Calls(t)' /\ Progress(t, k)'
<1> DEFINE o == ckpt[c.task][c.step].owner
           d == [c EXCEPT !.saw = o]
<1>1. /\ d.task = t /\ d.attempt = c.attempt /\ d.step = c.step /\ d.payload = c.payload
      /\ c.step \in Steps
  BY DEF TInv, QP!FenceInv, QP!IInv, QP!TypeOK, QP!Call
<1>2. /\ writing' = (writing \ {c}) \cup (IF c.attempt >= o THEN {d} ELSE {})
      /\ UNCHANGED <<task, ckpt, latest, wait>>
  BY DEF Q!CheckpointRead, Q!MayOverwrite
<1>3. \A w \in Workers : Busy(w, t) => c.attempt >= o
  <2> SUFFICES ASSUME NEW w \in Workers, Busy(w, t) PROVE c.attempt >= o
    OBVIOUS
  <2>1. Finishing(w, c)
    BY OnlyFinisher
  <2>2. o <= worker[w].attempt
    BY <1>1, <2>1 DEF Progress, Place, Finishing, Fresh
  <2>3. o \in Nat /\ c.attempt \in Nat
    BY <1>1 DEF TInv, QP!FenceInv, QP!IInv, QP!TypeOK, QP!Call, QP!Ckpt, QP!Attempts
  <2> QED
    BY <2>1, <2>2, <2>3 DEF Finishing
<1>4. up => \E w \in Workers : Finishing(w, c) /\ Busy(w, t)
  BY DEF Calls, Finishing, Busy, Free
<1> HIDE DEF o, d
<1>5. \A e \in writing' : e.task = t => e = d
  BY <1>2 DEF Calls
<1>6. Table(t, k)'
  BY <1>1, <1>2, <1>5 DEF Progress, Table, Done
<1>7. ASSUME NEW w \in Workers, Busy(w, t)'
      PROVE  Place(t, k, w)'
  <2>1. Busy(w, t)
    BY <1>7 DEF Busy
  <2>2. InFlight(t) /\ InFlight(t)'
    BY <1>1, <1>2, <1>3, <2>1 DEF InFlight
  <2> QED
    BY <1>2, <2>1, <2>2 DEF Progress, Place
<1>8. Calls(t)'
  <2>1. \A x \in wait : x.task # t
    BY DEF Calls, InFlight
  <2>2. up => \E w \in Workers : \A e \in writing' : e.task = t => Finishing(w, e)'
    BY <1>1, <1>4, <1>5 DEF Finishing
  <2> QED
    BY <1>1, <1>2, <1>5, <2>1, <2>2 DEF Calls
<1> QED
  BY <1>6, <1>7, <1>8 DEF Progress

\* The upsert: the next step is finished.
LEMMA WriteOwn ==
  ASSUME TInv, UInv, NEW c \in writing, Q!CheckpointWrite(c), UNCHANGED <<worker, up>>,
         NEW t \in Tasks, t = c.task, NEW k \in 0..NumSteps, Calls(t), Progress(t, k)
  PROVE  /\ Calls(t)' /\ Progress(t, k + 1)' /\ k + 1 \in Steps
         /\ task[t].state # "completed"
<1>1. c.step \in Steps /\ c.step = k + 1 /\ c.payload = "COMPLETED" /\ c.attempt \in Nat
  BY DEF TInv, QP!FenceInv, QP!IInv, QP!TypeOK, QP!Call, QP!Attempts, Calls, Progress, Table
<1>2. /\ UNCHANGED <<task, wait>> /\ writing' = writing \ {c}
      /\ Q!WriteCkpt(c.task, c.attempt, c.step, c.payload)
  BY DEF Q!CheckpointWrite
<1>3. /\ ckpt'[t][k + 1] = [owner |-> c.attempt, payload |-> "COMPLETED"]
      /\ \A s \in Steps : s # k + 1 => ckpt'[t][s] = ckpt[t][s]
      /\ latest'[t] = k + 1
  BY <1>1, <1>2 DEF Q!WriteCkpt, TInv, QP!FenceInv, QP!IInv, QP!TypeOK
<1>4. k \in Nat /\ k + 1 <= NumSteps /\ None # k + 1
  BY <1>1, EngineAssumption DEF Steps
<1>5. ~InFlight(t)' /\ InFlight(t) /\ \A x \in wait : x.task # t
  BY <1>2 DEF InFlight, Calls
<1>6. Table(t, k + 1)'
  <2>1. \A s \in Steps : Done(t, s)' <=> s <= k + 1
    <3> SUFFICES ASSUME NEW s \in Steps PROVE Done(t, s)' <=> s <= k + 1
      OBVIOUS
    <3>1. s \in Nat /\ (Done(t, s) <=> s <= k)
      BY EngineAssumption DEF Steps, Progress, Table
    <3>2. CASE s = k + 1
      BY <1>3, <3>2, <1>4 DEF Done
    <3>3. CASE s # k + 1
      <4>1. Done(t, s)' <=> Done(t, s)
        BY <1>3, <3>3 DEF Done
      <4> QED
        BY <1>4, <3>1, <3>3, <4>1
    <3> QED
      BY <3>2, <3>3
  <2>2. task[t].state # "completed"
    BY <1>4, EngineAssumption DEF Progress, Table
  <2> QED
    BY <1>2, <1>3, <1>4, <1>5, <2>1, <2>2 DEF Table, InFlight
<1>7. ASSUME NEW w \in Workers, Busy(w, t)'
      PROVE  Place(t, k + 1, w)'
  <2>1. Busy(w, t)
    BY <1>7 DEF Busy
  <2>2. Finishing(w, c)
    BY <2>1, OnlyFinisher
  <2>3. Place(t, k, w)
    BY <2>1 DEF Progress
  <2>4. /\ worker'[w].pc = "final" /\ worker'[w].step = k + 1
        /\ worker'[w].attempt = c.attempt
        /\ \A s \in Steps : ckpt[t][s].owner <= c.attempt
    BY <1>5, <2>2, <2>3 DEF Place, Finishing, Fresh
  <2>5. \A s \in Steps : ckpt'[t][s].owner <= worker'[w].attempt
    BY <1>1, <1>3, <2>4
  <2> QED
    BY <1>2, <1>5, <2>4, <2>5 DEF Place, AtNext, AtStep
<1>8. Calls(t)'
  BY <1>5 DEF Calls, InFlight
<1>9. task[t].state # "completed"
  BY <1>4, EngineAssumption DEF Progress, Table
<1> QED
  BY <1>1, <1>6, <1>7, <1>8, <1>9 DEF Progress

LEMMA PDbStep ==
  ASSUME TInv, UInv, PInv, NEW c \in writing,
         Q!CheckpointRead(c) \/ Q!CheckpointWrite(c), UNCHANGED <<worker, up>>
  PROVE  PInv'
<1> SUFFICES ASSUME NEW t \in Tasks
             PROVE  /\ task'[t].state # "cancelled"
                    /\ Calls(t)'
                    /\ \E k \in 0..NumSteps : Progress(t, k)'
  BY DEF PInv
<1>1. PICK k \in 0..NumSteps : Progress(t, k)
  BY DEF PInv
<1>2. Calls(t) /\ task[t].state # "cancelled" /\ task' = task
  BY DEF PInv, Q!CheckpointRead, Q!CheckpointWrite
<1>3. CASE t = c.task
  <2>1. CASE Q!CheckpointRead(c)
    BY <1>1, <1>2, <1>3, <2>1, ReadOwn
  <2>2. CASE Q!CheckpointWrite(c)
    <3>1. Calls(t)' /\ Progress(t, k + 1)' /\ k + 1 \in Steps
      BY <1>1, <1>2, <1>3, <2>2, WriteOwn
    <3>2. k + 1 \in 0..NumSteps
      BY <3>1, EngineAssumption DEF Steps
    <3> QED
      BY <1>2, <3>1, <3>2
  <2> QED
    BY <2>1, <2>2
<1>4. CASE t # c.task
  <2>1. RowsKept(t)
    BY <1>4, DbOthers
  <2>2. Progress(t, k)'
    BY <1>1, <2>1, ProgressKept
  <2>3. \A w \in Workers, d \in writing : Finishing(w, d) => Finishing(w, d)'
    BY DEF Finishing
  <2>4. Calls(t)'
    BY <1>2, <2>1, <2>3, CallsKept
  <2> QED
    BY <1>2, <2>2, <2>4
<1> QED
  BY <1>3, <1>4

LEMMA TickKeepsRows ==
  ASSUME TInv, Q!Tick
  PROVE  \A t \in Tasks : RowsKept(t)
<1>1. UNCHANGED <<task, ckpt, latest, writing>>
  BY DEF Q!Tick
<1>2. \A x \in wait' : \E y \in wait : y.task = x.task /\ y.step = x.step
  <2> SUFFICES ASSUME NEW x \in wait' PROVE \E y \in wait : y.task = x.task /\ y.step = x.step
    OBVIOUS
  <2>1. PICK y \in wait : x = [y EXCEPT !.left = Q!Less(y.left)]
    BY DEF Q!Tick
  <2>2. y \in QP!Wait
    BY DEF TInv, QP!FenceInv, QP!IInv, QP!TypeOK
  <2>3. x.task = y.task /\ x.step = y.step
    BY <2>1, <2>2 DEF QP!Wait
  <2> QED
    BY <2>3
<1> QED
  BY <1>1, <1>2 DEF RowsKept

LEMMA PInvStep ==
  ASSUME Continues = 0, TInv, TInv', UInv, EventsHuman, PInv, [Next]_vars
  PROVE  PInv'
<1>1. CASE \E w \in Workers : WorkerStep(w)
  BY <1>1, PWorkerStep
<1>2. CASE \E w \in Workers, t \in Tasks : Dispatch(w, t) \/ ResumeTask(w, t)
  BY <1>2, PBeginStep
<1>3. CASE UNCHANGED <<task, ckpt, latest, wait, writing, worker, up>>
  <2>1. \A t \in Tasks : RowsKept(t)
    BY <1>3 DEF RowsKept
  <2> QED
    BY <1>3, <2>1, RowsKeptStep
<1>4. CASE \E x \in sink : EmitVerdict(x)
  <2>1. PICK x \in sink : EmitVerdict(x)
    BY <1>4
  <2>2. x.task \in Tasks /\ x.verdict \in HumanVerdicts
    BY DEF TInv, TypeOK
  <2>3. UNCHANGED <<worker, up>>
    BY <2>1 DEF EmitVerdict, envVars
  <2> QED
    BY <1>3, <2>1, <2>2, <2>3, PEmitStep DEF EmitVerdict, queueVars
<1>5. CASE DbWrites
  BY <1>5, PDbStep DEF DbWrites, envVars
<1>6. CASE Tick
  BY <1>6, TickKeepsRows, RowsKeptStep DEF Tick, envVars
<1>7. CASE Crash
  BY <1>7, PCrashStep
<1>8. CASE Restart
  BY <1>8, PRestartStep
<1> QED
  BY <1>1, <1>2, <1>3, <1>4, <1>5, <1>6, <1>7, <1>8, NoContinue
  DEF Next, SessionStep, HitlStep, GuardCheck, CommandEnds, SuspendStep, Answer,
      CardExpires, RecordVerdict, Stop, vars, queueVars, envVars

LEMMA PInvInit == Init => PInv
<1> SUFFICES ASSUME Init, NEW t \in Tasks
             PROVE  /\ task[t].state # "cancelled"
                    /\ Calls(t)
                    /\ \E k \in 0..NumSteps : Progress(t, k)
  BY DEF PInv
<1>1. /\ writing = {} /\ wait = {} /\ latest[t] = None /\ task[t].state = "none"
      /\ \A s \in Steps : ckpt[t][s].payload = None
  BY DEF Init, Q!Init, Q!NoCkpt, Q!NoTask
<1>2. \A w \in Workers : worker[w].pc \in Free
  BY BeginFields DEF Init, Free
<1>3. None # "COMPLETED" /\ 0 \in 0..NumSteps /\ \A s \in Steps : ~(s <= 0)
  BY EngineAssumption DEF CkptValues, Steps
<1>4. Progress(t, 0)
  BY <1>1, <1>2, <1>3 DEF Progress, Table, Done, Busy
<1> QED
  BY <1>1, <1>3, <1>4 DEF Calls, InFlight

-----------------------------------------------------------------------------
(* No finished step is run again                                           *)

\* A worker launches the step after the finished ones.
LEMMA LaunchesNext ==
  ASSUME TInv, PInv, NEW w \in Workers, worker[w].pc = "launch",
         NEW t \in Tasks, t = worker[w].task, NEW s \in Steps, s = worker[w].step
  PROVE  ~Done(t, s)
<1>1. PICK k \in 0..NumSteps : Progress(t, k)
  BY DEF PInv
<1>2. s = k + 1
  BY <1>1 DEF Progress, Place, Busy, Free, AtNext, AtStep
<1>3. ~(s <= k)
  BY <1>2, EngineAssumption
<1> QED
  BY <1>1, <1>3 DEF Progress, Table

LEMMA NotRedone ==
  ASSUME TInv, PInv, [Next]_vars, NEW x \in DOMAIN pane,
         pane[x] = "none", pane'[x] = "asking"
  PROVE  ckpt[x[1]][x[2]].payload # "COMPLETED"
<1>1. PICK t \in Tasks, s \in Steps, n \in Corrections : x = <<t, s, n>>
  BY DEF TInv, TypeOK
<1>2. pane[t, s, n] = "none" /\ pane'[t, s, n] = "asking"
  BY <1>1
<1>3. \E w \in Workers : WorkerStep(w)
  <2>1. ASSUME NEW u \in Tasks, NEW r \in Steps, NEW m \in Corrections,
               SessionMoves(u, r, m)
        PROVE  FALSE
    <3>1. SessionChange(u, r, m)
      BY <2>1, SessionEffect
    <3>2. u = t /\ r = s /\ m = n
      BY <1>2, <3>1 DEF SessionChange
    <3> QED
      BY <1>2, <3>1, <3>2 DEF SessionChange
  <2>2. ~Crash
    <3>1. Crash => pane' = pane \/ pane' = [y \in DOMAIN pane |-> "none"]
      BY DEF Crash
    <3> QED
      BY <3>1
  <2>3. pane' # pane
    BY <1>2
  <2> QED
    BY <2>1, <2>2, <2>3, PaneKept
<1>4. ~Done(t, s)
  <2>1. PICK w \in Workers : WorkerStep(w)
    BY <1>3
  <2>2. Touches(w)
    BY <2>1, WorkerFrame DEF Frame
  <2>3. worker[w].pc = "launch" /\ t = worker[w].task /\ s = worker[w].step
    BY <1>2, <2>2 DEF Touches
  <2> QED
    BY <2>3, LaunchesNext
<1>5. x[1] = t /\ x[2] = s
  BY <1>1
<1> QED
  BY <1>4, <1>5 DEF Done

LEMMA PInvAlways ==
  ASSUME Continues = 0
  PROVE  Spec => [](TInv /\ UInv /\ EventsHuman /\ PInv)
<1> DEFINE I == TInv /\ UInv /\ EventsHuman /\ PInv
<1>1. Init => I
  BY TInvInit, UInvInit, GInvInit, PInvInit DEF GInv
<1>2. I /\ [Next]_vars => I'
  BY TInvStep, UInvStep, EventsStep, PInvStep
<1> QED
  BY <1>1, <1>2, PTL DEF Spec

\* A step that has its COMPLETED checkpoint gets no session again, after any
\* number of retries, verdicts, crashes and restarts (resume_point), as long as
\* nobody asks for Continue, which gives a task a second worker.
THEOREM FinishedStepsNotRedoneAlways ==
  ASSUME Continues = 0
  PROVE  Spec => FinishedStepsNotRedone
<1> DEFINE A == \A x \in DOMAIN pane :
                  pane[x] = "none" /\ pane'[x] = "asking" =>
                    ckpt[x[1]][x[2]].payload # "COMPLETED"
<1>1. TInv /\ PInv /\ [Next]_vars => A
  BY NotRedone
<1>2. FinishedStepsNotRedone <=> [][A]_vars
  BY DEF FinishedStepsNotRedone
<1> HIDE DEF A
<1>3. Spec => [][A]_vars
  BY <1>1, PInvAlways, PTL DEF Spec
<1> QED
  BY <1>2, <1>3

-----------------------------------------------------------------------------
(* The refinement of Workflow                                              *)

FinishedKept(t) == Finished(t)' = Finished(t)

\* The four kinds of steps, seen from Workflow.
Pauses == (SameOutcomes \/ OneFails) /\ \A t \in Tasks : FinishedKept(t)

Spawns(t) ==
  /\ task[t].state = "none" /\ task'[t].state = "pending"
  /\ \A u \in Tasks : u # t => Same(u)
  /\ \A u \in Tasks : FinishedKept(u)

Ends(t) ==
  /\ task[t].state \in Active /\ task'[t].state = "completed" /\ Finished(t) = Steps
  /\ \A u \in Tasks : u # t => Same(u)
  /\ \A u \in Tasks : FinishedKept(u)

Advances(t, s) ==
  /\ task' = task /\ task[t].state \in Active \cup {"failed"}
  /\ Finished(t) = 1..(s - 1) /\ Finished(t)' = 1..s
  /\ \A u \in Tasks : u # t => FinishedKept(u)

LEMMA OutcomeOf ==
  ASSUME NEW t \in Tasks
  PROVE  /\ Outcome(t)  = IF task[t].state \in Active THEN "active" ELSE task[t].state
         /\ Outcome(t)' = IF task'[t].state \in Active THEN "active" ELSE task'[t].state
<1>1. ASSUME NEW st
      PROVE  (CASE st \in Q!Live -> "active" [] st = "none" -> "none" [] OTHER -> st)
               = IF st \in Active THEN "active" ELSE st
  BY DEF Q!Live, Active
<1>2. Q!Live' = Q!Live
  BY DEF Q!Live
<1> QED
  BY <1>1, <1>2 DEF Outcome

LEMMA SameOutcome ==
  ASSUME NEW t \in Tasks, Same(t)
  PROVE  Outcome(t)' = Outcome(t)
BY OutcomeOf DEF Same

LEMMA AbstractStep ==
  ASSUME \/ Pauses
         \/ \E t \in Tasks : Spawns(t) \/ Ends(t)
         \/ \E t \in Tasks, s \in Steps : Advances(t, s)
  PROVE  [Abstract!Next]_(Abstract!vars)
<1> DEFINE oc == [t \in Tasks |-> Outcome(t)]
           fin == [t \in Tasks |-> Finished(t)]
<1>1. ASSUME \A t \in Tasks : FinishedKept(t)
      PROVE  fin' = fin
  BY <1>1 DEF FinishedKept
<1>2. ASSUME NEW t \in Tasks, \A u \in Tasks : u # t => Same(u)
      PROVE  oc' = [oc EXCEPT ![t] = Outcome(t)']
  <2>1. \A u \in Tasks : u # t => Outcome(u)' = Outcome(u)
    BY <1>2, SameOutcome
  <2> QED
    BY <2>1
<1>3. CASE Pauses
  <2>1. fin' = fin
    BY <1>1, <1>3 DEF Pauses
  <2>2. CASE SameOutcomes
    <3>1. oc' = oc
      BY <2>2, SameOutcome DEF SameOutcomes
    <3> QED
      BY <2>1, <3>1 DEF Abstract!vars
  <2>3. CASE OneFails
    <3>1. PICK t \in Tasks : Fails(t) /\ \A u \in Tasks : u # t => Same(u)
      BY <2>3 DEF OneFails
    <3>2. Outcome(t) = "active" /\ Outcome(t)' = "failed"
      BY <3>1, OutcomeOf DEF Fails, Active
    <3>3. Abstract!Fail(t)
      BY <1>2, <2>1, <3>1, <3>2 DEF Abstract!Fail
    <3> QED
      BY <3>3 DEF Abstract!Next
  <2> QED
    BY <1>3, <2>2, <2>3 DEF Pauses
<1>4. ASSUME NEW t \in Tasks, Spawns(t)
      PROVE  Abstract!Next
  <2>1. Outcome(t) = "none" /\ Outcome(t)' = "active"
    BY <1>4, OutcomeOf DEF Spawns, Active
  <2>2. fin' = fin /\ oc' = [oc EXCEPT ![t] = Outcome(t)']
    BY <1>1, <1>2, <1>4 DEF Spawns
  <2>3. Abstract!Start(t)
    BY <2>1, <2>2 DEF Abstract!Start
  <2> QED
    BY <2>3 DEF Abstract!Next
<1>5. ASSUME NEW t \in Tasks, Ends(t)
      PROVE  Abstract!Next
  <2>1. Outcome(t) = "active" /\ Outcome(t)' = "completed"
    BY <1>5, OutcomeOf DEF Ends, Active
  <2>2. fin' = fin /\ oc' = [oc EXCEPT ![t] = Outcome(t)']
    BY <1>1, <1>2, <1>5 DEF Ends
  <2>3. Finished(t) = Abstract!Steps
    BY <1>5 DEF Ends, Steps, Abstract!Steps
  <2>4. Abstract!Complete(t)
    BY <2>1, <2>2, <2>3 DEF Abstract!Complete
  <2> QED
    BY <2>4 DEF Abstract!Next
<1>6. ASSUME NEW t \in Tasks, NEW s \in Steps, Advances(t, s)
      PROVE  Abstract!Next
  <2>1. Outcome(t) \in {"active", "failed"}
    BY <1>6, OutcomeOf DEF Advances
  <2>2. oc' = oc
    <3>1. SameOutcomes
      BY <1>6 DEF Advances, SameOutcomes, Same
    <3> QED
      BY <3>1, SameOutcome DEF SameOutcomes
  <2>3. fin' = [fin EXCEPT ![t] = 1..s] /\ fin[t] = 1..(s - 1)
    BY <1>6 DEF Advances, FinishedKept
  <2>4. s \in Abstract!Steps
    BY DEF Steps, Abstract!Steps
  <2>5. Abstract!FinishStep(t)
    BY <2>1, <2>2, <2>3, <2>4 DEF Abstract!FinishStep
  <2> QED
    BY <2>5 DEF Abstract!Next
<1> QED
  BY <1>3, <1>4, <1>5, <1>6

LEMMA FirstSteps ==
  ASSUME NEW t, NEW k \in 0..NumSteps, Table(t, k)
  PROVE  Finished(t) = 1..k
BY EngineAssumption DEF Table, Done, Finished, Steps

LEMMA FirstStepsNext ==
  ASSUME NEW t, NEW k \in 0..NumSteps, Table(t, k)'
  PROVE  Finished(t)' = 1..k
BY EngineAssumption DEF Table, Done, Finished, Steps

\* A worker's call is Pauses or Ends.
LEMMA WorkerPauses ==
  ASSUME TInv, UInv, EventsHuman, PInv, NEW w \in Workers, WorkerStep(w)
  PROVE  Pauses \/ \E t \in Tasks : Ends(t)
<1>0. PICK t : t = worker[w].task
  OBVIOUS
<1>1. Frame(w)
  BY WorkerFrame
<1>2. CASE Quiet
  BY <1>2 DEF Quiet, Pauses, FinishedKept, Finished
<1>3. CASE Begins(w) \/ Resolves(w) \/ Suspends(w) \/ Completes(w)
  <2>1. worker[w].pc \notin Free \cup Fresh
    BY <1>3 DEF Begins, Resolves, Suspends, Completes, Free, Fresh
  <2>2. t \in Tasks
    BY <1>0, <2>1 DEF TInv, Locals, Local
  <2>3. PICK k \in 0..NumSteps : Progress(t, k)
    BY <2>2 DEF PInv
  <2>4. Calls(t)
    BY <2>2 DEF PInv
  <2>5. ASSUME NEW u \in Tasks, u # t
        PROVE  FinishedKept(u)
    <3>1. RowsKept(u)
      BY <1>0, <1>3, <2>1, <2>5, OthersRows
    <3> QED
      BY <3>1 DEF RowsKept, FinishedKept, Finished
  <2>6. CASE Begins(w)
    <3>1. UNCHANGED <<task, ckpt>>
      BY <2>6 DEF Begins, QP!CheckpointCall
    <3> QED
      BY <3>1 DEF Pauses, SameOutcomes, Same, FinishedKept, Finished
  <2>7. CASE Resolves(w)
    <3>1. Progress(t, k)' /\ task' = task
      BY <1>0, <1>1, <2>2, <2>3, <2>4, <2>7, ResolvesWorker DEF Resolves, QP!AwaitResolved
    <3>2. Finished(t)' = 1..k /\ Finished(t) = 1..k
      BY <2>3, <3>1, FirstSteps, FirstStepsNext DEF Progress
    <3> QED
      BY <2>5, <3>1, <3>2 DEF Pauses, SameOutcomes, Same, FinishedKept
  <2>8. CASE Suspends(w)
    <3>1. SameOutcomes /\ ckpt' = ckpt
      BY <1>0, <1>1, <2>2, <2>3, <2>4, <2>8, SuspendsWorker DEF Suspends, QP!AwaitSuspend
    <3> QED
      BY <3>1 DEF Pauses, FinishedKept, Finished
  <2>9. CASE Completes(w)
    <3>1. /\ k = NumSteps
          /\ task[t].state \in Active /\ task'[t].state = "completed"
          /\ \A x \in Tasks : x # t => Same(x)
      BY <1>0, <1>1, <2>2, <2>3, <2>4, <2>9, CompletesWorker
    <3>2. ckpt' = ckpt
      BY <2>9 DEF Completes, QP!CompleteRun
    <3>3. Finished(t) = Steps
      BY <2>3, <3>1, FirstSteps DEF Progress, Steps
    <3> QED
      BY <2>2, <3>1, <3>2, <3>3 DEF Ends, FinishedKept, Finished
  <2> QED
    BY <1>3, <2>6, <2>7, <2>8, <2>9
<1> QED
  BY <1>2, <1>3, WorkerWalk

LEMMA EmitPauses ==
  ASSUME TInv, PInv, NEW e \in Tasks, NEW p \in HumanVerdicts, Q!EmitEvent(e, p)
  PROVE  Pauses
<1>1. QP!EmitEvent(e, p) /\ p \in CkptValues /\ p # "COMPLETED"
  BY SameProcedures DEF CkptValues, HumanVerdicts
<1>2. /\ SameOutcomes
      /\ \A t \in Tasks, s \in Steps :
           \/ ckpt'[t][s] = ckpt[t][s]
           \/ ckpt'[t][s].payload = p /\ \E x \in wait : x.task = t /\ x.step = s
  BY <1>1, EmitOutcome DEF TInv
<1>3. ASSUME NEW t \in Tasks, NEW s \in Steps
      PROVE  Done(t, s)' <=> Done(t, s)
  <2>1. PICK k \in 0..NumSteps : Table(t, k)
    BY DEF PInv, Progress
  <2>2. CASE ckpt'[t][s] = ckpt[t][s]
    BY <2>2 DEF Done
  <2>3. CASE ckpt'[t][s].payload = p /\ \E x \in wait : x.task = t /\ x.step = s
    <3>1. s = k + 1 /\ ~(s <= k)
      BY <2>1, <2>3, EngineAssumption DEF Table
    <3>2. ~Done(t, s)
      BY <2>1, <3>1 DEF Table
    <3> QED
      BY <1>1, <2>3, <3>2 DEF Done
  <2> QED
    BY <1>2, <2>2, <2>3
<1>4. ASSUME NEW t \in Tasks
      PROVE  FinishedKept(t)
  <2>1. \A s \in Steps : ckpt'[t][s].payload = "COMPLETED" <=> ckpt[t][s].payload = "COMPLETED"
    BY <1>3 DEF Done
  <2> QED
    BY <2>1 DEF FinishedKept, Finished
<1> QED
  BY <1>2, <1>4 DEF Pauses

LEMMA DbAdvances ==
  ASSUME TInv, UInv, PInv, NEW c \in writing,
         Q!CheckpointRead(c) \/ Q!CheckpointWrite(c), UNCHANGED <<worker, up>>
  PROVE  Pauses \/ \E t \in Tasks, s \in Steps : Advances(t, s)
<1>1. CASE Q!CheckpointRead(c)
  BY <1>1 DEF Q!CheckpointRead, Pauses, SameOutcomes, Same, FinishedKept, Finished
<1>2. CASE Q!CheckpointWrite(c)
  <2> DEFINE t == c.task
  <2>1. c \in QP!Call /\ c.attempt <= task[t].attempts
    BY DEF TInv, QP!FenceInv, QP!IInv, QP!TypeOK, QP!Fenced
  <2>2. t \in Tasks /\ c.attempt \in 1..MaxAttempts
    BY <2>1 DEF QP!Call, QP!Attempts
  <2> HIDE DEF t
  <2>3. PICK k \in 0..NumSteps : Progress(t, k)
    BY <2>2 DEF PInv
  <2>4. /\ Progress(t, k + 1)' /\ k + 1 \in Steps /\ task[t].state # "completed"
    BY <1>2, <2>2, <2>3, WriteOwn DEF PInv, t
  <2>5. k + 1 \in 0..NumSteps /\ (k + 1) - 1 = k
    BY <2>4, EngineAssumption DEF Steps
  <2>6. Finished(t) = 1..k /\ Finished(t)' = 1..(k + 1)
    BY <2>3, <2>4, <2>5, FirstSteps, FirstStepsNext DEF Progress
  <2>7. task[t].state \in Active \cup {"failed"}
    <3>1. task[t].state # "none"
      <4>1. task[t].attempts \in Nat /\ ~(task[t].attempts = 0)
        BY <2>1, <2>2, EngineAssumption DEF t, TInv, QP!FenceInv, QP!IInv, QP!TypeOK, QP!Task
      <4> QED
        BY <2>2, <4>1 DEF TInv, QP!FenceInv, QP!IInv, QP!Tables, QP!Numbering
    <3>2. task[t].state \in QP!States
      BY <2>2 DEF TInv, QP!FenceInv, QP!IInv, QP!TypeOK, QP!Task
    <3> QED
      BY <2>2, <2>4, <3>1, <3>2 DEF PInv, QP!States, QP!Live, QP!Terminal, Active
  <2>8. ASSUME NEW u \in Tasks, u # t
        PROVE  FinishedKept(u)
    <3>1. RowsKept(u)
      BY <1>2, <2>8, DbOthers DEF t
    <3> QED
      BY <3>1 DEF RowsKept, FinishedKept, Finished
  <2>9. task' = task
    BY <1>2 DEF Q!CheckpointWrite
  <2>10. Advances(t, k + 1)
    BY <2>5, <2>6, <2>7, <2>8, <2>9 DEF Advances
  <2> QED
    BY <2>2, <2>4, <2>10
<1> QED
  BY <1>1, <1>2

LEMMA EngineSteps ==
  ASSUME Continues = 0, TInv, UInv, EventsHuman, PInv, [Next]_vars
  PROVE  [Abstract!Next]_(Abstract!vars)
<1>1. CASE \E w \in Workers : WorkerStep(w)
  BY <1>1, WorkerPauses, AbstractStep
<1>2. CASE UNCHANGED <<task, ckpt>>
  BY <1>2, AbstractStep DEF Pauses, SameOutcomes, Same, FinishedKept, Finished
<1>3. CASE \E w \in Workers, t \in Tasks : Dispatch(w, t)
  <2>1. PICK w \in Workers, t \in Tasks : Dispatch(w, t)
    BY <1>3
  <2>2. task \in [Tasks -> QP!Task]
    BY DEF TInv, QP!FenceInv, QP!IInv, QP!TypeOK
  <2>3. /\ task[t].state = "none" /\ task'[t].state = "pending"
        /\ \A u \in Tasks : u # t => task'[u] = task[u]
        /\ ckpt' = ckpt
    BY <2>1, <2>2 DEF Dispatch, Q!SpawnTask
  <2>4. Spawns(t)
    BY <2>3 DEF Spawns, Same, FinishedKept, Finished
  <2> QED
    BY <2>4, AbstractStep
<1>4. CASE \E x \in sink : EmitVerdict(x)
  <2>1. PICK x \in sink : EmitVerdict(x)
    BY <1>4
  <2>2. x.task \in Tasks /\ x.verdict \in HumanVerdicts
    BY DEF TInv, TypeOK
  <2>3. CASE Q!EmitEvent(x.task, x.verdict)
    BY <2>2, <2>3, EmitPauses, AbstractStep
  <2>4. CASE UNCHANGED queueVars
    BY <1>2, <2>4 DEF queueVars
  <2> QED
    BY <2>1, <2>3, <2>4 DEF EmitVerdict
<1>5. CASE DbWrites
  BY <1>5, DbAdvances, AbstractStep DEF DbWrites, envVars
<1> QED
  BY <1>1, <1>2, <1>3, <1>4, <1>5, NoContinue
  DEF Next, SessionStep, HitlStep, GuardCheck, CommandEnds, SuspendStep, Answer,
      CardExpires, RecordVerdict, Stop, Crash, Restart, ResumeTask, Tick, Q!Tick,
      Q!ExpireLease, vars, queueVars, envVars

\* The engine implements Workflow: through every interleaving of workers, in-flight
\* set_checkpoint calls, verdicts, retries, crashes and restarts the steps of a task
\* are finished in order, stay so, and the task completes only with all of them, as
\* long as nobody asks for Continue.
THEOREM EngineImplementsWorkflow ==
  ASSUME Continues = 0
  PROVE  Spec => ImplementsWorkflow
<1>1. Init => Abstract!Init
  <2> SUFFICES ASSUME Init PROVE Abstract!Init
    OBVIOUS
  <2>1. \A t \in Tasks : task[t].state = "none" /\ \A s \in Steps : ckpt[t][s].payload = None
    BY DEF Init, Q!Init, Q!NoCkpt, Q!NoTask
  <2>2. None # "COMPLETED"
    BY EngineAssumption DEF CkptValues
  <2>3. \A t \in Tasks : Outcome(t) = "none" /\ Finished(t) = {}
    BY <2>1, <2>2, OutcomeOf DEF Active, Finished
  <2> QED
    BY <2>3 DEF Abstract!Init
<1>2. TInv /\ UInv /\ EventsHuman /\ PInv /\ [Next]_vars => [Abstract!Next]_(Abstract!vars)
  BY EngineSteps
<1> QED
  BY <1>1, <1>2, PInvAlways, PTL DEF Spec, ImplementsWorkflow, Abstract!Spec

-----------------------------------------------------------------------------
(* A task that sleeps is claimed again.  In a queue of one task, for a      *)
(* worker that claims another one's run ends; and without crashes, for the *)
(* cold start leaves a SUSPENDED task to nobody.                           *)

Alone == \A t, u \in Tasks : t = u

Attended(t) == \E w \in Workers : worker[w].task = t /\ worker[w].pc \in Fresh

SleepInv == \A t \in Tasks : task[t].state = "sleeping" => Attended(t)

\* A worker's step that leaves its task asleep.
LEMMA LeavesAsleep ==
  ASSUME TInv, Alone, NEW w \in Workers, WorkerStep(w), NEW t \in Tasks,
         task'[t].state = "sleeping"
  PROVE  \/ worker'[w].pc = "loop" /\ worker'[w].task = t
         \/ /\ task[t].state = "sleeping"
            /\ worker[w].pc \in Fresh => worker'[w].pc \in Fresh
<1> DEFINE v == worker[w]
<1>0. /\ QP!FenceInv /\ task \in [Tasks -> QP!Task] /\ Frame(w)
  BY WorkerFrame DEF TInv, QP!FenceInv, QP!IInv, QP!TypeOK
<1>1. v.task = t
  BY <1>0 DEF Alone, Frame, TInv, Locals, Local
<1>2. {"claim", "check", "loop", "off"} \subseteq Pcs
  BY DEF Pcs, Free
<1>3. ASSUME NEW a \in Attempts, QP!FailRun(t, a)
      PROVE  FALSE
  <2>1. task'[t].state \in {"pending", "failed"}
    BY <1>0, <1>3, FailedTask DEF QP!FailRun
  <2> QED
    BY <2>1
<1>4. v.pc \notin Free \cup Fresh => v.attempt \in Attempts
  BY DEF TInv, Locals, Local
<1>5. CASE Claim(w)
  <2>1. PICK u \in Tasks, a \in Attempts : Q!ClaimTask(u, a)
    BY <1>5 DEF Claim
  <2>2. task'[u].state = "running"
    BY <1>0, <2>1, SameRunCalls, ClaimOutcome
  <2> QED
    BY <2>2 DEF Alone
<1>6. CASE ClaimNone(w)
  <2>1. worker'[w].pc = "check"
    BY <1>2, <1>6, GoPc DEF ClaimNone
  <2>2. task' = task
    <3>1. CASE Q!ClaimNothing
      <4>1. PICK x \in QP!ExpiredRuns : QP!FailRun(x[1], x[2])
        BY <3>1, SameProcedures DEF QP!ClaimNothing
      <4>2. x[1] = t /\ x[2] \in Attempts
        BY DEF QP!ExpiredRuns, QP!Attempts, Attempts, Alone
      <4> QED
        BY <1>3, <4>1, <4>2
    <3> QED
      BY <1>6, <3>1 DEF ClaimNone, queueVars
  <2> QED
    BY <2>1, <2>2 DEF Fresh
<1>7. CASE KillStaleSessions(w)
  BY <1>2, <1>7, GoPc DEF KillStaleSessions, queueVars, Fresh
<1>8. CASE CheckTerminal(w)
  <2>1. task' = task /\ Go(w, IF NonTerminal(t) THEN "loop" ELSE "off")
    BY <1>1, <1>8 DEF CheckTerminal, queueVars
  <2>2. NonTerminal(t)
    BY <2>1 DEF NonTerminal, Q!Live
  <2>3. worker'[w].pc = "loop"
    BY <1>2, <2>1, <2>2, GoPc
  <2> QED
    BY <2>1, <2>3 DEF Fresh
<1>9. CASE v.pc \notin Fresh
  <2>1. CASE task' = task
    BY <1>9, <2>1
  <2>2. CASE FailTask(w) \/ CompleteTask(w)
    <3>1. v.attempt \in Attempts
      BY <1>4, <1>9, <2>2 DEF FailTask, CompleteTask, Free
    <3>2. CASE Q!FailRun(t, v.attempt)
      BY <1>3, <3>1, <3>2, SameRunCalls
    <3>3. CASE Q!CompleteRun(t, v.attempt)
      <4>1. task'[t].state = "completed"
        BY <1>0, <3>1, <3>3, SameRunCalls, CompleteOutcome
      <4> QED
        BY <4>1
    <3>4. CASE UNCHANGED queueVars
      BY <2>1, <3>4 DEF queueVars
    <3> QED
      BY <1>1, <2>2, <3>2, <3>3, <3>4 DEF FailTask, CompleteTask
  <2>3. CASE AwaitVerdict(w)
    <3>1. \/ Go(w, "loop")
          \/ UNCHANGED queueVars
          \/ Q!AwaitResolved(t, v.attempt, v.step, t)
          \/ Q!AwaitTimedOut(t, v.attempt, v.step, t)
      BY <1>1, <2>3 DEF AwaitVerdict
    <3>2. CASE Go(w, "loop")
      <4>1. worker'[w].pc = "loop"
        BY <1>2, <3>2, GoPc
      <4>2. worker'[w].task = t
        BY <1>0, <1>1 DEF Frame
      <4> QED
        BY <4>1, <4>2
    <3> QED
      BY <2>1, <3>1, <3>2 DEF queueVars, Q!AwaitResolved, Q!AwaitTimedOut
  <2>4. CASE Checkpoint(w) \/ RenewLease(w)
    BY <2>1, <2>4 DEF Checkpoint, RenewLease, Q!CheckpointCall, Q!ExtendClaim, queueVars
  <2>5. CASE UNCHANGED queueVars
    BY <2>1, <2>5 DEF queueVars
  <2> QED
    BY <1>5, <1>6, <1>7, <1>8, <2>2, <2>3, <2>4, <2>5, LocalWalk DEF WorkerStep
<1> QED
  BY <1>5, <1>6, <1>7, <1>8, <1>9
  DEF WorkerStep, ResumePoint, StartStep, LaunchStep, SawExit, RenewLease, PollFailed,
      StopOrLoss, ReadSuspended, ReadSuccess, ReadFailure, Park, GiveUp, StaleHead,
      Checkpoint, FinishStep, CompleteTask, FailTask, AwaitVerdict, Fresh

LEMMA SleepInvStep ==
  ASSUME Crashes = 0, Alone, TInv, SleepInv, [Next]_vars
  PROVE  SleepInv'
<1> SUFFICES ASSUME NEW t \in Tasks, task'[t].state = "sleeping"
             PROVE  Attended(t)'
  BY DEF SleepInv
<1>1. CASE \E w \in Workers : WorkerStep(w)
  <2>1. PICK w \in Workers : WorkerStep(w)
    BY <1>1
  <2>2. Others(w) /\ worker'[w].task = worker[w].task
    BY <2>1, WorkerFrame DEF Frame
  <2>3. CASE worker'[w].pc = "loop" /\ worker'[w].task = t
    BY <2>3 DEF Attended, Fresh
  <2>4. CASE /\ task[t].state = "sleeping"
             /\ worker[w].pc \in Fresh => worker'[w].pc \in Fresh
    <3>1. PICK x \in Workers : worker[x].task = t /\ worker[x].pc \in Fresh
      BY <2>4 DEF SleepInv, Attended
    <3>2. worker'[x].task = t /\ worker'[x].pc \in Fresh
      BY <2>2, <2>4, <3>1 DEF Others
    <3> QED
      BY <3>2 DEF Attended
  <2> QED
    BY <2>1, <2>3, <2>4, LeavesAsleep
<1>2. ASSUME task[t].state = "sleeping",
             \A w \in Workers : worker'[w] = worker[w] \/ worker[w].pc \in Free
      PROVE  Attended(t)'
  <2>1. PICK w \in Workers : worker[w].task = t /\ worker[w].pc \in Fresh
    BY <1>2 DEF SleepInv, Attended
  <2>2. worker'[w] = worker[w]
    BY <1>2, <2>1 DEF Fresh, Free
  <2> QED
    BY <2>1, <2>2 DEF Attended
<1>3. CASE \E w \in Workers, u \in Tasks : Dispatch(w, u) \/ ResumeTask(w, u)
  <2>1. PICK w \in Workers, u \in Tasks : Dispatch(w, u) \/ ResumeTask(w, u)
    BY <1>3
  <2>2. Others(w) /\ worker[w].pc \in Free
    BY <2>1, BeginEffect DEF Dispatch, ResumeTask
  <2>3. task[t].state = "sleeping"
    <3>1. CASE Dispatch(w, u)
      <4>1. task \in [Tasks -> QP!Task]
        BY DEF TInv, QP!FenceInv, QP!IInv, QP!TypeOK
      <4>2. task'[u].state = "pending"
        BY <3>1, <4>1 DEF Dispatch, Q!SpawnTask
      <4> QED
        BY <4>2 DEF Alone
    <3>2. CASE ResumeTask(w, u)
      BY <3>2 DEF ResumeTask, Q!ExpireLease, queueVars
    <3> QED
      BY <2>1, <3>1, <3>2
  <2> QED
    BY <1>2, <2>2, <2>3 DEF Others
<1>4. CASE UNCHANGED <<task, worker>>
  BY <1>2, <1>4
<1>5. CASE \E x \in sink : EmitVerdict(x)
  <2>1. PICK x \in sink : EmitVerdict(x)
    BY <1>5
  <2>2. CASE UNCHANGED queueVars
    BY <1>4, <2>1, <2>2 DEF EmitVerdict, queueVars
  <2>3. CASE Q!EmitEvent(x.task, x.verdict)
    <3>1. task \in [Tasks -> QP!Task]
      BY DEF TInv, QP!FenceInv, QP!IInv, QP!TypeOK
    <3>2. task'[t] = task[t] \/ task'[t] = [task[t] EXCEPT !.state = "pending"]
      BY <2>3 DEF Q!EmitEvent
    <3>3. [task[t] EXCEPT !.state = "pending"].state = "pending"
      BY <3>1 DEF QP!Task
    <3>4. task[t].state = "sleeping"
      BY <3>2, <3>3
    <3> QED
      BY <1>2, <2>1, <3>4 DEF EmitVerdict
  <2> QED
    BY <2>1, <2>2, <2>3 DEF EmitVerdict
<1>6. ~Crash
  BY DEF Crash, TInv, TypeOK
<1> QED
  BY <1>1, <1>3, <1>4, <1>5, <1>6
  DEF Next, SessionStep, HitlStep, GuardCheck, CommandEnds, SuspendStep, Answer,
      CardExpires, RecordVerdict, Stop, Continue, Restart, DbWrites, Tick, Q!Tick,
      Q!CheckpointRead, Q!CheckpointWrite, vars, queueVars, envVars

\* A task that sleeps on a verdict has a worker that will claim it again, whatever
\* Stop and Continue do, as long as the daemon does not crash and the queue holds
\* one task.
THEOREM SleepersHaveWorkersAlways ==
  ASSUME Crashes = 0, \A t, u \in Tasks : t = u
  PROVE  Spec => []SleepersHaveWorkers
<1>1. Init => SleepInv
  BY DEF Init, Q!Init, Q!NoTask, SleepInv
<1>2. TInv /\ SleepInv /\ [Next]_vars => SleepInv'
  BY SleepInvStep DEF Alone
<1>3. SleepInv => SleepersHaveWorkers
  BY DEF SleepInv, Attended, SleepersHaveWorkers, Fresh, Free
<1> QED
  BY <1>1, <1>2, <1>3, TInvAlways, PTL DEF Spec

=============================================================================
