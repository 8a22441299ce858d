------------------------- MODULE AbsurdQueueSteps --------------------------
(***************************************************************************)
(* What no procedure call may do, for every queue: the action properties   *)
(* of AbsurdQueue, proved from the inductive invariant of                  *)
(* AbsurdQueueProofs.                                                      *)
(***************************************************************************)
EXTENDS AbsurdQueueProofs

-----------------------------------------------------------------------------
(* Events                                                                  *)

LEMMA StepKeepsEvents ==
  ASSUME IInv, [Next]_vars
  PROVE  \A e \in Events : event[e] # None => event'[e] = event[e]
<1>0. event \in [Events -> Payloads \cup {None}]
  BY DEF IInv, TypeOK
<1>1. CASE \E e \in Events, p \in Payloads : EmitEvent(e, p)
  BY <1>0, <1>1 DEF EmitEvent, NotEmitted
<1>2. CASE \E t \in Tasks : TaskCall(t)
  BY <1>2 DEF TaskCall, SpawnTask, CancelTask, RetryTask
<1>3. CASE \E t \in Tasks, a \in Attempts : RunCall(t, a)
  <2>1. PICK t \in Tasks, a \in Attempts : RunCall(t, a)
    BY <1>3
  <2>2. CASE \E s \in Steps, e \in Events : AwaitEvent(t, a, s, e)
    BY <2>2 DEF AwaitEvent, AwaitResolved, AwaitTimedOut, AwaitSuspend
  <2>3. CASE ~\E s \in Steps, e \in Events : AwaitEvent(t, a, s, e)
    BY <2>1, <2>3 DEF RunCall, ClaimTask, CompleteRun, FailRun, ExtendClaim, ExpireLease,
                      ScheduleRun, CheckpointCall
  <2> QED
    BY <2>2, <2>3
<1>4. CASE ClaimNothing \/ Tick \/ UNCHANGED vars
  BY <1>4 DEF ClaimNothing, FailRun, Tick, vars
<1>5. CASE \E c \in writing : CheckpointRead(c) \/ CheckpointWrite(c)
  BY <1>5 DEF CheckpointRead, CheckpointWrite
<1> QED
  BY <1>1, <1>2, <1>3, <1>4, <1>5 DEF Next

\* The first payload of an event is kept for ever, whoever emits it again
\* (emit_event's upsert).
THEOREM EventsNeverChange == Spec => EventsImmutable
<1>1. IInv /\ [Next]_vars =>
        [\A e \in Events : event[e] # None => event'[e] = event[e]]_vars
  BY StepKeepsEvents
<1> QED
  BY <1>1, Invariance, PTL DEF Spec, EventsImmutable

-----------------------------------------------------------------------------
(* Ended runs                                                              *)

\* No run that has ended in rn has another state in rn2.
Stay(rn, rn2) ==
  \A t \in Tasks, a \in Attempts :
    rn[t][a].state \in Terminal => rn2[t][a].state = rn[t][a].state

LEMMA WithRunStays ==
  ASSUME NEW rn \in [Tasks -> [Attempts -> Run]],
         NEW t \in Tasks, NEW a \in Attempts, NEW r,
         rn[t][a].state \notin Terminal \/ r.state = rn[t][a].state
  PROVE  Stay(rn, WithRun(rn, t, a, r))
BY DEF Stay, WithRun

LEMMA FailStays ==
  ASSUME NEW tk, NEW rn, NEW wt, NEW ev, Tables(tk, rn, wt, ev),
         NEW t \in Tasks, NEW a \in Attempts,
         rn[t][a].state \in {"running", "sleeping"}
  PROVE  Stay(rn, RunsAfterFail(tk, rn, t, a))
<1> DEFINE rn2 == RunsAfterFail(tk, rn, t, a)
<1>1. /\ rn \in [Tasks -> [Attempts -> Run]]
      /\ a = tk[t].attempts /\ a \in Nat
      /\ \A x \in Attempts : rn[t][x].state = "none" <=> x > a
  BY LiveRunFacts DEF Tables, Rows, Numbering, Live
<1>2. \A u \in Tasks, x \in Attempts :
        ~(u = t /\ (x = a \/ x = a + 1)) => rn2[u][x] = rn[u][x]
  BY <1>1 DEF RunsAfterFail
<1>3. \A x \in Attempts : x = a + 1 => rn[t][x].state = "none"
  BY <1>1
<1>4. rn[t][a].state \notin Terminal
  BY DEF Terminal
<1>5. "none" \notin Terminal
  BY DEF Terminal
<1> HIDE DEF rn2
<1>6. Stay(rn, rn2)
  BY <1>2, <1>3, <1>4, <1>5 DEF Stay
<1> QED
  BY <1>6 DEF rn2

LEMMA LeaseStays ==
  ASSUME NEW tk, NEW rn, NEW wt,
         rn \in [Tasks -> [Attempts -> Run]],
         NEW t \in Tasks, NEW a \in Attempts, Lease(tk, rn, wt, t, a)
  PROVE  Stay(rn, run')
BY WithRunStays DEF Lease, DueRuns, Terminal

\* claim_task ends no run's end, neither by its sweep nor by its lease.
LEMMA ClaimStays ==
  ASSUME IInv, NEW t \in Tasks, NEW a \in Attempts, ClaimTask(t, a)
  PROVE  Stay(run, run')
<1>0. Tables(task, run, wait, event) /\ run \in [Tasks -> [Attempts -> Run]]
  BY DEF IInv, TypeOK
<1>1. CASE Lease(task, run, wait, t, a)
  BY <1>0, <1>1, LeaseStays
<1>2. CASE \E x \in ExpiredRuns :
             Lease(TasksAfterFail(task, x[1], x[2]),
                   RunsAfterFail(task, run, x[1], x[2]),
                   WaitsWithout(wait, x[1], x[2]), t, a)
  <2>1. PICK x \in ExpiredRuns :
             Lease(TasksAfterFail(task, x[1], x[2]),
                   RunsAfterFail(task, run, x[1], x[2]),
                   WaitsWithout(wait, x[1], x[2]), t, a)
    BY <1>2
  <2> DEFINE rn2 == RunsAfterFail(task, run, x[1], x[2])
  <2>2. x[1] \in Tasks /\ x[2] \in Attempts /\ run[x[1]][x[2]].state = "running"
    BY DEF ExpiredRuns
  <2>3. Stay(run, rn2)
    BY <1>0, <2>2, FailStays
  <2>4. rn2 \in [Tasks -> [Attempts -> Run]]
    BY <1>0, <2>2, FailKeepsTables DEF Tables, Rows
  <2>5. Stay(rn2, run')
    BY <2>1, <2>4, LeaseStays
  <2> HIDE DEF rn2
  <2> QED
    BY <2>3, <2>5 DEF Stay
<1> QED
  BY <1>1, <1>2 DEF ClaimTask

LEMMA RunCallStays ==
  ASSUME IInv, NEW t \in Tasks, NEW a \in Attempts, RunCall(t, a)
  PROVE  Stay(run, run')
<1>0. Tables(task, run, wait, event) /\ run \in [Tasks -> [Attempts -> Run]]
  BY DEF IInv, TypeOK
<1>1. CASE ClaimTask(t, a)
  BY <1>1, ClaimStays
<1>2. CASE FailRun(t, a)
  BY <1>0, <1>2, FailStays DEF FailRun, CanFail
<1>3. CASE CompleteRun(t, a) \/ ExtendClaim(t, a) \/ ExpireLease(t, a)
  BY <1>0, <1>3, WithRunStays
  DEF CompleteRun, CanComplete, ExtendClaim, CanExtend, ExpireLease, Terminal
<1>4. CASE \E d \in SleepDelays : ScheduleRun(t, a, d)
  BY <1>0, <1>4, WithRunStays DEF ScheduleRun, Terminal
<1>5. CASE \E s \in Steps, p \in CkptStates : CheckpointCall(t, a, s, p)
  BY <1>5 DEF CheckpointCall, Stay
<1>6. CASE \E s \in Steps, e \in Events : AwaitEvent(t, a, s, e)
  <2>1. run[t][a].state \notin Terminal /\ \E r : run' = WithRun(run, t, a, r)
    BY <1>6
    DEF AwaitEvent, AwaitResolved, AwaitTimedOut, AwaitSuspend, CanAwait, Terminal
  <2> QED
    BY <1>0, <2>1, WithRunStays
<1> QED
  BY <1>1, <1>2, <1>3, <1>4, <1>5, <1>6 DEF RunCall

LEMMA StepStays ==
  ASSUME IInv, [Next]_vars
  PROVE  Stay(run, run')
<1>0. Tables(task, run, wait, event) /\ run \in [Tasks -> [Attempts -> Run]]
  BY DEF IInv, TypeOK
<1>1. CASE \E t \in Tasks, a \in Attempts : RunCall(t, a)
  BY <1>1, RunCallStays
<1>2. CASE \E t \in Tasks : TaskCall(t)
  <2>1. PICK t \in Tasks : TaskCall(t)
    BY <1>2
  <2>2. CASE SpawnTask(t)
    <3>1. 1 \in Attempts /\ run[t][1].state = "none"
      BY <1>0, <2>2, QueueAssumption DEF SpawnTask, Attempts, Tables, Numbering
    <3> QED
      BY <1>0, <2>2, <3>1, WithRunStays DEF SpawnTask, Terminal
  <2>3. CASE CancelTask(t)
    <3>1. \A u \in Tasks, a \in Attempts :
            run[u][a].state \notin Live => run'[u][a] = run[u][a]
      BY <1>0, <2>3 DEF CancelTask
    <3> QED
      BY <3>1 DEF Stay, Live, Terminal
  <2>4. CASE \E m \in Attempts : RetryTask(t, m)
    <3>1. PICK m \in Attempts : RetryTask(t, m)
      BY <2>4
    <3> DEFINE a == task[t].attempts + 1
    <3>2. task[t].attempts \in Nat /\ m > task[t].attempts
      BY <1>0, <3>1 DEF RetryTask, Tables, Rows, Task
    <3>3. a \in Attempts
      BY <3>2, QueueAssumption DEF Attempts
    <3>4. run[t][a].state = "none"
      BY <1>0, <3>2, <3>3 DEF Tables, Numbering
    <3>5. run' = WithRun(run, t, a, NewRun("pending", 0))
      BY <3>1 DEF RetryTask
    <3> HIDE DEF a
    <3> QED
      BY <1>0, <3>3, <3>4, <3>5, WithRunStays DEF Terminal
  <2> QED
    BY <2>1, <2>2, <2>3, <2>4 DEF TaskCall
<1>3. CASE ClaimNothing
  <2>1. PICK x \in ExpiredRuns : FailRun(x[1], x[2])
    BY <1>3 DEF ClaimNothing
  <2>2. x[1] \in Tasks /\ x[2] \in Attempts
    BY DEF ExpiredRuns
  <2> QED
    BY <1>0, <2>1, <2>2, FailStays DEF FailRun, CanFail
<1>4. CASE \E e \in Events, p \in Payloads : EmitEvent(e, p)
  <2>1. PICK e \in Events, p \in Payloads : EmitEvent(e, p)
    BY <1>4
  <2>2. \A u \in Tasks, a \in Attempts :
          run[u][a].state # "sleeping" => run'[u][a] = run[u][a]
    BY <2>1 DEF EmitEvent, Woken
  <2>3. "sleeping" \notin Terminal
    BY DEF Terminal
  <2> QED
    BY <2>2, <2>3 DEF Stay
<1>5. CASE \E c \in writing : CheckpointRead(c) \/ CheckpointWrite(c)
  BY <1>5 DEF CheckpointRead, CheckpointWrite, Stay
<1>6. CASE Tick
  <2>1. \A u \in Tasks, a \in Attempts :
          run'[u][a] = [run[u][a] EXCEPT !.due = Less(@), !.lease = Less(@)]
    BY <1>6 DEF Tick
  <2>2. \A u \in Tasks, a \in Attempts : run[u][a] \in Run
    BY <1>0
  <2>3. ASSUME NEW r \in Run
        PROVE  [r EXCEPT !.due = Less(@), !.lease = Less(@)].state = r.state
    BY DEF Run
  <2> QED
    BY <2>1, <2>2, <2>3 DEF Stay
<1>7. CASE UNCHANGED vars
  BY <1>7 DEF vars, Stay
<1> QED
  BY <1>1, <1>2, <1>3, <1>4, <1>5, <1>6, <1>7 DEF Next

\* A run that ended stays ended under every sequence of calls: a worker whose
\* lease was swept cannot complete, schedule or revive it.
THEOREM EndedRunsStayEnded == Spec => EndedRunsStay
<1>1. IInv /\ [Next]_vars =>
        [\A t \in Tasks, a \in Attempts :
           run[t][a].state \in Terminal => run'[t][a].state = run[t][a].state]_vars
  BY StepStays DEF Stay
<1> QED
  BY <1>1, Invariance, PTL DEF Spec, EndedRunsStay

-----------------------------------------------------------------------------
(* The queue implements DurableTask                                        *)

LifeOf(k) == [state |-> k.state, attempt |-> k.attempts, budget |-> k.max]

\* Every task of tk2 is where DurableTask lets one call take it from tk.
Moves(tk, tk2) ==
  \A t \in Tasks : LifeOf(tk2[t]) = LifeOf(tk[t])
                   \/ Durable!Move(LifeOf(tk[t]), LifeOf(tk2[t]))

\* A call that replaces the row of one task moves only that task.
LEMMA OneTaskMoves ==
  ASSUME NEW tk, NEW tk2, NEW t \in Tasks, NEW k,
         tk \in [Tasks -> Task], tk2 = [tk EXCEPT ![t] = k],
         LifeOf(k) = LifeOf(tk[t]) \/ Durable!Move(LifeOf(tk[t]), LifeOf(k))
  PROVE  Moves(tk, tk2)
BY DEF Moves

\* fail_run begins the next attempt or, with the budget used up, ends the task.
LEMMA FailMoves ==
  ASSUME NEW tk, NEW rn, NEW wt, NEW ev, Tables(tk, rn, wt, ev),
         NEW t \in Tasks, NEW a \in Attempts,
         rn[t][a].state \in {"running", "sleeping"}
  PROVE  /\ Moves(tk, TasksAfterFail(tk, t, a))
         /\ \A u \in Tasks : u # t => TasksAfterFail(tk, t, a)[u] = tk[u]
         /\ HasRetry(tk, t, a) =>
              /\ TasksAfterFail(tk, t, a)[t].attempts = tk[t].attempts + 1
              /\ tk[t].attempts < tk[t].max
         /\ ~HasRetry(tk, t, a) => TasksAfterFail(tk, t, a)[t].state = "failed"
         /\ TasksAfterFail(tk, t, a)[t].max = tk[t].max
<1> DEFINE last == IF HasRetry(tk, t, a) THEN a + 1 ELSE a
           k == [state    |-> IF HasRetry(tk, t, a) THEN RetryState ELSE "failed",
                 attempts |-> Larger(tk[t].attempts, last),
                 max      |-> tk[t].max,
                 lastRun  |-> last]
<1>1. /\ tk \in [Tasks -> Task] /\ tk[t] \in Task
      /\ a = tk[t].attempts /\ a \in Nat /\ a <= tk[t].max
      /\ tk[t].state \in {"running", "sleeping"}
  BY LiveRunFacts DEF Tables, Rows, Live
<1>2. tk[t].max \in Nat /\ RetryState \in {"pending", "sleeping"}
  BY <1>1 DEF Task, RetryState
<1>3. TasksAfterFail(tk, t, a) = [tk EXCEPT ![t] = k]
  BY DEF TasksAfterFail
<1>4. k.attempts = last /\ last \in Nat
  BY <1>1 DEF Larger
<1>7. /\ TasksAfterFail(tk, t, a)[t] = k
      /\ \A u \in Tasks : u # t => TasksAfterFail(tk, t, a)[u] = tk[u]
  BY <1>1, <1>3
<1>5. CASE HasRetry(tk, t, a)
  <2>1. LifeOf(k) = [state |-> RetryState, attempt |-> a + 1, budget |-> tk[t].max]
    BY <1>4, <1>5 DEF LifeOf
  <2>2. a < tk[t].max
    BY <1>1, <1>2, <1>5 DEF HasRetry
  <2>3. Durable!Move(LifeOf(tk[t]), LifeOf(k))
    BY <1>1, <1>2, <2>1, <2>2
    DEF Durable!Move, Durable!Retried, Durable!NextAttempt, LifeOf
  <2>4. k.attempts = a + 1 /\ k.max = tk[t].max
    BY <1>4, <1>5
  <2> HIDE DEF k
  <2>5. Moves(tk, TasksAfterFail(tk, t, a))
    BY <1>1, <1>3, <2>3, OneTaskMoves
  <2> QED
    BY <1>1, <1>7, <1>5, <2>2, <2>4, <2>5
<1>6. CASE ~HasRetry(tk, t, a)
  <2>1. LifeOf(k) = [state |-> "failed", attempt |-> a, budget |-> tk[t].max]
    BY <1>4, <1>6 DEF LifeOf
  <2>2. a = tk[t].max
    BY <1>1, <1>2, <1>6 DEF HasRetry
  <2>3. Durable!Move(LifeOf(tk[t]), LifeOf(k))
    BY <1>1, <1>2, <2>1, <2>2
    DEF Durable!Move, Durable!Failed, Durable!SameAttempt, LifeOf
  <2>4. k.state = "failed" /\ k.max = tk[t].max
    BY <1>6
  <2> HIDE DEF k
  <2>5. Moves(tk, TasksAfterFail(tk, t, a))
    BY <1>1, <1>3, <2>3, OneTaskMoves
  <2> QED
    BY <1>1, <1>7, <1>6, <2>4, <2>5
<1> QED
  BY <1>5, <1>6

\* The lease of a due run starts its task.
LEMMA LeaseMoves ==
  ASSUME NEW tk, NEW rn, NEW wt, NEW ev, Tables(tk, rn, wt, ev),
         NEW t \in Tasks, NEW a \in Attempts, Lease(tk, rn, wt, t, a)
  PROVE  /\ Moves(tk, task')
         /\ \A u \in Tasks : u # t => task'[u] = tk[u]
         /\ tk[t].state \in {"pending", "sleeping"}
         /\ LifeOf(task'[t]) =
              [state |-> "running", attempt |-> tk[t].attempts, budget |-> tk[t].max]
<1>1. rn[t][a].state \in {"pending", "sleeping"}
  BY DEF Lease, DueRuns
<1>2. /\ tk \in [Tasks -> Task] /\ tk[t] \in Task
      /\ a = tk[t].attempts /\ a \in Nat
      /\ tk[t].state \in {"pending", "sleeping"}
  BY <1>1, LiveRunFacts DEF Tables, Rows, Live
<1> DEFINE k == [tk[t] EXCEPT !.state = "running",
                              !.attempts = Larger(tk[t].attempts, a), !.lastRun = a]
<1>3. task' = [tk EXCEPT ![t] = k]
  BY <1>2 DEF Lease
<1>4. LifeOf(k) = [state |-> "running", attempt |-> tk[t].attempts, budget |-> tk[t].max]
  BY <1>2 DEF LifeOf, Task, Larger
<1>5. Durable!Move(LifeOf(tk[t]), LifeOf(k))
  BY <1>2, <1>4 DEF Durable!Move, Durable!Started, Durable!SameAttempt, LifeOf
<1> HIDE DEF k
<1> QED
  BY <1>2, <1>3, <1>4, <1>5, OneTaskMoves

\* claim_task: the task whose lease was swept may be the task it then leases.
LEMMA ClaimMoves ==
  ASSUME IInv, NEW t \in Tasks, NEW a \in Attempts, ClaimTask(t, a)
  PROVE  Moves(task, task')
<1>0. Tables(task, run, wait, event)
  BY DEF IInv
<1>1. CASE Lease(task, run, wait, t, a)
  BY <1>0, <1>1, LeaseMoves
<1>2. CASE \E x \in ExpiredRuns :
             Lease(TasksAfterFail(task, x[1], x[2]),
                   RunsAfterFail(task, run, x[1], x[2]),
                   WaitsWithout(wait, x[1], x[2]), t, a)
  <2>1. PICK x \in ExpiredRuns :
             Lease(TasksAfterFail(task, x[1], x[2]),
                   RunsAfterFail(task, run, x[1], x[2]),
                   WaitsWithout(wait, x[1], x[2]), t, a)
    BY <1>2
  <2>2. x[1] \in Tasks /\ x[2] \in Attempts /\ run[x[1]][x[2]].state = "running"
    BY DEF ExpiredRuns
  <2> DEFINE tk2 == TasksAfterFail(task, x[1], x[2])
             rn2 == RunsAfterFail(task, run, x[1], x[2])
             wt2 == WaitsWithout(wait, x[1], x[2])
  <2>3. Tables(tk2, rn2, wt2, event)
    BY <1>0, <2>2, FailKeepsTables
  <2>4. /\ Moves(task, tk2)
        /\ \A u \in Tasks : u # x[1] => tk2[u] = task[u]
        /\ HasRetry(task, x[1], x[2]) =>
             /\ tk2[x[1]].attempts = task[x[1]].attempts + 1
             /\ task[x[1]].attempts < task[x[1]].max
        /\ ~HasRetry(task, x[1], x[2]) => tk2[x[1]].state = "failed"
        /\ tk2[x[1]].max = task[x[1]].max
    BY <1>0, <2>2, FailMoves
  <2>5. Lease(tk2, rn2, wt2, t, a)
    BY <2>1
  <2>6. task[x[1]].state = "running"
    BY <1>0, <2>2, LiveRunFacts DEF Live
  <2> HIDE DEF tk2, rn2, wt2
  <2>7. /\ Moves(tk2, task')
        /\ \A u \in Tasks : u # t => task'[u] = tk2[u]
        /\ tk2[t].state \in {"pending", "sleeping"}
        /\ LifeOf(task'[t]) =
             [state |-> "running", attempt |-> tk2[t].attempts, budget |-> tk2[t].max]
    BY <2>3, <2>5, LeaseMoves
  <2>8. CASE t # x[1]
    BY <2>4, <2>7, <2>8 DEF Moves
  <2>9. CASE t = x[1]
    <3>1. HasRetry(task, x[1], x[2])
      BY <2>4, <2>7, <2>9
    <3>2. LifeOf(task'[t]) = [state |-> "running", attempt |-> task[t].attempts + 1,
                              budget |-> task[t].max]
      BY <2>4, <2>7, <2>9, <3>1
    <3>3. Durable!Move(LifeOf(task[t]), LifeOf(task'[t]))
      BY <2>4, <2>6, <2>9, <3>1, <3>2
      DEF Durable!Move, Durable!Retried, Durable!NextAttempt, LifeOf
    <3> QED
      BY <2>4, <2>7, <2>9, <3>3 DEF Moves
  <2> QED
    BY <2>8, <2>9
<1> QED
  BY <1>1, <1>2 DEF ClaimTask

\* The other calls on one run change the state of its task and nothing that
\* DurableTask sees beside it.
LEMMA StateMoves ==
  ASSUME task \in [Tasks -> Task], NEW t \in Tasks, NEW k,
         task' = [task EXCEPT ![t] = k],
         k.attempts = task[t].attempts, k.max = task[t].max,
         \/ task[t].state = "running" /\ k.state \in {"sleeping", "completed"}
         \/ task[t].state \in {"pending", "sleeping", "running"} /\ k.state = "cancelled"
  PROVE  Moves(task, task')
<1>1. Durable!Move(LifeOf(task[t]), LifeOf(k))
  BY DEF LifeOf, Durable!Move, Durable!Suspended, Durable!Completed, Durable!Cancelled,
         Durable!SameAttempt
<1> QED
  BY <1>1, OneTaskMoves

LEMMA StateExcept ==
  ASSUME NEW k \in Task, NEW st
  PROVE  LET j == [k EXCEPT !.state = st] IN
         j.attempts = k.attempts /\ j.max = k.max /\ j.state = st
BY DEF Task

LEMMA RunCallMoves ==
  ASSUME IInv, NEW t \in Tasks, NEW a \in Attempts, RunCall(t, a)
  PROVE  Moves(task, task')
<1>0. Tables(task, run, wait, event) /\ task \in [Tasks -> Task]
  BY DEF IInv, TypeOK
<1>1. task[t] \in Task
  BY <1>0
<1>2. run[t][a].state = "running" => task[t].state = "running"
  BY <1>0, LiveRunFacts DEF Live
<1>4. CASE ClaimTask(t, a)
  BY <1>4, ClaimMoves
<1>5. CASE FailRun(t, a)
  BY <1>0, <1>5, FailMoves DEF FailRun, CanFail
<1>6. CASE CompleteRun(t, a)
  <2> DEFINE k == [task[t] EXCEPT !.state = "completed", !.lastRun = a]
  <2>1. task' = [task EXCEPT ![t] = k] /\ run[t][a].state = "running"
    BY <1>6 DEF CompleteRun, CanComplete
  <2>2. /\ k.state = "completed" /\ k.attempts = task[t].attempts
        /\ k.max = task[t].max
    BY <1>1 DEF Task
  <2> HIDE DEF k
  <2> QED
    BY <1>0, <1>2, <2>1, <2>2, StateMoves
<1>7. ASSUME run[t][a].state = "running",
             task' = [task EXCEPT ![t] = [@ EXCEPT !.state = "sleeping"]]
      PROVE  Moves(task, task')
  <2> DEFINE k == [task[t] EXCEPT !.state = "sleeping"]
  <2>1. k.state = "sleeping" /\ k.attempts = task[t].attempts /\ k.max = task[t].max
    BY <1>1, StateExcept
  <2>2. task' = [task EXCEPT ![t] = k]
    BY <1>7
  <2> HIDE DEF k
  <2> QED
    BY <1>0, <1>2, <1>7, <2>1, <2>2, StateMoves
<1>8. CASE \E d \in SleepDelays : ScheduleRun(t, a, d)
  BY <1>7, <1>8 DEF ScheduleRun
<1>9. CASE task' = task
  BY <1>9 DEF Moves
<1>10. CASE \E s \in Steps, e \in Events : AwaitEvent(t, a, s, e)
  <2>1. task' = task \/ (/\ run[t][a].state = "running"
                         /\ task' = [task EXCEPT ![t] = [@ EXCEPT !.state = "sleeping"]])
    BY <1>10 DEF AwaitEvent, AwaitResolved, AwaitTimedOut, AwaitSuspend, CanAwait
  <2> QED
    BY <1>7, <1>9, <2>1
<1>11. CASE \/ ExtendClaim(t, a) \/ ExpireLease(t, a)
            \/ \E s \in Steps, p \in CkptStates : CheckpointCall(t, a, s, p)
  BY <1>9, <1>11 DEF ExtendClaim, ExpireLease, CheckpointCall
<1> QED
  BY <1>4, <1>5, <1>6, <1>8, <1>10, <1>11 DEF RunCall

LEMMA TaskCallMoves ==
  ASSUME IInv, NEW t \in Tasks, TaskCall(t)
  PROVE  Moves(task, task')
<1>0. Tables(task, run, wait, event) /\ task \in [Tasks -> Task]
  BY DEF IInv, TypeOK
<1>1. task[t] \in Task /\ task[t].attempts \in Nat /\ task[t].max \in Nat
  BY <1>0 DEF Task
<1>2. CASE SpawnTask(t)
  <2> DEFINE k == [state |-> "pending", attempts |-> 1, max |-> MaxAttempts, lastRun |-> 1]
  <2>1. task[t].state = "none" /\ task' = [task EXCEPT ![t] = k]
    BY <1>2 DEF SpawnTask
  <2>2. LifeOf(task[t]).state = "none"
    BY <2>1 DEF LifeOf
  <2>3. /\ LifeOf(k) = [state |-> "pending", attempt |-> 1, budget |-> MaxAttempts]
        /\ MaxAttempts >= 1
    BY QueueAssumption DEF LifeOf
  <2>4. Durable!Move(LifeOf(task[t]), LifeOf(k))
    BY <2>2, <2>3 DEF Durable!Move, Durable!Created
  <2> HIDE DEF k
  <2> QED
    BY <1>0, <2>1, <2>4, OneTaskMoves
<1>3. CASE CancelTask(t)
  <2> DEFINE k == [task[t] EXCEPT !.state = "cancelled"]
  <2>1. k.state = "cancelled" /\ k.attempts = task[t].attempts /\ k.max = task[t].max
    BY <1>1, StateExcept
  <2>2. /\ task[t].state \in {"pending", "sleeping", "running"}
        /\ task' = [task EXCEPT ![t] = k]
    BY <1>3 DEF CancelTask, Live
  <2> HIDE DEF k
  <2> QED
    BY <1>0, <2>1, <2>2, StateMoves
<1>4. CASE \E m \in Attempts : RetryTask(t, m)
  <2>1. PICK m \in Attempts : RetryTask(t, m)
    BY <1>4
  <2> DEFINE a == task[t].attempts + 1
             k == [state |-> "pending", attempts |-> Larger(task[t].attempts, a),
                   max |-> m, lastRun |-> a]
  <2>2. /\ task[t].state = "failed" /\ m > task[t].attempts
        /\ task' = [task EXCEPT ![t] = k] /\ m \in Nat
    BY <2>1 DEF RetryTask, Attempts
  <2>3. LifeOf(k) = [state |-> "pending", attempt |-> a, budget |-> m]
    BY <1>1 DEF LifeOf, Larger
  <2>4. Durable!Move(LifeOf(task[t]), LifeOf(k))
    BY <1>1, <2>2, <2>3 DEF Durable!Move, Durable!Reopened, LifeOf
  <2> HIDE DEF k
  <2> QED
    BY <1>0, <2>2, <2>4, OneTaskMoves
<1> QED
  BY <1>2, <1>3, <1>4 DEF TaskCall

\* emit_event wakes the tasks of the runs it finds asleep.
LEMMA EmitMoves ==
  ASSUME IInv, NEW e \in Events, NEW p \in Payloads, EmitEvent(e, p)
  PROVE  Moves(task, task')
<1>0. Tables(task, run, wait, event) /\ task \in [Tasks -> Task] /\ wait \subseteq Wait
  BY DEF IInv, TypeOK
<1> SUFFICES ASSUME NEW t \in Tasks
             PROVE  \/ LifeOf(task'[t]) = LifeOf(task[t])
                    \/ Durable!Move(LifeOf(task[t]), LifeOf(task'[t]))
  BY DEF Moves
<1>1. CASE \E w \in Woken(e) : w.task = t
  <2>1. PICK w \in Woken(e) : w.task = t
    BY <1>1
  <2>2. w.attempt \in Attempts /\ run[t][w.attempt].state = "sleeping"
    BY <1>0, <2>1 DEF Woken, Wait
  <2>3. task[t].state = "sleeping"
    BY <1>0, <2>2, LiveRunFacts DEF Live
  <2>4. task'[t] = [task[t] EXCEPT !.state = "pending"] /\ task[t] \in Task
    BY <1>0, <1>1 DEF EmitEvent
  <2>5. LifeOf(task'[t]) =
          [state |-> "pending", attempt |-> task[t].attempts, budget |-> task[t].max]
    BY <2>4 DEF LifeOf, Task
  <2> QED
    BY <2>3, <2>5 DEF LifeOf, Durable!Move, Durable!Woken, Durable!SameAttempt
<1>2. CASE ~\E w \in Woken(e) : w.task = t
  BY <1>2 DEF EmitEvent
<1> QED
  BY <1>1, <1>2

LEMMA StepMoves ==
  ASSUME IInv, [Next]_vars
  PROVE  Moves(task, task')
<1>1. CASE \E t \in Tasks, a \in Attempts : RunCall(t, a)
  BY <1>1, RunCallMoves
<1>2. CASE \E t \in Tasks : TaskCall(t)
  BY <1>2, TaskCallMoves
<1>3. CASE ClaimNothing
  <2>1. PICK x \in ExpiredRuns : FailRun(x[1], x[2])
    BY <1>3 DEF ClaimNothing
  <2>2. x[1] \in Tasks /\ x[2] \in Attempts
    BY DEF ExpiredRuns
  <2> QED
    BY <2>1, <2>2, FailMoves DEF FailRun, CanFail, IInv
<1>4. CASE \E e \in Events, p \in Payloads : EmitEvent(e, p)
  BY <1>4, EmitMoves
<1>5. CASE task' = task
  BY <1>5 DEF Moves
<1>6. CASE \/ \E c \in writing : CheckpointRead(c) \/ CheckpointWrite(c)
           \/ Tick
           \/ UNCHANGED vars
  BY <1>5, <1>6 DEF CheckpointRead, CheckpointWrite, Tick, vars
<1> QED
  BY <1>1, <1>2, <1>3, <1>4, <1>6 DEF Next

\* Whatever the callers do, stale ones included, a task is carried out as
\* DurableTask says: one attempt at a time, none beyond the budget, and never
\* back from completed or cancelled.
THEOREM QueueImplementsDurableTask == Spec => ImplementsDurableTask
<1> DEFINE life == [t \in Tasks |-> [state   |-> task[t].state,
                                     attempt |-> task[t].attempts,
                                     budget  |-> task[t].max]]
<1>1. Init => Durable!Init
  BY DEF Init, Durable!Init, Durable!Unborn, NoTask
<1>2. IInv /\ [Next]_vars => [Durable!Next]_life
  <2> SUFFICES ASSUME IInv, [Next]_vars PROVE Durable!Next
    OBVIOUS
  <2>1. \A t \in Tasks : life[t] = LifeOf(task[t]) /\ life'[t] = LifeOf(task'[t])
    BY DEF LifeOf
  <2>2. DOMAIN life' = Tasks
    OBVIOUS
  <2>3. Moves(task, task')
    BY StepMoves
  <2> QED
    BY <2>1, <2>2, <2>3 DEF Durable!Next, Moves
<1> QED
  BY <1>1, <1>2, Invariance, PTL DEF Spec, ImplementsDurableTask, Durable!Spec

-----------------------------------------------------------------------------
(* Checkpoints.  Every owner is an attempt the task has reached, and a     *)
(* call in flight that read an owner read one no newer than itself.        *)

Fenced ==
  /\ \A t \in Tasks, s \in Steps : ckpt[t][s].owner <= task[t].attempts
  /\ \A c \in writing : /\ c.attempt <= task[c.task].attempts
                        /\ c.saw # None => c.saw <= c.attempt

FenceInv == IInv /\ Fenced

\* No call, and no event, lowers a task's attempt number.
LEMMA AttemptsGrow ==
  ASSUME IInv, [Next]_vars
  PROVE  \A t \in Tasks : /\ task[t].attempts \in Nat /\ task'[t].attempts \in Nat
                          /\ task[t].attempts <= task'[t].attempts
<1> SUFFICES ASSUME NEW t \in Tasks
             PROVE  /\ task[t].attempts \in Nat /\ task'[t].attempts \in Nat
                    /\ task[t].attempts <= task'[t].attempts
  OBVIOUS
<1>1. task[t].attempts \in Nat /\ task'[t].attempts \in Nat
  BY NextIInv DEF IInv, TypeOK, Task
<1>2. LifeOf(task[t]).attempt = task[t].attempts
      /\ LifeOf(task'[t]).attempt = task'[t].attempts
  BY DEF LifeOf
<1>3. \/ LifeOf(task'[t]) = LifeOf(task[t])
      \/ LifeOf(task'[t]).attempt = LifeOf(task[t]).attempt
      \/ LifeOf(task'[t]).attempt = LifeOf(task[t]).attempt + 1
      \/ LifeOf(task[t]).state = "none" /\ LifeOf(task'[t]).attempt = 1
  <2>1. \/ LifeOf(task'[t]) = LifeOf(task[t])
        \/ Durable!Move(LifeOf(task[t]), LifeOf(task'[t]))
    BY StepMoves DEF Moves
  <2> QED
    BY <2>1
    DEF Durable!Move, Durable!Created, Durable!Started, Durable!Suspended, Durable!Woken,
        Durable!Retried, Durable!Failed, Durable!Completed, Durable!Cancelled,
        Durable!Reopened, Durable!SameAttempt, Durable!NextAttempt
<1>4. LifeOf(task[t]).state = "none" => task[t].attempts = 0
  BY DEF LifeOf, IInv, Tables, Numbering
<1> QED
  BY <1>1, <1>2, <1>3, <1>4

\* Who may become the owner of a checkpoint in one step.
LEMMA OwnerChanges ==
  ASSUME IInv, [Next]_vars, NEW t \in Tasks, NEW s \in Steps
  PROVE  \/ ckpt'[t][s] = ckpt[t][s]
         \/ ckpt'[t][s].owner = task[t].attempts
         \/ \E c \in writing : /\ c.task = t /\ c.step = s
                               /\ c.attempt = ckpt'[t][s].owner /\ c.saw # None
<1>0. /\ Tables(task, run, wait, event) /\ ckpt \in [Tasks -> [Steps -> Ckpt]]
      /\ wait \subseteq Wait
  BY DEF IInv, TypeOK
<1>1. ASSUME NEW u, NEW a, NEW r, NEW p, WriteCkpt(u, a, r, p)
      PROVE  \/ ckpt'[t][s] = ckpt[t][s]
             \/ u = t /\ r = s /\ ckpt'[t][s].owner = a
  BY <1>0, <1>1 DEF WriteCkpt
<1>2. CASE \E c \in writing : CheckpointWrite(c)
  <2>1. PICK c \in writing : CheckpointWrite(c)
    BY <1>2
  <2>2. c.saw # None /\ WriteCkpt(c.task, c.attempt, c.step, c.payload)
    BY <2>1 DEF CheckpointWrite
  <2> QED
    BY <1>1, <2>2
<1>3. CASE \E u \in Tasks, a \in Attempts, r \in Steps, e \in Events :
             AwaitResolved(u, a, r, e)
  <2>1. PICK u \in Tasks, a \in Attempts, r \in Steps, e \in Events :
             AwaitResolved(u, a, r, e)
    BY <1>3
  <2>2. WriteCkpt(u, a, r, event[e]) /\ run[u][a].state = "running"
    BY <2>1 DEF AwaitResolved, CanAwait
  <2>3. a = task[u].attempts
    BY <1>0, <2>2, LiveRunFacts DEF Live
  <2> QED
    BY <1>1, <2>2, <2>3
<1>4. CASE \E e \in Events, p \in Payloads : EmitEvent(e, p)
  <2>1. PICK e \in Events, p \in Payloads : EmitEvent(e, p)
    BY <1>4
  <2>2. CASE \E w \in Woken(e) : w.task = t /\ w.step = s
    <3> DEFINE v == CHOOSE w \in Woken(e) : w.task = t /\ w.step = s
    <3>1. v \in Woken(e) /\ v.task = t
      BY <2>2
    <3>2. ckpt'[t][s] = [owner |-> v.attempt, payload |-> p]
      BY <2>1, <2>2 DEF EmitEvent
    <3> HIDE DEF v
    <3>3. v.attempt \in Attempts /\ run[t][v.attempt].state = "sleeping"
      BY <1>0, <3>1 DEF Woken, Wait
    <3>4. v.attempt = task[t].attempts
      BY <1>0, <3>3, LiveRunFacts DEF Live
    <3> QED
      BY <3>2, <3>4
  <2>3. CASE ~\E w \in Woken(e) : w.task = t /\ w.step = s
    BY <2>1, <2>3 DEF EmitEvent
  <2> QED
    BY <2>2, <2>3
<1>5. CASE ckpt' = ckpt
  BY <1>5
<1>6. CASE \E u \in Tasks : TaskCall(u)
  BY <1>5, <1>6 DEF TaskCall, SpawnTask, CancelTask, RetryTask
<1>7. CASE \E u \in Tasks, a \in Attempts : RunCall(u, a)
  <2>1. PICK u \in Tasks, a \in Attempts : RunCall(u, a)
    BY <1>7
  <2>2. CASE \E r \in Steps, e \in Events : AwaitEvent(u, a, r, e)
    BY <1>3, <1>5, <2>2 DEF AwaitEvent, AwaitTimedOut, AwaitSuspend
  <2>3. CASE ~\E r \in Steps, e \in Events : AwaitEvent(u, a, r, e)
    BY <1>5, <2>1, <2>3 DEF RunCall, ClaimTask, CompleteRun, FailRun, ExtendClaim,
                            ExpireLease, ScheduleRun, CheckpointCall
  <2> QED
    BY <2>2, <2>3
<1>8. CASE \/ ClaimNothing \/ Tick \/ UNCHANGED vars
           \/ \E c \in writing : CheckpointRead(c)
  BY <1>5, <1>8 DEF ClaimNothing, FailRun, Tick, CheckpointRead, vars
<1> QED
  BY <1>2, <1>4, <1>6, <1>7, <1>8 DEF Next

\* Which calls may be in flight after one step.
LEMMA CallChanges ==
  ASSUME FenceInv, [Next]_vars, NEW c \in writing'
  PROVE  /\ c.task \in Tasks /\ c.attempt \in Nat
         /\ c.attempt <= task[c.task].attempts
         /\ c.saw # None => c.saw <= c.attempt
<1>0. /\ IInv /\ Tables(task, run, wait, event) /\ writing \subseteq Call
      /\ task \in [Tasks -> Task]
  BY DEF FenceInv, IInv, TypeOK
<1>1. c.task \in Tasks /\ c.attempt \in Nat
  BY <1>0, NextIInv DEF IInv, TypeOK, Call, Attempts
<1>2. CASE c \in writing
  BY <1>1, <1>2 DEF FenceInv, Fenced
<1>3. CASE \E d \in writing : CheckpointRead(d)
  <2>1. PICK d \in writing : CheckpointRead(d)
    BY <1>3
  <2> DEFINE owner == ckpt[d.task][d.step].owner
  <2>2. d \in Call /\ d.attempt <= task[d.task].attempts
    BY <1>0 DEF FenceInv, Fenced
  <2>3. c \in writing \/ (MayOverwrite(d.attempt, owner) /\ c = [d EXCEPT !.saw = owner])
    BY <2>1 DEF CheckpointRead
  <2>4. [d EXCEPT !.saw = owner].task = d.task
        /\ [d EXCEPT !.saw = owner].attempt = d.attempt
        /\ [d EXCEPT !.saw = owner].saw = owner
    BY <2>2 DEF Call
  <2>5. MayOverwrite(d.attempt, owner) => owner <= d.attempt
    BY <1>0, <2>2 DEF MayOverwrite, Call, Attempts, IInv, TypeOK, Ckpt
  <2> HIDE DEF owner
  <2> QED
    BY <1>1, <1>2, <2>2, <2>3, <2>4, <2>5
<1>4. CASE \E t \in Tasks, a \in Attempts, s \in Steps, p \in CkptStates :
             CheckpointCall(t, a, s, p)
  <2>1. PICK t \in Tasks, a \in Attempts, s \in Steps, p \in CkptStates :
             CheckpointCall(t, a, s, p)
    BY <1>4
  <2>2. c \in writing \/ (c.task = t /\ c.attempt = a /\ c.saw = None)
    BY <2>1 DEF CheckpointCall
  <2>3. run[t][a].state # "none"
    BY <2>1 DEF CheckpointCall, CanCheckpoint
  <2>4. a <= task[t].attempts
    BY <1>0, <2>3, QueueAssumption DEF Tables, Numbering, Attempts, Task
  <2> QED
    BY <1>1, <1>2, <2>2, <2>4
<1>5. CASE writing' \subseteq writing
  BY <1>2, <1>5
<1>6. CASE \E t \in Tasks : TaskCall(t)
  BY <1>5, <1>6 DEF TaskCall, SpawnTask, CancelTask, RetryTask
<1>7. CASE \E t \in Tasks, a \in Attempts : RunCall(t, a)
  <2>1. PICK t \in Tasks, a \in Attempts : RunCall(t, a)
    BY <1>7
  <2>2. CASE \E s \in Steps, e \in Events : AwaitEvent(t, a, s, e)
    BY <1>5, <2>2 DEF AwaitEvent, AwaitResolved, AwaitTimedOut, AwaitSuspend
  <2>3. CASE \E s \in Steps, p \in CkptStates : CheckpointCall(t, a, s, p)
    BY <1>4, <2>3
  <2>4. CASE ~(\/ \E s \in Steps, e \in Events : AwaitEvent(t, a, s, e)
               \/ \E s \in Steps, p \in CkptStates : CheckpointCall(t, a, s, p))
    BY <1>5, <2>1, <2>4 DEF RunCall, ClaimTask, CompleteRun, FailRun, ExtendClaim,
                            ExpireLease, ScheduleRun
  <2> QED
    BY <2>2, <2>3, <2>4
<1>8. CASE \/ ClaimNothing \/ Tick \/ UNCHANGED vars
           \/ \E d \in writing : CheckpointWrite(d)
           \/ \E e \in Events, p \in Payloads : EmitEvent(e, p)
  BY <1>5, <1>8 DEF ClaimNothing, FailRun, Tick, CheckpointWrite, EmitEvent, vars
<1> QED
  BY <1>3, <1>6, <1>7, <1>8 DEF Next

LEMMA FenceStep ==
  ASSUME FenceInv, [Next]_vars
  PROVE  FenceInv'
<1>0. /\ IInv /\ IInv' /\ Fenced
      /\ ckpt \in [Tasks -> [Steps -> Ckpt]] /\ ckpt' \in [Tasks -> [Steps -> Ckpt]]
  BY NextIInv DEF FenceInv, IInv, TypeOK
<1>1. ASSUME NEW t \in Tasks, NEW s \in Steps
      PROVE  ckpt'[t][s].owner <= task'[t].attempts
  <2>1. /\ task[t].attempts \in Nat /\ task'[t].attempts \in Nat
        /\ task[t].attempts <= task'[t].attempts
    BY <1>0, AttemptsGrow
  <2>2. ckpt[t][s].owner \in Nat /\ ckpt'[t][s].owner \in Nat
    BY <1>0 DEF Ckpt
  <2>3. ckpt'[t][s].owner <= task[t].attempts
    BY <1>0, <2>1, OwnerChanges DEF Fenced
  <2> QED
    BY <2>1, <2>2, <2>3
<1>2. ASSUME NEW c \in writing'
      PROVE  /\ c.attempt <= task'[c.task].attempts
             /\ c.saw # None => c.saw <= c.attempt
  BY <1>0, CallChanges, AttemptsGrow
<1> QED
  BY <1>0, <1>1, <1>2 DEF FenceInv, Fenced

\* The owner of a checkpoint goes back to an older attempt only by a call that
\* had read the table before the newer attempt wrote it.
LEMMA FenceHolds ==
  ASSUME FenceInv, [Next]_vars, NEW t \in Tasks, NEW s \in Steps,
         ckpt'[t][s].owner < ckpt[t][s].owner
  PROVE  \E c \in writing : /\ c.task = t /\ c.step = s
                            /\ c.attempt = ckpt'[t][s].owner
                            /\ c.saw # None /\ c.saw < ckpt[t][s].owner
<1>0. /\ IInv /\ IInv' /\ Fenced /\ task[t].attempts \in Nat
      /\ ckpt[t][s].owner \in Nat /\ ckpt'[t][s].owner \in Nat
  BY NextIInv DEF FenceInv, IInv, TypeOK, Ckpt, Task
<1>1. ckpt[t][s].owner <= task[t].attempts
  BY <1>0 DEF Fenced
<1>2. PICK c \in writing : /\ c.task = t /\ c.step = s
                           /\ c.attempt = ckpt'[t][s].owner /\ c.saw # None
  BY <1>0, <1>1, OwnerChanges
<1>3. c.saw <= c.attempt /\ c.saw \in Nat
  BY <1>0, <1>2 DEF Fenced, IInv, TypeOK, Call
<1> QED
  BY <1>0, <1>2, <1>3

\* A late set_task_checkpoint_state of an older attempt never replaces the
\* checkpoint a newer attempt had written before the call read the table.
THEOREM CheckpointFenceHolds == Spec => CheckpointFence
<1>1. Init => FenceInv
  BY InitIInv DEF Init, FenceInv, Fenced, NoCkpt, NoTask
<1>2. FenceInv /\ [Next]_vars => FenceInv'
  BY FenceStep
<1>3. FenceInv /\ [Next]_vars =>
        [\A t \in Tasks, s \in Steps :
           ckpt'[t][s].owner < ckpt[t][s].owner =>
             \E c \in writing : /\ c.task = t /\ c.step = s
                                /\ c.attempt = ckpt'[t][s].owner
                                /\ c.saw # None /\ c.saw < ckpt[t][s].owner]_vars
  BY FenceHolds
<1> QED
  BY <1>1, <1>2, <1>3, PTL DEF Spec, CheckpointFence
=============================================================================
