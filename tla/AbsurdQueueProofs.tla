------------------------- MODULE AbsurdQueueProofs -------------------------
(***************************************************************************)
(* Proofs about AbsurdQueue for every queue: any number of tasks, attempts *)
(* and events, any timeouts.  The inductive invariant is stated over the   *)
(* tables as parameters, because claim_task works on the tables its lease  *)
(* sweep leaves: the lemmas about fail_run and about the claim are proved  *)
(* once, for any tables, and composed for claim_task.                      *)
(***************************************************************************)
EXTENDS AbsurdQueue, TLAPS

Rows(tk, rn, wt) ==
  /\ tk \in [Tasks -> Task]
  /\ rn \in [Tasks -> [Attempts -> Run]]
  /\ wt \subseteq Wait

\* Attempt numbers are handed out without gaps, within the budget, and the
\* task's two columns name the newest run.
Numbering(tk, rn) ==
  \A t \in Tasks :
    /\ tk[t].lastRun = tk[t].attempts
    /\ tk[t].attempts <= tk[t].max
    /\ tk[t].max <= AttemptCap
    /\ tk[t].state = "none" <=> tk[t].attempts = 0
    /\ \A a \in Attempts : rn[t][a].state = "none" <=> a > tk[t].attempts

\* Only the newest run can execute, and its state is the task's state.
Newest(tk, rn) ==
  \A t \in Tasks, a \in Attempts :
    /\ rn[t][a].state \in Live => a = tk[t].attempts
    /\ a = tk[t].attempts => rn[t][a].state = tk[t].state

WaitRows(rn, wt) ==
  \A w \in wt : /\ rn[w.task][w.attempt].state = "sleeping"
                /\ rn[w.task][w.attempt].wake = w.event
                /\ rn[w.task][w.attempt].due = w.left

Sleepers(rn, wt, ev) ==
  \A t \in Tasks, a \in Attempts :
    (rn[t][a].state = "sleeping" /\ rn[t][a].wake # None) =>
      \/ rn[t][a].due = 0
      \/ /\ ev[rn[t][a].wake] = None
         /\ \E w \in wt : /\ w.task = t /\ w.attempt = a
                          /\ w.event = rn[t][a].wake /\ w.left > 0

Tables(tk, rn, wt, ev) ==
  /\ Rows(tk, rn, wt)
  /\ Numbering(tk, rn)
  /\ Newest(tk, rn)
  /\ WaitRows(rn, wt)
  /\ Sleepers(rn, wt, ev)

IInv == TypeOK /\ Tables(task, run, wait, event)

-----------------------------------------------------------------------------
(* The invariant implies the checked ones                                  *)

LEMMA IInvSafety == IInv => Safety
<1> SUFFICES ASSUME IInv PROVE Safety
  OBVIOUS
<1>0. /\ Rows(task, run, wait) /\ Numbering(task, run) /\ Newest(task, run)
      /\ WaitRows(run, wait) /\ Sleepers(run, wait, event)
  BY DEF IInv, Tables
<1>1. OneLiveRun
  BY <1>0 DEF OneLiveRun, LiveAttempts, Newest, Numbering
<1>2. TaskMatchesRun
  BY <1>0, QueueAssumption
  DEF TaskMatchesRun, Newest, Numbering, Rows, Task, Attempts
<1>3. NoLostWakeup
  BY <1>0 DEF NoLostWakeup, Sleepers
<1>4. WaitsAreForSleepers
  BY <1>0 DEF WaitsAreForSleepers, WaitRows
<1>5. AttemptsBounded
  BY <1>0 DEF AttemptsBounded, Numbering
<1> QED
  BY <1>1, <1>2, <1>3, <1>4, <1>5 DEF Safety

-----------------------------------------------------------------------------
(* fail_run and the claim, on any tables                                   *)

LEMMA FailKeepsTables ==
  ASSUME NEW tk, NEW rn, NEW wt, NEW ev,
         Tables(tk, rn, wt, ev),
         NEW t \in Tasks, NEW a \in Attempts,
         rn[t][a].state \in {"running", "sleeping"}
  PROVE  Tables(TasksAfterFail(tk, t, a), RunsAfterFail(tk, rn, t, a),
                WaitsWithout(wt, t, a), ev)
<1> DEFINE tk2 == TasksAfterFail(tk, t, a)
           rn2 == RunsAfterFail(tk, rn, t, a)
           wt2 == WaitsWithout(wt, t, a)
<1> USE QueueAssumption
<1>1. /\ Rows(tk, rn, wt) /\ Numbering(tk, rn) /\ Newest(tk, rn)
      /\ WaitRows(rn, wt) /\ Sleepers(rn, wt, ev)
  BY DEF Tables
<1>2. /\ a = tk[t].attempts /\ a \in 1..AttemptCap /\ a \in Nat
      /\ tk[t].lastRun = a /\ a <= tk[t].max /\ tk[t].max <= AttemptCap
      /\ tk[t].max \in Nat /\ tk[t] \in Task
  BY <1>1 DEF Rows, Numbering, Newest, Live, Attempts, Task
<1>3. RetryState \in {"sleeping", "pending"}
  BY DEF RetryState
<1>4. /\ tk2 \in [Tasks -> Task]
      /\ \A u \in Tasks : u # t => tk2[u] = tk[u]
      /\ tk2[t].max = tk[t].max
      /\ tk2[t].lastRun = tk2[t].attempts
      /\ tk2[t].attempts = IF HasRetry(tk, t, a) THEN a + 1 ELSE a
      /\ tk2[t].state = IF HasRetry(tk, t, a) THEN RetryState ELSE "failed"
  BY <1>1, <1>2, <1>3 DEF TasksAfterFail, Rows, Task, Larger, States, Live, Terminal, HasRetry
<1>5. /\ rn2 \in [Tasks -> [Attempts -> Run]]
      /\ \A u \in Tasks : u # t => rn2[u] = rn[u]
      /\ rn2[t][a].state = "failed"
      /\ \A x \in Attempts : x = a + 1 /\ HasRetry(tk, t, a) =>
            rn2[t][x] = NewRun(RetryState, RetryDelay)
      /\ \A x \in Attempts : x # a /\ ~(x = a + 1 /\ HasRetry(tk, t, a)) =>
            rn2[t][x] = rn[t][x]
  <2>1. rn \in [Tasks -> [Attempts -> Run]]
    BY <1>1 DEF Rows
  <2>2. NewRun(RetryState, RetryDelay) \in Run
    BY <1>3 DEF NewRun, Run, States, Live
  <2>4. \A x \in Attempts : rn[t][x] \in Run
    BY <2>1
  <2>3. [rn[t][a] EXCEPT !.state = "failed", !.lease = 0, !.wake = None] \in Run
    <3>1. rn[t][a] \in Run
      BY <2>4
    <3>2. "failed" \in States /\ 0 \in Nat /\ None \in Events \cup {None}
      BY DEF States, Terminal
    <3> QED
      BY <3>1, <3>2 DEF Run
  <2>5. [rn[t][a] EXCEPT !.state = "failed", !.lease = 0, !.wake = None].state = "failed"
    BY <2>4 DEF Run
  <2> QED
    BY <1>2, <2>1, <2>2, <2>3, <2>4, <2>5 DEF RunsAfterFail
<1>6. Rows(tk2, rn2, wt2)
  BY <1>1, <1>4, <1>5 DEF Rows, WaitsWithout
<1>7. Numbering(tk2, rn2)
  <2> SUFFICES ASSUME NEW u \in Tasks
               PROVE  /\ tk2[u].lastRun = tk2[u].attempts
                      /\ tk2[u].attempts <= tk2[u].max
                      /\ tk2[u].max <= AttemptCap
                      /\ tk2[u].state = "none" <=> tk2[u].attempts = 0
                      /\ \A x \in Attempts :
                           rn2[u][x].state = "none" <=> x > tk2[u].attempts
    BY DEF Numbering
  <2>1. CASE u # t
    BY <1>1, <1>4, <1>5, <2>1 DEF Numbering
  <2>2. CASE u = t /\ HasRetry(tk, t, a)
    <3>1. /\ tk2[t].attempts = a + 1 /\ tk2[t].state = RetryState
          /\ a + 1 <= tk[t].max
      BY <1>4, <2>2 DEF HasRetry
    <3>2. \A x \in Attempts : rn2[t][x].state = "none" <=> x > a + 1
      <4> SUFFICES ASSUME NEW x \in Attempts
                   PROVE  rn2[t][x].state = "none" <=> x > a + 1
        OBVIOUS
      <4>0. x \in Nat /\ (rn[t][x].state = "none" <=> x > a)
        BY <1>1, <1>2 DEF Numbering, Attempts
      <4>1. CASE x = a
        BY <1>2, <1>5, <4>1
      <4>2. CASE x = a + 1
        BY <1>2, <1>3, <1>5, <2>2, <4>2 DEF NewRun
      <4>3. CASE x # a /\ x # a + 1
        BY <1>2, <1>5, <4>0, <4>3
      <4> QED
        BY <4>1, <4>2, <4>3
    <3> QED
      BY <1>2, <1>3, <1>4, <2>2, <3>1, <3>2
  <2>3. CASE u = t /\ ~HasRetry(tk, t, a)
    <3>1. tk2[t].attempts = a /\ tk2[t].state = "failed"
      BY <1>4, <2>3
    <3>2. \A x \in Attempts : rn2[t][x].state = "none" <=> x > a
      <4> SUFFICES ASSUME NEW x \in Attempts
                   PROVE  rn2[t][x].state = "none" <=> x > a
        OBVIOUS
      <4>0. x \in Nat /\ (rn[t][x].state = "none" <=> x > a)
        BY <1>1, <1>2 DEF Numbering, Attempts
      <4>1. CASE x = a
        BY <1>2, <1>5, <4>1
      <4>3. CASE x # a
        BY <1>5, <2>3, <4>0, <4>3
      <4> QED
        BY <4>1, <4>3
    <3> QED
      BY <1>2, <1>4, <2>3, <3>1, <3>2 DEF Attempts
  <2> QED
    BY <2>1, <2>2, <2>3
<1>8. Newest(tk2, rn2)
  <2> SUFFICES ASSUME NEW u \in Tasks, NEW x \in Attempts
               PROVE  /\ rn2[u][x].state \in Live => x = tk2[u].attempts
                      /\ x = tk2[u].attempts => rn2[u][x].state = tk2[u].state
    BY DEF Newest
  <2>0. x \in Nat
    BY DEF Attempts
  <2>1. CASE u # t
    BY <1>1, <1>4, <1>5, <2>1 DEF Newest
  <2>2. CASE u = t /\ x = a
    BY <1>2, <1>4, <1>5, <2>2 DEF Live
  <2>3. CASE u = t /\ x = a + 1 /\ HasRetry(tk, t, a)
    BY <1>4, <1>5, <2>3 DEF NewRun
  <2>4. CASE u = t /\ x # a /\ ~(x = a + 1 /\ HasRetry(tk, t, a))
    <3>1. rn2[t][x] = rn[t][x]
      BY <1>5, <2>4
    <3>2. rn[t][x].state \notin Live
      BY <1>1, <1>2, <2>4 DEF Newest
    <3>3. x # tk2[t].attempts
      BY <1>2, <1>4, <2>0, <2>4
    <3> QED
      BY <2>4, <3>1, <3>2, <3>3
  <2> QED
    BY <2>1, <2>2, <2>3, <2>4
<1>9. WaitRows(rn2, wt2)
  <2> SUFFICES ASSUME NEW w \in wt2
               PROVE  rn2[w.task][w.attempt] = rn[w.task][w.attempt]
    BY <1>1 DEF WaitRows, WaitsWithout
  <2>1. w \in wt /\ w.task \in Tasks /\ w.attempt \in Attempts
        /\ ~(w.task = t /\ w.attempt = a)
    BY <1>1 DEF Rows, Wait, WaitsWithout
  <2>2. rn[w.task][w.attempt].state = "sleeping"
    BY <1>1, <2>1 DEF WaitRows
  <2>3. w.task # t
    BY <1>1, <1>2, <2>1, <2>2 DEF Newest, Live
  <2> QED
    BY <1>5, <2>1, <2>3
<1>10. Sleepers(rn2, wt2, ev)
  <2> SUFFICES ASSUME NEW u \in Tasks, NEW x \in Attempts,
                      rn2[u][x].state = "sleeping", rn2[u][x].wake # None
               PROVE  \/ rn2[u][x].due = 0
                      \/ /\ ev[rn2[u][x].wake] = None
                         /\ \E w \in wt2 : /\ w.task = u /\ w.attempt = x
                                           /\ w.event = rn2[u][x].wake /\ w.left > 0
    BY DEF Sleepers
  <2>1. rn2[u][x] = rn[u][x] /\ ~(u = t /\ x = a)
    BY <1>5 DEF NewRun
  <2>2. \A w \in wt : w.task = u /\ w.attempt = x => w \in wt2
    BY <2>1 DEF WaitsWithout
  <2> QED
    BY <1>1, <2>1, <2>2 DEF Sleepers
<1> QED
  BY <1>6, <1>7, <1>8, <1>9, <1>10 DEF Tables

\* What most calls do to the tables: run r replaces the newest run of its task,
\* or begins the next attempt of a task that has no live run; k is the task's
\* row after it.
SetsRun(tk, rn, wt, ev, t, a, k, r, tk2, rn2, wt2) ==
  /\ k \in Task /\ r \in Run /\ wt2 \subseteq Wait
  /\ tk2 = [tk EXCEPT ![t] = k]
  /\ rn2 = WithRun(rn, t, a, r)
  /\ r.state # "none" /\ k.state = r.state
  /\ k.attempts = a /\ k.lastRun = a /\ a <= k.max /\ k.max <= AttemptCap
  /\ \/ a = tk[t].attempts
     \/ a = tk[t].attempts + 1 /\ tk[t].state \notin Live
  /\ \A w \in wt2 : IF w.task = t /\ w.attempt = a
                    THEN r.state = "sleeping" /\ r.wake = w.event /\ r.due = w.left
                    ELSE w \in wt
  /\ \A w \in wt : w \in wt2 \/ (w.task = t /\ w.attempt = a)
  /\ (r.state = "sleeping" /\ r.wake # None) =>
        \/ r.due = 0
        \/ /\ ev[r.wake] = None
           /\ \E w \in wt2 : /\ w.task = t /\ w.attempt = a
                             /\ w.event = r.wake /\ w.left > 0

LEMMA SetRunKeepsTables ==
  ASSUME NEW tk, NEW rn, NEW wt, NEW ev, Tables(tk, rn, wt, ev),
         NEW t \in Tasks, NEW a \in Attempts, NEW k, NEW r,
         NEW tk2, NEW rn2, NEW wt2,
         SetsRun(tk, rn, wt, ev, t, a, k, r, tk2, rn2, wt2)
  PROVE  Tables(tk2, rn2, wt2, ev)
<1> USE DEF SetsRun
<1>1. /\ Rows(tk, rn, wt) /\ Numbering(tk, rn) /\ Newest(tk, rn)
      /\ WaitRows(rn, wt) /\ Sleepers(rn, wt, ev)
  BY DEF Tables
<1>2. /\ tk \in [Tasks -> Task] /\ rn \in [Tasks -> [Attempts -> Run]]
      /\ wt \subseteq Wait
  BY <1>1 DEF Rows
<1>3. /\ tk2 \in [Tasks -> Task] /\ tk2[t] = k
      /\ \A u \in Tasks : u # t => tk2[u] = tk[u]
  BY <1>2
<1>4. /\ rn2 \in [Tasks -> [Attempts -> Run]] /\ rn2[t][a] = r
      /\ \A u \in Tasks, x \in Attempts :
            ~(u = t /\ x = a) => rn2[u][x] = rn[u][x]
  BY <1>2 DEF WithRun
<1>5. a \in Nat /\ tk[t].attempts \in Nat /\ \A x \in Attempts : x \in Nat
  BY <1>2 DEF Attempts, Task
<1>6. Rows(tk2, rn2, wt2)
  BY <1>3, <1>4 DEF Rows
<1>7. Numbering(tk2, rn2)
  <2> SUFFICES ASSUME NEW u \in Tasks
               PROVE  /\ tk2[u].lastRun = tk2[u].attempts
                      /\ tk2[u].attempts <= tk2[u].max
                      /\ tk2[u].max <= AttemptCap
                      /\ tk2[u].state = "none" <=> tk2[u].attempts = 0
                      /\ \A x \in Attempts :
                           rn2[u][x].state = "none" <=> x > tk2[u].attempts
    BY DEF Numbering
  <2>1. CASE u # t
    BY <1>1, <1>3, <1>4, <2>1 DEF Numbering
  <2>2. CASE u = t
    <3>1. a # 0
      BY DEF Attempts
    <3>2. \A x \in Attempts : rn2[t][x].state = "none" <=> x > a
      <4> SUFFICES ASSUME NEW x \in Attempts
                   PROVE  rn2[t][x].state = "none" <=> x > a
        OBVIOUS
      <4>1. CASE x = a
        BY <1>4, <1>5, <4>1
      <4>2. CASE x # a
        <5>1. rn2[t][x].state = "none" <=> x > tk[t].attempts
          BY <1>1, <1>4, <4>2 DEF Numbering
        <5> QED
          BY <1>5, <4>2, <5>1
      <4> QED
        BY <4>1, <4>2
    <3> QED
      BY <1>3, <2>2, <3>1, <3>2
  <2> QED
    BY <2>1, <2>2
<1>8. Newest(tk2, rn2)
  <2> SUFFICES ASSUME NEW u \in Tasks, NEW x \in Attempts
               PROVE  /\ rn2[u][x].state \in Live => x = tk2[u].attempts
                      /\ x = tk2[u].attempts => rn2[u][x].state = tk2[u].state
    BY DEF Newest
  <2>1. CASE u # t
    BY <1>1, <1>3, <1>4, <2>1 DEF Newest
  <2>2. CASE u = t /\ x = a
    BY <1>3, <1>4, <2>2
  <2>3. CASE u = t /\ x # a
    <3>1. rn2[t][x] = rn[t][x] /\ x # tk2[t].attempts
      BY <1>3, <1>4, <2>3
    <3>2. rn[t][x].state \notin Live
      BY <1>1, <2>3 DEF Newest
    <3> QED
      BY <2>3, <3>1, <3>2
  <2> QED
    BY <2>1, <2>2, <2>3
<1>9. WaitRows(rn2, wt2)
  <2> SUFFICES ASSUME NEW w \in wt2
               PROVE  /\ rn2[w.task][w.attempt].state = "sleeping"
                      /\ rn2[w.task][w.attempt].wake = w.event
                      /\ rn2[w.task][w.attempt].due = w.left
    BY DEF WaitRows
  <2>1. w.task \in Tasks /\ w.attempt \in Attempts
    BY DEF Wait
  <2>2. CASE w.task = t /\ w.attempt = a
    BY <1>4, <2>2
  <2>3. CASE ~(w.task = t /\ w.attempt = a)
    BY <1>1, <1>4, <2>1, <2>3 DEF WaitRows
  <2> QED
    BY <2>2, <2>3
<1>10. Sleepers(rn2, wt2, ev)
  <2> SUFFICES ASSUME NEW u \in Tasks, NEW x \in Attempts,
                      rn2[u][x].state = "sleeping", rn2[u][x].wake # None
               PROVE  \/ rn2[u][x].due = 0
                      \/ /\ ev[rn2[u][x].wake] = None
                         /\ \E w \in wt2 : /\ w.task = u /\ w.attempt = x
                                           /\ w.event = rn2[u][x].wake /\ w.left > 0
    BY DEF Sleepers
  <2>1. CASE u = t /\ x = a
    BY <1>4, <2>1
  <2>2. CASE ~(u = t /\ x = a)
    <3>1. rn2[u][x] = rn[u][x]
      BY <1>4, <2>2
    <3>2. \A w \in wt : w.task = u /\ w.attempt = x => w \in wt2
      BY <2>2
    <3> QED
      BY <1>1, <3>1, <3>2 DEF Sleepers
  <2> QED
    BY <2>1, <2>2
<1> QED
  BY <1>6, <1>7, <1>8, <1>9, <1>10 DEF Tables

-----------------------------------------------------------------------------
(* claim_task on any tables: the lease of a due run                        *)

\* What the invariant says of a run that can execute.
LEMMA LiveRunFacts ==
  ASSUME NEW tk, NEW rn, NEW wt, NEW ev,
         Tables(tk, rn, wt, ev),
         NEW t \in Tasks, NEW a \in Attempts,
         rn[t][a].state \in Live
  PROVE  /\ tk[t] \in Task /\ rn[t][a] \in Run
         /\ a = tk[t].attempts /\ a = tk[t].lastRun
         /\ tk[t].state = rn[t][a].state
         /\ a <= tk[t].max /\ tk[t].max <= AttemptCap
         /\ a \in Nat
<1>1. Rows(tk, rn, wt) /\ Numbering(tk, rn) /\ Newest(tk, rn)
  BY DEF Tables
<1>2. tk[t] \in Task /\ rn[t][a] \in Run /\ a \in Nat
  BY <1>1, QueueAssumption DEF Rows, Attempts
<1>3. a = tk[t].attempts /\ tk[t].state = rn[t][a].state
  BY <1>1 DEF Newest
<1>4. a = tk[t].lastRun /\ a <= tk[t].max /\ tk[t].max <= AttemptCap
  BY <1>1, <1>3 DEF Numbering
<1> QED
  BY <1>2, <1>3, <1>4

LEMMA LeaseKeepsTables ==
  ASSUME NEW tk, NEW rn, NEW wt, NEW ev,
         Tables(tk, rn, wt, ev),
         NEW t \in Tasks, NEW a \in Attempts,
         Lease(tk, rn, wt, t, a)
  PROVE  Tables(task', run', wait', ev)
<1> DEFINE k == [tk[t] EXCEPT !.state = "running", !.attempts = Larger(tk[t].attempts, a), !.lastRun = a]
           r == [rn[t][a] EXCEPT !.state = "running", !.lease = ClaimTimeout]
<1> USE QueueAssumption
<1>0. /\ task' = [tk EXCEPT ![t] = k] /\ run' = WithRun(rn, t, a, r)
      /\ wait' = {w \in wt : ~(w.task = t /\ w.attempt = a /\ w.left = 0)}
  BY DEF Lease
<1>1. rn[t][a].state \in {"pending", "sleeping"} /\ rn[t][a].due = 0
  BY DEF DueRuns, Lease
<1>2. /\ tk[t] \in Task /\ rn[t][a] \in Run
      /\ a = tk[t].attempts /\ a <= tk[t].max /\ tk[t].max <= AttemptCap
      /\ a \in Nat
  BY <1>1, LiveRunFacts DEF Live
<1>3. wt \subseteq Wait /\ tk \in [Tasks -> Task]
  BY DEF Tables, Rows
<1>4. k \in Task /\ k.state = "running" /\ k.attempts = a /\ k.lastRun = a /\ k.max = tk[t].max
  BY <1>2 DEF Task, Larger, States, Live
<1>5. r \in Run /\ r.state = "running"
  BY <1>2 DEF Run, States, Live
<1>6. \A w \in wait' : w \in wt /\ ~(w.task = t /\ w.attempt = a)
  <2> SUFFICES ASSUME NEW w \in wait', w.task = t, w.attempt = a PROVE FALSE
    BY <1>0
  <2>1. w \in wt /\ w.left # 0
    BY <1>0
  <2>2. rn[t][a].due = w.left
    BY <2>1 DEF Tables, WaitRows
  <2> QED
    BY <1>1, <2>1, <2>2
<1>7. \A w \in wt : w \in wait' \/ (w.task = t /\ w.attempt = a)
  BY <1>0
<1>8. wait' \subseteq Wait
  BY <1>0, <1>3
<1> HIDE DEF k, r
<1>9. SetsRun(tk, rn, wt, ev, t, a, k, r, task', run', wait')
  BY <1>0, <1>2, <1>4, <1>5, <1>6, <1>7, <1>8 DEF SetsRun
<1> QED
  BY <1>9, SetRunKeepsTables

-----------------------------------------------------------------------------
(* The calls on one run                                                    *)

\* A run that does not sleep has no wait row.
LEMMA NoWaitUnlessSleeping ==
  ASSUME IInv, NEW t \in Tasks, NEW a \in Attempts, run[t][a].state # "sleeping"
  PROVE  \A w \in wait : ~(w.task = t /\ w.attempt = a)
BY DEF IInv, Tables, WaitRows

LEMMA ClaimTaskKeepsTables ==
  ASSUME IInv, NEW t \in Tasks, NEW a \in Attempts, ClaimTask(t, a)
  PROVE  Tables(task', run', wait', event')
<1>0. Tables(task, run, wait, event) /\ event' = event
  BY DEF IInv, ClaimTask
<1>1. CASE Lease(task, run, wait, t, a)
  BY <1>0, <1>1, LeaseKeepsTables
<1>2. CASE \E x \in ExpiredRuns :
             Lease(TasksAfterFail(task, x[1], x[2]),
                   RunsAfterFail(task, run, x[1], x[2]),
                   WaitsWithout(wait, x[1], x[2]), t, a)
  <2>1. PICK x \in ExpiredRuns :
             Lease(TasksAfterFail(task, x[1], x[2]),
                   RunsAfterFail(task, run, x[1], x[2]),
                   WaitsWithout(wait, x[1], x[2]), t, a)
    BY <1>2
  <2>2. x[1] \in Tasks /\ x[2] \in Attempts /\ run[x[1]][x[2]].state = "running"
    BY DEF ExpiredRuns
  <2>3. Tables(TasksAfterFail(task, x[1], x[2]),
               RunsAfterFail(task, run, x[1], x[2]),
               WaitsWithout(wait, x[1], x[2]), event)
    BY <1>0, <2>2, FailKeepsTables
  <2> QED
    BY <1>0, <2>1, <2>3, LeaseKeepsTables
<1> QED
  BY <1>1, <1>2 DEF ClaimTask

LEMMA FailRunKeepsTables ==
  ASSUME IInv, NEW t \in Tasks, NEW a \in Attempts, FailRun(t, a)
  PROVE  Tables(task', run', wait', event')
BY FailKeepsTables DEF IInv, FailRun, CanFail

LEMMA CompleteRunKeepsTables ==
  ASSUME IInv, NEW t \in Tasks, NEW a \in Attempts, CompleteRun(t, a)
  PROVE  Tables(task', run', wait', event')
<1> DEFINE k == [task[t] EXCEPT !.state = "completed", !.lastRun = a]
           r == [run[t][a] EXCEPT !.state = "completed", !.lease = 0]
<1>1. Tables(task, run, wait, event) /\ wait \subseteq Wait
  BY DEF IInv, TypeOK
<1>2. /\ run[t][a].state = "running" /\ event' = event
      /\ task' = [task EXCEPT ![t] = k] /\ run' = WithRun(run, t, a, r)
      /\ wait' = WaitsWithout(wait, t, a)
  BY DEF CompleteRun, CanComplete
<1>3. /\ task[t] \in Task /\ run[t][a] \in Run /\ a \in Nat
      /\ a = task[t].attempts /\ a <= task[t].max /\ task[t].max <= AttemptCap
  BY <1>1, <1>2, LiveRunFacts DEF Live
<1>4. k \in Task /\ k.state = "completed" /\ k.attempts = a /\ k.lastRun = a
      /\ k.max = task[t].max
  BY <1>3 DEF Task, States, Terminal
<1>5. r \in Run /\ r.state = "completed"
  BY <1>3 DEF Run, States, Terminal
<1>6. /\ wait' \subseteq Wait
      /\ \A w \in wait' : w \in wait /\ ~(w.task = t /\ w.attempt = a)
      /\ \A w \in wait : w \in wait' \/ (w.task = t /\ w.attempt = a)
  BY <1>1, <1>2 DEF WaitsWithout
<1> HIDE DEF k, r
<1>7. SetsRun(task, run, wait, event, t, a, k, r, task', run', wait')
  BY <1>2, <1>3, <1>4, <1>5, <1>6 DEF SetsRun
<1> QED
  BY <1>1, <1>2, <1>7, SetRunKeepsTables

\* The calls that put a running run to sleep: ScheduleRun and AwaitSuspend.
LEMMA SleepKeepsTables ==
  ASSUME IInv, NEW t \in Tasks, NEW a \in Attempts,
         run[t][a].state = "running",
         NEW r \in Run, r.state = "sleeping",
         task' = [task EXCEPT ![t] = [@ EXCEPT !.state = "sleeping"]],
         run' = WithRun(run, t, a, r),
         event' = event,
         \/ r.wake = None /\ wait' = wait
         \/ \E s \in Steps, e \in Events, d \in Nat :
              /\ event[e] = None /\ r.wake = e /\ r.due = d
              /\ wait' = {w \in wait : ~(w.task = t /\ w.attempt = a /\ w.step = s)} \cup
                   {[task |-> t, attempt |-> a, step |-> s, event |-> e, left |-> d]}
  PROVE  Tables(task', run', wait', event')
<1> DEFINE k == [task[t] EXCEPT !.state = "sleeping"]
<1>1. Tables(task, run, wait, event) /\ wait \subseteq Wait
  BY DEF IInv, TypeOK
<1>2. task' = [task EXCEPT ![t] = k]
  OBVIOUS
<1>3. /\ task[t] \in Task /\ a \in Nat
      /\ a = task[t].attempts /\ a = task[t].lastRun
      /\ a <= task[t].max /\ task[t].max <= AttemptCap
  BY <1>1, LiveRunFacts DEF Live
<1>4. k \in Task /\ k.state = "sleeping" /\ k.attempts = a /\ k.lastRun = a
      /\ k.max = task[t].max
  BY <1>3 DEF Task, States, Live
<1>5. \A w \in wait : ~(w.task = t /\ w.attempt = a)
  BY NoWaitUnlessSleeping
<1>6. CASE r.wake = None /\ wait' = wait
  <2> HIDE DEF k
  <2>1. SetsRun(task, run, wait, event, t, a, k, r, task', run', wait')
    BY <1>1, <1>2, <1>3, <1>4, <1>5, <1>6 DEF SetsRun
  <2> QED
    BY <1>1, <2>1, SetRunKeepsTables
<1>7. CASE \E s \in Steps, e \in Events, d \in Nat :
             /\ event[e] = None /\ r.wake = e /\ r.due = d
             /\ wait' = {w \in wait : ~(w.task = t /\ w.attempt = a /\ w.step = s)} \cup
                  {[task |-> t, attempt |-> a, step |-> s, event |-> e, left |-> d]}
  <2>1. PICK s \in Steps, e \in Events, d \in Nat :
             /\ event[e] = None /\ r.wake = e /\ r.due = d
             /\ wait' = {w \in wait : ~(w.task = t /\ w.attempt = a /\ w.step = s)} \cup
                  {[task |-> t, attempt |-> a, step |-> s, event |-> e, left |-> d]}
    BY <1>7
  <2> DEFINE v == [task |-> t, attempt |-> a, step |-> s, event |-> e, left |-> d]
  <2>2. wait' = wait \cup {v}
    BY <1>5, <2>1
  <2>3. v \in Wait /\ v.task = t /\ v.attempt = a /\ v.event = e /\ v.left = d
    BY DEF Wait
  <2> HIDE DEF v
  <2>4. /\ wait' \subseteq Wait
        /\ \A w \in wait' : IF w.task = t /\ w.attempt = a
              THEN r.state = "sleeping" /\ r.wake = w.event /\ r.due = w.left
              ELSE w \in wait
        /\ \A w \in wait : w \in wait' \/ (w.task = t /\ w.attempt = a)
    BY <1>1, <1>5, <2>1, <2>2, <2>3
  <2>5. \/ r.due = 0
        \/ /\ event[r.wake] = None
           /\ \E w \in wait' : /\ w.task = t /\ w.attempt = a
                               /\ w.event = r.wake /\ w.left > 0
    BY <2>1, <2>2, <2>3
  <2> HIDE DEF k
  <2>6. SetsRun(task, run, wait, event, t, a, k, r, task', run', wait')
    BY <1>2, <1>3, <1>4, <2>4, <2>5 DEF SetsRun
  <2> QED
    BY <1>1, <2>6, SetRunKeepsTables
<1> QED
  BY <1>6, <1>7

\* The calls that only touch columns of a running run.
LEMMA TouchKeepsTables ==
  ASSUME IInv, NEW t \in Tasks, NEW a \in Attempts,
         run[t][a].state = "running",
         NEW r \in Run, r.state = "running",
         task' = task, run' = WithRun(run, t, a, r), wait' = wait, event' = event
  PROVE  Tables(task', run', wait', event')
<1>1. Tables(task, run, wait, event) /\ wait \subseteq Wait /\ task \in [Tasks -> Task]
  BY DEF IInv, TypeOK
<1>2. task' = [task EXCEPT ![t] = task[t]]
  BY <1>1
<1>3. /\ task[t] \in Task /\ a \in Nat
      /\ a = task[t].attempts /\ a = task[t].lastRun
      /\ a <= task[t].max /\ task[t].max <= AttemptCap
      /\ task[t].state = "running"
  BY <1>1, LiveRunFacts DEF Live
<1>4. \A w \in wait : ~(w.task = t /\ w.attempt = a)
  BY NoWaitUnlessSleeping
<1>5. SetsRun(task, run, wait, event, t, a, task[t], r, task', run', wait')
  BY <1>1, <1>2, <1>3, <1>4 DEF SetsRun
<1> QED
  BY <1>1, <1>5, SetRunKeepsTables

-----------------------------------------------------------------------------
(* A new task and a new attempt of a failed one                            *)

LEMMA SpawnTaskKeepsTables ==
  ASSUME IInv, NEW t \in Tasks, SpawnTask(t)
  PROVE  Tables(task', run', wait', event')
<1> DEFINE k == [state |-> "pending", attempts |-> 1, max |-> MaxAttempts, lastRun |-> 1]
           r == NewRun("pending", 0)
<1> USE QueueAssumption
<1>1. Tables(task, run, wait, event) /\ wait \subseteq Wait /\ 1 \in Attempts
  BY DEF IInv, TypeOK, Attempts
<1>2. /\ task[t].state = "none" /\ task' = [task EXCEPT ![t] = k]
      /\ run' = WithRun(run, t, 1, r) /\ wait' = wait /\ event' = event
  BY DEF SpawnTask
<1>3. task[t].attempts = 0 /\ run[t][1].state # "sleeping"
  <2>1. task[t].attempts = 0
    BY <1>1, <1>2 DEF Tables, Numbering
  <2>2. run[t][1].state = "none"
    BY <1>1, <2>1 DEF Tables, Numbering
  <2> QED
    BY <2>1, <2>2
<1>4. \A w \in wait : ~(w.task = t /\ w.attempt = 1)
  BY <1>1, <1>3, NoWaitUnlessSleeping
<1>5. k \in Task /\ r \in Run /\ r.state = "pending" /\ k.state = "pending"
      /\ k.attempts = 1 /\ k.lastRun = 1 /\ 1 <= k.max /\ k.max <= AttemptCap
  BY DEF Task, NewRun, Run, States, Live
<1> HIDE DEF k, r
<1>6. SetsRun(task, run, wait, event, t, 1, k, r, task', run', wait')
  BY <1>1, <1>2, <1>3, <1>4, <1>5 DEF SetsRun, Live
<1> QED
  BY <1>1, <1>2, <1>6, SetRunKeepsTables

LEMMA RetryTaskKeepsTables ==
  ASSUME IInv, NEW t \in Tasks, NEW m \in Attempts, RetryTask(t, m)
  PROVE  Tables(task', run', wait', event')
<1> DEFINE a == task[t].attempts + 1
           k == [state |-> "pending", attempts |-> Larger(task[t].attempts, a),
                 max |-> m, lastRun |-> a]
           r == NewRun("pending", 0)
<1> USE QueueAssumption
<1>1. /\ Tables(task, run, wait, event) /\ wait \subseteq Wait
      /\ task[t].attempts \in Nat
  BY DEF IInv, TypeOK, Task
<1>2. /\ task[t].state = "failed" /\ task' = [task EXCEPT ![t] = k]
      /\ run' = WithRun(run, t, a, r) /\ wait' = wait /\ event' = event
      /\ m > task[t].attempts
  BY DEF RetryTask
<1>3. a \in Attempts /\ a \in Nat /\ m \in Nat /\ a <= m /\ m <= AttemptCap
  BY <1>1, <1>2 DEF Attempts
<1>4. run[t][a].state = "none"
  BY <1>1, <1>3 DEF Tables, Numbering
<1>5. k \in Task /\ r \in Run /\ r.state = "pending" /\ k.state = "pending"
      /\ k.attempts = a /\ k.lastRun = a /\ a <= k.max /\ k.max <= AttemptCap
  BY <1>1, <1>3 DEF Task, NewRun, Run, States, Live, Larger
<1>6. a = task[t].attempts + 1
  OBVIOUS
<1> HIDE DEF a, k, r
<1>7. \A w \in wait : ~(w.task = t /\ w.attempt = a)
  BY <1>3, <1>4, NoWaitUnlessSleeping
<1>8. SetsRun(task, run, wait, event, t, a, k, r, task', run', wait')
  BY <1>1, <1>2, <1>5, <1>6, <1>7 DEF SetsRun, Live
<1> QED
  BY <1>1, <1>2, <1>3, <1>8, SetRunKeepsTables

-----------------------------------------------------------------------------
(* The calls that change several runs                                      *)

LEMMA CancelTaskKeepsTables ==
  ASSUME IInv, NEW t \in Tasks, CancelTask(t)
  PROVE  Tables(task', run', wait', event')
<1> USE QueueAssumption
<1>1. /\ Rows(task, run, wait) /\ Numbering(task, run) /\ Newest(task, run)
      /\ WaitRows(run, wait) /\ Sleepers(run, wait, event)
  BY DEF IInv, Tables
<1>2. /\ task \in [Tasks -> Task] /\ run \in [Tasks -> [Attempts -> Run]]
      /\ wait \subseteq Wait /\ event' = event
      /\ task[t].state \in Live /\ task[t] \in Task
      /\ \A a \in Attempts : run[t][a] \in Run
  BY <1>1 DEF Rows, CancelTask
<1>3. /\ task' \in [Tasks -> Task]
      /\ task'[t].state = "cancelled" /\ task'[t].attempts = task[t].attempts
      /\ task'[t].max = task[t].max /\ task'[t].lastRun = task[t].lastRun
      /\ \A u \in Tasks : u # t => task'[u] = task[u]
  BY <1>2 DEF CancelTask, Task, States, Terminal
<1>4. /\ run' \in [Tasks -> [Attempts -> Run]]
      /\ \A u \in Tasks : u # t => run'[u] = run[u]
      /\ \A a \in Attempts :
           IF run[t][a].state \in Live THEN run'[t][a].state = "cancelled"
           ELSE run'[t][a] = run[t][a]
  <2>1. \A a \in Attempts :
          /\ [run[t][a] EXCEPT !.state = "cancelled", !.lease = 0] \in Run
          /\ [run[t][a] EXCEPT !.state = "cancelled", !.lease = 0].state = "cancelled"
    BY <1>2 DEF Run, States, Terminal
  <2>2. run' = [run EXCEPT ![t] = [a \in Attempts |->
                  IF run[t][a].state \in Live
                  THEN [run[t][a] EXCEPT !.state = "cancelled", !.lease = 0]
                  ELSE run[t][a]]]
    BY DEF CancelTask
  <2> QED
    BY <1>2, <2>1, <2>2
<1>5. wait' = {w \in wait : w.task # t}
  BY DEF CancelTask
<1>6. Rows(task', run', wait')
  BY <1>2, <1>3, <1>4, <1>5 DEF Rows
<1>7. Numbering(task', run')
  <2> SUFFICES ASSUME NEW u \in Tasks
               PROVE  /\ task'[u].lastRun = task'[u].attempts
                      /\ task'[u].attempts <= task'[u].max
                      /\ task'[u].max <= AttemptCap
                      /\ task'[u].state = "none" <=> task'[u].attempts = 0
                      /\ \A x \in Attempts :
                           run'[u][x].state = "none" <=> x > task'[u].attempts
    BY DEF Numbering
  <2>1. CASE u # t
    BY <1>1, <1>3, <1>4, <2>1 DEF Numbering
  <2>2. CASE u = t
    BY <1>1, <1>2, <1>3, <1>4, <2>2 DEF Numbering, Live
  <2> QED
    BY <2>1, <2>2
<1>8. Newest(task', run')
  <2> SUFFICES ASSUME NEW u \in Tasks, NEW x \in Attempts
               PROVE  /\ run'[u][x].state \in Live => x = task'[u].attempts
                      /\ x = task'[u].attempts => run'[u][x].state = task'[u].state
    BY DEF Newest
  <2>1. CASE u # t
    BY <1>1, <1>3, <1>4, <2>1 DEF Newest
  <2>2. CASE u = t
    BY <1>1, <1>2, <1>3, <1>4, <2>2 DEF Newest, Live
  <2> QED
    BY <2>1, <2>2
<1>9. WaitRows(run', wait')
  <2> SUFFICES ASSUME NEW w \in wait'
               PROVE  run'[w.task][w.attempt] = run[w.task][w.attempt] /\ w \in wait
    BY <1>1 DEF WaitRows
  <2> QED
    BY <1>2, <1>4, <1>5 DEF Wait
<1>10. Sleepers(run', wait', event')
  <2> SUFFICES ASSUME NEW u \in Tasks, NEW x \in Attempts,
                      run'[u][x].state = "sleeping", run'[u][x].wake # None
               PROVE  \/ run'[u][x].due = 0
                      \/ /\ event[run'[u][x].wake] = None
                         /\ \E w \in wait' : /\ w.task = u /\ w.attempt = x
                                             /\ w.event = run'[u][x].wake /\ w.left > 0
    BY <1>2 DEF Sleepers
  <2>1. u # t
    BY <1>4 DEF Live
  <2>2. run'[u][x] = run[u][x]
    BY <1>4, <2>1
  <2>3. \A w \in wait : w.task = u => w \in wait'
    BY <1>5, <2>1
  <2> QED
    BY <1>1, <2>2, <2>3 DEF Sleepers
<1> QED
  BY <1>6, <1>7, <1>8, <1>9, <1>10 DEF Tables

LEMMA EmitEventKeepsTables ==
  ASSUME IInv, NEW e \in Events, NEW p \in Payloads, EmitEvent(e, p)
  PROVE  Tables(task', run', wait', event')
<1> DEFINE Wakes(t, a) == \E w \in Woken(e) : w.task = t /\ w.attempt = a
<1> USE QueueAssumption
<1>1. /\ Rows(task, run, wait) /\ Numbering(task, run) /\ Newest(task, run)
      /\ WaitRows(run, wait) /\ Sleepers(run, wait, event)
  BY DEF IInv, Tables
<1>2. /\ task \in [Tasks -> Task] /\ run \in [Tasks -> [Attempts -> Run]]
      /\ wait \subseteq Wait /\ event \in [Events -> Payloads \cup {None}]
      /\ \A t \in Tasks, a \in Attempts : run[t][a] \in Run
      /\ event' = [event EXCEPT ![e] = p]
  <2>1. event \in [Events -> Payloads \cup {None}] /\ event' = [event EXCEPT ![e] = p]
    BY DEF IInv, TypeOK, EmitEvent
  <2>2. /\ task \in [Tasks -> Task] /\ run \in [Tasks -> [Attempts -> Run]]
        /\ wait \subseteq Wait
    BY <1>1 DEF Rows
  <2> QED
    BY <2>1, <2>2
<1>3. \A w \in Woken(e) : /\ w \in wait /\ w.event = e /\ w.left > 0
                          /\ w.task \in Tasks /\ w.attempt \in Attempts
                          /\ w.attempt = task[w.task].attempts
                          /\ run[w.task][w.attempt].state = "sleeping"
                          /\ task[w.task].state = "sleeping"
  BY <1>1, <1>2 DEF Woken, Wait, Newest, Live
<1>4. /\ run' \in [Tasks -> [Attempts -> Run]]
      /\ \A t \in Tasks, a \in Attempts :
           IF Wakes(t, a)
           THEN run'[t][a].state = "pending" /\ run'[t][a].due = 0
           ELSE run'[t][a] = run[t][a]
  <2> DEFINE q(t, a) == [run[t][a] EXCEPT !.state = "pending", !.due = 0, !.wake = None,
                                          !.payload = p, !.lease = 0]
  <2>1. ASSUME NEW t \in Tasks, NEW a \in Attempts
        PROVE  q(t, a) \in Run /\ q(t, a).state = "pending" /\ q(t, a).due = 0
    <3>1. run[t][a] \in Run /\ "pending" \in States
      BY <1>2 DEF States, Live
    <3> QED
      BY <3>1 DEF Run
  <2>2. run' = [t \in Tasks |-> [a \in Attempts |->
                  IF Wakes(t, a) THEN q(t, a) ELSE run[t][a]]]
    BY DEF EmitEvent
  <2> HIDE DEF q, Wakes
  <2> QED
    BY <1>2, <2>1, <2>2
<1>5. /\ task' \in [Tasks -> Task]
      /\ \A t \in Tasks :
           /\ task'[t].attempts = task[t].attempts /\ task'[t].max = task[t].max
           /\ task'[t].lastRun = task[t].lastRun
           /\ task'[t].state = IF \E w \in Woken(e) : w.task = t
                               THEN "pending" ELSE task[t].state
  <2>1. \A t \in Tasks :
          LET k == [task[t] EXCEPT !.state = "pending"] IN
          /\ k \in Task /\ k.state = "pending" /\ k.attempts = task[t].attempts
          /\ k.max = task[t].max /\ k.lastRun = task[t].lastRun
    BY <1>2 DEF Task, States, Live
  <2>2. task' = [t \in Tasks |-> IF \E w \in Woken(e) : w.task = t
                                 THEN [task[t] EXCEPT !.state = "pending"] ELSE task[t]]
    BY DEF EmitEvent
  <2> QED
    BY <1>2, <2>1, <2>2
<1>6. wait' = {w \in wait :
                ~(w.event = e /\ (w.left = 0 \/ Wakes(w.task, w.attempt)))}
  BY DEF EmitEvent
<1>7. \A t \in Tasks, a \in Attempts : Wakes(t, a) =>
        run[t][a].state = "sleeping" /\ a = task[t].attempts /\ task[t].state = "sleeping"
  BY <1>3
<1>8. \A t \in Tasks : (\E w \in Woken(e) : w.task = t) =>
        /\ task[t].state = "sleeping" /\ task[t].attempts \in Attempts
        /\ Wakes(t, task[t].attempts)
  BY <1>3
<1>9. Rows(task', run', wait')
  BY <1>2, <1>4, <1>5, <1>6 DEF Rows
<1>10. Numbering(task', run')
  <2> HIDE DEF Wakes
  <2>1. \A t \in Tasks : task'[t].state = "none" <=> task[t].state = "none"
    BY <1>5, <1>8
  <2>2. \A t \in Tasks, a \in Attempts :
           run'[t][a].state = "none" <=> run[t][a].state = "none"
    BY <1>4, <1>7
  <2> QED
    BY <1>1, <1>5, <2>1, <2>2 DEF Numbering
<1>11. Newest(task', run')
  <2> HIDE DEF Wakes
  <2> SUFFICES ASSUME NEW t \in Tasks, NEW a \in Attempts
               PROVE  /\ run'[t][a].state \in Live => a = task'[t].attempts
                      /\ a = task'[t].attempts => run'[t][a].state = task'[t].state
    BY DEF Newest
  <2>0. task'[t].attempts = task[t].attempts
    BY <1>5
  <2>1. CASE Wakes(t, a)
    <3>1. \E w \in Woken(e) : w.task = t
      BY <2>1 DEF Wakes
    <3> QED
      BY <1>4, <1>5, <1>7, <2>0, <2>1, <3>1
  <2>2. CASE ~Wakes(t, a)
    <3>1. run'[t][a] = run[t][a]
      BY <1>4, <2>2
    <3>2. a = task[t].attempts => task'[t].state = task[t].state
      BY <1>5, <1>8, <2>2
    <3> QED
      BY <1>1, <2>0, <3>1, <3>2 DEF Newest
  <2> QED
    BY <2>1, <2>2
<1>12. WaitRows(run', wait')
  <2> SUFFICES ASSUME NEW w \in wait'
               PROVE  run'[w.task][w.attempt] = run[w.task][w.attempt] /\ w \in wait
    BY <1>1 DEF WaitRows
  <2>1. w \in wait /\ w.task \in Tasks /\ w.attempt \in Attempts
    BY <1>2, <1>6 DEF Wait
  <2>2. ~Wakes(w.task, w.attempt)
    <3> SUFFICES ASSUME Wakes(w.task, w.attempt) PROVE w.event = e
      BY <1>6
    <3> QED
      BY <1>1, <1>3, <2>1 DEF WaitRows
  <2> QED
    BY <1>4, <2>1, <2>2
<1>13. Sleepers(run', wait', event')
  <2> SUFFICES ASSUME NEW t \in Tasks, NEW a \in Attempts,
                      run'[t][a].state = "sleeping", run'[t][a].wake # None
               PROVE  \/ run'[t][a].due = 0
                      \/ /\ event'[run'[t][a].wake] = None
                         /\ \E w \in wait' : /\ w.task = t /\ w.attempt = a
                                             /\ w.event = run'[t][a].wake /\ w.left > 0
    BY DEF Sleepers
  <2>1. ~Wakes(t, a) /\ run'[t][a] = run[t][a]
    BY <1>4
  <2>2. CASE run[t][a].due = 0
    BY <2>1, <2>2
  <2>3. CASE run[t][a].due # 0
    <3>1. event[run[t][a].wake] = None
      BY <1>1, <2>1, <2>3 DEF Sleepers
    <3>2. PICK w \in wait : /\ w.task = t /\ w.attempt = a
                            /\ w.event = run[t][a].wake /\ w.left > 0
      BY <1>1, <2>1, <2>3 DEF Sleepers
    <3>3. w.event # e
      BY <2>1, <3>2 DEF Woken
    <3>4. w \in wait' /\ event'[w.event] = event[w.event]
      BY <1>2, <1>6, <3>3 DEF Wait
    <3> QED
      BY <2>1, <3>1, <3>2, <3>4
  <2> QED
    BY <2>2, <2>3
<1> QED
  BY <1>9, <1>10, <1>11, <1>12, <1>13 DEF Tables

LEMMA TickKeepsTables ==
  ASSUME IInv, Tick
  PROVE  Tables(task', run', wait', event')
<1>1. /\ Rows(task, run, wait) /\ Numbering(task, run) /\ Newest(task, run)
      /\ WaitRows(run, wait) /\ Sleepers(run, wait, event)
  BY DEF IInv, Tables
<1>2. /\ task \in [Tasks -> Task] /\ run \in [Tasks -> [Attempts -> Run]]
      /\ wait \subseteq Wait /\ task' = task /\ event' = event
  BY <1>1 DEF Rows, Tick
<1>3. \A n \in Nat : Less(n) \in Nat /\ (n = 0 => Less(n) = 0)
  BY DEF Less
<1>4. /\ run' \in [Tasks -> [Attempts -> Run]]
      /\ \A t \in Tasks, a \in Attempts :
           /\ run'[t][a].state = run[t][a].state /\ run'[t][a].wake = run[t][a].wake
           /\ run'[t][a].due = Less(run[t][a].due)
  <2> DEFINE q(t, a) == [run[t][a] EXCEPT !.due = Less(run[t][a].due),
                                          !.lease = Less(run[t][a].lease)]
  <2>1. ASSUME NEW t \in Tasks, NEW a \in Attempts
        PROVE  /\ q(t, a) \in Run /\ q(t, a).state = run[t][a].state
               /\ q(t, a).wake = run[t][a].wake /\ q(t, a).due = Less(run[t][a].due)
    <3>1. run[t][a] \in Run
      BY <1>2
    <3> QED
      BY <1>3, <3>1 DEF Run
  <2>2. run' = [t \in Tasks |-> [a \in Attempts |-> q(t, a)]]
    BY DEF Tick
  <2> HIDE DEF q
  <2> QED
    BY <2>1, <2>2
<1>5. \A w \in wait : LET v == [w EXCEPT !.left = Less(w.left)] IN
        /\ v \in Wait /\ v.task = w.task /\ v.attempt = w.attempt
        /\ v.event = w.event /\ v.left = Less(w.left)
  BY <1>2, <1>3 DEF Wait
<1>6. wait' = {[w EXCEPT !.left = Less(w.left)] : w \in wait}
  BY DEF Tick
<1>7. Rows(task', run', wait')
  BY <1>2, <1>4, <1>5, <1>6 DEF Rows
<1>8. Numbering(task', run') /\ Newest(task', run')
  BY <1>1, <1>2, <1>4 DEF Numbering, Newest
<1>9. WaitRows(run', wait')
  <2> SUFFICES ASSUME NEW v \in wait'
               PROVE  /\ run'[v.task][v.attempt].state = "sleeping"
                      /\ run'[v.task][v.attempt].wake = v.event
                      /\ run'[v.task][v.attempt].due = v.left
    BY DEF WaitRows
  <2>1. PICK w \in wait : v = [w EXCEPT !.left = Less(w.left)]
    BY <1>6
  <2>2. /\ v.task = w.task /\ v.attempt = w.attempt
        /\ v.event = w.event /\ v.left = Less(w.left)
        /\ w.task \in Tasks /\ w.attempt \in Attempts
    BY <1>2, <1>5, <2>1 DEF Wait
  <2> QED
    BY <1>1, <1>4, <2>2 DEF WaitRows
<1>10. Sleepers(run', wait', event')
  <2> SUFFICES ASSUME NEW t \in Tasks, NEW a \in Attempts,
                      run'[t][a].state = "sleeping", run'[t][a].wake # None
               PROVE  \/ run'[t][a].due = 0
                      \/ /\ event'[run'[t][a].wake] = None
                         /\ \E w \in wait' : /\ w.task = t /\ w.attempt = a
                                             /\ w.event = run'[t][a].wake /\ w.left > 0
    BY DEF Sleepers
  <2>1. /\ run[t][a].state = "sleeping" /\ run[t][a].wake = run'[t][a].wake
        /\ run'[t][a].due = Less(run[t][a].due)
    BY <1>4
  <2>2. CASE run[t][a].due = 0
    BY <2>1, <2>2 DEF Less
  <2>3. CASE run[t][a].due # 0
    <3>1. PICK w \in wait : /\ w.task = t /\ w.attempt = a
                            /\ w.event = run[t][a].wake /\ w.left > 0
      BY <1>1, <2>1, <2>3 DEF Sleepers
    <3>2. event'[run'[t][a].wake] = None
      BY <1>1, <1>2, <2>1, <2>3 DEF Sleepers
    <3> DEFINE v == [w EXCEPT !.left = Less(w.left)]
    <3>3. /\ v \in wait' /\ v.task = t /\ v.attempt = a
          /\ v.event = run'[t][a].wake /\ v.left = Less(w.left)
      BY <1>5, <1>6, <2>1, <3>1
    <3>4. run'[t][a].due = v.left /\ v.left \in Nat
      BY <1>1, <1>2, <1>3, <2>1, <3>1, <3>3 DEF WaitRows, Wait
    <3> HIDE DEF v
    <3>5. CASE v.left = 0
      BY <3>4, <3>5
    <3>6. CASE v.left > 0
      BY <3>2, <3>3, <3>6
    <3> QED
      BY <3>4, <3>5, <3>6
  <2> QED
    BY <2>2, <2>3
<1> QED
  BY <1>7, <1>8, <1>9, <1>10 DEF Tables

-----------------------------------------------------------------------------
(* The inductive invariant                                                 *)

Data ==
  /\ ckpt \in [Tasks -> [Steps -> Ckpt]]
  /\ latest \in [Tasks -> Steps \cup {None}]
  /\ event \in [Events -> Payloads \cup {None}]
  /\ writing \subseteq Call

LEMMA IInvParts == IInv <=> Tables(task, run, wait, event) /\ Data
BY DEF IInv, TypeOK, Tables, Rows, Data

LEMMA IInvPartsNext == IInv' <=> Tables(task', run', wait', event') /\ Data'
BY DEF IInv, TypeOK, Tables, Rows, Data

LEMMA WriteCkptKeepsData ==
  ASSUME Data, NEW t \in Tasks, NEW a \in Attempts, NEW s \in Steps,
         NEW p \in Payloads \cup {None}, WriteCkpt(t, a, s, p)
  PROVE  /\ ckpt' \in [Tasks -> [Steps -> Ckpt]]
         /\ latest' \in [Tasks -> Steps \cup {None}]
<1>1. [owner |-> a, payload |-> p] \in Ckpt
  BY QueueAssumption DEF Ckpt, Attempts
<1>2. [ckpt[t] EXCEPT ![s] = [owner |-> a, payload |-> p]] \in [Steps -> Ckpt]
  BY <1>1 DEF Data
<1> QED
  BY <1>2 DEF Data, WriteCkpt

LEMMA EmitEventKeepsData ==
  ASSUME IInv, NEW e \in Events, NEW p \in Payloads, EmitEvent(e, p)
  PROVE  Data'
<1>1. \A w \in Woken(e) : w.step \in Steps /\ w.attempt \in Nat
  BY QueueAssumption DEF IInv, TypeOK, Woken, Wait, Attempts
<1>2. ckpt' \in [Tasks -> [Steps -> Ckpt]]
  <2>1. ASSUME NEW t \in Tasks, NEW s \in Steps,
               \E w \in Woken(e) : w.task = t /\ w.step = s
        PROVE  [owner |-> (CHOOSE w \in Woken(e) : w.task = t /\ w.step = s).attempt,
                payload |-> p] \in Ckpt
    <3> DEFINE v == CHOOSE w \in Woken(e) : w.task = t /\ w.step = s
    <3>1. v \in Woken(e)
      BY <2>1
    <3> HIDE DEF v
    <3>2. [owner |-> v.attempt, payload |-> p] \in Ckpt
      BY <1>1, <3>1 DEF Ckpt
    <3> QED
      BY <3>2 DEF v
  <2> DEFINE new(t, s) ==
               IF \E w \in Woken(e) : w.task = t /\ w.step = s
               THEN [owner |-> (CHOOSE w \in Woken(e) : w.task = t /\ w.step = s).attempt,
                     payload |-> p]
               ELSE ckpt[t][s]
  <2>2. \A t \in Tasks, s \in Steps : ckpt[t][s] \in Ckpt
    BY DEF IInv, TypeOK
  <2>3. \A t \in Tasks, s \in Steps : new(t, s) \in Ckpt
    BY <2>1, <2>2
  <2>4. ckpt' = [t \in Tasks |-> [s \in Steps |-> new(t, s)]]
    BY DEF EmitEvent
  <2> HIDE DEF new
  <2> QED
    BY <2>3, <2>4
<1>3. latest' \in [Tasks -> Steps \cup {None}]
  <2>1. ASSUME NEW t \in Tasks, \E w \in Woken(e) : w.task = t
        PROVE  (CHOOSE w \in Woken(e) : w.task = t).step \in Steps
    BY <1>1, <2>1
  <2>2. \A t \in Tasks : latest[t] \in Steps \cup {None}
    BY DEF IInv, TypeOK
  <2> QED
    BY <2>1, <2>2 DEF EmitEvent
<1>4. event' \in [Events -> Payloads \cup {None}] /\ writing' \subseteq Call
  BY DEF IInv, TypeOK, EmitEvent
<1> QED
  BY <1>2, <1>3, <1>4 DEF Data

\* The empty queue satisfies the invariant.
LEMMA InitIInv == Init => IInv
<1> SUFFICES ASSUME Init PROVE IInv
  OBVIOUS
<1> USE QueueAssumption
<1>1. NoTask \in Task /\ NoRun \in Run /\ NoCkpt \in Ckpt
  BY DEF NoTask, Task, NoRun, NewRun, Run, NoCkpt, Ckpt, States
<1>2. Data
  BY <1>1 DEF Init, Data
<1>3. /\ \A t \in Tasks : task[t] = NoTask
      /\ \A t \in Tasks, a \in Attempts : run[t][a] = NoRun
      /\ wait = {}
  BY DEF Init
<1>4. Rows(task, run, wait)
  BY <1>1 DEF Init, Rows
<1>5. Numbering(task, run)
  <2>1. \A a \in Attempts : a > 0
    BY DEF Attempts
  <2>2. NoTask.attempts = 0 /\ NoTask.lastRun = 0 /\ NoTask.max = 0
        /\ NoTask.state = "none" /\ NoRun.state = "none"
    BY DEF NoTask, NoRun, NewRun
  <2>3. 0 <= 0 /\ 0 <= AttemptCap
    OBVIOUS
  <2> SUFFICES ASSUME NEW t \in Tasks
               PROVE  /\ task[t].lastRun = task[t].attempts
                      /\ task[t].attempts <= task[t].max
                      /\ task[t].max <= AttemptCap
                      /\ task[t].state = "none" <=> task[t].attempts = 0
                      /\ \A a \in Attempts :
                           run[t][a].state = "none" <=> a > task[t].attempts
    BY DEF Numbering
  <2>4. task[t] = NoTask /\ \A a \in Attempts : run[t][a] = NoRun
    BY <1>3
  <2> HIDE DEF NoTask, NoRun
  <2> QED
    BY <2>1, <2>2, <2>3, <2>4
<1>6. Newest(task, run) /\ WaitRows(run, wait) /\ Sleepers(run, wait, event)
  BY <1>3 DEF Newest, WaitRows, Sleepers, NoTask, NoRun, NewRun, Attempts, Live
<1> QED
  BY <1>2, <1>4, <1>5, <1>6, IInvParts DEF Tables

LEMMA RunCallKeepsIInv ==
  ASSUME IInv, NEW t \in Tasks, NEW a \in Attempts, RunCall(t, a)
  PROVE  IInv'
<1> USE QueueAssumption
<1>0. Tables(task, run, wait, event) /\ Data
  BY IInvParts
<1> SUFFICES Tables(task', run', wait', event') /\ Data'
  BY IInvPartsNext
<1>1. CASE ClaimTask(t, a)
  BY <1>0, <1>1, ClaimTaskKeepsTables DEF ClaimTask, Data
<1>2. CASE CompleteRun(t, a)
  BY <1>0, <1>2, CompleteRunKeepsTables DEF CompleteRun, Data
<1>3. CASE FailRun(t, a)
  BY <1>0, <1>3, FailRunKeepsTables DEF FailRun, Data
<1>4. CASE ExtendClaim(t, a)
  <2> DEFINE r == [run[t][a] EXCEPT !.lease = ExtendBy]
  <2>1. run[t][a] \in Run /\ run[t][a].state = "running"
    BY <1>4 DEF IInv, TypeOK, ExtendClaim, CanExtend
  <2>2. r \in Run /\ r.state = "running"
    BY <2>1 DEF Run
  <2>3. Tables(task', run', wait', event')
    BY <1>4, <2>1, <2>2, TouchKeepsTables DEF ExtendClaim
  <2> QED
    BY <1>0, <1>4, <2>3 DEF ExtendClaim, Data
<1>8. CASE ExpireLease(t, a)
  <2> DEFINE r == [run[t][a] EXCEPT !.lease = 0, !.due = 0]
  <2>1. run[t][a] \in Run /\ run[t][a].state = "running"
    BY <1>8 DEF IInv, TypeOK, ExpireLease
  <2>2. r \in Run /\ r.state = "running"
    BY <2>1 DEF Run
  <2>3. Tables(task', run', wait', event')
    BY <1>8, <2>1, <2>2, TouchKeepsTables DEF ExpireLease
  <2> QED
    BY <1>0, <1>8, <2>3 DEF ExpireLease, Data
<1>5. CASE \E d \in SleepDelays : ScheduleRun(t, a, d)
  <2>1. PICK d \in SleepDelays : ScheduleRun(t, a, d)
    BY <1>5
  <2> DEFINE r == [run[t][a] EXCEPT !.state = "sleeping", !.lease = 0, !.due = d,
                                    !.wake = None]
  <2>2. run[t][a] \in Run /\ run[t][a].state = "running"
    BY <2>1 DEF IInv, TypeOK, ScheduleRun
  <2>3. r \in Run /\ r.state = "sleeping" /\ r.wake = None
    BY <2>2 DEF Run, States, Live
  <2>4. Tables(task', run', wait', event')
    BY <2>1, <2>2, <2>3, SleepKeepsTables DEF ScheduleRun
  <2> QED
    BY <1>0, <2>1, <2>4 DEF ScheduleRun, Data
<1>6. CASE \E s \in Steps, p \in CkptStates : CheckpointCall(t, a, s, p)
  <2>1. PICK s \in Steps, p \in CkptStates : CheckpointCall(t, a, s, p)
    BY <1>6
  <2>2. [task |-> t, attempt |-> a, step |-> s, payload |-> p,
         saw |-> None] \in Call
    BY DEF Call
  <2> QED
    BY <1>0, <2>1, <2>2 DEF CheckpointCall, Data
<1>7. CASE \E s \in Steps, e \in Events : AwaitEvent(t, a, s, e)
  <2>1. PICK s \in Steps, e \in Events : AwaitEvent(t, a, s, e)
    BY <1>7
  <2>2. event[e] \in Payloads \cup {None} /\ run[t][a] \in Run
    BY DEF IInv, TypeOK
  <2>3. CASE AwaitResolved(t, a, s, e)
    <3>1. WriteCkpt(t, a, s, event[e]) /\ run[t][a].state = "running"
      BY <2>3 DEF AwaitResolved, CanAwait
    <3>2. /\ ckpt' \in [Tasks -> [Steps -> Ckpt]]
          /\ latest' \in [Tasks -> Steps \cup {None}]
      BY <1>0, <2>2, <3>1, WriteCkptKeepsData
    <3> DEFINE r == [run[t][a] EXCEPT !.payload = None]
    <3>3. r \in Run /\ r.state = "running"
      BY <2>2, <3>1 DEF Run
    <3>4. Tables(task', run', wait', event')
      BY <2>3, <3>1, <3>3, TouchKeepsTables DEF AwaitResolved
    <3> QED
      BY <1>0, <2>3, <3>2, <3>4 DEF AwaitResolved, Data
  <2>4. CASE AwaitTimedOut(t, a, s, e)
    <3> DEFINE r == [run[t][a] EXCEPT !.wake = None]
    <3>1. run[t][a].state = "running"
      BY <2>4 DEF AwaitTimedOut, CanAwait
    <3>2. r \in Run /\ r.state = "running"
      BY <2>2, <3>1 DEF Run
    <3>3. Tables(task', run', wait', event')
      BY <2>4, <3>1, <3>2, TouchKeepsTables DEF AwaitTimedOut
    <3> QED
      BY <1>0, <2>4, <3>3 DEF AwaitTimedOut, Data
  <2>5. CASE \E d \in AwaitTimeouts : AwaitSuspend(t, a, s, e, d)
    <3>1. PICK d \in AwaitTimeouts : AwaitSuspend(t, a, s, e, d)
      BY <2>5
    <3> DEFINE r == [run[t][a] EXCEPT !.state = "sleeping", !.lease = 0, !.due = d,
                                      !.wake = e, !.payload = None]
    <3>2. d \in Nat /\ event[e] = None /\ run[t][a].state = "running"
      BY <3>1 DEF AwaitSuspend, CanAwait
    <3>3. r \in Run /\ r.state = "sleeping" /\ r.wake = e /\ r.due = d
      BY <2>2, <3>2 DEF Run, States, Live
    <3>4. /\ task' = [task EXCEPT ![t] = [@ EXCEPT !.state = "sleeping"]]
          /\ run' = WithRun(run, t, a, r) /\ event' = event
          /\ wait' = {w \in wait : ~(w.task = t /\ w.attempt = a /\ w.step = s)} \cup
               {[task |-> t, attempt |-> a, step |-> s, event |-> e, left |-> d]}
      BY <3>1 DEF AwaitSuspend
    <3> HIDE DEF r
    <3>5. Tables(task', run', wait', event')
      BY <3>2, <3>3, <3>4, SleepKeepsTables
    <3> QED
      BY <1>0, <3>1, <3>5 DEF AwaitSuspend, Data
  <2> QED
    BY <2>1, <2>3, <2>4, <2>5 DEF AwaitEvent
<1> QED
  BY <1>1, <1>2, <1>3, <1>4, <1>5, <1>6, <1>7, <1>8 DEF RunCall

\* Every step keeps the invariant.
LEMMA NextIInv == IInv /\ [Next]_vars => IInv'
<1> SUFFICES ASSUME IInv, [Next]_vars PROVE IInv'
  OBVIOUS
<1>0. Tables(task, run, wait, event) /\ Data
  BY IInvParts
<1>1. ASSUME Tables(task', run', wait', event'), Data' PROVE IInv'
  BY <1>1, IInvPartsNext
<1>2. CASE \E t \in Tasks : TaskCall(t)
  <2>1. PICK t \in Tasks : TaskCall(t)
    BY <1>2
  <2>2. CASE SpawnTask(t)
    BY <1>0, <1>1, <2>2, SpawnTaskKeepsTables DEF SpawnTask, Data
  <2>3. CASE CancelTask(t)
    BY <1>0, <1>1, <2>3, CancelTaskKeepsTables DEF CancelTask, Data
  <2>4. CASE \E m \in Attempts : RetryTask(t, m)
    BY <1>0, <1>1, <2>4, RetryTaskKeepsTables DEF RetryTask, Data
  <2> QED
    BY <2>1, <2>2, <2>3, <2>4 DEF TaskCall
<1>3. CASE \E t \in Tasks, a \in Attempts : RunCall(t, a)
  BY <1>3, RunCallKeepsIInv
<1>4. CASE ClaimNothing
  <2>1. PICK x \in ExpiredRuns : FailRun(x[1], x[2])
    BY <1>4 DEF ClaimNothing
  <2>2. x[1] \in Tasks /\ x[2] \in Attempts
    BY DEF ExpiredRuns
  <2> QED
    BY <1>0, <1>1, <2>1, <2>2, FailRunKeepsTables DEF FailRun, Data
<1>9. CASE \E c \in writing : CheckpointRead(c)
  <2>1. PICK c \in writing : CheckpointRead(c)
    BY <1>9
  <2> DEFINE owner == ckpt[c.task][c.step].owner
  <2>2. c \in Call
    BY <1>0 DEF Data
  <2>3. owner \in Nat
    BY <1>0, <2>2 DEF Data, Call, Ckpt
  <2>4. [c EXCEPT !.saw = owner] \in Call
    BY <2>2, <2>3 DEF Call
  <2> HIDE DEF owner
  <2>5. writing' \subseteq Call
    BY <1>0, <2>1, <2>4 DEF Data, CheckpointRead, owner
  <2> QED
    BY <1>0, <1>1, <2>1, <2>5 DEF CheckpointRead, Data
<1>5. CASE \E c \in writing : CheckpointWrite(c)
  <2>1. PICK c \in writing : CheckpointWrite(c)
    BY <1>5
  <2>2. /\ c.task \in Tasks /\ c.attempt \in Attempts /\ c.step \in Steps
        /\ c.payload \in Payloads \cup {None}
    BY <1>0 DEF Data, Call
  <2>3. /\ ckpt' \in [Tasks -> [Steps -> Ckpt]]
        /\ latest' \in [Tasks -> Steps \cup {None}]
    BY <1>0, <2>1, <2>2, WriteCkptKeepsData DEF CheckpointWrite
  <2> QED
    BY <1>0, <1>1, <2>1, <2>3 DEF CheckpointWrite, Data
<1>6. CASE \E e \in Events, p \in Payloads : EmitEvent(e, p)
  BY <1>1, <1>6, EmitEventKeepsTables, EmitEventKeepsData
<1>7. CASE Tick
  BY <1>0, <1>1, <1>7, TickKeepsTables DEF Tick, Data
<1>8. CASE UNCHANGED vars
  BY <1>0, <1>1, <1>8 DEF vars, Data
<1> QED
  BY <1>2, <1>3, <1>4, <1>5, <1>6, <1>7, <1>8, <1>9 DEF Next

LEMMA Invariance == Spec => []IInv
BY InitIInv, NextIInv, PTL DEF Spec

-----------------------------------------------------------------------------
(* The theorems                                                            *)

\* Every table stays well formed under any sequence of procedure calls.
THEOREM TypeCorrect == Spec => []TypeOK
<1>1. IInv => TypeOK
  BY DEF IInv
<1> QED
  BY <1>1, Invariance, PTL

\* However many workers call, and whatever stale run ids they hold, no task ever
\* has two runs that can execute (fail_run, claim_task, retry_task).
THEOREM OneLiveRunAlways == Spec => []OneLiveRun
<1>1. IInv => OneLiveRun
  BY IInvSafety DEF Safety
<1> QED
  BY <1>1, Invariance, PTL

\* The state column of a task never drifts from that of its newest run.
THEOREM TaskMatchesRunAlways == Spec => []TaskMatchesRun
<1>1. IInv => TaskMatchesRun
  BY IInvSafety DEF Safety
<1> QED
  BY <1>1, Invariance, PTL

\* await_event and emit_event lose no wake-up, for any events and timeouts.
THEOREM NoLostWakeupAlways == Spec => []NoLostWakeup
<1>1. IInv => NoLostWakeup
  BY IInvSafety DEF Safety
<1> QED
  BY <1>1, Invariance, PTL

\* No wait row survives the sleep it was registered for.
THEOREM WaitsAreForSleepersAlways == Spec => []WaitsAreForSleepers
<1>1. IInv => WaitsAreForSleepers
  BY IInvSafety DEF Safety
<1> QED
  BY <1>1, Invariance, PTL

\* No caller can use more attempts of a task than its budget.
THEOREM AttemptsBoundedAlways == Spec => []AttemptsBounded
<1>1. IInv => AttemptsBounded
  BY IInvSafety DEF Safety
<1> QED
  BY <1>1, Invariance, PTL
=============================================================================
