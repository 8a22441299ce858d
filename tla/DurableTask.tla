---------------------------- MODULE DurableTask ----------------------------
(***************************************************************************)
(* What the durable engine promises about the tasks of a queue, without    *)
(* its tables, leases, waits and clocks: every task is carried out by one  *)
(* attempt at a time, a new attempt begins only when the one before it     *)
(* failed and the budget allows it, and an ended task stays ended unless a *)
(* failed one is given a larger budget.                                    *)
(***************************************************************************)
EXTENDS Naturals

CONSTANT Tasks

VARIABLE life    \* life[t] = [state, attempt, budget]

Unborn == [state |-> "none", attempt |-> 0, budget |-> 0]

Init == life = [t \in Tasks |-> Unborn]

\* The moves of one task, from l to m.
Created(l, m) ==
  /\ l.state = "none"
  /\ m.state = "pending" /\ m.attempt = 1 /\ m.budget >= 1

SameAttempt(l, m) == m.attempt = l.attempt /\ m.budget = l.budget
NextAttempt(l, m) ==
  /\ l.attempt < l.budget
  /\ m.attempt = l.attempt + 1 /\ m.budget = l.budget

Started(l, m) ==
  /\ l.state \in {"pending", "sleeping"} /\ m.state = "running"
  /\ SameAttempt(l, m)

Suspended(l, m) ==
  /\ l.state = "running" /\ m.state = "sleeping"
  /\ SameAttempt(l, m)

Woken(l, m) ==
  /\ l.state = "sleeping" /\ m.state = "pending"
  /\ SameAttempt(l, m)

\* The attempt failed.  When it lost its lease to a claim, that claim may take
\* the new attempt at once.
Retried(l, m) ==
  /\ l.state \in {"running", "sleeping"}
  /\ m.state \in {"pending", "sleeping", "running"}
  /\ NextAttempt(l, m)

Failed(l, m) ==
  /\ l.state \in {"running", "sleeping"} /\ m.state = "failed"
  /\ l.attempt = l.budget
  /\ SameAttempt(l, m)

Completed(l, m) ==
  /\ l.state = "running" /\ m.state = "completed"
  /\ SameAttempt(l, m)

Cancelled(l, m) ==
  /\ l.state \in {"pending", "sleeping", "running"} /\ m.state = "cancelled"
  /\ SameAttempt(l, m)

Reopened(l, m) ==
  /\ l.state = "failed" /\ m.state = "pending"
  /\ m.attempt = l.attempt + 1 /\ m.attempt <= m.budget

Move(l, m) ==
  \/ Created(l, m)
  \/ Started(l, m) \/ Suspended(l, m) \/ Woken(l, m)
  \/ Retried(l, m) \/ Failed(l, m) \/ Completed(l, m)
  \/ Cancelled(l, m) \/ Reopened(l, m)

\* One call may move several tasks: an event wakes all that wait for it, and a
\* claim fails one task's attempt and starts another's.
Next ==
  /\ DOMAIN life' = Tasks
  /\ \A t \in Tasks : life'[t] = life[t] \/ Move(life[t], life'[t])

Spec == Init /\ [][Next]_life
=============================================================================
