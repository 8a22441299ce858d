------------------------------ MODULE Workflow ------------------------------
(***************************************************************************)
(* What the workflow engine promises about a task, without workers, leases,*)
(* sessions, overlay and crashes: its steps are finished one after the     *)
(* other in the order of the workflow, a finished step stays finished      *)
(* through every retry and restart, and the task completes only when all   *)
(* of them are.                                                            *)
(***************************************************************************)
EXTENDS Naturals

CONSTANTS Tasks, NumSteps

VARIABLES
  outcome,    \* outcome[t] \in {"none", "active", "completed", "failed"}
  finished    \* finished[t]: the steps of t that are finished

vars == <<outcome, finished>>

Steps == 1..NumSteps

Init ==
  /\ outcome = [t \in Tasks |-> "none"]
  /\ finished = [t \in Tasks |-> {}]

Start(t) ==
  /\ outcome[t] = "none"
  /\ outcome' = [outcome EXCEPT ![t] = "active"]
  /\ UNCHANGED finished

\* The next step is the one after the finished ones.  A step may still finish
\* while its task is being failed.
FinishStep(t) ==
  /\ outcome[t] \in {"active", "failed"}
  /\ \E s \in Steps : /\ finished[t] = 1..(s - 1)
                      /\ finished' = [finished EXCEPT ![t] = 1..s]
  /\ UNCHANGED outcome

Complete(t) ==
  /\ outcome[t] = "active"
  /\ finished[t] = Steps
  /\ outcome' = [outcome EXCEPT ![t] = "completed"]
  /\ UNCHANGED finished

Fail(t) ==
  /\ outcome[t] = "active"
  /\ outcome' = [outcome EXCEPT ![t] = "failed"]
  /\ UNCHANGED finished

Next == \E t \in Tasks : Start(t) \/ FinishStep(t) \/ Complete(t) \/ Fail(t)

Spec == Init /\ [][Next]_vars
=============================================================================
