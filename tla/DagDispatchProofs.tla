-------------------------- MODULE DagDispatchProofs --------------------------
(***************************************************************************)
(* Proofs about DagDispatch for every finite set of nodes, any number of   *)
(* steps and any number of polls: the plan is a layering, and no node      *)
(* starts before what it needs is complete.                                *)
(***************************************************************************)
EXTENDS DagDispatch, FiniteSetTheorems, TLAPS

Trusted(d) == Complete(d) \/ second[d] # "none"

-----------------------------------------------------------------------------
(* The inductive invariant *)

Unplanned == driver = "validate" =>
  levels = <<>> /\ \A n \in nodes : inDegree[n] = Cardinality(needs[n])

Sound == driver \notin {"validate", "refused"} =>
  nodes # {} /\ \A n \in nodes : needs[n] \subseteq nodes

Before(k) == UNION {levels[l] : l \in 1..(k - 1)}

Layered ==
  /\ \A k, l \in 1..Len(levels) : k # l => levels[k] \cap levels[l] = {}
  /\ \A k \in 1..Len(levels) : \A n \in levels[k] :
       needs[n] \subseteq Before(k) /\ (k > 1 => needs[n] \cap levels[k - 1] # {})

\* Kahn's loop: inDegree counts the needs that are in no level yet, and the
\* queue holds the nodes that have none left, with one in the last level.
Counted == driver = "plan" =>
  /\ queue \cap Sorted = {}
  /\ \A n \in nodes : inDegree[n] = Cardinality(needs[n] \ Sorted)
  /\ \A n \in nodes \ Sorted : inDegree[n] = 0 <=> n \in queue
  /\ Len(levels) > 0 => \A n \in queue : needs[n] \cap levels[Len(levels)] # {}

\* What lies on a cycle is never reached.
Closed(S) == \A n \in S : needs[n] \cap S # {}

CyclesLeft == driver \notin {"validate", "refused"} =>
  \A S \in SUBSET nodes : Closed(S) => S \cap (Sorted \cup queue) = {}

AllSorted == driver \notin {"validate", "plan", "refused"} => Sorted = nodes

RefusedIsBad == driver = "refused" =>
  nodes = {} \/ (\E n \in nodes : ~(needs[n] \subseteq nodes)) \/ Cyclic

PlanInv ==
  Unplanned /\ Sound /\ Layered /\ Counted /\ CyclesLeft /\ AllSorted /\ RefusedIsBad

\* A worker that the driver found to have returned left either a finished
\* task or a row that shows it is not, unless somebody took the task over.
ReturnedRows == \A n \in Nodes :
  worker[n] = "ok" /\ second[n] = "none" =>
    Complete(n) \/ RowsOf(n) \cap {"RUNNING", "FAILED"} # {}

LevelsDone == driver \in {"dispatch", "await"} =>
  /\ level \in 1..Len(levels)
  /\ todo \subseteq levels[level]
  /\ \A n \in Before(level) : Trusted(n)
  /\ driver = "await" => \A n \in levels[level] \ todo : Trusted(n)

Needed == \A n \in nodes : worker[n] # "none" => \A d \in needs[n] : Trusted(d)

AllDone == driver = "done" => \A n \in nodes : Trusted(n)

DriverInv == ReturnedRows /\ LevelsDone /\ Needed /\ AllDone

IInv == TypeOK /\ PlanInv /\ DriverInv

-----------------------------------------------------------------------------
(* Type correctness *)

LEMMA FiniteNeeds ==
  ASSUME TypeOK, NEW n \in nodes, NEW S
  PROVE  /\ IsFiniteSet(needs[n] \ S)
         /\ Cardinality(needs[n] \ S) \in 0..Cardinality(Nodes)
<1>1. needs[n] \ S \in SUBSET Nodes
  BY DEF TypeOK
<1>2. QED
  BY <1>1, NodesAssumption, FS_Subset, FS_CardinalityType

LEMMA Init_IInv == Init => TypeOK /\ PlanInv /\ DriverInv
<1> SUFFICES ASSUME Init PROVE TypeOK /\ PlanInv /\ DriverInv
  OBVIOUS
<1>1. \A n \in nodes : Cardinality(needs[n]) \in 0..Cardinality(Nodes)
  <2>1. ASSUME NEW n \in nodes PROVE Cardinality(needs[n]) \in 0..Cardinality(Nodes)
    <3>1. needs[n] \in SUBSET Nodes
      BY DEF Init
    <3>2. QED
      BY <3>1, NodesAssumption, FS_Subset, FS_CardinalityType
  <2>2. QED
    BY <2>1
<1>2. TypeOK
  <2>1. inDegree \in [nodes -> 0..Cardinality(Nodes)]
    BY <1>1 DEF Init
  <2>2. row \in [Nodes -> [Step -> {NoRow, "RUNNING", "COMPLETED", "FAILED"}]]
    BY DEF Init
  <2>3. QED
    BY <2>1, <2>2, PollsAssumption DEF Init, TypeOK, Drivers
<1>3. PlanInv
  BY DEF Init, PlanInv, Unplanned, Sound, Layered, Counted, CyclesLeft, AllSorted, RefusedIsBad
<1>4. DriverInv
  BY DEF Init, DriverInv, ReturnedRows, LevelsDone, Needed, AllDone
<1>5. QED
  BY <1>2, <1>3, <1>4

\* A turn of the loop takes from inDegree the needs that the queue fulfils.
LEMMA Decrement ==
  ASSUME TypeOK, PlanInv, driver = "plan", NEW n \in nodes
  PROVE  inDegree[n] - Cardinality(needs[n] \cap queue) = Cardinality(needs[n] \ (Sorted \cup queue))
<1>1. inDegree[n] = Cardinality(needs[n] \ Sorted) /\ queue \cap Sorted = {}
  BY DEF PlanInv, Counted
<1>2. Cardinality((needs[n] \ Sorted) \ queue)
        = Cardinality(needs[n] \ Sorted) - Cardinality((needs[n] \ Sorted) \cap queue)
  BY FiniteNeeds, FS_Difference
<1>3. /\ (needs[n] \ Sorted) \cap queue = needs[n] \cap queue
      /\ (needs[n] \ Sorted) \ queue = needs[n] \ (Sorted \cup queue)
  BY <1>1
<1>4. QED
  BY <1>1, <1>2, <1>3

LEMMA NoneLeft ==
  ASSUME TypeOK, NEW n \in nodes, NEW S
  PROVE  Cardinality(needs[n] \ S) = 0 <=> needs[n] \subseteq S
BY FiniteNeeds, FS_EmptySet

LEMMA PlanLevelTypes ==
  ASSUME TypeOK, PlanInv, PlanLevel
  PROVE  TypeOK'
<1> USE DEF PlanLevel
<1>1. \A n \in nodes : inDegree[n] - Cardinality(needs[n] \cap queue)
                              = Cardinality(needs[n] \ (Sorted \cup queue))
  BY Decrement
<1>2. inDegree' \in [nodes -> 0..Cardinality(Nodes)]
  BY <1>1, FiniteNeeds
<1>3. levels' \in Seq(SUBSET nodes)
  BY DEF TypeOK
<1>4. Len(levels') = Len(levels) + 1
  BY DEF TypeOK
<1>5. level' \in 0..Len(levels') /\ queue' \subseteq nodes
  BY <1>4 DEF TypeOK
<1>6. QED
  BY <1>2, <1>3, <1>5 DEF TypeOK, graph, tasks, Step, Drivers

LEMMA TypeStep ==
  ASSUME TypeOK, PlanInv, LevelsDone, [Next]_vars
  PROVE  TypeOK'
<1> USE DEF TypeOK, Step, Drivers
<1>1. CASE Validate
  BY <1>1 DEF Validate, graph, tasks
<1>2. CASE PlanLevel
  BY <1>2, PlanLevelTypes
<1>3. CASE EndPlan
  <2>1. levels # <<>> => levels[1] \subseteq nodes /\ 1 \in 0..Len(levels)
    OBVIOUS
  <2>2. Sorted = nodes => levels # <<>>
    <3>1. nodes # {}
      BY <1>3 DEF EndPlan, PlanInv, Sound
    <3>2. QED
      BY <3>1 DEF Sorted
  <2>3. QED
    BY <1>3, <2>1, <2>2 DEF EndPlan, graph, plan, tasks
<1>4. ASSUME NEW n \in Nodes, Dispatch(n) PROVE TypeOK'
  <2>1. levels[level] \subseteq nodes
    BY <1>4 DEF Dispatch, LevelsDone
  <2>2. QED
    BY <1>4, <2>1 DEF Dispatch, graph, plan
<1>5. CASE DispatchFails
  BY <1>5 DEF DispatchFails, graph, plan, tasks
<1>6. ASSUME NEW n \in Nodes, AwaitNode(n) PROVE TypeOK'
  <2>1. /\ driver' \in Drivers
        /\ level' \in 0..Len(levels)
        /\ todo' \subseteq nodes
        /\ polls' \in 0..Polls
    <3>1. level \in 1..Len(levels) /\ levels \in Seq(SUBSET nodes)
      BY <1>6 DEF AwaitNode, LevelsDone
    <3>2. level # Len(levels) => levels[level + 1] \subseteq nodes /\ level + 1 \in 0..Len(levels)
      BY <3>1
    <3>3. CASE Succeeded(n)
      BY <1>6, <3>1, <3>2, <3>3, PollsAssumption DEF AwaitNode, Succeeded
    <3>4. CASE Abort \/ Unreadable \/ (polls < Polls /\ polls' = polls + 1 /\ UNCHANGED <<driver, level, todo>>)
      BY <1>6, <3>1, <3>4, PollsAssumption DEF AwaitNode, Unreadable, Abort
    <3>5. QED
      BY <1>6, <3>3, <3>4 DEF AwaitNode, Judge
  <2>2. QED
    BY <1>6, <2>1 DEF AwaitNode, graph, plan, tasks
<1>7. ASSUME NEW n \in Nodes, NEW i \in Step, StartStep(n, i) \/ EndStep(n, i) PROVE TypeOK'
  <2>1. row' \in [Nodes -> [Step -> {NoRow, "RUNNING", "COMPLETED", "FAILED"}]]
    <3>1. PICK s \in {"RUNNING", "COMPLETED", "FAILED"} : row' = [row EXCEPT ![n][i] = s]
      BY <1>7 DEF StartStep, EndStep
    <3>2. [row[n] EXCEPT ![i] = s] \in [Step -> {NoRow, "RUNNING", "COMPLETED", "FAILED"}]
      OBVIOUS
    <3>3. QED
      BY <3>1, <3>2
  <2>2. QED
    BY <1>7, <2>1 DEF StartStep, EndStep, graph, plan
<1>8. ASSUME NEW n \in Nodes, Return(n) \/ TakeOver(n) \/ SecondReturns(n) PROVE TypeOK'
  BY <1>8 DEF Return, TakeOver, SecondReturns, graph, plan
<1>9. CASE Crash
  BY <1>9 DEF Crash, graph, plan
<1>10. CASE UNCHANGED vars
  BY <1>10 DEF vars, graph, plan, tasks
<1>11. QED
  BY <1>1, <1>2, <1>3, <1>4, <1>5, <1>6, <1>7, <1>8, <1>9, <1>10 DEF Next, Driver, Task

-----------------------------------------------------------------------------
(* The plan *)

LEMMA PlanKept ==
  ASSUME PlanInv, UNCHANGED <<graph, plan>>,
         driver' = driver \/ {driver, driver'} \cap {"validate", "plan", "refused"} = {}
  PROVE  PlanInv'
<1> USE DEF PlanInv, graph, plan
<1>1. /\ Layered' = Layered /\ Sorted' = Sorted /\ Cyclic' = Cyclic
      /\ \A S \in SUBSET nodes : Closed(S)' = Closed(S)
  BY DEF Layered, Before, Sorted, Cyclic, Closed
<1>2. Unplanned' /\ Sound' /\ RefusedIsBad'
  BY <1>1 DEF Unplanned, Sound, RefusedIsBad
<1>3. Counted'
  BY <1>1 DEF Counted
<1>4. CyclesLeft'
  BY <1>1 DEF CyclesLeft
<1>5. AllSorted'
  BY <1>1 DEF AllSorted
<1>6. QED
  BY <1>1, <1>2, <1>3, <1>4, <1>5

LEMMA ValidateStep ==
  ASSUME TypeOK, PlanInv, Validate
  PROVE  PlanInv'
<1> USE DEF Validate, graph, tasks
<1>1. /\ levels = <<>> /\ levels' = <<>> /\ nodes' = nodes /\ needs' = needs
      /\ \A n \in nodes : inDegree'[n] = Cardinality(needs[n])
      /\ queue' = {n \in nodes : inDegree[n] = 0}
      /\ inDegree' = inDegree
  BY DEF PlanInv, Unplanned
<1>2. Sorted' = {}
  BY <1>1 DEF Sorted
<1>3. Unplanned' /\ Sound' /\ RefusedIsBad' /\ AllSorted'
  BY <1>1 DEF Unplanned, Sound, RefusedIsBad, AllSorted
<1>4. Layered'
  BY <1>1 DEF Layered
<1>5. Counted'
  <2>1. \A n \in nodes : needs[n] \ Sorted' = needs[n]
    BY <1>2
  <2>2. QED
    BY <1>1, <1>2, <2>1 DEF Counted
<1>6. CyclesLeft'
  <2>1. ASSUME NEW S \in SUBSET nodes, Closed(S) PROVE S \cap queue' = {}
    <3>1. ASSUME NEW n \in S, n \in queue' PROVE FALSE
      <4>1. Cardinality(needs[n]) = 0 /\ n \in nodes
        BY <1>1, <3>1
      <4>2. needs[n] \in SUBSET Nodes
        BY <4>1 DEF TypeOK
      <4>3. needs[n] = {}
        BY <4>1, <4>2, NodesAssumption, FS_Subset, FS_EmptySet
      <4>4. QED
        BY <2>1, <4>3 DEF Closed
    <3>2. QED
      BY <3>1
  <2>2. QED
    BY <1>1, <1>2, <2>1 DEF CyclesLeft, Closed
<1>7. QED
  BY <1>3, <1>4, <1>5, <1>6 DEF PlanInv

LEMMA PlanLevelStep ==
  ASSUME TypeOK, PlanInv, PlanLevel
  PROVE  PlanInv'
<1>1. /\ levels' = Append(levels, queue) /\ levels \in Seq(SUBSET nodes)
      /\ nodes' = nodes /\ needs' = needs /\ driver = "plan" /\ driver' = "plan"
      /\ queue' = {n \in nodes : inDegree'[n] = 0 /\ needs[n] \cap queue # {}}
      /\ queue \subseteq nodes /\ queue \cap Sorted = {}
  BY DEF PlanLevel, graph, TypeOK, PlanInv, Counted
<1>l. PICK L \in Nat : L = Len(levels)
  BY <1>1
<1>2. /\ Len(levels') = L + 1
      /\ \A k \in 1..L : levels'[k] = levels[k]
      /\ levels'[L + 1] = queue
  BY <1>1, <1>l
<1>3. Sorted' = Sorted \cup queue
  <2>1. 1..Len(levels') = 1..L \cup {L + 1}
    BY <1>2
  <2>2. QED
    BY <1>l, <1>2, <2>1 DEF Sorted
<1>4. \A n \in nodes : inDegree'[n] = 0 <=> needs[n] \subseteq Sorted'
  <2>1. \A n \in nodes : inDegree'[n] = Cardinality(needs[n] \ Sorted')
    BY <1>1, <1>3, Decrement DEF PlanLevel
  <2>2. QED
    BY <2>1, NoneLeft
<1>5. \A n \in queue : needs[n] \subseteq Sorted
  BY <1>1, NoneLeft DEF PlanInv, Counted
<1>6. \A n \in Sorted' : needs[n] \subseteq Sorted
  <2>1. \A k \in 1..L : Before(k) \subseteq Sorted
    BY <1>l, <1>2 DEF Before, Sorted
  <2>2. \A n \in Sorted : needs[n] \subseteq Sorted
    BY <1>l, <2>1 DEF PlanInv, Layered, Sorted
  <2>3. QED
    BY <1>3, <1>5, <2>2
<1>7. Layered'
  <2>1. \A k \in 1..L : levels[k] \subseteq Sorted
    BY <1>l DEF Sorted
  <2>2. \A k \in 1..L : Before(k)' = Before(k)
    <3>1. SUFFICES ASSUME NEW k \in 1..L PROVE Before(k)' = Before(k)
      OBVIOUS
    <3>2. \A l \in 1..(k - 1) : levels'[l] = levels[l]
      BY <1>2
    <3>3. QED
      BY <3>2 DEF Before
  <2>3. Before(L + 1)' = Sorted
    <3>1. 1..((L + 1) - 1) = 1..L
      BY <1>2
    <3>2. QED
      BY <1>2, <3>1, <1>l DEF Before, Sorted
  <2>4. ASSUME NEW k \in 1..(L + 1), NEW l \in 1..(L + 1), k # l
        PROVE levels'[k] \cap levels'[l] = {}
    <3>1. CASE k \in 1..L /\ l \in 1..L
      BY <1>2, <2>4, <3>1, <1>l DEF PlanInv, Layered
    <3>2. CASE k = L + 1
      <4>1. l \in 1..L
        BY <1>2, <2>4, <3>2
      <4>2. QED
        BY <1>1, <1>2, <2>1, <3>2, <4>1
    <3>3. CASE l = L + 1
      <4>1. k \in 1..L
        BY <1>2, <2>4, <3>3
      <4>2. QED
        BY <1>1, <1>2, <2>1, <3>3, <4>1
    <3>4. QED
      BY <1>2, <3>1, <3>2, <3>3
  <2>5. ASSUME NEW k \in 1..(L + 1), NEW n \in levels'[k]
        PROVE needs[n] \subseteq Before(k)' /\ (k > 1 => needs[n] \cap levels'[k - 1] # {})
    <3>1. CASE k \in 1..L
      <4>1. levels'[k] = levels[k] /\ (k > 1 => levels'[k - 1] = levels[k - 1])
        BY <1>2, <3>1
      <4>2. QED
        BY <2>2, <2>5, <3>1, <4>1, <1>l DEF PlanInv, Layered
    <3>2. CASE k = L + 1
      <4>1. n \in queue
        BY <1>2, <2>5, <3>2
      <4>2. k > 1 => needs[n] \cap levels[L] # {} /\ levels'[k - 1] = levels[L]
        BY <1>1, <1>2, <3>2, <4>1, <1>l DEF PlanInv, Counted
      <4>3. QED
        BY <1>5, <2>3, <3>2, <4>1, <4>2
    <3>3. QED
      BY <1>2, <3>1, <3>2
  <2>6. QED
    BY <1>1, <1>2, <2>4, <2>5 DEF Layered
<1>8. Counted'
  <2>1. queue' \cap Sorted' = {}
    BY <1>1, <1>3, <1>6
  <2>2. \A n \in nodes : inDegree'[n] = Cardinality(needs[n] \ Sorted')
    BY <1>1, <1>3, Decrement DEF PlanLevel
  <2>3. ASSUME NEW n \in nodes \ Sorted', inDegree'[n] = 0 PROVE n \in queue'
    <3>1. ~(needs[n] \subseteq Sorted)
      BY <1>1, <1>3, <2>3, NoneLeft DEF PlanInv, Counted
    <3>2. QED
      BY <1>1, <1>3, <1>4, <2>3, <3>1
  <2>4. QED
    BY <1>1, <1>2, <2>1, <2>2, <2>3 DEF Counted
<1>9. CyclesLeft'
  <2>1. ASSUME NEW S \in SUBSET nodes, Closed(S) PROVE S \cap (Sorted' \cup queue') = {}
    <3>1. S \cap Sorted' = {}
      BY <1>1, <1>3, <2>1 DEF PlanInv, CyclesLeft
    <3>2. \A n \in queue' : needs[n] \subseteq Sorted'
      BY <1>1, <1>4
    <3>3. QED
      BY <2>1, <3>1, <3>2 DEF Closed
  <2>2. QED
    BY <1>1, <2>1 DEF CyclesLeft, Closed
<1>10. Unplanned' /\ Sound' /\ AllSorted' /\ RefusedIsBad'
  BY <1>1 DEF Unplanned, Sound, AllSorted, RefusedIsBad, PlanInv
<1>11. QED
  BY <1>7, <1>8, <1>9, <1>10 DEF PlanInv

LEMMA EndPlanStep ==
  ASSUME TypeOK, PlanInv, EndPlan
  PROVE  PlanInv'
<1>1. /\ nodes' = nodes /\ needs' = needs /\ UNCHANGED <<inDegree, queue, levels>>
      /\ driver = "plan" /\ queue = {}
      /\ driver' = IF Sorted # nodes THEN "refused" ELSE "dispatch"
  BY DEF EndPlan, graph, plan
<1>2. Layered' /\ Sorted' = Sorted
  BY <1>1 DEF PlanInv, Layered, Before, Sorted
<1>3. Sorted \subseteq nodes
  BY DEF Sorted, TypeOK
<1>4. Sorted # nodes => Cyclic
  <2>1. SUFFICES ASSUME Sorted # nodes PROVE Cyclic
    OBVIOUS
  <2>2. nodes \ Sorted \in (SUBSET nodes) \ {{}}
    BY <1>3, <2>1
  <2>3. \A n \in nodes \ Sorted : needs[n] \cap (nodes \ Sorted) # {}
    BY <1>1, NoneLeft DEF PlanInv, Counted, Sound
  <2>4. QED
    BY <2>2, <2>3 DEF Cyclic
<1>5. RefusedIsBad'
  BY <1>1, <1>4 DEF RefusedIsBad, Cyclic
<1>6. CyclesLeft'
  BY <1>1, <1>2 DEF PlanInv, CyclesLeft, Closed
<1>7. Unplanned' /\ Sound' /\ Counted' /\ AllSorted'
  BY <1>1, <1>2 DEF PlanInv, Unplanned, Sound, Counted, AllSorted
<1>8. QED
  BY <1>2, <1>5, <1>6, <1>7 DEF PlanInv

LEMMA PlanStep ==
  ASSUME TypeOK, PlanInv, [Next]_vars
  PROVE  PlanInv'
<1>1. CASE Validate
  BY <1>1, ValidateStep
<1>2. CASE PlanLevel
  BY <1>2, PlanLevelStep
<1>3. CASE EndPlan
  BY <1>3, EndPlanStep
<1>4. ASSUME NEW n \in Nodes, Dispatch(n) \/ AwaitNode(n) PROVE PlanInv'
  BY <1>4, PlanKept DEF Dispatch, AwaitNode, Judge, Succeeded, Abort, Unreadable
<1>5. CASE DispatchFails
  BY <1>5, PlanKept DEF DispatchFails
<1>6. ASSUME NEW n \in Nodes, Task(n) \/ TakeOver(n) \/ SecondReturns(n) PROVE PlanInv'
  BY <1>6, PlanKept DEF Task, StartStep, EndStep, Return, TakeOver, SecondReturns
<1>7. CASE Crash
  BY <1>7, PlanKept DEF Crash
<1>8. CASE UNCHANGED vars
  BY <1>8, PlanKept DEF vars
<1>9. QED
  BY <1>1, <1>2, <1>3, <1>4, <1>5, <1>6, <1>7, <1>8 DEF Next, Driver

LEMMA PlanInvImplies == PlanInv => PlanIsLayering
<1> SUFFICES ASSUME PlanInv PROVE PlanIsLayering
  OBVIOUS
<1> DEFINE Unfit == nodes = {} \/ (\E n \in nodes : ~(needs[n] \subseteq nodes)) \/ Cyclic
<1>1. Planned => IsLayering(levels)
  BY DEF PlanInv, Planned, IsLayering, Layered, Before, AllSorted, Sorted
<1>2. driver = "refused" => Unfit
  BY DEF PlanInv, RefusedIsBad
<1>3. driver \notin {"validate", "plan", "refused"} => ~Unfit
  BY DEF PlanInv, Sound, CyclesLeft, Closed, AllSorted, Cyclic
<1>4. QED
  BY <1>1, <1>2, <1>3 DEF PlanIsLayering

-----------------------------------------------------------------------------
(* The dispatch *)

\* A completed row is never written again, and a second worker is remembered.
LEMMA TrustKept ==
  ASSUME TypeOK, [Next]_vars, NEW d \in Nodes, Trusted(d)
  PROVE  Trusted(d)'
<1>1. \A i \in Step : row[d][i] = "COMPLETED" => row'[d][i] = "COMPLETED"
  <2>1. ASSUME NEW n \in Nodes, NEW i \in Step, StartStep(n, i) \/ EndStep(n, i)
        PROVE \A j \in Step : row[d][j] = "COMPLETED" => row'[d][j] = "COMPLETED"
    <3>1. PICK s : row' = [row EXCEPT ![n][i] = s]
      BY <2>1 DEF StartStep, EndStep
    <3>2. row[n][i] # "COMPLETED"
      BY <2>1 DEF StartStep, EndStep, NoRow
    <3>3. QED
      BY <3>1, <3>2 DEF TypeOK
  <2>2. CASE UNCHANGED row
    BY <2>2
  <2>3. QED
    BY <2>1, <2>2 DEF Next, vars, tasks, Driver, Validate, PlanLevel, EndPlan, Dispatch,
      DispatchFails, AwaitNode, Task, Return, TakeOver, SecondReturns, Crash
<1>2. second[d] # "none" => second'[d] # "none"
  BY DEF Next, vars, tasks, Driver, Validate, PlanLevel, EndPlan, Dispatch, DispatchFails,
    AwaitNode, Task, StartStep, EndStep, Return, TakeOver, SecondReturns, Crash, TypeOK
<1>3. QED
  BY <1>1, <1>2 DEF Trusted, Complete

Shown(n) == Complete(n) \/ RowsOf(n) \cap {"RUNNING", "FAILED"} # {}

LEMMA ShownKept ==
  ASSUME NEW n \in Nodes, row'[n] = row[n]
  PROVE  Shown(n)' = Shown(n)
<1>1. Complete(n)' = Complete(n)
  BY DEF Complete, Step
<1>2. RowsOf(n)' = RowsOf(n)
  BY DEF RowsOf, Step, NoRow
<1>3. QED
  BY <1>1, <1>2 DEF Shown

LEMMA ReturnedStep ==
  ASSUME TypeOK, ReturnedRows, [Next]_vars
  PROVE  ReturnedRows'
<1>1. SUFFICES ASSUME NEW m \in Nodes, worker'[m] = "ok", second'[m] = "none"
               PROVE  Shown(m)'
  BY DEF ReturnedRows, Shown
<1>2. worker[m] = "ok" /\ second[m] = "none" => Shown(m)
  BY DEF ReturnedRows, Shown
<1> USE DEF TypeOK
<1>3. ASSUME NEW n \in Nodes, Dispatch(n) PROVE Shown(m)'
  BY <1>1, <1>2, <1>3, ShownKept DEF Dispatch
<1>4. ASSUME NEW n \in Nodes, NEW i \in Step, StartStep(n, i) \/ EndStep(n, i)
      PROVE Shown(m)'
  <2>1. PICK s : row' = [row EXCEPT ![n][i] = s]
    BY <1>4 DEF StartStep, EndStep
  <2>2. Alive(n) /\ UNCHANGED <<worker, second>>
    BY <1>4 DEF StartStep, EndStep
  <2>3. m # n
    BY <1>1, <2>2 DEF Alive
  <2>4. row'[m] = row[m]
    BY <2>1, <2>3
  <2>5. QED
    BY <1>1, <1>2, <2>2, <2>4, ShownKept
<1>5. ASSUME NEW n \in Nodes, Return(n) PROVE Shown(m)'
  <2>1. CASE m = n
    BY <1>1, <1>5, <2>1, ShownKept DEF Return, Shown
  <2>2. CASE m # n
    BY <1>1, <1>2, <1>5, <2>2, ShownKept DEF Return
  <2>3. QED
    BY <2>1, <2>2
<1>6. ASSUME NEW n \in Nodes, TakeOver(n) \/ SecondReturns(n) PROVE Shown(m)'
  BY <1>1, <1>2, <1>6, ShownKept DEF TakeOver, SecondReturns
<1>7. CASE Crash
  BY <1>1, <1>2, <1>7, ShownKept DEF Crash
<1>8. CASE UNCHANGED tasks
  BY <1>1, <1>2, <1>8, ShownKept DEF tasks
<1>9. QED
  BY <1>3, <1>4, <1>5, <1>6, <1>7, <1>8 DEF Next, vars, Driver, Validate, PlanLevel, EndPlan,
    DispatchFails, AwaitNode, Task

\* What the driver takes for a success.
LEMMA SuccessIsTrusted ==
  ASSUME ReturnedRows, NEW n \in Nodes, worker[n] = "ok", RowsOf(n) = {"COMPLETED"}
  PROVE  Trusted(n)
BY DEF ReturnedRows, Trusted

LEMMA LevelsStep ==
  ASSUME TypeOK, PlanInv, ReturnedRows, LevelsDone, [Next]_vars
  PROVE  LevelsDone'
<1>1. \A n \in Nodes : Trusted(n) => Trusted(n)'
  BY TrustKept
<1>2. /\ levels \in Seq(SUBSET nodes) /\ nodes \subseteq Nodes
      /\ \A k \in 1..Len(levels) : levels[k] \subseteq nodes /\ Before(k) \subseteq nodes
  BY DEF TypeOK, Before
<1>3. CASE Validate \/ PlanLevel \/ DispatchFails \/ Crash
  BY <1>3 DEF Validate, PlanLevel, DispatchFails, Crash, LevelsDone
<1>4. CASE EndPlan
  <2>1. SUFFICES ASSUME driver' = "dispatch" PROVE LevelsDone'
    BY <1>4 DEF EndPlan, LevelsDone
  <2>2. level' = 1 /\ todo' = levels[1] /\ levels' = levels /\ Sorted = nodes /\ nodes # {}
    BY <1>4, <2>1 DEF EndPlan, plan, PlanInv, Sound
  <2>3. Len(levels) # 0
    BY <2>2 DEF Sorted
  <2>4. Before(1) = {}
    BY DEF Before
  <2>5. QED
    BY <1>2, <2>1, <2>2, <2>3, <2>4 DEF LevelsDone, Before
<1>5. ASSUME NEW n \in Nodes, Dispatch(n) PROVE LevelsDone'
  BY <1>1, <1>2, <1>5 DEF Dispatch, plan, LevelsDone, Before
<1>6. ASSUME NEW n \in Nodes, AwaitNode(n) PROVE LevelsDone'
  <2>0. /\ driver = "await" /\ n \in todo /\ levels' = levels
    BY <1>6 DEF AwaitNode, plan
  <2>1. CASE UNCHANGED <<driver, level, todo>>
    BY <1>1, <1>2, <2>0, <2>1 DEF LevelsDone, Before
  <2>2. CASE Abort
    BY <2>2 DEF Abort, LevelsDone
  <2>3. CASE worker[n] = "ok" /\ RowsOf(n) = {"COMPLETED"} /\ Succeeded(n)
    <3>1. Trusted(n)
      BY <2>3, SuccessIsTrusted
    <3>2. CASE todo # {n}
      BY <1>1, <1>2, <2>0, <2>3, <3>1, <3>2 DEF Succeeded, LevelsDone, Before
    <3>3. CASE todo = {n} /\ level # Len(levels)
      <4>1. \A m \in levels[level] : Trusted(m)
        BY <2>0, <3>1, <3>3 DEF LevelsDone
      <4>2. level \in 1..Len(levels) /\ level + 1 \in 1..Len(levels)
        BY <1>2, <2>0, <3>3 DEF LevelsDone
      <4>3. 1..((level + 1) - 1) = 1..(level - 1) \cup {level}
        BY <4>2
      <4>4. Before(level + 1) = Before(level) \cup levels[level]
        BY <4>3 DEF Before
      <4>5. \A m \in Before(level + 1) : Trusted(m)
        BY <2>0, <4>1, <4>4 DEF LevelsDone
      <4>6. driver' = "dispatch" /\ level' = level + 1 /\ todo' = levels[level + 1]
        BY <2>3, <3>3 DEF Succeeded
      <4>7. Before(level)' = Before(level + 1)
        BY <2>0, <4>6 DEF Before
      <4>8. \A m \in Before(level)' : Trusted(m)'
        BY <1>1, <1>2, <4>2, <4>5, <4>7
      <4>9. QED
        BY <2>0, <4>2, <4>6, <4>8 DEF LevelsDone
    <3>4. CASE todo = {n} /\ level = Len(levels)
      BY <2>3, <3>4 DEF Succeeded, LevelsDone
    <3>5. QED
      BY <3>2, <3>3, <3>4
  <2>4. QED
    BY <1>6, <2>1, <2>2, <2>3 DEF AwaitNode, Judge, Unreadable
<1>7. CASE UNCHANGED <<levels, driver, level, todo>>
  BY <1>1, <1>2, <1>7 DEF LevelsDone, Before
<1>8. QED
  BY <1>3, <1>4, <1>5, <1>6, <1>7
    DEF Next, vars, plan, Driver, Task, StartStep, EndStep, Return, TakeOver, SecondReturns

LEMMA NeededStep ==
  ASSUME TypeOK, PlanInv, LevelsDone, Needed, [Next]_vars
  PROVE  Needed'
<1>1. \A n \in Nodes : Trusted(n) => Trusted(n)'
  BY TrustKept
<1>2. nodes \subseteq Nodes /\ \A n \in nodes : needs[n] \subseteq Nodes
  BY DEF TypeOK
<1>3. nodes' = nodes /\ needs' = needs
  BY DEF Next, vars, Driver, Validate, PlanLevel, EndPlan, Dispatch, DispatchFails, AwaitNode,
    Task, StartStep, EndStep, Return, TakeOver, SecondReturns, Crash, graph
<1>4. ASSUME NEW n \in Nodes, Dispatch(n) PROVE Needed'
  <2>1. \A d \in needs[n] : Trusted(d)
    <3>1. n \in levels[level] /\ level \in 1..Len(levels)
      BY <1>4 DEF Dispatch, LevelsDone
    <3>2. needs[n] \subseteq Before(level)
      BY <3>1 DEF PlanInv, Layered
    <3>3. QED
      BY <1>4, <3>2 DEF Dispatch, LevelsDone
  <2>2. \A m \in nodes : m # n => worker'[m] = worker[m]
    BY <1>2, <1>4 DEF Dispatch, TypeOK
  <2>3. QED
    BY <1>1, <1>2, <1>3, <2>1, <2>2 DEF Needed
<1>5. CASE \A m \in Nodes : worker'[m] # "none" => worker[m] # "none"
  BY <1>1, <1>2, <1>3, <1>5 DEF Needed
<1>6. ASSUME NEW n \in Nodes, Return(n)
      PROVE \A m \in Nodes : worker'[m] # "none" => worker[m] # "none"
  BY <1>6 DEF Return, TypeOK
<1>7. ASSUME Crash PROVE \A m \in Nodes : worker'[m] # "none" => worker[m] # "none"
  BY <1>7 DEF Crash, TypeOK
<1>8. QED
  BY <1>4, <1>5, <1>6, <1>7 DEF Next, vars, Driver, Validate, PlanLevel, EndPlan, DispatchFails,
    AwaitNode, Task, StartStep, EndStep, TakeOver, SecondReturns, tasks

LEMMA AllDoneStep ==
  ASSUME TypeOK, PlanInv, ReturnedRows, LevelsDone, AllDone, [Next]_vars
  PROVE  AllDone'
<1>1. \A n \in Nodes : Trusted(n) => Trusted(n)'
  BY TrustKept
<1>2. nodes \subseteq Nodes
  BY DEF TypeOK
<1>3. nodes' = nodes
  BY DEF Next, vars, Driver, Validate, PlanLevel, EndPlan, Dispatch, DispatchFails, AwaitNode,
    Task, StartStep, EndStep, Return, TakeOver, SecondReturns, Crash, graph
<1>4. CASE driver' # "done" \/ driver = "done"
  BY <1>1, <1>2, <1>3, <1>4 DEF AllDone
<1>5. ASSUME NEW n \in Nodes, AwaitNode(n), driver' = "done" PROVE \A m \in nodes : Trusted(m)
  <2>1. /\ driver = "await" /\ n \in todo /\ todo = {n} /\ level = Len(levels)
        /\ worker[n] = "ok" /\ RowsOf(n) = {"COMPLETED"}
    BY <1>5 DEF AwaitNode, Judge, Succeeded, Abort, Unreadable
  <2>2. Trusted(n)
    BY <2>1, SuccessIsTrusted
  <2>3. \A m \in levels[level] \cup Before(level) : Trusted(m)
    BY <2>1, <2>2 DEF LevelsDone
  <2>4. 1..Len(levels) = 1..(level - 1) \cup {level}
    BY <2>1 DEF LevelsDone
  <2>5. Sorted = levels[level] \cup Before(level)
    BY <2>4 DEF Sorted, Before
  <2>6. QED
    BY <2>1, <2>3, <2>5 DEF PlanInv, AllSorted
<1>6. QED
  BY <1>1, <1>2, <1>3, <1>4, <1>5 DEF Next, vars, Driver, Validate, PlanLevel, EndPlan, Dispatch,
    DispatchFails, Task, StartStep, EndStep, Return, TakeOver, SecondReturns, Crash, AllDone

-----------------------------------------------------------------------------
(* The theorems *)

LEMMA IInvInit == Init => IInv
BY Init_IInv DEF IInv

LEMMA IInvStep == IInv /\ [Next]_vars => IInv'
<1> SUFFICES ASSUME IInv, [Next]_vars PROVE IInv'
  OBVIOUS
<1>1. TypeOK'
  BY TypeStep DEF IInv, DriverInv
<1>2. PlanInv'
  BY PlanStep DEF IInv
<1>3. DriverInv'
  BY ReturnedStep, LevelsStep, NeededStep, AllDoneStep DEF IInv, DriverInv
<1>4. QED
  BY <1>1, <1>2, <1>3 DEF IInv

LEMMA NeedsImplied == IInv => NeedsCompleted
BY DEF IInv, DriverInv, Needed, AllDone, Trusted, NeedsCompleted

(* The types of every reachable state of the plan and of its dispatch. *)
THEOREM TypeCorrect == Spec => []TypeOK
<1>1. IInv => TypeOK
  BY DEF IInv
<1>2. QED
  BY <1>1, IInvInit, IInvStep, PTL DEF Spec

(* plan() peels off the layering of every graph that has one, each node in *)
(* the first level where all it needs comes earlier, and exactly the       *)
(* graphs without one are refused by validate() and plan().                *)
THEOREM PlanIsLayeringAlways == Spec => []PlanIsLayering
<1>1. IInv => PlanIsLayering
  BY PlanInvImplies DEF IInv
<1>2. QED
  BY <1>1, IInvInit, IInvStep, PTL DEF Spec

(* handle_dispatch_dag starts no node before everything it needs is        *)
(* complete, and reports success only when all nodes are, for any graph,   *)
(* number of steps and of looks at the rows, unless a second worker is at  *)
(* a task.                                                                 *)
THEOREM NeedsCompletedAlways == Spec => []NeedsCompleted
<1>1. QED
  BY NeedsImplied, IInvInit, IInvStep, PTL DEF Spec
=============================================================================
