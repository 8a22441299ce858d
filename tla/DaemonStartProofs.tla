-------------------------- MODULE DaemonStartProofs --------------------------
(***************************************************************************)
(* Proofs about DaemonStart for any number of daemons, clients and kills.  *)
(* LockHolds is nearly inductive: that a start is refused while another    *)
(* daemon holds the lock needs that its PID is in the file as soon as it   *)
(* is past the write, also while it leaves.                                *)
(***************************************************************************)
EXTENDS DaemonStart, FiniteSetTheorems, TLAPS

\* Past WritePid, up to the removal of the PID file.
Written == {"locked", "clearing", "serving", "stopping", "unlinking"}

Alone == \A d, e \in Holders : d = e

OwnPid == \A d \in Daemons : pc[d] \in Written => pidFile = d

OwnSocket == \A d \in Daemons : pc[d] = "serving" => sock = d

Lock == Alone /\ OwnPid /\ OwnSocket

IInv == TypeOK /\ (~raced => Lock)

-----------------------------------------------------------------------------
(* Type correctness *)

LEMMA TypeInit == Init => TypeOK
<1> SUFFICES ASSUME Init PROVE TypeOK
  OBVIOUS
<1>1. client \in [Clients -> [pc : {"idle", "waiting", "asking", "served", "failed"}, to : {None}]
                              \cup [pc : {"connected"}, to : Daemons]]
  BY DEF Init
<1>2. kills \in 0..Kills
  BY KillsAssumption DEF Init
<1>3. QED
  BY <1>1, <1>2 DEF Init, TypeOK, Pids, Starting, Leaving

LEMMA TypeStep == TypeOK /\ [Next]_vars => TypeOK'
<1> SUFFICES ASSUME TypeOK, [Next]_vars PROVE TypeOK'
  OBVIOUS
<1> USE DEF TypeOK, Pids, Starting, Leaving
<1>1. ASSUME NEW d \in Daemons, Startup(d) PROVE TypeOK'
  <2>1. CASE ReadPid(d)
    <3>1. raced' \in BOOLEAN
      BY <2>1 DEF ReadPid
    <3>2. pc' \in [Daemons -> {"unborn", "serving", "dead"} \cup Starting \cup Leaving]
      BY <2>1 DEF ReadPid, Goes
    <3>3. QED
      BY <2>1, <3>1, <3>2 DEF ReadPid, files
  <2>2. CASE TruncatePid(d) \/ WritePid(d) \/ ClearSocket(d) \/ Bind(d)
    BY <2>2 DEF TruncatePid, WritePid, ClearSocket, Bind, Goes, files
  <2>3. QED
    BY <1>1, <2>1, <2>2 DEF Startup
<1>2. ASSUME NEW d \in Daemons, Stop(d) \/ Cleanup(d) \/ Kill(d) \/ StartByHand(d) PROVE TypeOK'
  BY <1>2, KillsAssumption DEF Stop, Cleanup, Kill, StartByHand, Goes, files
<1>3. ASSUME Reuse PROVE TypeOK'
  BY <1>3 DEF Reuse, files
<1>4. ASSUME NEW k \in Clients, EnsureDaemon(k) PROVE TypeOK'
  BY <1>4 DEF EnsureDaemon, Becomes, Goes, files
<1>5. ASSUME NEW k \in Clients,
             Retry(k) \/ Ask(k) \/ AskDirectly(k) \/ Poll(k) \/ Reply(k) \/ TimeOut(k)
      PROVE TypeOK'
  BY <1>5 DEF Retry, Ask, AskDirectly, Poll, Connect, Reply, TimeOut, Becomes, Listening, files
<1>6. ASSUME UNCHANGED vars PROVE TypeOK'
  BY <1>6 DEF vars
<1>7. QED
  BY <1>1, <1>2, <1>3, <1>4, <1>5, <1>6 DEF Next

-----------------------------------------------------------------------------
(* The lock *)

LEMMA LockInit == Init => Lock
BY DEF Init, Lock, Alone, OwnPid, OwnSocket, Holders, Written

\* A daemon that is not refused has found nobody at the lock: who is past the
\* write is alive and named by the file, and of two that are before it the
\* second to check sets raced.
LEMMA CheckStep ==
  ASSUME TypeOK, Lock, NEW d \in Daemons, ReadPid(d), ~raced'
  PROVE  Lock'
<1> USE DEF TypeOK, Holders, Written
<1>1. CASE pc' = [pc EXCEPT ![d] = "dead"]
  BY <1>1 DEF ReadPid, Goes, files, Lock, Alone, OwnPid, OwnSocket
<1>2. CASE pc' # [pc EXCEPT ![d] = "dead"]
  <2>1. /\ pc' = [pc EXCEPT ![d] = "unlocked"]
        /\ ~(pidFile \in Pids /\ Alive(pidFile))
        /\ \A e \in Daemons \ {d} : pc[e] \notin {"unlocked", "writing"}
        /\ pc[d] = "started"
        /\ UNCHANGED files
    BY <1>2 DEF ReadPid, Goes
  <2>2. \A e \in Daemons : pc[e] \notin Written
    BY <2>1 DEF Lock, OwnPid, Alive, Pids
  <2>3. QED
    BY <2>1, <2>2 DEF Lock, Alone, OwnPid, OwnSocket, files
<1>3. QED
  BY <1>1, <1>2

\* Whoever writes or removes the files is the only one at the lock.
LEMMA HolderStep ==
  ASSUME TypeOK, Lock, NEW d \in Daemons,
         TruncatePid(d) \/ WritePid(d) \/ ClearSocket(d) \/ Bind(d) \/ Stop(d) \/ Cleanup(d)
  PROVE  Lock'
<1> USE DEF TypeOK, Holders, Written, Lock
<1>1. CASE TruncatePid(d)
  BY <1>1 DEF TruncatePid, Goes, Alone, OwnPid, OwnSocket
<1>2. CASE WritePid(d)
  BY <1>2 DEF WritePid, Goes, Alone, OwnPid, OwnSocket
<1>3. CASE ClearSocket(d)
  BY <1>3 DEF ClearSocket, Goes, Alone, OwnPid, OwnSocket
<1>4. CASE Bind(d)
  BY <1>4 DEF Bind, Goes, Alone, OwnPid, OwnSocket
<1>5. CASE Stop(d)
  BY <1>5 DEF Stop, Goes, files, Alone, OwnPid, OwnSocket
<1>6. CASE Cleanup(d)
  BY <1>6 DEF Cleanup, Goes, files, Alone, OwnPid, OwnSocket
<1>7. QED
  BY <1>1, <1>2, <1>3, <1>4, <1>5, <1>6

\* All other steps leave the files alone and bring nobody to the lock.
LEMMA OtherStep ==
  ASSUME TypeOK, Lock,
         UNCHANGED files,
         \A d \in Daemons : pc'[d] \in {pc[d], "dead", "started"}
  PROVE  Lock'
BY DEF TypeOK, Holders, Written, Lock, Alone, OwnPid, OwnSocket, files

LEMMA LockStep == IInv /\ [Next]_vars /\ ~raced' => Lock'
<1> SUFFICES ASSUME IInv, [Next]_vars, ~raced' PROVE Lock'
  OBVIOUS
<1>0. TypeOK
  BY DEF IInv
<1>1. ~raced
  BY DEF Next, vars, Startup, ReadPid, TruncatePid, WritePid, ClearSocket, Bind, Stop,
    Cleanup, Kill, StartByHand, Reuse, EnsureDaemon, Retry, Ask, AskDirectly, Poll,
    Connect, Reply, TimeOut
<1>2. Lock
  BY <1>1 DEF IInv
<1>3. ASSUME NEW d \in Daemons, Startup(d) \/ Stop(d) \/ Cleanup(d) PROVE Lock'
  BY <1>0, <1>2, <1>3, CheckStep, HolderStep DEF Startup
<1>4. ASSUME NEW d \in Daemons, Kill(d) \/ StartByHand(d) PROVE Lock'
  BY <1>0, <1>2, <1>4, OtherStep DEF Kill, StartByHand, Goes, files, TypeOK
<1>5. ASSUME Reuse \/ UNCHANGED vars PROVE Lock'
  BY <1>0, <1>2, <1>5, OtherStep DEF Reuse, vars, files
<1>6. ASSUME NEW k \in Clients, EnsureDaemon(k) PROVE Lock'
  BY <1>0, <1>2, <1>6, OtherStep DEF EnsureDaemon, Goes, files, TypeOK
<1>7. ASSUME NEW k \in Clients,
             Retry(k) \/ Ask(k) \/ AskDirectly(k) \/ Poll(k) \/ Reply(k) \/ TimeOut(k)
      PROVE Lock'
  BY <1>0, <1>2, <1>7, OtherStep
    DEF Retry, Ask, AskDirectly, Poll, Connect, Reply, TimeOut, files
<1>8. QED
  BY <1>3, <1>4, <1>5, <1>6, <1>7 DEF Next

LEMMA LockImpliesHolds == Lock => LockHolds
<1> SUFFICES ASSUME Lock PROVE Cardinality(Holders) <= 1
  BY DEF Lock, LockHolds, OwnPid, OwnSocket, Written
<1>1. CASE Holders = {}
  BY <1>1, FS_EmptySet
<1>2. CASE Holders # {}
  <2>1. PICK d \in Holders : TRUE
    BY <1>2
  <2>2. Holders = {d}
    BY <2>1 DEF Lock, Alone
  <2>3. QED
    BY <2>2, FS_Singleton
<1>3. QED
  BY <1>1, <1>2

-----------------------------------------------------------------------------
(* The theorems *)

(* The types of every reachable state of daemons, files and clients. *)
THEOREM TypeCorrect == Spec => []TypeOK
<1>1. QED
  BY TypeInit, TypeStep, PTL DEF Spec

(* The lock of acquire_pid_lock and the clean-up that does not look whose  *)
(* files it removes: as long as no two daemons check the file before       *)
(* either has written it, one daemon at a time is past the check, and the  *)
(* PID file and the socket are those of the one that serves.               *)
THEOREM LockHoldsAlways == Spec => []LockHolds
<1>1. Init => IInv
  BY TypeInit, LockInit DEF IInv
<1>2. IInv /\ [Next]_vars => IInv'
  BY TypeStep, LockStep DEF IInv
<1>3. IInv => LockHolds
  BY LockImpliesHolds DEF IInv, LockHolds
<1>4. QED
  BY <1>1, <1>2, <1>3, PTL DEF Spec
=============================================================================
