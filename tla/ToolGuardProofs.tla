--------------------------- MODULE ToolGuardProofs ---------------------------
(***************************************************************************)
(* Proofs about ToolGuard for any calls, roles, commands and files, and    *)
(* any number of edits and crashes.                                        *)
(***************************************************************************)
EXTENDS ToolGuard, TLAPS

-----------------------------------------------------------------------------
(* Types *)

CallRecord == [pc : {"idle", "sent", "judged", "answered", "gone"},
               cmd : Cmds, role : Roles, cause : Causes,
               background : {"none", "spawned", "done", "lost"}]

LockRecord == [holder : Calls \cup {NoCall}, looked : BOOLEAN, time : 0..Edits + 1]

\* The shapes that TypeOK leaves open.
Shapes ==
  /\ file \in [project : Files.project, global : Files.global]
  /\ engine = [rules |-> engine.rules, time |-> engine.time]
  /\ seen = [c \in Calls |-> seen[c]]
  /\ mtime <= edits + 1

TInv == TypeOK /\ Shapes

LEMMA FileFields ==
  ASSUME NEW x
  PROVE  /\ x \in [project : Files.project, global : Files.global] =>
              /\ \A f \in DOMAIN Files : x[f] \in Files[f]
              /\ DOMAIN x = {"project", "global"}
         /\ (DOMAIN Files) = {"project", "global"}
BY FilesAssumption

\* What a text parses to names roles.
LEMMA TextRoles ==
  ASSUME NEW f \in DOMAIN Files, NEW text \in Files[f]
  PROVE  DOMAIN Text(text) \subseteq Roles
<1>1. DOMAIN NoRules = {}
  BY DEF NoRules
<1> QED
  BY <1>1, FilesAssumption DEF Text

LEMMA MergedRoles ==
  ASSUME NEW p \in Files.project, NEW g \in Files.global
  PROVE  DOMAIN MergedRules(p, g) \subseteq Roles
<1>1. DOMAIN NoRules = {}
  BY DEF NoRules
<1>2. DOMAIN Text(p) \subseteq Roles /\ DOMAIN Text(g) \subseteq Roles
  BY TextRoles, FilesAssumption
<1> QED
  BY <1>1, <1>2 DEF MergedRules

LEMMA DecideIsCause ==
  ASSUME NEW rules, NEW role, NEW cmd
  PROVE  Decide(rules, role, cmd) \in Causes
BY DEF Decide, Causes, Dangerous

LEMMA IdleCall ==
  ASSUME NEW cmd \in Cmds
  PROVE  /\ Idle(cmd) \in CallRecord /\ Idle(cmd).pc = "idle" /\ Idle(cmd).cmd = cmd
         /\ Idle(cmd).background = "none" /\ Idle(cmd).role = "default"
BY DefaultAssumption DEF Idle, CallRecord, Causes

-----------------------------------------------------------------------------
(* What each step does to a call *)

\* Call c becomes k; the others stay.
Becomes(c, k) ==
  /\ k \in CallRecord
  /\ call' = [call EXCEPT ![c] = k]

LEMMA BecomesEffect ==
  ASSUME call \in [Calls -> CallRecord], NEW c \in Calls, NEW k, Becomes(c, k)
  PROVE  /\ call' \in [Calls -> CallRecord] /\ call'[c] = k
         /\ \A x \in Calls : x # c => call'[x] = call[x]
BY DEF Becomes

\* The command and the role of a call are those it came with.
SameCommand(c) == call'[c].cmd = call[c].cmd /\ call'[c].role = call[c].role

OnlyCall(c) ==
  /\ call' \in [Calls -> CallRecord]
  /\ \A x \in Calls : x # c => call'[x] = call[x]

LEMMA SendEffect ==
  ASSUME TInv, NEW c \in Calls, NEW i \in Invocations[c], Send(c, i.cmd, i.role),
         daemon = "up"
  PROVE  /\ OnlyCall(c) /\ call'[c].pc = "sent" /\ call'[c].background = "none"
<1> DEFINE k == [Idle(i.cmd) EXCEPT !.pc = "sent", !.role = i.role]
<1>1. i.cmd \in Cmds /\ i.role \in Roles
  BY CallsAssumption
<1>2. Idle(i.cmd) \in CallRecord /\ Idle(i.cmd).background = "none"
  BY <1>1, IdleCall
<1>3. k \in CallRecord /\ k.pc = "sent" /\ k.background = "none"
  BY <1>1, <1>2 DEF CallRecord
<1>4. call' = [call EXCEPT ![c] = k]
  BY DEF Send
<1> HIDE DEF k
<1> QED
  BY <1>3, <1>4, BecomesEffect DEF Becomes, OnlyCall, TInv, TypeOK, CallRecord

LEMMA JudgedEffect ==
  ASSUME TInv, NEW c \in Calls, NEW rules, Judged(c, rules)
  PROVE  /\ OnlyCall(c) /\ call'[c].pc = "judged" /\ SameCommand(c)
         /\ call'[c].cause = Decide(rules, call[c].role, call[c].cmd)
         /\ call'[c].background = call[c].background
<1> DEFINE d == Decide(rules, call[c].role, call[c].cmd)
           k == [call[c] EXCEPT !.pc = "judged", !.cause = d]
<1>1. d \in Causes /\ call[c] \in CallRecord
  BY DecideIsCause DEF TInv, TypeOK, CallRecord
<1>2. call' = [call EXCEPT ![c] = k]
  BY DEF Judged
<1> HIDE DEF d
<1>3. /\ k \in CallRecord /\ k.pc = "judged" /\ k.cause = d
      /\ k.background = call[c].background /\ k.cmd = call[c].cmd /\ k.role = call[c].role
  BY <1>1 DEF CallRecord
<1> HIDE DEF k
<1> QED
  BY <1>2, <1>3, BecomesEffect
  DEF Becomes, OnlyCall, TInv, TypeOK, CallRecord, SameCommand, d

\* The verdict of Conclude: that of Evaluate, or one the provider or an approval
\* puts in its place.
LEMMA ConcludeEffect ==
  ASSUME TInv, NEW c \in Calls, Conclude(c)
  PROVE  /\ OnlyCall(c) /\ call'[c].pc = "answered" /\ SameCommand(c)
         /\ \/ call'[c].cause \in {call[c].cause, "cognitive"}
            \/ /\ call'[c].cause = "allow" /\ call[c].cause = "require_approval"
               /\ verdict = "APPROVED"
<1>1. PICK advised \in Advised(call[c].cause) : \E cause \in Lifted(advised) :
        call' = [call EXCEPT ![c].pc = "answered", ![c].cause = cause,
         ![c].background = IF cause \in Dangerous THEN "spawned" ELSE "none"]
  BY DEF Conclude
<1>2. PICK cause \in Lifted(advised) :
        call' = [call EXCEPT ![c].pc = "answered", ![c].cause = cause,
         ![c].background = IF cause \in Dangerous THEN "spawned" ELSE "none"]
  BY <1>1
<1>3. advised \in {call[c].cause, "cognitive"}
  BY DEF Advised
<1>4. \/ cause = advised
      \/ cause = "allow" /\ advised = "require_approval" /\ verdict = "APPROVED"
  BY DEF Lifted
<1>5. call[c] \in CallRecord
  BY DEF TInv, TypeOK, CallRecord
<1>6. call[c].cause \in Causes
  BY <1>5 DEF CallRecord
<1>7. cause \in Causes
  BY <1>3, <1>4, <1>6 DEF Causes
<1> DEFINE b == IF cause \in Dangerous THEN "spawned" ELSE "none"
           k == [call[c] EXCEPT !.pc = "answered", !.cause = cause, !.background = b]
<1>8. b \in {"none", "spawned"}
  OBVIOUS
<1>9. call' = [call EXCEPT ![c] = k]
  BY <1>2
<1> HIDE DEF b
<1>10. /\ k \in CallRecord /\ k.pc = "answered" /\ k.cause = cause
       /\ k.cmd = call[c].cmd /\ k.role = call[c].role
  BY <1>5, <1>7, <1>8 DEF CallRecord
<1> HIDE DEF k
<1>11. OnlyCall(c) /\ call'[c] = k
  BY <1>9, <1>10, BecomesEffect DEF Becomes, OnlyCall, TInv, TypeOK, CallRecord
<1> QED
  BY <1>3, <1>4, <1>10, <1>11 DEF SameCommand

LEMMA SendCardEffect ==
  ASSUME TInv, NEW c \in Calls, SendCard(c)
  PROVE  /\ OnlyCall(c) /\ call'[c].background = "done" /\ SameCommand(c)
         /\ call'[c].pc = call[c].pc /\ call'[c].cause = call[c].cause
<1> DEFINE k == [call[c] EXCEPT !.background = "done"]
<1>1. call[c] \in CallRecord
  BY DEF TInv, TypeOK, CallRecord
<1>2. /\ k \in CallRecord /\ k.background = "done" /\ k.pc = call[c].pc
      /\ k.cause = call[c].cause /\ k.cmd = call[c].cmd /\ k.role = call[c].role
  BY <1>1 DEF CallRecord
<1>3. call' = [call EXCEPT ![c] = k]
  BY DEF SendCard
<1> HIDE DEF k
<1> QED
  BY <1>2, <1>3, BecomesEffect DEF Becomes, OnlyCall, TInv, TypeOK, CallRecord, SameCommand

LEMMA CrashEffect ==
  ASSUME TInv, Crash
  PROVE  /\ call' \in [Calls -> CallRecord]
         /\ \A c \in Calls :
              /\ SameCommand(c) /\ call'[c].cause = call[c].cause
              /\ call'[c].pc = IF call[c].pc \in {"idle", "answered"} THEN call[c].pc
                               ELSE "gone"
              /\ call'[c].background = IF call[c].background = "spawned" THEN "lost"
                                       ELSE call[c].background
<1> DEFINE p(c) == IF call[c].pc \in {"idle", "answered"} THEN call[c].pc ELSE "gone"
           b(c) == IF call[c].background = "spawned" THEN "lost" ELSE call[c].background
           k(c) == [call[c] EXCEPT !.pc = p(c), !.background = b(c)]
<1>1. ASSUME NEW c \in Calls
      PROVE  /\ k(c) \in CallRecord /\ k(c).pc = p(c) /\ k(c).background = b(c)
             /\ k(c).cmd = call[c].cmd /\ k(c).role = call[c].role
             /\ k(c).cause = call[c].cause
  <2>1. call[c] \in CallRecord
    BY DEF TInv, TypeOK, CallRecord
  <2>2. p(c) \in {"idle", "answered", "gone"}
    OBVIOUS
  <2>3. b(c) \in {"none", "spawned", "done", "lost"}
    BY <2>1 DEF CallRecord
  <2> HIDE DEF p, b
  <2> QED
    BY <2>1, <2>2, <2>3 DEF CallRecord
<1>2. call' = [c \in Calls |-> k(c)]
  BY DEF Crash
<1>3. \A c \in Calls : call'[c] = k(c)
  BY <1>2
<1> HIDE DEF k
<1> QED
  BY <1>1, <1>2, <1>3 DEF SameCommand

-----------------------------------------------------------------------------
(* Type correctness *)

DiskOK ==
  /\ file \in [project : Files.project, global : Files.global]
  /\ mtime \in 1..Edits + 1 /\ edits \in 0..Edits /\ mtime <= edits + 1
  /\ seen = [c \in Calls |-> seen[c]]
  /\ blurred \in BOOLEAN

EngineOK ==
  /\ crashes \in 0..Crashes
  /\ daemon \in {"down", "booting", "up"}
  /\ primary \in {"project", "global"}
  /\ engine = [rules |-> engine.rules, time |-> engine.time]
  /\ engine.time \in 0..Edits + 1 /\ DOMAIN engine.rules \subseteq Roles
  /\ lock \in LockRecord

CallsOK ==
  /\ call \in [Calls -> CallRecord]
  /\ shell \in [Calls -> Shells]
  /\ verdict \in Verdicts \cup {"none"}
  /\ card \in [Calls -> {"none", "pending"} \cup Verdicts]

LEMMA TInvParts == TInv <=> DiskOK /\ EngineOK /\ CallsOK
BY FileFields DEF TInv, TypeOK, Shapes, DiskOK, EngineOK, CallsOK, CallRecord, LockRecord

LEMMA TInvPartsNext == DiskOK' /\ EngineOK' /\ CallsOK' => TInv'
BY FileFields DEF TInv, TypeOK, Shapes, DiskOK, EngineOK, CallsOK, CallRecord, LockRecord

LEMMA TakenLock ==
  ASSUME NEW c \in Calls \cup {NoCall}
  PROVE  /\ LockOf(c) \in LockRecord /\ LockOf(c).holder = c
         /\ LockOf(c).looked = FALSE
BY BoundsAssumption DEF LockOf, LockRecord, NoTime

LEMMA UnlockedLock == Unlocked \in LockRecord /\ Unlocked.holder = NoCall
BY TakenLock DEF Unlocked

LEMMA TimeInRange ==
  ASSUME TInv, NEW text
  PROVE  TimeOf(text, mtime) \in 0..Edits + 1
BY BoundsAssumption DEF TInv, TypeOK, TimeOf, NoTime

\* One text in the place of another.
Replaced(f, tied, text) ==
  /\ file' = [file EXCEPT ![f] = text]
  /\ mtime' = IF f = primary /\ ~tied THEN mtime + 1 ELSE mtime
  /\ IF f = primary
     THEN /\ boot' = <<>>
          /\ seen' = [c \in Calls |-> IF call[c].pc = "sent"
                                      THEN seen[c] \cup {Text(text)} ELSE seen[c]]
          /\ blurred' = (blurred \/ daemon = "booting" \/ (tied /\ daemon = "up")
                           \/ (lock.looked /\ lock.time = NoTime))
     ELSE UNCHANGED <<boot, seen, blurred>>

LEMMA EditReplaces ==
  ASSUME Edit
  PROVE  \E f \in {"project", "global"}, tied \in BOOLEAN :
           \E text \in Files[f] \ {file[f]} : Replaced(f, tied, text)
BY DEF Edit, Replaced

LEMMA ReplacedFile ==
  ASSUME TInv, NEW f \in {"project", "global"}, NEW tied \in BOOLEAN,
         NEW text \in Files[f], Replaced(f, tied, text)
  PROVE  /\ file'[f] = text /\ \A g \in {"project", "global"} \ {f} : file'[g] = file[g]
         /\ file' \in [project : Files.project, global : Files.global]
<1>1. file \in [project : Files.project, global : Files.global]
  BY DEF TInv, Shapes
<1>2. DOMAIN file = {"project", "global"}
  BY <1>1
<1>3. DOMAIN file' = {"project", "global"}
  BY <1>2 DEF Replaced
<1>4. file'[f] = text /\ \A g \in {"project", "global"} \ {f} : file'[g] = file[g]
  BY <1>2 DEF Replaced
<1>5. file'.project \in Files.project /\ file'.global \in Files.global
  BY <1>1, <1>4
<1>6. file' = [project |-> file'.project, global |-> file'.global]
  BY <1>1 DEF Replaced
<1> QED
  BY <1>4, <1>5, <1>6

LEMMA DiskStep == ASSUME TInv, [Next]_vars PROVE DiskOK'
<1>0. DiskOK
  BY TInvParts
<1>1. CASE Edit
  <2>1. PICK f \in {"project", "global"}, tied \in BOOLEAN :
          \E text \in Files[f] \ {file[f]} : Replaced(f, tied, text)
    BY <1>1, EditReplaces
  <2>2. PICK text \in Files[f] : Replaced(f, tied, text)
    BY <2>1
  <2>3. /\ file' \in [project : Files.project, global : Files.global]
        /\ mtime' \in {mtime, mtime + 1}
    BY <2>2, ReplacedFile DEF Replaced
  <2>4. blurred' \in BOOLEAN
    BY <1>0, <2>2 DEF DiskOK, Replaced
  <2>5. seen' = [c \in Calls |-> seen'[c]]
    BY <1>0, <2>2 DEF DiskOK, Replaced
  <2>6. edits < Edits /\ edits' = edits + 1
    BY <1>1 DEF Edit
  <2> QED
    BY <1>0, <2>3, <2>4, <2>5, <2>6, BoundsAssumption DEF DiskOK
<1>2. ASSUME UNCHANGED <<file, mtime, edits, blurred>>, seen' = [c \in Calls |-> seen'[c]]
      PROVE  DiskOK'
  BY <1>0, <1>2 DEF DiskOK
<1>3. CASE \E c \in Calls : \/ \E i \in Invocations[c] : Send(c, i.cmd, i.role)
                            \/ Obey(c) \/ FailClosed(c)
  <2>1. seen' = [c \in Calls |-> seen'[c]]
    BY <1>0, <1>3 DEF DiskOK, Send, Obey, FailClosed, Forget
  <2> QED
    BY <1>2, <1>3, <2>1 DEF Send, Obey, FailClosed
<1>4. CASE UNCHANGED <<file, mtime, edits, blurred, seen>>
  BY <1>0, <1>2, <1>4 DEF DiskOK
<1> QED
  BY <1>1, <1>3, <1>4
  DEF Next, Boot, BootStat, Crash, Handle, Evaluate, LoadStat, Load, Conclude, SendCard, AnswerCard,
      diskVars, vars

LEMMA EngineStep == ASSUME TInv, [Next]_vars PROVE EngineOK'
<1>0. EngineOK /\ DiskOK
  BY TInvParts
<1>1. CASE UNCHANGED engineVars
  BY <1>0, <1>1 DEF EngineOK, engineVars
<1>2. CASE Boot
  <2> DEFINE r == MergedRules(file.project, file.global)
  <2>1. DOMAIN r \subseteq Roles
    BY <1>0, MergedRoles DEF DiskOK
  <2>2. engine' = [rules |-> r, time |-> NoTime]
    BY <1>2 DEF Boot
  <2> HIDE DEF r
  <2>3. engine'.rules = r /\ engine'.time = NoTime
    BY <2>2
  <2>4. engine' = [rules |-> engine'.rules, time |-> engine'.time]
    BY <2>2, <2>3
  <2> QED
    BY <1>0, <1>2, <2>1, <2>3, <2>4, BoundsAssumption DEF Boot, EngineOK, NoTime
<1>3. CASE BootStat
  <2> DEFINE n == TimeOf(file[primary], mtime)
  <2>1. n \in 0..Edits + 1
    BY TimeInRange
  <2>2. engine' = [engine EXCEPT !.time = n]
    BY <1>3 DEF BootStat
  <2> HIDE DEF n
  <2>3. engine = [rules |-> engine.rules, time |-> engine.time]
    BY <1>0 DEF EngineOK
  <2>4. engine' = [rules |-> engine.rules, time |-> n]
    BY <2>2, <2>3
  <2>5. engine'.rules = engine.rules /\ engine'.time = n
    BY <2>4
  <2>6. engine' = [rules |-> engine'.rules, time |-> engine'.time]
    BY <2>4, <2>5
  <2> QED
    BY <1>0, <1>3, <2>1, <2>5, <2>6 DEF BootStat, EngineOK
<1>4. CASE Crash
  <2>1. /\ crashes < Crashes /\ crashes' = crashes + 1 /\ daemon' = "down"
        /\ primary' = "global"
        /\ engine' = [rules |-> NoRules, time |-> NoTime]
        /\ lock' = Unlocked
    BY <1>4 DEF Crash
  <2>2. engine'.rules = NoRules /\ engine'.time = NoTime
    BY <2>1
  <2>3. engine' = [rules |-> engine'.rules, time |-> engine'.time]
    BY <2>1, <2>2
  <2>4. DOMAIN NoRules = {}
    BY DEF NoRules
  <2>5. crashes' \in 0..Crashes
    BY <1>0, <2>1, BoundsAssumption DEF EngineOK
  <2>6. lock' \in LockRecord
    BY <2>1, UnlockedLock
  <2> QED
    BY <2>1, <2>2, <2>3, <2>4, <2>5, <2>6, BoundsAssumption DEF EngineOK, NoTime
<1>5. ASSUME NEW c \in Calls, Evaluate(c)
      PROVE  EngineOK'
  <2>1. lock' \in LockRecord
    BY <1>0, <1>5, TakenLock DEF Evaluate, EngineOK
  <2> QED
    BY <1>0, <1>5, <2>1 DEF Evaluate, EngineOK
<1>6. ASSUME NEW c \in Calls, Load(c)
      PROVE  EngineOK'
  <2> DEFINE r == Text(file[primary])
             n == lock.time
  <2>1. DOMAIN r \subseteq Roles
    BY <1>0, TextRoles, FileFields DEF DiskOK, EngineOK
  <2>2. n \in 0..Edits + 1
    BY <1>0 DEF EngineOK, LockRecord
  <2>3. engine' = [rules |-> r, time |-> n]
    BY <1>6 DEF Load
  <2> HIDE DEF r, n
  <2>4. engine'.rules = r /\ engine'.time = n
    BY <2>3
  <2>5. engine' = [rules |-> engine'.rules, time |-> engine'.time]
    BY <2>3, <2>4
  <2>6. lock' \in LockRecord
    BY <1>6, UnlockedLock DEF Load
  <2> QED
    BY <1>0, <1>6, <2>1, <2>2, <2>4, <2>5, <2>6 DEF Load, EngineOK
<1>7. ASSUME NEW c \in Calls, LoadStat(c)
      PROVE  EngineOK'
  <2>1. TimeOf(file[primary], mtime) \in 0..Edits + 1
    BY TimeInRange
  <2>2. lock' \in LockRecord
    BY <1>7, <2>1 DEF LoadStat, LockRecord
  <2> QED
    BY <1>0, <1>7, <2>2 DEF LoadStat, EngineOK
<1> QED
  BY <1>1, <1>2, <1>3, <1>4, <1>5, <1>6, <1>7
  DEF Next, Edit, Send, Obey, FailClosed, Handle, Conclude, SendCard, AnswerCard,
      engineVars, vars

LEMMA CallsStep == ASSUME TInv, [Next]_vars PROVE CallsOK'
<1>0. CallsOK
  BY TInvParts
<1>1. CASE UNCHANGED <<call, shell, verdict, card>>
  BY <1>0, <1>1 DEF CallsOK
<1>2. ASSUME call' \in [Calls -> CallRecord], UNCHANGED <<shell, verdict, card>>
      PROVE  CallsOK'
  BY <1>0, <1>2 DEF CallsOK
<1>3. CASE Crash
  BY <1>2, <1>3, CrashEffect DEF Crash
<1>4. ASSUME NEW c \in Calls, NEW i \in Invocations[c], Send(c, i.cmd, i.role)
      PROVE  CallsOK'
  <2>1. call' \in [Calls -> CallRecord]
    BY <1>0, <1>4, SendEffect DEF Send, CallsOK, OnlyCall
  <2>2. shell' \in [Calls -> Shells]
    BY <1>0, <1>4 DEF Send, CallsOK, Shells
  <2> QED
    BY <1>0, <1>4, <2>1, <2>2 DEF Send, CallsOK
<1>5. ASSUME NEW c \in Calls, Obey(c) \/ FailClosed(c)
      PROVE  CallsOK'
  <2>1. PICK s \in Shells : shell' = [shell EXCEPT ![c] = s]
    <3>1. CASE FailClosed(c)
      BY <3>1 DEF FailClosed, Shells
    <3>2. CASE Obey(c)
      <4> DEFINE s == CASE Kind(call[c].cause) = "ALLOW" -> "ran"
                        [] Kind(call[c].cause) = "REWRITE" -> "dry_run"
                        [] OTHER -> "blocked"
      <4>1. s \in Shells
        BY DEF Shells
      <4>2. shell' = [shell EXCEPT ![c] = s]
        BY <3>2 DEF Obey
      <4> QED
        BY <4>1, <4>2
    <3> QED
      BY <1>5, <3>1, <3>2
  <2> QED
    BY <1>0, <1>5, <2>1 DEF Obey, FailClosed, CallsOK
<1>6. ASSUME NEW c \in Calls, Evaluate(c) \/ LoadStat(c) \/ Load(c)
      PROVE  CallsOK'
  <2>1. call' = call \/ \E rules : Judged(c, rules)
    BY <1>6 DEF Evaluate, LoadStat, Load
  <2>2. call' \in [Calls -> CallRecord]
    BY <1>0, <2>1, JudgedEffect DEF CallsOK, OnlyCall
  <2> QED
    BY <1>2, <1>6, <2>2 DEF Evaluate, LoadStat, Load
<1>7. ASSUME NEW c \in Calls, Conclude(c)
      PROVE  CallsOK'
  BY <1>2, <1>7, ConcludeEffect DEF Conclude, OnlyCall
<1>8. ASSUME NEW c \in Calls, SendCard(c)
      PROVE  CallsOK'
  <2>1. call' \in [Calls -> CallRecord]
    BY <1>8, SendCardEffect DEF OnlyCall
  <2> QED
    BY <1>0, <1>8, <2>1 DEF SendCard, CallsOK
<1>9. ASSUME NEW c \in Calls, AnswerCard(c)
      PROVE  CallsOK'
  BY <1>0, <1>9 DEF AnswerCard, CallsOK
<1> QED
  BY <1>1, <1>3, <1>4, <1>5, <1>6, <1>7, <1>8, <1>9
  DEF Next, Edit, Boot, BootStat, Handle, vars

LEMMA TInvStep == TInv /\ [Next]_vars => TInv'
BY DiskStep, EngineStep, CallsStep, TInvPartsNext

LEMMA TInvInit == Init => TInv
<1> SUFFICES ASSUME Init PROVE TInv
  OBVIOUS
<1>1. DiskOK
  <2>1. /\ file \in [project : Files.project, global : Files.global] /\ mtime = 1
        /\ edits = 0 /\ seen = [c \in Calls |-> {}] /\ blurred = FALSE
    BY DEF Init
  <2>2. seen = [c \in Calls |-> seen[c]]
    BY <2>1
  <2>3. mtime \in 1..Edits + 1 /\ edits \in 0..Edits /\ mtime <= edits + 1
    BY <2>1, BoundsAssumption
  <2> QED
    BY <2>1, <2>2, <2>3 DEF DiskOK
<1>2. EngineOK
  <2>1. engine.rules = NoRules /\ engine.time = NoTime
    BY DEF Init
  <2>2. DOMAIN NoRules = {}
    BY DEF NoRules
  <2> QED
    BY <2>1, <2>2, UnlockedLock, BoundsAssumption DEF Init, EngineOK, NoTime
<1>3. CallsOK
  <2>1. (CHOOSE x \in Cmds : TRUE) \in Cmds
    BY CallsAssumption
  <2>2. Idle(CHOOSE x \in Cmds : TRUE) \in CallRecord
    BY <2>1, IdleCall
  <2> QED
    BY <2>2 DEF Init, CallsOK, Shells
<1> QED
  BY <1>1, <1>2, <1>3, TInvParts

\* The files, the rules, the calls and the cards stay well formed, for any calls and
\* any number of edits and crashes.
THEOREM TypeCorrect == Spec => []TypeOK
<1>1. TInv => TypeOK
  BY DEF TInv
<1> QED
  BY <1>1, TInvInit, TInvStep, PTL DEF Spec

-----------------------------------------------------------------------------
(* What executes was permitted by the rules *)

(* How far a call has come: on its way it has a daemon, and no card until  *)
(* the task that it spawned has sent one.                                  *)
LifeOf(c) ==
  /\ shell[c] = "idle" => call[c].pc = "idle"
  /\ shell[c] \in {"ran", "dry_run"} => call[c].pc = "answered"
  /\ call[c].pc \in {"idle", "sent", "judged"} => call[c].background = "none"
  /\ call[c].pc \in {"sent", "judged"} => daemon = "up"
  /\ card[c] # "none" => call[c].background = "done"

Life == \A c \in Calls : LifeOf(c)

\* The call that holds the rules mutex is one that is being evaluated.
LockHeld ==
  lock.holder # NoCall => lock.holder \in Calls /\ call[lock.holder].pc = "sent"

\* The overlay row is APPROVED only if a card was.
ApprovalsAreGiven == verdict = "APPROVED" => StepApproved

Content == file[primary]

(* The daemon's rules are those of the file whose time it remembers, and   *)
(* what load_fresh will read is at least as new as the time it has seen.   *)
RulesKnown ==
  /\ daemon = "booting" =>
       /\ boot = <<engine.rules>> /\ lock.holder = NoCall
       /\ Content = Absent => engine.rules = NoRules
  /\ daemon = "up" =>
       /\ engine.time <= mtime
       /\ engine.time = mtime => engine.rules = InForce(Content)
       /\ engine.time = NoTime => engine.rules = NoRules
       /\ boot # <<>> =>
            /\ boot = <<engine.rules>> /\ engine.time = TimeOf(Content, mtime)
            /\ lock.holder = NoCall
       /\ lock.holder # NoCall =>
            /\ boot = <<>>
            /\ lock.looked => lock.time <= mtime /\ (lock.time = NoTime => Content = Absent)

\* The verdict of a call that waits for it comes from rules it has seen.
Sound(c) ==
  \E rules \in seen[c] :
    LET cause == call[c].cause  d == Decide(rules, call[c].role, call[c].cmd) IN
    \/ cause \in {d, "cognitive"}
    \/ cause = "allow" /\ d = "require_approval" /\ StepApproved

Live(c) == shell[c] \in {"waiting", "ran", "dry_run"}

Answers(c) ==
  /\ Live(c) /\ call[c].pc = "sent" => InForce(Content) \in seen[c]
  /\ Live(c) /\ call[c].pc \in {"judged", "answered"} /\ ~blurred => Sound(c)
  /\ shell[c] = "ran" => call[c].cause = "allow"
  /\ shell[c] = "dry_run" => call[c].cause = "financial"

GInv ==
  /\ TInv /\ Life /\ LockHeld /\ ApprovalsAreGiven
  /\ ~blurred => RulesKnown
  /\ \A c \in Calls : Answers(c)

LEMMA ShellEffect ==
  ASSUME TInv, NEW c \in Calls, NEW s, shell' = [shell EXCEPT ![c] = s]
  PROVE  shell'[c] = s /\ \A x \in Calls : x # c => shell'[x] = shell[x]
BY DEF TInv, TypeOK

LEMMA CardEffect ==
  ASSUME TInv, NEW c \in Calls, NEW s, card' = [card EXCEPT ![c] = s]
  PROVE  card'[c] = s /\ \A x \in Calls : x # c => card'[x] = card[x]
BY DEF TInv, TypeOK

\* Only a running daemon starts a command, by the verdict that it gave.
LEMMA ObeyEffect ==
  ASSUME TInv, NEW c \in Calls, Obey(c)
  PROVE  /\ call[c].pc = "answered" /\ shell[c] = "waiting"
         /\ \A x \in Calls : x # c => shell'[x] = shell[x]
         /\ \/ shell'[c] = "ran" /\ call[c].cause = "allow"
            \/ shell'[c] = "dry_run" /\ call[c].cause = "financial"
            \/ shell'[c] = "blocked"
<1> DEFINE s == CASE Kind(call[c].cause) = "ALLOW" -> "ran"
                  [] Kind(call[c].cause) = "REWRITE" -> "dry_run"
                  [] OTHER -> "blocked"
<1>1. shell' = [shell EXCEPT ![c] = s]
  BY DEF Obey
<1>2. \/ s = "ran" /\ call[c].cause = "allow"
      \/ s = "dry_run" /\ call[c].cause = "financial"
      \/ s = "blocked"
  BY DEF Kind
<1> HIDE DEF s
<1>3. shell'[c] = s /\ \A x \in Calls : x # c => shell'[x] = shell[x]
  BY <1>1, ShellEffect
<1> QED
  BY <1>2, <1>3 DEF Obey

\* What a handler of call c does: nothing to the call, or a verdict.
LEMMA EvaluateEffect ==
  ASSUME TInv, NEW c \in Calls, Evaluate(c) \/ LoadStat(c) \/ Load(c)
  PROVE  \/ call' = call
         \/ OnlyCall(c) /\ call'[c].pc = "judged" /\ call'[c].background = call[c].background
BY JudgedEffect DEF Evaluate, LoadStat, Load

LEMMA LifeStep ==
  ASSUME TInv, Life, LockHeld, [Next]_vars
  PROVE  Life'
<1> SUFFICES ASSUME NEW x \in Calls PROVE LifeOf(x)'
  BY DEF Life
<1>0. LifeOf(x)
  BY DEF Life
<1>1. CASE UNCHANGED <<call, shell, card>> /\ (daemon' = daemon \/ daemon # "up")
  BY <1>0, <1>1 DEF LifeOf
<1>2. CASE Crash
  <2>1. UNCHANGED <<shell, card>>
    BY <1>2 DEF Crash
  <2> QED
    BY <1>0, <1>2, <2>1, CrashEffect DEF LifeOf
<1>3. ASSUME NEW c \in Calls, NEW i \in Invocations[c], Send(c, i.cmd, i.role)
      PROVE  LifeOf(x)'
  <2>1. UNCHANGED <<daemon, card>> /\ shell[c] = "idle"
    BY <1>3 DEF Send, engineVars
  <2>2. LifeOf(c)
    BY DEF Life
  <2>3. CASE daemon = "up"
    <3>1. OnlyCall(c) /\ call'[c].pc = "sent" /\ call'[c].background = "none"
      BY <1>3, <2>3, SendEffect
    <3>2. shell'[c] = "waiting" /\ \A y \in Calls : y # c => shell'[y] = shell[y]
      BY <1>3, <2>3, ShellEffect DEF Send
    <3> QED
      BY <1>0, <2>1, <2>2, <2>3, <3>1, <3>2 DEF LifeOf, OnlyCall
  <2>4. CASE daemon # "up"
    <3>1. call' = call
      BY <1>3, <2>4 DEF Send
    <3>2. shell'[c] = "blocked" /\ \A y \in Calls : y # c => shell'[y] = shell[y]
      BY <1>3, <2>4, ShellEffect DEF Send
    <3> QED
      BY <1>0, <2>1, <3>1, <3>2 DEF LifeOf
  <2> QED
    BY <2>3, <2>4
<1>4. ASSUME NEW c \in Calls, Obey(c)
      PROVE  LifeOf(x)'
  <2>1. UNCHANGED <<daemon, card, call>>
    BY <1>4 DEF Obey, engineVars
  <2> QED
    BY <1>0, <1>4, <2>1, ObeyEffect DEF LifeOf
<1>5. ASSUME NEW c \in Calls, FailClosed(c)
      PROVE  LifeOf(x)'
  <2>1. UNCHANGED <<daemon, card, call>>
    BY <1>5 DEF FailClosed, engineVars
  <2>2. shell'[c] = "blocked" /\ \A y \in Calls : y # c => shell'[y] = shell[y]
    BY <1>5, ShellEffect DEF FailClosed
  <2> QED
    BY <1>0, <2>1, <2>2 DEF LifeOf
<1>6. ASSUME NEW c \in Calls, Evaluate(c) \/ LoadStat(c) \/ Load(c)
      PROVE  LifeOf(x)'
  <2>1. UNCHANGED <<daemon, card, shell>>
    BY <1>6 DEF Evaluate, LoadStat, Load
  <2>2. call[c].pc = "sent" /\ LifeOf(c)
    BY <1>6, CallsAssumption DEF Evaluate, LoadStat, Load, LockHeld, Life
  <2> QED
    BY <1>0, <1>6, <2>1, <2>2, EvaluateEffect DEF LifeOf, OnlyCall
<1>7. ASSUME NEW c \in Calls, Conclude(c)
      PROVE  LifeOf(x)'
  <2>1. UNCHANGED <<daemon, card, shell>> /\ call[c].pc = "judged" /\ LifeOf(c)
    BY <1>7 DEF Conclude, engineVars, Life
  <2> QED
    BY <1>0, <1>7, <2>1, ConcludeEffect DEF LifeOf, OnlyCall
<1>8. ASSUME NEW c \in Calls, SendCard(c)
      PROVE  LifeOf(x)'
  <2>1. UNCHANGED <<daemon, shell>> /\ call[c].background = "spawned" /\ LifeOf(c)
    BY <1>8 DEF SendCard, engineVars, Life
  <2>2. \A y \in Calls : y # c => card'[y] = card[y]
    BY <1>8, CardEffect DEF SendCard
  <2> QED
    BY <1>0, <1>8, <2>1, <2>2, SendCardEffect DEF LifeOf, OnlyCall
<1>9. ASSUME NEW c \in Calls, AnswerCard(c)
      PROVE  LifeOf(x)'
  <2>1. UNCHANGED <<daemon, shell, call>> /\ card[c] = "pending"
    BY <1>9 DEF AnswerCard, engineVars
  <2>2. \A y \in Calls : y # c => card'[y] = card[y]
    BY <1>9, CardEffect DEF AnswerCard
  <2> QED
    BY <1>0, <2>1, <2>2 DEF LifeOf
<1> QED
  BY <1>1, <1>2, <1>3, <1>4, <1>5, <1>6, <1>7, <1>8, <1>9
  DEF Next, Edit, Boot, BootStat, Handle, vars

LEMMA LockStep ==
  ASSUME TInv, Life, LockHeld, [Next]_vars
  PROVE  LockHeld'
<1>1. CASE UNCHANGED <<call, lock>>
  BY <1>1 DEF LockHeld
<1>2. CASE lock'.holder = NoCall
  BY <1>2 DEF LockHeld
<1>3. ASSUME NEW c \in Calls, OnlyCall(c), lock' = lock, call[c].pc # "sent"
      PROVE  LockHeld'
  BY <1>3 DEF LockHeld, OnlyCall
<1>4. ASSUME NEW c \in Calls, NEW i \in Invocations[c], Send(c, i.cmd, i.role)
      PROVE  LockHeld'
  <2>1. lock' = lock /\ call[c].pc = "idle"
    BY <1>4 DEF Send, engineVars, Life, LifeOf
  <2>2. CASE daemon = "up"
    BY <1>3, <1>4, <2>1, <2>2, SendEffect
  <2>3. CASE daemon # "up"
    BY <1>1, <1>4, <2>1, <2>3 DEF Send
  <2> QED
    BY <2>2, <2>3
<1>5. ASSUME NEW c \in Calls, Evaluate(c)
      PROVE  LockHeld'
  <2>1. CASE lock' = lock
    BY <1>5, <2>1 DEF Evaluate, LockHeld
  <2>2. CASE lock' # lock
    <3>1. call' = call /\ call[c].pc = "sent" /\ lock' = LockOf(c)
      BY <1>5, <2>2 DEF Evaluate
    <3>2. lock'.holder = c
      BY <3>1, TakenLock
    <3> QED
      BY <3>1, <3>2 DEF LockHeld
  <2> QED
    BY <2>1, <2>2
<1>6. ASSUME NEW c \in Calls, Conclude(c) \/ SendCard(c)
      PROVE  LockHeld'
  <2>1. OnlyCall(c) /\ lock' = lock
    BY <1>6, ConcludeEffect, SendCardEffect DEF Conclude, SendCard, engineVars
  <2>2. call[c].pc # "sent"
    BY <1>6 DEF Conclude, SendCard, Life, LifeOf
  <2> QED
    BY <1>3, <2>1, <2>2
<1>7. CASE Crash \/ \E c \in Calls : Load(c)
  <2>1. lock' = Unlocked
    BY <1>7 DEF Crash, Load
  <2> QED
    BY <1>2, <2>1, UnlockedLock
<1>8. ASSUME NEW c \in Calls, LoadStat(c)
      PROVE  LockHeld'
  <2>1. call' = call /\ lock'.holder = lock.holder
    BY <1>8 DEF LoadStat
  <2> QED
    BY <2>1 DEF LockHeld
<1> QED
  BY <1>1, <1>4, <1>5, <1>6, <1>7, <1>8
  DEF Next, Edit, Boot, BootStat, Obey, FailClosed, Handle, AnswerCard, engineVars, vars

\* An approved card stays approved.
LEMMA ApprovedStays ==
  ASSUME TInv, Life, [Next]_vars, StepApproved
  PROVE  StepApproved'
<1>1. PICK a \in Calls : card[a] = "APPROVED"
  BY DEF StepApproved
<1>2. CASE card' = card
  BY <1>1, <1>2 DEF StepApproved
<1>3. ASSUME NEW c \in Calls, SendCard(c) \/ AnswerCard(c)
      PROVE  card'[a] = "APPROVED"
  <2>1. c # a
    BY <1>1, <1>3 DEF SendCard, AnswerCard, Life, LifeOf
  <2>2. \E s : card' = [card EXCEPT ![c] = s]
    BY <1>3 DEF SendCard, AnswerCard
  <2> QED
    BY <1>1, <2>1, <2>2, CardEffect
<1> QED
  BY <1>1, <1>2, <1>3
  DEF StepApproved, Next, Edit, Boot, BootStat, Crash, Send, Obey, FailClosed, Handle,
      Evaluate, LoadStat, Load, Conclude, vars

LEMMA ApprovalsStep ==
  ASSUME TInv, Life, ApprovalsAreGiven, [Next]_vars
  PROVE  ApprovalsAreGiven'
<1>1. CASE verdict' = verdict
  BY <1>1, ApprovedStays DEF ApprovalsAreGiven
<1>2. ASSUME NEW c \in Calls, AnswerCard(c)
      PROVE  ApprovalsAreGiven'
  <2>1. PICK v \in Verdicts : card' = [card EXCEPT ![c] = v] /\ verdict' \in {v, verdict}
    BY <1>2 DEF AnswerCard
  <2>2. card'[c] = v
    BY <2>1, CardEffect
  <2> QED
    BY <1>1, <2>1, <2>2 DEF ApprovalsAreGiven, StepApproved
<1> QED
  BY <1>1, <1>2
  DEF Next, Edit, Boot, BootStat, Crash, Send, Obey, FailClosed, Handle, Evaluate, LoadStat,
      Load, Conclude, SendCard, vars

LEMMA AbsentText == Text(Absent) = NoRules
BY DEF Text

\* An edit that leaves no newer time behind stays one.
LEMMA StaysBlurred == ASSUME [Next]_vars, blurred PROVE blurred'
<1>1. CASE Edit
  <2>1. PICK f \in {"project", "global"}, tied \in BOOLEAN :
          \E text \in Files[f] \ {file[f]} : Replaced(f, tied, text)
    BY <1>1, EditReplaces
  <2> QED
    BY <2>1 DEF Replaced
<1> QED
  BY <1>1
  DEF Next, Boot, BootStat, Crash, Send, Obey, FailClosed, Handle, Evaluate, LoadStat,
      Load, Conclude, SendCard, AnswerCard, diskVars, vars

LEMMA LockFree == ASSUME Life, LockHeld, daemon # "up" PROVE lock.holder = NoCall
BY DEF Life, LifeOf, LockHeld

\* The time that the daemon remembers tells whether its rules are in force.
LEMMA SameTimeSameRules ==
  ASSUME TInv, RulesKnown, daemon = "up", engine.time = TimeOf(Content, mtime)
  PROVE  engine.rules = InForce(Content)
<1>1. CASE Content # Absent
  BY <1>1 DEF RulesKnown, TimeOf
<1>2. CASE Content = Absent
  <2>1. engine.rules = NoRules
    BY <1>2 DEF RulesKnown, TimeOf
  <2>2. CASE boot = <<>>
    BY <1>2, <2>1, <2>2, AbsentText DEF InForce
  <2>3. CASE boot # <<>>
    BY <2>3 DEF RulesKnown, InForce
  <2> QED
    BY <2>2, <2>3
<1> QED
  BY <1>1, <1>2

LEMMA RulesEdit ==
  ASSUME TInv, RulesKnown, Edit, ~blurred'
  PROVE  RulesKnown'
<1>1. PICK f \in {"project", "global"}, tied \in BOOLEAN :
        \E text \in Files[f] \ {file[f]} : Replaced(f, tied, text)
  BY EditReplaces
<1>2. PICK text \in Files[f] : Replaced(f, tied, text)
  BY <1>1
<1>3. UNCHANGED <<daemon, primary, engine, lock>>
  BY DEF Edit
<1>4. primary \in {"project", "global"} /\ mtime \in Nat /\ engine.time \in Nat /\ lock.time \in Nat
  BY BoundsAssumption DEF TInv, TypeOK
<1>5. CASE f = primary
  <2>1. Content' = text
    BY <1>2, <1>3, <1>5, ReplacedFile DEF Content
  <2>2. /\ boot' = <<>> /\ daemon # "booting"
        /\ daemon = "up" => mtime' = mtime + 1
        /\ lock.looked => lock.time # NoTime
    BY <1>2, <1>5 DEF Replaced
  <2> QED
    BY <1>3, <1>4, <2>2 DEF RulesKnown, NoTime
<1>6. CASE f # primary
  <2>1. Content' = Content /\ UNCHANGED <<boot, mtime>>
    BY <1>2, <1>3, <1>4, <1>6, ReplacedFile DEF Content, Replaced
  <2>2. InForce(Content)' = InForce(Content)
    BY <2>1 DEF InForce
  <2>3. TimeOf(Content, mtime)' = TimeOf(Content, mtime)
    BY <2>1 DEF TimeOf
  <2> QED
    BY <1>3, <2>1, <2>2, <2>3 DEF RulesKnown
<1> QED
  BY <1>5, <1>6

LEMMA RulesBoot ==
  ASSUME TInv, Life, LockHeld, Boot
  PROVE  RulesKnown'
<1> DEFINE rules == MergedRules(file.project, file.global)
<1>1. /\ engine' = [rules |-> rules, time |-> NoTime] /\ boot' = <<rules>>
      /\ daemon' = "booting" /\ UNCHANGED <<lock, file>> /\ daemon = "down"
      /\ primary' = IF file.project = Absent THEN "global" ELSE "project"
  BY DEF Boot
<1>2. lock.holder = NoCall
  BY <1>1, LockFree
<1>3. Content' = Absent => rules = NoRules
  <2> SUFFICES ASSUME Content' = Absent PROVE rules = NoRules
    OBVIOUS
  <2>1. file.project = Absent /\ file.global = Absent
    BY <1>1 DEF Content
  <2>2. DOMAIN NoRules = {}
    BY DEF NoRules
  <2>3. rules = [r \in {} |-> 0]
    BY <2>1, <2>2, AbsentText DEF MergedRules, NoRules
  <2> QED
    BY <2>3 DEF NoRules
<1> HIDE DEF rules
<1>4. engine'.rules = rules
  BY <1>1
<1> QED
  BY <1>1, <1>2, <1>3, <1>4 DEF RulesKnown

LEMMA RulesStat ==
  ASSUME TInv, RulesKnown, BootStat
  PROVE  RulesKnown'
<1> DEFINE time == TimeOf(Content, mtime)
<1>1. /\ daemon = "booting" /\ daemon' = "up"
      /\ UNCHANGED <<file, mtime, boot, primary, lock>>
      /\ engine' = [engine EXCEPT !.time = time]
  BY DEF BootStat, diskVars, Content
<1>2. mtime \in Nat \ {0}
  BY BoundsAssumption DEF TInv, TypeOK
<1>3. time = IF Content = Absent THEN 0 ELSE mtime
  BY DEF TimeOf, NoTime
<1>4. time' = time /\ InForce(Content)' = InForce(Content) /\ Content' = Content
  BY <1>1 DEF InForce, TimeOf, Content
<1> HIDE DEF time
<1>5. engine'.rules = engine.rules /\ engine'.time = time
  <2>1. engine = [rules |-> engine.rules, time |-> engine.time]
    BY DEF TInv, Shapes
  <2>2. engine' = [rules |-> engine.rules, time |-> time]
    BY <1>1, <2>1
  <2> QED
    BY <2>2
<1>6. /\ boot = <<engine.rules>> /\ lock.holder = NoCall
      /\ Content = Absent => engine.rules = NoRules
  BY <1>1 DEF RulesKnown
<1>7. InForce(Content) = engine.rules
  BY <1>6 DEF InForce
<1>8. time = NoTime => Content = Absent
  BY <1>2, <1>3 DEF NoTime
<1>9. time <= mtime
  BY <1>2, <1>3
<1>10. (TimeOf(Content, mtime))' = time
  BY <1>4 DEF time
<1> QED
  BY <1>1, <1>4, <1>5, <1>6, <1>7, <1>8, <1>9, <1>10 DEF RulesKnown

LEMMA RulesEvaluate ==
  ASSUME TInv, RulesKnown, NEW c \in Calls, Evaluate(c), daemon = "up"
  PROVE  RulesKnown'
<1> DEFINE time == TimeOf(Content, mtime)
<1>1. UNCHANGED <<file, mtime, boot, primary, engine, daemon>>
  BY DEF Evaluate, diskVars
<1>2. time' = time /\ InForce(Content)' = InForce(Content) /\ Content' = Content
  BY <1>1 DEF InForce, TimeOf, Content
<1>3. CASE lock' = lock
  BY <1>1, <1>2, <1>3 DEF RulesKnown
<1>4. CASE lock' # lock
  <2>1. lock' = LockOf(c) /\ time # engine.time
    BY <1>4 DEF Evaluate, Content
  <2>2. lock'.holder = c /\ lock'.looked = FALSE
    BY <2>1, TakenLock
  <2>3. boot = <<>>
    BY <2>1 DEF RulesKnown
  <2> HIDE DEF time
  <2> QED
    BY <1>1, <1>2, <2>2, <2>3 DEF RulesKnown
<1> QED
  BY <1>3, <1>4

LEMMA RulesLook ==
  ASSUME TInv, RulesKnown, NEW c \in Calls, LoadStat(c), daemon = "up"
  PROVE  RulesKnown'
<1> DEFINE time == TimeOf(Content, mtime)
<1>1. /\ UNCHANGED <<file, mtime, boot, primary, engine, daemon>>
      /\ lock' = [holder |-> c, looked |-> TRUE, time |-> time] /\ lock.holder = c
  BY DEF LoadStat, diskVars, Content
<1>2. InForce(Content)' = InForce(Content) /\ Content' = Content
  BY <1>1 DEF InForce, Content
<1>3. mtime \in Nat \ {0}
  BY BoundsAssumption DEF TInv, TypeOK
<1>4. (time = NoTime => Content = Absent) /\ time <= mtime
  BY <1>3 DEF TimeOf, NoTime
<1> HIDE DEF time
<1>5. lock'.holder = c /\ lock'.time = time
  BY <1>1
<1>6. boot = <<>>
  BY <1>1, CallsAssumption DEF RulesKnown
<1> QED
  BY <1>1, <1>2, <1>4, <1>5, <1>6 DEF RulesKnown

LEMMA RulesLoad ==
  ASSUME TInv, RulesKnown, NEW c \in Calls, Load(c), daemon = "up"
  PROVE  RulesKnown'
<1> DEFINE rules == Text(Content)
           time == lock.time
<1>1. /\ UNCHANGED <<file, mtime, boot, primary, daemon>>
      /\ engine' = [rules |-> rules, time |-> time]
      /\ lock' = Unlocked /\ lock.holder = c /\ lock.looked
  BY DEF Load, diskVars, Content
<1>2. boot = <<>> /\ time <= mtime /\ (time = NoTime => Content = Absent)
  BY <1>1, CallsAssumption DEF RulesKnown
<1>3. InForce(Content) = rules /\ (Content = Absent => rules = NoRules)
  BY <1>2, AbsentText DEF InForce
<1>4. InForce(Content)' = InForce(Content)
  BY <1>1 DEF InForce, Content
<1> HIDE DEF rules, time
<1>5. engine'.rules = rules /\ engine'.time = time /\ lock'.holder = NoCall
  BY <1>1, UnlockedLock
<1> QED
  BY <1>1, <1>2, <1>3, <1>4, <1>5 DEF RulesKnown

LEMMA RulesStep ==
  ASSUME TInv, Life, LockHeld, ~blurred => RulesKnown, [Next]_vars
  PROVE  ~blurred' => RulesKnown'
<1> SUFFICES ASSUME ~blurred' PROVE RulesKnown'
  OBVIOUS
<1>1. RulesKnown
  BY StaysBlurred
<1>2. CASE UNCHANGED <<file, mtime, boot, daemon, primary, engine, lock>>
  BY <1>1, <1>2 DEF RulesKnown, InForce, TimeOf, Content
<1>3. CASE Crash
  <2>1. daemon' = "down"
    BY <1>3 DEF Crash
  <2> QED
    BY <2>1 DEF RulesKnown
<1>4. ASSUME NEW c \in Calls, Evaluate(c) \/ LoadStat(c) \/ Load(c)
      PROVE  daemon = "up"
  BY <1>4, CallsAssumption DEF Evaluate, LoadStat, Load, Life, LifeOf, LockHeld
<1> QED
  BY <1>1, <1>2, <1>3, <1>4, RulesEdit, RulesBoot, RulesStat, RulesEvaluate, RulesLook,
     RulesLoad
  DEF Next, Send, Obey, FailClosed, Handle, Conclude, SendCard, AnswerCard,
      engineVars, diskVars, vars

\* A call keeps its answer while it stays as it is and has seen what is in force.
LEMMA AnswersKept ==
  ASSUME TInv, Life, [Next]_vars, NEW c \in Calls, Answers(c),
         shell'[c] = shell[c], SameCommand(c), call'[c].cause = call[c].cause,
         \/ call'[c].pc = call[c].pc
         \/ call'[c].pc = "gone" /\ call[c].pc # "answered",
         seen[c] \subseteq seen'[c],
         call'[c].pc = "sent" =>
           InForce(Content)' = InForce(Content) \/ InForce(Content)' \in seen'[c]
  PROVE  Answers(c)'
<1>1. blurred => blurred'
  BY StaysBlurred
<1>2. ASSUME Sound(c) PROVE Sound(c)'
  BY <1>2, ApprovedStays DEF Sound, SameCommand
<1> QED
  BY <1>1, <1>2 DEF Answers, Live

LEMMA AnswersEdit ==
  ASSUME TInv, Life, NEW c \in Calls, Answers(c), Edit
  PROVE  Answers(c)'
<1>1. PICK f \in {"project", "global"}, tied \in BOOLEAN :
        \E text \in Files[f] \ {file[f]} : Replaced(f, tied, text)
  BY EditReplaces
<1>2. PICK text \in Files[f] : Replaced(f, tied, text)
  BY <1>1
<1>3. UNCHANGED <<primary, call, shell>> /\ [Next]_vars
  BY DEF Edit, Next
<1>4. SameCommand(c)
  BY <1>3 DEF SameCommand
<1>5. primary \in {"project", "global"}
  BY DEF TInv, TypeOK
<1>6. CASE f = primary
  <2>1. Content' = text
    BY <1>2, <1>3, <1>6, ReplacedFile DEF Content
  <2>2. seen'[c] = IF call[c].pc = "sent" THEN seen[c] \cup {Text(text)} ELSE seen[c]
    BY <1>2, <1>6 DEF Replaced
  <2>3. InForce(Content)' = Text(text)
    BY <1>2, <1>6, <2>1 DEF Replaced, InForce, Text
  <2> QED
    BY <1>3, <1>4, <2>2, <2>3, AnswersKept
<1>7. CASE f # primary
  <2>1. Content' = Content /\ UNCHANGED <<boot, seen>>
    BY <1>2, <1>3, <1>5, <1>7, ReplacedFile DEF Content, Replaced
  <2>2. InForce(Content)' = InForce(Content)
    BY <2>1 DEF InForce
  <2> QED
    BY <1>3, <1>4, <2>1, <2>2, AnswersKept
<1> QED
  BY <1>6, <1>7

LEMMA AnswersSend ==
  ASSUME TInv, Life, NEW c \in Calls, Answers(c),
         NEW y \in Calls, NEW i \in Invocations[y], Send(y, i.cmd, i.role)
  PROVE  Answers(c)'
<1>1. [Next]_vars
  BY DEF Next
<1>2. InForce(Content)' = InForce(Content) /\ Content' = Content
  BY DEF Send, InForce, Content, engineVars
<1>3. CASE daemon = "up"
  <2>1. OnlyCall(y) /\ call'[y].pc = "sent"
    BY <1>3, SendEffect
  <2>2. shell'[y] = "waiting" /\ \A x \in Calls : x # y => shell'[x] = shell[x]
    BY <1>3, ShellEffect DEF Send
  <2>3. seen' = [seen EXCEPT ![y] = {InForce(Content)}]
    BY <1>3 DEF Send, Content
  <2>4. seen'[y] = {InForce(Content)} /\ \A x \in Calls : x # y => seen'[x] = seen[x]
    BY <2>3 DEF TInv, Shapes
  <2>5. CASE c = y
    BY <1>2, <2>1, <2>2, <2>4, <2>5 DEF Answers
  <2>6. CASE c # y
    BY <1>1, <1>2, <2>1, <2>2, <2>4, <2>6, AnswersKept DEF OnlyCall, SameCommand
  <2> QED
    BY <2>5, <2>6
<1>4. CASE daemon # "up"
  <2>1. UNCHANGED <<call, seen>>
    BY <1>4 DEF Send
  <2>2. shell'[y] = "blocked" /\ \A x \in Calls : x # y => shell'[x] = shell[x]
    BY <1>4, ShellEffect DEF Send
  <2>3. CASE c = y
    BY <2>2, <2>3 DEF Answers, Live
  <2>4. CASE c # y
    BY <1>1, <1>2, <2>1, <2>2, <2>4, AnswersKept DEF SameCommand
  <2> QED
    BY <2>3, <2>4
<1> QED
  BY <1>3, <1>4

LEMMA AnswersShell ==
  ASSUME TInv, Life, NEW c \in Calls, Answers(c), NEW y \in Calls, Obey(y) \/ FailClosed(y)
  PROVE  Answers(c)'
<1>1. [Next]_vars
  BY DEF Next
<1>2. /\ InForce(Content)' = InForce(Content)
      /\ UNCHANGED <<call, boot, card, blurred>> /\ Forget(y)
  BY DEF Obey, FailClosed, InForce, Content, engineVars
<1>3. SameCommand(c)
  BY <1>2 DEF SameCommand
<1>4. \A x \in Calls : x # y => seen'[x] = seen[x]
  BY <1>2 DEF Forget, TInv, Shapes
<1>5. CASE c # y
  <2>1. shell'[c] = shell[c]
    BY <1>5, ObeyEffect, ShellEffect DEF FailClosed
  <2> QED
    BY <1>1, <1>2, <1>3, <1>4, <1>5, <2>1, AnswersKept
<1>6. CASE c = y /\ shell'[c] = "blocked"
  BY <1>6 DEF Answers, Live
<1>7. CASE c = y /\ shell'[c] # "blocked"
  <2>1. Obey(c)
    BY <1>7, ShellEffect DEF FailClosed
  <2>2. call[c].pc = "answered" /\ Live(c)
    BY <2>1, ObeyEffect DEF Live
  <2>3. \/ shell'[c] = "ran" /\ call[c].cause = "allow"
        \/ shell'[c] = "dry_run" /\ call[c].cause = "financial"
    BY <1>7, <2>1, ObeyEffect
  <2>4. seen' = seen
    BY <1>2, <1>7 DEF Forget, TInv, Shapes
  <2>5. ~blurred => Sound(c)'
    BY <1>2, <2>2, <2>4 DEF Answers, Sound, StepApproved
  <2> QED
    BY <1>2, <2>2, <2>3, <2>5 DEF Answers
<1> QED
  BY <1>5, <1>6, <1>7

\* A verdict by the rules in force is one by rules that the call has seen.
LEMMA AnswersJudged ==
  ASSUME TInv, Life, NEW c \in Calls, Answers(c), NEW rules, Judged(c, rules),
         call[c].pc = "sent", ~blurred' => rules = InForce(Content),
         UNCHANGED <<shell, seen>>
  PROVE  Answers(c)'
<1>1. /\ call'[c].pc = "judged" /\ SameCommand(c)
      /\ call'[c].cause = Decide(rules, call[c].role, call[c].cmd)
  BY JudgedEffect
<1>2. shell[c] \notin {"ran", "dry_run"}
  BY DEF Life, LifeOf
<1>3. ASSUME Live(c)', ~blurred' PROVE Sound(c)'
  <2>1. rules \in seen'[c]
    BY <1>3 DEF Answers, Live
  <2> QED
    BY <1>1, <2>1 DEF Sound, SameCommand
<1> QED
  BY <1>1, <1>2, <1>3 DEF Answers

LEMMA AnswersEvaluate ==
  ASSUME TInv, Life, LockHeld, ~blurred => RulesKnown, NEW c \in Calls, Answers(c),
         NEW y \in Calls, Evaluate(y) \/ LoadStat(y) \/ Load(y)
  PROVE  Answers(c)'
<1>1. [Next]_vars
  BY DEF Next, Handle
<1>2. /\ InForce(Content)' = InForce(Content)
      /\ UNCHANGED <<shell, seen, blurred>>
  BY DEF Evaluate, LoadStat, Load, InForce, Content, diskVars
<1>3. call[y].pc = "sent" /\ daemon = "up"
  BY CallsAssumption DEF Evaluate, LoadStat, Load, LockHeld, Life, LifeOf
<1>4. CASE call'[c] = call[c]
  <2>1. SameCommand(c)
    BY <1>4 DEF SameCommand
  <2> QED
    BY <1>1, <1>2, <1>4, <2>1, AnswersKept
<1>5. CASE call' # call /\ c = y
  <2>1. CASE Evaluate(c)
    <3>1. engine.time = TimeOf(Content, mtime) /\ Judged(c, engine.rules)
      BY <1>5, <2>1 DEF Evaluate, Content
    <3> QED
      BY <1>2, <1>3, <1>5, <3>1, SameTimeSameRules, AnswersJudged
  <2>2. CASE Load(c)
    <3>1. lock.holder = c /\ Judged(c, Text(Content))
      BY <2>2 DEF Load, Content
    <3>2. ~blurred => Text(Content) = InForce(Content)
      BY <1>3, <3>1, CallsAssumption DEF RulesKnown, InForce
    <3> QED
      BY <1>2, <1>3, <1>5, <3>1, <3>2, AnswersJudged
  <2>3. CASE LoadStat(c)
    BY <1>5, <2>3 DEF LoadStat
  <2> QED
    BY <1>5, <2>1, <2>2, <2>3
<1>6. CASE call' # call /\ c # y
  BY <1>4, <1>6, EvaluateEffect DEF OnlyCall
<1> QED
  BY <1>4, <1>5, <1>6

LEMMA AnswersConclude ==
  ASSUME TInv, Life, ApprovalsAreGiven, NEW c \in Calls, Answers(c),
         NEW y \in Calls, Conclude(y)
  PROVE  Answers(c)'
<1>1. [Next]_vars
  BY DEF Next, Handle
<1>2. /\ InForce(Content)' = InForce(Content)
      /\ UNCHANGED <<shell, seen, blurred, card>> /\ call[y].pc = "judged"
  BY DEF Conclude, InForce, Content, diskVars, engineVars
<1>3. /\ OnlyCall(y) /\ call'[y].pc = "answered" /\ SameCommand(y)
      /\ \/ call'[y].cause \in {call[y].cause, "cognitive"}
         \/ /\ call'[y].cause = "allow" /\ call[y].cause = "require_approval"
            /\ verdict = "APPROVED"
  BY ConcludeEffect
<1>4. CASE c # y
  BY <1>1, <1>2, <1>3, <1>4, AnswersKept DEF OnlyCall, SameCommand
<1>5. CASE c = y
  <2>1. shell[c] \notin {"ran", "dry_run"}
    BY <1>2, <1>5 DEF Life, LifeOf
  <2>2. ASSUME Live(c)', ~blurred' PROVE Sound(c)'
    <3>1. Sound(c)
      BY <1>2, <1>5, <2>2 DEF Answers, Live
    <3>2. PICK rules \in seen[c] :
            \/ call[c].cause \in {Decide(rules, call[c].role, call[c].cmd), "cognitive"}
            \/ /\ call[c].cause = "allow" /\ StepApproved
               /\ Decide(rules, call[c].role, call[c].cmd) = "require_approval"
      BY <3>1 DEF Sound
    <3>3. \/ call'[c].cause \in {Decide(rules, call[c].role, call[c].cmd), "cognitive"}
          \/ /\ call'[c].cause = "allow" /\ StepApproved
             /\ Decide(rules, call[c].role, call[c].cmd) = "require_approval"
      BY <1>3, <1>5, <3>2 DEF ApprovalsAreGiven
    <3> QED
      BY <1>2, <1>3, <1>5, <3>3 DEF Sound, SameCommand, StepApproved
  <2> QED
    BY <1>2, <1>3, <1>5, <2>1, <2>2 DEF Answers
<1> QED
  BY <1>4, <1>5

LEMMA AnswersCrash ==
  ASSUME TInv, Life, NEW c \in Calls, Answers(c), Crash
  PROVE  Answers(c)'
<1>1. UNCHANGED <<shell, seen>> /\ [Next]_vars
  BY DEF Crash, Next
<1>2. /\ SameCommand(c) /\ call'[c].cause = call[c].cause
      /\ call'[c].pc = IF call[c].pc \in {"idle", "answered"} THEN call[c].pc ELSE "gone"
  BY CrashEffect
<1> QED
  BY <1>1, <1>2, AnswersKept

LEMMA AnswersStep ==
  ASSUME GInv, [Next]_vars, NEW c \in Calls
  PROVE  Answers(c)'
<1>0. TInv /\ Life /\ LockHeld /\ ApprovalsAreGiven /\ (~blurred => RulesKnown) /\ Answers(c)
  BY DEF GInv
<1>1. CASE UNCHANGED <<shell, call, seen>> /\ InForce(Content)' = InForce(Content)
  BY <1>0, <1>1, AnswersKept DEF SameCommand
<1>2. CASE Boot
  <2>1. UNCHANGED <<shell, call, seen>> /\ daemon = "down"
    BY <1>2 DEF Boot
  <2>2. call[c].pc # "sent"
    BY <1>0, <2>1 DEF Life, LifeOf
  <2> QED
    BY <1>0, <2>1, <2>2, AnswersKept DEF SameCommand
<1>3. CASE BootStat \/ UNCHANGED vars \/ \E y \in Calls : AnswerCard(y)
  <2>1. UNCHANGED <<shell, call, seen>> /\ InForce(Content)' = InForce(Content)
    BY <1>3 DEF BootStat, AnswerCard, diskVars, engineVars, vars, InForce, Content
  <2> QED
    BY <1>1, <2>1
<1>4. ASSUME NEW y \in Calls, SendCard(y)
      PROVE  Answers(c)'
  <2>1. UNCHANGED <<shell, seen>> /\ InForce(Content)' = InForce(Content)
    BY <1>4 DEF SendCard, diskVars, engineVars, InForce, Content
  <2>2. /\ SameCommand(c) /\ call'[c].cause = call[c].cause /\ call'[c].pc = call[c].pc
    BY <1>0, <1>4, SendCardEffect DEF OnlyCall, SameCommand
  <2> QED
    BY <1>0, <2>1, <2>2, AnswersKept
<1> QED
  BY <1>0, <1>2, <1>3, <1>4, AnswersEdit, AnswersSend, AnswersShell, AnswersEvaluate,
     AnswersConclude, AnswersCrash
  DEF Next, Handle

LEMMA GInvStep == GInv /\ [Next]_vars => GInv'
BY TInvStep, LifeStep, LockStep, ApprovalsStep, RulesStep, AnswersStep DEF GInv

LEMMA GInvInit == Init => GInv
<1> SUFFICES ASSUME Init PROVE GInv
  OBVIOUS
<1>1. TInv
  BY TInvInit
<1>2. \A c \in Calls : call[c].pc = "idle" /\ call[c].background = "none"
  <2>1. (CHOOSE x \in Cmds : TRUE) \in Cmds
    BY CallsAssumption
  <2> QED
    BY <2>1, IdleCall DEF Init
<1>3. \A c \in Calls : shell[c] = "idle" /\ card[c] = "none"
  BY DEF Init
<1>4. daemon = "down" /\ verdict = "none" /\ lock = Unlocked
  BY DEF Init
<1>5. lock.holder = NoCall
  BY <1>4, UnlockedLock
<1>6. Life /\ LockHeld /\ ApprovalsAreGiven
  BY <1>2, <1>3, <1>4, <1>5 DEF Life, LifeOf, LockHeld, ApprovalsAreGiven
<1>7. RulesKnown
  BY <1>4 DEF RulesKnown
<1>8. \A c \in Calls : Answers(c)
  BY <1>3 DEF Answers, Live
<1> QED
  BY <1>1, <1>6, <1>7, <1>8 DEF GInv

\* The verdicts that let a command execute, class by class.
LEMMA DecideAllow ==
  ASSUME NEW rules, NEW role, NEW cmd, Decide(rules, role, cmd) = "allow"
  PROVE  /\ cmd \notin RootDeletes /\ ~MatchAny(rules, role, "blacklist", cmd)
         /\ ~MatchAny(rules, role, "approval", cmd) /\ PermissionsAllow(rules, role, cmd)
         /\ ~MatchAny(rules, role, "financial", cmd)
BY Zenon DEF Decide

LEMMA DecideFinancial ==
  ASSUME NEW rules, NEW role, NEW cmd, Decide(rules, role, cmd) = "financial"
  PROVE  /\ cmd \notin RootDeletes /\ ~MatchAny(rules, role, "blacklist", cmd)
         /\ ~MatchAny(rules, role, "approval", cmd) /\ PermissionsAllow(rules, role, cmd)
         /\ MatchAny(rules, role, "financial", cmd)
BY Zenon DEF Decide

LEMMA DecideApproval ==
  ASSUME NEW rules, NEW role, NEW cmd, Decide(rules, role, cmd) = "require_approval"
  PROVE  /\ cmd \notin RootDeletes /\ ~MatchAny(rules, role, "blacklist", cmd)
         /\ MatchAny(rules, role, "approval", cmd)
BY Zenon DEF Decide

LEMMA SoundIsPermitted == GInv => RunsArePermitted
<1> SUFFICES ASSUME GInv, ~blurred, NEW c \in Calls
             PROVE  LET role == call[c].role  cmd == call[c].cmd IN
                    /\ shell[c] \in {"ran", "dry_run"} => cmd \notin RootDeletes
                    /\ shell[c] = "ran" => \E rules \in seen[c] :
                         /\ ~MatchAny(rules, role, "blacklist", cmd)
                         /\ IF MatchAny(rules, role, "approval", cmd) THEN StepApproved
                            ELSE /\ PermissionsAllow(rules, role, cmd)
                                 /\ ~MatchAny(rules, role, "financial", cmd)
                    /\ shell[c] = "dry_run" => \E rules \in seen[c] :
                         /\ MatchAny(rules, role, "financial", cmd)
                         /\ PermissionsAllow(rules, role, cmd)
                         /\ ~MatchAny(rules, role, "blacklist", cmd)
                         /\ ~MatchAny(rules, role, "approval", cmd)
  BY DEF RunsArePermitted
<1> DEFINE role == call[c].role
           cmd == call[c].cmd
<1>1. ASSUME shell[c] \in {"ran", "dry_run"}
      PROVE  \E rules \in seen[c] :
               LET d == Decide(rules, role, cmd) IN
               \/ call[c].cause \in {d, "cognitive"}
               \/ call[c].cause = "allow" /\ d = "require_approval" /\ StepApproved
  <2>1. call[c].pc = "answered" /\ Answers(c)
    BY <1>1 DEF GInv, Life, LifeOf
  <2> QED
    BY <1>1, <2>1 DEF Answers, Live, Sound
<1>2. ASSUME shell[c] = "ran"
      PROVE  \E rules \in seen[c] :
               \/ Decide(rules, role, cmd) = "allow"
               \/ Decide(rules, role, cmd) = "require_approval" /\ StepApproved
  BY <1>1, <1>2 DEF GInv, Answers
<1>3. ASSUME shell[c] = "dry_run"
      PROVE  \E rules \in seen[c] : Decide(rules, role, cmd) = "financial"
  BY <1>1, <1>3 DEF GInv, Answers
<1> HIDE DEF role, cmd
<1>4. shell[c] = "ran" => cmd \notin RootDeletes /\ \E rules \in seen[c] :
        /\ ~MatchAny(rules, role, "blacklist", cmd)
        /\ IF MatchAny(rules, role, "approval", cmd) THEN StepApproved
           ELSE /\ PermissionsAllow(rules, role, cmd)
                /\ ~MatchAny(rules, role, "financial", cmd)
  <2> SUFFICES ASSUME shell[c] = "ran"
               PROVE  cmd \notin RootDeletes /\ \E rules \in seen[c] :
                        /\ ~MatchAny(rules, role, "blacklist", cmd)
                        /\ IF MatchAny(rules, role, "approval", cmd) THEN StepApproved
                           ELSE /\ PermissionsAllow(rules, role, cmd)
                                /\ ~MatchAny(rules, role, "financial", cmd)
    OBVIOUS
  <2>1. PICK rules \in seen[c] :
          \/ Decide(rules, role, cmd) = "allow"
          \/ Decide(rules, role, cmd) = "require_approval" /\ StepApproved
    BY <1>2
  <2> QED
    BY <2>1, DecideAllow, DecideApproval, Zenon
<1>5. shell[c] = "dry_run" => cmd \notin RootDeletes /\ \E rules \in seen[c] :
        /\ MatchAny(rules, role, "financial", cmd) /\ PermissionsAllow(rules, role, cmd)
        /\ ~MatchAny(rules, role, "blacklist", cmd)
        /\ ~MatchAny(rules, role, "approval", cmd)
  BY <1>3, DecideFinancial, Zenon
<1> QED
  BY <1>4, <1>5, Zenon DEF role, cmd

\* What executes was permitted by rules that were in force during its call, a command
\* that needs approval only after a card of the step was approved, and one that moves
\* money only as its dry run: for any profiles, calls, edits and crashes, as long as
\* no change of a file was one that its time does not show.
THEOREM RunsArePermittedAlways == Spec => []RunsArePermitted
BY GInvInit, GInvStep, SoundIsPermitted, PTL DEF Spec

=============================================================================
