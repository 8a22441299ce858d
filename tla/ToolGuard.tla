----------------------------- MODULE ToolGuard -----------------------------
(***************************************************************************)
(* The tool guard (janus/src/tool_guard, bin/janush.rs and the GuardCheck  *)
(* handler of the daemon).  A pane runs its commands through janush, which *)
(* asks the daemon and executes, rewrites or refuses.  The daemon judges   *)
(* by the rules of agents.toml, which it reloads when the file's           *)
(* modification time changes, then asks the blueprint's cognitive          *)
(* provider, then looks for an approval of the step; a dangerous command   *)
(* suspends the step and sends a card in a task of its own.                *)
(*                                                                         *)
(* Globs and capabilities are data: a profile says which commands its      *)
(* patterns hit.  The rules mutex is held from the look at the file's time *)
(* to the end of the load, whose steps come one by one with it in between. *)
(***************************************************************************)
EXTENDS Naturals, FiniteSets

CONSTANTS Calls,       \* invocations of janush
          Roles,       \* values of JANUS_AGENT; "default" is the fallback profile
          Cmds,
          Invocations, \* the roles and commands that each call may come with
          RootDeletes, \* commands that env_injection_root_delete detects
          Capability,  \* capability_of, a function of the command
          Files,       \* what the project's and the global agents.toml can hold
          RulesOf,     \* what such a text parses to, by role
          Absent, Bad, \* no such file; a text that is no TOML
          Edits, Crashes

NoCall == "none"

ASSUME FilesAssumption ==
  /\ DOMAIN Files = {"project", "global"} /\ Absent # Bad
  /\ \A f \in DOMAIN Files : \A text \in Files[f] \ {Absent, Bad} :
       DOMAIN RulesOf[text] \subseteq Roles
ASSUME RootDeletesAssumption == RootDeletes \subseteq Cmds
ASSUME DefaultAssumption == "default" \in Roles
ASSUME CallsAssumption ==
  /\ NoCall \notin Calls /\ Cmds # {}
  /\ \A c \in Calls : Invocations[c] \subseteq [role : Roles, cmd : Cmds]
ASSUME BoundsAssumption == Edits \in Nat /\ Crashes \in Nat

VARIABLES file,      \* the project's and the global agents.toml
          mtime,     \* modification time of the primary one
          edits, crashes,
          daemon,    \* "down", "booting" (rules read, time not yet), "up"
          primary,   \* the file that is reloaded
          engine,    \* the daemon's rules and the time it remembers
          lock,      \* the call that reloads the rules, and the time it looked up
          call,      \* the calls as the daemon sees them
          shell,     \* the janush of a call
          verdict,   \* hitl_verdict of the step that the panes belong to
          card,      \* HITL cards and their answers, by call
          seen,      \* history: rule sets in force between a call and its verdict
          boot,      \* history: what the files said at startup, until an edit
          blurred    \* history: a change that left no newer time behind

vars == <<file, mtime, edits, crashes, daemon, primary, engine, lock, call,
          shell, verdict, card, seen, boot, blurred>>
diskVars == <<file, mtime, edits, seen, boot, blurred>>
engineVars == <<daemon, primary, engine, lock, crashes>>

NoTime == 0
LockOf(holder) == [holder |-> holder, looked |-> FALSE, time |-> NoTime]
Unlocked == LockOf(NoCall)
NoRules == [r \in {} |-> 0]     \* AgentRules::default()
Text(content) == IF content \in {Absent, Bad} THEN NoRules ELSE RulesOf[content]

Dangerous == {"blacklist", "require_approval"}
Causes == Dangerous \cup {"none", "permissions", "financial", "allow", "cognitive"}
Kind(cause) ==
  IF cause = "allow" THEN "ALLOW" ELSE IF cause = "financial" THEN "REWRITE" ELSE "BLOCK"
Shells == {"idle", "waiting", "ran", "dry_run", "blocked"}
(* An OVERRIDDEN step is treated like a REJECTED one. *)
Verdicts == {"APPROVED", "REJECTED"}

TypeOK ==
  /\ \A f \in DOMAIN Files : file[f] \in Files[f]
  /\ mtime \in 1..Edits + 1 /\ edits \in 0..Edits /\ crashes \in 0..Crashes
  /\ daemon \in {"down", "booting", "up"}
  /\ primary \in {"project", "global"}
  /\ engine.time \in 0..Edits + 1 /\ DOMAIN engine.rules \subseteq Roles
  /\ lock \in [holder : Calls \cup {NoCall}, looked : BOOLEAN, time : 0..Edits + 1]
  /\ call \in [Calls -> [pc : {"idle", "sent", "judged", "answered", "gone"},
                         cmd : Cmds, role : Roles, cause : Causes,
                         background : {"none", "spawned", "done", "lost"}]]
  /\ shell \in [Calls -> Shells]
  /\ verdict \in Verdicts \cup {"none"}
  /\ card \in [Calls -> {"none", "pending"} \cup Verdicts]
  /\ blurred \in BOOLEAN

-----------------------------------------------------------------------------
(* Rules *)

(* AgentRules::load_merged: a role of the project's file replaces the      *)
(* global one; one text that cannot be parsed leaves no rules at all.      *)
MergedRules(project, global) ==
  LET own == Text(project)  shared == Text(global) IN
  IF Bad \in {project, global} THEN NoRules
  ELSE [r \in DOMAIN own \cup DOMAIN shared |->
          IF r \in DOMAIN own THEN own[r] ELSE shared[r]]

(* match_any: the patterns of the role, then those of the default profile. *)
MatchAny(rules, role, class, cmd) ==
  \E r \in {role, "default"} \cap DOMAIN rules : cmd \in rules[r][class]

(* The profile of the role, or the default one; nothing is checked if there *)
(* is neither.                                                              *)
PermissionsAllow(rules, role, cmd) ==
  LET names == IF role \in DOMAIN rules THEN {role} ELSE {"default"} \cap DOMAIN rules IN
  \A r \in names :
    \/ rules[r].full
    \/ Capability[cmd] \in rules[r].permissions
    \/ rules[r].safe /\ Capability[cmd] # "ssh"

\* Mutant: approval is looked for before the blacklist.
Decide_approval(rules, role, cmd) ==
  CASE MatchAny(rules, role, "approval", cmd) -> "require_approval"
    [] MatchAny(rules, role, "blacklist", cmd) \/ cmd \in RootDeletes -> "blacklist"
    [] ~PermissionsAllow(rules, role, cmd) -> "permissions"
    [] MatchAny(rules, role, "financial", cmd) -> "financial"
    [] OTHER -> "allow"

(* Engine::evaluate after the reload: the first class that is hit. *)
Decide(rules, role, cmd) ==
  IF MatchAny(rules, role, "blacklist", cmd) \/ cmd \in RootDeletes THEN "blacklist"
  ELSE IF MatchAny(rules, role, "approval", cmd) THEN "require_approval"
  ELSE IF ~PermissionsAllow(rules, role, cmd) THEN "permissions"
  ELSE IF MatchAny(rules, role, "financial", cmd) THEN "financial"
  ELSE "allow"

-----------------------------------------------------------------------------
Idle(cmd) == [pc |-> "idle", cmd |-> cmd, role |-> "default", cause |-> "none",
            background |-> "none"]

Init ==
  /\ file \in [project : Files.project, global : Files.global]
  /\ mtime = 1 /\ edits = 0 /\ crashes = 0
  /\ daemon = "down" /\ primary = "global"
  /\ engine = [rules |-> NoRules, time |-> NoTime]
  /\ lock = Unlocked
  /\ call = [c \in Calls |-> Idle(CHOOSE x \in Cmds : TRUE)]
  /\ shell = [c \in Calls |-> "idle"]
  /\ verdict = "none"
  /\ card = [c \in Calls |-> "none"]
  /\ seen = [c \in Calls |-> {}]
  /\ boot = <<>>
  /\ blurred = FALSE

TimeOf(content, time) == IF content = Absent THEN NoTime ELSE time

(* What agents.toml says: both files as merged at startup, and the primary *)
(* one alone from its first change on.                                     *)
InForce(content) == IF boot = <<>> THEN Text(content) ELSE boot[1]

(* Somebody changes, removes or creates a file.  Two changes within the    *)
(* resolution of the file's time (tied) look like one.                     *)
Edit ==
  /\ edits < Edits
  /\ edits' = edits + 1
  /\ \E f \in {"project", "global"}, tied \in BOOLEAN : \E content \in Files[f] \ {file[f]} :
       LET new == Text(content) IN
       /\ file' = [file EXCEPT ![f] = content]
       /\ mtime' = IF f = primary /\ ~tied THEN mtime + 1 ELSE mtime
       /\ IF f = primary
          THEN /\ boot' = <<>>
               /\ seen' = [c \in Calls |-> IF call[c].pc = "sent" THEN seen[c] \cup {new} ELSE seen[c]]
               /\ blurred' = (blurred \/ daemon = "booting" \/ (tied /\ daemon = "up")
                                \/ (lock.looked /\ lock.time = NoTime))
          ELSE UNCHANGED <<boot, seen, blurred>>
  /\ UNCHANGED <<daemon, primary, engine, lock, crashes, call, shell, verdict, card>>

(* Engine::load_merged: the texts are read first ... *)
Boot ==
  /\ daemon = "down"
  /\ daemon' = "booting"
  /\ primary' = IF file.project = Absent THEN "global" ELSE "project"
  /\ LET rules == MergedRules(file.project, file.global) IN
       /\ engine' = [rules |-> rules, time |-> NoTime]
       /\ boot' = <<rules>>
  /\ UNCHANGED <<file, mtime, edits, seen, blurred, lock, crashes, call, shell, verdict, card>>

(* ... and the time of the primary file is looked up afterwards. *)
BootStat ==
  /\ daemon = "booting"
  /\ daemon' = "up"
  /\ engine' = [engine EXCEPT !.time = TimeOf(file[primary], mtime)]
  /\ UNCHANGED <<diskVars, primary, lock, crashes, call, shell, verdict, card>>

(* Requests and background tasks of the daemon end with it. *)
Crash ==
  /\ daemon = "up" /\ crashes < Crashes
  /\ crashes' = crashes + 1
  /\ daemon' = "down"
  /\ primary' = "global"
  /\ engine' = [rules |-> NoRules, time |-> NoTime]
  /\ lock' = Unlocked
  /\ boot' = <<>>
  /\ call' = [c \in Calls |-> [call[c] EXCEPT
       !.pc = IF @ \in {"idle", "answered"} THEN @ ELSE "gone",
       !.background = IF @ = "spawned" THEN "lost" ELSE @]]
  /\ UNCHANGED <<file, mtime, edits, seen, blurred, shell, verdict, card>>

-----------------------------------------------------------------------------
(* janush *)

(* build_guard_check and the connection; without a daemon the command is   *)
(* refused at once.  An unset JANUS_AGENT is the role "default".           *)
Send(c, cmd, role) ==
  /\ shell[c] = "idle"
  /\ IF daemon = "up"
     THEN /\ shell' = [shell EXCEPT ![c] = "waiting"]
          /\ call' = [call EXCEPT ![c] = [Idle(cmd) EXCEPT !.pc = "sent", !.role = role]]
          /\ seen' = [seen EXCEPT ![c] = {InForce(file[primary])}]
     ELSE /\ shell' = [shell EXCEPT ![c] = "blocked"]
          /\ UNCHANGED <<call, seen>>
  /\ UNCHANGED <<file, mtime, edits, boot, blurred, engineVars, verdict, card>>

(* The history of a call that was refused is not needed any more. *)
Forget(c) == seen' = [seen EXCEPT ![c] = IF shell'[c] = "blocked" THEN {} ELSE @]

(* The answer arrives: execute, execute the dry run, or exit with 126. *)
Obey(c) ==
  /\ shell[c] = "waiting" /\ call[c].pc = "answered"
  /\ shell' = [shell EXCEPT ![c] =
       CASE Kind(call[c].cause) = "ALLOW" -> "ran"
         [] Kind(call[c].cause) = "REWRITE" -> "dry_run"
         [] OTHER -> "blocked"]
  /\ Forget(c)
  /\ UNCHANGED <<file, mtime, edits, boot, blurred, engineVars, call, verdict, card>>

(* 30 seconds without an answer, or a connection that ends. *)
FailClosed(c) ==
  /\ shell[c] = "waiting"
  /\ shell' = [shell EXCEPT ![c] = "blocked"]
  /\ Forget(c)
  /\ UNCHANGED <<file, mtime, edits, boot, blurred, engineVars, call, verdict, card>>

-----------------------------------------------------------------------------
(* GuardCheck *)

Judged(c, rules) ==
  call' = [call EXCEPT ![c].pc = "judged", ![c].cause = Decide(rules, call[c].role, call[c].cmd)]

(* refresh_if_changed finds the time it remembers, or starts to load.  The  *)
(* mutex is released before the rules are matched; that another call loads *)
(* in between amounts to its load having come first.                       *)
Evaluate(c) ==
  /\ call[c].pc = "sent" /\ lock.holder = NoCall
  /\ IF TimeOf(file[primary], mtime) = engine.time
     THEN Judged(c, engine.rules) /\ UNCHANGED lock
     ELSE lock' = LockOf(c) /\ UNCHANGED call
  /\ UNCHANGED <<diskVars, daemon, primary, engine, crashes, shell, verdict, card>>

(* load_fresh looks the time up again ... *)
LoadStat(c) ==
  /\ lock.holder = c /\ ~lock.looked
  /\ lock' = [holder |-> c, looked |-> TRUE, time |-> TimeOf(file[primary], mtime)]
  /\ UNCHANGED <<diskVars, daemon, primary, engine, crashes, call, shell, verdict, card>>

(* ... and then reads the primary file only. *)
Load(c) ==
  /\ lock.holder = c /\ lock.looked
  /\ engine' = [rules |-> Text(file[primary]), time |-> lock.time]
  /\ lock' = Unlocked
  /\ Judged(c, Text(file[primary]))
  /\ UNCHANGED <<diskVars, daemon, primary, crashes, shell, verdict, card>>

(* CognitiveProvider::validate_command: what a call of the provider comes to. *)
Opinions == {"none", "reason", "unreachable", "timeout"}

(* cognitive_check: only a reason counts, and it replaces any verdict. *)
Advised(cause) == {IF o = "reason" THEN "cognitive" ELSE cause : o \in Opinions}

(* A step whose overlay row is APPROVED needs no further approval; if the *)
(* row cannot be read the block stands.                                   *)
Lifted(cause) ==
  IF cause = "require_approval" /\ verdict = "APPROVED"
  THEN {"allow", cause} ELSE {cause}

\* Mutant: no task is spawned for a janush that has given up.
Conclude_gone(c) ==
  /\ call[c].pc = "judged"
  /\ \E advised \in Advised(call[c].cause) : \E cause \in Lifted(advised) :
       call' = [call EXCEPT ![c].pc = "answered", ![c].cause = cause,
         ![c].background = IF cause \in Dangerous /\ shell[c] = "waiting"
                           THEN "spawned" ELSE "none"]
  /\ UNCHANGED <<diskVars, engineVars, shell, verdict, card>>

(* The provider, the query for an approval, and the answer.  What the query *)
(* finds is the only thing in this that others write.                       *)
Conclude(c) ==
  /\ call[c].pc = "judged"
  /\ \E advised \in Advised(call[c].cause) : \E cause \in Lifted(advised) :
       call' = [call EXCEPT ![c].pc = "answered", ![c].cause = cause,
         ![c].background = IF cause \in Dangerous THEN "spawned" ELSE "none"]
  /\ UNCHANGED <<diskVars, engineVars, shell, verdict, card>>

(* The spawned task: suspend_step, whose failure is only logged and which  *)
(* WorkflowEngine models, and the card.                                    *)
SendCard(c) ==
  /\ call[c].background = "spawned"
  /\ card' = [card EXCEPT ![c] = "pending"]
  /\ call' = [call EXCEPT ![c].background = "done"]
  /\ UNCHANGED <<diskVars, engineVars, shell, verdict>>

\* Mutant: the row gets the button's name in place of the verdict's.
AnswerCard_button(c) ==
  /\ daemon = "up" /\ card[c] = "pending"
  /\ card' = [card EXCEPT ![c] = "APPROVED"]
  /\ verdict' = "APPROVE"
  /\ UNCHANGED <<diskVars, engineVars, call, shell>>

(* The verdict on a card is recorded for its step, not for its command; *)
(* that this fails is only logged.                                      *)
AnswerCard(c) ==
  /\ daemon = "up" /\ card[c] = "pending"
  /\ \E v \in Verdicts :
       /\ card' = [card EXCEPT ![c] = v]
       /\ verdict' \in {v, verdict}
  /\ UNCHANGED <<diskVars, engineVars, call, shell>>

Handle(c) == Evaluate(c) \/ LoadStat(c) \/ Load(c) \/ Conclude(c)

Next ==
  \/ Edit \/ Boot \/ BootStat \/ Crash
  \/ \E c \in Calls :
       \/ \E i \in Invocations[c] : Send(c, i.cmd, i.role)
       \/ Obey(c) \/ FailClosed(c)
       \/ Handle(c)
       \/ SendCard(c)
       \/ AnswerCard(c)

(* The runtime goes on with what it began. *)
Fairness == \A c \in Calls : WF_vars(Handle(c)) /\ WF_vars(SendCard(c))

Spec == Init /\ [][Next]_vars /\ Fairness

-----------------------------------------------------------------------------
StepApproved == \E c \in Calls : card[c] = "APPROVED"

(* What executes was permitted by rules that were in force at some moment  *)
(* of its call: never a command that all of them blacklist, one that needs *)
(* approval only after a human approved a card of the step, and one that   *)
(* moves money only as its dry run.  The reload is checked against edits   *)
(* at any point, the verdict against the rules of a later edit, a provider *)
(* that replaces it, and a daemon that ends.  The exception (blurred) is   *)
(* a change that the reload cannot see, since the file's time is that of   *)
(* the rules the daemon has: two changes in one tick of the file system, a *)
(* change while load_merged is between the texts and the time, or one that *)
(* makes a file after load_fresh looked its time up and before it reads.   *)
RunsArePermitted ==
  ~blurred => \A c \in Calls :
    LET Hits(rules, class) == MatchAny(rules, call[c].role, class, call[c].cmd)
        Allowed(rules) == PermissionsAllow(rules, call[c].role, call[c].cmd) IN
    /\ shell[c] \in {"ran", "dry_run"} => call[c].cmd \notin RootDeletes
    /\ shell[c] = "ran" => \E rules \in seen[c] :
         /\ ~Hits(rules, "blacklist")
         /\ IF Hits(rules, "approval") THEN StepApproved
            ELSE Allowed(rules) /\ ~Hits(rules, "financial")
    /\ shell[c] = "dry_run" => \E rules \in seen[c] :
         Hits(rules, "financial") /\ Allowed(rules)
           /\ ~Hits(rules, "blacklist") /\ ~Hits(rules, "approval")

(* Nothing dangerous is refused in silence: a command that is judged to be *)
(* blacklisted or to need approval ends in a card, also when its janush    *)
(* has given up before, unless the step was approved, the cognitive        *)
(* provider replaced the verdict ("a hard deny - no HITL card"), or the    *)
(* daemon ended, whose background task is not durable.                     *)
DangerousBlocksGetCards ==
  \A c \in Calls :
    call[c].pc = "judged" /\ call[c].cause \in Dangerous ~>
      \/ card[c] # "none"
      \/ call[c].pc = "answered" /\ call[c].cause \in {"allow", "cognitive"}
      \/ call[c].pc = "gone" \/ call[c].background = "lost"

=============================================================================
