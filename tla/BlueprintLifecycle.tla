------------------------ MODULE BlueprintLifecycle ------------------------
(***************************************************************************)
(* Onboarding and offboarding of a blueprint (lifecycle.rs) on the store   *)
(* of BlueprintStore, beside its writers, its replay and each other: every *)
(* request is a task of its own in the daemon and nothing keeps two apart. *)
(***************************************************************************)
EXTENDS BlueprintStore, Integers

CONSTANTS Commands,      \* onboard and offboard requests, numbered as they come
          RecentSteps    \* how many rows an offboard reads

ASSUME LifecycleAssumption == RecentSteps \in Nat \ {0} /\ Commands \subseteq Nat

VARIABLES cmd,
          status,       \* of the blueprint in the catalogue
          report,       \* the rows that production_report.md tells of
          committed,    \* the rows that its versions in git tell of
          purged,       \* history: rows deleted that had to be reported
          uncounted,    \* history: rows that a request deleted, less those it audited
          mishaps       \* history: what the properties except

lifecycleVars == <<cmd, status, report, committed, purged, uncounted, mishaps>>
vars == <<storeVars, lifecycleVars>>

Offboarding == {"scan", "smelt", "count", "purge", "audit", "mark", "commit"}
Onboarding == {"register", "ensure", "version", "load", "migrate"}
Resting == {"idle", "ended", "onboarded"}

TypeOK ==
  /\ StoreTypeOK
  /\ cmd \in [Commands -> [pc : Resting \cup Offboarding \cup Onboarding,
                           table : Seq(Rows), count : Nat]]
  /\ status \in {"none", "ACTIVE", "OFFBOARDED"}
  /\ report \subseteq Rows /\ committed \subseteq Rows /\ purged \subseteq Rows
  /\ uncounted \in [Commands -> Int]
  /\ mishaps \subseteq {"overwritten", "unaudited", "miscounted"}

Idle == [pc |-> "idle", table |-> <<>>, count |-> 0]

Init ==
  /\ StoreInit
  /\ cmd = [c \in Commands |-> Idle]
  /\ status = (IF database = "none" THEN "none" ELSE "ACTIVE")
  /\ report = {} /\ committed = {} /\ purged = {} /\ mishaps = {}
  /\ uncounted = [c \in Commands |-> 0]

-----------------------------------------------------------------------------
At(c, pc) == daemon /\ cmd[c].pc = pc
Goes(c, pc) ==
  cmd' = [cmd EXCEPT ![c] = IF pc \in Resting THEN [Idle EXCEPT !.pc = pc] ELSE [@ EXCEPT !.pc = pc]]
Fails(c) == Goes(c, "ended") /\ UNCHANGED <<status, report, committed, purged, uncounted, mishaps>>

(* A recipe or a configuration that is not valid, or no catalogue pool,    *)
(* refuse the request; nothing is written.                                 *)
Begin(c, first) ==
  /\ At(c, "idle") /\ \A d \in Commands : d < c => cmd[d].pc # "idle"
  /\ Goes(c, "ended") \/ (catalog /\ Goes(c, first))
  /\ UNCHANGED <<storeVars, status, report, committed, purged, uncounted, mishaps>>

(* register_blueprint *)
Register(c) ==
  /\ At(c, "register")
  /\ IF up THEN /\ status' = "ACTIVE" /\ Goes(c, "ensure")
                /\ UNCHANGED <<report, committed, purged, uncounted, mishaps>>
     ELSE Fails(c)
  /\ UNCHANGED storeVars

Ensure(c) ==
  /\ daemon /\ cmd[c].pc \in {"ensure", "version", "load", "migrate"}
  /\ \E to \in {"version", "load", "migrate", "ensured", "failed"} :
       /\ EnsureStep(cmd[c].pc, to)
       /\ Goes(c, CASE to = "ensured" -> "onboarded" [] to = "failed" -> "ended" [] OTHER -> to)
  /\ UNCHANGED <<connection, overlay, ring, queue, replayer, writes, faults, history, halfMade>>
  /\ UNCHANGED <<status, report, committed, purged, uncounted, mishaps>>

Recent(table) == Range(SubSeq(table, 1, IF Len(table) < RecentSteps THEN Len(table) ELSE RecentSteps))

(* scan_offboard_traces *)
Scan(c) ==
  /\ At(c, "scan")
  /\ IF Answers /\ PoolFound
     THEN /\ TakePool /\ cmd' = [cmd EXCEPT ![c].pc = "smelt", ![c].table = overlay]
          /\ UNCHANGED <<status, report, committed, purged, uncounted, mishaps>>
     ELSE Fails(c) /\ (IF PoolFound THEN TakePool ELSE UNCHANGED <<pool, halfMade>>)
  /\ UNCHANGED <<connection, files, queue, replayer, writes, faults, history>>

(* Rows that are gone, or that another offboard has read and will delete. *)
Owed(c) == purged \cup UNION {Recent(cmd[d].table) : d \in Commands \ {c}}

\* Mutant: of more rows than it takes, the oldest are reported.
Smelt_oldest(c) ==
  /\ At(c, "smelt")
  /\ \/ /\ report' = Recent(Reverse(cmd[c].table))
        /\ mishaps' = mishaps \cup
             (IF report \cap Owed(c) \subseteq report' \cup committed THEN {} ELSE {"overwritten"})
        /\ Goes(c, "count") /\ UNCHANGED <<status, committed, purged, uncounted>>
     \/ Fails(c)
  /\ UNCHANGED storeVars

(* The report is smelted, which may take two minutes, or is a snapshot of  *)
(* the rows, and replaces the file, if that can be written.                *)
Smelt(c) ==
  /\ At(c, "smelt")
  /\ \/ /\ report' = Recent(cmd[c].table)
        /\ mishaps' = mishaps \cup
             (IF report \cap Owed(c) \subseteq report' \cup committed THEN {} ELSE {"overwritten"})
        /\ Goes(c, "count") /\ UNCHANGED <<status, committed, purged, uncounted>>
     \/ Fails(c)
  /\ UNCHANGED storeVars

(* offboard_blueprint_data counts the rows, deletes them and writes their  *)
(* number to the audit log of the catalogue: three statements.             *)
Count(c) ==
  /\ At(c, "count")
  /\ IF Answers THEN /\ cmd' = [cmd EXCEPT ![c].pc = "purge", ![c].count = Len(overlay)]
                     /\ UNCHANGED <<status, report, committed, purged, uncounted, mishaps>>
     ELSE Fails(c)
  /\ UNCHANGED storeVars

(* Rows that c had seen and read, and that are deleted. *)
Due(c) == Range(overlay) \cap Recent(cmd[c].table)

Purge(c) ==
  /\ At(c, "purge")
  /\ IF Answers
     THEN /\ overlay' = <<>>
          /\ excused' = excused \cup {s \in Steps : said[s] \in Stamps(RowOf(s)) \ {0}}
          /\ purged' = purged \cup Due(c)
          /\ uncounted' = [uncounted EXCEPT ![c] = @ + Len(overlay)]
          /\ mishaps' = mishaps \cup (IF Len(overlay) = cmd[c].count THEN {} ELSE {"miscounted"})
          /\ Goes(c, "audit") /\ UNCHANGED <<status, report, committed>>
     ELSE Fails(c) /\ UNCHANGED <<overlay, excused>>
  /\ UNCHANGED <<connection, pool, database, ring, queue, replayer, writes, faults, said, halfMade>>

\* Mutant: the audit tells of the rows that were read.
Audit_scanned(c) ==
  /\ At(c, "audit")
  /\ IF up THEN /\ uncounted' = [uncounted EXCEPT ![c] = @ - Len(cmd[c].table)]
                /\ Goes(c, "mark") /\ UNCHANGED <<status, report, committed, purged, mishaps>>
     ELSE /\ mishaps' = mishaps \cup {"unaudited"}
          /\ Goes(c, "ended") /\ UNCHANGED <<status, report, committed, purged, uncounted>>
  /\ UNCHANGED storeVars

Audit(c) ==
  /\ At(c, "audit")
  /\ IF up THEN /\ uncounted' = [uncounted EXCEPT ![c] = @ - cmd[c].count]
                /\ Goes(c, "mark") /\ UNCHANGED <<status, report, committed, purged, mishaps>>
     ELSE /\ mishaps' = mishaps \cup {"unaudited"}
          /\ Goes(c, "ended") /\ UNCHANGED <<status, report, committed, purged, uncounted>>
  /\ UNCHANGED storeVars

(* set_blueprint_offboarded: an UPDATE, of no row if there is none. *)
Mark(c) ==
  /\ At(c, "mark")
  /\ IF up THEN /\ status' = (IF status = "none" THEN "none" ELSE "OFFBOARDED")
                /\ Goes(c, "commit") /\ UNCHANGED <<report, committed, purged, uncounted, mishaps>>
     ELSE Fails(c)
  /\ UNCHANGED storeVars

(* git_commit_report, best effort, of the file as it is then. *)
Commit(c) ==
  /\ At(c, "commit")
  /\ committed' \in {committed, committed \cup report}
  /\ Goes(c, "ended")
  /\ UNCHANGED <<storeVars, status, report, purged, uncounted, mishaps>>

(* With the daemon go the requests it works on. *)
Crash ==
  /\ StoreCrash
  /\ cmd' = [c \in Commands |-> IF cmd[c].pc \in Resting THEN cmd[c] ELSE [Idle EXCEPT !.pc = "ended"]]
  /\ mishaps' = mishaps \cup (IF \E c \in Commands : cmd[c].pc = "audit" THEN {"unaudited"} ELSE {})
  /\ UNCHANGED <<status, report, committed, purged, uncounted>>

Onboard(c) == Begin(c, "register") \/ Register(c) \/ Ensure(c)
Offboard(c) ==
  \/ Begin(c, "scan") \/ Scan(c) \/ Smelt(c) \/ Count(c) \/ Purge(c) \/ Audit(c) \/ Mark(c) \/ Commit(c)

Next ==
  \/ StoreNext /\ UNCHANGED lifecycleVars
  \/ \E c \in Commands : Onboard(c) \/ Offboard(c)
  \/ Crash

Spec == Init /\ [][Next]_vars

-----------------------------------------------------------------------------
(* lifecycle.rs:238-249: what an offboard deletes is told first.  A row that *)
(* it read and then deleted is in production_report.md or in git, through  *)
(* outages, crashes between the steps and other requests; not so the rows  *)
(* beyond RecentSteps, nor what was written after the scan.  Excepted is a *)
(* second offboard, a retry for instance, that replaces a report which is  *)
(* not in git by one without these rows.                                   *)
PurgedRowsReported ==
  "overwritten" \notin mishaps => purged \subseteq report \cup committed

(* absurd/mod.rs:746, "refuse to purge without an audit trail": the audit  *)
(* log accounts for every deleted row once its offboard has written its    *)
(* entry.  It does not if the entry failed or a crash came before it, the  *)
(* rows being gone already (unaudited); nor if rows came or went between   *)
(* the count and the deletion (miscounted), by a writer, the replay or a   *)
(* second offboard.                                                        *)
PurgesAudited ==
  {"unaudited", "miscounted"} \cap mishaps = {} =>
    \A c \in Commands : uncounted[c] = IF cmd[c].pc = "audit" THEN cmd[c].count ELSE 0

(* An onboard that answered Ok leaves a database with the whole schema,    *)
(* whichever of its steps another onboard or the replay makes at the same  *)
(* time.  Excepted is a database left unfinished by an outage or a crash   *)
(* for which a writer has kept a pool: ensure_blueprint_db then does       *)
(* nothing.                                                                *)
OnboardedIsUsable ==
  ~halfMade => \A c \in Commands : cmd[c].pc = "onboarded" => database = "full"

=============================================================================
