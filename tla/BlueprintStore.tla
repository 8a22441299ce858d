--------------------------- MODULE BlueprintStore ---------------------------
(***************************************************************************)
(* Where janus-daemon keeps the progress of a blueprint's steps            *)
(* (absurd/mod.rs, absurd/fallback.rs, absurd/schema.rs): the overlay      *)
(* table in the blueprint's own database, reached by a pool that is made   *)
(* when it is first needed, and the SQLite ring that takes the writes of   *)
(* an outage and is replayed once Postgres is connected.  A write is known *)
(* by its number.                                                          *)
(***************************************************************************)
EXTENDS Naturals, Sequences, SequencesExt

CONSTANTS Steps,
          MaxEntries,   \* the limit of the ring
          Attempts,     \* how often a daemon tries to connect
          MaxWrites, MaxFaults   \* outages and crashes

ASSUME StoreAssumption ==
  MaxEntries \in Nat \ {0} /\ {Attempts, MaxWrites, MaxFaults} \subseteq Nat

VARIABLES up,         \* Postgres answers
          daemon,     \* the daemon runs
          attempts,   \* attempts to connect that are left to it
          catalog,    \* it has the catalogue pool
          pool,       \* it has the blueprint's pool
          database,   \* how far the blueprint's database is made
          overlay,    \* metamach_step_meta, the row that was touched last first
          ring,       \* fallback_events
          queue,      \* what replay_fallback has drained and not yet applied
          replayer,
          writes, faults,
          said,       \* history: the last write of a step that returned Ok
          excused,    \* history: steps whose last write may be lost
          halfMade    \* history: a pool of an unfinished database was kept

connection == <<up, daemon, attempts, catalog>>
files == <<database, overlay, ring>>
history == <<said, excused>>
storeVars == <<connection, pool, files, queue, replayer, writes, faults, history, halfMade>>

Columns == [status : 0..MaxWrites, verdict : 0..MaxWrites]
Rows == [step : Steps, status : 0..MaxWrites, verdict : 0..MaxWrites]
Events == [step : Steps, at : 1..MaxWrites]

InStep(rows, s) == {i \in DOMAIN rows : rows[i].step = s}
Pending(s) == InStep(ring, s) \cup InStep(queue, s) # {}
Stamps(r) == {r.status, r.verdict}

StoreTypeOK ==
  /\ {up, daemon, catalog, pool, halfMade} \subseteq BOOLEAN
  /\ attempts \in 0..Attempts
  /\ database \in {"none", "empty", "absurd", "full"}
  /\ overlay \in Seq(Rows)
  /\ \A i, j \in DOMAIN overlay : overlay[i].step = overlay[j].step => i = j
  /\ ring \in Seq(Events) /\ Len(ring) <= MaxEntries
  /\ queue \in Seq(Events) /\ Len(queue) <= MaxEntries
  /\ replayer \in {"off", "drain", "pool", "ended"} \cup {"ensure", "version", "load", "migrate"}
  /\ writes \in 0..MaxWrites /\ faults \in 0..MaxFaults
  /\ said \in [Steps -> 0..MaxWrites] /\ excused \subseteq Steps

(* open_degraded and spawn_connect in a daemon that just started; the      *)
(* blueprint is new, or its database was made before.                      *)
StoreInit ==
  /\ up \in BOOLEAN /\ daemon = TRUE
  /\ attempts = Attempts /\ catalog = FALSE /\ pool = FALSE
  /\ database \in {"none", "full"} /\ overlay = <<>>
  /\ ring = <<>> /\ queue = <<>> /\ replayer = "off"
  /\ writes = 0 /\ faults = 0
  /\ said = [s \in Steps |-> 0] /\ excused = {} /\ halfMade = FALSE

-----------------------------------------------------------------------------
(* Pools *)

(* blueprint_pool gives a pool: the one it has, also in an outage, or a new *)
(* one if the database exists and answers.  With the catalogue it looks the *)
(* database up first and takes an error for a no.                           *)
PoolFound == pool \/ (up /\ database # "none")

TakePool ==
  /\ PoolFound /\ pool' = TRUE
  /\ halfMade' = (halfMade \/ (~pool /\ database # "full"))

(* A query on the overlay succeeds. *)
Answers == up /\ database = "full"

\* Mutant: a database that exists is taken to be complete.
EnsureDatabase_trusting(to) ==
  \/ pool /\ to = "ensured" /\ UNCHANGED <<database, pool>>
  \/ ~pool /\ ~up /\ to = "failed" /\ UNCHANGED <<database, pool>>
  \/ ~pool /\ up /\ database = "none" /\ database' = "empty" /\ to = "version" /\ UNCHANGED pool
  \/ ~pool /\ up /\ database # "none" /\ to = "ensured" /\ pool' = TRUE /\ UNCHANGED database

(* ensure_blueprint_db does nothing if there is a pool (who calls it has  *)
(* the catalogue), and creates the database; the loser of a race for that *)
(* goes on like the winner.                                                *)
EnsureDatabase(to) ==
  \/ pool /\ to = "ensured" /\ UNCHANGED <<database, pool>>
  \/ ~pool /\ ~up /\ to = "failed" /\ UNCHANGED <<database, pool>>
  \/ /\ ~pool /\ up
     /\ database' = (IF database = "none" THEN "empty" ELSE database)
     /\ to = "version" /\ UNCHANGED pool

(* init_absurd_schema asks for the version, and loads absurd.sql if there  *)
(* is none; that is an error if somebody has done it in the meantime.      *)
InitSchema(at, to) ==
  /\ at \in {"version", "load"} /\ UNCHANGED pool
  /\ \/ ~up /\ to = "failed" /\ UNCHANGED database
     \/ /\ at = "version" /\ up /\ UNCHANGED database
        /\ to = (IF database = "empty" THEN "load" ELSE "migrate")
     \/ at = "load" /\ up /\ database = "empty" /\ database' = "absurd" /\ to = "migrate"
     \/ at = "load" /\ up /\ database # "empty" /\ to = "failed" /\ UNCHANGED database

(* The migrations 002 to 004, which can be repeated, and then the pool. *)
Migrate(to) ==
  \/ up /\ database' = "full" /\ pool' = TRUE /\ to = "ensured"
  \/ ~up /\ to = "failed" /\ UNCHANGED <<database, pool>>

(* A step of ensure_blueprint_db in onboarding or in the replay. *)
EnsureStep(at, to) ==
  \/ at = "ensure" /\ EnsureDatabase(to)
  \/ InitSchema(at, to)
  \/ at = "migrate" /\ Migrate(to)

-----------------------------------------------------------------------------
(* Writers *)

RowOf(s) == LET i == InStep(overlay, s) IN
  IF i = {} THEN [step |-> s, status |-> 0, verdict |-> 0] ELSE overlay[CHOOSE k \in i : TRUE]

(* The trigger on updated_at makes a written row the newest, before those  *)
(* that were touched since it was, or before all if it is new.             *)
Put(r) ==
  LET old == InStep(overlay, r.step)
      place == IF old = {} THEN Len(overlay) + 1 ELSE CHOOSE k \in old : TRUE IN
  [k \in DOMAIN overlay \cup {place} |->
     IF k = 1 THEN r ELSE IF k <= place THEN overlay[k - 1] ELSE overlay[k]]

\* Mutant: one event too many is kept.
Buffered_more(e) == LET all == Append(ring, e) IN
  IF Len(all) > MaxEntries + 1 THEN Tail(all) ELSE all

(* FallbackDb::record: append, then delete the oldest beyond the limit. *)
Buffered(e) == LET all == Append(ring, e) IN
  IF Len(all) > MaxEntries THEN Tail(all) ELSE all

(* The write of a step s returns Ok: history. *)
Accept(s, lost) ==
  /\ said' = [said EXCEPT ![s] = writes + 1]
  /\ excused' = lost

(* The blueprint cannot be reached: record_fallback_event.  A step whose   *)
(* newest event is evicted is excused.                                     *)
Buffer(s) ==
  LET full == Len(ring) = MaxEntries IN
  /\ ~PoolFound
  /\ ring' = Buffered([step |-> s, at |-> writes + 1])
  /\ Accept(s, (excused \cup {t \in Steps : full /\ [step |-> t, at |-> said[t]] = Head(ring)}) \ {s})
  /\ UNCHANGED <<pool, overlay, halfMade>>

(* It can, and the query succeeds on row r.  A step is excused if an older *)
(* event of it is still to be replayed over this write.                    *)
Direct(s, r) ==
  /\ Answers /\ TakePool
  /\ overlay' = Put(r)
  /\ Accept(s, IF Pending(s) THEN excused \cup {s} ELSE excused \ {s})
  /\ UNCHANGED ring

(* A pool is there but the query fails: the caller gets the error, and     *)
(* nothing is kept, neither here nor in the ring.                          *)
Refused == ~Answers /\ TakePool /\ UNCHANGED <<overlay, ring, history>>

(* UPDATE of a row that is not there: Ok, and nothing is written. *)
NoRow(s) ==
  /\ InStep(overlay, s) = {}
  /\ Answers /\ TakePool
  /\ Accept(s, IF Pending(s) THEN excused \cup {s} ELSE excused)
  /\ UNCHANGED <<overlay, ring>>

Writing ==
  /\ daemon /\ writes < MaxWrites /\ writes' = writes + 1
  /\ UNCHANGED <<connection, database, queue, replayer, faults>>

(* upsert_step_start: the verdict of the row stays. *)
StartStep(s) ==
  /\ Writing
  /\ Direct(s, [RowOf(s) EXCEPT !.status = writes + 1]) \/ Refused \/ Buffer(s)

(* An update of a step that was started: in suspend_step, set_step_running *)
(* and finalize_step of the status, in record_hitl_resolution of the       *)
(* verdict.                                                                *)
Update(s, r) ==
  /\ Writing /\ said[s] # 0
  /\ \/ InStep(overlay, s) # {} /\ Direct(s, r)
     \/ NoRow(s) \/ Refused \/ Buffer(s)

SetStatus(s) == Update(s, [RowOf(s) EXCEPT !.status = writes + 1])
RecordVerdict(s) == Update(s, [RowOf(s) EXCEPT !.verdict = writes + 1])

-----------------------------------------------------------------------------
(* Connection and replay *)

(* One of the attempts of spawn_connect, which nothing starts again. *)
Connect ==
  /\ daemon /\ ~catalog /\ attempts > 0
  /\ attempts' = attempts - 1 /\ catalog' = up
  /\ replayer' = IF up THEN "drain" ELSE "off"
  /\ UNCHANGED <<up, daemon, pool, files, queue, writes, faults, history, halfMade>>

\* Mutant: the newest event comes first.
Drain_newest ==
  /\ replayer = "drain"
  /\ queue' = Reverse(ring) /\ ring' = <<>>
  /\ replayer' = IF ring = <<>> THEN "ended" ELSE "ensure"
  /\ UNCHANGED <<connection, pool, database, overlay, writes, faults, history, halfMade>>

(* replay_fallback empties the ring under its mutex, oldest event first. *)
Drain ==
  /\ replayer = "drain"
  /\ queue' = ring /\ ring' = <<>>
  /\ replayer' = IF ring = <<>> THEN "ended" ELSE "ensure"
  /\ UNCHANGED <<connection, pool, database, overlay, writes, faults, history, halfMade>>

NewestIn(es) == {s \in Steps : \E i \in DOMAIN es : es[i] = [step |-> s, at |-> said[s]]}

(* The next event, if there is one. *)
Advance ==
  /\ queue' = Tail(queue)
  /\ replayer' = IF Len(queue) = 1 THEN "ended" ELSE "ensure"

Drop == Advance /\ excused' = excused \cup NewestIn(<<Head(queue)>>) /\ UNCHANGED overlay

ReplayEnsure ==
  /\ replayer \in {"ensure", "version", "load", "migrate"}
  /\ \E to \in {"version", "load", "migrate", "ensured", "failed"} :
       /\ EnsureStep(replayer, to)
       /\ IF to = "failed" THEN Drop
          ELSE replayer' = (IF to = "ensured" THEN "pool" ELSE to) /\ UNCHANGED <<queue, overlay, excused>>
  /\ UNCHANGED <<connection, ring, writes, faults, said, halfMade>>

(* The upsert of one event.  It sets the status, also for an event of      *)
(* record_hitl_resolution, whose word is a verdict.                        *)
ReplayUpsert ==
  LET e == Head(queue) IN
  /\ replayer = "pool"
  /\ IF Answers
     THEN overlay' = Put([RowOf(e.step) EXCEPT !.status = e.at]) /\ Advance /\ UNCHANGED excused
     ELSE Drop
  /\ UNCHANGED <<connection, pool, database, ring, writes, faults, said, halfMade>>

-----------------------------------------------------------------------------
(* Failures *)

(* Postgres goes away, or is there (again). *)
Outage ==
  /\ up' = ~up
  /\ IF up THEN faults < MaxFaults /\ faults' = faults + 1 ELSE UNCHANGED faults
  /\ UNCHANGED <<daemon, attempts, catalog, pool, files, queue, replayer, writes, history, halfMade>>

(* What is in memory is lost: the pools and the drained events. *)
StoreCrash ==
  /\ daemon /\ faults < MaxFaults /\ faults' = faults + 1
  /\ daemon' = FALSE /\ catalog' = FALSE /\ pool' = FALSE /\ attempts' = 0
  /\ queue' = <<>> /\ replayer' = "off"
  /\ excused' = excused \cup NewestIn(queue)
  /\ UNCHANGED <<up, files, writes, said, halfMade>>

Restart ==
  /\ ~daemon /\ daemon' = TRUE /\ attempts' = Attempts
  /\ UNCHANGED <<up, catalog, pool, files, queue, replayer, writes, faults, history, halfMade>>

Replay == Drain \/ ReplayEnsure \/ ReplayUpsert

StoreNext ==
  \/ \E s \in Steps : StartStep(s) \/ SetStatus(s) \/ RecordVerdict(s)
  \/ Connect \/ Replay \/ Outage \/ Restart

-----------------------------------------------------------------------------
(* absurd/mod.rs:472, "so the transition is not lost": the last write of a *)
(* step that returned Ok is in its row, in the ring or with the replay,    *)
(* through outages, crashes and replays of older writes.  Excused is a     *)
(* step whose newest event was evicted by the ring, was dropped by a       *)
(* replay that failed or crashed, or whose row was purged; and one that    *)
(* was written directly while an older event of it waited to be replayed,  *)
(* until it is written again.                                              *)
TransitionsKept ==
  \A s \in Steps \ excused : said[s] # 0 =>
    \/ said[s] \in Stamps(RowOf(s))
    \/ s \in NewestIn(ring) \cup NewestIn(queue)

=============================================================================
