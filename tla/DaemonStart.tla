---------------------------- MODULE DaemonStart ----------------------------
(***************************************************************************)
(* The start and the end of janus-daemon (bin/janus_daemon.rs) and the     *)
(* clients that start it when nobody answers (spawn.rs, uds.rs, bin/janus, *)
(* bin/herdr_janus, bin/janus_studio, bin/janush).  One PID file and one   *)
(* socket path are shared by every daemon that is ever started; each       *)
(* system call on them is a step of its own.                               *)
(***************************************************************************)
EXTENDS Naturals, FiniteSets

CONSTANTS Daemons,   \* processes that may be started, each at most once
          Old,       \* a daemon that died before the model begins
          Clients,
          Kills,     \* how many daemons are killed or stopped
          None, Empty

ASSUME KillsAssumption == Kills \in Nat
ASSUME NullAssumption == Cardinality({Old, None, Empty}) = 3 /\ {Old, None, Empty} \cap Daemons = {}

VARIABLES pc,        \* where a daemon is
          pidFile,   \* whose PID janus.pid holds; Empty between truncation and write
          sock,      \* whose socket janus.sock is
          reused,    \* PIDs of dead daemons that another process has now
          client,
          kills,
          raced      \* history: two daemons were between their check and their write

vars == <<pc, pidFile, sock, reused, client, kills, raced>>
files == <<pidFile, sock>>

Pids == Daemons \cup {Old}
Starting == {"started", "unlocked", "writing", "locked", "clearing"}
Leaving == {"stopping", "unlinking", "exiting"}
Alive(p) == p \in reused \/ (p \in Daemons /\ pc[p] \notin {"unborn", "dead"})

TypeOK ==
  /\ pc \in [Daemons -> {"unborn", "serving", "dead"} \cup Starting \cup Leaving]
  /\ pidFile \in Pids \cup {None, Empty}
  /\ sock \in Pids \cup {None}
  /\ reused \in SUBSET Pids
  /\ client \in [Clients -> [pc : {"idle", "waiting", "asking", "served", "failed"}, to : {None}]
                              \cup [pc : {"connected"}, to : Daemons]]
  /\ kills \in 0..Kills /\ raced \in BOOLEAN

(* Nothing, or what a killed daemon left behind. *)
Init ==
  /\ pc = [d \in Daemons |-> "unborn"]
  /\ pidFile \in {None, Empty, Old} /\ sock \in {None, Old}
  /\ reused = {}
  /\ client = [k \in Clients |-> [pc |-> "idle", to |-> None]]
  /\ kills = 0 /\ raced = FALSE

-----------------------------------------------------------------------------
(* The daemon *)

Goes(d, from, to) == pc[d] = from /\ pc' = [pc EXCEPT ![d] = to]

(* acquire_pid_lock refuses if the file names a live process. *)
ReadPid(d) ==
  LET refused == pidFile \in Pids /\ Alive(pidFile) IN
  /\ Goes(d, "started", IF refused THEN "dead" ELSE "unlocked")
  /\ raced' = (raced \/ (~refused /\ \E e \in Daemons \ {d} : pc[e] \in {"unlocked", "writing"}))
  /\ UNCHANGED <<files, reused, client, kills>>

(* fs::write truncates the file and then writes it. *)
TruncatePid(d) ==
  /\ Goes(d, "unlocked", "writing")
  /\ pidFile' = Empty
  /\ UNCHANGED <<sock, reused, client, kills, raced>>

WritePid(d) ==
  /\ Goes(d, "writing", "locked")
  /\ pidFile' = d
  /\ UNCHANGED <<sock, reused, client, kills, raced>>

\* Mutant: a stale socket is left where it is.
ClearSocket_not(d) ==
  /\ Goes(d, "locked", "clearing")
  /\ UNCHANGED <<files, reused, client, kills, raced>>

ClearSocket(d) ==
  /\ Goes(d, "locked", "clearing")
  /\ sock' = None
  /\ UNCHANGED <<pidFile, reused, client, kills, raced>>

(* A path that exists makes bind fail and the daemon end; its PID stays in *)
(* the file.                                                               *)
Bind(d) ==
  /\ Goes(d, "clearing", IF sock = None THEN "serving" ELSE "dead")
  /\ sock' = IF sock = None THEN d ELSE sock
  /\ UNCHANGED <<pidFile, reused, client, kills, raced>>

(* SIGTERM or SIGINT leave the accept loop. *)
Stop(d) ==
  /\ kills < Kills /\ kills' = kills + 1
  /\ Goes(d, "serving", "stopping")
  /\ UNCHANGED <<files, reused, client, raced>>

\* Mutant: the PID file is removed before the socket.
Cleanup_pidFirst(d) ==
  /\ \/ Goes(d, "stopping", "unlinking") /\ pidFile' = None /\ UNCHANGED sock
     \/ Goes(d, "unlinking", "exiting") /\ sock' = None /\ UNCHANGED pidFile
     \/ Goes(d, "exiting", "dead") /\ UNCHANGED files
  /\ UNCHANGED <<reused, client, kills, raced>>

(* cleanup: both files go, whoever they belong to, then the process. *)
Cleanup(d) ==
  /\ \/ Goes(d, "stopping", "unlinking") /\ sock' = None /\ UNCHANGED pidFile
     \/ Goes(d, "unlinking", "exiting") /\ pidFile' = None /\ UNCHANGED sock
     \/ Goes(d, "exiting", "dead") /\ UNCHANGED files
  /\ UNCHANGED <<reused, client, kills, raced>>

(* A kill, or a signal before its handler is installed. *)
Kill(d) ==
  /\ kills < Kills /\ kills' = kills + 1
  /\ pc[d] \notin {"unborn", "dead"}
  /\ pc' = [pc EXCEPT ![d] = "dead"]
  /\ UNCHANGED <<files, reused, client, raced>>

(* The system gives the PID of a dead daemon to another process. *)
Reuse ==
  /\ reused = {}
  /\ \E p \in Pids : ~Alive(p) /\ (p \in Daemons => pc[p] = "dead") /\ reused' = {p}
  /\ UNCHANGED <<pc, files, client, kills, raced>>

-----------------------------------------------------------------------------
(* Clients *)

(* is_daemon_listening: connections are accepted from bind on, by the file *)
(* name, until it is removed.                                              *)
Listening == sock \in Daemons /\ pc[sock] \in {"serving", "stopping"}

Becomes(k, state, d) == client' = [client EXCEPT ![k] = [pc |-> state, to |-> d]]

(* ensure_daemon: a probe, and a detached daemon if nobody answers; again *)
(* with the user's next command, or the key r of herdr-janus.             *)
EnsureDaemon(k) ==
  /\ client[k].pc \in {"idle", "failed"}
  /\ IF Listening
     THEN Becomes(k, "asking", None) /\ UNCHANGED pc
     ELSE \E d \in Daemons : Goes(d, "unborn", "started") /\ Becomes(k, "waiting", None)
  /\ UNCHANGED <<files, reused, kills, raced>>

(* janus daemon starts one without a probe. *)
StartByHand(d) ==
  /\ Goes(d, "unborn", "started")
  /\ UNCHANGED <<files, reused, client, kills, raced>>

(* Every 100 ms another probe, for 5 s. *)
Retry(k) ==
  /\ client[k].pc = "waiting"
  /\ \/ Listening /\ Becomes(k, "asking", None)
     \/ Becomes(k, "failed", None)
  /\ UNCHANGED <<pc, files, reused, kills, raced>>

Connect(k) ==
  /\ IF Listening THEN Becomes(k, "connected", sock) ELSE Becomes(k, "failed", None)
  /\ UNCHANGED <<pc, files, reused, kills, raced>>

(* The commands of janus and herdr-janus, after ensure_daemon. *)
Ask(k) == client[k].pc = "asking" /\ Connect(k)

(* herdr-janus polls once a second and does not start a daemon for it. *)
Poll(k) == client[k].pc \in {"served", "failed"} /\ Connect(k)

(* Studio and janush never start a daemon. *)
AskDirectly(k) == client[k].pc = "idle" /\ Connect(k)

(* handle_conn: one line in, one line out. *)
Reply(k) ==
  /\ client[k].pc = "connected"
  /\ pc[client[k].to] = "serving"
  /\ Becomes(k, "served", None)
  /\ UNCHANGED <<pc, files, reused, kills, raced>>

\* Mutant: the connection of a request that timed out is kept.
TimeOut_kept(k) ==
  /\ client[k].pc = "connected"
  /\ Becomes(k, "failed", client[k].to)
  /\ UNCHANGED <<pc, files, reused, kills, raced>>

(* The read times out, or ends with the daemon. *)
TimeOut(k) ==
  /\ client[k].pc = "connected"
  /\ Becomes(k, "failed", None)
  /\ UNCHANGED <<pc, files, reused, kills, raced>>

Startup(d) == ReadPid(d) \/ TruncatePid(d) \/ WritePid(d) \/ ClearSocket(d) \/ Bind(d)

Next ==
  \/ \E d \in Daemons : Startup(d) \/ Stop(d) \/ Cleanup(d) \/ Kill(d) \/ StartByHand(d)
  \/ Reuse
  \/ \E k \in Clients :
       EnsureDaemon(k) \/ Retry(k) \/ Ask(k) \/ AskDirectly(k) \/ Poll(k) \/ Reply(k) \/ TimeOut(k)

(* A process that was started runs. *)
Fairness == \A d \in Daemons : WF_vars(Startup(d)) /\ WF_vars(Cleanup(d))

Spec == Init /\ [][Next]_vars /\ Fairness

-----------------------------------------------------------------------------
Holders == {d \in Daemons : pc[d] \in {"unlocked", "writing", "locked", "clearing", "serving",
                                       "stopping", "unlinking"}}

(* bin/janus_daemon.rs:4: the "singleton PID lock with stale detection".   *)
(* At most one daemon is past acquire_pid_lock, and the files of the one   *)
(* that serves are its own, so that clients reach it and the next start    *)
(* is refused: whatever was left behind, whoever was refused, stopped or   *)
(* killed in between, and although cleanup removes files without looking   *)
(* whose they are.  The lock is a read and then a write, so the exception  *)
(* is two daemons that check before either has written (raced): then both  *)
(* serve, one of them out of reach, and the cleanup of one takes the files *)
(* of the other.                                                           *)
LockHolds ==
  ~raced =>
    /\ Cardinality(Holders) <= 1
    /\ \A d \in Daemons : pc[d] = "serving" => sock = d /\ pidFile = d

(* The lazy start heals: a client that found nobody and started a daemon   *)
(* comes to find one that listens, over any PID file and socket a dead one *)
(* left, and also when several clients start daemons at once.  It may not  *)
(* if a daemon is killed or stopped in the meantime (one that is leaving   *)
(* still makes others refuse), or if another process has the old PID.      *)
StartsRecover ==
  \A k \in Clients :
    client[k].pc = "waiting" ~> Listening \/ kills > 0 \/ reused # {}

=============================================================================
