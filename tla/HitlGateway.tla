---------------------------- MODULE HitlGateway ----------------------------
(***************************************************************************)
(* The human-in-the-loop gateway (janus/src/gateway/mod.rs): a map of      *)
(* pending cards behind a mutex, one awaiter per card, and the callbacks   *)
(* (HTTP and TUI) that race with the awaiters' timers and with each other. *)
(*                                                                         *)
(* Every action holds the mutex at most once; what the code does between   *)
(* two lock acquisitions, and outside the lock, is an action of its own.   *)
(* The sender half of a card's one-shot channel lies in the map entry      *)
(* until a callback takes it, the receiver until the awaiter takes it.     *)
(***************************************************************************)
EXTENDS Naturals, FiniteSets

CONSTANTS Cards,     \* correlation ids, each dispatched at most once
          Tasks,
          TaskOf,    \* the task whose step a card is about
          Callers,   \* callbacks; each is one request
          Timeout,   \* JANUS_HITL_TIMEOUT_SECS, in ticks
          NoCard, NoVerdict

ASSUME TimeoutAssumption == Timeout \in Nat \ {0}
ASSUME TaskOfAssumption == TaskOf \in [Cards -> Tasks]

VARIABLES entry,     \* the map: "none", "pending", or "resolved" (sender taken)
          channel,   \* what was sent on a card's channel, or that the sender was dropped
          awaiter,   \* the task that dispatch spawned for the card
          left,      \* ticks until expires_at; 0 is past it
          timer,     \* ticks left of the awaiter's own timeout
          sink,      \* the verdict reported to the VerdictSink
          caller     \* the callbacks: program counter, card, verdict, status

vars == <<entry, channel, awaiter, left, timer, sink, caller>>
cardVars == <<entry, channel, awaiter, left, timer, sink>>

(* action_to_verdict *)
Verdicts == {"Approve", "Reject", "Override"}
(* The answers the buttons of a Teams card offer. *)
CardAnswers == {"Approve", "Reject", "Override"}
(* HTTP statuses of a callback; 0 is not answered yet. *)
Statuses == {0, 200, 400, 401, 409, 410}
Dropped == "dropped"

ASSUME NullAssumption == NoCard \notin Cards /\ NoVerdict \notin Verdicts \cup {Dropped}

TypeOK ==
  /\ entry \in [Cards -> {"none", "pending", "resolved"}]
  /\ channel \in [Cards -> Verdicts \cup {NoVerdict, Dropped}]
  /\ awaiter \in [Cards -> {"none", "sending", "sent", "waiting", "elapsed", "failed",
                         "orphaned", "reported", "gaveup"}]
  /\ left \in [Cards -> 0..Timeout]
  /\ timer \in [Cards -> 0..Timeout]
  /\ sink \in [Cards -> Verdicts \cup {NoVerdict}]
  /\ caller \in [Callers ->
       [pc : {"idle", "found", "deliver", "undelivered", "done"},
        card : Cards \cup {NoCard}, verdict : Verdicts \cup {NoVerdict},
        status : Statuses, tooLate : BOOLEAN]]

Init ==
  /\ entry = [c \in Cards |-> "none"]
  /\ channel = [c \in Cards |-> NoVerdict]
  /\ awaiter = [c \in Cards |-> "none"]
  /\ left = [c \in Cards |-> 0]
  /\ timer = [c \in Cards |-> 0]
  /\ sink = [c \in Cards |-> NoVerdict]
  /\ caller = [k \in Callers |->
       [pc |-> "idle", card |-> NoCard, verdict |-> NoVerdict, status |-> 0, tooLate |-> FALSE]]

-----------------------------------------------------------------------------
(* The awaiter of a card *)

(* The receiver is in the entry until await_verdict_inner takes it, then in *)
(* the future of the timeout, which is dropped after its poll returned.     *)
ReceiverAlive(c) ==
  \/ awaiter[c] \in {"waiting", "elapsed"}
  \/ awaiter[c] \in {"sending", "sent"} /\ entry[c] # "none"

Dispatch(c) ==
  /\ awaiter[c] = "none"
  /\ entry' = [entry EXCEPT ![c] = "pending"]
  /\ left' = [left EXCEPT ![c] = Timeout]
  /\ awaiter' = [awaiter EXCEPT ![c] = "sending"]
  /\ UNCHANGED <<channel, timer, sink, caller>>

(* The blocking sends of all channels; each of them has a time limit. *)
SendCards(c) ==
  /\ awaiter[c] = "sending"
  /\ awaiter' = [awaiter EXCEPT ![c] = "sent"]
  /\ UNCHANGED <<entry, channel, left, timer, sink, caller>>

\* Mutant: the awaiter's timeout is a second shorter than expires_at promises.
StartAwait_short(c) ==
  /\ awaiter[c] = "sent"
  /\ awaiter' = [awaiter EXCEPT ![c] = "waiting"]
  /\ timer' = [timer EXCEPT ![c] = Timeout - 1]
  /\ UNCHANGED <<entry, channel, left, sink, caller>>

(* The timeout starts to run only here.  Of an entry that is gone already   *)
(* nothing is left to remove.                                               *)
StartAwait(c) ==
  /\ awaiter[c] = "sent"
  /\ IF entry[c] = "none"
     THEN awaiter' = [awaiter EXCEPT ![c] = "orphaned"] /\ UNCHANGED timer
     ELSE /\ awaiter' = [awaiter EXCEPT ![c] = "waiting"]
          /\ timer' = [timer EXCEPT ![c] = Timeout]
  /\ UNCHANGED <<entry, channel, left, sink, caller>>

(* Ok(Ok(v)): the entry stays in the map. *)
Receive(c) ==
  /\ awaiter[c] = "waiting"
  /\ channel[c] \in Verdicts
  /\ sink' = [sink EXCEPT ![c] = channel[c]]
  /\ awaiter' = [awaiter EXCEPT ![c] = "reported"]
  /\ UNCHANGED <<entry, channel, left, timer, caller>>

SenderDropped(c) ==
  /\ awaiter[c] = "waiting"
  /\ channel[c] = Dropped
  /\ awaiter' = [awaiter EXCEPT ![c] = "failed"]
  /\ UNCHANGED <<entry, channel, left, timer, sink, caller>>

(* The poll finds no verdict, then the deadline passed. *)
TimerElapses(c) ==
  /\ awaiter[c] = "waiting"
  /\ channel[c] = NoVerdict
  /\ timer[c] = 0
  /\ awaiter' = [awaiter EXCEPT ![c] = "elapsed"]
  /\ UNCHANGED <<entry, channel, left, timer, sink, caller>>

(* The future, and the receiver in it, is dropped. *)
DropReceiver(c) ==
  /\ awaiter[c] = "elapsed"
  /\ awaiter' = [awaiter EXCEPT ![c] = "failed"]
  /\ UNCHANGED <<entry, channel, left, timer, sink, caller>>

(* An entry that is removed takes its sender along, if still there. *)
RemoveEntry(c) ==
  /\ entry' = [entry EXCEPT ![c] = "none"]
  /\ channel' = [channel EXCEPT ![c] = IF entry[c] = "pending" THEN Dropped ELSE @]

\* Mutant: the dead entry is left in the map.
GiveUp_leak(c) ==
  /\ awaiter[c] = "failed"
  /\ awaiter' = [awaiter EXCEPT ![c] = "gaveup"]
  /\ UNCHANGED <<entry, channel, left, timer, sink, caller>>

GiveUp(c) ==
  /\ awaiter[c] = "failed"
  /\ RemoveEntry(c)
  /\ awaiter' = [awaiter EXCEPT ![c] = "gaveup"]
  /\ UNCHANGED <<left, timer, sink, caller>>

-----------------------------------------------------------------------------
(* Callbacks *)

Answer(k, c, v, status) ==
  caller' = [caller EXCEPT ![k] =
    [pc |-> "done", card |-> c, verdict |-> v, status |-> status, tooLate |-> FALSE]]

(* A request that cannot be read or parsed: nothing is looked up. *)
RefuseMalformed(k) ==
  /\ Answer(k, NoCard, NoVerdict, 400)
  /\ UNCHANGED cardVars

(* The signature is checked before anything else, so that it reveals nothing. *)
RefuseForged(k) ==
  /\ Answer(k, NoCard, NoVerdict, 401)
  /\ UNCHANGED cardVars

(* The critical section that both callbacks share; it ends with the sender *)
(* taken out of the entry, or with an answer.                              *)
Resolve(k, c, v) ==
  \/ /\ entry[c] = "none"
     /\ Answer(k, c, v, 410)
     /\ UNCHANGED <<entry, channel>>
  \/ /\ entry[c] # "none" /\ left[c] = 0
     /\ RemoveEntry(c)
     /\ Answer(k, c, v, 410)
  \/ /\ entry[c] = "resolved" /\ left[c] > 0
     /\ Answer(k, c, v, 409)
     /\ UNCHANGED <<entry, channel>>
  \/ /\ entry[c] = "pending" /\ left[c] > 0
     /\ entry' = [entry EXCEPT ![c] = "resolved"]
     /\ caller' = [caller EXCEPT ![k] = [@ EXCEPT !.pc = "deliver", !.card = c, !.verdict = v]]
     /\ UNCHANGED channel

(* A POST to /v1/runs/{c}/actions; c is known from a card that was dispatched. *)
HttpCallback(k) ==
  /\ caller[k].pc = "idle"
  /\ \/ RefuseMalformed(k)
     \/ RefuseForged(k)
     \/ \E c \in Cards, v \in CardAnswers :
          /\ awaiter[c] # "none"
          /\ Resolve(k, c, v)
          /\ UNCHANGED <<awaiter, left, timer, sink>>

(* find_correlation_by_task: any entry of the task, in the order of the hash map. *)
EntriesOf(t) == {c \in Cards : entry[c] # "none" /\ TaskOf[c] = t}

(* GateAction of the TUI: first the card is looked up, under the lock ... *)
TuiFind(k) ==
  /\ caller[k].pc = "idle"
  /\ \E t \in Tasks : \E c \in EntriesOf(t) :
       caller' = [caller EXCEPT ![k] = [@ EXCEPT !.pc = "found", !.card = c]]
  /\ UNCHANGED cardVars

(* ... then, under the lock again, resolved without a signature. *)
TuiResolve(k) ==
  /\ caller[k].pc = "found"
  /\ \E v \in {"Approve", "Reject"} : Resolve(k, caller[k].card, v)
  /\ UNCHANGED <<awaiter, left, timer, sink>>

\* Mutant: the result of the send is ignored.
Deliver_unchecked(k) ==
  LET c == caller[k].card IN
  /\ caller[k].pc = "deliver"
  /\ channel' = [channel EXCEPT ![c] = caller[k].verdict]
  /\ caller' = [caller EXCEPT ![k] = [@ EXCEPT !.pc = "done", !.status = 200]]
  /\ UNCHANGED <<entry, awaiter, left, timer, sink>>

(* Outside the lock. tooLate is history: the awaiter's poll had already    *)
(* decided for its timeout, but its receiver was not dropped yet.          *)
Deliver(k) ==
  LET c == caller[k].card IN
  /\ caller[k].pc = "deliver"
  /\ IF ReceiverAlive(c)
     THEN /\ channel' = [channel EXCEPT ![c] = caller[k].verdict]
          /\ caller' = [caller EXCEPT ![k] =
               [pc |-> "done", card |-> c, verdict |-> caller[k].verdict,
                status |-> 200, tooLate |-> awaiter[c] = "elapsed"]]
     ELSE /\ caller' = [caller EXCEPT ![k].pc = "undelivered"]
          /\ UNCHANGED channel
  /\ UNCHANGED <<entry, awaiter, left, timer, sink>>

DropUndelivered(k) ==
  /\ caller[k].pc = "undelivered"
  /\ RemoveEntry(caller[k].card)
  /\ Answer(k, caller[k].card, caller[k].verdict, 410)
  /\ UNCHANGED <<awaiter, left, timer, sink>>

-----------------------------------------------------------------------------
\* Mutant: a time that is over goes on to count.
CountDown_below(f) == [c \in Cards |-> f[c] - 1]

CountDown(f) == [c \in Cards |-> IF f[c] > 0 THEN f[c] - 1 ELSE 0]

(* The wall clock of expires_at and the monotonic clock of the timers. *)
Tick ==
  /\ \E c \in Cards : left[c] > 0 \/ timer[c] > 0
  /\ left' = CountDown(left)
  /\ timer' = CountDown(timer)
  /\ UNCHANGED <<entry, channel, awaiter, sink, caller>>

Awaiter(c) ==
  \/ SendCards(c) \/ StartAwait(c) \/ Receive(c) \/ SenderDropped(c)
  \/ TimerElapses(c) \/ DropReceiver(c) \/ GiveUp(c)

Handler(k) == TuiResolve(k) \/ Deliver(k) \/ DropUndelivered(k)

Next ==
  \/ \E c \in Cards : Dispatch(c)
  \/ \E c \in Cards : Awaiter(c)
  \/ \E k \in Callers : HttpCallback(k) \/ TuiFind(k)
  \/ \E k \in Callers : Handler(k)
  \/ Tick

(* Time passes and the runtime polls its tasks; nobody has to call back. *)
Fairness ==
  /\ WF_vars(Tick)
  /\ \A c \in Cards : WF_vars(Awaiter(c))
  /\ \A k \in Callers : WF_vars(Handler(k))

Spec == Init /\ [][Next]_vars /\ Fairness

-----------------------------------------------------------------------------
Accepted(c) == {k \in Callers : caller[k].card = c /\ caller[k].status = 200}

(* A card has at most one answer, and who was told 200 was heard: the sink *)
(* gets exactly the verdict of the callback that was told so.  Duplicate   *)
(* callbacks, late ones and the awaiter's timeout meet in resolve_callback *)
(* and await_verdict_inner.  The code leaves two exceptions: a callback    *)
(* that passed the check of expires_at in time but sends between the last  *)
(* poll of the awaiter and the drop of its receiver; and a card that       *)
(* expires while it is still being sent, when a second, late callback      *)
(* removes the entry with the answer in it ("orphaned").                   *)
AcceptedAnswersHeard ==
  \A c \in Cards :
    /\ Cardinality(Accepted(c)) <= 1
    /\ sink[c] # NoVerdict => \E k \in Accepted(c) : caller[k].verdict = sink[c]
    /\ awaiter[c] \in {"failed", "reported", "gaveup"} =>
         \A k \in Accepted(c) : caller[k].tooLate \/ sink[c] = caller[k].verdict
    /\ awaiter[c] = "orphaned" =>
         \E k \in Callers : caller[k].card = c /\ caller[k].status = 410

(* Until its expires_at a card can be answered if it was not, and repeats  *)
(* of its answer get 409: neither the awaiter's timer, which only starts   *)
(* when the cards are sent, nor a callback that lost a race removes the    *)
(* entry before.                                                           *)
TimelyCardsAnswerable ==
  \A c \in Cards : left[c] > 0 =>
    /\ entry[c] = "pending" => ReceiverAlive(c)
    /\ Accepted(c) # {} => entry[c] = "resolved"
    /\ entry[c] # "none"

(* Every callback is answered, every awaiter ends, and a card that nobody  *)
(* answers does not stay in the map.                                       *)
CardsSettle ==
  /\ \A k \in Callers : caller[k].pc # "idle" ~> caller[k].pc = "done"
  /\ \A c \in Cards : awaiter[c] # "none" ~> awaiter[c] \in {"orphaned", "reported", "gaveup"} /\ entry[c] # "pending"

=============================================================================
