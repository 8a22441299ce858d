-------------------------- MODULE HitlGatewayProofs --------------------------
(***************************************************************************)
(* Proofs about HitlGateway for any number of cards, tasks and callbacks   *)
(* and any timeout.                                                        *)
(***************************************************************************)
EXTENDS HitlGateway, FiniteSetTheorems, TLAPS

\* Callbacks that hold a card's sender, or were told 200.
Owners(c) == {k \in Callers :
  caller[k].card = c /\ (caller[k].pc \in {"deliver", "undelivered"} \/ caller[k].status = 200)}

Callback ==
  \A k \in Callers :
    /\ caller[k].status # 0 => caller[k].pc = "done"
    /\ caller[k].pc \in {"found", "deliver", "undelivered"} => caller[k].card \in Cards
    /\ caller[k].pc \in {"deliver", "undelivered"} => caller[k].verdict \in Verdicts
    /\ caller[k].card \in Cards => awaiter[caller[k].card] # "none"

\* A card that was not dispatched has left no trace.
Undispatched ==
  \A c \in Cards : awaiter[c] = "none" =>
    entry[c] = "none" /\ left[c] = 0 /\ channel[c] = NoVerdict

\* The sender is taken once, and then the entry is never pending again.
OneOwner ==
  \A c \in Cards :
    /\ \A k, l \in Owners(c) : k = l
    /\ Owners(c) # {} => entry[c] # "pending"

\* What a channel holds is the verdict of the callback that was accepted.
ChannelRight ==
  \A c \in Cards :
    /\ \A k \in Accepted(c) : channel[c] = caller[k].verdict /\ channel[c] \in Verdicts
    /\ channel[c] \in Verdicts => Accepted(c) # {}
    /\ channel[c] = Dropped => Owners(c) = {} /\ entry[c] = "none"

SinkRight ==
  \A c \in Cards :
    /\ sink[c] # NoVerdict => sink[c] = channel[c] /\ channel[c] \in Verdicts
    /\ awaiter[c] = "reported" => sink[c] # NoVerdict
    /\ awaiter[c] \in {"elapsed", "failed", "gaveup"} => \A k \in Accepted(c) : caller[k].tooLate

\* An entry that is gone while its card is being sent was removed by a callback.
RemovedByCallback ==
  \A c \in Cards :
    \/ awaiter[c] = "orphaned"
    \/ awaiter[c] \in {"sending", "sent"} /\ entry[c] = "none"
    => \E k \in Callers : caller[k].card = c /\ caller[k].status = 410

\* The awaiter's timer ends no earlier than expires_at, and nobody else removes
\* an entry before.
Timing ==
  \A c \in Cards :
    /\ awaiter[c] = "waiting" => left[c] <= timer[c]
    /\ awaiter[c] \in {"elapsed", "failed", "gaveup", "orphaned"} => left[c] = 0
    /\ left[c] > 0 => entry[c] # "none"
    /\ \A k \in Callers : caller[k].pc = "undelivered" /\ caller[k].card = c => left[c] = 0

IInv ==
  /\ TypeOK /\ Callback /\ Undispatched /\ OneOwner /\ ChannelRight
  /\ SinkRight /\ RemovedByCallback /\ Timing

-----------------------------------------------------------------------------
(* Preservation *)

\* An entry is removed with its sender, or after somebody took it.
LEMMA RemoveChannel ==
  ASSUME IInv, NEW c \in Cards, RemoveEntry(c),
         \A x \in Cards : Owners(x)' \subseteq Owners(x) /\ Accepted(x)' = Accepted(x),
         \A x \in Cards : \A k \in Accepted(x) : caller'[k].verdict = caller[k].verdict
  PROVE  ChannelRight'
<1> USE DEF IInv, RemoveEntry, TypeOK
<1>1. ASSUME NEW x \in Cards, x # c \/ entry[c] # "pending"
      PROVE channel'[x] = channel[x] /\ (x # c => entry'[x] = entry[x])
  BY <1>1
<1>2. entry'[c] = "none" /\ (entry[c] = "pending" => channel'[c] = Dropped)
  OBVIOUS
<1>3. entry[c] = "pending" => Owners(c) = {} /\ Accepted(c) = {}
  BY DEF OneOwner, Owners, Accepted
<1>4. Dropped \notin Verdicts
  BY DEF Dropped, Verdicts
<1>5. QED
  BY <1>1, <1>2, <1>3, <1>4 DEF ChannelRight

\* Moves of the awaiter that only it knows of.
LEMMA QuietStep ==
  ASSUME IInv, NEW c \in Cards, SendCards(c) \/ SenderDropped(c) \/ TimerElapses(c) \/ DropReceiver(c)
  PROVE  IInv'
<1> USE DEF IInv, TypeOK, SendCards, SenderDropped, TimerElapses, DropReceiver
<1>1. TypeOK'
  OBVIOUS
<1>2. Callback'
  BY DEF Callback
<1>3. Undispatched'
  BY DEF Undispatched
<1>4. OneOwner'
  BY DEF OneOwner, Owners
<1>5. ChannelRight'
  BY DEF ChannelRight, Owners, Accepted
<1>6. SinkRight'
  BY NullAssumption DEF SinkRight, Accepted, ChannelRight, Owners
<1>7. RemovedByCallback'
  BY DEF RemovedByCallback
<1>8. Timing'
  BY DEF Timing, ChannelRight
<1>9. QED
  BY <1>1, <1>2, <1>3, <1>4, <1>5, <1>6, <1>7, <1>8

\* A new card finds no traces.
LEMMA DispatchStep ==
  ASSUME IInv, NEW c \in Cards, Dispatch(c)
  PROVE  IInv'
<1> USE DEF IInv, TypeOK, Dispatch
<1>1. TypeOK'
  BY TimeoutAssumption
<1>2. Callback'
  BY DEF Callback
<1>3. Undispatched'
  BY DEF Undispatched
<1>4. OneOwner'
  BY DEF OneOwner, Owners, Callback
<1>5. ChannelRight'
  BY NullAssumption DEF ChannelRight, Owners, Accepted, Callback, Undispatched
<1>6. SinkRight'
  BY DEF SinkRight, Accepted
<1>7. RemovedByCallback'
  BY DEF RemovedByCallback
<1>8. Timing'
  BY TimeoutAssumption DEF Timing, Callback, Undispatched
<1>9. QED
  BY <1>1, <1>2, <1>3, <1>4, <1>5, <1>6, <1>7, <1>8

\* The timer starts with all that expires_at has left, or more.
LEMMA StartAwaitStep ==
  ASSUME IInv, NEW c \in Cards, StartAwait(c)
  PROVE  IInv'
<1> USE DEF IInv, TypeOK, StartAwait
<1>1. TypeOK'
  BY TimeoutAssumption
<1>2. Callback'
  BY DEF Callback
<1>3. Undispatched'
  BY DEF Undispatched
<1>4. OneOwner'
  BY DEF OneOwner, Owners
<1>5. ChannelRight'
  BY DEF ChannelRight, Owners, Accepted
<1>6. SinkRight'
  BY DEF SinkRight, Accepted
<1>7. RemovedByCallback'
  BY DEF RemovedByCallback
<1>8. Timing'
  BY DEF Timing
<1>9. QED
  BY <1>1, <1>2, <1>3, <1>4, <1>5, <1>6, <1>7, <1>8

LEMMA ReceiveStep ==
  ASSUME IInv, NEW c \in Cards, Receive(c)
  PROVE  IInv'
<1> USE DEF IInv, TypeOK, Receive
<1>1. TypeOK'
  OBVIOUS
<1>2. Callback'
  BY DEF Callback
<1>3. Undispatched'
  BY DEF Undispatched
<1>4. OneOwner'
  BY DEF OneOwner, Owners
<1>5. ChannelRight'
  BY DEF ChannelRight, Owners, Accepted
<1>6. SinkRight'
  BY NullAssumption DEF SinkRight, Accepted, ChannelRight
<1>7. RemovedByCallback'
  BY DEF RemovedByCallback
<1>8. Timing'
  BY DEF Timing
<1>9. QED
  BY <1>1, <1>2, <1>3, <1>4, <1>5, <1>6, <1>7, <1>8

\* By then nobody holds the sender of a pending entry.
LEMMA GiveUpStep ==
  ASSUME IInv, NEW c \in Cards, GiveUp(c)
  PROVE  IInv'
<1> USE DEF IInv, TypeOK, GiveUp, RemoveEntry
<1>1. TypeOK'
  OBVIOUS
<1>2. Callback'
  BY DEF Callback
<1>3. Undispatched'
  BY DEF Undispatched
<1>4. OneOwner'
  BY DEF OneOwner, Owners
<1>5. ChannelRight'
  BY RemoveChannel DEF Owners, Accepted
<1>6. SinkRight'
  BY DEF SinkRight, Accepted, OneOwner, ChannelRight, Owners
<1>7. RemovedByCallback'
  BY DEF RemovedByCallback
<1>8. Timing'
  BY DEF Timing
<1>9. QED
  BY <1>1, <1>2, <1>3, <1>4, <1>5, <1>6, <1>7, <1>8

LEMMA TickStep ==
  ASSUME IInv, Tick
  PROVE  IInv'
<1> USE DEF IInv, TypeOK, Tick, CountDown
<1>1. TypeOK'
  BY TimeoutAssumption
<1>2. Callback'
  BY DEF Callback
<1>3. Undispatched'
  BY DEF Undispatched
<1>4. OneOwner'
  BY DEF OneOwner, Owners
<1>5. ChannelRight'
  BY DEF ChannelRight, Owners, Accepted
<1>6. SinkRight'
  BY DEF SinkRight, Accepted
<1>7. RemovedByCallback'
  BY DEF RemovedByCallback
<1>8. Timing'
  BY DEF Timing
<1>9. QED
  BY <1>1, <1>2, <1>3, <1>4, <1>5, <1>6, <1>7, <1>8

CallerRec == [pc : {"idle", "found", "deliver", "undelivered", "done"},
        card : Cards \cup {NoCard}, verdict : Verdicts \cup {NoVerdict},
        status : Statuses, tooLate : BOOLEAN]

\* What a step of one callback leaves of the others.
Only(k, r) ==
  /\ r \in CallerRec /\ caller' \in [Callers -> CallerRec]
  /\ caller'[k] = r
  /\ \A l \in Callers : l # k => caller'[l] = caller[l]

LEMMA OnlyOne ==
  ASSUME TypeOK, NEW k \in Callers, NEW r \in CallerRec, caller' = [caller EXCEPT ![k] = r]
  PROVE  Only(k, r)
BY DEF TypeOK, CallerRec, Only

Answered(c, v, st) ==
  [pc |-> "done", card |-> c, verdict |-> v, status |-> st, tooLate |-> FALSE]

LEMMA AnswerIsOnly ==
  ASSUME TypeOK, NEW k \in Callers, NEW c \in Cards \cup {NoCard},
         NEW v \in Verdicts \cup {NoVerdict}, NEW st \in Statuses, Answer(k, c, v, st)
  PROVE  Only(k, Answered(c, v, st))
<1>1. Answered(c, v, st) \in CallerRec
  BY DEF Answered, CallerRec
<1>2. caller' = [caller EXCEPT ![k] = Answered(c, v, st)]
  BY DEF Answer, Answered
<1>3. QED
  BY <1>1, <1>2, OnlyOne

\* A callback is answered, but not with 200: it owns nothing any more.
LEMMA AnsweredStep ==
  ASSUME IInv, NEW k \in Callers, NEW r, Only(k, r),
         caller[k].pc \in {"idle", "found", "undelivered"},
         r.pc = "done", r.status \notin {0, 200},
         UNCHANGED cardVars,
         r.card \in Cards => awaiter[r.card] # "none"
  PROVE  IInv'
<1> USE DEF IInv, Only, CallerRec, cardVars
<1>1. caller[k].status = 0
  BY DEF Callback
<1>2. \A c \in Cards : Owners(c)' = Owners(c) \ {k} /\ Accepted(c)' = Accepted(c)
  BY <1>1 DEF Owners, Accepted
<1>3. TypeOK'
  BY DEF TypeOK
<1>4. Callback'
  BY DEF Callback
<1>5. Undispatched'
  BY DEF Undispatched
<1>6. OneOwner'
  BY <1>2 DEF OneOwner
<1>7. ChannelRight'
  BY <1>1, <1>2 DEF ChannelRight, Accepted
<1>8. SinkRight'
  BY <1>1, <1>2 DEF SinkRight, Accepted
<1>9. RemovedByCallback'
  BY <1>1 DEF RemovedByCallback
<1>10. Timing'
  BY DEF Timing
<1>11. QED
  BY <1>3, <1>4, <1>5, <1>6, <1>7, <1>8, <1>9, <1>10

\* The same, and an entry that expired or that nobody waits for is removed.
LEMMA RemovingStep ==
  ASSUME IInv, NEW k \in Callers, NEW r, Only(k, r),
         caller[k].pc \in {"idle", "found", "undelivered"},
         r.pc = "done", r.status = 410, r.card \in Cards,
         awaiter[r.card] # "none", left[r.card] = 0, RemoveEntry(r.card),
         UNCHANGED <<awaiter, left, timer, sink>>
  PROVE  IInv'
<1> USE DEF IInv, Only, CallerRec
<1>1. caller[k].status = 0
  BY DEF Callback
<1>2. \A c \in Cards : Owners(c)' = Owners(c) \ {k} /\ Accepted(c)' = Accepted(c)
  BY <1>1 DEF Owners, Accepted
<1>3. \A c \in Cards : \A l \in Accepted(c) : caller'[l] = caller[l]
  BY <1>1 DEF Accepted
<1>4. /\ \A c \in Cards : entry'[c] = IF c = r.card THEN "none" ELSE entry[c]
      /\ \A c \in Cards : c # r.card => channel'[c] = channel[c]
      /\ channel'[r.card] = IF entry[r.card] = "pending" THEN Dropped ELSE channel[r.card]
  BY DEF RemoveEntry, TypeOK
<1>5. TypeOK'
  BY DEF TypeOK, RemoveEntry
<1>6. Callback'
  BY DEF Callback
<1>7. Undispatched'
  BY <1>4 DEF Undispatched
<1>8. OneOwner'
  BY <1>2, <1>4 DEF OneOwner
<1>9. ChannelRight'
  BY <1>2, <1>3, RemoveChannel
<1>10. SinkRight'
  <2>1. ASSUME NEW c \in Cards, sink[c] # NoVerdict PROVE channel'[c] = channel[c]
    <3>1. Accepted(c) # {}
      BY <2>1 DEF SinkRight, ChannelRight
    <3>2. entry[c] # "pending"
      BY <3>1 DEF OneOwner, Owners, Accepted
    <3>3. QED
      BY <1>4, <3>2
  <2>2. QED
    BY <1>2, <1>3, <2>1 DEF SinkRight
<1>11. RemovedByCallback'
  BY <1>1, <1>4 DEF RemovedByCallback
<1>12. Timing'
  BY <1>4 DEF Timing
<1>13. QED
  BY <1>5, <1>6, <1>7, <1>8, <1>9, <1>10, <1>11, <1>12

LEMMA ResolveStep ==
  ASSUME IInv, NEW k \in Callers, NEW c \in Cards, NEW v \in Verdicts,
         caller[k].pc \in {"idle", "found"}, awaiter[c] # "none", Resolve(k, c, v),
         UNCHANGED <<awaiter, left, timer, sink>>
  PROVE  IInv'
<1>1. caller[k] \in CallerRec /\ caller[k].status = 0 /\ caller \in [Callers -> CallerRec]
  BY DEF IInv, TypeOK, CallerRec, Callback
<1>2. ASSUME NEW st \in {409, 410}, Answer(k, c, v, st), UNCHANGED <<entry, channel>>
      PROVE IInv'
  <2>1. Only(k, Answered(c, v, st))
    BY <1>2, AnswerIsOnly DEF IInv, Statuses
  <2>2. QED
    BY <1>2, <2>1, AnsweredStep DEF cardVars, Answered
<1>3. ASSUME Answer(k, c, v, 410), left[c] = 0, RemoveEntry(c) PROVE IInv'
  <2>1. Only(k, Answered(c, v, 410))
    BY <1>3, AnswerIsOnly DEF IInv, Statuses
  <2>2. QED
    BY <1>3, <2>1, RemovingStep DEF Answered
<1>4. ASSUME entry[c] = "pending", entry' = [entry EXCEPT ![c] = "resolved"],
             caller' = [caller EXCEPT ![k] = [@ EXCEPT !.pc = "deliver", !.card = c, !.verdict = v]],
             UNCHANGED channel
      PROVE IInv'
  <2> DEFINE r == [caller[k] EXCEPT !.pc = "deliver", !.card = c, !.verdict = v]
  <2>1. /\ r \in CallerRec /\ r.pc = "deliver" /\ r.card = c /\ r.verdict = v /\ r.status = 0
    BY <1>1 DEF CallerRec
  <2>2. Only(k, r)
    BY <1>4, <2>1, OnlyOne DEF IInv
  <2> HIDE DEF r
  <2> USE DEF IInv, Only, CallerRec
  <2>3. Owners(c) = {}
    BY <1>4 DEF OneOwner
  <2>4. /\ Owners(c)' = {k}
        /\ \A x \in Cards : x # c => Owners(x)' = Owners(x)
        /\ \A x \in Cards : Accepted(x)' = Accepted(x)
    BY <1>1, <2>1, <2>2, <2>3 DEF Owners, Accepted
  <2>5. \A x \in Cards : \A l \in Accepted(x) : caller'[l] = caller[l]
    BY <1>1, <2>2 DEF Accepted
  <2>6. entry'[c] = "resolved" /\ \A x \in Cards : x # c => entry'[x] = entry[x]
    BY <1>4 DEF TypeOK
  <2>7. TypeOK'
    BY <1>4, <2>2 DEF TypeOK
  <2>8. Callback'
    BY <2>1, <2>2 DEF Callback
  <2>9. Undispatched'
    BY <1>4, <2>6 DEF Undispatched
  <2>10. OneOwner'
    BY <2>4, <2>6 DEF OneOwner
  <2>11. ChannelRight'
    <3>1. channel[c] # Dropped /\ Dropped \notin Verdicts
      BY <1>4 DEF ChannelRight, Dropped, Verdicts
    <3>2. channel[c] \notin Verdicts /\ Accepted(c) = {}
      BY <2>3 DEF ChannelRight, Owners, Accepted
    <3>3. \A x \in Cards : Accepted(x)' = Accepted(x) /\ channel'[x] = channel[x]
      BY <1>4, <2>4
    <3>4. ASSUME NEW x \in Cards, channel'[x] = Dropped PROVE Owners(x)' = {} /\ entry'[x] = "none"
      BY <2>4, <2>6, <3>1, <3>3, <3>4 DEF ChannelRight
    <3>5. ASSUME NEW x \in Cards, NEW l \in Accepted(x)'
          PROVE channel'[x] = caller'[l].verdict /\ channel'[x] \in Verdicts
      BY <2>5, <3>3, <3>5 DEF ChannelRight
    <3>6. QED
      BY <3>3, <3>4, <3>5 DEF ChannelRight
  <2>12. SinkRight'
    BY <1>4, <2>4, <2>5 DEF SinkRight
  <2>13. RemovedByCallback'
    BY <1>1, <2>2, <2>6 DEF RemovedByCallback
  <2>14. Timing'
    BY <2>1, <2>2, <2>6 DEF Timing
  <2>15. QED
    BY <2>7, <2>8, <2>9, <2>10, <2>11, <2>12, <2>13, <2>14
<1>5. QED
  BY <1>2, <1>3, <1>4 DEF Resolve

LEMMA HttpCallbackStep ==
  ASSUME IInv, NEW k \in Callers, HttpCallback(k)
  PROVE  IInv'
<1>1. ASSUME NEW st \in {400, 401}, Answer(k, NoCard, NoVerdict, st), UNCHANGED cardVars
      PROVE IInv'
  <2>1. Only(k, Answered(NoCard, NoVerdict, st))
    BY <1>1, AnswerIsOnly DEF IInv, Statuses
  <2>2. caller[k].pc = "idle"
    BY DEF HttpCallback
  <2>3. QED
    BY <1>1, <2>1, <2>2, AnsweredStep, NullAssumption DEF Answered
<1>2. ASSUME NEW c \in Cards, NEW v \in CardAnswers, awaiter[c] # "none", Resolve(k, c, v),
             UNCHANGED <<awaiter, left, timer, sink>>
      PROVE IInv'
  BY <1>2, ResolveStep DEF HttpCallback, CardAnswers, Verdicts
<1>3. QED
  BY <1>1, <1>2 DEF HttpCallback, RefuseMalformed, RefuseForged

LEMMA TuiResolveStep ==
  ASSUME IInv, NEW k \in Callers, TuiResolve(k)
  PROVE  IInv'
<1>1. caller[k].card \in Cards /\ awaiter[caller[k].card] # "none"
  BY DEF TuiResolve, IInv, Callback
<1>2. QED
  BY <1>1, ResolveStep DEF TuiResolve, Verdicts

LEMMA TuiFindStep ==
  ASSUME IInv, NEW k \in Callers, TuiFind(k)
  PROVE  IInv'
<1>1. PICK c \in Cards :
        entry[c] # "none" /\ caller' = [caller EXCEPT ![k] = [@ EXCEPT !.pc = "found", !.card = c]]
  BY DEF TuiFind, EntriesOf
<1>2. caller[k].pc = "idle" /\ UNCHANGED cardVars
  BY DEF TuiFind
<1> DEFINE r == [caller[k] EXCEPT !.pc = "found", !.card = c]
<1>3. caller[k].status = 0 /\ caller[k] \in CallerRec
  BY <1>2 DEF IInv, Callback, TypeOK, CallerRec
<1>4. r \in CallerRec /\ r.pc = "found" /\ r.card = c /\ r.status = 0
  BY <1>3 DEF CallerRec
<1>5. Only(k, r)
  BY <1>1, <1>4, OnlyOne DEF IInv
<1> HIDE DEF r
<1> USE DEF IInv, Only, CallerRec, cardVars
<1>6. /\ \A x \in Cards : Owners(x)' = Owners(x) /\ Accepted(x)' = Accepted(x)
      /\ \A x \in Cards : \A l \in Accepted(x) : caller'[l] = caller[l]
  BY <1>2, <1>3, <1>4, <1>5 DEF Owners, Accepted
<1>7. TypeOK'
  BY <1>2, <1>5 DEF TypeOK
<1>8. Callback' /\ Undispatched'
  BY <1>1, <1>2, <1>4, <1>5 DEF Callback, Undispatched
<1>9. OneOwner' /\ ChannelRight' /\ SinkRight'
  BY <1>2, <1>6 DEF OneOwner, ChannelRight, SinkRight
<1>10. RemovedByCallback' /\ Timing'
  BY <1>2, <1>3, <1>4, <1>5 DEF RemovedByCallback, Timing
<1>11. QED
  BY <1>7, <1>8, <1>9, <1>10

LEMMA DeliverStep ==
  ASSUME IInv, NEW k \in Callers, Deliver(k)
  PROVE  IInv'
<1>0. PICK c \in Cards : c = caller[k].card
  BY DEF Deliver, IInv, Callback
<1>1. /\ caller[k].pc = "deliver" /\ caller[k] \in CallerRec /\ caller[k].status = 0
      /\ caller[k].card = c /\ caller[k].verdict \in Verdicts /\ awaiter[c] # "none"
      /\ k \in Owners(c) /\ entry[c] # "pending"
  BY <1>0 DEF Deliver, IInv, TypeOK, Callback, CallerRec, Owners, OneOwner
<1>2. UNCHANGED <<entry, awaiter, left, timer, sink>>
  BY DEF Deliver
<1>3. Owners(c) = {k} /\ Accepted(c) = {}
  BY <1>1 DEF IInv, OneOwner, Owners, Accepted
<1>4. ASSUME ReceiverAlive(c), channel' = [channel EXCEPT ![c] = caller[k].verdict],
             caller' = [caller EXCEPT ![k] =
              [pc |-> "done", card |-> c, verdict |-> caller[k].verdict,
               status |-> 200, tooLate |-> awaiter[c] = "elapsed"]]
      PROVE IInv'
  <2> DEFINE late == awaiter[c] = "elapsed"
             r == [pc |-> "done", card |-> c, verdict |-> caller[k].verdict,
                   status |-> 200, tooLate |-> late]
  <2>1. /\ r \in CallerRec /\ r.pc = "done" /\ r.card = c /\ r.status = 200
        /\ r.verdict = caller[k].verdict /\ (awaiter[c] = "elapsed" => r.tooLate)
    <3>1. late \in BOOLEAN /\ (awaiter[c] = "elapsed" => late)
      OBVIOUS
    <3> HIDE DEF late
    <3>2. QED
      BY <1>1, <3>1 DEF CallerRec, Statuses
  <2>2. Only(k, r)
    <3>1. TypeOK /\ caller' = [caller EXCEPT ![k] = r]
      BY <1>4 DEF IInv
    <3> HIDE DEF r
    <3>2. QED
      BY <2>1, <3>1, OnlyOne
  <2> HIDE DEF r
  <2> USE DEF IInv, Only, CallerRec
  <2>3. /\ Owners(c)' = {k} /\ Accepted(c)' = {k}
        /\ \A x \in Cards : x # c => Owners(x)' = Owners(x) /\ Accepted(x)' = Accepted(x)
        /\ \A x \in Cards : \A l \in Accepted(x) : caller'[l] = caller[l]
    BY <1>1, <1>3, <2>1, <2>2 DEF Owners, Accepted
  <2>4. channel'[c] = caller[k].verdict /\ \A x \in Cards : x # c => channel'[x] = channel[x]
    BY <1>1, <1>4 DEF TypeOK
  <2>5. awaiter[c] \notin {"failed", "gaveup", "reported", "orphaned"}
    BY <1>4 DEF ReceiverAlive
  <2>6. TypeOK'
    BY <1>1, <1>2, <1>4, <2>2 DEF TypeOK
  <2>7. Callback' /\ Undispatched'
    BY <1>1, <1>2, <2>1, <2>2, <2>4 DEF Callback, Undispatched
  <2>8. OneOwner'
    <3>1. \A l, m \in Owners(c)' : l = m
      BY <2>3
    <3>2. entry'[c] # "pending"
      BY <1>1, <1>2
    <3>3. ASSUME NEW x \in Cards, x # c
          PROVE (\A l, m \in Owners(x)' : l = m) /\ (Owners(x)' # {} => entry'[x] # "pending")
      BY <1>2, <2>3, <3>3 DEF OneOwner
    <3>4. QED
      BY <3>1, <3>2, <3>3 DEF OneOwner
  <2>9. ChannelRight'
    <3>1. Dropped \notin Verdicts
      BY DEF Dropped, Verdicts
    <3>2. ASSUME NEW x \in Cards, x # c
          PROVE /\ \A l \in Accepted(x)' : channel'[x] = caller'[l].verdict /\ channel'[x] \in Verdicts
                /\ channel'[x] \in Verdicts => Accepted(x)' # {}
                /\ channel'[x] = Dropped => Owners(x)' = {} /\ entry'[x] = "none"
      BY <1>2, <2>3, <2>4, <3>2 DEF ChannelRight
    <3>3. QED
      BY <1>1, <2>1, <2>2, <2>3, <2>4, <3>1, <3>2 DEF ChannelRight
  <2>10. SinkRight'
    <3>1. sink[c] = NoVerdict
      BY <1>1, <1>3 DEF SinkRight, ChannelRight
    <3>2. QED
      BY <1>1, <1>2, <2>1, <2>2, <2>3, <2>4, <2>5, <3>1 DEF SinkRight
  <2>11. RemovedByCallback' /\ Timing'
    BY <1>1, <1>2, <2>1, <2>2, <2>5 DEF RemovedByCallback, Timing
  <2>12. QED
    BY <2>6, <2>7, <2>8, <2>9, <2>10, <2>11
<1>5. ASSUME ~ReceiverAlive(c), caller' = [caller EXCEPT ![k].pc = "undelivered"], UNCHANGED channel
      PROVE IInv'
  <2> DEFINE r == [caller[k] EXCEPT !.pc = "undelivered"]
  <2>1. /\ r \in CallerRec /\ r.pc = "undelivered" /\ r.card = c /\ r.status = 0
        /\ r.verdict = caller[k].verdict
    BY <1>1 DEF CallerRec
  <2>2. Only(k, r)
    <3>1. TypeOK /\ caller' = [caller EXCEPT ![k] = r]
      BY <1>5 DEF IInv
    <3>2. QED
      BY <2>1, <3>1, OnlyOne
  <2> HIDE DEF r
  <2> USE DEF IInv, Only, CallerRec
  <2>3. /\ \A x \in Cards : Owners(x)' = Owners(x) /\ Accepted(x)' = Accepted(x)
        /\ \A x \in Cards : \A l \in Accepted(x) : caller'[l] = caller[l]
    BY <1>1, <1>3, <2>1, <2>2 DEF Owners, Accepted
  <2>4. left[c] = 0
    <3>1. awaiter[c] # "reported"
      BY <1>1, <1>3 DEF SinkRight, ChannelRight
    <3>2. awaiter[c] \in {"sending", "sent"} => left[c] = 0
      BY <1>1, <1>5 DEF ReceiverAlive, Timing, TypeOK
    <3>3. QED
      BY <1>1, <1>5, <3>1, <3>2 DEF ReceiverAlive, Timing, TypeOK
  <2>5. TypeOK'
    BY <1>2, <1>5, <2>2 DEF TypeOK
  <2>6. Callback' /\ Undispatched'
    BY <1>1, <1>2, <1>5, <2>1, <2>2 DEF Callback, Undispatched
  <2>7. OneOwner' /\ ChannelRight' /\ SinkRight'
    BY <1>2, <1>5, <2>3 DEF OneOwner, ChannelRight, SinkRight
  <2>8. RemovedByCallback'
    BY <1>1, <1>2, <2>1, <2>2 DEF RemovedByCallback
  <2>9. Timing'
    BY <1>1, <1>2, <2>1, <2>2, <2>4 DEF Timing
  <2>10. QED
    BY <2>5, <2>6, <2>7, <2>8, <2>9
<1>6. QED
  BY <1>0, <1>4, <1>5 DEF Deliver

LEMMA DropUndeliveredStep ==
  ASSUME IInv, NEW k \in Callers, DropUndelivered(k)
  PROVE  IInv'
<1>1. PICK c \in Cards, v \in Verdicts : c = caller[k].card /\ v = caller[k].verdict
  BY DEF DropUndelivered, IInv, Callback
<1>2. caller[k].pc = "undelivered" /\ awaiter[c] # "none" /\ left[c] = 0
  BY <1>1 DEF DropUndelivered, IInv, Callback, Timing
<1>3. Answer(k, c, v, 410) /\ RemoveEntry(c) /\ UNCHANGED <<awaiter, left, timer, sink>>
  BY <1>1 DEF DropUndelivered
<1>4. Only(k, Answered(c, v, 410))
  BY <1>3, AnswerIsOnly DEF IInv, Statuses
<1>5. QED
  BY <1>2, <1>3, <1>4, RemovingStep DEF Answered

LEMMA AwaiterStep ==
  ASSUME IInv, NEW c \in Cards, Awaiter(c)
  PROVE  IInv'
BY QuietStep, StartAwaitStep, ReceiveStep, GiveUpStep DEF Awaiter

LEMMA HandlerStep ==
  ASSUME IInv, NEW k \in Callers, Handler(k)
  PROVE  IInv'
BY TuiResolveStep, DeliverStep, DropUndeliveredStep DEF Handler

LEMMA IInvStutter ==
  ASSUME IInv, UNCHANGED vars
  PROVE  IInv'
BY DEF IInv, vars, TypeOK, Callback, Undispatched, OneOwner, Owners, ChannelRight, Accepted,
       SinkRight, RemovedByCallback, Timing

LEMMA IInvStep == IInv /\ [Next]_vars => IInv'
BY DispatchStep, AwaiterStep, HttpCallbackStep, TuiFindStep, HandlerStep, TickStep, IInvStutter
   DEF Next

LEMMA IInvInit == Init => IInv
<1> SUFFICES ASSUME Init PROVE IInv
  OBVIOUS
<1> USE DEF Init
<1>1. TypeOK
  BY TimeoutAssumption DEF TypeOK, Statuses
<1>2. Callback /\ Undispatched
  BY NullAssumption DEF Callback, Undispatched
<1>3. \A c \in Cards : Owners(c) = {} /\ Accepted(c) = {}
  BY DEF Owners, Accepted
<1>4. OneOwner /\ ChannelRight /\ SinkRight
  BY <1>3, NullAssumption DEF OneOwner, ChannelRight, SinkRight
<1>5. RemovedByCallback /\ Timing
  BY DEF RemovedByCallback, Timing
<1>6. QED
  BY <1>1, <1>2, <1>4, <1>5 DEF IInv

-----------------------------------------------------------------------------
(* What follows from the invariant *)

LEMMA IInvAnswers == IInv => AcceptedAnswersHeard
<1> SUFFICES ASSUME IInv, NEW c \in Cards
             PROVE  /\ Cardinality(Accepted(c)) <= 1
                    /\ sink[c] # NoVerdict => \E k \in Accepted(c) : caller[k].verdict = sink[c]
                    /\ awaiter[c] \in {"failed", "reported", "gaveup"} =>
                         \A k \in Accepted(c) : caller[k].tooLate \/ sink[c] = caller[k].verdict
                    /\ awaiter[c] = "orphaned" =>
                         \E k \in Callers : caller[k].card = c /\ caller[k].status = 410
  BY DEF AcceptedAnswersHeard
<1> USE DEF IInv
<1>1. Cardinality(Accepted(c)) <= 1
  <2>1. \A k, l \in Accepted(c) : k = l
    BY DEF OneOwner, Owners, Accepted
  <2>2. CASE Accepted(c) = {}
    BY <2>2, FS_EmptySet
  <2>3. CASE Accepted(c) # {}
    <3>1. PICK k \in Accepted(c) : Accepted(c) = {k}
      BY <2>1, <2>3
    <3>2. QED
      BY <3>1, FS_Singleton
  <2>4. QED
    BY <2>2, <2>3
<1>2. sink[c] # NoVerdict => \E k \in Accepted(c) : caller[k].verdict = sink[c]
  BY DEF SinkRight, ChannelRight
<1>3. ASSUME awaiter[c] \in {"failed", "reported", "gaveup"}, NEW k \in Accepted(c)
      PROVE  caller[k].tooLate \/ sink[c] = caller[k].verdict
  BY <1>3 DEF SinkRight, ChannelRight
<1>4. awaiter[c] = "orphaned" => \E k \in Callers : caller[k].card = c /\ caller[k].status = 410
  BY DEF RemovedByCallback
<1>5. QED
  BY <1>1, <1>2, <1>3, <1>4

LEMMA IInvAnswerable == IInv => TimelyCardsAnswerable
<1> SUFFICES ASSUME IInv, NEW c \in Cards, left[c] > 0
             PROVE  /\ entry[c] = "pending" => ReceiverAlive(c)
                    /\ Accepted(c) # {} => entry[c] = "resolved"
                    /\ entry[c] # "none"
  BY DEF TimelyCardsAnswerable
<1> USE DEF IInv
<1>1. entry[c] # "none" /\ left[c] # 0
  BY DEF Timing, TypeOK
<1>2. Accepted(c) # {} => entry[c] = "resolved"
  BY <1>1 DEF OneOwner, Owners, Accepted, TypeOK
<1>3. ASSUME entry[c] = "pending" PROVE ReceiverAlive(c)
  <2>1. Accepted(c) = {}
    BY <1>3 DEF OneOwner, Owners, Accepted
  <2>2. awaiter[c] \notin {"none", "reported", "failed", "gaveup", "orphaned"}
    BY <1>1, <2>1 DEF Undispatched, SinkRight, ChannelRight, Timing
  <2>3. QED
    BY <1>1, <2>2 DEF ReceiverAlive, TypeOK
<1>4. QED
  BY <1>1, <1>2, <1>3

\* The state of the cards, of their awaiters and of the callbacks is what
\* mod.rs keeps: no step of the gateway leaves the types.
THEOREM TypeCorrect == Spec => []TypeOK
<1>1. IInv => TypeOK
  BY DEF IInv
<1>2. QED
  BY IInvInit, IInvStep, <1>1, PTL DEF Spec

\* For any number of cards and callbacks: a card has at most one accepted
\* answer, and unless it was sent too late, or the card was orphaned while it
\* was sent, the sink of await_verdict_inner gets the verdict of exactly that
\* callback of resolve_callback.
THEOREM AcceptedAnswersHeardAlways == Spec => []AcceptedAnswersHeard
BY IInvInit, IInvStep, IInvAnswers, PTL DEF Spec

\* For any timeout: until expires_at no awaiter and no callback of
\* resolve_callback removes the entry of a card, so that it can be answered.
THEOREM TimelyCardsAnswerableAlways == Spec => []TimelyCardsAnswerable
BY IInvInit, IInvStep, IInvAnswerable, PTL DEF Spec
=============================================================================
