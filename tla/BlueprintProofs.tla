--------------------------- MODULE BlueprintProofs ---------------------------
(***************************************************************************)
(* Proofs about BlueprintLifecycle and the store under it, for any steps,  *)
(* any ring of at least one event, any number of writes, faults and        *)
(* attempts to connect, and any requests.                                  *)
(***************************************************************************)
EXTENDS BlueprintLifecycle, SequenceTheorems, TLAPS

-----------------------------------------------------------------------------
(* Sequences of rows and events *)

\* At most one row per step.
Distinct(rows) ==
  \A i, j \in DOMAIN rows : rows[i].step = rows[j].step => i = j

Overlay(rows) == rows \in Seq(Rows) /\ Distinct(rows)

\* RowOf, for any table.
RowIn(rows, s) ==
  LET i == InStep(rows, s) IN
  IF i = {} THEN [step |-> s, status |-> 0, verdict |-> 0] ELSE rows[CHOOSE k \in i : TRUE]

LEMMA RowOfIsRowIn ==
  ASSUME NEW s
  PROVE  RowOf(s) = RowIn(overlay, s) /\ (RowOf(s))' = RowIn(overlay', s)
BY DEF RowOf, RowIn, InStep

LEMMA NoSuchRow ==
  ASSUME NEW s \in Steps
  PROVE  LET r == [step |-> s, status |-> 0, verdict |-> 0] IN
         r \in Rows /\ r.step = s /\ r.status = 0 /\ r.verdict = 0
BY StoreAssumption DEF Rows

LEMMA RowFound ==
  ASSUME NEW rows, Overlay(rows), NEW i \in DOMAIN rows
  PROVE  RowIn(rows, rows[i].step) = rows[i]
<1> DEFINE s == rows[i].step
<1>1. i \in InStep(rows, s)
  BY DEF InStep
<1>2. \A k \in InStep(rows, s) : k = i
  BY DEF InStep, Overlay, Distinct
<1>3. (CHOOSE k \in InStep(rows, s) : TRUE) = i
  BY <1>1, <1>2
<1> HIDE DEF s
<1> QED
  BY <1>1, <1>3 DEF RowIn, s

LEMMA RowInType ==
  ASSUME NEW rows, Overlay(rows), NEW s \in Steps
  PROVE  RowIn(rows, s) \in Rows /\ RowIn(rows, s).step = s
<1>1. CASE InStep(rows, s) = {}
  BY <1>1, NoSuchRow DEF RowIn
<1>2. CASE InStep(rows, s) # {}
  <2>1. PICK i \in InStep(rows, s) : TRUE
    BY <1>2
  <2>2. i \in DOMAIN rows /\ rows[i].step = s
    BY <2>1 DEF InStep
  <2>3. rows[i] \in Rows
    BY <2>2, LenProperties, ElementOfSeq DEF Overlay
  <2> QED
    BY <2>2, <2>3, RowFound
<1> QED
  BY <1>1, <1>2

\* Put, for any table.
PutIn(rows, r) ==
  LET old == InStep(rows, r.step)
      place == IF old = {} THEN Len(rows) + 1 ELSE CHOOSE k \in old : TRUE IN
  [k \in DOMAIN rows \cup {place} |->
     IF k = 1 THEN r ELSE IF k <= place THEN rows[k - 1] ELSE rows[k]]

LEMMA PutIsPutIn == ASSUME NEW r PROVE Put(r) = PutIn(overlay, r)
BY DEF Put, PutIn

\* Where the rows go when one is put before them: those up to the place that the
\* row had move back, or all if it had none.
Moved(rows, r, len, n, place) ==
  /\ n \in {len, len + 1} /\ place \in 1..n
  /\ n = len => rows[place].step = r.step
  /\ n = len + 1 => place = n /\ InStep(rows, r.step) = {}
  /\ PutIn(rows, r) =
       [k \in 1..n |-> IF k = 1 THEN r ELSE IF k <= place THEN rows[k - 1] ELSE rows[k]]

LEMMA Places ==
  ASSUME NEW rows, Overlay(rows)
  PROVE  \E len \in Nat : len = Len(rows) /\ DOMAIN rows = 1..len /\ rows \in [1..len -> Rows]
BY LenProperties DEF Overlay

LEMMA PutPlaces ==
  ASSUME NEW rows, Overlay(rows), NEW r \in Rows,
         NEW len \in Nat, len = Len(rows), DOMAIN rows = 1..len
  PROVE  \E n, place : Moved(rows, r, len, n, place)
<1> DEFINE old == InStep(rows, r.step)
<1>1. CASE old = {}
  <2>1. DOMAIN rows \cup {len + 1} = 1..len + 1
    OBVIOUS
  <2>2. PutIn(rows, r) =
          [k \in 1..len + 1 |-> IF k = 1 THEN r
                               ELSE IF k <= len + 1 THEN rows[k - 1] ELSE rows[k]]
    BY <1>1, <2>1, Zenon DEF PutIn
  <2>3. Moved(rows, r, len, len + 1, len + 1)
    BY <1>1, <2>2 DEF Moved
  <2> QED
    BY <2>3
<1>2. CASE old # {}
  <2> DEFINE place == CHOOSE k \in old : TRUE
  <2>1. place \in old
    BY <1>2
  <2>2. place \in 1..len /\ rows[place].step = r.step
    BY <2>1 DEF InStep
  <2>3. DOMAIN rows \cup {place} = 1..len
    BY <2>2
  <2>4. PutIn(rows, r) =
          [k \in 1..len |-> IF k = 1 THEN r ELSE IF k <= place THEN rows[k - 1] ELSE rows[k]]
    BY <1>2, <2>3, Zenon DEF PutIn
  <2> HIDE DEF place, old
  <2>5. Moved(rows, r, len, len, place)
    BY <2>2, <2>4 DEF Moved
  <2> QED
    BY <2>5
<1> QED
  BY <1>1, <1>2

LEMMA PutRow ==
  ASSUME NEW rows, Overlay(rows), NEW r \in Rows
  PROVE  /\ Overlay(PutIn(rows, r))
         /\ \A s : RowIn(PutIn(rows, r), s) = IF s = r.step THEN r ELSE RowIn(rows, s)
<1>1. PICK len \in Nat : len = Len(rows) /\ DOMAIN rows = 1..len /\ rows \in [1..len -> Rows]
  BY Places
<1>0. PICK n, place : Moved(rows, r, len, n, place)
  BY <1>1, PutPlaces
<1>2. /\ n \in {len, len + 1} /\ place \in 1..n /\ n \in Nat
      /\ n = len => rows[place].step = r.step
      /\ n = len + 1 => place = n /\ InStep(rows, r.step) = {}
      /\ PutIn(rows, r) =
           [k \in 1..n |-> IF k = 1 THEN r ELSE IF k <= place THEN rows[k - 1] ELSE rows[k]]
  BY <1>0 DEF Moved
<1> DEFINE new == PutIn(rows, r)
           from(k) == IF k <= place THEN k - 1 ELSE k
<1>3. DOMAIN new = 1..n /\ new[1] = r /\ 1 \in 1..n
  BY <1>2
<1>4. \A k \in 2..n : from(k) \in 1..len /\ new[k] = rows[from(k)]
  <2> SUFFICES ASSUME NEW k \in 2..n PROVE from(k) \in 1..len /\ new[k] = rows[from(k)]
    OBVIOUS
  <2>1. k \in 1..n /\ k # 1
    BY <1>2
  <2>2. from(k) \in 1..len
    BY <1>2
  <2> QED
    BY <1>2, <2>1, <2>2, Zenon
<1>5. \A k \in 1..n : new[k] \in Rows
  BY <1>1, <1>3, <1>4
<1>6. new \in [1..n -> Rows]
  BY <1>2, <1>5
<1>7. new \in Seq(Rows)
  BY <1>2, <1>6, SeqDef
<1>8. \A j, k \in 2..n : from(j) = from(k) => j = k
  BY <1>2
\* No row but the first is of the step.
<1>9. \A k \in 2..n : rows[from(k)].step # r.step
  <2> SUFFICES ASSUME NEW k \in 2..n, rows[from(k)].step = r.step PROVE FALSE
    OBVIOUS
  <2>1. from(k) \in DOMAIN rows /\ from(k) \in 1..len
    BY <1>1, <1>4
  <2>2. CASE n = len + 1
    BY <1>2, <2>1, <2>2 DEF InStep
  <2>3. CASE n = len
    <3>1. place \in DOMAIN rows /\ rows[place].step = r.step
      BY <1>1, <1>2, <2>3
    <3>2. from(k) = place
      BY <2>1, <3>1 DEF Overlay, Distinct
    <3> QED
      BY <1>2, <3>2
  <2> QED
    BY <1>2, <2>2, <2>3
<1> HIDE DEF new, from
<1>10. Distinct(new)
  <2> SUFFICES ASSUME NEW i \in 1..n, NEW j \in 1..n, new[i].step = new[j].step
               PROVE  i = j
    BY <1>3 DEF Distinct
  <2>1. CASE i = 1 /\ j # 1
    BY <1>3, <1>4, <1>9, <2>1
  <2>2. CASE i # 1 /\ j = 1
    BY <1>3, <1>4, <1>9, <2>2
  <2>3. CASE i \in 2..n /\ j \in 2..n
    <3>1. from(i) = from(j)
      BY <1>1, <1>4, <2>3 DEF Overlay, Distinct
    <3> QED
      BY <1>8, <2>3, <3>1
  <2> QED
    BY <2>1, <2>2, <2>3
<1>11. Overlay(new)
  BY <1>7, <1>10 DEF Overlay
<1>12. ASSUME NEW s
       PROVE  RowIn(new, s) = IF s = r.step THEN r ELSE RowIn(rows, s)
  <2>1. CASE s = r.step
    BY <1>3, <1>11, <2>1, RowFound
  <2>2. CASE s # r.step /\ InStep(new, s) # {}
    <3>1. PICK k \in 1..n : new[k].step = s
      BY <1>3, <2>2 DEF InStep
    <3>2. k \in 2..n
      BY <1>3, <2>2, <3>1
    <3>3. new[k] = rows[from(k)] /\ from(k) \in DOMAIN rows
      BY <1>1, <1>4, <3>2
    <3>4. RowIn(new, s) = new[k]
      BY <1>3, <1>11, <3>1, RowFound
    <3>5. RowIn(rows, s) = rows[from(k)]
      BY <3>1, <3>3, RowFound
    <3> QED
      BY <2>2, <3>3, <3>4, <3>5
  <2>3. CASE s # r.step /\ InStep(new, s) = {}
    <3>1. InStep(rows, s) = {}
      <4> SUFFICES ASSUME NEW i \in DOMAIN rows, rows[i].step = s PROVE FALSE
        BY DEF InStep
      <4>1. \E k \in 2..n : from(k) = i
        <5>1. i \in 1..len
          BY <1>1
        <5>2. n = len => i # place
          BY <1>2, <2>3
        <5>3. CASE i < place
          <6>1. i + 1 \in 2..n /\ from(i + 1) = i
            BY <1>2, <5>1, <5>3 DEF from
          <6> QED
            BY <6>1
        <5>4. CASE i > place
          <6>1. i \in 2..n /\ from(i) = i
            BY <1>2, <5>1, <5>4 DEF from
          <6> QED
            BY <6>1
        <5> QED
          BY <1>2, <5>1, <5>2, <5>3, <5>4
      <4>2. PICK k \in 2..n : new[k].step = s
        BY <1>4, <4>1
      <4> QED
        BY <1>3, <2>3, <4>2 DEF InStep
    <3> QED
      BY <2>3, <3>1 DEF RowIn
  <2> QED
    BY <2>1, <2>2, <2>3
<1> QED
  BY <1>11, <1>12 DEF new

-----------------------------------------------------------------------------
(* The ring and the drained events *)

\* The newest event of step s in es is that of write at.
LastOf(es, s, at) ==
  \E i \in InStep(es, s) : es[i].at = at /\ \A j \in InStep(es, s) : j <= i

\* As far as step s goes, new is es without its first d events.
Follows(new, es, d, s) ==
  /\ \A i \in InStep(new, s) : i + d \in DOMAIN es /\ new[i] = es[i + d]
  /\ \A i \in InStep(es, s) : i > d => i - d \in DOMAIN new /\ new[i - d] = es[i]

LEMMA FollowsLast ==
  ASSUME NEW es, NEW new, NEW len \in Nat, NEW n \in Nat, NEW d \in {0, 1}, NEW s, NEW at,
         DOMAIN es = 1..len, DOMAIN new = 1..n, Follows(new, es, d, s), LastOf(es, s, at)
  PROVE  \/ LastOf(new, s, at)
         \/ InStep(new, s) = {} /\ d = 1 /\ len > 0 /\ es[1].step = s /\ es[1].at = at
<1>1. PICK i \in InStep(es, s) : es[i].at = at /\ \A j \in InStep(es, s) : j <= i
  BY DEF LastOf
<1>2. i \in 1..len /\ es[i].step = s
  BY <1>1 DEF InStep
<1>3. ASSUME NEW j \in InStep(new, s)
      PROVE  j \in 1..n /\ j + d \in InStep(es, s) /\ j + d <= i
  <2>1. j \in 1..n /\ new[j].step = s
    BY DEF InStep
  <2>2. j + d \in DOMAIN es /\ es[j + d].step = s
    BY <2>1 DEF Follows
  <2>3. j + d \in InStep(es, s)
    BY <2>2 DEF InStep
  <2> QED
    BY <1>1, <2>1, <2>3
<1>4. CASE i > d
  <2>1. i - d \in DOMAIN new /\ new[i - d] = es[i]
    BY <1>4 DEF Follows
  <2>2. i - d \in InStep(new, s)
    BY <1>2, <2>1 DEF InStep
  <2>3. \A j \in InStep(new, s) : j <= i - d
    BY <1>2, <1>3
  <2> QED
    BY <1>1, <2>1, <2>2, <2>3 DEF LastOf
<1>5. CASE i <= d
  <2>1. i = 1 /\ d = 1
    BY <1>2, <1>5
  <2>2. InStep(new, s) = {}
    <3> SUFFICES ASSUME NEW j \in InStep(new, s) PROVE FALSE
      OBVIOUS
    <3>1. j \in 1..n /\ j + d <= i
      BY <1>3
    <3> QED
      BY <2>1, <3>1
  <2> QED
    BY <1>1, <1>2, <2>1, <2>2
<1> QED
  BY <1>2, <1>4, <1>5

LEMMA FollowsNone ==
  ASSUME NEW es, NEW new, NEW d, NEW s, Follows(new, es, d, s), InStep(es, s) = {}
  PROVE  InStep(new, s) = {}
BY DEF Follows, InStep

LEMMA EventPlaces ==
  ASSUME NEW es \in Seq(Events)
  PROVE  \E len \in Nat : len = Len(es) /\ DOMAIN es = 1..len /\ es \in [1..len -> Events]
BY LenProperties

LEMMA TailEffect ==
  ASSUME NEW es \in Seq(Events), es # <<>>
  PROVE  /\ Tail(es) \in Seq(Events) /\ Len(Tail(es)) = Len(es) - 1
         /\ Head(es) \in Events /\ Head(es) = es[1] /\ 1 \in DOMAIN es
         /\ \A s : Follows(Tail(es), es, 1, s)
<1>1. PICK len \in Nat : len = Len(es) /\ DOMAIN es = 1..len /\ es \in [1..len -> Events]
  BY EventPlaces
<1>2. len # 0
  BY <1>1, EmptySeq
<1>3. /\ Tail(es) \in Seq(Events) /\ Len(Tail(es)) = len - 1 /\ Head(es) \in Events
      /\ \A i \in 1..len - 1 : Tail(es)[i] = es[i + 1]
  BY <1>1, HeadTailProperties
<1>4. DOMAIN Tail(es) = 1..len - 1
  BY <1>3, LenProperties
<1>5. Head(es) = es[1]
  BY DEF Head
<1>6. ASSUME NEW s PROVE Follows(Tail(es), es, 1, s)
  <2>1. ASSUME NEW i \in InStep(Tail(es), s)
        PROVE  i + 1 \in DOMAIN es /\ Tail(es)[i] = es[i + 1]
    <3>1. i \in 1..len - 1
      BY <1>4 DEF InStep
    <3> QED
      BY <1>1, <1>3, <3>1
  <2>2. ASSUME NEW i \in InStep(es, s), i > 1
        PROVE  i - 1 \in DOMAIN Tail(es) /\ Tail(es)[i - 1] = es[i]
    <3>1. i \in 1..len
      BY <1>1 DEF InStep
    <3>2. i - 1 \in 1..len - 1 /\ (i - 1) + 1 = i
      BY <2>2, <3>1
    <3>3. Tail(es)[i - 1] = es[(i - 1) + 1]
      BY <1>3, <3>2
    <3> QED
      BY <1>4, <3>2, <3>3
  <2> QED
    BY <2>1, <2>2 DEF Follows
<1>7. 1 \in DOMAIN es
  BY <1>1, <1>2
<1> QED
  BY <1>1, <1>3, <1>5, <1>6, <1>7

\* The oldest event that the ring loses for a new one.
Lost == IF Len(ring) = MaxEntries THEN 1 ELSE 0

LEMMA AppendEffect ==
  ASSUME NEW es \in Seq(Events), NEW e \in Events, NEW len \in Nat, len = Len(es)
  PROVE  /\ Append(es, e) \in Seq(Events) /\ Len(Append(es, e)) = len + 1
         /\ Append(es, e) # <<>> /\ DOMAIN Append(es, e) = 1..len + 1
         /\ Append(es, e)[len + 1] = e
         /\ \A i \in 1..len : Append(es, e)[i] = es[i]
<1>1. Append(es, e) \in Seq(Events) /\ Len(Append(es, e)) = len + 1
  OBVIOUS
<1>2. Append(es, e) # <<>>
  BY <1>1, EmptySeq
<1> QED
  BY <1>1, <1>2

LEMMA BufferedEffect ==
  ASSUME ring \in Seq(Events), Len(ring) <= MaxEntries, NEW e \in Events
  PROVE  /\ Buffered(e) \in Seq(Events) /\ Len(Buffered(e)) <= MaxEntries
         /\ \A s : s # e.step => Follows(Buffered(e), ring, Lost, s)
         /\ InStep(Buffered(e), e.step) # {} /\ LastOf(Buffered(e), e.step, e.at)
<1>1. PICK len \in Nat : len = Len(ring) /\ DOMAIN ring = 1..len /\ ring \in [1..len -> Events]
  BY EventPlaces
<1> DEFINE all == Append(ring, e)
           new == Buffered(e)
<1>2. /\ all \in Seq(Events) /\ Len(all) = len + 1 /\ all # <<>> /\ DOMAIN all = 1..len + 1
      /\ all[len + 1] = e /\ \A i \in 1..len : all[i] = ring[i]
  BY <1>1, AppendEffect
<1>3. MaxEntries \in Nat \ {0} /\ len \in Nat /\ len <= MaxEntries
  BY <1>1, StoreAssumption
<1>4. new = IF len + 1 > MaxEntries THEN Tail(all) ELSE all
  BY <1>2 DEF Buffered
<1>5. Lost = IF len = MaxEntries THEN 1 ELSE 0
  BY <1>1 DEF Lost
<1>6. Lost \in {0, 1}
  BY <1>5
<1> HIDE DEF all, new
\* Both forms, place by place.
<1>7. /\ new \in Seq(Events) /\ Len(new) = len + 1 - Lost
      /\ \A i \in 1..len + 1 - Lost : new[i] = all[i + Lost]
  <2>1. CASE len = MaxEntries
    <3>1. new = Tail(all) /\ Lost = 1
      BY <1>3, <1>4, <1>5, <2>1
    <3>2. /\ Tail(all) \in Seq(Events) /\ Len(Tail(all)) = len
          /\ \A i \in 1..len : Tail(all)[i] = all[i + 1]
      BY <1>2, HeadTailProperties
    <3> QED
      BY <3>1, <3>2
  <2>2. CASE len # MaxEntries
    <3>1. new = all /\ Lost = 0
      BY <1>3, <1>4, <1>5, <2>2
    <3> QED
      BY <1>2, <3>1
  <2> QED
    BY <2>1, <2>2
<1>8. DOMAIN new = 1..len + 1 - Lost
  BY <1>7, LenProperties
<1>9. len + 1 - Lost \in 1..MaxEntries
  BY <1>3, <1>5
<1>10. new[len + 1 - Lost] = e
  <2>1. len + 1 - Lost \in 1..len + 1 - Lost /\ (len + 1 - Lost) + Lost = len + 1
    BY <1>6, <1>9
  <2> QED
    BY <1>2, <1>7, <2>1
<1>11. ASSUME NEW s, s # e.step
       PROVE  Follows(new, ring, Lost, s)
  <2>1. ASSUME NEW i \in InStep(new, s)
        PROVE  i + Lost \in DOMAIN ring /\ new[i] = ring[i + Lost]
    <3>1. i \in 1..len + 1 - Lost /\ new[i].step = s
      BY <1>8 DEF InStep
    <3>2. i # len + 1 - Lost
      BY <1>10, <1>11, <3>1
    <3>3. i + Lost \in 1..len
      BY <1>6, <3>1, <3>2
    <3> QED
      BY <1>1, <1>2, <1>7, <3>1, <3>3
  <2>2. ASSUME NEW i \in InStep(ring, s), i > Lost
        PROVE  i - Lost \in DOMAIN new /\ new[i - Lost] = ring[i]
    <3>1. i \in 1..len
      BY <1>1 DEF InStep
    <3>2. i - Lost \in 1..len + 1 - Lost /\ (i - Lost) + Lost = i
      BY <1>6, <2>2, <3>1
    <3> QED
      BY <1>2, <1>7, <1>8, <3>1, <3>2
  <2> QED
    BY <2>1, <2>2 DEF Follows
<1>12. len + 1 - Lost \in InStep(new, e.step)
  BY <1>8, <1>9, <1>10 DEF InStep
<1>13. \A j \in InStep(new, e.step) : j <= len + 1 - Lost
  BY <1>6, <1>8 DEF InStep
<1>14. LastOf(new, e.step, e.at)
  BY <1>10, <1>12, <1>13 DEF LastOf
<1> QED
  BY <1>3, <1>7, <1>9, <1>11, <1>12, <1>14 DEF new

-----------------------------------------------------------------------------
(* Types *)

Commanding == Resting \cup Offboarding \cup Onboarding
CmdRecord == [pc : Commanding, table : Seq(Rows), count : Nat]

Queued == {"ensure", "version", "load", "migrate", "pool"}

\* The replay has events exactly while it works on one; only a daemon with the
\* catalogue replays.
Connected ==
  /\ replayer # "off" => catalog
  /\ IF replayer \in Queued THEN queue # <<>> ELSE queue = <<>>

TInv == TypeOK /\ Connected

\* TypeOK and Connected by the variables that change together.
ConnOK ==
  /\ up \in BOOLEAN /\ daemon \in BOOLEAN /\ catalog \in BOOLEAN
  /\ pool \in BOOLEAN /\ halfMade \in BOOLEAN
  /\ attempts \in 0..Attempts
  /\ database \in {"none", "empty", "absurd", "full"}
  /\ faults \in 0..MaxFaults

QueueOK ==
  /\ ring \in Seq(Events) /\ Len(ring) <= MaxEntries
  /\ queue \in Seq(Events) /\ Len(queue) <= MaxEntries
  /\ replayer \in {"off", "drain", "ended"} \cup Queued
  /\ Connected

WriteOK ==
  /\ Overlay(overlay)
  /\ writes \in 0..MaxWrites
  /\ said \in [Steps -> 0..MaxWrites] /\ excused \subseteq Steps

CmdOK ==
  /\ cmd \in [Commands -> CmdRecord]
  /\ uncounted \in [Commands -> Int]

ReportOK ==
  /\ status \in {"none", "ACTIVE", "OFFBOARDED"}
  /\ report \subseteq Rows /\ committed \subseteq Rows /\ purged \subseteq Rows
  /\ mishaps \subseteq {"overwritten", "unaudited", "miscounted"}

LEMMA TInvParts == TInv <=> ConnOK /\ QueueOK /\ WriteOK /\ CmdOK /\ ReportOK
BY DEF TInv, TypeOK, StoreTypeOK, ConnOK, QueueOK, WriteOK, CmdOK, ReportOK, Overlay,
       Distinct, CmdRecord, Commanding, Queued

LEMMA TInvPartsNext ==
  ConnOK' /\ QueueOK' /\ WriteOK' /\ CmdOK' /\ ReportOK' => TInv'
BY DEF TInv, TypeOK, StoreTypeOK, ConnOK, QueueOK, WriteOK, CmdOK, ReportOK, Overlay,
       Distinct, CmdRecord, Commanding, Queued

-----------------------------------------------------------------------------
(* What the steps of the store do *)

LEMMA Numbers ==
  /\ MaxEntries \in Nat \ {0} /\ Attempts \in Nat /\ MaxWrites \in Nat /\ MaxFaults \in Nat
BY StoreAssumption

\* A row with a write in one of its columns.
LEMMA RowUpdated ==
  ASSUME NEW q \in Rows, NEW v \in 0..MaxWrites
  PROVE  /\ LET r == [q EXCEPT !.status = v] IN
            r \in Rows /\ r.step = q.step /\ r.status = v /\ v \in Stamps(r)
         /\ LET r == [q EXCEPT !.verdict = v] IN
            r \in Rows /\ r.step = q.step /\ r.verdict = v /\ v \in Stamps(r)
BY DEF Rows, Stamps

\* The ways a write may go.
Writes(s) ==
  /\ Writing
  /\ \/ \E r \in Rows : r.step = s /\ writes + 1 \in Stamps(r) /\ Direct(s, r)
     \/ said[s] # 0 /\ NoRow(s)
     \/ Refused
     \/ Buffer(s)

LEMMA WriterWrites ==
  ASSUME TInv, NEW s \in Steps, StartStep(s) \/ SetStatus(s) \/ RecordVerdict(s)
  PROVE  Writes(s)
<1>1. writes + 1 \in 0..MaxWrites
  BY Numbers DEF StartStep, SetStatus, RecordVerdict, Update, Writing, TInv, TypeOK, StoreTypeOK
<1>2. RowOf(s) \in Rows /\ RowOf(s).step = s
  BY RowOfIsRowIn, RowInType, TInvParts DEF WriteOK
<1> DEFINE r1 == [RowOf(s) EXCEPT !.status = writes + 1]
           r2 == [RowOf(s) EXCEPT !.verdict = writes + 1]
<1>3. /\ r1 \in Rows /\ r1.step = s /\ writes + 1 \in Stamps(r1)
      /\ r2 \in Rows /\ r2.step = s /\ writes + 1 \in Stamps(r2)
  BY <1>1, <1>2, RowUpdated
<1>4. /\ Writing
      /\ \/ Direct(s, r1) \/ Direct(s, r2)
         \/ said[s] # 0 /\ NoRow(s)
         \/ Refused
         \/ Buffer(s)
  BY DEF StartStep, SetStatus, RecordVerdict, Update
<1> HIDE DEF r1, r2
<1> QED
  BY <1>3, <1>4 DEF Writes

\* A step towards a complete database never undoes one, and a pool it leaves behind
\* is of a complete one.
LEMMA EnsureEffect ==
  ASSUME ConnOK, NEW at, NEW to, EnsureStep(at, to)
  PROVE  /\ pool' \in BOOLEAN /\ database' \in {"none", "empty", "absurd", "full"}
         /\ database = "full" => database' = "full"
         /\ pool' => pool \/ database' = "full"
         /\ to = "ensured" => pool \/ database' = "full"
<1>0. database \in {"none", "empty", "absurd", "full"} /\ pool \in BOOLEAN
  BY DEF ConnOK
<1>1. CASE UNCHANGED <<database, pool>> /\ (to # "ensured" \/ pool)
  BY <1>0, <1>1
<1>2. CASE UNCHANGED pool /\ to # "ensured" /\ database' \in {"empty", "absurd", "full"}
           /\ (database = "full" => database' = "full")
  BY <1>0, <1>2
<1>3. CASE database' = "full" /\ pool' = TRUE
  BY <1>3
<1>4. CASE EnsureDatabase(to)
  BY <1>0, <1>1, <1>2, <1>4 DEF EnsureDatabase
<1>5. CASE InitSchema(at, to)
  BY <1>0, <1>1, <1>2, <1>5 DEF InitSchema
<1>6. CASE Migrate(to)
  BY <1>1, <1>3, <1>6 DEF Migrate
<1> QED
  BY <1>4, <1>5, <1>6 DEF EnsureStep

LEMMA AdvanceEffect ==
  ASSUME QueueOK, replayer \in Queued, Advance
  PROVE  /\ queue' \in Seq(Events) /\ Len(queue') <= MaxEntries
         /\ replayer' \in {"ended", "ensure"}
         /\ replayer' = "ensure" <=> queue' # <<>>
         /\ \A s : Follows(queue', queue, 1, s)
         /\ Head(queue) \in Events /\ Head(queue) = queue[1] /\ 1 \in DOMAIN queue
<1>1. queue \in Seq(Events) /\ queue # <<>> /\ Len(queue) <= MaxEntries
  BY DEF QueueOK, Connected
<1>2. queue' = Tail(queue) /\ replayer' = IF Len(queue) = 1 THEN "ended" ELSE "ensure"
  BY DEF Advance
<1>3. /\ Tail(queue) \in Seq(Events) /\ Len(Tail(queue)) = Len(queue) - 1
      /\ Head(queue) \in Events /\ Head(queue) = queue[1] /\ 1 \in DOMAIN queue
      /\ \A s : Follows(Tail(queue), queue, 1, s)
  BY <1>1, TailEffect
<1>4. Len(queue) \in Nat
  BY <1>1
<1>5. Tail(queue) = <<>> <=> Len(Tail(queue)) = 0
  BY <1>3, EmptySeq
<1> QED
  BY <1>1, <1>2, <1>3, <1>4, <1>5, Numbers

-----------------------------------------------------------------------------
(* What the requests do to themselves *)

LEMMA GoesEffect ==
  ASSUME cmd \in [Commands -> CmdRecord], NEW c \in Commands, NEW pc \in Commanding, Goes(c, pc)
  PROVE  /\ cmd' \in [Commands -> CmdRecord]
         /\ cmd'[c].pc = pc
         /\ pc \notin Resting => cmd'[c].table = cmd[c].table /\ cmd'[c].count = cmd[c].count
         /\ \A d \in Commands : d # c => cmd'[d] = cmd[d]
<1> DEFINE k == IF pc \in Resting THEN [Idle EXCEPT !.pc = pc] ELSE [cmd[c] EXCEPT !.pc = pc]
<1>1. cmd' = [cmd EXCEPT ![c] = k]
  BY DEF Goes
<1>2. k \in CmdRecord /\ k.pc = pc
  <2>1. Idle \in CmdRecord
    BY EmptySeq DEF Idle, CmdRecord, Commanding, Resting
  <2>2. cmd[c] \in CmdRecord
    OBVIOUS
  <2>3. [Idle EXCEPT !.pc = pc] \in CmdRecord /\ [Idle EXCEPT !.pc = pc].pc = pc
    BY <2>1 DEF CmdRecord
  <2>4. [cmd[c] EXCEPT !.pc = pc] \in CmdRecord /\ [cmd[c] EXCEPT !.pc = pc].pc = pc
    BY <2>2 DEF CmdRecord
  <2> QED
    BY <2>3, <2>4
<1>3. pc \notin Resting => k.table = cmd[c].table /\ k.count = cmd[c].count
  <2>1. cmd[c] \in CmdRecord
    OBVIOUS
  <2>2. LET j == [cmd[c] EXCEPT !.pc = pc] IN j.table = cmd[c].table /\ j.count = cmd[c].count
    BY <2>1 DEF CmdRecord
  <2> QED
    BY <2>2
<1> HIDE DEF k
<1> QED
  BY <1>1, <1>2, <1>3

LEMMA ScanEffect ==
  ASSUME cmd \in [Commands -> CmdRecord], NEW c \in Commands, NEW table \in Seq(Rows),
         cmd' = [cmd EXCEPT ![c].pc = "smelt", ![c].table = table]
  PROVE  /\ cmd' \in [Commands -> CmdRecord]
         /\ cmd'[c].pc = "smelt" /\ cmd'[c].table = table /\ cmd'[c].count = cmd[c].count
         /\ \A d \in Commands : d # c => cmd'[d] = cmd[d]
<1> DEFINE k == [cmd[c] EXCEPT !.pc = "smelt", !.table = table]
<1>1. cmd' = [cmd EXCEPT ![c] = k]
  OBVIOUS
<1>2. cmd[c] \in CmdRecord
  OBVIOUS
<1>3. k \in CmdRecord /\ k.pc = "smelt" /\ k.table = table /\ k.count = cmd[c].count
  BY <1>2 DEF CmdRecord, Commanding, Offboarding
<1> HIDE DEF k
<1> QED
  BY <1>1, <1>3

LEMMA CountEffect ==
  ASSUME cmd \in [Commands -> CmdRecord], NEW c \in Commands, NEW n \in Nat,
         cmd' = [cmd EXCEPT ![c].pc = "purge", ![c].count = n]
  PROVE  /\ cmd' \in [Commands -> CmdRecord]
         /\ cmd'[c].pc = "purge" /\ cmd'[c].table = cmd[c].table /\ cmd'[c].count = n
         /\ \A d \in Commands : d # c => cmd'[d] = cmd[d]
<1> DEFINE k == [cmd[c] EXCEPT !.pc = "purge", !.count = n]
<1>1. cmd' = [cmd EXCEPT ![c] = k]
  OBVIOUS
<1>2. cmd[c] \in CmdRecord
  OBVIOUS
<1>3. k \in CmdRecord /\ k.pc = "purge" /\ k.table = cmd[c].table /\ k.count = n
  BY <1>2 DEF CmdRecord, Commanding, Offboarding
<1> HIDE DEF k
<1> QED
  BY <1>1, <1>3

LEMMA CrashEffect ==
  ASSUME cmd \in [Commands -> CmdRecord], Crash
  PROVE  /\ cmd' \in [Commands -> CmdRecord]
         /\ \A c \in Commands :
              IF cmd[c].pc \in Resting THEN cmd'[c] = cmd[c] ELSE cmd'[c].pc = "ended"
<1> DEFINE e == [Idle EXCEPT !.pc = "ended"]
<1>1. Idle \in CmdRecord
  BY EmptySeq DEF Idle, CmdRecord, Commanding, Resting
<1>2. e \in CmdRecord /\ e.pc = "ended"
  BY <1>1 DEF CmdRecord, Commanding, Resting
<1>3. cmd' = [c \in Commands |-> IF cmd[c].pc \in Resting THEN cmd[c] ELSE e]
  BY DEF Crash
<1> HIDE DEF e
<1> QED
  BY <1>2, <1>3

-----------------------------------------------------------------------------
(* The steps *)

\* A request's step that leaves the store alone.
Aside(c) ==
  \/ Begin(c, "register") \/ Begin(c, "scan") \/ Register(c) \/ Smelt(c) \/ Count(c)
  \/ Audit(c) \/ Mark(c) \/ Commit(c)

LEMMA StepCases ==
  ASSUME TInv, [Next]_vars
  PROVE  \/ UNCHANGED vars
         \/ /\ UNCHANGED lifecycleVars
            /\ \/ \E s \in Steps : Writes(s)
               \/ Connect \/ Drain \/ ReplayEnsure \/ ReplayUpsert \/ Outage \/ Restart
         \/ \E c \in Commands : Ensure(c) \/ Scan(c) \/ Purge(c) \/ Aside(c)
         \/ Crash
<1>1. CASE UNCHANGED vars
  BY <1>1
<1>2. CASE StoreNext /\ UNCHANGED lifecycleVars
  <2>1. CASE \E s \in Steps : StartStep(s) \/ SetStatus(s) \/ RecordVerdict(s)
    BY <1>2, <2>1, WriterWrites
  <2> QED
    BY <1>2, <2>1 DEF StoreNext, Replay
<1>3. CASE \E c \in Commands : Onboard(c) \/ Offboard(c)
  BY <1>3 DEF Onboard, Offboard, Aside
<1> QED
  BY <1>1, <1>2, <1>3 DEF Next

LEMMA AsideStore == ASSUME NEW c, Aside(c) PROVE UNCHANGED storeVars
BY DEF Aside, Begin, Register, Smelt, Count, Audit, Mark, Commit

LEMMA TakePoolType ==
  ASSUME ConnOK, TakePool
  PROVE  pool' \in BOOLEAN /\ halfMade' \in BOOLEAN
BY DEF TakePool

\* What a writer does to the pool.
LEMMA WritersPool ==
  ASSUME NEW s, Writes(s)
  PROVE  /\ UNCHANGED <<connection, database, queue, replayer, faults>>
         /\ TakePool \/ UNCHANGED <<pool, halfMade>>
BY DEF Writes, Writing, Direct, NoRow, Refused, Buffer

LEMMA ConnStep ==
  ASSUME TInv, [Next]_vars
  PROVE  ConnOK'
<1>0. ConnOK
  BY TInvParts
<1>1. CASE UNCHANGED storeVars
  BY <1>0, <1>1 DEF ConnOK, storeVars, connection, files
<1>2. CASE \E s \in Steps : Writes(s)
  <2>1. PICK s \in Steps : Writes(s)
    BY <1>2
  <2>2. UNCHANGED <<connection, database, faults>>
    BY <2>1, WritersPool
  <2>3. pool' \in BOOLEAN /\ halfMade' \in BOOLEAN
    <3>1. CASE TakePool
      BY <1>0, <3>1, TakePoolType
    <3>2. CASE UNCHANGED <<pool, halfMade>>
      BY <1>0, <3>2 DEF ConnOK
    <3> QED
      BY <2>1, <3>1, <3>2, WritersPool
  <2> QED
    BY <1>0, <2>2, <2>3 DEF ConnOK, connection
<1>3. CASE Connect
  <2>1. UNCHANGED <<up, daemon, pool, database, faults, halfMade>> /\ catalog' = up
    BY <1>3 DEF Connect, files
  <2>2. attempts' \in 0..Attempts
    BY <1>0, <1>3, Numbers DEF Connect, ConnOK
  <2> QED
    BY <1>0, <2>1, <2>2 DEF ConnOK
<1>4. CASE Drain \/ ReplayUpsert
  BY <1>0, <1>4 DEF ConnOK, Drain, ReplayUpsert, connection
<1>5. CASE ReplayEnsure
  <2>1. PICK to : EnsureStep(replayer, to)
    BY <1>5 DEF ReplayEnsure
  <2>2. pool' \in BOOLEAN /\ database' \in {"none", "empty", "absurd", "full"}
    BY <1>0, <2>1, EnsureEffect
  <2>3. UNCHANGED <<connection, faults, halfMade>>
    BY <1>5 DEF ReplayEnsure
  <2> QED
    BY <1>0, <2>2, <2>3 DEF ConnOK, connection
<1>6. CASE Outage
  <2>1. faults' \in 0..MaxFaults
    BY <1>0, <1>6, Numbers DEF Outage, ConnOK
  <2>2. UNCHANGED <<daemon, attempts, catalog, pool, database, halfMade>> /\ up' = ~up
    BY <1>6 DEF Outage, files
  <2> QED
    BY <1>0, <2>1, <2>2 DEF ConnOK
<1>7. CASE Restart
  <2>1. attempts' \in 0..Attempts /\ daemon' = TRUE
    BY <1>7, Numbers DEF Restart
  <2>2. UNCHANGED <<up, catalog, pool, database, faults, halfMade>>
    BY <1>7 DEF Restart, files
  <2> QED
    BY <1>0, <2>1, <2>2 DEF ConnOK
<1>8. ASSUME NEW c \in Commands, Ensure(c)
      PROVE  ConnOK'
  <2>1. PICK to : EnsureStep(cmd[c].pc, to)
    BY <1>8 DEF Ensure
  <2>2. pool' \in BOOLEAN /\ database' \in {"none", "empty", "absurd", "full"}
    BY <1>0, <2>1, EnsureEffect
  <2>3. UNCHANGED <<connection, faults, halfMade>>
    BY <1>8 DEF Ensure
  <2> QED
    BY <1>0, <2>2, <2>3 DEF ConnOK, connection
<1>9. ASSUME NEW c \in Commands, Scan(c)
      PROVE  ConnOK'
  <2>1. UNCHANGED <<connection, files, faults>> /\ (TakePool \/ UNCHANGED <<pool, halfMade>>)
    BY <1>9 DEF Scan
  <2>2. pool' \in BOOLEAN /\ halfMade' \in BOOLEAN
    <3>1. CASE TakePool
      BY <1>0, <3>1, TakePoolType
    <3> QED
      BY <1>0, <2>1, <3>1 DEF ConnOK
  <2> QED
    BY <1>0, <2>1, <2>2 DEF ConnOK, connection, files
<1>10. ASSUME NEW c \in Commands, Purge(c)
       PROVE  ConnOK'
  BY <1>0, <1>10 DEF Purge, ConnOK, connection
<1>11. CASE Crash
  <2>1. faults' \in 0..MaxFaults /\ attempts' \in 0..Attempts
    BY <1>0, <1>11, Numbers DEF Crash, StoreCrash, ConnOK
  <2>2. daemon' = FALSE /\ catalog' = FALSE /\ pool' = FALSE /\ UNCHANGED <<up, database, halfMade>>
    BY <1>11 DEF Crash, StoreCrash, files
  <2> QED
    BY <1>0, <2>1, <2>2 DEF ConnOK
<1> QED
  BY <1>1, <1>2, <1>3, <1>4, <1>5, <1>6, <1>7, <1>8, <1>9, <1>10, <1>11, StepCases, AsideStore
     DEF vars

LEMMA QueueStep ==
  ASSUME TInv, [Next]_vars
  PROVE  QueueOK'
<1>0. QueueOK
  BY TInvParts
<1>1. CASE UNCHANGED <<ring, queue, replayer, catalog>>
  BY <1>0, <1>1 DEF QueueOK, Connected
<1>2. CASE \E s \in Steps : Writes(s)
  <2>1. PICK s \in Steps : Writes(s)
    BY <1>2
  <2>2. UNCHANGED <<queue, replayer, catalog>>
    BY <2>1, WritersPool DEF connection
  <2>3. CASE UNCHANGED ring
    BY <1>1, <2>2, <2>3
  <2>4. CASE Buffer(s)
    <3> DEFINE e == [step |-> s, at |-> writes + 1]
    <3>1. writes + 1 \in 1..MaxWrites
      BY <2>1, Numbers, TInvParts DEF Writes, Writing, WriteOK
    <3>2. e \in Events
      BY <3>1 DEF Events
    <3>3. ring' = Buffered(e)
      BY <2>4 DEF Buffer
    <3> HIDE DEF e
    <3>4. ring' \in Seq(Events) /\ Len(ring') <= MaxEntries
      BY <1>0, <3>2, <3>3, BufferedEffect DEF QueueOK
    <3> QED
      BY <1>0, <2>2, <3>4 DEF QueueOK, Connected
  <2> QED
    BY <2>1, <2>3, <2>4 DEF Writes, Direct, NoRow, Refused
<1>3. CASE Connect
  <2>1. ~catalog /\ catalog' = up /\ replayer' = (IF up THEN "drain" ELSE "off")
    BY <1>3 DEF Connect
  <2>2. UNCHANGED <<ring, queue>>
    BY <1>3 DEF Connect, files
  <2>3. queue = <<>>
    BY <1>0, <2>1 DEF QueueOK, Connected, Queued
  <2> QED
    BY <1>0, <2>1, <2>2, <2>3 DEF QueueOK, Connected, Queued
<1>4. CASE Drain
  <2>1. replayer = "drain" /\ queue' = ring /\ ring' = <<>> /\ catalog' = catalog
        /\ replayer' = (IF ring = <<>> THEN "ended" ELSE "ensure")
    BY <1>4 DEF Drain, connection
  <2>2. ring' \in Seq(Events) /\ Len(ring') <= MaxEntries
    BY <2>1, Numbers, EmptySeq
  <2> QED
    BY <1>0, <2>1, <2>2 DEF QueueOK, Connected, Queued
<1>5. ASSUME replayer \in Queued, Advance, UNCHANGED <<ring, catalog>>
      PROVE  QueueOK'
  <2>1. /\ queue' \in Seq(Events) /\ Len(queue') <= MaxEntries
        /\ replayer' \in {"ended", "ensure"} /\ (replayer' = "ensure" <=> queue' # <<>>)
    BY <1>0, <1>5, AdvanceEffect
  <2>2. catalog
    BY <1>0, <1>5 DEF QueueOK, Connected, Queued
  <2> QED
    BY <1>0, <1>5, <2>1, <2>2 DEF QueueOK, Connected, Queued
<1>6. CASE ReplayEnsure
  <2>1. replayer \in Queued /\ UNCHANGED <<ring, catalog>>
    BY <1>6 DEF ReplayEnsure, Queued, connection
  <2>2. PICK to \in {"version", "load", "migrate", "ensured", "failed"} :
          IF to = "failed" THEN Drop
          ELSE replayer' = (IF to = "ensured" THEN "pool" ELSE to) /\ UNCHANGED queue
    BY <1>6 DEF ReplayEnsure
  <2>3. CASE Drop
    BY <1>5, <2>1, <2>3 DEF Drop
  <2>4. CASE replayer' \in Queued /\ UNCHANGED queue
    BY <1>0, <2>1, <2>4 DEF QueueOK, Connected, Queued
  <2> QED
    BY <2>2, <2>3, <2>4 DEF Queued
<1>7. CASE ReplayUpsert
  BY <1>5, <1>7 DEF ReplayUpsert, Drop, Queued, connection
<1>8. CASE Crash
  <2>1. queue' = <<>> /\ replayer' = "off" /\ catalog' = FALSE /\ ring' = ring
    BY <1>8 DEF Crash, StoreCrash, files
  <2>2. queue' \in Seq(Events) /\ Len(queue') <= MaxEntries
    BY <2>1, Numbers, EmptySeq
  <2> QED
    BY <1>0, <2>1, <2>2 DEF QueueOK, Connected, Queued
<1>9. CASE Outage \/ Restart
  BY <1>1, <1>9 DEF Outage, Restart, files
<1>10. ASSUME NEW c \in Commands, Ensure(c) \/ Scan(c) \/ Purge(c)
       PROVE  QueueOK'
  BY <1>1, <1>10 DEF Ensure, Scan, Purge, connection, files
<1>11. CASE UNCHANGED storeVars
  BY <1>1, <1>11 DEF storeVars, connection, files
<1> QED
  BY <1>2, <1>3, <1>4, <1>6, <1>7, <1>8, <1>9, <1>10, <1>11, StepCases, AsideStore DEF vars

\* The row that the replay writes for an event.
Replayed(e) == [RowOf(e.step) EXCEPT !.status = e.at]

LEMMA ReplayedRow ==
  ASSUME TInv, NEW e \in Events
  PROVE  Replayed(e) \in Rows /\ Replayed(e).step = e.step /\ e.at \in Stamps(Replayed(e))
<1>1. e.step \in Steps /\ e.at \in 0..MaxWrites
  BY Numbers DEF Events
<1>2. RowOf(e.step) \in Rows /\ RowOf(e.step).step = e.step
  BY <1>1, RowOfIsRowIn, RowInType, TInvParts DEF WriteOK
<1> QED
  BY <1>1, <1>2, RowUpdated DEF Replayed

\* The table after a row is put.
LEMMA PutEffect ==
  ASSUME TInv, NEW r \in Rows, overlay' = Put(r)
  PROVE  /\ Overlay(overlay')
         /\ \A s : (RowOf(s))' = IF s = r.step THEN r ELSE RowOf(s)
<1>1. Overlay(overlay)
  BY TInvParts DEF WriteOK
<1>2. overlay' = PutIn(overlay, r)
  BY PutIsPutIn
<1> QED
  BY <1>1, <1>2, PutRow, RowOfIsRowIn

LEMMA EmptyOverlay == Overlay(<<>>)
BY EmptySeq DEF Overlay, Distinct

LEMMA WriteStep ==
  ASSUME TInv, [Next]_vars
  PROVE  WriteOK'
<1>0. WriteOK /\ QueueOK
  BY TInvParts
<1>1. CASE UNCHANGED <<overlay, writes, said>> /\ excused' \subseteq Steps
  BY <1>0, <1>1 DEF WriteOK
<1>2. ASSUME NEW s \in Steps, Writes(s)
      PROVE  WriteOK'
  <2>1. writes + 1 \in 0..MaxWrites /\ writes' = writes + 1
    BY <1>0, <1>2, Numbers DEF Writes, Writing, WriteOK
  <2>2. CASE \E r \in Rows : Direct(s, r)
    <3>1. PICK r \in Rows : Direct(s, r)
      BY <2>2
    <3>2. Overlay(overlay')
      BY <3>1, PutEffect DEF Direct
    <3>3. said' \in [Steps -> 0..MaxWrites]
      BY <1>0, <2>1, <3>1 DEF Direct, Accept, WriteOK
    <3>4. excused' \subseteq Steps
      BY <1>0, <3>1 DEF Direct, Accept, WriteOK
    <3> QED
      BY <2>1, <3>2, <3>3, <3>4 DEF WriteOK
  <2>3. CASE NoRow(s) \/ Buffer(s)
    <3>1. said' \in [Steps -> 0..MaxWrites]
      BY <1>0, <2>1, <2>3 DEF NoRow, Buffer, Accept, WriteOK
    <3>2. excused' \subseteq Steps
      BY <1>0, <2>3 DEF NoRow, Buffer, Accept, WriteOK
    <3>3. overlay' = overlay
      BY <2>3 DEF NoRow, Buffer
    <3> QED
      BY <1>0, <2>1, <3>1, <3>2, <3>3 DEF WriteOK
  <2>4. CASE Refused
    BY <1>0, <2>1, <2>4 DEF Refused, history, WriteOK
  <2> QED
    BY <1>2, <2>2, <2>3, <2>4 DEF Writes
<1>3. CASE Connect \/ Drain \/ Outage \/ Restart
  BY <1>0, <1>1, <1>3 DEF Connect, Drain, Outage, Restart, files, history, WriteOK
<1>4. CASE Drop /\ UNCHANGED <<writes, said>>
  <2>1. excused' \subseteq Steps
    BY <1>0, <1>4 DEF Drop, NewestIn, WriteOK
  <2> QED
    BY <1>1, <1>4, <2>1 DEF Drop
<1>5. CASE ReplayEnsure
  <2>1. Drop \/ UNCHANGED <<overlay, excused>>
    BY <1>5 DEF ReplayEnsure
  <2>2. UNCHANGED <<writes, said>>
    BY <1>5 DEF ReplayEnsure
  <2> QED
    BY <1>0, <1>1, <1>4, <2>1, <2>2 DEF WriteOK
<1>6. CASE ReplayUpsert
  <2>1. UNCHANGED <<writes, said>> /\ replayer \in Queued
    BY <1>6 DEF ReplayUpsert, Queued
  <2>2. CASE overlay' = Put(Replayed(Head(queue))) /\ UNCHANGED excused
    <3>1. queue \in Seq(Events) /\ queue # <<>>
      BY <1>0, <2>1 DEF QueueOK, Connected
    <3>2. Head(queue) \in Events
      BY <3>1, TailEffect
    <3>3. Overlay(overlay')
      BY <2>2, <3>2, ReplayedRow, PutEffect
    <3> QED
      BY <1>0, <2>1, <2>2, <3>3 DEF WriteOK
  <2> QED
    BY <1>4, <1>6, <2>1, <2>2 DEF ReplayUpsert, Replayed
<1>7. ASSUME NEW c \in Commands, Ensure(c) \/ Scan(c)
      PROVE  WriteOK'
  BY <1>0, <1>1, <1>7 DEF Ensure, Scan, files, history, WriteOK
<1>8. ASSUME NEW c \in Commands, Purge(c)
      PROVE  WriteOK'
  <2>1. UNCHANGED <<writes, said>> /\ (overlay' = <<>> \/ UNCHANGED overlay)
    BY <1>8 DEF Purge
  <2>2. excused' \subseteq Steps
    BY <1>0, <1>8 DEF Purge, WriteOK
  <2> QED
    BY <1>0, <2>1, <2>2, EmptyOverlay DEF WriteOK
<1>9. CASE Crash
  <2>1. UNCHANGED <<overlay, writes, said>>
    BY <1>9 DEF Crash, StoreCrash, files
  <2>2. excused' \subseteq Steps
    BY <1>0, <1>9 DEF Crash, StoreCrash, NewestIn, WriteOK
  <2> QED
    BY <1>1, <2>1, <2>2
<1>10. CASE UNCHANGED storeVars
  BY <1>0, <1>1, <1>10 DEF storeVars, files, history, WriteOK
<1> QED
  BY <1>2, <1>3, <1>5, <1>6, <1>7, <1>8, <1>9, <1>10, StepCases, AsideStore DEF vars

LEMMA CmdStep ==
  ASSUME TInv, [Next]_vars
  PROVE  CmdOK'
<1>0. CmdOK /\ Overlay(overlay) /\ cmd \in [Commands -> CmdRecord]
  BY TInvParts DEF CmdOK, WriteOK
<1>1. CASE UNCHANGED <<cmd, uncounted>>
  BY <1>0, <1>1 DEF CmdOK
<1>2. ASSUME NEW c \in Commands, NEW pc \in Commanding, Goes(c, pc), UNCHANGED uncounted
      PROVE  CmdOK'
  BY <1>0, <1>2, GoesEffect DEF CmdOK
<1> DEFINE Words == {"ended", "register", "scan", "ensure", "version", "load", "migrate", "onboarded",
                     "count", "audit", "mark", "commit"}
<1>3. Words \subseteq Commanding
  BY DEF Commanding, Resting, Offboarding, Onboarding
<1>4. ASSUME NEW c \in Commands, Ensure(c)
      PROVE  CmdOK'
  <2>1. PICK to \in {"version", "load", "migrate", "ensured", "failed"} :
          Goes(c, CASE to = "ensured" -> "onboarded" [] to = "failed" -> "ended" [] OTHER -> to)
    BY <1>4 DEF Ensure
  <2>2. (CASE to = "ensured" -> "onboarded" [] to = "failed" -> "ended" [] OTHER -> to) \in Words
    OBVIOUS
  <2>3. UNCHANGED uncounted
    BY <1>4 DEF Ensure
  <2> QED
    BY <1>2, <1>3, <2>1, <2>2, <2>3
<1>5. ASSUME NEW c \in Commands, Scan(c)
      PROVE  CmdOK'
  <2>1. CASE cmd' = [cmd EXCEPT ![c].pc = "smelt", ![c].table = overlay] /\ UNCHANGED uncounted
    BY <1>0, <2>1, ScanEffect DEF CmdOK, Overlay
  <2>2. CASE Fails(c)
    BY <1>2, <1>3, <2>2 DEF Fails
  <2> QED
    BY <1>5, <2>1, <2>2 DEF Scan
<1>6. ASSUME NEW c \in Commands, Purge(c)
      PROVE  CmdOK'
  <2>1. CASE uncounted' = [uncounted EXCEPT ![c] = @ + Len(overlay)] /\ Goes(c, "audit")
    <3>1. cmd' \in [Commands -> CmdRecord]
      BY <1>0, <1>3, <2>1, GoesEffect
    <3>2. Len(overlay) \in Nat /\ uncounted[c] \in Int
      BY <1>0 DEF Overlay, CmdOK
    <3>3. uncounted[c] + Len(overlay) \in Int
      BY <3>2
    <3>4. uncounted' = [uncounted EXCEPT ![c] = uncounted[c] + Len(overlay)]
      BY <2>1, Zenon
    <3>5. PICK v \in Int : uncounted' = [uncounted EXCEPT ![c] = v]
      BY <3>3, <3>4, Zenon
    <3> QED
      BY <1>0, <3>1, <3>5 DEF CmdOK
  <2>2. CASE Fails(c)
    BY <1>2, <1>3, <2>2 DEF Fails
  <2> QED
    BY <1>6, <2>1, <2>2 DEF Purge
<1>7. ASSUME NEW c \in Commands, Aside(c)
      PROVE  CmdOK'
  <2>1. CASE Fails(c)
    BY <1>2, <1>3, <2>1 DEF Fails
  <2>2. CASE Begin(c, "register") \/ Begin(c, "scan")
    <3>1. UNCHANGED uncounted
      BY <2>2 DEF Begin
    <3>2. Goes(c, "ended") \/ Goes(c, "register") \/ Goes(c, "scan")
      BY <2>2 DEF Begin
    <3> QED
      BY <1>2, <1>3, <3>1, <3>2
  <2>3. CASE Register(c)
    BY <1>2, <1>3, <2>1, <2>3 DEF Register
  <2>4. CASE Smelt(c)
    BY <1>2, <1>3, <2>1, <2>4 DEF Smelt
  <2>5. CASE Count(c)
    <3>1. CASE cmd' = [cmd EXCEPT ![c].pc = "purge", ![c].count = Len(overlay)] /\ UNCHANGED uncounted
      <4>1. Len(overlay) \in Nat
        BY <1>0 DEF Overlay
      <4> QED
        BY <1>0, <3>1, <4>1, CountEffect DEF CmdOK
    <3> QED
      BY <2>1, <2>5, <3>1 DEF Count
  <2>6. CASE Audit(c)
    <3>1. CASE uncounted' = [uncounted EXCEPT ![c] = @ - cmd[c].count] /\ Goes(c, "mark")
      <4>1. cmd' \in [Commands -> CmdRecord]
        BY <1>0, <1>3, <3>1, GoesEffect
      <4>2. cmd[c].count \in Nat /\ uncounted[c] \in Int
        BY <1>0 DEF CmdRecord, CmdOK
      <4>3. uncounted[c] - cmd[c].count \in Int
        BY <4>2
      <4>4. uncounted' = [uncounted EXCEPT ![c] = uncounted[c] - cmd[c].count]
        BY <3>1, Zenon
      <4>5. PICK v \in Int : uncounted' = [uncounted EXCEPT ![c] = v]
        BY <4>3, <4>4, Zenon
      <4> QED
        BY <1>0, <4>1, <4>5 DEF CmdOK
    <3>2. CASE Goes(c, "ended") /\ UNCHANGED uncounted
      BY <1>2, <1>3, <3>2
    <3> QED
      BY <2>6, <3>1, <3>2 DEF Audit
  <2>7. CASE Mark(c)
    BY <1>2, <1>3, <2>1, <2>7 DEF Mark
  <2>8. CASE Commit(c)
    BY <1>2, <1>3, <2>8 DEF Commit
  <2> QED
    BY <1>7, <2>2, <2>3, <2>4, <2>5, <2>6, <2>7, <2>8 DEF Aside
<1>8. CASE Crash
  BY <1>0, <1>8, CrashEffect DEF CmdOK, Crash
<1> QED
  BY <1>1, <1>4, <1>5, <1>6, <1>7, <1>8, StepCases DEF vars, lifecycleVars

LEMMA RecentRows ==
  ASSUME NEW table \in Seq(Rows)
  PROVE  Recent(table) \subseteq Rows
<1> DEFINE n == IF Len(table) < RecentSteps THEN Len(table) ELSE RecentSteps
<1>1. n \in Int /\ \A i \in 1..n : i \in 1..Len(table)
  BY LifecycleAssumption, LenProperties
<1>2. \A i \in 1..n : table[i] \in Rows
  BY <1>1, ElementOfSeq
<1>3. SubSeq(table, 1, n) \in Seq(Rows)
  BY <1>1, <1>2, SubSeqProperties
<1> HIDE DEF n
<1>4. Range(SubSeq(table, 1, n)) \subseteq Rows
  BY <1>3, LenProperties, ElementOfSeq DEF Range
<1> QED
  BY <1>4 DEF Recent, n

LEMMA ReportStep ==
  ASSUME TInv, [Next]_vars
  PROVE  ReportOK'
<1>0. ReportOK /\ cmd \in [Commands -> CmdRecord]
  BY TInvParts DEF CmdOK
<1>1. CASE UNCHANGED <<status, report, committed, purged, mishaps>>
  BY <1>0, <1>1 DEF ReportOK
<1>2. ASSUME NEW c \in Commands PROVE Recent(cmd[c].table) \subseteq Rows
  BY <1>0, RecentRows DEF CmdRecord
<1>3. ASSUME NEW c \in Commands, Purge(c)
      PROVE  ReportOK'
  <2>1. CASE Fails(c)
    BY <1>1, <2>1 DEF Fails
  <2>2. CASE ~Fails(c)
    <3>1. purged' = purged \cup Due(c) /\ UNCHANGED <<status, report, committed>>
          /\ mishaps' \subseteq mishaps \cup {"miscounted"}
      BY <1>3, <2>2 DEF Purge
    <3>2. purged' \subseteq Rows
      BY <1>0, <1>2, <3>1 DEF Due, ReportOK
    <3> QED
      BY <1>0, <3>1, <3>2 DEF ReportOK
  <2> QED
    BY <2>1, <2>2
<1>4. ASSUME NEW c \in Commands, Aside(c)
      PROVE  ReportOK'
  <2>1. CASE Begin(c, "register") \/ Begin(c, "scan") \/ Count(c) \/ Fails(c)
    BY <1>1, <2>1 DEF Begin, Count, Fails
  <2>2. CASE Register(c) \/ Mark(c)
    <3>1. UNCHANGED <<report, committed, purged, mishaps>> /\ status' \in {"none", "ACTIVE", "OFFBOARDED"}
      BY <1>0, <2>2 DEF Register, Mark, Fails, ReportOK
    <3> QED
      BY <1>0, <3>1 DEF ReportOK
  <2>3. CASE Smelt(c) /\ ~Fails(c)
    <3>1. report' = Recent(cmd[c].table) /\ UNCHANGED <<status, committed, purged>>
          /\ mishaps' \subseteq mishaps \cup {"overwritten"}
      BY <2>3 DEF Smelt
    <3> QED
      BY <1>0, <1>2, <3>1 DEF ReportOK
  <2>4. CASE Audit(c)
    <3>1. UNCHANGED <<status, report, committed, purged>> /\ mishaps' \subseteq mishaps \cup {"unaudited"}
      BY <2>4 DEF Audit
    <3> QED
      BY <1>0, <3>1 DEF ReportOK
  <2>5. CASE Commit(c)
    <3>1. UNCHANGED <<status, report, purged, mishaps>> /\ committed' \in {committed, committed \cup report}
      BY <2>5 DEF Commit
    <3> QED
      BY <1>0, <3>1 DEF ReportOK
  <2> QED
    BY <1>4, <2>1, <2>2, <2>3, <2>4, <2>5 DEF Aside
<1>5. CASE Crash
  <2>1. UNCHANGED <<status, report, committed, purged>> /\ mishaps' \subseteq mishaps \cup {"unaudited"}
    BY <1>5 DEF Crash
  <2> QED
    BY <1>0, <2>1 DEF ReportOK
<1>6. ASSUME NEW c \in Commands, Ensure(c) \/ Scan(c)
      PROVE  ReportOK'
  BY <1>1, <1>6 DEF Ensure, Scan, Fails
<1> QED
  BY <1>1, <1>3, <1>4, <1>5, <1>6, StepCases DEF vars, lifecycleVars

LEMMA TInvInit == Init => TInv
<1> SUFFICES ASSUME Init PROVE TInv
  OBVIOUS
<1>1. /\ up \in BOOLEAN /\ daemon = TRUE /\ attempts = Attempts /\ catalog = FALSE /\ pool = FALSE
      /\ database \in {"none", "full"} /\ overlay = <<>> /\ ring = <<>> /\ queue = <<>>
      /\ replayer = "off" /\ writes = 0 /\ faults = 0
      /\ said = [s \in Steps |-> 0] /\ excused = {} /\ halfMade = FALSE
      /\ cmd = [c \in Commands |-> Idle] /\ status \in {"none", "ACTIVE"}
      /\ report = {} /\ committed = {} /\ purged = {} /\ mishaps = {}
      /\ uncounted = [c \in Commands |-> 0]
  BY DEF Init, StoreInit
<1>2. Idle \in CmdRecord
  BY EmptySeq DEF Idle, CmdRecord, Commanding, Resting
<1>3. ConnOK
  <2>1. attempts \in 0..Attempts /\ faults \in 0..MaxFaults
    BY <1>1, Numbers
  <2> QED
    BY <1>1, <2>1, Zenon DEF ConnOK
<1>4. QueueOK
  BY <1>1, Numbers, EmptySeq DEF QueueOK, Connected, Queued
<1>5. WriteOK
  BY <1>1, Numbers, EmptyOverlay DEF WriteOK
<1>6. CmdOK
  BY <1>1, <1>2 DEF CmdOK
<1>7. ReportOK
  BY <1>1 DEF ReportOK
<1> QED
  BY <1>3, <1>4, <1>5, <1>6, <1>7, TInvParts

LEMMA TInvStep == TInv /\ [Next]_vars => TInv'
BY ConnStep, QueueStep, WriteStep, CmdStep, ReportStep, TInvPartsNext

(* Every value a step writes is one of its kind: the ring and what the replay  *)
(* has drained never hold more events than the ring may, a step never has two  *)
(* rows in the table, and a write, a fault and an attempt to connect are never *)
(* beyond their limits.                                                        *)
THEOREM TypeCorrect == Spec => []TypeOK
<1>1. TInv => TypeOK
  BY DEF TInv
<1> QED
  BY <1>1, TInvInit, TInvStep, PTL DEF Spec

-----------------------------------------------------------------------------
(* Where the requests go *)

Moves(c, from, to) ==
  /\ cmd[c].pc \in from /\ cmd'[c].pc \in to
  /\ \A d \in Commands \ {c} : cmd'[d] = cmd[d]

LEMMA GoesMoves ==
  ASSUME cmd \in [Commands -> CmdRecord], NEW c \in Commands, NEW pc \in Commanding, Goes(c, pc),
         NEW from, NEW to, cmd[c].pc \in from, pc \in to
  PROVE  Moves(c, from, to)
BY GoesEffect DEF Moves

LEMMA EnsureMoves ==
  ASSUME TInv, NEW c \in Commands, Ensure(c)
  PROVE  /\ Moves(c, Onboarding, {"version", "load", "migrate", "onboarded", "ended"})
         /\ \E to : EnsureStep(cmd[c].pc, to) /\ (cmd'[c].pc = "onboarded" => to = "ensured")
<1>0. cmd \in [Commands -> CmdRecord]
  BY TInvParts DEF CmdOK
<1>1. PICK to \in {"version", "load", "migrate", "ensured", "failed"} :
        /\ EnsureStep(cmd[c].pc, to)
        /\ Goes(c, CASE to = "ensured" -> "onboarded" [] to = "failed" -> "ended" [] OTHER -> to)
  BY DEF Ensure
<1>2. PICK pc : /\ pc = CASE to = "ensured" -> "onboarded" [] to = "failed" -> "ended" [] OTHER -> to
                /\ Goes(c, pc)
  BY <1>1
<1>3. /\ pc \in {"version", "load", "migrate", "onboarded", "ended"}
      /\ pc = "onboarded" => to = "ensured"
  BY <1>2
<1>4. pc \in Commanding
  BY <1>3 DEF Commanding, Resting, Onboarding
<1>5. cmd[c].pc \in Onboarding
  BY DEF Ensure, Onboarding
<1>6. cmd'[c].pc = pc
  BY <1>0, <1>2, <1>4, GoesEffect
<1> QED
  BY <1>0, <1>1, <1>2, <1>3, <1>4, <1>5, <1>6, GoesMoves

LEMMA FailsMoves ==
  ASSUME TInv, NEW c \in Commands, Fails(c), NEW from, cmd[c].pc = from
  PROVE  /\ Moves(c, {from}, {"ended"})
         /\ UNCHANGED <<report, committed, purged, uncounted, mishaps>>
<1>1. "ended" \in Commanding
  BY DEF Commanding, Resting
<1> QED
  BY <1>1, GoesMoves, TInvParts DEF Fails, CmdOK

LEMMA ScanMoves ==
  ASSUME TInv, NEW c \in Commands, Scan(c)
  PROVE  /\ Moves(c, {"scan"}, {"smelt", "ended"})
         /\ UNCHANGED <<report, committed, purged, uncounted, mishaps>>
<1>0. cmd \in [Commands -> CmdRecord] /\ overlay \in Seq(Rows) /\ cmd[c].pc = "scan"
  BY TInvParts DEF CmdOK, WriteOK, Overlay, Scan, At
<1>1. CASE Fails(c)
  BY <1>0, <1>1, FailsMoves DEF Moves
<1>2. CASE cmd' = [cmd EXCEPT ![c].pc = "smelt", ![c].table = overlay] /\ ~Fails(c)
  <2>1. Moves(c, {"scan"}, {"smelt", "ended"})
    BY <1>0, <1>2, ScanEffect DEF Moves
  <2> QED
    BY <1>2, <2>1 DEF Scan
<1> QED
  BY <1>1, <1>2 DEF Scan

LEMMA BeginMoves ==
  ASSUME TInv, NEW c \in Commands, Begin(c, "register") \/ Begin(c, "scan")
  PROVE  /\ Moves(c, {"idle"}, {"register", "scan", "ended"})
         /\ UNCHANGED <<report, committed, purged, uncounted, mishaps>>
<1>0. cmd \in [Commands -> CmdRecord]
  BY TInvParts DEF CmdOK
<1>1. PICK pc \in {"register", "scan", "ended"} : Goes(c, pc)
  BY DEF Begin
<1>2. pc \in Commanding
  BY <1>1 DEF Commanding, Resting, Onboarding, Offboarding
<1>3. cmd[c].pc \in {"idle"}
  BY DEF Begin, At
<1>4. Moves(c, {"idle"}, {"register", "scan", "ended"})
  BY <1>0, <1>1, <1>2, <1>3, GoesMoves
<1> QED
  BY <1>4 DEF Begin

LEMMA RegisterMoves ==
  ASSUME TInv, NEW c \in Commands, Register(c)
  PROVE  /\ Moves(c, {"register"}, {"ensure", "ended"})
         /\ UNCHANGED <<report, committed, purged, uncounted, mishaps>>
<1>0. cmd \in [Commands -> CmdRecord] /\ cmd[c].pc = "register" /\ "ensure" \in Commanding
  BY TInvParts DEF CmdOK, Register, At, Commanding, Onboarding
<1>1. CASE Fails(c)
  BY <1>0, <1>1, FailsMoves DEF Moves
<1>2. CASE Goes(c, "ensure") /\ UNCHANGED <<report, committed, purged, uncounted, mishaps>>
  BY <1>0, <1>2, GoesMoves
<1> QED
  BY <1>1, <1>2 DEF Register

\* It replaces the report, which is noted if rows are told of no longer.
LEMMA SmeltMoves ==
  ASSUME TInv, NEW c \in Commands, Smelt(c)
  PROVE  \/ /\ Moves(c, {"smelt"}, {"ended"})
            /\ UNCHANGED <<report, committed, purged, uncounted, mishaps>>
         \/ /\ Moves(c, {"smelt"}, {"count"}) /\ cmd'[c].table = cmd[c].table
            /\ report' = Recent(cmd[c].table) /\ UNCHANGED <<committed, purged, uncounted>>
            /\ mishaps' = mishaps \cup
                 (IF report \cap Owed(c) \subseteq report' \cup committed THEN {} ELSE {"overwritten"})
<1>0. cmd \in [Commands -> CmdRecord] /\ cmd[c].pc = "smelt"
  BY TInvParts DEF CmdOK, Smelt, At
<1>1. CASE Fails(c)
  BY <1>0, <1>1, FailsMoves
<1>2. CASE Goes(c, "count") /\ ~Fails(c)
  <2>1. "count" \in Commanding /\ "count" \notin Resting
    BY DEF Commanding, Offboarding, Resting
  <2>2. cmd'[c].table = cmd[c].table
    BY <1>0, <1>2, <2>1, GoesEffect
  <2>3. Moves(c, {"smelt"}, {"count"})
    BY <1>0, <1>2, <2>1, GoesMoves
  <2> QED
    BY <1>2, <2>2, <2>3 DEF Smelt
<1> QED
  BY <1>1, <1>2 DEF Smelt

LEMMA CountMoves ==
  ASSUME TInv, NEW c \in Commands, Count(c)
  PROVE  /\ Moves(c, {"count"}, {"purge", "ended"})
         /\ cmd'[c].pc = "purge" => cmd'[c].table = cmd[c].table
         /\ UNCHANGED <<report, committed, purged, uncounted, mishaps>>
<1>0. cmd \in [Commands -> CmdRecord] /\ cmd[c].pc = "count" /\ Len(overlay) \in Nat
  BY TInvParts DEF CmdOK, WriteOK, Overlay, Count, At
<1>1. CASE Fails(c)
  BY <1>0, <1>1, FailsMoves DEF Moves
<1>2. CASE /\ cmd' = [cmd EXCEPT ![c].pc = "purge", ![c].count = Len(overlay)]
           /\ UNCHANGED <<report, committed, purged, uncounted, mishaps>>
  BY <1>0, <1>2, CountEffect DEF Moves
<1> QED
  BY <1>1, <1>2 DEF Count

\* The rows that were counted may not be all that are deleted; that is noted.
LEMMA PurgeMoves ==
  ASSUME TInv, NEW c \in Commands, Purge(c)
  PROVE  /\ UNCHANGED <<report, committed>>
         /\ \/ Moves(c, {"purge"}, {"ended"}) /\ UNCHANGED <<purged, uncounted, mishaps>>
            \/ /\ Moves(c, {"purge"}, {"audit"}) /\ cmd'[c].count = cmd[c].count
               /\ purged' = purged \cup Due(c)
               /\ \E n \in Nat : /\ uncounted' = [uncounted EXCEPT ![c] = uncounted[c] + n]
                                 /\ mishaps' = mishaps \cup
                                      (IF n = cmd[c].count THEN {} ELSE {"miscounted"})
<1>0. cmd \in [Commands -> CmdRecord] /\ cmd[c].pc = "purge" /\ Len(overlay) \in Nat
  BY TInvParts DEF CmdOK, WriteOK, Overlay, Purge, At
<1>1. CASE Fails(c)
  <2>1. UNCHANGED <<report, committed>>
    BY <1>1 DEF Fails
  <2> QED
    BY <1>0, <1>1, <2>1, FailsMoves
<1>2. CASE Goes(c, "audit") /\ ~Fails(c)
  <2>1. "audit" \in Commanding /\ "audit" \notin Resting
    BY DEF Commanding, Offboarding, Resting
  <2>2. cmd'[c].count = cmd[c].count
    BY <1>0, <1>2, <2>1, GoesEffect
  <2>3. Moves(c, {"purge"}, {"audit"})
    BY <1>0, <1>2, <2>1, GoesMoves
  <2>4. /\ purged' = purged \cup Due(c) /\ UNCHANGED <<report, committed>>
        /\ uncounted' = [uncounted EXCEPT ![c] = uncounted[c] + Len(overlay)]
        /\ mishaps' = mishaps \cup (IF Len(overlay) = cmd[c].count THEN {} ELSE {"miscounted"})
    BY <1>2, Zenon DEF Purge
  <2>5. \E n \in Nat : /\ uncounted' = [uncounted EXCEPT ![c] = uncounted[c] + n]
                       /\ mishaps' = mishaps \cup
                            (IF n = cmd[c].count THEN {} ELSE {"miscounted"})
    BY <1>0, <2>4, Zenon
  <2> QED
    BY <2>2, <2>3, <2>4, <2>5
<1> QED
  BY <1>1, <1>2 DEF Purge

LEMMA AuditMoves ==
  ASSUME TInv, NEW c \in Commands, Audit(c)
  PROVE  /\ Moves(c, {"audit"}, {"mark", "ended"}) /\ UNCHANGED <<report, committed, purged>>
         /\ \/ /\ uncounted' = [uncounted EXCEPT ![c] = uncounted[c] - cmd[c].count]
               /\ UNCHANGED mishaps
            \/ UNCHANGED uncounted /\ mishaps' = mishaps \cup {"unaudited"}
<1>0. cmd \in [Commands -> CmdRecord] /\ cmd[c].pc = "audit"
  BY TInvParts DEF CmdOK, Audit, At
<1>1. "mark" \in Commanding /\ "ended" \in Commanding
  BY DEF Commanding, Offboarding, Resting
<1>2. Goes(c, "mark") \/ Goes(c, "ended")
  BY DEF Audit
<1>3. Moves(c, {"audit"}, {"mark", "ended"})
  BY <1>0, <1>1, <1>2, GoesMoves
<1>4. UNCHANGED <<report, committed, purged>>
  BY DEF Audit
<1>5. \/ /\ uncounted' = [uncounted EXCEPT ![c] = uncounted[c] - cmd[c].count]
         /\ UNCHANGED mishaps
      \/ UNCHANGED uncounted /\ mishaps' = mishaps \cup {"unaudited"}
  BY Zenon DEF Audit
<1> QED
  BY <1>3, <1>4, <1>5

LEMMA MarkMoves ==
  ASSUME TInv, NEW c \in Commands, Mark(c)
  PROVE  /\ Moves(c, {"mark"}, {"commit", "ended"})
         /\ UNCHANGED <<report, committed, purged, uncounted, mishaps>>
<1>0. cmd \in [Commands -> CmdRecord] /\ cmd[c].pc = "mark" /\ "commit" \in Commanding
  BY TInvParts DEF CmdOK, Mark, At, Commanding, Offboarding
<1>1. CASE Fails(c)
  BY <1>0, <1>1, FailsMoves DEF Moves
<1>2. CASE Goes(c, "commit") /\ UNCHANGED <<report, committed, purged, uncounted, mishaps>>
  BY <1>0, <1>2, GoesMoves
<1> QED
  BY <1>1, <1>2 DEF Mark

LEMMA CommitMoves ==
  ASSUME TInv, NEW c \in Commands, Commit(c)
  PROVE  /\ Moves(c, {"commit"}, {"ended"})
         /\ committed \subseteq committed' /\ UNCHANGED <<report, purged, uncounted, mishaps>>
<1>0. cmd \in [Commands -> CmdRecord] /\ cmd[c].pc = "commit" /\ "ended" \in Commanding
  BY TInvParts DEF CmdOK, Commit, At, Commanding, Resting
<1>1. Goes(c, "ended")
  BY DEF Commit
<1>2. Moves(c, {"commit"}, {"ended"})
  BY <1>0, <1>1, GoesMoves
<1> QED
  BY <1>2 DEF Commit

-----------------------------------------------------------------------------
(* Onboarding *)

\* A kept pool is one of a complete database, unless halfMade says otherwise; so an
\* ensure_blueprint_db that finds a pool has nothing to do.
PoolOfComplete == ~halfMade /\ pool => database = "full"

OInv == PoolOfComplete /\ OnboardedIsUsable

LEMMA TakePoolComplete ==
  ASSUME PoolOfComplete, TakePool, UNCHANGED database
  PROVE  PoolOfComplete' /\ (halfMade => halfMade')
BY DEF PoolOfComplete, TakePool

\* A step that completes no onboarding.
LEMMA NotOnboarding ==
  ASSUME OInv, PoolOfComplete', halfMade => halfMade', database = "full" => database' = "full",
         \A c \in Commands : cmd'[c].pc = "onboarded" => cmd[c].pc = "onboarded"
  PROVE  OInv'
BY DEF OInv, OnboardedIsUsable

LEMMA OInvStep == TInv /\ OInv /\ [Next]_vars => OInv'
<1> SUFFICES ASSUME TInv, OInv, [Next]_vars PROVE OInv'
  OBVIOUS
<1>0. ConnOK /\ PoolOfComplete /\ cmd \in [Commands -> CmdRecord]
  BY TInvParts DEF OInv, CmdOK
<1>1. ASSUME NEW c \in Commands, NEW from, NEW to, Moves(c, from, to), "onboarded" \notin to
      PROVE  \A d \in Commands : cmd'[d].pc = "onboarded" => cmd[d].pc = "onboarded"
  BY <1>1 DEF Moves
<1>2. CASE UNCHANGED <<pool, database, halfMade, cmd>>
  BY <1>0, <1>2, NotOnboarding DEF PoolOfComplete
<1>3. CASE TakePool /\ UNCHANGED <<database, cmd>>
  BY <1>0, <1>3, TakePoolComplete, NotOnboarding
<1>4. CASE \E s \in Steps : Writes(s) /\ UNCHANGED cmd
  BY <1>2, <1>3, <1>4, WritersPool
<1>5. CASE ReplayEnsure /\ UNCHANGED cmd
  <2>1. PICK to : EnsureStep(replayer, to)
    BY <1>5 DEF ReplayEnsure
  <2>2. (database = "full" => database' = "full") /\ (pool' => pool \/ database' = "full")
    BY <1>0, <2>1, EnsureEffect
  <2>3. UNCHANGED halfMade
    BY <1>5 DEF ReplayEnsure
  <2>4. PoolOfComplete'
    BY <1>0, <2>2, <2>3 DEF PoolOfComplete
  <2> QED
    BY <1>5, <2>2, <2>3, <2>4, NotOnboarding
<1>6. ASSUME NEW c \in Commands, Ensure(c)
      PROVE  OInv'
  <2>1. PICK to : EnsureStep(cmd[c].pc, to) /\ (cmd'[c].pc = "onboarded" => to = "ensured")
    BY <1>6, EnsureMoves
  <2>2. /\ database = "full" => database' = "full"
        /\ pool' => pool \/ database' = "full"
        /\ to = "ensured" => pool \/ database' = "full"
    BY <1>0, <2>1, EnsureEffect
  <2>3. UNCHANGED halfMade
    BY <1>6 DEF Ensure
  <2>4. PoolOfComplete'
    BY <1>0, <2>2, <2>3 DEF PoolOfComplete
  <2>5. ASSUME ~halfMade, NEW d \in Commands, cmd'[d].pc = "onboarded"
        PROVE  database' = "full"
    <3>1. CASE d = c
      BY <1>0, <2>1, <2>2, <2>5, <3>1 DEF PoolOfComplete
    <3>2. CASE d # c
      BY <1>6, <2>2, <2>5, <3>2, EnsureMoves DEF Moves, OInv, OnboardedIsUsable
    <3> QED
      BY <3>1, <3>2
  <2> QED
    BY <2>3, <2>4, <2>5 DEF OInv, OnboardedIsUsable
<1>7. ASSUME NEW c \in Commands, Scan(c)
      PROVE  OInv'
  <2>1. \A d \in Commands : cmd'[d].pc = "onboarded" => cmd[d].pc = "onboarded"
    BY <1>1, <1>7, ScanMoves
  <2>2. UNCHANGED database /\ (TakePool \/ UNCHANGED <<pool, halfMade>>)
    BY <1>7 DEF Scan, files
  <2> QED
    BY <1>0, <2>1, <2>2, TakePoolComplete, NotOnboarding DEF PoolOfComplete
<1>8. ASSUME NEW c \in Commands, Purge(c) \/ Aside(c)
      PROVE  OInv'
  <2>1. \A d \in Commands : cmd'[d].pc = "onboarded" => cmd[d].pc = "onboarded"
    BY <1>1, <1>8, BeginMoves, RegisterMoves, SmeltMoves, CountMoves, PurgeMoves, AuditMoves,
       MarkMoves, CommitMoves DEF Aside
  <2>2. UNCHANGED <<pool, database, halfMade>>
    BY <1>8, AsideStore DEF Purge, storeVars, files
  <2> QED
    BY <1>0, <2>1, <2>2, NotOnboarding DEF PoolOfComplete
<1>9. CASE Crash
  <2>1. \A d \in Commands : cmd'[d].pc = "onboarded" => cmd[d].pc = "onboarded"
    BY <1>0, <1>9, CrashEffect
  <2>2. UNCHANGED <<database, halfMade>> /\ pool' = FALSE
    BY <1>9 DEF Crash, StoreCrash, files
  <2> QED
    BY <2>1, <2>2, NotOnboarding DEF PoolOfComplete
<1>10. CASE UNCHANGED lifecycleVars /\ (Connect \/ Drain \/ ReplayUpsert \/ Outage \/ Restart)
  <2>1. UNCHANGED <<pool, database, halfMade, cmd>>
    BY <1>10 DEF Connect, Drain, ReplayUpsert, Outage, Restart, files, lifecycleVars
  <2> QED
    BY <1>2, <2>1
<1>11. CASE UNCHANGED vars
  BY <1>2, <1>11 DEF vars, storeVars, files, lifecycleVars
<1> QED
  BY <1>4, <1>5, <1>6, <1>7, <1>8, <1>9, <1>10, <1>11, StepCases DEF lifecycleVars

(* An onboard that answered Ok leaves a database with the whole schema,        *)
(* however the steps of ensure_blueprint_db in other onboards and in the       *)
(* replay come between its own, unless a writer kept a pool of a database      *)
(* that somebody had left unfinished.                                          *)
THEOREM OnboardedIsUsableAlways == Spec => []OnboardedIsUsable
<1>1. Init => OInv
  <2> SUFFICES ASSUME Init PROVE OInv
    OBVIOUS
  <2>1. pool = FALSE /\ cmd = [c \in Commands |-> Idle]
    BY DEF Init, StoreInit
  <2>2. \A c \in Commands : cmd[c].pc = "idle"
    BY <2>1 DEF Idle
  <2> QED
    BY <2>1, <2>2 DEF OInv, PoolOfComplete, OnboardedIsUsable
<1>2. OInv => OnboardedIsUsable
  BY DEF OInv
<1> QED
  BY <1>1, <1>2, TInvInit, TInvStep, OInvStep, PTL DEF Spec

-----------------------------------------------------------------------------
(* Reports *)

Told == report \cup committed

\* What a request is about to delete of what it read has been told as well.
PInv ==
  "overwritten" \notin mishaps =>
    /\ purged \subseteq Told
    /\ \A c \in Commands : cmd[c].pc \in {"count", "purge"} => Recent(cmd[c].table) \subseteq Told

\* A step that tells no less, deletes nothing and brings no request nearer to it.
LEMMA NotDeleting ==
  ASSUME PInv, mishaps \subseteq mishaps', Told \subseteq Told', UNCHANGED purged,
         NEW c, NEW from, NEW to, Moves(c, from, to),
         cmd'[c].pc \in {"count", "purge"} =>
           cmd[c].pc \in {"count", "purge"} /\ cmd'[c].table = cmd[c].table
  PROVE  PInv'
BY DEF PInv, Moves

LEMMA SmeltTells ==
  ASSUME TInv, PInv, NEW c \in Commands, Smelt(c)
  PROVE  PInv'
<1>1. CASE Moves(c, {"smelt"}, {"ended"}) /\ UNCHANGED <<report, committed, purged, uncounted, mishaps>>
  <2>1. UNCHANGED Told /\ UNCHANGED purged /\ mishaps \subseteq mishaps'
    BY <1>1 DEF Told
  <2>2. cmd'[c].pc = "ended"
    BY <1>1 DEF Moves
  <2> QED
    BY <1>1, <2>1, <2>2, NotDeleting
<1>2. CASE /\ Moves(c, {"smelt"}, {"count"}) /\ cmd'[c].table = cmd[c].table
           /\ report' = Recent(cmd[c].table) /\ UNCHANGED <<committed, purged, uncounted>>
           /\ mishaps' = mishaps \cup
                (IF report \cap Owed(c) \subseteq report' \cup committed THEN {} ELSE {"overwritten"})
  <2> SUFFICES ASSUME "overwritten" \notin mishaps'
               PROVE  /\ purged' \subseteq Told'
                      /\ \A d \in Commands : cmd'[d].pc \in {"count", "purge"} =>
                                               Recent(cmd'[d].table) \subseteq Told'
    BY DEF PInv, Recent
  <2>1. "overwritten" \notin mishaps /\ report \cap Owed(c) \subseteq Told'
    BY <1>2 DEF Told
  <2>2. Told \cap Owed(c) \subseteq Told'
    BY <1>2, <2>1 DEF Told
  <2>3. purged' \subseteq Told'
    BY <1>2, <2>1, <2>2 DEF PInv, Owed
  <2>4. ASSUME NEW d \in Commands, d # c, cmd'[d].pc \in {"count", "purge"}
        PROVE  Recent(cmd'[d].table) \subseteq Told'
    <3>1. cmd'[d] = cmd[d]
      BY <1>2, <2>4 DEF Moves
    <3>2. Recent(cmd[d].table) \subseteq Told
      BY <2>1, <2>4, <3>1 DEF PInv
    <3>3. Recent(cmd[d].table) \subseteq Owed(c)
      BY <2>4 DEF Owed
    <3> QED
      BY <2>2, <3>1, <3>2, <3>3
  <2>5. Recent(cmd'[c].table) \subseteq Told'
    BY <1>2 DEF Told
  <2> QED
    BY <2>3, <2>4, <2>5
<1> QED
  BY <1>1, <1>2, SmeltMoves

LEMMA PurgeTold ==
  ASSUME TInv, PInv, NEW c \in Commands, Purge(c)
  PROVE  PInv'
<1>1. UNCHANGED Told
  BY PurgeMoves DEF Told
<1>2. CASE Moves(c, {"purge"}, {"ended"}) /\ UNCHANGED <<purged, uncounted, mishaps>>
  <2>1. cmd'[c].pc = "ended" /\ mishaps \subseteq mishaps' /\ UNCHANGED purged
    BY <1>2 DEF Moves
  <2> QED
    BY <1>1, <1>2, <2>1, NotDeleting
<1>3. CASE Moves(c, {"purge"}, {"audit"}) /\ purged' = purged \cup Due(c) /\ mishaps \subseteq mishaps'
  <2> SUFFICES ASSUME "overwritten" \notin mishaps'
               PROVE  /\ purged' \subseteq Told'
                      /\ \A d \in Commands : cmd'[d].pc \in {"count", "purge"} =>
                                               Recent(cmd'[d].table) \subseteq Told'
    BY DEF PInv, Recent
  <2>1. "overwritten" \notin mishaps /\ cmd[c].pc = "purge"
    BY <1>3 DEF Moves
  <2>2. Due(c) \subseteq Told
    BY <2>1 DEF Due, PInv
  <2>3. purged' \subseteq Told'
    BY <1>1, <1>3, <2>1, <2>2 DEF PInv
  <2>4. cmd'[c].pc = "audit" /\ \A d \in Commands \ {c} : cmd'[d] = cmd[d]
    BY <1>3 DEF Moves
  <2>5. ASSUME NEW d \in Commands, cmd'[d].pc \in {"count", "purge"}
        PROVE  Recent(cmd'[d].table) \subseteq Told'
    <3>1. cmd'[d] = cmd[d]
      BY <2>4, <2>5
    <3> QED
      BY <1>1, <2>1, <2>5, <3>1 DEF PInv
  <2> QED
    BY <2>3, <2>5
<1> QED
  BY <1>2, <1>3, PurgeMoves

LEMMA PInvStep == TInv /\ PInv /\ [Next]_vars => PInv'
<1> SUFFICES ASSUME TInv, PInv, [Next]_vars PROVE PInv'
  OBVIOUS
<1>1. CASE UNCHANGED lifecycleVars
  BY <1>1 DEF PInv, Told, Recent, lifecycleVars
<1>2. ASSUME NEW c \in Commands, NEW from, NEW to, Moves(c, from, to), to \cap {"count", "purge"} = {},
             report \cup committed \subseteq report' \cup committed', UNCHANGED purged,
             mishaps \subseteq mishaps'
      PROVE  PInv'
  <2>1. Told \subseteq Told' /\ cmd'[c].pc \notin {"count", "purge"}
    BY <1>2 DEF Told, Moves
  <2> QED
    BY <1>2, <2>1, NotDeleting
<1>3. ASSUME NEW c \in Commands, Count(c)
      PROVE  PInv'
  <2>1. /\ Moves(c, {"count"}, {"purge", "ended"})
        /\ cmd'[c].pc = "purge" => cmd'[c].table = cmd[c].table
        /\ UNCHANGED <<report, committed, purged, mishaps>>
    BY <1>3, CountMoves
  <2>2. cmd[c].pc = "count" /\ cmd'[c].pc \in {"purge", "ended"}
    BY <2>1 DEF Moves
  <2>3. Told \subseteq Told' /\ mishaps \subseteq mishaps'
    BY <2>1 DEF Told
  <2> QED
    BY <2>1, <2>2, <2>3, NotDeleting
<1>4. ASSUME NEW c \in Commands, Ensure(c)
      PROVE  PInv'
  <2>1. UNCHANGED <<report, committed, purged, mishaps>>
    BY <1>4 DEF Ensure
  <2> QED
    BY <1>2, <1>4, <2>1, EnsureMoves
<1>5. ASSUME NEW c \in Commands, Scan(c) \/ Begin(c, "register") \/ Begin(c, "scan")
             \/ Register(c) \/ Mark(c) \/ Commit(c)
      PROVE  PInv'
  <2>1. PICK from, to : Moves(c, from, to) /\ to \cap {"count", "purge"} = {}
    BY <1>5, ScanMoves, BeginMoves, RegisterMoves, MarkMoves, CommitMoves
  <2>2. UNCHANGED <<report, purged, mishaps>> /\ committed \subseteq committed'
    BY <1>5, ScanMoves, BeginMoves, RegisterMoves, MarkMoves, CommitMoves
  <2> QED
    BY <1>2, <2>1, <2>2
<1>6. ASSUME NEW c \in Commands, Audit(c)
      PROVE  PInv'
  <2>1. /\ Moves(c, {"audit"}, {"mark", "ended"}) /\ UNCHANGED <<report, committed, purged>>
        /\ mishaps \subseteq mishaps'
    BY <1>6, AuditMoves
  <2> QED
    BY <1>2, <2>1
<1>7. CASE Crash
  <2>1. \A c \in Commands : cmd'[c] = cmd[c] \/ cmd'[c].pc = "ended"
    BY <1>7, CrashEffect, TInvParts DEF CmdOK
  <2>2. UNCHANGED <<report, committed, purged>> /\ mishaps \subseteq mishaps'
    BY <1>7 DEF Crash
  <2>3. UNCHANGED Told
    BY <2>2 DEF Told
  <2> QED
    BY <2>1, <2>2, <2>3 DEF PInv
<1> QED
  BY <1>1, <1>3, <1>4, <1>5, <1>6, <1>7, SmeltTells, PurgeTold, StepCases DEF Aside, vars

(* lifecycle.rs:238-249: what an offboard has read and deletes is in the       *)
(* report or in git, for any number of requests, of which any may be another   *)
(* offboard between its steps.  The report of a request that will delete       *)
(* stays, or the overwriting is seen.                                          *)
THEOREM PurgedRowsReportedAlways == Spec => []PurgedRowsReported
<1>1. Init => PInv
  <2> SUFFICES ASSUME Init PROVE PInv
    OBVIOUS
  <2>1. purged = {} /\ cmd = [c \in Commands |-> Idle]
    BY DEF Init
  <2>2. \A c \in Commands : cmd[c].pc = "idle"
    BY <2>1 DEF Idle
  <2> QED
    BY <2>1, <2>2 DEF PInv
<1>2. PInv => PurgedRowsReported
  BY DEF PInv, PurgedRowsReported, Told
<1> QED
  BY <1>1, <1>2, TInvInit, TInvStep, PInvStep, PTL DEF Spec

-----------------------------------------------------------------------------
(* The audit log *)

LEMMA AuditedStep == TInv /\ PurgesAudited /\ [Next]_vars => PurgesAudited'
<1> SUFFICES ASSUME TInv, PurgesAudited, [Next]_vars PROVE PurgesAudited'
  OBVIOUS
<1>0. /\ cmd \in [Commands -> CmdRecord] /\ uncounted \in [Commands -> Int]
      /\ \A c \in Commands : cmd[c].count \in Nat
  BY TInvParts DEF CmdOK, CmdRecord
<1>1. CASE UNCHANGED lifecycleVars
  BY <1>1 DEF PurgesAudited, lifecycleVars
<1>2. ASSUME NEW c \in Commands, NEW from, NEW to, Moves(c, from, to), "audit" \notin from \cup to,
             UNCHANGED uncounted, mishaps \subseteq mishaps'
      PROVE  PurgesAudited'
  BY <1>2 DEF Moves, PurgesAudited
<1>3. ASSUME NEW c \in Commands, Purge(c)
      PROVE  PurgesAudited'
  <2>1. CASE Moves(c, {"purge"}, {"ended"}) /\ UNCHANGED <<purged, uncounted, mishaps>>
    BY <1>2, <2>1
  <2>2. CASE /\ Moves(c, {"purge"}, {"audit"}) /\ cmd'[c].count = cmd[c].count
             /\ \E n \in Nat : /\ uncounted' = [uncounted EXCEPT ![c] = uncounted[c] + n]
                               /\ mishaps' = mishaps \cup
                                    (IF n = cmd[c].count THEN {} ELSE {"miscounted"})
    <3> SUFFICES ASSUME {"unaudited", "miscounted"} \cap mishaps' = {}, NEW d \in Commands
                 PROVE  uncounted'[d] = IF cmd'[d].pc = "audit" THEN cmd'[d].count ELSE 0
      BY DEF PurgesAudited
    <3>1. PICK n \in Nat : /\ uncounted' = [uncounted EXCEPT ![c] = uncounted[c] + n]
                           /\ mishaps' = mishaps \cup
                                (IF n = cmd[c].count THEN {} ELSE {"miscounted"})
      BY <2>2
    <3>2. {"unaudited", "miscounted"} \cap mishaps = {} /\ n = cmd[c].count
      BY <3>1
    <3>3. cmd[c].pc = "purge" /\ cmd'[c].pc = "audit" /\ (d # c => cmd'[d] = cmd[d])
      BY <2>2 DEF Moves
    <3>4. uncounted[c] = 0
      BY <3>2, <3>3 DEF PurgesAudited
    <3>5. CASE d = c
      BY <1>0, <2>2, <3>1, <3>2, <3>3, <3>4, <3>5
    <3>6. CASE d # c
      BY <1>0, <3>1, <3>2, <3>3, <3>6 DEF PurgesAudited
    <3> QED
      BY <3>5, <3>6
  <2> QED
    BY <1>3, <2>1, <2>2, PurgeMoves
<1>4. ASSUME NEW c \in Commands, Audit(c)
      PROVE  PurgesAudited'
  <2> SUFFICES ASSUME {"unaudited", "miscounted"} \cap mishaps' = {}, NEW d \in Commands
               PROVE  uncounted'[d] = IF cmd'[d].pc = "audit" THEN cmd'[d].count ELSE 0
    BY DEF PurgesAudited
  <2>1. Moves(c, {"audit"}, {"mark", "ended"})
    BY <1>4, AuditMoves
  <2>2. uncounted' = [uncounted EXCEPT ![c] = uncounted[c] - cmd[c].count] /\ UNCHANGED mishaps
    <3>1. "unaudited" \notin mishaps'
      OBVIOUS
    <3> QED
      BY <1>4, <3>1, AuditMoves
  <2>3. cmd[c].pc = "audit" /\ cmd'[c].pc # "audit" /\ (d # c => cmd'[d] = cmd[d])
    BY <2>1 DEF Moves
  <2>4. \A e \in Commands : uncounted[e] = IF cmd[e].pc = "audit" THEN cmd[e].count ELSE 0
    BY <2>2 DEF PurgesAudited
  <2>5. CASE d = c
    BY <1>0, <2>2, <2>3, <2>4, <2>5
  <2>6. CASE d # c
    BY <1>0, <2>2, <2>3, <2>4, <2>6
  <2> QED
    BY <2>5, <2>6
<1>5. ASSUME NEW c \in Commands, Ensure(c)
      PROVE  PurgesAudited'
  <2>1. UNCHANGED <<uncounted, mishaps>> /\ "audit" \notin Onboarding
    BY <1>5 DEF Ensure, Onboarding
  <2> QED
    BY <1>2, <1>5, <2>1, EnsureMoves
<1>6. ASSUME NEW c \in Commands, Scan(c) \/ (Aside(c) /\ ~Audit(c))
      PROVE  PurgesAudited'
  <2>1. /\ \E from, to : Moves(c, from, to) /\ "audit" \notin from \cup to
        /\ UNCHANGED uncounted /\ mishaps \subseteq mishaps'
    BY <1>6, ScanMoves, BeginMoves, RegisterMoves, SmeltMoves, CountMoves, MarkMoves, CommitMoves
       DEF Aside
  <2> QED
    BY <1>2, <2>1
<1>7. CASE Crash
  <2>1. /\ UNCHANGED uncounted
        /\ mishaps' = mishaps \cup (IF \E c \in Commands : cmd[c].pc = "audit" THEN {"unaudited"} ELSE {})
    BY <1>7 DEF Crash
  <2>2. \A c \in Commands : cmd'[c] = cmd[c] \/ cmd'[c].pc = "ended"
    BY <1>0, <1>7, CrashEffect
  <2> QED
    BY <2>1, <2>2 DEF PurgesAudited
<1> QED
  BY <1>1, <1>3, <1>4, <1>5, <1>6, <1>7, StepCases DEF vars

(* absurd/mod.rs:746: while no audit entry failed or was cut off, and no rows  *)
(* came or went between the count and the deletion, the log accounts for every *)
(* row that an offboard deleted, for any number of requests.                   *)
THEOREM PurgesAuditedAlways == Spec => []PurgesAudited
<1>1. Init => PurgesAudited
  <2> SUFFICES ASSUME Init PROVE PurgesAudited
    OBVIOUS
  <2>1. uncounted = [c \in Commands |-> 0] /\ cmd = [c \in Commands |-> Idle]
    BY DEF Init
  <2>2. \A c \in Commands : cmd[c].pc = "idle"
    BY <2>1 DEF Idle
  <2> QED
    BY <2>1, <2>2 DEF PurgesAudited
<1> QED
  BY <1>1, TInvInit, TInvStep, AuditedStep, PTL DEF Spec

-----------------------------------------------------------------------------
(* Transitions *)

\* Where the last write of step s is that returned Ok: in the ring; or, the ring
\* having none, with the replay; or, that having none either, in the row.
Kept(s) ==
  \/ s \in excused
  \/ LastOf(ring, s, said[s])
  \/ InStep(ring, s) = {} /\ LastOf(queue, s, said[s])
  \/ InStep(ring, s) = {} /\ InStep(queue, s) = {} /\ said[s] \in Stamps(RowOf(s)) \cup {0}

KInv == \A s \in Steps : Kept(s)

LEMMA KeptNext ==
  ASSUME NEW s
  PROVE  Kept(s)' <=>
           \/ s \in excused'
           \/ LastOf(ring', s, said'[s])
           \/ InStep(ring', s) = {} /\ LastOf(queue', s, said'[s])
           \/ /\ InStep(ring', s) = {} /\ InStep(queue', s) = {}
              /\ said'[s] \in Stamps((RowOf(s))') \cup {0}
BY DEF Kept, LastOf, InStep, Stamps

LEMMA LastIsNewest ==
  ASSUME NEW es \in Seq(Events), NEW s \in Steps, LastOf(es, s, said[s])
  PROVE  s \in NewestIn(es)
<1>1. PICK i \in DOMAIN es : es[i].step = s /\ es[i].at = said[s]
  BY DEF LastOf, InStep
<1>2. es[i] \in Events
  BY LenProperties, ElementOfSeq
<1>3. es[i] = [step |-> s, at |-> said[s]]
  BY <1>1, <1>2 DEF Events
<1> QED
  BY <1>1, <1>3 DEF NewestIn

LEMMA NoEvents == ASSUME NEW s PROVE InStep(<<>>, s) = {}
BY DEF InStep

\* A step that leaves the events and the row of s alone.
LEMMA KeptSame ==
  ASSUME NEW s \in Steps, Kept(s), UNCHANGED <<ring, queue>>, said'[s] = said[s],
         s \in excused => s \in excused', (RowOf(s))' = RowOf(s)
  PROVE  Kept(s)'
BY KeptNext DEF Kept

LEMMA RowSame == ASSUME NEW s, UNCHANGED overlay PROVE (RowOf(s))' = RowOf(s)
BY RowOfIsRowIn

LEMMA DirectKeeps ==
  ASSUME TInv, KInv, NEW s \in Steps, NEW r \in Rows, r.step = s, writes + 1 \in Stamps(r),
         Writing, Direct(s, r)
  PROVE  KInv'
<1> SUFFICES ASSUME NEW t \in Steps PROVE Kept(t)'
  BY DEF KInv
<1>1. /\ UNCHANGED <<ring, queue>>
      /\ said' = [said EXCEPT ![s] = writes + 1]
      /\ excused' = (IF Pending(s) THEN excused \cup {s} ELSE excused \ {s})
  BY DEF Writing, Direct, Accept
<1>2. said \in [Steps -> 0..MaxWrites]
  BY TInvParts DEF WriteOK
<1>3. (RowOf(t))' = IF t = s THEN r ELSE RowOf(t)
  BY PutEffect DEF Direct
<1>4. CASE t # s
  BY <1>1, <1>2, <1>3, <1>4, KeptSame DEF KInv
<1>5. CASE t = s /\ Pending(s)
  BY <1>1, <1>5, KeptNext
<1>6. CASE t = s /\ ~Pending(s)
  <2>1. InStep(ring', t) = {} /\ InStep(queue', t) = {}
    BY <1>1, <1>6 DEF Pending
  <2>2. said'[t] = writes + 1
    BY <1>1, <1>2, <1>6
  <2> QED
    BY <1>3, <1>6, <2>1, <2>2, KeptNext
<1> QED
  BY <1>4, <1>5, <1>6

\* An update of a row that is gone is one of a step that is excused.
LEMMA NoRowKeeps ==
  ASSUME TInv, KInv, NEW s \in Steps, said[s] # 0, Writing, NoRow(s)
  PROVE  KInv'
<1> SUFFICES ASSUME NEW t \in Steps PROVE Kept(t)'
  BY DEF KInv
<1>1. /\ UNCHANGED <<ring, queue, overlay>>
      /\ said' = [said EXCEPT ![s] = writes + 1]
      /\ excused' = (IF Pending(s) THEN excused \cup {s} ELSE excused)
  BY DEF Writing, NoRow, Accept
<1>2. said \in [Steps -> 0..MaxWrites]
  BY TInvParts DEF WriteOK
<1>3. CASE t # s
  BY <1>1, <1>2, <1>3, RowSame, KeptSame DEF KInv
<1>4. Pending(s) \/ s \in excused
  <2>1. RowOf(s) = [step |-> s, status |-> 0, verdict |-> 0]
    BY DEF NoRow, RowOf
  <2>2. Stamps(RowOf(s)) = {0}
    BY <2>1, NoSuchRow DEF Stamps
  <2>3. CASE LastOf(ring, s, said[s]) \/ LastOf(queue, s, said[s])
    BY <2>3 DEF LastOf, Pending
  <2> QED
    BY <2>2, <2>3 DEF KInv, Kept
<1> QED
  BY <1>1, <1>3, <1>4, KeptNext

\* The event of another step that the ring loses for a new one is of an excused step if it is
\* the last of that step.
LEMMA BufferKeeps ==
  ASSUME TInv, KInv, NEW s \in Steps, Writing, Buffer(s)
  PROVE  KInv'
<1> SUFFICES ASSUME NEW t \in Steps PROVE Kept(t)'
  BY DEF KInv
<1> DEFINE e == [step |-> s, at |-> writes + 1]
<1>0. QueueOK /\ WriteOK
  BY TInvParts
<1>1. /\ UNCHANGED <<queue, overlay>>
      /\ ring' = Buffered(e)
      /\ said' = [said EXCEPT ![s] = writes + 1]
      /\ excused' = (excused \cup {u \in Steps : Len(ring) = MaxEntries
                                     /\ [step |-> u, at |-> said[u]] = Head(ring)}) \ {s}
  BY DEF Writing, Buffer, Accept
<1>2. said \in [Steps -> 0..MaxWrites] /\ writes + 1 \in 1..MaxWrites
  BY <1>0, Numbers DEF WriteOK, Writing
<1>3. e \in Events /\ e.step = s /\ e.at = writes + 1
  BY <1>2 DEF Events
<1> HIDE DEF e
<1>4. /\ ring' \in Seq(Events)
      /\ \A u : u # s => Follows(ring', ring, Lost, u)
      /\ LastOf(ring', s, writes + 1)
  BY <1>0, <1>1, <1>3, BufferedEffect DEF QueueOK
<1>5. CASE t = s
  BY <1>1, <1>2, <1>4, <1>5, KeptNext
<1>6. CASE t # s
  <2>1. said'[t] = said[t] /\ (t \in excused => t \in excused') /\ (RowOf(t))' = RowOf(t)
    BY <1>1, <1>2, <1>6, RowSame
  <2>2. Follows(ring', ring, Lost, t)
    BY <1>4, <1>6
  <2>3. CASE LastOf(ring, t, said[t])
    <3>1. ring \in Seq(Events)
      BY <1>0 DEF QueueOK
    <3>2. PICK len \in Nat : len = Len(ring) /\ DOMAIN ring = 1..len /\ ring \in [1..len -> Events]
      BY <3>1, EventPlaces
    <3>3. PICK n \in Nat : DOMAIN ring' = 1..n
      BY <1>4, EventPlaces
    <3>4. Lost \in {0, 1}
      BY DEF Lost
    <3>5. CASE LastOf(ring', t, said[t])
      BY <2>1, <3>5, KeptNext
    <3>6. CASE Lost = 1 /\ len > 0 /\ ring[1].step = t /\ ring[1].at = said[t]
      <4>1. Len(ring) = MaxEntries
        BY <3>6 DEF Lost
      <4>2. ring[1] \in Events
        <5>1. 1 \in 1..len
          BY <3>6
        <5> QED
          BY <3>2, <5>1
      <4>3. Head(ring) = [step |-> t, at |-> said[t]]
        BY <3>6, <4>2 DEF Events, Head
      <4>4. t \in excused'
        BY <1>1, <1>6, <4>1, <4>3
      <4> QED
        BY <4>4, KeptNext
    <3> QED
      BY <2>2, <2>3, <3>2, <3>3, <3>4, <3>5, <3>6, FollowsLast
  <2>4. CASE InStep(ring, t) = {}
    <3>1. InStep(ring', t) = {}
      BY <2>2, <2>4, FollowsNone
    <3>2. ~LastOf(ring, t, said[t])
      BY <2>4 DEF LastOf
    <3> QED
      BY <1>1, <2>1, <3>1, <3>2, KeptNext DEF KInv, Kept
  <2>5. CASE t \in excused
    BY <2>1, <2>5, KeptNext
  <2> QED
    BY <2>3, <2>4, <2>5 DEF KInv, Kept
<1> QED
  BY <1>5, <1>6

\* The replay has nothing left when it drains the ring.
LEMMA DrainKeeps ==
  ASSUME TInv, KInv, Drain
  PROVE  KInv'
<1> SUFFICES ASSUME NEW t \in Steps PROVE Kept(t)'
  BY DEF KInv
<1>1. UNCHANGED <<overlay, said, excused>> /\ queue' = ring /\ ring' = <<>> /\ replayer = "drain"
  BY DEF Drain, history
<1>2. queue = <<>>
  BY <1>1, TInvParts DEF QueueOK, Connected, Queued
<1>3. InStep(queue, t) = {} /\ InStep(ring', t) = {} /\ (RowOf(t))' = RowOf(t)
  BY <1>1, <1>2, NoEvents, RowSame
<1>4. ~LastOf(queue, t, said[t])
  BY <1>3 DEF LastOf
<1> QED
  BY <1>1, <1>3, <1>4, KeptNext DEF KInv, Kept

\* An event that the replay is done with is that of an excused step, or its step's
\* row has been written, or a later one of the step is still to come.
LEMMA AdvanceKeeps ==
  ASSUME TInv, NEW t \in Steps, Kept(t), replayer \in Queued, Advance, UNCHANGED <<ring, said>>,
         t \in excused => t \in excused',
         Head(queue).step # t => (RowOf(t))' = RowOf(t),
         Head(queue) = [step |-> t, at |-> said[t]] =>
           t \in excused' \/ said[t] \in Stamps((RowOf(t))')
  PROVE  Kept(t)'
<1>0. QueueOK
  BY TInvParts
<1>1. /\ queue' \in Seq(Events) /\ Follows(queue', queue, 1, t)
      /\ Head(queue) \in Events /\ Head(queue) = queue[1] /\ 1 \in DOMAIN queue
  BY <1>0, AdvanceEffect
<1>2. CASE t \in excused \/ LastOf(ring, t, said[t])
  BY <1>2, KeptNext
<1>3. CASE InStep(ring, t) = {} /\ LastOf(queue, t, said[t])
  <2>0. queue \in Seq(Events)
    BY <1>0 DEF QueueOK
  <2>1. PICK len \in Nat : DOMAIN queue = 1..len
    BY <2>0, EventPlaces
  <2>2. PICK n \in Nat : DOMAIN queue' = 1..n
    BY <1>1, EventPlaces
  <2>3. CASE LastOf(queue', t, said[t])
    BY <1>3, <2>3, KeptNext
  <2>4. CASE InStep(queue', t) = {} /\ queue[1].step = t /\ queue[1].at = said[t]
    <3>1. Head(queue) = [step |-> t, at |-> said[t]]
      BY <1>1, <2>4 DEF Events
    <3> QED
      BY <1>3, <2>4, <3>1, KeptNext
  <2> QED
    BY <1>1, <1>3, <2>1, <2>2, <2>3, <2>4, FollowsLast
<1>4. CASE InStep(ring, t) = {} /\ InStep(queue, t) = {} /\ said[t] \in Stamps(RowOf(t)) \cup {0}
  <2>1. InStep(queue', t) = {}
    BY <1>1, <1>4, FollowsNone
  <2>2. Head(queue).step # t
    BY <1>1, <1>4 DEF InStep
  <2> QED
    BY <1>4, <2>1, <2>2, KeptNext
<1> QED
  BY <1>2, <1>3, <1>4 DEF Kept

LEMMA DropKeeps ==
  ASSUME TInv, KInv, replayer \in Queued, Drop, UNCHANGED <<ring, said>>
  PROVE  KInv'
<1> SUFFICES ASSUME NEW t \in Steps PROVE Kept(t)'
  BY DEF KInv
<1>1. Advance /\ excused' = excused \cup NewestIn(<<Head(queue)>>) /\ UNCHANGED overlay
  BY DEF Drop
<1>2. ASSUME Head(queue) = [step |-> t, at |-> said[t]]
      PROVE  t \in excused'
  <2>1. 1 \in DOMAIN <<Head(queue)>> /\ <<Head(queue)>>[1] = Head(queue)
    OBVIOUS
  <2> QED
    BY <1>1, <1>2, <2>1 DEF NewestIn
<1>3. (RowOf(t))' = RowOf(t)
  BY <1>1, RowSame
<1> QED
  BY <1>1, <1>2, <1>3, AdvanceKeeps DEF KInv

LEMMA UpsertKeeps ==
  ASSUME TInv, KInv, ReplayUpsert
  PROVE  KInv'
<1>1. replayer \in Queued /\ UNCHANGED <<ring, said>>
  BY DEF ReplayUpsert, Queued
<1>2. CASE Drop
  BY <1>1, <1>2, DropKeeps
<1>3. CASE overlay' = Put(Replayed(Head(queue))) /\ Advance /\ UNCHANGED excused
  <2> SUFFICES ASSUME NEW t \in Steps PROVE Kept(t)'
    BY DEF KInv
  <2>1. Head(queue) \in Events
    BY <1>1, <1>3, AdvanceEffect, TInvParts
  <2> DEFINE e == Head(queue)
  <2>2. Replayed(e) \in Rows /\ Replayed(e).step = e.step /\ e.at \in Stamps(Replayed(e))
    BY <2>1, ReplayedRow
  <2>3. (RowOf(t))' = IF t = e.step THEN Replayed(e) ELSE RowOf(t)
    BY <1>3, <2>2, PutEffect
  <2>4. ASSUME e = [step |-> t, at |-> said[t]]
        PROVE  said[t] \in Stamps((RowOf(t))')
    <3>1. e.step = t /\ e.at = said[t]
      BY <2>4
    <3> HIDE DEF e
    <3> QED
      BY <2>2, <2>3, <3>1
  <2> QED
    BY <1>1, <1>3, <2>3, <2>4, AdvanceKeeps DEF KInv
<1> QED
  BY <1>2, <1>3 DEF ReplayUpsert, Replayed

\* A row that holds the last write of its step is deleted: the step is excused.
LEMMA PurgeKeeps ==
  ASSUME TInv, KInv, NEW c \in Commands, Purge(c)
  PROVE  KInv'
<1> SUFFICES ASSUME NEW t \in Steps PROVE Kept(t)'
  BY DEF KInv
<1>1. UNCHANGED <<ring, queue, said>>
  BY DEF Purge
<1>2. CASE UNCHANGED <<overlay, excused>>
  BY <1>1, <1>2, RowSame, KeptSame DEF KInv
<1>3. CASE excused' = excused \cup {s \in Steps : said[s] \in Stamps(RowOf(s)) \ {0}}
  BY <1>1, <1>3, KeptNext DEF KInv, Kept
<1> QED
  BY <1>2, <1>3 DEF Purge

LEMMA CrashKeeps ==
  ASSUME TInv, KInv, StoreCrash
  PROVE  KInv'
<1> SUFFICES ASSUME NEW t \in Steps PROVE Kept(t)'
  BY DEF KInv
<1>1. /\ UNCHANGED <<ring, overlay, said>> /\ queue' = <<>>
      /\ excused' = excused \cup NewestIn(queue)
  BY DEF StoreCrash, files
<1>2. queue \in Seq(Events)
  BY TInvParts DEF QueueOK
<1>3. LastOf(queue, t, said[t]) => t \in excused'
  BY <1>1, <1>2, LastIsNewest
<1>4. InStep(queue', t) = {} /\ (RowOf(t))' = RowOf(t)
  BY <1>1, NoEvents, RowSame
<1> QED
  BY <1>1, <1>3, <1>4, KeptNext DEF KInv, Kept

LEMMA KInvStep == TInv /\ KInv /\ [Next]_vars => KInv'
<1> SUFFICES ASSUME TInv, KInv, [Next]_vars PROVE KInv'
  OBVIOUS
<1>1. CASE UNCHANGED <<ring, queue, overlay, said, excused>>
  BY <1>1, RowSame, KeptSame DEF KInv
<1>2. ASSUME NEW s \in Steps, Writes(s)
      PROVE  KInv'
  <2>1. CASE Refused
    <3>1. UNCHANGED <<ring, queue, overlay, said, excused>>
      BY <1>2, <2>1 DEF Refused, Writes, Writing, history
    <3> QED
      BY <1>1, <3>1
  <2> QED
    BY <1>2, <2>1, DirectKeeps, NoRowKeeps, BufferKeeps DEF Writes
<1>3. CASE Connect \/ Outage \/ Restart
  BY <1>1, <1>3 DEF Connect, Outage, Restart, files, history
<1>4. CASE ReplayEnsure
  <2>1. replayer \in Queued /\ UNCHANGED <<ring, said>>
    BY <1>4 DEF ReplayEnsure, Queued
  <2>2. Drop \/ UNCHANGED <<queue, overlay, excused>>
    BY <1>4 DEF ReplayEnsure
  <2> QED
    BY <1>1, <2>1, <2>2, DropKeeps
<1>5. ASSUME NEW c \in Commands, Ensure(c) \/ Scan(c)
      PROVE  KInv'
  BY <1>1, <1>5 DEF Ensure, Scan, files, history
<1>6. CASE UNCHANGED storeVars
  BY <1>1, <1>6 DEF storeVars, files, history
<1> QED
  BY <1>2, <1>3, <1>4, <1>5, <1>6, DrainKeeps, UpsertKeeps, PurgeKeeps, CrashKeeps, StepCases,
     AsideStore DEF vars, Crash

(* absurd/mod.rs:472, "so the transition is not lost": for any ring, any       *)
(* replay and any writers beside it, the last write of a step that returned Ok *)
(* is in the row, in the ring or with the replay, but for the steps that are   *)
(* excused.  The newest event of a step is its last write as long as it waits, *)
(* and when the replay has written it nothing older is to come.                *)
THEOREM TransitionsKeptAlways == Spec => []TransitionsKept
<1>1. Init => KInv
  <2> SUFFICES ASSUME Init, NEW s \in Steps PROVE Kept(s)
    BY DEF KInv
  <2>1. ring = <<>> /\ queue = <<>> /\ said = [t \in Steps |-> 0]
    BY DEF Init, StoreInit
  <2> QED
    BY <2>1, NoEvents DEF Kept
<1>2. TInv /\ KInv => TransitionsKept
  <2> SUFFICES ASSUME TInv, KInv, NEW s \in Steps \ excused, said[s] # 0
               PROVE  \/ said[s] \in Stamps(RowOf(s))
                      \/ s \in NewestIn(ring) \cup NewestIn(queue)
    BY DEF TransitionsKept
  <2>1. ring \in Seq(Events) /\ queue \in Seq(Events)
    BY TInvParts DEF QueueOK
  <2> QED
    BY <2>1, LastIsNewest DEF KInv, Kept
<1> QED
  BY <1>1, <1>2, TInvInit, TInvStep, KInvStep, PTL DEF Spec

=============================================================================
