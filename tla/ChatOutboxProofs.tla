------------------------- MODULE ChatOutboxProofs -------------------------
(***************************************************************************)
(* Safety of the chat outbox for every table size, every sequence of       *)
(* delays, every number of failures and crashes: proofs about ChatOutbox.  *)
(* Where a property needs that no IPC fails, that the application does not *)
(* crash or that no ChatPanel is mounted, the theorem says so.             *)
(***************************************************************************)
EXTENDS ChatOutbox, WellFoundedInduction, TLAPS

-----------------------------------------------------------------------------
(***************************************************************************)
(* The row rules of OutboxPolicy: their results are rows and times, the    *)
(* drain order has a first element, and what a rule leaves of a row        *)
(* unchanged.                                                              *)
(***************************************************************************)
(* The natural numbers are well ordered.                                   *)
LEMMA LeastNat ==
    ASSUME NEW T \in SUBSET Nat, T # {}
    PROVE  \E x \in T : \A y \in T : x <= y
<1> DEFINE R == OpToRel(<, Nat)
<1>1. IsWellFoundedOn(R, Nat)
  BY NatLessThanWellFounded
<1>2. \E x \in T : \A y \in T : ~ (<<y, x>> \in R)
  <2> HIDE DEF R
  <2> QED BY <1>1, WFMin
<1>3. \A x, y \in Nat : <<y, x>> \in R <=> y < x
  BY DEF OpToRel
<1> HIDE DEF R
<1>4. PICK x \in T : \A y \in T : ~ (<<y, x>> \in R)
  BY <1>2
<1>5. ASSUME NEW y \in T PROVE x <= y
  <2>1. ~ (<<y, x>> \in R) /\ x \in Nat /\ y \in Nat
    BY <1>4
  <2>2. ~ (y < x)
    BY <2>1, <1>3
  <2> QED BY <2>1, <2>2
<1> QED BY <1>5

(* A drain with rows left has a first one in compareDrainOrder: the        *)
(* emergency rows if any, of those the oldest, of those the smallest id.   *)
LEMMA FirstOfIsFirst ==
    ASSUME NEW S \in SUBSET Row, S # {}
    PROVE  /\ FirstOf(S) \in S
           /\ \A s \in S : Before(FirstOf(S), s)
<1> DEFINE U == {r \in S : Emergency(r)}
           E == IF U # {} THEN U ELSE S
           A == {r.createdAt : r \in E}
<1>1. PICK a \in A : \A b \in A : a <= b
  <2>1. A \in SUBSET Nat /\ A # {}
    BY DEF Row
  <2> QED BY <2>1, LeastNat
<1> DEFINE F == {r \in E : r.createdAt = a}
           I == {r.id : r \in F}
<1>2. PICK i \in I : \A j \in I : i <= j
  <2>1. I \in SUBSET Nat /\ I # {}
    BY DEF Row
  <2> QED BY <2>1, LeastNat
<1>3. PICK r \in F : r.id = i
  BY <1>2
<1>4. ASSUME NEW s \in S PROVE Before(r, s)
  <2>1. /\ r \in E /\ r.createdAt = a /\ a \in Nat
        /\ s.createdAt \in Nat /\ r.id \in Nat /\ s.id \in Nat
    BY <1>1, <1>3 DEF Row
  <2>2. CASE Emergency(r) /\ ~Emergency(s)
    BY <2>2 DEF Before
  <2>3. CASE ~(Emergency(r) /\ ~Emergency(s))
    <3>1. s \in E /\ Emergency(r) = Emergency(s)
      BY <2>1, <2>3 DEF Emergency
    <3>2. a <= s.createdAt
      BY <3>1, <1>1
    <3>3. s.createdAt = a => r.id <= s.id
      BY <3>1, <1>2, <1>3
    <3> QED BY <2>1, <3>1, <3>2, <3>3 DEF Before
  <2> QED BY <2>2, <2>3
<1>5. r \in S
  BY <1>3
<1> QED BY <1>4, <1>5 DEF FirstOf

LEMMA RetryTimesType ==
    ASSUME NEW S \in SUBSET Row
    PROVE  RetryTimes(S) \in SUBSET Time
BY DEF RetryTimes, Row

(* The retry timer is armed at one of the times, ahead of the clock and    *)
(* before every other time ahead, or not at all when none is ahead.        *)
LEMMA EarliestRetryIsEarliest ==
    ASSUME NEW times \in SUBSET Time, NEW t0 \in Nat
    PROVE  LET at == EarliestRetry(times, t0) IN
           /\ at \in Time
           /\ at # Never => at \in times /\ at > t0
           /\ \A t \in times : t > t0 => at # Never /\ at <= t
<1> DEFINE ahead == {t \in times : t > t0}
<1>1. CASE ahead = {}
  BY <1>1 DEF EarliestRetry, Time
<1>2. CASE ahead # {}
  <2>1. ahead \in SUBSET Nat
    <3>1. ASSUME NEW t \in ahead PROVE t \in Nat
      <4>1. t \in Nat \/ t = -1
        BY DEF Time, Never
      <4>2. t > t0
        OBVIOUS
      <4> QED BY <4>1, <4>2
    <3> QED BY <3>1
  <2>2. \E t \in ahead : \A u \in ahead : t <= u
    BY <2>1, <1>2, LeastNat
  <2> DEFINE at == CHOOSE t \in ahead : \A u \in ahead : t <= u
  <2>3. at \in ahead /\ \A u \in ahead : at <= u
    BY <2>2
  <2>4. EarliestRetry(times, t0) = at
    BY <1>2 DEF EarliestRetry
  <2> HIDE DEF at
  <2>5. at \in Nat /\ at # Never
    BY <2>1, <2>3 DEF Never
  <2> QED BY <2>3, <2>4, <2>5 DEF Time
<1> QED BY <1>1, <1>2

LEMMA BumpIsPositive ==
    ASSUME NEW n \in Nat
    PROVE  Bump(n) \in Nat \ {0}
<1>1. CountCeiling \in Nat \ {0}
  <2>1. /\ MaxAttempts \in Nat \ {0}
        /\ Len(NormalDelays) \in Nat /\ Len(EmergencyDelays) \in Nat
    BY PolicyAssumption
  <2> QED BY <2>1 DEF CountCeiling
<1> QED BY <1>1 DEF Bump

LEMMA RetryDelayType ==
    ASSUME NEW r, NEW n \in Nat \ {0}
    PROVE  RetryDelay(r, n) \in Nat
<1> DEFINE delays == IF Emergency(r) THEN EmergencyDelays ELSE NormalDelays
<1>1. delays \in Seq(Nat) /\ delays # <<>>
  BY PolicyAssumption
<1> HIDE DEF delays
<1>2. (IF n <= Len(delays) THEN n ELSE Len(delays)) \in 1..Len(delays)
  BY <1>1
<1>3. RetryDelay(r, n) = delays[IF n <= Len(delays) THEN n ELSE Len(delays)]
  BY DEF RetryDelay, delays
<1> QED BY <1>1, <1>2, <1>3

(* What the program writes in a row changes only its status, its attempts  *)
(* and its retry time.                                                     *)
SameMessage(r, s) ==
    r.id = s.id /\ r.kind = s.kind /\ r.ident = s.ident /\ r.createdAt = s.createdAt

LEMMA NewRowType ==
    ASSUME NEW id \in Nat, NEW kind \in Kinds, NEW at \in Time, NEW t0 \in Nat,
           NEW ident \in Identities \cup {NoIdentity}
    PROVE  NewRow(id, kind, ident, at, t0) \in Row
BY DEF NewRow, Row, Statuses

LEMMA WithStatusType ==
    ASSUME NEW r \in Row, NEW status \in Statuses
    PROVE  WithStatus(r, status) \in Row /\ SameMessage(WithStatus(r, status), r)
BY DEF WithStatus, Row, SameMessage, Time

LEMMA RequeuedType ==
    ASSUME NEW r \in Row
    PROVE  Requeued(r) \in Row /\ SameMessage(Requeued(r), r)
BY WithStatusType DEF Requeued, Statuses, SameMessage

LEMMA FailedType ==
    ASSUME NEW r \in Row, NEW b \in BOOLEAN, NEW t0 \in Nat
    PROVE  Failed(r, b, t0) \in Row /\ SameMessage(Failed(r, b, t0), r)
<1> DEFINE n == Bump(r.attempts)
<1>1. n \in Nat \ {0}
  BY BumpIsPositive DEF Row
<1>2. RetryDelay(r, n) \in Nat
  BY <1>1, RetryDelayType
<1> HIDE DEF n
<1>3. t0 + RetryDelay(r, n) \in Time /\ Never \in Time
  BY <1>2 DEF Time
<1> QED BY <1>1, <1>3 DEF Failed, n, Row, Statuses, SameMessage

-----------------------------------------------------------------------------
(***************************************************************************)
(* The inductive invariant.                                                *)
(***************************************************************************)
(* A drain past its first await holds the promise chain.                   *)
LockInv == \A c \in Drainers : pass[c].step # "idle" => Holds(c)

(* From the pacing slot to the outcome, the pass has a row in hand.        *)
WorkInv ==
    \A c \in Drainers :
        pass[c].step \in {"pacing", "marking", "calling", "awaiting"}
            => pass[c].todo # {}

(* A copy is of a row that was stored, and is of the same message as the   *)
(* stored row while that is there: ids are never used again.               *)
CopyOf(r, d, next) ==
    /\ r.id \in 1..(next - 1)
    /\ r.id \in DOMAIN d => d[r.id].kind = r.kind

CopyInv ==
    \A c \in Drainers : \A r \in pass[c].rows \cup pass[c].todo :
        CopyOf(r, db, nextId)

IdInv ==
    /\ DOMAIN db \subseteq 1..(nextId - 1)
    /\ hist.cancelled \subseteq 1..(nextId - 1)
    /\ CancelledStaysGone

(* A pass that waits for an acknowledgement has sent its row.              *)
SentInv ==
    \A c \in Drainers :
        pass[c].step = "awaiting" => Current(c).id \in hist.radioed

IInv == TypeOK /\ LockInv /\ WorkInv /\ CopyInv /\ IdInv /\ SentInv

-----------------------------------------------------------------------------
(***************************************************************************)
(* The table.                                                              *)
(***************************************************************************)
StoreOK(d) ==
    /\ DOMAIN d \subseteq Ids
    /\ \A i \in DOMAIN d : d[i] \in Row /\ d[i].id = i

LEMMA RowsType ==
    ASSUME StoreOK(db)
    PROVE  /\ Rows \in SUBSET Row
           /\ \A r \in Rows : r.id \in DOMAIN db /\ db[r.id] = r
BY DEF StoreOK, Rows

(* An update keeps the stored ids and the messages.                        *)
LEMMA SetStatusType ==
    ASSUME NEW d, StoreOK(d), NEW ids, NEW status \in Statuses
    PROVE  /\ StoreOK(SetStatus(d, ids, status))
           /\ DOMAIN SetStatus(d, ids, status) = DOMAIN d
           /\ \A i \in DOMAIN d : SetStatus(d, ids, status)[i].kind = d[i].kind
<1>1. ASSUME NEW i \in DOMAIN d
      PROVE  /\ SetStatus(d, ids, status)[i] \in Row
             /\ SetStatus(d, ids, status)[i].id = i
             /\ SetStatus(d, ids, status)[i].kind = d[i].kind
  <2>1. d[i] \in Row /\ d[i].id = i
    BY DEF StoreOK
  <2>2. WithStatus(d[i], status) \in Row /\ SameMessage(WithStatus(d[i], status), d[i])
    BY <2>1, WithStatusType
  <2> QED BY <2>1, <2>2 DEF SetStatus, SameMessage
<1>2. DOMAIN SetStatus(d, ids, status) = DOMAIN d
  BY DEF SetStatus
<1> QED BY <1>1, <1>2 DEF StoreOK

LEMMA PutType ==
    ASSUME NEW d, StoreOK(d), NEW r \in Row,
           r.id \in DOMAIN d => d[r.id].kind = r.kind
    PROVE  /\ StoreOK(Put(d, r))
           /\ DOMAIN Put(d, r) = DOMAIN d
           /\ \A i \in DOMAIN d : Put(d, r)[i].kind = d[i].kind
BY DEF StoreOK, Put

LEMMA DeleteType ==
    ASSUME NEW d, StoreOK(d), NEW id
    PROVE  /\ StoreOK(Delete(d, id))
           /\ DOMAIN Delete(d, id) = DOMAIN d \ {id}
           /\ \A i \in DOMAIN d \ {id} : Delete(d, id)[i].kind = d[i].kind
BY DEF StoreOK, Delete

LEMMA InsertType ==
    ASSUME NEW d, StoreOK(d), NEW r \in Row, r.id \in Ids
    PROVE  /\ StoreOK(Insert(d, r))
           /\ DOMAIN Insert(d, r) = DOMAIN d \cup {r.id}
           /\ \A i \in DOMAIN d \ {r.id} : Insert(d, r)[i].kind = d[i].kind
BY DEF StoreOK, Insert

(* The row a pass has in hand is one of those it has to do.                *)
LEMMA CurrentType ==
    ASSUME TypeOK, NEW c \in Drainers, pass[c].todo # {}
    PROVE  Current(c) \in pass[c].todo /\ Current(c) \in Row
<1>1. pass[c].todo \in SUBSET Row
  BY DEF TypeOK, Pass
<1> QED BY <1>1, FirstOfIsFirst DEF Current

LEMMA CurrentInIds ==
    ASSUME IInv, NEW c \in Drainers, pass[c].todo # {}
    PROVE  /\ Current(c).id \in Ids
           /\ CopyOf(Current(c), db, nextId)
<1>1. Current(c) \in pass[c].todo
  BY CurrentType DEF IInv
<1>2. CopyOf(Current(c), db, nextId)
  BY <1>1 DEF IInv, CopyInv
<1>3. nextId \in 1..(MaxRows + 1)
  BY DEF IInv, TypeOK
<1> QED BY <1>2, <1>3, OutboxAssumption DEF CopyOf, Ids

-----------------------------------------------------------------------------
(***************************************************************************)
(* The lock.                                                               *)
(***************************************************************************)
LEMMA EnqueueKeepsHead ==
    ASSUME NEW q \in Seq(Drainers), NEW c \in Drainers, NEW accepted
    PROVE  /\ Enqueue(q, c, accepted) \in Seq(Drainers)
           /\ q # <<>> => /\ Enqueue(q, c, accepted) # <<>>
                          /\ Head(Enqueue(q, c, accepted)) = Head(q)
BY DEF Enqueue

LEMMA ReleaseType ==
    ASSUME NEW q \in Seq(Drainers)
    PROVE  Release(q) \in Seq(Drainers)
<1>1. \A i \in 2..Len(q) : q[i] \in Drainers
  OBVIOUS
<1> QED BY <1>1 DEF Release

(***************************************************************************)
(* Type correctness.                                                       *)
(***************************************************************************)
History == [acked: SUBSET Ids, radioed: SUBSET Ids, cancelled: SUBSET Ids,
            tries: [Ids -> Nat]]

LEMMA InitType == Init => TypeOK
<1> SUFFICES ASSUME Init PROVE TypeOK
  OBVIOUS
<1>1. ASSUME NEW i \in DOMAIN db PROVE db[i] \in Row /\ db[i].id = i /\ i \in Ids
  <2>1. i \in Nat /\ i \in Ids /\ Upgraded[i] \in Kinds
    BY OutboxAssumption DEF Init, Ids
  <2>2. Never \in Time /\ NoIdentity \in Identities \cup {NoIdentity}
    BY DEF Time
  <2>3. NewRow(i, Upgraded[i], NoIdentity, Never, 0) \in Row
    BY <2>1, <2>2, NewRowType
  <2>4. db[i] = NewRow(i, Upgraded[i], NoIdentity, Never, 0)
    BY DEF Init
  <2> QED BY <2>1, <2>3, <2>4 DEF NewRow
<1>2. nextId \in 1..(MaxRows + 1)
  BY OutboxAssumption DEF Init
<1>3. pass \in [Drainers -> Pass]
  BY DEF Init, IdlePass, Pass, Steps
<1>4. panel \in PanelState /\ queueing \in QueueingState
  BY DEF Init, PanelState, FreshPanel, Time, QueueingState, NotQueueing
<1>5. app \in [timer: Time, ask: BOOLEAN] /\ budget \in [faults: Nat, crashes: Nat]
  BY OutboxAssumption DEF Init, FreshApp, Time
<1>6. hist \in History
  <2>1. 0 \in Nat /\ Never \in Time
    BY DEF Time
  <2> QED BY <2>1 DEF Init, History
<1>7. now \in Nat /\ online \in BOOLEAN /\ identity \in Identities \cup {NoIdentity}
  BY DEF Init
<1>8. lock \in Seq(Drainers)
  BY DEF Init
<1> QED BY <1>1, <1>2, <1>3, <1>4, <1>5, <1>6, <1>7, <1>8 DEF TypeOK, History

LEMMA PassType ==
    ASSUME TypeOK, NEW c \in Drainers, NEW p \in Pass, Becomes(c, p)
    PROVE  pass' \in [Drainers -> Pass]
BY DEF TypeOK, Becomes

LEMMA IdlePassType == IdlePass \in Pass
BY DEF IdlePass, Pass, Steps

LEMMA FinishType ==
    ASSUME IInv, NEW c \in Drainers, Holds(c),
           NEW retries \in SUBSET Time, Finish(c, retries)
    PROVE  /\ lock' \in Seq(Drainers)
           /\ pass' \in [Drainers -> Pass]
           /\ panel' \in PanelState
           /\ app' \in [timer: Time, ask: BOOLEAN]
<1>1. EarliestRetry(retries, now) \in Time
  BY EarliestRetryIsEarliest DEF IInv, TypeOK
<1>2. lock' \in Seq(Drainers)
  BY ReleaseType DEF IInv, TypeOK, Finish
<1>3. pass' \in [Drainers -> Pass]
  BY PassType, IdlePassType DEF IInv, Finish
<1>4. CASE c = "panel"
  BY <1>1, <1>2, <1>3, <1>4, ZenonT(120) DEF IInv, TypeOK, Finish, PanelState
<1>5. CASE c # "panel"
  <2>1. pass[c].attempted \in BOOLEAN
    BY DEF IInv, TypeOK, Pass
  <2> QED BY <1>1, <1>2, <1>3, <1>5, <2>1, ZenonT(120) DEF IInv, TypeOK, Finish, PanelState
<1> QED BY <1>4, <1>5

LEMMA FaultType ==
    ASSUME TypeOK, Fault \/ NoFault
    PROVE  budget' \in [faults: Nat, crashes: Nat]
<1>1. budget \in [faults: Nat, crashes: Nat]
  BY DEF TypeOK
<1>2. CASE Fault
  <2>1. budget.faults - 1 \in Nat
    BY <1>1, <1>2 DEF Fault
  <2> QED BY <1>1, <1>2, <2>1 DEF Fault
<1>3. CASE NoFault
  BY <1>1, <1>3 DEF NoFault
<1> QED BY <1>2, <1>3

LEMMA RejectType ==
    ASSUME IInv, NEW c \in Drainers, Holds(c), Reject(c), Fault
    PROVE  TypeOK'
<1>1. lock' \in Seq(Drainers)
  BY ReleaseType DEF IInv, TypeOK, Reject
<1>2. pass' \in [Drainers -> Pass]
  BY PassType, IdlePassType DEF IInv, Reject
<1>3. panel' \in PanelState
  BY DEF IInv, TypeOK, Reject, PanelState
<1>4. budget' \in [faults: Nat, crashes: Nat]
  BY FaultType DEF IInv
<1> QED BY <1>1, <1>2, <1>3, <1>4 DEF IInv, TypeOK, Reject, env, store

LEMMA DrainStepType ==
    ASSUME IInv, NEW c \in Drainers, DrainStep(c)
    PROVE  TypeOK'
<1> USE DEF env, store
<1>a. TypeOK /\ StoreOK(db) /\ pass[c] \in Pass
  BY DEF IInv, TypeOK, StoreOK
<1>1. CASE StartOffline(c)
  <2>1. {} \in SUBSET Time
    OBVIOUS
  <2> QED BY <1>1, <2>1, FinishType DEF StartOffline, IInv, TypeOK
<1>2. CASE List(c)
  <2>1. [pass[c] EXCEPT !.step = "listed", !.rows = Rows] \in Pass
    BY <1>a, RowsType DEF Pass, Steps
  <2>2. CASE Fault /\ Reject(c)
    BY <1>2, <2>2, RejectType DEF List
  <2>3. CASE ~(Fault /\ Reject(c))
    <3>1. pass' \in [Drainers -> Pass]
      BY <1>2, <2>1, <2>3, <1>a, PassType DEF List
    <3> QED BY <1>2, <2>3, <3>1, ZenonT(120) DEF List, NoFault, IInv, TypeOK
  <2> QED BY <2>2, <2>3
<1>3. CASE Recover(c)
  <2>1. CASE Fault /\ Reject(c)
    <3>1. Holds(c)
      BY <1>3 DEF Recover, IInv, LockInv
    <3> QED BY <2>1, <3>1, RejectType
  <2>2. CASE ~(Fault /\ Reject(c))
    <3>1. StoreOK(db')
      BY <1>3, <1>a, <2>2, SetStatusType DEF Recover, Statuses
    <3>2. {Requeued(r) : r \in pass[c].rows} \in SUBSET Row
      BY <1>a, RequeuedType DEF Pass
    <3>3. [pass[c] EXCEPT !.step = "recovered",
                          !.rows = {Requeued(r) : r \in pass[c].rows}] \in Pass
      BY <1>a, <3>2 DEF Pass, Steps
    <3>4. pass' \in [Drainers -> Pass]
      BY <1>3, <1>a, <2>2, <3>3, PassType DEF Recover
    <3> QED BY <1>3, <2>2, <3>1, <3>4 DEF Recover, NoFault, IInv, TypeOK, StoreOK
  <2> QED BY <2>1, <2>2
<1>4. CASE Filter(c)
  <2>1. pass[c].rows \in SUBSET Row
    BY <1>a DEF Pass
  <2>2. RetryTimes(pass[c].rows) \in SUBSET Time
    BY <2>1, RetryTimesType
  <2> DEFINE todo == {r \in pass[c].rows : /\ Eligible(r, now)
                                           /\ MatchesIdentity(r, identity)
                                           /\ c = "app" => AppDrained(r)}
             p == [pass[c] EXCEPT !.step = "picked", !.rows = {},
                       !.retries = RetryTimes(pass[c].rows), !.todo = todo]
  <2>3. todo \in SUBSET Row
    BY <2>1
  <2>4. p \in Pass
    <3> HIDE DEF todo
    <3> QED BY <1>a, <2>2, <2>3 DEF Pass, Steps
  <2>5. Becomes(c, p)
    BY <1>4 DEF Filter
  <2> HIDE DEF p
  <2>6. pass' \in [Drainers -> Pass]
    BY <1>a, <2>4, <2>5, PassType
  <2> QED BY <1>4, <2>6 DEF Filter, IInv, TypeOK
<1>5. CASE End(c)
  <2>1. pass[c].retries \in SUBSET Time
    BY <1>a DEF Pass
  <2>2. Holds(c)
    BY <1>5 DEF End, AtRow, IInv, LockInv
  <2> QED BY <1>5, <2>1, <2>2, FinishType DEF End, IInv, TypeOK
<1>6. CASE Quarantine(c)
  <2>1. StoreOK(db')
    BY <1>6, <1>a, SetStatusType DEF Quarantine, Statuses
  <2>2. [pass[c] EXCEPT !.step = "next", !.attempted = TRUE,
                        !.todo = @ \ {Current(c)}] \in Pass
    BY <1>a DEF Pass, Steps
  <2>3. pass' \in [Drainers -> Pass]
    BY <1>6, <1>a, <2>2, PassType DEF Quarantine
  <2>4. budget' \in [faults: Nat, crashes: Nat]
    BY <1>6, <1>a, FaultType DEF Quarantine
  <2> QED BY <1>6, <2>1, <2>3, <2>4 DEF Quarantine, IInv, TypeOK, StoreOK
<1>7. CASE Pace(c)
  <2>1. [pass[c] EXCEPT !.step = "pacing", !.attempted = TRUE] \in Pass
    BY <1>a DEF Pass, Steps
  <2>2. pass' \in [Drainers -> Pass]
    BY <1>7, <1>a, <2>1, PassType DEF Pace
  <2> QED BY <1>7, <2>2 DEF Pace, IInv, TypeOK
<1>8. CASE Mark(c)
  <2>1. CASE Fault /\ Reject(c)
    <3>1. Holds(c)
      BY <1>8 DEF Mark, AtRow, IInv, LockInv
    <3> QED BY <2>1, <3>1, RejectType
  <2>2. CASE ~(Fault /\ Reject(c))
    <3>1. StoreOK(db')
      BY <1>8, <1>a, <2>2, SetStatusType DEF Mark, Statuses
    <3>2. [pass[c] EXCEPT !.step = "marking", !.attempted = TRUE] \in Pass
      BY <1>a DEF Pass, Steps
    <3>3. pass' \in [Drainers -> Pass]
      BY <1>8, <1>a, <2>2, <3>2, PassType DEF Mark
    <3> QED BY <1>8, <2>2, <3>1, <3>3 DEF Mark, NoFault, IInv, TypeOK, StoreOK
  <2> QED BY <2>1, <2>2
<1>9. CASE Call(c)
  <2>1. Current(c).id \in Ids
    BY <1>9, <1>a, CurrentInIds DEF Call, IInv, WorkInv
  <2>2. [pass[c] EXCEPT !.step = "calling"] \in Pass
    BY <1>a DEF Pass, Steps
  <2>3. pass' \in [Drainers -> Pass]
    BY <1>9, <1>a, <2>2, PassType DEF Call
  <2>4. hist' \in History
    <3>1. hist \in History
      BY <1>a DEF TypeOK, History
    <3>2. \A n \in Nat : n + 1 \in Nat
      OBVIOUS
    <3> DEFINE t == [hist.tries EXCEPT ![Current(c).id] =
                        IF AppManaged(Current(c)) THEN 0 ELSE @ + 1]
    <3>3. t \in [Ids -> Nat]
      BY <2>1, <3>1, <3>2 DEF History
    <3>4. hist' = [hist EXCEPT !.tries = t]
      BY <1>9, <3>1 DEF Call, History
    <3> HIDE DEF t
    <3> QED BY <3>1, <3>3, <3>4 DEF History
  <2> QED BY <1>9, <2>3, <2>4 DEF Call, IInv, TypeOK, History
<1> QED BY <1>1, <1>2, <1>3, <1>4, <1>5, <1>6, <1>7, <1>8, <1>9 DEF DrainStep

LEMMA RowDoneType ==
    ASSUME TypeOK, NEW c \in Drainers, NEW retries \in SUBSET Time,
           RowDone(c, retries)
    PROVE  pass' \in [Drainers -> Pass]
<1>1. pass[c] \in Pass
  BY DEF TypeOK
<1>2. [pass[c] EXCEPT !.step = "next", !.retries = @ \cup retries,
                      !.todo = @ \ {Current(c)}, !.aborted = FALSE] \in Pass
  BY <1>1 DEF Pass, Steps
<1> QED BY <1>2, PassType DEF RowDone

(* What a pass writes when its send is over keeps the stored ids, but for  *)
(* the row it removes, and the messages.                                   *)
LEMMA FinalizeStore ==
    ASSUME IInv, NEW c \in Drainers, pass[c].todo # {}, Finalize(c)
    PROVE  /\ StoreOK(db')
           /\ DOMAIN db \ {Current(c).id} \subseteq DOMAIN db'
           /\ DOMAIN db' \subseteq DOMAIN db
           /\ \A i \in DOMAIN db' : db'[i].kind = db[i].kind
           /\ budget' \in [faults: Nat, crashes: Nat]
           /\ RowDone(c, {})
<1> DEFINE r == Current(c)
           blocked == [WithStatus(r, "blocked") EXCEPT !.attempts = Bump(@)]
<1>1. r \in Row /\ CopyOf(r, db, nextId) /\ TypeOK /\ StoreOK(db)
  BY CurrentType, CurrentInIds DEF IInv, TypeOK, StoreOK
<1>2. blocked \in Row /\ SameMessage(blocked, r)
  <2>1. WithStatus(r, "blocked") \in Row /\ SameMessage(WithStatus(r, "blocked"), r)
    BY <1>1, WithStatusType DEF Statuses
  <2>2. Bump(WithStatus(r, "blocked").attempts) \in Nat
    BY <2>1, BumpIsPositive DEF Row
  <2> QED BY <2>1, <2>2 DEF Row, SameMessage
<1>3. r.id \in DOMAIN db => db[r.id].kind = blocked.kind /\ blocked.id = r.id
  BY <1>1, <1>2 DEF CopyOf, SameMessage
<1>4. \/ NoFault /\ db' = Delete(db, r.id)
      \/ Fault /\ db' = Put(db, blocked)
      \/ /\ budget.faults > 1
         /\ budget' = [budget EXCEPT !.faults = @ - 2]
         /\ UNCHANGED db
  BY DEF Finalize
<1>5. RowDone(c, {})
  BY DEF Finalize
<1> HIDE DEF r, blocked
<1>6. CASE NoFault /\ db' = Delete(db, r.id)
  <2>1. budget' \in [faults: Nat, crashes: Nat]
    BY <1>1, <1>6, FaultType
  <2>2. /\ StoreOK(db') /\ DOMAIN db' = DOMAIN db \ {Current(c).id}
        /\ \A i \in DOMAIN db \ {Current(c).id} : db'[i].kind = db[i].kind
    BY <1>1, <1>6, DeleteType DEF r
  <2> QED BY <1>5, <2>1, <2>2
<1>7. CASE Fault /\ db' = Put(db, blocked)
  <2>1. blocked.id \in DOMAIN db => db[blocked.id].kind = blocked.kind
    BY <1>1, <1>2 DEF CopyOf, SameMessage
  <2> QED BY <1>1, <1>2, <1>5, <1>7, <2>1, PutType, FaultType
<1>8. CASE /\ budget.faults > 1
           /\ budget' = [budget EXCEPT !.faults = @ - 2]
           /\ UNCHANGED db
  <2>1. budget \in [faults: Nat, crashes: Nat]
    BY <1>1 DEF TypeOK
  <2>2. budget.faults - 2 \in Nat
    BY <1>8, <2>1
  <2> QED BY <1>1, <1>5, <1>8, <2>1, <2>2
<1> QED BY <1>4, <1>6, <1>7, <1>8

LEMMA RecordFailureStore ==
    ASSUME IInv, NEW c \in Drainers, pass[c].todo # {},
           NEW b \in BOOLEAN, RecordFailure(c, b)
    PROVE  /\ StoreOK(db')
           /\ DOMAIN db' = DOMAIN db
           /\ \A i \in DOMAIN db' : db'[i].kind = db[i].kind
           /\ budget' \in [faults: Nat, crashes: Nat]
           /\ \E retries \in SUBSET Time : RowDone(c, retries)
<1> DEFINE r == Failed(Current(c), b, now)
<1>1. /\ Current(c) \in Row /\ CopyOf(Current(c), db, nextId)
      /\ TypeOK /\ StoreOK(db) /\ now \in Nat
  BY CurrentType, CurrentInIds DEF IInv, TypeOK, StoreOK
<1>2. r \in Row /\ SameMessage(r, Current(c))
  BY <1>1, FailedType
<1>3. \/ NoFault /\ db' = Put(db, r)
      \/ Fault /\ UNCHANGED db
  BY DEF RecordFailure
<1>4. RowDone(c, RetryTimes({r}))
  BY DEF RecordFailure
<1> HIDE DEF r
<1>5. RetryTimes({r}) \in SUBSET Time
  BY <1>2, RetryTimesType
<1>6. r.id \in DOMAIN db => db[r.id].kind = r.kind
  BY <1>1, <1>2 DEF CopyOf, SameMessage
<1>7. CASE NoFault /\ db' = Put(db, r)
  BY <1>1, <1>2, <1>4, <1>5, <1>6, <1>7, PutType, FaultType
<1>8. CASE Fault /\ UNCHANGED db
  BY <1>1, <1>4, <1>5, <1>8, FaultType
<1> QED BY <1>3, <1>7, <1>8

(* The outcomes of a send, as far as the table and the pass are concerned. *)
LEMMA OutcomeStore ==
    ASSUME IInv, NEW c \in Drainers, Resolve(c) \/ AckArrives(c) \/ Fails(c)
    PROVE  /\ StoreOK(db')
           /\ DOMAIN db \ {Current(c).id} \subseteq DOMAIN db'
           /\ DOMAIN db' \subseteq DOMAIN db
           /\ \A i \in DOMAIN db' : db'[i].kind = db[i].kind
           /\ budget' \in [faults: Nat, crashes: Nat]
           /\ \E retries \in SUBSET Time : RowDone(c, retries)
<1>1. pass[c].todo # {}
  BY DEF Resolve, AckArrives, Fails, InFlight, IInv, WorkInv
<1>2. CASE Finalize(c)
  BY <1>1, <1>2, FinalizeStore
<1>3. CASE Abandon(c)
  BY <1>3 DEF Abandon, IInv, TypeOK, StoreOK
<1>4. CASE \E b \in BOOLEAN : RecordFailure(c, b)
  BY <1>1, <1>4, RecordFailureStore
<1> QED BY <1>2, <1>3, <1>4 DEF Resolve, AckArrives, Fails

LEMMA OutcomeType ==
    ASSUME IInv, NEW c \in Drainers, Outcome(c)
    PROVE  TypeOK'
<1> USE DEF env
<1>a. TypeOK /\ hist \in History /\ pass[c] \in Pass
  BY DEF IInv, TypeOK, History
<1>1. CASE Accept(c)
  <2>1. Current(c).id \in Ids
    BY <1>1, CurrentInIds DEF Accept, IInv, WorkInv
  <2>2. [pass[c] EXCEPT !.step = "awaiting"] \in Pass
    BY <1>a DEF Pass, Steps
  <2>3. pass' \in [Drainers -> Pass]
    BY <1>1, <1>a, <2>2, PassType DEF Accept
  <2>4. hist' \in History
    BY <1>1, <1>a, <2>1 DEF Accept, History
  <2> QED BY <1>1, <1>a, <2>3, <2>4 DEF Accept, Settled, TypeOK, History
<1>2. CASE Resolve(c) \/ AckArrives(c) \/ Fails(c)
  <2>1. pass[c].todo # {}
    BY <1>2 DEF Resolve, AckArrives, Fails, InFlight, IInv, WorkInv
  <2>2. Current(c).id \in Ids
    BY <2>1, CurrentInIds
  <2>3. hist' \in History
    BY <1>2, <1>a, <2>2 DEF Resolve, AckArrives, Fails, History
  <2>4. pass' \in [Drainers -> Pass]
    BY <1>2, <1>a, OutcomeStore, RowDoneType
  <2>5. StoreOK(db') /\ budget' \in [faults: Nat, crashes: Nat]
    BY <1>2, OutcomeStore
  <2>6. Settled(c)
    BY <1>2 DEF Resolve, AckArrives, Fails
  <2> QED BY <1>a, <2>3, <2>4, <2>5, <2>6 DEF Settled, TypeOK, History, StoreOK
<1> QED BY <1>1, <1>2 DEF Outcome

LEMMA TimerType ==
    ASSUME TypeOK
    PROVE  EarliestRetry(RetryTimes(Rows), now) \in Time
<1>1. Rows \in SUBSET Row
  BY RowsType DEF TypeOK, StoreOK
<1>2. RetryTimes(Rows) \in SUBSET Time /\ now \in Nat
  BY <1>1, RetryTimesType DEF TypeOK
<1> QED BY <1>2, EarliestRetryIsEarliest

(* Asking for a drain only appends to the promise chain.                   *)
Appended == /\ lock' \in Seq(Drainers)
            /\ lock # <<>> => lock' # <<>> /\ Head(lock') = Head(lock)

LEMMA AskBothType ==
    ASSUME TypeOK, NEW available \in BOOLEAN, AskBoth(available)
    PROVE  Appended /\ panel' \in PanelState
<1>1. "panel" \in Drainers /\ "app" \in Drainers /\ lock \in Seq(Drainers)
  BY DEF Drainers, TypeOK
<1> DEFINE q == Enqueue(lock, "panel", PanelAccepts(panel, available))
<1>2. q \in Seq(Drainers) /\ (lock # <<>> => q # <<>> /\ Head(q) = Head(lock))
  BY <1>1, EnqueueKeepsHead
<1>3. lock' = Enqueue(q, "app", available)
  BY DEF AskBoth
<1> HIDE DEF q
<1>4. Appended
  BY <1>1, <1>2, <1>3, EnqueueKeepsHead DEF Appended
<1>5. panel' \in PanelState
  BY DEF AskBoth, AskPanel, PanelAccepts, TypeOK, PanelState
<1> QED BY <1>4, <1>5

LEMMA PanelDrainsType ==
    ASSUME TypeOK, NEW p \in PanelState, PanelDrains(p)
    PROVE  Appended /\ panel' \in PanelState
<1>1. "panel" \in Drainers /\ lock \in Seq(Drainers) /\ online \in BOOLEAN
  BY DEF Drainers, TypeOK
<1>2. Appended
  BY <1>1, EnqueueKeepsHead DEF PanelDrains, Appended
<1>3. panel' \in PanelState
  BY <1>1 DEF PanelDrains, AskPanel, PanelAccepts, PanelState
<1> QED BY <1>2, <1>3

(* A step that is not a drain's leaves the passes alone and only appends   *)
(* to the chain.                                                           *)
LEMMA TriggerType ==
    ASSUME IInv, Trigger
    PROVE  TypeOK' /\ Appended
<1> USE DEF env, store
<1>a. TypeOK /\ StoreOK(db) /\ lock \in Seq(Drainers) /\ online \in BOOLEAN
      /\ panel \in PanelState /\ Never \in Time
  BY DEF IInv, TypeOK, StoreOK, Time
<1>b. lock' = lock => Appended
  BY <1>a DEF Appended
<1>c. Appended => lock' \in Seq(Drainers)
  BY DEF Appended
<1>1. CASE ExternalDrain
  BY <1>a, <1>c, <1>1, AskBothType DEF ExternalDrain, TypeOK
<1>2. CASE PanelTimer
  <2>1. [panel EXCEPT !.timer = Never] \in PanelState
    BY <1>a DEF PanelState
  <2> QED BY <1>a, <1>c, <1>2, <2>1, PanelDrainsType DEF PanelTimer, TypeOK
<1>3. CASE PanelSoon
  <2>1. [panel EXCEPT !.soon = FALSE] \in PanelState
    BY <1>a DEF PanelState
  <2> QED BY <1>a, <1>c, <1>3, <2>1, PanelDrainsType DEF PanelSoon, TypeOK
<1>4. CASE PanelReload
  <2>1. panel' \in PanelState
    BY <1>4, <1>a, TimerType DEF PanelReload, PanelState
  <2> QED BY <1>a, <1>b, <1>4, <2>1 DEF PanelReload, TypeOK
<1>5. CASE AppTimer
  <2>1. "app" \in Drainers
    BY DEF Drainers
  <2>2. Appended
    BY <1>5, <1>a, <2>1, EnqueueKeepsHead DEF AppTimer, Appended
  <2>3. app' \in [timer: Time, ask: BOOLEAN]
    BY <1>5, <1>a DEF AppTimer, TypeOK
  <2> QED BY <1>a, <1>c, <1>5, <2>2, <2>3 DEF AppTimer, TypeOK
<1>6. CASE AppAsks
  <2>1. app' \in [timer: Time, ask: BOOLEAN]
    BY <1>6, <1>a DEF AppAsks, TypeOK
  <2>2. AskBoth(online)
    BY <1>6 DEF AppAsks
  <2> QED BY <1>a, <1>c, <1>6, <2>1, <2>2, AskBothType DEF AppAsks, TypeOK
<1>7. CASE CapList
  <2>1. budget' \in [faults: Nat, crashes: Nat]
    BY <1>7, <1>a, FaultType DEF CapList
  <2>2. queueing' \in QueueingState
    <3> DEFINE victims == CapVictims(Rows, queueing.row)
    <3>1. \A v \in Rows : v.id \in Ids
      BY <1>a, RowsType DEF StoreOK
    <3>2. Rows \in SUBSET Row /\ victims \in SUBSET Row /\ victims \in SUBSET Rows
      BY <1>a, RowsType DEF CapVictims, CapCounted
    <3>3. victims # {} => FirstOf(victims) \in victims
      BY <3>2, FirstOfIsFirst
    <3>4. victims # {} => FirstOf(victims).id \in Ids
      BY <3>1, <3>2, <3>3
    <3> HIDE DEF victims
    <3>5. ASSUME NEW v \in SUBSET Ids
          PROVE  [queueing EXCEPT !.step = "listed", !.victim = v] \in QueueingState
      BY <1>a DEF TypeOK, QueueingState
    <3>6. [queueing EXCEPT !.step = "capped"] \in QueueingState
      BY <1>a DEF TypeOK, QueueingState
    <3>7. \/ queueing' = [queueing EXCEPT !.step = "capped"]
          \/ \E big \in BOOLEAN :
                queueing' = [queueing EXCEPT !.step = "listed", !.victim =
                    IF big /\ victims # {} THEN {FirstOf(victims).id} ELSE {}]
      BY <1>7 DEF CapList, victims
    <3> QED BY <3>4, <3>5, <3>6, <3>7
  <2> QED BY <1>a, <1>b, <1>7, <2>1, <2>2 DEF CapList, TypeOK
<1>8. CASE CapBlock
  <2>1. budget' \in [faults: Nat, crashes: Nat]
    BY <1>8, <1>a, FaultType DEF CapBlock
  <2>2. StoreOK(db')
    BY <1>8, <1>a, SetStatusType DEF CapBlock, Statuses
  <2>3. queueing' \in QueueingState
    BY <1>8, <1>a DEF CapBlock, TypeOK, QueueingState
  <2> QED BY <1>a, <1>b, <1>8, <2>1, <2>2, <2>3 DEF CapBlock, TypeOK, StoreOK
<1>9. CASE QueueDone
  <2>1. panel' \in PanelState
    BY <1>9, <1>a, TimerType DEF QueueDone, PanelState
  <2>2. queueing' \in QueueingState
    BY <1>9 DEF QueueDone, NotQueueing, QueueingState
  <2> QED BY <1>a, <1>b, <1>9, <2>1, <2>2 DEF QueueDone, TypeOK
<1>10. CASE MountReset
  <2>1. budget' \in [faults: Nat, crashes: Nat]
    BY <1>10, <1>a, FaultType DEF MountReset
  <2>2. StoreOK(db')
    BY <1>10, <1>a, SetStatusType DEF MountReset, Statuses
  <2>3. panel' \in PanelState
    BY <1>10, <1>a DEF MountReset, PanelState
  <2> QED BY <1>a, <1>b, <1>10, <2>1, <2>2, <2>3 DEF MountReset, TypeOK, StoreOK
<1> QED BY <1>1, <1>2, <1>3, <1>4, <1>5, <1>6, <1>7, <1>8, <1>9, <1>10 DEF Trigger

LEMMA AddRowType ==
    ASSUME TypeOK, NEW kind \in Kinds, NEW at \in Time, AddRow(kind, at)
    PROVE  /\ StoreOK(db')
           /\ DOMAIN db' = DOMAIN db \cup {nextId}
           /\ \A i \in DOMAIN db \ {nextId} : db'[i].kind = db[i].kind
           /\ nextId \in Ids /\ nextId' = nextId + 1 /\ nextId' \in 1..(MaxRows + 1)
<1>1. /\ StoreOK(db) /\ now \in Nat /\ identity \in Identities \cup {NoIdentity}
      /\ nextId \in 1..(MaxRows + 1)
  BY DEF TypeOK, StoreOK
<1>2. nextId \in Ids /\ nextId \in Nat /\ nextId + 1 \in 1..(MaxRows + 1)
  BY <1>1, OutboxAssumption DEF AddRow, Ids
<1>3. NewRow(nextId, kind, identity, at, now) \in Row
  BY <1>1, <1>2, NewRowType
<1>4. NewRow(nextId, kind, identity, at, now).id = nextId
  BY DEF NewRow
<1> QED BY <1>1, <1>2, <1>3, <1>4, InsertType DEF AddRow

LEMMA UserType ==
    ASSUME IInv, User
    PROVE  TypeOK' /\ Appended
<1> USE DEF env, store
<1>a. TypeOK /\ StoreOK(db) /\ lock \in Seq(Drainers) /\ online \in BOOLEAN
      /\ panel \in PanelState /\ Never \in Time /\ hist \in History
  BY DEF IInv, TypeOK, StoreOK, Time, History
<1>b. lock' = lock => Appended
  BY <1>a DEF Appended
<1>1. ASSUME NEW kind \in PanelKinds, Queue(kind) PROVE TypeOK' /\ Appended
  <2>1. kind \in Kinds
    BY OutboxAssumption
  <2>2. hist' = hist /\ \E at \in Time : AddRow(kind, at)
    <3>1. \A t \in (now + 1)..MaxTime : t \in Time
      BY <1>a DEF TypeOK, Time
    <3> QED BY <1>1, <1>a, <3>1 DEF Queue
  <2>3. StoreOK(db') /\ nextId \in Ids /\ nextId' \in 1..(MaxRows + 1)
    BY <1>a, <2>1, <2>2, AddRowType
  <2>4. hist' \in History
    BY <1>a, <2>2
  <2>5. queueing' \in QueueingState
    <3>1. nextId \in Nat /\ (kind \in {"mayday", "report"}) \in BOOLEAN
      BY <2>3, OutboxAssumption DEF Ids
    <3>2. queueing \in QueueingState
      BY <1>a DEF TypeOK
    <3> QED BY <1>1, <3>1, <3>2 DEF Queue, QueueingState
  <2> QED BY <1>1, <1>a, <1>b, <2>3, <2>4, <2>5 DEF Queue, TypeOK, StoreOK, History
<1>2. ASSUME NEW kind \in AppKinds, AppQueue(kind) PROVE TypeOK' /\ Appended
  <2>1. kind \in Kinds
    BY OutboxAssumption
  <2>2. StoreOK(db') /\ nextId' \in 1..(MaxRows + 1)
    BY <1>2, <1>a, <2>1, AddRowType DEF AppQueue
  <2>3. app' \in [timer: Time, ask: BOOLEAN]
    BY <1>2, <1>a DEF AppQueue, TypeOK
  <2> QED BY <1>2, <1>a, <1>b, <2>2, <2>3 DEF AppQueue, TypeOK, StoreOK
<1>3. ASSUME NEW id \in Ids, Retry(id) PROVE TypeOK' /\ Appended
  <2>1. budget' \in [faults: Nat, crashes: Nat]
    BY <1>3, <1>a, FaultType DEF Retry
  <2>2. StoreOK(db')
    <3> DEFINE r == [WithStatus(db[id], "queued") EXCEPT !.attempts = 0]
    <3>1. id \in DOMAIN db /\ db[id] \in Row /\ db[id].id = id
      BY <1>3, <1>a DEF Retry, StoreOK
    <3>2. r \in Row /\ SameMessage(r, db[id])
      BY <3>1, WithStatusType DEF Statuses, Row, SameMessage
    <3>3. db' = Put(db, r) \/ db' = db
      BY <1>3 DEF Retry
    <3> HIDE DEF r
    <3>4. r.id \in DOMAIN db => db[r.id].kind = r.kind
      BY <3>1, <3>2 DEF SameMessage
    <3> QED BY <1>a, <3>2, <3>3, <3>4, PutType
  <2>3. panel' \in PanelState /\ hist' \in History
    <3>1. [panel EXCEPT !.soon = TRUE] \in PanelState
      BY <1>a DEF PanelState
    <3>2. [hist.tries EXCEPT ![id] = 0] \in [Ids -> Nat]
      BY <1>a DEF History
    <3>3. [hist EXCEPT !.tries[id] = 0] \in History
      BY <1>a, <3>2 DEF History
    <3> QED BY <1>3, <1>a, <3>1, <3>3 DEF Retry
  <2> QED BY <1>3, <1>a, <1>b, <2>1, <2>2, <2>3 DEF Retry, TypeOK, StoreOK, History
<1>4. ASSUME NEW id \in Ids, Cancel(id) PROVE TypeOK' /\ Appended
  <2>1. budget' \in [faults: Nat, crashes: Nat]
    BY <1>4, <1>a, FaultType DEF Cancel
  <2>2. StoreOK(db') /\ hist' \in History
    <3>1. [hist EXCEPT !.cancelled = @ \cup {id}] \in History
      BY <1>a DEF History
    <3>2. StoreOK(Delete(db, id))
      BY <1>a, DeleteType
    <3>3. \/ db' = Delete(db, id) /\ hist' = [hist EXCEPT !.cancelled = @ \cup {id}]
          \/ db' = db /\ hist' = hist
      BY <1>4 DEF Cancel
    <3> QED BY <1>a, <3>1, <3>2, <3>3
  <2>3. ASSUME NEW c \in Drainers PROVE Cancelled(pass[c], id) \in Pass
    <3>1. pass[c] \in Pass
      BY <1>a DEF TypeOK
    <3>2. /\ [pass[c] EXCEPT !.step = "next", !.todo = {s \in @ : s.id # id}] \in Pass
          /\ [pass[c] EXCEPT !.aborted = TRUE] \in Pass
      BY <3>1 DEF Pass, Steps
    <3> QED BY <3>1, <3>2 DEF Cancelled
  <2>4. pass' \in [Drainers -> Pass]
    BY <1>4, <2>3 DEF Cancel
  <2> QED BY <1>4, <1>a, <1>b, <2>1, <2>2, <2>4 DEF Cancel, TypeOK, StoreOK, History
<1>5. CASE Mount
  <2>1. "panel" \in Drainers
    BY DEF Drainers
  <2>2. Appended
    BY <1>5, <1>a, <2>1, EnqueueKeepsHead DEF Mount, Appended
  <2>3. {i \in DOMAIN db : db[i].status = "sending"} \in SUBSET Ids
    BY <1>a DEF StoreOK
  <2>4. panel' \in PanelState
    BY <1>5, <1>a, <2>3 DEF Mount, FreshPanel, PanelState
  <2> QED BY <1>5, <1>a, <2>2, <2>4 DEF Mount, TypeOK, Appended
<1>6. CASE Unmount
  <2>1. panel' \in PanelState
    BY <1>6, <1>a DEF Unmount, FreshPanel, PanelState
  <2> QED BY <1>6, <1>a, <1>b, <2>1 DEF Unmount, TypeOK
<1> QED BY <1>1, <1>2, <1>3, <1>4, <1>5, <1>6 DEF User

LEMMA WorldType ==
    ASSUME IInv, World
    PROVE  TypeOK' /\ (Crash \/ Appended)
<1> USE DEF env, store
<1>a. TypeOK /\ lock \in Seq(Drainers) /\ online \in BOOLEAN /\ Never \in Time
  BY DEF IInv, TypeOK, Time
<1>b. lock' = lock => Appended
  BY <1>a DEF Appended
<1>1. CASE GoOnline
  BY <1>1, <1>a, AskBothType DEF GoOnline, TypeOK, Appended
<1>2. CASE GoOffline
  BY <1>2, <1>a, <1>b DEF GoOffline, TypeOK
<1>3. CASE Tick
  <2>1. now' \in Nat
    BY <1>3, <1>a DEF Tick, TypeOK
  <2> QED BY <1>3, <1>a, <1>b, <2>1 DEF Tick, TypeOK
<1>4. CASE Crash
  <2>1. budget' \in [faults: Nat, crashes: Nat]
    <3>1. budget \in [faults: Nat, crashes: Nat]
      BY <1>a DEF TypeOK
    <3>2. budget.crashes - 1 \in Nat
      BY <1>4, <3>1 DEF Crash
    <3> QED BY <1>4, <3>1, <3>2 DEF Crash
  <2>2. pass' \in [Drainers -> Pass] /\ panel' \in PanelState
    BY <1>4, <1>a, IdlePassType DEF Crash, FreshPanel, PanelState
  <2>3. queueing' \in QueueingState /\ app' \in [timer: Time, ask: BOOLEAN]
    BY <1>4, <1>a DEF Crash, NotQueueing, QueueingState, FreshApp
  <2>4. lock' \in Seq(Drainers)
    BY <1>4 DEF Crash
  <2> QED BY <1>4, <1>a, <2>1, <2>2, <2>3, <2>4 DEF Crash, TypeOK
<1>5. ASSUME NEW i \in Identities, SwitchIdentity(i)
      PROVE  TypeOK' /\ Appended
  <2>1. AskBoth(online)
    BY <1>5 DEF SwitchIdentity
  <2> QED BY <1>5, <1>a, <2>1, AskBothType DEF SwitchIdentity, TypeOK, Appended
<1> QED BY <1>1, <1>2, <1>3, <1>4, <1>5 DEF World

LEMMA StepType ==
    ASSUME IInv, Next
    PROVE  TypeOK'
BY DrainStepType, OutcomeType, TriggerType, UserType, WorldType DEF Next

-----------------------------------------------------------------------------
(***************************************************************************)
(* What a step of a drain does to the rest of the invariant: it is taken   *)
(* by the holder of the chain, it leaves the ids and messages of the table *)
(* as they are but for rows it removes, and its next pass is sound.        *)
(***************************************************************************)
TableShrinks ==
    /\ nextId' = nextId
    /\ DOMAIN db' \subseteq DOMAIN db
    /\ \A i \in DOMAIN db' : db'[i].kind = db[i].kind

SoundPass(p) ==
    /\ p.step \in {"pacing", "marking", "calling", "awaiting"} => p.todo # {}
    /\ \A r \in p.rows \cup p.todo : CopyOf(r, db, nextId)
    /\ p.step = "awaiting" => FirstOf(p.todo).id \in hist'.radioed

DrainFrame(c) ==
    /\ Holds(c)
    /\ TableShrinks
    /\ hist'.cancelled = hist.cancelled /\ hist.radioed \subseteq hist'.radioed
    /\ \/ Becomes(c, IdlePass) /\ lock' = Release(lock)
       \/ lock' = lock /\ \E p : Becomes(c, p) /\ SoundPass(p)

LEMMA DrainStepFrame ==
    ASSUME IInv, NEW c \in Drainers, DrainStep(c)
    PROVE  DrainFrame(c)
<1> USE DEF env, store
<1>a. /\ TypeOK /\ StoreOK(db) /\ pass[c] \in Pass /\ hist \in History
      /\ pass[c].todo # {} => Current(c) \in pass[c].todo
      /\ \A r \in pass[c].rows \cup pass[c].todo : CopyOf(r, db, nextId)
      /\ pass[c].step \in {"pacing", "marking", "calling", "awaiting"}
            => pass[c].todo # {}
  BY CurrentType DEF IInv, TypeOK, StoreOK, History, CopyInv, WorkInv
<1>b. Holds(c)
  BY DEF DrainStep, StartOffline, List, Recover, Filter, End, Quarantine, Pace, Mark,
         Call, AtRow, IInv, LockInv
<1>c. db' = db /\ nextId' = nextId => TableShrinks
  BY DEF TableShrinks
<1>d. hist' = hist => hist'.cancelled = hist.cancelled /\ hist.radioed \subseteq hist'.radioed
  OBVIOUS
<1>e. ASSUME Reject(c) PROVE DrainFrame(c)
  BY <1>b, <1>c, <1>d, <1>e DEF Reject, DrainFrame
<1>f. ASSUME NEW ids, NEW status \in Statuses, db' = SetStatus(db, ids, status),
             nextId' = nextId
      PROVE  TableShrinks
  BY <1>a, <1>f, SetStatusType DEF TableShrinks
<1>1. CASE StartOffline(c) \/ End(c)
  BY <1>1, <1>b, <1>c, <1>d DEF StartOffline, End, Finish, DrainFrame
<1>2. CASE List(c) /\ ~Reject(c)
  <2> DEFINE p == [pass[c] EXCEPT !.step = "listed", !.rows = Rows]
  <2>1. \A r \in Rows : CopyOf(r, db, nextId)
    BY <1>a, RowsType DEF CopyOf, IInv, IdInv
  <2>2. p.step = "listed" /\ p.rows = Rows /\ p.todo = pass[c].todo
    BY <1>a DEF Pass
  <2>3. SoundPass(p)
    BY <1>a, <2>1, <2>2 DEF SoundPass
  <2> QED BY <1>2, <1>b, <1>c, <1>d, <2>3 DEF List, DrainFrame
<1>3. CASE Recover(c) /\ ~Reject(c)
  <2> DEFINE p == [pass[c] EXCEPT !.step = "recovered",
                                  !.rows = {Requeued(r) : r \in pass[c].rows}]
  <2>1. \A r \in pass[c].rows : CopyOf(Requeued(r), db, nextId)
    BY <1>a, RequeuedType DEF CopyOf, SameMessage, Pass
  <2>2. /\ p.step = "recovered" /\ p.rows = {Requeued(r) : r \in pass[c].rows}
        /\ p.todo = pass[c].todo
    BY <1>a DEF Pass
  <2>3. SoundPass(p)
    BY <1>a, <2>1, <2>2 DEF SoundPass
  <2>4. "queued" \in Statuses
    BY DEF Statuses
  <2> QED BY <1>3, <1>b, <1>d, <1>f, <2>3, <2>4 DEF Recover, DrainFrame
<1>4. CASE Filter(c)
  <2> DEFINE todo == {r \in pass[c].rows : /\ Eligible(r, now)
                                           /\ MatchesIdentity(r, identity)
                                           /\ c = "app" => AppDrained(r)}
             p == [pass[c] EXCEPT !.step = "picked", !.rows = {},
                       !.retries = RetryTimes(pass[c].rows), !.todo = todo]
  <2>1. p.step = "picked" /\ p.rows = {} /\ p.todo = todo /\ todo \subseteq pass[c].rows
    BY <1>a DEF Pass
  <2>2. Becomes(c, p)
    BY <1>4 DEF Filter
  <2> HIDE DEF p, todo
  <2>3. SoundPass(p)
    BY <1>a, <2>1 DEF SoundPass
  <2> QED BY <1>4, <1>b, <1>c, <1>d, <2>2, <2>3 DEF Filter, DrainFrame
<1>5. CASE Quarantine(c)
  <2> DEFINE p == [pass[c] EXCEPT !.step = "next", !.attempted = TRUE,
                                  !.todo = @ \ {Current(c)}]
  <2>1. p.step = "next" /\ p.rows = pass[c].rows /\ p.todo \subseteq pass[c].todo
    BY <1>a DEF Pass
  <2>2. SoundPass(p)
    BY <1>a, <2>1 DEF SoundPass
  <2>3. TableShrinks
    <3>1. "blocked" \in Statuses
      BY DEF Statuses
    <3> QED BY <1>5, <1>c, <1>f, <3>1 DEF Quarantine
  <2> QED BY <1>5, <1>b, <1>d, <2>2, <2>3 DEF Quarantine, DrainFrame
<1>6. CASE Pace(c)
  <2> DEFINE p == [pass[c] EXCEPT !.step = "pacing", !.attempted = TRUE]
  <2>1. p.step = "pacing" /\ p.rows = pass[c].rows /\ p.todo = pass[c].todo
    BY <1>a DEF Pass
  <2>2. pass[c].todo # {}
    BY <1>6 DEF Pace, MayGoOn
  <2>3. SoundPass(p)
    BY <1>a, <2>1, <2>2 DEF SoundPass
  <2> QED BY <1>6, <1>b, <1>c, <1>d, <2>3 DEF Pace, DrainFrame
<1>7. CASE Mark(c) /\ ~Reject(c)
  <2> DEFINE p == [pass[c] EXCEPT !.step = "marking", !.attempted = TRUE]
  <2>1. p.step = "marking" /\ p.rows = pass[c].rows /\ p.todo = pass[c].todo
    BY <1>a DEF Pass
  <2>2. pass[c].todo # {}
    BY <1>7, <1>a DEF Mark, MayGoOn
  <2>3. SoundPass(p)
    BY <1>a, <2>1, <2>2 DEF SoundPass
  <2>4. "sending" \in Statuses
    BY DEF Statuses
  <2> QED BY <1>7, <1>b, <1>d, <1>f, <2>3, <2>4 DEF Mark, DrainFrame
<1>8. CASE Call(c)
  <2> DEFINE p == [pass[c] EXCEPT !.step = "calling"]
  <2>1. p.step = "calling" /\ p.rows = pass[c].rows /\ p.todo = pass[c].todo
    BY <1>a DEF Pass
  <2>2. SoundPass(p)
    BY <1>8, <1>a, <2>1 DEF SoundPass, Call
  <2>3. hist'.cancelled = hist.cancelled /\ hist.radioed \subseteq hist'.radioed
    BY <1>8, <1>a DEF Call, History
  <2> QED BY <1>8, <1>b, <1>c, <2>2, <2>3 DEF Call, DrainFrame
<1> QED BY <1>e, <1>1, <1>2, <1>3, <1>4, <1>5, <1>6, <1>7, <1>8 DEF DrainStep

LEMMA OutcomeFrame ==
    ASSUME IInv, NEW c \in Drainers, Outcome(c)
    PROVE  DrainFrame(c)
<1>a. /\ TypeOK /\ pass[c] \in Pass /\ hist \in History
      /\ \A r \in pass[c].rows \cup pass[c].todo : CopyOf(r, db, nextId)
      /\ pass[c].step \in {"pacing", "marking", "calling", "awaiting"}
            => pass[c].todo # {}
  BY DEF IInv, TypeOK, History, CopyInv, WorkInv
<1>b. Holds(c)
  BY DEF Outcome, Accept, Resolve, AckArrives, Fails, InFlight, IInv, LockInv
<1>1. CASE Accept(c)
  <2> DEFINE p == [pass[c] EXCEPT !.step = "awaiting"]
  <2>1. p.step = "awaiting" /\ p.rows = pass[c].rows /\ p.todo = pass[c].todo
    BY <1>a DEF Pass
  <2>2. /\ hist'.radioed = hist.radioed \cup {Current(c).id}
        /\ hist'.cancelled = hist.cancelled
    BY <1>1, <1>a DEF Accept, History
  <2>3. SoundPass(p)
    BY <1>1, <1>a, <2>1, <2>2 DEF SoundPass, Accept, Current
  <2>4. TableShrinks
    BY <1>1 DEF Accept, Settled, TableShrinks
  <2> QED BY <1>1, <1>b, <2>2, <2>3, <2>4 DEF Accept, Settled, DrainFrame
<1>2. CASE Resolve(c) \/ AckArrives(c) \/ Fails(c)
  <2>1. PICK retries \in SUBSET Time : RowDone(c, retries)
    BY <1>2, OutcomeStore
  <2> DEFINE p == [pass[c] EXCEPT !.step = "next", !.retries = @ \cup retries,
                       !.todo = @ \ {Current(c)}, !.aborted = FALSE]
  <2>2. Becomes(c, p)
    BY <2>1 DEF RowDone
  <2>3. p.step = "next" /\ p.rows = pass[c].rows /\ p.todo \subseteq pass[c].todo
    BY <1>a DEF Pass
  <2> HIDE DEF p
  <2>4. SoundPass(p)
    BY <1>a, <2>3 DEF SoundPass
  <2>5. Settled(c)
    BY <1>2 DEF Resolve, AckArrives, Fails
  <2>6. TableShrinks
    BY <1>2, <2>5, OutcomeStore DEF TableShrinks, Settled
  <2>7. hist'.cancelled = hist.cancelled /\ hist.radioed \subseteq hist'.radioed
    BY <1>2, <1>a DEF Resolve, AckArrives, Fails, History
  <2> QED BY <1>b, <2>2, <2>4, <2>5, <2>6, <2>7 DEF DrainFrame, Settled
<1> QED BY <1>1, <1>2 DEF Outcome

StateInv == LockInv /\ WorkInv /\ CopyInv /\ IdInv /\ SentInv

LEMMA DrainPreserves ==
    ASSUME IInv, NEW c \in Drainers, DrainFrame(c)
    PROVE  StateInv'
<1>a. pass \in [Drainers -> Pass]
  BY DEF IInv, TypeOK
<1>b. \A d \in Drainers \ {c} : pass'[d] = pass[d]
  BY <1>a DEF DrainFrame, Becomes
<1>c. \/ pass'[c] = IdlePass /\ lock' = Release(lock)
      \/ lock' = lock /\ SoundPass(pass'[c])
  BY <1>a DEF DrainFrame, Becomes
<1>d. \A r : CopyOf(r, db, nextId) => CopyOf(r, db', nextId')
  BY DEF DrainFrame, TableShrinks, CopyOf
(* No other drain is past its first await: the holder of the chain is c.   *)
<1>1. LockInv'
  <2>1. \A d \in Drainers \ {c} : pass[d].step = "idle"
    BY DEF IInv, LockInv, DrainFrame, Holds
  <2> QED BY <1>b, <1>c, <2>1 DEF LockInv, DrainFrame, Holds, IdlePass
<1>2. WorkInv'
  BY <1>b, <1>c DEF IInv, WorkInv, SoundPass, IdlePass
<1>3. CopyInv'
  <2>1. \A r \in IdlePass.rows \cup IdlePass.todo : CopyOf(r, db, nextId)
    BY DEF IdlePass
  <2>2. \A d \in Drainers : \A r \in pass'[d].rows \cup pass'[d].todo :
            CopyOf(r, db, nextId)
    BY <1>b, <1>c, <2>1 DEF IInv, CopyInv, SoundPass
  <2> QED BY <1>d, <2>2 DEF CopyInv
<1>4. IdInv'
  BY DEF IInv, IdInv, CancelledStaysGone, DrainFrame, TableShrinks
<1>5. SentInv'
  BY <1>b, <1>c DEF IInv, SentInv, Current, SoundPass, IdlePass, DrainFrame
<1> QED BY <1>1, <1>2, <1>3, <1>4, <1>5 DEF StateInv

(* Steps of the user, the timers and the world that leave the passes, the  *)
(* stored ids and the messages alone.                                      *)
LEMMA QuietPreserves ==
    ASSUME IInv, Appended, pass' = pass, TableShrinks,
           hist'.cancelled = hist.cancelled, hist'.radioed = hist.radioed
    PROVE  StateInv'
<1>1. \A r : CopyOf(r, db, nextId) => CopyOf(r, db', nextId')
  BY DEF TableShrinks, CopyOf
<1>2. CopyInv'
  BY <1>1 DEF IInv, CopyInv
<1>3. LockInv'
  BY DEF IInv, LockInv, Holds, Appended
<1>4. WorkInv' /\ SentInv'
  BY DEF IInv, WorkInv, SentInv, Current
<1>5. IdInv'
  BY DEF IInv, IdInv, CancelledStaysGone, TableShrinks
<1> QED BY <1>2, <1>3, <1>4, <1>5 DEF StateInv

LEMMA TriggerPreserves ==
    ASSUME IInv, Trigger
    PROVE  StateInv'
<1>a. TypeOK /\ StoreOK(db)
  BY DEF IInv, TypeOK, StoreOK
<1>1. Appended
  BY TriggerType
<1>2. pass' = pass /\ hist' = hist
  BY DEF Trigger, ExternalDrain, PanelTimer, PanelSoon, PanelReload, AppTimer, AppAsks,
         CapList, CapBlock, QueueDone, MountReset
<1>3. TableShrinks
  <2>1. ASSUME NEW ids, NEW status \in Statuses, db' = SetStatus(db, ids, status)
        PROVE  /\ DOMAIN db' \subseteq DOMAIN db
               /\ \A i \in DOMAIN db' : db'[i].kind = db[i].kind
    BY <1>a, <2>1, SetStatusType
  <2>2. nextId' = nextId
    BY DEF Trigger, ExternalDrain, PanelTimer, PanelSoon, PanelReload, AppTimer, AppAsks,
           CapList, CapBlock, QueueDone, MountReset, store
  <2>3. \/ db' = db
        \/ \E ids : \E status \in Statuses : db' = SetStatus(db, ids, status)
    <3>1. CapBlock \/ MountReset \/ db' = db
      BY DEF Trigger, ExternalDrain, PanelTimer, PanelSoon, PanelReload, AppTimer, AppAsks,
             CapList, QueueDone, store
    <3>2. "blocked" \in Statuses /\ "queued" \in Statuses
      BY DEF Statuses
    <3> QED BY <3>1, <3>2 DEF CapBlock, MountReset
  <2> QED BY <2>1, <2>2, <2>3 DEF TableShrinks
<1> QED BY <1>1, <1>2, <1>3, QuietPreserves

LEMMA AddRowPreserves ==
    ASSUME IInv, Appended, pass' = pass,
           NEW kind \in Kinds, NEW at \in Time, AddRow(kind, at),
           hist'.cancelled = hist.cancelled, hist'.radioed = hist.radioed
    PROVE  StateInv'
<1>a. /\ DOMAIN db' = DOMAIN db \cup {nextId}
      /\ \A i \in DOMAIN db \ {nextId} : db'[i].kind = db[i].kind
      /\ nextId' = nextId + 1 /\ nextId \in Nat \ {0}
  <2>1. TypeOK
    BY DEF IInv
  <2>2. /\ DOMAIN db' = DOMAIN db \cup {nextId}
        /\ \A i \in DOMAIN db \ {nextId} : db'[i].kind = db[i].kind
        /\ nextId' = nextId + 1 /\ nextId \in Ids
    BY <2>1, AddRowType
  <2>3. nextId \in Nat \ {0}
    BY <2>2, OutboxAssumption DEF Ids
  <2> QED BY <2>2, <2>3
<1>1. \A r : CopyOf(r, db, nextId) => CopyOf(r, db', nextId')
  BY <1>a DEF CopyOf
<1>2. CopyInv'
  BY <1>1 DEF IInv, CopyInv
<1>3. LockInv'
  BY DEF IInv, LockInv, Holds, Appended
<1>4. WorkInv' /\ SentInv'
  BY DEF IInv, WorkInv, SentInv, Current
<1>5. IdInv'
  <2>1. nextId \notin hist.cancelled
    BY <1>a DEF IInv, IdInv
  <2>2. hist.cancelled \subseteq 1..nextId /\ DOMAIN db \cup {nextId} \subseteq 1..nextId
    BY <1>a DEF IInv, IdInv
  <2>3. nextId' - 1 = nextId
    BY <1>a
  <2> QED BY <1>a, <2>1, <2>2, <2>3 DEF IInv, IdInv, CancelledStaysGone
<1> QED BY <1>2, <1>3, <1>4, <1>5 DEF StateInv

LEMMA CancelPreserves ==
    ASSUME IInv, NEW id \in Ids, Cancel(id)
    PROVE  StateInv'
<1>a. TypeOK /\ StoreOK(db) /\ hist \in History /\ pass \in [Drainers -> Pass]
  BY DEF IInv, TypeOK, StoreOK, History
<1>b. /\ lock' = lock /\ nextId' = nextId /\ id \in DOMAIN db
      /\ \A c \in Drainers : pass'[c] = Cancelled(pass[c], id)
  BY DEF Cancel
<1>c. /\ DOMAIN db' \subseteq DOMAIN db
      /\ \A i \in DOMAIN db' : db'[i].kind = db[i].kind
      /\ hist'.radioed = hist.radioed
      /\ \/ hist'.cancelled = hist.cancelled
         \/ hist'.cancelled = hist.cancelled \cup {id} /\ id \notin DOMAIN db'
  <2>1. /\ [hist EXCEPT !.cancelled = @ \cup {id}].cancelled = hist.cancelled \cup {id}
        /\ [hist EXCEPT !.cancelled = @ \cup {id}].radioed = hist.radioed
    BY <1>a DEF History
  <2>2. /\ DOMAIN Delete(db, id) = DOMAIN db \ {id}
        /\ \A i \in DOMAIN db \ {id} : Delete(db, id)[i].kind = db[i].kind
    BY <1>a, DeleteType
  <2>3. \/ db' = Delete(db, id) /\ hist' = [hist EXCEPT !.cancelled = @ \cup {id}]
        \/ db' = db /\ hist' = hist
    BY DEF Cancel
  <2> QED BY <2>1, <2>2, <2>3
<1>d. ASSUME NEW c \in Drainers
      PROVE  \/ pass'[c] = pass[c]
             \/ /\ pass'[c].step = pass[c].step /\ pass'[c].rows = pass[c].rows
                /\ pass'[c].todo = pass[c].todo
             \/ /\ pass[c].step = "awaiting" /\ pass'[c].step = "next"
                /\ pass'[c].rows = pass[c].rows /\ pass'[c].todo \subseteq pass[c].todo
  <2> DEFINE ended == [pass[c] EXCEPT !.step = "next",
                                      !.todo = {s \in @ : s.id # id}]
             aborted == [pass[c] EXCEPT !.aborted = TRUE]
  <2>1. pass[c] \in Pass
    BY <1>a
  <2>2. /\ ended.step = "next" /\ ended.rows = pass[c].rows
        /\ ended.todo = {s \in pass[c].todo : s.id # id}
    BY <2>1 DEF Pass
  <2>3. /\ aborted.step = pass[c].step /\ aborted.rows = pass[c].rows
        /\ aborted.todo = pass[c].todo
    BY <2>1 DEF Pass
  <2>4. \/ pass'[c] = pass[c] \/ pass'[c] = aborted
        \/ pass[c].step = "awaiting" /\ pass'[c] = ended
    BY <1>b DEF Cancelled
  <2> HIDE DEF ended, aborted
  <2> QED BY <2>2, <2>3, <2>4
<1>1. LockInv'
  BY <1>b, <1>d DEF IInv, LockInv, Holds
<1>2. WorkInv'
  BY <1>d DEF IInv, WorkInv
<1>3. CopyInv'
  <2>1. \A r : CopyOf(r, db, nextId) => CopyOf(r, db', nextId')
    BY <1>b, <1>c DEF CopyOf
  <2>2. \A c \in Drainers : \A r \in pass'[c].rows \cup pass'[c].todo :
            CopyOf(r, db, nextId)
    BY <1>d DEF IInv, CopyInv
  <2> QED BY <2>1, <2>2 DEF CopyInv
<1>4. IdInv'
  BY <1>b, <1>c DEF IInv, IdInv, CancelledStaysGone
<1>5. SentInv'
  BY <1>c, <1>d DEF IInv, SentInv, Current
<1> QED BY <1>1, <1>2, <1>3, <1>4, <1>5 DEF StateInv

LEMMA UserPreserves ==
    ASSUME IInv, User
    PROVE  StateInv'
<1>a. TypeOK /\ StoreOK(db) /\ hist \in History /\ Never \in Time /\ Appended
  BY UserType DEF IInv, TypeOK, StoreOK, History, Time
<1>1. ASSUME NEW kind \in PanelKinds, Queue(kind) PROVE StateInv'
  <2>1. kind \in Kinds /\ pass' = pass
    BY <1>1, OutboxAssumption DEF Queue
  <2>2. hist' = hist /\ \E at \in Time : AddRow(kind, at)
    <3>1. \A t \in (now + 1)..MaxTime : t \in Time
      BY <1>a DEF TypeOK, Time
    <3> QED BY <1>1, <1>a, <3>1 DEF Queue
  <2>3. hist'.cancelled = hist.cancelled /\ hist'.radioed = hist.radioed
    BY <1>a, <2>2 DEF History
  <2> QED BY <1>a, <2>1, <2>2, <2>3, AddRowPreserves
<1>2. ASSUME NEW kind \in AppKinds, AppQueue(kind) PROVE StateInv'
  <2>1. kind \in Kinds
    BY OutboxAssumption
  <2> QED BY <1>2, <1>a, <2>1, AddRowPreserves DEF AppQueue
<1>3. ASSUME NEW id \in Ids, Retry(id) PROVE StateInv'
  <2>1. TableShrinks
    <3> DEFINE r == [WithStatus(db[id], "queued") EXCEPT !.attempts = 0]
    <3>1. id \in DOMAIN db /\ db[id] \in Row /\ db[id].id = id
      BY <1>3, <1>a DEF Retry, StoreOK
    <3>2. r \in Row /\ SameMessage(r, db[id])
      BY <3>1, WithStatusType DEF Statuses, Row, SameMessage
    <3>3. (db' = Put(db, r) \/ db' = db) /\ nextId' = nextId
      BY <1>3 DEF Retry
    <3> HIDE DEF r
    <3>4. r.id \in DOMAIN db => db[r.id].kind = r.kind
      BY <3>1, <3>2 DEF SameMessage
    <3> QED BY <1>a, <3>2, <3>3, <3>4, PutType DEF TableShrinks
  <2>2. pass' = pass /\ hist'.cancelled = hist.cancelled /\ hist'.radioed = hist.radioed
    BY <1>3, <1>a DEF Retry, History
  <2> QED BY <1>a, <2>1, <2>2, QuietPreserves
<1>4. ASSUME NEW id \in Ids, Cancel(id) PROVE StateInv'
  BY <1>4, CancelPreserves
<1>5. CASE Mount \/ Unmount
  BY <1>5, <1>a, QuietPreserves DEF Mount, Unmount, store, TableShrinks
<1> QED BY <1>1, <1>2, <1>3, <1>4, <1>5 DEF User

LEMMA WorldPreserves ==
    ASSUME IInv, World
    PROVE  StateInv'
<1>1. CASE Crash
  <2>1. \A c \in Drainers : pass'[c] = IdlePass
    BY <1>1 DEF Crash
  <2>2. db' = db /\ nextId' = nextId /\ hist' = hist
    BY <1>1 DEF Crash, store
  <2>3. LockInv' /\ WorkInv' /\ CopyInv' /\ SentInv'
    BY <2>1 DEF LockInv, WorkInv, CopyInv, SentInv, IdlePass
  <2>4. IdInv'
    BY <2>2 DEF IInv, IdInv, CancelledStaysGone
  <2> QED BY <2>3, <2>4 DEF StateInv
<1>2. CASE ~Crash
  <2>1. Appended
    BY <1>2, WorldType
  <2>2. pass' = pass /\ hist' = hist /\ TableShrinks
    BY <1>2 DEF World, GoOnline, GoOffline, SwitchIdentity, Tick, store, TableShrinks
  <2> QED BY <2>1, <2>2, QuietPreserves
<1> QED BY <1>1, <1>2

-----------------------------------------------------------------------------
(***************************************************************************)
(* The theorems.                                                           *)
(***************************************************************************)
LEMMA InitInvariant == Init => IInv
<1> SUFFICES ASSUME Init PROVE IInv
  OBVIOUS
<1>1. TypeOK
  BY InitType
<1>2. LockInv /\ WorkInv /\ CopyInv /\ SentInv
  BY DEF Init, LockInv, WorkInv, CopyInv, SentInv, IdlePass
<1>3. IdInv
  BY OutboxAssumption DEF Init, IdInv, CancelledStaysGone
<1> QED BY <1>1, <1>2, <1>3 DEF IInv

LEMMA StepInvariant == IInv /\ [Next]_vars => IInv'
<1> SUFFICES ASSUME IInv, [Next]_vars PROVE IInv'
  OBVIOUS
<1>1. CASE Next
  <2>1. TypeOK'
    BY <1>1, StepType
  <2>2. StateInv'
    BY <1>1, DrainStepFrame, OutcomeFrame, DrainPreserves, TriggerPreserves,
       UserPreserves, WorldPreserves DEF Next
  <2> QED BY <2>1, <2>2 DEF IInv, StateInv
<1>2. CASE UNCHANGED vars
  BY <1>2 DEF vars, env, store, IInv, TypeOK, LockInv, Holds, WorkInv, CopyInv, IdInv,
         CancelledStaysGone, SentInv, Current
<1> QED BY <1>1, <1>2

(* The inductive invariant holds in every reachable state.                 *)
THEOREM Invariant == Spec => []IInv
BY InitInvariant, StepInvariant, PTL DEF Spec

(* The table, the passes and the hooks have their types.                   *)
THEOREM TypeCorrect == Spec => []TypeOK
BY Invariant, PTL DEF IInv

(* withChatOutboxDrainLock keeps ChatPanel and the App-level drain from    *)
(* sending the same row, whatever is queued on the chain.                  *)
THEOREM OneSender == Spec => []OneSenderPerRow
<1>1. IInv => OneSenderPerRow
  BY DEF IInv, LockInv, OneSenderPerRow, Sending, Holds
<1> QED BY <1>1, Invariant, PTL

(* A row the user cancelled is never brought back.                         *)
THEOREM CancelIsFinal == Spec => []CancelledStaysGone
<1>1. IInv => CancelledStaysGone
  BY DEF IInv, IdInv
<1> QED BY <1>1, Invariant, PTL

(* A row leaves the table only after the user cancelled it, or after the   *)
(* radio took it and, where one is owed, its acknowledgement came.         *)
LEMMA RemovalStep ==
    ASSUME IInv, [Next]_vars, NEW i \in DOMAIN db \ DOMAIN db'
    PROVE  \/ i \in hist'.cancelled
           \/ /\ i \in hist'.radioed
              /\ Emergency(db[i]) \/ Receipts => i \in hist'.acked
<1>a. TypeOK /\ StoreOK(db) /\ hist \in History
  BY DEF IInv, TypeOK, StoreOK, History
<1>k. (\E ids, status : db' = SetStatus(db, ids, status)) => FALSE
  BY DEF SetStatus
<1>1. CASE UNCHANGED vars
  BY <1>1 DEF vars
<1>2. ASSUME NEW c \in Drainers, DrainStep(c) PROVE FALSE
  BY <1>2, <1>k DEF DrainStep, StartOffline, List, Recover, Filter, End, Quarantine, Pace,
     Mark, Call, Reject, store
<1>3. ASSUME NEW c \in Drainers, Outcome(c)
      PROVE  \/ i \in hist'.cancelled
             \/ /\ i \in hist'.radioed
                /\ Emergency(db[i]) \/ Receipts => i \in hist'.acked
  <2>1. Resolve(c) \/ AckArrives(c) \/ Fails(c)
    BY <1>3 DEF Outcome, Accept
  <2>2. i = Current(c).id
    BY <2>1, OutcomeStore
  <2>3. Finalize(c)
    <3>1. ~Abandon(c)
      BY DEF Abandon
    <3>2. ASSUME NEW b \in BOOLEAN, RecordFailure(c, b) PROVE FALSE
      <4>1. pass[c].todo # {}
        BY <2>1 DEF Resolve, AckArrives, Fails, InFlight, IInv, WorkInv
      <4> QED BY <3>2, <4>1, RecordFailureStore
    <3> QED BY <2>1, <3>1, <3>2 DEF Resolve, AckArrives, Fails
  <2>4. CASE Resolve(c)
    <3>1. i \in hist'.radioed
      BY <2>2, <2>4 DEF Resolve, IInv, SentInv
    <3>2. CopyOf(Current(c), db, nextId)
      BY <2>4, CurrentInIds DEF Resolve, IInv, WorkInv
    <3>3. db[i].kind = Current(c).kind
      BY <2>2, <3>2 DEF CopyOf
    <3>4. ~(Emergency(db[i]) \/ Receipts)
      BY <2>4, <3>3 DEF Resolve, NeedsAck, Emergency
    <3> QED BY <3>1, <3>4
  <2>5. CASE AckArrives(c)
    <3>1. hist' = [hist EXCEPT !.acked = @ \cup {Current(c).id}]
      BY <2>5 DEF AckArrives
    <3>2. i \in hist'.acked /\ hist'.radioed = hist.radioed
      BY <1>a, <2>2, <3>1 DEF History
    <3>3. i \in hist.radioed
      BY <2>2, <2>5 DEF AckArrives, IInv, SentInv
    <3> QED BY <3>2, <3>3
  <2>6. CASE Fails(c)
    <3>1. pass[c].todo # {}
      BY <2>6 DEF Fails, InFlight, IInv, WorkInv
    <3>2. Abandon(c) \/ \E b \in BOOLEAN : RecordFailure(c, b)
      BY <2>6 DEF Fails
    <3>3. DOMAIN db' = DOMAIN db
      BY <3>1, <3>2, RecordFailureStore DEF Abandon
    <3> QED BY <3>3
  <2> QED BY <2>1, <2>4, <2>5, <2>6
<1>4. ASSUME Trigger PROVE FALSE
  BY <1>4, <1>k DEF Trigger, ExternalDrain, PanelTimer, PanelSoon, PanelReload, AppTimer,
     AppAsks, CapList, CapBlock, QueueDone, MountReset, store
<1>5. ASSUME User PROVE i \in hist'.cancelled
  <2>1. ASSUME NEW kind \in Kinds, NEW at, AddRow(kind, at) PROVE FALSE
    BY <2>1 DEF AddRow, Insert
  <2>2. ASSUME NEW id \in Ids, Retry(id) PROVE FALSE
    BY <2>2 DEF Retry, Put
  <2>3. ASSUME NEW id \in Ids, Cancel(id) PROVE i \in hist'.cancelled
    <3>1. \/ db' = Delete(db, id) /\ hist' = [hist EXCEPT !.cancelled = @ \cup {id}]
          \/ db' = db
      BY <2>3 DEF Cancel
    <3>2. db' = Delete(db, id) => i = id
      BY <1>a, DeleteType
    <3>3. [hist EXCEPT !.cancelled = @ \cup {id}].cancelled = hist.cancelled \cup {id}
      BY <1>a DEF History
    <3> QED BY <3>1, <3>2, <3>3
  <2> QED BY <1>5, <2>1, <2>2, <2>3, OutboxAssumption
      DEF User, Queue, AppQueue, Mount, Unmount, store
<1>6. ASSUME World PROVE FALSE
  BY <1>6 DEF World, GoOnline, GoOffline, SwitchIdentity, Tick, Crash, store
<1> QED BY <1>1, <1>2, <1>3, <1>4, <1>5, <1>6 DEF Next

(* finalizeSuccessfulOutboxSend is the only automatic removal, and it      *)
(* follows a send the radio took and the network acknowledged.             *)
THEOREM NothingIsLost == Spec => RemovedOnlyWhenDelivered
<1>1. IInv /\ [Next]_vars =>
         [\A i \in DOMAIN db \ DOMAIN db' :
            \/ i \in hist'.cancelled
            \/ /\ i \in hist'.radioed
               /\ Emergency(db[i]) \/ Receipts => i \in hist'.acked]_vars
  BY RemovalStep
<1> QED BY <1>1, Invariant, PTL DEF Spec, RemovedOnlyWhenDelivered

-----------------------------------------------------------------------------
(***************************************************************************)
(* What a pass has in its hands: a listing of distinct rows until the      *)
(* eligible ones are picked, then rows that may be sent, each of them      *)
(* still in the table or cancelled by the user.                            *)
(***************************************************************************)
UniqueIds(S) == \A r, s \in S : r.id = s.id => r = s

MaySend(r) == Waiting(r) /\ (AppManaged(r) \/ r.attempts < MaxAttempts)

Hands(p) ==
    /\ p.step \notin {"listed", "recovered"} => p.rows = {}
    /\ p.step \in {"idle", "listed", "recovered"} => p.todo = {}
    /\ UniqueIds(p.rows) /\ UniqueIds(p.todo)
    /\ \A r \in p.todo : MaySend(r)

Known(p) == \A r \in p.rows \cup p.todo : r.id \in DOMAIN db \cup hist.cancelled

HandsInv == \A c \in Drainers : Hands(pass[c])
KnownInv == \A c \in Drainers : Known(pass[c])
QInv == IInv /\ HandsInv /\ KnownInv

Working == {"picked", "next", "pacing", "marking", "calling", "awaiting"}

(* A pass at work only puts rows aside.                                    *)
LEMMA HandsShrink ==
    ASSUME NEW p, NEW q, Hands(p), p.step \in Working, q.step \in Working,
           q.rows = p.rows, q.todo \subseteq p.todo
    PROVE  Hands(q)
BY DEF Hands, UniqueIds, Working

LEMMA IdleHands == Hands(IdlePass) /\ Known(IdlePass)
BY DEF Hands, Known, UniqueIds, IdlePass

LEMMA RowsUnique ==
    ASSUME StoreOK(db)
    PROVE  UniqueIds(Rows)
BY RowsType DEF UniqueIds

(* The next pass of a drain that takes a step, and the ids it may forget.  *)
LEMMA DrainStepHands ==
    ASSUME QInv, NEW c \in Drainers, DrainStep(c)
    PROVE  \E p : /\ Becomes(c, p) /\ Hands(p) /\ Known(p)
                  /\ DOMAIN db' = DOMAIN db /\ hist'.cancelled = hist.cancelled
<1> USE DEF env, store
<1>a. /\ TypeOK /\ StoreOK(db) /\ pass[c] \in Pass /\ hist \in History
      /\ Hands(pass[c]) /\ Known(pass[c])
      /\ pass[c].todo # {} => Current(c) \in pass[c].todo
  BY CurrentType DEF QInv, IInv, TypeOK, StoreOK, History, HandsInv, KnownInv
<1>f. ASSUME NEW ids, NEW status \in Statuses, db' = SetStatus(db, ids, status)
      PROVE  DOMAIN db' = DOMAIN db
  BY <1>a, <1>f, SetStatusType
<1>e. CASE StartOffline(c) \/ End(c) \/ (Fault /\ Reject(c))
  BY <1>e, IdleHands DEF StartOffline, End, Finish, Reject
<1>2. CASE List(c) /\ ~(Fault /\ Reject(c))
  <2> DEFINE p == [pass[c] EXCEPT !.step = "listed", !.rows = Rows]
  <2>1. p.step = "listed" /\ p.rows = Rows /\ p.todo = pass[c].todo
    BY <1>a DEF Pass
  <2>2. Becomes(c, p) /\ db' = db /\ hist' = hist /\ pass[c].step = "idle"
    BY <1>2 DEF List
  <2> HIDE DEF p
  <2>3. pass[c].todo = {}
    BY <1>a, <2>2 DEF Hands
  <2>4. Hands(p)
    BY <1>a, <2>1, <2>3, RowsUnique DEF Hands, UniqueIds
  <2>5. Known(p)
    BY <1>a, <2>1, <2>3, RowsType DEF Known
  <2> QED BY <2>2, <2>4, <2>5
<1>3. CASE Recover(c) /\ ~(Fault /\ Reject(c))
  <2> DEFINE p == [pass[c] EXCEPT !.step = "recovered",
                                  !.rows = {Requeued(r) : r \in pass[c].rows}]
  <2>1. /\ p.step = "recovered" /\ p.rows = {Requeued(r) : r \in pass[c].rows}
        /\ p.todo = pass[c].todo
    BY <1>a DEF Pass
  <2>2. /\ Becomes(c, p) /\ hist' = hist /\ pass[c].step = "listed"
        /\ db' = SetStatus(db, Stuck(c), "queued")
    BY <1>3 DEF Recover
  <2> HIDE DEF p
  <2>3. pass[c].todo = {} /\ UniqueIds(pass[c].rows)
    BY <1>a, <2>2 DEF Hands
  <2>4. \A r \in pass[c].rows : Requeued(r).id = r.id
    BY <1>a, RequeuedType DEF SameMessage, Pass
  <2>5. UniqueIds(p.rows)
    BY <2>1, <2>3, <2>4 DEF UniqueIds
  <2>6. Hands(p)
    BY <2>1, <2>3, <2>5 DEF Hands, UniqueIds
  <2>7. Known(p)
    BY <1>a, <2>1, <2>3, <2>4 DEF Known
  <2>8. "queued" \in Statuses
    BY DEF Statuses
  <2> QED BY <1>f, <2>2, <2>6, <2>7, <2>8
<1>4. CASE Filter(c)
  <2> DEFINE todo == {r \in pass[c].rows : /\ Eligible(r, now)
                                           /\ MatchesIdentity(r, identity)
                                           /\ c = "app" => AppDrained(r)}
             p == [pass[c] EXCEPT !.step = "picked", !.rows = {},
                       !.retries = RetryTimes(pass[c].rows), !.todo = todo]
  <2>1. p.step = "picked" /\ p.rows = {} /\ p.todo = todo
    BY <1>a DEF Pass
  <2>2. todo \subseteq pass[c].rows /\ \A r \in todo : MaySend(r)
    BY DEF Eligible, MaySend
  <2>3. Becomes(c, p) /\ hist' = hist /\ db' = db
    BY <1>4 DEF Filter
  <2> HIDE DEF p, todo
  <2>4. Hands(p) /\ Known(p)
    BY <1>a, <2>1, <2>2 DEF Hands, UniqueIds, Known
  <2> QED BY <2>3, <2>4
<1>5. CASE Quarantine(c)
  <2> DEFINE p == [pass[c] EXCEPT !.step = "next", !.attempted = TRUE,
                                  !.todo = @ \ {Current(c)}]
  <2>1. p.step = "next" /\ p.rows = pass[c].rows /\ p.todo \subseteq pass[c].todo
    BY <1>a DEF Pass
  <2>2. Becomes(c, p) /\ hist' = hist /\ pass[c].step \in Working
    BY <1>5 DEF Quarantine, AtRow, Working
  <2>3. DOMAIN db' = DOMAIN db
    <3>1. "blocked" \in Statuses
      BY DEF Statuses
    <3> QED BY <1>5, <1>f, <3>1 DEF Quarantine
  <2> HIDE DEF p
  <2>4. Hands(p) /\ Known(p)
    BY <1>a, <2>1, <2>2, HandsShrink DEF Known, Working
  <2> QED BY <2>2, <2>3, <2>4
<1>6. CASE Pace(c) \/ Call(c) \/ (Mark(c) /\ ~(Fault /\ Reject(c)))
  <2>1. PICK p \in {[pass[c] EXCEPT !.step = "pacing", !.attempted = TRUE],
                    [pass[c] EXCEPT !.step = "marking", !.attempted = TRUE],
                    [pass[c] EXCEPT !.step = "calling"]} : Becomes(c, p)
    BY <1>6 DEF Pace, Mark, Call
  <2>2. p.step \in Working /\ p.rows = pass[c].rows /\ p.todo = pass[c].todo
    BY <1>a, <2>1 DEF Pass, Working
  <2>3. pass[c].step \in Working
    BY <1>6 DEF Pace, Mark, Call, AtRow, Working
  <2>4. DOMAIN db' = DOMAIN db
    <3>1. "sending" \in Statuses
      BY DEF Statuses
    <3> QED BY <1>6, <1>f, <3>1 DEF Pace, Mark, Call
  <2>5. hist'.cancelled = hist.cancelled
    BY <1>6, <1>a DEF Pace, Mark, Call, History
  <2>6. Hands(p) /\ Known(p)
    BY <1>a, <2>2, <2>3, HandsShrink DEF Known
  <2> QED BY <2>1, <2>4, <2>5, <2>6
<1> QED BY <1>e, <1>2, <1>3, <1>4, <1>5, <1>6 DEF DrainStep

(* The row a send is over for is put aside for good, and no other row of   *)
(* the pass has its id.                                                    *)
LEMMA OutcomeHands ==
    ASSUME QInv, NEW c \in Drainers, Outcome(c)
    PROVE  \E p : /\ Becomes(c, p) /\ Hands(p)
                  /\ \A r \in p.rows \cup p.todo :
                        r.id \in DOMAIN db' \cup hist'.cancelled
<1>a. /\ IInv /\ TypeOK /\ pass[c] \in Pass /\ hist \in History
      /\ Hands(pass[c]) /\ Known(pass[c])
  BY DEF QInv, IInv, TypeOK, History, HandsInv, KnownInv
<1>1. CASE Accept(c)
  <2> DEFINE p == [pass[c] EXCEPT !.step = "awaiting"]
  <2>1. p.step = "awaiting" /\ p.rows = pass[c].rows /\ p.todo = pass[c].todo
    BY <1>a DEF Pass
  <2>2. Becomes(c, p) /\ db' = db /\ pass[c].step \in Working
    BY <1>1 DEF Accept, Working
  <2>3. hist'.cancelled = hist.cancelled
    BY <1>1, <1>a DEF Accept, History
  <2> HIDE DEF p
  <2>4. Hands(p)
    BY <1>a, <2>1, <2>2, HandsShrink DEF Working
  <2> QED BY <1>a, <2>1, <2>2, <2>3, <2>4 DEF Known
<1>2. CASE Resolve(c) \/ AckArrives(c) \/ Fails(c)
  <2>1. PICK retries \in SUBSET Time : RowDone(c, retries)
    BY <1>2, <1>a, OutcomeStore
  <2> DEFINE p == [pass[c] EXCEPT !.step = "next", !.retries = @ \cup retries,
                       !.todo = @ \ {Current(c)}, !.aborted = FALSE]
  <2>2. Becomes(c, p)
    BY <2>1 DEF RowDone
  <2>3. p.step = "next" /\ p.rows = pass[c].rows /\ p.todo = pass[c].todo \ {Current(c)}
    BY <1>a DEF Pass
  <2> HIDE DEF p
  <2>4. pass[c].step \in {"calling", "awaiting"}
    BY <1>2 DEF Resolve, AckArrives, Fails, InFlight
  <2>5. pass[c].rows = {} /\ UniqueIds(pass[c].todo) /\ Current(c) \in pass[c].todo
    BY <1>a, <2>4, CurrentType DEF Hands, IInv, WorkInv
  <2>6. Hands(p)
    BY <1>a, <2>3, <2>4, HandsShrink DEF Working
  <2>7. DOMAIN db \ {Current(c).id} \subseteq DOMAIN db'
    BY <1>2, <1>a, OutcomeStore
  <2>8. hist'.cancelled = hist.cancelled
    BY <1>2, <1>a DEF Resolve, AckArrives, Fails, History
  <2>9. \A r \in p.rows \cup p.todo : r.id # Current(c).id
    BY <2>3, <2>5 DEF UniqueIds
  <2> QED BY <1>a, <2>2, <2>3, <2>6, <2>7, <2>8, <2>9 DEF Known
<1> QED BY <1>1, <1>2 DEF Outcome

(* Only the holder of the chain has anything in its hands.                 *)
LEMMA OthersIdle ==
    ASSUME QInv, NEW c \in Drainers, NEW d \in Drainers, Holds(c), c # d
    PROVE  pass[d].rows = {} /\ pass[d].todo = {}
<1>1. pass[d].step = "idle"
  BY DEF QInv, IInv, LockInv, Holds
<1> QED BY <1>1 DEF QInv, HandsInv, Hands

LEMMA DrainKeepsHands ==
    ASSUME QInv, NEW c \in Drainers, DrainStep(c) \/ Outcome(c)
    PROVE  HandsInv' /\ KnownInv'
<1>a. pass \in [Drainers -> Pass] /\ IInv
  BY DEF QInv, IInv, TypeOK
<1>1. PICK p : /\ Becomes(c, p) /\ Hands(p)
               /\ \A r \in p.rows \cup p.todo :
                     r.id \in DOMAIN db' \cup hist'.cancelled
  BY DrainStepHands, OutcomeHands DEF Known
<1>2. pass'[c] = p /\ \A d \in Drainers \ {c} : pass'[d] = pass[d]
  BY <1>a, <1>1 DEF Becomes
<1>3. Holds(c)
  BY <1>a, DrainStepFrame, OutcomeFrame DEF DrainFrame
<1>4. HandsInv'
  BY <1>1, <1>2 DEF QInv, HandsInv, Hands, UniqueIds
<1>5. ASSUME NEW d \in Drainers PROVE Known(pass[d])'
  <2>1. CASE d = c
    BY <1>1, <1>2, <2>1 DEF Known
  <2>2. CASE d # c
    BY <1>2, <1>3, <2>2, OthersIdle DEF Known
  <2> QED BY <2>1, <2>2
<1> QED BY <1>4, <1>5 DEF KnownInv

(* A cancelled row may leave the hands of a pass, and stays known.         *)
LEMMA CancelKeepsHands ==
    ASSUME QInv, NEW id \in Ids, Cancel(id)
    PROVE  HandsInv' /\ KnownInv'
<1>a. /\ TypeOK /\ StoreOK(db) /\ hist \in History /\ pass \in [Drainers -> Pass]
      /\ \A c \in Drainers : Hands(pass[c]) /\ Known(pass[c])
  BY DEF QInv, IInv, TypeOK, StoreOK, History, HandsInv, KnownInv
<1>1. DOMAIN db \cup hist.cancelled \subseteq DOMAIN db' \cup hist'.cancelled
  <2>1. DOMAIN Delete(db, id) = DOMAIN db \ {id}
    BY <1>a, DeleteType
  <2>2. [hist EXCEPT !.cancelled = @ \cup {id}].cancelled = hist.cancelled \cup {id}
    BY <1>a DEF History
  <2>3. \/ db' = Delete(db, id) /\ hist' = [hist EXCEPT !.cancelled = @ \cup {id}]
        \/ db' = db /\ hist' = hist
    BY DEF Cancel
  <2> QED BY <2>1, <2>2, <2>3
<1>2. ASSUME NEW c \in Drainers
      PROVE  /\ Hands(pass'[c])
             /\ pass'[c].rows = pass[c].rows /\ pass'[c].todo \subseteq pass[c].todo
  <2> DEFINE ended == [pass[c] EXCEPT !.step = "next",
                                      !.todo = {s \in @ : s.id # id}]
             aborted == [pass[c] EXCEPT !.aborted = TRUE]
  <2>1. /\ ended.step = "next" /\ ended.rows = pass[c].rows
        /\ ended.todo \subseteq pass[c].todo
        /\ aborted.step = pass[c].step /\ aborted.rows = pass[c].rows
        /\ aborted.todo = pass[c].todo
    BY <1>a, SMTT(30) DEF Pass
  <2>2. \/ pass'[c] = pass[c]
        \/ pass'[c] = aborted /\ pass[c].step \in Working
        \/ pass'[c] = ended /\ pass[c].step \in Working
    BY DEF Cancel, Cancelled, Working
  <2> HIDE DEF ended, aborted
  <2>3. Hands(pass[c])
    BY <1>a
  <2> QED BY <2>1, <2>2, <2>3, HandsShrink, SMTT(30) DEF Working
<1>3. HandsInv'
  BY <1>2 DEF HandsInv, Hands, UniqueIds
<1>4. ASSUME NEW c \in Drainers PROVE Known(pass[c])'
  BY <1>a, <1>1, <1>2 DEF Known
<1> QED BY <1>3, <1>4 DEF KnownInv

(* Every other step leaves the hands of a pass alone, or empties them.     *)
LEMMA OthersKeepHands ==
    ASSUME QInv, Trigger \/ User \/ World, ~ \E id \in Ids : Cancel(id)
    PROVE  HandsInv' /\ KnownInv'
<1>a. /\ TypeOK /\ StoreOK(db) /\ hist \in History
      /\ \A c \in Drainers : Hands(pass[c]) /\ Known(pass[c])
  BY SMTT(30) DEF QInv, IInv, TypeOK, StoreOK, History, HandsInv, KnownInv
<1>1. CASE Crash
  <2>1. pass' = [c \in Drainers |-> IdlePass]
    BY <1>1 DEF Crash
  <2> QED BY <2>1 DEF HandsInv, KnownInv, Hands, Known, UniqueIds, IdlePass
<1>2. CASE ~Crash
  <2>1. pass' = pass
    BY <1>2 DEF Trigger, ExternalDrain, PanelTimer, PanelSoon, PanelReload, AppTimer,
       AppAsks, CapList, CapBlock, QueueDone, MountReset, User, Queue, AppQueue, Retry,
       Mount, Unmount, World, GoOnline, GoOffline, Tick, SwitchIdentity
  <2>2. hist'.cancelled = hist.cancelled
    BY <1>2, <1>a DEF Trigger, ExternalDrain, PanelTimer, PanelSoon, PanelReload,
       AppTimer, AppAsks, CapList, CapBlock, QueueDone, MountReset, User, Queue, AppQueue,
       Retry, Mount, Unmount, World, GoOnline, GoOffline, Tick, SwitchIdentity, History
  <2>3. DOMAIN db \subseteq DOMAIN db'
    <3>1. ASSUME NEW kind, NEW at, AddRow(kind, at) PROVE DOMAIN db \subseteq DOMAIN db'
      BY <3>1 DEF AddRow, Insert
    <3>2. ASSUME NEW ids, NEW status, db' = SetStatus(db, ids, status)
          PROVE  DOMAIN db \subseteq DOMAIN db'
      BY <3>2 DEF SetStatus
    <3>3. ASSUME NEW id \in Ids, Retry(id) PROVE DOMAIN db \subseteq DOMAIN db'
      BY <3>3 DEF Retry, Put
    <3>4. CASE Trigger
      BY <3>2, <3>4 DEF Trigger, ExternalDrain, PanelTimer, PanelSoon, PanelReload,
         AppTimer, AppAsks, CapList, CapBlock, QueueDone, MountReset, store
    <3>5. CASE User
      BY <3>1, <3>3, <3>5 DEF User, Queue, AppQueue, Mount, Unmount, store
    <3>6. CASE World
      BY <1>2, <3>6 DEF World, GoOnline, GoOffline, Tick, SwitchIdentity, store
    <3> QED BY <3>4, <3>5, <3>6
  <2>4. HandsInv'
    BY <1>a, <2>1 DEF HandsInv, Hands, UniqueIds
  <2>5. KnownInv'
    BY <1>a, <2>1, <2>2, <2>3 DEF KnownInv, Known
  <2> QED BY <2>4, <2>5
<1> QED BY <1>1, <1>2

LEMMA StepHands == QInv /\ [Next]_vars => QInv'
<1> SUFFICES ASSUME QInv, [Next]_vars PROVE QInv'
  OBVIOUS
<1>1. IInv'
  BY StepInvariant DEF QInv
<1>2. HandsInv' /\ KnownInv'
  <2>1. CASE UNCHANGED vars
    BY <2>1 DEF vars, store, QInv, HandsInv, KnownInv, Hands, Known, UniqueIds
  <2>2. CASE Next
    BY <2>2, DrainKeepsHands, CancelKeepsHands, OthersKeepHands DEF Next
  <2> QED BY <2>1, <2>2
<1> QED BY <1>1, <1>2 DEF QInv

THEOREM HandsInvariant == Spec => []QInv
<1>1. Init => QInv
  <2>1. Init => IInv
    BY InitInvariant
  <2>2. Init => HandsInv /\ KnownInv
    BY DEF Init, HandsInv, KnownInv, Hands, Known, UniqueIds, IdlePass
  <2> QED BY <2>1, <2>2 DEF QInv
<1> QED BY <1>1, StepHands, PTL DEF Spec

(* A pass gets new rows in hand only when it lists the table: the rest     *)
(* requeues, picks or puts aside what it has.                              *)
LEMMA DrainTakes ==
    ASSUME QInv, NEW c \in Drainers, DrainStep(c) \/ Outcome(c)
    PROVE  \E p : Becomes(c, p) /\ InHand(p) \subseteq InHand(pass[c]) \cup DOMAIN db
<1>a. /\ IInv /\ StoreOK(db) /\ pass[c] \in Pass
  BY DEF QInv, IInv, TypeOK, StoreOK
<1>b. ASSUME NEW p, p.rows \subseteq pass[c].rows,
             p.todo \subseteq pass[c].todo \cup pass[c].rows
      PROVE  InHand(p) \subseteq InHand(pass[c]) \cup DOMAIN db
  BY <1>b DEF InHand
<1>1. CASE StartOffline(c) \/ End(c) \/ (Fault /\ Reject(c))
  <2>1. Becomes(c, IdlePass)
    BY <1>1 DEF StartOffline, End, Finish, Reject
  <2>2. IdlePass.rows = {} /\ IdlePass.todo = {}
    BY DEF IdlePass
  <2> QED BY <1>b, <2>1, <2>2
<1>2. CASE List(c) /\ ~(Fault /\ Reject(c))
  <2> DEFINE p == [pass[c] EXCEPT !.step = "listed", !.rows = Rows]
  <2>1. p.rows = Rows /\ p.todo = pass[c].todo
    BY <1>a DEF Pass
  <2>2. Becomes(c, p)
    BY <1>2 DEF List
  <2> HIDE DEF p
  <2>3. InHand(p) \subseteq InHand(pass[c]) \cup DOMAIN db
    BY <1>a, <2>1, RowsType DEF InHand
  <2> QED BY <2>2, <2>3
<1>3. CASE Recover(c) /\ ~(Fault /\ Reject(c))
  <2> DEFINE p == [pass[c] EXCEPT !.step = "recovered",
                                  !.rows = {Requeued(r) : r \in pass[c].rows}]
  <2>1. p.rows = {Requeued(r) : r \in pass[c].rows} /\ p.todo = pass[c].todo
    BY <1>a DEF Pass
  <2>2. Becomes(c, p)
    BY <1>3 DEF Recover
  <2> HIDE DEF p
  <2>3. \A r \in pass[c].rows : Requeued(r).id = r.id
    BY <1>a, RequeuedType DEF SameMessage, Pass
  <2>4. InHand(p) \subseteq InHand(pass[c])
    BY <2>1, <2>3 DEF InHand
  <2> QED BY <2>2, <2>4
<1>4. CASE Filter(c)
  <2> DEFINE todo == {r \in pass[c].rows : /\ Eligible(r, now)
                                           /\ MatchesIdentity(r, identity)
                                           /\ c = "app" => AppDrained(r)}
             p == [pass[c] EXCEPT !.step = "picked", !.rows = {},
                       !.retries = RetryTimes(pass[c].rows), !.todo = todo]
  <2>1. p.rows = {} /\ p.todo \subseteq pass[c].rows
    BY <1>a DEF Pass
  <2>2. Becomes(c, p)
    BY <1>4 DEF Filter
  <2> HIDE DEF p
  <2> QED BY <1>b, <2>1, <2>2
<1>5. CASE Quarantine(c)
  <2> DEFINE p == [pass[c] EXCEPT !.step = "next", !.attempted = TRUE,
                                  !.todo = @ \ {Current(c)}]
  <2>1. p.rows = pass[c].rows /\ p.todo \subseteq pass[c].todo
    BY <1>a DEF Pass
  <2>2. Becomes(c, p)
    BY <1>5 DEF Quarantine
  <2> HIDE DEF p
  <2> QED BY <1>b, <2>1, <2>2
<1>6. CASE Pace(c) \/ Call(c) \/ (Mark(c) /\ ~(Fault /\ Reject(c))) \/ Accept(c)
  <2>1. PICK p \in {[pass[c] EXCEPT !.step = "pacing", !.attempted = TRUE],
                    [pass[c] EXCEPT !.step = "marking", !.attempted = TRUE],
                    [pass[c] EXCEPT !.step = "calling"],
                    [pass[c] EXCEPT !.step = "awaiting"]} : Becomes(c, p)
    BY <1>6 DEF Pace, Mark, Call, Accept
  <2>2. p.rows = pass[c].rows /\ p.todo = pass[c].todo
    BY <1>a, <2>1 DEF Pass
  <2> QED BY <1>b, <2>1, <2>2
<1>7. CASE Resolve(c) \/ AckArrives(c) \/ Fails(c)
  <2>1. PICK retries \in SUBSET Time : RowDone(c, retries)
    BY <1>7, <1>a, OutcomeStore
  <2> DEFINE p == [pass[c] EXCEPT !.step = "next", !.retries = @ \cup retries,
                       !.todo = @ \ {Current(c)}, !.aborted = FALSE]
  <2>2. Becomes(c, p)
    BY <2>1 DEF RowDone
  <2>3. p.rows = pass[c].rows /\ p.todo \subseteq pass[c].todo
    BY <1>a DEF Pass
  <2> HIDE DEF p
  <2> QED BY <1>b, <2>2, <2>3
<1> QED BY <1>1, <1>2, <1>3, <1>4, <1>5, <1>6, <1>7 DEF DrainStep, Outcome

(* Whatever happens, a row enters the hands of a pass from the table.      *)
LEMMA TakenFromTable ==
    ASSUME QInv, [Next]_vars, NEW c \in Drainers
    PROVE  InHand(pass'[c]) \subseteq InHand(pass[c]) \cup DOMAIN db
<1>a. pass \in [Drainers -> Pass]
  BY DEF QInv, IInv, TypeOK
<1>1. ASSUME NEW d \in Drainers, DrainStep(d) \/ Outcome(d)
      PROVE  InHand(pass'[c]) \subseteq InHand(pass[c]) \cup DOMAIN db
  <2>1. PICK p : Becomes(d, p) /\ InHand(p) \subseteq InHand(pass[d]) \cup DOMAIN db
    BY <1>1, DrainTakes
  <2>2. pass'[d] = p /\ (c # d => pass'[c] = pass[c])
    BY <1>a, <2>1 DEF Becomes
  <2> QED BY <2>1, <2>2
<1>2. ASSUME NEW id \in Ids, Cancel(id)
      PROVE  InHand(pass'[c]) \subseteq InHand(pass[c])
  <2> DEFINE ended == [pass[c] EXCEPT !.step = "next",
                                      !.todo = {s \in @ : s.id # id}]
             aborted == [pass[c] EXCEPT !.aborted = TRUE]
  <2>1. /\ ended.rows = pass[c].rows /\ ended.todo \subseteq pass[c].todo
        /\ aborted.rows = pass[c].rows /\ aborted.todo = pass[c].todo
    BY <1>a, SMTT(30) DEF Pass
  <2>2. pass'[c] \in {pass[c], aborted, ended}
    BY <1>2 DEF Cancel, Cancelled
  <2> HIDE DEF ended, aborted
  <2> QED BY <2>1, <2>2 DEF InHand
<1>3. ASSUME Trigger \/ User \/ World, ~ \E id \in Ids : Cancel(id), ~Crash
      PROVE  pass' = pass
  BY <1>3 DEF Trigger, ExternalDrain, PanelTimer, PanelSoon, PanelReload, AppTimer,
     AppAsks, CapList, CapBlock, QueueDone, MountReset, User, Queue, AppQueue, Retry,
     Mount, Unmount, World, GoOnline, GoOffline, Tick, SwitchIdentity
<1>4. CASE Crash
  <2>1. pass'[c] = IdlePass
    BY <1>4 DEF Crash
  <2> QED BY <2>1 DEF InHand, IdlePass
<1>5. CASE UNCHANGED vars
  BY <1>5 DEF vars
<1> QED BY <1>1, <1>2, <1>3, <1>4, <1>5 DEF Next

(* A row that was delivered and removed is sent by no drain afterwards:    *)
(* whatever a pass begins to send is in the table, or was cancelled while  *)
(* the pass had it listed. A row that was cancelled is listed by no pass   *)
(* afterwards, as it is not in the table any more.                         *)
THEOREM RemovedIsNotSent == Spec => NeverSentAfterRemoval
<1>1. ASSUME QInv, NEW c \in Drainers, pass[c].step = "marking"
      PROVE  Current(c).id \in DOMAIN db \cup hist.cancelled
  <2>1. TypeOK /\ pass[c].todo # {} /\ Known(pass[c])
    BY <1>1 DEF QInv, IInv, WorkInv, KnownInv
  <2> QED BY <2>1, CurrentType DEF Known
<1>2. ASSUME QInv, [Next]_vars, NEW c \in Drainers
      PROVE  InHand(pass'[c]) \cap hist.cancelled \subseteq InHand(pass[c])
  <2>1. hist.cancelled \cap DOMAIN db = {}
    BY <1>2 DEF QInv, IInv, IdInv, CancelledStaysGone
  <2>2. InHand(pass'[c]) \subseteq InHand(pass[c]) \cup DOMAIN db
    BY <1>2, TakenFromTable
  <2> QED BY <2>1, <2>2
<1>3. QInv /\ [Next]_vars =>
        [\A c \in Drainers :
          /\ pass[c].step = "marking" /\ pass'[c].step = "calling"
               => Current(c).id \in DOMAIN db \cup hist.cancelled
          /\ InHand(pass'[c]) \cap hist.cancelled \subseteq InHand(pass[c])]_vars
  BY <1>1, <1>2
<1> QED BY <1>3, HandsInvariant, PTL DEF Spec, NeverSentAfterRemoval

-----------------------------------------------------------------------------
(***************************************************************************)
(* Blocked rows: a pass only writes rows it has listed, and a row it has   *)
(* picked was not blocked in that listing.                                 *)
(***************************************************************************)
Listed(i) ==
    \/ i \in panel.reset
    \/ \E c \in Drainers : \E r \in pass[c].rows \cup pass[c].todo :
          r.id = i /\ r.status # "blocked"

LEMMA StatusWritten ==
    ASSUME NEW d, NEW ids, NEW status, NEW i \in DOMAIN d,
           SetStatus(d, ids, status)[i].status # d[i].status
    PROVE  i \in ids
BY DEF SetStatus

LEMMA BlocksOrLeaves ==
    ASSUME NEW d, StoreOK(d), NEW ids, NEW i \in DOMAIN d, d[i].status = "blocked"
    PROVE  SetStatus(d, ids, "blocked")[i].status = "blocked"
<1>1. d[i] \in Row
  BY DEF StoreOK
<1>2. WithStatus(d[i], "blocked").status = "blocked"
  BY <1>1 DEF WithStatus, Row
<1> QED BY <1>2 DEF SetStatus

LEMMA BlockedStep ==
    ASSUME QInv, [Next]_vars, NEW i \in DOMAIN db \cap DOMAIN db',
           db[i].status = "blocked", db'[i].status # "blocked"
    PROVE  Retry(i) \/ Listed(i)
<1>a. TypeOK /\ StoreOK(db) /\ IInv /\ i \in Ids
  BY DEF QInv, IInv, TypeOK, StoreOK
<1>b. \A c \in Drainers : Hands(pass[c])
  BY DEF QInv, HandsInv
<1>c. ASSUME NEW c \in Drainers, pass[c].todo # {}, Current(c).id = i PROVE Listed(i)
  <2>1. Current(c) \in pass[c].todo
    BY <1>a, <1>c, CurrentType
  <2>2. Current(c).status # "blocked"
    BY <1>b, <2>1 DEF Hands, MaySend, Waiting
  <2> QED BY <1>c, <2>1, <2>2 DEF Listed
<1>1. CASE UNCHANGED vars
  BY <1>1 DEF vars, store
<1>2. ASSUME NEW c \in Drainers, DrainStep(c) PROVE Listed(i)
  <2>1. CASE db' = SetStatus(db, Stuck(c), "queued")
    <3>1. i \in Stuck(c)
      BY <2>1, StatusWritten
    <3> QED BY <3>1 DEF Stuck, Listed
  <2>2. CASE db' = SetStatus(db, {Current(c).id}, "sending") /\ Mark(c)
    <3>1. pass[c].todo # {}
      BY <1>a, <2>2 DEF Mark, MayGoOn, IInv, WorkInv
    <3>2. Current(c).id = i
      BY <2>2, StatusWritten
    <3> QED BY <1>c, <3>1, <3>2
  <2>3. CASE db' = SetStatus(db, {Current(c).id}, "blocked")
    BY <1>a, <2>3, BlocksOrLeaves
  <2>4. CASE db' = db
    BY <2>4
  <2> QED BY <1>2, <2>1, <2>2, <2>3, <2>4 DEF DrainStep, StartOffline, List, Recover,
     Filter, End, Quarantine, Pace, Mark, Call, Reject, store
<1>3. ASSUME NEW c \in Drainers, Outcome(c) PROVE Listed(i)
  <2>1. pass[c].todo # {}
    BY <1>a, <1>3 DEF Outcome, Accept, Resolve, AckArrives, Fails, InFlight, IInv, WorkInv
  <2>2. Current(c) \in Row
    BY <1>a, <2>1, CurrentType
  <2>3. \/ db' = db \/ db' = Delete(db, Current(c).id)
        \/ \E r : r.id = Current(c).id /\ db' = Put(db, r)
    <3>1. ASSUME NEW b \in BOOLEAN
          PROVE  Failed(Current(c), b, now).id = Current(c).id
      BY <1>a, <2>2, <3>1, FailedType DEF SameMessage, TypeOK
    <3>2. [WithStatus(Current(c), "blocked") EXCEPT !.attempts = Bump(@)].id
            = Current(c).id
      BY <2>2 DEF WithStatus, Row
    <3>3. \A b \in BOOLEAN : RecordFailure(c, b) =>
            db' = db \/ \E r : r.id = Current(c).id /\ db' = Put(db, r)
      BY <3>1 DEF RecordFailure
    <3>4. Finalize(c) => \/ db' = db \/ db' = Delete(db, Current(c).id)
                         \/ \E r : r.id = Current(c).id /\ db' = Put(db, r)
      BY <3>2 DEF Finalize
    <3> QED BY <1>3, <3>3, <3>4 DEF Outcome, Accept, Resolve, AckArrives, Fails, Abandon
  <2>4. i = Current(c).id
    BY <2>3 DEF Delete, Put
  <2> QED BY <1>c, <2>1, <2>4
<1>4. ASSUME Trigger PROVE Listed(i)
  <2>1. CASE db' = SetStatus(db, panel.reset, "queued")
    BY <2>1, StatusWritten DEF Listed
  <2>2. CASE db' = SetStatus(db, queueing.victim, "blocked")
    BY <1>a, <2>2, BlocksOrLeaves
  <2>3. CASE db' = db
    BY <2>3
  <2> QED BY <1>4, <2>1, <2>2, <2>3 DEF Trigger, ExternalDrain, PanelTimer, PanelSoon,
     PanelReload, AppTimer, AppAsks, CapList, CapBlock, QueueDone, MountReset, store
<1>5. ASSUME User PROVE Retry(i)
  <2>1. ASSUME NEW kind \in Kinds, NEW at, AddRow(kind, at) PROVE FALSE
    <3>1. nextId \notin DOMAIN db
      BY <1>a DEF IInv, IdInv, TypeOK
    <3> QED BY <2>1, <3>1 DEF AddRow, Insert, NewRow
  <2>2. ASSUME NEW id \in Ids, Retry(id) PROVE Retry(i)
    <3> DEFINE r == [WithStatus(db[id], "queued") EXCEPT !.attempts = 0]
    <3>1. db[id] \in Row /\ db[id].id = id
      BY <1>a, <2>2 DEF Retry, StoreOK
    <3>2. r.id = id
      BY <3>1 DEF WithStatus, Row
    <3>3. db' = Put(db, r) \/ db' = db
      BY <2>2 DEF Retry
    <3> HIDE DEF r
    <3>4. i = id
      BY <3>2, <3>3 DEF Put
    <3> QED BY <2>2, <3>4
  <2>3. ASSUME NEW id \in Ids, Cancel(id) PROVE FALSE
    BY <2>3 DEF Cancel, Delete
  <2> QED BY <1>5, <2>1, <2>2, <2>3, OutboxAssumption
      DEF User, Queue, AppQueue, Mount, Unmount, store
<1>6. ASSUME World PROVE FALSE
  BY <1>6 DEF World, GoOnline, GoOffline, SwitchIdentity, Tick, Crash, store
<1> QED BY <1>1, <1>2, <1>3, <1>4, <1>5, <1>6 DEF Next

(* A blocked row goes back to the queue only when the user retries it, or  *)
(* when someone who had listed it before it was blocked writes it: a pass  *)
(* that has yet to requeue or send it, or ChatPanel's mount reset.         *)
THEOREM BlockedIsFinal == Spec => BlockedStaysBlocked
<1>1. QInv /\ [Next]_vars =>
        [\A i \in DOMAIN db \cap DOMAIN db' :
          db[i].status = "blocked" /\ db'[i].status # "blocked"
            => \/ Retry(i)
               \/ i \in panel.reset
               \/ \E c \in Drainers : \E r \in pass[c].rows \cup pass[c].todo :
                     r.id = i /\ r.status # "blocked"]_vars
  BY BlockedStep DEF Listed
<1> QED BY <1>1, HandsInvariant, PTL DEF Spec, BlockedStaysBlocked

-----------------------------------------------------------------------------
(***************************************************************************)
(* The attempt budget, while no IPC fails and the application does not     *)
(* crash. The tries of a row are at most the attempts that the table has   *)
(* counted, but for the send in flight; so are they for the copies a pass  *)
(* has in its hands, and it is from its copy that a pass judges whether a  *)
(* row may be sent once more and what it writes when the send failed.      *)
(***************************************************************************)
NowSending(c, i) == InFlight(c) /\ ~pass[c].aborted /\ Current(c).id = i

CountInv ==
    /\ budget.faults = 0 /\ budget.crashes = 0
    /\ \A i \in Ids : i >= nextId => hist.tries[i] = 0
    /\ AttemptBudget

StoredInv ==
    \A i \in DOMAIN db : \/ hist.tries[i] <= db[i].attempts
                         \/ \E c \in Drainers : NowSending(c, i)

CopiedInv ==
    \A c \in Drainers : \A r \in pass[c].rows \cup pass[c].todo :
        \/ hist.tries[r.id] <= r.attempts
        \/ /\ InFlight(c) /\ r = Current(c) /\ ~AppManaged(r)
           /\ hist.tries[r.id] <= r.attempts + 1

AbortInv ==
    \A c \in Drainers : pass[c].aborted =>
        InFlight(c) /\ Current(c).id \notin DOMAIN db

BInv == CountInv /\ StoredInv /\ CopiedInv /\ AbortInv
RInv == QInv /\ BInv

(* Without failures every IPC does what was asked of it.                   *)
LEMMA NothingFails ==
    ASSUME RInv
    PROVE  ~Fault /\ ~(budget.faults > 1) /\ ~Crash
BY DEF RInv, BInv, CountInv, Fault, Crash

LEMMA BudgetKept ==
    ASSUME RInv, Next
    PROVE  budget' = budget
<1> USE NothingFails DEF NoFault
<1>1. ASSUME NEW c \in Drainers, DrainStep(c) PROVE budget' = budget
  BY <1>1 DEF DrainStep, StartOffline, List, Recover, Filter, End, Quarantine, Pace, Mark,
     Call
<1>2. ASSUME NEW c \in Drainers, Outcome(c) PROVE budget' = budget
  BY <1>2 DEF Outcome, Accept, Resolve, AckArrives, Fails, Finalize, Abandon,
     RecordFailure
<1>3. CASE Trigger
  BY <1>3 DEF Trigger, ExternalDrain, PanelTimer, PanelSoon, PanelReload, AppTimer,
     AppAsks, CapList, CapBlock, QueueDone, MountReset
<1>4. CASE User
  BY <1>4 DEF User, Queue, AppQueue, Retry, Cancel, Mount, Unmount
<1>5. CASE World
  BY <1>5 DEF World, GoOnline, GoOffline, Tick, SwitchIdentity
<1> QED BY <1>1, <1>2, <1>3, <1>4, <1>5 DEF Next

(* The types the counting needs.                                           *)
LEMMA CountTypes ==
    ASSUME RInv
    PROVE  /\ TypeOK /\ IInv /\ StoreOK(db) /\ hist \in History
           /\ hist.tries \in [Ids -> Nat]
           /\ nextId \in Nat /\ MaxAttempts \in Nat
           /\ \A i \in DOMAIN db : i \in Ids /\ i < nextId /\ db[i].attempts \in Nat
           /\ \A c \in Drainers :
                /\ pass[c] \in Pass /\ Hands(pass[c])
                /\ pass[c].todo # {} => Current(c) \in pass[c].todo
                /\ \A r \in pass[c].rows \cup pass[c].todo :
                      r \in Row /\ r.id \in Ids /\ r.id < nextId /\ r.attempts \in Nat
<1>1. IInv /\ TypeOK /\ StoreOK(db) /\ hist \in History
  BY DEF RInv, QInv, IInv, TypeOK, StoreOK, History
<1>2. /\ hist.tries \in [Ids -> Nat] /\ nextId \in Nat /\ MaxAttempts \in Nat
      /\ nextId <= MaxRows + 1
  BY <1>1, OutboxAssumption, PolicyAssumption DEF History, TypeOK
<1>3. \A i \in DOMAIN db : i \in Ids /\ i < nextId /\ db[i].attempts \in Nat
  BY <1>1, <1>2 DEF IInv, IdInv, StoreOK, Row, Ids
<1>4. ASSUME NEW c \in Drainers
      PROVE  /\ pass[c] \in Pass /\ Hands(pass[c])
             /\ pass[c].todo # {} => Current(c) \in pass[c].todo
             /\ \A r \in pass[c].rows \cup pass[c].todo :
                   r \in Row /\ r.id \in Ids /\ r.id < nextId /\ r.attempts \in Nat
  <2>1. pass[c] \in Pass /\ Hands(pass[c])
    BY <1>1 DEF TypeOK, RInv, QInv, HandsInv
  <2>2. ASSUME NEW r \in pass[c].rows \cup pass[c].todo
        PROVE  r \in Row /\ r.id \in Ids /\ r.id < nextId /\ r.attempts \in Nat
    <3>1. CopyOf(r, db, nextId) /\ r \in Row
      BY <1>1, <2>1 DEF IInv, CopyInv, Pass
    <3> QED BY <1>2, <3>1, OutboxAssumption DEF CopyOf, Ids, Row
  <2> QED BY <1>1, <2>1, <2>2, CurrentType
<1> QED BY <1>1, <1>2, <1>3, <1>4

(* While no send is in flight the counts are exact.                        *)
LEMMA CalmCounts ==
    ASSUME RInv, NEW c \in Drainers, Holds(c), ~InFlight(c)
    PROVE  /\ \A d \in Drainers : ~InFlight(d) /\ ~pass[d].aborted
           /\ \A i \in DOMAIN db : hist.tries[i] <= db[i].attempts
           /\ \A r \in pass[c].rows \cup pass[c].todo : hist.tries[r.id] <= r.attempts
<1>1. ASSUME NEW d \in Drainers PROVE ~InFlight(d) /\ ~pass[d].aborted
  <2>1. ~InFlight(d)
    BY DEF RInv, QInv, IInv, LockInv, Holds, InFlight
  <2> QED BY <2>1 DEF RInv, BInv, AbortInv
<1> QED BY <1>1 DEF RInv, BInv, StoredInv, CopiedInv, NowSending

(* Steps that count nothing and leave the attempts in the table alone.     *)
AttemptsKept ==
    /\ nextId' = nextId
    /\ \A i \in DOMAIN db' : i \in DOMAIN db /\ db'[i].attempts = db[i].attempts

LEMMA AttemptsKeptBySetStatus ==
    ASSUME StoreOK(db), NEW ids, NEW status, nextId' = nextId,
           db' = SetStatus(db, ids, status)
    PROVE  AttemptsKept
<1>1. ASSUME NEW i \in DOMAIN db PROVE WithStatus(db[i], status).attempts = db[i].attempts
  BY DEF StoreOK, WithStatus, Row
<1> QED BY <1>1 DEF SetStatus, AttemptsKept

LEMMA QuietCounts ==
    ASSUME RInv, pass' = pass, budget' = budget, hist' = hist, AttemptsKept
    PROVE  BInv'
<1>1. CountInv'
  BY DEF RInv, BInv, CountInv, AttemptBudget, AttemptsKept
<1>2. \A c \in Drainers : /\ InFlight(c)' = InFlight(c)
                          /\ Current(c)' = Current(c)
  BY DEF InFlight, Current
<1>3. StoredInv'
  BY <1>2 DEF RInv, BInv, StoredInv, NowSending, AttemptsKept
<1>4. CopiedInv'
  BY <1>2 DEF RInv, BInv, CopiedInv
<1>5. AbortInv'
  BY <1>2 DEF RInv, BInv, AbortInv, AttemptsKept
<1> QED BY <1>1, <1>3, <1>4, <1>5 DEF BInv

LEMMA TriggerCounts ==
    ASSUME RInv, Trigger, budget' = budget
    PROVE  BInv'
<1>a. StoreOK(db)
  BY CountTypes
<1>1. pass' = pass /\ hist' = hist /\ nextId' = nextId
  BY DEF Trigger, ExternalDrain, PanelTimer, PanelSoon, PanelReload, AppTimer, AppAsks,
         CapList, CapBlock, QueueDone, MountReset, store
<1>2. \/ db' = db \/ db' = SetStatus(db, queueing.victim, "blocked")
      \/ db' = SetStatus(db, panel.reset, "queued")
  BY DEF Trigger, ExternalDrain, PanelTimer, PanelSoon, PanelReload, AppTimer, AppAsks,
         CapList, CapBlock, QueueDone, MountReset, store
<1>3. AttemptsKept
  BY <1>a, <1>1, <1>2, AttemptsKeptBySetStatus DEF AttemptsKept
<1> QED BY <1>a, <1>1, <1>3, QuietCounts

(* A drain with nothing in flight, before and after its step.              *)
LEMMA CalmStep ==
    ASSUME RInv, NEW c \in Drainers, Holds(c), ~InFlight(c), budget' = budget,
           hist' = hist, AttemptsKept, NEW p, Becomes(c, p),
           p.step \notin {"calling", "awaiting"}, ~p.aborted,
           \A r \in p.rows \cup p.todo : hist.tries[r.id] <= r.attempts
    PROVE  BInv'
<1>a. /\ \A d \in Drainers : ~InFlight(d) /\ ~pass[d].aborted
      /\ \A i \in DOMAIN db : hist.tries[i] <= db[i].attempts
  BY CalmCounts
<1>b. pass'[c] = p /\ \A d \in Drainers \ {c} : pass'[d] = pass[d]
  BY CountTypes DEF Becomes, TypeOK
<1>c. \A d \in Drainers \ {c} : pass[d].rows = {} /\ pass[d].todo = {}
  BY OthersIdle DEF RInv
<1>1. CountInv'
  BY DEF RInv, BInv, CountInv, AttemptBudget, AttemptsKept
<1>2. StoredInv'
  BY <1>a DEF StoredInv, AttemptsKept
<1>3. CopiedInv'
  BY <1>b, <1>c DEF CopiedInv
<1>4. AbortInv'
  BY <1>a, <1>b DEF AbortInv
<1> QED BY <1>1, <1>2, <1>3, <1>4 DEF BInv

LEMMA DrainStepCounts ==
    ASSUME RInv, NEW c \in Drainers, DrainStep(c), ~Call(c), budget' = budget
    PROVE  BInv'
<1> USE DEF env, store
<1>a. /\ IInv /\ TypeOK /\ StoreOK(db) /\ pass[c] \in Pass
      /\ hist.tries \in [Ids -> Nat] /\ Hands(pass[c])
      /\ \A r \in pass[c].rows : r \in Row /\ r.id \in Ids /\ r.attempts \in Nat
  BY CountTypes
<1>b. ~InFlight(c) /\ Holds(c)
  <2>1. ~InFlight(c)
    BY DEF DrainStep, StartOffline, List, Recover, Filter, End, Quarantine, Pace, Mark,
       Call, AtRow, InFlight
  <2> QED BY <1>a, <2>1, DrainStepFrame DEF DrainFrame
<1>c. /\ ~pass[c].aborted
      /\ \A i \in DOMAIN db : hist.tries[i] <= db[i].attempts
      /\ \A r \in pass[c].rows \cup pass[c].todo : hist.tries[r.id] <= r.attempts
  BY <1>b, CalmCounts
<1>d. ~(Fault /\ Reject(c))
  BY NothingFails
<1>e. hist' = hist /\ nextId' = nextId
  BY DEF DrainStep, StartOffline, List, Recover, Filter, End, Quarantine, Pace, Mark,
         Reject
<1>f. AttemptsKept
  <2>1. db' = db \/ \E ids, status : db' = SetStatus(db, ids, status)
    BY DEF DrainStep, StartOffline, List, Recover, Filter, End, Quarantine, Pace, Mark,
           Reject
  <2> QED BY <1>a, <1>e, <2>1, AttemptsKeptBySetStatus DEF AttemptsKept
<1>g. \E p : /\ Becomes(c, p) /\ p.step \notin {"calling", "awaiting"} /\ ~p.aborted
             /\ \A r \in p.rows \cup p.todo : hist.tries[r.id] <= r.attempts
  <2>1. CASE StartOffline(c) \/ End(c)
    BY <2>1 DEF StartOffline, End, Finish, IdlePass
  <2>2. CASE List(c)
    <3> DEFINE p == [pass[c] EXCEPT !.step = "listed", !.rows = Rows]
    <3>1. /\ p.step = "listed" /\ p.rows = Rows /\ p.todo = pass[c].todo
          /\ p.aborted = pass[c].aborted
      BY <1>a DEF Pass
    <3>2. Becomes(c, p)
      BY <2>2, <1>d DEF List
    <3>3. \A r \in Rows : hist.tries[r.id] <= r.attempts
      BY <1>a, <1>c, RowsType
    <3> HIDE DEF p
    <3> QED BY <1>c, <3>1, <3>2, <3>3
  <2>3. CASE Recover(c)
    <3> DEFINE p == [pass[c] EXCEPT !.step = "recovered",
                                    !.rows = {Requeued(r) : r \in pass[c].rows}]
    <3>1. /\ p.step = "recovered" /\ p.rows = {Requeued(r) : r \in pass[c].rows}
          /\ p.todo = pass[c].todo /\ p.aborted = pass[c].aborted
      BY <1>a DEF Pass
    <3>2. Becomes(c, p)
      BY <2>3, <1>d DEF Recover
    <3>3. \A r \in pass[c].rows :
             Requeued(r).id = r.id /\ Requeued(r).attempts = r.attempts
      BY <1>a DEF Requeued, WithStatus, Row
    <3> HIDE DEF p
    <3> QED BY <1>c, <3>1, <3>2, <3>3
  <2>4. CASE Filter(c)
    <3> DEFINE todo == {r \in pass[c].rows : /\ Eligible(r, now)
                                             /\ MatchesIdentity(r, identity)
                                             /\ c = "app" => AppDrained(r)}
               p == [pass[c] EXCEPT !.step = "picked", !.rows = {},
                         !.retries = RetryTimes(pass[c].rows), !.todo = todo]
    <3>1. /\ p.step = "picked" /\ p.rows = {} /\ p.todo = todo
          /\ p.aborted = pass[c].aborted
      BY <1>a DEF Pass
    <3>2. Becomes(c, p) /\ todo \subseteq pass[c].rows
      BY <2>4 DEF Filter
    <3> HIDE DEF p, todo
    <3> QED BY <1>c, <3>1, <3>2
  <2>5. CASE Quarantine(c) \/ Pace(c) \/ Mark(c)
    <3>1. PICK p \in {[pass[c] EXCEPT !.step = "next", !.attempted = TRUE,
                                      !.todo = @ \ {Current(c)}],
                      [pass[c] EXCEPT !.step = "pacing", !.attempted = TRUE],
                      [pass[c] EXCEPT !.step = "marking", !.attempted = TRUE]} :
             Becomes(c, p)
      BY <2>5, <1>d DEF Quarantine, Pace, Mark
    <3>2. /\ p.step \in {"next", "pacing", "marking"} /\ p.rows = pass[c].rows
          /\ p.todo \subseteq pass[c].todo /\ p.aborted = pass[c].aborted
      BY <1>a, <3>1, ZenonT(120) DEF Pass
    <3> QED BY <1>c, <3>1, <3>2
  <2> QED BY <2>1, <2>2, <2>3, <2>4, <2>5 DEF DrainStep
<1> QED BY <1>b, <1>e, <1>f, <1>g, CalmStep

(* One more try of the row in hand, which its copy allows.                 *)
LEMMA CallCounts ==
    ASSUME RInv, NEW c \in Drainers, Call(c), budget' = budget
    PROVE  BInv'
<1> DEFINE r0 == Current(c)
           p == [pass[c] EXCEPT !.step = "calling"]
           n == IF AppManaged(r0) THEN 0 ELSE hist.tries[r0.id] + 1
<1>a. /\ IInv /\ TypeOK /\ pass[c] \in Pass /\ hist \in History
      /\ hist.tries \in [Ids -> Nat] /\ nextId \in Nat /\ MaxAttempts \in Nat
      /\ Hands(pass[c]) /\ pass[c].step = "marking" /\ pass[c].todo # {}
      /\ \A i \in DOMAIN db : i \in Ids /\ db[i].attempts \in Nat
      /\ \A r \in pass[c].todo : r.id \in Ids /\ r.id < nextId /\ r.attempts \in Nat
  BY CountTypes DEF Call, IInv, WorkInv
<1>b. ~InFlight(c) /\ Holds(c)
  BY <1>a DEF InFlight, IInv, LockInv
<1>c. /\ \A d \in Drainers : ~InFlight(d) /\ ~pass[d].aborted
      /\ \A i \in DOMAIN db : hist.tries[i] <= db[i].attempts
      /\ \A r \in pass[c].rows \cup pass[c].todo : hist.tries[r.id] <= r.attempts
  BY <1>b, CalmCounts
<1>d. r0 \in pass[c].todo /\ MaySend(r0)
  BY <1>a, CountTypes DEF Hands
<1>1. /\ Becomes(c, p) /\ db' = db /\ nextId' = nextId
      /\ hist'.tries = [hist.tries EXCEPT ![r0.id] = n]
  BY <1>a DEF Call, History, store
<1>2. pass'[c] = p /\ \A d \in Drainers \ {c} : pass'[d] = pass[d]
  BY <1>a, <1>1 DEF Becomes, TypeOK
<1>3. /\ p.step = "calling" /\ p.rows = pass[c].rows /\ p.todo = pass[c].todo
      /\ p.aborted = pass[c].aborted
  BY <1>a DEF Pass
<1>4. InFlight(c)' /\ Current(c)' = r0 /\ ~pass'[c].aborted
  BY <1>2, <1>3, <1>c DEF InFlight, Current
<1>5. /\ n \in Nat /\ n <= MaxAttempts
      /\ IF AppManaged(r0) THEN n <= r0.attempts ELSE n <= r0.attempts + 1
  BY <1>a, <1>c, <1>d DEF MaySend
<1>6. /\ hist'.tries[r0.id] = n
      /\ \A i \in Ids : i # r0.id => hist'.tries[i] = hist.tries[i]
  BY <1>a, <1>d, <1>1
<1> HIDE DEF p, n, r0
<1>7. CountInv'
  <2>1. \A i \in Ids : i >= nextId => i # r0.id
    BY <1>a, <1>d, OutboxAssumption DEF Ids
  <2>2. \A i \in Ids : i >= nextId => hist'.tries[i] = 0
    BY <1>6, <2>1 DEF RInv, BInv, CountInv
  <2>3. \A i \in Ids : hist'.tries[i] <= MaxAttempts
    BY <1>5, <1>6 DEF RInv, BInv, CountInv, AttemptBudget
  <2> QED BY <1>1, <2>2, <2>3 DEF RInv, BInv, CountInv, AttemptBudget
<1>8. StoredInv'
  BY <1>a, <1>c, <1>1, <1>4, <1>6 DEF StoredInv, NowSending
<1>9. CopiedInv'
  <2>1. \A d \in Drainers \ {c} : pass[d].rows = {} /\ pass[d].todo = {}
    BY <1>b, OthersIdle DEF RInv
  <2>2. pass[c].rows = {}
    BY <1>a DEF Hands
  <2>3. ASSUME NEW r \in pass[c].todo
        PROVE  \/ hist'.tries[r.id] <= r.attempts
               \/ r = r0 /\ ~AppManaged(r) /\ hist'.tries[r.id] <= r.attempts + 1
    <3>1. CASE r = r0
      BY <3>1, <1>5, <1>6
    <3>2. CASE r # r0
      <4>1. r.id # r0.id
        BY <3>2, <1>a, <1>d DEF Hands, UniqueIds
      <4> QED BY <4>1, <1>a, <1>c, <1>6
    <3> QED BY <3>1, <3>2
  <2> QED BY <1>2, <1>3, <1>4, <2>1, <2>2, <2>3 DEF CopiedInv
<1>10. AbortInv'
  BY <1>2, <1>3, <1>c DEF AbortInv
<1> QED BY <1>7, <1>8, <1>9, <1>10 DEF BInv

LEMMA AcceptCounts ==
    ASSUME RInv, NEW c \in Drainers, Accept(c)
    PROVE  BInv'
<1>a. /\ TypeOK /\ pass[c] \in Pass /\ hist \in History
      /\ hist.tries \in [Ids -> Nat]
  BY CountTypes
<1> DEFINE p == [pass[c] EXCEPT !.step = "awaiting"]
<1>1. /\ Becomes(c, p) /\ db' = db /\ nextId' = nextId /\ budget' = budget
      /\ hist'.tries = hist.tries /\ InFlight(c)
  BY <1>a DEF Accept, Settled, History, InFlight
<1>2. pass'[c] = p /\ \A d \in Drainers \ {c} : pass'[d] = pass[d]
  BY <1>a, <1>1 DEF Becomes, TypeOK
<1>3. /\ p.step = "awaiting" /\ p.rows = pass[c].rows /\ p.todo = pass[c].todo
      /\ p.aborted = pass[c].aborted
  BY <1>a DEF Pass
<1> HIDE DEF p
<1>4. ASSUME NEW d \in Drainers
      PROVE  /\ InFlight(d)' = InFlight(d) /\ Current(d)' = Current(d)
             /\ pass'[d].rows = pass[d].rows /\ pass'[d].todo = pass[d].todo
             /\ pass'[d].aborted = pass[d].aborted
  <2>1. CASE d = c
    BY <1>1, <1>2, <1>3, <2>1 DEF InFlight, Current
  <2>2. CASE d # c
    BY <1>2, <2>2 DEF InFlight, Current
  <2> QED BY <2>1, <2>2
<1>5. CountInv'
  BY <1>1 DEF RInv, BInv, CountInv, AttemptBudget
<1>6. StoredInv'
  BY <1>1, <1>4 DEF RInv, BInv, StoredInv, NowSending
<1>7. CopiedInv'
  BY <1>1, <1>4 DEF RInv, BInv, CopiedInv
<1>8. AbortInv'
  BY <1>1, <1>4 DEF RInv, BInv, AbortInv
<1> QED BY <1>5, <1>6, <1>7, <1>8 DEF BInv

(* A failed attempt is counted: the count does not saturate below the      *)
(* budget.                                                                 *)
LEMMA BumpCounts ==
    ASSUME NEW n \in Nat
    PROVE  /\ Bump(n) \in Nat /\ n <= Bump(n)
           /\ n < MaxAttempts => Bump(n) = n + 1
<1>1. CountCeiling \in Nat /\ MaxAttempts \in Nat /\ MaxAttempts <= CountCeiling
  <2>1. /\ MaxAttempts \in Nat
        /\ Len(NormalDelays) \in Nat /\ Len(EmergencyDelays) \in Nat
    BY PolicyAssumption
  <2> QED BY <2>1 DEF CountCeiling
<1> QED BY <1>1 DEF Bump

(* The send is over: its row is gone, or the attempt is in the table.      *)
LEMMA OutcomeCounts ==
    ASSUME RInv, NEW c \in Drainers, Resolve(c) \/ AckArrives(c) \/ Fails(c),
           budget' = budget
    PROVE  BInv'
<1> DEFINE r0 == Current(c)
<1>a. /\ IInv /\ TypeOK /\ pass[c] \in Pass /\ hist \in History /\ StoreOK(db)
      /\ hist.tries \in [Ids -> Nat] /\ Hands(pass[c])
      /\ InFlight(c) /\ pass[c].todo # {}
      /\ \A i \in DOMAIN db : i \in Ids /\ db[i].attempts \in Nat
      /\ \A r \in pass[c].todo : r.id \in Ids /\ r.attempts \in Nat
  <2>1. InFlight(c)
    BY DEF Resolve, AckArrives, Fails, InFlight
  <2> QED BY <2>1, CountTypes DEF InFlight, IInv, WorkInv
<1>b. r0 \in pass[c].todo /\ r0 \in Row /\ MaySend(r0) /\ Holds(c)
  BY <1>a, CountTypes, CurrentType DEF Hands, InFlight, IInv, LockInv
<1>c. \A d \in Drainers \ {c} :
        ~InFlight(d) /\ ~pass[d].aborted /\ pass[d].rows = {} /\ pass[d].todo = {}
  <2>1. \A d \in Drainers \ {c} : ~InFlight(d)
    BY <1>a, <1>b DEF IInv, LockInv, Holds, InFlight
  <2> QED BY <1>b, <2>1, OthersIdle DEF RInv, BInv, AbortInv
<1>1. PICK retries \in SUBSET Time : RowDone(c, retries)
  BY <1>a, OutcomeStore
<1> DEFINE p == [pass[c] EXCEPT !.step = "next", !.retries = @ \cup retries,
                     !.todo = @ \ {Current(c)}, !.aborted = FALSE]
<1>2. pass'[c] = p /\ \A d \in Drainers \ {c} : pass'[d] = pass[d]
  BY <1>a, <1>1 DEF RowDone, Becomes, TypeOK
<1>3. /\ p.step = "next" /\ p.rows = pass[c].rows /\ p.todo = pass[c].todo \ {r0}
      /\ p.aborted = FALSE
  BY <1>a DEF Pass
<1>4. hist'.tries = hist.tries /\ nextId' = nextId
  BY <1>a DEF Resolve, AckArrives, Fails, Settled, History
<1> HIDE DEF p
<1>5. /\ DOMAIN db' \subseteq DOMAIN db
      /\ \A i \in DOMAIN db' : hist.tries[i] <= db'[i].attempts
  <2>1. \A i \in DOMAIN db : hist.tries[i] <= db[i].attempts \/ NowSending(c, i)
    BY <1>c DEF RInv, BInv, StoredInv, NowSending
  <2>2. CASE pass[c].aborted
    <3>1. db' = db
      BY <2>2 DEF Resolve, AckArrives, Fails, Abandon
    <3> QED BY <2>1, <2>2, <3>1 DEF NowSending
  <2>3. CASE ~pass[c].aborted /\ Finalize(c)
    <3>1. db' = Delete(db, r0.id)
      BY <2>3, NothingFails DEF Finalize
    <3> QED BY <2>1, <3>1 DEF Delete, NowSending
  <2>4. CASE ~pass[c].aborted /\ \E b \in BOOLEAN : RecordFailure(c, b)
    <3>1. PICK b \in BOOLEAN : db' = Put(db, Failed(r0, b, now))
      BY <2>4, NothingFails DEF RecordFailure
    <3> DEFINE f == Failed(r0, b, now)
    <3>2. f.id = r0.id /\ f.attempts = Bump(r0.attempts)
      BY <1>b DEF Failed, Row
    <3>3. hist.tries[r0.id] <= Bump(r0.attempts)
      <4>1. \/ hist.tries[r0.id] <= r0.attempts
            \/ ~AppManaged(r0) /\ hist.tries[r0.id] <= r0.attempts + 1
        BY <1>b DEF RInv, BInv, CopiedInv
      <4>2. /\ r0.attempts \in Nat /\ hist.tries[r0.id] \in Nat
            /\ ~AppManaged(r0) => r0.attempts < MaxAttempts
        BY <1>a, <1>b DEF MaySend
      <4> QED BY <4>1, <4>2, BumpCounts
    <3> HIDE DEF f
    <3>4. \A i \in DOMAIN db' : i \in DOMAIN db /\ db'[i] = IF i = r0.id THEN f ELSE db[i]
      BY <3>1, <3>2 DEF Put, f
    <3> QED BY <2>1, <3>2, <3>3, <3>4 DEF NowSending
  <2> QED BY <2>2, <2>3, <2>4 DEF Resolve, AckArrives, Fails
<1>6. CountInv'
  BY <1>4 DEF RInv, BInv, CountInv, AttemptBudget
<1>7. StoredInv'
  BY <1>4, <1>5 DEF StoredInv
<1>8. CopiedInv'
  <2>1. \A r \in p.rows \cup p.todo : r \in pass[c].rows \cup pass[c].todo
    BY <1>3
  <2>2. pass[c].rows = {}
    BY <1>a DEF Hands, InFlight
  <2>3. \A r \in p.rows \cup p.todo : hist.tries[r.id] <= r.attempts
    BY <1>3, <2>1, <2>2 DEF RInv, BInv, CopiedInv
  <2> QED BY <1>2, <1>4, <1>c, <2>3 DEF CopiedInv
<1>9. AbortInv'
  BY <1>2, <1>3, <1>c DEF AbortInv
<1> QED BY <1>6, <1>7, <1>8, <1>9 DEF BInv

(* A new row has not been tried.                                           *)
LEMMA AddRowCounts ==
    ASSUME RInv, NEW kind \in Kinds, NEW at \in Time, AddRow(kind, at),
           pass' = pass, hist' = hist, budget' = budget
    PROVE  BInv'
<1>a. /\ TypeOK /\ nextId \in Nat /\ hist.tries \in [Ids -> Nat]
      /\ nextId \notin DOMAIN db
      /\ \A c \in Drainers : \A r \in pass[c].rows \cup pass[c].todo : r.id < nextId
  BY CountTypes
<1>b. nextId \in Ids /\ nextId' = nextId + 1
  BY <1>a, AddRowType
<1>1. /\ DOMAIN db' = DOMAIN db \cup {nextId}
      /\ db'[nextId].attempts = 0
      /\ \A i \in DOMAIN db : db'[i] = db[i]
  BY <1>a DEF AddRow, Insert, NewRow
<1>2. hist.tries[nextId] = 0
  BY <1>a, <1>b DEF RInv, BInv, CountInv
<1>3. CountInv'
  <2>1. \A i \in Ids : i >= nextId + 1 => i >= nextId
    BY <1>a, OutboxAssumption DEF Ids
  <2> QED BY <1>b, <2>1 DEF RInv, BInv, CountInv, AttemptBudget
<1>4. \A c \in Drainers : InFlight(c)' = InFlight(c) /\ Current(c)' = Current(c)
  BY DEF InFlight, Current
<1>5. StoredInv'
  BY <1>1, <1>2, <1>4 DEF RInv, BInv, StoredInv, NowSending
<1>6. CopiedInv'
  BY <1>4 DEF RInv, BInv, CopiedInv
<1>7. AbortInv'
  <2>1. \A c \in Drainers : InFlight(c) => Current(c).id # nextId
    <3>1. \A c \in Drainers : InFlight(c) => Current(c) \in pass[c].todo
      BY CountTypes DEF InFlight, IInv, WorkInv
    <3> QED BY <1>a, <3>1
  <2> QED BY <1>1, <1>4, <2>1 DEF RInv, BInv, AbortInv
<1> QED BY <1>3, <1>5, <1>6, <1>7 DEF BInv

(* Retry starts the count anew, in the table and in the history.           *)
LEMMA RetryCounts ==
    ASSUME RInv, NEW id \in Ids, Retry(id), budget' = budget
    PROVE  BInv'
<1> DEFINE r0 == [WithStatus(db[id], "queued") EXCEPT !.attempts = 0]
<1>a. /\ TypeOK /\ StoreOK(db) /\ hist \in History /\ hist.tries \in [Ids -> Nat]
      /\ id \in DOMAIN db /\ MaxAttempts \in Nat
      /\ \A c \in Drainers : \A r \in pass[c].rows \cup pass[c].todo :
            r.id \in Ids /\ r.attempts \in Nat
  BY CountTypes DEF Retry
<1>1. /\ pass' = pass /\ nextId' = nextId /\ db' = Put(db, r0)
      /\ hist'.tries = [hist.tries EXCEPT ![id] = 0]
  BY <1>a, NothingFails DEF Retry, History
<1>2. r0.id = id /\ r0.attempts = 0
  BY <1>a DEF StoreOK, WithStatus, Row
<1> HIDE DEF r0
<1>3. /\ DOMAIN db' = DOMAIN db /\ db'[id].attempts = 0
      /\ \A i \in DOMAIN db : i # id => db'[i] = db[i]
  BY <1>a, <1>1, <1>2 DEF Put
<1>4. /\ hist'.tries[id] = 0
      /\ \A i \in Ids : i # id => hist'.tries[i] = hist.tries[i]
  BY <1>a, <1>1
<1>5. \A c \in Drainers : InFlight(c)' = InFlight(c) /\ Current(c)' = Current(c)
  BY <1>1 DEF InFlight, Current
<1>6. CountInv'
  BY <1>a, <1>1, <1>4 DEF RInv, BInv, CountInv, AttemptBudget
<1>7. StoredInv'
  <2>1. \A i \in DOMAIN db : i \in Ids
    BY <1>a DEF StoreOK
  <2> QED BY <1>1, <1>3, <1>4, <1>5, <2>1 DEF RInv, BInv, StoredInv, NowSending
<1>8. CopiedInv'
  <2>1. ASSUME NEW c \in Drainers, NEW r \in pass[c].rows \cup pass[c].todo
        PROVE  \/ hist'.tries[r.id] <= r.attempts
               \/ /\ InFlight(c) /\ r = Current(c) /\ ~AppManaged(r)
                  /\ hist'.tries[r.id] <= r.attempts + 1
    <3>1. CASE r.id = id
      BY <1>a, <1>4, <3>1
    <3>2. CASE r.id # id
      BY <1>a, <1>4, <3>2 DEF RInv, BInv, CopiedInv
    <3> QED BY <3>1, <3>2
  <2> QED BY <1>1, <1>5, <2>1 DEF CopiedInv
<1>9. AbortInv'
  BY <1>1, <1>3, <1>5 DEF RInv, BInv, AbortInv
<1> QED BY <1>6, <1>7, <1>8, <1>9 DEF BInv

(* A cancelled row leaves the table; its send, if it is in flight, writes  *)
(* nothing when it settles.                                                *)
LEMMA CancelCounts ==
    ASSUME RInv, NEW id \in Ids, Cancel(id), budget' = budget
    PROVE  BInv'
<1>a. /\ IInv /\ TypeOK /\ hist \in History /\ hist.tries \in [Ids -> Nat]
      /\ id \in DOMAIN db
      /\ \A c \in Drainers : pass[c] \in Pass
  BY CountTypes DEF Cancel
<1>1. /\ nextId' = nextId /\ db' = Delete(db, id) /\ hist'.tries = hist.tries
      /\ \A c \in Drainers : pass'[c] = Cancelled(pass[c], id)
  BY <1>a, NothingFails DEF Cancel, History
<1>2. DOMAIN db' = DOMAIN db \ {id} /\ \A i \in DOMAIN db' : db'[i] = db[i]
  BY <1>1 DEF Delete
(* What becomes of a pass.                                                 *)
<1>3. ASSUME NEW c \in Drainers
      PROVE  \/ /\ pass'[c] = pass[c] /\ (InFlight(c) => Current(c).id # id)
             \/ /\ InFlight(c) /\ Current(c).id = id /\ pass'[c].step = "next"
                /\ pass'[c].rows = pass[c].rows
                /\ pass'[c].todo = {s \in pass[c].todo : s.id # id}
                /\ pass'[c].aborted = pass[c].aborted
             \/ /\ InFlight(c) /\ Current(c).id = id /\ pass'[c].step = pass[c].step
                /\ pass'[c].rows = pass[c].rows /\ pass'[c].todo = pass[c].todo
                /\ pass'[c].aborted
  <2> DEFINE ended == [pass[c] EXCEPT !.step = "next",
                                      !.todo = {s \in @ : s.id # id}]
             aborted == [pass[c] EXCEPT !.aborted = TRUE]
  <2>1. /\ ended.step = "next" /\ ended.rows = pass[c].rows
        /\ ended.todo = {s \in pass[c].todo : s.id # id}
        /\ ended.aborted = pass[c].aborted
    BY <1>a DEF Pass
  <2>2. /\ aborted.step = pass[c].step /\ aborted.rows = pass[c].rows
        /\ aborted.todo = pass[c].todo /\ aborted.aborted
    BY <1>a DEF Pass
  <2>3. \/ /\ pass'[c] = pass[c] /\ (InFlight(c) => Current(c).id # id)
        \/ pass'[c] = ended /\ InFlight(c) /\ Current(c).id = id
        \/ pass'[c] = aborted /\ InFlight(c) /\ Current(c).id = id
    BY <1>1 DEF Cancelled, InFlight, Current
  <2> HIDE DEF ended, aborted
  <2> QED BY <2>1, <2>2, <2>3
<1>4. \A c \in Drainers : pass[c].aborted /\ InFlight(c) => Current(c).id # id
  BY <1>a DEF RInv, BInv, AbortInv
<1>5. CountInv'
  BY <1>1 DEF RInv, BInv, CountInv, AttemptBudget
<1>6. StoredInv'
  <2>1. ASSUME NEW c \in Drainers, NEW i, i # id, NowSending(c, i)
        PROVE  NowSending(c, i)'
    BY <1>3, <2>1 DEF NowSending, InFlight, Current
  <2> QED BY <1>1, <1>2, <2>1 DEF RInv, BInv, StoredInv
<1>7. CopiedInv'
  <2>1. ASSUME NEW c \in Drainers, NEW r \in pass'[c].rows \cup pass'[c].todo
        PROVE  \/ hist.tries[r.id] <= r.attempts
               \/ /\ InFlight(c)' /\ r = Current(c)' /\ ~AppManaged(r)
                  /\ hist.tries[r.id] <= r.attempts + 1
    <3>1. r \in pass[c].rows \cup pass[c].todo
      BY <1>3
    <3>2. \/ hist.tries[r.id] <= r.attempts
          \/ /\ InFlight(c) /\ r = Current(c) /\ ~AppManaged(r)
             /\ hist.tries[r.id] <= r.attempts + 1
      BY <3>1 DEF RInv, BInv, CopiedInv
    <3>3. CASE pass'[c].step = pass[c].step /\ pass'[c].todo = pass[c].todo
      BY <3>2, <3>3 DEF InFlight, Current
    <3>4. CASE /\ InFlight(c) /\ Current(c).id = id
               /\ pass'[c].rows = pass[c].rows
               /\ pass'[c].todo = {s \in pass[c].todo : s.id # id}
      <4>1. pass[c].rows = {}
        BY <3>4, CountTypes DEF Hands, InFlight
      <4>2. r # Current(c)
        BY <3>4, <4>1
      <4> QED BY <3>2, <4>2
    <3> QED BY <1>3, <3>3, <3>4
  <2> QED BY <1>1, <2>1 DEF CopiedInv
<1>8. AbortInv'
  <2>1. ASSUME NEW c \in Drainers, pass'[c].aborted
        PROVE  InFlight(c)' /\ Current(c)'.id \notin DOMAIN db'
    <3>1. pass[c].aborted => InFlight(c) /\ Current(c).id \notin DOMAIN db
      BY DEF RInv, BInv, AbortInv
    <3> QED BY <1>2, <1>3, <1>4, <2>1, <3>1 DEF InFlight, Current
  <2> QED BY <2>1 DEF AbortInv
<1> QED BY <1>5, <1>6, <1>7, <1>8 DEF BInv

LEMMA StepCounts ==
    ASSUME RInv, [Next]_vars
    PROVE  BInv'
<1>a. TypeOK /\ IInv /\ hist \in History /\ Never \in Time
  BY CountTypes DEF Time
<1>1. CASE UNCHANGED vars
  BY <1>1, QuietCounts DEF vars, AttemptsKept
<1>b. CASE Next
  <2>1. budget' = budget
    BY <1>b, BudgetKept
  <2>2. ASSUME NEW c \in Drainers, DrainStep(c) PROVE BInv'
    BY <2>1, <2>2, DrainStepCounts, CallCounts
  <2>3. ASSUME NEW c \in Drainers, Outcome(c) PROVE BInv'
    BY <2>1, <2>3, AcceptCounts, OutcomeCounts DEF Outcome
  <2>4. ASSUME Trigger PROVE BInv'
    BY <2>1, <2>4, TriggerCounts
  <2>5. ASSUME NEW kind \in PanelKinds, Queue(kind) PROVE BInv'
    <3>1. kind \in Kinds /\ pass' = pass /\ hist' = hist
      BY <2>5, OutboxAssumption DEF Queue
    <3>2. \E at \in Time : AddRow(kind, at)
      <4>1. \A t \in (now + 1)..MaxTime : t \in Time
        BY <1>a DEF TypeOK, Time
      <4> QED BY <2>5, <1>a, <4>1 DEF Queue
    <3> QED BY <2>1, <3>1, <3>2, AddRowCounts
  <2>6. ASSUME NEW kind \in AppKinds, AppQueue(kind) PROVE BInv'
    <3>1. kind \in Kinds
      BY OutboxAssumption
    <3> QED BY <1>a, <2>1, <2>6, <3>1, AddRowCounts DEF AppQueue
  <2>7. ASSUME NEW id \in Ids, Retry(id) \/ Cancel(id) PROVE BInv'
    BY <2>1, <2>7, RetryCounts, CancelCounts
  <2>8. CASE Mount \/ Unmount \/ World
    <3>1. pass' = pass /\ hist' = hist /\ db' = db /\ nextId' = nextId
      BY <2>8, NothingFails DEF Mount, Unmount, World, GoOnline, GoOffline, Tick,
         SwitchIdentity, store
    <3> QED BY <2>1, <3>1, QuietCounts DEF AttemptsKept
  <2> QED BY <1>b, <2>2, <2>3, <2>4, <2>5, <2>6, <2>7, <2>8 DEF Next, User
<1> QED BY <1>1, <1>b

(* Whoever drains a chat message and however often ChatPanel remounts, it  *)
(* is attempted at most MAX_ATTEMPTS times between two manual retries, as  *)
(* long as no IPC fails and the application does not crash. A report has   *)
(* no budget: it is retried until it is acknowledged.                      *)
THEOREM AttemptsAreBounded ==
    ASSUME MaxFaults = 0, MaxCrashes = 0
    PROVE  Spec => []AttemptBudget
<1>1. Init => BInv
  <2> SUFFICES ASSUME Init PROVE BInv
    OBVIOUS
  <2>1. CountInv
    BY PolicyAssumption DEF Init, CountInv, AttemptBudget
  <2>2. ASSUME NEW i \in DOMAIN db PROVE db[i].attempts = 0 /\ i \in Ids
    BY OutboxAssumption DEF Init, NewRow, Ids
  <2>3. StoredInv
    BY <2>2 DEF Init, StoredInv
  <2>4. CopiedInv /\ AbortInv
    BY DEF Init, IdlePass, CopiedInv, AbortInv
  <2> QED BY <2>1, <2>3, <2>4 DEF BInv
<1>2. QInv /\ BInv /\ [Next]_vars => BInv'
  BY StepCounts DEF RInv
<1>3. BInv => AttemptBudget
  BY DEF BInv, CountInv
<1> QED BY <1>1, <1>2, <1>3, HandsInvariant, PTL DEF Spec

-----------------------------------------------------------------------------
(***************************************************************************)
(* The App-level drain left to itself: no ChatPanel is mounted and no IPC  *)
(* fails. While the radio is up, either another pass is owed (asked for,   *)
(* queued, or yet to list the table), or the pass under way minds every    *)
(* stored row, or, with nothing under way, the timer does.                 *)
(***************************************************************************)
Alone ==
    /\ budget.faults = 0
    /\ panel = FreshPanel /\ queueing = NotQueueing
    /\ \A i \in DOMAIN lock : lock[i] = "app"

Again ==
    \/ app.ask
    \/ Len(lock) >= 2
    \/ lock # <<>> /\ pass["app"].step = "idle"

Fresh(r) == AppManaged(r) /\ r.status = "queued" /\ r.attempts = 0
Later(r) == AppDrained(r) /\ Waiting(r) /\ r.retryAt > now

AtRest ==
    \A i \in DOMAIN db :
        /\ ~ (Fresh(db[i]) /\ MatchesIdentity(db[i], identity))
        /\ Later(db[i]) => app.timer # Never /\ app.timer <= db[i].retryAt

Listing == \A i \in DOMAIN db : db[i] \in pass["app"].rows

AtWork ==
    /\ \A r \in pass["app"].todo : MatchesIdentity(r, identity)
    /\ \A i \in DOMAIN db :
        /\ Fresh(db[i]) /\ MatchesIdentity(db[i], identity) => db[i] \in pass["app"].todo
        /\ Later(db[i]) => db[i].retryAt \in pass["app"].retries

Tended ==
    /\ lock = <<>> => AtRest
    /\ pass["app"].step \in {"listed", "recovered"} => Listing
    /\ pass["app"].step \in Working => AtWork

QueuedIsDue == \A i \in DOMAIN db : db[i].status = "queued" => db[i].retryAt = Never
AbortedIsGone ==
    pass["app"].aborted => InFlight("app") /\ Current("app").id \notin DOMAIN db

TInv == Alone /\ QueuedIsDue /\ AbortedIsGone /\ (online /\ ~Again => Tended)
VInv == QInv /\ TInv

LEMMA AloneFacts ==
    ASSUME VInv
    PROVE  /\ IInv /\ TypeOK /\ StoreOK(db) /\ lock \in Seq(Drainers)
           /\ "app" \in Drainers /\ pass \in [Drainers -> Pass]
           /\ pass["app"] \in Pass /\ Hands(pass["app"]) /\ ~Holds("panel")
           /\ lock = <<>> => pass["app"].step = "idle"
           /\ ~Fault /\ ~(budget.faults > 1)
           /\ ~panel.mounted /\ panel.timer = Never /\ ~panel.soon /\ ~panel.reload
           /\ panel.reset = {} /\ queueing.step = "idle"
<1>1. IInv /\ TypeOK /\ StoreOK(db) /\ "app" \in Drainers /\ lock \in Seq(Drainers)
  BY DEF VInv, QInv, IInv, TypeOK, StoreOK, Drainers
<1>2. pass \in [Drainers -> Pass] /\ pass["app"] \in Pass /\ Hands(pass["app"])
  BY <1>1 DEF TypeOK, VInv, QInv, HandsInv
<1>3. ~Holds("panel")
  <2>1. SUFFICES ASSUME lock # <<>> PROVE Head(lock) # "panel"
    BY DEF Holds
  <2>2. 1 \in DOMAIN lock /\ Head(lock) = lock[1]
    BY <1>1, <2>1
  <2> QED BY <2>2 DEF VInv, TInv, Alone
<1>4. lock = <<>> => pass["app"].step = "idle"
  BY <1>1 DEF IInv, LockInv, Holds
<1>5. ~Fault /\ ~(budget.faults > 1)
  BY DEF VInv, TInv, Alone, Fault
<1>6. /\ ~panel.mounted /\ panel.timer = Never /\ ~panel.soon /\ ~panel.reload
      /\ panel.reset = {} /\ queueing.step = "idle"
  BY DEF VInv, TInv, Alone, FreshPanel, NotQueueing
<1> QED BY <1>1, <1>2, <1>3, <1>4, <1>5, <1>6

(* What can happen without a ChatPanel.                                    *)
AppMoves ==
    \/ DrainStep("app") \/ Outcome("app")
    \/ ExternalDrain \/ AppTimer \/ AppAsks
    \/ \E kind \in AppKinds : AppQueue(kind)
    \/ \E id \in Ids : Cancel(id)
    \/ World

LEMMA AloneMoves ==
    ASSUME VInv, PanelLife = "never", Next
    PROVE  AppMoves
<1>1. ASSUME NEW c \in Drainers, DrainStep(c) \/ Outcome(c) PROVE AppMoves
  <2>1. Holds(c)
    BY <1>1, AloneFacts, DrainStepFrame, OutcomeFrame DEF DrainFrame
  <2>2. c = "app"
    BY <2>1, AloneFacts DEF Drainers
  <2> QED BY <1>1, <2>2 DEF AppMoves
<1>2. CASE Trigger
  BY <1>2, AloneFacts DEF Trigger, PanelTimer, PanelSoon, PanelReload, CapList, CapBlock,
     QueueDone, MountReset, AppMoves
<1>3. CASE User
  BY <1>3, AloneFacts DEF User, Queue, Retry, Mount, Unmount, AppMoves
<1>4. CASE World
  BY <1>4 DEF AppMoves
<1> QED BY <1>1, <1>2, <1>3, <1>4 DEF Next

(* The lock without a ChatPanel.                                           *)
LEMMA AppQueues ==
    ASSUME VInv, NEW accepted \in BOOLEAN, lock' = Enqueue(lock, "app", accepted),
           pass' = pass
    PROVE  (\A i \in DOMAIN lock' : lock'[i] = "app") /\ (accepted => Again')
<1>a. lock \in Seq(Drainers) /\ \A i \in DOMAIN lock : lock[i] = "app"
  BY AloneFacts DEF VInv, TInv, Alone
<1>1. CASE ~accepted
  BY <1>a, <1>1 DEF Enqueue
<1>2. CASE accepted
  <2>1. lock' = Append(lock, "app")
    BY <1>2 DEF Enqueue
  <2>2. /\ Len(lock) \in Nat /\ Len(lock') = Len(lock) + 1
        /\ DOMAIN lock = 1..Len(lock) /\ DOMAIN lock' = 1..(Len(lock) + 1)
        /\ lock'[Len(lock) + 1] = "app" /\ \A i \in 1..Len(lock) : lock'[i] = lock[i]
    BY <1>a, <2>1, AloneFacts
  <2>3. \A i \in DOMAIN lock' : lock'[i] = "app"
    BY <1>a, <2>2
  <2>4. CASE lock = <<>>
    <3>1. lock' # <<>>
      BY <1>a, <2>1, AloneFacts
    <3>2. pass'["app"].step = "idle"
      BY <2>4, AloneFacts
    <3> QED BY <2>3, <3>1, <3>2 DEF Again
  <2>5. CASE lock # <<>>
    <3>1. Len(lock') >= 2
      BY <1>a, <2>2, <2>5
    <3> QED BY <2>3, <3>1 DEF Again
  <2> QED BY <2>4, <2>5
<1> QED BY <1>1, <1>2

LEMMA BothAsked ==
    ASSUME VInv, NEW available \in BOOLEAN, AskBoth(available)
    PROVE  panel' = panel /\ lock' = Enqueue(lock, "app", available)
<1>1. ~PanelAccepts(panel, available)
  BY AloneFacts DEF PanelAccepts
<1>2. panel' = panel
  <2>1. panel = FreshPanel
    BY DEF VInv, TInv, Alone
  <2>2. panel' = [panel EXCEPT !.draining = panel.draining \/ PanelAccepts(panel, available)]
    BY DEF AskBoth, AskPanel
  <2>3. (panel.draining \/ PanelAccepts(panel, available)) = FALSE
    <3>1. ~panel.draining
      BY <2>1 DEF FreshPanel
    <3> QED BY <1>1, <3>1, Zenon
  <2>4. panel' = [panel EXCEPT !.draining = FALSE]
    BY <2>2, <2>3
  <2>5. panel' \in PanelState /\ panel \in PanelState
    BY <2>4, AloneFacts DEF TypeOK, PanelState
  <2>6. /\ panel'.mounted = panel.mounted /\ panel'.draining = panel.draining
        /\ panel'.timer = panel.timer /\ panel'.soon = panel.soon
        /\ panel'.reload = panel.reload /\ panel'.reset = panel.reset
    BY <2>1, <2>4, <2>5 DEF PanelState, FreshPanel
  <2> QED BY <2>5, <2>6 DEF PanelState
<1>3. Enqueue(lock, "panel", PanelAccepts(panel, available)) = lock
  BY <1>1 DEF Enqueue
<1> QED BY <1>2, <1>3 DEF AskBoth

LEMMA ReleaseLength ==
    ASSUME NEW q \in Seq(Drainers), Len(q) >= 2
    PROVE  Release(q) # <<>>
<1> DEFINE p == SubSeq(q, 2, Len(q))
<1>1. Len(p) = Len(q) - 1
  OBVIOUS
<1>2. Len(q) \in Nat
  OBVIOUS
<1> HIDE DEF p
<1>3. p # <<>>
  BY <1>1, <1>2
<1> QED BY <1>3 DEF p, Release

LEMMA AppReleases ==
    ASSUME VInv, lock # <<>>, lock' = Release(lock), pass'["app"].step = "idle"
    PROVE  (\A i \in DOMAIN lock' : lock'[i] = "app") /\ (lock' # <<>> => Again')
<1>1. lock \in Seq(Drainers) /\ \A i \in DOMAIN lock : lock[i] = "app"
  BY AloneFacts DEF VInv, TInv, Alone
<1>2. \A i \in DOMAIN lock' : i + 1 \in DOMAIN lock /\ lock'[i] = lock[i + 1]
  BY <1>1 DEF Release
<1> QED BY <1>1, <1>2 DEF Again

-----------------------------------------------------------------------------
(* Asking, the clock, the link and a crash leave the table alone.          *)
LEMMA SameTable ==
    ASSUME VInv, db' = db, pass' = pass
    PROVE  QueuedIsDue' /\ AbortedIsGone'
BY DEF VInv, TInv, QueuedIsDue, AbortedIsGone, InFlight, Current

LEMMA AppAsked ==
    ASSUME VInv, ExternalDrain \/ AppTimer \/ AppAsks \/ World
    PROVE  TInv'
<1> USE DEF env, store
<1>a. TypeOK /\ online \in BOOLEAN
  BY AloneFacts DEF TypeOK
<1>1. ASSUME NEW available \in BOOLEAN, AskBoth(available), pass' = pass, db' = db,
             budget' = budget, queueing' = queueing, online' = available
      PROVE  TInv'
  <2>1. panel' = panel /\ lock' = Enqueue(lock, "app", available)
    BY <1>1, BothAsked
  <2>2. (\A i \in DOMAIN lock' : lock'[i] = "app") /\ (available => Again')
    BY <1>1, <2>1, AppQueues
  <2>3. Alone'
    BY <1>1, <2>1, <2>2 DEF VInv, TInv, Alone
  <2> QED BY <1>1, <2>2, <2>3, SameTable DEF TInv
<1>2. CASE ExternalDrain
  BY <1>a, <1>1, <1>2 DEF ExternalDrain
<1>3. CASE AppAsks
  BY <1>a, <1>1, <1>3 DEF AppAsks
<1>4. CASE GoOnline
  BY <1>1, <1>4 DEF GoOnline
<1>5. ASSUME NEW i \in Identities, SwitchIdentity(i) PROVE TInv'
  BY <1>a, <1>1, <1>5 DEF SwitchIdentity
<1>6. CASE AppTimer
  <2>1. (\A i \in DOMAIN lock' : lock'[i] = "app") /\ (online => Again')
    BY <1>6, <1>a, AppQueues DEF AppTimer
  <2>2. Alone'
    BY <1>6, <2>1 DEF AppTimer, VInv, TInv, Alone
  <2>3. online' = online /\ QueuedIsDue' /\ AbortedIsGone'
    BY <1>6, SameTable DEF AppTimer
  <2> QED BY <2>1, <2>2, <2>3 DEF TInv
<1>7. CASE GoOffline
  <2>1. Alone'
    BY <1>7 DEF GoOffline, VInv, TInv, Alone
  <2>2. ~online' /\ QueuedIsDue' /\ AbortedIsGone'
    BY <1>7, SameTable DEF GoOffline
  <2> QED BY <2>1, <2>2 DEF TInv
<1>8. CASE Tick
  <2>1. Alone'
    BY <1>8 DEF Tick, VInv, TInv, Alone
  <2>2. QueuedIsDue' /\ AbortedIsGone'
    BY <1>8, SameTable DEF Tick
  <2>3. ASSUME NEW i \in DOMAIN db, Later(db[i])' PROVE Later(db[i])
    <3>1. now \in Nat /\ now' = now + 1 /\ db' = db /\ db[i].retryAt \in Int
      BY <1>8, <1>a, AloneFacts DEF Tick, TypeOK, Row, Time, Never
    <3> QED BY <2>3, <3>1 DEF Later
  <2>4. online' /\ ~Again' => Tended'
    <3>1. Again' = Again /\ online' = online
      BY <1>8 DEF Tick, Again
    <3>2. Tended => Tended'
      BY <1>8, <2>3 DEF Tick, Tended, AtRest, Listing, AtWork
    <3> QED BY <3>1, <3>2 DEF VInv, TInv
  <2> QED BY <2>1, <2>2, <2>4 DEF TInv
<1>9. CASE Crash
  <2>1. Alone'
    <3>1. budget'.faults = budget.faults
      BY <1>9, <1>a DEF Crash, TypeOK
    <3>2. panel' = FreshPanel /\ queueing' = NotQueueing /\ DOMAIN lock' = {}
      BY <1>9 DEF Crash
    <3> QED BY <3>1, <3>2 DEF VInv, TInv, Alone
  <2>2. pass'["app"] = IdlePass /\ db' = db /\ ~online'
    BY <1>9 DEF Crash, Drainers
  <2> QED BY <2>1, <2>2 DEF TInv, VInv, QueuedIsDue, AbortedIsGone, IdlePass
<1> QED BY <1>2, <1>3, <1>4, <1>5, <1>6, <1>7, <1>8, <1>9 DEF World

-----------------------------------------------------------------------------
(* A step of a pass that keeps the lock and ends in pass p.                *)
LEMMA PassGoesOn ==
    ASSUME VInv, NEW p, Becomes("app", p), lock' = lock, lock # <<>>,
           p.step # "idle", ~p.aborted,
           UNCHANGED <<budget, panel, queueing, app, now, online, identity>>,
           \A i \in DOMAIN db' :
               (i \in DOMAIN db /\ db'[i] = db[i]) \/ db'[i].status # "queued"
                   \/ db'[i].retryAt = Never,
           p.step # "listed" => pass["app"].step # "idle",
           p.step \in {"listed", "recovered"} /\ (p.step = "recovered" => online /\ Tended)
           => \A i \in DOMAIN db' : db'[i] \in p.rows,
           /\ online /\ Tended /\ p.step \in Working
           => /\ \A r \in p.todo : MatchesIdentity(r, identity)
              /\ \A i \in DOMAIN db' :
                  /\ Fresh(db'[i]) /\ MatchesIdentity(db'[i], identity) => db'[i] \in p.todo
                  /\ Later(db'[i]) => db'[i].retryAt \in p.retries
    PROVE  TInv'
<1>1. pass'["app"] = p
  BY AloneFacts DEF Becomes
<1>2. Alone'
  BY DEF VInv, TInv, Alone
<1>3. QueuedIsDue'
  BY DEF VInv, TInv, QueuedIsDue
<1>4. AbortedIsGone'
  BY <1>1 DEF AbortedIsGone
<1>5. ASSUME online', ~Again' PROVE Tended'
  <2>a. p.step # "listed" => online /\ Tended
    <3>1. p.step # "listed" => online /\ ~Again
      BY <1>5 DEF Again
    <3> QED BY <3>1 DEF VInv, TInv
  <2>1. CASE p.step \in {"listed", "recovered"}
    <3>1. Listing'
      BY <1>1, <2>a, <2>1 DEF Listing
    <3>2. p.step \notin Working
      BY <2>1 DEF Working
    <3> QED BY <1>1, <3>1, <3>2 DEF Tended
  <2>2. CASE p.step \in Working
    <3>1. online /\ Tended
      BY <2>a, <2>2 DEF Working
    <3>3. /\ \A r \in p.todo : MatchesIdentity(r, identity)
          /\ \A i \in DOMAIN db' :
              /\ Fresh(db'[i]) /\ MatchesIdentity(db'[i], identity) => db'[i] \in p.todo
              /\ Later(db'[i]) => db'[i].retryAt \in p.retries
      BY <2>2, <3>1
    <3>4. AtWork'
      BY <1>1, <3>3 DEF AtWork, Fresh, Later, MatchesIdentity
    <3> QED BY <1>1, <2>1, <2>2, <3>4 DEF Tended, Listing, Working
  <2>3. CASE p.step \notin {"listed", "recovered"} \cup Working
    BY <1>1, <2>3 DEF Tended
  <2> QED BY <2>1, <2>2, <2>3
<1> QED BY <1>2, <1>3, <1>4, <1>5 DEF TInv

(* One row of the pass at work is put aside or stays in hand; the row in   *)
(* the table is written, or is not there.                                  *)
LEMMA RowIsMinded ==
    ASSUME VInv, NEW p, Becomes("app", p), lock' = lock, ~p.aborted,
           pass["app"].step \in Working, p.step \in Working,
           UNCHANGED <<budget, panel, queueing, app, now, online, identity>>,
           p.todo \subseteq pass["app"].todo, pass["app"].retries \subseteq p.retries,
           pass["app"].todo \ {Current("app")} \subseteq p.todo,
           \A i \in DOMAIN db' :
               \/ /\ i \in DOMAIN db /\ db'[i] = db[i]
                  /\ db[i] # Current("app") \/ p.todo = pass["app"].todo
               \/ db'[i].status \in {"blocked", "sending"}
               \/ db'[i].status = "failed" /\ (AppDrained(db'[i]) => db'[i].retryAt \in p.retries)
    PROVE  TInv'
<1>1. lock # <<>> /\ p.step # "idle" /\ p.step \notin {"listed", "recovered"}
  BY AloneFacts DEF Working
<1>2. \A i \in DOMAIN db' :
          (i \in DOMAIN db /\ db'[i] = db[i]) \/ db'[i].status # "queued"
  OBVIOUS
<1>3. ASSUME Tended
      PROVE  /\ \A r \in p.todo : MatchesIdentity(r, identity)
             /\ \A i \in DOMAIN db' :
                 /\ Fresh(db'[i]) /\ MatchesIdentity(db'[i], identity) => db'[i] \in p.todo
                 /\ Later(db'[i]) => db'[i].retryAt \in p.retries
  <2>1. AtWork
    BY <1>3 DEF Tended
  <2>2. ASSUME NEW i \in DOMAIN db'
        PROVE  /\ Fresh(db'[i]) /\ MatchesIdentity(db'[i], identity) => db'[i] \in p.todo
               /\ Later(db'[i]) => db'[i].retryAt \in p.retries
    <3>1. CASE /\ i \in DOMAIN db /\ db'[i] = db[i]
               /\ db[i] # Current("app") \/ p.todo = pass["app"].todo
      BY <2>1, <3>1 DEF AtWork
    <3>2. CASE db'[i].status \in {"blocked", "sending"}
      BY <3>2 DEF Fresh, Later, Waiting
    <3>3. CASE db'[i].status = "failed" /\ (AppDrained(db'[i]) => db'[i].retryAt \in p.retries)
      BY <3>3 DEF Fresh, Later
    <3> QED BY <3>1, <3>2, <3>3
  <2> QED BY <2>1, <2>2 DEF AtWork
<1>4. pass["app"].step # "idle"
  BY DEF Working
<1> QED BY <1>1, <1>2, <1>3, <1>4, PassGoesOn

LEMMA StatusSet ==
    ASSUME VInv, NEW ids, NEW status, db' = SetStatus(db, ids, status)
    PROVE  /\ DOMAIN db' = DOMAIN db
           /\ \A i \in DOMAIN db :
                 /\ i \in ids => db'[i].status = status /\ db'[i].retryAt = Never
                                 /\ db'[i] = WithStatus(db[i], status)
                 /\ i \notin ids => db'[i] = db[i]
<1>1. \A i \in DOMAIN db : WithStatus(db[i], status).status = status
                           /\ WithStatus(db[i], status).retryAt = Never
  BY AloneFacts DEF StoreOK, Row, WithStatus
<1> QED BY <1>1 DEF SetStatus

LEMMA AppDrains ==
    ASSUME VInv, DrainStep("app")
    PROVE  TInv'
<1> USE DEF env, store
<1>a. /\ IInv /\ TypeOK /\ StoreOK(db) /\ pass["app"] \in Pass /\ "app" \in Drainers
      /\ Hands(pass["app"])
      /\ pass["app"].todo # {} => Current("app") \in pass["app"].todo
      /\ now \in Nat
  BY AloneFacts, CurrentType DEF TypeOK
<1>b. lock # <<>> /\ ~pass["app"].aborted
  <2>1. Holds("app")
    BY <1>a, DrainStepFrame DEF DrainFrame
  <2>2. ~InFlight("app")
    BY DEF DrainStep, StartOffline, List, Recover, Filter, End, Quarantine, Pace, Mark,
       Call, AtRow, InFlight
  <2> QED BY <2>1, <2>2 DEF Holds, VInv, TInv, AbortedIsGone
<1>c. ~Fault
  BY AloneFacts
<1>d. \A i \in DOMAIN db : db[i].status = "queued" => db[i].retryAt = Never
  BY DEF VInv, TInv, QueuedIsDue
<1>1. ASSUME NEW retries \in SUBSET Time, Finish("app", retries), NoFault,
             UNCHANGED <<env, store, queueing>>,
             online => pass["app"].step # "idle",
             online /\ ~Again => AtRest'
      PROVE  TInv'
  <2>1. pass'["app"] = IdlePass /\ lock' = Release(lock) /\ IdlePass.step = "idle"
    BY <1>1, AloneFacts DEF Finish, Becomes, IdlePass
  <2>2. (\A i \in DOMAIN lock' : lock'[i] = "app") /\ (lock' # <<>> => Again')
    BY <1>b, <2>1, AppReleases
  <2>3. panel' = panel
    <3>1. panel = FreshPanel /\ panel \in PanelState
      BY <1>a DEF VInv, TInv, Alone, TypeOK
    <3>2. panel' = [panel EXCEPT !.reload = @ \/ (panel.mounted /\ pass["app"].attempted)]
      BY <1>1 DEF Finish
    <3>3. (panel.reload \/ (panel.mounted /\ pass["app"].attempted)) = FALSE
      <4>1. ~panel.reload /\ ~panel.mounted
        BY AloneFacts
      <4> QED BY <4>1, Zenon
    <3>4. panel' = [panel EXCEPT !.reload = FALSE]
      BY <3>2, <3>3
    <3>5. panel' \in PanelState
      BY <3>1, <3>4 DEF PanelState
    <3>6. /\ panel'.mounted = panel.mounted /\ panel'.draining = panel.draining
          /\ panel'.timer = panel.timer /\ panel'.soon = panel.soon
          /\ panel'.reload = panel.reload /\ panel'.reset = panel.reset
      BY <3>1, <3>4 DEF PanelState, FreshPanel
    <3> QED BY <3>1, <3>5, <3>6 DEF PanelState
  <2>4. Alone'
    BY <1>1, <2>2, <2>3 DEF NoFault, VInv, TInv, Alone
  <2>5. QueuedIsDue' /\ AbortedIsGone'
    BY <1>1, <2>1 DEF VInv, TInv, QueuedIsDue, AbortedIsGone, IdlePass
  <2>6. ASSUME online', ~Again' PROVE Tended'
    <3>1. lock' = <<>> /\ online
      BY <1>1, <2>2, <2>6
    <3>2. app'.ask = app.ask
      BY <1>1, <1>a DEF Finish, TypeOK
    <3>3. ~app.ask
      BY <2>6, <3>2 DEF Again
    <3>4. ~Again
      <4>1. Len(lock) < 2
        <5>1. lock \in Seq(Drainers) /\ Len(lock) \in Nat
          BY AloneFacts
        <5>2. SUFFICES ASSUME Len(lock) >= 2 PROVE FALSE
          BY <5>1
        <5>3. Release(lock) # <<>>
          BY <5>1, <5>2, ReleaseLength
        <5> QED BY <2>1, <3>1, <5>3
      <4> QED BY <1>1, <3>1, <3>3, <4>1, AloneFacts DEF Again
    <3>5. pass'["app"].step \notin {"listed", "recovered"} \cup Working
      BY <2>1 DEF Working
    <3> QED BY <1>1, <3>1, <3>4, <3>5 DEF Tended
  <2> QED BY <2>4, <2>5, <2>6 DEF TInv
<1>2. CASE StartOffline("app")
  <2>1. {} \in SUBSET Time /\ ~online
    BY <1>2 DEF StartOffline
  <2> QED BY <1>1, <1>2, <2>1 DEF StartOffline, NoFault
<1>3. CASE End("app")
  <2>1. pass["app"].retries \in SUBSET Time /\ pass["app"].step \in Working
        /\ pass["app"].step # "idle"
    BY <1>3, <1>a DEF End, AtRow, Pass, Working
  <2>2. ASSUME online, ~Again PROVE AtRest'
    <3>1. AtWork
      BY <2>1, <2>2 DEF VInv, TInv, Tended
    <3>2. pass["app"].todo = {}
      BY <1>3, <1>a, <2>2, <3>1 DEF End, MayGoOn, AtWork
    <3>3. app'.timer = EarliestRetry(pass["app"].retries, now)
      BY <1>3, <1>a DEF End, Finish, TypeOK
    <3>4. \A t \in pass["app"].retries : t > now => app'.timer # Never /\ app'.timer <= t
      BY <1>a, <2>1, <3>3, EarliestRetryIsEarliest
    <3>5. ASSUME NEW i \in DOMAIN db
          PROVE  /\ ~ (Fresh(db[i]) /\ MatchesIdentity(db[i], identity))
                 /\ Later(db[i]) => app'.timer # Never /\ app'.timer <= db[i].retryAt
      BY <3>1, <3>2, <3>4 DEF AtWork, Later
    <3>6. db' = db /\ now' = now /\ identity' = identity
      BY <1>3 DEF End
    <3> QED BY <3>5, <3>6 DEF AtRest, Later, Fresh, MatchesIdentity
  <2>3. Finish("app", pass["app"].retries) /\ NoFault /\ UNCHANGED <<env, store, queueing>>
    BY <1>3 DEF End, NoFault
  <2> QED BY <1>1, <2>1, <2>2, <2>3
<1>4. CASE List("app")
  <2> DEFINE p == [pass["app"] EXCEPT !.step = "listed", !.rows = Rows]
  <2>1. p.step = "listed" /\ p.rows = Rows /\ p.aborted = pass["app"].aborted
    BY <1>a DEF Pass
  <2>2. /\ Becomes("app", p) /\ db' = db /\ lock' = lock
        /\ UNCHANGED <<budget, panel, queueing, app, now, online, identity>>
    BY <1>4, <1>c DEF List, NoFault
  <2> HIDE DEF p
  <2>3. \A i \in DOMAIN db : db[i] \in Rows
    BY DEF Rows
  <2>4. p.step \notin Working /\ p.step # "idle"
    BY <2>1 DEF Working
  <2> QED BY <1>b, <2>1, <2>2, <2>3, <2>4, PassGoesOn
<1>5. CASE Recover("app")
  <2> DEFINE p == [pass["app"] EXCEPT !.step = "recovered",
                                      !.rows = {Requeued(r) : r \in pass["app"].rows}]
  <2>1. /\ p.step = "recovered" /\ p.rows = {Requeued(r) : r \in pass["app"].rows}
        /\ p.aborted = pass["app"].aborted
    BY <1>a DEF Pass
  <2> HIDE DEF p
  <2>2. /\ Becomes("app", p) /\ lock' = lock /\ db' = SetStatus(db, Stuck("app"), "queued")
        /\ UNCHANGED <<budget, panel, queueing, app, now, online, identity>>
    BY <1>5, <1>c DEF Recover, NoFault, p
  <2>3. /\ DOMAIN db' = DOMAIN db
        /\ \A i \in DOMAIN db :
              /\ i \in Stuck("app") => /\ db'[i].retryAt = Never
                                       /\ db'[i] = WithStatus(db[i], "queued")
              /\ i \notin Stuck("app") => db'[i] = db[i]
    BY <2>2, StatusSet
  <2>4. ASSUME Listing, NEW i \in DOMAIN db PROVE db'[i] \in p.rows
    <3>1. db[i] \in pass["app"].rows /\ db[i] \in Row /\ db[i].id = i
      BY <1>a, <2>4 DEF Listing, StoreOK
    <3>2. UniqueIds(pass["app"].rows)
      BY <1>a DEF Hands
    <3>3. Requeued(db[i]) \in p.rows
      BY <2>1, <3>1
    <3>4. CASE db[i].status = "sending"
      <4>1. i \in Stuck("app")
        BY <3>1, <3>4 DEF Stuck
      <4> QED BY <2>3, <3>3, <3>4, <4>1 DEF Requeued
    <3>5. CASE db[i].status # "sending"
      <4>1. i \notin Stuck("app")
        BY <3>1, <3>2, <3>5 DEF Stuck, UniqueIds
      <4> QED BY <2>3, <3>3, <3>5, <4>1 DEF Requeued
    <3> QED BY <3>4, <3>5
  <2>5. pass["app"].step = "listed" /\ p.step \notin Working
    BY <1>5, <2>1 DEF Recover, Working
  <2>6. Tended => Listing
    BY <2>5 DEF Tended
  <2> QED BY <1>b, <2>1, <2>2, <2>3, <2>4, <2>5, <2>6, PassGoesOn
<1>6. CASE Filter("app")
  <2> DEFINE rows == pass["app"].rows
             todo == {r \in rows : /\ Eligible(r, now)
                                   /\ MatchesIdentity(r, identity)
                                   /\ "app" = "app" => AppDrained(r)}
             p == [pass["app"] EXCEPT !.step = "picked", !.rows = {},
                       !.retries = RetryTimes(rows), !.todo = todo]
  <2>1. /\ p.step = "picked" /\ p.todo = todo /\ p.retries = RetryTimes(rows)
        /\ p.aborted = pass["app"].aborted
    BY <1>a DEF Pass
  <2>2. /\ Becomes("app", p) /\ lock' = lock /\ db' = db
        /\ UNCHANGED <<budget, panel, queueing, app, now, online, identity>>
    BY <1>6 DEF Filter
  <2> HIDE DEF p
  <2>3. pass["app"].step \in {"listed", "recovered"}
    BY <1>6 DEF Filter
  <2>4. ASSUME Listing, NEW i \in DOMAIN db
        PROVE  /\ Fresh(db[i]) /\ MatchesIdentity(db[i], identity) => db[i] \in todo
               /\ Later(db[i]) => db[i].retryAt \in RetryTimes(rows)
    <3>1. db[i] \in rows
      BY <2>4 DEF Listing
    <3>2. Fresh(db[i]) => Eligible(db[i], now) /\ AppDrained(db[i])
      BY <1>d DEF Fresh, Eligible, Waiting, Due, AppDrained
    <3> QED BY <3>1, <3>2 DEF Later, RetryTimes
  <2>5. Tended => Listing
    BY <2>3 DEF Tended
  <2>6. \A r \in todo : MatchesIdentity(r, identity)
    OBVIOUS
  <2> HIDE DEF todo
  <2>7. p.step \notin {"idle", "listed", "recovered"} /\ pass["app"].step # "idle"
    BY <2>1, <2>3
  <2> QED BY <1>b, <2>1, <2>2, <2>4, <2>5, <2>6, <2>7, PassGoesOn
<1>7. CASE Quarantine("app") \/ Pace("app") \/ Mark("app") \/ Call("app")
  <2>1. PICK p \in {[pass["app"] EXCEPT !.step = "next", !.attempted = TRUE,
                                        !.todo = @ \ {Current("app")}],
                    [pass["app"] EXCEPT !.step = "pacing", !.attempted = TRUE],
                    [pass["app"] EXCEPT !.step = "marking", !.attempted = TRUE],
                    [pass["app"] EXCEPT !.step = "calling"]} : Becomes("app", p)
    BY <1>7, <1>c DEF Quarantine, Pace, Mark, Call
  <2>2. /\ p.step \in Working /\ p.retries = pass["app"].retries
        /\ p.todo \subseteq pass["app"].todo /\ p.aborted = pass["app"].aborted
        /\ pass["app"].todo \ {Current("app")} \subseteq p.todo
        /\ p.todo = pass["app"].todo \/ p.todo = pass["app"].todo \ {Current("app")}
    BY <1>a, <2>1, ZenonT(120) DEF Pass, Working
  <2>3. /\ pass["app"].step \in Working /\ lock' = lock
        /\ UNCHANGED <<budget, panel, queueing, app, now, online, identity>>
    BY <1>7, <1>c DEF Quarantine, Pace, Mark, Call, AtRow, Working, NoFault
  <2>4. \/ db' = db /\ p.todo = pass["app"].todo
        \/ \E status \in {"blocked", "sending"} :
              db' = SetStatus(db, {Current("app").id}, status)
    <3>1. CASE Quarantine("app") \/ Mark("app")
      BY <1>c, <3>1 DEF Quarantine, Mark
    <3>2. CASE Pace("app") \/ Call("app")
      <4>1. Becomes("app", [pass["app"] EXCEPT !.step = "pacing", !.attempted = TRUE])
            \/ Becomes("app", [pass["app"] EXCEPT !.step = "calling"])
        BY <3>2 DEF Pace, Call
      <4>2. p.todo = pass["app"].todo
        BY <1>a, <2>1, <4>1, AloneFacts DEF Becomes, Pass
      <4> QED BY <3>2, <4>2 DEF Pace, Call
    <3> QED BY <1>7, <3>1, <3>2
  <2>5. ASSUME NEW i \in DOMAIN db'
        PROVE  \/ /\ i \in DOMAIN db /\ db'[i] = db[i]
                  /\ db[i] # Current("app") \/ p.todo = pass["app"].todo
               \/ db'[i].status \in {"blocked", "sending"}
    <3>1. CASE db' = db /\ p.todo = pass["app"].todo
      BY <3>1
    <3>2. ASSUME NEW status \in {"blocked", "sending"},
                 db' = SetStatus(db, {Current("app").id}, status)
          PROVE  \/ i \in DOMAIN db /\ db'[i] = db[i] /\ db[i] # Current("app")
                 \/ db'[i].status \in {"blocked", "sending"}
      <4>1. /\ i \in DOMAIN db
            /\ i = Current("app").id => db'[i].status = status
            /\ i # Current("app").id => db'[i] = db[i]
        BY <3>2, StatusSet
      <4>2. db[i].id = i
        BY <1>a, <4>1 DEF StoreOK
      <4> QED BY <4>1, <4>2
    <3> QED BY <2>4, <3>1, <3>2
  <2> QED BY <1>b, <2>1, <2>2, <2>3, <2>5, RowIsMinded
<1> QED BY <1>2, <1>3, <1>4, <1>5, <1>6, <1>7 DEF DrainStep

(* The outcome of a send: the row in hand is gone, or failed.              *)
LEMMA AppOutcome ==
    ASSUME VInv, Outcome("app")
    PROVE  TInv'
<1> USE DEF env, store
<1>a. /\ IInv /\ TypeOK /\ StoreOK(db) /\ pass["app"] \in Pass /\ "app" \in Drainers
      /\ pass \in [Drainers -> Pass] /\ Hands(pass["app"]) /\ now \in Nat
  BY AloneFacts DEF TypeOK
<1>c. ~Fault /\ ~(budget.faults > 1)
  BY AloneFacts
<1>1. CASE Accept("app")
  <2> DEFINE p == [pass["app"] EXCEPT !.step = "awaiting"]
  <2>1. /\ p.step = "awaiting" /\ p.todo = pass["app"].todo /\ p.aborted = pass["app"].aborted
        /\ p.rows = pass["app"].rows /\ p.retries = pass["app"].retries
    BY <1>a DEF Pass
  <2>2. /\ pass'["app"] = p /\ db' = db /\ pass["app"].step = "calling"
        /\ UNCHANGED <<lock, budget, panel, queueing, app, now, online, identity>>
    BY <1>1, <1>a DEF Accept, Becomes, Settled
  <2> HIDE DEF p
  <2>3. Alone' /\ QueuedIsDue'
    BY <2>2 DEF VInv, TInv, Alone, QueuedIsDue
  <2>4. AbortedIsGone'
    BY <2>1, <2>2 DEF VInv, TInv, AbortedIsGone, InFlight, Current
  <2>5. ASSUME online', ~Again' PROVE Tended'
    <3>1. Tended /\ lock # <<>>
      BY <2>1, <2>2, <2>5, AloneFacts DEF Again, VInv, TInv
    <3>2. AtWork
      BY <2>2, <3>1 DEF Tended, Working
    <3>3. AtWork'
      BY <2>1, <2>2, <3>2 DEF AtWork, Later
    <3> QED BY <2>1, <2>2, <3>1, <3>3 DEF Tended
  <2> QED BY <2>3, <2>4, <2>5 DEF TInv
<1>2. CASE Resolve("app") \/ AckArrives("app") \/ Fails("app")
  <2> DEFINE r == Current("app")
             After(retries) ==
                 [pass["app"] EXCEPT !.step = "next", !.retries = @ \cup retries,
                     !.todo = @ \ {r}, !.aborted = FALSE]
  <2>1. /\ pass["app"].step \in Working /\ r \in pass["app"].todo /\ r \in Row
        /\ UNCHANGED <<lock, panel, queueing, app, now, online, identity>>
    <3>1. pass["app"].step \in {"calling", "awaiting"}
      BY <1>2 DEF Resolve, AckArrives, Fails, InFlight
    <3>2. pass["app"].todo # {}
      BY <1>a, <3>1 DEF IInv, WorkInv
    <3> QED BY <1>2, <1>a, <3>1, <3>2, CurrentType
            DEF Resolve, AckArrives, Fails, Settled, Working
  <2>2. CASE Abandon("app") /\ pass["app"].aborted
    <3>1. Becomes("app", After({})) /\ db' = db /\ budget' = budget
      BY <2>2 DEF Abandon, RowDone
    <3>2. r.id \notin DOMAIN db
      BY <2>2 DEF VInv, TInv, AbortedIsGone
    <3>3. \A i \in DOMAIN db : db[i] # r
      BY <1>a, <3>2 DEF StoreOK
    <3>4. /\ After({}).step \in Working /\ ~After({}).aborted
          /\ After({}).todo = pass["app"].todo \ {r}
          /\ pass["app"].retries \subseteq After({}).retries
      BY <1>a DEF Pass, Working
    <3> HIDE DEF After
    <3> QED BY <2>1, <3>1, <3>3, <3>4, RowIsMinded
  <2>3. CASE Finalize("app")
    <3>1. /\ Becomes("app", After({})) /\ budget' = budget /\ db' = Delete(db, r.id)
      BY <1>c, <2>3 DEF Finalize, RowDone, NoFault
    <3>2. \A i \in DOMAIN db' : i \in DOMAIN db /\ db'[i] = db[i] /\ db[i] # r
      BY <1>a, <3>1 DEF Delete, StoreOK
    <3>4. /\ After({}).step \in Working /\ ~After({}).aborted
          /\ After({}).todo = pass["app"].todo \ {r}
          /\ pass["app"].retries \subseteq After({}).retries
      BY <1>a DEF Pass, Working
    <3> HIDE DEF After
    <3> QED BY <2>1, <3>1, <3>2, <3>4, RowIsMinded
  <2>4. ASSUME NEW b \in BOOLEAN, RecordFailure("app", b) PROVE TInv'
    <3> DEFINE f == Failed(r, b, now)
               p == After(RetryTimes({f}))
    <3>1. Becomes("app", p) /\ budget' = budget /\ db' = Put(db, f)
      BY <1>c, <2>4 DEF RecordFailure, RowDone, NoFault
    <3>2. f \in Row /\ f.id = r.id
      BY <1>a, <2>1, FailedType DEF SameMessage
    <3>3. f.status \in {"blocked", "failed"}
      BY <2>1 DEF Failed, Row
    <3>4. /\ p.step \in Working /\ ~p.aborted /\ p.todo = pass["app"].todo \ {r}
          /\ p.retries = pass["app"].retries \cup RetryTimes({f})
      BY <1>a DEF Pass, Working
    <3>5. f.status = "failed" /\ AppDrained(f) => f.retryAt \in RetryTimes({f})
      BY DEF RetryTimes, Waiting
    <3> HIDE DEF f, p
    <3>6. \A i \in DOMAIN db' :
              \/ i \in DOMAIN db /\ db'[i] = db[i] /\ db[i] # r
              \/ db'[i] = f
      BY <1>a, <3>1, <3>2 DEF Put, StoreOK
    <3>7. \A i \in DOMAIN db' :
              \/ i \in DOMAIN db /\ db'[i] = db[i] /\ db[i] # r
              \/ db'[i].status \in {"blocked", "sending"}
              \/ db'[i].status = "failed" /\ (AppDrained(db'[i]) => db'[i].retryAt \in p.retries)
      BY <3>3, <3>4, <3>5, <3>6
    <3> QED BY <2>1, <3>1, <3>4, <3>7, RowIsMinded
  <2> QED BY <1>2, <2>2, <2>3, <2>4 DEF Resolve, AckArrives, Fails
<1> QED BY <1>1, <1>2 DEF Outcome

(* A row Incident Command adds makes another pass owed.                    *)
LEMMA AppAdds ==
    ASSUME VInv, NEW kind \in AppKinds, AppQueue(kind)
    PROVE  TInv'
<1> USE DEF env
<1>a. /\ TypeOK /\ IInv /\ StoreOK(db) /\ kind \in Kinds /\ nextId \in Nat
      /\ pass["app"] \in Pass /\ "app" \in Drainers
  BY AloneFacts, OutboxAssumption DEF TypeOK
<1>1. app'.ask
  BY <1>a DEF AppQueue, TypeOK
<1>2. Alone'
  BY DEF AppQueue, VInv, TInv, Alone
<1> DEFINE r == NewRow(nextId, kind, identity, Never, now)
<1>3. db' = Insert(db, r) /\ r.id = nextId /\ r.retryAt = Never /\ pass' = pass
  BY DEF AppQueue, AddRow, NewRow
<1> HIDE DEF r
<1>4. \A i \in DOMAIN db' : db'[i] = r \/ (i \in DOMAIN db /\ db'[i] = db[i])
  BY <1>3 DEF Insert
<1>5. QueuedIsDue'
  BY <1>3, <1>4 DEF VInv, TInv, QueuedIsDue
<1>6. AbortedIsGone'
  <2>1. SUFFICES ASSUME pass["app"].aborted PROVE Current("app").id \notin DOMAIN db'
    BY <1>3 DEF VInv, TInv, AbortedIsGone, InFlight, Current
  <2>2. InFlight("app") /\ Current("app").id \notin DOMAIN db
    BY <2>1 DEF VInv, TInv, AbortedIsGone
  <2>3. pass["app"].todo # {}
    BY <1>a, <2>2 DEF InFlight, IInv, WorkInv
  <2>4. CopyOf(Current("app"), db, nextId)
    BY <1>a, <2>3, CurrentInIds
  <2> QED BY <1>a, <1>3, <2>2, <2>4 DEF CopyOf, Insert
<1> QED BY <1>1, <1>2, <1>5, <1>6 DEF TInv, Again

(* A cancelled row leaves the table, and the pass with it.                 *)
LEMMA AppCancels ==
    ASSUME VInv, NEW id \in Ids, Cancel(id)
    PROVE  TInv'
<1> USE DEF env
<1> DEFINE q == pass["app"]
           ended == [q EXCEPT !.step = "next", !.todo = {s \in @ : s.id # id}]
           stopped == [q EXCEPT !.aborted = TRUE]
           p == pass'["app"]
<1>a. /\ TypeOK /\ StoreOK(db) /\ q \in Pass /\ "app" \in Drainers /\ Hands(q)
      /\ Current("app") = FirstOf(q.todo)
  BY AloneFacts DEF Current
<1>1. db' = Delete(db, id) /\ id \in DOMAIN db
      /\ UNCHANGED <<lock, panel, queueing, app, now, online, identity, budget>>
  BY AloneFacts DEF Cancel, NoFault
<1>2. \A i \in DOMAIN db' : i \in DOMAIN db /\ db'[i] = db[i] /\ i # id /\ db[i].id = i
  BY <1>a, <1>1 DEF Delete, StoreOK
<1>3. id \notin DOMAIN db' /\ DOMAIN db' \subseteq DOMAIN db
  BY <1>1 DEF Delete
<1>4. /\ ended.step = "next" /\ ended.rows = q.rows /\ ended.retries = q.retries
      /\ ended.todo = {s \in q.todo : s.id # id} /\ ended.aborted = q.aborted
      /\ stopped.step = q.step /\ stopped.rows = q.rows /\ stopped.retries = q.retries
      /\ stopped.todo = q.todo /\ stopped.aborted
  BY <1>a DEF Pass
<1>5. p = Cancelled(q, id)
  BY <1>a DEF Cancel
<1>6. \/ p = q
      \/ p = stopped /\ q.step \in {"calling", "awaiting"} /\ FirstOf(q.todo).id = id
      \/ p = ended /\ q.step = "awaiting" /\ FirstOf(q.todo).id = id
  BY <1>5 DEF Cancelled
<1> HIDE DEF ended, stopped, p
<1>7. /\ p.rows = q.rows /\ p.retries = q.retries /\ p.todo \subseteq q.todo
      /\ \A s \in q.todo : s.id # id => s \in p.todo
      /\ p.step = q.step \/ (p.step = "next" /\ q.step = "awaiting")
  BY <1>4, <1>6
<1>8. Alone' /\ QueuedIsDue'
  BY <1>1, <1>2 DEF VInv, TInv, Alone, QueuedIsDue
<1>9. AbortedIsGone'
  <2>1. q.aborted => q.step \in {"calling", "awaiting"} /\ FirstOf(q.todo).id \notin DOMAIN db
    BY <1>a DEF VInv, TInv, AbortedIsGone, InFlight
  <2>2. p.aborted => p.step \in {"calling", "awaiting"} /\ FirstOf(p.todo).id \notin DOMAIN db'
    BY <1>1, <1>3, <1>4, <1>6, <2>1
  <2> QED BY <2>2 DEF AbortedIsGone, InFlight, Current, p
<1>10. ASSUME online', ~Again' PROVE Tended'
  <2>1. online /\ ~Again
    BY <1>1, <1>7, <1>10 DEF Again, p
  <2>2. Tended
    BY <2>1 DEF VInv, TInv
  <2>3. lock' = <<>> => AtRest'
    BY <1>1, <1>2, <2>2 DEF Tended, AtRest, Later
  <2>4. p.step \in {"listed", "recovered"} => Listing'
    <3>1. SUFFICES ASSUME p.step \in {"listed", "recovered"} PROVE Listing'
      OBVIOUS
    <3>2. Listing
      BY <1>7, <2>2, <3>1 DEF Tended
    <3> QED BY <1>2, <1>7, <3>2 DEF Listing, p
  <2>5. p.step \in Working => AtWork'
    <3>1. SUFFICES ASSUME p.step \in Working PROVE AtWork'
      OBVIOUS
    <3>2. AtWork
      BY <1>7, <2>2, <3>1 DEF Tended, Working
    <3>3. \A s \in p.todo : MatchesIdentity(s, identity)
      BY <1>7, <3>2 DEF AtWork
    <3>4. ASSUME NEW i \in DOMAIN db'
          PROVE  /\ Fresh(db'[i]) /\ MatchesIdentity(db'[i], identity) => db'[i] \in p.todo
                 /\ Later(db'[i]) => db'[i].retryAt \in p.retries
      BY <1>2, <1>7, <3>2 DEF AtWork
    <3> QED BY <1>1, <3>3, <3>4 DEF AtWork, Later, p
  <2> QED BY <2>3, <2>4, <2>5 DEF Tended, p
<1> QED BY <1>8, <1>9, <1>10 DEF TInv

LEMMA StepMinds ==
    ASSUME PanelLife = "never", VInv, [Next]_vars
    PROVE  TInv'
<1>1. CASE UNCHANGED vars
  BY <1>1 DEF vars, store, VInv, TInv, Alone, QueuedIsDue, AbortedIsGone, InFlight, Current,
     Again, Tended, AtRest, Listing, AtWork, Later
<1>2. CASE Next
  BY <1>2, AloneMoves, AppDrains, AppOutcome, AppAsked, AppAdds, AppCancels DEF AppMoves
<1> QED BY <1>1, <1>2

(* Without ChatPanel and without failing IPC, as the App-level drain runs  *)
(* while another view is open, a row that Incident Command adds is         *)
(* attempted, and every retry still ahead is waited for, whatever the      *)
(* link, the identity, the clock, the user and crashes do meanwhile.       *)
THEOREM TendedInvariant ==
    ASSUME MaxFaults = 0, PanelLife = "never"
    PROVE  Spec => [](QInv /\ TInv)
<1>1. Init => QInv
  BY InitInvariant DEF Init, QInv, HandsInv, KnownInv, Hands, Known, UniqueIds, IdlePass
<1>2. Init => TInv
  <2> SUFFICES ASSUME Init PROVE TInv
    OBVIOUS
  <2>1. Alone
    BY DEF Init, Alone
  <2>2. QueuedIsDue
    BY DEF Init, QueuedIsDue, NewRow
  <2>3. AbortedIsGone
    BY DEF Init, AbortedIsGone, IdlePass, Drainers
  <2>4. ~online
    BY DEF Init
  <2> QED BY <2>1, <2>2, <2>3, <2>4 DEF TInv
<1>3. QInv /\ TInv /\ [Next]_vars => QInv' /\ TInv'
  BY StepHands, StepMinds DEF VInv
<1> QED BY <1>1, <1>2, <1>3, PTL DEF Spec

LEMMA IdleIsTended ==
    ASSUME QInv, TInv, AppIdle, online
    PROVE  AtRest
<1>1. ~Again
  BY DEF AppIdle, Again
<1> QED BY <1>1 DEF TInv, Tended, AppIdle

(* A row Incident Command adds is attempted by the drain it asks for, even *)
(* if that request arrives in the middle of another drain.                 *)
THEOREM IncidentRowIsDrained ==
    ASSUME MaxFaults = 0, PanelLife = "never"
    PROVE  Spec => []AppRowIsDrained
<1>1. QInv /\ TInv => AppRowIsDrained
  BY IdleIsTended DEF AppRowIsDrained, AtRest, Rows, Sendable, Fresh
<1> QED BY <1>1, TendedInvariant, PTL

(* When the App-level drain is idle, its timer is armed no later than any  *)
(* retry still ahead of the clock.                                         *)
THEOREM IncidentRetryIsArmed ==
    ASSUME MaxFaults = 0, PanelLife = "never"
    PROVE  Spec => []AppRetryArmed
<1>1. QInv /\ TInv => AppRetryArmed
  BY IdleIsTended DEF AppRetryArmed, AtRest, Rows, Later
<1> QED BY <1>1, TendedInvariant, PTL
=============================================================================
