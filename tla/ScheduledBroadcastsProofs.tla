---------------------- MODULE ScheduledBroadcastsProofs ----------------------
(***************************************************************************)
(* Proofs about ScheduledBroadcasts, for every number of slots, every set  *)
(* of rules and every bound: at most one run, or one pass that keeps runs  *)
(* out, at a time (OneRun), no wake-up is lost (AlarmSet), the store's     *)
(* copy comes to be the table (StoreMirrorsTable), and an occurrence is    *)
(* claimed once (OneFate) while every enabled row has a due time.          *)
(*                                                                         *)
(* The renderer has one thread, yet a run lives in several places: in the  *)
(* running flag, in a request whose reply is on its way, in a delivery     *)
(* that has not returned, and on the stack of the block that handles a     *)
(* reply, which may call refresh() before it goes on. So the argument is   *)
(* about the operators of one block. Each says what it carries over, and   *)
(* either leaves the run alone (Aside) or ends the block (Lands): with the *)
(* flag clear and nothing under way, or the flag set and exactly one thing *)
(* under way; and with the timer right, unless a pass is left to set it.   *)
(*                                                                         *)
(* The copy is another matter: it lags behind the table by the replies     *)
(* that have not come. The argument about it is per slot: what the replies *)
(* on their way will make of the copy, and who still has a due time to     *)
(* write into it. The fates are a third: that a block settles none twice   *)
(* goes through its operators like the rest (Keeps).                       *)
(***************************************************************************)
EXTENDS ScheduledBroadcasts, FiniteSetTheorems, WellFoundedInduction, TLAPS

(***************************************************************************)
(* The calendar.                                                           *)
(***************************************************************************)
LEMMA Remainder ==
    ASSUME NEW e \in Nat \ {0}, NEW q \in Int, NEW a \in 0..(e - 1)
    PROVE  (q * e + a) % e = a
  OBVIOUS

LEMMA Euclid ==
    ASSUME NEW e \in Nat \ {0}, NEW x \in Nat
    PROVE  x % e \in 0..(e - 1) /\ x \div e \in Int /\ x = (x \div e) * e + (x % e)
  OBVIOUS

LEMMA NextDueLater ==
    ASSUME NEW rule \in Rules, NEW t \in Nat
    PROVE  NextDue(rule, t) \in Nat /\ NextDue(rule, t) > t
<1> DEFINE e == rule.every
           a == rule.at % rule.every
           r == t % e
           q == t \div e
           k == IF a > r THEN t + (a - r) ELSE t + (a - r + e)
<1>1. e \in Nat \ {0} /\ rule.at \in Nat
  BY RuleAssumption
<1>2. a \in 0..(e - 1) /\ r \in 0..(e - 1) /\ q \in Int /\ t = q * e + r
  <2>1. a \in 0..(e - 1)
    BY <1>1, Euclid
  <2>2. r \in 0..(e - 1) /\ q \in Int /\ t = q * e + r
    BY <1>1, Euclid
  <2> QED BY <2>1, <2>2
<1>3. k % e = a
  <2>1. CASE a > r
    <3>1. k = q * e + a
      BY <1>1, <1>2, <2>1
    <3> QED BY <3>1, <1>1, <1>2, Remainder, SMTT(30)
  <2>2. CASE ~ a > r
    <3>1. k = (q + 1) * e + a
      BY <1>1, <1>2, <2>2
    <3> QED BY <3>1, <1>1, <1>2, Remainder, SMTT(30)
  <2> QED BY <2>1, <2>2
<1>4. k \in (t + 1)..(t + e)
  <2> HIDE DEF e, a, r
  <2> QED BY <1>1, <1>2
<1>5. NextDue(rule, t) \in (t + 1)..(t + e)
  <2> HIDE DEF k, e
  <2>1. \E j \in (t + 1)..(t + e) : j % e = rule.at % e
    BY <1>3, <1>4 DEF e
  <2> QED BY <2>1 DEF NextDue, e
<1> QED BY <1>5, <1>1

LEMMA LeastExists ==
    ASSUME NEW T, T \subseteq Nat, T # {}
    PROVE  \E x \in T : \A y \in T : x <= y
<1> DEFINE R == OpToRel(<, Nat)
<1>1. IsWellFoundedOn(R, Nat)
  BY NatLessThanWellFounded
<1>2. PICK x \in T : \A y \in T : ~ (<<y, x>> \in R)
  <2> HIDE DEF R
  <2> QED BY <1>1, WFMin
<1>3. \A y \in T : x <= y
  <2>1. SUFFICES ASSUME NEW y \in T, ~ (x <= y) PROVE FALSE
    OBVIOUS
  <2>2. y \in Nat /\ x \in Nat /\ y < x
    BY <2>1
  <2>3. <<y, x>> \in R
    BY <2>2 DEF OpToRel
  <2> QED BY <2>3, <1>2
<1> QED BY <1>3

LEMMA AdvanceTyped ==
    ASSUME NEW rule \in Rules, NEW due \in Nat, NEW t \in Nat
    PROVE  AdvancePastDue(rule, due, t) \in Nat
<1> DEFINE later == {k \in Walk(rule, due) : k > t}
<1>1. rule.every \in Nat /\ NextDue(rule, due) \in Nat /\ MaxCandidates \in Nat
  BY RuleAssumption, NextDueLater
<1>2. later \subseteq Nat
  <2>1. SUFFICES ASSUME NEW i \in 0..(MaxCandidates - 1)
                 PROVE  NextDue(rule, due) + i * rule.every \in Nat
    BY DEF Walk
  <2>2. i \in Nat
    BY <1>1
  <2>3. i * rule.every \in Nat
    BY <1>1, <2>2
  <2> QED BY <1>1, <2>3
<1>3. AdvancePastDue(rule, due, t) =
          IF later = {} THEN NoDue
          ELSE CHOOSE k \in later : \A other \in later : k <= other
  BY DEF AdvancePastDue
<1> HIDE DEF later
<1>4. CASE later = {}
  BY <1>3, <1>4 DEF NoDue
<1>5. CASE later # {}
  <2>1. \E k \in later : \A other \in later : k <= other
    BY <1>2, <1>5, LeastExists
  <2> QED BY <1>2, <1>3, <1>5, <2>1
<1> QED BY <1>4, <1>5

(***************************************************************************)
(* The machine: the state one block of the event loop works on.            *)
(***************************************************************************)
History == [fate: [Slots -> [Times -> Fates]], skip: SUBSET Skips, skewed: SUBSET Slots]

Machine == [db: [Slots -> Row], slots: [Slots -> Row], master: BOOLEAN, sch: Scheduler,
            replies: Seq(Reply), deliveries: SUBSET Delivery, hist: History,
            inject: BOOLEAN]

(* What belongs to the run, by position: several replies may be equal.     *)
OfRun(q) == {i \in DOMAIN q : InRun(q[i])}

Passing(q) == \E i \in DOMAIN q : q[i].kind \in {"miss", "missed", "filled"}
Owed(q) == \E i \in DOMAIN q : q[i].kind \in {"saved", "removed", "cleared"}

(* Nothing of a run is under way; exactly one thing is.                    *)
Free(m) == m.deliveries = {} /\ OfRun(m.replies) = {}
Busy(m) ==
    \/ (\E d : m.deliveries = {d}) /\ OfRun(m.replies) = {}
    \/ m.deliveries = {} /\ (\E i : OfRun(m.replies) = {i})

Serial(m) == IF m.sch.running THEN Busy(m) ELSE Free(m)

(* AlarmSet, wherever nothing is left that will call arm().                *)
Rings(m, s) ==
    /\ m.sch.timer # NoTimer
    /\ m.sch.timer <= m.slots[s].due \/ m.sch.timer <= now
Alarmed(m) ==
    (m.sch.started /\ m.master /\ ~m.sch.running /\ ~Passing(m.replies)) =>
        \A s \in Timely(m) : Rings(m, s)

SInv ==
    /\ TypeOK
    /\ Serial(Here)
    /\ Alarmed(Here)
    /\ ~up => replies = <<>> /\ deliveries = {} /\ sch = IdleScheduler
    /\ user = "clearing" \/ Owed(replies) => sch.subscribed

-----------------------------------------------------------------------------
(***************************************************************************)
(* The queue.                                                              *)
(***************************************************************************)
LEMMA Appended ==
    ASSUME NEW q \in Seq(Reply), NEW r \in Reply
    PROVE  /\ Append(q, r) \in Seq(Reply)
           /\ OfRun(Append(q, r)) = OfRun(q) \cup (IF InRun(r) THEN {Len(q) + 1} ELSE {})
           /\ Passing(Append(q, r)) <=>
                  Passing(q) \/ r.kind \in {"miss", "missed", "filled"}
           /\ Owed(Append(q, r)) <=>
                  Owed(q) \/ r.kind \in {"saved", "removed", "cleared"}
<1> DEFINE p == Append(q, r)
<1>1. p \in Seq(Reply) /\ Len(q) \in Nat
  OBVIOUS
<1>2. DOMAIN p = 1..(Len(q) + 1) /\ DOMAIN q = 1..Len(q)
  OBVIOUS
<1>3. p[Len(q) + 1] = r /\ \A i \in 1..Len(q) : p[i] = q[i]
  OBVIOUS
<1> HIDE DEF p
<1>4. OfRun(p) = OfRun(q) \cup (IF InRun(r) THEN {Len(q) + 1} ELSE {})
  BY <1>1, <1>2, <1>3 DEF OfRun
<1>5. Passing(p) <=> Passing(q) \/ r.kind \in {"miss", "missed", "filled"}
  BY <1>1, <1>2, <1>3 DEF Passing
<1>6. Owed(p) <=> Owed(q) \/ r.kind \in {"saved", "removed", "cleared"}
  BY <1>1, <1>2, <1>3 DEF Owed
<1> QED BY <1>1, <1>4, <1>5, <1>6 DEF p

LEMMA Taken ==
    ASSUME NEW q \in Seq(Reply), q # <<>>
    PROVE  /\ Tail(q) \in Seq(Reply) /\ Head(q) \in Reply
           /\ InRun(Head(q)) /\ (\E i : OfRun(q) = {i}) => OfRun(Tail(q)) = {}
           /\ OfRun(q) = {} => ~InRun(Head(q)) /\ OfRun(Tail(q)) = {}
           /\ ~InRun(Head(q)) /\ (\E i : OfRun(q) = {i}) => \E i : OfRun(Tail(q)) = {i}
           /\ Passing(Tail(q)) => Passing(q)
           /\ Passing(q) => Passing(Tail(q)) \/ Head(q).kind \in {"miss", "missed", "filled"}
           /\ Owed(Tail(q)) => Owed(q)
           /\ Head(q).kind \in {"saved", "removed", "cleared"} => Owed(q)
<1> DEFINE p == Tail(q)
<1>1. p \in Seq(Reply) /\ Head(q) \in Reply /\ Len(q) \in Nat \ {0} /\ Head(q) = q[1]
  OBVIOUS
<1>2. DOMAIN p = 1..(Len(q) - 1) /\ DOMAIN q = 1..Len(q)
  OBVIOUS
<1>3. \A i \in 1..(Len(q) - 1) : p[i] = q[i + 1]
  OBVIOUS
<1> HIDE DEF p
<1>4. \A i \in 1..(Len(q) - 1) : i + 1 \in 1..Len(q)
  BY <1>1
<1>5. \A i \in OfRun(p) : i + 1 \in OfRun(q) /\ i # 0
  BY <1>1, <1>2, <1>3, <1>4 DEF OfRun
<1>6. \A i \in OfRun(q) : i # 1 => i - 1 \in OfRun(p)
  <2>1. \A i \in 1..Len(q) : i # 1 => i - 1 \in 1..(Len(q) - 1) /\ p[i - 1] = q[i]
    <3>1. SUFFICES ASSUME NEW i \in 1..Len(q), i # 1
                   PROVE  i - 1 \in 1..(Len(q) - 1) /\ p[i - 1] = q[i]
      OBVIOUS
    <3>2. i - 1 \in 1..(Len(q) - 1) /\ (i - 1) + 1 = i
      BY <1>1, <3>1
    <3> QED BY <3>2, <1>3
  <2> QED BY <2>1, <1>2 DEF OfRun
<1>7. 1 \in OfRun(q) <=> InRun(Head(q))
  BY <1>1, <1>2 DEF OfRun
<1>8. OfRun(q) \subseteq Int /\ OfRun(p) \subseteq Int
  BY <1>1, <1>2 DEF OfRun
<1>9. ASSUME InRun(Head(q)), \E i : OfRun(q) = {i} PROVE OfRun(p) = {}
  <2>1. OfRun(q) = {1}
    BY <1>7, <1>9
  <2>2. SUFFICES ASSUME NEW i \in OfRun(p) PROVE FALSE
    OBVIOUS
  <2>3. i + 1 = 1 /\ i # 0 /\ i \in Int
    BY <1>5, <1>8, <2>1
  <2> QED BY <2>3
<1>10. OfRun(q) = {} => ~InRun(Head(q)) /\ OfRun(p) = {}
  BY <1>5, <1>7
<1>11. ASSUME ~InRun(Head(q)), \E i : OfRun(q) = {i} PROVE \E i : OfRun(p) = {i}
  <2>1. PICK i : OfRun(q) = {i}
    BY <1>11
  <2>2. i # 1 /\ i \in Int
    BY <2>1, <1>7, <1>8, <1>11
  <2>3. i - 1 \in OfRun(p)
    BY <2>1, <2>2, <1>6
  <2>4. \A j \in OfRun(p) : j = i - 1
    <3>1. SUFFICES ASSUME NEW j \in OfRun(p) PROVE j = i - 1
      OBVIOUS
    <3>2. j \in Int /\ j + 1 = i
      BY <1>5, <1>8, <2>1
    <3> QED BY <3>2, <2>2
  <2>5. OfRun(p) = {i - 1}
    BY <2>3, <2>4
  <2> QED BY <2>5
<1>12. Passing(p) => Passing(q)
  BY <1>2, <1>3, <1>4 DEF Passing
<1>13. \A i \in 1..Len(q) : q[i] = Head(q) \/ (i - 1 \in 1..(Len(q) - 1) /\ p[i - 1] = q[i])
  <2>1. SUFFICES ASSUME NEW i \in 1..Len(q), i # 1
                 PROVE  i - 1 \in 1..(Len(q) - 1) /\ p[i - 1] = q[i]
    BY <1>1
  <2>2. i - 1 \in 1..(Len(q) - 1) /\ (i - 1) + 1 = i
    BY <1>1, <2>1
  <2> QED BY <2>2, <1>3
<1>14. Passing(q) => Passing(p) \/ Head(q).kind \in {"miss", "missed", "filled"}
  BY <1>2, <1>13 DEF Passing
<1>15. Owed(p) => Owed(q)
  BY <1>2, <1>3, <1>4 DEF Owed
<1>16. Head(q).kind \in {"saved", "removed", "cleared"} => Owed(q)
  BY <1>1, <1>2 DEF Owed
<1> QED BY <1>1, <1>9, <1>10, <1>11, <1>12, <1>14, <1>15, <1>16 DEF p

(* A reply is of the set its kind says.                                    *)
LEMMA ReplyParts ==
    ASSUME NEW r \in Reply
    PROVE  /\ r.kind \in {"fire", "sent"} => r \in RunReply
           /\ r.kind \in {"miss", "missed"} => r \in PassReply
           /\ r.kind = "filled" => r \in FillReply
           /\ r.kind = "saved" => r \in [kind: {"saved"}, slot: Slots, stored: Row]
           /\ r.kind = "removed" => r \in [kind: {"removed"}, slot: Slots]
           /\ r.kind = "cleared" => r \in [kind: {"cleared"}]
           /\ r.kind \in {"fire", "sent", "miss", "missed", "filled", "saved", "removed",
                          "cleared"}
  BY DEF Reply, RunReply, PassReply, FillReply, UserReply

-----------------------------------------------------------------------------
(***************************************************************************)
(* The operators of a block.                                               *)
(***************************************************************************)
(* Only the timers and the run's own flags may differ.                     *)
Quiet(m, n) ==
    /\ n \in Machine
    /\ n.db = m.db /\ n.slots = m.slots /\ n.master = m.master
    /\ n.replies = m.replies /\ n.deliveries = m.deliveries
    /\ n.sch.started = m.sch.started /\ n.sch.subscribed = m.sch.subscribed
    /\ n.sch.running = m.sch.running

(* One part of the machine is replaced.                                    *)
LEMMA SchSet ==
    ASSUME NEW m \in Machine, NEW s \in Scheduler
    PROVE  LET n == [m EXCEPT !.sch = s]
           IN  /\ n \in Machine /\ n.sch = s
               /\ n.db = m.db /\ n.slots = m.slots /\ n.master = m.master
               /\ n.replies = m.replies /\ n.deliveries = m.deliveries
               /\ n.inject = m.inject
  BY DEF Machine

LEMMA HistSet ==
    ASSUME NEW m \in Machine, NEW h \in History
    PROVE  LET n == [m EXCEPT !.hist = h]
           IN  /\ n \in Machine /\ n.sch = m.sch
               /\ n.db = m.db /\ n.slots = m.slots /\ n.master = m.master
               /\ n.replies = m.replies /\ n.deliveries = m.deliveries
               /\ n.inject = m.inject
  BY DEF Machine

LEMMA RepliesSet ==
    ASSUME NEW m \in Machine, NEW q \in Seq(Reply)
    PROVE  LET n == [m EXCEPT !.replies = q]
           IN  /\ n \in Machine /\ n.sch = m.sch
               /\ n.db = m.db /\ n.slots = m.slots /\ n.master = m.master
               /\ n.replies = q /\ n.deliveries = m.deliveries
               /\ n.inject = m.inject
  BY DEF Machine

LEMMA SlotsSet ==
    ASSUME NEW m \in Machine, NEW f \in [Slots -> Row]
    PROVE  LET n == [m EXCEPT !.slots = f]
           IN  /\ n \in Machine /\ n.sch = m.sch
               /\ n.db = m.db /\ n.slots = f /\ n.master = m.master
               /\ n.replies = m.replies /\ n.deliveries = m.deliveries
               /\ n.inject = m.inject
  BY DEF Machine

LEMMA DbSet ==
    ASSUME NEW m \in Machine, NEW f \in [Slots -> Row]
    PROVE  LET n == [m EXCEPT !.db = f]
           IN  /\ n \in Machine /\ n.sch = m.sch
               /\ n.db = f /\ n.slots = m.slots /\ n.master = m.master
               /\ n.replies = m.replies /\ n.deliveries = m.deliveries
               /\ n.inject = m.inject
  BY DEF Machine

LEMMA EarliestFirst ==
    ASSUME NEW m \in Machine, Timely(m) # {}
    PROVE  Earliest(m) \in Nat /\ \A s \in Timely(m) : Earliest(m) <= m.slots[s].due
<1> DEFINE T == {m.slots[s].due : s \in Timely(m)}
<1>1. \A s \in Timely(m) : m.slots[s] \in Row
  BY DEF Timely, On, Machine
<1>2. \A s \in Timely(m) : m.slots[s].due \in Nat
  BY <1>1 DEF Row, Due
<1>3. T \subseteq Nat /\ T # {}
  BY <1>2
<1>4. PICK d \in T : \A e \in T : d <= e
  <2> HIDE DEF T
  <2> QED BY <1>3, LeastExists
<1>5. \E x \in T : \A s \in Timely(m) : x <= m.slots[s].due
  BY <1>4
<1>6. Earliest(m) \in T /\ \A s \in Timely(m) : Earliest(m) <= m.slots[s].due
  BY <1>5 DEF Earliest
<1> QED BY <1>3, <1>6

(* arm() sets the timer right.                                             *)
LEMMA ArmStep ==
    ASSUME NEW m \in Machine, now \in Times
    PROVE  Quiet(m, Arm(m)) /\ Alarmed(Arm(m))
<1> DEFINE n == Arm(m)
<1>0. now \in Nat /\ now # 0
  BY DEF Times
<1>1. CASE ~m.sch.started \/ ~m.master
  <2> DEFINE s == [m.sch EXCEPT !.timer = NoTimer, !.interval = FALSE]
  <2>1. n = [m EXCEPT !.sch = s]
    BY <1>1 DEF Arm, Machine, Scheduler
  <2>2. /\ s \in Scheduler /\ s.started = m.sch.started /\ s.subscribed = m.sch.subscribed
        /\ s.running = m.sch.running
    BY DEF Machine, Scheduler, NoTimer
  <2> HIDE DEF n, s
  <2>3. Quiet(m, n) /\ (~n.sch.started \/ ~n.master)
    BY <1>1, <2>1, <2>2, SchSet DEF Quiet
  <2> QED BY <2>3 DEF Alarmed, n
<1>2. CASE m.sch.started /\ m.master /\ m.sch.running
  <2> DEFINE s == [m.sch EXCEPT !.timer = NoTimer]
  <2>1. n = [m EXCEPT !.sch = s]
    BY <1>2 DEF Arm, Machine, Scheduler
  <2>2. /\ s \in Scheduler /\ s.started = m.sch.started /\ s.subscribed = m.sch.subscribed
        /\ s.running = m.sch.running
    BY DEF Machine, Scheduler, NoTimer
  <2> HIDE DEF n, s
  <2>3. Quiet(m, n)
    BY <2>1, <2>2, SchSet DEF Quiet
  <2> QED BY <1>2, <2>3 DEF Alarmed, Quiet, n
<1>3. CASE m.sch.started /\ m.master /\ ~m.sch.running
  <2> DEFINE e == Earliest(m)
             t == IF Timely(m) = {} THEN NoTimer ELSE IF e > now THEN e ELSE now
  <2> DEFINE s == [m.sch EXCEPT !.interval = TRUE, !.timer = t]
  <2>1. n = [m EXCEPT !.sch = s]
    BY <1>3 DEF Arm, Machine, Scheduler
  <2>2. t \in Nat /\ (Timely(m) # {} => t # 0 /\ \A k \in Timely(m) :
                          t <= m.slots[k].due \/ t <= now)
    <3>1. CASE Timely(m) = {}
      BY <3>1 DEF NoTimer
    <3>2. CASE Timely(m) # {}
      BY <1>0, <3>2, EarliestFirst
    <3> QED BY <3>1, <3>2
  <2> HIDE DEF t
  <2>6. /\ s \in Scheduler /\ s.started = m.sch.started /\ s.subscribed = m.sch.subscribed
        /\ s.running = m.sch.running /\ s.timer = t
    BY <2>2 DEF Machine, Scheduler
  <2> HIDE DEF n, s
  <2>3. Quiet(m, n) /\ n.sch.timer = t
    BY <2>1, <2>6, SchSet DEF Quiet
  <2>4. Timely(n) = Timely(m)
    BY <2>3 DEF Quiet, Timely, On
  <2>5. \A k \in Timely(n) : Rings(n, k)
    BY <2>2, <2>3, <2>4 DEF Quiet, Rings, NoTimer
  <2> QED BY <2>3, <2>5 DEF Alarmed, n
<1> QED
  <2>1. m.sch.running \in BOOLEAN /\ m.sch.started \in BOOLEAN /\ m.master \in BOOLEAN
    BY DEF Machine, Scheduler
  <2> QED BY <1>1, <1>2, <1>3, <2>1

LEMMA HoldTyped ==
    ASSUME NEW m \in Machine, NEW s \in Slots
    PROVE  Hold(m, s) \in Held /\ Hold(m, s).slot = s /\ Hold(m, s).due = m.slots[s].due
<1>1. m.slots[s] \in Row
  BY DEF Machine
<1> QED BY <1>1 DEF Hold, Held, Row

(* Crossed and the two places where a reply is sent.                       *)
LEMMA CrossedStep ==
    ASSUME NEW m \in Machine, NEW s \in Slots
    PROVE  Quiet(m, Crossed(m, s)) /\ Crossed(m, s).sch = m.sch
               /\ Crossed(m, s).inject = m.inject
<1> DEFINE T == {t \in {s} : Outstanding(m, t)}
<1>1. T \subseteq Slots
  OBVIOUS
<1> DEFINE h == [m.hist EXCEPT !.skewed = @ \cup T]
<1>2. Crossed(m, s) = [m EXCEPT !.hist = h]
  BY DEF Crossed, Machine, History
<1> HIDE DEF T
<1>3. h \in History
  BY <1>1 DEF Machine, History
<1> HIDE DEF h
<1> QED BY <1>2, <1>3, HistSet DEF Quiet

(* A request has been sent: the reply r will come.                         *)
Sent(m, n, r) ==
    /\ n \in Machine /\ r \in Reply
    /\ n.sch = m.sch /\ n.slots = m.slots /\ n.master = m.master
    /\ n.deliveries = m.deliveries
    /\ n.replies = Append(m.replies, r)

LEMMA SendStep ==
    ASSUME NEW m \in Machine, NEW r \in Reply
    PROVE  Sent(m, Send(m, r), r)
<1> DEFINE q == Append(m.replies, r)
           n == Send(m, r)
<1>1. q \in Seq(Reply)
  <2>1. m.replies \in Seq(Reply)
    BY DEF Machine
  <2> QED BY <2>1, Appended
<1>2. n = [m EXCEPT !.replies = q]
  BY DEF Send
<1> HIDE DEF q, n
<1>3. /\ n \in Machine /\ n.sch = m.sch /\ n.slots = m.slots /\ n.master = m.master
      /\ n.replies = q /\ n.deliveries = m.deliveries
  BY <1>1, <1>2, RepliesSet
<1> QED BY <1>3 DEF Sent, q, n

LEMMA RejectedStep ==
    ASSUME NEW m \in Machine, NEW r \in Reply, [r EXCEPT !.ok = "failed"] \in Reply
    PROVE  Sent(m, Rejected(m, r), [r EXCEPT !.ok = "failed"])
<1> DEFINE f == [r EXCEPT !.ok = "failed"]
           q == Append(m.replies, f)
<1>1. q \in Seq(Reply)
  <2>1. m.replies \in Seq(Reply)
    BY DEF Machine
  <2> QED BY <2>1, Appended
<1>2. Rejected(m, r) = [m EXCEPT !.replies = q, !.inject = FALSE]
  BY DEF Rejected
<1> HIDE DEF q
<1>3. LET n == [m EXCEPT !.replies = q, !.inject = FALSE]
      IN  /\ n \in Machine /\ n.sch = m.sch
          /\ n.slots = m.slots /\ n.master = m.master
          /\ n.replies = q /\ n.deliveries = m.deliveries
  BY <1>1 DEF Machine
<1> QED BY <1>2, <1>3 DEF Sent, q

(* A claim sends one reply, which says what was asked.                     *)
LEMMA ClaimStep ==
    ASSUME NEW m \in Machine, NEW reply \in RunReply \cup PassReply, NEW how \in Fates
    PROVE  \E r \in Reply :
               /\ Sent(m, Claim(m, reply, how), r)
               /\ r.kind = reply.kind
               /\ reply \in PassReply => r.pass = reply.pass
<1> DEFINE n == Claim(m, reply, how)
           s == reply.row.slot
           due == reply.row.due
           Alike(r) == /\ r \in Reply /\ r.kind = reply.kind
                       /\ reply \in PassReply => r.pass = reply.pass
<1>1. s \in Slots /\ due \in Nat /\ reply.next \in Nat
  BY DEF RunReply, PassReply, Held, Due
<1>2. \A a \in Answers : Alike([reply EXCEPT !.ok = a])
  BY DEF RunReply, PassReply, Reply
<1>3. Alike(reply)
  BY DEF Reply
<1>4. CASE m.inject
  <2>1. n = Rejected(m, reply)
    BY <1>4 DEF Claim
  <2>2. Sent(m, n, [reply EXCEPT !.ok = "failed"])
    BY <1>2, <1>3, <2>1, RejectedStep DEF Answers
  <2> QED BY <1>2, <2>2 DEF Answers
<1>5. CASE ~m.inject /\ ~Claimable(m.db[s], due)
  <2>1. n = Send(m, [reply EXCEPT !.ok = "no"])
    BY <1>5 DEF Claim
  <2>2. Sent(m, n, [reply EXCEPT !.ok = "no"])
    BY <1>2, <2>1, SendStep DEF Answers
  <2> QED BY <1>2, <2>2 DEF Answers
<1>6. CASE ~m.inject /\ Claimable(m.db[s], due)
  <2> DEFINE c == Crossed(m, s)
             f == [c.db EXCEPT ![s].due = reply.next]
             h == [c.hist EXCEPT !.fate[s][due] = Settle(@, how)]
             b == [c EXCEPT !.db = f]
             d == [b EXCEPT !.hist = h]
  <2>1. c \in Machine /\ Quiet(m, c) /\ c.sch = m.sch
    BY <1>1, CrossedStep, SMTT(30) DEF Quiet
  <2>2. n = Send([c EXCEPT !.db[s].due = reply.next, !.hist.fate[s][due] = Settle(@, how)],
                 reply)
    BY <1>6, ZenonT(120) DEF Claim
  <2> HIDE DEF c
  <2>3. f \in [Slots -> Row]
    BY <1>1, <2>1, ZenonT(120) DEF Machine, Row, Due
  <2>4. h \in History
    <3>1. c.hist \in History
      BY <2>1 DEF Machine
    <3>2. [c.hist.fate EXCEPT ![s][due] = Settle(@, how)] \in [Slots -> [Times -> Fates]]
      <4> DEFINE g == c.hist.fate
                 k == [g[s] EXCEPT ![due] = Settle(@, how)]
      <4>1. g \in [Slots -> [Times -> Fates]] /\ g[s] \in [Times -> Fates]
        BY <1>1, <3>1 DEF History
      <4>2. k \in [Times -> Fates]
        BY <4>1 DEF Settle, Fates
      <4>3. [g EXCEPT ![s][due] = Settle(@, how)] = [g EXCEPT ![s] = k]
        BY <1>1, <4>1
      <4> QED BY <1>1, <4>1, <4>2, <4>3
    <3>3. h = [c.hist EXCEPT !.fate = [c.hist.fate EXCEPT ![s][due] = Settle(@, how)]]
      BY <3>1 DEF History
    <3> QED BY <3>1, <3>2, <3>3 DEF History
  <2>5. [c EXCEPT !.db[s].due = reply.next, !.hist.fate[s][due] = Settle(@, how)] = d
    BY <2>1 DEF Machine
  <2>10. b = [c EXCEPT !.db = f] /\ d = [b EXCEPT !.hist = h]
    OBVIOUS
  <2> HIDE DEF d, b, f, h
  <2>11. /\ b \in Machine /\ b.sch = c.sch /\ b.slots = c.slots /\ b.master = c.master
         /\ b.deliveries = c.deliveries /\ b.replies = c.replies
    BY <2>1, <2>3, <2>10, DbSet, SMTT(30)
  <2>6. /\ d \in Machine /\ d.sch = c.sch /\ d.slots = c.slots /\ d.master = c.master
        /\ d.deliveries = c.deliveries /\ d.replies = c.replies
    BY <2>4, <2>10, <2>11, HistSet, ZenonT(120)
  <2>7. n = Send(d, reply)
    BY <2>2, <2>5
  <2>8. Sent(d, n, reply)
    BY <1>3, <2>6, <2>7, SendStep
  <2>9. Sent(m, n, reply)
    BY <2>1, <2>6, <2>8 DEF Sent, Quiet
  <2> QED BY <1>3, <2>9
<1>7. m.inject \in BOOLEAN
  BY DEF Machine
<1> QED BY <1>4, <1>5, <1>6, <1>7

(* A null due time is filled in by one reply, which names the same pass.   *)
LEMMA FillStep ==
    ASSUME NEW m \in Machine, NEW s \in Slots, NEW next \in Nat, NEW pass \in Pass
    PROVE  \E r \in Reply :
               Sent(m, Fill(m, s, next, pass), r) /\ r.kind = "filled" /\ r.pass = pass
<1> DEFINE n == Fill(m, s, next, pass)
           stored == WithDue(m.db[s], next)
           reply == [kind |-> "filled", slot |-> s, stored |-> stored,
                     ok |-> "yes", pass |-> pass]
           failed == [reply EXCEPT !.ok = "failed"]
<1>1. stored \in Row
  BY ZenonT(120) DEF WithDue, Machine, Row, Due
<1>2. reply \in FillReply /\ failed \in FillReply
  BY <1>1 DEF FillReply, Answers
<1>3. reply \in Reply /\ failed \in Reply
  BY <1>2 DEF Reply
<1>4. reply.kind = "filled" /\ reply.pass = pass /\ failed.kind = "filled" /\ failed.pass = pass
  OBVIOUS
<1>5. CASE m.inject
  <2>1. n = Rejected(m, reply)
    BY <1>5 DEF Fill
  <2>2. Sent(m, n, failed)
    BY <1>3, <2>1, RejectedStep
  <2> QED BY <1>3, <1>4, <2>2
<1>6. CASE ~m.inject
  <2> DEFINE c == Crossed(m, s)
             f == [c.db EXCEPT ![s] = stored]
             d == [c EXCEPT !.db = f]
  <2>1. c \in Machine /\ Quiet(m, c) /\ c.sch = m.sch
    BY CrossedStep DEF Quiet
  <2>2. n = Send([c EXCEPT !.db[s] = stored], reply)
    BY <1>6 DEF Fill
  <2> HIDE DEF c, stored, reply
  <2>3. f \in [Slots -> Row]
    BY <1>1, <2>1 DEF Machine
  <2>4. [c EXCEPT !.db[s] = stored] = d
    BY <2>1 DEF Machine
  <2>8. d = [c EXCEPT !.db = f]
    OBVIOUS
  <2> HIDE DEF d, f
  <2>5. /\ d \in Machine /\ d.sch = c.sch /\ d.slots = c.slots /\ d.master = c.master
        /\ d.deliveries = c.deliveries /\ d.replies = c.replies
    BY <2>1, <2>3, <2>8, DbSet
  <2>6. Sent(d, n, reply)
    BY <1>3, <2>2, <2>4, <2>5, SendStep
  <2>7. Sent(m, n, reply)
    BY <2>1, <2>5, <2>6 DEF Sent, Quiet
  <2> QED BY <1>3, <1>4, <2>7
<1> QED
  <2>1. m.inject \in BOOLEAN
    BY DEF Machine
  <2> QED BY <1>5, <1>6, <2>1

(* What every operator keeps; what those keep that leave the run alone.    *)
Carries(m, n) ==
    /\ n \in Machine
    /\ n.sch.started = m.sch.started
    /\ m.sch.subscribed => n.sch.subscribed
    /\ Owed(n.replies) => Owed(m.replies)
Aside(m, n) ==
    /\ Carries(m, n)
    /\ n.sch.running = m.sch.running
    /\ n.deliveries = m.deliveries
    /\ OfRun(n.replies) = OfRun(m.replies)

LEMMA QuietAside ==
    ASSUME NEW m, NEW n, Quiet(m, n)
    PROVE  Aside(m, n)
  BY DEF Quiet, Aside, Carries

LEMMA AsideAgain ==
    ASSUME NEW m, NEW n, NEW p, Aside(m, n), Aside(n, p)
    PROVE  Aside(m, p)
  BY DEF Aside, Carries

LEMMA CarriesAgain ==
    ASSUME NEW m, NEW n, NEW p, Carries(m, n), Carries(n, p)
    PROVE  Carries(m, p)
  BY DEF Carries

(* A pass's request leaves the run alone, or is the run's one request.     *)
LEMMA PassSent ==
    ASSUME NEW m \in Machine, NEW n, NEW r, Sent(m, n, r), r.kind \in {"miss", "filled"}
    PROVE  /\ Carries(m, n) /\ Alarmed(n) /\ n.sch = m.sch /\ n.deliveries = m.deliveries
           /\ r.pass.who \in {"refresh", "start"} => Aside(m, n)
           /\ r.pass.who \in {"resume", "finish"} /\ Free(m) => Busy(n)
<1>1. m.replies \in Seq(Reply) /\ r \in Reply /\ n.replies = Append(m.replies, r)
  BY DEF Machine, Sent
<1>2. /\ OfRun(n.replies) = OfRun(m.replies) \cup
                            (IF InRun(r) THEN {Len(m.replies) + 1} ELSE {})
      /\ Passing(n.replies)
      /\ Owed(n.replies) <=> Owed(m.replies)
  BY <1>1, Appended
<1>3. Carries(m, n) /\ n.sch = m.sch /\ n.deliveries = m.deliveries
  BY <1>2 DEF Carries, Sent
<1>4. Alarmed(n)
  BY <1>2 DEF Alarmed
<1>5. r.pass.who \in {"refresh", "start"} => ~InRun(r)
  BY DEF InRun
<1>6. r.pass.who \in {"resume", "finish"} => InRun(r)
  BY DEF InRun
<1>7. r.pass.who \in {"refresh", "start"} => Aside(m, n)
  BY <1>2, <1>3, <1>5 DEF Aside
<1>8. ASSUME r.pass.who \in {"resume", "finish"}, Free(m) PROVE Busy(n)
  <2>1. OfRun(n.replies) = {Len(m.replies) + 1} /\ n.deliveries = {}
    BY <1>2, <1>3, <1>6, <1>8 DEF Free
  <2> QED BY <2>1 DEF Busy
<1> QED BY <1>3, <1>4, <1>7, <1>8

LEMMA NextForTyped ==
    ASSUME NEW row \in Held, NEW at \in Nat
    PROVE  NextFor(row, at) \in Nat
<1>1. row.rule \in Rules /\ row.due \in Nat
  BY DEF Held, Due
<1> QED BY <1>1, NextDueLater, AdvanceTyped DEF NextFor

LEMMA FirstTaken ==
    ASSUME NEW rest \in SUBSET Held, rest # {}
    PROVE  First(rest) \in rest
<1> DEFINE T == {row.slot : row \in rest}
<1>1. \A row \in rest : row.slot \in Nat
  BY BroadcastAssumption DEF Held, Slots
<1>2. T \subseteq Nat /\ T # {}
  BY <1>1
<1>3. PICK t \in T : \A u \in T : t <= u
  <2> HIDE DEF T
  <2> QED BY <1>2, LeastExists
<1>4. \E row \in rest : \A other \in rest : row.slot <= other.slot
  BY <1>3
<1> QED BY <1>4 DEF First

(* The end of a pass arms; the end of a run's pass clears the flag.        *)
LEMMA NormalizedStep ==
    ASSUME NEW m \in Machine, NEW who \in Callers, now \in Times
    PROVE  LET n == Normalized(m, who)
           IN  /\ Carries(m, n) /\ Alarmed(n)
               /\ who \in {"refresh", "start"} => Aside(m, n)
               /\ who \in {"resume", "finish"} /\ Free(m) => Serial(n)
<1> DEFINE n == Normalized(m, who)
<1>1. CASE who = "refresh"
  <2>1. n = Arm(m)
    BY <1>1 DEF Normalized
  <2> HIDE DEF n
  <2>2. Quiet(m, n) /\ Alarmed(n)
    BY <2>1, ArmStep
  <2> QED BY <1>1, <2>2, QuietAside DEF Aside, n
<1>2. CASE who = "start"
  <2> DEFINE a == Arm(m)
             s == [a.sch EXCEPT !.subscribed = TRUE]
  <2>1. Quiet(m, a) /\ Alarmed(a) /\ a \in Machine
    BY ArmStep DEF Quiet
  <2>2. n = [a EXCEPT !.sch.subscribed = TRUE]
    BY <1>2 DEF Normalized
  <2> HIDE DEF a
  <2>3. n = [a EXCEPT !.sch = s]
    BY <2>1, <2>2 DEF Machine, Scheduler
  <2>4. /\ s \in Scheduler /\ s.started = a.sch.started /\ s.subscribed = TRUE
        /\ s.running = a.sch.running /\ s.timer = a.sch.timer
    BY <2>1 DEF Machine, Scheduler
  <2> HIDE DEF n, s
  <2>5. /\ n \in Machine /\ n.sch = s /\ n.slots = a.slots /\ n.master = a.master
        /\ n.replies = a.replies /\ n.deliveries = a.deliveries
    BY <2>1, <2>3, <2>4, SchSet
  <2>6. Aside(m, n)
    BY <2>1, <2>4, <2>5 DEF Aside, Carries, Quiet
  <2>7. Alarmed(n)
    <3>1. Timely(n) = Timely(a)
      BY <2>5 DEF Timely, On
    <3> QED BY <2>1, <2>4, <2>5, <3>1 DEF Alarmed, Rings
  <2> QED BY <1>2, <2>6, <2>7 DEF Aside, n
<1>3. CASE who \in {"resume", "finish"}
  <2> DEFINE s == [m.sch EXCEPT !.running = FALSE]
             b == [m EXCEPT !.sch = s]
  <2>1. n = Arm([m EXCEPT !.sch.running = FALSE])
    BY <1>3 DEF Normalized
  <2>2. [m EXCEPT !.sch.running = FALSE] = b
    BY DEF Machine, Scheduler
  <2>3. /\ s \in Scheduler /\ s.started = m.sch.started
        /\ s.subscribed = m.sch.subscribed /\ s.running = FALSE
    BY DEF Machine, Scheduler
  <2>4. b = [m EXCEPT !.sch = s]
    OBVIOUS
  <2> HIDE DEF n, b, s
  <2>5. /\ b \in Machine /\ b.sch = s /\ b.slots = m.slots /\ b.master = m.master
        /\ b.replies = m.replies /\ b.deliveries = m.deliveries
    BY <2>3, <2>4, SchSet
  <2>6. Quiet(b, n) /\ Alarmed(n)
    BY <2>1, <2>2, <2>5, ArmStep
  <2>7. Carries(m, n) /\ n.sch.running = FALSE
    BY <2>3, <2>5, <2>6 DEF Carries, Quiet
  <2>8. Free(m) => Serial(n)
    BY <2>5, <2>6, <2>7 DEF Serial, Free, Quiet
  <2> QED BY <1>3, <2>6, <2>7, <2>8 DEF n
<1> QED BY <1>1, <1>2, <1>3 DEF Callers

LEMMA NormalizeStep ==
    ASSUME NEW m \in Machine, NEW pass \in Pass, now \in Times
    PROVE  LET n == Normalize(m, pass)
           IN  /\ Carries(m, n) /\ Alarmed(n)
               /\ pass.who \in {"refresh", "start"} => Aside(m, n)
               /\ pass.who \in {"resume", "finish"} /\ m.sch.running /\ Free(m) => Serial(n)
<1> DEFINE n == Normalize(m, pass)
<1>1. pass.who \in Callers /\ pass.at \in Nat /\ pass.rest \in SUBSET Held
  BY DEF Pass
<1>2. CASE pass.rest = {}
  <2>1. n = Normalized(m, pass.who)
    BY <1>2 DEF Normalize
  <2> HIDE DEF n
  <2> QED BY <1>1, <2>1, NormalizedStep DEF n
<1>3. CASE pass.rest # {}
  <2> DEFINE row == First(pass.rest)
             next == NextFor(row, pass.at)
             later == [pass EXCEPT !.rest = @ \ {row}]
             asked == [kind |-> "miss", row |-> row, next |-> next, ok |-> "yes",
                       pass |-> later]
  <2>1. row \in Held /\ next \in Nat
    BY <1>1, <1>3, FirstTaken, NextForTyped
  <2>2. later \in Pass /\ later.who = pass.who
    BY DEF Pass
  <2>3. n = IF row.due = NoDue THEN Fill(m, row.slot, next, later)
            ELSE Claim(m, asked, "missed")
    BY <1>3 DEF Normalize
  <2>4. \E r \in Reply : /\ Sent(m, n, r) /\ r.kind \in {"miss", "filled"}
                         /\ r.pass.who = pass.who
    <3>1. CASE row.due = NoDue
      <4>1. row.slot \in Slots
        BY <2>1 DEF Held
      <4>2. n = Fill(m, row.slot, next, later)
        BY <2>3, <3>1
      <4> HIDE DEF n, row, next, later
      <4> QED BY <2>1, <2>2, <4>1, <4>2, FillStep
    <3>2. CASE row.due # NoDue
      <4>1. n = Claim(m, asked, "missed")
        BY <2>3, <3>2
      <4> HIDE DEF n, row, next, later
      <4>2. asked \in PassReply /\ asked.pass = later /\ asked.kind = "miss"
        BY <2>1, <2>2 DEF PassReply, Answers, Due
      <4>3. "missed" \in Fates
        BY DEF Fates
      <4> HIDE DEF asked
      <4> QED BY <2>2, <4>1, <4>2, <4>3, ClaimStep
    <3> QED BY <3>1, <3>2
  <2> HIDE DEF n
  <2>5. PICK r \in Reply : Sent(m, n, r) /\ r.kind \in {"miss", "filled"}
                           /\ r.pass.who = pass.who
    BY <2>4
  <2>6. /\ Carries(m, n) /\ Alarmed(n) /\ n.sch = m.sch
        /\ pass.who \in {"refresh", "start"} => Aside(m, n)
        /\ pass.who \in {"resume", "finish"} /\ Free(m) => Busy(n)
    BY <2>5, PassSent
  <2>7. pass.who \in {"resume", "finish"} /\ m.sch.running /\ Free(m) => Serial(n)
    BY <2>6 DEF Serial
  <2> QED BY <2>6, <2>7 DEF n
<1> QED BY <1>2, <1>3

LEMMA ReconcileStep ==
    ASSUME NEW m \in Machine, NEW who \in Callers, NEW mode, now \in Times
    PROVE  LET n == Reconcile(m, who, mode)
           IN  /\ Carries(m, n) /\ Alarmed(n)
               /\ who \in {"refresh", "start"} => Aside(m, n)
               /\ who \in {"resume", "finish"} /\ m.sch.running /\ Free(m) => Serial(n)
<1> DEFINE n == Reconcile(m, who, mode)
           pass == [who |-> who, at |-> now, rest |-> Todo(m, mode)]
<1>1. Todo(m, mode) \subseteq Held
  <2>1. \A s \in On(m) : Hold(m, s) \in Held
    BY HoldTyped DEF On
  <2> QED BY <2>1 DEF Todo
<1>2. pass \in Pass /\ pass.who = who
  BY <1>1 DEF Pass, Times
<1>3. n = Normalize(m, pass)
  BY DEF Reconcile
<1> HIDE DEF n, pass
<1> QED BY <1>2, <1>3, NormalizeStep DEF n

(* refresh() leaves a run alone and the alarm set.                         *)
LEMMA RefreshStep ==
    ASSUME NEW m \in Machine, now \in Times
    PROVE  Aside(m, Refresh(m)) /\ Alarmed(Refresh(m))
<1> DEFINE n == Refresh(m)
           justEnabled == m.master /\ ~m.sch.lastEnabled
           s == [m.sch EXCEPT !.lastEnabled = m.master]
           t == [s EXCEPT !.reconcilePending = @ \/ justEnabled]
           noted == [m EXCEPT !.sch = s]
           later == [m EXCEPT !.sch = t]
           mode == IF justEnabled THEN "skip-missed" ELSE "fill-null"
<1>1. /\ s \in Scheduler /\ s.started = m.sch.started
      /\ s.subscribed = m.sch.subscribed /\ s.running = m.sch.running
      /\ t \in Scheduler /\ t.started = m.sch.started
      /\ t.subscribed = m.sch.subscribed /\ t.running = m.sch.running
  BY DEF Machine, Scheduler
<1>2. [m EXCEPT !.sch.lastEnabled = m.master] = noted
  BY DEF Machine, Scheduler
<1>3. [noted EXCEPT !.sch.reconcilePending = @ \/ justEnabled] = later
  BY DEF Machine, Scheduler
<1>4. n = IF m.master /\ ~m.sch.running THEN Reconcile(noted, "refresh", mode)
          ELSE Arm(later)
  BY <1>2, <1>3 DEF Refresh
<1>5. noted = [m EXCEPT !.sch = s] /\ later = [m EXCEPT !.sch = t]
  OBVIOUS
<1> HIDE DEF n, s, t, noted, later, mode, justEnabled
<1>6. Quiet(m, noted) /\ Quiet(m, later) /\ noted \in Machine /\ later \in Machine
  BY <1>1, <1>5, SchSet DEF Quiet
<1>7. Aside(m, noted) /\ Aside(m, later)
  BY <1>6, QuietAside
<1>8. CASE m.master /\ ~m.sch.running
  <2>1. Aside(noted, n) /\ Alarmed(n)
    BY <1>4, <1>6, <1>8, ReconcileStep DEF Callers
  <2> QED BY <1>7, <2>1, AsideAgain DEF n
<1>9. CASE ~(m.master /\ ~m.sch.running)
  <2>1. n = Arm(later)
    BY <1>4, <1>9
  <2>2. Quiet(later, n) /\ Alarmed(n)
    BY <1>6, <2>1, ArmStep
  <2> QED BY <1>7, <2>2, QuietAside, AsideAgain DEF n
<1> QED BY <1>8, <1>9

LEMMA ChangedStep ==
    ASSUME NEW m \in Machine, now \in Times
    PROVE  Aside(m, Changed(m)) /\ (m.sch.subscribed => Alarmed(Changed(m)))
<1>1. CASE m.sch.subscribed
  BY <1>1, RefreshStep DEF Changed
<1>2. CASE ~m.sch.subscribed
  BY <1>2 DEF Changed, Aside, Carries
<1> QED BY <1>1, <1>2

LEMMA ApplyStep ==
    ASSUME NEW m \in Machine, NEW s \in Slots, NEW due \in Nat, now \in Times
    PROVE  Aside(m, Apply(m, s, due))
<1> DEFINE f == [m.slots EXCEPT ![s].due = due]
           n == [m EXCEPT !.slots = f]
<1>1. CASE ~m.slots[s].here
  BY <1>1 DEF Apply, Aside, Carries
<1>2. CASE m.slots[s].here
  <2>1. f \in [Slots -> Row]
    BY ZenonT(120) DEF Machine, Row, Due
  <2>2. Apply(m, s, due) = Changed(n)
    <3>1. [m EXCEPT !.slots[s].due = due] = n
      BY DEF Machine
    <3> QED BY <1>2, <3>1 DEF Apply
  <2>3. n = [m EXCEPT !.slots = f]
    OBVIOUS
  <2> HIDE DEF n, f
  <2>4. /\ n \in Machine /\ n.sch = m.sch /\ n.replies = m.replies
        /\ n.deliveries = m.deliveries
    BY <2>1, <2>3, SlotsSet
  <2>5. Aside(m, n)
    BY <2>4 DEF Aside, Carries
  <2> QED BY <2>2, <2>4, <2>5, ChangedStep, AsideAgain
<1> QED BY <1>1, <1>2

-----------------------------------------------------------------------------
(***************************************************************************)
(* The run.                                                                *)
(***************************************************************************)
(* A block that ends with the run serial and the alarm set.                *)
Lands(m, n) == Carries(m, n) /\ Serial(n) /\ Alarmed(n)

LEMMA FireableFirst ==
    ASSUME NEW m \in Machine, NEW run, Fireable(m, run) # {}
    PROVE  LET slot == CHOOSE s \in Fireable(m, run) :
                           \A t \in Fireable(m, run) : Before(m, s, t)
           IN  slot \in Slots /\ slot \in Fireable(m, run)
<1> DEFINE T == Fireable(m, run)
           D == {m.slots[s].due : s \in T}
<1>1. T \subseteq Slots /\ \A s \in T : m.slots[s].due \in Nat /\ s \in Nat
  BY BroadcastAssumption, SMTT(30)
     DEF Fireable, OverdueSlots, Timely, On, Machine, Row, Due, Slots
<1> HIDE DEF T
<1>2. D \subseteq Nat /\ D # {}
  BY <1>1 DEF T
<1>3. PICK d \in D : \A e \in D : d <= e
  <2> HIDE DEF D
  <2> QED BY <1>2, LeastExists
<1> DEFINE E == {s \in T : m.slots[s].due = d}
<1>4. E \subseteq Nat /\ E # {} /\ E \subseteq T
  BY <1>1, <1>3
<1>5. PICK s \in E : \A t \in E : s <= t
  <2> HIDE DEF E
  <2> QED BY <1>4, LeastExists
<1>6. \A t \in T : Before(m, s, t)
  <2>1. SUFFICES ASSUME NEW t \in T PROVE Before(m, s, t)
    OBVIOUS
  <2>2. /\ m.slots[s].due = d /\ d <= m.slots[t].due
        /\ d \in Nat /\ m.slots[t].due \in Nat
    BY <1>1, <1>2, <1>3, <1>5
  <2>3. CASE m.slots[t].due = d
    BY <1>5, <2>2, <2>3 DEF Before
  <2>4. CASE m.slots[t].due # d
    BY <2>2, <2>4 DEF Before
  <2> QED BY <2>3, <2>4
<1>7. \E x \in T : \A t \in T : Before(m, x, t)
  BY <1>5, <1>6
<1> QED BY <1>1, <1>7 DEF T

(* Claiming the next slot is the one thing the run has under way.          *)
LEMMA FireStep ==
    ASSUME NEW m \in Machine, NEW run \in Run, Fireable(m, run) # {}, now \in Times,
           Free(m)
    PROVE  Lands(m, Fire(m, run))
<1> DEFINE n == Fire(m, run)
           due == Fireable(m, run)
           slot == CHOOSE s \in due : \A t \in due : Before(m, s, t)
           row == Hold(m, slot)
           s == [m.sch EXCEPT !.running = TRUE]
           b == [m EXCEPT !.sch = s]
           asked == [kind |-> "fire", row |-> row, next |-> NextDue(row.rule, now),
                     ok |-> "yes",
                     run |-> [run EXCEPT !.attempted = @ \cup {<<slot, row.due>>}]]
<1>1. slot \in Slots
  BY FireableFirst
<1>2. n = Claim([m EXCEPT !.sch.running = TRUE], asked, "fired")
  BY DEF Fire
<1>3. [m EXCEPT !.sch.running = TRUE] = b
  BY DEF Machine, Scheduler
<1>4. /\ s \in Scheduler /\ s.started = m.sch.started
      /\ s.subscribed = m.sch.subscribed /\ s.running = TRUE
  BY DEF Machine, Scheduler
<1>5. b = [m EXCEPT !.sch = s]
  OBVIOUS
<1>6. asked \in RunReply /\ asked.kind = "fire"
  <2> HIDE DEF slot, b, s
  <2>1. row \in Held
    BY <1>1, HoldTyped
  <2> HIDE DEF row
  <2>2. row.rule \in Rules /\ row.due \in Due
    BY <2>1 DEF Held
  <2>3. NextDue(row.rule, now) \in Nat
    BY <2>2, NextDueLater DEF Times
  <2>4. [run EXCEPT !.attempted = @ \cup {<<slot, row.due>>}] \in Run
    BY <1>1, <2>2 DEF Run
  <2> QED BY <2>1, <2>3, <2>4 DEF RunReply, Answers, Due
<1> HIDE DEF n, b, s, asked, slot
<1>7. /\ b \in Machine /\ b.sch = s /\ b.slots = m.slots /\ b.master = m.master
      /\ b.replies = m.replies /\ b.deliveries = m.deliveries
  BY <1>4, <1>5, SchSet
<1>8. PICK r \in Reply : Sent(b, n, r) /\ r.kind = "fire"
  <2>1. "fired" \in Fates
    BY DEF Fates
  <2>2. n = Claim(b, asked, "fired")
    BY <1>2, <1>3
  <2>3. asked \in RunReply \cup PassReply
    BY <1>6
  <2>4. \E r \in Reply : Sent(b, n, r) /\ r.kind = asked.kind
    BY <1>7, <2>1, <2>2, <2>3, ClaimStep
  <2> QED BY <1>6, <2>4
<1>9. /\ OfRun(n.replies) = OfRun(m.replies) \cup {Len(m.replies) + 1}
      /\ Owed(n.replies) <=> Owed(m.replies)
  <2>1. m.replies \in Seq(Reply) /\ InRun(r)
    BY <1>8 DEF Machine, InRun
  <2> QED BY <1>7, <1>8, <2>1, Appended DEF Sent
<1>10. n.sch = s /\ n.deliveries = {} /\ n \in Machine
  BY <1>7, <1>8 DEF Sent, Free
<1>11. Serial(n)
  BY <1>4, <1>9, <1>10 DEF Serial, Busy, Free
<1>12. Alarmed(n)
  BY <1>4, <1>10 DEF Alarmed
<1>13. Carries(m, n)
  BY <1>4, <1>9, <1>10 DEF Carries
<1> QED BY <1>11, <1>12, <1>13 DEF Lands, n

LEMMA NewRunTyped ==
    ASSUME NEW m \in Machine
    PROVE  NewRun(m) \in Run /\ [NewRun(m) EXCEPT !.sendNow = TRUE] \in Run
  BY DEF NewRun, Run, Machine, Scheduler

(* finishRun(): a pass, a run of its own, or nothing under way.            *)
LEMMA FinishStep ==
    ASSUME NEW m \in Machine, now \in Times, Free(m)
    PROVE  Lands(m, FinishRun(m))
<1> DEFINE n == FinishRun(m)
           s == [m.sch EXCEPT !.running = FALSE, !.reconcilePending = FALSE,
                              !.tickPending = FALSE]
           t == [s EXCEPT !.running = TRUE]
           done == [m EXCEPT !.sch = s]
           again == [m EXCEPT !.sch = t]
<1>1. /\ s \in Scheduler /\ s.started = m.sch.started
      /\ s.subscribed = m.sch.subscribed /\ s.running = FALSE
      /\ t \in Scheduler /\ t.started = m.sch.started
      /\ t.subscribed = m.sch.subscribed /\ t.running = TRUE
  BY DEF Machine, Scheduler
<1>2. [m EXCEPT !.sch.running = FALSE, !.sch.reconcilePending = FALSE,
                !.sch.tickPending = FALSE] = done
  BY DEF Machine, Scheduler
<1>3. [done EXCEPT !.sch.running = TRUE] = again
  BY DEF Machine, Scheduler
<1>4. n = IF m.sch.reconcilePending THEN Reconcile(again, "finish", "skip-missed")
          ELSE IF m.sch.tickPending /\ m.sch.started /\ Fireable(m, NewRun(m)) # {}
          THEN Fire(Arm(done), NewRun(m))
          ELSE Arm(done)
  <2> DEFINE d == [m EXCEPT !.sch.running = FALSE, !.sch.reconcilePending = FALSE,
                            !.sch.tickPending = FALSE]
  <2>1. n = IF m.sch.reconcilePending
            THEN Reconcile([d EXCEPT !.sch.running = TRUE], "finish", "skip-missed")
            ELSE IF m.sch.tickPending /\ m.sch.started /\ Fireable(m, NewRun(m)) # {}
            THEN Fire(Arm(d), NewRun(m))
            ELSE Arm(d)
    BY DEF FinishRun
  <2>2. d = done
    BY <1>2
  <2> HIDE DEF d, done, again, n
  <2> QED BY <1>3, <2>1, <2>2
<1>5. done = [m EXCEPT !.sch = s] /\ again = [m EXCEPT !.sch = t]
  OBVIOUS
<1> HIDE DEF n, s, t, done, again
<1>6. /\ done \in Machine /\ done.sch = s /\ done.slots = m.slots
      /\ done.master = m.master /\ done.replies = m.replies
      /\ done.deliveries = m.deliveries
      /\ again \in Machine /\ again.sch = t /\ again.replies = m.replies
      /\ again.deliveries = m.deliveries
  BY <1>1, <1>5, SchSet
<1>7. /\ Carries(m, done) /\ Carries(m, again) /\ Free(done) /\ Free(again)
      /\ again.sch.running /\ ~done.sch.running
  BY <1>1, <1>6 DEF Carries, Free
<1>8. CASE m.sch.reconcilePending
  <2>1. n = Reconcile(again, "finish", "skip-missed")
    BY <1>4, <1>8
  <2>2. Carries(again, n) /\ Alarmed(n) /\ Serial(n)
    BY <1>6, <1>7, <2>1, ReconcileStep DEF Callers
  <2> QED BY <1>7, <2>2, CarriesAgain DEF Lands, n
<1> DEFINE a == Arm(done)
<1>9. Quiet(done, a) /\ Alarmed(a) /\ a \in Machine
  BY <1>6, ArmStep DEF Quiet
<1>10. Carries(m, a) /\ Free(a) /\ Serial(a)
  BY <1>7, <1>9 DEF Quiet, Carries, Free, Serial
<1>11. CASE /\ ~m.sch.reconcilePending
            /\ m.sch.tickPending /\ m.sch.started /\ Fireable(m, NewRun(m)) # {}
  <2>1. n = Fire(a, NewRun(m))
    BY <1>4, <1>11
  <2>2. Fireable(a, NewRun(m)) # {}
    <3>1. a.slots = m.slots /\ a.master = m.master
      BY <1>6, <1>9 DEF Quiet
    <3>2. OverdueSlots(a) = OverdueSlots(m)
      BY <3>1 DEF OverdueSlots, Timely, On
    <3>3. a.sch.epoch = m.sch.epoch
      <4>1. done.sch.epoch = m.sch.epoch
        BY <1>6 DEF s, Machine, Scheduler
      <4>2. a.sch.epoch = done.sch.epoch
        BY <1>6 DEF Arm, Machine, Scheduler
      <4> QED BY <4>1, <4>2
    <3> QED BY <1>11, <3>1, <3>2, <3>3 DEF Fireable
  <2> HIDE DEF a
  <2>3. Lands(a, n)
    BY <1>9, <1>10, <2>1, <2>2, FireStep, NewRunTyped
  <2> QED BY <1>10, <2>3, CarriesAgain DEF Lands, n
<1>12. CASE /\ ~m.sch.reconcilePending
            /\ ~(m.sch.tickPending /\ m.sch.started /\ Fireable(m, NewRun(m)) # {})
  <2>1. n = a
    BY <1>4, <1>12
  <2> QED BY <1>9, <1>10, <2>1 DEF Lands, n
<1> QED BY <1>8, <1>11, <1>12

LEMMA ContinueStep ==
    ASSUME NEW m \in Machine, NEW run \in Run, now \in Times, Free(m)
    PROVE  Lands(m, Continue(m, run))
  BY FinishStep, FireStep DEF Continue

LEMMA TickStep ==
    ASSUME NEW m \in Machine, now \in Times, Serial(m)
    PROVE  Lands(m, Tick(m))
<1> DEFINE n == Tick(m)
<1>1. CASE ~m.sch.started
  BY <1>1 DEF Tick, Lands, Carries, Alarmed
<1>2. CASE m.sch.started /\ ~m.master
  <2>1. n = Arm(m)
    BY <1>2 DEF Tick
  <2>2. Quiet(m, n) /\ Alarmed(n)
    BY <2>1, ArmStep
  <2> HIDE DEF n
  <2>3. Serial(n)
    BY <2>2 DEF Quiet, Serial, Free, Busy
  <2> QED BY <2>2, <2>3, QuietAside DEF Aside, Lands, n
<1>3. CASE m.sch.started /\ m.master /\ m.sch.running
  <2> DEFINE s == [m.sch EXCEPT !.tickPending = TRUE]
  <2>1. n = [m EXCEPT !.sch = s]
    BY <1>3 DEF Tick, Machine, Scheduler
  <2>2. /\ s \in Scheduler /\ s.started = m.sch.started
        /\ s.subscribed = m.sch.subscribed /\ s.running = m.sch.running
    BY DEF Machine, Scheduler
  <2> HIDE DEF n, s
  <2>3. Quiet(m, n)
    BY <2>1, <2>2, SchSet DEF Quiet
  <2>4. Serial(n) /\ Alarmed(n)
    BY <1>3, <2>3 DEF Quiet, Serial, Free, Busy, Alarmed
  <2> QED BY <2>3, <2>4, QuietAside DEF Aside, Lands, n
<1>4. CASE m.sch.started /\ m.master /\ ~m.sch.running
  <2>1. Free(m)
    BY <1>4 DEF Serial
  <2> QED BY <1>4, <2>1, ContinueStep, NewRunTyped DEF Tick
<1> QED
  <2>1. m.sch.running \in BOOLEAN /\ m.sch.started \in BOOLEAN /\ m.master \in BOOLEAN
    BY DEF Machine, Scheduler
  <2> QED BY <1>1, <1>2, <1>3, <1>4, <2>1

-----------------------------------------------------------------------------
(***************************************************************************)
(* From blocks to steps.                                                   *)
(***************************************************************************)
LEMMA HereTyped ==
    ASSUME TypeOK
    PROVE  Here \in Machine /\ now \in Times
  BY DEF TypeOK, Here, Machine, History

(* The machine an operator starts from: as it is, or with a request of the *)
(* block about to be rejected.                                             *)
Base(x, m) ==
    /\ x \in Machine
    /\ x.sch = m.sch /\ x.slots = m.slots /\ x.master = m.master
    /\ x.replies = m.replies /\ x.deliveries = m.deliveries

LEMMA InjectStep ==
    ASSUME NEW m \in Machine
    PROVE  Base(m, m) /\ Base([m EXCEPT !.inject = TRUE], m)
  BY DEF Machine, Base

LEMMA SpendTyped ==
    ASSUME TypeOK, UNCHANGED budget \/ Spend
    PROVE  budget' \in 0..MaxEvents
  BY BroadcastAssumption DEF TypeOK, Spend

(* A block that lands re-establishes the invariant.                        *)
LEMMA Landed ==
    ASSUME SInv, NEW n \in Machine, Become(n), Serial(n), Alarmed(n),
           UNCHANGED now, up' = TRUE, budget' \in 0..MaxEvents,
           power' \in [awake: BOOLEAN, resume: BOOLEAN],
           user' \in {"idle", "clearing", "waiting"},
           user' = "clearing" \/ Owed(n.replies) => n.sch.subscribed
    PROVE  SInv'
<1> DEFINE h == [db |-> db', slots |-> slots', master |-> master', sch |-> sch',
                 replies |-> replies', deliveries |-> deliveries', hist |-> hist',
                 inject |-> FALSE]
<1>1. /\ h.slots = n.slots /\ h.master = n.master /\ h.sch = n.sch
      /\ h.replies = n.replies /\ h.deliveries = n.deliveries
  BY DEF Become
<1>2. TypeOK'
  BY DEF SInv, TypeOK, Become, Machine, History
<1> HIDE DEF h
<1>3. Serial(h)
  BY <1>1 DEF Serial, Busy, Free
<1>4. Alarmed(h)
  <2>1. Timely(h) = Timely(n)
    BY <1>1 DEF Timely, On
  <2> QED BY <1>1, <2>1 DEF Alarmed, Rings
<1>5. Serial(Here)' /\ Alarmed(Here)'
  <2>1. Serial(h) <=> Serial(Here)'
    BY DEF Serial, Busy, Free, Here, h
  <2>2. Alarmed(h) <=> Alarmed(Here)'
    BY DEF Alarmed, Rings, Timely, On, Here, h
  <2> QED BY <1>3, <1>4, <2>1, <2>2
<1>6. (user = "clearing" \/ Owed(replies) => sch.subscribed)'
  BY DEF Become
<1>7. (~up => replies = <<>> /\ deliveries = {} /\ sch = IdleScheduler)'
  OBVIOUS
<1> QED BY <1>2, <1>5, <1>6, <1>7 DEF SInv

LEMMA ReceivedTyped ==
    ASSUME TypeOK, replies # <<>>
    PROVE  /\ Received \in Machine /\ Head(replies) \in Reply
           /\ Received.sch = sch /\ Received.slots = slots /\ Received.master = master
           /\ Received.deliveries = deliveries /\ Received.replies = Tail(replies)
<1>1. replies \in Seq(Reply)
  BY DEF TypeOK
<1>2. Tail(replies) \in Seq(Reply) /\ Head(replies) \in Reply
  BY <1>1, Taken
<1>3. Here \in Machine
  BY HereTyped
<1>4. Received = [Here EXCEPT !.replies = Tail(replies)]
  BY DEF Received
<1>5. /\ Here.sch = sch /\ Here.slots = slots /\ Here.master = master
      /\ Here.deliveries = deliveries
  BY DEF Here
<1> HIDE DEF Here
<1>6. Received \in Machine
  BY <1>2, <1>3, <1>4, RepliesSet
<1>7. /\ Received.sch = Here.sch /\ Received.slots = Here.slots
      /\ Received.master = Here.master /\ Received.deliveries = Here.deliveries
      /\ Received.replies = Tail(replies)
  BY <1>2, <1>3, <1>4, RepliesSet
<1> QED BY <1>2, <1>5, <1>6, <1>7

(* What is left when a reply has been taken from the queue.                *)
LEMMA RunReceived ==
    ASSUME SInv, replies # <<>>, InRun(Head(replies))
    PROVE  Free(Received) /\ Received.sch.running = TRUE
<1>1. replies \in Seq(Reply) /\ TypeOK
  BY DEF SInv, TypeOK
<1>2. OfRun(replies) # {}
  BY <1>1, Taken
<1>3. sch.running /\ sch.running \in BOOLEAN
  BY <1>2 DEF SInv, TypeOK, Serial, Free, Here, Scheduler
<1>4. deliveries = {} /\ (\E i : OfRun(replies) = {i})
  BY <1>2, <1>3 DEF SInv, Serial, Busy, Here
<1>5. OfRun(Tail(replies)) = {}
  BY <1>1, <1>4, Taken
<1> QED BY <1>1, <1>3, <1>4, <1>5, ReceivedTyped DEF Free

LEMMA OtherReceived ==
    ASSUME SInv, replies # <<>>, ~InRun(Head(replies))
    PROVE  Serial(Received)
<1>1. replies \in Seq(Reply) /\ TypeOK /\ Serial(Here)
  BY DEF SInv, TypeOK
<1>2. OfRun(replies) = {} => OfRun(Tail(replies)) = {}
  BY <1>1, Taken
<1>3. (\E i : OfRun(replies) = {i}) => \E i : OfRun(Tail(replies)) = {i}
  BY <1>1, Taken
<1>4. /\ Received.sch = sch /\ Received.deliveries = deliveries
      /\ Received.replies = Tail(replies)
  BY <1>1, ReceivedTyped
<1>5. Here.sch = sch /\ Here.deliveries = deliveries /\ Here.replies = replies
  BY DEF Here
<1> QED BY <1>1, <1>2, <1>3, <1>4, <1>5 DEF Serial, Busy, Free

LEMMA OwedReceived ==
    ASSUME SInv, replies # <<>>, NEW n, Carries(Received, n)
    PROVE  user = "clearing" \/ Owed(n.replies) => n.sch.subscribed
<1>1. replies \in Seq(Reply) /\ TypeOK
  BY DEF SInv, TypeOK
<1>2. Received.replies = Tail(replies) /\ Received.sch = sch
  BY <1>1, ReceivedTyped
<1>3. Owed(Tail(replies)) => Owed(replies)
  BY <1>1, Taken
<1> QED BY <1>2, <1>3 DEF Carries, SInv

LEMMA BaseCarries ==
    ASSUME NEW m, NEW x, Base(x, m)
    PROVE  /\ Aside(m, x) /\ Carries(m, x) /\ x \in Machine
           /\ (Free(m) => Free(x)) /\ (Serial(m) => Serial(x))
  BY DEF Base, Aside, Carries, Free, Serial, Busy

LEMMA AsideSerial ==
    ASSUME NEW m, NEW n, Aside(m, n)
    PROVE  (Free(m) => Free(n)) /\ (Serial(m) => Serial(n))
  BY DEF Aside, Free, Serial, Busy

(* While the renderer runs and the environment is still, a block that      *)
(* lands is all there is to prove.                                         *)
LEMMA LandedHere ==
    ASSUME SInv, Running, UNCHANGED <<now, power, up, user>>,
           UNCHANGED budget \/ Spend,
           NEW n \in Machine, Become(n), Serial(n), Alarmed(n),
           user = "clearing" \/ Owed(n.replies) => n.sch.subscribed
    PROVE  SInv'
<1>1. TypeOK
  BY DEF SInv
<1>2. budget' \in 0..MaxEvents
  BY <1>1, SpendTyped
<1>3. /\ up' = TRUE /\ now' = now /\ user' = user
      /\ power' \in [awake: BOOLEAN, resume: BOOLEAN]
      /\ user' \in {"idle", "clearing", "waiting"}
  BY <1>1 DEF TypeOK, Running
<1> QED BY <1>2, <1>3, Landed

-----------------------------------------------------------------------------
(***************************************************************************)
(* One lemma per action. First the replies of the database.                *)
(***************************************************************************)
LEMMA FireClaimedStep ==
    ASSUME SInv, FireClaimed
    PROVE  SInv'
<1> DEFINE r == Head(replies)
           d == [row |-> r.row, next |-> r.next, run |-> r.run]
           Op(m) == [Apply(m, r.row.slot, r.next) EXCEPT !.deliveries = @ \cup {d}]
<1>1. replies # <<>> /\ Running /\ r.kind = "fire" /\ InRun(r) /\ TypeOK
  BY DEF FireClaimed, Answer, InRun, SInv
<1>2. /\ Received \in Machine /\ r \in RunReply
      /\ Free(Received) /\ Received.sch.running = TRUE
  BY <1>1, ReceivedTyped, RunReceived, ReplyParts
<1>3. r.row.slot \in Slots /\ r.next \in Nat /\ d \in Delivery /\ now \in Times
  BY <1>1, <1>2 DEF RunReply, Held, Due, Delivery, TypeOK
<1>4. \E x \in {Received, [Received EXCEPT !.inject = TRUE]} : Become(Op(x))
  BY DEF FireClaimed, Does
<1>5. UNCHANGED budget \/ Spend
  BY DEF FireClaimed, Does
<1>6. PICK x : Base(x, Received) /\ Become(Op(x))
  BY <1>2, <1>4, InjectStep
<1> HIDE DEF d
<1> DEFINE a == Apply(x, r.row.slot, r.next)
           n == Op(x)
<1>7. x \in Machine /\ Carries(Received, x) /\ Free(x) /\ x.sch.running = TRUE
  BY <1>2, <1>6, BaseCarries DEF Base
<1>8. Aside(x, a) /\ a \in Machine /\ a.sch.running = TRUE /\ Free(a)
  BY <1>3, <1>7, ApplyStep, AsideSerial DEF Aside, Carries
<1>9. n = [a EXCEPT !.deliveries = @ \cup {d}]
  OBVIOUS
<1> HIDE DEF a, n
<1>10. /\ n \in Machine /\ n.sch = a.sch /\ n.replies = a.replies
       /\ n.deliveries = {d}
  <2>1. a.deliveries = {}
    BY <1>8 DEF Free
  <2> QED BY <1>3, <1>8, <1>9, <2>1 DEF Machine
<1>11. Serial(n) /\ Alarmed(n)
  BY <1>8, <1>10 DEF Serial, Busy, Free, Alarmed
<1>12. Carries(Received, n)
  BY <1>7, <1>8, <1>10 DEF Carries, Aside
<1>13. user = "clearing" \/ Owed(n.replies) => n.sch.subscribed
  BY <1>1, <1>12, OwedReceived
<1>14. Become(n) /\ UNCHANGED <<now, power, up, user>>
  BY <1>6 DEF FireClaimed, n
<1> QED BY <1>1, <1>5, <1>10, <1>11, <1>13, <1>14, LandedHere

LEMMA FireRefusedStep ==
    ASSUME SInv, FireRefused
    PROVE  SInv'
<1> DEFINE r == Head(replies)
           Op(m) == Continue(m, r.run)
<1>1. replies # <<>> /\ Running /\ r.kind = "fire" /\ InRun(r) /\ TypeOK
  BY DEF FireRefused, Answer, InRun, SInv
<1>2. /\ Received \in Machine /\ r \in RunReply /\ Free(Received) /\ now \in Times
  BY <1>1, ReceivedTyped, RunReceived, ReplyParts DEF TypeOK
<1>3. r.run \in Run
  BY <1>2 DEF RunReply
<1>4. \E x \in {Received, [Received EXCEPT !.inject = TRUE]} : Become(Op(x))
  BY DEF FireRefused, Does
<1>5. UNCHANGED budget \/ Spend
  BY DEF FireRefused, Does
<1>6. PICK x : Base(x, Received) /\ Become(Op(x))
  BY <1>2, <1>4, InjectStep
<1>7. x \in Machine /\ Carries(Received, x) /\ Free(x)
  BY <1>2, <1>6, BaseCarries
<1> DEFINE n == Op(x)
<1>8. Lands(x, n) /\ n \in Machine
  BY <1>2, <1>3, <1>7, ContinueStep DEF Lands, Carries
<1>9. UNCHANGED <<now, power, up, user>> /\ Become(n)
  BY <1>6 DEF FireRefused
<1> HIDE DEF n
<1>10. Carries(Received, n) /\ Serial(n) /\ Alarmed(n)
  BY <1>7, <1>8, CarriesAgain DEF Lands
<1>11. user = "clearing" \/ Owed(n.replies) => n.sch.subscribed
  BY <1>1, <1>10, OwedReceived
<1> QED BY <1>1, <1>5, <1>8, <1>9, <1>10, <1>11, LandedHere

LEMMA RecordedStep ==
    ASSUME SInv, Recorded
    PROVE  SInv'
<1> DEFINE r == Head(replies)
           a(m) == Apply(m, r.row.slot, r.next)
           Op(m) == IF r.run.sendNow THEN FinishRun(a(m)) ELSE Continue(a(m), r.run)
<1>1. replies # <<>> /\ Running /\ r.kind = "sent" /\ InRun(r) /\ TypeOK
  BY DEF Recorded, Answer, InRun, SInv
<1>2. /\ Received \in Machine /\ r \in RunReply /\ Free(Received) /\ now \in Times
  BY <1>1, ReceivedTyped, RunReceived, ReplyParts DEF TypeOK
<1>3. r.run \in Run /\ r.row.slot \in Slots /\ r.next \in Nat
  BY <1>2 DEF RunReply, Held, Due
<1>4. \E x \in {Received, [Received EXCEPT !.inject = TRUE]} : Become(Op(x))
  BY DEF Recorded, Does
<1>5. UNCHANGED budget \/ Spend
  BY DEF Recorded, Does
<1>6. PICK x : Base(x, Received) /\ Become(Op(x))
  BY <1>2, <1>4, InjectStep
<1>7. x \in Machine /\ Carries(Received, x) /\ Free(x)
  BY <1>2, <1>6, BaseCarries
<1> DEFINE n == Op(x)
<1>8. Aside(x, a(x)) /\ a(x) \in Machine /\ Free(a(x))
  BY <1>2, <1>3, <1>7, ApplyStep, AsideSerial, SMTT(30) DEF Aside, Carries
<1>9. Lands(a(x), n) /\ n \in Machine
  <2> DEFINE b == a(x)
  <2>1. n = IF r.run.sendNow THEN FinishRun(b) ELSE Continue(b, r.run)
    OBVIOUS
  <2>2. b \in Machine /\ Free(b)
    BY <1>8
  <2> HIDE DEF b, n
  <2>3. Lands(b, n)
    BY <1>2, <1>3, <2>1, <2>2, ContinueStep, FinishStep
  <2> QED BY <2>3 DEF Lands, Carries, b
<1>10. UNCHANGED <<now, power, up, user>> /\ Become(n)
  BY <1>6 DEF Recorded
<1>11. Carries(x, a(x))
  BY <1>8 DEF Aside
<1> HIDE DEF n, a
<1>12. Carries(Received, n) /\ Serial(n) /\ Alarmed(n)
  BY <1>7, <1>9, <1>11, CarriesAgain DEF Lands
<1>13. user = "clearing" \/ Owed(n.replies) => n.sch.subscribed
  BY <1>1, <1>12, OwedReceived
<1> QED BY <1>1, <1>5, <1>9, <1>10, <1>12, <1>13, LandedHere

(* A delivery returns: its result takes its place as the one thing of the  *)
(* run under way.                                                          *)
LEMMA DeliveredStep ==
    ASSUME SInv, Delivered
    PROVE  SInv'
<1>1. Running /\ TypeOK /\ now \in Times /\ UNCHANGED <<now, power, up, user>>
  BY DEF Delivered, SInv, TypeOK
<1> DEFINE reply(d) == [kind |-> "sent", row |-> d.row, next |-> d.next,
                        ok |-> "yes", run |-> d.run]
           Op(d, m) == IF m.inject THEN Rejected(m, reply(d)) ELSE Send(m, reply(d))
           from(d) == [Here EXCEPT !.deliveries = @ \ {d}]
<1>2. PICK d \in deliveries :
          /\ \E x \in {from(d), [from(d) EXCEPT !.inject = TRUE]} : Become(Op(d, x))
          /\ UNCHANGED budget \/ Spend
  BY DEF Delivered, Does
<1>3. deliveries = {d} /\ OfRun(replies) = {} /\ sch.running = TRUE
  <2>1. sch.running \in BOOLEAN
    BY <1>1 DEF TypeOK, Scheduler
  <2> QED BY <1>2, <2>1 DEF SInv, Serial, Free, Busy, Here
<1>4. d \in Delivery
  BY <1>1, <1>2 DEF TypeOK
<1>5. reply(d) \in Reply /\ [reply(d) EXCEPT !.ok = "failed"] \in Reply
  <2>1. reply(d) \in RunReply /\ [reply(d) EXCEPT !.ok = "failed"] \in RunReply
    BY <1>4 DEF Delivery, RunReply, Answers
  <2> QED BY <2>1 DEF Reply
<1>6. InRun(reply(d)) /\ InRun([reply(d) EXCEPT !.ok = "failed"])
  BY DEF InRun
<1>7. reply(d).kind = "sent" /\ [reply(d) EXCEPT !.ok = "failed"].kind = "sent"
  OBVIOUS
<1>8. /\ from(d) \in Machine /\ from(d).sch = sch /\ from(d).replies = replies
      /\ from(d).deliveries = {}
  <2>1. Here \in Machine
    BY <1>1, HereTyped
  <2> QED BY <1>3, <2>1 DEF Machine, Here
<1> DEFINE y == reply(d)
<1> HIDE DEF from, reply
<1>9. PICK x : Base(x, from(d)) /\ Become(Op(d, x))
  BY <1>2, <1>8, InjectStep
<1> DEFINE n == Op(d, x)
<1>10. x \in Machine /\ x.sch = sch /\ x.replies = replies /\ x.deliveries = {}
  BY <1>8, <1>9 DEF Base
<1>11. PICK z \in Reply : Sent(x, n, z) /\ InRun(z) /\ z.kind = "sent"
  <2>1. n = IF x.inject THEN Rejected(x, y) ELSE Send(x, y)
    OBVIOUS
  <2>2. y \in Reply /\ [y EXCEPT !.ok = "failed"] \in Reply
    BY <1>5
  <2>3. InRun(y) /\ InRun([y EXCEPT !.ok = "failed"])
    BY <1>6
  <2>4. y.kind = "sent" /\ [y EXCEPT !.ok = "failed"].kind = "sent"
    BY <1>7
  <2> HIDE DEF n, y
  <2>5. CASE x.inject
    <3>1. Sent(x, n, [y EXCEPT !.ok = "failed"])
      BY <1>10, <2>1, <2>2, <2>5, RejectedStep
    <3> QED BY <2>2, <2>3, <2>4, <3>1
  <2>6. CASE ~x.inject
    <3>1. Sent(x, n, y)
      BY <1>10, <2>1, <2>2, <2>6, SendStep
    <3> QED BY <2>2, <2>3, <2>4, <3>1
  <2> QED BY <2>5, <2>6
<1>12. Become(n)
  BY <1>9
<1> HIDE DEF n, Op
<1>13. replies \in Seq(Reply)
  BY <1>1 DEF TypeOK
<1>14. OfRun(n.replies) = {Len(replies) + 1} /\ (Owed(n.replies) <=> Owed(replies))
  BY <1>3, <1>10, <1>11, <1>13, Appended DEF Sent
<1>15. n \in Machine /\ n.sch = sch /\ n.deliveries = {}
  BY <1>10, <1>11 DEF Sent
<1>16. Serial(n) /\ Alarmed(n)
  BY <1>3, <1>14, <1>15 DEF Serial, Busy, Alarmed
<1>17. user = "clearing" \/ Owed(n.replies) => n.sch.subscribed
  BY <1>14, <1>15 DEF SInv
<1> QED BY <1>1, <1>2, <1>12, <1>15, <1>16, <1>17, LandedHere

(* The rest of a pass, in the block that handles its reply.                *)
LEMMA PassLands ==
    ASSUME SInv, replies # <<>>, NEW m \in Machine, Aside(Received, m),
           Head(replies).kind \in {"miss", "missed", "filled"}
    PROVE  LET n == Normalize(m, Head(replies).pass)
           IN  n \in Machine /\ Carries(Received, n) /\ Serial(n) /\ Alarmed(n)
<1> DEFINE r == Head(replies)
           n == Normalize(m, r.pass)
<1>1. TypeOK /\ now \in Times
  BY DEF SInv, TypeOK
<1>2. r \in PassReply \cup FillReply
  BY <1>1, ReceivedTyped, ReplyParts
<1>3. r.pass \in Pass /\ r.pass.who \in Callers
  BY <1>2 DEF PassReply, FillReply, Pass
<1> HIDE DEF n
<1>4. /\ Carries(m, n) /\ Alarmed(n)
      /\ r.pass.who \in {"refresh", "start"} => Aside(m, n)
      /\ r.pass.who \in {"resume", "finish"} /\ m.sch.running /\ Free(m) => Serial(n)
  BY <1>1, <1>3, NormalizeStep DEF n
<1>5. n \in Machine /\ Carries(Received, n)
  BY <1>4, CarriesAgain DEF Carries, Aside
<1>6. CASE r.pass.who \in {"refresh", "start"}
  <2>1. ~InRun(r)
    BY <1>6 DEF InRun
  <2>2. Serial(m)
    BY <2>1, OtherReceived, AsideSerial
  <2>3. Serial(n)
    BY <1>4, <1>6, <2>2, AsideSerial
  <2> QED BY <1>4, <1>5, <2>3 DEF n
<1>7. CASE r.pass.who \in {"resume", "finish"}
  <2>1. InRun(r)
    BY <1>7 DEF InRun
  <2>2. Free(m) /\ m.sch.running
    BY <2>1, RunReceived, AsideSerial DEF Aside
  <2> QED BY <1>4, <1>5, <1>7, <2>2 DEF n
<1> QED BY <1>3, <1>6, <1>7 DEF Callers

LEMMA MissClaimedStep ==
    ASSUME SInv, MissClaimed
    PROVE  SInv'
<1> DEFINE r == Head(replies)
           y == [r EXCEPT !.kind = "missed"]
           f == [y EXCEPT !.ok = "failed"]
           Op(m) == IF m.inject THEN Rejected(m, y) ELSE Send(m, y)
<1>1. replies # <<>> /\ Running /\ r.kind = "miss" /\ TypeOK
  BY DEF MissClaimed, Answer, SInv
<1>2. Received \in Machine /\ r \in PassReply
  BY <1>1, ReceivedTyped, ReplyParts
<1>3. \E x \in {Received, [Received EXCEPT !.inject = TRUE]} : Become(Op(x))
  BY DEF MissClaimed, Does
<1>4. UNCHANGED budget \/ Spend
  BY DEF MissClaimed, Does
<1>5. PICK x : Base(x, Received) /\ Become(Op(x))
  BY <1>2, <1>3, InjectStep
<1>6. x \in Machine /\ Aside(Received, x) /\ Carries(Received, x)
  BY <1>2, <1>5, BaseCarries
<1>7. y \in PassReply /\ f \in PassReply
  BY <1>2 DEF PassReply, Answers
<1>8. /\ y \in Reply /\ f \in Reply
      /\ y.kind = "missed" /\ f.kind = "missed" /\ y.pass = r.pass /\ f.pass = r.pass
  BY <1>2, <1>7 DEF Reply, PassReply
<1>9. r.pass.who \in Callers
  BY <1>2 DEF PassReply, Pass
<1> DEFINE n == Op(x)
<1>10. PICK z \in Reply : Sent(x, n, z) /\ z.kind = "missed" /\ z.pass = r.pass
  <2>1. n = IF x.inject THEN Rejected(x, y) ELSE Send(x, y)
    OBVIOUS
  <2>2. f = [y EXCEPT !.ok = "failed"]
    OBVIOUS
  <2> HIDE DEF n, y, f
  <2>3. CASE x.inject
    <3>1. Sent(x, n, f)
      BY <1>6, <1>8, <2>1, <2>2, <2>3, RejectedStep
    <3> QED BY <1>8, <3>1
  <2>4. CASE ~x.inject
    <3>1. Sent(x, n, y)
      BY <1>6, <1>8, <2>1, <2>4, SendStep
    <3> QED BY <1>8, <3>1
  <2> QED BY <2>3, <2>4
<1>11. Become(n) /\ UNCHANGED <<now, power, up, user>>
  BY <1>5 DEF MissClaimed
<1> HIDE DEF n, Op, y, f
<1>12. /\ OfRun(n.replies) = OfRun(x.replies) \cup
                              (IF InRun(z) THEN {Len(x.replies) + 1} ELSE {})
       /\ Passing(n.replies) /\ (Owed(n.replies) <=> Owed(x.replies))
  <2>1. x.replies \in Seq(Reply)
    BY <1>6 DEF Machine
  <2> QED BY <1>10, <2>1, Appended DEF Sent
<1>13. /\ n \in Machine /\ n.sch = x.sch /\ n.deliveries = x.deliveries
       /\ Carries(x, n) /\ Alarmed(n)
  BY <1>10, <1>12 DEF Sent, Carries, Alarmed
<1>14. Serial(n)
  <2>1. CASE InRun(r)
    <3>1. Free(x) /\ x.sch.running = TRUE
      BY <1>1, <1>6, <2>1, RunReceived, AsideSerial DEF Aside
    <3>2. InRun(z)
      BY <1>1, <1>10, <2>1 DEF InRun
    <3> QED BY <1>12, <1>13, <3>1, <3>2 DEF Serial, Busy, Free
  <2>2. CASE ~InRun(r)
    <3>1. Serial(x)
      BY <1>1, <1>6, <2>2, OtherReceived, AsideSerial
    <3>2. ~InRun(z)
      BY <1>1, <1>10, <2>2 DEF InRun
    <3> QED BY <1>12, <1>13, <3>1, <3>2 DEF Serial, Busy, Free
  <2> QED BY <2>1, <2>2
<1>15. user = "clearing" \/ Owed(n.replies) => n.sch.subscribed
  BY <1>1, <1>6, <1>13, CarriesAgain, OwedReceived
<1> QED BY <1>1, <1>4, <1>11, <1>13, <1>14, <1>15, LandedHere

LEMMA MissRefusedStep ==
    ASSUME SInv, MissRefused
    PROVE  SInv'
<1> DEFINE r == Head(replies)
           skip == IF r.ok = "no" THEN Received.hist.skip
                   ELSE {k \in Received.hist.skip : k[1] # r.row.slot}
           h == [Received.hist EXCEPT !.skip = skip]
           from == [Received EXCEPT !.hist = h]
           Op(m) == Normalize(m, r.pass)
<1>1. replies # <<>> /\ Running /\ r.kind = "miss" /\ TypeOK
  BY DEF MissRefused, Answer, SInv
<1>2. Received \in Machine
  BY <1>1, ReceivedTyped
<1>3. [Received EXCEPT !.hist.skip = IF r.ok = "no" THEN @
                                     ELSE {k \in @ : k[1] # r.row.slot}] = from
  BY <1>2 DEF Machine, History
<1>4. \E x \in {from, [from EXCEPT !.inject = TRUE]} : Become(Op(x))
  BY <1>3 DEF MissRefused, Does
<1>5. UNCHANGED budget \/ Spend
  BY DEF MissRefused, Does
<1>6. h \in History
  BY <1>2 DEF Machine, History
<1>7. from = [Received EXCEPT !.hist = h]
  OBVIOUS
<1> HIDE DEF h, from
<1>8. from \in Machine /\ Aside(Received, from)
  <2>1. Quiet(Received, from) /\ from \in Machine
    BY <1>2, <1>6, <1>7, HistSet DEF Quiet
  <2> QED BY <2>1, QuietAside
<1>9. PICK x : Base(x, from) /\ Become(Op(x))
  BY <1>4, <1>8, InjectStep
<1>10. x \in Machine /\ Aside(Received, x)
  BY <1>8, <1>9, BaseCarries, AsideAgain
<1> DEFINE n == Op(x)
<1>11. n \in Machine /\ Carries(Received, n) /\ Serial(n) /\ Alarmed(n)
  BY <1>1, <1>10, PassLands
<1>12. Become(n) /\ UNCHANGED <<now, power, up, user>>
  BY <1>9 DEF MissRefused
<1> HIDE DEF n
<1>13. user = "clearing" \/ Owed(n.replies) => n.sch.subscribed
  BY <1>1, <1>11, OwedReceived
<1> QED BY <1>1, <1>5, <1>11, <1>12, <1>13, LandedHere

LEMMA MissedStep ==
    ASSUME SInv, Missed
    PROVE  SInv'
<1> DEFINE r == Head(replies)
           h(m) == [m.hist EXCEPT !.skewed = @ \cup {r.row.slot}]
           lost(m) == [m EXCEPT !.hist = h(m)]
           got(m) == IF r.ok = "yes" THEN Apply(m, r.row.slot, r.next)
                     ELSE [m EXCEPT !.hist.skewed = @ \cup {r.row.slot}]
           Op(m) == Normalize(got(m), r.pass)
<1>1. replies # <<>> /\ Running /\ r.kind = "missed" /\ TypeOK
  BY DEF Missed, Answer, SInv
<1>2. Received \in Machine /\ r \in PassReply /\ now \in Times
  BY <1>1, ReceivedTyped, ReplyParts DEF TypeOK
<1>3. r.row.slot \in Slots /\ r.next \in Nat
  BY <1>2 DEF PassReply, Held, Due
<1>4. \E x \in {Received, [Received EXCEPT !.inject = TRUE]} : Become(Op(x))
  BY DEF Missed, Does
<1>5. UNCHANGED budget \/ Spend
  BY DEF Missed, Does
<1>6. PICK x : Base(x, Received) /\ Become(Op(x))
  BY <1>2, <1>4, InjectStep
<1>7. x \in Machine /\ Aside(Received, x)
  BY <1>2, <1>6, BaseCarries
<1> DEFINE g == got(x)
<1>8. Aside(x, g)
  <2>1. CASE r.ok = "yes"
    BY <1>2, <1>3, <1>7, <2>1, ApplyStep
  <2>2. CASE r.ok # "yes"
    <3>1. g = lost(x)
      BY <1>7, <2>2 DEF Machine, History
    <3>2. h(x) \in History
      BY <1>3, <1>7 DEF Machine, History
    <3>3. lost(x) = [x EXCEPT !.hist = h(x)]
      OBVIOUS
    <3> HIDE DEF g, lost, h
    <3>4. Quiet(x, g)
      BY <1>7, <3>1, <3>2, <3>3, HistSet DEF Quiet
    <3> QED BY <3>4, QuietAside DEF g
  <2> QED BY <2>1, <2>2
<1> DEFINE n == Op(x)
<1>9. n = Normalize(g, r.pass)
  OBVIOUS
<1> HIDE DEF g, got
<1>10. Aside(Received, g) /\ g \in Machine
  BY <1>7, <1>8, AsideAgain DEF Aside, Carries
<1>11. n \in Machine /\ Carries(Received, n) /\ Serial(n) /\ Alarmed(n)
  BY <1>1, <1>9, <1>10, PassLands
<1>12. Become(n) /\ UNCHANGED <<now, power, up, user>>
  BY <1>6 DEF Missed
<1> HIDE DEF n
<1>13. user = "clearing" \/ Owed(n.replies) => n.sch.subscribed
  BY <1>1, <1>11, OwedReceived
<1> QED BY <1>1, <1>5, <1>11, <1>12, <1>13, LandedHere

LEMMA FilledStep ==
    ASSUME SInv, Filled
    PROVE  SInv'
<1> DEFINE r == Head(replies)
           f(m) == [m.slots EXCEPT ![r.slot] = r.stored]
           put(m) == [m EXCEPT !.slots = f(m)]
           got(m) == IF r.ok = "failed" THEN m ELSE Changed(put(m))
           Op(m) == Normalize(got(m), r.pass)
<1>1. replies # <<>> /\ Running /\ r.kind = "filled" /\ TypeOK
  BY DEF Filled, Answer, SInv
<1>2. Received \in Machine /\ r \in FillReply /\ now \in Times
  BY <1>1, ReceivedTyped, ReplyParts DEF TypeOK
<1>3. r.slot \in Slots /\ r.stored \in Row
  BY <1>2 DEF FillReply
<1>4. \E x \in {Received, [Received EXCEPT !.inject = TRUE]} : Become(Op(x))
  <2>1. \E x \in {Received, [Received EXCEPT !.inject = TRUE]} :
            Become(IF r.ok = "failed" THEN Normalize(x, r.pass)
                   ELSE Normalize(Changed([x EXCEPT !.slots[r.slot] = r.stored]), r.pass))
    BY DEF Filled, Does
  <2>2. \A x \in {Received, [Received EXCEPT !.inject = TRUE]} :
            [x EXCEPT !.slots[r.slot] = r.stored] = put(x)
    OBVIOUS
  <2> QED BY <2>1, <2>2
<1>5. UNCHANGED budget \/ Spend
  BY DEF Filled, Does
<1>6. PICK x : Base(x, Received) /\ Become(Op(x))
  BY <1>2, <1>4, InjectStep
<1>7. x \in Machine /\ Aside(Received, x)
  BY <1>2, <1>6, BaseCarries
<1> DEFINE g == got(x)
<1>8. Aside(x, g)
  <2>1. CASE r.ok = "failed"
    BY <1>7, <2>1 DEF Aside, Carries
  <2>2. CASE r.ok # "failed"
    <3> DEFINE p == put(x)
               q == f(x)
    <3>1. q \in [Slots -> Row]
      BY <1>3, <1>7 DEF Machine
    <3>2. p = [x EXCEPT !.slots = q] /\ g = Changed(p)
      BY <2>2
    <3> HIDE DEF p, q, g, got
    <3>3. p \in Machine /\ p.sch = x.sch /\ p.replies = x.replies
          /\ p.deliveries = x.deliveries
      BY <1>7, <3>1, <3>2, SlotsSet
    <3>4. Aside(x, p) /\ Aside(p, g)
      BY <1>2, <3>2, <3>3, ChangedStep DEF Aside, Carries
    <3> QED BY <3>4, AsideAgain DEF g
  <2> QED BY <2>1, <2>2
<1> DEFINE n == Op(x)
<1>9. n = Normalize(g, r.pass)
  OBVIOUS
<1> HIDE DEF g, got
<1>10. Aside(Received, g) /\ g \in Machine
  BY <1>7, <1>8, AsideAgain DEF Aside, Carries
<1>11. n \in Machine /\ Carries(Received, n) /\ Serial(n) /\ Alarmed(n)
  BY <1>1, <1>9, <1>10, PassLands
<1>12. Become(n) /\ UNCHANGED <<now, power, up, user>>
  BY <1>6 DEF Filled
<1> HIDE DEF n
<1>13. user = "clearing" \/ Owed(n.replies) => n.sch.subscribed
  BY <1>1, <1>11, OwedReceived
<1> QED BY <1>1, <1>5, <1>11, <1>12, <1>13, LandedHere

-----------------------------------------------------------------------------
(* Timers, power events, start and crash.                                  *)
LEMMA SkippingStep ==
    ASSUME NEW m \in Machine, now \in Times
    PROVE  Quiet(m, Skipping(m)) /\ Skipping(m).sch = m.sch
<1> DEFINE T == {s \in OverdueSlots(m) :
                    ~BeingStored(s) /\ m.hist.fate[s][m.slots[s].due] = "open"}
           K == {<<s, m.slots[s].due>> : s \in T}
           h == [m.hist EXCEPT !.skip = @ \cup K]
           n == Skipping(m)
<1>1. \A s \in T : s \in Slots /\ m.slots[s].due \in Times
  <2>1. SUFFICES ASSUME NEW s \in OverdueSlots(m)
                 PROVE  s \in Slots /\ m.slots[s].due \in Times
    OBVIOUS
  <2>2. s \in Slots /\ m.slots[s].due # NoDue /\ m.slots[s].due <= now
    BY DEF OverdueSlots, Timely, On
  <2>3. m.slots[s] \in Row
    BY <2>2 DEF Machine
  <2>4. m.slots[s].due \in Nat
    BY <2>3 DEF Row, Due
  <2> QED BY <2>2, <2>4, BroadcastAssumption DEF Times, NoDue
<1>2. n = [m EXCEPT !.hist = h]
  BY DEF Skipping, Machine, History
<1> HIDE DEF T
<1>3. K \subseteq Skips
  BY <1>1 DEF Skips
<1> HIDE DEF K
<1>4. h \in History
  BY <1>3 DEF Machine, History
<1> HIDE DEF h, n
<1>5. Quiet(m, n) /\ n.sch = m.sch
  BY <1>2, <1>4, HistSet DEF Quiet
<1> QED BY <1>5 DEF n

LEMMA TickLands ==
    ASSUME SInv, Running, UNCHANGED <<now, power, up, user>>,
           NEW m \in Machine, Serial(m), m.sch.subscribed = sch.subscribed,
           m.replies = replies, Does(Tick, m)
    PROVE  SInv'
<1>1. now \in Times
  BY DEF SInv, TypeOK
<1>2. \E x \in {m, [m EXCEPT !.inject = TRUE]} : Become(Tick(x))
  BY DEF Does
<1>3. UNCHANGED budget \/ Spend
  BY DEF Does
<1>4. PICK x : Base(x, m) /\ Become(Tick(x))
  BY <1>2, InjectStep
<1>5. x \in Machine /\ Carries(m, x) /\ Serial(x)
  BY <1>4, BaseCarries
<1> DEFINE n == Tick(x)
<1> HIDE DEF n
<1>6. Carries(x, n) /\ Serial(n) /\ Alarmed(n) /\ n \in Machine
  BY <1>1, <1>5, TickStep DEF Lands, Carries, n
<1>7. user = "clearing" \/ Owed(n.replies) => n.sch.subscribed
  BY <1>5, <1>6 DEF SInv, Carries
<1> QED BY <1>3, <1>4, <1>6, <1>7, LandedHere DEF n

LEMMA TimerFiresStep ==
    ASSUME SInv, TimerFires
    PROVE  SInv'
<1> DEFINE s == [sch EXCEPT !.timer = NoTimer]
           m == [Here EXCEPT !.sch = s]
<1>1. TypeOK /\ Here \in Machine /\ Running /\ UNCHANGED <<now, power, up, user>>
  BY HereTyped DEF SInv, TimerFires
<1>2. s \in Scheduler /\ s.running = sch.running /\ s.subscribed = sch.subscribed
  BY <1>1 DEF TypeOK, Scheduler, NoTimer
<1>3. Does(Tick, m)
  <2>1. [Here EXCEPT !.sch.timer = NoTimer] = m
    BY DEF Here
  <2>2. Does(Tick, [Here EXCEPT !.sch.timer = NoTimer])
    BY DEF TimerFires
  <2> QED BY <2>1, <2>2
<1>4. m = [Here EXCEPT !.sch = s]
  OBVIOUS
<1>5. Here.replies = replies /\ Here.deliveries = deliveries /\ Here.sch = sch
  BY DEF Here
<1>6. Serial(Here)
  BY DEF SInv
<1> HIDE DEF m, s, Here
<1>7. /\ m \in Machine /\ m.sch = s /\ m.replies = replies
      /\ m.deliveries = deliveries
  BY <1>1, <1>2, <1>4, <1>5, SchSet
<1>8. Serial(m)
  BY <1>2, <1>5, <1>6, <1>7 DEF Serial, Busy, Free
<1> QED BY <1>1, <1>2, <1>3, <1>7, <1>8, TickLands

LEMMA IntervalFiresStep ==
    ASSUME SInv, IntervalFires
    PROVE  SInv'
<1>1. Here \in Machine /\ Running /\ UNCHANGED <<now, power, up, user>>
  BY HereTyped DEF SInv, IntervalFires
<1>2. Serial(Here) /\ Does(Tick, Here)
  BY DEF SInv, IntervalFires
<1>3. Here.replies = replies /\ Here.sch = sch
  BY DEF Here
<1> HIDE DEF Here
<1> QED BY <1>1, <1>2, <1>3, TickLands

(* The environment moves and the machine does not: later it is at least as *)
(* late.                                                                   *)
LEMMA AsideStep ==
    ASSUME SInv, Sleep \/ Wake \/ Clock \/ UNCHANGED vars
    PROVE  SInv'
<1>1. UNCHANGED machine /\ up' = up /\ user' = user
  BY DEF Sleep, Wake, Clock, vars, machine
<1>2. now' \in Times /\ now' >= now /\ now \in Times
  BY BroadcastAssumption DEF Sleep, Wake, Clock, vars, SInv, TypeOK, Times
<1>3. power' \in [awake: BOOLEAN, resume: BOOLEAN]
  <2>1. power \in [awake: BOOLEAN, resume: BOOLEAN] /\ up \in BOOLEAN
    BY DEF SInv, TypeOK
  <2>2. CASE Sleep
    BY <2>1, <2>2 DEF Sleep
  <2>3. CASE Wake
    BY <2>1, <2>3 DEF Wake
  <2>4. CASE Clock \/ UNCHANGED vars
    BY <2>1, <2>4 DEF Clock, vars
  <2> QED BY <2>2, <2>3, <2>4
<1>4. budget' \in 0..MaxEvents
  <2>1. UNCHANGED budget \/ Spend
    BY DEF Sleep, Wake, Clock, vars
  <2> QED BY <2>1, SpendTyped DEF SInv
<1>5. TypeOK'
  BY <1>1, <1>2, <1>3, <1>4 DEF SInv, TypeOK, machine
<1>6. Here' = Here
  BY <1>1 DEF Here, machine
<1>7. Serial(Here)'
  <2>1. Serial(Here) /\ (Serial(Here)' <=> Serial(Here'))
    BY DEF SInv, Serial, Busy, Free, Here
  <2> QED BY <1>1 DEF SInv, Serial, Busy, Free, Here, machine
<1>8. Alarmed(Here)'
  <2>1. sch' = sch /\ slots' = slots /\ replies' = replies /\ master' = master
    BY <1>1 DEF machine
  <2>2. SUFFICES ASSUME sch.started, master, ~sch.running, ~Passing(replies),
                        NEW s \in Slots, slots[s].on, slots[s].due # NoDue
                 PROVE  /\ sch.timer # NoTimer
                        /\ sch.timer <= slots[s].due \/ sch.timer <= now'
    BY <2>1 DEF Alarmed, Timely, On, Rings, Here
  <2>3. sch.timer # NoTimer /\ (sch.timer <= slots[s].due \/ sch.timer <= now)
    BY <2>2 DEF SInv, Alarmed, Timely, On, Rings, Here
  <2>4. sch.timer \in Nat /\ now \in Nat /\ now' \in Nat
    BY <1>2 DEF SInv, TypeOK, Scheduler, Times
  <2> QED BY <1>2, <2>3, <2>4
<1>9. (user = "clearing" \/ Owed(replies) => sch.subscribed)'
  BY <1>1 DEF SInv, machine
<1>10. (~up => replies = <<>> /\ deliveries = {} /\ sch = IdleScheduler)'
  BY <1>1 DEF SInv, machine
<1> QED BY <1>5, <1>7, <1>8, <1>9, <1>10 DEF SInv

LEMMA PowerResumeStep ==
    ASSUME SInv, PowerResume
    PROVE  SInv'
<1> DEFINE e(m) == [m.sch EXCEPT !.epoch = @ + 1]
           p(m) == [e(m) EXCEPT !.reconcilePending = TRUE]
           q(m) == [e(m) EXCEPT !.running = TRUE]
           Op(m) == IF ~m.sch.subscribed THEN m
                    ELSE IF m.sch.running THEN [m EXCEPT !.sch = p(m)]
                    ELSE IF m.master
                    THEN Reconcile([m EXCEPT !.sch = q(m)], "resume", "skip-missed")
                    ELSE Arm([m EXCEPT !.sch = e(m)])
           from == IF sch.subscribed /\ master THEN Skipping(Here) ELSE Here
<1>1. /\ TypeOK /\ Here \in Machine /\ Running /\ now \in Times
      /\ UNCHANGED <<now, up, user>>
      /\ power' \in [awake: BOOLEAN, resume: BOOLEAN] /\ up' = TRUE
      /\ user' \in {"idle", "clearing", "waiting"}
  BY HereTyped DEF SInv, PowerResume, TypeOK, Running
<1>2. /\ Serial(Here) /\ Alarmed(Here) /\ Here.sch = sch /\ Here.replies = replies
      /\ Here.slots = slots /\ Here.master = master /\ Here.deliveries = deliveries
  BY DEF SInv, Here
<1>3. from \in Machine /\ Quiet(Here, from) /\ from.sch = sch
  <2>1. Quiet(Here, Here)
    BY <1>1 DEF Quiet
  <2>2. Quiet(Here, Skipping(Here)) /\ Skipping(Here).sch = Here.sch
    BY <1>1, SkippingStep
  <2> HIDE DEF Here
  <2> QED BY <1>1, <1>2, <2>1, <2>2 DEF Quiet
<1>4. \E x \in {from, [from EXCEPT !.inject = TRUE]} : Become(Op(x))
  <2> DEFINE R(m) == LET m1 == [m EXCEPT !.sch.epoch = @ + 1]
                     IN  IF ~m.sch.subscribed THEN m
                         ELSE IF m.sch.running
                         THEN [m1 EXCEPT !.sch.reconcilePending = TRUE]
                         ELSE IF m.master
                         THEN Reconcile([m1 EXCEPT !.sch.running = TRUE], "resume",
                                        "skip-missed")
                         ELSE Arm(m1)
  <2>1. \E x \in {from, [from EXCEPT !.inject = TRUE]} : Become(R(x))
    BY DEF PowerResume, Does
  <2>2. \A x \in {from, [from EXCEPT !.inject = TRUE]} : x \in Machine
    BY <1>3, InjectStep DEF Base
  <2> HIDE DEF from
  <2>3. \A x \in Machine :
            /\ [x EXCEPT !.sch.epoch = @ + 1] = [x EXCEPT !.sch = e(x)]
            /\ [[x EXCEPT !.sch.epoch = @ + 1] EXCEPT !.sch.reconcilePending = TRUE]
                   = [x EXCEPT !.sch = p(x)]
            /\ [[x EXCEPT !.sch.epoch = @ + 1] EXCEPT !.sch.running = TRUE]
                   = [x EXCEPT !.sch = q(x)]
    BY ZenonT(120) DEF Machine, Scheduler
  <2>4. \A x \in Machine : R(x) = Op(x)
    <3>1. SUFFICES ASSUME NEW x \in Machine PROVE R(x) = Op(x)
      OBVIOUS
    <3> DEFINE a == [x EXCEPT !.sch.epoch = @ + 1]
               b == [a EXCEPT !.sch.reconcilePending = TRUE]
               c == [a EXCEPT !.sch.running = TRUE]
               a1 == [x EXCEPT !.sch = e(x)]
               b1 == [x EXCEPT !.sch = p(x)]
               c1 == [x EXCEPT !.sch = q(x)]
    <3>2. R(x) = IF ~x.sch.subscribed THEN x
                 ELSE IF x.sch.running THEN b
                 ELSE IF x.master THEN Reconcile(c, "resume", "skip-missed")
                 ELSE Arm(a)
      BY ZenonT(120)
    <3>3. Op(x) = IF ~x.sch.subscribed THEN x
                  ELSE IF x.sch.running THEN b1
                  ELSE IF x.master THEN Reconcile(c1, "resume", "skip-missed")
                  ELSE Arm(a1)
      BY ZenonT(120)
    <3>4. a = a1 /\ b = b1 /\ c = c1
      BY <2>3
    <3> HIDE DEF a, b, c, a1, b1, c1, R, Op
    <3> QED BY <3>2, <3>3, <3>4
  <2> HIDE DEF R, Op
  <2> QED BY <2>1, <2>2, <2>4
<1>5. budget' \in 0..MaxEvents
  <2>1. UNCHANGED budget \/ Spend
    BY DEF PowerResume, Does
  <2> QED BY <1>1, <2>1, SpendTyped
<1> HIDE DEF from, Here
<1>6. PICK x : Base(x, from) /\ Become(Op(x))
  BY <1>3, <1>4, InjectStep
<1>7. /\ x \in Machine /\ x.sch = sch /\ x.slots = slots /\ x.master = master
      /\ x.replies = replies /\ x.deliveries = deliveries
  BY <1>2, <1>3, <1>6 DEF Base, Quiet
<1>8. Serial(x) /\ Alarmed(x)
  <2>1. Timely(x) = Timely(Here)
    BY <1>2, <1>7 DEF Timely, On
  <2> QED BY <1>2, <1>7, <2>1 DEF Serial, Busy, Free, Alarmed, Rings
<1> DEFINE n == Op(x)
<1>9. x.sch \in Scheduler /\ x.sch.running \in BOOLEAN
  BY <1>7 DEF Machine, Scheduler
<1>13. /\ e(x) \in Scheduler /\ e(x).started = x.sch.started
       /\ e(x).subscribed = x.sch.subscribed /\ e(x).running = x.sch.running
  BY <1>9 DEF Scheduler
<1>10. Carries(x, n) /\ Serial(n) /\ Alarmed(n)
  <2>1. CASE ~x.sch.subscribed
    BY <1>7, <1>8, <2>1 DEF Carries
  <2>2. CASE x.sch.subscribed /\ x.sch.running
    <3> DEFINE s == p(x)
    <3>1. /\ s \in Scheduler /\ s.started = x.sch.started
          /\ s.subscribed = x.sch.subscribed /\ s.running = x.sch.running
      <4> DEFINE y == e(x)
      <4>1. s = [y EXCEPT !.reconcilePending = TRUE]
        OBVIOUS
      <4> HIDE DEF y, s
      <4> QED BY <1>13, <4>1 DEF y, Scheduler
    <3>2. n = [x EXCEPT !.sch = s]
      BY <2>2
    <3> HIDE DEF n, s
    <3>3. Quiet(x, n)
      BY <1>7, <3>1, <3>2, SchSet DEF Quiet
    <3> QED BY <1>8, <2>2, <3>3, QuietAside
            DEF Quiet, Aside, Serial, Busy, Free, Alarmed
  <2>3. CASE x.sch.subscribed /\ ~x.sch.running /\ x.master
    <3> DEFINE s == q(x)
               b == [x EXCEPT !.sch = s]
    <3>1. /\ s \in Scheduler /\ s.started = x.sch.started
          /\ s.subscribed = x.sch.subscribed /\ s.running = TRUE
      <4> DEFINE y == e(x)
      <4>1. s = [y EXCEPT !.running = TRUE]
        OBVIOUS
      <4> HIDE DEF y, s
      <4> QED BY <1>13, <4>1 DEF y, Scheduler
    <3>2. n = Reconcile(b, "resume", "skip-missed")
      BY <2>3
    <3>3. b = [x EXCEPT !.sch = s]
      OBVIOUS
    <3> HIDE DEF n, b, s
    <3>4. b \in Machine /\ b.sch = s /\ b.replies = x.replies /\ b.deliveries = x.deliveries
      BY <1>7, <3>1, <3>3, SchSet
    <3>5. Free(b) /\ Carries(x, b) /\ b.sch.running
      BY <1>8, <2>3, <3>1, <3>4 DEF Serial, Free, Carries
    <3>6. Carries(b, n) /\ Alarmed(n) /\ Serial(n)
      BY <1>1, <3>2, <3>4, <3>5, ReconcileStep DEF Callers
    <3> QED BY <3>5, <3>6, CarriesAgain
  <2>4. CASE x.sch.subscribed /\ ~x.sch.running /\ ~x.master
    <3> DEFINE s == e(x)
               b == [x EXCEPT !.sch = s]
    <3>1. /\ s \in Scheduler /\ s.started = x.sch.started
          /\ s.subscribed = x.sch.subscribed /\ s.running = x.sch.running
      BY <1>9 DEF Scheduler
    <3>2. n = Arm(b)
      BY <2>4
    <3>3. b = [x EXCEPT !.sch = s]
      OBVIOUS
    <3> HIDE DEF n, b, s
    <3>4. Quiet(x, b) /\ b \in Machine
      BY <1>7, <3>1, <3>3, SchSet DEF Quiet
    <3>5. Quiet(b, n) /\ Alarmed(n)
      BY <1>1, <3>2, <3>4, ArmStep
    <3>6. Aside(x, n)
      BY <3>4, <3>5, QuietAside, AsideAgain
    <3> QED BY <1>8, <3>5, <3>6, AsideSerial DEF Aside
  <2> QED BY <1>9, <2>1, <2>2, <2>3, <2>4
<1>11. n \in Machine /\ Become(n)
  BY <1>6, <1>10 DEF Carries
<1> HIDE DEF n
<1>12. user' = "clearing" \/ Owed(n.replies) => n.sch.subscribed
  BY <1>1, <1>7, <1>10 DEF SInv, Carries
<1> QED BY <1>1, <1>5, <1>10, <1>11, <1>12, Landed

LEMMA BootStep ==
    ASSUME SInv, Boot
    PROVE  SInv'
<1> DEFINE s == [sch EXCEPT !.started = TRUE, !.lastEnabled = master]
           m == [[Here EXCEPT !.slots = db] EXCEPT !.sch = s]
           from == IF master THEN Skipping(m) ELSE m
           Op(x) == IF master THEN Reconcile(x, "start", "skip-missed")
                    ELSE Normalized(x, "start")
<1>1. /\ TypeOK /\ Here \in Machine /\ now \in Times
      /\ UNCHANGED <<now, power, user>> /\ up' = TRUE
      /\ power' \in [awake: BOOLEAN, resume: BOOLEAN]
      /\ user' \in {"idle", "clearing", "waiting"}
  BY HereTyped DEF SInv, Boot, TypeOK
<1>2. replies = <<>> /\ deliveries = {} /\ sch = IdleScheduler
  BY DEF Boot, SInv
<1>3. s \in Scheduler /\ s.running = FALSE
  BY <1>1, <1>2, ZenonT(120) DEF IdleScheduler, Scheduler, TypeOK
<1>4. /\ Here.replies = <<>> /\ Here.deliveries = {} /\ Here.sch = sch
      /\ db \in [Slots -> Row] /\ Here.master = master
  BY <1>1, <1>2 DEF Here, TypeOK
<1>5. [Here EXCEPT !.slots = db, !.sch.started = TRUE, !.sch.lastEnabled = master] = m
  BY DEF Here
<1>6. \E x \in {from, [from EXCEPT !.inject = TRUE]} : Become(Op(x))
  <2> DEFINE k == [Here EXCEPT !.slots = db, !.sch.started = TRUE, !.sch.lastEnabled = master]
  <2>1. \E x \in {IF master THEN Skipping(k) ELSE k,
                  [(IF master THEN Skipping(k) ELSE k) EXCEPT !.inject = TRUE]} :
            Become(Op(x))
    BY DEF Boot, Does
  <2>2. k = m
    BY <1>5
  <2> HIDE DEF k, m, Op
  <2> QED BY <2>1, <2>2
<1>7. budget' \in 0..MaxEvents
  <2>1. UNCHANGED budget \/ Spend
    BY DEF Boot, Does
  <2> QED BY <1>1, <2>1, SpendTyped
<1>8. /\ m \in Machine /\ m.sch = s /\ m.replies = <<>> /\ m.deliveries = {}
  <2> DEFINE a == [Here EXCEPT !.slots = db]
  <2>1. a = [Here EXCEPT !.slots = db] /\ m = [a EXCEPT !.sch = s]
    OBVIOUS
  <2> HIDE DEF a, m, s, Here
  <2>2. a \in Machine /\ a.replies = <<>> /\ a.deliveries = {}
    BY <1>1, <1>4, <2>1, SlotsSet
  <2> QED BY <1>3, <2>1, <2>2, SchSet
<1> HIDE DEF m, s
<1>9. /\ from \in Machine /\ from.sch = s /\ from.replies = <<>> /\ from.deliveries = {}
  BY <1>1, <1>8, SkippingStep DEF Quiet
<1> HIDE DEF from
<1>10. PICK x : Base(x, from) /\ Become(Op(x))
  BY <1>6, <1>9, InjectStep
<1>11. /\ x \in Machine /\ x.sch.running = FALSE /\ x.replies = <<>> /\ x.deliveries = {}
  BY <1>3, <1>9, <1>10 DEF Base
<1>12. Serial(x) /\ ~Owed(x.replies)
  BY <1>11 DEF Serial, Free, OfRun, Owed
<1> DEFINE n == Op(x)
<1>13. Aside(x, n) /\ Alarmed(n)
  <2>1. CASE master
    <3>1. n = Reconcile(x, "start", "skip-missed")
      BY <2>1
    <3> HIDE DEF n
    <3> QED BY <1>1, <1>11, <3>1, ReconcileStep DEF Callers
  <2>2. CASE ~master
    <3>1. n = Normalized(x, "start")
      BY <2>2
    <3> HIDE DEF n
    <3> QED BY <1>1, <1>11, <3>1, NormalizedStep DEF Callers
  <2> QED BY <2>1, <2>2
<1>14. Become(n)
  BY <1>10
<1> HIDE DEF n
<1>15. n \in Machine /\ Serial(n) /\ ~Owed(n.replies)
  BY <1>12, <1>13, AsideSerial DEF Aside, Carries
<1>16. user' # "clearing"
  <2>1. ~sch.subscribed
    BY <1>2 DEF IdleScheduler
  <2> QED BY <1>1, <2>1 DEF SInv
<1> QED BY <1>1, <1>7, <1>13, <1>14, <1>15, <1>16, Landed

LEMMA RuleExists ==
    ASSUME TypeOK
    PROVE  SomeRule \in Rules /\ Absent \in Row
<1>1. 1 \in Slots
  BY BroadcastAssumption DEF Slots
<1>2. db[1].rule \in Rules
  BY <1>1 DEF TypeOK, Row
<1>3. SomeRule \in Rules
  BY <1>2 DEF SomeRule
<1> QED BY <1>3 DEF Absent, Row, Due, NoDue

LEMMA CrashStep ==
    ASSUME SInv, Crash
    PROVE  SInv'
<1>1. TypeOK
  BY DEF SInv
<1>2. /\ db' = db /\ master' = master /\ now' = now /\ user' = "idle" /\ up' = FALSE
      /\ slots' = [s \in Slots |-> Absent] /\ sch' = IdleScheduler
      /\ replies' = <<>> /\ deliveries' = {}
      /\ power' = [power EXCEPT !.resume = FALSE]
  BY DEF Crash, Become, Here
<1>3. hist' = [hist EXCEPT !.skip = {}, !.skewed = {}]
  BY DEF Crash, Become, Here
<1>4. hist' \in [fate: [Slots -> [Times -> Fates]], skip: SUBSET Skips,
                 skewed: SUBSET Slots]
  BY <1>1, <1>3 DEF TypeOK
<1>5. budget' \in 0..MaxEvents
  BY <1>1, SpendTyped DEF Crash
<1>6. /\ slots' \in [Slots -> Row] /\ sch' \in Scheduler
      /\ power' \in [awake: BOOLEAN, resume: BOOLEAN]
  BY <1>1, <1>2, RuleExists DEF IdleScheduler, Scheduler, NoTimer, TypeOK
<1>12. /\ now' \in Times /\ up' \in BOOLEAN /\ user' \in {"idle", "clearing", "waiting"}
       /\ db' \in [Slots -> Row] /\ master' \in BOOLEAN
  BY <1>1, <1>2 DEF TypeOK
<1>13. replies' \in Seq(Reply) /\ deliveries' \subseteq Delivery
  BY <1>2
<1>7. TypeOK'
  BY <1>4, <1>5, <1>6, <1>12, <1>13 DEF TypeOK
<1>8. ~sch'.running /\ ~sch'.started
  BY <1>2 DEF IdleScheduler
<1>9. OfRun(replies') = {} /\ ~Owed(replies')
  BY <1>2 DEF OfRun, Owed
<1>10. Serial(Here)'
  BY <1>2, <1>8, <1>9 DEF Serial, Free, Here
<1>11. Alarmed(Here)'
  BY <1>8 DEF Alarmed, Here
<1> QED BY <1>2, <1>7, <1>9, <1>10, <1>11 DEF SInv

-----------------------------------------------------------------------------
(* The user.                                                               *)
LEMMA RewriteStep ==
    ASSUME SInv, Running, UNCHANGED <<now, power, up>>,
           UNCHANGED budget \/ Spend, sch.subscribed, user' = "waiting",
           NEW edited \in SUBSET Slots, NEW row \in Row, NEW r \in Reply,
           r.kind \in {"saved", "removed", "cleared"},
           Become(Rewrite(Here, edited, row, r))
    PROVE  SInv'
<1> DEFINE f == [s \in Slots |-> IF s \in edited THEN row ELSE db[s]]
           q == Append(replies, r)
           h == [fate |-> [s \in Slots |-> IF s \in edited
                                           THEN [t \in Times |-> "open"]
                                           ELSE hist.fate[s]],
                 skip |-> {k \in hist.skip : k[1] \notin edited},
                 skewed |-> hist.skewed \cup {s \in edited : Outstanding(Here, s)}]
           a == [Here EXCEPT !.db = f]
           b == [a EXCEPT !.replies = q]
           n == [b EXCEPT !.hist = h]
<1>1. TypeOK /\ Here \in Machine
  BY HereTyped DEF SInv
<1>2. n = Rewrite(Here, edited, row, r)
  BY DEF Rewrite, Here
<1>3. f \in [Slots -> Row]
  BY <1>1 DEF TypeOK
<1>4. replies \in Seq(Reply) /\ q \in Seq(Reply)
  BY <1>1, Appended DEF TypeOK
<1>5. h \in History
  <2>1. /\ hist.fate \in [Slots -> [Times -> Fates]]
        /\ hist.skip \subseteq Skips /\ hist.skewed \subseteq Slots
    BY <1>1 DEF TypeOK
  <2>2. [s \in Slots |-> IF s \in edited THEN [t \in Times |-> "open"]
                         ELSE hist.fate[s]] \in [Slots -> [Times -> Fates]]
    BY <2>1 DEF Fates
  <2>3. {k \in hist.skip : k[1] \notin edited} \subseteq Skips
    BY <2>1
  <2>4. hist.skewed \cup {s \in edited : Outstanding(Here, s)} \subseteq Slots
    BY <2>1
  <2> QED BY <2>2, <2>3, <2>4 DEF History
<1>6. /\ Here.sch = sch /\ Here.slots = slots /\ Here.master = master
      /\ Here.deliveries = deliveries /\ Here.replies = replies
  BY DEF Here
<1>7. Serial(Here) /\ Alarmed(Here)
  BY DEF SInv
<1>8. a = [Here EXCEPT !.db = f] /\ b = [a EXCEPT !.replies = q] /\ n = [b EXCEPT !.hist = h]
  OBVIOUS
<1> HIDE DEF f, h, a, b, n, Here
<1>9. /\ a \in Machine /\ a.sch = sch /\ a.slots = slots /\ a.master = master
      /\ a.deliveries = deliveries
  BY <1>1, <1>3, <1>6, <1>8, DbSet
<1>10. /\ b \in Machine /\ b.sch = sch /\ b.slots = slots /\ b.master = master
       /\ b.deliveries = deliveries /\ b.replies = q
  BY <1>4, <1>8, <1>9, RepliesSet, ZenonT(120)
<1>11. /\ n \in Machine /\ n.sch = sch /\ n.slots = slots /\ n.master = master
       /\ n.deliveries = deliveries /\ n.replies = q
  BY <1>5, <1>8, <1>10, HistSet, ZenonT(120)
<1>12. OfRun(q) = OfRun(replies) /\ (Passing(q) <=> Passing(replies))
  <2>1. ~InRun(r)
    BY DEF InRun
  <2> QED BY <1>4, <2>1, Appended
<1>13. Serial(n)
  BY <1>6, <1>7, <1>11, <1>12 DEF Serial, Busy, Free
<1>14. Alarmed(n)
  <2>1. Timely(n) = Timely(Here)
    BY <1>6, <1>11 DEF Timely, On
  <2> QED BY <1>6, <1>7, <1>11, <1>12, <2>1 DEF Alarmed, Rings
<1>15. budget' \in 0..MaxEvents
  BY <1>1, SpendTyped
<1>16. up' = TRUE /\ power' \in [awake: BOOLEAN, resume: BOOLEAN]
  BY <1>1 DEF TypeOK, Running
<1>17. Become(n)
  BY <1>2
<1> QED BY <1>11, <1>13, <1>14, <1>15, <1>16, <1>17, Landed

LEMMA EditedTyped ==
    ASSUME NEW on \in BOOLEAN, NEW rule \in Rules, now \in Times
    PROVE  Edited(on, rule, now) \in Row
<1>1. now - 1 \in Nat
  BY DEF Times
<1>2. NextDue(rule, now - 1) \in Nat
  BY <1>1, NextDueLater
<1> QED BY <1>2 DEF Edited, FirstDue, Row, Due, NoDue

LEMMA SaveStep ==
    ASSUME SInv, Save
    PROVE  SInv'
<1>1. TypeOK /\ now \in Times
  BY DEF SInv, TypeOK
<1>2. PICK s \in Slots, on \in BOOLEAN, rule \in Rules :
          Become(Rewrite(Here, {s}, Edited(on, rule, now),
                         [kind |-> "saved", slot |-> s, stored |-> Edited(on, rule, now)]))
  BY DEF Save
<1> DEFINE row == Edited(on, rule, now)
           r == [kind |-> "saved", slot |-> s, stored |-> row]
<1>3. row \in Row
  BY <1>1, EditedTyped
<1> HIDE DEF row
<1>4. r \in Reply /\ r.kind \in {"saved", "removed", "cleared"}
  BY <1>3 DEF Reply, UserReply
<1>5. Become(Rewrite(Here, {s}, row, r))
  BY <1>2 DEF row
<1>6. /\ Running /\ UNCHANGED <<now, power, up>> /\ Spend /\ sch.subscribed
      /\ user' = "waiting" /\ {s} \in SUBSET Slots
  BY DEF Save, UserActs
<1> HIDE DEF r
<1> QED BY <1>3, <1>4, <1>5, <1>6, RewriteStep

LEMMA RemoveStep ==
    ASSUME SInv, Remove
    PROVE  SInv'
<1>1. Absent \in Row
  BY RuleExists DEF SInv
<1>2. PICK s \in Slots :
          Become(Rewrite(Here, {s}, Absent, [kind |-> "removed", slot |-> s]))
  BY DEF Remove
<1> DEFINE r == [kind |-> "removed", slot |-> s]
<1>3. r \in Reply /\ r.kind \in {"saved", "removed", "cleared"}
  BY DEF Reply, UserReply
<1>4. /\ Running /\ UNCHANGED <<now, power, up>> /\ Spend /\ sch.subscribed
      /\ user' = "waiting" /\ {s} \in SUBSET Slots
  BY DEF Remove, UserActs
<1>5. Become(Rewrite(Here, {s}, Absent, r))
  BY <1>2
<1> HIDE DEF r
<1> QED BY <1>1, <1>3, <1>4, <1>5, RewriteStep

LEMMA ClearTableStep ==
    ASSUME SInv, ClearTable
    PROVE  SInv'
<1>1. Absent \in Row
  BY RuleExists DEF SInv
<1> DEFINE r == [kind |-> "cleared"]
<1>2. r \in Reply /\ r.kind \in {"saved", "removed", "cleared"}
  BY DEF Reply, UserReply
<1>3. /\ Running /\ UNCHANGED <<now, power, up>> /\ UNCHANGED budget /\ sch.subscribed
      /\ user' = "waiting" /\ Slots \in SUBSET Slots
  BY DEF ClearTable, SInv
<1>4. Become(Rewrite(Here, Slots, Absent, r))
  BY DEF ClearTable
<1> HIDE DEF r
<1> QED BY <1>1, <1>2, <1>3, <1>4, RewriteStep

(* The master switch is thrown: refresh() is called with the new value.    *)
LEMMA SwitchStep ==
    ASSUME SInv, Running, UNCHANGED <<now, power, up>>, Spend, sch.subscribed,
           user' \in {"idle", "clearing", "waiting"}, NEW on \in BOOLEAN,
           Become(Refresh([Here EXCEPT !.master = on]))
    PROVE  SInv'
<1> DEFINE m == [Here EXCEPT !.master = on]
           n == Refresh(m)
<1>1. TypeOK /\ Here \in Machine /\ now \in Times
  BY HereTyped DEF SInv, TypeOK
<1>2. /\ m \in Machine /\ m.sch = sch /\ m.deliveries = deliveries
      /\ m.replies = replies
  <2>1. Here.sch = sch /\ Here.deliveries = deliveries /\ Here.replies = replies
    BY DEF Here
  <2> HIDE DEF Here
  <2> QED BY <1>1, <2>1 DEF Machine
<1>3. Serial(m)
  BY <1>2 DEF SInv, Serial, Busy, Free, Here
<1>4. Become(n)
  OBVIOUS
<1> HIDE DEF m, n
<1>5. Aside(m, n) /\ Alarmed(n)
  BY <1>1, <1>2, RefreshStep DEF n
<1>6. n \in Machine /\ Serial(n) /\ n.sch.subscribed
  BY <1>2, <1>3, <1>5, AsideSerial DEF Aside, Carries
<1>7. budget' \in 0..MaxEvents
  BY <1>1, SpendTyped
<1>8. up' = TRUE /\ power' \in [awake: BOOLEAN, resume: BOOLEAN]
  BY <1>1 DEF TypeOK, Running
<1> QED BY <1>4, <1>5, <1>6, <1>7, <1>8, Landed

LEMMA ClearAllStep ==
    ASSUME SInv, ClearAll
    PROVE  SInv'
  BY SwitchStep DEF ClearAll, UserActs

LEMMA SetMasterStep ==
    ASSUME SInv, SetMaster
    PROVE  SInv'
<1>1. master \in BOOLEAN /\ user \in {"idle", "clearing", "waiting"}
  BY DEF SInv, TypeOK
<1>2. (~master) \in BOOLEAN
  BY <1>1
<1>3. /\ Running /\ UNCHANGED <<now, power, up>> /\ Spend /\ sch.subscribed
      /\ user' \in {"idle", "clearing", "waiting"}
      /\ Become(Refresh([Here EXCEPT !.master = ~master]))
  BY <1>1 DEF SetMaster, UserActs
<1> QED BY <1>2, <1>3, SwitchStep

LEMMA SettingChangedStep ==
    ASSUME SInv, SettingChanged
    PROVE  SInv'
<1>1. TypeOK /\ Here \in Machine /\ now \in Times /\ Serial(Here)
  BY HereTyped DEF SInv, TypeOK
<1>2. \E x \in {Here, [Here EXCEPT !.inject = TRUE]} : Become(Refresh(x))
  BY DEF SettingChanged, Does
<1>3. /\ UNCHANGED budget \/ Spend
      /\ Running /\ UNCHANGED <<now, power, up, user>>
  BY DEF SettingChanged, Does
<1>4. sch.subscribed /\ Here.sch = sch
  BY DEF SettingChanged, Here
<1> HIDE DEF Here
<1>5. PICK x : Base(x, Here) /\ Become(Refresh(x))
  BY <1>1, <1>2, InjectStep
<1>6. x \in Machine /\ Serial(x) /\ x.sch = sch
  BY <1>1, <1>4, <1>5, BaseCarries DEF Base
<1>7. Aside(x, Refresh(x)) /\ Alarmed(Refresh(x))
  BY <1>1, <1>6, RefreshStep
<1>8. /\ Refresh(x) \in Machine /\ Serial(Refresh(x))
      /\ Refresh(x).sch.subscribed
  BY <1>4, <1>6, <1>7, AsideSerial DEF Aside, Carries
<1> QED BY <1>3, <1>5, <1>7, <1>8, LandedHere

LEMMA SendNowStep ==
    ASSUME SInv, SendNow
    PROVE  SInv'
<1>1. /\ TypeOK /\ Here \in Machine /\ Running /\ UNCHANGED <<now, power, up, user>>
      /\ Spend
  BY HereTyped DEF SInv, SendNow
<1> DEFINE d(s) == [row |-> Hold(Here, s), next |-> Hold(Here, s).due,
                    run |-> [NewRun(Here) EXCEPT !.sendNow = TRUE]]
           h(s) == [hist EXCEPT !.skewed = @ \cup {t \in {s} : BeingStored(t)
                                                    \/ Outstanding(Here, t)}]
           t == [sch EXCEPT !.running = TRUE]
<1>2. PICK s \in Slots :
          Become([Here EXCEPT !.sch.running = TRUE,
                              !.deliveries = @ \cup {d(s)},
                              !.hist.skewed = @ \cup {u \in {s} : BeingStored(u)
                                                       \/ Outstanding(Here, u)}])
  BY DEF SendNow
<1> DEFINE a == [Here EXCEPT !.sch = t]
           b == [a EXCEPT !.hist = h(s)]
           n == [b EXCEPT !.deliveries = {d(s)}]
<1>3. sch.running = FALSE /\ deliveries = {} /\ OfRun(replies) = {} /\ sch.subscribed
  BY <1>1 DEF SInv, SendNow, Serial, Free, Here, TypeOK, Scheduler
<1>4. Become(n)
  BY <1>2, <1>3 DEF Become, Here
<1>5. d(s) \in Delivery
  <2>1. Hold(Here, s) \in Held /\ Hold(Here, s).due \in Due
    BY <1>1, HoldTyped DEF Held
  <2>2. [NewRun(Here) EXCEPT !.sendNow = TRUE] \in Run
    BY <1>1, NewRunTyped
  <2> QED BY <2>1, <2>2 DEF Delivery
<1>6. h(s) \in History
  <2>1. hist \in History /\ {u \in {s} : BeingStored(u) \/ Outstanding(Here, u)} \subseteq Slots
    BY <1>1 DEF TypeOK, History
  <2> QED BY <2>1 DEF History
<1>7. t \in Scheduler /\ t.running = TRUE /\ t.subscribed = sch.subscribed
  BY <1>1 DEF TypeOK, Scheduler
<1>8. /\ a = [Here EXCEPT !.sch = t] /\ b = [a EXCEPT !.hist = h(s)]
      /\ n = [b EXCEPT !.deliveries = {d(s)}]
  OBVIOUS
<1>9. Here.replies = replies
  BY DEF Here
<1> HIDE DEF a, b, n, t, h, d, Here
<1>10. a \in Machine /\ a.sch = t /\ a.replies = replies
  BY <1>1, <1>7, <1>8, <1>9, SchSet
<1>11. b \in Machine /\ b.sch = t /\ b.replies = replies
  BY <1>6, <1>8, <1>10, HistSet
<1>12. n \in Machine /\ n.sch = t /\ n.replies = replies /\ n.deliveries = {d(s)}
  BY <1>5, <1>8, <1>11 DEF Machine
<1>13. Serial(n) /\ Alarmed(n)
  BY <1>3, <1>7, <1>12 DEF Serial, Busy, Alarmed
<1>14. user = "clearing" \/ Owed(n.replies) => n.sch.subscribed
  BY <1>3, <1>7, <1>12
<1> QED BY <1>1, <1>4, <1>12, <1>13, <1>14, LandedHere

(* The store takes the reply to the user's request over.                   *)
LEMMA UserAnsweredStep ==
    ASSUME SInv, NEW kind \in {"saved", "removed", "cleared"},
           NEW taken \in SUBSET Slots, NEW row \in Row, UserAnswered(kind, taken, row)
    PROVE  SInv'
<1> DEFINE r == Head(replies)
           f(m) == [s \in Slots |-> IF s \in taken THEN row ELSE m.slots[s]]
           h(m) == [m.hist EXCEPT !.skewed = {s \in @ : s \notin taken \/ Outstanding(m, s)}]
           put(m) == [[m EXCEPT !.slots = f(m)] EXCEPT !.hist = h(m)]
<1>1. /\ replies # <<>> /\ Running /\ r.kind = kind /\ TypeOK /\ now \in Times
      /\ user' = "idle" /\ UNCHANGED <<now, power, up>>
  BY DEF UserAnswered, Answer, SInv, TypeOK
<1>2. Received \in Machine /\ Received.sch = sch
  BY <1>1, ReceivedTyped
<1>3. sch.subscribed
  BY <1>1, Taken DEF SInv, TypeOK
<1>4. Serial(Received)
  <2>1. ~InRun(r)
    BY <1>1 DEF InRun
  <2> QED BY <1>1, <2>1, OtherReceived
<1>5. \E x \in {Received, [Received EXCEPT !.inject = TRUE]} : Become(Takes(x, taken, row))
  BY DEF UserAnswered, Does
<1>6. budget' \in 0..MaxEvents
  <2>1. UNCHANGED budget \/ Spend
    BY DEF UserAnswered, Does
  <2> QED BY <1>1, <2>1, SpendTyped
<1>7. PICK x : Base(x, Received) /\ Become(Takes(x, taken, row))
  BY <1>2, <1>5, InjectStep
<1>8. x \in Machine /\ Serial(x) /\ x.sch = sch
  BY <1>2, <1>4, <1>7, BaseCarries DEF Base
<1> DEFINE g == f(x)
           k == h(x)
           a == [x EXCEPT !.slots = g]
           b == [a EXCEPT !.hist = k]
           n == Takes(x, taken, row)
<1>9. n = Changed(b)
  BY DEF Takes
<1>10. g \in [Slots -> Row] /\ k \in History
  <2>1. x.slots \in [Slots -> Row] /\ x.hist \in History
    BY <1>8 DEF Machine
  <2> QED BY <2>1 DEF History
<1>11. a = [x EXCEPT !.slots = g] /\ b = [a EXCEPT !.hist = k]
  OBVIOUS
<1> HIDE DEF a, b, g, k, n
<1>12. a \in Machine /\ a.sch = sch /\ a.replies = x.replies /\ a.deliveries = x.deliveries
  BY <1>8, <1>10, <1>11, SlotsSet
<1>13. b \in Machine /\ b.sch = sch /\ b.replies = x.replies /\ b.deliveries = x.deliveries
  BY <1>10, <1>11, <1>12, HistSet, ZenonT(120)
<1>14. Serial(b)
  BY <1>8, <1>13 DEF Serial, Busy, Free
<1>15. Aside(b, n) /\ Alarmed(n)
  BY <1>1, <1>3, <1>9, <1>13, ChangedStep
<1>16. n \in Machine /\ Serial(n) /\ n.sch.subscribed /\ Become(n)
  BY <1>3, <1>7, <1>13, <1>14, <1>15, AsideSerial DEF Aside, Carries, n
<1>17. up' = TRUE /\ power' \in [awake: BOOLEAN, resume: BOOLEAN]
  BY <1>1 DEF TypeOK, Running
<1> QED BY <1>1, <1>6, <1>15, <1>16, <1>17, Landed

LEMMA UserAnswersStep ==
    ASSUME SInv, Saved \/ Removed \/ Cleared
    PROVE  SInv'
<1>1. TypeOK /\ Absent \in Row
  BY RuleExists DEF SInv
<1>2. CASE Saved
  <2>1. replies # <<>> /\ Head(replies).kind = "saved"
    BY <1>2 DEF Saved, UserAnswered, Answer
  <2>2. Head(replies).slot \in Slots /\ Head(replies).stored \in Row
    BY <1>1, <2>1, ReceivedTyped, ReplyParts
  <2>3. {Head(replies).slot} \in SUBSET Slots
    BY <2>2
  <2>4. UserAnswered("saved", {Head(replies).slot}, Head(replies).stored)
    BY <1>2 DEF Saved
  <2> QED BY <2>2, <2>3, <2>4, UserAnsweredStep
<1>3. CASE Removed
  <2>1. replies # <<>> /\ Head(replies).kind = "removed"
    BY <1>3 DEF Removed, UserAnswered, Answer
  <2>2. Head(replies).slot \in Slots
    BY <1>1, <2>1, ReceivedTyped, ReplyParts
  <2>3. {Head(replies).slot} \in SUBSET Slots
    BY <2>2
  <2>4. UserAnswered("removed", {Head(replies).slot}, Absent)
    BY <1>3 DEF Removed
  <2> QED BY <1>1, <2>3, <2>4, UserAnsweredStep
<1>4. CASE Cleared
  BY <1>1, <1>4, UserAnsweredStep DEF Cleared
<1> QED BY <1>2, <1>3, <1>4

-----------------------------------------------------------------------------
(***************************************************************************)
(* The invariant, and what it says.                                        *)
(***************************************************************************)
LEMMA SInit ==
    ASSUME Init
    PROVE  SInv
<1>1. /\ now = 1 /\ up = FALSE /\ user = "idle" /\ budget = MaxEvents
      /\ power = [awake |-> TRUE, resume |-> FALSE]
      /\ sch = IdleScheduler /\ replies = <<>> /\ deliveries = {} /\ master \in BOOLEAN
  BY DEF Init
<1>2. db \in [Slots -> Row]
  BY BroadcastAssumption DEF Init, Slots
<1>3. slots \in [Slots -> Row]
  <2>1. 1 \in Slots
    BY BroadcastAssumption DEF Slots
  <2>2. db[1].rule \in Rules
    BY <1>2, <2>1 DEF Row
  <2>3. Absent \in Row
    BY <2>2 DEF SomeRule, Absent, Row, Due, NoDue
  <2> QED BY <2>3 DEF Init
<1>4. hist \in [fate: [Slots -> [Times -> Fates]], skip: SUBSET Skips,
                skewed: SUBSET Slots]
  BY DEF Init, Fates
<1>5. sch \in Scheduler
  BY <1>1 DEF IdleScheduler, Scheduler, NoTimer
<1>6. now \in Times /\ budget \in 0..MaxEvents
  BY <1>1, BroadcastAssumption DEF Times
<1>11. power \in [awake: BOOLEAN, resume: BOOLEAN] /\ up \in BOOLEAN
  BY <1>1
<1>12. replies \in Seq(Reply) /\ deliveries \subseteq Delivery
  BY <1>1
<1>7. TypeOK
  BY <1>1, <1>2, <1>3, <1>4, <1>5, <1>6, <1>11, <1>12 DEF TypeOK
<1>8. OfRun(replies) = {} /\ ~Owed(replies)
  BY <1>1 DEF OfRun, Owed
<1>9. sch.running = FALSE /\ sch.started = FALSE
  BY <1>1 DEF IdleScheduler
<1>10. Serial(Here) /\ Alarmed(Here)
  BY <1>1, <1>8, <1>9 DEF Serial, Free, Alarmed, Here
<1> QED BY <1>1, <1>7, <1>8, <1>10 DEF SInv

LEMMA SNext ==
    ASSUME SInv, [Next]_vars
    PROVE  SInv'
<1>1. CASE Respond
  BY <1>1, FireClaimedStep, FireRefusedStep, RecordedStep, MissClaimedStep,
     MissRefusedStep, MissedStep, FilledStep, UserAnswersStep DEF Respond
<1>2. CASE Delivered
  BY <1>2, DeliveredStep
<1>3. CASE TimerFires \/ IntervalFires
  BY <1>3, TimerFiresStep, IntervalFiresStep
<1>4. CASE Sleep \/ Wake \/ Clock \/ UNCHANGED vars
  BY <1>4, AsideStep
<1>5. CASE PowerResume \/ Boot \/ Crash
  BY <1>5, PowerResumeStep, BootStep, CrashStep
<1>6. CASE Save \/ Remove \/ ClearAll \/ ClearTable \/ SendNow \/ SetMaster \/ SettingChanged
  BY <1>6, SaveStep, RemoveStep, ClearAllStep, ClearTableStep, SendNowStep,
     SetMasterStep, SettingChangedStep
<1> QED BY <1>1, <1>2, <1>3, <1>4, <1>5, <1>6 DEF Next

(* In every reachable state the flag says what is under way, and the timer *)
(* is set for what is due, unless a pass is still under way that sets it.  *)
THEOREM SchedulerInvariant == Spec => []SInv
<1>1. Init => SInv
  BY SInit
<1>2. SInv /\ [Next]_vars => SInv'
  BY SNext
<1> QED BY <1>1, <1>2, PTL DEF Spec

(* "A single `running` flag serializes every fire and every Send now"      *)
(* (scheduler.ts:6): whatever the order of ticks, passes, edits, switches, *)
(* sleeps and refused requests, there are never two deliveries or passes   *)
(* that have the flag (passes of refresh() and of the start have not).     *)
THEOREM RunsAreSerial == Spec => []OneRun
<1>1. SInv => OneRun
  <2>1. SUFFICES ASSUME SInv PROVE OneRun
    OBVIOUS
  <2> DEFINE I == {i \in DOMAIN replies : InRun(replies[i])}
  <2>2. I = OfRun(replies)
    BY DEF OfRun
  <2>3. \/ deliveries = {} /\ I = {}
        \/ (\E d : deliveries = {d}) /\ I = {}
        \/ deliveries = {} /\ (\E i : I = {i})
    BY <2>1, <2>2 DEF SInv, Serial, Busy, Free, Here
  <2> HIDE DEF I
  <2>4. Cardinality({}) = 0 /\ \A x : Cardinality({x}) = 1
    BY FS_EmptySet, FS_Singleton
  <2>5. Cardinality(deliveries) + Cardinality(I) <= 1
    <3>1. CASE deliveries = {} /\ I = {}
      BY <2>4, <3>1
    <3>2. CASE (\E d : deliveries = {d}) /\ I = {}
      <4>1. Cardinality(deliveries) = 1 /\ Cardinality(I) = 0
        BY <2>4, <3>2
      <4> QED BY <4>1
    <3>3. CASE deliveries = {} /\ (\E i : I = {i})
      <4>1. Cardinality(deliveries) = 0 /\ Cardinality(I) = 1
        BY <2>4, <3>3
      <4> QED BY <4>1
    <3> QED BY <2>3, <3>1, <3>2, <3>3
  <2> QED BY <2>5 DEF OneRun, I
<1> QED BY <1>1, SchedulerInvariant, PTL

(* No lost wake-up: with nothing under way, the timer is set for the       *)
(* earliest slot or is due, for every number of slots and every rule.      *)
THEOREM WakeUpIsNotLost == Spec => []AlarmSet
<1>1. SInv => AlarmSet
  <2>1. SUFFICES ASSUME SInv, up, sch.started, master, replies = <<>>, deliveries = {},
                        NEW s \in Timely(Here)
                 PROVE  /\ sch.timer # NoTimer
                        /\ sch.timer <= slots[s].due \/ sch.timer <= now
    BY DEF AlarmSet
  <2>2. OfRun(replies) = {} /\ ~Passing(replies)
    BY <2>1 DEF OfRun, Passing
  <2>3. ~sch.running
    <3>1. ~Busy(Here)
      BY <2>1, <2>2 DEF Busy, Here
    <3> QED BY <2>1, <3>1 DEF SInv, Serial, Here
  <2> QED BY <2>1, <2>2, <2>3 DEF SInv, Alarmed, Rings, Here
<1> QED BY <1>1, SchedulerInvariant, PTL

(* Type correctness: every row, reply and delivery stays of its set, and   *)
(* every due time the rules compute is a time.                             *)
THEOREM BroadcastsTyped == Spec => []TypeOK
<1>1. SInv => TypeOK
  BY DEF SInv
<1> QED BY <1>1, SchedulerInvariant, PTL

-----------------------------------------------------------------------------
(***************************************************************************)
(* The copy and the table. A reply that covers slot s puts a row into the  *)
(* copy of it; a claim that has been granted will write a due time into    *)
(* the copy, when its delivery or its result has been recorded.            *)
(***************************************************************************)
Covers(r, s) ==
    \/ r.kind \in {"saved", "removed"} /\ r.slot = s
    \/ r.kind = "filled" /\ r.slot = s /\ r.ok # "failed"
    \/ r.kind = "cleared"
Brings(r) == IF r.kind \in {"saved", "filled"} THEN r.stored ELSE Absent
Claims(r, s) == r.kind \in {"fire", "miss"} /\ r.ok = "yes" /\ r.row.slot = s
Writes(r, s) == Claims(r, s) \/ (r.kind \in {"sent", "missed"} /\ r.row.slot = s)

(* The last reply of the queue that covers the slot.                       *)
LastCover(q, k, s) ==
    k \in DOMAIN q /\ Covers(q[k], s) /\ \A j \in DOMAIN q : j > k => ~Covers(q[j], s)

(* The row the copy will have is the table's, or becomes it when the one   *)
(* who claimed the slot has written its due time.                          *)
Writer(q, ds, s) ==
    (\E d \in ds : d.row.slot = s) \/ \E i \in DOMAIN q : Writes(q[i], s)
Agrees(q, ds, row, copy, s) ==
    \/ copy = row
    \/ Writer(q, ds, s) /\ copy.here /\ [copy EXCEPT !.due = row.due] = row

Mirrors(q, ds, row, copy, s) ==
    /\ \A i \in DOMAIN q : Writes(q[i], s) =>
           /\ q[i].next = row.due \/ ~row.here
           /\ \A j \in DOMAIN q : j > i => ~Covers(q[j], s)
    /\ \A d \in ds : d.row.slot = s => d.next = row.due \/ ~row.here
    /\ \A k \in DOMAIN q : LastCover(q, k, s) => Agrees(q, ds, row, Brings(q[k]), s)
    /\ (\A k \in DOMAIN q : ~Covers(q[k], s)) => Agrees(q, ds, row, copy, s)

(* The answer to the user brings what the table has, even if the row is    *)
(* crossed, unless a claim follows it.                                     *)
ByUser(r) == r.kind \in {"saved", "removed", "cleared"}
Rewritten(q, row, s) ==
    \A i \in DOMAIN q :
        /\ ByUser(q[i]) /\ Covers(q[i], s)
        /\ \A j \in DOMAIN q : j > i => ~Claims(q[j], s)
        => \A k \in DOMAIN q : k >= i /\ LastCover(q, k, s) => row = Brings(q[k])

Mirrored(m) ==
    \A s \in Slots :
        /\ s \notin m.hist.skewed =>
               Mirrors(m.replies, m.deliveries, m.db[s], m.slots[s], s)
        /\ Rewritten(m.replies, m.db[s], s)

MInv == up => Mirrored(Here)

-----------------------------------------------------------------------------
(* A reply joins the queue; a reply leaves it.                             *)
LEMMA Longer ==
    ASSUME NEW q \in Seq(Reply), NEW r \in Reply
    PROVE  LET p == Append(q, r)
           IN  /\ Len(q) \in Nat
               /\ DOMAIN q = 1..Len(q) /\ DOMAIN p = 1..(Len(q) + 1)
               /\ p[Len(q) + 1] = r /\ \A i \in 1..Len(q) : p[i] = q[i]
  OBVIOUS

LEMMA Shorter ==
    ASSUME NEW q \in Seq(Reply), q # <<>>
    PROVE  LET p == Tail(q)
           IN  /\ Len(q) \in Nat /\ Len(q) >= 1
               /\ DOMAIN q = 1..Len(q) /\ DOMAIN p = 1..(Len(q) - 1)
               /\ Head(q) = q[1] /\ \A i \in DOMAIN p : i + 1 \in DOMAIN q /\ p[i] = q[i + 1]
               /\ \A i \in DOMAIN q : i # 1 => i - 1 \in DOMAIN p /\ p[i - 1] = q[i]
<1> DEFINE p == Tail(q)
<1>1. Len(q) \in Nat /\ Len(q) >= 1 /\ Head(q) = q[1] /\ DOMAIN q = 1..Len(q)
  OBVIOUS
<1>2. DOMAIN p = 1..(Len(q) - 1)
  OBVIOUS
<1>3. \A i \in 1..(Len(q) - 1) : p[i] = q[i + 1]
  OBVIOUS
<1> HIDE DEF p
<1>4. \A i \in DOMAIN p : i + 1 \in DOMAIN q /\ p[i] = q[i + 1]
  BY <1>1, <1>2, <1>3
<1>5. \A i \in DOMAIN q : i # 1 => i - 1 \in DOMAIN p /\ p[i - 1] = q[i]
  <2>1. SUFFICES ASSUME NEW i \in DOMAIN q, i # 1
                 PROVE  i - 1 \in DOMAIN p /\ p[i - 1] = q[i]
    OBVIOUS
  <2>2. i - 1 \in 1..(Len(q) - 1) /\ (i - 1) + 1 = i
    BY <1>1, <2>1
  <2> QED BY <2>2, <1>2, <1>3
<1> QED BY <1>1, <1>2, <1>4, <1>5 DEF p

(* A reply for another slot, or without effect on the copy of this one.    *)
LEMMA OtherSent ==
    ASSUME NEW q \in Seq(Reply), NEW r \in Reply, NEW ds, NEW es, NEW row, NEW copy,
           NEW s, ~Covers(r, s), ~Writes(r, s),
           \A d : d.row.slot = s => (d \in ds <=> d \in es),
           Mirrors(q, ds, row, copy, s)
    PROVE  Mirrors(Append(q, r), es, row, copy, s)
<1> DEFINE p == Append(q, r)
<1>1. /\ Len(q) \in Nat
      /\ DOMAIN q = 1..Len(q) /\ DOMAIN p = 1..(Len(q) + 1)
      /\ p[Len(q) + 1] = r /\ \A i \in 1..Len(q) : p[i] = q[i]
  BY Longer
<1> HIDE DEF p
<1>2. \A i \in DOMAIN p : i \in DOMAIN q \/ i = Len(q) + 1
  BY <1>1
<1>3. Writer(q, ds, s) => Writer(p, es, s)
  BY <1>1 DEF Writer
<1>4. \A k \in DOMAIN p : LastCover(p, k, s) =>
          k \in DOMAIN q /\ p[k] = q[k] /\ LastCover(q, k, s)
  BY <1>1, <1>2 DEF LastCover
<1>5. \A c : Agrees(q, ds, row, c, s) => Agrees(p, es, row, c, s)
  BY <1>3 DEF Agrees
<1>6. \A i \in DOMAIN p : Writes(p[i], s) =>
          /\ p[i].next = row.due \/ ~row.here
          /\ \A j \in DOMAIN p : j > i => ~Covers(p[j], s)
  <2>1. SUFFICES ASSUME NEW i \in DOMAIN p, Writes(p[i], s)
                 PROVE  /\ p[i].next = row.due \/ ~row.here
                        /\ \A j \in DOMAIN p : j > i => ~Covers(p[j], s)
    OBVIOUS
  <2>2. i \in DOMAIN q /\ p[i] = q[i]
    BY <1>1, <1>2, <2>1
  <2> QED BY <1>1, <1>2, <2>1, <2>2 DEF Mirrors
<1>7. \A d \in es : d.row.slot = s => d.next = row.due \/ ~row.here
  BY DEF Mirrors
<1>8. \A k \in DOMAIN p : LastCover(p, k, s) => Agrees(p, es, row, Brings(p[k]), s)
  BY <1>4, <1>5 DEF Mirrors
<1>9. (\A k \in DOMAIN p : ~Covers(p[k], s)) => Agrees(p, es, row, copy, s)
  BY <1>1, <1>5 DEF Mirrors
<1> QED BY <1>6, <1>7, <1>8, <1>9 DEF Mirrors, p

(* A claim is granted: nobody else has claimed the slot.                   *)
LEMMA ClaimSent ==
    ASSUME NEW q \in Seq(Reply), NEW r \in Reply, NEW ds, NEW row \in Row, NEW copy \in Row,
           NEW s, Claims(r, s), ~Writer(q, ds, s), row.here, r.next \in Due,
           Mirrors(q, ds, row, copy, s)
    PROVE  Mirrors(Append(q, r), ds, [row EXCEPT !.due = r.next], copy, s)
<1> DEFINE p == Append(q, r)
           new == [row EXCEPT !.due = r.next]
<1>1. /\ Len(q) \in Nat
      /\ DOMAIN q = 1..Len(q) /\ DOMAIN p = 1..(Len(q) + 1)
      /\ p[Len(q) + 1] = r /\ \A i \in 1..Len(q) : p[i] = q[i]
  BY Longer
<1>2. ~Covers(r, s) /\ Writes(r, s)
  BY DEF Covers, Claims, Writes
<1>3. new.due = r.next /\ new.here /\ [row EXCEPT !.due = new.due] = new
  BY DEF Row
<1> HIDE DEF p, new
<1>4. \A i \in DOMAIN p : i \in DOMAIN q \/ i = Len(q) + 1
  BY <1>1
<1>5. Writer(p, ds, s)
  BY <1>1, <1>2 DEF Writer
<1>6. \A k \in DOMAIN p : LastCover(p, k, s) =>
          k \in DOMAIN q /\ p[k] = q[k] /\ LastCover(q, k, s)
  BY <1>1, <1>2, <1>4 DEF LastCover
<1>7. \A c : Agrees(q, ds, row, c, s) => Agrees(p, ds, new, c, s)
  BY <1>3, <1>5 DEF Agrees
<1>8. \A i \in DOMAIN p : Writes(p[i], s) => i = Len(q) + 1
  BY <1>1, <1>4 DEF Writer
<1>9. \A i \in DOMAIN p : Writes(p[i], s) =>
          /\ p[i].next = new.due \/ ~new.here
          /\ \A j \in DOMAIN p : j > i => ~Covers(p[j], s)
  BY <1>1, <1>3, <1>8
<1>10. \A d \in ds : d.row.slot = s => d.next = new.due \/ ~new.here
  BY DEF Writer
<1>11. \A k \in DOMAIN p : LastCover(p, k, s) => Agrees(p, ds, new, Brings(p[k]), s)
  BY <1>6, <1>7 DEF Mirrors
<1>12. (\A k \in DOMAIN p : ~Covers(p[k], s)) => Agrees(p, ds, new, copy, s)
  BY <1>1, <1>7 DEF Mirrors
<1> QED BY <1>9, <1>10, <1>11, <1>12 DEF Mirrors, p, new

(* A row is written while nobody has claimed the slot.                     *)
LEMMA CoverSent ==
    ASSUME NEW q \in Seq(Reply), NEW r \in Reply, NEW ds, NEW copy, NEW s,
           Covers(r, s), ~Writer(q, ds, s)
    PROVE  Mirrors(Append(q, r), ds, Brings(r), copy, s)
<1> DEFINE p == Append(q, r)
<1>1. /\ Len(q) \in Nat
      /\ DOMAIN q = 1..Len(q) /\ DOMAIN p = 1..(Len(q) + 1)
      /\ p[Len(q) + 1] = r /\ \A i \in 1..Len(q) : p[i] = q[i]
  BY Longer
<1>2. ~Writes(r, s)
  BY DEF Covers, Writes, Claims
<1> HIDE DEF p
<1>3. \A i \in DOMAIN p : ~Writes(p[i], s)
  BY <1>1, <1>2 DEF Writer
<1>4. \A d \in ds : d.row.slot # s
  BY DEF Writer
<1>5. \A k \in DOMAIN p : LastCover(p, k, s) => k = Len(q) + 1
  BY <1>1 DEF LastCover
<1>6. ~(\A k \in DOMAIN p : ~Covers(p[k], s))
  BY <1>1
<1> QED BY <1>1, <1>3, <1>4, <1>5, <1>6 DEF Mirrors, Agrees, p

(* The one who claimed the slot goes on: a delivery has become a request.  *)
LEMMA WriterSent ==
    ASSUME NEW q \in Seq(Reply), NEW r \in Reply, NEW ds, NEW es, NEW row, NEW copy, NEW s,
           ~Covers(r, s), Writes(r, s), es \subseteq ds,
           r.next = row.due \/ ~row.here,
           Mirrors(q, ds, row, copy, s)
    PROVE  Mirrors(Append(q, r), es, row, copy, s)
<1> DEFINE p == Append(q, r)
<1>1. /\ Len(q) \in Nat
      /\ DOMAIN q = 1..Len(q) /\ DOMAIN p = 1..(Len(q) + 1)
      /\ p[Len(q) + 1] = r /\ \A i \in 1..Len(q) : p[i] = q[i]
  BY Longer
<1> HIDE DEF p
<1>2. \A i \in DOMAIN p : i \in DOMAIN q \/ i = Len(q) + 1
  BY <1>1
<1>3. Writer(p, es, s)
  BY <1>1 DEF Writer
<1>4. \A k \in DOMAIN p : LastCover(p, k, s) =>
          k \in DOMAIN q /\ p[k] = q[k] /\ LastCover(q, k, s)
  BY <1>1, <1>2 DEF LastCover
<1>5. \A c : Agrees(q, ds, row, c, s) => Agrees(p, es, row, c, s)
  BY <1>3 DEF Agrees
<1>6. \A i \in DOMAIN p : Writes(p[i], s) =>
          /\ p[i].next = row.due \/ ~row.here
          /\ \A j \in DOMAIN p : j > i => ~Covers(p[j], s)
  <2>1. SUFFICES ASSUME NEW i \in DOMAIN p, Writes(p[i], s)
                 PROVE  /\ p[i].next = row.due \/ ~row.here
                        /\ \A j \in DOMAIN p : j > i => ~Covers(p[j], s)
    OBVIOUS
  <2>2. CASE i \in DOMAIN q
    BY <1>1, <1>2, <2>1, <2>2 DEF Mirrors
  <2>3. CASE i = Len(q) + 1
    BY <1>1, <2>3
  <2> QED BY <1>2, <2>2, <2>3
<1>7. \A d \in es : d.row.slot = s => d.next = row.due \/ ~row.here
  BY DEF Mirrors
<1>8. \A k \in DOMAIN p : LastCover(p, k, s) => Agrees(p, es, row, Brings(p[k]), s)
  BY <1>4, <1>5 DEF Mirrors
<1>9. (\A k \in DOMAIN p : ~Covers(p[k], s)) => Agrees(p, es, row, copy, s)
  BY <1>1, <1>5 DEF Mirrors
<1> QED BY <1>6, <1>7, <1>8, <1>9 DEF Mirrors, p

(* What the user's answers bring: whatever joins the queue, except a claim *)
(* nobody sees, leaves it so.                                              *)
LEMMA RewrittenSent ==
    ASSUME NEW q \in Seq(Reply), NEW r \in Reply, NEW row, NEW new, NEW s,
           Rewritten(q, row, s),
           \/ ~Covers(r, s) /\ (new = row \/ Claims(r, s))
           \/ Covers(r, s) /\ new = Brings(r)
    PROVE  Rewritten(Append(q, r), new, s)
<1> DEFINE p == Append(q, r)
<1>1. /\ Len(q) \in Nat
      /\ DOMAIN q = 1..Len(q) /\ DOMAIN p = 1..(Len(q) + 1)
      /\ p[Len(q) + 1] = r /\ \A i \in 1..Len(q) : p[i] = q[i]
  BY Longer
<1> HIDE DEF p
<1>2. \A i \in DOMAIN p : i \in DOMAIN q \/ i = Len(q) + 1
  BY <1>1
<1>3. SUFFICES ASSUME NEW i \in DOMAIN p, ByUser(p[i]), Covers(p[i], s),
                      \A j \in DOMAIN p : j > i => ~Claims(p[j], s),
                      NEW k \in DOMAIN p, k >= i, LastCover(p, k, s)
               PROVE  new = Brings(p[k])
  BY DEF Rewritten, p
<1>4. CASE Covers(r, s)
  <2>1. k = Len(q) + 1
    BY <1>1, <1>3, <1>4 DEF LastCover
  <2> QED BY <1>1, <1>4, <2>1
<1>5. CASE ~Covers(r, s)
  <2>1. i \in DOMAIN q /\ k \in DOMAIN q /\ p[i] = q[i] /\ p[k] = q[k]
    BY <1>1, <1>2, <1>3, <1>5 DEF LastCover
  <2>2. ~Claims(r, s)
    BY <1>1, <1>3, <2>1
  <2>3. LastCover(q, k, s) /\ \A j \in DOMAIN q : j > i => ~Claims(q[j], s)
    BY <1>1, <1>3, <2>1 DEF LastCover
  <2> QED BY <1>3, <1>5, <2>1, <2>2, <2>3 DEF Rewritten
<1> QED BY <1>4, <1>5

LEMMA RewrittenTaken ==
    ASSUME NEW q \in Seq(Reply), q # <<>>, NEW row, NEW s, Rewritten(q, row, s)
    PROVE  Rewritten(Tail(q), row, s)
<1> DEFINE p == Tail(q)
<1>1. /\ Len(q) \in Nat /\ Len(q) >= 1
      /\ DOMAIN q = 1..Len(q) /\ DOMAIN p = 1..(Len(q) - 1)
      /\ \A i \in DOMAIN p : i + 1 \in DOMAIN q /\ p[i] = q[i + 1]
      /\ \A i \in DOMAIN q : i # 1 => i - 1 \in DOMAIN p /\ p[i - 1] = q[i]
  BY Shorter
<1> HIDE DEF p
<1>2. \A i \in DOMAIN p : i \in Nat /\ i >= 1
  BY <1>1
<1>3. SUFFICES ASSUME NEW i \in DOMAIN p, ByUser(p[i]), Covers(p[i], s),
                      \A j \in DOMAIN p : j > i => ~Claims(p[j], s),
                      NEW k \in DOMAIN p, k >= i, LastCover(p, k, s)
               PROVE  row = Brings(p[k])
  BY DEF Rewritten, p
<1>4. \A j \in DOMAIN q, x \in DOMAIN p : j > x + 1 => j - 1 \in DOMAIN p /\ j - 1 > x /\ p[j - 1] = q[j]
  BY <1>1, <1>2
<1>5. LastCover(q, k + 1, s)
  BY <1>1, <1>3, <1>4 DEF LastCover
<1>6. \A j \in DOMAIN q : j > i + 1 => ~Claims(q[j], s)
  BY <1>3, <1>4
<1>7. k + 1 >= i + 1 /\ i + 1 \in DOMAIN q /\ k + 1 \in DOMAIN q
      /\ p[i] = q[i + 1] /\ p[k] = q[k + 1]
  BY <1>1, <1>2, <1>3
<1> QED BY <1>3, <1>5, <1>6, <1>7 DEF Rewritten

(* A reply is taken that has nothing to do with the slot.                  *)
LEMMA OtherTaken ==
    ASSUME NEW q \in Seq(Reply), q # <<>>, NEW ds, NEW row, NEW copy, NEW s,
           ~Covers(Head(q), s), ~Writes(Head(q), s), Mirrors(q, ds, row, copy, s)
    PROVE  Mirrors(Tail(q), ds, row, copy, s)
<1> DEFINE p == Tail(q)
<1>1. /\ Len(q) \in Nat /\ Len(q) >= 1 /\ Head(q) = q[1]
      /\ DOMAIN q = 1..Len(q) /\ DOMAIN p = 1..(Len(q) - 1)
      /\ \A i \in DOMAIN p : i + 1 \in DOMAIN q /\ p[i] = q[i + 1]
      /\ \A i \in DOMAIN q : i # 1 => i - 1 \in DOMAIN p /\ p[i - 1] = q[i]
  BY Shorter
<1> HIDE DEF p
<1>2. \A i \in DOMAIN p : i \in Nat /\ i >= 1
  BY <1>1
<1>3. \A j \in DOMAIN q, x \in DOMAIN p :
          j > x + 1 => j - 1 \in DOMAIN p /\ j - 1 > x /\ p[j - 1] = q[j]
  BY <1>1, <1>2
<1>4. Writer(q, ds, s) => Writer(p, ds, s)
  BY <1>1 DEF Writer
<1>5. \A c : Agrees(q, ds, row, c, s) => Agrees(p, ds, row, c, s)
  BY <1>4 DEF Agrees
<1>6. \A k \in DOMAIN p : LastCover(p, k, s) => LastCover(q, k + 1, s)
  BY <1>1, <1>3 DEF LastCover
<1>7. \A i \in DOMAIN p : Writes(p[i], s) =>
          /\ p[i].next = row.due \/ ~row.here
          /\ \A j \in DOMAIN p : j > i => ~Covers(p[j], s)
  <2>1. SUFFICES ASSUME NEW i \in DOMAIN p, Writes(p[i], s)
                 PROVE  /\ p[i].next = row.due \/ ~row.here
                        /\ \A j \in DOMAIN p : j > i => ~Covers(p[j], s)
    OBVIOUS
  <2>2. i + 1 \in DOMAIN q /\ Writes(q[i + 1], s) /\ q[i + 1] = p[i]
    BY <1>1, <2>1
  <2>3. /\ q[i + 1].next = row.due \/ ~row.here
        /\ \A j \in DOMAIN q : j > i + 1 => ~Covers(q[j], s)
    BY <2>2 DEF Mirrors
  <2>4. \A j \in DOMAIN p : j > i => j + 1 > i + 1
    BY <1>2, <2>1
  <2> QED BY <1>1, <2>2, <2>3, <2>4
<1>8. \A k \in DOMAIN p : LastCover(p, k, s) => Agrees(p, ds, row, Brings(p[k]), s)
  BY <1>1, <1>5, <1>6 DEF Mirrors
<1>9. (\A k \in DOMAIN p : ~Covers(p[k], s)) => Agrees(p, ds, row, copy, s)
  <2>1. SUFFICES ASSUME \A k \in DOMAIN p : ~Covers(p[k], s)
                 PROVE  Agrees(p, ds, row, copy, s)
    OBVIOUS
  <2>2. \A k \in DOMAIN q : ~Covers(q[k], s)
    BY <1>1, <2>1
  <2> QED BY <1>5, <2>2 DEF Mirrors
<1> QED BY <1>7, <1>8, <1>9 DEF Mirrors, p

(* A row reaches the copy.                                                 *)
LEMMA CoverTaken ==
    ASSUME NEW q \in Seq(Reply), q # <<>>, NEW ds, NEW row, NEW copy, NEW s,
           Covers(Head(q), s), Mirrors(q, ds, row, copy, s)
    PROVE  Mirrors(Tail(q), ds, row, Brings(Head(q)), s)
<1> DEFINE p == Tail(q)
           got == Brings(Head(q))
<1>1. /\ Len(q) \in Nat /\ Len(q) >= 1 /\ Head(q) = q[1]
      /\ DOMAIN q = 1..Len(q) /\ DOMAIN p = 1..(Len(q) - 1)
      /\ \A i \in DOMAIN p : i + 1 \in DOMAIN q /\ p[i] = q[i + 1]
      /\ \A i \in DOMAIN q : i # 1 => i - 1 \in DOMAIN p /\ p[i - 1] = q[i]
  BY Shorter
<1>10. ~Writes(Head(q), s)
  BY DEF Covers, Writes, Claims
<1> HIDE DEF p
<1>2. \A i \in DOMAIN p : i \in Nat /\ i >= 1
  BY <1>1
<1>3. \A j \in DOMAIN q, x \in DOMAIN p :
          j > x + 1 => j - 1 \in DOMAIN p /\ j - 1 > x /\ p[j - 1] = q[j]
  BY <1>1, <1>2
<1>4. Writer(q, ds, s) => Writer(p, ds, s)
  BY <1>1, <1>10 DEF Writer
<1>5. \A c : Agrees(q, ds, row, c, s) => Agrees(p, ds, row, c, s)
  BY <1>4 DEF Agrees
<1>6. \A k \in DOMAIN p : LastCover(p, k, s) => LastCover(q, k + 1, s)
  BY <1>1, <1>3 DEF LastCover
<1>7. \A i \in DOMAIN p : Writes(p[i], s) =>
          /\ p[i].next = row.due \/ ~row.here
          /\ \A j \in DOMAIN p : j > i => ~Covers(p[j], s)
  <2>1. SUFFICES ASSUME NEW i \in DOMAIN p, Writes(p[i], s)
                 PROVE  /\ p[i].next = row.due \/ ~row.here
                        /\ \A j \in DOMAIN p : j > i => ~Covers(p[j], s)
    OBVIOUS
  <2>2. i + 1 \in DOMAIN q /\ Writes(q[i + 1], s) /\ q[i + 1] = p[i]
    BY <1>1, <2>1
  <2>3. /\ q[i + 1].next = row.due \/ ~row.here
        /\ \A j \in DOMAIN q : j > i + 1 => ~Covers(q[j], s)
    BY <2>2 DEF Mirrors
  <2>4. \A j \in DOMAIN p : j > i => j + 1 > i + 1
    BY <1>2, <2>1
  <2> QED BY <1>1, <2>2, <2>3, <2>4
<1>8. \A k \in DOMAIN p : LastCover(p, k, s) => Agrees(p, ds, row, Brings(p[k]), s)
  BY <1>1, <1>5, <1>6 DEF Mirrors
<1>9. (\A k \in DOMAIN p : ~Covers(p[k], s)) => Agrees(p, ds, row, got, s)
  <2>1. SUFFICES ASSUME \A k \in DOMAIN p : ~Covers(p[k], s)
                 PROVE  Agrees(p, ds, row, got, s)
    OBVIOUS
  <2>2. 1 \in DOMAIN q /\ \A j \in DOMAIN q : j > 1 => ~Covers(q[j], s)
    BY <1>1, <2>1
  <2>3. LastCover(q, 1, s)
    BY <1>1, <2>2 DEF LastCover
  <2> QED BY <1>1, <1>5, <2>2, <2>3 DEF Mirrors
<1> QED BY <1>7, <1>8, <1>9 DEF Mirrors, p

(* The row the user asked for reaches the copy of a slot nobody holds.     *)
LEMMA AnswerTaken ==
    ASSUME NEW q \in Seq(Reply), q # <<>>, NEW ds, NEW row, NEW s,
           ByUser(Head(q)), Covers(Head(q), s), ~Writer(Tail(q), ds, s),
           Rewritten(q, row, s)
    PROVE  Mirrors(Tail(q), ds, row, Brings(Head(q)), s)
<1> DEFINE p == Tail(q)
           got == Brings(Head(q))
<1>1. /\ Len(q) \in Nat /\ Len(q) >= 1 /\ Head(q) = q[1]
      /\ DOMAIN q = 1..Len(q) /\ DOMAIN p = 1..(Len(q) - 1)
      /\ \A i \in DOMAIN p : i + 1 \in DOMAIN q /\ p[i] = q[i + 1]
      /\ \A i \in DOMAIN q : i # 1 => i - 1 \in DOMAIN p /\ p[i - 1] = q[i]
  BY Shorter
<1> HIDE DEF p
<1>2. \A i \in DOMAIN p : i \in Nat /\ i >= 1
  BY <1>1
<1>3. \A i \in DOMAIN p : ~Writes(p[i], s)
  BY DEF Writer, p
<1>4. \A d \in ds : d.row.slot # s
  BY DEF Writer
<1>5. 1 \in DOMAIN q /\ \A j \in DOMAIN q : j > 1 => ~Claims(q[j], s)
  BY <1>1, <1>3 DEF Writes
<1>6. \A k \in DOMAIN q : LastCover(q, k, s) => row = Brings(q[k])
  <2>1. \A k \in DOMAIN q : k >= 1
    BY <1>1
  <2> QED BY <1>1, <1>5, <2>1 DEF Rewritten
<1>7. \A j \in DOMAIN q, x \in DOMAIN p :
          j > x + 1 => j - 1 \in DOMAIN p /\ j - 1 > x /\ p[j - 1] = q[j]
  BY <1>1, <1>2
<1>8. \A k \in DOMAIN p : LastCover(p, k, s) => LastCover(q, k + 1, s)
  BY <1>1, <1>7 DEF LastCover
<1>9. \A k \in DOMAIN p : LastCover(p, k, s) => row = Brings(p[k])
  BY <1>1, <1>6, <1>8
<1>10. (\A k \in DOMAIN p : ~Covers(p[k], s)) => got = row
  <2>1. SUFFICES ASSUME \A k \in DOMAIN p : ~Covers(p[k], s) PROVE got = row
    OBVIOUS
  <2>2. \A j \in DOMAIN q : j > 1 => ~Covers(q[j], s)
    BY <1>1, <2>1
  <2>3. LastCover(q, 1, s)
    BY <1>1, <1>5, <2>2 DEF LastCover
  <2> QED BY <1>1, <1>5, <1>6, <2>3
<1> QED BY <1>3, <1>4, <1>9, <1>10 DEF Mirrors, Agrees, p

(* The one who claimed the slot writes its due time into the copy.         *)
Written(copy, due) == IF copy.here THEN [copy EXCEPT !.due = due] ELSE copy

LEMMA WriterTaken ==
    ASSUME NEW q \in Seq(Reply), q # <<>>, NEW ds, NEW row \in Row, NEW copy \in Row, NEW s,
           Writes(Head(q), s), Mirrors(q, ds, row, copy, s)
    PROVE  /\ Mirrors(Tail(q), ds, row, Written(copy, Head(q).next), s)
           /\ Head(q).next = row.due \/ ~row.here
<1> DEFINE p == Tail(q)
           got == Written(copy, Head(q).next)
<1>1. /\ Len(q) \in Nat /\ Len(q) >= 1 /\ Head(q) = q[1]
      /\ DOMAIN q = 1..Len(q) /\ DOMAIN p = 1..(Len(q) - 1)
      /\ \A i \in DOMAIN p : i + 1 \in DOMAIN q /\ p[i] = q[i + 1]
      /\ \A i \in DOMAIN q : i # 1 => i - 1 \in DOMAIN p /\ p[i - 1] = q[i]
  BY Shorter
<1>2. ~Covers(Head(q), s)
  BY DEF Covers, Writes, Claims
<1> HIDE DEF p
<1>3. /\ 1 \in DOMAIN q
      /\ q[1].next = row.due \/ ~row.here
      /\ \A j \in DOMAIN q : j > 1 => ~Covers(q[j], s)
  BY <1>1 DEF Mirrors
<1>4. \A j \in DOMAIN q : ~Covers(q[j], s)
  BY <1>1, <1>2, <1>3
<1>5. Agrees(q, ds, row, copy, s)
  BY <1>4 DEF Mirrors
<1>6. got = row
  <2>1. CASE copy = row
    BY <1>1, <1>3, <2>1 DEF Written, Row
  <2>2. CASE copy.here /\ [copy EXCEPT !.due = row.due] = row
    <3>1. row.here
      BY <2>2 DEF Row
    <3> QED BY <1>1, <1>3, <2>2, <3>1 DEF Written
  <2> QED BY <1>5, <2>1, <2>2 DEF Agrees
<1> HIDE DEF got
<1>7. \A j \in DOMAIN p : ~Covers(p[j], s)
  BY <1>1, <1>4
<1>8. \A i \in DOMAIN p : Writes(p[i], s) => p[i].next = row.due \/ ~row.here
  BY <1>1 DEF Mirrors
<1>9. \A d \in ds : d.row.slot = s => d.next = row.due \/ ~row.here
  BY DEF Mirrors
<1>10. Mirrors(p, ds, row, got, s)
  BY <1>6, <1>7, <1>8, <1>9 DEF Mirrors, Agrees, LastCover
<1> QED BY <1>1, <1>3, <1>10 DEF p, got

(* An occurrence claimed as missed is being written down.                  *)
LEMMA WriterGoesOn ==
    ASSUME NEW q \in Seq(Reply), q # <<>>, NEW r \in Reply, NEW ds, NEW row, NEW copy, NEW s,
           Writes(Head(q), s), Writes(r, s), ~Covers(r, s), r.next = Head(q).next,
           Mirrors(q, ds, row, copy, s)
    PROVE  Mirrors(Append(Tail(q), r), ds, row, copy, s)
<1> DEFINE t == Tail(q)
           p == Append(t, r)
<1>1. /\ Len(q) \in Nat /\ Len(q) >= 1 /\ Head(q) = q[1]
      /\ DOMAIN q = 1..Len(q) /\ DOMAIN t = 1..(Len(q) - 1)
      /\ \A i \in DOMAIN t : i + 1 \in DOMAIN q /\ t[i] = q[i + 1]
      /\ \A i \in DOMAIN q : i # 1 => i - 1 \in DOMAIN t /\ t[i - 1] = q[i]
  BY Shorter
<1>2. t \in Seq(Reply)
  OBVIOUS
<1> HIDE DEF t
<1>3. /\ Len(t) \in Nat
      /\ DOMAIN t = 1..Len(t) /\ DOMAIN p = 1..(Len(t) + 1)
      /\ p[Len(t) + 1] = r /\ \A i \in 1..Len(t) : p[i] = t[i]
  BY <1>2, Longer
<1>4. ~Covers(Head(q), s)
  BY DEF Covers, Writes, Claims
<1> HIDE DEF p
<1>5. /\ 1 \in DOMAIN q
      /\ q[1].next = row.due \/ ~row.here
      /\ \A j \in DOMAIN q : j > 1 => ~Covers(q[j], s)
  BY <1>1 DEF Mirrors
<1>6. \A j \in DOMAIN q : ~Covers(q[j], s)
  BY <1>1, <1>4, <1>5
<1>7. Agrees(q, ds, row, copy, s)
  BY <1>6 DEF Mirrors
<1>8. \A i \in DOMAIN p : i = Len(t) + 1 \/ (i \in DOMAIN t /\ p[i] = t[i])
  BY <1>3
<1>9. Len(t) + 1 \in DOMAIN p
  BY <1>3
<1>10. Writer(p, ds, s)
  BY <1>3, <1>9 DEF Writer
<1>11. Agrees(p, ds, row, copy, s)
  BY <1>7, <1>10 DEF Agrees
<1>12. \A j \in DOMAIN p : ~Covers(p[j], s)
  BY <1>1, <1>3, <1>6, <1>8
<1>13. \A i \in DOMAIN p : Writes(p[i], s) => p[i].next = row.due \/ ~row.here
  <2>1. SUFFICES ASSUME NEW i \in DOMAIN p, Writes(p[i], s)
                 PROVE  p[i].next = row.due \/ ~row.here
    OBVIOUS
  <2>2. CASE i = Len(t) + 1
    BY <1>1, <1>3, <1>5, <2>2
  <2>3. CASE i \in DOMAIN t /\ p[i] = t[i]
    BY <1>1, <2>1, <2>3 DEF Mirrors
  <2> QED BY <1>8, <2>2, <2>3
<1>14. \A d \in ds : d.row.slot = s => d.next = row.due \/ ~row.here
  BY DEF Mirrors
<1> QED BY <1>11, <1>12, <1>13, <1>14 DEF Mirrors, LastCover, p, t

(* A delivery begins whose due time is the table's.                        *)
LEMMA DeliveryBegun ==
    ASSUME NEW q, NEW ds, NEW d, NEW row, NEW copy, NEW s,
           d.row.slot = s => d.next = row.due \/ ~row.here,
           Mirrors(q, ds, row, copy, s)
    PROVE  Mirrors(q, ds \cup {d}, row, copy, s)
<1> DEFINE es == ds \cup {d}
<1>1. Writer(q, ds, s) => Writer(q, es, s)
  BY DEF Writer
<1>2. \A c : Agrees(q, ds, row, c, s) => Agrees(q, es, row, c, s)
  BY <1>1 DEF Agrees
<1>3. \A e \in es : e.row.slot = s => e.next = row.due \/ ~row.here
  BY DEF Mirrors
<1> HIDE DEF es
<1>4. Mirrors(q, es, row, copy, s)
  BY <1>2, <1>3 DEF Mirrors
<1> QED BY <1>4 DEF es

(* A queue with a reply that covers the slot has a last one.               *)
LEMMA LastExists ==
    ASSUME NEW q \in Seq(Reply), NEW s, \E i \in DOMAIN q : Covers(q[i], s)
    PROVE  \E k : LastCover(q, k, s)
<1> DEFINE C == {i \in DOMAIN q : Covers(q[i], s)}
           T == {Len(q) - i : i \in C}
<1>1. Len(q) \in Nat /\ DOMAIN q = 1..Len(q)
  OBVIOUS
<1>2. T \subseteq Nat /\ T # {}
  BY <1>1
<1>3. PICK t \in T : \A u \in T : t <= u
  <2> HIDE DEF T
  <2> QED BY <1>2, LeastExists
<1>4. PICK k \in C : t = Len(q) - k
  BY <1>3
<1>5. \A j \in C : ~(j > k)
  <2>1. SUFFICES ASSUME NEW j \in C PROVE ~(j > k)
    OBVIOUS
  <2>2. Len(q) - k <= Len(q) - j /\ j \in Int /\ k \in Int
    BY <1>1, <1>3, <1>4
  <2> QED BY <1>1, <2>2
<1>6. LastCover(q, k, s)
  BY <1>4, <1>5 DEF LastCover
<1> QED BY <1>6

-----------------------------------------------------------------------------
(* What a block does to the copy and the table: most of it, nothing.       *)
Still(m, n) ==
    /\ n.db = m.db /\ n.slots = m.slots
    /\ n.replies = m.replies /\ n.deliveries = m.deliveries
    /\ m.hist.skewed \subseteq n.hist.skewed /\ n.hist.fate = m.hist.fate

LEMMA StillMirrored ==
    ASSUME NEW m, NEW n, Still(m, n), Mirrored(m)
    PROVE  Mirrored(n)
  BY DEF Still, Mirrored

LEMMA StillAgain ==
    ASSUME NEW m, NEW n, NEW p, Still(m, n), Still(n, p)
    PROVE  Still(m, p)
  BY DEF Still

LEMMA SchStill ==
    ASSUME NEW m \in Machine, NEW s
    PROVE  Still(m, [m EXCEPT !.sch = s])
  BY DEF Machine, Still

LEMMA ArmStill ==
    ASSUME NEW m \in Machine
    PROVE  Still(m, Arm(m))
<1> DEFINE off == [m.sch EXCEPT !.timer = NoTimer, !.interval = FALSE]
           busy == [m.sch EXCEPT !.timer = NoTimer]
           t == IF Timely(m) = {} THEN NoTimer
                ELSE IF Earliest(m) > now THEN Earliest(m) ELSE now
           set == [m.sch EXCEPT !.interval = TRUE, !.timer = t]
<1>1. \E s \in {off, busy, set} : Arm(m) = [m EXCEPT !.sch = s]
  <2> HIDE DEF t
  <2>1. /\ [m EXCEPT !.sch.timer = NoTimer, !.sch.interval = FALSE] = [m EXCEPT !.sch = off]
        /\ [m EXCEPT !.sch.timer = NoTimer] = [m EXCEPT !.sch = busy]
        /\ [m EXCEPT !.sch.interval = TRUE, !.sch.timer = t] = [m EXCEPT !.sch = set]
    BY DEF Machine, Scheduler
  <2>2. Arm(m) \in {[m EXCEPT !.sch.timer = NoTimer, !.sch.interval = FALSE],
                    [m EXCEPT !.sch.timer = NoTimer],
                    [m EXCEPT !.sch.interval = TRUE, !.sch.timer = t]}
    BY DEF Arm, t
  <2> HIDE DEF off, busy, set
  <2> QED BY <2>1, <2>2
<1> HIDE DEF off, busy, set
<1> QED BY <1>1, SchStill

LEMMA CrossedStill ==
    ASSUME NEW m \in Machine, NEW s \in Slots
    PROVE  LET c == Crossed(m, s)
           IN  Still(m, c) /\ (s \notin c.hist.skewed => ~Writer(m.replies, m.deliveries, s))
<1> DEFINE c == Crossed(m, s)
<1>1. /\ c.db = m.db /\ c.slots = m.slots
      /\ c.replies = m.replies /\ c.deliveries = m.deliveries
      /\ c.hist.skewed = m.hist.skewed \cup {t \in {s} : Outstanding(m, t)}
      /\ c.hist.fate = m.hist.fate
  BY DEF Crossed, Machine, History
<1> HIDE DEF c
<1>2. ~Outstanding(m, s) => ~Writer(m.replies, m.deliveries, s)
  BY DEF Outstanding, Writer, Writes, Claims
<1>3. s \notin c.hist.skewed => ~Outstanding(m, s)
  BY <1>1
<1> QED BY <1>1, <1>2, <1>3 DEF Still, c

(* A request that was refused or rejected changes neither.                 *)
LEMMA VainRequest ==
    ASSUME NEW m \in Machine, NEW r \in Reply, NEW n,
           n.db = m.db, n.slots = m.slots, n.deliveries = m.deliveries,
           n.replies = Append(m.replies, r), m.hist.skewed \subseteq n.hist.skewed,
           \A s \in Slots : ~Covers(r, s) /\ ~Writes(r, s),
           Mirrored(m)
    PROVE  Mirrored(n)
<1>1. m.replies \in Seq(Reply)
  BY DEF Machine
<1>2. SUFFICES ASSUME NEW s \in Slots
               PROVE  /\ s \notin n.hist.skewed =>
                            Mirrors(n.replies, n.deliveries, n.db[s], n.slots[s], s)
                      /\ Rewritten(n.replies, n.db[s], s)
  BY DEF Mirrored
<1>3. Rewritten(n.replies, n.db[s], s)
  BY <1>1, RewrittenSent DEF Mirrored
<1>4. ASSUME s \notin n.hist.skewed
      PROVE  Mirrors(n.replies, n.deliveries, n.db[s], n.slots[s], s)
  <2>1. Mirrors(m.replies, m.deliveries, m.db[s], m.slots[s], s)
    BY <1>4 DEF Mirrored
  <2> QED BY <1>1, <2>1, OtherSent
<1> QED BY <1>3, <1>4

(* The table's row of slot s has changed as the reply says.                *)
LEMMA RowRequest ==
    ASSUME NEW m \in Machine, NEW r \in Reply, NEW n, NEW s \in Slots,
           n.slots = m.slots, n.deliveries = m.deliveries,
           n.replies = Append(m.replies, r), m.hist.skewed \subseteq n.hist.skewed,
           s \notin n.hist.skewed => ~Writer(m.replies, m.deliveries, s),
           \A t \in Slots : t # s => n.db[t] = m.db[t] /\ ~Covers(r, t) /\ ~Writes(r, t),
           \/ /\ Claims(r, s) /\ r.next \in Due
              /\ m.db[s].here /\ n.db[s] = [m.db[s] EXCEPT !.due = r.next]
           \/ Covers(r, s) /\ n.db[s] = Brings(r),
           Mirrored(m)
    PROVE  Mirrored(n)
<1>1. m.replies \in Seq(Reply) /\ m.db[s] \in Row /\ m.slots[s] \in Row
  BY DEF Machine
<1>2. SUFFICES ASSUME NEW t \in Slots
               PROVE  /\ t \notin n.hist.skewed =>
                            Mirrors(n.replies, n.deliveries, n.db[t], n.slots[t], t)
                      /\ Rewritten(n.replies, n.db[t], t)
  BY DEF Mirrored
<1>3. Rewritten(m.replies, m.db[t], t)
  BY DEF Mirrored
<1>4. t \notin n.hist.skewed => Mirrors(m.replies, m.deliveries, m.db[t], m.slots[t], t)
  BY DEF Mirrored
<1>5. CASE t # s
  <2>1. Rewritten(n.replies, n.db[t], t)
    BY <1>1, <1>3, <1>5, RewrittenSent
  <2>2. t \notin n.hist.skewed => Mirrors(n.replies, n.deliveries, n.db[t], n.slots[t], t)
    BY <1>1, <1>4, <1>5, OtherSent
  <2> QED BY <2>1, <2>2
<1>6. CASE t = s /\ Claims(r, s)
  <2>1. ~Covers(r, s)
    BY <1>6 DEF Claims, Covers
  <2>2. Rewritten(n.replies, n.db[t], t)
    BY <1>1, <1>3, <1>6, <2>1, RewrittenSent
  <2>3. t \notin n.hist.skewed => Mirrors(n.replies, n.deliveries, n.db[t], n.slots[t], t)
    BY <1>1, <1>4, <1>6, <2>1, ClaimSent
  <2> QED BY <2>2, <2>3
<1>7. CASE t = s /\ ~Claims(r, s)
  <2>1. Rewritten(n.replies, n.db[t], t)
    BY <1>1, <1>3, <1>7, RewrittenSent
  <2>2. t \notin n.hist.skewed => Mirrors(n.replies, n.deliveries, n.db[t], n.slots[t], t)
    BY <1>1, <1>7, CoverSent
  <2> QED BY <2>1, <2>2
<1> QED BY <1>5, <1>6, <1>7

LEMMA ClaimMirrors ==
    ASSUME NEW m \in Machine, NEW reply \in RunReply \cup PassReply, NEW how \in Fates,
           reply.kind \in {"fire", "miss"}, reply.ok = "yes", Mirrored(m)
    PROVE  Mirrored(Claim(m, reply, how))
<1> DEFINE n == Claim(m, reply, how)
           s == reply.row.slot
           due == reply.row.due
           other(a) == [reply EXCEPT !.ok = a]
<1>1. s \in Slots /\ due \in Nat /\ reply.next \in Due /\ reply \in Reply
  BY DEF RunReply, PassReply, Held, Due, Reply
<1>2. \A a \in {"no", "failed"} :
          /\ other(a) \in Reply
          /\ \A t \in Slots : ~Covers(other(a), t) /\ ~Writes(other(a), t)
  <2>1. \A a \in {"no", "failed"} :
            /\ other(a) \in RunReply \cup PassReply
            /\ other(a).kind = reply.kind /\ other(a).ok = a
    BY DEF RunReply, PassReply, Answers
  <2> HIDE DEF other
  <2> QED BY <2>1 DEF Reply, Covers, Writes, Claims
<1>3. CASE m.inject
  <2>1. n = [m EXCEPT !.replies = Append(@, other("failed")), !.inject = FALSE]
    BY <1>3 DEF Claim, Rejected
  <2> HIDE DEF other
  <2>2. /\ n.db = m.db /\ n.slots = m.slots /\ n.deliveries = m.deliveries
        /\ n.replies = Append(m.replies, other("failed")) /\ n.hist = m.hist
    BY <2>1 DEF Machine
  <2> HIDE DEF n
  <2> QED BY <1>2, <2>2, VainRequest DEF n
<1>4. CASE ~m.inject /\ ~Claimable(m.db[s], due)
  <2>1. n = [m EXCEPT !.replies = Append(@, other("no"))]
    BY <1>4 DEF Claim, Send
  <2> HIDE DEF other
  <2>2. /\ n.db = m.db /\ n.slots = m.slots /\ n.deliveries = m.deliveries
        /\ n.replies = Append(m.replies, other("no")) /\ n.hist = m.hist
    BY <2>1 DEF Machine
  <2> HIDE DEF n
  <2> QED BY <1>2, <2>2, VainRequest DEF n
<1>5. CASE ~m.inject /\ Claimable(m.db[s], due)
  <2> DEFINE c == Crossed(m, s)
             d == [c EXCEPT !.db[s].due = reply.next, !.hist.fate[s][due] = Settle(@, how)]
  <2>1. c \in Machine
    BY <1>1, CrossedStep DEF Quiet
  <2>2. Still(m, c) /\ (s \notin c.hist.skewed => ~Writer(m.replies, m.deliveries, s))
    BY <1>1, CrossedStill
  <2>3. n = [d EXCEPT !.replies = Append(@, reply)]
    BY <1>5 DEF Claim, Send
  <2> HIDE DEF c
  <2>4. /\ n.db = [c.db EXCEPT ![s].due = reply.next] /\ n.slots = c.slots
        /\ n.deliveries = c.deliveries /\ n.replies = Append(c.replies, reply)
        /\ n.hist = [c.hist EXCEPT !.fate[s][due] = Settle(@, how)]
    BY <2>1, <2>3 DEF Machine
  <2> HIDE DEF n, d
  <2>5. n.hist.skewed = c.hist.skewed
    <3>1. c.hist \in History
      BY <2>1 DEF Machine
    <3> QED BY <2>4, <3>1 DEF History
  <2>6. m.db \in [Slots -> Row] /\ n.db = [m.db EXCEPT ![s].due = reply.next]
    BY <2>2, <2>4 DEF Still, Machine
  <2>7. /\ n.db[s] = [m.db[s] EXCEPT !.due = reply.next]
        /\ \A t \in Slots : t # s => n.db[t] = m.db[t]
    BY <1>1, <2>6
  <2>8. /\ Claims(reply, s)
        /\ \A t \in Slots : t # s => ~Covers(reply, t) /\ ~Writes(reply, t)
    BY DEF Claims, Covers, Writes
  <2>9. m.db[s].here
    BY <1>5 DEF Claimable
  <2>10. /\ n.slots = m.slots /\ n.deliveries = m.deliveries
         /\ n.replies = Append(m.replies, reply) /\ m.hist.skewed \subseteq n.hist.skewed
         /\ s \notin n.hist.skewed => ~Writer(m.replies, m.deliveries, s)
    BY <2>2, <2>4, <2>5 DEF Still
  <2> HIDE DEF s
  <2> QED BY <1>1, <2>7, <2>8, <2>9, <2>10, RowRequest DEF n
<1>6. m.inject \in BOOLEAN
  BY DEF Machine
<1> QED BY <1>3, <1>4, <1>5, <1>6

LEMMA FillMirrors ==
    ASSUME NEW m \in Machine, NEW s \in Slots, NEW next \in Nat, NEW pass \in Pass,
           Mirrored(m)
    PROVE  Mirrored(Fill(m, s, next, pass))
<1> DEFINE n == Fill(m, s, next, pass)
           stored == WithDue(m.db[s], next)
           reply == [kind |-> "filled", slot |-> s, stored |-> stored,
                     ok |-> "yes", pass |-> pass]
           failed == [reply EXCEPT !.ok = "failed"]
<1>1. stored \in Row
  BY ZenonT(120) DEF WithDue, Machine, Row, Due
<1>2. reply \in FillReply /\ failed \in FillReply
  BY <1>1 DEF FillReply, Answers
<1>3. reply \in Reply /\ failed \in Reply
  BY <1>2 DEF Reply
<1>4. CASE m.inject
  <2>1. n = [m EXCEPT !.replies = Append(@, failed), !.inject = FALSE]
    BY <1>4 DEF Fill, Rejected
  <2>2. \A t \in Slots : ~Covers(failed, t) /\ ~Writes(failed, t)
    BY DEF Covers, Writes, Claims
  <2> HIDE DEF failed
  <2>3. /\ n.db = m.db /\ n.slots = m.slots /\ n.deliveries = m.deliveries
        /\ n.replies = Append(m.replies, failed) /\ n.hist = m.hist
    BY <2>1 DEF Machine
  <2> HIDE DEF n
  <2> QED BY <1>3, <2>2, <2>3, VainRequest DEF n
<1>5. CASE ~m.inject
  <2> DEFINE c == Crossed(m, s)
  <2>1. c \in Machine
    BY CrossedStep DEF Quiet
  <2>2. Still(m, c) /\ (s \notin c.hist.skewed => ~Writer(m.replies, m.deliveries, s))
    BY CrossedStill
  <2>3. n = [[c EXCEPT !.db[s] = stored] EXCEPT !.replies = Append(@, reply)]
    BY <1>5 DEF Fill, Send
  <2>4. Covers(reply, s) /\ Brings(reply) = stored
    BY DEF Covers, Brings
  <2>5. \A t \in Slots : t # s => ~Covers(reply, t) /\ ~Writes(reply, t)
    BY DEF Covers, Writes, Claims
  <2> HIDE DEF c, stored, reply
  <2>6. /\ n.db = [c.db EXCEPT ![s] = stored] /\ n.slots = c.slots
        /\ n.deliveries = c.deliveries /\ n.replies = Append(c.replies, reply)
        /\ n.hist = c.hist
    BY <2>1, <2>3 DEF Machine
  <2> HIDE DEF n
  <2>7. n.db[s] = stored /\ \A t \in Slots : t # s => n.db[t] = m.db[t]
    BY <2>1, <2>2, <2>6 DEF Still, Machine
  <2>8. /\ n.slots = m.slots /\ n.deliveries = m.deliveries
        /\ n.replies = Append(m.replies, reply) /\ m.hist.skewed \subseteq n.hist.skewed
        /\ s \notin n.hist.skewed => ~Writer(m.replies, m.deliveries, s)
    BY <2>2, <2>6 DEF Still
  <2> QED BY <1>3, <2>4, <2>5, <2>7, <2>8, RowRequest DEF n
<1>6. m.inject \in BOOLEAN
  BY DEF Machine
<1> QED BY <1>4, <1>5, <1>6

LEMMA NormalizedStill ==
    ASSUME NEW m \in Machine, NEW who \in Callers, now \in Times
    PROVE  Still(m, Normalized(m, who))
<1>1. CASE who = "refresh"
  BY <1>1, ArmStill DEF Normalized
<1>2. CASE who = "start"
  <2> DEFINE a == Arm(m)
             s == [a.sch EXCEPT !.subscribed = TRUE]
  <2>1. a \in Machine /\ Still(m, a)
    BY ArmStill, ArmStep DEF Quiet
  <2>2. Normalized(m, who) = [a EXCEPT !.sch.subscribed = TRUE]
    BY <1>2 DEF Normalized
  <2> HIDE DEF a
  <2>3. [a EXCEPT !.sch.subscribed = TRUE] = [a EXCEPT !.sch = s]
    BY <2>1 DEF Machine, Scheduler
  <2> HIDE DEF s
  <2> QED BY <2>1, <2>2, <2>3, SchStill, StillAgain
<1>3. CASE who \in {"resume", "finish"}
  <2> DEFINE s == [m.sch EXCEPT !.running = FALSE]
             b == [m EXCEPT !.sch = s]
  <2>1. s \in Scheduler
    BY DEF Machine, Scheduler
  <2>2. [m EXCEPT !.sch.running = FALSE] = b
    BY DEF Machine, Scheduler
  <2>3. Normalized(m, who) = Arm(b)
    BY <1>3, <2>2 DEF Normalized
  <2> HIDE DEF s
  <2>4. b \in Machine /\ Still(m, b)
    BY <2>1, SchSet, SchStill
  <2> HIDE DEF b
  <2> QED BY <2>3, <2>4, ArmStill, StillAgain
<1> QED BY <1>1, <1>2, <1>3 DEF Callers

LEMMA NormalizeMirrors ==
    ASSUME NEW m \in Machine, NEW pass \in Pass, now \in Times, Mirrored(m)
    PROVE  Mirrored(Normalize(m, pass))
<1> DEFINE n == Normalize(m, pass)
<1>1. pass.who \in Callers /\ pass.at \in Nat /\ pass.rest \in SUBSET Held
  BY DEF Pass
<1>2. CASE pass.rest = {}
  BY <1>1, <1>2, NormalizedStill, StillMirrored DEF Normalize
<1>3. CASE pass.rest # {}
  <2> DEFINE row == First(pass.rest)
             next == NextFor(row, pass.at)
             later == [pass EXCEPT !.rest = @ \ {row}]
             asked == [kind |-> "miss", row |-> row, next |-> next, ok |-> "yes",
                       pass |-> later]
  <2>1. row \in Held /\ next \in Nat
    BY <1>1, <1>3, FirstTaken, NextForTyped
  <2>2. later \in Pass
    BY DEF Pass
  <2>3. n = IF row.due = NoDue THEN Fill(m, row.slot, next, later)
            ELSE Claim(m, asked, "missed")
    BY <1>3 DEF Normalize
  <2>4. CASE row.due = NoDue
    <3>1. row.slot \in Slots
      BY <2>1 DEF Held
    <3>2. n = Fill(m, row.slot, next, later)
      BY <2>3, <2>4
    <3> HIDE DEF n, row, next, later
    <3> QED BY <2>1, <2>2, <3>1, <3>2, FillMirrors DEF n
  <2>5. CASE row.due # NoDue
    <3>1. n = Claim(m, asked, "missed")
      BY <2>3, <2>5
    <3> HIDE DEF n, row, next, later
    <3>2. asked \in PassReply /\ asked.kind = "miss" /\ asked.ok = "yes"
      BY <2>1, <2>2 DEF PassReply, Answers, Due
    <3>3. "missed" \in Fates
      BY DEF Fates
    <3> HIDE DEF asked
    <3> QED BY <3>1, <3>2, <3>3, ClaimMirrors DEF n
  <2> QED BY <2>4, <2>5
<1> QED BY <1>2, <1>3

LEMMA ReconcileMirrors ==
    ASSUME NEW m \in Machine, NEW who \in Callers, NEW mode, now \in Times, Mirrored(m)
    PROVE  Mirrored(Reconcile(m, who, mode))
<1> DEFINE n == Reconcile(m, who, mode)
           pass == [who |-> who, at |-> now, rest |-> Todo(m, mode)]
<1>1. Todo(m, mode) \subseteq Held
  <2>1. \A s \in On(m) : Hold(m, s) \in Held
    BY HoldTyped DEF On
  <2> QED BY <2>1 DEF Todo
<1>2. pass \in Pass
  BY <1>1 DEF Pass, Times
<1>3. n = Normalize(m, pass)
  BY DEF Reconcile
<1> HIDE DEF n, pass
<1> QED BY <1>2, <1>3, NormalizeMirrors DEF n

(* refresh(): while a run is under way it only arms.                       *)
LEMMA RefreshMirrors ==
    ASSUME NEW m \in Machine, now \in Times
    PROVE  /\ Mirrored(m) => Mirrored(Refresh(m))
           /\ m.sch.running => Still(m, Refresh(m))
<1> DEFINE n == Refresh(m)
           justEnabled == m.master /\ ~m.sch.lastEnabled
           s == [m.sch EXCEPT !.lastEnabled = m.master]
           t == [s EXCEPT !.reconcilePending = @ \/ justEnabled]
           noted == [m EXCEPT !.sch = s]
           later == [m EXCEPT !.sch = t]
           mode == IF justEnabled THEN "skip-missed" ELSE "fill-null"
<1>1. s \in Scheduler /\ t \in Scheduler
  BY DEF Machine, Scheduler
<1>2. [m EXCEPT !.sch.lastEnabled = m.master] = noted
  BY DEF Machine, Scheduler
<1>3. [noted EXCEPT !.sch.reconcilePending = @ \/ justEnabled] = later
  BY DEF Machine, Scheduler
<1>4. n = IF m.master /\ ~m.sch.running THEN Reconcile(noted, "refresh", mode)
          ELSE Arm(later)
  BY <1>2, <1>3 DEF Refresh
<1>5. noted = [m EXCEPT !.sch = s] /\ later = [m EXCEPT !.sch = t]
  OBVIOUS
<1> HIDE DEF n, s, t, noted, later, mode, justEnabled
<1>6. noted \in Machine /\ later \in Machine /\ Still(m, noted) /\ Still(m, later)
  BY <1>1, <1>5, SchSet, SchStill
<1>7. Still(m, Arm(later))
  BY <1>6, ArmStill, StillAgain
<1>8. Mirrored(m) => Mirrored(Reconcile(noted, "refresh", mode))
  BY <1>6, StillMirrored, ReconcileMirrors DEF Callers
<1>9. Mirrored(m) => Mirrored(n)
  BY <1>4, <1>7, <1>8, StillMirrored
<1>10. m.sch.running => Still(m, n)
  BY <1>4, <1>7
<1> QED BY <1>9, <1>10 DEF n

LEMMA ChangedMirrors ==
    ASSUME NEW m \in Machine, now \in Times
    PROVE  /\ Mirrored(m) => Mirrored(Changed(m))
           /\ m.sch.running => Still(m, Changed(m))
  BY RefreshMirrors DEF Changed, Still

(* applyRuntimeState(), seen from the copy it leaves.                      *)
Put(m, s, due) == [m EXCEPT !.slots = [m.slots EXCEPT ![s] = Written(m.slots[s], due)]]

LEMMA PutTyped ==
    ASSUME NEW m \in Machine, NEW s \in Slots, NEW due \in Nat
    PROVE  LET n == Put(m, s, due)
           IN  /\ n \in Machine /\ n.sch = m.sch /\ n.db = m.db
               /\ n.replies = m.replies /\ n.deliveries = m.deliveries /\ n.hist = m.hist
               /\ n.slots[s] = Written(m.slots[s], due)
               /\ \A t \in Slots : t # s => n.slots[t] = m.slots[t]
<1> DEFINE f == [m.slots EXCEPT ![s] = Written(m.slots[s], due)]
           n == Put(m, s, due)
<1>1. m.slots \in [Slots -> Row] /\ m.slots[s] \in Row
  BY DEF Machine
<1>2. Written(m.slots[s], due) \in Row
  BY <1>1 DEF Written, Row, Due
<1>3. /\ f \in [Slots -> Row] /\ f[s] = Written(m.slots[s], due)
      /\ \A t \in Slots : t # s => f[t] = m.slots[t]
  BY <1>1, <1>2
<1>4. n = [m EXCEPT !.slots = f]
  BY DEF Put
<1> HIDE DEF f, n
<1>5. n \in Machine /\ n.slots = f /\ n.sch = m.sch /\ n.db = m.db
      /\ n.replies = m.replies /\ n.deliveries = m.deliveries
  BY <1>3, <1>4, SlotsSet
<1>6. n.hist = m.hist
  BY <1>4 DEF Machine
<1> QED BY <1>3, <1>5, <1>6 DEF n

LEMMA ApplyMirrors ==
    ASSUME NEW m \in Machine, NEW s \in Slots, NEW due \in Nat, now \in Times
    PROVE  /\ Mirrored(Put(m, s, due)) => Mirrored(Apply(m, s, due))
           /\ m.sch.running => Still(Put(m, s, due), Apply(m, s, due))
<1> DEFINE n == Put(m, s, due)
<1>1. n \in Machine /\ n.sch = m.sch
  BY PutTyped
<1>2. CASE m.slots[s].here
  <2>1. [m EXCEPT !.slots[s].due = due] = n
    BY <1>2 DEF Put, Written, Machine
  <2>2. Apply(m, s, due) = Changed(n)
    BY <1>2, <2>1 DEF Apply
  <2> HIDE DEF n
  <2> QED BY <1>1, <2>2, ChangedMirrors DEF n
<1>3. CASE ~m.slots[s].here
  <2>1. [m.slots EXCEPT ![s] = Written(m.slots[s], due)] = m.slots
    BY <1>3 DEF Written, Machine
  <2>2. n = m
    BY <2>1 DEF Put, Machine
  <2> QED BY <1>3, <2>2 DEF Apply, Still
<1> QED BY <1>2, <1>3

LEMMA FireMirrors ==
    ASSUME NEW m \in Machine, NEW run \in Run, Fireable(m, run) # {}, now \in Times,
           Mirrored(m)
    PROVE  Mirrored(Fire(m, run))
<1> DEFINE n == Fire(m, run)
           due == Fireable(m, run)
           slot == CHOOSE s \in due : \A t \in due : Before(m, s, t)
           row == Hold(m, slot)
           s == [m.sch EXCEPT !.running = TRUE]
           b == [m EXCEPT !.sch = s]
           asked == [kind |-> "fire", row |-> row, next |-> NextDue(row.rule, now),
                     ok |-> "yes",
                     run |-> [run EXCEPT !.attempted = @ \cup {<<slot, row.due>>}]]
<1>1. slot \in Slots
  BY FireableFirst
<1>2. n = Claim([m EXCEPT !.sch.running = TRUE], asked, "fired")
  BY DEF Fire
<1>3. [m EXCEPT !.sch.running = TRUE] = b
  BY DEF Machine, Scheduler
<1>4. s \in Scheduler
  BY DEF Machine, Scheduler
<1>5. b = [m EXCEPT !.sch = s]
  OBVIOUS
<1>6. asked \in RunReply /\ asked.kind = "fire" /\ asked.ok = "yes"
  <2> HIDE DEF slot, b, s
  <2>1. row \in Held
    BY <1>1, HoldTyped
  <2> HIDE DEF row
  <2>2. row.rule \in Rules /\ row.due \in Due
    BY <2>1 DEF Held
  <2>3. NextDue(row.rule, now) \in Nat
    BY <2>2, NextDueLater DEF Times
  <2>4. [run EXCEPT !.attempted = @ \cup {<<slot, row.due>>}] \in Run
    BY <1>1, <2>2 DEF Run
  <2> QED BY <2>1, <2>3, <2>4 DEF RunReply, Answers, Due
<1> HIDE DEF n, b, s, asked, slot
<1>7. b \in Machine /\ Mirrored(b)
  BY <1>4, <1>5, SchSet, SchStill, StillMirrored
<1>8. "fired" \in Fates
  BY DEF Fates
<1>9. n = Claim(b, asked, "fired")
  BY <1>2, <1>3
<1>10. asked \in RunReply \cup PassReply
  BY <1>6
<1> QED BY <1>6, <1>7, <1>8, <1>9, <1>10, ClaimMirrors DEF n

LEMMA FinishMirrors ==
    ASSUME NEW m \in Machine, now \in Times, Mirrored(m)
    PROVE  Mirrored(FinishRun(m))
<1> DEFINE n == FinishRun(m)
           s == [m.sch EXCEPT !.running = FALSE, !.reconcilePending = FALSE,
                              !.tickPending = FALSE]
           t == [s EXCEPT !.running = TRUE]
           done == [m EXCEPT !.sch = s]
           again == [m EXCEPT !.sch = t]
<1>1. s \in Scheduler /\ t \in Scheduler /\ s.epoch = m.sch.epoch
  BY DEF Machine, Scheduler
<1>2. [m EXCEPT !.sch.running = FALSE, !.sch.reconcilePending = FALSE,
                !.sch.tickPending = FALSE] = done
  BY DEF Machine, Scheduler
<1>3. [done EXCEPT !.sch.running = TRUE] = again
  BY DEF Machine, Scheduler
<1>4. n = IF m.sch.reconcilePending THEN Reconcile(again, "finish", "skip-missed")
          ELSE IF m.sch.tickPending /\ m.sch.started /\ Fireable(m, NewRun(m)) # {}
          THEN Fire(Arm(done), NewRun(m))
          ELSE Arm(done)
  <2> DEFINE d == [m EXCEPT !.sch.running = FALSE, !.sch.reconcilePending = FALSE,
                            !.sch.tickPending = FALSE]
  <2>1. n = IF m.sch.reconcilePending
            THEN Reconcile([d EXCEPT !.sch.running = TRUE], "finish", "skip-missed")
            ELSE IF m.sch.tickPending /\ m.sch.started /\ Fireable(m, NewRun(m)) # {}
            THEN Fire(Arm(d), NewRun(m))
            ELSE Arm(d)
    BY DEF FinishRun
  <2>2. d = done
    BY <1>2
  <2> HIDE DEF d, done, again, n
  <2> QED BY <1>3, <2>1, <2>2
<1>5. done = [m EXCEPT !.sch = s] /\ again = [m EXCEPT !.sch = t]
  OBVIOUS
<1> HIDE DEF n, s, t, done, again
<1>6. /\ done \in Machine /\ done.sch = s /\ done.slots = m.slots
      /\ done.master = m.master /\ again \in Machine
  BY <1>1, <1>5, SchSet
<1>7. Mirrored(done) /\ Mirrored(again)
  BY <1>5, SchStill, StillMirrored
<1> DEFINE a == Arm(done)
<1>8. Quiet(done, a) /\ a \in Machine /\ Mirrored(a)
  BY <1>6, <1>7, ArmStep, ArmStill, StillMirrored DEF Quiet
<1>9. CASE m.sch.reconcilePending
  BY <1>4, <1>6, <1>7, <1>9, ReconcileMirrors DEF Callers, n
<1>10. CASE /\ ~m.sch.reconcilePending
            /\ m.sch.tickPending /\ m.sch.started /\ Fireable(m, NewRun(m)) # {}
  <2>1. n = Fire(a, NewRun(m))
    BY <1>4, <1>10
  <2>2. Fireable(a, NewRun(m)) # {}
    <3>1. a.slots = m.slots /\ a.master = m.master
      BY <1>6, <1>8 DEF Quiet
    <3>2. OverdueSlots(a) = OverdueSlots(m)
      BY <3>1 DEF OverdueSlots, Timely, On
    <3>3. a.sch.epoch = m.sch.epoch
      <4>1. a.sch.epoch = done.sch.epoch
        BY <1>6 DEF Arm, Machine, Scheduler
      <4> QED BY <1>1, <1>6, <4>1
    <3> QED BY <1>10, <3>1, <3>2, <3>3 DEF Fireable
  <2> HIDE DEF a
  <2> QED BY <1>8, <2>1, <2>2, FireMirrors, NewRunTyped DEF n
<1>11. CASE /\ ~m.sch.reconcilePending
            /\ ~(m.sch.tickPending /\ m.sch.started /\ Fireable(m, NewRun(m)) # {})
  BY <1>4, <1>8, <1>11 DEF n
<1> QED BY <1>9, <1>10, <1>11

LEMMA ContinueMirrors ==
    ASSUME NEW m \in Machine, NEW run \in Run, now \in Times, Mirrored(m)
    PROVE  Mirrored(Continue(m, run))
  BY FinishMirrors, FireMirrors DEF Continue

LEMMA TickMirrors ==
    ASSUME NEW m \in Machine, now \in Times, Mirrored(m)
    PROVE  Mirrored(Tick(m))
<1>1. Mirrored(Arm(m))
  BY ArmStill, StillMirrored
<1>2. Mirrored([m EXCEPT !.sch.tickPending = TRUE])
  <2>1. [m EXCEPT !.sch.tickPending = TRUE] = [m EXCEPT !.sch = [m.sch EXCEPT !.tickPending = TRUE]]
    BY DEF Machine, Scheduler
  <2> QED BY <2>1, SchStill, StillMirrored
<1>3. Mirrored(Continue(m, NewRun(m)))
  BY ContinueMirrors, NewRunTyped
<1> QED BY <1>1, <1>2, <1>3 DEF Tick

-----------------------------------------------------------------------------
(* Steps. What a step reaches is what the block computed.                  *)
LEMMA MirrorsHere ==
    ASSUME NEW n, Become(n), Mirrored(n)
    PROVE  MInv'
<1>1. /\ db' = n.db /\ slots' = n.slots /\ replies' = n.replies
      /\ deliveries' = n.deliveries /\ hist' = n.hist
  BY DEF Become
<1>2. Here' = [db |-> db', slots |-> slots', master |-> master', sch |-> sch',
               replies |-> replies', deliveries |-> deliveries', hist |-> hist',
               inject |-> FALSE]
  BY DEF Here
<1> DEFINE h == [db |-> db', slots |-> slots', master |-> master', sch |-> sch',
                 replies |-> replies', deliveries |-> deliveries', hist |-> hist',
                 inject |-> FALSE]
<1>3. Still(n, h)
  BY <1>1 DEF Still
<1> HIDE DEF h
<1>4. Mirrored(h)
  BY <1>3, StillMirrored
<1>5. Mirrored(Here)' <=> Mirrored(h)
  BY <1>2 DEF Mirrored, h
<1> QED BY <1>4, <1>5 DEF MInv

LEMMA InjectStill ==
    ASSUME NEW m \in Machine
    PROVE  \A x \in {m, [m EXCEPT !.inject = TRUE]} :
               Base(x, m) /\ Still(m, x) /\ x \in Machine /\ x.hist = m.hist
  BY DEF Machine, Base, Still

LEMMA ReceivedIs ==
    ASSUME TypeOK, replies # <<>>
    PROVE  /\ Received \in Machine /\ Head(replies) \in Reply /\ replies \in Seq(Reply)
           /\ Received.sch = sch /\ Received.db = db /\ Received.slots = slots
           /\ Received.deliveries = deliveries /\ Received.replies = Tail(replies)
           /\ Received.hist = hist
<1>1. Received \in Machine /\ Head(replies) \in Reply /\ replies \in Seq(Reply)
  BY ReceivedTyped DEF TypeOK
<1> QED BY <1>1 DEF Received, Here

(* A reply is taken that has no effect on any copy.                        *)
LEMMA VainReceived ==
    ASSUME TypeOK, replies # <<>>, Mirrored(Here),
           \A s \in Slots : ~Covers(Head(replies), s) /\ ~Writes(Head(replies), s)
    PROVE  Mirrored(Received)
<1>1. SUFFICES ASSUME NEW s \in Slots
               PROVE  /\ s \notin hist.skewed =>
                            Mirrors(Tail(replies), deliveries, db[s], slots[s], s)
                      /\ Rewritten(Tail(replies), db[s], s)
  BY ReceivedIs DEF Mirrored
<1>2. /\ s \notin hist.skewed => Mirrors(replies, deliveries, db[s], slots[s], s)
      /\ Rewritten(replies, db[s], s)
  BY DEF Mirrored, Here
<1> QED BY <1>2, ReceivedIs, OtherTaken, RewrittenTaken

(* The one who claimed a slot has its due time written into the copy.      *)
LEMMA WriterReceived ==
    ASSUME TypeOK, replies # <<>>, Mirrored(Here), NEW s \in Slots,
           Writes(Head(replies), s), Head(replies).next \in Nat,
           NEW x \in Machine, Still(Received, x)
    PROVE  LET r == Head(replies)
               n == Put(x, s, r.next)
           IN  /\ n \in Machine /\ n.sch = x.sch /\ Mirrored(n)
               /\ s \notin hist.skewed => r.next = db[s].due \/ ~db[s].here
<1> DEFINE r == Head(replies)
           n == Put(x, s, r.next)
<1>1. /\ replies \in Seq(Reply) /\ db[s] \in Row /\ slots[s] \in Row
  BY DEF TypeOK
<1>2. /\ x.db = db /\ x.slots = slots /\ x.replies = Tail(replies)
      /\ x.deliveries = deliveries /\ hist.skewed \subseteq x.hist.skewed
  BY ReceivedIs DEF Still
<1>3. /\ n \in Machine /\ n.sch = x.sch /\ n.db = db
      /\ n.replies = Tail(replies) /\ n.deliveries = deliveries /\ n.hist = x.hist
      /\ n.slots[s] = Written(slots[s], r.next)
      /\ \A t \in Slots : t # s => n.slots[t] = slots[t]
  BY <1>2, PutTyped, ZenonT(120)
<1> HIDE DEF n
<1>4. \A t \in Slots : /\ t \notin hist.skewed =>
                            Mirrors(replies, deliveries, db[t], slots[t], t)
                       /\ Rewritten(replies, db[t], t)
  BY DEF Mirrored, Here
<1>5. \A t \in Slots : t # s => ~Covers(r, t) /\ ~Writes(r, t)
  BY DEF Writes, Claims, Covers
<1>6. s \notin hist.skewed => r.next = db[s].due \/ ~db[s].here
  BY <1>1, <1>4, WriterTaken
<1>7. ASSUME NEW t \in Slots
      PROVE  /\ t \notin n.hist.skewed =>
                    Mirrors(n.replies, n.deliveries, n.db[t], n.slots[t], t)
             /\ Rewritten(n.replies, n.db[t], t)
  <2>1. Rewritten(n.replies, n.db[t], t)
    BY <1>1, <1>3, <1>4, RewrittenTaken
  <2>2. ASSUME t \notin n.hist.skewed
        PROVE  Mirrors(n.replies, n.deliveries, n.db[t], n.slots[t], t)
    <3>1. Mirrors(replies, deliveries, db[t], slots[t], t)
      BY <1>2, <1>3, <1>4, <2>2
    <3>2. CASE t = s
      <4>1. Mirrors(Tail(replies), deliveries, db[s], Written(slots[s], r.next), s)
        BY <1>1, <3>1, <3>2, WriterTaken
      <4> QED BY <1>3, <3>2, <4>1
    <3>3. CASE t # s
      <4>1. Mirrors(Tail(replies), deliveries, db[t], slots[t], t)
        BY <1>1, <1>5, <3>1, <3>3, OtherTaken
      <4> QED BY <1>3, <3>3, <4>1
    <3> QED BY <3>2, <3>3
  <2> QED BY <2>1, <2>2
<1>8. Mirrored(n)
  BY <1>7 DEF Mirrored
<1> QED BY <1>3, <1>6, <1>8 DEF n

LEMMA FireClaimedMirrors ==
    ASSUME SInv, MInv, FireClaimed
    PROVE  MInv'
<1> DEFINE r == Head(replies)
           s == r.row.slot
           d == [row |-> r.row, next |-> r.next, run |-> r.run]
           Op(m) == [Apply(m, r.row.slot, r.next) EXCEPT !.deliveries = @ \cup {d}]
<1>1. replies # <<>> /\ r.kind = "fire" /\ r.ok = "yes" /\ InRun(r) /\ TypeOK /\ Mirrored(Here)
  BY DEF FireClaimed, Answer, InRun, SInv, MInv, Running
<1>2. Received \in Machine /\ r \in RunReply /\ Received.sch.running = TRUE /\ now \in Times
  BY <1>1, ReceivedTyped, RunReceived, ReplyParts DEF TypeOK
<1>3. s \in Slots /\ r.next \in Nat /\ Writes(r, s)
  BY <1>1, <1>2 DEF RunReply, Held, Due, Writes, Claims
<1>4. \E x \in {Received, [Received EXCEPT !.inject = TRUE]} : Become(Op(x))
  BY DEF FireClaimed, Does
<1>5. PICK x \in Machine : Base(x, Received) /\ Still(Received, x) /\ Become(Op(x))
  BY <1>2, <1>4, InjectStill
<1> DEFINE p == Put(x, s, r.next)
           a == Apply(x, s, r.next)
           n == Op(x)
<1>6. /\ p \in Machine /\ Mirrored(p)
      /\ s \notin hist.skewed => r.next = db[s].due \/ ~db[s].here
  BY <1>1, <1>3, <1>5, WriterReceived
<1>7. Still(p, a)
  <2>1. x.sch.running
    BY <1>2, <1>5 DEF Base
  <2> QED BY <1>2, <1>3, <2>1, ApplyMirrors
<1>8. a \in Machine
  BY <1>2, <1>3, ApplyStep DEF Aside, Carries
<1>9. Still(Received, a) \/ (a.db = db /\ hist.skewed \subseteq a.hist.skewed)
  <2>1. p.db = x.db /\ p.hist = x.hist
    BY <1>3, PutTyped, SMTT(30)
  <2>2. x.db = db /\ hist.skewed \subseteq x.hist.skewed
    BY <1>1, <1>5, ReceivedIs, SMTT(30) DEF Still
  <2> HIDE DEF p, a
  <2> QED BY <1>7, <2>1, <2>2 DEF Still
<1>10. a.db = db /\ hist.skewed \subseteq a.hist.skewed
  BY <1>1, <1>9, ReceivedIs DEF Still
<1>11. Mirrored(a)
  BY <1>6, <1>7, StillMirrored
<1>12. n = [a EXCEPT !.deliveries = @ \cup {d}] /\ Become(n)
  BY <1>5
<1>13. d.row.slot = s /\ d.next = r.next
  OBVIOUS
<1> HIDE DEF p, a, n, d
<1>14. /\ n.db = a.db /\ n.slots = a.slots /\ n.replies = a.replies /\ n.hist = a.hist
       /\ n.deliveries = a.deliveries \cup {d}
  BY <1>8, <1>12 DEF Machine
<1>15. ASSUME NEW t \in Slots, t \notin n.hist.skewed
       PROVE  Mirrors(n.replies, n.deliveries, n.db[t], n.slots[t], t)
  <2>1. Mirrors(a.replies, a.deliveries, a.db[t], a.slots[t], t)
    BY <1>11, <1>14, <1>15 DEF Mirrored
  <2>2. d.row.slot = t => d.next = a.db[t].due \/ ~a.db[t].here
    BY <1>6, <1>10, <1>13, <1>14, <1>15
  <2> DEFINE q == a.replies
             ds == a.deliveries
             row == a.db[t]
             copy == a.slots[t]
  <2>3. d.row.slot = t => d.next = row.due \/ ~row.here
    BY <2>2
  <2>4. Mirrors(q, ds, row, copy, t)
    BY <2>1
  <2> HIDE DEF q, ds, row, copy
  <2>5. Mirrors(q, ds \cup {d}, row, copy, t)
    BY <2>3, <2>4, DeliveryBegun
  <2> QED BY <1>14, <2>5 DEF q, ds, row, copy
<1>16. \A t \in Slots : Rewritten(n.replies, n.db[t], t)
  BY <1>11, <1>14 DEF Mirrored
<1>17. Mirrored(n)
  BY <1>15, <1>16 DEF Mirrored
<1> QED BY <1>12, <1>17, MirrorsHere

LEMMA FireRefusedMirrors ==
    ASSUME SInv, MInv, FireRefused
    PROVE  MInv'
<1> DEFINE r == Head(replies)
           Op(m) == Continue(m, r.run)
<1>1. replies # <<>> /\ r.kind = "fire" /\ r.ok # "yes" /\ TypeOK /\ Mirrored(Here)
  BY DEF FireRefused, Answer, SInv, MInv, Running
<1>2. Received \in Machine /\ r \in RunReply /\ now \in Times
  BY <1>1, ReceivedTyped, ReplyParts DEF TypeOK
<1>3. r.run \in Run
  BY <1>2 DEF RunReply
<1>4. \E x \in {Received, [Received EXCEPT !.inject = TRUE]} : Become(Op(x))
  BY DEF FireRefused, Does
<1>5. PICK x \in Machine : Still(Received, x) /\ Become(Op(x))
  BY <1>2, <1>4, InjectStill
<1>6. \A t \in Slots : ~Covers(r, t) /\ ~Writes(r, t)
  BY <1>1 DEF Covers, Writes, Claims
<1>7. Mirrored(x)
  BY <1>1, <1>5, <1>6, VainReceived, StillMirrored
<1>8. Mirrored(Op(x))
  BY <1>2, <1>3, <1>7, ContinueMirrors
<1> QED BY <1>5, <1>8, MirrorsHere

LEMMA RecordedMirrors ==
    ASSUME SInv, MInv, Recorded
    PROVE  MInv'
<1> DEFINE r == Head(replies)
           s == r.row.slot
           a(m) == Apply(m, r.row.slot, r.next)
           Op(m) == IF r.run.sendNow THEN FinishRun(a(m)) ELSE Continue(a(m), r.run)
<1>1. replies # <<>> /\ r.kind = "sent" /\ TypeOK /\ Mirrored(Here)
  BY DEF Recorded, Answer, SInv, MInv, Running
<1>2. Received \in Machine /\ r \in RunReply /\ now \in Times
  BY <1>1, ReceivedTyped, ReplyParts DEF TypeOK
<1>3. r.run \in Run /\ s \in Slots /\ r.next \in Nat /\ Writes(r, s)
  BY <1>1, <1>2 DEF RunReply, Held, Due, Writes
<1>4. \E x \in {Received, [Received EXCEPT !.inject = TRUE]} : Become(Op(x))
  BY DEF Recorded, Does
<1>5. PICK x \in Machine : Still(Received, x) /\ Become(Op(x))
  BY <1>2, <1>4, InjectStill
<1> DEFINE b == a(x)
<1>6. Mirrored(Put(x, s, r.next))
  BY <1>1, <1>3, <1>5, WriterReceived
<1>7. b \in Machine /\ Mirrored(b)
  BY <1>2, <1>3, <1>6, ApplyStep, ApplyMirrors DEF Aside, Carries
<1>8. Op(x) = IF r.run.sendNow THEN FinishRun(b) ELSE Continue(b, r.run)
  OBVIOUS
<1> HIDE DEF a, b
<1>9. Mirrored(Op(x))
  BY <1>2, <1>3, <1>7, <1>8, FinishMirrors, ContinueMirrors
<1> QED BY <1>5, <1>9, MirrorsHere

LEMMA DeliveredMirrors ==
    ASSUME SInv, MInv, Delivered
    PROVE  MInv'
<1>1. TypeOK /\ Mirrored(Here) /\ Here \in Machine
  BY HereTyped DEF Delivered, SInv, MInv, Running
<1> DEFINE reply(d) == [kind |-> "sent", row |-> d.row, next |-> d.next,
                        ok |-> "yes", run |-> d.run]
           Op(d, m) == IF m.inject THEN Rejected(m, reply(d)) ELSE Send(m, reply(d))
           from(d) == [Here EXCEPT !.deliveries = @ \ {d}]
<1>2. PICK d \in deliveries :
          \E x \in {from(d), [from(d) EXCEPT !.inject = TRUE]} : Become(Op(d, x))
  BY DEF Delivered, Does
<1> DEFINE y == reply(d)
           f == [y EXCEPT !.ok = "failed"]
<1>3. d \in Delivery
  BY <1>1, <1>2 DEF TypeOK
<1>4. y \in Reply /\ f \in Reply
  <2>1. y \in RunReply /\ f \in RunReply
    BY <1>3 DEF Delivery, RunReply, Answers
  <2> QED BY <2>1 DEF Reply
<1>5. /\ from(d) \in Machine /\ from(d).db = db /\ from(d).slots = slots
      /\ from(d).replies = replies /\ from(d).hist = hist
      /\ from(d).deliveries = deliveries \ {d}
  BY <1>1 DEF Machine, Here
<1>6. /\ y.row = d.row /\ y.next = d.next /\ y.kind = "sent"
      /\ f.row = d.row /\ f.next = d.next /\ f.kind = "sent"
  OBVIOUS
<1> HIDE DEF from
<1>7. PICK x \in Machine : Still(from(d), x) /\ Become(Op(d, x))
  BY <1>2, <1>5, InjectStill
<1> DEFINE n == Op(d, x)
<1>8. n = IF x.inject THEN [x EXCEPT !.replies = Append(@, f), !.inject = FALSE]
          ELSE [x EXCEPT !.replies = Append(@, y)]
  BY DEF Rejected, Send
<1>9. Become(n)
  BY <1>7
<1> HIDE DEF n, y, f, reply
<1>10. PICK z \in {y, f} :
           /\ n.db = x.db /\ n.slots = x.slots /\ n.deliveries = x.deliveries
           /\ n.replies = Append(x.replies, z) /\ n.hist = x.hist
  BY <1>8 DEF Machine
<1>11. /\ z \in Reply /\ z.row = d.row /\ z.next = d.next /\ z.kind = "sent"
  BY <1>4, <1>6
<1>12. /\ n.db = db /\ n.slots = slots /\ n.deliveries = deliveries \ {d}
       /\ n.replies = Append(replies, z) /\ hist.skewed \subseteq n.hist.skewed
  BY <1>5, <1>7, <1>10 DEF Still
<1>13. replies \in Seq(Reply)
  BY <1>1 DEF TypeOK
<1>14. \A t \in Slots : ~Covers(z, t) /\ ~Claims(z, t) /\ (Writes(z, t) <=> d.row.slot = t)
  BY <1>11 DEF Covers, Claims, Writes
<1>15. ASSUME NEW t \in Slots
       PROVE  /\ t \notin n.hist.skewed =>
                     Mirrors(n.replies, n.deliveries, n.db[t], n.slots[t], t)
              /\ Rewritten(n.replies, n.db[t], t)
  <2>1. /\ t \notin hist.skewed => Mirrors(replies, deliveries, db[t], slots[t], t)
        /\ Rewritten(replies, db[t], t)
    BY <1>1 DEF Mirrored, Here
  <2>2. Rewritten(n.replies, n.db[t], t)
    BY <1>11, <1>12, <1>13, <1>14, <2>1, RewrittenSent
  <2>3. ASSUME t \notin n.hist.skewed
        PROVE  Mirrors(n.replies, n.deliveries, n.db[t], n.slots[t], t)
    <3>1. Mirrors(replies, deliveries, db[t], slots[t], t)
      BY <1>12, <2>1, <2>3
    <3>2. CASE d.row.slot = t
      <4>1. z.next = db[t].due \/ ~db[t].here
        BY <1>2, <1>11, <3>1, <3>2 DEF Mirrors
      <4>2. Mirrors(Append(replies, z), deliveries \ {d}, db[t], slots[t], t)
        BY <1>11, <1>13, <1>14, <3>1, <3>2, <4>1, WriterSent
      <4> QED BY <1>12, <4>2
    <3>3. CASE d.row.slot # t
      <4>1. \A e : e.row.slot = t => (e \in deliveries <=> e \in deliveries \ {d})
        BY <3>3
      <4>2. Mirrors(Append(replies, z), deliveries \ {d}, db[t], slots[t], t)
        BY <1>11, <1>13, <1>14, <3>1, <3>3, <4>1, OtherSent
      <4> QED BY <1>12, <4>2
    <3> QED BY <3>2, <3>3
  <2> QED BY <2>2, <2>3
<1>16. Mirrored(n)
  BY <1>15 DEF Mirrored
<1> QED BY <1>9, <1>16, MirrorsHere

LEMMA MissClaimedMirrors ==
    ASSUME SInv, MInv, MissClaimed
    PROVE  MInv'
<1> DEFINE r == Head(replies)
           y == [r EXCEPT !.kind = "missed"]
           f == [y EXCEPT !.ok = "failed"]
           Op(m) == IF m.inject THEN Rejected(m, y) ELSE Send(m, y)
<1>1. replies # <<>> /\ r.kind = "miss" /\ r.ok = "yes" /\ TypeOK /\ Mirrored(Here)
  BY DEF MissClaimed, Answer, SInv, MInv, Running
<1>2. Received \in Machine /\ r \in PassReply /\ replies \in Seq(Reply)
  BY <1>1, ReceivedTyped, ReplyParts DEF TypeOK
<1>3. \E x \in {Received, [Received EXCEPT !.inject = TRUE]} : Become(Op(x))
  BY DEF MissClaimed, Does
<1>4. PICK x \in Machine : Still(Received, x) /\ Become(Op(x))
  BY <1>2, <1>3, InjectStill
<1>5. /\ y \in PassReply /\ f \in PassReply
      /\ y.kind = "missed" /\ f.kind = "missed"
      /\ y.row = r.row /\ f.row = r.row /\ y.next = r.next /\ f.next = r.next
  BY <1>2 DEF PassReply, Answers
<1> DEFINE n == Op(x)
<1>6. n = IF x.inject THEN [x EXCEPT !.replies = Append(@, f), !.inject = FALSE]
          ELSE [x EXCEPT !.replies = Append(@, y)]
  BY DEF Rejected, Send
<1>7. Become(n)
  BY <1>4
<1> HIDE DEF n, y, f
<1>8. PICK z \in {y, f} :
          /\ n.db = x.db /\ n.slots = x.slots /\ n.deliveries = x.deliveries
          /\ n.replies = Append(x.replies, z) /\ n.hist = x.hist
  BY <1>6 DEF Machine
<1>9. z \in Reply /\ z.row = r.row /\ z.next = r.next /\ z.kind = "missed"
  BY <1>5 DEF Reply
<1>10. /\ n.db = db /\ n.slots = slots /\ n.deliveries = deliveries
       /\ n.replies = Append(Tail(replies), z) /\ hist.skewed \subseteq n.hist.skewed
  BY <1>1, <1>4, <1>8, ReceivedIs DEF Still
<1>11. \A t \in Slots : /\ ~Covers(z, t) /\ ~Covers(r, t) /\ ~Claims(z, t)
                        /\ (Writes(z, t) <=> r.row.slot = t)
                        /\ (Writes(r, t) <=> r.row.slot = t)
  BY <1>1, <1>9 DEF Covers, Claims, Writes
<1>12. Tail(replies) \in Seq(Reply)
  BY <1>1, <1>2, Taken
<1>13. ASSUME NEW t \in Slots
       PROVE  /\ t \notin n.hist.skewed =>
                     Mirrors(n.replies, n.deliveries, n.db[t], n.slots[t], t)
              /\ Rewritten(n.replies, n.db[t], t)
  <2>1. /\ t \notin hist.skewed => Mirrors(replies, deliveries, db[t], slots[t], t)
        /\ Rewritten(replies, db[t], t)
    BY <1>1 DEF Mirrored, Here
  <2>2. Rewritten(n.replies, n.db[t], t)
    <3>1. Rewritten(Tail(replies), db[t], t)
      BY <1>1, <1>2, <2>1, RewrittenTaken
    <3> QED BY <1>9, <1>10, <1>11, <1>12, <3>1, RewrittenSent
  <2>3. ASSUME t \notin n.hist.skewed
        PROVE  Mirrors(n.replies, n.deliveries, n.db[t], n.slots[t], t)
    <3>1. Mirrors(replies, deliveries, db[t], slots[t], t)
      BY <1>10, <2>1, <2>3
    <3>2. CASE r.row.slot = t
      BY <1>1, <1>2, <1>9, <1>10, <1>11, <3>1, <3>2, WriterGoesOn
    <3>3. CASE r.row.slot # t
      <4>1. Mirrors(Tail(replies), deliveries, db[t], slots[t], t)
        BY <1>1, <1>2, <1>11, <3>1, <3>3, OtherTaken
      <4> QED BY <1>9, <1>10, <1>11, <1>12, <3>3, <4>1, OtherSent
    <3> QED BY <3>2, <3>3
  <2> QED BY <2>2, <2>3
<1>14. Mirrored(n)
  BY <1>13 DEF Mirrored
<1> QED BY <1>7, <1>14, MirrorsHere

LEMMA MissRefusedMirrors ==
    ASSUME SInv, MInv, MissRefused
    PROVE  MInv'
<1> DEFINE r == Head(replies)
           skip == IF r.ok = "no" THEN Received.hist.skip
                   ELSE {k \in Received.hist.skip : k[1] # r.row.slot}
           h == [Received.hist EXCEPT !.skip = skip]
           from == [Received EXCEPT !.hist = h]
           Op(m) == Normalize(m, r.pass)
<1>1. replies # <<>> /\ r.kind = "miss" /\ r.ok # "yes" /\ TypeOK /\ Mirrored(Here)
  BY DEF MissRefused, Answer, SInv, MInv, Running
<1>2. Received \in Machine /\ r \in PassReply /\ now \in Times
  BY <1>1, ReceivedTyped, ReplyParts DEF TypeOK
<1>3. [Received EXCEPT !.hist.skip = IF r.ok = "no" THEN @
                                     ELSE {k \in @ : k[1] # r.row.slot}] = from
  BY <1>2 DEF Machine, History
<1>4. \E x \in {from, [from EXCEPT !.inject = TRUE]} : Become(Op(x))
  BY <1>3 DEF MissRefused, Does
<1>5. h \in History /\ h.skewed = Received.hist.skewed /\ h.fate = Received.hist.fate
  BY <1>2 DEF Machine, History
<1>6. from = [Received EXCEPT !.hist = h]
  OBVIOUS
<1> HIDE DEF h, from
<1>7. from \in Machine /\ Still(Received, from)
  BY <1>2, <1>5, <1>6 DEF Machine, Still
<1>8. PICK x \in Machine : Still(from, x) /\ Become(Op(x))
  BY <1>4, <1>7, InjectStill
<1>9. \A t \in Slots : ~Covers(r, t) /\ ~Writes(r, t)
  BY <1>1 DEF Covers, Writes, Claims
<1>10. Mirrored(x)
  BY <1>1, <1>7, <1>8, <1>9, VainReceived, StillMirrored
<1>11. r.pass \in Pass
  BY <1>2 DEF PassReply
<1>12. Mirrored(Op(x))
  BY <1>2, <1>10, <1>11, NormalizeMirrors
<1> QED BY <1>8, <1>12, MirrorsHere

(* A result that could not be recorded leaves its slot skewed.             *)
LEMMA MissedMirrors ==
    ASSUME SInv, MInv, Missed
    PROVE  MInv'
<1> DEFINE r == Head(replies)
           s == r.row.slot
           h(m) == [m.hist EXCEPT !.skewed = @ \cup {s}]
           got(m) == IF r.ok = "yes" THEN Apply(m, s, r.next)
                     ELSE [m EXCEPT !.hist.skewed = @ \cup {s}]
           Op(m) == Normalize(got(m), r.pass)
<1>1. replies # <<>> /\ r.kind = "missed" /\ TypeOK /\ Mirrored(Here)
  BY DEF Missed, Answer, SInv, MInv, Running
<1>2. /\ Received \in Machine /\ r \in PassReply /\ now \in Times
      /\ replies \in Seq(Reply)
  BY <1>1, ReceivedTyped, ReplyParts DEF TypeOK
<1>3. s \in Slots /\ r.next \in Nat /\ r.pass \in Pass /\ Writes(r, s)
  BY <1>1, <1>2 DEF PassReply, Held, Due, Writes
<1>4. \E x \in {Received, [Received EXCEPT !.inject = TRUE]} : Become(Op(x))
  BY DEF Missed, Does
<1>5. PICK x \in Machine : Still(Received, x) /\ Become(Op(x))
  BY <1>2, <1>4, InjectStill
<1> DEFINE g == got(x)
<1>6. g \in Machine /\ Mirrored(g)
  <2>1. CASE r.ok = "yes"
    <3>1. Mirrored(Put(x, s, r.next))
      BY <1>1, <1>3, <1>5, WriterReceived
    <3>2. g = Apply(x, s, r.next)
      BY <2>1
    <3> HIDE DEF g
    <3> QED BY <1>2, <1>3, <3>1, <3>2, ApplyStep, ApplyMirrors DEF Aside, Carries
  <2>2. CASE r.ok # "yes"
    <3> DEFINE k == h(x)
    <3>1. g = [x EXCEPT !.hist = k]
      BY <2>2 DEF Machine, History
    <3>2. k \in History /\ k.skewed = x.hist.skewed \cup {s}
      BY <1>3 DEF Machine, History
    <3> HIDE DEF g, k, got, h
    <3>3. /\ g \in Machine /\ g.db = x.db /\ g.slots = x.slots /\ g.replies = x.replies
          /\ g.deliveries = x.deliveries /\ g.hist = k
      BY <3>1, <3>2 DEF Machine
    <3>4. /\ g.db = db /\ g.slots = slots /\ g.replies = Tail(replies)
          /\ g.deliveries = deliveries /\ hist.skewed \cup {s} \subseteq g.hist.skewed
      BY <1>1, <1>5, <3>2, <3>3, ReceivedIs DEF Still
    <3>5. \A t \in Slots : t # s => ~Covers(r, t) /\ ~Writes(r, t)
      BY <1>1 DEF Covers, Writes, Claims
    <3>6. ASSUME NEW t \in Slots
          PROVE  /\ t \notin g.hist.skewed =>
                        Mirrors(g.replies, g.deliveries, g.db[t], g.slots[t], t)
                 /\ Rewritten(g.replies, g.db[t], t)
      <4>1. /\ t \notin hist.skewed => Mirrors(replies, deliveries, db[t], slots[t], t)
            /\ Rewritten(replies, db[t], t)
        BY <1>1 DEF Mirrored, Here
      <4>2. Rewritten(g.replies, g.db[t], t)
        BY <1>1, <1>2, <3>4, <4>1, RewrittenTaken
      <4>3. t \notin g.hist.skewed => t # s /\ t \notin hist.skewed
        BY <3>4
      <4>4. t \notin g.hist.skewed =>
                Mirrors(g.replies, g.deliveries, g.db[t], g.slots[t], t)
        BY <1>1, <1>2, <3>4, <3>5, <4>1, <4>3, OtherTaken
      <4> QED BY <4>2, <4>4
    <3>7. Mirrored(g)
      BY <3>6 DEF Mirrored
    <3> QED BY <3>3, <3>7 DEF g
  <2> QED BY <2>1, <2>2
<1> DEFINE n == Op(x)
<1>7. n = Normalize(g, r.pass)
  OBVIOUS
<1> HIDE DEF g, got
<1>8. Mirrored(n)
  BY <1>2, <1>3, <1>6, <1>7, NormalizeMirrors
<1> QED BY <1>5, <1>8, MirrorsHere

LEMMA FilledMirrors ==
    ASSUME SInv, MInv, Filled
    PROVE  MInv'
<1> DEFINE r == Head(replies)
           s == r.slot
           f(m) == [m.slots EXCEPT ![s] = r.stored]
           put(m) == [m EXCEPT !.slots = f(m)]
           got(m) == IF r.ok = "failed" THEN m ELSE Changed(put(m))
           Op(m) == Normalize(got(m), r.pass)
<1>1. replies # <<>> /\ r.kind = "filled" /\ TypeOK /\ Mirrored(Here)
  BY DEF Filled, Answer, SInv, MInv, Running
<1>2. /\ Received \in Machine /\ r \in FillReply /\ now \in Times
      /\ replies \in Seq(Reply)
  BY <1>1, ReceivedTyped, ReplyParts DEF TypeOK
<1>3. s \in Slots /\ r.stored \in Row /\ r.pass \in Pass
  BY <1>2 DEF FillReply
<1>4. \E x \in {Received, [Received EXCEPT !.inject = TRUE]} : Become(Op(x))
  <2>1. \E x \in {Received, [Received EXCEPT !.inject = TRUE]} :
            Become(IF r.ok = "failed" THEN Normalize(x, r.pass)
                   ELSE Normalize(Changed([x EXCEPT !.slots[r.slot] = r.stored]), r.pass))
    BY DEF Filled, Does
  <2>2. \A x \in {Received, [Received EXCEPT !.inject = TRUE]} :
            [x EXCEPT !.slots[r.slot] = r.stored] = put(x)
    OBVIOUS
  <2> QED BY <2>1, <2>2
<1>5. PICK x \in Machine : Still(Received, x) /\ Become(Op(x))
  BY <1>2, <1>4, InjectStill
<1> DEFINE g == got(x)
<1>6. g \in Machine /\ Mirrored(g)
  <2>1. CASE r.ok = "failed"
    <3>1. \A t \in Slots : ~Covers(r, t) /\ ~Writes(r, t)
      BY <1>1, <2>1 DEF Covers, Writes, Claims
    <3>2. g = x
      BY <2>1
    <3> QED BY <1>1, <1>5, <3>1, <3>2, VainReceived, StillMirrored
  <2>2. CASE r.ok # "failed"
    <3> DEFINE q == f(x)
               p == [x EXCEPT !.slots = q]
    <3>1. /\ q \in [Slots -> Row] /\ q[s] = r.stored
          /\ \A t \in Slots : t # s => q[t] = x.slots[t]
      BY <1>3 DEF Machine
    <3>2. p = [x EXCEPT !.slots = q] /\ g = Changed(p)
      BY <2>2
    <3> HIDE DEF p, q, g, got, f
    <3>3. /\ p \in Machine /\ p.db = x.db /\ p.slots = q /\ p.replies = x.replies
          /\ p.deliveries = x.deliveries /\ p.hist = x.hist
      BY <3>1, <3>2 DEF Machine
    <3>4. /\ p.db = db /\ p.slots = q /\ p.replies = Tail(replies)
          /\ p.deliveries = deliveries /\ hist.skewed \subseteq p.hist.skewed
          /\ \A t \in Slots : t # s => q[t] = slots[t]
      BY <1>1, <1>5, <3>1, <3>3, ReceivedIs DEF Still
    <3>5. Covers(r, s) /\ Brings(r) = r.stored
      BY <1>1, <2>2 DEF Covers, Brings
    <3>6. \A t \in Slots : t # s => ~Covers(r, t) /\ ~Writes(r, t)
      BY <1>1 DEF Covers, Writes, Claims
    <3>7. ASSUME NEW t \in Slots
          PROVE  /\ t \notin p.hist.skewed =>
                        Mirrors(p.replies, p.deliveries, p.db[t], p.slots[t], t)
                 /\ Rewritten(p.replies, p.db[t], t)
      <4>1. /\ t \notin hist.skewed => Mirrors(replies, deliveries, db[t], slots[t], t)
            /\ Rewritten(replies, db[t], t)
        BY <1>1 DEF Mirrored, Here
      <4>2. Rewritten(p.replies, p.db[t], t)
        BY <1>1, <1>2, <3>4, <4>1, RewrittenTaken
      <4>3. ASSUME t \notin p.hist.skewed
            PROVE  Mirrors(p.replies, p.deliveries, p.db[t], p.slots[t], t)
        <5>1. Mirrors(replies, deliveries, db[t], slots[t], t)
          BY <3>4, <4>1, <4>3
        <5>2. CASE t = s
          <6>1. Mirrors(Tail(replies), deliveries, db[s], r.stored, s)
            BY <1>1, <1>2, <3>5, <5>1, <5>2, CoverTaken
          <6> QED BY <3>1, <3>4, <5>2, <6>1
        <5>3. CASE t # s
          BY <1>1, <1>2, <3>4, <3>6, <5>1, <5>3, OtherTaken
        <5> QED BY <5>2, <5>3
      <4> QED BY <4>2, <4>3
    <3>8. Mirrored(p)
      BY <3>7 DEF Mirrored
    <3> QED BY <1>2, <3>2, <3>3, <3>8, ChangedStep, ChangedMirrors DEF Aside, Carries, g
  <2> QED BY <2>1, <2>2
<1> DEFINE n == Op(x)
<1>7. n = Normalize(g, r.pass)
  OBVIOUS
<1> HIDE DEF g, got
<1>8. Mirrored(n)
  BY <1>2, <1>3, <1>6, <1>7, NormalizeMirrors
<1> QED BY <1>5, <1>8, MirrorsHere

(* The store takes over what the user asked for: the slots that nobody     *)
(* holds any more agree again.                                             *)
LEMMA UserAnsweredMirrors ==
    ASSUME SInv, MInv, NEW kind \in {"saved", "removed", "cleared"},
           NEW taken \in SUBSET Slots, NEW row \in Row, UserAnswered(kind, taken, row),
           \A t \in Slots : Covers(Head(replies), t) <=> t \in taken,
           Brings(Head(replies)) = row
    PROVE  MInv'
<1> DEFINE r == Head(replies)
           f(m) == [s \in Slots |-> IF s \in taken THEN row ELSE m.slots[s]]
           h(m) == [m.hist EXCEPT !.skewed = {s \in @ : s \notin taken \/ Outstanding(m, s)}]
<1>1. replies # <<>> /\ r.kind = kind /\ TypeOK /\ now \in Times /\ Mirrored(Here)
  BY DEF UserAnswered, Answer, SInv, TypeOK, MInv, Running
<1>2. Received \in Machine /\ replies \in Seq(Reply)
  BY <1>1, ReceivedTyped DEF TypeOK
<1>3. \E x \in {Received, [Received EXCEPT !.inject = TRUE]} : Become(Takes(x, taken, row))
  BY DEF UserAnswered, Does
<1>4. PICK x \in Machine : /\ Still(Received, x) /\ x.hist = Received.hist
                           /\ Become(Takes(x, taken, row))
  BY <1>2, <1>3, InjectStill
<1> DEFINE g == f(x)
           k == h(x)
           a == [x EXCEPT !.slots = g]
           b == [a EXCEPT !.hist = k]
           n == Takes(x, taken, row)
<1>5. n = Changed(b)
  BY DEF Takes
<1>6. g \in [Slots -> Row] /\ k \in History
  <2>1. x.slots \in [Slots -> Row] /\ x.hist \in History
    BY DEF Machine
  <2> QED BY <2>1 DEF History
<1>7. /\ \A t \in Slots : g[t] = IF t \in taken THEN row ELSE x.slots[t]
      /\ k.skewed = {s \in x.hist.skewed : s \notin taken \/ Outstanding(x, s)}
  BY DEF Machine, History
<1>8. a = [x EXCEPT !.slots = g] /\ b = [a EXCEPT !.hist = k]
  OBVIOUS
<1> HIDE DEF a, b, g, k, n
<1>9. /\ b \in Machine /\ b.db = x.db /\ b.slots = g /\ b.replies = x.replies
      /\ b.deliveries = x.deliveries /\ b.hist = k
  BY <1>6, <1>8 DEF Machine
<1>10. /\ x.db = db /\ x.slots = slots /\ x.replies = Tail(replies)
       /\ x.deliveries = deliveries /\ x.hist = hist
  BY <1>1, <1>4, ReceivedIs DEF Still
<1>11. \A t : ~Writes(r, t) /\ ByUser(r)
  BY <1>1 DEF Writes, Claims, ByUser
<1>12. \A t \in Slots : ~Outstanding(x, t) => ~Writer(Tail(replies), deliveries, t)
  BY <1>10 DEF Outstanding, Writer, Writes, Claims
<1>13. ASSUME NEW t \in Slots
       PROVE  /\ t \notin b.hist.skewed =>
                     Mirrors(b.replies, b.deliveries, b.db[t], b.slots[t], t)
              /\ Rewritten(b.replies, b.db[t], t)
  <2>1. /\ t \notin hist.skewed => Mirrors(replies, deliveries, db[t], slots[t], t)
        /\ Rewritten(replies, db[t], t)
    BY <1>1 DEF Mirrored, Here
  <2>2. Rewritten(b.replies, b.db[t], t)
    BY <1>1, <1>2, <1>9, <1>10, <2>1, RewrittenTaken
  <2>3. ASSUME t \notin b.hist.skewed
        PROVE  Mirrors(b.replies, b.deliveries, b.db[t], b.slots[t], t)
    <3>1. CASE t \notin taken
      <4>1. t \notin hist.skewed /\ g[t] = slots[t] /\ ~Covers(r, t)
        BY <1>7, <1>9, <1>10, <2>3, <3>1
      <4> QED BY <1>1, <1>2, <1>9, <1>10, <1>11, <2>1, <4>1, OtherTaken
    <3>2. CASE t \in taken /\ t \notin hist.skewed
      <4>1. Covers(r, t) /\ g[t] = Brings(r)
        BY <1>7, <3>2
      <4>2. Mirrors(Tail(replies), deliveries, db[t], Brings(r), t)
        BY <1>1, <1>2, <2>1, <3>2, <4>1, CoverTaken
      <4> QED BY <1>9, <1>10, <4>1, <4>2
    <3>3. CASE t \in taken /\ t \in hist.skewed
      <4>1. Covers(r, t) /\ g[t] = Brings(r)
        BY <1>7, <3>3
      <4>2. ~Writer(Tail(replies), deliveries, t)
        BY <1>7, <1>9, <1>10, <1>12, <2>3, <3>3
      <4>3. Mirrors(Tail(replies), deliveries, db[t], Brings(r), t)
        BY <1>1, <1>2, <1>11, <2>1, <4>1, <4>2, AnswerTaken
      <4> QED BY <1>9, <1>10, <4>1, <4>3
    <3> QED BY <3>1, <3>2, <3>3
  <2> QED BY <2>2, <2>3
<1>14. Mirrored(b)
  BY <1>13 DEF Mirrored
<1>15. Mirrored(n)
  BY <1>1, <1>5, <1>9, <1>14, ChangedMirrors
<1> QED BY <1>4, <1>15, MirrorsHere DEF n

LEMMA UserAnswersMirrors ==
    ASSUME SInv, MInv, Saved \/ Removed \/ Cleared
    PROVE  MInv'
<1>1. TypeOK /\ Absent \in Row
  BY RuleExists DEF SInv
<1> DEFINE r == Head(replies)
<1>2. CASE Saved
  <2>1. replies # <<>> /\ r.kind = "saved"
    BY <1>2 DEF Saved, UserAnswered, Answer
  <2>2. r.slot \in Slots /\ r.stored \in Row
    BY <1>1, <2>1, ReceivedTyped, ReplyParts
  <2>3. {r.slot} \in SUBSET Slots
    BY <2>2
  <2>4. UserAnswered("saved", {r.slot}, r.stored)
    BY <1>2 DEF Saved
  <2>5. (\A t \in Slots : Covers(r, t) <=> t \in {r.slot}) /\ Brings(r) = r.stored
    BY <2>1 DEF Covers, Brings
  <2> QED BY <2>2, <2>3, <2>4, <2>5, UserAnsweredMirrors
<1>3. CASE Removed
  <2>1. replies # <<>> /\ r.kind = "removed"
    BY <1>3 DEF Removed, UserAnswered, Answer
  <2>2. r.slot \in Slots
    BY <1>1, <2>1, ReceivedTyped, ReplyParts
  <2>3. {r.slot} \in SUBSET Slots
    BY <2>2
  <2>4. UserAnswered("removed", {r.slot}, Absent)
    BY <1>3 DEF Removed
  <2>5. (\A t \in Slots : Covers(r, t) <=> t \in {r.slot}) /\ Brings(r) = Absent
    BY <2>1 DEF Covers, Brings
  <2> QED BY <1>1, <2>3, <2>4, <2>5, UserAnsweredMirrors
<1>4. CASE Cleared
  <2>1. replies # <<>> /\ r.kind = "cleared"
    BY <1>4 DEF Cleared, UserAnswered, Answer
  <2>2. UserAnswered("cleared", Slots, Absent)
    BY <1>4 DEF Cleared
  <2>3. (\A t \in Slots : Covers(r, t) <=> t \in Slots) /\ Brings(r) = Absent
    BY <2>1 DEF Covers, Brings
  <2> QED BY <1>1, <2>2, <2>3, UserAnsweredMirrors
<1> QED BY <1>2, <1>3, <1>4

(* Timers, power events, start and crash.                                  *)
LEMMA TimersMirrors ==
    ASSUME SInv, MInv, TimerFires \/ IntervalFires
    PROVE  MInv'
<1>1. TypeOK /\ now \in Times /\ Mirrored(Here) /\ Here \in Machine
  BY HereTyped DEF TimerFires, IntervalFires, SInv, TypeOK, MInv, Running
<1> DEFINE s == [sch EXCEPT !.timer = NoTimer]
           from == [Here EXCEPT !.sch = s]
<1>2. s \in Scheduler /\ Here.sch = sch
  BY <1>1 DEF TypeOK, Scheduler, NoTimer, Here
<1>3. [Here EXCEPT !.sch.timer = NoTimer] = from
  BY DEF Here
<1> HIDE DEF Here
<1>4. from \in Machine /\ Mirrored(from)
  BY <1>1, <1>2, SchSet, SchStill, StillMirrored
<1>5. PICK m \in {Here, from} :
          \E x \in {m, [m EXCEPT !.inject = TRUE]} : Become(Tick(x))
  BY <1>3 DEF TimerFires, IntervalFires, Does
<1>6. m \in Machine /\ Mirrored(m)
  BY <1>1, <1>4
<1>7. PICK x \in Machine : Still(m, x) /\ Become(Tick(x))
  BY <1>5, <1>6, InjectStill
<1>8. Mirrored(Tick(x))
  BY <1>1, <1>6, <1>7, StillMirrored, TickMirrors
<1> QED BY <1>7, <1>8, MirrorsHere

LEMMA SkippingStill ==
    ASSUME NEW m \in Machine
    PROVE  Still(m, Skipping(m))
  BY DEF Skipping, Machine, History, Still

LEMMA PowerResumeMirrors ==
    ASSUME SInv, MInv, PowerResume
    PROVE  MInv'
<1> DEFINE e(m) == [m.sch EXCEPT !.epoch = @ + 1]
           p(m) == [e(m) EXCEPT !.reconcilePending = TRUE]
           q(m) == [e(m) EXCEPT !.running = TRUE]
           from == IF sch.subscribed /\ master THEN Skipping(Here) ELSE Here
           R(m) == LET m1 == [m EXCEPT !.sch.epoch = @ + 1]
                   IN  IF ~m.sch.subscribed THEN m
                       ELSE IF m.sch.running
                       THEN [m1 EXCEPT !.sch.reconcilePending = TRUE]
                       ELSE IF m.master
                       THEN Reconcile([m1 EXCEPT !.sch.running = TRUE], "resume",
                                      "skip-missed")
                       ELSE Arm(m1)
<1>1. TypeOK /\ now \in Times /\ Mirrored(Here) /\ Here \in Machine
  BY HereTyped DEF PowerResume, SInv, TypeOK, MInv, Running
<1>2. from \in Machine /\ Mirrored(from)
  BY <1>1, SkippingStep, SkippingStill, StillMirrored DEF Quiet
<1>3. \E x \in {from, [from EXCEPT !.inject = TRUE]} : Become(R(x))
  BY DEF PowerResume, Does
<1> HIDE DEF from
<1>4. PICK x \in Machine : Still(from, x) /\ Become(R(x))
  <2> HIDE DEF R
  <2> QED BY <1>2, <1>3, InjectStill
<1>5. Mirrored(x)
  BY <1>2, <1>4, StillMirrored
<1> DEFINE a == [x EXCEPT !.sch.epoch = @ + 1]
           b == [a EXCEPT !.sch.reconcilePending = TRUE]
           c == [a EXCEPT !.sch.running = TRUE]
           n == R(x)
<1>6. n = IF ~x.sch.subscribed THEN x
          ELSE IF x.sch.running THEN b
          ELSE IF x.master THEN Reconcile(c, "resume", "skip-missed")
          ELSE Arm(a)
  OBVIOUS
<1>7. e(x) \in Scheduler /\ q(x) \in Scheduler
  <2>1. x.sch \in Scheduler
    BY DEF Machine
  <2>2. e(x) \in Scheduler
    BY <2>1 DEF Scheduler
  <2>3. q(x) \in Scheduler
    <3> DEFINE y == e(x)
    <3>1. q(x) = [y EXCEPT !.running = TRUE]
      OBVIOUS
    <3> HIDE DEF y, q
    <3> QED BY <2>2, <3>1 DEF y, Scheduler
  <2> QED BY <2>2, <2>3
<1>8. a = [x EXCEPT !.sch = e(x)] /\ b = [x EXCEPT !.sch = p(x)] /\ c = [x EXCEPT !.sch = q(x)]
  BY DEF Machine, Scheduler
<1> HIDE DEF a, b, c, n, R, e, p, q
<1>9. a \in Machine /\ c \in Machine /\ Mirrored(a) /\ Mirrored(b) /\ Mirrored(c)
  BY <1>5, <1>7, <1>8, SchSet, SchStill, StillMirrored
<1>10. Mirrored(Reconcile(c, "resume", "skip-missed")) /\ Mirrored(Arm(a))
  BY <1>1, <1>9, ReconcileMirrors, ArmStill, StillMirrored DEF Callers
<1>11. Mirrored(n)
  BY <1>5, <1>6, <1>9, <1>10
<1> QED BY <1>4, <1>11, MirrorsHere DEF n

(* hydrate() copies the table.                                             *)
LEMMA BootMirrors ==
    ASSUME SInv, Boot
    PROVE  MInv'
<1> DEFINE s == [sch EXCEPT !.started = TRUE, !.lastEnabled = master]
           m == [[Here EXCEPT !.slots = db] EXCEPT !.sch = s]
           from == IF master THEN Skipping(m) ELSE m
           Op(x) == IF master THEN Reconcile(x, "start", "skip-missed")
                    ELSE Normalized(x, "start")
<1>1. TypeOK /\ Here \in Machine /\ now \in Times
  BY HereTyped DEF SInv, TypeOK
<1>2. replies = <<>> /\ deliveries = {} /\ sch = IdleScheduler
  BY DEF Boot, SInv
<1>3. s \in Scheduler
  BY <1>1, <1>2, ZenonT(120) DEF IdleScheduler, Scheduler, TypeOK
<1>4. [Here EXCEPT !.slots = db, !.sch.started = TRUE, !.sch.lastEnabled = master] = m
  BY DEF Here
<1>5. \E x \in {from, [from EXCEPT !.inject = TRUE]} : Become(Op(x))
  <2> DEFINE k == [Here EXCEPT !.slots = db, !.sch.started = TRUE, !.sch.lastEnabled = master]
  <2>1. \E x \in {IF master THEN Skipping(k) ELSE k,
                  [(IF master THEN Skipping(k) ELSE k) EXCEPT !.inject = TRUE]} :
            Become(Op(x))
    BY DEF Boot, Does
  <2>2. k = m
    BY <1>4
  <2> HIDE DEF k, m, Op
  <2> QED BY <2>1, <2>2
<1>6. /\ m \in Machine /\ m.replies = <<>> /\ m.deliveries = {}
      /\ m.db = db /\ m.slots = db
  BY <1>1, <1>2, <1>3, ZenonT(120) DEF Here, Machine, TypeOK
<1> HIDE DEF m, s
<1>7. Mirrored(m)
  <2>1. DOMAIN m.replies = {}
    BY <1>6
  <2>2. SUFFICES ASSUME NEW t \in Slots
                 PROVE  /\ Mirrors(m.replies, m.deliveries, m.db[t], m.slots[t], t)
                        /\ Rewritten(m.replies, m.db[t], t)
    BY DEF Mirrored
  <2> QED BY <1>6, <2>1 DEF Mirrors, Rewritten, Agrees
<1>8. from \in Machine /\ Mirrored(from)
  BY <1>1, <1>6, <1>7, SkippingStep, SkippingStill, StillMirrored DEF Quiet
<1> HIDE DEF from
<1>9. PICK x \in Machine : Still(from, x) /\ Become(Op(x))
  <2> HIDE DEF Op
  <2> QED BY <1>5, <1>8, InjectStill
<1>10. Mirrored(x)
  BY <1>8, <1>9, StillMirrored
<1>11. Mirrored(Op(x))
  BY <1>1, <1>10, ReconcileMirrors, NormalizedStill, StillMirrored DEF Callers
<1> QED BY <1>9, <1>11, MirrorsHere

-----------------------------------------------------------------------------
(* The user.                                                               *)
LEMMA RewriteMirrors ==
    ASSUME SInv, MInv, Running, NEW edited \in SUBSET Slots, NEW row \in Row,
           NEW r \in Reply, Become(Rewrite(Here, edited, row, r)),
           \A t \in Slots : Covers(r, t) <=> t \in edited,
           \A t \in Slots : ~Writes(r, t),
           Brings(r) = row
    PROVE  MInv'
<1> DEFINE n == Rewrite(Here, edited, row, r)
<1>1. TypeOK /\ Mirrored(Here) /\ replies \in Seq(Reply)
  BY DEF SInv, MInv, Running, TypeOK
<1>2. /\ n.db = [s \in Slots |-> IF s \in edited THEN row ELSE db[s]]
      /\ n.slots = slots /\ n.replies = Append(replies, r) /\ n.deliveries = deliveries
      /\ n.hist.skewed = hist.skewed \cup {s \in edited : Outstanding(Here, s)}
  BY DEF Rewrite, Here
<1>3. \A t \in Slots : ~Outstanding(Here, t) => ~Writer(replies, deliveries, t)
  BY DEF Outstanding, Writer, Writes, Claims, Here
<1> HIDE DEF n
<1>4. ASSUME NEW t \in Slots
      PROVE  /\ t \notin n.hist.skewed =>
                    Mirrors(n.replies, n.deliveries, n.db[t], n.slots[t], t)
             /\ Rewritten(n.replies, n.db[t], t)
  <2>1. /\ t \notin hist.skewed => Mirrors(replies, deliveries, db[t], slots[t], t)
        /\ Rewritten(replies, db[t], t)
    BY <1>1 DEF Mirrored, Here
  <2>2. CASE t \in edited
    <3>1. Covers(r, t) /\ n.db[t] = Brings(r)
      BY <1>2, <2>2
    <3>2. Rewritten(n.replies, n.db[t], t)
      BY <1>1, <1>2, <2>1, <3>1, RewrittenSent
    <3>3. t \notin n.hist.skewed => ~Writer(replies, deliveries, t)
      BY <1>2, <1>3, <2>2
    <3>4. t \notin n.hist.skewed =>
              Mirrors(n.replies, n.deliveries, n.db[t], n.slots[t], t)
      BY <1>1, <1>2, <3>1, <3>3, CoverSent
    <3> QED BY <3>2, <3>4
  <2>3. CASE t \notin edited
    <3>1. ~Covers(r, t) /\ ~Writes(r, t) /\ n.db[t] = db[t]
      BY <1>2, <2>3
    <3>2. Rewritten(n.replies, n.db[t], t)
      BY <1>1, <1>2, <2>1, <3>1, RewrittenSent
    <3>3. t \notin n.hist.skewed =>
              Mirrors(n.replies, n.deliveries, n.db[t], n.slots[t], t)
      BY <1>1, <1>2, <2>1, <3>1, OtherSent
    <3> QED BY <3>2, <3>3
  <2> QED BY <2>2, <2>3
<1>5. Mirrored(n)
  BY <1>4 DEF Mirrored
<1> QED BY <1>5, MirrorsHere DEF n

LEMMA EditsMirror ==
    ASSUME SInv, MInv, Save \/ Remove \/ ClearTable
    PROVE  MInv'
<1>1. TypeOK /\ now \in Times /\ Absent \in Row
  BY RuleExists DEF SInv, TypeOK
<1>2. Running
  BY DEF Save, Remove, ClearTable, UserActs
<1>3. CASE Save
  <2>1. PICK s \in Slots, on \in BOOLEAN, rule \in Rules :
            Become(Rewrite(Here, {s}, Edited(on, rule, now),
                           [kind |-> "saved", slot |-> s, stored |-> Edited(on, rule, now)]))
    BY <1>3 DEF Save
  <2> DEFINE row == Edited(on, rule, now)
             r == [kind |-> "saved", slot |-> s, stored |-> row]
  <2>2. row \in Row
    BY <1>1, EditedTyped
  <2>3. Become(Rewrite(Here, {s}, row, r))
    BY <2>1
  <2> HIDE DEF row
  <2>4. r \in Reply
    BY <2>2 DEF Reply, UserReply
  <2>5. /\ \A t \in Slots : Covers(r, t) <=> t \in {s}
        /\ \A t \in Slots : ~Writes(r, t)
        /\ Brings(r) = row
    BY DEF Covers, Writes, Claims, Brings
  <2> HIDE DEF r
  <2>6. {s} \in SUBSET Slots
    OBVIOUS
  <2> QED BY <1>2, <2>2, <2>3, <2>4, <2>5, <2>6, RewriteMirrors
<1>4. CASE Remove
  <2>1. PICK s \in Slots :
            Become(Rewrite(Here, {s}, Absent, [kind |-> "removed", slot |-> s]))
    BY <1>4 DEF Remove
  <2> DEFINE r == [kind |-> "removed", slot |-> s]
  <2>2. r \in Reply
    BY DEF Reply, UserReply
  <2>3. /\ \A t \in Slots : Covers(r, t) <=> t \in {s}
        /\ \A t \in Slots : ~Writes(r, t)
        /\ Brings(r) = Absent
    BY DEF Covers, Writes, Claims, Brings
  <2>4. Become(Rewrite(Here, {s}, Absent, r)) /\ {s} \in SUBSET Slots
    BY <2>1
  <2> HIDE DEF r
  <2> QED BY <1>1, <1>2, <2>2, <2>3, <2>4, RewriteMirrors
<1>5. CASE ClearTable
  <2> DEFINE r == [kind |-> "cleared"]
  <2>1. r \in Reply
    BY DEF Reply, UserReply
  <2>2. /\ \A t \in Slots : Covers(r, t) <=> t \in Slots
        /\ \A t \in Slots : ~Writes(r, t)
        /\ Brings(r) = Absent
    BY DEF Covers, Writes, Claims, Brings
  <2>3. Become(Rewrite(Here, Slots, Absent, r)) /\ Slots \in SUBSET Slots
    BY <1>5 DEF ClearTable
  <2> HIDE DEF r
  <2> QED BY <1>1, <1>2, <2>1, <2>2, <2>3, RewriteMirrors
<1> QED BY <1>3, <1>4, <1>5

LEMMA SettingsMirror ==
    ASSUME SInv, MInv, ClearAll \/ SetMaster \/ SettingChanged
    PROVE  MInv'
<1>1. TypeOK /\ now \in Times /\ Mirrored(Here) /\ Here \in Machine
  BY HereTyped DEF ClearAll, SetMaster, SettingChanged, UserActs, SInv, TypeOK, MInv, Running
<1>2. ASSUME NEW on \in BOOLEAN, Become(Refresh([Here EXCEPT !.master = on]))
      PROVE  MInv'
  <2> DEFINE m == [Here EXCEPT !.master = on]
  <2>1. m \in Machine /\ Still(Here, m)
    BY <1>1 DEF Machine, Still
  <2>2. Become(Refresh(m))
    BY <1>2
  <2> HIDE DEF m
  <2>3. Mirrored(Refresh(m))
    BY <1>1, <2>1, StillMirrored, RefreshMirrors
  <2> QED BY <2>2, <2>3, MirrorsHere
<1>3. CASE ClearAll
  BY <1>2, <1>3 DEF ClearAll
<1>4. CASE SetMaster
  <2>1. (~master) \in BOOLEAN /\ Become(Refresh([Here EXCEPT !.master = ~master]))
    BY <1>1, <1>4 DEF SetMaster, TypeOK
  <2> QED BY <1>2, <2>1
<1>5. CASE SettingChanged
  <2>1. \E x \in {Here, [Here EXCEPT !.inject = TRUE]} : Become(Refresh(x))
    BY <1>5 DEF SettingChanged, Does
  <2> HIDE DEF Here
  <2>2. PICK x \in Machine : Still(Here, x) /\ Become(Refresh(x))
    BY <1>1, <2>1, InjectStill
  <2>3. Mirrored(Refresh(x))
    BY <1>1, <2>2, StillMirrored, RefreshMirrors
  <2> QED BY <2>2, <2>3, MirrorsHere
<1> QED BY <1>3, <1>4, <1>5

(* Send now takes the due time from the copy: unless the slot is crossed,  *)
(* that is the table's.                                                    *)
LEMMA SendNowMirrors ==
    ASSUME SInv, MInv, SendNow
    PROVE  MInv'
<1>1. TypeOK /\ Mirrored(Here)
  BY DEF SendNow, SInv, MInv, Running
<1> DEFINE d(s) == [row |-> Hold(Here, s), next |-> Hold(Here, s).due,
                    run |-> [NewRun(Here) EXCEPT !.sendNow = TRUE]]
           n(s) == [Here EXCEPT !.sch.running = TRUE,
                                !.deliveries = @ \cup {d(s)},
                                !.hist.skewed = @ \cup {u \in {s} : BeingStored(u)
                                                         \/ Outstanding(Here, u)}]
<1>2. PICK s \in Slots : slots[s].here /\ Become(n(s))
  BY DEF SendNow
<1> DEFINE e == d(s)
           k == n(s)
<1>3. e.row.slot = s /\ e.next = slots[s].due
  BY DEF Hold, Here
<1>4. /\ k.db = db /\ k.slots = slots /\ k.replies = replies
      /\ k.deliveries = deliveries \cup {e}
      /\ k.hist.skewed = hist.skewed \cup {u \in {s} : BeingStored(u)
                                            \/ Outstanding(Here, u)}
  <2> DEFINE K == {u \in {s} : BeingStored(u) \/ Outstanding(Here, u)}
  <2>1. k = [Here EXCEPT !.sch.running = TRUE, !.deliveries = @ \cup {e},
                         !.hist.skewed = @ \cup K]
    OBVIOUS
  <2>2. /\ Here \in Machine /\ Here.db = db /\ Here.slots = slots
        /\ Here.replies = replies /\ Here.deliveries = deliveries /\ Here.hist = hist
    BY <1>1, HereTyped DEF Here
  <2> HIDE DEF k, e, d, n, K, Here
  <2>3. /\ k.db = Here.db /\ k.slots = Here.slots /\ k.replies = Here.replies
        /\ k.deliveries = Here.deliveries \cup {e}
        /\ k.hist = [Here.hist EXCEPT !.skewed = @ \cup K]
    BY <2>1, <2>2 DEF Machine
  <2>4. k.hist.skewed = Here.hist.skewed \cup K
    BY <2>2, <2>3 DEF Machine, History
  <2> QED BY <2>2, <2>3, <2>4 DEF K
<1>5. Become(k)
  BY <1>2
<1> HIDE DEF d, n, e, k
<1>6. /\ replies \in Seq(Reply) /\ db[s] \in Row /\ slots[s] \in Row
  BY <1>1 DEF TypeOK
<1>7. ASSUME s \notin k.hist.skewed, Mirrors(replies, deliveries, db[s], slots[s], s)
      PROVE  e.next = db[s].due \/ ~db[s].here
  <2>1. ~BeingStored(s) /\ ~Outstanding(Here, s)
    BY <1>4, <1>7
  <2>2. ~Writer(replies, deliveries, s)
    BY <2>1 DEF Outstanding, Writer, Writes, Claims, Here
  <2>3. \A i \in DOMAIN replies : Covers(replies[i], s) => Brings(replies[i]) = Absent
    BY <2>1 DEF BeingStored, Covers, Brings
  <2>4. CASE \A i \in DOMAIN replies : ~Covers(replies[i], s)
    <3>1. slots[s] = db[s]
      BY <1>7, <2>2, <2>4 DEF Mirrors, Agrees
    <3> QED BY <1>3, <3>1
  <2>5. CASE \E i \in DOMAIN replies : Covers(replies[i], s)
    <3>1. PICK i : LastCover(replies, i, s)
      BY <1>6, <2>5, LastExists
    <3>2. Brings(replies[i]) = db[s]
      BY <1>7, <2>2, <3>1 DEF Mirrors, Agrees, LastCover
    <3>3. db[s] = Absent
      BY <2>3, <3>1, <3>2 DEF LastCover
    <3> QED BY <3>3 DEF Absent
  <2> QED BY <2>4, <2>5
<1>8. ASSUME NEW t \in Slots, t \notin k.hist.skewed
      PROVE  Mirrors(replies, deliveries \cup {e}, db[t], slots[t], t)
  <2> DEFINE row == db[t]
             copy == slots[t]
  <2>1. Mirrors(replies, deliveries, row, copy, t)
    BY <1>1, <1>4, <1>8 DEF Mirrored, Here
  <2>2. e.row.slot = t => e.next = row.due \/ ~row.here
    BY <1>3, <1>7, <1>8, <2>1
  <2> HIDE DEF row, copy
  <2>3. Mirrors(replies, deliveries \cup {e}, row, copy, t)
    BY <2>1, <2>2, DeliveryBegun
  <2> QED BY <2>3 DEF row, copy
<1>9. \A t \in Slots : Rewritten(replies, db[t], t)
  BY <1>1 DEF Mirrored, Here
<1>10. Mirrored(k)
  BY <1>4, <1>8, <1>9 DEF Mirrored
<1> QED BY <1>5, <1>10, MirrorsHere

(* The machine stands still, or the renderer is gone.                      *)
LEMMA StillMirrors ==
    ASSUME MInv, Sleep \/ Wake \/ Clock \/ Crash \/ UNCHANGED vars
    PROVE  MInv'
<1>1. CASE Crash
  BY <1>1 DEF Crash, MInv
<1>2. CASE Sleep \/ Wake \/ Clock \/ UNCHANGED vars
  <2>1. up' = up /\ UNCHANGED machine
    BY <1>2 DEF Sleep, Wake, Clock, vars, machine
  <2> QED BY <2>1 DEF MInv, Mirrored, Here, machine
<1> QED BY <1>1, <1>2

LEMMA MNext ==
    ASSUME SInv, MInv, [Next]_vars
    PROVE  MInv'
<1>1. CASE Respond
  BY <1>1, FireClaimedMirrors, FireRefusedMirrors, RecordedMirrors, MissClaimedMirrors,
     MissRefusedMirrors, MissedMirrors, FilledMirrors, UserAnswersMirrors DEF Respond
<1>2. CASE Delivered
  BY <1>2, DeliveredMirrors
<1>3. CASE TimerFires \/ IntervalFires
  BY <1>3, TimersMirrors
<1>4. CASE Sleep \/ Wake \/ Clock \/ Crash \/ UNCHANGED vars
  BY <1>4, StillMirrors
<1>5. CASE PowerResume \/ Boot
  BY <1>5, PowerResumeMirrors, BootMirrors
<1>6. CASE Save \/ Remove \/ ClearAll \/ ClearTable \/ SendNow \/ SetMaster \/ SettingChanged
  BY <1>6, EditsMirror, SettingsMirror, SendNowMirrors
<1> QED BY <1>1, <1>2, <1>3, <1>4, <1>5, <1>6 DEF Next

(* In every reachable state, whatever edits, passes, runs, sleeps and      *)
(* refused requests are under way, the row the store will have once the    *)
(* replies on their way have come is the table's, up to the due time that  *)
(* the one who claimed the slot will write.                                *)
THEOREM MirrorInvariant == Spec => []MInv
<1>1. Init => MInv
  BY DEF Init, MInv
<1>2. SInv /\ MInv /\ [Next]_vars => MInv'
  BY MNext
<1> QED BY <1>1, <1>2, SchedulerInvariant, PTL DEF Spec

(* The store's copy, by which the scheduler claims, is the table's row     *)
(* once nothing is on its way, except for a row edited while a run or a    *)
(* pass held it, or whose result could not be written.                     *)
THEOREM StoreFollowsTable == Spec => []StoreMirrorsTable
<1>1. MInv => StoreMirrorsTable
  <2>1. SUFFICES ASSUME MInv, Settled, NEW s \in Slots \ hist.skewed
                 PROVE  slots[s] = db[s]
    BY DEF StoreMirrorsTable
  <2>2. replies = <<>> /\ deliveries = {} /\ up
    BY <2>1 DEF Settled
  <2>3. Mirrors(replies, deliveries, db[s], slots[s], s)
    BY <2>1, <2>2 DEF MInv, Mirrored, Here
  <2>4. DOMAIN replies = {}
    BY <2>2
  <2> QED BY <2>2, <2>3, <2>4 DEF Mirrors, Agrees, Writer
<1> QED BY <1>1, MirrorInvariant, PTL

-----------------------------------------------------------------------------
(***************************************************************************)
(* An occurrence is settled once. A claim moves the due time of its row    *)
(* past the occurrence, so that the row of a settled occurrence is due     *)
(* later; only a due time written without a claim could take it back. The  *)
(* passes do that for the rows without a due time (fill-null), so the      *)
(* argument is about behaviors in which every enabled row of the copy has  *)
(* one: then a pass has claims to make and nothing to fill in.             *)
(***************************************************************************)
Dated(m) == \A s \in Slots : m.slots[s].on => m.slots[s].due # NoDue

(* Every row that the pass has not come to will be due later.              *)
Sure(pass) ==
    \A row \in pass.rest : row.due # NoDue /\ NextFor(row, pass.at) > row.due

Fits(r) == r.kind # "filled" /\ (r.kind \in {"miss", "missed"} => Sure(r.pass))

Once(m) ==
    /\ \A s \in Slots, t \in Times :
           m.hist.fate[s][t] # "open" => m.hist.fate[s][t] # "twice" /\ t < m.db[s].due
    /\ \A i \in DOMAIN m.replies : Fits(m.replies[i])

(* A block that settles nothing twice, as long as the copy is dated.       *)
Keeps(m, n) ==
    /\ n \in Machine /\ n.slots = m.slots
    /\ Dated(m) /\ Once(m) => Once(n)

LEMMA KeepsAgain ==
    ASSUME NEW m, NEW n, NEW p, Keeps(m, n), Keeps(n, p)
    PROVE  Keeps(m, p)
  BY DEF Keeps, Dated

LEMMA StillKeeps ==
    ASSUME NEW m, NEW n \in Machine, Still(m, n)
    PROVE  Keeps(m, n)
  BY DEF Still, Keeps, Once

(* advancePastDue() never goes back.                                       *)
LEMMA AdvanceLater ==
    ASSUME NEW rule \in Rules, NEW due \in Nat, NEW t \in Nat,
           AdvancePastDue(rule, due, t) # NoDue
    PROVE  AdvancePastDue(rule, due, t) > due
<1> DEFINE later == {k \in Walk(rule, due) : k > t}
<1>1. /\ rule.every \in Nat /\ NextDue(rule, due) \in Nat /\ NextDue(rule, due) > due
      /\ MaxCandidates \in Nat
  BY RuleAssumption, NextDueLater
<1>2. \A k \in later : k \in Nat /\ k > due
  <2>1. SUFFICES ASSUME NEW i \in 0..(MaxCandidates - 1)
                 PROVE  /\ NextDue(rule, due) + i * rule.every \in Nat
                        /\ NextDue(rule, due) + i * rule.every > due
    BY DEF Walk
  <2>2. i \in Nat
    BY <1>1
  <2>3. i * rule.every \in Nat
    BY <1>1, <2>2
  <2> QED BY <1>1, <2>3
<1>3. AdvancePastDue(rule, due, t) =
          IF later = {} THEN NoDue
          ELSE CHOOSE k \in later : \A other \in later : k <= other
  BY DEF AdvancePastDue
<1> HIDE DEF later
<1>4. later # {}
  BY <1>3
<1>5. \E k \in later : \A other \in later : k <= other
  BY <1>2, <1>4, LeastExists
<1> QED BY <1>2, <1>3, <1>4, <1>5

(* A reply is put at the end of the queue; the first one is taken.         *)
LEMMA FitsSent ==
    ASSUME NEW q \in Seq(Reply), NEW r \in Reply, \A i \in DOMAIN q : Fits(q[i]), Fits(r)
    PROVE  \A i \in DOMAIN Append(q, r) : Fits(Append(q, r)[i])
<1> DEFINE p == Append(q, r)
<1>1. p \in Seq(Reply) /\ Len(q) \in Nat
  OBVIOUS
<1>2. DOMAIN p = 1..(Len(q) + 1) /\ DOMAIN q = 1..Len(q)
  OBVIOUS
<1>3. p[Len(q) + 1] = r /\ \A i \in 1..Len(q) : p[i] = q[i]
  OBVIOUS
<1> HIDE DEF p
<1> QED BY <1>1, <1>2, <1>3 DEF p

LEMMA FitsTaken ==
    ASSUME NEW q \in Seq(Reply), q # <<>>, \A i \in DOMAIN q : Fits(q[i])
    PROVE  Fits(Head(q)) /\ \A i \in DOMAIN Tail(q) : Fits(Tail(q)[i])
<1> DEFINE p == Tail(q)
<1>1. p \in Seq(Reply) /\ Len(q) \in Nat \ {0} /\ Head(q) = q[1]
  OBVIOUS
<1>2. DOMAIN p = 1..(Len(q) - 1) /\ DOMAIN q = 1..Len(q)
  OBVIOUS
<1>3. \A i \in 1..(Len(q) - 1) : p[i] = q[i + 1]
  OBVIOUS
<1> HIDE DEF p
<1>4. \A i \in 1..(Len(q) - 1) : i + 1 \in 1..Len(q)
  BY <1>1
<1> QED BY <1>1, <1>2, <1>3, <1>4 DEF p

(* A claim settles an open occurrence, and only while its row is due then. *)
LEMMA ClaimOnce ==
    ASSUME NEW m \in Machine, NEW reply \in RunReply \cup PassReply,
           NEW how \in {"fired", "missed"}, reply.kind \in {"fire", "miss"},
           reply.next > reply.row.due,
           reply.kind = "miss" => Sure(reply.pass)
    PROVE  Keeps(m, Claim(m, reply, how))
<1> DEFINE n == Claim(m, reply, how)
           s == reply.row.slot
           due == reply.row.due
           other(a) == [reply EXCEPT !.ok = a]
<1>1. /\ s \in Slots /\ due \in Nat /\ reply.next \in Nat /\ reply \in Reply
      /\ how \in Fates
  BY DEF RunReply, PassReply, Held, Due, Reply, Fates
<1>2. \A a \in {"no", "failed"} : other(a) \in Reply /\ Fits(other(a))
  <2>1. reply.kind = "fire" => reply \in RunReply
    BY DEF RunReply, PassReply
  <2>2. reply.kind = "miss" => reply \in PassReply
    BY DEF RunReply, PassReply
  <2>3. \A a \in {"no", "failed"} : other(a) \in Reply
    BY DEF RunReply, PassReply, Reply, Answers
  <2>4. \A a \in {"no", "failed"} :
            other(a).kind = reply.kind /\ (reply.kind = "miss" => other(a).pass = reply.pass)
    BY <2>1, <2>2 DEF RunReply, PassReply
  <2> QED BY <2>3, <2>4 DEF Fits
<1>3. Fits(reply)
  BY DEF Fits
<1>4. n \in Machine /\ n.slots = m.slots
  BY <1>1, ClaimStep DEF Sent
<1>5. m.replies \in Seq(Reply) /\ m.inject \in BOOLEAN
  BY DEF Machine
<1>6. SUFFICES ASSUME Once(m) PROVE Once(n)
  BY <1>4 DEF Keeps
<1>7. ASSUME NEW r \in Reply, Fits(r), n.replies = Append(m.replies, r)
      PROVE  \A i \in DOMAIN n.replies : Fits(n.replies[i])
  BY <1>5, <1>6, <1>7, FitsSent DEF Once
<1>8. CASE m.inject
  <2>1. n = [m EXCEPT !.replies = Append(@, other("failed")), !.inject = FALSE]
    BY <1>8 DEF Claim, Rejected
  <2> HIDE DEF n, other
  <2>2. n.db = m.db /\ n.hist = m.hist /\ n.replies = Append(m.replies, other("failed"))
    BY <2>1 DEF Machine
  <2>3. \A i \in DOMAIN n.replies : Fits(n.replies[i])
    BY <1>2, <1>7, <2>2
  <2> QED BY <1>6, <2>2, <2>3 DEF Once
<1>9. CASE ~m.inject /\ ~Claimable(m.db[s], due)
  <2>1. n = [m EXCEPT !.replies = Append(@, other("no"))]
    BY <1>9 DEF Claim, Send
  <2> HIDE DEF n, other
  <2>2. n.db = m.db /\ n.hist = m.hist /\ n.replies = Append(m.replies, other("no"))
    BY <2>1 DEF Machine
  <2>3. \A i \in DOMAIN n.replies : Fits(n.replies[i])
    BY <1>2, <1>7, <2>2
  <2> QED BY <1>6, <2>2, <2>3 DEF Once
<1>10. CASE ~m.inject /\ Claimable(m.db[s], due)
  <2> DEFINE c == Crossed(m, s)
             row == m.db[s]
             fate == m.hist.fate
  <2>1. /\ c \in Machine /\ c.db = m.db /\ c.replies = m.replies /\ c.hist.fate = fate
    BY <1>1, CrossedStep, CrossedStill DEF Still, Quiet
  <2>2. n = [[c EXCEPT !.db[s].due = reply.next, !.hist.fate[s][due] = Settle(@, how)]
               EXCEPT !.replies = Append(@, reply)]
    BY <1>10, SMTT(30) DEF Claim, Send
  <2>3. row \in Row /\ row.due = due /\ m.db \in [Slots -> Row]
    BY <1>1, <1>10, SMTT(30) DEF Machine, Claimable
  <2>4. fate \in [Slots -> [Times -> Fates]]
    BY SMTT(30) DEF Machine, History
  <2> HIDE DEF n, c
  <2>5. /\ n.db = [c.db EXCEPT ![s].due = reply.next]
        /\ n.replies = Append(c.replies, reply)
        /\ n.hist = [c.hist EXCEPT !.fate[s][due] = Settle(@, how)]
    BY <2>1, <2>2 DEF Machine
  <2>6. n.hist.fate = [fate EXCEPT ![s][due] = Settle(@, how)]
    BY <2>1, <2>5, SMTT(30) DEF Machine, History
  <2>7. n.db[s].due = reply.next /\ \A u \in Slots : u # s => n.db[u] = m.db[u]
    <3> DEFINE new == [row EXCEPT !.due = reply.next]
    <3>1. new.due = reply.next
      BY <2>3, SMTT(30) DEF Row
    <3>2. n.db = [m.db EXCEPT ![s] = new]
      BY <2>1, <2>5
    <3> HIDE DEF new
    <3> QED BY <1>1, <2>3, <3>1, <3>2, SMTT(30)
  <2>8. /\ \A u \in Slots, t \in Times : u # s \/ t # due => n.hist.fate[u][t] = fate[u][t]
        /\ due \in Times => n.hist.fate[s][due] = Settle(fate[s][due], how)
    <3> DEFINE x == Settle(fate[s][due], how)
               of == [fate[s] EXCEPT ![due] = x]
    <3>1. n.hist.fate = [fate EXCEPT ![s] = of]
      BY <2>6
    <3> HIDE DEF x
    <3>2. /\ \A t \in Times : t # due => of[t] = fate[s][t]
          /\ due \in Times => of[due] = x
      BY <1>1, <2>4
    <3> HIDE DEF of
    <3>3. n.hist.fate[s] = of /\ \A u \in Slots : u # s => n.hist.fate[u] = fate[u]
      BY <1>1, <2>4, <3>1
    <3> QED BY <3>2, <3>3 DEF x
  <2> HIDE DEF fate, row
  <2>9. \A t \in Times : fate[s][t] # "open" => fate[s][t] # "twice" /\ t < due
    BY <1>1, <1>6, <2>3 DEF Once, fate, row
  <2>10. due \in Times => fate[s][due] = "open"
    BY <1>1, <2>9
  <2>11. ASSUME NEW u \in Slots, NEW t \in Times, n.hist.fate[u][t] # "open"
         PROVE  n.hist.fate[u][t] # "twice" /\ t < n.db[u].due
    <3>1. CASE u # s
      BY <1>6, <2>7, <2>8, <2>11, <3>1 DEF Once, fate
    <3>2. CASE u = s /\ t = due
      BY <1>1, <2>7, <2>8, <2>10, <3>2 DEF Settle
    <3>3. CASE u = s /\ t # due
      <4>1. fate[s][t] # "twice" /\ t < due /\ t \in Nat
        BY <2>8, <2>9, <2>11, <3>3 DEF Times
      <4> QED BY <1>1, <2>7, <2>8, <3>3, <4>1
    <3> QED BY <3>1, <3>2, <3>3
  <2>12. \A i \in DOMAIN n.replies : Fits(n.replies[i])
    BY <1>1, <1>3, <1>7, <2>1, <2>5
  <2> QED BY <2>11, <2>12 DEF Once
<1> QED BY <1>5, <1>8, <1>9, <1>10
(***************************************************************************)
(* The operators of a block, with what they keep.                          *)
(***************************************************************************)
LEMMA NormalizeOnce ==
    ASSUME NEW m \in Machine, NEW pass \in Pass, now \in Times
    PROVE  LET n == Normalize(m, pass)
           IN  n \in Machine /\ n.slots = m.slots /\ (Sure(pass) => Keeps(m, n))
<1> DEFINE n == Normalize(m, pass)
<1>1. pass.who \in Callers /\ pass.at \in Nat /\ pass.rest \in SUBSET Held
  BY DEF Pass
<1>2. CASE pass.rest = {}
  <2>1. n = Normalized(m, pass.who)
    BY <1>2 DEF Normalize
  <2> HIDE DEF n
  <2>2. n \in Machine /\ Still(m, n)
    BY <1>1, <2>1, NormalizedStep, NormalizedStill DEF Carries
  <2> QED BY <2>2, StillKeeps DEF n, Still
<1>3. CASE pass.rest # {}
  <2> DEFINE row == First(pass.rest)
             next == NextFor(row, pass.at)
             later == [pass EXCEPT !.rest = @ \ {row}]
             asked == [kind |-> "miss", row |-> row, next |-> next, ok |-> "yes",
                       pass |-> later]
  <2>1. row \in Held /\ next \in Nat /\ row \in pass.rest /\ row.slot \in Slots
    BY <1>1, <1>3, FirstTaken, NextForTyped DEF Held
  <2>2. Sure(pass) => row.due # NoDue /\ next > row.due
    BY <2>1 DEF Sure
  <2>3. later \in Pass /\ (Sure(pass) => Sure(later))
    BY DEF Pass, Sure
  <2>4. n = IF row.due = NoDue THEN Fill(m, row.slot, next, later)
            ELSE Claim(m, asked, "missed")
    BY <1>3 DEF Normalize
  <2> HIDE DEF n, row, next, later
  <2>5. /\ asked \in PassReply /\ asked.kind = "miss"
        /\ asked.row = row /\ asked.next = next /\ asked.pass = later
    BY <2>1, <2>3 DEF PassReply, Answers, Due
  <2> HIDE DEF asked
  <2>6. CASE row.due = NoDue
    <3>1. n \in Machine /\ n.slots = m.slots
      BY <2>1, <2>3, <2>4, <2>6, FillStep DEF Sent
    <3> QED BY <2>2, <2>6, <3>1 DEF n
  <2>7. CASE row.due # NoDue
    <3>1. n \in Machine /\ n.slots = m.slots
      BY <2>4, <2>5, <2>7, ClaimStep, ZenonT(120) DEF Sent, Fates
    <3>2. ASSUME Sure(pass) PROVE Keeps(m, n)
      BY <2>2, <2>3, <2>4, <2>5, <2>7, <3>2, ClaimOnce
    <3> QED BY <3>1, <3>2 DEF n
  <2> QED BY <2>6, <2>7
<1> QED BY <1>2, <1>3

(* A pass over a dated copy has claims to make, and nothing to fill in.    *)
LEMMA ReconcileOnce ==
    ASSUME NEW m \in Machine, NEW who \in Callers, NEW mode, now \in Times
    PROVE  Keeps(m, Reconcile(m, who, mode))
<1> DEFINE n == Reconcile(m, who, mode)
           pass == [who |-> who, at |-> now, rest |-> Todo(m, mode)]
<1>1. Todo(m, mode) \subseteq Held
  <2>1. \A s \in On(m) : Hold(m, s) \in Held
    BY HoldTyped DEF On
  <2> QED BY <2>1 DEF Todo
<1>2. pass \in Pass
  BY <1>1 DEF Pass, Times
<1>3. n = Normalize(m, pass)
  BY DEF Reconcile
<1>4. ASSUME Dated(m) PROVE Sure(pass)
  <2>1. SUFFICES ASSUME NEW row \in Todo(m, mode)
                 PROVE  row.due # NoDue /\ NextFor(row, now) > row.due
    BY DEF Sure
  <2>2. row \in Held /\ NextFor(row, now) # NoDue
    BY <1>1, <2>1 DEF Todo
  <2>3. PICK s \in On(m) : row = Hold(m, s)
    BY <2>1 DEF Todo
  <2>4. row.due # NoDue
    BY <1>4, <2>3 DEF On, Dated, Hold
  <2>5. row.rule \in Rules /\ row.due \in Nat /\ now \in Nat
    BY <2>2 DEF Held, Due, Times
  <2>6. NextFor(row, now) = AdvancePastDue(row.rule, row.due, now)
    BY <2>4 DEF NextFor
  <2> QED BY <2>2, <2>4, <2>5, <2>6, AdvanceLater
<1> HIDE DEF n, pass
<1>5. n \in Machine /\ n.slots = m.slots /\ (Dated(m) => Keeps(m, n))
  BY <1>2, <1>3, <1>4, NormalizeOnce
<1> QED BY <1>5 DEF Keeps, n

(* refresh().                                                              *)
LEMMA RefreshOnce ==
    ASSUME NEW m \in Machine, now \in Times
    PROVE  Keeps(m, Refresh(m))
<1> DEFINE n == Refresh(m)
           justEnabled == m.master /\ ~m.sch.lastEnabled
           s == [m.sch EXCEPT !.lastEnabled = m.master]
           t == [s EXCEPT !.reconcilePending = @ \/ justEnabled]
           noted == [m EXCEPT !.sch = s]
           later == [m EXCEPT !.sch = t]
           mode == IF justEnabled THEN "skip-missed" ELSE "fill-null"
<1>1. s \in Scheduler /\ t \in Scheduler
  BY DEF Machine, Scheduler
<1>2. [m EXCEPT !.sch.lastEnabled = m.master] = noted
  BY DEF Machine, Scheduler
<1>3. [noted EXCEPT !.sch.reconcilePending = @ \/ justEnabled] = later
  BY DEF Machine, Scheduler
<1>4. n = IF m.master /\ ~m.sch.running THEN Reconcile(noted, "refresh", mode)
          ELSE Arm(later)
  BY <1>2, <1>3 DEF Refresh
<1>5. noted = [m EXCEPT !.sch = s] /\ later = [m EXCEPT !.sch = t]
  OBVIOUS
<1> HIDE DEF n, s, t, noted, later, mode, justEnabled
<1>6. noted \in Machine /\ Keeps(m, noted) /\ later \in Machine /\ Keeps(m, later)
  BY <1>1, <1>5, SchSet, SchStill, StillKeeps
<1>7. Keeps(later, Arm(later))
  BY <1>6, ArmStep, ArmStill, StillKeeps DEF Quiet
<1>8. Keeps(noted, Reconcile(noted, "refresh", mode))
  BY <1>6, ReconcileOnce DEF Callers
<1> QED BY <1>4, <1>6, <1>7, <1>8, KeepsAgain DEF n

LEMMA ChangedOnce ==
    ASSUME NEW m \in Machine, now \in Times
    PROVE  Keeps(m, Changed(m))
  BY RefreshOnce DEF Changed, Keeps

(* applyRuntimeState(): only the copy is written to.                       *)
LEMMA ApplyOnce ==
    ASSUME NEW m \in Machine, NEW s \in Slots, NEW due \in Nat, now \in Times
    PROVE  /\ Keeps(Put(m, s, due), Apply(m, s, due))
           /\ Once(m) => Once(Put(m, s, due))
<1> DEFINE n == Put(m, s, due)
<1>1. n \in Machine /\ n.db = m.db /\ n.replies = m.replies /\ n.hist = m.hist
  BY PutTyped
<1>2. CASE m.slots[s].here
  <2>1. [m EXCEPT !.slots[s].due = due] = n
    BY <1>2 DEF Put, Written, Machine
  <2>2. Apply(m, s, due) = Changed(n)
    BY <1>2, <2>1 DEF Apply
  <2> HIDE DEF n
  <2> QED BY <1>1, <2>2, ChangedOnce DEF n, Once
<1>3. CASE ~m.slots[s].here
  <2>1. [m.slots EXCEPT ![s] = Written(m.slots[s], due)] = m.slots
    BY <1>3 DEF Written, Machine
  <2>2. n = m
    BY <2>1 DEF Put, Machine
  <2> QED BY <1>3, <2>2 DEF Apply, Keeps
<1> QED BY <1>2, <1>3

(* The run claims what is due now, and the next occurrence is later.       *)
LEMMA FireOnce ==
    ASSUME NEW m \in Machine, NEW run \in Run, Fireable(m, run) # {}, now \in Times
    PROVE  Keeps(m, Fire(m, run))
<1> DEFINE n == Fire(m, run)
           due == Fireable(m, run)
           slot == CHOOSE s \in due : \A t \in due : Before(m, s, t)
           row == Hold(m, slot)
           s == [m.sch EXCEPT !.running = TRUE]
           b == [m EXCEPT !.sch = s]
           asked == [kind |-> "fire", row |-> row, next |-> NextDue(row.rule, now),
                     ok |-> "yes",
                     run |-> [run EXCEPT !.attempted = @ \cup {<<slot, row.due>>}]]
<1>1. slot \in Slots /\ slot \in due
  BY FireableFirst
<1>2. n = Claim([m EXCEPT !.sch.running = TRUE], asked, "fired")
  BY DEF Fire
<1>3. [m EXCEPT !.sch.running = TRUE] = b
  BY DEF Machine, Scheduler
<1>4. s \in Scheduler
  BY DEF Machine, Scheduler
<1>5. b = [m EXCEPT !.sch = s]
  OBVIOUS
<1>6. /\ asked \in RunReply /\ asked.kind = "fire" /\ asked.next > asked.row.due
  <2>1. row.due <= now
    <3>1. \A k \in due : m.slots[k].due <= now
      BY DEF Fireable, OverdueSlots
    <3> HIDE DEF due, slot
    <3>2. row.due = m.slots[slot].due
      BY <1>1, HoldTyped
    <3> QED BY <1>1, <3>1, <3>2
  <2> HIDE DEF slot, b, s
  <2>2. row \in Held
    BY <1>1, HoldTyped
  <2> HIDE DEF row
  <2>3. row.rule \in Rules /\ row.due \in Nat /\ now \in Nat
    BY <2>2 DEF Held, Due, Times
  <2>4. NextDue(row.rule, now) \in Nat /\ NextDue(row.rule, now) > row.due
    BY <2>1, <2>3, NextDueLater
  <2>5. [run EXCEPT !.attempted = @ \cup {<<slot, row.due>>}] \in Run
    BY <1>1, <2>3 DEF Run, Due
  <2> QED BY <2>2, <2>4, <2>5 DEF RunReply, Answers, Due
<1> HIDE DEF n, b, s, asked, slot
<1>7. b \in Machine /\ Keeps(m, b)
  BY <1>4, <1>5, SchSet, SchStill, StillKeeps
<1>8. n = Claim(b, asked, "fired")
  BY <1>2, <1>3
<1>9. Keeps(b, n)
  BY <1>6, <1>7, <1>8, ClaimOnce
<1> QED BY <1>7, <1>9, KeepsAgain DEF n
(* finishRun() and tick().                                                 *)
LEMMA FinishOnce ==
    ASSUME NEW m \in Machine, now \in Times
    PROVE  Keeps(m, FinishRun(m))
<1> DEFINE n == FinishRun(m)
           s == [m.sch EXCEPT !.running = FALSE, !.reconcilePending = FALSE,
                              !.tickPending = FALSE]
           t == [s EXCEPT !.running = TRUE]
           done == [m EXCEPT !.sch = s]
           again == [m EXCEPT !.sch = t]
<1>1. s \in Scheduler /\ t \in Scheduler /\ s.epoch = m.sch.epoch
  BY DEF Machine, Scheduler
<1>2. [m EXCEPT !.sch.running = FALSE, !.sch.reconcilePending = FALSE,
                !.sch.tickPending = FALSE] = done
  BY DEF Machine, Scheduler
<1>3. [done EXCEPT !.sch.running = TRUE] = again
  BY DEF Machine, Scheduler
<1>4. n = IF m.sch.reconcilePending THEN Reconcile(again, "finish", "skip-missed")
          ELSE IF m.sch.tickPending /\ m.sch.started /\ Fireable(m, NewRun(m)) # {}
          THEN Fire(Arm(done), NewRun(m))
          ELSE Arm(done)
  <2> DEFINE d == [m EXCEPT !.sch.running = FALSE, !.sch.reconcilePending = FALSE,
                            !.sch.tickPending = FALSE]
  <2>1. n = IF m.sch.reconcilePending
            THEN Reconcile([d EXCEPT !.sch.running = TRUE], "finish", "skip-missed")
            ELSE IF m.sch.tickPending /\ m.sch.started /\ Fireable(m, NewRun(m)) # {}
            THEN Fire(Arm(d), NewRun(m))
            ELSE Arm(d)
    BY DEF FinishRun
  <2>2. d = done
    BY <1>2
  <2> HIDE DEF d, done, again, n
  <2> QED BY <1>3, <2>1, <2>2
<1>5. done = [m EXCEPT !.sch = s] /\ again = [m EXCEPT !.sch = t]
  OBVIOUS
<1> HIDE DEF n, s, t, done, again
<1>6. /\ done \in Machine /\ done.sch = s /\ done.slots = m.slots
      /\ done.master = m.master /\ again \in Machine
  BY <1>1, <1>5, SchSet
<1>7. Keeps(m, done) /\ Keeps(m, again)
  BY <1>5, <1>6, SchStill, StillKeeps
<1> DEFINE a == Arm(done)
<1>8. Quiet(done, a) /\ a \in Machine /\ Keeps(done, a)
  BY <1>6, ArmStep, ArmStill, StillKeeps DEF Quiet
<1>9. Keeps(m, a)
  BY <1>7, <1>8, KeepsAgain
<1>10. CASE m.sch.reconcilePending
  <2>1. Keeps(again, n)
    BY <1>4, <1>6, <1>10, ReconcileOnce DEF Callers
  <2> QED BY <1>7, <2>1, KeepsAgain DEF n
<1>11. CASE /\ ~m.sch.reconcilePending
            /\ m.sch.tickPending /\ m.sch.started /\ Fireable(m, NewRun(m)) # {}
  <2>1. n = Fire(a, NewRun(m))
    BY <1>4, <1>11
  <2>2. Fireable(a, NewRun(m)) # {}
    <3>1. a.slots = m.slots /\ a.master = m.master
      BY <1>6, <1>8 DEF Quiet
    <3>2. OverdueSlots(a) = OverdueSlots(m)
      BY <3>1 DEF OverdueSlots, Timely, On
    <3>3. a.sch.epoch = m.sch.epoch
      <4>1. a.sch.epoch = done.sch.epoch
        BY <1>6 DEF Arm, Machine, Scheduler
      <4> QED BY <1>1, <1>6, <4>1
    <3> QED BY <1>11, <3>1, <3>2, <3>3 DEF Fireable
  <2> HIDE DEF a
  <2>3. Keeps(a, n)
    BY <1>8, <2>1, <2>2, FireOnce, NewRunTyped
  <2> QED BY <1>9, <2>3, KeepsAgain DEF n
<1>12. CASE /\ ~m.sch.reconcilePending
            /\ ~(m.sch.tickPending /\ m.sch.started /\ Fireable(m, NewRun(m)) # {})
  BY <1>4, <1>9, <1>12 DEF n
<1> QED BY <1>10, <1>11, <1>12

LEMMA ContinueOnce ==
    ASSUME NEW m \in Machine, NEW run \in Run, now \in Times
    PROVE  Keeps(m, Continue(m, run))
  BY FinishOnce, FireOnce DEF Continue

LEMMA TickOnce ==
    ASSUME NEW m \in Machine, now \in Times
    PROVE  Keeps(m, Tick(m))
<1>1. Keeps(m, Arm(m))
  BY ArmStep, ArmStill, StillKeeps DEF Quiet
<1>2. Keeps(m, [m EXCEPT !.sch.tickPending = TRUE])
  <2> DEFINE s == [m.sch EXCEPT !.tickPending = TRUE]
  <2>1. [m EXCEPT !.sch.tickPending = TRUE] = [m EXCEPT !.sch = s] /\ s \in Scheduler
    BY DEF Machine, Scheduler
  <2> HIDE DEF s
  <2> QED BY <2>1, SchSet, SchStill, StillKeeps
<1>3. Keeps(m, Continue(m, NewRun(m)))
  BY ContinueOnce, NewRunTyped
<1>4. Keeps(m, m)
  BY DEF Keeps
<1> QED BY <1>1, <1>2, <1>3, <1>4 DEF Tick

-----------------------------------------------------------------------------
(* Steps, again. The copy that a step leaves is the one its block worked   *)
(* on after the last write to it, and it is dated.                         *)
DueTimesKnown == \A s \in Slots : slots[s].on => slots[s].due # NoDue

OInv == Once(Here)

LEMMA OnceHere ==
    ASSUME NEW n, Become(n), Once(n)
    PROVE  OInv'
<1>1. db' = n.db /\ replies' = n.replies /\ hist' = n.hist
  BY DEF Become
<1>2. Here' = [db |-> db', slots |-> slots', master |-> master', sch |-> sch',
               replies |-> replies', deliveries |-> deliveries', hist |-> hist',
               inject |-> FALSE]
  BY DEF Here
<1> QED BY <1>1, <1>2 DEF OInv, Once

LEMMA OnceAfter ==
    ASSUME NEW m, NEW n, DueTimesKnown', Keeps(m, n), Once(m), Become(n)
    PROVE  OInv'
<1>1. slots' = n.slots
  BY DEF Become
<1>2. Dated(m)
  BY <1>1 DEF DueTimesKnown, Dated, Keeps
<1>3. Once(n)
  BY <1>2 DEF Keeps
<1> QED BY <1>3, OnceHere

LEMMA OnceReceived ==
    ASSUME TypeOK, OInv, replies # <<>>
    PROVE  Once(Received) /\ Fits(Head(replies))
<1>1. replies \in Seq(Reply)
  BY DEF TypeOK
<1>2. Received.db = db /\ Received.hist = hist /\ Received.replies = Tail(replies)
  BY ReceivedIs
<1>3. \A i \in DOMAIN replies : Fits(replies[i])
  BY DEF OInv, Once, Here
<1>4. Fits(Head(replies)) /\ \A i \in DOMAIN Tail(replies) : Fits(Tail(replies)[i])
  BY <1>1, <1>3, FitsTaken
<1> QED BY <1>2, <1>4 DEF Once, OInv, Here

(* The machine the block starts from.                                      *)
LEMMA InjectOnce ==
    ASSUME NEW m \in Machine
    PROVE  \A x \in {m, [m EXCEPT !.inject = TRUE]} :
               x \in Machine /\ (Once(m) => Once(x)) /\ x.slots = m.slots /\ x.sch = m.sch
<1>1. \A x \in {m, [m EXCEPT !.inject = TRUE]} : x \in Machine /\ Still(m, x) /\ Base(x, m)
  BY InjectStill
<1> QED BY <1>1, ZenonT(120) DEF Still, Once, Base
LEMMA FireClaimedOnce ==
    ASSUME SInv, OInv, DueTimesKnown', FireClaimed
    PROVE  OInv'
<1> DEFINE r == Head(replies)
           s == r.row.slot
           d == [row |-> r.row, next |-> r.next, run |-> r.run]
           Op(m) == [Apply(m, r.row.slot, r.next) EXCEPT !.deliveries = @ \cup {d}]
<1>1. replies # <<>> /\ r.kind = "fire" /\ TypeOK
  BY DEF FireClaimed, Answer, SInv
<1>2. Received \in Machine /\ Once(Received) /\ r \in RunReply /\ now \in Times
  BY <1>1, ReceivedTyped, OnceReceived, ReplyParts DEF TypeOK
<1>3. s \in Slots /\ r.next \in Nat /\ d \in Delivery
  BY <1>2 DEF RunReply, Held, Due, Delivery
<1>4. \E x \in {Received, [Received EXCEPT !.inject = TRUE]} : Become(Op(x))
  BY DEF FireClaimed, Does
<1>5. PICK x \in Machine : Once(x) /\ Become(Op(x))
  BY <1>2, <1>4, InjectOnce
<1> DEFINE p == Put(x, s, r.next)
           a == Apply(x, s, r.next)
           n == Op(x)
<1>6. Once(p) /\ Keeps(p, a) /\ a \in Machine
  BY <1>2, <1>3, <1>5, ApplyOnce DEF Keeps
<1>7. n = [a EXCEPT !.deliveries = @ \cup {d}] /\ Become(n)
  BY <1>5
<1> HIDE DEF p, a, n, d
<1>8. /\ n \in Machine /\ n.db = a.db /\ n.slots = a.slots /\ n.replies = a.replies
      /\ n.hist = a.hist
  BY <1>3, <1>6, <1>7 DEF Machine
<1>9. Keeps(p, n)
  BY <1>6, <1>8 DEF Keeps, Once
<1> QED BY <1>6, <1>7, <1>9, OnceAfter

LEMMA FireRefusedOnce ==
    ASSUME SInv, OInv, DueTimesKnown', FireRefused
    PROVE  OInv'
<1> DEFINE r == Head(replies)
           Op(m) == Continue(m, r.run)
<1>1. replies # <<>> /\ r.kind = "fire" /\ TypeOK
  BY DEF FireRefused, Answer, SInv
<1>2. Received \in Machine /\ Once(Received) /\ r \in RunReply /\ now \in Times
  BY <1>1, ReceivedTyped, OnceReceived, ReplyParts DEF TypeOK
<1>3. r.run \in Run
  BY <1>2 DEF RunReply
<1>4. \E x \in {Received, [Received EXCEPT !.inject = TRUE]} : Become(Op(x))
  BY DEF FireRefused, Does
<1>5. PICK x \in Machine : Once(x) /\ Become(Op(x))
  BY <1>2, <1>4, InjectOnce
<1>6. Keeps(x, Op(x))
  BY <1>2, <1>3, ContinueOnce
<1> QED BY <1>5, <1>6, OnceAfter

LEMMA RecordedOnce ==
    ASSUME SInv, OInv, DueTimesKnown', Recorded
    PROVE  OInv'
<1> DEFINE r == Head(replies)
           s == r.row.slot
           a(m) == Apply(m, r.row.slot, r.next)
           Op(m) == IF r.run.sendNow THEN FinishRun(a(m)) ELSE Continue(a(m), r.run)
<1>1. replies # <<>> /\ r.kind = "sent" /\ TypeOK
  BY DEF Recorded, Answer, SInv
<1>2. Received \in Machine /\ Once(Received) /\ r \in RunReply /\ now \in Times
  BY <1>1, ReceivedTyped, OnceReceived, ReplyParts DEF TypeOK
<1>3. r.run \in Run /\ s \in Slots /\ r.next \in Nat
  BY <1>2 DEF RunReply, Held, Due
<1>4. \E x \in {Received, [Received EXCEPT !.inject = TRUE]} : Become(Op(x))
  BY DEF Recorded, Does
<1>5. PICK x \in Machine : Once(x) /\ Become(Op(x))
  BY <1>2, <1>4, InjectOnce
<1> DEFINE p == Put(x, s, r.next)
           b == a(x)
           n == Op(x)
<1>6. Once(p) /\ Keeps(p, b) /\ b \in Machine
  BY <1>2, <1>3, <1>5, ApplyOnce DEF Keeps
<1>7. n = IF r.run.sendNow THEN FinishRun(b) ELSE Continue(b, r.run)
  OBVIOUS
<1>8. Become(n)
  BY <1>5
<1> HIDE DEF a, b, p, n
<1>9. Keeps(b, n)
  BY <1>2, <1>3, <1>6, <1>7, FinishOnce, ContinueOnce
<1>10. Keeps(p, n)
  BY <1>6, <1>9, KeepsAgain
<1> QED BY <1>6, <1>8, <1>10, OnceAfter

(* A reply is asked for, or rejected; nothing else happens.                *)
LEMMA RequestOnce ==
    ASSUME NEW m \in Machine, NEW r \in Reply, NEW f \in Reply, Fits(r), Fits(f), Once(m),
           f = [r EXCEPT !.ok = "failed"],
           \E x \in {m, [m EXCEPT !.inject = TRUE]} :
               Become(IF x.inject THEN Rejected(x, r) ELSE Send(x, r))
    PROVE  OInv'
<1>1. PICK x \in Machine : /\ Once(x)
                           /\ Become(IF x.inject THEN Rejected(x, r) ELSE Send(x, r))
  BY InjectOnce
<1>2. x.replies \in Seq(Reply)
  BY DEF Machine
<1>3. ASSUME NEW n, NEW q \in {r, f}, n.db = x.db, n.hist = x.hist,
             n.replies = Append(x.replies, q)
      PROVE  Once(n)
  BY <1>1, <1>2, <1>3, FitsSent DEF Once
<1>4. Once(Send(x, r))
  <2> DEFINE n == Send(x, r)
  <2>1. n.db = x.db /\ n.hist = x.hist /\ n.replies = Append(x.replies, r)
    BY DEF Send, Machine
  <2> HIDE DEF n
  <2> QED BY <1>3, <2>1 DEF n
<1>5. Once(Rejected(x, r))
  <2> DEFINE n == Rejected(x, r)
  <2>1. n.db = x.db /\ n.hist = x.hist /\ n.replies = Append(x.replies, f)
    BY DEF Rejected, Machine
  <2> HIDE DEF n
  <2> QED BY <1>3, <2>1 DEF n
<1> QED BY <1>1, <1>4, <1>5, OnceHere

LEMMA DeliveredOnce ==
    ASSUME SInv, OInv, Delivered
    PROVE  OInv'
<1> DEFINE reply(d) == [kind |-> "sent", row |-> d.row, next |-> d.next, ok |-> "yes",
                        run |-> d.run]
           rest(d) == [Here EXCEPT !.deliveries = @ \ {d}]
<1>1. PICK d \in deliveries :
          \E x \in {rest(d), [rest(d) EXCEPT !.inject = TRUE]} :
              Become(IF x.inject THEN Rejected(x, reply(d)) ELSE Send(x, reply(d)))
  BY DEF Delivered, Does
<1>2. d \in Delivery /\ Here \in Machine /\ Once(Here)
  BY HereTyped DEF SInv, TypeOK, OInv
<1> DEFINE r == reply(d)
           f == [r EXCEPT !.ok = "failed"]
           m == rest(d)
<1>3. r \in Reply /\ f \in Reply /\ Fits(r) /\ Fits(f)
  BY <1>2 DEF Delivery, Reply, RunReply, Answers, Fits
<1>4. m \in Machine /\ Once(m)
  <2>1. m = [Here EXCEPT !.deliveries = Here.deliveries \ {d}]
    OBVIOUS
  <2> HIDE DEF m, Here
  <2> QED BY <1>2, <2>1 DEF Machine, Once
<1>5. \E x \in {m, [m EXCEPT !.inject = TRUE]} :
          Become(IF x.inject THEN Rejected(x, r) ELSE Send(x, r))
  BY <1>1
<1> HIDE DEF m, r, reply, rest
<1> QED BY <1>3, <1>4, <1>5, RequestOnce

LEMMA MissClaimedOnce ==
    ASSUME SInv, OInv, MissClaimed
    PROVE  OInv'
<1> DEFINE r == Head(replies)
           asked == [r EXCEPT !.kind = "missed"]
           failed == [asked EXCEPT !.ok = "failed"]
<1>1. replies # <<>> /\ r.kind = "miss" /\ TypeOK
  BY DEF MissClaimed, Answer, SInv
<1>2. Received \in Machine /\ Once(Received) /\ r \in PassReply /\ Fits(r)
  BY <1>1, ReceivedTyped, OnceReceived, ReplyParts
<1>3. /\ asked \in PassReply /\ asked.pass = r.pass /\ asked.kind = "missed"
      /\ failed \in PassReply /\ failed.pass = r.pass /\ failed.kind = "missed"
  BY <1>2 DEF PassReply, Answers
<1>4. \E x \in {Received, [Received EXCEPT !.inject = TRUE]} :
          Become(IF x.inject THEN Rejected(x, asked) ELSE Send(x, asked))
  BY DEF MissClaimed, Does
<1> HIDE DEF asked
<1>5. asked \in Reply /\ failed \in Reply /\ Fits(asked) /\ Fits(failed)
  BY <1>1, <1>2, <1>3 DEF Reply, Fits
<1> QED BY <1>2, <1>4, <1>5, RequestOnce
LEMMA MissRefusedOnce ==
    ASSUME SInv, OInv, DueTimesKnown', MissRefused
    PROVE  OInv'
<1> DEFINE r == Head(replies)
           h == [Received.hist EXCEPT !.skip = IF r.ok = "no" THEN @
                                               ELSE {k \in @ : k[1] # r.row.slot}]
           from == [Received EXCEPT !.hist = h]
           Op(m) == Normalize(m, r.pass)
<1>1. replies # <<>> /\ r.kind = "miss" /\ TypeOK
  BY DEF MissRefused, Answer, SInv
<1>2. /\ Received \in Machine /\ Once(Received) /\ r \in PassReply /\ Fits(r)
      /\ now \in Times
  BY <1>1, ReceivedTyped, OnceReceived, ReplyParts DEF TypeOK
<1>3. [Received EXCEPT !.hist.skip = IF r.ok = "no" THEN @
                                     ELSE {k \in @ : k[1] # r.row.slot}] = from
  BY <1>2 DEF Machine, History
<1>4. \E x \in {from, [from EXCEPT !.inject = TRUE]} : Become(Op(x))
  BY <1>3 DEF MissRefused, Does
<1>5. h \in History /\ h.fate = Received.hist.fate
  BY <1>2 DEF Machine, History
<1>6. from = [Received EXCEPT !.hist = h]
  OBVIOUS
<1> HIDE DEF h, from
<1>7. from \in Machine /\ Once(from)
  BY <1>2, <1>5, <1>6 DEF Machine, Once
<1>8. PICK x \in Machine : Once(x) /\ Become(Op(x))
  BY <1>4, <1>7, InjectOnce
<1>9. r.pass \in Pass /\ Sure(r.pass)
  BY <1>1, <1>2 DEF PassReply, Fits
<1>10. Keeps(x, Op(x))
  BY <1>2, <1>9, NormalizeOnce
<1> QED BY <1>8, <1>10, OnceAfter

LEMMA MissedOnce ==
    ASSUME SInv, OInv, DueTimesKnown', Missed
    PROVE  OInv'
<1> DEFINE r == Head(replies)
           s == r.row.slot
           k(m) == [m EXCEPT !.hist.skewed = @ \cup {s}]
           Op(m) == IF r.ok = "yes" THEN Normalize(Apply(m, s, r.next), r.pass)
                    ELSE Normalize(k(m), r.pass)
<1>1. replies # <<>> /\ r.kind = "missed" /\ TypeOK
  BY DEF Missed, Answer, SInv
<1>2. /\ Received \in Machine /\ Once(Received) /\ r \in PassReply /\ Fits(r)
      /\ now \in Times
  BY <1>1, ReceivedTyped, OnceReceived, ReplyParts DEF TypeOK
<1>3. s \in Slots /\ r.next \in Nat /\ r.pass \in Pass /\ Sure(r.pass)
  BY <1>1, <1>2 DEF PassReply, Held, Due, Fits
<1>4. \E x \in {Received, [Received EXCEPT !.inject = TRUE]} : Become(Op(x))
  BY DEF Missed, Does
<1>5. PICK x \in Machine : Once(x) /\ Become(Op(x))
  BY <1>2, <1>4, InjectOnce
<1> DEFINE n == Op(x)
<1>6. Become(n)
  BY <1>5
<1>7. CASE r.ok = "yes"
  <2> DEFINE p == Put(x, s, r.next)
             a == Apply(x, s, r.next)
  <2>1. Once(p) /\ Keeps(p, a) /\ a \in Machine
    BY <1>2, <1>3, <1>5, ApplyOnce DEF Keeps
  <2>2. n = Normalize(a, r.pass)
    BY <1>7
  <2> HIDE DEF n, p, a
  <2>3. Keeps(a, n)
    BY <1>2, <1>3, <2>1, <2>2, NormalizeOnce
  <2>4. Keeps(p, n)
    BY <2>1, <2>3, KeepsAgain
  <2> QED BY <1>6, <2>1, <2>4, OnceAfter
<1>8. CASE r.ok # "yes"
  <2> DEFINE h == [x.hist EXCEPT !.skewed = @ \cup {s}]
             b == k(x)
  <2>1. b = [x EXCEPT !.hist = h]
    BY DEF Machine, History
  <2>2. n = Normalize(b, r.pass)
    BY <1>8
  <2>3. h \in History /\ h.fate = x.hist.fate
    BY <1>3 DEF Machine, History
  <2> HIDE DEF n, b, h, k
  <2>4. b \in Machine /\ Once(b)
    BY <1>5, <2>1, <2>3 DEF Machine, Once
  <2>5. Keeps(b, n)
    BY <1>2, <1>3, <2>2, <2>4, NormalizeOnce
  <2> QED BY <1>6, <2>4, <2>5, OnceAfter
<1> QED BY <1>7, <1>8

(* There is nothing to fill in.                                            *)
LEMMA FilledOnce ==
    ASSUME SInv, OInv, Filled
    PROVE  OInv'
<1>1. replies # <<>> /\ Head(replies).kind = "filled" /\ TypeOK
  BY DEF Filled, Answer, SInv
<1> QED BY <1>1, OnceReceived DEF Fits

LEMMA UserAnsweredOnce ==
    ASSUME SInv, OInv, DueTimesKnown', NEW kind, NEW taken \in SUBSET Slots, NEW row \in Row,
           UserAnswered(kind, taken, row)
    PROVE  OInv'
<1> DEFINE f(m) == [s \in Slots |-> IF s \in taken THEN row ELSE m.slots[s]]
           h(m) == [m.hist EXCEPT !.skewed = {s \in @ : s \notin taken \/ Outstanding(m, s)}]
<1>1. replies # <<>> /\ TypeOK /\ now \in Times
  BY DEF UserAnswered, Answer, SInv, TypeOK
<1>2. Received \in Machine /\ Once(Received)
  BY <1>1, ReceivedTyped, OnceReceived
<1>3. \E x \in {Received, [Received EXCEPT !.inject = TRUE]} : Become(Takes(x, taken, row))
  BY DEF UserAnswered, Does
<1>4. PICK x \in Machine : Once(x) /\ Become(Takes(x, taken, row))
  BY <1>2, <1>3, InjectOnce
<1> DEFINE g == f(x)
           k == h(x)
           a == [x EXCEPT !.slots = g]
           b == [a EXCEPT !.hist = k]
           n == Takes(x, taken, row)
<1>5. n = Changed(b)
  BY DEF Takes
<1>6. g \in [Slots -> Row] /\ k \in History /\ k.fate = x.hist.fate
  <2>1. x.slots \in [Slots -> Row] /\ x.hist \in History
    BY DEF Machine
  <2> QED BY <2>1 DEF History
<1>7. a = [x EXCEPT !.slots = g] /\ b = [a EXCEPT !.hist = k]
  OBVIOUS
<1> HIDE DEF a, b, g, k, n
<1>8. b \in Machine /\ b.db = x.db /\ b.replies = x.replies /\ b.hist = k
  BY <1>6, <1>7 DEF Machine
<1>9. Once(b)
  BY <1>4, <1>6, <1>8 DEF Once
<1>10. Keeps(b, n)
  BY <1>1, <1>5, <1>8, ChangedOnce
<1> QED BY <1>4, <1>9, <1>10, OnceAfter DEF n

LEMMA UserAnswersOnce ==
    ASSUME SInv, OInv, DueTimesKnown', Saved \/ Removed \/ Cleared
    PROVE  OInv'
<1>1. TypeOK /\ Absent \in Row
  BY RuleExists DEF SInv
<1> DEFINE r == Head(replies)
<1>2. CASE Saved
  <2>1. replies # <<>> /\ r.kind = "saved"
    BY <1>2 DEF Saved, UserAnswered, Answer
  <2>2. r.slot \in Slots /\ r.stored \in Row
    BY <1>1, <2>1, ReceivedTyped, ReplyParts
  <2>3. UserAnswered("saved", {r.slot}, r.stored) /\ {r.slot} \in SUBSET Slots
    BY <1>2, <2>2 DEF Saved
  <2> QED BY <2>2, <2>3, UserAnsweredOnce
<1>3. CASE Removed
  <2>1. replies # <<>> /\ r.kind = "removed"
    BY <1>3 DEF Removed, UserAnswered, Answer
  <2>2. r.slot \in Slots
    BY <1>1, <2>1, ReceivedTyped, ReplyParts
  <2>3. UserAnswered("removed", {r.slot}, Absent) /\ {r.slot} \in SUBSET Slots
    BY <1>3, <2>2 DEF Removed
  <2> QED BY <1>1, <2>3, UserAnsweredOnce
<1>4. CASE Cleared
  <2>1. UserAnswered("cleared", Slots, Absent) /\ Slots \in SUBSET Slots
    BY <1>4 DEF Cleared
  <2> QED BY <1>1, <2>1, UserAnsweredOnce
<1> QED BY <1>2, <1>3, <1>4
(* Timers, power events and start.                                         *)
LEMMA TimersOnce ==
    ASSUME SInv, OInv, DueTimesKnown', TimerFires \/ IntervalFires
    PROVE  OInv'
<1>1. TypeOK /\ now \in Times /\ Once(Here) /\ Here \in Machine
  BY HereTyped DEF SInv, TypeOK, OInv
<1> DEFINE s == [sch EXCEPT !.timer = NoTimer]
           from == [Here EXCEPT !.sch = s]
<1>2. s \in Scheduler /\ Here.sch = sch
  BY <1>1 DEF TypeOK, Scheduler, NoTimer, Here
<1>3. [Here EXCEPT !.sch.timer = NoTimer] = from
  BY DEF Here
<1> HIDE DEF Here
<1>4. from \in Machine /\ Once(from)
  BY <1>1, <1>2, SchSet, SchStill DEF Still, Once
<1>5. PICK m \in {Here, from} :
          \E x \in {m, [m EXCEPT !.inject = TRUE]} : Become(Tick(x))
  BY <1>3 DEF TimerFires, IntervalFires, Does
<1>6. m \in Machine /\ Once(m)
  BY <1>1, <1>4
<1>7. PICK x \in Machine : Once(x) /\ Become(Tick(x))
  BY <1>5, <1>6, InjectOnce
<1>8. Keeps(x, Tick(x))
  BY <1>1, <1>7, TickOnce
<1> QED BY <1>7, <1>8, OnceAfter

LEMMA PowerResumeOnce ==
    ASSUME SInv, OInv, DueTimesKnown', PowerResume
    PROVE  OInv'
<1> DEFINE e(m) == [m.sch EXCEPT !.epoch = @ + 1]
           p(m) == [e(m) EXCEPT !.reconcilePending = TRUE]
           q(m) == [e(m) EXCEPT !.running = TRUE]
           from == IF sch.subscribed /\ master THEN Skipping(Here) ELSE Here
           R(m) == LET m1 == [m EXCEPT !.sch.epoch = @ + 1]
                   IN  IF ~m.sch.subscribed THEN m
                       ELSE IF m.sch.running
                       THEN [m1 EXCEPT !.sch.reconcilePending = TRUE]
                       ELSE IF m.master
                       THEN Reconcile([m1 EXCEPT !.sch.running = TRUE], "resume",
                                      "skip-missed")
                       ELSE Arm(m1)
<1>1. TypeOK /\ now \in Times /\ Once(Here) /\ Here \in Machine
  BY HereTyped DEF SInv, TypeOK, OInv
<1>2. from \in Machine /\ Once(from)
  BY <1>1, SkippingStep, SkippingStill DEF Quiet, Still, Once
<1>3. \E x \in {from, [from EXCEPT !.inject = TRUE]} : Become(R(x))
  BY DEF PowerResume, Does
<1> HIDE DEF from
<1>4. PICK x \in Machine : Once(x) /\ Become(R(x))
  <2> HIDE DEF R
  <2> QED BY <1>2, <1>3, InjectOnce
<1> DEFINE a == [x EXCEPT !.sch.epoch = @ + 1]
           b == [a EXCEPT !.sch.reconcilePending = TRUE]
           c == [a EXCEPT !.sch.running = TRUE]
           n == R(x)
<1>5. n = IF ~x.sch.subscribed THEN x
          ELSE IF x.sch.running THEN b
          ELSE IF x.master THEN Reconcile(c, "resume", "skip-missed")
          ELSE Arm(a)
  OBVIOUS
<1>6. e(x) \in Scheduler /\ p(x) \in Scheduler /\ q(x) \in Scheduler
  <2>1. x.sch \in Scheduler
    BY DEF Machine
  <2>2. e(x) \in Scheduler
    BY <2>1 DEF Scheduler
  <2> DEFINE y == e(x)
  <2>3. p(x) = [y EXCEPT !.reconcilePending = TRUE] /\ q(x) = [y EXCEPT !.running = TRUE]
    OBVIOUS
  <2> HIDE DEF y, p, q
  <2>4. p(x) \in Scheduler /\ q(x) \in Scheduler
    BY <2>2, <2>3 DEF y, Scheduler
  <2> QED BY <2>2, <2>4
<1>7. a = [x EXCEPT !.sch = e(x)] /\ b = [x EXCEPT !.sch = p(x)] /\ c = [x EXCEPT !.sch = q(x)]
  BY DEF Machine, Scheduler
<1> HIDE DEF a, b, c, n, R, e, p, q
<1>8. a \in Machine /\ b \in Machine /\ c \in Machine /\ Keeps(x, a) /\ Keeps(x, b) /\ Keeps(x, c)
  BY <1>6, <1>7, SchSet, SchStill, StillKeeps
<1>9. Keeps(c, Reconcile(c, "resume", "skip-missed")) /\ Keeps(a, Arm(a)) /\ Keeps(x, x)
  BY <1>1, <1>8, ReconcileOnce, ArmStep, ArmStill, StillKeeps DEF Callers, Quiet, Keeps
<1>10. Keeps(x, n)
  BY <1>5, <1>8, <1>9, KeepsAgain
<1> QED BY <1>4, <1>10, OnceAfter DEF n

(* hydrate() copies the table.                                             *)
LEMMA BootOnce ==
    ASSUME SInv, OInv, DueTimesKnown', Boot
    PROVE  OInv'
<1> DEFINE s == [sch EXCEPT !.started = TRUE, !.lastEnabled = master]
           m == [[Here EXCEPT !.slots = db] EXCEPT !.sch = s]
           from == IF master THEN Skipping(m) ELSE m
           Op(x) == IF master THEN Reconcile(x, "start", "skip-missed")
                    ELSE Normalized(x, "start")
<1>1. TypeOK /\ Here \in Machine /\ now \in Times /\ Once(Here)
  BY HereTyped DEF SInv, TypeOK, OInv
<1>2. sch = IdleScheduler
  BY DEF Boot, SInv
<1>3. s \in Scheduler
  BY <1>1, <1>2 DEF IdleScheduler, Scheduler, TypeOK
<1>4. [Here EXCEPT !.slots = db, !.sch.started = TRUE, !.sch.lastEnabled = master] = m
  BY DEF Here
<1>5. \E x \in {from, [from EXCEPT !.inject = TRUE]} : Become(Op(x))
  <2> DEFINE k == [Here EXCEPT !.slots = db, !.sch.started = TRUE, !.sch.lastEnabled = master]
  <2>1. \E x \in {IF master THEN Skipping(k) ELSE k,
                  [(IF master THEN Skipping(k) ELSE k) EXCEPT !.inject = TRUE]} :
            Become(Op(x))
    BY DEF Boot, Does
  <2>2. k = m
    BY <1>4
  <2> HIDE DEF k, m, Op
  <2> QED BY <2>1, <2>2
<1>6. m \in Machine /\ m.db = db /\ m.replies = replies /\ m.hist = hist
  BY <1>1, <1>3 DEF Here, Machine, TypeOK
<1>7. Once(m)
  <2> HIDE DEF m
  <2> QED BY <1>1, <1>6 DEF Once, Here
<1> HIDE DEF m, s
<1>8. from \in Machine /\ Once(from)
  BY <1>1, <1>6, <1>7, SkippingStep, SkippingStill DEF Quiet, Still, Once
<1> HIDE DEF from
<1>9. PICK x \in Machine : Once(x) /\ Become(Op(x))
  <2> HIDE DEF Op
  <2> QED BY <1>5, <1>8, InjectOnce
<1>10. Keeps(x, Reconcile(x, "start", "skip-missed")) /\ Keeps(x, Normalized(x, "start"))
  BY <1>1, ReconcileOnce, NormalizedStep, NormalizedStill, StillKeeps DEF Callers, Carries
<1> QED BY <1>9, <1>10, OnceAfter

-----------------------------------------------------------------------------
(* The user. A row that is edited starts anew.                             *)
LEMMA RewriteOnce ==
    ASSUME SInv, OInv, NEW edited \in SUBSET Slots, NEW row \in Row,
           NEW r \in Reply, Become(Rewrite(Here, edited, row, r)),
           r.kind \in {"saved", "removed", "cleared"}
    PROVE  OInv'
<1> DEFINE n == Rewrite(Here, edited, row, r)
           q == Append(replies, r)
<1>1. replies \in Seq(Reply) /\ db \in [Slots -> Row]
  BY DEF SInv, TypeOK
<1>2. /\ \A s \in Slots : s \notin edited => n.db[s] = db[s]
      /\ n.replies = q
      /\ \A s \in Slots : n.hist.fate[s] = IF s \in edited THEN [t \in Times |-> "open"]
                                           ELSE hist.fate[s]
  BY DEF Rewrite, Here
<1> HIDE DEF n
<1>3. Fits(r)
  BY DEF Fits
<1>4. \A i \in DOMAIN q : Fits(q[i])
  BY <1>1, <1>3, FitsSent DEF OInv, Once, Here
<1> HIDE DEF q
<1>5. ASSUME NEW s \in Slots, NEW t \in Times, n.hist.fate[s][t] # "open"
      PROVE  n.hist.fate[s][t] # "twice" /\ t < n.db[s].due
  <2>1. s \notin edited
    BY <1>2, <1>5
  <2>2. n.hist.fate[s] = hist.fate[s] /\ n.db[s] = db[s]
    BY <1>2, <2>1
  <2> QED BY <1>5, <2>2 DEF OInv, Once, Here
<1>6. Once(n)
  BY <1>2, <1>4, <1>5 DEF Once
<1> QED BY <1>6, OnceHere DEF n

LEMMA EditsOnce ==
    ASSUME SInv, OInv, Save \/ Remove \/ ClearTable
    PROVE  OInv'
<1>1. TypeOK /\ now \in Times /\ Absent \in Row
  BY RuleExists DEF SInv, TypeOK
<1>2. CASE Save
  <2>1. PICK s \in Slots, on \in BOOLEAN, rule \in Rules :
            Become(Rewrite(Here, {s}, Edited(on, rule, now),
                           [kind |-> "saved", slot |-> s, stored |-> Edited(on, rule, now)]))
    BY <1>2 DEF Save
  <2> DEFINE row == Edited(on, rule, now)
             r == [kind |-> "saved", slot |-> s, stored |-> row]
  <2>2. row \in Row
    BY <1>1, EditedTyped
  <2>3. Become(Rewrite(Here, {s}, row, r))
    BY <2>1
  <2> HIDE DEF row
  <2>4. r \in Reply /\ r.kind = "saved" /\ {s} \in SUBSET Slots
    BY <2>2 DEF Reply, UserReply
  <2> HIDE DEF r
  <2> QED BY <2>2, <2>3, <2>4, RewriteOnce
<1>3. CASE Remove
  <2>1. PICK s \in Slots :
            Become(Rewrite(Here, {s}, Absent, [kind |-> "removed", slot |-> s]))
    BY <1>3 DEF Remove
  <2> DEFINE r == [kind |-> "removed", slot |-> s]
  <2>2. r \in Reply /\ r.kind = "removed" /\ {s} \in SUBSET Slots
    BY DEF Reply, UserReply
  <2>3. Become(Rewrite(Here, {s}, Absent, r))
    BY <2>1
  <2> HIDE DEF r
  <2> QED BY <1>1, <2>2, <2>3, RewriteOnce
<1>4. CASE ClearTable
  <2> DEFINE r == [kind |-> "cleared"]
  <2>1. r \in Reply /\ r.kind = "cleared"
    BY DEF Reply, UserReply
  <2>2. Become(Rewrite(Here, Slots, Absent, r)) /\ Slots \in SUBSET Slots
    BY <1>4 DEF ClearTable
  <2> HIDE DEF r
  <2> QED BY <1>1, <2>1, <2>2, RewriteOnce
<1> QED BY <1>2, <1>3, <1>4

LEMMA SettingsOnce ==
    ASSUME SInv, OInv, DueTimesKnown', ClearAll \/ SetMaster \/ SettingChanged
    PROVE  OInv'
<1>1. TypeOK /\ now \in Times /\ Once(Here) /\ Here \in Machine
  BY HereTyped DEF SInv, TypeOK, OInv
<1>2. ASSUME NEW on \in BOOLEAN, Become(Refresh([Here EXCEPT !.master = on]))
      PROVE  OInv'
  <2> DEFINE m == [Here EXCEPT !.master = on]
  <2>1. m \in Machine /\ Once(m)
    BY <1>1 DEF Machine, Once
  <2>2. Become(Refresh(m))
    BY <1>2
  <2> HIDE DEF m
  <2>3. Keeps(m, Refresh(m))
    BY <1>1, <2>1, RefreshOnce
  <2> QED BY <2>1, <2>2, <2>3, OnceAfter
<1>3. CASE ClearAll
  BY <1>2, <1>3 DEF ClearAll
<1>4. CASE SetMaster
  <2>1. (~master) \in BOOLEAN /\ Become(Refresh([Here EXCEPT !.master = ~master]))
    BY <1>1, <1>4 DEF SetMaster, TypeOK
  <2> QED BY <1>2, <2>1
<1>5. CASE SettingChanged
  <2>1. \E x \in {Here, [Here EXCEPT !.inject = TRUE]} : Become(Refresh(x))
    BY <1>5 DEF SettingChanged, Does
  <2> HIDE DEF Here
  <2>2. PICK x \in Machine : Once(x) /\ Become(Refresh(x))
    BY <1>1, <2>1, InjectOnce
  <2>3. Keeps(x, Refresh(x))
    BY <1>1, <2>2, RefreshOnce
  <2> QED BY <2>2, <2>3, OnceAfter
<1> QED BY <1>3, <1>4, <1>5

(* Neither the table nor a fate changes, and no reply comes to be.         *)
LEMMA NothingSettled ==
    ASSUME SInv, OInv, SendNow \/ Sleep \/ Wake \/ Clock \/ Crash \/ UNCHANGED vars
    PROVE  OInv'
<1>1. /\ db' = db /\ hist'.fate = hist.fate
      /\ replies' = replies \/ replies' = <<>>
  <2>0. hist \in History
    BY DEF SInv, TypeOK, History
  <2>1. CASE SendNow
    <3>1. PICK ds, sk : Become([[Here EXCEPT !.sch.running = TRUE, !.deliveries = ds]
                                  EXCEPT !.hist.skewed = sk])
      BY <2>1, ZenonT(120) DEF SendNow, Here
    <3> QED BY <2>0, <3>1 DEF Become, Here, History
  <2>2. CASE Crash
    <3>1. db' = db /\ replies' = <<>>
      BY <2>2 DEF Crash, Become, Here
    <3>2. hist' = [[hist EXCEPT !.skip = {}] EXCEPT !.skewed = {}]
      BY <2>2 DEF Crash, Become, Here
    <3> QED BY <2>0, <3>1, <3>2 DEF History
  <2>3. CASE Sleep \/ Wake \/ Clock \/ UNCHANGED vars
    BY <2>3 DEF Sleep, Wake, Clock, vars, machine
  <2> QED BY <2>1, <2>2, <2>3
<1>2. \A i \in DOMAIN replies' : Fits(replies'[i])
  BY <1>1 DEF OInv, Once, Here
<1> QED BY <1>1, <1>2 DEF OInv, Once, Here

LEMMA ONext ==
    ASSUME SInv, OInv, DueTimesKnown', [Next]_vars
    PROVE  OInv'
<1>1. CASE Respond
  BY <1>1, FireClaimedOnce, FireRefusedOnce, RecordedOnce, MissClaimedOnce, MissRefusedOnce,
     MissedOnce, FilledOnce, UserAnswersOnce DEF Respond
<1>2. CASE Delivered
  BY <1>2, DeliveredOnce
<1>3. CASE TimerFires \/ IntervalFires
  BY <1>3, TimersOnce
<1>4. CASE PowerResume \/ Boot
  BY <1>4, PowerResumeOnce, BootOnce
<1>5. CASE Save \/ Remove \/ ClearAll \/ ClearTable \/ SetMaster \/ SettingChanged
  BY <1>5, EditsOnce, SettingsOnce
<1>6. CASE SendNow \/ Sleep \/ Wake \/ Clock \/ Crash \/ UNCHANGED vars
  BY <1>6, NothingSettled
<1> QED BY <1>1, <1>2, <1>3, <1>4, <1>5, <1>6 DEF Next

(* At most once (scheduled-broadcasts.md, "claimDue advances next_due_at   *)
(* before transmit"): an occurrence of a saved row is claimed once, to be  *)
(* sent or to be marked missed, never both, crashes included, for every    *)
(* number of slots and events, as long as no enabled row of the copy is    *)
(* without a due time. One is when it was stored so, or when Send now,     *)
(* begun while the slot was disabled, writes back the null it read then    *)
(* (scheduler.ts:373); scheduler.ts:175 gives such a row a due time in the *)
(* table without a claim.                                                  *)
THEOREM AtMostOnce == Spec /\ []DueTimesKnown => []OneFate
<1>1. Init => OInv
  <2>1. SUFFICES ASSUME Init PROVE OInv
    OBVIOUS
  <2>2. \A s \in Slots, t \in Times : hist.fate[s][t] = "open"
    BY <2>1 DEF Init
  <2>3. DOMAIN replies = {}
    BY <2>1 DEF Init
  <2> QED BY <2>2, <2>3 DEF OInv, Once, Here
<1>2. SInv /\ OInv /\ DueTimesKnown' /\ [Next]_vars => OInv'
  BY ONext
<1>3. OInv => OneFate
  BY DEF OInv, Once, Here, OneFate
<1> QED BY <1>1, <1>2, <1>3, SchedulerInvariant, PTL DEF Spec
=============================================================================
