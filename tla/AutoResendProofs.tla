-------------------------- MODULE AutoResendProofs --------------------------
(***************************************************************************)
(* Safety of the automatic resends for every number of messages, sends and *)
(* resends: proofs about AutoResend. The operators of the controller are   *)
(* described first, one lemma for what each leaves in each of the maps and *)
(* one for each part of the invariant it keeps; a handler is then a        *)
(* composition of them.                                                    *)
(***************************************************************************)
EXTENDS AutoResend, FiniteSetTheorems, TLAPS

-----------------------------------------------------------------------------
(***************************************************************************)
(* The controller's state.                                                 *)
(***************************************************************************)
MsgRow == [st : {"none", "sending", "acked", "failed"}, autos : Nat,
           of : Ids \cup {None}, quiet : BOOLEAN]
Lines == [used : Nat, origin : Ids \cup {None}]

(* The order of the Map is left untyped: nothing below depends on which    *)
(* key makes room.                                                         *)
Shape(c) ==
    /\ c = [msgs |-> c.msgs, tracked |-> c.tracked, order |-> c.order,
            entries |-> c.entries, timers |-> c.timers, told |-> c.told]
    /\ c.msgs \in [Ids -> MsgRow] /\ c.tracked \in [Ids -> Lines]
    /\ c.entries \in [Ids -> Nat] /\ c.timers \in SUBSET Ids
    /\ c.told \in [Ids -> Nat]

IsTracked(c, k) == c.tracked[k].origin # None

(* A countdown is a timer and an entry of the map.                         *)
Timed(c) == \A k \in Ids : c.entries[k] > 0 <=> k \in c.timers

(* A tracked row that has failed has its countdown.                        *)
Ready(c) == \A k \in Ids : IsTracked(c, k) /\ c.msgs[k].st = "failed" => c.entries[k] > 0

LEMMA IdsFinite == IsFiniteSet(Ids) /\ Ids \subseteq Nat \ {0} /\ None \notin Ids
<1> DEFINE B(p) == IF p \in Protocols THEN MaxIds[p] ELSE 0
<1>1. \A p : B(p) \in Nat
  BY AutoResendAssumption
<1>2. \A k \in Ids : \E p \in Protocols : k \in 1..B(p)
  BY DEF Ids
<1> HIDE DEF B
<1>3. Ids \subseteq Nat \ {0}
  BY <1>1, <1>2
<1> DEFINE n == B("meshtastic") + B("meshcore") + B("reticulum")
<1>4. n \in Nat /\ \A k \in Ids : k <= n
  <2>1. \A p \in Protocols : B(p) <= n
    BY <1>1, AutoResendAssumption
  <2>2. n \in Nat
    BY <1>1
  <2> HIDE DEF n
  <2> QED BY <1>1, <1>2, <2>1, <2>2
<1> HIDE DEF n
<1>5. IsFiniteSet(Ids)
  BY <1>3, <1>4, FS_BoundedSetOfNaturals
<1> QED BY <1>3, <1>5, AutoResendAssumption

-----------------------------------------------------------------------------
(***************************************************************************)
(* What the operators leave in each map.                                   *)
(***************************************************************************)
LEMMA NoInfoType == NoInfo \in Lines /\ ~(NoInfo.origin # None)
BY DEF NoInfo, Lines

LEMMA RowType == \A st \in {"none", "sending"} : Row(st) \in MsgRow
BY DEF Row, MsgRow

LEMMA UntrackFields ==
    ASSUME NEW c, Shape(c), NEW k
    PROVE  /\ Shape(Untrack(c, k))
           /\ Untrack(c, k).msgs = c.msgs /\ Untrack(c, k).told = c.told
           /\ Untrack(c, k).entries = c.entries /\ Untrack(c, k).timers = c.timers
           /\ Untrack(c, k).tracked = [c.tracked EXCEPT ![k] = NoInfo]
<1> DEFINE t == [c.tracked EXCEPT ![k] = NoInfo]
           q == Without(c.order, {k})
<1>1. Untrack(c, k) = [msgs |-> c.msgs, tracked |-> t, order |-> q,
                       entries |-> c.entries, timers |-> c.timers, told |-> c.told]
  <2> HIDE DEF q
  <2>1. Untrack(c, k) = [c EXCEPT !.tracked = t, !.order = q]
    BY DEF Untrack, q
  <2> HIDE DEF t
  <2> QED BY <2>1 DEF Shape
<1>2. t \in [Ids -> Lines]
  BY NoInfoType DEF Shape
<1> HIDE DEF t, q
<1> QED BY <1>1, <1>2 DEF Shape, t

LEMMA ClearEntryFields ==
    ASSUME NEW c, Shape(c), NEW k
    PROVE  /\ Shape(ClearEntry(c, k))
           /\ ClearEntry(c, k).msgs = c.msgs /\ ClearEntry(c, k).told = c.told
           /\ ClearEntry(c, k).tracked = c.tracked
           /\ ClearEntry(c, k).entries = [c.entries EXCEPT ![k] = 0]
           /\ ClearEntry(c, k).timers = c.timers \ {k}
<1> DEFINE e == [c.entries EXCEPT ![k] = 0]
<1>1. ClearEntry(c, k) = [msgs |-> c.msgs, tracked |-> c.tracked, order |-> c.order,
                          entries |-> e, timers |-> c.timers \ {k}, told |-> c.told]
  <2>1. ClearEntry(c, k) = [c EXCEPT !.entries = e, !.timers = c.timers \ {k}]
    BY DEF ClearEntry
  <2> HIDE DEF e
  <2> QED BY <2>1 DEF Shape
<1>2. e \in [Ids -> Nat]
  BY DEF Shape
<1> HIDE DEF e
<1> QED BY <1>1, <1>2 DEF Shape, e

LEMMA RoomIsUntrack ==
    ASSUME NEW c
    PROVE  Room(c) = c \/ \E k : Room(c) = Untrack(c, k)
BY DEF Room

(* Room may cost any key its place, and changes nothing else.              *)
LEMMA TrackFields ==
    ASSUME NEW c, Shape(c), NEW k \in Ids, NEW info \in Lines
    PROVE  /\ Shape(Track(c, k, info))
           /\ Track(c, k, info).msgs = c.msgs /\ Track(c, k, info).told = c.told
           /\ Track(c, k, info).entries = c.entries
           /\ Track(c, k, info).timers = c.timers
           /\ Track(c, k, info).tracked[k] = info
           /\ \A j \in Ids : j # k =>
                 \/ Track(c, k, info).tracked[j] = c.tracked[j]
                 \/ Track(c, k, info).tracked[j] = NoInfo
<1> DEFINE d == IF k \in Tracked(c) THEN c
                ELSE [Room(c) EXCEPT !.order = Append(@, k)]
           t == [d.tracked EXCEPT ![k] = info]
<1>1. /\ Shape(Room(c)) /\ Room(c).msgs = c.msgs /\ Room(c).told = c.told
      /\ Room(c).entries = c.entries /\ Room(c).timers = c.timers
      /\ \A j \in Ids : Room(c).tracked[j] = c.tracked[j] \/ Room(c).tracked[j] = NoInfo
  <2>1. CASE Room(c) = c
    BY <2>1
  <2>2. ASSUME NEW i, Room(c) = Untrack(c, i)
        PROVE  /\ Shape(Room(c)) /\ Room(c).msgs = c.msgs /\ Room(c).told = c.told
               /\ Room(c).entries = c.entries /\ Room(c).timers = c.timers
               /\ \A j \in Ids : \/ Room(c).tracked[j] = c.tracked[j]
                                 \/ Room(c).tracked[j] = NoInfo
    <3>1. c.tracked \in [Ids -> Lines]
      BY DEF Shape
    <3> DEFINE u == Untrack(c, i)
    <3>4. /\ Shape(u) /\ u.msgs = c.msgs /\ u.told = c.told
          /\ u.entries = c.entries /\ u.timers = c.timers
          /\ u.tracked = [c.tracked EXCEPT ![i] = NoInfo]
      BY UntrackFields
    <3>2. \A j \in Ids : u.tracked[j] = c.tracked[j] \/ u.tracked[j] = NoInfo
      BY <3>1, <3>4
    <3>3. \A j \in Ids : Room(c).tracked[j] = c.tracked[j] \/ Room(c).tracked[j] = NoInfo
      BY <2>2, <3>2
    <3> HIDE DEF u
    <3>5. Room(c) = u
      BY <2>2 DEF u
    <3> QED BY <3>3, <3>4, <3>5
  <2> QED BY <2>1, <2>2, RoomIsUntrack
<1>2. /\ Shape(d) /\ d.msgs = c.msgs /\ d.told = c.told
      /\ d.entries = c.entries /\ d.timers = c.timers
      /\ \A j \in Ids : d.tracked[j] = c.tracked[j] \/ d.tracked[j] = NoInfo
  <2> DEFINE r == Room(c)
             q == Append(r.order, k)
  <2> HIDE DEF r
  <2>1. Shape(r) => [r EXCEPT !.order = q]
                      = [msgs |-> r.msgs, tracked |-> r.tracked, order |-> q,
                         entries |-> r.entries, timers |-> r.timers, told |-> r.told]
    <3> HIDE DEF q
    <3> QED BY DEF Shape
  <2>2. d = c \/ d = [r EXCEPT !.order = q]
    BY DEF r
  <2> HIDE DEF q, d
  <2>3. CASE d = c
    BY <2>3
  <2>4. CASE d = [r EXCEPT !.order = q]
    <3>1. /\ Shape(r) /\ r.msgs = c.msgs /\ r.told = c.told
          /\ r.entries = c.entries /\ r.timers = c.timers
          /\ \A j \in Ids : r.tracked[j] = c.tracked[j] \/ r.tracked[j] = NoInfo
      BY <1>1 DEF r
    <3>2. /\ d.msgs = r.msgs /\ d.tracked = r.tracked /\ d.order = q
          /\ d.entries = r.entries /\ d.timers = r.timers /\ d.told = r.told
      BY <2>1, <2>4, <3>1
    <3>3. Shape(d)
      BY <2>1, <2>4, <3>1, <3>2 DEF Shape
    <3> QED BY <3>1, <3>2, <3>3
  <2> QED BY <2>2, <2>3, <2>4
<1>3. Track(c, k, info) = [d EXCEPT !.tracked = t]
  BY DEF Track
<1> HIDE DEF d
<1>4. t \in [Ids -> Lines] /\ t[k] = info /\ \A j \in Ids : j # k => t[j] = d.tracked[j]
  BY <1>2 DEF Shape
<1> HIDE DEF t
<1>5. Track(c, k, info) = [msgs |-> d.msgs, tracked |-> t, order |-> d.order,
                           entries |-> d.entries, timers |-> d.timers, told |-> d.told]
  BY <1>2, <1>3 DEF Shape
<1> QED BY <1>2, <1>4, <1>5 DEF Shape

(* The rows evaluateTrackedOutbound has done with, and those it arms.      *)
Fails(c, k) == c.msgs[k].st = "failed" /\ c.entries[k] = 0
Over(c) == {k \in Ids : /\ IsTracked(c, k)
                        /\ \/ c.msgs[k].st = "acked"
                           \/ Fails(c, k) /\ c.tracked[k].used >= MaxResends}
Due(c) == {k \in Ids : IsTracked(c, k) /\ Fails(c, k) /\ c.tracked[k].used < MaxResends}
Ended(c, o) == {k \in Over(c) : c.tracked[k].origin = o}

LEMMA EndedFinite ==
    ASSUME NEW c, NEW o
    PROVE  IsFiniteSet(Ended(c, o)) /\ Cardinality(Ended(c, o)) \in Nat
<1>1. Ended(c, o) \in SUBSET Ids
  BY DEF Ended, Over
<1> QED BY <1>1, IdsFinite, FS_Subset, FS_CardinalityType

LEMMA EvaluateFields ==
    ASSUME NEW c, Shape(c)
    PROVE  /\ Shape(Evaluate(c)) /\ Evaluate(c).msgs = c.msgs
           /\ Evaluate(c).tracked = [k \in Ids |-> IF k \in Over(c) THEN NoInfo
                                                   ELSE c.tracked[k]]
           /\ \A k \in Ids : Evaluate(c).entries[k] =
                 IF IsTracked(c, k) /\ c.msgs[k].st = "acked" THEN 0
                 ELSE IF k \in Due(c) THEN c.tracked[k].used + 1 ELSE c.entries[k]
           /\ Evaluate(c).timers =
                 (c.timers \ {k \in Ids : IsTracked(c, k) /\ c.msgs[k].st = "acked"})
                    \cup Due(c)
           /\ Evaluate(c).told = [o \in Ids |-> c.told[o] + Cardinality(Ended(c, o))]
<1> DEFINE acked  == {k \in Tracked(c) : c.msgs[k].st = "acked"}
           failed == {k \in Tracked(c) : c.msgs[k].st = "failed" /\ c.entries[k] = 0}
           spent  == {k \in failed : c.tracked[k].used >= MaxResends}
           due    == failed \ spent
           over   == acked \cup spent
           T == [k \in Ids |-> IF k \in over THEN NoInfo ELSE c.tracked[k]]
           Q == Without(c.order, over)
           E == [k \in Ids |-> IF k \in acked THEN 0
                               ELSE IF k \in due THEN c.tracked[k].used + 1
                               ELSE c.entries[k]]
           M == (c.timers \ acked) \cup due
           O == [o \in Ids |-> c.told[o]
                                 + Cardinality({k \in over : c.tracked[k].origin = o})]
<1>1. /\ acked = {k \in Ids : IsTracked(c, k) /\ c.msgs[k].st = "acked"}
      /\ failed = {k \in Ids : IsTracked(c, k) /\ Fails(c, k)}
  BY DEF Tracked, IsTracked, Fails
<1>2. \A k \in Ids : c.tracked[k].used \in Nat
  BY DEF Shape, Lines
<1>3. over = Over(c) /\ due = Due(c)
  <2>1. \A k \in Ids : c.tracked[k].used < MaxResends <=> ~(c.tracked[k].used >= MaxResends)
    BY <1>2, AutoResendAssumption
  <2> HIDE DEF acked, failed
  <2> QED BY <1>1, <2>1 DEF Over, Due
<1>4. Evaluate(c) = [c EXCEPT !.tracked = T, !.order = Q, !.entries = E,
                              !.timers = M, !.told = O]
  <2> HIDE DEF Q
  <2> QED BY DEF Evaluate, Q
<1>5. T \in [Ids -> Lines] /\ E \in [Ids -> Nat] /\ M \in SUBSET Ids
  <2> HIDE DEF over, due, acked
  <2>1. due \subseteq Ids
    BY <1>3 DEF Due
  <2> QED BY <1>2, <2>1, NoInfoType DEF Shape
<1>6. O \in [Ids -> Nat] /\ O = [o \in Ids |-> c.told[o] + Cardinality(Ended(c, o))]
  <2>1. \A o : {k \in over : c.tracked[k].origin = o} = Ended(c, o)
    BY <1>3 DEF Ended
  <2>2. O = [o \in Ids |-> c.told[o] + Cardinality(Ended(c, o))]
    BY <2>1
  <2> HIDE DEF O
  <2>3. \A o \in Ids : c.told[o] + Cardinality(Ended(c, o)) \in Nat
    <3>1. \A o \in Ids : c.told[o] \in Nat
      BY DEF Shape
    <3> QED BY <3>1, EndedFinite
  <2> QED BY <2>2, <2>3
<1> HIDE DEF T, Q, E, M, O
<1>7. Evaluate(c) = [msgs |-> c.msgs, tracked |-> T, order |-> Q,
                     entries |-> E, timers |-> M, told |-> O]
  BY <1>4 DEF Shape
<1>8. Shape(Evaluate(c))
  BY <1>5, <1>6, <1>7 DEF Shape
<1>9. /\ Evaluate(c).msgs = c.msgs /\ Evaluate(c).tracked = T
      /\ Evaluate(c).entries = E /\ Evaluate(c).timers = M /\ Evaluate(c).told = O
  BY <1>7
<1> HIDE DEF acked, failed, spent, due, over
<1>10. T = [k \in Ids |-> IF k \in Over(c) THEN NoInfo ELSE c.tracked[k]]
  BY <1>3 DEF T
<1>11. M = (c.timers \ {k \in Ids : IsTracked(c, k) /\ c.msgs[k].st = "acked"})
             \cup Due(c)
  BY <1>1, <1>3 DEF M
<1>12. \A k \in Ids : E[k] = IF IsTracked(c, k) /\ c.msgs[k].st = "acked" THEN 0
                            ELSE IF k \in Due(c) THEN c.tracked[k].used + 1
                            ELSE c.entries[k]
  BY <1>1, <1>3 DEF E
<1> QED BY <1>6, <1>8, <1>9, <1>10, <1>11, <1>12

-----------------------------------------------------------------------------
(***************************************************************************)
(* Countdowns: each operator leaves every tracked row that has failed with *)
(* its countdown.                                                          *)
(***************************************************************************)
Sound(c) == Shape(c) /\ Timed(c) /\ Ready(c)

LEMMA EvaluateSound ==
    ASSUME NEW c, Shape(c), Timed(c)
    PROVE  Sound(Evaluate(c))
<1> DEFINE e == Evaluate(c)
<1>1. /\ Shape(e) /\ e.msgs = c.msgs
      /\ e.tracked = [k \in Ids |-> IF k \in Over(c) THEN NoInfo ELSE c.tracked[k]]
      /\ \A k \in Ids : e.entries[k] =
            IF IsTracked(c, k) /\ c.msgs[k].st = "acked" THEN 0
            ELSE IF k \in Due(c) THEN c.tracked[k].used + 1 ELSE c.entries[k]
      /\ e.timers = (c.timers \ {k \in Ids : IsTracked(c, k) /\ c.msgs[k].st = "acked"})
                      \cup Due(c)
  BY EvaluateFields
<1>2. \A k \in Ids : c.tracked[k].used \in Nat /\ c.entries[k] \in Nat
  BY DEF Shape, Lines
<1> HIDE DEF e
<1>3. ASSUME NEW k \in Ids PROVE e.entries[k] > 0 <=> k \in e.timers
  <2>1. CASE IsTracked(c, k) /\ c.msgs[k].st = "acked"
    BY <1>1, <2>1 DEF Due, Fails
  <2>2. CASE ~(IsTracked(c, k) /\ c.msgs[k].st = "acked")
    BY <1>1, <1>2, <2>2 DEF Timed
  <2> QED BY <2>1, <2>2
<1>4. ASSUME NEW k \in Ids, IsTracked(e, k), e.msgs[k].st = "failed"
      PROVE  e.entries[k] > 0
  <2>1. k \notin Over(c) /\ IsTracked(c, k) /\ c.msgs[k].st = "failed"
    BY <1>1, <1>4, NoInfoType DEF IsTracked
  <2>2. CASE c.entries[k] = 0
    <3>1. ~(c.tracked[k].used >= MaxResends)
      BY <2>1, <2>2 DEF Over, Fails
    <3>2. k \in Due(c)
      BY <1>2, <2>1, <2>2, <3>1, AutoResendAssumption DEF Due, Fails
    <3> QED BY <1>1, <1>2, <2>1, <3>2
  <2>3. CASE c.entries[k] # 0
    <3>1. k \notin Due(c)
      BY <2>3 DEF Due, Fails
    <3> QED BY <1>1, <1>2, <2>1, <2>3, <3>1
  <2> QED BY <2>2, <2>3
<1>5. Timed(e)
  BY <1>3 DEF Timed
<1>6. Ready(e)
  BY <1>4 DEF Ready
<1> QED BY <1>1, <1>5, <1>6 DEF Sound, e

Wrote(c, k, row) == [c EXCEPT !.msgs = [@ EXCEPT ![k] = row]]

LEMMA WroteFields ==
    ASSUME NEW c, Shape(c), NEW k \in Ids, NEW row \in MsgRow
    PROVE  /\ Shape(Wrote(c, k, row))
           /\ Wrote(c, k, row).msgs = [c.msgs EXCEPT ![k] = row]
           /\ Wrote(c, k, row).tracked = c.tracked /\ Wrote(c, k, row).told = c.told
           /\ Wrote(c, k, row).entries = c.entries /\ Wrote(c, k, row).timers = c.timers
<1> DEFINE m == [c.msgs EXCEPT ![k] = row]
<1>1. Wrote(c, k, row) = [msgs |-> m, tracked |-> c.tracked, order |-> c.order,
                          entries |-> c.entries, timers |-> c.timers, told |-> c.told]
  <2>1. Wrote(c, k, row) = [c EXCEPT !.msgs = m]
    BY DEF Wrote
  <2> HIDE DEF m
  <2> QED BY <2>1 DEF Shape
<1>2. m \in [Ids -> MsgRow]
  BY DEF Shape
<1> HIDE DEF m
<1> QED BY <1>1, <1>2 DEF Shape, m

LEMMA WriteSound ==
    ASSUME NEW c, Shape(c), Timed(c), NEW k \in Ids, NEW row \in MsgRow
    PROVE  /\ Sound(Write(c, k, row))
           /\ Write(c, k, row).msgs = [c.msgs EXCEPT ![k] = row]
<1> DEFINE w == Wrote(c, k, row)
<1> HIDE DEF w
<1>1. Shape(w) /\ w.msgs = [c.msgs EXCEPT ![k] = row]
      /\ w.entries = c.entries /\ w.timers = c.timers
  BY WroteFields DEF w
<1>2. Write(c, k, row) = Evaluate(w)
  BY DEF Write, Wrote, w
<1>3. Timed(w)
  BY <1>1 DEF Timed
<1>4. Evaluate(w).msgs = w.msgs
  BY <1>1, EvaluateFields
<1> QED BY <1>1, <1>2, <1>3, <1>4, EvaluateSound

LEMMA UntrackSound ==
    ASSUME NEW c, Sound(c), NEW k
    PROVE  Sound(Untrack(c, k))
<1> DEFINE u == Untrack(c, k)
<1>1. /\ Shape(u) /\ u.msgs = c.msgs /\ u.entries = c.entries /\ u.timers = c.timers
      /\ u.tracked = [c.tracked EXCEPT ![k] = NoInfo]
  BY UntrackFields DEF Sound
<1> HIDE DEF u
<1>2. \A j \in Ids : IsTracked(u, j) => IsTracked(c, j)
  BY <1>1, NoInfoType DEF IsTracked, Sound, Shape
<1>3. Timed(u) /\ Ready(u)
  BY <1>1, <1>2 DEF Sound, Timed, Ready
<1> QED BY <1>1, <1>3 DEF Sound, u

(* A row without countdown is a row that has not failed or is not tracked. *)
LEMMA ClearSound ==
    ASSUME NEW c, Sound(c), NEW k \in Ids,
           ~IsTracked(c, k) \/ c.msgs[k].st # "failed"
    PROVE  Sound(ClearEntry(c, k))
<1> DEFINE u == ClearEntry(c, k)
<1>1. /\ Shape(u) /\ u.msgs = c.msgs /\ u.tracked = c.tracked
      /\ u.entries = [c.entries EXCEPT ![k] = 0] /\ u.timers = c.timers \ {k}
  BY ClearEntryFields DEF Sound
<1> HIDE DEF u
<1>2. u.entries[k] = 0 /\ \A j \in Ids : j # k => u.entries[j] = c.entries[j]
  BY <1>1 DEF Sound, Shape
<1>3. Timed(u)
  BY <1>1, <1>2 DEF Sound, Timed
<1>4. Ready(u)
  BY <1>1, <1>2 DEF Sound, Ready, IsTracked
<1> QED BY <1>1, <1>3, <1>4 DEF Sound, u

(* Untracked and its countdown cleared, in either order.                   *)
LEMMA ForgetFields ==
    ASSUME NEW c, Shape(c), NEW k \in Ids,
           NEW u \in {Untrack(ClearEntry(c, k), k), ClearEntry(Untrack(c, k), k)}
    PROVE  /\ Shape(u) /\ u.msgs = c.msgs /\ u.told = c.told
           /\ u.tracked = [c.tracked EXCEPT ![k] = NoInfo]
           /\ u.entries = [c.entries EXCEPT ![k] = 0] /\ u.timers = c.timers \ {k}
<1> DEFINE a == Untrack(c, k)
           b == ClearEntry(c, k)
<1>1. CASE u = Untrack(b, k)
  <2>1. /\ Shape(b) /\ b.msgs = c.msgs /\ b.told = c.told /\ b.tracked = c.tracked
        /\ b.entries = [c.entries EXCEPT ![k] = 0] /\ b.timers = c.timers \ {k}
    BY ONLY Shape(c), ClearEntryFields
  <2> HIDE DEF b
  <2> DEFINE n == Untrack(b, k)
  <2>2. /\ Shape(n) /\ n.msgs = b.msgs /\ n.told = b.told
        /\ n.entries = b.entries /\ n.timers = b.timers
        /\ n.tracked = [b.tracked EXCEPT ![k] = NoInfo]
    BY ONLY <2>1, UntrackFields, ZenonT(120)
  <2>3. u = n
    BY <1>1
  <2> HIDE DEF n
  <2> QED BY <2>1, <2>2, <2>3
<1>2. CASE u = ClearEntry(a, k)
  <2>1. /\ Shape(a) /\ a.msgs = c.msgs /\ a.told = c.told
        /\ a.entries = c.entries /\ a.timers = c.timers
        /\ a.tracked = [c.tracked EXCEPT ![k] = NoInfo]
    BY UntrackFields
  <2> HIDE DEF a
  <2> DEFINE n == ClearEntry(a, k)
  <2>2. /\ Shape(n) /\ n.msgs = a.msgs /\ n.told = a.told /\ n.tracked = a.tracked
        /\ n.entries = [a.entries EXCEPT ![k] = 0] /\ n.timers = a.timers \ {k}
    BY ONLY <2>1, ClearEntryFields, ZenonT(120)
  <2>3. u = n
    BY <1>2
  <2> HIDE DEF n
  <2> QED BY <2>1, <2>2, <2>3
<1> QED BY <1>1, <1>2

LEMMA ForgetSound ==
    ASSUME NEW c, Sound(c), NEW k \in Ids,
           NEW u \in {Untrack(ClearEntry(c, k), k), ClearEntry(Untrack(c, k), k)}
    PROVE  Sound(u)
<1>1. /\ Shape(u) /\ u.msgs = c.msgs
      /\ u.tracked = [c.tracked EXCEPT ![k] = NoInfo]
      /\ u.entries = [c.entries EXCEPT ![k] = 0] /\ u.timers = c.timers \ {k}
  <2>1. Shape(c)
    BY DEF Sound
  <2> QED BY <2>1, ForgetFields
<1>2. /\ u.entries[k] = 0 /\ u.tracked[k] = NoInfo
      /\ \A j \in Ids : j # k => u.entries[j] = c.entries[j]
                                 /\ u.tracked[j] = c.tracked[j]
  BY <1>1 DEF Sound, Shape
<1>3. Timed(u)
  BY <1>1, <1>2 DEF Sound, Timed
<1>4. Ready(u)
  BY <1>1, <1>2, NoInfoType DEF Sound, Ready, IsTracked
<1> QED BY <1>1, <1>3, <1>4 DEF Sound

LEMMA TrackSound ==
    ASSUME NEW c, Sound(c), NEW k \in Ids, NEW info \in Lines,
           c.msgs[k].st # "failed" \/ c.entries[k] > 0
    PROVE  Sound(Track(c, k, info)) /\ Track(c, k, info).msgs = c.msgs
<1> DEFINE t == Track(c, k, info)
<1>1. /\ Shape(t) /\ t.msgs = c.msgs /\ t.entries = c.entries /\ t.timers = c.timers
      /\ \A j \in Ids : j # k => t.tracked[j] = c.tracked[j] \/ t.tracked[j] = NoInfo
  BY TrackFields DEF Sound
<1> HIDE DEF t
<1>2. \A j \in Ids : j # k /\ IsTracked(t, j) => IsTracked(c, j)
  BY <1>1, NoInfoType DEF IsTracked
<1>3. Timed(t) /\ Ready(t)
  BY <1>1, <1>2 DEF Sound, Timed, Ready
<1> QED BY <1>1, <1>3 DEF Sound, t

LEMMA AddSound ==
    ASSUME NEW c, Sound(c), NEW k \in Ids, NEW row \in MsgRow, row.st # "failed"
    PROVE  Sound(Add(c, k, row)) /\ Add(c, k, row).msgs = [c.msgs EXCEPT ![k] = row]
<1> DEFINE d == Write(c, k, row)
<1>1. Sound(d) /\ d.msgs = [c.msgs EXCEPT ![k] = row]
  BY WriteSound DEF Sound
<1>2. d.msgs[k].st # "failed"
  BY <1>1 DEF Sound, Shape
<1>3. [used |-> 0, origin |-> k] \in Lines
  BY DEF Lines
<1>4. Add(c, k, row) = d \/ Add(c, k, row) = Track(d, k, [used |-> 0, origin |-> k])
  BY DEF Add
<1> DEFINE i == [used |-> 0, origin |-> k]
<1> HIDE DEF d, i
<1>5. Sound(Track(d, k, i)) /\ Track(d, k, i).msgs = d.msgs
  BY <1>1, <1>2, <1>3, TrackSound DEF i
<1>6. Add(c, k, row) = d \/ Add(c, k, row) = Track(d, k, i)
  BY <1>4 DEF i
<1> DEFINE a == Add(c, k, row)
<1> HIDE DEF a
<1>7. a = d \/ a = Track(d, k, i)
  BY <1>6 DEF a
<1>8. Sound(a) /\ a.msgs = [c.msgs EXCEPT ![k] = row]
  BY <1>1, <1>5, <1>7
<1> QED BY <1>8 DEF a

LEMMA PutSound ==
    ASSUME NEW c, Sound(c), NEW k \in Ids, NEW st \in {"sending", "acked", "failed"}
    PROVE  Sound(Put(c, k, st)) /\ Sound(SetStatus(c, k, st))
<1>1. [c.msgs[k] EXCEPT !.st = st] \in MsgRow
  BY DEF Sound, Shape, MsgRow
<1>2. Sound(Put(c, k, st))
  BY <1>1, WriteSound DEF Put, Sound
<1> QED BY <1>2 DEF SetStatus

(* The re-keyed row takes over the tracking; its countdown starts anew.    *)
LEMMA RenameSound ==
    ASSUME NEW c, Sound(c), NEW from \in Ids, NEW to \in Ids
    PROVE  Sound(Rename(c, from, to))
<1> DEFINE kept == IF c.msgs[to].st = "acked" THEN c.msgs[to] ELSE c.msgs[from]
           row == [kept EXCEPT !.quiet = @ /\ c.msgs[to].st = "none"]
           w == [c EXCEPT !.msgs = [@ EXCEPT ![from] = NoRow, ![to] = row]]
           e == Evaluate(w)
           f == ClearEntry(Untrack(e, from), from)
           d == Track(f, to, e.tracked[from])
<1>1. CASE c.msgs[from].st = "none" \/ from = to
  BY <1>1 DEF Rename
<1>2. CASE ~(c.msgs[from].st = "none" \/ from = to)
  <2>1. Rename(c, from, to) = IF from \notin Tracked(e) THEN e
                              ELSE IF e.entries[from] > 0 THEN Evaluate(d) ELSE d
    BY <1>2 DEF Rename, Renamed
  <2>2. row \in MsgRow /\ row.st = kept.st
    BY ZenonT(120) DEF Sound, Shape, MsgRow
  <2>3. /\ Shape(w) /\ w.tracked = c.tracked /\ w.entries = c.entries
        /\ w.timers = c.timers
        /\ w.msgs[from].st = "none" /\ w.msgs[to].st = row.st
    <3> DEFINE m == [c.msgs EXCEPT ![from] = NoRow, ![to] = row]
    <3> HIDE DEF row
    <3>1. w = [c EXCEPT !.msgs = m]
      OBVIOUS
    <3>2. m \in [Ids -> MsgRow] /\ m[from].st = "none" /\ m[to].st = row.st
      BY <1>2, <2>2, RowType DEF Sound, Shape, NoRow, Row
    <3> HIDE DEF m, w
    <3>3. w = [msgs |-> m, tracked |-> c.tracked, order |-> c.order,
               entries |-> c.entries, timers |-> c.timers, told |-> c.told]
      BY <3>1 DEF Sound, Shape
    <3> QED BY <3>2, <3>3 DEF Sound, Shape
  <2> HIDE DEF row, w
  <2>4. Timed(w)
    BY <2>3 DEF Sound, Timed
  <2>5. Sound(e) /\ e.msgs = w.msgs
    BY <2>3, <2>4, EvaluateSound, EvaluateFields
(* What was tracked without a countdown had not failed.                    *)
  <2>6. from \in Tracked(e) /\ ~(e.entries[from] > 0) => row.st # "failed"
    <3>1. from \notin Due(w) /\ w.msgs[from].st # "acked"
      BY <2>3 DEF Due, Fails
    <3>2. e.entries[from] = w.entries[from]
      BY <2>3, <3>1, EvaluateFields
    <3>3. from \in Tracked(e) => IsTracked(c, from)
      <4>1. e.tracked[from] = w.tracked[from] \/ e.tracked[from] = NoInfo
        <5>1. e.tracked = [k \in Ids |-> IF k \in Over(w) THEN NoInfo ELSE w.tracked[k]]
          BY <2>3, EvaluateFields
        <5> HIDE DEF e
        <5> QED BY <5>1
      <4> HIDE DEF e
      <4> QED BY <2>3, <4>1, NoInfoType DEF Tracked, IsTracked
    <3>4. from \in Tracked(e) /\ ~(e.entries[from] > 0) => c.msgs[from].st # "failed"
      BY <2>3, <3>2, <3>3 DEF Sound, Ready
    <3> QED BY <2>2, <3>4
  <2>7. /\ Shape(f) /\ Timed(f) /\ Sound(f) /\ f.msgs = e.msgs
    <3> HIDE DEF e
    <3> QED BY <2>5, ForgetSound, ForgetFields DEF Sound
  <2>8. e.tracked[from] \in Lines
    BY <2>5 DEF Sound, Shape
  <2>9. Shape(d) /\ Timed(d)
    <3> HIDE DEF e, f
    <3>1. /\ Shape(d) /\ d.entries = f.entries /\ d.timers = f.timers
      BY <2>7, <2>8, TrackFields
    <3> QED BY <2>7, <3>1 DEF Timed
  <2>10. row.st # "failed" => Sound(d)
    <3> HIDE DEF e, f
    <3> QED BY <2>3, <2>5, <2>7, <2>8, TrackSound
  <2> HIDE DEF d, e
  <2> QED BY <2>1, <2>5, <2>6, <2>9, <2>10, EvaluateSound
<1> QED BY <1>1, <1>2

LEMMA IngestSound ==
    ASSUME NEW c, Sound(c), NEW k \in Ids
    PROVE  Sound(Ingest(c, k))
<1>1. Row("sending") \in MsgRow /\ Row("sending").st # "failed"
  BY RowType DEF Row
<1> QED BY <1>1, AddSound, PutSound DEF Ingest

-----------------------------------------------------------------------------
(***************************************************************************)
(* The handlers.                                                           *)
(***************************************************************************)
SendRow == [at : Ids \cup {None}, hash : Ids \cup {None}, st : {"free", "posting", "out"}]

(* A send under way is of a row.                                           *)
Typed ==
    /\ proto \in Protocols /\ nextId \in Nat /\ user \in Nat
    /\ sends \in [Sends -> SendRow]
    /\ \A s \in Sends : sends[s].st # "free" => sends[s].at \in Ids

RInv == Typed /\ Sound(Ctl)

LEMMA BecomeCtl ==
    ASSUME NEW c, Shape(c), Become(c)
    PROVE  Ctl' = c
BY DEF Become, Ctl, Shape

LEMMA CtlFields ==
    /\ Ctl.msgs = msgs /\ Ctl.tracked = tracked /\ Ctl.entries = entries
    /\ Ctl.timers = timers /\ Ctl.told = told
BY DEF Ctl

LEMMA InIds ==
    ASSUME proto \in Protocols, NEW k, Fresh(k)
    PROVE  k \in Ids /\ k = nextId
BY DEF Fresh, Ids

(* Posts takes the first free send.                                        *)
LEMMA PostsTyped ==
    ASSUME Typed, NEW k \in Ids, Posts(k)
    PROVE  /\ sends' \in [Sends -> SendRow]
           /\ \A s \in Sends : sends'[s].st # "free" => sends'[s].at \in Ids
<1>1. PICK s \in 1..MaxSends[proto] :
          sends' = [sends EXCEPT ![s] = [at |-> k, hash |-> None, st |-> "posting"]]
  BY DEF Posts
<1> DEFINE r == [at |-> k, hash |-> None, st |-> "posting"]
<1>2. r \in SendRow /\ r.at = k
  BY DEF SendRow
<1> HIDE DEF r
<1>3. sends' = [sends EXCEPT ![s] = r]
  BY <1>1 DEF r
<1> QED BY <1>2, <1>3 DEF Typed

LEMMA SettlesTyped ==
    ASSUME Typed, NEW s \in Sends, Settles(s)
    PROVE  /\ sends' \in [Sends -> SendRow]
           /\ \A r \in Sends : sends'[r].st # "free" => sends'[r].at \in Ids
<1>1. NoSend \in SendRow /\ NoSend.st = "free"
  BY DEF NoSend, SendRow
<1> QED BY <1>1 DEF Typed, Settles

LEMMA RemainsTyped ==
    ASSUME Typed, NEW s \in Sends, NEW k \in Ids \cup {None}, Remains(s, k),
           sends[s].st # "free"
    PROVE  /\ sends' \in [Sends -> SendRow]
           /\ \A r \in Sends : sends'[r].st # "free" => sends'[r].at \in Ids
<1> DEFINE r == [sends[s] EXCEPT !.st = "out", !.hash = k]
<1>1. r \in SendRow /\ r.at = sends[s].at
  BY DEF Typed, SendRow
<1>2. sends' = [sends EXCEPT ![s] = r]
  BY DEF Remains
<1> HIDE DEF r
<1> QED BY <1>1, <1>2 DEF Typed

LEMMA RInvInit ==
    ASSUME Init
    PROVE  RInv
<1>1. Shape(Ctl)
  BY RowType, NoInfoType DEF Init, Shape, Ctl, NoRow
<1>2. Timed(Ctl) /\ Ready(Ctl)
  BY NoInfoType DEF Init, Timed, Ready, Ctl, IsTracked
<1>3. NoSend \in SendRow /\ NoSend.st = "free"
  BY DEF NoSend, SendRow
<1>4. Typed
  BY <1>3 DEF Init, Typed
<1> QED BY <1>1, <1>2, <1>4 DEF RInv, Sound

LEMMA SoundBecomes ==
    ASSUME NEW c, Sound(c), Become(c)
    PROVE  Sound(Ctl)'
BY BecomeCtl DEF Sound

LEMMA SendingType ==
    ASSUME NEW n \in Nat, NEW k \in Ids
    PROVE  /\ Row("sending") \in MsgRow /\ Row("sending").st = "sending"
           /\ [Row("sending") EXCEPT !.of = k] \in MsgRow
           /\ [Row("sending") EXCEPT !.of = k].st = "sending"
           /\ [Row("sending") EXCEPT !.autos = n] \in MsgRow
           /\ [Row("sending") EXCEPT !.autos = n].st = "sending"
BY DEF Row, MsgRow

LEMMA TakesNat ==
    ASSUME Typed, NEW k, Takes(k)
    PROVE  nextId' \in Nat
BY DEF Typed, Takes

LEMMA ComposeStep ==
    ASSUME RInv, NEW k \in Ids, Compose(k)
    PROVE  RInv'
<1>1. Sound(Add(Ctl, k, Row("sending")))
  BY AddSound, SendingType DEF RInv
<1>2. Sound(Ctl)'
  BY <1>1, SoundBecomes DEF Compose
<1>3. Typed'
  BY PostsTyped, TakesNat DEF Compose, RInv, Typed
<1> QED BY <1>2, <1>3 DEF RInv

(* What a countdown, a cancel or a hand knows of its row.                  *)
LEMMA InfoType ==
    ASSUME RInv, NEW k \in Ids
    PROVE  /\ Info(k).origin \in Ids \cup {None}
           /\ entries[k] \in Nat /\ msgs[k] \in MsgRow /\ msgs[k].autos + 1 \in Nat
           /\ [used |-> entries[k], origin |-> Info(k).origin] \in Lines
<1>1. entries[k] \in Nat /\ msgs[k] \in MsgRow /\ tracked[k] \in Lines
  BY CtlFields DEF RInv, Sound, Shape
<1>2. Info(k).origin \in Ids \cup {None}
  BY <1>1 DEF Info, Lines
<1>3. msgs[k].autos + 1 \in Nat
  BY <1>1 DEF MsgRow
<1> QED BY <1>1, <1>2, <1>3 DEF Lines

LEMMA ResendByHandStep ==
    ASSUME RInv, NEW k \in Ids, ResendByHand(k)
    PROVE  RInv'
<1>1. CASE /\ Fresh(nextId) /\ Takes(nextId) /\ Posts(nextId)
           /\ Become(Add(Ctl, nextId, [Row("sending") EXCEPT !.of = k]))
  <2>1. nextId \in Ids
    BY <1>1, InIds DEF RInv, Typed
  <2>2. Sound(Add(Ctl, nextId, [Row("sending") EXCEPT !.of = k]))
    BY <2>1, AddSound, SendingType DEF RInv
  <2>3. Sound(Ctl)'
    BY <1>1, <2>2, SoundBecomes
  <2>4. Typed'
    BY <1>1, <2>1, PostsTyped, TakesNat DEF ResendByHand, RInv, Typed
  <2> QED BY <2>3, <2>4 DEF RInv
<1>2. CASE /\ Posts(k)
           /\ Become(Write(Ctl, k, [msgs[k] EXCEPT !.st = "sending", !.quiet = FALSE]))
           /\ UNCHANGED nextId
  <2>1. [msgs[k] EXCEPT !.st = "sending", !.quiet = FALSE] \in MsgRow
    BY InfoType DEF MsgRow
  <2>2. Sound(Write(Ctl, k, [msgs[k] EXCEPT !.st = "sending", !.quiet = FALSE]))
    BY <2>1, WriteSound DEF RInv, Sound
  <2>3. Sound(Ctl)'
    BY <1>2, <2>2, SoundBecomes
  <2>4. Typed'
    BY <1>2, PostsTyped DEF ResendByHand, RInv, Typed
  <2> QED BY <2>3, <2>4 DEF RInv
<1> QED BY <1>1, <1>2 DEF ResendByHand

LEMMA AnnounceStep ==
    ASSUME RInv, NEW k \in Ids, Announce(k)
    PROVE  RInv'
<1>1. Ctl' = Ctl
  BY DEF Announce, control, Ctl
<1>2. Typed'
  BY PostsTyped DEF Announce, RInv, Typed
<1> QED BY <1>1, <1>2 DEF RInv, Sound, Shape, Timed, Ready, IsTracked

LEMMA FireDropsStep ==
    ASSUME RInv, NEW k \in Ids, FireDrops(k)
    PROVE  RInv'
<1>1. Sound(ClearEntry(Ctl, k))
  BY ClearSound, CtlFields DEF RInv, FireDrops
<1>2. Sound(Ctl)'
  BY <1>1, SoundBecomes DEF FireDrops
<1> QED BY <1>2 DEF FireDrops, RInv, Typed

LEMMA TellType ==
    ASSUME RInv, NEW o
    PROVE  /\ Tell(o) \in [Ids -> Nat]
           /\ \A p \in Ids : Tell(o)[p] = IF p = o THEN told[p] + 1 ELSE told[p]
<1>1. told \in [Ids -> Nat]
  BY CtlFields DEF RInv, Sound, Shape
<1>2. Tell(o) = [p \in Ids |-> IF p = o THEN told[p] + 1 ELSE told[p]]
  BY <1>1 DEF Tell
<1> QED BY <1>1, <1>2

LEMMA CannotStartStep ==
    ASSUME RInv, NEW k \in Ids, CannotStart(k)
    PROVE  RInv'
<1> DEFINE f == Untrack(ClearEntry(Ctl, k), k)
           t == Tell(Info(k).origin)
           g == [f EXCEPT !.told = t]
<1>1. Sound(f)
  BY ForgetSound DEF RInv
<1>2. Become(g)
  BY DEF CannotStart
<1> HIDE DEF f
<1>3. t \in [Ids -> Nat]
  BY TellType
<1>4. g = [f EXCEPT !.told = t]
  OBVIOUS
<1> HIDE DEF g, t
<1>5. g = [msgs |-> f.msgs, tracked |-> f.tracked, order |-> f.order,
           entries |-> f.entries, timers |-> f.timers, told |-> t]
  BY <1>1, <1>4 DEF Sound, Shape
<1>6. Sound(g)
  BY <1>1, <1>3, <1>5 DEF Sound, Shape, Timed, Ready, IsTracked
<1>7. Sound(Ctl)'
  BY <1>2, <1>6, SoundBecomes
<1> QED BY <1>7 DEF CannotStart, RInv, Typed

LEMMA FireAnewStep ==
    ASSUME RInv, NEW k \in Ids, FireAnew(k)
    PROVE  RInv'
<1> DEFINE n == nextId
           row == [Row("sending") EXCEPT !.autos = msgs[k].autos + 1]
           f == Untrack(ClearEntry(Ctl, k), k)
           c == Add(f, n, row)
           i == [used |-> entries[k], origin |-> Info(k).origin]
           d == Track(c, n, i)
<1>1. n \in Ids /\ Takes(n) /\ Posts(n) /\ Become(Delete(d, k))
  BY InIds DEF FireAnew, RInv, Typed
<1>2. Sound(f)
  BY ForgetSound DEF RInv
<1>3. row \in MsgRow /\ row.st = "sending"
  <2>1. msgs[k].autos + 1 \in Nat
    BY InfoType
  <2> QED BY <2>1, SendingType
<1>4. i \in Lines
  BY InfoType
<1> HIDE DEF f, row, i
<1>5. Sound(c) /\ c.msgs = [f.msgs EXCEPT ![n] = row]
  BY <1>1, <1>2, <1>3, AddSound
<1>6. c.msgs[n].st # "failed"
  BY <1>1, <1>2, <1>3, <1>5 DEF Sound, Shape
<1> HIDE DEF c
<1>7. Sound(d)
  BY <1>1, <1>4, <1>5, <1>6, TrackSound
<1>8. NoRow \in MsgRow
  BY RowType DEF NoRow
<1> HIDE DEF d
<1>9. Sound(Delete(d, k))
  BY <1>7, <1>8, WriteSound DEF Delete, Sound
<1>10. Sound(Ctl)'
  BY <1>1, <1>9, SoundBecomes
<1>11. Typed'
  BY <1>1, PostsTyped, TakesNat DEF FireAnew, RInv, Typed
<1> QED BY <1>10, <1>11 DEF RInv

LEMMA FireAgainStep ==
    ASSUME RInv, NEW k \in Ids, FireAgain(k)
    PROVE  RInv'
<1> DEFINE row == [msgs[k] EXCEPT !.st = "sending", !.autos = msgs[k].autos + 1]
           f == Untrack(ClearEntry(Ctl, k), k)
           c == Write(f, k, row)
           i == [used |-> entries[k], origin |-> Info(k).origin]
<1>1. Posts(k) /\ Become(Track(c, k, i))
  BY DEF FireAgain
<1>2. Sound(f)
  BY ForgetSound DEF RInv
<1>3. row \in MsgRow /\ row.st = "sending"
  BY InfoType DEF MsgRow
<1>4. i \in Lines
  BY InfoType
<1> HIDE DEF f, row, i
<1>5. Sound(c) /\ c.msgs = [f.msgs EXCEPT ![k] = row]
  BY <1>2, <1>3, WriteSound DEF Sound
<1>6. c.msgs[k].st # "failed"
  BY <1>2, <1>3, <1>5 DEF Sound, Shape
<1> HIDE DEF c
<1>7. Sound(Track(c, k, i))
  BY <1>4, <1>5, <1>6, TrackSound
<1>8. Sound(Ctl)'
  BY <1>1, <1>7, SoundBecomes
<1>9. Typed'
  BY <1>1, PostsTyped DEF FireAgain, RInv, Typed
<1> QED BY <1>8, <1>9 DEF RInv

LEMMA CancelStep ==
    ASSUME RInv, NEW k \in Ids, CancelAutoResend(k)
    PROVE  RInv'
<1> DEFINE f == Untrack(ClearEntry(Ctl, k), k)
           m == Quieted(k)
           g == [f EXCEPT !.msgs = m]
<1>1. Become(g)
  BY DEF CancelAutoResend
<1>2. Sound(f) /\ f.msgs = msgs
  BY ForgetSound, ForgetFields, CtlFields DEF RInv, Sound
<1> HIDE DEF f
<1>3. m \in [Ids -> MsgRow] /\ \A j \in Ids : m[j].st = msgs[j].st
  BY <1>2, ZenonT(120) DEF Sound, Shape, MsgRow, Quieted
<1> HIDE DEF m
<1>4. g = [msgs |-> m, tracked |-> f.tracked, order |-> f.order,
           entries |-> f.entries, timers |-> f.timers, told |-> f.told]
  BY <1>2 DEF Sound, Shape
<1> HIDE DEF g
<1>5. Sound(g)
  BY <1>2, <1>3, <1>4 DEF Sound, Shape, Timed, Ready, IsTracked
<1>6. Sound(Ctl)'
  BY <1>1, <1>5, SoundBecomes
<1> QED BY <1>6 DEF CancelAutoResend, RInv, Typed

LEMMA SetStatusSound ==
    ASSUME RInv, NEW k \in Ids, NEW st \in {"sending", "acked", "failed"},
           \/ Become(SetStatus(Ctl, k, st)) \/ Become(Put(Ctl, k, st))
    PROVE  Sound(Ctl)'
<1>1. Sound(Put(Ctl, k, st)) /\ Sound(SetStatus(Ctl, k, st))
  BY PutSound DEF RInv
<1> QED BY <1>1, SoundBecomes

(* The ids a send knows, and the one it is given.                          *)
LEMMA SendIds ==
    ASSUME RInv, NEW s \in Sends
    PROVE  /\ sends[s] \in SendRow
           /\ sends[s].hash \in Ids \cup {None}
           /\ sends[s].st # "free" => sends[s].at \in Ids
BY DEF RInv, Typed, SendRow

LEMMA DeviceAcksStep ==
    ASSUME RInv, NEW s \in Sends, NEW k \in Ids, DeviceAcks(s, k)
    PROVE  RInv'
<1> DEFINE c == Rename(Ctl, sends[s].at, k)
<1>1. sends[s].at \in Ids /\ Takes(k) /\ Settles(s) /\ Become(SetStatus(c, k, "acked"))
  BY SendIds DEF DeviceAcks
<1>2. Sound(c)
  BY <1>1, RenameSound DEF RInv
<1> HIDE DEF c
<1>3. Sound(SetStatus(c, k, "acked"))
  BY <1>2, PutSound
<1>4. Sound(Ctl)'
  BY <1>1, <1>3, SoundBecomes
<1>5. Typed'
  BY <1>1, SettlesTyped, TakesNat DEF DeviceAcks, RInv, Typed
<1> QED BY <1>4, <1>5 DEF RInv

LEMMA RoutingErrorStep ==
    ASSUME RInv, NEW s \in Sends, RoutingError(s)
    PROVE  RInv'
<1>1. sends[s].at \in Ids /\ Become(SetStatus(Ctl, sends[s].at, "failed"))
  BY SendIds DEF RoutingError
<1>2. Sound(Ctl)'
  BY <1>1, SetStatusSound
<1> QED BY <1>2 DEF RoutingError, RInv, Typed

LEMMA CompanionAcceptsStep ==
    ASSUME RInv, NEW s \in Sends, NEW k \in Ids, CompanionAccepts(s, k)
    PROVE  RInv'
<1> DEFINE c == Rename(Ctl, sends[s].at, k)
<1>1. /\ sends[s].at \in Ids /\ sends[s].st # "free"
      /\ Takes(k) /\ Remains(s, k) /\ Become(c)
  BY SendIds DEF CompanionAccepts
<1>2. Sound(c)
  BY <1>1, RenameSound DEF RInv
<1> HIDE DEF c
<1>3. Sound(Ctl)'
  BY <1>1, <1>2, SoundBecomes
<1>4. Typed'
  BY <1>1, RemainsTyped, TakesNat DEF CompanionAccepts, RInv, Typed
<1> QED BY <1>3, <1>4 DEF RInv

LEMMA SendFailsStep ==
    ASSUME RInv, NEW s \in Sends, SendFails(s)
    PROVE  RInv'
<1>1. /\ sends[s].at \in Ids /\ sends[s].st # "free"
      /\ sends[s].hash \in Ids \cup {None}
      /\ Settles(s) \/ Remains(s, sends[s].hash)
      /\ Become(SetStatus(Ctl, sends[s].at, "failed"))
  BY SendIds DEF SendFails
<1>2. Sound(Ctl)'
  BY <1>1, SetStatusSound
<1>3. Typed'
  BY <1>1, SettlesTyped, RemainsTyped DEF SendFails, RInv, Typed
<1> QED BY <1>2, <1>3 DEF RInv

LEMMA EchoStep ==
    ASSUME RInv, NEW s \in Sends, NEW k \in Ids, Echo(s, k)
    PROVE  RInv'
<1>1. Sound(Ingest(Ctl, k))
  BY IngestSound DEF RInv
<1>2. Sound(Ctl)'
  BY <1>1, SoundBecomes DEF Echo
<1> DEFINE r == [sends[s] EXCEPT !.hash = k]
<1>3. r \in SendRow /\ (r.st # "free" => r.at \in Ids)
  BY SendIds DEF SendRow
<1>4. sends' = [sends EXCEPT ![s] = r]
  BY DEF Echo
<1> HIDE DEF r
<1>5. Typed'
  BY <1>3, <1>4, TakesNat DEF Echo, RInv, Typed
<1> QED BY <1>2, <1>5 DEF RInv

LEMMA ReplyStep ==
    ASSUME RInv, NEW s \in Sends, NEW k \in Ids,
           NEW early \in {"sending", "acked", "failed"}, Reply(s, k, early)
    PROVE  RInv'
<1> DEFINE c == Rename(Ctl, sends[s].at, k)
           d == Ingest(c, k)
<1>1. /\ sends[s].at \in Ids /\ sends[s].st # "free"
      /\ Takes(k) /\ Remains(s, k) /\ Become(SetStatus(d, k, early))
  BY SendIds DEF Reply
<1>2. Sound(c)
  BY <1>1, RenameSound DEF RInv
<1> HIDE DEF c
<1>3. Sound(d)
  BY <1>2, IngestSound
<1> HIDE DEF d
<1>4. Sound(SetStatus(d, k, early))
  BY <1>3, PutSound
<1>5. Sound(Ctl)'
  BY <1>1, <1>4, SoundBecomes
<1>6. Typed'
  BY <1>1, RemainsTyped, TakesNat DEF Reply, RInv, Typed
<1> QED BY <1>5, <1>6 DEF RInv

LEMMA StatusStep ==
    ASSUME RInv, NEW s \in Sends, NEW st \in {"acked", "failed"}, Status(s, st)
    PROVE  RInv'
<1>1. /\ sends[s].hash \in Ids
      /\ Settles(s) \/ UNCHANGED sends
      /\ Become(SetStatus(Ctl, sends[s].hash, st))
  BY SendIds DEF Status
<1>2. Sound(Ctl)'
  BY <1>1, SetStatusSound
<1>3. Typed'
  BY <1>1, SettlesTyped DEF Status, RInv, Typed
<1> QED BY <1>2, <1>3 DEF RInv

LEMMA SilenceStep ==
    ASSUME RInv, NEW s \in Sends, Silence(s)
    PROVE  RInv'
<1>1. Ctl' = Ctl
  BY DEF Silence, control, Ctl
<1>2. Typed'
  BY SettlesTyped DEF Silence, RInv, Typed
<1> QED BY <1>1, <1>2 DEF RInv, Sound, Shape, Timed, Ready, IsTracked

LEMMA RevivedStep ==
    ASSUME RInv, NEW s \in Sends, Revived(s)
    PROVE  RInv'
<1>1. sends[s].hash \in Ids /\ Become(Put(Ctl, sends[s].hash, "sending"))
  BY SendIds DEF Revived
<1>2. Sound(Ctl)'
  BY <1>1, SetStatusSound
<1> QED BY <1>2 DEF Revived, RInv, Typed

LEMMA LinkTimesOutStep ==
    ASSUME RInv, NEW k \in Ids, LinkTimesOut(k)
    PROVE  RInv'
<1>1. Sound(Ctl)'
  BY SetStatusSound DEF LinkTimesOut
<1> QED BY <1>1 DEF LinkTimesOut, RInv, Typed

LEMMA RInvNext ==
    ASSUME RInv, [Next]_vars
    PROVE  RInv'
<1>1. CASE UNCHANGED vars
  <2>1. Ctl' = Ctl
    BY <1>1 DEF vars, Ctl
  <2> QED BY <1>1, <2>1 DEF vars, RInv, Typed, Sound, Shape, Timed, Ready, IsTracked
<1>2. ASSUME NEW k \in Ids,
             \/ Compose(k) \/ ResendByHand(k) \/ Announce(k)
             \/ Fire(k) \/ CancelAutoResend(k) \/ LinkTimesOut(k)
      PROVE  RInv'
  BY <1>2, ComposeStep, ResendByHandStep, AnnounceStep, FireDropsStep, CannotStartStep,
     FireAnewStep, FireAgainStep, CancelStep, LinkTimesOutStep DEF Fire
<1>3. ASSUME NEW s \in Sends,
             \/ RoutingError(s) \/ SendFails(s) \/ Silence(s) \/ Revived(s)
             \/ \E st \in {"acked", "failed"} : Status(s, st)
      PROVE  RInv'
  BY <1>3, RoutingErrorStep, SendFailsStep, SilenceStep, RevivedStep, StatusStep
<1>4. ASSUME NEW s \in Sends, NEW k \in Ids,
             \/ DeviceAcks(s, k) \/ CompanionAccepts(s, k) \/ Echo(s, k)
             \/ \E early \in {"sending", "acked", "failed"} : Reply(s, k, early)
      PROVE  RInv'
  BY <1>4, DeviceAcksStep, CompanionAcceptsStep, EchoStep, ReplyStep
<1> QED BY <1>1, <1>2, <1>3, <1>4 DEF Next

(* evaluateTrackedOutbound runs at every write of the store and onRenamed  *)
(* once more when it has cleared a countdown: a tracked row that has       *)
(* failed, under whatever id, has its countdown and its timer.             *)
THEOREM Scheduled == Spec => []FailedIsScheduled
<1>1. Init => RInv
  BY RInvInit
<1>2. RInv /\ [Next]_vars => RInv'
  BY RInvNext
<1>3. RInv => FailedIsScheduled
  BY CtlFields DEF RInv, Sound, Timed, Ready, IsTracked, FailedIsScheduled, Tracked
<1> QED BY <1>1, <1>2, <1>3, PTL DEF Spec

-----------------------------------------------------------------------------
(***************************************************************************)
(* Lines of resends, on Meshtastic and MeshCore: a row that is tracked or  *)
(* has a countdown stands for the message of its first send, no two for    *)
(* the same one, and nobody has heard how that message ended.              *)
(***************************************************************************)
Live(c, k) == IsTracked(c, k) \/ c.entries[k] > 0
Origin(c, k) == IF IsTracked(c, k) THEN c.tracked[k].origin ELSE k

(* Id o names no message of a live row, and its outcome is not told.       *)
Unused(c, o) == c.told[o] = 0 /\ \A k \in Ids : Live(c, k) => k # o /\ Origin(c, k) # o

Lineage(c) ==
    /\ \A o \in Ids : c.told[o] <= 1
    /\ \A k \in Ids : Live(c, k) => c.told[k] = 0 /\ c.told[Origin(c, k)] = 0
    /\ \A k, j \in Ids : Live(c, k) /\ Live(c, j) /\ j # k => Origin(c, j) \notin {k, Origin(c, k)}

Budget(c) ==
    /\ \A k \in Ids : c.msgs[k].autos <= MaxResends
    /\ \A k \in Ids : IsTracked(c, k) => c.msgs[k].autos <= c.tracked[k].used
    /\ \A k \in Ids : c.entries[k] > 0 =>
                         c.msgs[k].autos < c.entries[k] /\ c.entries[k] <= MaxResends

Quiet(c) == \A k \in Ids : c.msgs[k].quiet => ~Live(c, k)

(* No id from n on was used.                                               *)
Clean(c, n) == \A k \in Ids : k >= n => c.msgs[k] = NoRow /\ Unused(c, k)

Orderly(c, n) == Lineage(c) /\ Budget(c) /\ Quiet(c) /\ Clean(c, n)

(* In d some live rows of c are let go of, those that reported their       *)
(* message's outcome among them; a row pushed out of the tracked ones      *)
(* keeps its countdown, under its own id.                                  *)
Sheds(c, d) ==
    /\ \A k \in Ids : Live(d, k) => Live(c, k) /\ Origin(d, k) \in {k, Origin(c, k)}
    /\ \A o \in Ids : \/ d.told[o] = c.told[o]
                      \/ /\ d.told[o] = c.told[o] + 1
                         /\ \E k \in Ids : Live(c, k) /\ Origin(c, k) = o /\ ~Live(d, k)

LEMMA OriginType ==
    ASSUME NEW c, Shape(c), NEW k \in Ids
    PROVE  /\ Origin(c, k) \in Ids /\ c.told[k] \in Nat /\ c.entries[k] \in Nat
           /\ c.tracked[k].used \in Nat /\ c.msgs[k].autos \in Nat
           /\ c.msgs[k].quiet \in BOOLEAN
BY DEF Shape, Lines, MsgRow, Origin, IsTracked

LEMMA ShedKeeps ==
    ASSUME NEW c, Shape(c), NEW d, Shape(d), Sheds(c, d), Lineage(c)
    PROVE  Lineage(d) /\ \A o \in Ids : Unused(c, o) => Unused(d, o)
<1>1. ASSUME NEW o \in Ids PROVE d.told[o] <= 1
  <2>1. CASE d.told[o] = c.told[o]
    BY <2>1 DEF Lineage
  <2>2. CASE \E k \in Ids : Live(c, k) /\ Origin(c, k) = o /\ d.told[o] = c.told[o] + 1
    <3>1. c.told[o] = 0
      BY <2>2 DEF Lineage
    <3> QED BY <2>2, <3>1
  <2> QED BY <2>1, <2>2 DEF Sheds
(* The names of a live row are not told: who told them was another row.    *)
<1>2. ASSUME NEW k \in Ids, Live(d, k), NEW o \in {k, Origin(c, k)}
      PROVE  d.told[o] = 0
  <2>1. Live(c, k) /\ o \in Ids /\ c.told[o] = 0
    BY <1>2, OriginType DEF Sheds, Lineage
  <2>2. ~\E j \in Ids : Live(c, j) /\ Origin(c, j) = o /\ ~Live(d, j)
    <3> SUFFICES ASSUME NEW j \in Ids, Live(c, j), Origin(c, j) = o, ~Live(d, j)
                 PROVE  FALSE
      OBVIOUS
    <3>1. j # k
      BY <1>2
    <3> QED BY <1>2, <2>1, <3>1 DEF Lineage
  <2> QED BY <2>1, <2>2 DEF Sheds
<1>3. ASSUME NEW k \in Ids, Live(d, k)
      PROVE  d.told[k] = 0 /\ d.told[Origin(d, k)] = 0
  BY <1>2, <1>3 DEF Sheds
<1>4. ASSUME NEW k \in Ids, NEW j \in Ids, Live(d, k), Live(d, j), j # k
      PROVE  Origin(d, j) \notin {k, Origin(d, k)}
  <2>1. /\ Live(c, k) /\ Origin(d, k) \in {k, Origin(c, k)}
        /\ Live(c, j) /\ Origin(d, j) \in {j, Origin(c, j)}
    BY <1>4 DEF Sheds
  <2>2. Origin(c, j) \notin {k, Origin(c, k)} /\ Origin(c, k) \notin {j, Origin(c, j)}
    BY <1>4, <2>1 DEF Lineage
  <2> QED BY <1>4, <2>1, <2>2
<1>5. ASSUME NEW o \in Ids, Unused(c, o) PROVE Unused(d, o)
  <2>1. d.told[o] = 0
    BY <1>5 DEF Sheds, Unused
  <2>2. ASSUME NEW k \in Ids, Live(d, k) PROVE k # o /\ Origin(d, k) # o
    BY <1>5, <2>2 DEF Sheds, Unused
  <2> QED BY <2>1, <2>2 DEF Unused
<1>6. Lineage(d)
  BY <1>1, <1>3, <1>4 DEF Lineage
<1> QED BY <1>5, <1>6

(* Two rows that report are of two messages.                               *)
LEMMA EndedOnce ==
    ASSUME NEW c, Shape(c), Lineage(c), NEW o \in Ids
    PROVE  \/ Ended(c, o) = {} /\ Cardinality(Ended(c, o)) = 0
           \/ /\ Cardinality(Ended(c, o)) = 1
              /\ \E k \in Over(c) : IsTracked(c, k) /\ Origin(c, k) = o
<1>1. CASE Ended(c, o) = {}
  BY <1>1, FS_EmptySet
<1>2. CASE Ended(c, o) # {}
  <2>1. PICK k \in Ended(c, o) : TRUE
    BY <1>2
  <2>2. \A j \in Ended(c, o) : j \in Ids /\ j \in Over(c) /\ IsTracked(c, j) /\ Origin(c, j) = o
    BY DEF Ended, Over, Origin
  <2>3. \A j \in Ended(c, o) : j = k
    BY <2>1, <2>2 DEF Lineage, Live
  <2>4. Ended(c, o) = {k}
    BY <2>1, <2>3
  <2>5. Cardinality({k}) = 1
    BY FS_Singleton
  <2> QED BY <2>1, <2>2, <2>4, <2>5
<1> QED BY <1>1, <1>2

LEMMA EvaluateSheds ==
    ASSUME NEW c, Shape(c), Lineage(c)
    PROVE  Sheds(c, Evaluate(c))
<1> DEFINE e == Evaluate(c)
<1>1. /\ Shape(e)
      /\ e.tracked = [k \in Ids |-> IF k \in Over(c) THEN NoInfo ELSE c.tracked[k]]
      /\ \A k \in Ids : e.entries[k] =
            IF IsTracked(c, k) /\ c.msgs[k].st = "acked" THEN 0
            ELSE IF k \in Due(c) THEN c.tracked[k].used + 1 ELSE c.entries[k]
      /\ e.told = [o \in Ids |-> c.told[o] + Cardinality(Ended(c, o))]
  BY EvaluateFields
<1> HIDE DEF e
<1>2. \A k \in Ids : k \in Over(c) => ~Live(e, k)
  <2> SUFFICES ASSUME NEW k \in Ids, k \in Over(c)
               PROVE  ~Live(e, k)
    OBVIOUS
  <2>1. ~IsTracked(e, k)
    BY <1>1, NoInfoType DEF IsTracked
  <2>2. k \notin Due(c)
    <3>1. c.tracked[k].used \in Nat
      BY OriginType
    <3> QED BY <3>1, AutoResendAssumption DEF Over, Due, Fails
  <2>3. e.entries[k] = 0
    BY <1>1, <2>2 DEF Over, Fails
  <2> QED BY <2>1, <2>3 DEF Live
<1>3. ASSUME NEW k \in Ids, Live(e, k)
      PROVE  Live(c, k) /\ Origin(e, k) = Origin(c, k)
  <2>1. k \notin Over(c)
    BY <1>2, <1>3
  <2>2. e.tracked[k] = c.tracked[k]
    BY <1>1, <2>1
  <2>3. IsTracked(e, k) \/ c.entries[k] > 0 \/ k \in Due(c)
    BY <1>1, <1>3 DEF Live
  <2> QED BY <2>2, <2>3 DEF Live, Origin, IsTracked, Due
<1>4. ASSUME NEW o \in Ids
      PROVE  \/ e.told[o] = c.told[o]
             \/ /\ e.told[o] = c.told[o] + 1
                /\ \E k \in Ids : Live(c, k) /\ Origin(c, k) = o /\ ~Live(e, k)
  <2>1. e.told[o] = c.told[o] + Cardinality(Ended(c, o)) /\ c.told[o] \in Nat
    BY <1>1, OriginType
  <2>2. Over(c) \subseteq Ids
    BY DEF Over
  <2> QED BY <1>2, <2>1, <2>2, EndedOnce DEF Live
<1>5. Sheds(c, e)
  BY <1>3, <1>4 DEF Sheds
<1> QED BY <1>5 DEF e

LEMMA EvaluateOrderly ==
    ASSUME NEW c, Shape(c), NEW n \in Nat, Orderly(c, n)
    PROVE  Orderly(Evaluate(c), n) /\ \A o \in Ids : Unused(c, o) => Unused(Evaluate(c), o)
<1> DEFINE e == Evaluate(c)
<1>1. /\ Shape(e) /\ e.msgs = c.msgs
      /\ e.tracked = [k \in Ids |-> IF k \in Over(c) THEN NoInfo ELSE c.tracked[k]]
      /\ \A k \in Ids : e.entries[k] =
            IF IsTracked(c, k) /\ c.msgs[k].st = "acked" THEN 0
            ELSE IF k \in Due(c) THEN c.tracked[k].used + 1 ELSE c.entries[k]
  BY EvaluateFields
<1>2. Sheds(c, e)
  BY EvaluateSheds DEF Orderly
<1> HIDE DEF e
<1>3. Lineage(e) /\ \A o \in Ids : Unused(c, o) => Unused(e, o)
  BY <1>1, <1>2, ShedKeeps DEF Orderly
<1>4. \A k \in Ids : /\ c.tracked[k].used \in Nat /\ c.entries[k] \in Nat
                     /\ c.msgs[k].autos \in Nat
  BY OriginType
<1>5. ASSUME NEW k \in Ids, IsTracked(e, k)
      PROVE  e.msgs[k].autos <= e.tracked[k].used
  <2>1. e.tracked[k] = c.tracked[k] /\ IsTracked(c, k)
    BY <1>1, <1>5, NoInfoType DEF IsTracked
  <2> QED BY <1>1, <2>1 DEF Orderly, Budget
<1>6. ASSUME NEW k \in Ids, e.entries[k] > 0
      PROVE  e.msgs[k].autos < e.entries[k] /\ e.entries[k] <= MaxResends
  <2>1. CASE k \in Due(c)
    <3>1. e.entries[k] = c.tracked[k].used + 1 /\ c.tracked[k].used < MaxResends
      BY <1>1, <1>6, <2>1 DEF Due
    <3>2. c.msgs[k].autos <= c.tracked[k].used
      BY <2>1 DEF Due, Orderly, Budget
    <3> QED BY <1>1, <1>4, <3>1, <3>2, AutoResendAssumption
  <2>2. CASE k \notin Due(c)
    <3>1. e.entries[k] = c.entries[k]
      BY <1>1, <1>6, <2>2
    <3> QED BY <1>1, <1>6, <3>1 DEF Orderly, Budget
  <2> QED BY <2>1, <2>2
<1>7. Budget(e)
  BY <1>1, <1>5, <1>6 DEF Budget, Orderly
<1>8. Quiet(e)
  BY <1>1, <1>2 DEF Orderly, Quiet, Sheds
<1>9. Clean(e, n)
  BY <1>1, <1>3 DEF Orderly, Clean
<1>10. Orderly(e, n)
  BY <1>3, <1>7, <1>8, <1>9 DEF Orderly
<1> QED BY <1>3, <1>10 DEF e

(* A row is written: a live one with no more resends behind it than it had *)
(* and not cancelled, a dead one with any number that is allowed.          *)
LEMMA WroteOrderly ==
    ASSUME NEW c, Shape(c), NEW n \in Nat, Orderly(c, n), NEW m \in Nat, n <= m,
           NEW k \in Ids, k < m, NEW row \in MsgRow, row.autos <= MaxResends,
           Live(c, k) => row.autos <= c.msgs[k].autos /\ ~row.quiet
    PROVE  /\ Orderly(Wrote(c, k, row), m)
           /\ \A o \in Ids : Unused(c, o) => Unused(Wrote(c, k, row), o)
<1> DEFINE w == Wrote(c, k, row)
<1>1. /\ Shape(w) /\ w.msgs = [c.msgs EXCEPT ![k] = row]
      /\ w.tracked = c.tracked /\ w.told = c.told /\ w.entries = c.entries
  BY WroteFields
<1> HIDE DEF w
<1>2. /\ w.msgs[k] = row /\ \A j \in Ids : j # k => w.msgs[j] = c.msgs[j]
  BY <1>1 DEF Shape
<1>3. \A j \in Ids : (Live(w, j) <=> Live(c, j)) /\ Origin(w, j) = Origin(c, j)
  BY <1>1 DEF Live, Origin, IsTracked
<1>4. Lineage(w) /\ \A j \in Ids : Unused(c, j) => Unused(w, j)
  BY <1>1, <1>3 DEF Orderly, Lineage, Unused
<1>5. \A j \in Ids : /\ c.tracked[j].used \in Nat /\ c.entries[j] \in Nat
                     /\ c.msgs[j].autos \in Nat /\ row.autos \in Nat
  BY OriginType DEF MsgRow
<1>6. Budget(w)
  <2>1. \A j \in Ids : w.msgs[j].autos <= MaxResends
    BY <1>2 DEF Orderly, Budget
  <2>2. \A j \in Ids : Live(w, j) => w.msgs[j].autos <= c.msgs[j].autos
    BY <1>2, <1>3, <1>5
  <2>3. ASSUME NEW j \in Ids, IsTracked(w, j)
        PROVE  w.msgs[j].autos <= w.tracked[j].used
    <3>1. Live(w, j) /\ IsTracked(c, j) /\ w.msgs[j].autos \in Nat
      BY <1>1, <1>2, <1>5, <2>3 DEF Live, IsTracked
    <3>2. c.msgs[j].autos <= c.tracked[j].used
      BY <3>1 DEF Orderly, Budget
    <3> QED BY <1>1, <1>5, <2>2, <3>1, <3>2
  <2>4. ASSUME NEW j \in Ids, w.entries[j] > 0
        PROVE  w.msgs[j].autos < w.entries[j] /\ w.entries[j] <= MaxResends
    <3>1. Live(w, j) /\ c.entries[j] > 0 /\ w.msgs[j].autos \in Nat
      BY <1>1, <1>2, <1>5, <2>4 DEF Live
    <3>2. c.msgs[j].autos < c.entries[j] /\ c.entries[j] <= MaxResends
      BY <3>1 DEF Orderly, Budget
    <3> QED BY <1>1, <1>5, <2>2, <3>1, <3>2
  <2> QED BY <2>1, <2>3, <2>4 DEF Budget
<1>7. Quiet(w)
  BY <1>2, <1>3 DEF Orderly, Quiet
<1>8. Clean(w, m)
  <2>1. \A j \in Ids : j >= m => j >= n /\ j # k
    BY IdsFinite
  <2> QED BY <1>2, <1>4, <2>1 DEF Orderly, Clean
<1>9. Orderly(w, m)
  BY <1>4, <1>6, <1>7, <1>8 DEF Orderly
<1> QED BY <1>4, <1>9 DEF w

LEMMA WriteOrderly ==
    ASSUME NEW c, Shape(c), NEW n \in Nat, Orderly(c, n), NEW m \in Nat, n <= m,
           NEW k \in Ids, k < m, NEW row \in MsgRow, row.autos <= MaxResends,
           Live(c, k) => row.autos <= c.msgs[k].autos /\ ~row.quiet
    PROVE  /\ Orderly(Write(c, k, row), m)
           /\ \A o \in Ids : Unused(c, o) => Unused(Write(c, k, row), o)
<1> DEFINE w == Wrote(c, k, row)
<1>1. Orderly(w, m) /\ \A o \in Ids : Unused(c, o) => Unused(w, o)
  BY WroteOrderly
<1>2. Shape(w)
  BY WroteFields
<1>3. Write(c, k, row) = Evaluate(w)
  BY DEF Write, Wrote
<1> HIDE DEF w
<1> QED BY <1>1, <1>2, <1>3, EvaluateOrderly

(* Letting go of a live row frees the name of its message.                 *)
LEMMA ForgetOrderly ==
    ASSUME NEW c, Shape(c), NEW n \in Nat, Orderly(c, n), NEW k \in Ids,
           NEW u \in {Untrack(ClearEntry(c, k), k), ClearEntry(Untrack(c, k), k)}
    PROVE  /\ Orderly(u, n) /\ ~Live(u, k)
           /\ \A o \in Ids : Unused(c, o) => Unused(u, o)
           /\ Live(c, k) => Unused(u, Origin(c, k))
<1>1. /\ Shape(u) /\ u.msgs = c.msgs /\ u.told = c.told
      /\ u.tracked = [c.tracked EXCEPT ![k] = NoInfo]
      /\ u.entries = [c.entries EXCEPT ![k] = 0]
  BY ForgetFields
<1>2. /\ u.tracked[k] = NoInfo /\ u.entries[k] = 0
      /\ \A j \in Ids : j # k => u.tracked[j] = c.tracked[j] /\ u.entries[j] = c.entries[j]
  BY <1>1 DEF Shape
<1>3. ~Live(u, k) /\ ~IsTracked(u, k)
  BY <1>2, NoInfoType DEF Live, IsTracked
<1>4. \A j \in Ids : j # k => /\ Live(u, j) <=> Live(c, j)
                              /\ IsTracked(u, j) <=> IsTracked(c, j)
                              /\ Origin(u, j) = Origin(c, j)
  BY <1>2 DEF Live, Origin, IsTracked
<1>5. Sheds(c, u)
  BY <1>1, <1>3, <1>4 DEF Sheds
<1>6. Lineage(u) /\ \A o \in Ids : Unused(c, o) => Unused(u, o)
  BY <1>1, <1>5, ShedKeeps DEF Orderly
<1>7. Budget(u)
  BY <1>1, <1>2, <1>3, <1>4 DEF Orderly, Budget
<1>8. Quiet(u) /\ Clean(u, n)
  BY <1>1, <1>3, <1>4, <1>6 DEF Orderly, Quiet, Clean
<1>9. ASSUME Live(c, k) PROVE Unused(u, Origin(c, k))
  <2>1. u.told[Origin(c, k)] = 0
    BY <1>1, <1>9 DEF Orderly, Lineage
  <2>2. ASSUME NEW j \in Ids, Live(u, j)
        PROVE  j # Origin(c, k) /\ Origin(u, j) # Origin(c, k)
    <3>1. j # k /\ Live(c, j) /\ Origin(u, j) = Origin(c, j)
      BY <1>3, <1>4, <2>2
    <3> QED BY <1>9, <3>1 DEF Orderly, Lineage
  <2> QED BY <2>1, <2>2 DEF Unused
<1> QED BY <1>3, <1>6, <1>7, <1>8, <1>9 DEF Orderly

(* A row takes over a message: one that no live row stands for, or, on a   *)
(* row that is not tracked yet, its own.                                   *)
LEMMA TrackOrderly ==
    ASSUME NEW c, Shape(c), NEW n \in Nat, Orderly(c, n), NEW k \in Ids, k < n,
           NEW info \in Lines, info.origin \in Ids, info.origin < n,
           Unused(c, k) \/ Live(c, k), Unused(c, info.origin),
           c.msgs[k].autos <= info.used, ~c.msgs[k].quiet
    PROVE  /\ Orderly(Track(c, k, info), n)
           /\ Live(Track(c, k, info), k)
           /\ \A o \in Ids : Unused(c, o) /\ o # k /\ o # info.origin
                                => Unused(Track(c, k, info), o)
<1> DEFINE t == Track(c, k, info)
<1>1. /\ Shape(t) /\ t.msgs = c.msgs /\ t.told = c.told /\ t.entries = c.entries
      /\ t.tracked[k] = info
      /\ \A j \in Ids : j # k => t.tracked[j] = c.tracked[j] \/ t.tracked[j] = NoInfo
  BY TrackFields
<1> HIDE DEF t
<1>2. IsTracked(t, k) /\ Live(t, k) /\ Origin(t, k) = info.origin
  BY <1>1, IdsFinite DEF IsTracked, Live, Origin
<1>3. \A j \in Ids : j # k => /\ IsTracked(t, j) => t.tracked[j] = c.tracked[j] /\ IsTracked(c, j)
                              /\ Live(t, j) => Live(c, j)
                              /\ Origin(t, j) \in {j, Origin(c, j)}
  BY <1>1, NoInfoType DEF IsTracked, Live, Origin
<1>4. c.told[k] = 0 /\ c.told[info.origin] = 0
  BY DEF Unused, Orderly, Lineage
(* No other live row has a name of this one, nor this one a name of it.    *)
<1>5. ASSUME NEW j \in Ids, j # k, Live(t, j)
      PROVE  /\ Origin(t, j) \notin {k, info.origin}
             /\ info.origin \notin {j, Origin(t, j)}
  <2>1. Live(c, j) /\ j # info.origin /\ Origin(c, j) # info.origin
    BY <1>3, <1>5 DEF Unused
  <2>2. Origin(c, j) # k
    BY <1>5, <2>1 DEF Unused, Orderly, Lineage
  <2> QED BY <1>3, <1>5, <2>1, <2>2
<1>6. Lineage(t)
  <2>1. \A o \in Ids : t.told[o] <= 1
    BY <1>1 DEF Orderly, Lineage
  <2>2. ASSUME NEW i \in Ids, Live(t, i)
        PROVE  t.told[i] = 0 /\ t.told[Origin(t, i)] = 0
    <3>1. CASE i = k
      BY <1>1, <1>2, <1>4, <3>1
    <3>2. CASE i # k
      BY <1>1, <1>3, <2>2, <3>2 DEF Orderly, Lineage
    <3> QED BY <3>1, <3>2
  <2>3. ASSUME NEW i \in Ids, NEW j \in Ids, Live(t, i), Live(t, j), j # i
        PROVE  Origin(t, j) \notin {i, Origin(t, i)}
    <3>1. CASE i = k
      BY <1>2, <1>5, <2>3, <3>1
    <3>2. CASE j = k
      BY <1>2, <1>5, <2>3, <3>2
    <3>3. CASE i # k /\ j # k
      <4>1. /\ Live(c, i) /\ Origin(t, i) \in {i, Origin(c, i)}
            /\ Live(c, j) /\ Origin(t, j) \in {j, Origin(c, j)}
        BY <1>3, <2>3, <3>3
      <4>2. Origin(c, j) \notin {i, Origin(c, i)} /\ Origin(c, i) \notin {j, Origin(c, j)}
        BY <2>3, <4>1 DEF Orderly, Lineage
      <4> QED BY <2>3, <4>1, <4>2
    <3> QED BY <3>1, <3>2, <3>3
  <2> QED BY <2>1, <2>2, <2>3 DEF Lineage
<1>7. ASSUME NEW o \in Ids, Unused(c, o), o # k, o # info.origin
      PROVE  Unused(t, o)
  BY <1>1, <1>2, <1>3, <1>7 DEF Unused
<1>8. Budget(t)
  <2>1. ASSUME NEW j \in Ids, IsTracked(t, j)
        PROVE  t.msgs[j].autos <= t.tracked[j].used
    BY <1>1, <1>3, <2>1 DEF Orderly, Budget
  <2> QED BY <1>1, <2>1 DEF Orderly, Budget
<1>9. Quiet(t)
  BY <1>1, <1>3 DEF Orderly, Quiet
<1>10. Clean(t, n)
  <2>1. \A j \in Ids : j >= n => j # k /\ j # info.origin
    BY IdsFinite
  <2> QED BY <1>1, <1>7, <2>1 DEF Orderly, Clean
<1> QED BY <1>2, <1>6, <1>7, <1>8, <1>9, <1>10 DEF Orderly, t

LEMMA ClearOrderly ==
    ASSUME NEW c, Shape(c), NEW n \in Nat, Orderly(c, n), NEW k \in Ids
    PROVE  Orderly(ClearEntry(c, k), n)
<1> DEFINE u == ClearEntry(c, k)
<1>1. /\ Shape(u) /\ u.msgs = c.msgs /\ u.told = c.told /\ u.tracked = c.tracked
      /\ u.entries = [c.entries EXCEPT ![k] = 0]
  BY ClearEntryFields
<1> HIDE DEF u
<1>2. u.entries[k] = 0 /\ \A j \in Ids : j # k => u.entries[j] = c.entries[j]
  BY <1>1 DEF Shape
<1>3. \A j \in Ids : /\ Live(u, j) => Live(c, j)
                     /\ IsTracked(u, j) <=> IsTracked(c, j)
                     /\ Origin(u, j) = Origin(c, j)
  BY <1>1, <1>2 DEF Live, Origin, IsTracked
<1>4. Sheds(c, u)
  BY <1>1, <1>3 DEF Sheds
<1>5. Lineage(u) /\ \A o \in Ids : Unused(c, o) => Unused(u, o)
  BY <1>1, <1>4, ShedKeeps DEF Orderly
<1>6. Budget(u)
  BY <1>1, <1>2, <1>3 DEF Orderly, Budget
<1>7. Quiet(u) /\ Clean(u, n)
  BY <1>1, <1>3, <1>5 DEF Orderly, Quiet, Clean
<1> QED BY <1>5, <1>6, <1>7 DEF Orderly, u

(* Rows and the messages they stand for have ids that were given out.      *)
LEMMA LiveIsOld ==
    ASSUME NEW c, Shape(c), NEW n \in Nat, Orderly(c, n), NEW k \in Ids
    PROVE  /\ c.msgs[k].st # "none" => k < n
           /\ Live(c, k) => k < n /\ Origin(c, k) < n
<1>1. k \in Nat /\ Origin(c, k) \in Nat /\ Origin(c, k) \in Ids
  BY IdsFinite, OriginType
<1>2. k >= n => c.msgs[k].st = "none" /\ ~Live(c, k)
  BY <1>1 DEF Orderly, Clean, Unused, NoRow, Row
<1>3. Origin(c, k) >= n => ~Live(c, k)
  BY <1>1 DEF Orderly, Clean, Unused
<1> QED BY <1>1, <1>2, <1>3

LEMMA LaterOrderly ==
    ASSUME NEW c, NEW n \in Nat, Orderly(c, n)
    PROVE  Orderly(c, n + 1)
<1>1. \A k \in Ids : k >= n + 1 => k >= n
  BY IdsFinite
<1> QED BY <1>1 DEF Orderly, Clean

LEMMA PutOrderly ==
    ASSUME NEW c, Shape(c), NEW n \in Nat, Orderly(c, n), NEW k \in Ids,
           NEW st \in {"sending", "acked", "failed"}
    PROVE  Orderly(Put(c, k, st), n) /\ Orderly(SetStatus(c, k, st), n)
<1> DEFINE row == [c.msgs[k] EXCEPT !.st = st]
<1>1. row \in MsgRow /\ row.autos = c.msgs[k].autos /\ row.quiet = c.msgs[k].quiet
  BY DEF Shape, MsgRow
<1>2. Put(c, k, st) = IF c.msgs[k].st \in {"none", st} THEN c ELSE Write(c, k, row)
  BY DEF Put
<1> HIDE DEF row
<1>3. row.autos <= MaxResends /\ c.msgs[k].autos \in Nat
  BY <1>1, OriginType DEF Orderly, Budget
<1>4. Live(c, k) => row.autos <= c.msgs[k].autos /\ ~row.quiet
  BY <1>1, <1>3 DEF Orderly, Quiet
<1>5. c.msgs[k].st # "none" => Orderly(Write(c, k, row), n)
  BY <1>1, <1>3, <1>4, LiveIsOld, WriteOrderly
<1>6. Orderly(Put(c, k, st), n)
  BY <1>2, <1>5
<1> QED BY <1>6 DEF SetStatus

LEMMA FreshIsUnused ==
    ASSUME NEW c, NEW n \in Nat, Orderly(c, n), n \in Ids
    PROVE  Unused(c, n) /\ ~Live(c, n) /\ c.msgs[n] = NoRow
BY DEF Orderly, Clean, Unused

(* A message typed, or repeated by hand: a line of its own begins.         *)
LEMMA AddOrderly ==
    ASSUME NEW c, Shape(c), NEW n \in Nat, Orderly(c, n), n \in Ids,
           NEW row \in MsgRow, row.autos = 0, ~row.quiet
    PROVE  Orderly(Add(c, n, row), n + 1)
<1> DEFINE d == Write(c, n, row)
           w == Wrote(c, n, row)
           i == [used |-> 0, origin |-> n]
<1>1. Unused(c, n) /\ ~Live(c, n)
  BY FreshIsUnused
<1>2. row.autos <= MaxResends
  BY AutoResendAssumption
<1>3. Orderly(d, n + 1) /\ Unused(d, n)
  BY <1>1, <1>2, WriteOrderly
<1>4. Shape(w) /\ w.msgs = [c.msgs EXCEPT ![n] = row]
  BY WroteFields
<1>5. d = Evaluate(w)
  BY DEF Write, Wrote
<1>7. Add(c, n, row) = IF n \in Tracked(d) THEN d ELSE Track(d, n, i)
  BY DEF Add
<1> HIDE DEF w, d
<1>6. Shape(d) /\ d.msgs = [c.msgs EXCEPT ![n] = row]
  BY <1>4, <1>5, EvaluateFields
<1>8. i \in Lines /\ i.origin = n /\ i.used = 0
  BY DEF Lines
<1> HIDE DEF i
<1>9. n \notin Tracked(d)
  BY <1>3 DEF Unused, Live, IsTracked, Tracked
<1>10. d.msgs[n] = row
  BY <1>6 DEF Shape
<1>11. /\ n + 1 \in Nat /\ n < n + 1 /\ i.origin < n + 1 /\ i.origin \in Ids
       /\ d.msgs[n].autos <= i.used /\ ~d.msgs[n].quiet /\ Unused(d, i.origin)
  BY <1>3, <1>8, <1>10
<1>12. Orderly(Track(d, n, i), n + 1)
  BY <1>3, <1>6, <1>8, <1>11, TrackOrderly
<1> QED BY <1>7, <1>9, <1>12

(* The row the message leaves is empty.                                    *)
LEMMA EmptiedFields ==
    ASSUME NEW c, Shape(c), NEW k \in Ids
    PROVE  /\ Shape(Wrote(c, k, NoRow)) /\ Wrote(c, k, NoRow).msgs = [c.msgs EXCEPT ![k] = NoRow]
           /\ Wrote(c, k, NoRow).tracked = c.tracked
           /\ Wrote(c, k, NoRow).entries = c.entries
<1> DEFINE row == NoRow
<1>1. row \in MsgRow
  BY RowType DEF NoRow, Row
<1> HIDE DEF row
<1>2. /\ Shape(Wrote(c, k, row)) /\ Wrote(c, k, row).msgs = [c.msgs EXCEPT ![k] = row]
      /\ Wrote(c, k, row).tracked = c.tracked
      /\ Wrote(c, k, row).entries = c.entries
  BY <1>1, WroteFields
<1> QED BY <1>2 DEF row

(* The transport's id is new: the message goes on under it.                *)
LEMMA RenameOrderly ==
    ASSUME NEW c, Shape(c), NEW n \in Nat, Orderly(c, n), n \in Ids, NEW from \in Ids
    PROVE  Orderly(Rename(c, from, n), n + 1)
<1> DEFINE kept == IF c.msgs[n].st = "acked" THEN c.msgs[n] ELSE c.msgs[from]
           row == [kept EXCEPT !.quiet = @ /\ c.msgs[n].st = "none"]
           v == Wrote(c, from, NoRow)
           w == [c EXCEPT !.msgs = [@ EXCEPT ![from] = NoRow, ![n] = row]]
           e == Evaluate(w)
           f == ClearEntry(Untrack(e, from), from)
           d == Track(f, n, e.tracked[from])
<1>1. CASE c.msgs[from].st = "none" \/ from = n
  BY <1>1, LaterOrderly DEF Rename
<1>2. CASE ~(c.msgs[from].st = "none" \/ from = n)
  <2>1. Rename(c, from, n) = IF from \notin Tracked(e) THEN e
                             ELSE IF e.entries[from] > 0 THEN Evaluate(d) ELSE d
    BY <1>2 DEF Rename, Renamed
  <2>2. from < n /\ from # n /\ Unused(c, n) /\ ~Live(c, n) /\ c.msgs[n] = NoRow
    BY <1>2, LiveIsOld, FreshIsUnused
  <2>3. c.msgs[from] \in MsgRow
    BY DEF Shape
  <2>4. row = c.msgs[from]
    <3>1. kept = c.msgs[from] /\ c.msgs[n].st = "none"
      BY <2>2 DEF NoRow, Row
    <3> QED BY <2>3, <3>1 DEF MsgRow
  <2> HIDE DEF row
  <2>5. NoRow \in MsgRow /\ NoRow.autos = 0 /\ ~NoRow.quiet
    BY RowType DEF NoRow, Row
  <2>6. /\ Shape(v) /\ v.msgs = [c.msgs EXCEPT ![from] = NoRow]
        /\ v.tracked = c.tracked /\ v.entries = c.entries
    BY EmptiedFields
  <2>7. Orderly(v, n) /\ Unused(v, n)
    <3>1. NoRow.autos <= MaxResends /\ NoRow.autos <= c.msgs[from].autos
      BY <2>5, OriginType, AutoResendAssumption
    <3> QED BY <2>2, <2>5, <3>1, WroteOrderly
  <2>8. w = Wrote(v, n, row)
    <3> DEFINE m == [c.msgs EXCEPT ![from] = NoRow, ![n] = row]
    <3>1. w = [c EXCEPT !.msgs = m]
      OBVIOUS
    <3>2. v = [c EXCEPT !.msgs = v.msgs]
      <4>1. v = [c EXCEPT !.msgs = [c.msgs EXCEPT ![from] = NoRow]]
        BY DEF Wrote
      <4> HIDE DEF v
      <4> QED BY <2>6, <4>1
    <3>3. Wrote(v, n, row) = [v EXCEPT !.msgs = [v.msgs EXCEPT ![n] = row]]
      BY DEF Wrote
    <3> HIDE DEF v
    <3>4. m = [v.msgs EXCEPT ![n] = row]
      BY <2>6 DEF Shape
    <3> HIDE DEF m
    <3>5. v.tracked = c.tracked /\ v.order = c.order /\ v.entries = c.entries
          /\ v.timers = c.timers /\ v.told = c.told
      BY <3>2 DEF Shape
    <3> QED BY <2>6, <3>1, <3>3, <3>4, <3>5 DEF Shape
  <2> HIDE DEF v, w
  <2>9. row \in MsgRow /\ row.autos <= MaxResends
    BY <2>3, <2>4 DEF Orderly, Budget
  <2>10. /\ Shape(w) /\ w.msgs = [v.msgs EXCEPT ![n] = row]
         /\ w.tracked = c.tracked
    BY <2>6, <2>8, <2>9, WroteFields
  <2>11. Orderly(w, n + 1) /\ Unused(w, n)
    <3>1. ~Live(v, n)
      BY <2>7 DEF Unused
    <3>2. n + 1 \in Nat /\ n <= n + 1 /\ n < n + 1
      OBVIOUS
    <3> DEFINE x == Wrote(v, n, row)
    <3>3. Orderly(x, n + 1) /\ \A o \in Ids : Unused(v, o) => Unused(x, o)
      BY <2>6, <2>7, <2>9, <3>1, <3>2, WroteOrderly
    <3> HIDE DEF x
    <3>4. w = x
      BY <2>8 DEF x
    <3> QED BY <2>7, <3>3, <3>4
  <2>12. Orderly(e, n + 1) /\ Unused(e, n)
    BY <2>10, <2>11, EvaluateOrderly
  <2>13. /\ Shape(e) /\ e.msgs = w.msgs
         /\ e.tracked = [k \in Ids |-> IF k \in Over(w) THEN NoInfo ELSE w.tracked[k]]
    BY <2>10, EvaluateFields
  <2> HIDE DEF e
  <2>14. ASSUME from \in Tracked(e)
         PROVE  Shape(d) /\ Orderly(d, n + 1)
    <3>1. IsTracked(e, from) /\ Live(e, from) /\ Origin(e, from) = e.tracked[from].origin
      BY <2>14 DEF Tracked, IsTracked, Live, Origin
    <3>2. e.tracked[from] = c.tracked[from] /\ IsTracked(c, from)
      BY <2>10, <2>13, <3>1, NoInfoType DEF IsTracked
    <3> DEFINE m == n + 1
    <3>11. m \in Nat
      OBVIOUS
    <3>12. Orderly(e, m)
      BY <2>12
    <3> HIDE DEF m
    <3>13. Shape(f) /\ f.msgs = e.msgs
      BY <2>13, ForgetFields
    <3>14. Orderly(f, m) /\ Unused(f, n) /\ Unused(f, Origin(e, from))
      BY <2>12, <2>13, <3>1, <3>11, <3>12, ForgetOrderly
    <3>3. /\ Orderly(f, n + 1) /\ Unused(f, n) /\ Unused(f, e.tracked[from].origin)
          /\ Shape(f) /\ f.msgs = e.msgs
      BY <3>1, <3>13, <3>14 DEF m
    <3>15. Origin(e, from) \in Ids /\ Origin(e, from) < m
      BY <2>13, <3>1, <3>11, <3>12, OriginType, LiveIsOld
    <3>4. /\ e.tracked[from] \in Lines /\ e.tracked[from].origin \in Ids
          /\ e.tracked[from].origin < n + 1
      BY <2>13, <3>1, <3>15 DEF Shape, m
    <3>5. f.msgs[n] = c.msgs[from]
      BY <2>4, <2>6, <2>10, <2>13, <3>3 DEF Shape
    <3>6. c.msgs[from].autos <= e.tracked[from].used /\ ~c.msgs[from].quiet
      BY <3>2 DEF Orderly, Budget, Quiet, Live
    <3> HIDE DEF f
    <3>7. Orderly(d, n + 1)
      BY <3>3, <3>4, <3>5, <3>6, TrackOrderly
    <3> QED BY <3>3, <3>4, <3>7, TrackFields
  <2> HIDE DEF d
  <2> QED BY <2>1, <2>12, <2>14, EvaluateOrderly
<1> QED BY <1>1, <1>2

(* A row that is tracked already takes the other line instead.             *)
LEMMA TrackTwice ==
    ASSUME NEW c, Shape(c), NEW k \in Ids, NEW i \in Lines, i.origin # None, NEW j \in Lines
    PROVE  Track(Track(c, k, i), k, j) = Track(c, k, j)
<1> DEFINE d == IF k \in Tracked(c) THEN c
                ELSE [Room(c) EXCEPT !.order = Append(@, k)]
           t == Track(c, k, i)
<1>1. \A l \in Lines : Track(c, k, l) = [d EXCEPT !.tracked = [d.tracked EXCEPT ![k] = l]]
  BY DEF Track
<1>2. Shape(t) /\ t.tracked[k] = i
  BY TrackFields
<1>3. k \in Tracked(t)
  BY <1>2 DEF Tracked
<1>4. Track(t, k, j) = [t EXCEPT !.tracked = [t.tracked EXCEPT ![k] = j]]
  BY <1>3 DEF Track
<1>5. t = [d EXCEPT !.tracked = [d.tracked EXCEPT ![k] = i]]
  BY <1>1
<1> HIDE DEF d, t
<1>6. /\ t.msgs = d.msgs /\ t.order = d.order /\ t.entries = d.entries
      /\ t.timers = d.timers /\ t.told = d.told
      /\ t.tracked = [d.tracked EXCEPT ![k] = i]
  BY <1>2, <1>5 DEF Shape
<1>7. [t.tracked EXCEPT ![k] = j] = [d.tracked EXCEPT ![k] = j]
  BY <1>6
<1> DEFINE x == [d.tracked EXCEPT ![k] = j]
<1>8. Track(c, k, j) = [d EXCEPT !.tracked = x]
  BY <1>1
<1>9. Track(t, k, j) = [t EXCEPT !.tracked = x]
  BY <1>4, <1>7
<1> HIDE DEF x
<1>10. [t EXCEPT !.tracked = x] = [d EXCEPT !.tracked = x]
  BY <1>5
<1> QED BY <1>8, <1>9, <1>10 DEF t

-----------------------------------------------------------------------------
(***************************************************************************)
(* The handlers, on Meshtastic and MeshCore.                               *)
(***************************************************************************)
OInv == RInv /\ (Unmixed => Orderly(Ctl, nextId))

LEMMA OrderlyBecomes ==
    ASSUME NEW c, Shape(c), Orderly(c, nextId'), Become(c)
    PROVE  Orderly(Ctl, nextId)'
BY BecomeCtl DEF Orderly, Lineage, Budget, Quiet, Clean, Unused, Live, Origin, IsTracked

LEMMA NextIdIs ==
    ASSUME RInv, Unmixed, Orderly(Ctl, nextId)
    PROVE  nextId \in Nat /\ Shape(Ctl) /\ Sound(Ctl)
BY DEF RInv, Typed, Sound

LEMMA OInvInit ==
    ASSUME Init
    PROVE  OInv
<1>1. RInv
  BY RInvInit
<1>2. \A k \in Ids : msgs[k] = NoRow /\ tracked[k] = NoInfo /\ entries[k] = 0 /\ told[k] = 0
  BY DEF Init
<1>3. \A k \in Ids : ~IsTracked(Ctl, k) /\ ~Live(Ctl, k) /\ Origin(Ctl, k) = k
  BY <1>2, CtlFields, NoInfoType DEF IsTracked, Live, Origin
<1>4. NoRow.autos = 0 /\ ~NoRow.quiet
  BY DEF NoRow, Row
<1>5. Lineage(Ctl) /\ Quiet(Ctl)
  BY <1>2, <1>3, CtlFields DEF Lineage, Quiet
<1>6. Budget(Ctl)
  BY <1>2, <1>3, <1>4, CtlFields, AutoResendAssumption DEF Budget
<1>7. Clean(Ctl, nextId)
  BY <1>2, <1>3, CtlFields DEF Clean, Unused
<1> QED BY <1>1, <1>5, <1>6, <1>7 DEF OInv, Orderly

LEMMA ComposeOrderly ==
    ASSUME OInv, Unmixed, NEW k \in Ids, Compose(k)
    PROVE  Orderly(Ctl, nextId)'
<1>1. k = nextId /\ nextId' = nextId + 1 /\ nextId \in Nat
  BY DEF Compose, Fresh, Takes, OInv, RInv, Typed
<1>2. Row("sending").autos = 0 /\ ~Row("sending").quiet /\ Row("sending") \in MsgRow
  BY SendingType DEF Row
<1>3. Orderly(Add(Ctl, k, Row("sending")), nextId')
  BY <1>1, <1>2, AddOrderly DEF OInv, RInv, Sound
<1>4. Shape(Add(Ctl, k, Row("sending")))
  BY SendingType, AddSound DEF OInv, RInv, Sound
<1> QED BY <1>3, <1>4, OrderlyBecomes DEF Compose

LEMMA ResendByHandOrderly ==
    ASSUME OInv, Unmixed, NEW k \in Ids, ResendByHand(k)
    PROVE  Orderly(Ctl, nextId)'
<1> DEFINE row == [Row("sending") EXCEPT !.of = k]
<1>1. /\ nextId \in Ids /\ nextId' = nextId + 1 /\ nextId \in Nat
      /\ Become(Add(Ctl, nextId, row))
  BY InIds DEF ResendByHand, Takes, Unmixed, OInv, RInv, Typed
<1>2. row.autos = 0 /\ ~row.quiet /\ row.st # "failed" /\ row \in MsgRow
  BY SendingType DEF Row
<1> HIDE DEF row
<1>3. Orderly(Add(Ctl, nextId, row), nextId')
  BY <1>1, <1>2, AddOrderly DEF OInv, RInv, Sound
<1>4. Shape(Add(Ctl, nextId, row))
  BY <1>1, <1>2, AddSound DEF OInv, RInv, Sound
<1> QED BY <1>1, <1>3, <1>4, OrderlyBecomes

LEMMA FireDropsOrderly ==
    ASSUME OInv, Unmixed, NEW k \in Ids, FireDrops(k)
    PROVE  Orderly(Ctl, nextId)'
<1>1. nextId' = nextId /\ nextId \in Nat /\ Become(ClearEntry(Ctl, k))
  BY DEF FireDrops, OInv, RInv, Typed
<1>2. Orderly(ClearEntry(Ctl, k), nextId')
  BY <1>1, ClearOrderly DEF OInv, RInv, Sound
<1>3. Shape(ClearEntry(Ctl, k))
  BY ClearEntryFields DEF OInv, RInv, Sound
<1> QED BY <1>1, <1>2, <1>3, OrderlyBecomes

(* A countdown is of a live row, whose message fireResend reports or goes  *)
(* on with.                                                                *)
LEMMA PendingIsLive ==
    ASSUME OInv, NEW k \in Ids, k \in timers
    PROVE  Live(Ctl, k) /\ entries[k] > 0 /\ Info(k).origin = Origin(Ctl, k)
<1>1. entries[k] > 0
  BY CtlFields DEF OInv, RInv, Sound, Timed
<1> QED BY <1>1, CtlFields DEF Live, Info, Origin, IsTracked

LEMMA CannotStartOrderly ==
    ASSUME OInv, Unmixed, NEW k \in Ids, CannotStart(k)
    PROVE  Orderly(Ctl, nextId)'
<1> DEFINE f == Untrack(ClearEntry(Ctl, k), k)
           o == Info(k).origin
           t == Tell(o)
           g == [f EXCEPT !.told = t]
<1>1. Become(g) /\ nextId' = nextId /\ nextId \in Nat
  BY DEF CannotStart, OInv, RInv, Typed
<1>2. Live(Ctl, k) /\ o = Origin(Ctl, k) /\ o \in Ids /\ o < nextId
  BY PendingIsLive, OriginType, LiveIsOld DEF CannotStart, Pending, OInv, RInv, Typed, Sound
<1>3. t \in [Ids -> Nat] /\ \A p \in Ids : t[p] = IF p = o THEN told[p] + 1 ELSE told[p]
  BY TellType DEF OInv
<1>4. Orderly(f, nextId) /\ Unused(f, o)
  BY <1>1, <1>2, ForgetOrderly DEF OInv, RInv, Sound
<1>5. Shape(f) /\ f.told = told
  BY ForgetFields, CtlFields DEF OInv, RInv, Sound
<1> HIDE DEF f, o, t
<1>6. g = [msgs |-> f.msgs, tracked |-> f.tracked, order |-> f.order,
           entries |-> f.entries, timers |-> f.timers, told |-> t]
  BY <1>5 DEF Shape
<1> HIDE DEF g
<1>7. /\ Shape(g) /\ g.msgs = f.msgs /\ g.tracked = f.tracked
      /\ g.entries = f.entries /\ g.told = t
  BY <1>3, <1>5, <1>6 DEF Shape
<1>8. \A j \in Ids : (Live(g, j) <=> Live(f, j)) /\ Origin(g, j) = Origin(f, j)
                     /\ (IsTracked(g, j) <=> IsTracked(f, j))
  BY <1>7 DEF Live, Origin, IsTracked
<1>9. Lineage(g)
  <2>1. \A p \in Ids : t[p] <= 1
    BY <1>2, <1>3, <1>4, <1>5 DEF Orderly, Lineage, Unused
  <2>2. \A j \in Ids : Live(g, j) => t[j] = 0 /\ t[Origin(g, j)] = 0
    <3>1. \A j \in Ids : Live(f, j) => /\ j # o /\ Origin(f, j) # o /\ Origin(f, j) \in Ids
                                       /\ f.told[j] = 0 /\ f.told[Origin(f, j)] = 0
      BY <1>4, <1>5, OriginType DEF Unused, Orderly, Lineage
    <3> QED BY <1>3, <1>5, <1>8, <3>1
  <2> QED BY <1>4, <1>7, <1>8, <2>1, <2>2 DEF Orderly, Lineage
<1>10. Budget(g) /\ Quiet(g)
  BY <1>4, <1>7, <1>8 DEF Orderly, Budget, Quiet
<1>11. Clean(g, nextId)
  <2>1. \A j \in Ids : j >= nextId => j # o
    BY <1>1, <1>2, IdsFinite
  <2> QED BY <1>3, <1>4, <1>5, <1>7, <1>8, <2>1 DEF Orderly, Clean, Unused
<1> QED BY <1>1, <1>7, <1>9, <1>10, <1>11, OrderlyBecomes DEF Orderly

(* The next resend counts one more than the row's resends and takes over   *)
(* its message; the failed row is deleted last.                            *)
LEMMA FireAnewOrderly ==
    ASSUME OInv, Unmixed, NEW k \in Ids, FireAnew(k)
    PROVE  Orderly(Ctl, nextId)'
<1> DEFINE n == nextId
           m == n + 1
           o == Info(k).origin
           row == [Row("sending") EXCEPT !.autos = msgs[k].autos + 1]
           f == Untrack(ClearEntry(Ctl, k), k)
           d == Write(f, n, row)
           i0 == [used |-> 0, origin |-> n]
           i == [used |-> entries[k], origin |-> o]
           c == Add(f, n, row)
           t == Track(d, n, i)
<1>1. /\ n \in Ids /\ n \in Nat /\ nextId' = m /\ m \in Nat
      /\ Become(Delete(Track(c, n, i), k))
  BY InIds DEF FireAnew, Takes, OInv, RInv, Typed
<1>2. /\ Live(Ctl, k) /\ entries[k] > 0 /\ o = Origin(Ctl, k) /\ o \in Ids
      /\ o < n /\ k < n
  BY PendingIsLive, OriginType, LiveIsOld DEF FireAnew, Pending, OInv, RInv, Typed, Sound
<1>3. /\ row \in MsgRow /\ row.autos = msgs[k].autos + 1 /\ ~row.quiet
      /\ row.autos <= entries[k] /\ row.autos <= MaxResends
  <2>1. /\ msgs[k].autos \in Nat /\ entries[k] \in Nat /\ msgs[k].autos < entries[k]
        /\ entries[k] <= MaxResends
    BY <1>2, OriginType, CtlFields DEF OInv, RInv, Sound, Orderly, Budget
  <2>2. row \in MsgRow /\ row.autos = msgs[k].autos + 1 /\ ~row.quiet
    <3> DEFINE a == msgs[k].autos + 1
    <3>1. a \in Nat
      BY <2>1
    <3> HIDE DEF a
    <3>2. [Row("sending") EXCEPT !.autos = a] \in MsgRow
      BY <3>1, SendingType
    <3>3. row = [Row("sending") EXCEPT !.autos = a]
      BY DEF a
    <3> HIDE DEF row
    <3>4. row.autos = a /\ ~row.quiet
      BY <3>3 DEF Row
    <3> QED BY <3>2, <3>3, <3>4 DEF a
  <2> HIDE DEF row
  <2> QED BY <2>1, <2>2, AutoResendAssumption
<1>4. i \in Lines /\ i.origin = o /\ i.used = entries[k] /\ i0 \in Lines /\ i0.origin # None
  BY <1>1, InfoType, IdsFinite DEF OInv, Lines
<1>5. Orderly(f, n) /\ Unused(f, o) /\ Shape(f)
  BY <1>1, <1>2, ForgetOrderly, ForgetFields DEF OInv, RInv, Sound
<1> HIDE DEF f, row, o
<1>6. Unused(f, n) /\ ~Live(f, n)
  BY <1>1, <1>5, FreshIsUnused
<1>7. Orderly(d, m) /\ Unused(d, o) /\ Unused(d, n)
  BY <1>1, <1>2, <1>3, <1>5, <1>6, WriteOrderly
<1>8. Shape(d) /\ d.msgs = [f.msgs EXCEPT ![n] = row]
  <2> DEFINE w == Wrote(f, n, row)
  <2>1. Shape(w) /\ w.msgs = [f.msgs EXCEPT ![n] = row]
    BY <1>1, <1>3, <1>5, WroteFields
  <2>2. d = Evaluate(w)
    BY DEF Write, Wrote
  <2> HIDE DEF w, d
  <2> QED BY <2>1, <2>2, EvaluateFields
<1>9. c = Track(d, n, i0)
  <2>1. c = IF n \in Tracked(d) THEN d ELSE Track(d, n, i0)
    BY DEF Add
  <2> HIDE DEF d
  <2>2. n \notin Tracked(d)
    BY <1>1, <1>7 DEF Unused, Live, IsTracked, Tracked
  <2> QED BY <2>1, <2>2
<1> HIDE DEF c, d, i, i0
<1>10. Track(c, n, i) = t
  BY <1>1, <1>4, <1>8, <1>9, TrackTwice
<1>11. d.msgs[n] = row
  BY <1>1, <1>5, <1>8 DEF Shape
<1>12. Orderly(t, m)
  <2>1. /\ n < m /\ i.origin \in Ids /\ i.origin < m /\ Unused(d, i.origin)
        /\ d.msgs[n].autos <= i.used /\ ~d.msgs[n].quiet
    <3>1. o \in Nat
      BY <1>2, IdsFinite
    <3> QED BY <1>1, <1>2, <1>3, <1>4, <1>7, <1>11, <3>1
  <2> HIDE DEF m
  <2> QED BY <1>1, <1>4, <1>7, <1>8, <2>1, TrackOrderly
<1>13. Shape(t)
  BY <1>1, <1>4, <1>8, TrackFields
<1> HIDE DEF t
<1>14. Orderly(Delete(t, k), m) /\ Shape(Delete(t, k))
  <2>1. NoRow \in MsgRow /\ NoRow.autos = 0 /\ ~NoRow.quiet
    BY RowType DEF NoRow, Row
  <2>2. NoRow.autos <= MaxResends /\ NoRow.autos <= t.msgs[k].autos /\ k < m
    BY <1>1, <1>2, <1>13, <2>1, OriginType, AutoResendAssumption, IdsFinite
  <2>3. Orderly(Write(t, k, NoRow), m)
    BY <1>1, <1>12, <1>13, <2>1, <2>2, WriteOrderly
  <2> DEFINE w == Wrote(t, k, NoRow)
  <2>4. Shape(w)
    BY <1>13, <2>1, WroteFields
  <2>5. Write(t, k, NoRow) = Evaluate(w)
    BY DEF Write, Wrote
  <2> HIDE DEF w
  <2>6. Shape(Evaluate(w))
    BY <2>4, EvaluateFields
  <2> QED BY <2>3, <2>5, <2>6 DEF Delete
<1> QED BY <1>1, <1>10, <1>14, OrderlyBecomes

LEMMA CancelOrderly ==
    ASSUME OInv, Unmixed, NEW k \in Ids, CancelAutoResend(k)
    PROVE  Orderly(Ctl, nextId)'
<1> DEFINE f == Untrack(ClearEntry(Ctl, k), k)
           m == Quieted(k)
           g == [f EXCEPT !.msgs = m]
<1>1. /\ Become(g) /\ nextId' = nextId /\ nextId \in Nat /\ msgs[k].st = "failed"
  BY DEF CancelAutoResend, OInv, RInv, Typed
<1>2. /\ Orderly(f, nextId) /\ ~Live(f, k) /\ Shape(f) /\ f.msgs = msgs
      /\ k < nextId
  BY <1>1, ForgetOrderly, ForgetFields, LiveIsOld, CtlFields DEF OInv, RInv, Sound
<1> HIDE DEF f
<1>3. /\ m \in [Ids -> MsgRow] /\ m[k].autos = msgs[k].autos
      /\ \A j \in Ids : j # k => m[j] = msgs[j]
  BY <1>2, ZenonT(120) DEF Shape, MsgRow, Quieted
<1> HIDE DEF m
<1>4. g = [msgs |-> m, tracked |-> f.tracked, order |-> f.order,
           entries |-> f.entries, timers |-> f.timers, told |-> f.told]
  BY <1>2 DEF Shape
<1> HIDE DEF g
<1>5. /\ Shape(g) /\ g.msgs = m /\ g.tracked = f.tracked
      /\ g.entries = f.entries /\ g.told = f.told
  BY <1>2, <1>3, <1>4 DEF Shape
<1>6. \A j \in Ids : /\ Live(g, j) <=> Live(f, j)
                     /\ IsTracked(g, j) <=> IsTracked(f, j)
                     /\ Origin(g, j) = Origin(f, j)
  BY <1>5 DEF Live, Origin, IsTracked
<1>7. Lineage(g)
  BY <1>2, <1>5, <1>6 DEF Orderly, Lineage
<1>8. Budget(g)
  BY <1>2, <1>3, <1>5, <1>6 DEF Orderly, Budget
<1>9. Quiet(g)
  BY <1>2, <1>3, <1>5, <1>6 DEF Orderly, Quiet
<1>10. Clean(g, nextId)
  <2>1. \A j \in Ids : j >= nextId => j # k
    BY <1>1, <1>2, IdsFinite
  <2> QED BY <1>2, <1>3, <1>5, <1>6, <2>1 DEF Orderly, Clean, Unused
<1> QED BY <1>1, <1>5, <1>7, <1>8, <1>9, <1>10, OrderlyBecomes DEF Orderly

(* A transport answers with an id: the row's own, or the next one.         *)
LEMMA AcceptedOrderly ==
    ASSUME OInv, Unmixed, NEW s \in Sends, NEW k \in Ids, sends[s].at \in Ids,
           Accepted(s, k), Takes(k)
    PROVE  /\ Orderly(Rename(Ctl, sends[s].at, k), nextId')
           /\ Sound(Rename(Ctl, sends[s].at, k)) /\ nextId' \in Nat
<1> DEFINE from == sends[s].at
<1>1. nextId \in Nat /\ Shape(Ctl) /\ Sound(Ctl) /\ Orderly(Ctl, nextId)
  BY DEF OInv, RInv, Typed, Sound
<1>2. CASE k = nextId
  <2>1. nextId' = nextId + 1
    BY <1>2 DEF Takes
  <2>2. Orderly(Rename(Ctl, from, nextId), nextId + 1)
    BY <1>1, <1>2, RenameOrderly
  <2>3. Sound(Rename(Ctl, from, k))
    BY <1>1, RenameSound
  <2> QED BY <1>1, <1>2, <2>1, <2>2, <2>3
<1>3. CASE k # nextId
  <2>1. k = from /\ nextId' = nextId
    BY <1>3 DEF Accepted, Fresh, Takes
  <2>2. Rename(Ctl, from, k) = Ctl
    BY <2>1 DEF Rename
  <2> QED BY <1>1, <2>1, <2>2
<1> QED BY <1>2, <1>3

LEMMA DeviceAcksOrderly ==
    ASSUME OInv, Unmixed, NEW s \in Sends, NEW k \in Ids, DeviceAcks(s, k)
    PROVE  Orderly(Ctl, nextId)'
<1> DEFINE c == Rename(Ctl, sends[s].at, k)
<1>1. Orderly(c, nextId') /\ Sound(c) /\ nextId' \in Nat
  BY AcceptedOrderly, SendIds DEF DeviceAcks, OInv
<1>2. Become(SetStatus(c, k, "acked"))
  BY DEF DeviceAcks
<1> HIDE DEF c
<1>3. Orderly(SetStatus(c, k, "acked"), nextId')
  BY <1>1, PutOrderly DEF Sound
<1>4. Sound(SetStatus(c, k, "acked"))
  BY <1>1, PutSound
<1> QED BY <1>2, <1>3, <1>4, OrderlyBecomes DEF Sound

LEMMA CompanionAcceptsOrderly ==
    ASSUME OInv, Unmixed, NEW s \in Sends, NEW k \in Ids, CompanionAccepts(s, k)
    PROVE  Orderly(Ctl, nextId)'
<1> DEFINE c == Rename(Ctl, sends[s].at, k)
<1>1. Orderly(c, nextId') /\ Sound(c)
  BY AcceptedOrderly, SendIds DEF CompanionAccepts, OInv
<1>2. Become(c)
  BY DEF CompanionAccepts
<1> HIDE DEF c
<1> QED BY <1>1, <1>2, OrderlyBecomes DEF Sound

LEMMA SetStatusOrderly ==
    ASSUME OInv, Unmixed, UNCHANGED nextId, NEW k \in Ids, NEW st \in {"acked", "failed"},
           Become(SetStatus(Ctl, k, st))
    PROVE  Orderly(Ctl, nextId)'
<1>1. Orderly(SetStatus(Ctl, k, st), nextId')
  BY PutOrderly DEF OInv, RInv, Typed, Sound
<1>2. Sound(SetStatus(Ctl, k, st))
  BY PutSound DEF OInv, RInv
<1> QED BY <1>1, <1>2, OrderlyBecomes DEF Sound

LEMMA OInvNext ==
    ASSUME OInv, [Next]_vars
    PROVE  OInv'
<1>1. RInv'
  BY RInvNext DEF OInv
<1> SUFFICES ASSUME Unmixed'
             PROVE  Orderly(Ctl, nextId)'
  BY <1>1 DEF OInv
<1>2. CASE UNCHANGED <<proto, msgs, control, nextId>>
  <2>1. Ctl' = Ctl /\ nextId' = nextId /\ Unmixed
    BY <1>2 DEF Ctl, control, Unmixed
  <2>2. Orderly(Ctl, nextId)
    BY <2>1 DEF OInv
  <2> QED BY <2>1, <2>2 DEF Orderly, Lineage, Budget, Quiet, Clean, Unused, Live,
                            Origin, IsTracked
<1>3. ASSUME NEW k \in Ids,
             \/ Compose(k) \/ ResendByHand(k) \/ Announce(k)
             \/ Fire(k) \/ CancelAutoResend(k) \/ LinkTimesOut(k)
      PROVE  Orderly(Ctl, nextId)'
  <2>1. Unmixed
    BY <1>3 DEF Compose, ResendByHand, Announce, Fire, FireDrops, CannotStart, FireAnew,
                FireAgain, CancelAutoResend, LinkTimesOut, Unmixed
  <2>2. ~Announce(k) /\ ~FireAgain(k) /\ ~LinkTimesOut(k)
    BY <2>1 DEF Announce, FireAgain, LinkTimesOut, Unmixed
  <2> QED BY <1>3, <2>1, <2>2, ComposeOrderly, ResendByHandOrderly, FireDropsOrderly,
             CannotStartOrderly, FireAnewOrderly, CancelOrderly DEF Fire
<1>4. ASSUME NEW s \in Sends,
             \/ RoutingError(s) \/ SendFails(s) \/ Silence(s) \/ Revived(s)
             \/ \E st \in {"acked", "failed"} : Status(s, st)
      PROVE  Orderly(Ctl, nextId)'
  <2>1. Unmixed
    BY <1>4 DEF RoutingError, SendFails, Silence, Revived, Status, Unmixed
  <2>2. RInv
    BY DEF OInv
  <2>3. CASE RoutingError(s)
    <3>1. sends[s].at \in Ids
      BY <2>2, <2>3, SendIds DEF RoutingError
    <3> QED BY <2>1, <2>3, <3>1, SetStatusOrderly DEF RoutingError
  <2>4. CASE SendFails(s)
    <3>1. sends[s].at \in Ids
      BY <2>2, <2>4, SendIds DEF SendFails
    <3> QED BY <2>1, <2>4, <3>1, SetStatusOrderly DEF SendFails
  <2>5. CASE Silence(s)
    BY <1>2, <2>5 DEF Silence
  <2>6. CASE Revived(s)
    BY <2>1, <2>6 DEF Revived, Unmixed
  <2>7. ASSUME NEW st \in {"acked", "failed"}, Status(s, st)
        PROVE  Orderly(Ctl, nextId)'
    <3>1. sends[s].hash \in Ids
      BY <2>2, <2>7, SendIds DEF Status
    <3> QED BY <2>1, <2>7, <3>1, SetStatusOrderly DEF Status
  <2> QED BY <1>4, <2>3, <2>4, <2>5, <2>6, <2>7
<1>5. ASSUME NEW s \in Sends, NEW k \in Ids,
             \/ DeviceAcks(s, k) \/ CompanionAccepts(s, k) \/ Echo(s, k)
             \/ \E early \in {"sending", "acked", "failed"} : Reply(s, k, early)
      PROVE  Orderly(Ctl, nextId)'
  <2>1. Unmixed
    BY <1>5 DEF DeviceAcks, CompanionAccepts, Echo, Reply, Unmixed
  <2>2. ~Echo(s, k) /\ \A early \in {"sending", "acked", "failed"} : ~Reply(s, k, early)
    BY <2>1 DEF Echo, Reply, Unmixed
  <2> QED BY <1>5, <2>1, <2>2, DeviceAcksOrderly, CompanionAcceptsOrderly
<1> QED BY <1>2, <1>3, <1>4, <1>5 DEF Next, vars, control

(* A countdown's number is above its row's resends and within the limit,   *)
(* and the next row takes that number as the line's count: a push-out of   *)
(* the tracked ones, a re-key or a resend by hand starts no line over.     *)
THEOREM Bounded == Spec => []ResendBudget
<1>1. Init => OInv
  BY OInvInit
<1>2. OInv /\ [Next]_vars => OInv'
  BY OInvNext
<1>3. OInv => ResendBudget
  BY CtlFields DEF OInv, Orderly, Budget, ResendBudget
<1> QED BY <1>1, <1>2, <1>3, PTL DEF Spec

(* No two live rows stand for one message, and the row whose end is told   *)
(* is let go of in the same step.                                          *)
THEOREM ToldOnce == Spec => []OneOutcome
<1>1. Init => OInv
  BY OInvInit
<1>2. OInv /\ [Next]_vars => OInv'
  BY OInvNext
<1>3. OInv => OneOutcome
  BY CtlFields DEF OInv, Orderly, Lineage, OneOutcome
<1> QED BY <1>1, <1>2, <1>3, PTL DEF Spec

(* cancelAutoResend untracks the row as well as its countdown, and no      *)
(* re-key or late answer tracks it again.                                  *)
THEOREM StaysCancelled == Spec => []CancelledIsQuiet
<1>1. Init => OInv
  BY OInvInit
<1>2. OInv /\ [Next]_vars => OInv'
  BY OInvNext
<1>3. OInv => CancelledIsQuiet
  BY CtlFields DEF OInv, RInv, Sound, Timed, Orderly, Quiet, Live, CancelledIsQuiet
<1> QED BY <1>1, <1>2, <1>3, PTL DEF Spec
=============================================================================
