------------------------- MODULE RfReconnectProofs -------------------------
(***************************************************************************)
(* Nothing superseded succeeds, nothing wedges, a cycle has one owner, for *)
(* any numbers of tries, sessions, attempts, teardowns, calls and events:  *)
(* proofs about RfReconnect.                                               *)
(***************************************************************************)
EXTENDS RfReconnect, WellFoundedInduction, TLAPS

SameLink(n, r) ==
  /\ n.device = r.device /\ n.wired = r.wired /\ n.watched = r.watched
  /\ n.alarm = r.alarm /\ n.watchdog = r.watchdog
  /\ n.identity = r.identity /\ n.pendingId = r.pendingId /\ n.driver = r.driver

SameCycle(n, r) ==
  /\ n.rec = r.rec /\ n.gen = r.gen /\ n.cGen = r.cGen
  /\ n.explicit = r.explicit /\ n.params = r.params /\ n.tries = r.tries

SameFlags(n, r) ==
  /\ n.cRec = r.cRec /\ n.dirty = r.dirty /\ n.active = r.active /\ n.pend = r.pend
  /\ n.deferred = r.deferred /\ n.inFlight = r.inFlight

LEMMA CancelFacts ==
  ASSUME NEW r \in Machine, NEW n, n = Cancel(r)
  PROVE  /\ n \in Machine /\ SameLink(n, r)
         /\ n.rec = r.rec /\ n.gen = r.gen /\ n.cGen = r.cGen + 1
         /\ n.explicit = r.explicit /\ n.params = r.params /\ n.tries = r.tries
         /\ ~n.cRec /\ ~n.dirty /\ ~n.active /\ ~n.pend
         /\ n.deferred = r.deferred /\ n.inFlight = r.inFlight /\ n.ui = r.ui
<1>1. r.cGen \in Nat
  BY DEF Machine
<1>2. r.cGen + 1 \in Nat
  BY <1>1
<1> DEFINE g == r.cGen + 1
<1>3. n = [r EXCEPT !.cGen = g, !.cRec = FALSE, !.dirty = FALSE, !.active = FALSE,
                    !.pend = FALSE] /\ g \in Nat
  BY <1>2 DEF Cancel
<1>4. g = r.cGen + 1
  OBVIOUS
<1> HIDE DEF g
<1>5. n \in Machine
  BY <1>3, ZenonT(120) DEF Machine
<1>6. n.cGen = g /\ n.cRec = FALSE /\ n.dirty = FALSE /\ n.active = FALSE /\ n.pend = FALSE
  BY <1>3 DEF Machine
<1>7. /\ SameLink(n, r)
      /\ n.rec = r.rec /\ n.gen = r.gen
      /\ n.explicit = r.explicit /\ n.params = r.params /\ n.tries = r.tries
      /\ n.deferred = r.deferred /\ n.inFlight = r.inFlight /\ n.ui = r.ui
  BY <1>3 DEF Machine, SameLink
<1> QED BY <1>4, <1>5, <1>6, <1>7

LEMMA EndAttemptFacts ==
  ASSUME NEW r \in Machine, NEW keep \in BOOLEAN, NEW n, n = EndAttempt(r, keep)
  PROVE  /\ n \in Machine /\ SameLink(n, r) /\ SameCycle(n, r)
         /\ (n.cRec <=> r.cRec /\ keep) /\ ~n.active /\ ~n.dirty
         /\ n.pend = r.pend
         /\ n.deferred = r.deferred /\ n.inFlight = r.inFlight /\ n.ui = r.ui
BY ZenonT(120) DEF EndAttempt, Machine, SameLink, SameCycle

LEMMA DropFacts ==
  ASSUME NEW r \in Machine, NEW n, n = Drop(r)
  PROVE  /\ n \in Machine /\ SameCycle(n, r) /\ SameFlags(n, r) /\ n.ui = r.ui
         /\ n.device = NoSession /\ ~n.driver /\ ~n.pendingId
         /\ n.wired = r.wired /\ n.watched = r.watched /\ n.alarm = r.alarm
         /\ n.watchdog = r.watchdog /\ n.identity = r.identity
BY ZenonT(120) DEF Drop, Machine, SameFlags, SameCycle

LEMMA CleanFacts ==
  ASSUME NEW r \in Machine, NEW n, n = CleanupSubscriptions(r)
  PROVE  /\ n \in Machine /\ SameCycle(n, r) /\ SameFlags(n, r) /\ n.ui = r.ui
         /\ n.wired = {} /\ n.watched = {} /\ ~n.identity /\ ~n.driver
         /\ n.device = r.device /\ n.alarm = r.alarm /\ n.watchdog = r.watchdog
         /\ n.pendingId = r.pendingId
BY ZenonT(120) DEF CleanupSubscriptions, Machine, SameFlags, SameCycle

LEMMA SettleFacts ==
  ASSUME NEW r \in Machine, NEW n, n = Settle(r)
  PROVE  /\ n \in Machine /\ SameLink(n, r) /\ SameCycle(n, r) /\ n.ui = r.ui
         /\ (n.cRec <=> r.cRec /\ r.rec)
         /\ (n.pend <=> r.pend \/ (r.rec /\ (r.deferred \/ r.dirty)))
         /\ ~n.deferred /\ ~n.active /\ ~n.inFlight
<1> DEFINE c == [r EXCEPT !.inFlight = FALSE, !.dirty = @ \/ r.deferred]
           again == r.deferred \/ ShouldSchedule(c, r.rec)
           e == EndAttempt(c, r.rec)
           f == [e EXCEPT !.deferred = FALSE]
<1>0. r.rec \in BOOLEAN /\ r.deferred \in BOOLEAN /\ r.dirty \in BOOLEAN
  BY DEF Machine
<1>1. /\ c \in Machine /\ SameLink(c, r) /\ SameCycle(c, r) /\ c.ui = r.ui
      /\ (c.dirty <=> r.dirty \/ r.deferred) /\ ~c.inFlight
      /\ c.cRec = r.cRec /\ c.pend = r.pend /\ c.deferred = r.deferred
  BY ZenonT(120) DEF Machine, SameLink, SameCycle
<1>2. again <=> r.deferred \/ (r.rec /\ r.dirty)
  BY <1>0, <1>1 DEF ShouldSchedule
<1>3. n = IF again THEN IF f.rec THEN ScheduleOwner(f) ELSE f ELSE e
  BY DEF Settle
<1> HIDE DEF c, again
<1>30. e = EndAttempt(c, r.rec)
  OBVIOUS
<1> HIDE DEF e
<1>4. /\ e \in Machine /\ SameLink(e, c) /\ SameCycle(e, c)
      /\ (e.cRec <=> c.cRec /\ r.rec) /\ ~e.active /\ ~e.dirty
      /\ e.pend = c.pend
      /\ e.deferred = c.deferred /\ e.inFlight = c.inFlight /\ e.ui = c.ui
  <2>1. c \in Machine /\ r.rec \in BOOLEAN
    BY <1>0, <1>1
  <2> QED BY ONLY <2>1, <1>30, EndAttemptFacts
<1>5. /\ f \in Machine /\ SameLink(f, e) /\ SameCycle(f, e) /\ ~f.deferred
      /\ f.cRec = e.cRec /\ f.active = e.active /\ f.inFlight = e.inFlight
      /\ f.pend = e.pend /\ f.ui = e.ui
  BY <1>4, ZenonT(120) DEF Machine, SameLink, SameCycle
<1> HIDE DEF f
<1>6. CASE again /\ r.rec
  <2>1. n = [f EXCEPT !.pend = TRUE]
    BY <1>6, <1>3, <1>5, <1>4, <1>1 DEF ScheduleOwner, SameCycle
  <2>2. /\ n \in Machine /\ SameLink(n, f) /\ SameCycle(n, f) /\ ~n.deferred
        /\ n.cRec = f.cRec /\ n.active = f.active /\ n.inFlight = f.inFlight
        /\ n.pend = TRUE /\ n.ui = f.ui
    BY <2>1, <1>5, ZenonT(120) DEF Machine, SameLink, SameCycle
  <2> QED BY <2>2, <1>1, <1>2, <1>4, <1>5, <1>6 DEF SameLink, SameCycle
<1>7. CASE again /\ ~r.rec
  <2>1. n = f
    BY <1>7, <1>3, <1>5, <1>4, <1>1 DEF SameCycle
  <2> QED BY <2>1, <1>1, <1>2, <1>4, <1>5, <1>7 DEF SameLink, SameCycle
<1>8. CASE ~again
  <2>1. n = e
    BY <1>8, <1>3
  <2> QED BY <2>1, <1>1, <1>2, <1>4, <1>8 DEF SameLink, SameCycle
<1> QED BY <1>6, <1>7, <1>8

LEMMA MarkDoneFacts ==
  ASSUME NEW r \in Machine, NEW n, n = MarkDone(r)
  PROVE  /\ n \in Machine /\ SameLink(n, r) /\ SameCycle(n, r) /\ n.ui = r.ui
         /\ ~n.cRec /\ ~n.active /\ n.pend = r.pend
         /\ n.deferred = r.deferred /\ n.inFlight = r.inFlight
BY ZenonT(120) DEF MarkDone, Machine, SameLink, SameCycle

LEMMA ScheduleFacts ==
  ASSUME NEW r \in Machine, NEW n, n = ScheduleOwner(r)
  PROVE  /\ n \in Machine /\ SameLink(n, r) /\ SameCycle(n, r) /\ n.ui = r.ui
         /\ n.pend /\ n.cRec = r.cRec /\ n.dirty = r.dirty /\ n.active = r.active
         /\ n.deferred = r.deferred /\ n.inFlight = r.inFlight
BY DEF ScheduleOwner, Machine, SameLink, SameCycle

LEMMA FlushFacts ==
  ASSUME NEW r \in Machine, NEW n, n = FlushOrEnd(r)
  PROVE  /\ n \in Machine /\ SameLink(n, r) /\ SameCycle(n, r)
         /\ n.ui \in {r.ui, "disconnected"}
         /\ (r.ui = "reconnecting" /\ ~r.rec => n.ui = "disconnected")
         /\ (n.cRec => r.cRec /\ r.rec) /\ (r.cRec /\ r.rec => n.cRec)
         /\ ~n.active /\ n.inFlight = r.inFlight
         /\ (r.pend => n.pend)
         /\ (r.deferred /\ r.rec /\ ~r.explicit => n.pend)
         /\ (n.deferred => r.deferred)
<1>0. r.rec \in BOOLEAN /\ r.deferred \in BOOLEAN /\ r.explicit \in BOOLEAN
  BY DEF Machine
<1>1. CASE r.deferred /\ r.rec /\ ~r.explicit
  <2> DEFINE d == [r EXCEPT !.deferred = FALSE]
             e == EndAttempt(d, TRUE)
  <2>1. /\ d \in Machine /\ SameLink(d, r) /\ SameCycle(d, r) /\ d.ui = r.ui
        /\ ~d.deferred /\ d.cRec = r.cRec /\ d.inFlight = r.inFlight /\ d.pend = r.pend
    BY DEF Machine, SameLink, SameCycle
  <2>2. n = ScheduleOwner(e) /\ e = EndAttempt(d, TRUE)
    BY <1>1 DEF FlushOrEnd
  <2> HIDE DEF d, e
  <2>3. /\ e \in Machine /\ SameLink(e, d) /\ SameCycle(e, d)
        /\ (e.cRec <=> d.cRec) /\ ~e.active /\ e.pend = d.pend
        /\ e.deferred = d.deferred /\ e.inFlight = d.inFlight /\ e.ui = d.ui
    BY ONLY <2>1, <2>2, EndAttemptFacts
  <2>4. /\ n \in Machine /\ SameLink(n, e) /\ SameCycle(n, e) /\ n.ui = e.ui
        /\ n.pend /\ n.cRec = e.cRec /\ n.active = e.active
        /\ n.deferred = e.deferred /\ n.inFlight = e.inFlight
    BY ONLY <2>3, <2>2, ScheduleFacts, ZenonT(120)
  <2> QED BY ONLY <1>0, <1>1, <2>1, <2>3, <2>4 DEF SameLink, SameCycle
<1>2. CASE ~(r.deferred /\ r.rec /\ ~r.explicit)
  <2> DEFINE d == IF r.rec THEN r ELSE [r EXCEPT !.ui = "disconnected"]
  <2>1. /\ d \in Machine /\ SameLink(d, r) /\ SameCycle(d, r)
        /\ d.ui = (IF r.rec THEN r.ui ELSE "disconnected")
        /\ d.deferred = r.deferred /\ d.cRec = r.cRec /\ d.inFlight = r.inFlight /\ d.pend = r.pend
    BY DEF Machine, SameLink, SameCycle
  <2>2. n = EndAttempt(d, r.rec)
    BY <1>2 DEF FlushOrEnd
  <2> HIDE DEF d
  <2>3. /\ n \in Machine /\ SameLink(n, d) /\ SameCycle(n, d)
        /\ (n.cRec <=> d.cRec /\ r.rec) /\ ~n.active /\ n.pend = d.pend
        /\ n.deferred = d.deferred /\ n.inFlight = d.inFlight /\ n.ui = d.ui
    <3> DEFINE keep == r.rec
    <3>1. keep \in BOOLEAN /\ n = EndAttempt(d, keep)
      BY <1>0, <2>2
    <3> HIDE DEF keep
    <3>2. d \in Machine
      BY <2>1
    <3>3. /\ n \in Machine /\ SameLink(n, d) /\ SameCycle(n, d)
          /\ (n.cRec <=> d.cRec /\ keep) /\ ~n.active /\ ~n.dirty
          /\ n.pend = d.pend
          /\ n.deferred = d.deferred /\ n.inFlight = d.inFlight /\ n.ui = d.ui
      BY ONLY <3>1, <3>2, EndAttemptFacts
    <3> QED BY ONLY <3>3 DEF keep
  <2> QED BY ONLY <1>0, <1>2, <2>1, <2>3 DEF SameLink, SameCycle
<1> QED BY <1>1, <1>2

LEMMA AfterErrorFacts ==
  ASSUME NEW r \in Machine, NEW gen, NEW n, n = AfterError(r, gen)
  PROVE  /\ n \in Machine /\ SameCycle(n, r) /\ n.ui = r.ui
         /\ n.wired = {} /\ n.watched = {} /\ ~n.identity /\ ~n.driver
         /\ n.device = r.device /\ n.alarm = r.alarm /\ n.watchdog = r.watchdog
         /\ n.pendingId = r.pendingId
         /\ (n.cRec <=> r.cRec /\ r.rec)
         /\ (n.pend <=> r.pend \/ (r.rec /\ (r.deferred \/ r.dirty \/ r.gen = gen)))
         /\ ~n.deferred /\ ~n.active /\ ~n.inFlight
<1> DEFINE c == CleanupSubscriptions(r)
           retry == ~r.deferred /\ r.rec /\ r.gen = gen
           d == IF retry THEN ScheduleOwner(c) ELSE c
<1>0. r.rec \in BOOLEAN /\ r.deferred \in BOOLEAN /\ r.dirty \in BOOLEAN
  BY DEF Machine
<1>1. c = CleanupSubscriptions(r) /\ n = Settle(d) /\ d = IF retry THEN ScheduleOwner(c) ELSE c
  BY DEF AfterError
<1> HIDE DEF c, d
<1>2. /\ c \in Machine /\ SameCycle(c, r) /\ SameFlags(c, r) /\ c.ui = r.ui
      /\ c.wired = {} /\ c.watched = {} /\ ~c.identity /\ ~c.driver
      /\ c.device = r.device /\ c.alarm = r.alarm /\ c.watchdog = r.watchdog
      /\ c.pendingId = r.pendingId
  BY ONLY <1>1, CleanFacts, r \in Machine
<1>3. /\ d \in Machine /\ SameLink(d, c) /\ SameCycle(d, c) /\ d.ui = c.ui
      /\ (d.pend <=> c.pend \/ retry) /\ d.cRec = c.cRec /\ d.dirty = c.dirty
      /\ d.deferred = c.deferred
  <2>1. CASE retry
    <3>1. d = ScheduleOwner(c)
      BY <2>1, <1>1
    <3>2. /\ d \in Machine /\ SameLink(d, c) /\ SameCycle(d, c) /\ d.ui = c.ui
          /\ d.pend /\ d.cRec = c.cRec /\ d.dirty = c.dirty /\ d.deferred = c.deferred
      BY ONLY <3>1, <1>2, ScheduleFacts
    <3> QED BY ONLY <3>2, <2>1
  <2>2. CASE ~retry
    <3>1. d = c
      BY <2>2, <1>1
    <3> QED BY <3>1, <1>2, <2>2 DEF SameLink, SameCycle
  <2> QED BY <2>1, <2>2
<1>4. /\ n \in Machine /\ SameLink(n, d) /\ SameCycle(n, d) /\ n.ui = d.ui
      /\ (n.cRec <=> d.cRec /\ d.rec)
      /\ (n.pend <=> d.pend \/ (d.rec /\ (d.deferred \/ d.dirty)))
      /\ ~n.deferred /\ ~n.active /\ ~n.inFlight
  BY ONLY <1>1, <1>3, SettleFacts
<1> QED BY ONLY <1>0, <1>2, <1>3, <1>4 DEF SameLink, SameCycle, SameFlags

LEMMA ExhaustedFacts ==
  ASSUME NEW r \in Machine, NEW n, n = Exhausted(r)
  PROVE  /\ n \in Machine
         /\ n.gen = r.gen /\ n.cGen = r.cGen /\ ~n.rec
         /\ n.explicit = r.explicit /\ n.params = r.params
         /\ n.device = NoSession /\ n.wired = {} /\ n.watched = {} /\ ~n.watchdog
         /\ n.alarm = r.alarm /\ ~n.driver /\ ~n.identity /\ ~n.pendingId
         /\ ~n.cRec /\ ~n.active /\ n.pend = r.pend
         /\ n.deferred = r.deferred /\ n.inFlight = r.inFlight
         /\ n.ui = "disconnected"
<1> DEFINE d == [r EXCEPT !.rec = FALSE, !.tries = 0, !.watchdog = FALSE,
                          !.ui = "disconnected"]
           e == MarkDone(d)
           f == CleanupSubscriptions(e)
<1>1. 0 \in 0..MaxTries
  BY RfAssumption
<1>2. /\ d \in Machine /\ d.gen = r.gen /\ d.cGen = r.cGen /\ d.rec = FALSE
      /\ d.explicit = r.explicit /\ d.params = r.params /\ d.watchdog = FALSE
      /\ d.alarm = r.alarm /\ d.pend = r.pend /\ d.deferred = r.deferred
      /\ d.inFlight = r.inFlight /\ d.ui = "disconnected"
  BY <1>1 DEF Machine
<1>3. n = Drop(f) /\ f = CleanupSubscriptions(e) /\ e = MarkDone(d)
  BY DEF Exhausted
<1> HIDE DEF d, e, f
<1>4. /\ e \in Machine /\ SameLink(e, d) /\ SameCycle(e, d) /\ e.ui = d.ui
      /\ ~e.cRec /\ ~e.active /\ e.pend = d.pend
      /\ e.deferred = d.deferred /\ e.inFlight = d.inFlight
  BY ONLY <1>2, <1>3, MarkDoneFacts
<1>5. /\ f \in Machine /\ SameCycle(f, e) /\ SameFlags(f, e) /\ f.ui = e.ui
      /\ f.wired = {} /\ f.watched = {} /\ ~f.identity /\ ~f.driver
      /\ f.alarm = e.alarm /\ f.watchdog = e.watchdog
  BY ONLY <1>4, <1>3, CleanFacts
<1>6. /\ n \in Machine /\ SameCycle(n, f) /\ SameFlags(n, f) /\ n.ui = f.ui
      /\ n.device = NoSession /\ ~n.driver /\ ~n.pendingId
      /\ n.wired = f.wired /\ n.watched = f.watched /\ n.alarm = f.alarm
      /\ n.watchdog = f.watchdog /\ n.identity = f.identity
  BY ONLY <1>5, <1>3, DropFacts
<1> QED BY ONLY <1>2, <1>4, <1>5, <1>6 DEF SameLink, SameCycle, SameFlags

LEMMA SucceedsFacts ==
  ASSUME NEW r \in Machine, NEW n, n = Settle(Success(r))
  PROVE  /\ n \in Machine /\ SameLink(n, r)
         /\ n.gen = r.gen /\ n.cGen = r.cGen /\ ~n.rec
         /\ n.explicit = r.explicit /\ n.params = r.params
         /\ ~n.cRec /\ ~n.active /\ n.pend = r.pend
         /\ ~n.deferred /\ ~n.inFlight /\ n.ui = "connected"
<1> DEFINE d == [r EXCEPT !.tries = 0, !.rec = FALSE, !.deferred = FALSE,
                          !.ui = "connected"]
           e == MarkDone(d)
<1>1. 0 \in 0..MaxTries
  BY RfAssumption
<1>2. /\ d \in Machine /\ SameLink(d, r) /\ d.gen = r.gen /\ d.cGen = r.cGen
      /\ d.rec = FALSE /\ d.explicit = r.explicit /\ d.params = r.params
      /\ d.pend = r.pend /\ d.deferred = FALSE /\ d.ui = "connected"
  BY <1>1 DEF Machine, SameLink
<1>3. n = Settle(e) /\ e = MarkDone(d)
  BY DEF Success
<1> HIDE DEF d, e
<1>4. /\ e \in Machine /\ SameLink(e, d) /\ SameCycle(e, d) /\ e.ui = d.ui
      /\ ~e.cRec /\ ~e.active /\ e.pend = d.pend
      /\ e.deferred = d.deferred /\ e.inFlight = d.inFlight
  BY ONLY <1>2, <1>3, MarkDoneFacts
<1>5. /\ n \in Machine /\ SameLink(n, e) /\ SameCycle(n, e) /\ n.ui = e.ui
      /\ (n.cRec <=> e.cRec /\ e.rec)
      /\ (n.pend <=> e.pend \/ (e.rec /\ (e.deferred \/ e.dirty)))
      /\ ~n.deferred /\ ~n.active /\ ~n.inFlight
  BY ONLY <1>3, <1>4, SettleFacts
<1>6. r.pend \in BOOLEAN /\ n.pend \in BOOLEAN
  BY <1>5 DEF Machine
<1> QED BY ONLY <1>2, <1>4, <1>5, <1>6 DEF SameLink, SameCycle

LEMMA WireFacts ==
  ASSUME NEW r \in Machine, NEW s \in Sessions, NEW n, n = Wire(r, s)
  PROVE  /\ n \in Machine /\ SameCycle(n, r) /\ SameFlags(n, r) /\ n.ui = r.ui
         /\ n.device = s /\ n.wired = r.wired \cup {s} /\ n.watched = r.watched \cup {s}
         /\ n.alarm = r.alarm /\ n.watchdog = r.watchdog
         /\ n.identity /\ n.pendingId = r.pendingId /\ n.driver = r.driver
<1> DEFINE w == r.wired \cup {s}
           x == r.watched \cup {s}
<1>1. w \in SUBSET Sessions /\ x \in SUBSET Sessions
  BY DEF Machine
<1>2. n = [r EXCEPT !.device = s, !.wired = w, !.watched = x, !.identity = TRUE]
  BY DEF Wire
<1>3. w = r.wired \cup {s} /\ x = r.watched \cup {s}
  OBVIOUS
<1> HIDE DEF w, x
<1>4. s \in Sessions \cup {NoSession}
  OBVIOUS
<1>5. n \in Machine
  BY <1>1, <1>2, <1>4, ZenonT(120) DEF Machine
<1>6. n.device = s /\ n.wired = w /\ n.watched = x /\ n.identity = TRUE
  BY <1>2 DEF Machine
<1>7. /\ SameCycle(n, r) /\ SameFlags(n, r) /\ n.ui = r.ui
      /\ n.alarm = r.alarm /\ n.watchdog = r.watchdog
      /\ n.pendingId = r.pendingId /\ n.driver = r.driver
  BY <1>2 DEF Machine, SameCycle, SameFlags
<1> QED BY <1>3, <1>5, <1>6, <1>7

LEMMA ConfiguredFacts ==
  ASSUME NEW r \in Machine, NEW s, NEW n, n = Configured(r, s)
  PROVE  /\ n \in Machine /\ SameCycle(n, r) /\ SameFlags(n, r)
         /\ n.device = r.device /\ n.wired = r.wired /\ n.watched = r.watched
         /\ n.alarm = r.alarm /\ n.identity = r.identity
         /\ n.pendingId = r.pendingId /\ n.driver = r.driver
         /\ (s \in r.wired => n.watchdog /\ n.ui = "connected")
         /\ (s \notin r.wired => n = r)
BY ZenonT(120) DEF Configured, Machine, SameCycle, SameFlags

LEMMA PreparedFacts ==
  ASSUME NEW r \in Machine, NEW n, n = Prepared(r)
  PROVE  /\ n \in Machine /\ SameLink(n, r)
         /\ ~n.rec /\ n.gen = r.gen + 1 /\ n.cGen = r.cGen + 1
         /\ ~n.explicit /\ n.params
         /\ ~n.cRec /\ ~n.dirty /\ ~n.active /\ ~n.pend /\ ~n.inFlight
         /\ n.deferred = r.deferred /\ n.ui = "connecting"
<1> DEFINE g == r.gen + 1
           d == [r EXCEPT !.params = TRUE, !.explicit = FALSE, !.tries = 0,
                          !.rec = FALSE, !.inFlight = FALSE, !.gen = g,
                          !.ui = "connecting"]
<1>1. 0 \in 0..MaxTries /\ g \in Nat
  BY RfAssumption DEF Machine
<1>2. n = Cancel(d)
  BY DEF Prepared
<1>3. g = r.gen + 1
  OBVIOUS
<1> HIDE DEF g
<1>4. d \in Machine
  BY <1>1, ZenonT(120) DEF Machine
<1>5. d.params = TRUE /\ d.explicit = FALSE /\ d.rec = FALSE /\ d.inFlight = FALSE /\ d.gen = g
      /\ d.ui = "connecting"
  BY DEF Machine
<1>6. SameLink(d, r) /\ d.cGen = r.cGen /\ d.deferred = r.deferred
  BY DEF Machine, SameLink
<1> HIDE DEF d
<1>7. /\ n \in Machine /\ SameLink(n, d)
      /\ n.rec = d.rec /\ n.gen = d.gen /\ n.cGen = d.cGen + 1
      /\ n.explicit = d.explicit /\ n.params = d.params
      /\ ~n.cRec /\ ~n.dirty /\ ~n.active /\ ~n.pend
      /\ n.deferred = d.deferred /\ n.inFlight = d.inFlight /\ n.ui = d.ui
  BY ONLY <1>2, <1>4, CancelFacts
<1> QED BY ONLY <1>3, <1>5, <1>6, <1>7 DEF SameLink

LEMMA LostEndsFacts ==
  ASSUME NEW r \in Machine, NEW start \in BOOLEAN, NEW n, n = LostEnds(r, start)
  PROVE  /\ n \in Machine /\ SameCycle(n, r) /\ n.ui = r.ui
         /\ n.wired = {} /\ n.watched = {} /\ ~n.identity /\ ~n.driver
         /\ n.device = r.device /\ n.alarm = r.alarm /\ n.watchdog = r.watchdog
         /\ n.pendingId = r.pendingId
         /\ n.cRec = r.cRec /\ n.active = r.active /\ n.inFlight = r.inFlight
         /\ (n.pend <=> r.pend \/ start)
         /\ (n.deferred <=> r.deferred \/ ~start)
<1> DEFINE c == CleanupSubscriptions(r)
<1>0. r.pend \in BOOLEAN /\ r.deferred \in BOOLEAN
  BY DEF Machine
<1>1. c = CleanupSubscriptions(r) /\ n = IF start THEN ScheduleOwner(c) ELSE [c EXCEPT !.deferred = TRUE]
  BY DEF LostEnds
<1> HIDE DEF c
<1>2. /\ c \in Machine /\ SameCycle(c, r) /\ SameFlags(c, r) /\ c.ui = r.ui
      /\ c.wired = {} /\ c.watched = {} /\ ~c.identity /\ ~c.driver
      /\ c.device = r.device /\ c.alarm = r.alarm /\ c.watchdog = r.watchdog
      /\ c.pendingId = r.pendingId
  BY ONLY <1>1, CleanFacts, r \in Machine
<1>3. CASE start
  <2>1. n = ScheduleOwner(c)
    BY <1>1, <1>3
  <2>2. /\ n \in Machine /\ SameLink(n, c) /\ SameCycle(n, c) /\ n.ui = c.ui
        /\ n.pend /\ n.cRec = c.cRec /\ n.dirty = c.dirty /\ n.active = c.active
        /\ n.deferred = c.deferred /\ n.inFlight = c.inFlight
    BY ONLY <2>1, <1>2, ScheduleFacts
  <2> QED BY ONLY <1>0, <1>2, <1>3, <2>2 DEF SameLink, SameCycle, SameFlags
<1>4. CASE ~start
  <2>1. n = [c EXCEPT !.deferred = TRUE]
    BY <1>1, <1>4
  <2>2. /\ n \in Machine /\ SameLink(n, c) /\ SameCycle(n, c) /\ n.ui = c.ui
        /\ n.deferred = TRUE /\ n.cRec = c.cRec /\ n.active = c.active /\ n.pend = c.pend
        /\ n.inFlight = c.inFlight
    BY <2>1, <1>2, ZenonT(120) DEF Machine, SameLink, SameCycle
  <2> QED BY ONLY <1>0, <1>2, <1>4, <2>2 DEF SameLink, SameCycle, SameFlags
<1> QED BY <1>3, <1>4

LEMMA FailureEndsFacts ==
  ASSUME NEW r \in Machine, NEW n, n = FailureEnds(r)
  PROVE  /\ n \in Machine /\ SameCycle(n, r) /\ SameFlags(n, r)
         /\ n.device = r.device /\ n.wired = r.wired /\ n.watched = r.watched
         /\ n.alarm = r.alarm /\ n.watchdog = r.watchdog /\ n.identity = r.identity
         /\ ~n.pendingId /\ ~n.driver /\ n.ui = "disconnected"
BY ZenonT(120) DEF FailureEnds, Machine, SameCycle, SameFlags

LEMMA FinalizeEndsFacts ==
  ASSUME NEW r \in Machine, NEW n, n = FinalizeEnds(r)
  PROVE  /\ n \in Machine /\ SameCycle(n, r) /\ SameFlags(n, r)
         /\ n.device = r.device /\ n.wired = {} /\ n.watched = {}
         /\ n.alarm = r.alarm /\ n.watchdog = r.watchdog /\ ~n.identity
         /\ ~n.pendingId /\ ~n.driver /\ n.ui = "disconnected"
<1> DEFINE c == CleanupSubscriptions(r)
<1>1. c = CleanupSubscriptions(r) /\ n = [c EXCEPT !.pendingId = FALSE, !.ui = "disconnected"]
  BY DEF FinalizeEnds
<1> HIDE DEF c
<1>2. /\ c \in Machine /\ SameCycle(c, r) /\ SameFlags(c, r)
      /\ c.wired = {} /\ c.watched = {} /\ ~c.identity /\ ~c.driver
      /\ c.device = r.device /\ c.alarm = r.alarm /\ c.watchdog = r.watchdog
  BY ONLY <1>1, CleanFacts, r \in Machine
<1>3. /\ n \in Machine /\ SameCycle(n, c) /\ SameFlags(n, c)
      /\ n.device = c.device /\ n.wired = c.wired /\ n.watched = c.watched
      /\ n.alarm = c.alarm /\ n.watchdog = c.watchdog /\ n.identity = c.identity
      /\ n.driver = c.driver /\ ~n.pendingId /\ n.ui = "disconnected"
  BY <1>1, <1>2, ZenonT(120) DEF Machine, SameCycle, SameFlags
<1> QED BY ONLY <1>2, <1>3 DEF SameCycle, SameFlags

(* The machine of LoseLink, of ConnectFailure, of Disconnect and of Suspend, *)
(* before they look at what there is to close.                               *)
Loses(r) ==
  Drop([OnLinkLost(r) EXCEPT !.gen = OnLinkLost(r).cGen, !.rec = TRUE,
          !.watchdog = FALSE, !.deferred = @ \/ ~StartsOwner(r)])

GivesUp(r) ==
  [CleanupSubscriptions(r) EXCEPT
     !.rec = FALSE, !.gen = @ + 1, !.watchdog = FALSE, !.device = NoSession]

UserEnds(r) ==
  Cancel([r EXCEPT !.explicit = TRUE, !.params = FALSE, !.tries = 0,
            !.rec = FALSE, !.inFlight = FALSE, !.gen = @ + 1,
            !.watchdog = FALSE, !.device = NoSession])

Sleeps(r) == Cancel([r EXCEPT !.gen = @ + 1, !.rec = FALSE])

LEMMA LosesFacts ==
  ASSUME NEW r \in Machine, NEW n, n = Loses(r)
  PROVE  /\ n \in Machine
         /\ n.rec /\ n.gen = r.cGen + 1 /\ n.cGen = r.cGen + 1
         /\ n.explicit = r.explicit /\ n.params = r.params
         /\ n.device = NoSession /\ ~n.driver /\ ~n.pendingId /\ ~n.watchdog
         /\ n.wired = r.wired /\ n.watched = r.watched /\ n.alarm = r.alarm
         /\ n.identity = r.identity
         /\ n.cRec /\ n.active = r.active /\ n.pend = r.pend /\ n.inFlight = r.inFlight
         /\ (n.deferred <=> r.deferred \/ r.cRec)
         /\ n.ui = r.ui
<1> DEFINE g == r.cGen + 1
           b == r.deferred \/ ~StartsOwner(r)
           d == [r EXCEPT !.cGen = g, !.cRec = TRUE, !.dirty = r.cRec]
           e == [d EXCEPT !.gen = d.cGen, !.rec = TRUE, !.watchdog = FALSE,
                   !.deferred = d.deferred \/ ~StartsOwner(r)]
<1>0. r.cRec \in BOOLEAN /\ r.deferred \in BOOLEAN /\ g \in Nat /\ b \in BOOLEAN
      /\ (b <=> r.deferred \/ r.cRec)
  BY DEF Machine, StartsOwner
<1>1. n = Drop(e)
  BY DEF Loses, OnLinkLost
<1>2. g = r.cGen + 1
  OBVIOUS
<1> HIDE DEF g
<1>3. d \in Machine
  BY <1>0 DEF Machine
<1>4. d.cGen = g /\ d.cRec = TRUE /\ d.deferred = r.deferred
  BY DEF Machine
<1>5. /\ d.explicit = r.explicit /\ d.params = r.params
      /\ d.wired = r.wired /\ d.watched = r.watched /\ d.alarm = r.alarm
      /\ d.identity = r.identity /\ d.active = r.active /\ d.pend = r.pend
      /\ d.inFlight = r.inFlight /\ d.ui = r.ui
  BY DEF Machine
<1>6. e = [d EXCEPT !.gen = g, !.rec = TRUE, !.watchdog = FALSE, !.deferred = b]
  BY <1>4
<1> HIDE DEF b, d, e
<1>7. e \in Machine
  BY <1>0, <1>3, <1>6, ZenonT(120) DEF Machine
<1>8. e.gen = g /\ e.rec = TRUE /\ e.watchdog = FALSE /\ e.deferred = b
  BY <1>3, <1>6 DEF Machine
<1>9. /\ e.cGen = d.cGen /\ e.cRec = d.cRec
      /\ e.explicit = d.explicit /\ e.params = d.params
      /\ e.wired = d.wired /\ e.watched = d.watched /\ e.alarm = d.alarm
      /\ e.identity = d.identity /\ e.active = d.active /\ e.pend = d.pend
      /\ e.inFlight = d.inFlight /\ e.ui = d.ui
  BY <1>3, <1>6 DEF Machine
<1>10. /\ n \in Machine /\ SameCycle(n, e) /\ SameFlags(n, e) /\ n.ui = e.ui
       /\ n.device = NoSession /\ ~n.driver /\ ~n.pendingId
       /\ n.wired = e.wired /\ n.watched = e.watched /\ n.alarm = e.alarm
       /\ n.watchdog = e.watchdog /\ n.identity = e.identity
  BY ONLY <1>1, <1>7, DropFacts
<1> QED BY ONLY <1>0, <1>2, <1>4, <1>5, <1>8, <1>9, <1>10 DEF SameCycle, SameFlags

LEMMA GivesUpFacts ==
  ASSUME NEW r \in Machine, NEW n, n = GivesUp(r)
  PROVE  /\ n \in Machine /\ SameFlags(n, r) /\ n.ui = r.ui
         /\ ~n.rec /\ n.gen = r.gen + 1 /\ n.cGen = r.cGen
         /\ n.explicit = r.explicit /\ n.params = r.params
         /\ n.device = NoSession /\ n.wired = {} /\ n.watched = {} /\ n.alarm = r.alarm
         /\ ~n.watchdog /\ ~n.identity /\ ~n.driver /\ n.pendingId = r.pendingId
<1> DEFINE c == CleanupSubscriptions(r)
           g == c.gen + 1
<1>1. c = CleanupSubscriptions(r) /\ g = c.gen + 1
      /\ n = [c EXCEPT !.rec = FALSE, !.gen = g, !.watchdog = FALSE, !.device = NoSession]
  BY DEF GivesUp
<1> HIDE DEF c, g
<1>2. /\ c \in Machine /\ SameCycle(c, r) /\ SameFlags(c, r) /\ c.ui = r.ui
      /\ c.wired = {} /\ c.watched = {} /\ ~c.identity /\ ~c.driver
      /\ c.alarm = r.alarm /\ c.pendingId = r.pendingId
  BY ONLY <1>1, CleanFacts, r \in Machine
<1>3. g \in Nat
  BY <1>1, <1>2 DEF Machine
<1>4. n \in Machine
  BY <1>1, <1>2, <1>3, ZenonT(120) DEF Machine
<1>5. n.rec = FALSE /\ n.gen = g /\ n.watchdog = FALSE /\ n.device = NoSession
  BY <1>1, <1>2 DEF Machine
<1>6. /\ SameFlags(n, c) /\ n.ui = c.ui /\ n.cGen = c.cGen
      /\ n.explicit = c.explicit /\ n.params = c.params
      /\ n.wired = c.wired /\ n.watched = c.watched /\ n.alarm = c.alarm
      /\ n.identity = c.identity /\ n.driver = c.driver /\ n.pendingId = c.pendingId
  BY <1>1, <1>2 DEF Machine, SameFlags
<1> QED BY ONLY <1>1, <1>2, <1>4, <1>5, <1>6 DEF SameCycle, SameFlags

LEMMA UserEndsFacts ==
  ASSUME NEW r \in Machine, NEW n, n = UserEnds(r)
  PROVE  /\ n \in Machine
         /\ ~n.rec /\ n.gen = r.gen + 1 /\ n.cGen = r.cGen + 1
         /\ n.explicit /\ ~n.params
         /\ n.device = NoSession /\ n.wired = r.wired /\ n.watched = r.watched
         /\ n.alarm = r.alarm /\ ~n.watchdog /\ n.identity = r.identity
         /\ n.driver = r.driver /\ n.pendingId = r.pendingId
         /\ ~n.cRec /\ ~n.active /\ ~n.pend /\ ~n.inFlight
         /\ n.deferred = r.deferred /\ n.ui = r.ui
<1> DEFINE g == r.gen + 1
           d == [r EXCEPT !.explicit = TRUE, !.params = FALSE, !.tries = 0,
                   !.rec = FALSE, !.inFlight = FALSE, !.gen = g,
                   !.watchdog = FALSE, !.device = NoSession]
<1>1. 0 \in 0..MaxTries /\ g \in Nat
  BY RfAssumption DEF Machine
<1>2. n = Cancel(d)
  BY DEF UserEnds
<1>3. g = r.gen + 1
  OBVIOUS
<1> HIDE DEF g
<1>4. d \in Machine
  BY <1>1, ZenonT(120) DEF Machine
<1>5. /\ d.explicit = TRUE /\ d.params = FALSE /\ d.rec = FALSE /\ d.inFlight = FALSE
      /\ d.gen = g /\ d.watchdog = FALSE /\ d.device = NoSession
  BY DEF Machine
<1>6. /\ d.cGen = r.cGen /\ d.deferred = r.deferred /\ d.ui = r.ui
      /\ d.wired = r.wired /\ d.watched = r.watched /\ d.alarm = r.alarm
      /\ d.identity = r.identity /\ d.driver = r.driver /\ d.pendingId = r.pendingId
  BY DEF Machine
<1> HIDE DEF d
<1>7. /\ n \in Machine /\ SameLink(n, d)
      /\ n.rec = d.rec /\ n.gen = d.gen /\ n.cGen = d.cGen + 1
      /\ n.explicit = d.explicit /\ n.params = d.params
      /\ ~n.cRec /\ ~n.dirty /\ ~n.active /\ ~n.pend
      /\ n.deferred = d.deferred /\ n.inFlight = d.inFlight /\ n.ui = d.ui
  BY ONLY <1>2, <1>4, CancelFacts
<1> QED BY ONLY <1>3, <1>5, <1>6, <1>7 DEF SameLink

LEMMA SleepsFacts ==
  ASSUME NEW r \in Machine, NEW n, n = Sleeps(r)
  PROVE  /\ n \in Machine /\ SameLink(n, r)
         /\ ~n.rec /\ n.gen = r.gen + 1 /\ n.cGen = r.cGen + 1
         /\ n.explicit = r.explicit /\ n.params = r.params
         /\ ~n.cRec /\ ~n.active /\ ~n.pend /\ n.inFlight = r.inFlight
         /\ n.deferred = r.deferred /\ n.ui = r.ui
<1> DEFINE g == r.gen + 1
           d == [r EXCEPT !.gen = g, !.rec = FALSE]
<1>1. g \in Nat
  BY DEF Machine
<1>2. n = Cancel(d)
  BY DEF Sleeps
<1>3. g = r.gen + 1
  OBVIOUS
<1> HIDE DEF g
<1>4. d \in Machine
  BY <1>1 DEF Machine
<1>5. d.rec = FALSE /\ d.gen = g
  BY DEF Machine
<1>6. /\ SameLink(d, r) /\ d.cGen = r.cGen /\ d.deferred = r.deferred /\ d.ui = r.ui
      /\ d.explicit = r.explicit /\ d.params = r.params /\ d.inFlight = r.inFlight
  BY DEF Machine, SameLink
<1> HIDE DEF d
<1>7. /\ n \in Machine /\ SameLink(n, d)
      /\ n.rec = d.rec /\ n.gen = d.gen /\ n.cGen = d.cGen + 1
      /\ n.explicit = d.explicit /\ n.params = d.params
      /\ ~n.cRec /\ ~n.dirty /\ ~n.active /\ ~n.pend
      /\ n.deferred = d.deferred /\ n.inFlight = d.inFlight /\ n.ui = d.ui
  BY ONLY <1>2, <1>4, CancelFacts
<1> QED BY ONLY <1>3, <1>5, <1>6, <1>7 DEF SameLink

-----------------------------------------------------------------------------
(* The driver's chain. *)

InGate(g, x) == \E i \in 1..Len(g) : g[i] = x

LEMMA AppendGate ==
  ASSUME NEW g \in Seq(Ask), NEW x \in Ask
  PROVE  /\ Append(g, x) \in Seq(Ask) /\ Append(g, x) # <<>>
         /\ InGate(Append(g, x), x)
         /\ (g # <<>> => Head(Append(g, x)) = Head(g))
         /\ (g = <<>> => Head(Append(g, x)) = x)
         /\ \A y : InGate(g, y) => InGate(Append(g, x), y)
<1> DEFINE n == Append(g, x)
<1>1. /\ n \in Seq(Ask) /\ Len(n) = Len(g) + 1 /\ n[Len(g) + 1] = x
      /\ \A i \in 1..Len(g) : n[i] = g[i]
  OBVIOUS
<1>2. Len(g) \in Nat /\ (g = <<>> <=> Len(g) = 0)
  OBVIOUS
<1> HIDE DEF n
<1>3. n # <<>> /\ Head(n) = n[1] /\ (g # <<>> => Head(g) = g[1])
  BY <1>1, <1>2
<1>4. InGate(n, x) /\ \A y : InGate(g, y) => InGate(n, y)
  BY <1>1, <1>2 DEF InGate
<1>5. (g # <<>> => Head(n) = Head(g)) /\ (g = <<>> => Head(n) = x)
  BY <1>1, <1>2, <1>3
<1> QED BY <1>1, <1>3, <1>4, <1>5 DEF n

LEMMA TailGate ==
  ASSUME NEW g \in Seq(Ask), g # <<>>
  PROVE  /\ Tail(g) \in Seq(Ask) /\ Head(g) \in Ask
         /\ \A y : InGate(g, y) /\ y # Head(g) => InGate(Tail(g), y)
<1> DEFINE n == Tail(g)
<1>1. /\ n \in Seq(Ask) /\ Len(n) = Len(g) - 1
      /\ \A i \in 1..Len(n) : n[i] = g[i + 1]
      /\ Head(g) = g[1] /\ Len(g) \in Nat /\ Len(g) > 0 /\ g[1] \in Ask
  OBVIOUS
<1> HIDE DEF n
<1>2. ASSUME NEW y, InGate(g, y), y # Head(g)  PROVE InGate(n, y)
  <2>1. PICK i \in 1..Len(g) : g[i] = y
    BY <1>2 DEF InGate
  <2>2. i # 1
    BY <2>1, <1>2, <1>1
  <2>3. i - 1 \in 1..Len(n) /\ n[i - 1] = y
    BY <2>1, <2>2, <1>1
  <2> QED BY <2>3 DEF InGate
<1> QED BY <1>1, <1>2 DEF n

LEMMA AskType ==
  /\ \A a \in Attempts : Asks("disconnect", "attempt", a) \in Ask
  /\ \A a \in Attempts : Asks("disconnect", "work", a) \in Ask
  /\ \A a \in Attempts : Asks("connect", "work", a) \in Ask
  /\ \A l \in Losses : Asks("disconnect", "lost", l) \in Ask
  /\ \A c \in Connects : Asks("disconnect", "connect", c) \in Ask
  /\ \A c \in Connects : Asks("connect", "connect", c) \in Ask
  /\ Asks("disconnect", "fin", 0) \in Ask
BY DEF Asks, Ask

LEMMA CloseGate ==
  ASSUME TypeOK, CloseSocket
  PROVE  /\ gate' \in Seq(Ask) /\ socket' = NoSession
         /\ (Opening => Opening')
         /\ (gate = <<>> <=> gate' = <<>>)
         /\ \A y \in Ask : y.op = "disconnect" /\ InGate(gate, y) => InGate(gate', y)
<1>1. gate \in Seq(Ask)
  BY DEF TypeOK
<1>2. CASE Opening
  <2>1. gate # <<>> /\ Head(gate).op \in {"connect", "broken"}
        /\ gate' = [gate EXCEPT ![1].op = "broken"]
    BY <1>2 DEF CloseSocket, Opening
  <2> DEFINE h == [gate[1] EXCEPT !.op = "broken"]
  <2>2. gate[1] \in Ask /\ Head(gate) = gate[1] /\ 1 \in 1..Len(gate)
    BY <1>1, <2>1
  <2>3. h \in Ask /\ h.op = "broken"
    BY <2>2 DEF Ask
  <2>4. gate' = [gate EXCEPT ![1] = h]
    BY <2>1
  <2> HIDE DEF h
  <2>5. /\ gate' \in Seq(Ask) /\ Len(gate') = Len(gate) /\ gate'[1] = h
        /\ \A i \in 1..Len(gate) : i # 1 => gate'[i] = gate[i]
    BY <1>1, <2>2, <2>3, <2>4
  <2>6. gate' # <<>> /\ Head(gate') = h
    BY <2>5, <2>2
  <2>7. ASSUME NEW y \in Ask, y.op = "disconnect", InGate(gate, y)  PROVE InGate(gate', y)
    <3>1. PICK i \in 1..Len(gate) : gate[i] = y
      BY <2>7 DEF InGate
    <3>2. i # 1
      BY <3>1, <2>7, <2>1, <2>2
    <3> QED BY <3>1, <3>2, <2>5 DEF InGate
  <2> QED BY <2>1, <2>3, <2>5, <2>6, <2>7 DEF CloseSocket, Opening
<1>3. CASE ~Opening
  BY <1>1, <1>3 DEF CloseSocket, Opening
<1> QED BY <1>2, <1>3

-----------------------------------------------------------------------------
(* Types. *)

History == [stale : SUBSET Parties, late : SUBSET Parties, crossed : BOOLEAN]

LEMMA HistoryTypes ==
  ASSUME NEW h \in History
  PROVE  /\ AllStale(h) \in History
         /\ AllStale(h).late = h.late /\ AllStale(h).crossed = h.crossed
         /\ \A a \in Attempts : <<"attempt", a>> \in AllStale(h).stale
         /\ \A c \in Connects : <<"connect", c>> \in AllStale(h).stale
         /\ Crossed(h) \in History
         /\ Crossed(h).late = h.late /\ Crossed(h).stale = h.stale
         /\ (h.crossed => Crossed(h).crossed)
<1> DEFINE s == {<<"attempt", a>> : a \in Attempts} \cup {<<"connect", c>> : c \in Connects}
           x == h.crossed \/ fin # "idle"
                  \/ (\E a \in Attempts : att[a] # IdleAttempt)
                  \/ (\E c \in Connects : conn[c].pc # "idle")
<1>1. s \in SUBSET Parties /\ (\A a \in Attempts : <<"attempt", a>> \in s)
      /\ (\A c \in Connects : <<"connect", c>> \in s)
  BY DEF Parties
<1>2. AllStale(h) = [h EXCEPT !.stale = s]
  BY DEF AllStale
<1>3. x \in BOOLEAN /\ (h.crossed => x)
  OBVIOUS
<1>4. Crossed(h) = [h EXCEPT !.crossed = x]
  BY DEF Crossed
<1> HIDE DEF s, x
<1>5. AllStale(h) \in History /\ AllStale(h).stale = s /\ AllStale(h).late = h.late
      /\ AllStale(h).crossed = h.crossed
  BY <1>1, <1>2 DEF History
<1>6. Crossed(h) \in History /\ Crossed(h).crossed = x /\ Crossed(h).late = h.late
      /\ Crossed(h).stale = h.stale
  BY <1>3, <1>4 DEF History
<1> QED BY <1>1, <1>3, <1>5, <1>6

LEMMA StartsTypes ==
  ASSUME hist \in History, NEW kind, NEW i, Starts(kind, i)
  PROVE  /\ hist' \in History /\ hist'.late = hist.late
         /\ hist'.crossed = hist.crossed
         /\ hist'.stale = hist.stale \ {<<kind, i>>}
<1> DEFINE s == hist.stale \ {<<kind, i>>}
<1>1. s \in SUBSET Parties
  BY DEF History
<1>2. hist' = [hist EXCEPT !.stale = s]
  BY DEF Starts
<1> HIDE DEF s
<1>3. hist' \in History /\ hist'.stale = s /\ hist'.late = hist.late
      /\ hist'.crossed = hist.crossed
  BY <1>1, <1>2 DEF History
<1> QED BY <1>3 DEF s

LEMMA SucceedsTypes ==
  ASSUME hist \in History, NEW kind, NEW i, <<kind, i>> \in Parties, Succeeds(kind, i)
  PROVE  /\ hist' \in History /\ hist'.stale = hist.stale
         /\ hist'.crossed = hist.crossed
         /\ (<<kind, i>> \notin hist.stale => hist'.late = hist.late)
<1> DEFINE s == hist.late \cup ({<<kind, i>>} \cap hist.stale)
<1>1. s \in SUBSET Parties /\ (<<kind, i>> \notin hist.stale => s = hist.late)
  BY DEF History
<1>2. hist' = [hist EXCEPT !.late = s]
  BY DEF Succeeds
<1> HIDE DEF s
<1>3. hist' \in History /\ hist'.late = s /\ hist'.stale = hist.stale
      /\ hist'.crossed = hist.crossed
  BY <1>1, <1>2 DEF History
<1> QED BY <1>1, <1>3

LEMMA SpendType ==
  ASSUME TypeOK, Spend
  PROVE  budget' \in 0..MaxEvents
BY RfAssumption DEF TypeOK, Spend

(* The free session with the lowest number. *)
LEMMA LeastSession ==
  ASSUME NEW S \in SUBSET Nat, S # {}
  PROVE  \E x \in S : \A y \in S : x <= y
<1> DEFINE R == OpToRel(<, Nat)
<1>1. IsWellFoundedOn(R, Nat)
  BY NatLessThanWellFounded
<1>2. \A x, y \in Nat : <<y, x>> \in R <=> y < x
  BY DEF OpToRel
<1> HIDE DEF R
<1>3. PICK x \in S : \A y \in S : ~ (<<y, x>> \in R)
  BY <1>1, WFMin
<1>4. ASSUME NEW y \in S PROVE x <= y
  <2>1. ~ (y < x) /\ x \in Nat /\ y \in Nat
    BY <1>2, <1>3
  <2> QED BY <2>1
<1> QED BY <1>4

LEMMA NewSessionIsNew ==
  ASSUME Sessions \ Held # {}
  PROVE  NewSession \in Sessions /\ NewSession \notin Held /\ NewSession # NoSession
<1> DEFINE S == Sessions \ Held
<1>1. S \in SUBSET Nat /\ S # {} /\ 0 \notin S
  BY RfAssumption
<1> HIDE DEF S
<1>2. \E x \in S : \A y \in S : x <= y
  BY <1>1, LeastSession
<1>3. NewSession = CHOOSE x \in S : \A y \in S : x <= y
  BY DEF NewSession, S
<1>4. NewSession \in S
  BY <1>2, <1>3
<1> QED BY <1>1, <1>4 DEF S, NoSession

(* What the driver does keeps the types, and a socket is of a session the   *)
(* driver knows.                                                            *)
LEMMA DisconnectsTypes ==
  ASSUME TypeOK, NEW kind, NEW i, DriverDisconnects(kind, i)
  PROVE  /\ slots' = {} /\ socket' \in {socket, NoSession}
         /\ ((socket # NoSession => socket \in slots) => socket' = NoSession)
         /\ gate # <<>> /\ Head(gate) = Asks("disconnect", kind, i)
         /\ Tail(gate) \in Seq(Ask)
         /\ \A y : InGate(gate, y) /\ y # Asks("disconnect", kind, i) => InGate(Tail(gate), y)
         /\ ~Opening
<1>1. gate \in Seq(Ask) /\ gate # <<>> /\ Head(gate) = Asks("disconnect", kind, i)
  BY DEF TypeOK, DriverDisconnects, IsHead
<1>2. ~Opening
  BY <1>1 DEF Opening, Asks
<1> QED BY <1>1, <1>2, TailGate DEF DriverDisconnects, TypeOK

LEMMA ConnectsTypes ==
  ASSUME TypeOK, NEW kind, NEW i, NEW s \in Sessions \cup {NoSession},
         DriverConnects(kind, i, s)
  PROVE  /\ slots' = slots \cup ({s} \ {NoSession}) /\ slots' \subseteq Sessions
         /\ socket' = s
         /\ gate # <<>> /\ Head(gate).op \in {"connect", "broken"} /\ Opening
         /\ Tail(gate) \in Seq(Ask)
         /\ \A y : InGate(gate, y) /\ y.op = "disconnect" => InGate(Tail(gate), y)
<1>1. gate \in Seq(Ask) /\ gate # <<>> /\ Head(gate).op \in {"connect", "broken"}
  BY DEF TypeOK, DriverConnects, IsHead, Asks
<1>2. Opening
  BY <1>1 DEF Opening
<1> QED BY <1>1, <1>2, TailGate DEF DriverConnects, TypeOK

-----------------------------------------------------------------------------
(* What an attempt, a connect or a lost link leaves behind. *)

LEMMA IdleTypes ==
  /\ IdleAttempt \in Attempt /\ IdleAttempt.pc = "idle" /\ IdleAttempt.gen = 0
  /\ IdleAttempt.work = "none" /\ IdleAttempt.session = NoSession
  /\ ~IdleAttempt.cleaned
  /\ IdleConnect \in Connection /\ IdleConnect.pc = "idle"
  /\ IdleConnect.session = NoSession
  /\ IdleLost \in Loss /\ IdleLost.pc = "idle"
BY DEF IdleAttempt, IdleConnect, IdleLost, Attempt, Connection, Loss

LEMMA EndedFacts ==
  ASSUME NEW me \in Attempt, NEW n, n = Ended(me)
  PROVE  /\ n \in Attempt /\ n.pc = "idle" /\ n.gen \in {me.gen, 0}
         /\ n.session \in {me.session, NoSession}
         /\ n.work \in {"none", "undoing"}
         /\ (n.work = "undoing" => me.work = "undoing" /\ n.session = me.session)
BY IdleTypes DEF Ended, Attempt

LEMMA FailsFacts ==
  ASSUME TypeOK, NEW a \in Attempts, NEW me \in Attempt, NEW r \in Machine,
         NEW g \in Seq(Ask), Fails(a, me, r, g)
  PROVE  /\ rt' \in Machine /\ gate' \in Seq(Ask) /\ att' \in [Attempts -> Attempt]
         /\ SameCycle(rt', r) /\ rt'.ui = r.ui
         /\ rt'.device = NoSession /\ ~rt'.driver /\ ~rt'.pendingId
         /\ rt'.alarm = r.alarm /\ rt'.watchdog = r.watchdog
         /\ (\A y : InGate(g, y) => InGate(gate', y))
         /\ (g # <<>> => gate' # <<>> /\ Head(gate') = Head(g))
         /\ (\A b \in Attempts : b # a => att'[b] = att[b])
         /\ \/ /\ me.session # NoSession \/ Known(r)
               /\ ~me.cleaned
               /\ gate' = Append(g, Asks("disconnect", "attempt", a)) /\ gate' # <<>>
               /\ (g = <<>> => Head(gate').op = "disconnect")
               /\ att'[a].pc = "cleanup" /\ att'[a].cleaned /\ att'[a].work = me.work
               /\ ~att'[a].alive /\ att'[a].session = me.session /\ att'[a].gen = me.gen
               /\ SameFlags(rt', r)
               /\ rt'.wired = r.wired /\ rt'.watched = r.watched /\ rt'.identity = r.identity
            \/ /\ ~((me.session # NoSession \/ Known(r)) /\ ~me.cleaned)
               /\ gate' = g
               /\ att'[a] = Ended(me)
               /\ rt'.wired = {} /\ rt'.watched = {} /\ ~rt'.identity
               /\ (rt'.cRec <=> r.cRec /\ r.rec)
               /\ (rt'.pend <=> r.pend \/ (r.rec /\ (r.deferred \/ r.dirty \/ r.gen = me.gen)))
               /\ ~rt'.deferred /\ ~rt'.active /\ ~rt'.inFlight
<1> DEFINE d == Drop(r)
<1>0. att \in [Attempts -> Attempt]
  BY DEF TypeOK
<1>1. /\ d \in Machine /\ SameCycle(d, r) /\ SameFlags(d, r) /\ d.ui = r.ui
      /\ d.device = NoSession /\ ~d.driver /\ ~d.pendingId
      /\ d.wired = r.wired /\ d.watched = r.watched /\ d.alarm = r.alarm
      /\ d.watchdog = r.watchdog /\ d.identity = r.identity
  BY ONLY r \in Machine, DropFacts
<1>2. CASE (me.session # NoSession \/ Known(r)) /\ ~me.cleaned
  <2> DEFINE m == [me EXCEPT !.pc = "cleanup", !.alive = FALSE, !.cleaned = TRUE]
             x == Asks("disconnect", "attempt", a)
  <2>1. rt' = d /\ gate' = Append(g, x) /\ att' = [att EXCEPT ![a] = m]
    BY <1>2 DEF Fails
  <2>2. m \in Attempt /\ m.pc = "cleanup" /\ m.cleaned /\ ~m.alive /\ m.work = me.work
        /\ m.session = me.session /\ m.gen = me.gen
    BY DEF Attempt
  <2>3. x \in Ask /\ x.op = "disconnect"
    BY AskType DEF Asks
  <2> HIDE DEF d, m, x
  <2>4. att' \in [Attempts -> Attempt] /\ att'[a] = m /\ \A b \in Attempts : b # a => att'[b] = att[b]
    BY <1>0, <2>1, <2>2
  <2>5. gate' \in Seq(Ask) /\ gate' # <<>>
        /\ (g # <<>> => Head(gate') = Head(g))
        /\ (g = <<>> => Head(gate') = x)
        /\ \A y : InGate(g, y) => InGate(gate', y)
    BY ONLY <2>1, <2>3, AppendGate, g \in Seq(Ask)
  <2>6. gate' = Append(g, Asks("disconnect", "attempt", a))
    BY <2>1 DEF x
  <2>7. /\ rt' \in Machine /\ SameCycle(rt', r) /\ SameFlags(rt', r) /\ rt'.ui = r.ui
        /\ rt'.device = NoSession /\ ~rt'.driver /\ ~rt'.pendingId
        /\ rt'.wired = r.wired /\ rt'.watched = r.watched /\ rt'.alarm = r.alarm
        /\ rt'.watchdog = r.watchdog /\ rt'.identity = r.identity
    BY <1>1, <2>1
  <2> QED BY ONLY <1>2, <2>2, <2>3, <2>4, <2>5, <2>6, <2>7
<1>3. CASE ~((me.session # NoSession \/ Known(r)) /\ ~me.cleaned)
  <2>1. rt' = AfterError(d, me.gen) /\ gate' = g /\ att' = [att EXCEPT ![a] = Ended(me)]
    BY <1>3 DEF Fails
  <2>2. Ended(me) \in Attempt /\ me.gen \in Nat
    BY EndedFacts DEF Attempt
  <2> HIDE DEF d
  <2>3. /\ rt' \in Machine /\ SameCycle(rt', d) /\ rt'.ui = d.ui
        /\ rt'.wired = {} /\ rt'.watched = {} /\ ~rt'.identity /\ ~rt'.driver
        /\ rt'.device = d.device /\ rt'.alarm = d.alarm /\ rt'.watchdog = d.watchdog
        /\ rt'.pendingId = d.pendingId
        /\ (rt'.cRec <=> d.cRec /\ d.rec)
        /\ (rt'.pend <=> d.pend \/ (d.rec /\ (d.deferred \/ d.dirty \/ d.gen = me.gen)))
        /\ ~rt'.deferred /\ ~rt'.active /\ ~rt'.inFlight
    <3>1. d \in Machine /\ me.gen \in Nat /\ rt' = AfterError(d, me.gen)
      BY <1>1, <2>1, <2>2
    <3> QED BY ONLY <3>1, AfterErrorFacts
  <2>4. att' \in [Attempts -> Attempt] /\ att'[a] = Ended(me) /\ \A b \in Attempts : b # a => att'[b] = att[b]
    BY <1>0, <2>1, <2>2
  <2>5. SameCycle(rt', r) /\ rt'.ui = r.ui /\ rt'.device = NoSession /\ rt'.alarm = r.alarm
        /\ rt'.watchdog = r.watchdog /\ ~rt'.pendingId
    BY <1>1, <2>3 DEF SameCycle
  <2>6. /\ (rt'.cRec <=> r.cRec /\ r.rec)
        /\ (rt'.pend <=> r.pend \/ (r.rec /\ (r.deferred \/ r.dirty \/ r.gen = me.gen)))
    BY ONLY <1>1, <2>3 DEF SameCycle, SameFlags
  <2> QED BY <1>3, <2>1, <2>3, <2>4, <2>5, <2>6
<1> QED BY <1>2, <1>3

(* An attempt with a session open, me.session, finds itself superseded.      *)
LEMMA UndoesFacts ==
  ASSUME TypeOK, NEW a \in Attempts, NEW me \in Attempt, NEW r \in Machine,
         NEW g \in Seq(Ask), WorkUndoes(a, me, r, g), ~me.cleaned
  PROVE  /\ rt' = r /\ gate' \in Seq(Ask) /\ att' \in [Attempts -> Attempt]
         /\ (\A y : InGate(g, y) => InGate(gate', y))
         /\ (g # <<>> => Head(gate') = Head(g))
         /\ (\A b \in Attempts : b # a => att'[b] = att[b])
         /\ gate' # <<>> /\ InGate(gate', Asks("disconnect", "work", a))
         /\ att'[a].work = "undoing" /\ att'[a].cleaned /\ att'[a].pc = me.pc
         /\ att'[a].session = me.session /\ att'[a].gen = me.gen
         /\ att'[a].alive = me.alive
<1> DEFINE m == [me EXCEPT !.work = "undoing", !.cleaned = TRUE]
           x == Asks("disconnect", "work", a)
<1>0. att \in [Attempts -> Attempt]
  BY DEF TypeOK
<1>1. rt' = r /\ gate' = Append(g, x) /\ att' = [att EXCEPT ![a] = m]
  BY DEF WorkUndoes
<1>2. m \in Attempt /\ m.pc = me.pc /\ m.cleaned /\ m.work = "undoing"
      /\ m.session = me.session /\ m.gen = me.gen /\ m.alive = me.alive
  BY DEF Attempt
<1>3. x \in Ask /\ x = Asks("disconnect", "work", a)
  BY AskType
<1> HIDE DEF m, x
<1>4. att' \in [Attempts -> Attempt] /\ att'[a] = m /\ \A b \in Attempts : b # a => att'[b] = att[b]
  BY <1>0, <1>1, <1>2
<1>5. gate' \in Seq(Ask) /\ gate' # <<>> /\ InGate(gate', x)
      /\ (g # <<>> => Head(gate') = Head(g))
      /\ \A y : InGate(g, y) => InGate(gate', y)
  BY ONLY <1>1, <1>3, AppendGate, g \in Seq(Ask)
<1> QED BY <1>1, <1>2, <1>3, <1>4, <1>5

(* The connect c gives up, in the state r and with the chain g.             *)
LEMMA ConnectFailureFacts ==
  ASSUME TypeOK, NEW c \in Connects, NEW r \in Machine,
         NEW g \in Seq(Ask), ConnectFailure(c, r, g)
  PROVE  /\ rt' \in Machine /\ gate' \in Seq(Ask) /\ conn' \in [Connects -> Connection]
         /\ SameFlags(rt', r)
         /\ ~rt'.rec /\ rt'.gen = r.gen + 1 /\ rt'.cGen = r.cGen
         /\ rt'.explicit = r.explicit /\ rt'.params = r.params
         /\ rt'.device = NoSession /\ rt'.wired = {} /\ rt'.watched = {}
         /\ rt'.alarm = r.alarm /\ ~rt'.watchdog
         /\ (\A y : InGate(g, y) => InGate(gate', y))
         /\ (g # <<>> => gate' # <<>> /\ Head(gate') = Head(g))
         /\ (\A d \in Connects : d # c => conn'[d] = conn[d])
         /\ \/ /\ conn'[c].pc = "failing" /\ conn'[c].session = conn[c].session
               /\ gate' # <<>> /\ rt'.ui = r.ui
               /\ (g = <<>> => Head(gate').op = "disconnect")
               /\ InGate(gate', Asks("disconnect", "connect", c))
            \/ /\ conn'[c] = IdleConnect /\ gate' = g /\ rt'.ui = "disconnected"
               /\ ~rt'.driver /\ ~rt'.pendingId
<1> DEFINE f == GivesUp(r)
           x == Asks("disconnect", "connect", c)
           m == [conn[c] EXCEPT !.pc = "failing"]
           e == FailureEnds(f)
<1>0. conn \in [Connects -> Connection] /\ conn[c] \in Connection
  BY DEF TypeOK
<1>1. x \in Ask /\ x.op = "disconnect" /\ x = Asks("disconnect", "connect", c)
  BY AskType DEF Asks
<1>2. m \in Connection /\ m.pc = "failing" /\ m.session = conn[c].session
  BY <1>0 DEF Connection
<1>3. \/ rt' = f /\ gate' = Append(g, x) /\ conn' = [conn EXCEPT ![c] = m]
      \/ rt' = e /\ gate' = g /\ conn' = [conn EXCEPT ![c] = IdleConnect]
  BY <1>0 DEF ConnectFailure, GivesUp
<1>4. f = GivesUp(r) /\ e = FailureEnds(f)
  OBVIOUS
<1> HIDE DEF f, x, m, e
<1>5. /\ f \in Machine /\ SameFlags(f, r) /\ f.ui = r.ui
      /\ ~f.rec /\ f.gen = r.gen + 1 /\ f.cGen = r.cGen
      /\ f.explicit = r.explicit /\ f.params = r.params
      /\ f.device = NoSession /\ f.wired = {} /\ f.watched = {} /\ f.alarm = r.alarm
      /\ ~f.watchdog /\ ~f.identity /\ ~f.driver /\ f.pendingId = r.pendingId
  BY ONLY <1>4, GivesUpFacts, r \in Machine
<1>6. /\ e \in Machine /\ SameCycle(e, f) /\ SameFlags(e, f)
      /\ e.device = f.device /\ e.wired = f.wired /\ e.watched = f.watched
      /\ e.alarm = f.alarm /\ e.watchdog = f.watchdog /\ e.identity = f.identity
      /\ ~e.pendingId /\ ~e.driver /\ e.ui = "disconnected"
  BY ONLY <1>4, <1>5, FailureEndsFacts
<1>7. CASE rt' = f /\ gate' = Append(g, x) /\ conn' = [conn EXCEPT ![c] = m]
  <2>1. gate' \in Seq(Ask) /\ gate' # <<>> /\ InGate(gate', x)
        /\ (g # <<>> => Head(gate') = Head(g))
        /\ (g = <<>> => Head(gate') = x)
        /\ \A y : InGate(g, y) => InGate(gate', y)
    BY ONLY <1>1, <1>7, AppendGate, g \in Seq(Ask)
  <2>2. conn' \in [Connects -> Connection] /\ conn'[c] = m /\ \A d \in Connects : d # c => conn'[d] = conn[d]
    BY <1>0, <1>2, <1>7
  <2> QED BY <1>1, <1>2, <1>5, <1>7, <2>1, <2>2
<1>8. CASE rt' = e /\ gate' = g /\ conn' = [conn EXCEPT ![c] = IdleConnect]
  <2>1. conn' \in [Connects -> Connection] /\ conn'[c] = IdleConnect
        /\ \A d \in Connects : d # c => conn'[d] = conn[d]
    BY <1>0, <1>8, IdleTypes
  <2>2. /\ e \in Machine /\ SameFlags(e, r)
        /\ ~e.rec /\ e.gen = r.gen + 1 /\ e.cGen = r.cGen
        /\ e.explicit = r.explicit /\ e.params = r.params
        /\ e.device = NoSession /\ e.wired = {} /\ e.watched = {}
        /\ e.alarm = r.alarm /\ ~e.watchdog
        /\ ~e.pendingId /\ ~e.driver /\ e.ui = "disconnected"
    BY ONLY <1>5, <1>6 DEF SameCycle, SameFlags
  <2> QED BY <1>8, <2>1, <2>2
<1> QED BY <1>3, <1>7, <1>8

(* A teardown of a lost link begins. *)
Teardown(r) ==
  \E l \in Losses :
    /\ lost[l].pc = "idle" /\ lost'[l].pc # "idle"
    /\ (lost'[l].start <=> ~r.cRec)
    /\ (lost'[l].pc = "dropping" => InGate(gate', Asks("disconnect", "lost", l)))
    /\ \A k \in Losses : k # l => lost'[k] = lost[k]

(* handleConnectionLost, up to its first await, in the state r.             *)
LEMMA LoseLinkFacts ==
  ASSUME TypeOK, NEW r \in Machine, LoseLink(r)
  PROVE  /\ rt' \in Machine /\ gate' \in Seq(Ask) /\ socket' \in {socket, NoSession}
         /\ lost' \in [Losses -> Loss] /\ hist' \in History
         /\ rt'.alarm = r.alarm /\ rt'.explicit = r.explicit /\ rt'.params = r.params
         /\ rt'.inFlight = r.inFlight /\ rt'.active = r.active /\ rt'.ui = r.ui
         /\ hist'.late = hist.late /\ hist'.crossed = hist.crossed
         /\ (Opening => Opening')
         /\ (gate # <<>> => gate' # <<>>)
         /\ (\A y \in Ask : y.op = "disconnect" /\ InGate(gate, y) => InGate(gate', y))
         /\ \/ /\ r.explicit
               /\ rt' = r /\ gate' = gate /\ socket' = socket /\ lost' = lost /\ hist' = hist
            \/ /\ ~r.explicit
               /\ rt'.rec /\ rt'.cRec /\ rt'.gen = r.cGen + 1 /\ rt'.cGen = r.cGen + 1
               /\ rt'.device = NoSession /\ ~rt'.watchdog
               /\ rt'.wired \subseteq r.wired /\ rt'.watched \subseteq r.watched
               /\ (rt'.deferred <=> r.deferred \/ r.cRec)
               /\ hist' = AllStale(hist)
               /\ (r.device # NoSession => socket' = NoSession)
               /\ \/ /\ lost' = lost /\ gate' = gate /\ socket' = socket
                     /\ r.device = NoSession /\ rt'.wired = {} /\ rt'.watched = {}
                     /\ (rt'.pend <=> r.pend \/ ~r.cRec)
                  \/ /\ rt'.pend = r.pend
                     /\ Teardown(r)
<1> DEFINE start == StartsOwner(r)
           d == Loses(r)
           e == LostEnds(d, start)
<1>0. /\ lost \in [Losses -> Loss] /\ gate \in Seq(Ask) /\ hist \in History
      /\ socket \in Sessions \cup {NoSession}
  BY DEF TypeOK, History
<1>1. start \in BOOLEAN /\ (start <=> ~r.cRec) /\ Known(r) \in BOOLEAN
      /\ r.deferred \in BOOLEAN /\ r.cRec \in BOOLEAN
  BY DEF StartsOwner, Machine, Known
<1>2. CASE r.explicit
  <2>1. rt' = r /\ gate' = gate /\ socket' = socket /\ lost' = lost /\ hist' = hist
    BY <1>2 DEF LoseLink
  <2>2. Opening' = Opening
    BY <2>1 DEF Opening
  <2> QED BY <1>0, <1>2, <2>1, <2>2
<1>3. CASE ~r.explicit
  <2>1. /\ hist' = AllStale(hist)
        /\ IF r.device = NoSession /\ ~Known(r)
           THEN rt' = e /\ UNCHANGED <<gate, socket, lost>>
           ELSE \E l \in Losses :
                  /\ lost[l].pc = "idle"
                  /\ rt' = d
                  /\ IF r.device # NoSession
                     THEN /\ lost' = [lost EXCEPT ![l] =
                                [pc |-> "closing", start |-> start, known |-> Known(r)]]
                          /\ CloseSocket
                     ELSE /\ lost' = [lost EXCEPT ![l] =
                                [pc |-> "dropping", start |-> start, known |-> TRUE]]
                          /\ Enqueue("disconnect", "lost", l)
                          /\ UNCHANGED socket
    BY <1>3 DEF LoseLink, Loses, Supersedes
  <2>2. e = LostEnds(d, start) /\ d = Loses(r)
    OBVIOUS
  <2> HIDE DEF start, d, e
  <2>3. /\ d \in Machine
        /\ d.rec /\ d.gen = r.cGen + 1 /\ d.cGen = r.cGen + 1
        /\ d.explicit = r.explicit /\ d.params = r.params
        /\ d.device = NoSession /\ ~d.driver /\ ~d.pendingId /\ ~d.watchdog
        /\ d.wired = r.wired /\ d.watched = r.watched /\ d.alarm = r.alarm
        /\ d.identity = r.identity
        /\ d.cRec /\ d.active = r.active /\ d.pend = r.pend /\ d.inFlight = r.inFlight
        /\ (d.deferred <=> r.deferred \/ r.cRec)
        /\ d.ui = r.ui
    BY ONLY <2>2, LosesFacts, r \in Machine
  <2>4. /\ e \in Machine /\ SameCycle(e, d) /\ e.ui = d.ui
        /\ e.wired = {} /\ e.watched = {} /\ ~e.identity /\ ~e.driver
        /\ e.device = d.device /\ e.alarm = d.alarm /\ e.watchdog = d.watchdog
        /\ e.pendingId = d.pendingId
        /\ e.cRec = d.cRec /\ e.active = d.active /\ e.inFlight = d.inFlight
        /\ (e.pend <=> d.pend \/ start)
        /\ (e.deferred <=> d.deferred \/ ~start)
    <3>1. start \in BOOLEAN /\ d \in Machine /\ e = LostEnds(d, start)
      BY <1>1, <2>2, <2>3
    <3> QED BY ONLY <3>1, LostEndsFacts
  <2>5. hist' \in History /\ hist'.late = hist.late /\ hist'.crossed = hist.crossed
    BY <1>0, <2>1, HistoryTypes
  <2>6. CASE r.device = NoSession /\ ~Known(r)
    <3>1. rt' = e /\ gate' = gate /\ socket' = socket /\ lost' = lost /\ Opening' = Opening
      BY <2>1, <2>6 DEF Opening
    <3>2. /\ rt' \in Machine /\ rt'.alarm = r.alarm /\ rt'.explicit = r.explicit
          /\ rt'.params = r.params /\ rt'.inFlight = r.inFlight /\ rt'.active = r.active
          /\ rt'.ui = r.ui
          /\ rt'.rec /\ rt'.cRec /\ rt'.gen = r.cGen + 1 /\ rt'.cGen = r.cGen + 1
          /\ rt'.device = NoSession /\ ~rt'.watchdog
          /\ rt'.wired \subseteq r.wired /\ rt'.watched \subseteq r.watched
          /\ (rt'.deferred <=> r.deferred \/ r.cRec)
          /\ (rt'.pend <=> r.pend \/ ~r.cRec)
          /\ rt'.wired = {} /\ rt'.watched = {}
      BY ONLY <1>1, <2>3, <2>4, <3>1, ZenonT(120) DEF SameCycle
    <3> QED BY ONLY <1>0, <1>3, <2>1, <2>5, <2>6, <3>1, <3>2
  <2>7. CASE ~(r.device = NoSession /\ ~Known(r))
    <3>1. PICK l \in Losses :
            /\ lost[l].pc = "idle"
            /\ rt' = d
            /\ IF r.device # NoSession
               THEN /\ lost' = [lost EXCEPT ![l] =
                          [pc |-> "closing", start |-> start, known |-> Known(r)]]
                    /\ CloseSocket
               ELSE /\ lost' = [lost EXCEPT ![l] =
                          [pc |-> "dropping", start |-> start, known |-> TRUE]]
                    /\ Enqueue("disconnect", "lost", l)
                    /\ UNCHANGED socket
      BY <2>1, <2>7
    <3>2. /\ rt' \in Machine /\ rt'.alarm = r.alarm /\ rt'.explicit = r.explicit
          /\ rt'.params = r.params /\ rt'.inFlight = r.inFlight /\ rt'.active = r.active
          /\ rt'.ui = r.ui
          /\ rt'.rec /\ rt'.cRec /\ rt'.gen = r.cGen + 1 /\ rt'.cGen = r.cGen + 1
          /\ rt'.device = NoSession /\ ~rt'.watchdog
          /\ rt'.wired \subseteq r.wired /\ rt'.watched \subseteq r.watched
          /\ (rt'.deferred <=> r.deferred \/ r.cRec)
          /\ rt'.pend = r.pend
      BY ONLY <2>3, <3>1
    <3> DEFINE k1 == [pc |-> "closing", start |-> start, known |-> Known(r)]
               k2 == [pc |-> "dropping", start |-> start, known |-> TRUE]
               x == Asks("disconnect", "lost", l)
    <3>3. k1 \in Loss /\ k2 \in Loss /\ k1.pc = "closing" /\ k2.pc # "idle"
          /\ (k1.start <=> ~r.cRec) /\ (k2.start <=> ~r.cRec)
      BY <1>1 DEF Loss
    <3>4. x \in Ask /\ x.op = "disconnect" /\ x = Asks("disconnect", "lost", l)
      BY AskType DEF Asks
    <3>5. IF r.device # NoSession
          THEN lost' = [lost EXCEPT ![l] = k1] /\ CloseSocket
          ELSE lost' = [lost EXCEPT ![l] = k2] /\ gate' = Append(gate, x) /\ socket' = socket
      BY <3>1 DEF Enqueue
    <3> HIDE DEF k1, k2, x
    <3>6. CASE r.device # NoSession
      <4>1. /\ gate' \in Seq(Ask) /\ socket' = NoSession
            /\ (Opening => Opening')
            /\ (gate = <<>> <=> gate' = <<>>)
            /\ \A y \in Ask : y.op = "disconnect" /\ InGate(gate, y) => InGate(gate', y)
        BY <3>5, <3>6, CloseGate
      <4>2. /\ lost' \in [Losses -> Loss] /\ lost'[l] = k1
            /\ \A k \in Losses : k # l => lost'[k] = lost[k]
        BY <1>0, <3>3, <3>5, <3>6
      <4>3. Teardown(r)
        BY <3>1, <3>3, <4>2 DEF Teardown
      <4> QED BY ONLY <1>3, <2>1, <2>5, <3>2, <3>6, <4>1, <4>2, <4>3
    <3>7. CASE r.device = NoSession
      <4>0. x \in Ask /\ gate' = Append(gate, x)
        BY <3>4, <3>5, <3>7
      <4>1. /\ gate' \in Seq(Ask) /\ gate' # <<>> /\ InGate(gate', x)
            /\ (gate # <<>> => Head(gate') = Head(gate))
            /\ \A y : InGate(gate, y) => InGate(gate', y)
        BY ONLY <1>0, <4>0, AppendGate
      <4>2. /\ lost' \in [Losses -> Loss] /\ lost'[l] = k2
            /\ \A k \in Losses : k # l => lost'[k] = lost[k]
        BY <1>0, <3>3, <3>5, <3>7
      <4>3. Teardown(r)
        BY <3>1, <3>3, <3>4, <4>1, <4>2 DEF Teardown
      <4>4. (Opening => Opening') /\ socket' = socket
        BY <3>5, <3>7, <4>1 DEF Opening
      <4> QED BY ONLY <1>0, <1>3, <2>1, <2>5, <3>2, <3>7, <4>1, <4>2, <4>3, <4>4
    <3> QED BY <3>6, <3>7
  <2> QED BY <2>6, <2>7
<1> QED BY <1>2, <1>3

-----------------------------------------------------------------------------
(* What each action does, types included. *)

LEMMA RunOwnerFacts ==
  ASSUME TypeOK, RunOwner
  PROVE  /\ TypeOK'
         /\ UNCHANGED <<gate, slots, socket, lost, conn, fin, power, budget>>
         /\ rt.pend /\ ~rt'.pend
         /\ rt'.gen = rt.gen /\ rt'.cGen = rt.cGen /\ rt'.alarm = rt.alarm
         /\ rt'.explicit = rt.explicit /\ rt'.params = rt.params
         /\ hist'.late = hist.late /\ hist'.crossed = hist.crossed
         /\ \/ /\ att' = att /\ hist' = hist /\ SameLink(rt', rt)
               /\ rt'.rec = rt.rec /\ rt'.cRec = rt.cRec /\ rt'.active = rt.active
               /\ rt'.inFlight = rt.inFlight /\ rt'.ui = rt.ui
               /\ (rt.deferred => rt'.deferred)
               /\ (rt'.deferred = rt.deferred \/ rt.rec)
               /\ \/ ~rt.cRec \/ rt.active \/ ~rt.rec \/ rt.explicit
                  \/ rt.inFlight /\ rt'.deferred
            \/ /\ att' = att /\ hist' = hist
               /\ rt.cRec /\ ~rt.active /\ rt.rec /\ ~rt.explicit /\ ~rt.inFlight
               /\ ~rt'.rec /\ ~rt'.cRec /\ ~rt'.active /\ ~rt'.inFlight
               /\ rt'.device = NoSession /\ rt'.wired = {} /\ rt'.watched = {}
               /\ ~rt'.watchdog /\ rt'.deferred = rt.deferred
               /\ rt'.ui = "disconnected"
            \/ /\ SameLink(rt', rt)
               /\ rt.cRec /\ ~rt.active /\ rt.rec /\ ~rt.explicit /\ ~rt.inFlight
               /\ rt'.rec /\ rt'.cRec /\ rt'.active /\ ~rt'.inFlight
               /\ rt'.deferred = rt.deferred /\ rt'.ui = "reconnecting"
               /\ \E a \in Attempts :
                    /\ att[a].pc = "idle" /\ att[a].work = "none"
                    /\ att'[a].pc = "backoff" /\ att'[a].gen = rt.gen
                    /\ att'[a].work = "none" /\ att'[a].session = NoSession
                    /\ ~att'[a].cleaned /\ ~att'[a].alive
                    /\ \A b \in Attempts : b # a => att'[b] = att[b]
                    /\ hist'.stale = hist.stale \ {<<"attempt", a>>}
<1> DEFINE r == [rt EXCEPT !.pend = FALSE]
<1>0. /\ rt \in Machine /\ hist \in History /\ att \in [Attempts -> Attempt]
      /\ UNCHANGED <<gate, slots, socket, lost, conn, fin, power, budget>>
      /\ rt.pend
  BY DEF TypeOK, History, RunOwner
<1>1. /\ r \in Machine /\ SameLink(r, rt) /\ SameCycle(r, rt) /\ r.ui = rt.ui
      /\ r.pend = FALSE /\ r.cRec = rt.cRec /\ r.dirty = rt.dirty /\ r.active = rt.active
      /\ r.deferred = rt.deferred /\ r.inFlight = rt.inFlight
  BY <1>0, ZenonT(120) DEF Machine, SameLink, SameCycle
<1>2. CASE ~r.cRec \/ r.active \/ ~r.rec \/ r.explicit \/ r.inFlight
  <2>0. \/ rt' = r /\ (~r.cRec \/ ~r.rec \/ r.explicit)
        \/ rt' = [r EXCEPT !.dirty = TRUE] /\ r.active
        \/ rt' = [r EXCEPT !.deferred = TRUE, !.dirty = TRUE] /\ r.inFlight /\ r.rec
    BY <1>2 DEF RunOwner
  <2>1. att' = att /\ hist' = hist
    BY <1>2 DEF RunOwner
  <2> HIDE DEF r
  <2>2. /\ rt' \in Machine /\ SameLink(rt', r) /\ SameCycle(rt', r) /\ rt'.ui = r.ui
        /\ rt'.pend = r.pend /\ rt'.cRec = r.cRec /\ rt'.active = r.active
        /\ rt'.inFlight = r.inFlight
        /\ rt'.deferred = (r.deferred \/ (r.inFlight /\ rt'.deferred))
        /\ (rt'.deferred = r.deferred \/ r.rec)
        /\ (~r.cRec \/ r.active \/ ~r.rec \/ r.explicit \/ (r.inFlight /\ rt'.deferred))
    <3>1. CASE rt' = r /\ (~r.cRec \/ ~r.rec \/ r.explicit)
      <4>1. rt'.deferred \in BOOLEAN
        BY <3>1, <1>1 DEF Machine
      <4> QED BY <4>1, <3>1, <1>1 DEF SameLink, SameCycle
    <3>2. CASE rt' = [r EXCEPT !.dirty = TRUE] /\ r.active
      <4>1. rt'.deferred = r.deferred /\ rt'.deferred \in BOOLEAN
        BY <3>2, <1>1 DEF Machine
      <4> QED BY <4>1, <3>2, <1>1, ZenonT(120) DEF Machine, SameLink, SameCycle
    <3>3. CASE rt' = [r EXCEPT !.deferred = TRUE, !.dirty = TRUE] /\ r.inFlight /\ r.rec
      <4>1. rt'.deferred = TRUE
        BY <3>3, <1>1 DEF Machine
      <4> QED BY <4>1, <3>3, <1>1, ZenonT(120) DEF Machine, SameLink, SameCycle
    <3> QED BY <2>0, <3>1, <3>2, <3>3
  <2>3. TypeOK'
    BY <1>0, <2>1, <2>2 DEF TypeOK
  <2>4. rt'.deferred \in BOOLEAN /\ r.deferred \in BOOLEAN
    BY <1>1, <2>2 DEF Machine
  <2>5. /\ SameLink(rt', rt) /\ SameCycle(rt', rt) /\ rt'.ui = rt.ui /\ rt'.pend = FALSE
        /\ rt'.cRec = rt.cRec /\ rt'.active = rt.active /\ rt'.inFlight = rt.inFlight
        /\ (rt.deferred => rt'.deferred)
        /\ (rt'.deferred = rt.deferred \/ rt.rec)
        /\ (~rt.cRec \/ rt.active \/ ~rt.rec \/ rt.explicit \/ (rt.inFlight /\ rt'.deferred))
    BY ONLY <1>1, <2>2, <2>4 DEF SameLink, SameCycle
  <2> QED BY ONLY <1>0, <2>1, <2>3, <2>5 DEF SameCycle, SameLink
<1>3. CASE r.cRec /\ ~r.active /\ r.rec /\ ~r.explicit /\ ~r.inFlight /\ OutOfTries(r)
  <2>1. rt' = Exhausted(r) /\ att' = att /\ hist' = hist
    BY <1>3 DEF RunOwner
  <2> HIDE DEF r
  <2>2. /\ rt' \in Machine
        /\ rt'.gen = r.gen /\ rt'.cGen = r.cGen /\ ~rt'.rec
        /\ rt'.explicit = r.explicit /\ rt'.params = r.params
        /\ rt'.device = NoSession /\ rt'.wired = {} /\ rt'.watched = {} /\ ~rt'.watchdog
        /\ rt'.alarm = r.alarm /\ ~rt'.driver /\ ~rt'.identity /\ ~rt'.pendingId
        /\ ~rt'.cRec /\ ~rt'.active /\ rt'.pend = r.pend
        /\ rt'.deferred = r.deferred /\ rt'.inFlight = r.inFlight
        /\ rt'.ui = "disconnected"
    BY ONLY <1>1, <2>1, ExhaustedFacts
  <2>3. TypeOK'
    BY <1>0, <2>1, <2>2 DEF TypeOK
  <2> QED BY ONLY <1>0, <1>1, <1>3, <2>1, <2>2, <2>3, ZenonT(120) DEF SameLink, SameCycle
<1>4. CASE r.cRec /\ ~r.active /\ r.rec /\ ~r.explicit /\ ~r.inFlight /\ ~OutOfTries(r)
  <2> DEFINE t == r.tries + 1
             d == [r EXCEPT !.tries = t, !.ui = "reconnecting"]
             m == [IdleAttempt EXCEPT !.pc = "backoff", !.gen = r.gen]
  <2>1. PICK a \in Attempts :
           /\ att[a].pc = "idle" /\ att[a].work = "none"
           /\ rt' = [d EXCEPT !.active = TRUE]
           /\ att' = [att EXCEPT ![a] = m]
           /\ Starts("attempt", a)
    BY <1>4 DEF RunOwner, BeginAttempt
  <2> HIDE DEF r
  <2>2. t \in 0..MaxTries
    BY <1>1, <1>4, RfAssumption DEF Machine, OutOfTries
  <2> HIDE DEF t
  <2>3. /\ d \in Machine /\ SameLink(d, r) /\ d.rec = r.rec /\ d.gen = r.gen
        /\ d.cGen = r.cGen /\ d.explicit = r.explicit /\ d.params = r.params
        /\ d.ui = "reconnecting" /\ d.pend = r.pend /\ d.cRec = r.cRec
        /\ d.deferred = r.deferred /\ d.inFlight = r.inFlight
    BY <1>1, <2>2 DEF Machine, SameLink
  <2> HIDE DEF d
  <2>4. /\ rt' \in Machine /\ SameLink(rt', d) /\ SameCycle(rt', d)
        /\ rt'.ui = d.ui /\ rt'.pend = d.pend /\ rt'.cRec = d.cRec
        /\ rt'.deferred = d.deferred /\ rt'.inFlight = d.inFlight /\ rt'.active = TRUE
    BY <2>1, <2>3 DEF Machine, SameLink, SameCycle
  <2>5. /\ m \in Attempt /\ m.pc = "backoff" /\ m.gen = r.gen /\ m.work = "none"
        /\ m.session = NoSession /\ ~m.cleaned /\ ~m.alive
    <3>1. r.gen \in Nat
      BY <1>1 DEF Machine
    <3> QED BY <3>1 DEF IdleAttempt, Attempt
  <2> HIDE DEF m
  <2>6. /\ att' \in [Attempts -> Attempt] /\ att'[a] = m
        /\ \A b \in Attempts : b # a => att'[b] = att[b]
    BY <1>0, <2>1, <2>5
  <2>7. /\ hist' \in History /\ hist'.late = hist.late
        /\ hist'.crossed = hist.crossed
        /\ hist'.stale = hist.stale \ {<<"attempt", a>>}
    BY <1>0, <2>1, StartsTypes
  <2>8. TypeOK'
    BY <1>0, <2>4, <2>6, <2>7 DEF TypeOK, History
  <2>9. /\ SameLink(rt', rt) /\ rt'.rec /\ rt'.cRec /\ rt'.active /\ ~rt'.inFlight
        /\ rt'.deferred = rt.deferred /\ rt'.ui = "reconnecting" /\ ~rt'.pend
        /\ rt'.gen = rt.gen /\ rt'.cGen = rt.cGen /\ rt'.alarm = rt.alarm
        /\ rt'.explicit = rt.explicit /\ rt'.params = rt.params
        /\ rt.cRec /\ ~rt.active /\ rt.rec /\ ~rt.explicit /\ ~rt.inFlight
    BY ONLY <1>1, <1>4, <2>3, <2>4 DEF SameLink, SameCycle
  <2>10. \E x \in Attempts :
                    /\ att[x].pc = "idle" /\ att[x].work = "none"
                    /\ att'[x].pc = "backoff" /\ att'[x].gen = rt.gen
                    /\ att'[x].work = "none" /\ att'[x].session = NoSession
                    /\ ~att'[x].cleaned /\ ~att'[x].alive
                    /\ \A b \in Attempts : b # x => att'[b] = att[b]
                    /\ hist'.stale = hist.stale \ {<<"attempt", x>>}
    BY ONLY <1>1, <2>1, <2>5, <2>6, <2>7, a \in Attempts DEF SameCycle
  <2> QED BY ONLY <1>0, <2>7, <2>8, <2>9, <2>10
<1> QED BY <1>2, <1>3, <1>4

LEMMA BackoffAbortedFacts ==
  ASSUME TypeOK, NEW a \in Attempts, BackoffAborted(a)
  PROVE  /\ TypeOK'
         /\ UNCHANGED <<gate, slots, socket, lost, conn, fin, power, budget, hist>>
         /\ att[a].pc = "backoff" /\ (~rt.rec \/ rt.gen # att[a].gen)
         /\ att'[a] = IdleAttempt /\ (\A b \in Attempts : b # a => att'[b] = att[b])
         /\ SameLink(rt', rt) /\ SameCycle(rt', rt)
         /\ rt'.ui \in {rt.ui, "disconnected"}
         /\ (rt.ui = "reconnecting" /\ ~rt.rec => rt'.ui = "disconnected")
         /\ (rt'.cRec => rt.cRec /\ rt.rec) /\ (rt.cRec /\ rt.rec => rt'.cRec)
         /\ ~rt'.active /\ rt'.inFlight = rt.inFlight
         /\ (rt.pend => rt'.pend)
         /\ (rt.deferred /\ rt.rec /\ ~rt.explicit => rt'.pend)
         /\ (rt'.deferred => rt.deferred)
<1>0. /\ rt \in Machine /\ att \in [Attempts -> Attempt] /\ rt' = FlushOrEnd(rt)
      /\ att' = [att EXCEPT ![a] = IdleAttempt]
      /\ UNCHANGED <<gate, slots, socket, lost, conn, fin, power, budget, hist>>
      /\ att[a].pc = "backoff" /\ (~rt.rec \/ rt.gen # att[a].gen)
  BY DEF TypeOK, BackoffAborted, MustAbort
<1>1. /\ rt' \in Machine /\ SameLink(rt', rt) /\ SameCycle(rt', rt)
      /\ rt'.ui \in {rt.ui, "disconnected"}
      /\ (rt.ui = "reconnecting" /\ ~rt.rec => rt'.ui = "disconnected")
      /\ (rt'.cRec => rt.cRec /\ rt.rec) /\ (rt.cRec /\ rt.rec => rt'.cRec)
      /\ ~rt'.active /\ rt'.inFlight = rt.inFlight
      /\ (rt.pend => rt'.pend)
      /\ (rt.deferred /\ rt.rec /\ ~rt.explicit => rt'.pend)
      /\ (rt'.deferred => rt.deferred)
  BY ONLY <1>0, FlushFacts
<1>2. /\ att' \in [Attempts -> Attempt] /\ att'[a] = IdleAttempt
      /\ \A b \in Attempts : b # a => att'[b] = att[b]
  BY <1>0, IdleTypes
<1>3. TypeOK'
  BY <1>0, <1>1, <1>2 DEF TypeOK
<1> QED BY <1>0, <1>1, <1>2, <1>3

LEMMA BackoffSuspendedFacts ==
  ASSUME TypeOK, NEW a \in Attempts, BackoffSuspended(a)
  PROVE  /\ TypeOK'
         /\ UNCHANGED <<gate, slots, socket, lost, conn, fin, power, budget, hist>>
         /\ att[a].pc = "backoff" /\ power.asleep
         /\ att'[a] = IdleAttempt /\ (\A b \in Attempts : b # a => att'[b] = att[b])
         /\ SameLink(rt', rt)
         /\ ~rt'.rec /\ rt'.gen = rt.gen /\ rt'.cGen = rt.cGen + 1
         /\ rt'.explicit = rt.explicit /\ rt'.params = rt.params
         /\ ~rt'.cRec /\ ~rt'.active /\ ~rt'.pend
         /\ rt'.deferred = rt.deferred /\ rt'.inFlight = rt.inFlight
         /\ rt'.ui = "disconnected"
<1> DEFINE d == [rt EXCEPT !.rec = FALSE, !.ui = "disconnected"]
<1>0. /\ rt \in Machine /\ att \in [Attempts -> Attempt]
      /\ att' = [att EXCEPT ![a] = IdleAttempt]
      /\ UNCHANGED <<gate, slots, socket, lost, conn, fin, power, budget, hist>>
      /\ att[a].pc = "backoff" /\ power.asleep
  BY DEF TypeOK, BackoffSuspended
<1>1. rt' = Cancel(d)
  BY DEF BackoffSuspended
<1>2. /\ d \in Machine /\ SameLink(d, rt) /\ ~d.rec /\ d.gen = rt.gen /\ d.cGen = rt.cGen
      /\ d.explicit = rt.explicit /\ d.params = rt.params
      /\ d.deferred = rt.deferred /\ d.inFlight = rt.inFlight /\ d.ui = "disconnected"
  BY <1>0 DEF Machine, SameLink
<1> HIDE DEF d
<1>3. /\ rt' \in Machine /\ SameLink(rt', d)
      /\ rt'.rec = d.rec /\ rt'.gen = d.gen /\ rt'.cGen = d.cGen + 1
      /\ rt'.explicit = d.explicit /\ rt'.params = d.params
      /\ ~rt'.cRec /\ ~rt'.dirty /\ ~rt'.active /\ ~rt'.pend
      /\ rt'.deferred = d.deferred /\ rt'.inFlight = d.inFlight /\ rt'.ui = d.ui
  BY ONLY <1>1, <1>2, CancelFacts
<1>4. /\ att' \in [Attempts -> Attempt] /\ att'[a] = IdleAttempt
      /\ \A b \in Attempts : b # a => att'[b] = att[b]
  BY <1>0, IdleTypes
<1>5. TypeOK'
  BY <1>0, <1>3, <1>4 DEF TypeOK
<1>6. /\ SameLink(rt', rt)
      /\ ~rt'.rec /\ rt'.gen = rt.gen /\ rt'.cGen = rt.cGen + 1
      /\ rt'.explicit = rt.explicit /\ rt'.params = rt.params
      /\ ~rt'.cRec /\ ~rt'.active /\ ~rt'.pend
      /\ rt'.deferred = rt.deferred /\ rt'.inFlight = rt.inFlight
      /\ rt'.ui = "disconnected"
  BY ONLY <1>2, <1>3 DEF SameLink
<1> QED BY ONLY <1>0, <1>4, <1>5, <1>6

LEMMA BackoffDoneFacts ==
  ASSUME TypeOK, NEW a \in Attempts, BackoffDone(a)
  PROVE  /\ TypeOK'
         /\ UNCHANGED <<slots, socket, lost, conn, fin, power, budget, hist>>
         /\ att[a].pc = "backoff" /\ rt.rec /\ rt.gen = att[a].gen
         /\ Macro /\ Prompt
         /\ (\A b \in Attempts : b # a => att'[b] = att[b])
         /\ SameLink(rt', rt) /\ SameCycle(rt', rt)
         /\ rt'.cRec = rt.cRec /\ rt'.active = rt.active /\ rt'.pend = rt.pend
         /\ rt'.ui = rt.ui
         /\ \/ /\ rt.inFlight /\ rt'.inFlight /\ rt'.deferred
               /\ att'[a] = IdleAttempt /\ gate' = gate
            \/ /\ ~rt.inFlight /\ rt'.inFlight /\ rt'.deferred = rt.deferred
               /\ att'[a].pc = "open" /\ att'[a].work = "opening"
               /\ att'[a].gen = att[a].gen /\ att'[a].session = att[a].session
               /\ att'[a].cleaned = att[a].cleaned
               /\ gate' # <<>> /\ (gate # <<>> => Head(gate') = Head(gate))
               /\ (gate = <<>> => Head(gate').op = "connect")
               /\ (Opening => Opening')
               /\ \A y : InGate(gate, y) => InGate(gate', y)
<1>0. /\ rt \in Machine /\ att \in [Attempts -> Attempt] /\ gate \in Seq(Ask)
      /\ UNCHANGED <<slots, socket, lost, conn, fin, power, budget, hist>>
      /\ att[a].pc = "backoff" /\ rt.rec /\ rt.gen = att[a].gen
      /\ Macro /\ Prompt /\ att[a] \in Attempt
  BY DEF TypeOK, BackoffDone, Noticed, MustAbort
<1>1. CASE rt.inFlight
  <2>1. rt' = [rt EXCEPT !.deferred = TRUE, !.dirty = TRUE]
        /\ att' = [att EXCEPT ![a] = IdleAttempt] /\ gate' = gate
    BY <1>1 DEF BackoffDone
  <2>2. /\ rt' \in Machine /\ SameLink(rt', rt) /\ SameCycle(rt', rt)
        /\ rt'.cRec = rt.cRec /\ rt'.active = rt.active /\ rt'.pend = rt.pend
        /\ rt'.ui = rt.ui /\ rt'.inFlight = rt.inFlight /\ rt'.deferred = TRUE
    BY <1>0, <2>1 DEF Machine, SameLink, SameCycle
  <2>3. /\ att' \in [Attempts -> Attempt] /\ att'[a] = IdleAttempt
        /\ \A b \in Attempts : b # a => att'[b] = att[b]
    BY <1>0, <2>1, IdleTypes
  <2>4. TypeOK'
    BY <1>0, <2>1, <2>2, <2>3 DEF TypeOK
  <2> QED BY ONLY <1>0, <1>1, <2>1, <2>2, <2>3, <2>4
<1>2. CASE ~rt.inFlight
  <2> DEFINE x == Asks("connect", "work", a)
             m == [att[a] EXCEPT !.pc = "open", !.work = "opening", !.alive = TRUE]
  <2>1. rt' = [rt EXCEPT !.inFlight = TRUE]
        /\ att' = [att EXCEPT ![a] = m] /\ gate' = Append(gate, x)
    BY <1>0, <1>2 DEF BackoffDone, Enqueue
  <2>2. /\ rt' \in Machine /\ SameLink(rt', rt) /\ SameCycle(rt', rt)
        /\ rt'.cRec = rt.cRec /\ rt'.active = rt.active /\ rt'.pend = rt.pend
        /\ rt'.ui = rt.ui /\ rt'.inFlight = TRUE /\ rt'.deferred = rt.deferred
    BY <1>0, <2>1 DEF Machine, SameLink, SameCycle
  <2>3. /\ m \in Attempt /\ m.pc = "open" /\ m.work = "opening" /\ m.gen = att[a].gen
        /\ m.session = att[a].session /\ m.cleaned = att[a].cleaned
    BY <1>0 DEF Attempt
  <2>4. x \in Ask /\ x.op = "connect"
    BY AskType DEF Asks
  <2> HIDE DEF m, x
  <2>5. /\ att' \in [Attempts -> Attempt] /\ att'[a] = m
        /\ \A b \in Attempts : b # a => att'[b] = att[b]
    BY <1>0, <2>1, <2>3
  <2>6. /\ gate' \in Seq(Ask) /\ gate' # <<>>
        /\ (gate # <<>> => Head(gate') = Head(gate))
        /\ (gate = <<>> => Head(gate') = x)
        /\ \A y : InGate(gate, y) => InGate(gate', y)
    BY ONLY <1>0, <2>1, <2>4, AppendGate
  <2>7. TypeOK'
    BY <1>0, <2>2, <2>5, <2>6 DEF TypeOK
  <2>8. Opening => Opening'
    BY <2>6 DEF Opening
  <2> QED BY ONLY <1>0, <1>2, <2>2, <2>3, <2>4, <2>5, <2>6, <2>7, <2>8
<1> QED BY <1>1, <1>2

-----------------------------------------------------------------------------
(* What goes together in one async function, and what it waits for.         *)
AttShape(me, g, a) ==
  /\ (me.work = "configuring" => me.session # NoSession)
  /\ (me.pc = "open" => me.work # "none" /\ (me.cleaned => me.work = "undoing"))
  /\ (me.work = "opening" => me.pc = "open" /\ ~me.cleaned /\ me.session = NoSession)
  /\ (me.work = "undoing" => me.cleaned /\ InGate(g, Asks("disconnect", "work", a)))
  /\ (me.pc = "backoff" => me.work = "none" /\ ~me.cleaned /\ me.session = NoSession)
  /\ (me.pc = "cleanup" => me.cleaned /\ InGate(g, Asks("disconnect", "attempt", a)))
  /\ (me.alive => me.pc = "open")
  /\ (me.pc = "idle" => me.work \in {"none", "undoing"})
  /\ (me.pc = "idle" /\ me.work = "none" => me = IdleAttempt)

ConnShape(m, g, c) ==
  /\ m.pc \in {"attaching", "failing"} \/ m.session = NoSession
  /\ (m.pc = "attaching" => m.session # NoSession)
  /\ (m.pc \in {"preparing", "failing"} => InGate(g, Asks("disconnect", "connect", c)))

LostShape(m, g, l) == m.pc = "dropping" => InGate(g, Asks("disconnect", "lost", l))

Shape ==
  /\ \A a \in Attempts : AttShape(att[a], gate, a)
  /\ \A c \in Connects : ConnShape(conn[c], gate, c)
  /\ \A l \in Losses : LostShape(lost[l], gate, l)

(* Disconnects that wait go on waiting, but for those in K. *)
Keeps(K) ==
  \A y \in Ask : y.op = "disconnect" /\ y \notin K /\ InGate(gate, y) => InGate(gate', y)

LEMMA ShapeStep ==
  ASSUME Shape, NEW K, Keeps(K),
         \A a \in Attempts :
           \/ /\ att'[a] = att[a]
              /\ Asks("disconnect", "work", a) \notin K
              /\ Asks("disconnect", "attempt", a) \notin K
           \/ AttShape(att'[a], gate', a),
         \A c \in Connects :
           \/ conn'[c] = conn[c] /\ Asks("disconnect", "connect", c) \notin K
           \/ ConnShape(conn'[c], gate', c),
         \A l \in Losses :
           \/ lost'[l] = lost[l] /\ Asks("disconnect", "lost", l) \notin K
           \/ LostShape(lost'[l], gate', l)
  PROVE  Shape'
<1>1. \A k, i : Asks("disconnect", k, i).op = "disconnect"
  BY DEF Asks
<1>2. ASSUME NEW a \in Attempts  PROVE AttShape(att'[a], gate', a)
  <2>1. CASE /\ att'[a] = att[a]
             /\ Asks("disconnect", "work", a) \notin K
             /\ Asks("disconnect", "attempt", a) \notin K
    <3>1. AttShape(att[a], gate, a)
      BY DEF Shape
    <3>2. /\ InGate(gate, Asks("disconnect", "work", a))
             => InGate(gate', Asks("disconnect", "work", a))
          /\ InGate(gate, Asks("disconnect", "attempt", a))
             => InGate(gate', Asks("disconnect", "attempt", a))
      BY <1>1, <2>1, AskType DEF Keeps
    <3> QED BY ONLY <2>1, <3>1, <3>2 DEF AttShape
  <2> QED BY <2>1
<1>3. ASSUME NEW c \in Connects  PROVE ConnShape(conn'[c], gate', c)
  <2>1. CASE conn'[c] = conn[c] /\ Asks("disconnect", "connect", c) \notin K
    <3>1. ConnShape(conn[c], gate, c)
      BY DEF Shape
    <3>2. InGate(gate, Asks("disconnect", "connect", c))
          => InGate(gate', Asks("disconnect", "connect", c))
      BY <1>1, <2>1, AskType DEF Keeps
    <3> QED BY ONLY <2>1, <3>1, <3>2 DEF ConnShape
  <2> QED BY <2>1
<1>4. ASSUME NEW l \in Losses  PROVE LostShape(lost'[l], gate', l)
  <2>1. CASE lost'[l] = lost[l] /\ Asks("disconnect", "lost", l) \notin K
    <3>1. LostShape(lost[l], gate, l)
      BY DEF Shape
    <3>2. InGate(gate, Asks("disconnect", "lost", l))
          => InGate(gate', Asks("disconnect", "lost", l))
      BY <1>1, <2>1, AskType DEF Keeps
    <3> QED BY ONLY <2>1, <3>1, <3>2 DEF LostShape
  <2> QED BY <2>1
<1> QED BY <1>2, <1>3, <1>4 DEF Shape

(* Two ways an attempt goes on when its work has failed: it asks the driver  *)
(* to drop what it opened, or it hands over to the next attempt.             *)
Cleans(a) ==
  /\ rt'.device = NoSession /\ ~rt'.driver /\ ~rt'.pendingId
  /\ SameFlags(rt', rt)
  /\ rt'.wired = rt.wired /\ rt'.watched = rt.watched
  /\ att'[a].pc = "cleanup" /\ att'[a].cleaned /\ ~att'[a].alive
  /\ gate' # <<>> /\ InGate(gate', Asks("disconnect", "attempt", a))

HandsOver(a) ==
  /\ rt'.wired = {} /\ rt'.watched = {} /\ ~rt'.identity /\ ~rt'.driver
  /\ (rt'.cRec <=> rt.cRec /\ rt.rec)
  /\ (rt'.pend <=> rt.pend \/ (rt.rec /\ (rt.deferred \/ rt.dirty \/ rt.gen = att[a].gen)))
  /\ ~rt'.deferred /\ ~rt'.active /\ ~rt'.inFlight
  /\ att'[a].pc = "idle"

(* What every step of an attempt's work keeps. *)
Works(a) ==
  /\ TypeOK' /\ UNCHANGED <<lost, conn, fin, power>>
  /\ Macro
  /\ rt'.alarm = rt.alarm /\ att'[a].gen \in {att[a].gen, 0}
  /\ (att'[a].pc # "idle" => att'[a].gen = att[a].gen)
  /\ \A b \in Attempts : b # a => att'[b] = att[b]

LEMMA WorkOpenFailsFacts ==
  ASSUME TypeOK, Shape, NEW a \in Attempts, WorkOpenFails(a)
  PROVE  /\ Works(a) /\ hist' = hist /\ slots' = slots /\ socket' = NoSession
         /\ SameCycle(rt', rt) /\ rt'.ui = rt.ui /\ rt'.watchdog = rt.watchdog
         /\ rt'.device = NoSession /\ ~rt'.pendingId /\ ~rt'.driver
         /\ att[a].pc = "open" /\ att[a].work = "opening" /\ Opening /\ Keeps({})
         /\ att'[a].work = "none" /\ att'[a].session = NoSession
         /\ (Cleans(a) \/ (HandsOver(a) /\ att'[a] = IdleAttempt))
<1> DEFINE g == Tail(gate)
           me == [att[a] EXCEPT !.work = "none"]
<1>0. /\ rt \in Machine /\ att \in [Attempts -> Attempt] /\ gate \in Seq(Ask)
      /\ UNCHANGED <<lost, conn, fin, power, budget, hist>>
      /\ Macro /\ att[a] \in Attempt /\ att[a].work = "opening"
      /\ DriverConnects("work", a, NoSession)
      /\ WorkRejects(a, rt, g)
  BY DEF TypeOK, WorkOpenFails
<1>1. /\ att[a].pc = "open" /\ ~att[a].cleaned /\ att[a].session = NoSession
  BY <1>0 DEF Shape, AttShape
<1>2. /\ slots' = slots \cup ({NoSession} \ {NoSession}) /\ slots' \subseteq Sessions
      /\ socket' = NoSession /\ Opening
      /\ g \in Seq(Ask)
      /\ \A y : InGate(gate, y) /\ y.op = "disconnect" => InGate(g, y)
  BY <1>0, ConnectsTypes
<1>3. me \in Attempt /\ me.work = "none" /\ me.pc = "open" /\ me.gen = att[a].gen
      /\ me.session = NoSession /\ ~me.cleaned
  BY <1>0, <1>1 DEF Attempt
<1>4. Fails(a, me, rt, g)
  BY <1>0, <1>1, <1>3 DEF WorkRejects
<1> HIDE DEF g, me
<1>5. /\ rt' \in Machine /\ gate' \in Seq(Ask) /\ att' \in [Attempts -> Attempt]
      /\ SameCycle(rt', rt) /\ rt'.ui = rt.ui
      /\ rt'.device = NoSession /\ ~rt'.driver /\ ~rt'.pendingId
      /\ rt'.alarm = rt.alarm /\ rt'.watchdog = rt.watchdog
      /\ (\A y : InGate(g, y) => InGate(gate', y))
      /\ (\A b \in Attempts : b # a => att'[b] = att[b])
      /\ \/ /\ gate' = Append(g, Asks("disconnect", "attempt", a)) /\ gate' # <<>>
            /\ att'[a].pc = "cleanup" /\ att'[a].cleaned /\ ~att'[a].alive /\ att'[a].work = me.work
            /\ att'[a].session = me.session /\ att'[a].gen = me.gen
            /\ SameFlags(rt', rt)
            /\ rt'.wired = rt.wired /\ rt'.watched = rt.watched
         \/ /\ att'[a] = Ended(me)
            /\ rt'.wired = {} /\ rt'.watched = {} /\ ~rt'.identity
            /\ (rt'.cRec <=> rt.cRec /\ rt.rec)
            /\ (rt'.pend <=> rt.pend \/ (rt.rec /\ (rt.deferred \/ rt.dirty \/ rt.gen = me.gen)))
            /\ ~rt'.deferred /\ ~rt'.active /\ ~rt'.inFlight
  BY ONLY <1>0, <1>2, <1>3, <1>4, TypeOK, FailsFacts, a \in Attempts
<1>6. Ended(me) = IdleAttempt
  BY <1>3 DEF Ended
<1>7. slots' = slots
  BY <1>2
<1>8. TypeOK'
  BY <1>0, <1>2, <1>5 DEF TypeOK
<1>9. Keeps({})
  BY <1>2, <1>5 DEF Keeps
<1>10. gate' = Append(g, Asks("disconnect", "attempt", a))
       => InGate(gate', Asks("disconnect", "attempt", a))
  BY <1>2, AskType, AppendGate
<1>11. Cleans(a) \/ (HandsOver(a) /\ att'[a] = IdleAttempt)
  BY <1>3, <1>5, <1>6, <1>10, IdleTypes DEF Cleans, HandsOver
<1>12. Works(a) /\ att'[a].work = "none" /\ att'[a].session = NoSession
  BY <1>0, <1>3, <1>5, <1>6, <1>8, IdleTypes DEF Works
<1> QED BY <1>0, <1>1, <1>2, <1>5, <1>7, <1>9, <1>11, <1>12

LEMMA WorkOpensFacts ==
  ASSUME TypeOK, Shape, NEW a \in Attempts, WorkOpens(a), NEW s, s = NewSession
  PROVE  /\ Works(a) /\ hist' = hist
         /\ s \in Sessions /\ s # NoSession /\ s \notin Held
         /\ slots' = slots \cup {s} /\ socket' = s
         /\ SameCycle(rt', rt) /\ SameFlags(rt', rt)
         /\ rt'.ui = rt.ui /\ rt'.watchdog = rt.watchdog
         /\ att[a].pc = "open" /\ att[a].work = "opening" /\ Opening /\ Keeps({})
         /\ att'[a].session = s /\ att'[a].pc = "open" /\ att'[a].gen = att[a].gen
         /\ \/ /\ rt'.device = rt.device
               /\ rt'.wired = rt.wired /\ rt'.watched = rt.watched
               /\ att'[a].work = "undoing" /\ att'[a].cleaned
               /\ InGate(gate', Asks("disconnect", "work", a))
            \/ /\ rt.gen = att[a].gen /\ rt'.device = s
               /\ rt'.wired = rt.wired \cup {s} /\ rt'.watched = rt.watched \cup {s}
               /\ att'[a].work = "configuring" /\ ~att'[a].cleaned
<1> DEFINE g == Tail(gate)
           me == [att[a] EXCEPT !.session = s]
           r == [rt EXCEPT !.driver = TRUE]
<1>0. /\ rt \in Machine /\ att \in [Attempts -> Attempt] /\ gate \in Seq(Ask)
      /\ UNCHANGED <<lost, conn, fin, power, budget, hist>>
      /\ Macro /\ att[a] \in Attempt /\ att[a].work = "opening"
      /\ Sessions \ Held # {}
      /\ DriverConnects("work", a, s)
      /\ IF Superseded(a) THEN WorkUndoes(a, me, r, g)
         ELSE /\ rt' = Wire(r, s)
              /\ gate' = g
              /\ att' = [att EXCEPT ![a] = [me EXCEPT !.work = "configuring"]]
  BY DEF TypeOK, WorkOpens
<1>1. /\ att[a].pc = "open" /\ ~att[a].cleaned
  BY <1>0 DEF Shape, AttShape
<1>2. s \in Sessions /\ s # NoSession /\ s \notin Held
  BY <1>0, NewSessionIsNew
<1>3. /\ slots' = slots \cup ({s} \ {NoSession}) /\ slots' \subseteq Sessions
      /\ socket' = s /\ Opening
      /\ g \in Seq(Ask)
      /\ \A y : InGate(gate, y) /\ y.op = "disconnect" => InGate(g, y)
  BY <1>0, <1>2, ConnectsTypes
<1>4. slots' = slots \cup {s}
  BY <1>2, <1>3
<1>5. me \in Attempt /\ me.work = "opening" /\ me.pc = "open" /\ me.gen = att[a].gen
      /\ me.session = s /\ ~me.cleaned
  BY <1>0, <1>1, <1>2 DEF Attempt
<1>6. /\ r \in Machine /\ SameCycle(r, rt) /\ SameFlags(r, rt) /\ r.ui = rt.ui
      /\ r.device = rt.device /\ r.wired = rt.wired /\ r.watched = rt.watched
      /\ r.alarm = rt.alarm /\ r.watchdog = rt.watchdog
  BY <1>0 DEF Machine, SameCycle, SameFlags
<1>7. CASE Superseded(a)
  <2>1. WorkUndoes(a, me, r, g)
    BY <1>0, <1>7
  <2> HIDE DEF g, me, r
  <2>2. /\ rt' \in Machine /\ gate' \in Seq(Ask) /\ att' \in [Attempts -> Attempt]
        /\ (\A y : InGate(g, y) => InGate(gate', y))
        /\ (\A b \in Attempts : b # a => att'[b] = att[b])
        /\ rt' = r
        /\ InGate(gate', Asks("disconnect", "work", a))
        /\ att'[a].work = "undoing" /\ att'[a].cleaned /\ att'[a].pc = me.pc
        /\ att'[a].session = me.session /\ att'[a].gen = me.gen
    BY ONLY <1>3, <1>5, <1>6, <2>1, TypeOK, UndoesFacts, a \in Attempts
  <2>3. TypeOK'
    BY <1>0, <1>2, <1>3, <2>2 DEF TypeOK
  <2>4. Keeps({})
    BY <1>3, <2>2 DEF Keeps
  <2>5. Works(a)
    BY <1>0, <1>5, <1>6, <2>2, <2>3 DEF Works
  <2> QED BY <1>0, <1>1, <1>2, <1>3, <1>4, <1>5, <1>6, <2>2, <2>4, <2>5
<1>8. CASE ~Superseded(a)
  <2> DEFINE m == [me EXCEPT !.work = "configuring"]
  <2>1. rt' = Wire(r, s) /\ gate' = g /\ att' = [att EXCEPT ![a] = m]
    BY <1>0, <1>8
  <2>2. rt.gen = att[a].gen
    BY <1>8 DEF Superseded
  <2> HIDE DEF g, me, r
  <2>3. m \in Attempt /\ m.work = "configuring" /\ m.pc = "open" /\ m.gen = att[a].gen
        /\ m.session = s /\ ~m.cleaned
    BY <1>5 DEF Attempt
  <2> HIDE DEF m
  <2>4. /\ rt' \in Machine /\ SameCycle(rt', r) /\ SameFlags(rt', r) /\ rt'.ui = r.ui
        /\ rt'.device = s /\ rt'.wired = r.wired \cup {s} /\ rt'.watched = r.watched \cup {s}
        /\ rt'.alarm = r.alarm /\ rt'.watchdog = r.watchdog
    BY ONLY <1>2, <1>6, <2>1, WireFacts
  <2>5. /\ att' \in [Attempts -> Attempt] /\ att'[a] = m
        /\ \A b \in Attempts : b # a => att'[b] = att[b]
    BY <1>0, <2>1, <2>3
  <2>6. TypeOK'
    BY <1>0, <1>2, <1>3, <2>1, <2>4, <2>5 DEF TypeOK
  <2>7. Keeps({})
    BY <1>3, <2>1 DEF Keeps
  <2>8. /\ SameCycle(rt', rt) /\ SameFlags(rt', rt) /\ rt'.ui = rt.ui
        /\ rt'.device = s /\ rt'.wired = rt.wired \cup {s} /\ rt'.watched = rt.watched \cup {s}
        /\ rt'.alarm = rt.alarm /\ rt'.watchdog = rt.watchdog
    BY ONLY <1>6, <2>4 DEF SameCycle, SameFlags
  <2>9. Works(a)
    BY <1>0, <2>3, <2>5, <2>6, <2>8 DEF Works
  <2> QED BY <1>0, <1>1, <1>2, <1>3, <1>4, <2>2, <2>3, <2>5, <2>7, <2>8, <2>9
<1> QED BY <1>7, <1>8

LEMMA WorkUndoneFacts ==
  ASSUME TypeOK, Shape, NEW a \in Attempts, WorkUndone(a)
  PROVE  /\ Works(a) /\ hist' = hist /\ slots' = {}
         /\ ((socket # NoSession => socket \in slots) => socket' = NoSession)
         /\ socket' \in {socket, NoSession} /\ ~Opening
         /\ gate # <<>> /\ Head(gate).op = "disconnect"
         /\ Keeps({Asks("disconnect", "work", a)})
         /\ SameCycle(rt', rt) /\ rt'.ui = rt.ui /\ rt'.watchdog = rt.watchdog
         /\ att[a].work = "undoing" /\ att[a].pc # "backoff"
         /\ att'[a].work = "none" /\ att'[a].session \in {att[a].session, NoSession}
         /\ \/ /\ att[a].pc = "open" /\ rt'.device = NoSession /\ ~rt'.pendingId
               /\ HandsOver(a) /\ att'[a] = IdleAttempt
            \/ /\ att[a].pc # "open" /\ rt' = rt /\ att'[a].pc = att[a].pc
               /\ att'[a].cleaned = (att[a].pc # "idle") /\ att'[a].alive = FALSE
               /\ (att[a].pc = "idle" => att'[a] = IdleAttempt)
<1> DEFINE g == Tail(gate)
           me == [att[a] EXCEPT !.work = "none"]
           x == Asks("disconnect", "work", a)
<1>0. /\ rt \in Machine /\ att \in [Attempts -> Attempt] /\ gate \in Seq(Ask)
      /\ socket \in Sessions \cup {NoSession}
      /\ UNCHANGED <<lost, conn, fin, power, budget, hist>>
      /\ Macro /\ att[a] \in Attempt /\ att[a].work = "undoing"
      /\ DriverDisconnects("work", a)
      /\ WorkRejects(a, rt, g)
  BY DEF TypeOK, WorkUndone
<1>1. att[a].pc # "backoff" /\ att[a].cleaned /\ (att[a].alive => att[a].pc = "open")
  BY <1>0 DEF Shape, AttShape
<1>2. /\ slots' = {} /\ socket' \in {socket, NoSession}
      /\ ((socket # NoSession => socket \in slots) => socket' = NoSession)
      /\ gate # <<>> /\ Head(gate) = x
      /\ g \in Seq(Ask)
      /\ \A y : InGate(gate, y) /\ y # x => InGate(g, y)
      /\ ~Opening
  BY <1>0, DisconnectsTypes
<1>20. Head(gate).op = "disconnect"
  BY <1>2 DEF Asks
<1>3. me \in Attempt /\ me.work = "none" /\ me.pc = att[a].pc /\ me.gen = att[a].gen
      /\ me.session = att[a].session /\ me.cleaned /\ me.alive = att[a].alive
  BY <1>0, <1>1 DEF Attempt
<1>4. CASE att[a].pc = "open"
  <2>1. Fails(a, me, rt, g)
    BY <1>0, <1>3, <1>4 DEF WorkRejects
  <2> HIDE DEF g, me
  <2>2. /\ rt' \in Machine /\ gate' \in Seq(Ask) /\ att' \in [Attempts -> Attempt]
        /\ SameCycle(rt', rt) /\ rt'.ui = rt.ui
        /\ rt'.device = NoSession /\ ~rt'.driver /\ ~rt'.pendingId
        /\ rt'.alarm = rt.alarm /\ rt'.watchdog = rt.watchdog
        /\ (\A y : InGate(g, y) => InGate(gate', y))
        /\ (\A b \in Attempts : b # a => att'[b] = att[b])
        /\ att'[a] = Ended(me)
        /\ rt'.wired = {} /\ rt'.watched = {} /\ ~rt'.identity
        /\ (rt'.cRec <=> rt.cRec /\ rt.rec)
        /\ (rt'.pend <=> rt.pend \/ (rt.rec /\ (rt.deferred \/ rt.dirty \/ rt.gen = me.gen)))
        /\ ~rt'.deferred /\ ~rt'.active /\ ~rt'.inFlight
    BY ONLY <1>0, <1>2, <1>3, <2>1, TypeOK, FailsFacts, a \in Attempts
  <2>3. att'[a] = IdleAttempt
    BY <1>3, <2>2 DEF Ended
  <2>4. TypeOK'
    BY <1>0, <1>2, <2>2 DEF TypeOK
  <2>5. Keeps({x})
    BY <1>2, <2>2 DEF Keeps
  <2>6. Works(a) /\ HandsOver(a) /\ att'[a].work = "none" /\ att'[a].session = NoSession
    BY <1>0, <1>3, <2>2, <2>3, <2>4, IdleTypes DEF Works, HandsOver
  <2> QED BY <1>0, <1>1, <1>2, <1>20, <1>4, <2>2, <2>3, <2>5, <2>6
<1>5. CASE att[a].pc # "open"
  <2> DEFINE m == IF me.pc = "idle" THEN IdleAttempt ELSE me
  <2>1. rt' = rt /\ gate' = g /\ att' = [att EXCEPT ![a] = m]
    BY <1>0, <1>3, <1>5 DEF WorkRejects
  <2> HIDE DEF g, me
  <2>2. /\ m \in Attempt /\ m.pc = att[a].pc /\ m.work = "none"
        /\ m.gen \in {att[a].gen, 0} /\ m.session \in {att[a].session, NoSession}
        /\ (att[a].pc = "idle" => m = IdleAttempt)
        /\ (att[a].pc # "idle" => m = me)
    BY <1>3, IdleTypes
  <2>20. m.cleaned = (att[a].pc # "idle") /\ m.alive = FALSE
    <3>1. IdleAttempt.cleaned = FALSE /\ IdleAttempt.alive = FALSE
      BY DEF IdleAttempt
    <3>2. me.cleaned = TRUE /\ me.alive = FALSE
      BY <1>0, <1>1, <1>3, <1>5 DEF Attempt
    <3> QED BY <3>1, <3>2, <2>2
  <2> HIDE DEF m
  <2>3. /\ att' \in [Attempts -> Attempt] /\ att'[a] = m
        /\ \A b \in Attempts : b # a => att'[b] = att[b]
    BY <1>0, <2>1, <2>2
  <2>4. TypeOK'
    BY <1>0, <1>2, <2>1, <2>3 DEF TypeOK
  <2>5. Keeps({x})
    BY <1>2, <2>1 DEF Keeps
  <2>6. Works(a) /\ SameCycle(rt', rt)
    BY <1>0, <1>3, <2>1, <2>2, <2>3, <2>4 DEF Works, SameCycle
  <2> QED BY <1>0, <1>1, <1>2, <1>20, <1>5, <2>1, <2>2, <2>20, <2>3, <2>5, <2>6
<1> QED BY <1>4, <1>5

LEMMA ConfigureFailsFacts ==
  ASSUME TypeOK, Shape, NEW a \in Attempts, ConfigureFails(a)
  PROVE  /\ Works(a) /\ UNCHANGED <<hist, slots, socket>>
         /\ SameCycle(rt', rt) /\ rt'.ui = rt.ui /\ rt'.watchdog = rt.watchdog
         /\ att[a].work = "configuring" /\ att[a].session # NoSession
         /\ att[a].pc \in {"open", "cleanup"}
         /\ (Opening => Opening') /\ (gate # <<>> => gate' # <<>>) /\ Keeps({})
         /\ att'[a].work = "none" /\ att'[a].session = att[a].session
         /\ \/ att[a].pc = "open" /\ Cleans(a)
            \/ /\ att[a].pc = "cleanup" /\ rt' = rt /\ gate' = gate
               /\ att'[a].pc = "cleanup" /\ att'[a].cleaned /\ ~att'[a].alive
<1> DEFINE me == [att[a] EXCEPT !.work = "none"]
<1>0. /\ rt \in Machine /\ att \in [Attempts -> Attempt] /\ gate \in Seq(Ask)
      /\ UNCHANGED <<slots, socket, lost, conn, fin, power, budget, hist>>
      /\ Macro /\ att[a] \in Attempt /\ att[a].work = "configuring"
      /\ WorkRejects(a, rt, gate)
  BY DEF TypeOK, ConfigureFails
<1>1. /\ att[a].pc \in {"open", "cleanup"} /\ att[a].session # NoSession
      /\ (att[a].pc = "open" => ~att[a].cleaned)
      /\ (att[a].pc = "cleanup" => att[a].cleaned /\ ~att[a].alive)
  BY <1>0 DEF Shape, AttShape, Attempt
<1>2. me \in Attempt /\ me.work = "none" /\ me.pc = att[a].pc /\ me.gen = att[a].gen
      /\ me.session = att[a].session /\ me.cleaned = att[a].cleaned /\ me.alive = att[a].alive
  BY <1>0 DEF Attempt
<1>3. CASE att[a].pc = "open"
  <2>1. Fails(a, me, rt, gate)
    BY <1>0, <1>2, <1>3 DEF WorkRejects
  <2> HIDE DEF me
  <2>2. /\ rt' \in Machine /\ gate' \in Seq(Ask) /\ att' \in [Attempts -> Attempt]
        /\ SameCycle(rt', rt) /\ rt'.ui = rt.ui
        /\ rt'.device = NoSession /\ ~rt'.driver /\ ~rt'.pendingId
        /\ rt'.alarm = rt.alarm /\ rt'.watchdog = rt.watchdog
        /\ (\A y : InGate(gate, y) => InGate(gate', y))
        /\ (gate # <<>> => gate' # <<>> /\ Head(gate') = Head(gate))
        /\ (\A b \in Attempts : b # a => att'[b] = att[b])
        /\ gate' = Append(gate, Asks("disconnect", "attempt", a)) /\ gate' # <<>>
        /\ att'[a].pc = "cleanup" /\ att'[a].cleaned /\ ~att'[a].alive /\ att'[a].work = me.work
        /\ att'[a].session = me.session /\ att'[a].gen = me.gen
        /\ SameFlags(rt', rt)
        /\ rt'.wired = rt.wired /\ rt'.watched = rt.watched
    BY ONLY <1>0, <1>1, <1>2, <1>3, <2>1, TypeOK, FailsFacts, a \in Attempts
  <2>3. InGate(gate', Asks("disconnect", "attempt", a))
    BY <1>0, <2>2, AskType, AppendGate
  <2>4. TypeOK'
    BY <1>0, <2>2 DEF TypeOK
  <2>5. Keeps({}) /\ (Opening => Opening')
    BY <2>2 DEF Keeps, Opening
  <2>6. Works(a) /\ Cleans(a)
    BY <1>0, <1>2, <2>2, <2>3, <2>4 DEF Works, Cleans
  <2> QED BY <1>0, <1>1, <1>2, <1>3, <2>2, <2>5, <2>6
<1>4. CASE att[a].pc = "cleanup"
  <2>1. rt' = rt /\ gate' = gate /\ att' = [att EXCEPT ![a] = me]
    BY <1>0, <1>2, <1>4 DEF WorkRejects
  <2> HIDE DEF me
  <2>2. /\ att' \in [Attempts -> Attempt] /\ att'[a] = me
        /\ \A b \in Attempts : b # a => att'[b] = att[b]
    BY <1>0, <1>2, <2>1
  <2>3. TypeOK'
    BY <1>0, <2>1, <2>2 DEF TypeOK
  <2>4. Keeps({}) /\ (Opening => Opening')
    BY <2>1 DEF Keeps, Opening
  <2>5. Works(a) /\ SameCycle(rt', rt)
    BY <1>0, <1>2, <2>1, <2>2, <2>3 DEF Works, SameCycle
  <2> QED BY <1>0, <1>1, <1>2, <1>4, <2>1, <2>2, <2>4, <2>5
<1> QED BY <1>1, <1>3, <1>4

LEMMA ConfigureDoneFacts ==
  ASSUME TypeOK, Shape, NEW a \in Attempts, ConfigureDone(a)
  PROVE  /\ Works(a) /\ UNCHANGED <<slots, socket>> /\ Noticed
         /\ att[a].work = "configuring" /\ att[a].session # NoSession
         /\ socket = att[a].session /\ ~Opening
         /\ rt'.gen = rt.gen /\ rt'.cGen = rt.cGen /\ rt'.explicit = rt.explicit
         /\ rt'.params = rt.params /\ rt'.device = rt.device
         /\ rt'.wired = rt.wired /\ rt'.watched = rt.watched
         /\ rt'.driver = rt.driver /\ rt'.pendingId = rt.pendingId
         /\ (socket \in rt.wired => rt'.watchdog)
         /\ (socket \notin rt.wired => rt'.watchdog = rt.watchdog)
         /\ hist'.stale = hist.stale /\ (hist.crossed => hist'.crossed)
         /\ (Opening => Opening') /\ (gate # <<>> => gate' # <<>>) /\ Keeps({})
         /\ \/ /\ rt.gen # att[a].gen \/ ~att[a].alive
               /\ hist'.late = hist.late /\ SameFlags(rt', rt) /\ rt'.rec = rt.rec
               /\ (fin # "idle" => hist'.crossed)
               /\ (rt'.ui = rt.ui \/ rt'.ui = "connected")
               /\ att'[a].session = att[a].session /\ att'[a].pc = att[a].pc
               /\ att'[a].cleaned
               /\ \/ /\ att[a].pc = "cleanup" /\ att'[a].work = "none" /\ ~att'[a].alive
                  \/ /\ att[a].pc = "open" /\ att'[a].work = "undoing"
                     /\ InGate(gate', Asks("disconnect", "work", a))
            \/ /\ rt.gen = att[a].gen /\ att[a].pc = "open"
               /\ att'[a] = IdleAttempt /\ gate' = gate
               /\ (<<"attempt", a>> \notin hist.stale => hist'.late = hist.late)
               /\ ~rt'.rec /\ ~rt'.cRec /\ ~rt'.active /\ rt'.pend = rt.pend
               /\ ~rt'.deferred /\ ~rt'.inFlight /\ rt'.ui = "connected"
<1> DEFINE r == Configured(rt, socket)
<1>0. /\ rt \in Machine /\ att \in [Attempts -> Attempt] /\ gate \in Seq(Ask)
      /\ hist \in History
      /\ UNCHANGED <<slots, socket, lost, conn, fin, power, budget>>
      /\ Macro /\ Noticed /\ att[a] \in Attempt /\ att[a].work = "configuring"
      /\ LiveSocket = att[a].session
      /\ IF Superseded(a)
         THEN /\ WorkUndoes(a, att[a], r, gate)
              /\ hist' = IF fin # "idle" THEN Crossed(hist) ELSE hist
         ELSE /\ rt' = Settle(Success(r))
              /\ att' = [att EXCEPT ![a] = IdleAttempt]
              /\ Succeeds("attempt", a)
              /\ UNCHANGED gate
  BY DEF TypeOK, ConfigureDone, History
<1>1. /\ att[a].pc \in {"open", "cleanup"} /\ att[a].session # NoSession
      /\ (att[a].pc = "open" => ~att[a].cleaned)
      /\ (att[a].pc = "cleanup" => att[a].cleaned /\ ~att[a].alive)
      /\ (att[a].alive => att[a].pc = "open")
  BY <1>0 DEF Shape, AttShape, Attempt
<1>2. socket = att[a].session /\ ~Opening
  BY <1>0, <1>1 DEF LiveSocket
<1>3. r = Configured(rt, socket)
  OBVIOUS
<1> HIDE DEF r
<1>4. /\ r \in Machine /\ SameCycle(r, rt) /\ SameFlags(r, rt)
      /\ r.device = rt.device /\ r.wired = rt.wired /\ r.watched = rt.watched
      /\ r.alarm = rt.alarm /\ r.identity = rt.identity
      /\ r.pendingId = rt.pendingId /\ r.driver = rt.driver
      /\ (socket \in rt.wired => r.watchdog /\ r.ui = "connected")
      /\ (socket \notin rt.wired => r = rt)
  BY ONLY <1>0, <1>3, ConfiguredFacts
<1>5. CASE Superseded(a)
  <2>1. /\ rt.gen # att[a].gen \/ ~att[a].alive
        /\ WorkUndoes(a, att[a], r, gate)
        /\ hist' = IF fin # "idle" THEN Crossed(hist) ELSE hist
    BY <1>0, <1>5 DEF Superseded
  <2>2. /\ hist' \in History /\ hist'.late = hist.late /\ hist'.stale = hist.stale
        /\ (hist.crossed => hist'.crossed) /\ (fin # "idle" => hist'.crossed)
    <3>1. CASE fin # "idle"
      <4>1. Crossed(hist).crossed = TRUE
        BY <1>0, <3>1 DEF Crossed, History
      <4> QED BY <1>0, <2>1, <3>1, <4>1, HistoryTypes
    <3> QED BY <1>0, <2>1, <3>1
  <2>3. CASE att[a].pc = "open"
    <3>1. /\ rt' = r /\ gate' \in Seq(Ask) /\ att' \in [Attempts -> Attempt]
          /\ (\A y : InGate(gate, y) => InGate(gate', y))
          /\ (gate # <<>> => Head(gate') = Head(gate))
          /\ (\A b \in Attempts : b # a => att'[b] = att[b])
          /\ gate' # <<>> /\ InGate(gate', Asks("disconnect", "work", a))
          /\ att'[a].work = "undoing" /\ att'[a].cleaned /\ att'[a].pc = att[a].pc
          /\ att'[a].session = att[a].session /\ att'[a].gen = att[a].gen
      BY ONLY <1>0, <1>1, <1>4, <2>1, <2>3, TypeOK, UndoesFacts, a \in Attempts
    <3>2. TypeOK'
      BY <1>0, <1>4, <2>2, <3>1 DEF TypeOK, History
    <3>3. Keeps({}) /\ (Opening => Opening')
      BY <3>1 DEF Keeps, Opening
    <3>4. Works(a)
      BY <1>0, <1>4, <3>1, <3>2 DEF Works
    <3>5. /\ rt'.gen = rt.gen /\ rt'.cGen = rt.cGen /\ rt'.explicit = rt.explicit
          /\ rt'.params = rt.params /\ rt'.rec = rt.rec /\ SameFlags(rt', rt)
          /\ (rt'.ui = rt.ui \/ rt'.ui = "connected")
          /\ (socket \in rt.wired => rt'.watchdog)
          /\ (socket \notin rt.wired => rt'.watchdog = rt.watchdog)
      BY <1>4, <3>1 DEF SameCycle
    <3> QED BY ONLY <1>0, <1>1, <1>2, <1>4, <2>1, <2>2, <2>3, <3>1, <3>3, <3>4, <3>5
  <2>4. CASE att[a].pc = "cleanup"
    <3> DEFINE m == [att[a] EXCEPT !.work = "none"]
    <3>1. rt' = r /\ gate' = gate /\ att' = [att EXCEPT ![a] = m]
      BY <1>1, <2>1, <2>4 DEF WorkUndoes
    <3>2. /\ m \in Attempt /\ m.work = "none" /\ m.pc = att[a].pc /\ m.cleaned /\ ~m.alive
          /\ m.session = att[a].session /\ m.gen = att[a].gen
      BY <1>0, <1>1, <2>4 DEF Attempt
    <3> HIDE DEF m
    <3>3. /\ att' \in [Attempts -> Attempt] /\ att'[a] = m
          /\ \A b \in Attempts : b # a => att'[b] = att[b]
      BY <1>0, <3>1, <3>2
    <3>4. TypeOK'
      BY <1>0, <1>4, <2>2, <3>1, <3>3 DEF TypeOK, History
    <3>5. Keeps({}) /\ (Opening => Opening')
      BY <3>1 DEF Keeps, Opening
    <3>6. Works(a)
      BY <1>0, <1>4, <3>1, <3>2, <3>3, <3>4 DEF Works
    <3>7. /\ rt'.gen = rt.gen /\ rt'.cGen = rt.cGen /\ rt'.explicit = rt.explicit
          /\ rt'.params = rt.params /\ rt'.rec = rt.rec /\ SameFlags(rt', rt)
          /\ (rt'.ui = rt.ui \/ rt'.ui = "connected")
          /\ (socket \in rt.wired => rt'.watchdog)
          /\ (socket \notin rt.wired => rt'.watchdog = rt.watchdog)
      BY <1>4, <3>1 DEF SameCycle
    <3> QED BY ONLY <1>0, <1>1, <1>2, <1>4, <2>1, <2>2, <2>4, <3>1, <3>2, <3>3, <3>5, <3>6, <3>7
  <2> QED BY <1>1, <2>3, <2>4
<1>6. CASE ~Superseded(a)
  <2>1. /\ rt.gen = att[a].gen /\ att[a].alive
        /\ rt' = Settle(Success(r))
        /\ att' = [att EXCEPT ![a] = IdleAttempt]
        /\ Succeeds("attempt", a)
        /\ gate' = gate
    BY <1>0, <1>6 DEF Superseded
  <2>2. /\ rt' \in Machine /\ SameLink(rt', r)
        /\ rt'.gen = r.gen /\ rt'.cGen = r.cGen /\ ~rt'.rec
        /\ rt'.explicit = r.explicit /\ rt'.params = r.params
        /\ ~rt'.cRec /\ ~rt'.active /\ rt'.pend = r.pend
        /\ ~rt'.deferred /\ ~rt'.inFlight /\ rt'.ui = "connected"
    BY ONLY <1>4, <2>1, SucceedsFacts
  <2>3. /\ att' \in [Attempts -> Attempt] /\ att'[a] = IdleAttempt
        /\ \A b \in Attempts : b # a => att'[b] = att[b]
    BY <1>0, <2>1, IdleTypes
  <2>4. <<"attempt", a>> \in Parties
    BY DEF Parties
  <2>5. /\ hist' \in History /\ hist'.stale = hist.stale
        /\ hist'.crossed = hist.crossed
        /\ (<<"attempt", a>> \notin hist.stale => hist'.late = hist.late)
    BY <1>0, <2>1, <2>4, SucceedsTypes
  <2>6. TypeOK'
    BY <1>0, <2>1, <2>2, <2>3, <2>5 DEF TypeOK, History
  <2>7. Keeps({}) /\ (Opening => Opening')
    BY <2>1 DEF Keeps, Opening
  <2>8. rt'.alarm = rt.alarm
    BY <1>4, <2>2 DEF SameLink
  <2>9. Works(a)
    BY <1>0, <2>3, <2>6, <2>8, IdleTypes DEF Works
  <2>10. /\ rt'.gen = rt.gen /\ rt'.cGen = rt.cGen /\ rt'.explicit = rt.explicit
         /\ rt'.params = rt.params /\ rt'.device = rt.device
         /\ rt'.wired = rt.wired /\ rt'.watched = rt.watched
         /\ rt'.driver = rt.driver /\ rt'.pendingId = rt.pendingId
         /\ (socket \in rt.wired => rt'.watchdog)
         /\ (socket \notin rt.wired => rt'.watchdog = rt.watchdog)
         /\ rt'.pend = rt.pend
    BY ONLY <1>4, <2>2 DEF SameLink, SameCycle, SameFlags
  <2> QED BY ONLY <1>0, <1>1, <1>2, <2>1, <2>2, <2>3, <2>5, <2>7, <2>9, <2>10
<1> QED BY <1>5, <1>6

LEMMA DeadlineFacts ==
  ASSUME TypeOK, Shape, NEW a \in Attempts, Deadline(a)
  PROVE  /\ Works(a) /\ UNCHANGED <<hist, slots, socket>> /\ Prompt
         /\ SameCycle(rt', rt) /\ rt'.ui = rt.ui /\ rt'.watchdog = rt.watchdog
         /\ rt'.device = NoSession /\ ~rt'.pendingId /\ ~rt'.driver
         /\ att[a].pc = "open" /\ att'[a].work = att[a].work
         /\ (Opening => Opening') /\ gate' # <<>> /\ Keeps({})
         /\ att'[a].session = att[a].session
         /\ ~att'[a].alive
         /\ \/ /\ att[a].work = "configuring" /\ att[a].session # NoSession
               /\ Cleans(a)
            \/ /\ att[a].work = "undoing" /\ gate' = gate /\ att'[a].cleaned
               /\ HandsOver(a)
<1> DEFINE me == att[a]
<1>0. /\ rt \in Machine /\ att \in [Attempts -> Attempt] /\ gate \in Seq(Ask)
      /\ UNCHANGED <<slots, socket, lost, conn, fin, power, hist>>
      /\ Macro /\ Prompt /\ me \in Attempt /\ me.work # "opening" /\ me.pc = "open"
      /\ Spend /\ Fails(a, me, rt, gate)
  BY DEF TypeOK, Deadline
<1>1. /\ me.work \in {"configuring", "undoing"}
      /\ (me.work = "configuring" => me.session # NoSession /\ ~me.cleaned)
      /\ (me.work = "undoing" => me.cleaned /\ gate # <<>>)
  <2>1. InGate(gate, Asks("disconnect", "work", a)) => gate # <<>>
    BY <1>0 DEF InGate
  <2> QED BY <1>0, <2>1 DEF Shape, AttShape, Attempt
<1>2. budget' \in 0..MaxEvents
  BY <1>0, SpendType
<1>3. me = att[a]
  OBVIOUS
<1> HIDE DEF me
<1>4. CASE me.work = "configuring"
  <2>2. /\ rt' \in Machine /\ gate' \in Seq(Ask) /\ att' \in [Attempts -> Attempt]
        /\ SameCycle(rt', rt) /\ rt'.ui = rt.ui
        /\ rt'.device = NoSession /\ ~rt'.driver /\ ~rt'.pendingId
        /\ rt'.alarm = rt.alarm /\ rt'.watchdog = rt.watchdog
        /\ (\A y : InGate(gate, y) => InGate(gate', y))
        /\ (gate # <<>> => gate' # <<>> /\ Head(gate') = Head(gate))
        /\ (\A b \in Attempts : b # a => att'[b] = att[b])
        /\ gate' = Append(gate, Asks("disconnect", "attempt", a)) /\ gate' # <<>>
        /\ att'[a].pc = "cleanup" /\ att'[a].cleaned /\ ~att'[a].alive /\ att'[a].work = me.work
        /\ att'[a].session = me.session /\ att'[a].gen = me.gen
        /\ SameFlags(rt', rt)
        /\ rt'.wired = rt.wired /\ rt'.watched = rt.watched
    BY ONLY <1>0, <1>1, <1>4, TypeOK, FailsFacts, a \in Attempts
  <2>3. InGate(gate', Asks("disconnect", "attempt", a))
    BY <1>0, <2>2, AskType, AppendGate
  <2>4. TypeOK'
    BY <1>0, <1>2, <2>2 DEF TypeOK
  <2>5. Keeps({}) /\ (Opening => Opening')
    BY <2>2 DEF Keeps, Opening
  <2>6. Works(a) /\ Cleans(a)
    BY <1>0, <1>3, <2>2, <2>3, <2>4 DEF Works, Cleans
  <2>7. ~att'[a].alive
    BY <1>0, <1>1, <1>4, ZenonT(120) DEF Fails, Attempt
  <2> QED BY <1>0, <1>1, <1>3, <1>4, <2>2, <2>5, <2>6, <2>7
<1>5. CASE me.work = "undoing"
  <2>2. /\ rt' \in Machine /\ gate' \in Seq(Ask) /\ att' \in [Attempts -> Attempt]
        /\ SameCycle(rt', rt) /\ rt'.ui = rt.ui
        /\ rt'.device = NoSession /\ ~rt'.driver /\ ~rt'.pendingId
        /\ rt'.alarm = rt.alarm /\ rt'.watchdog = rt.watchdog
        /\ (\A b \in Attempts : b # a => att'[b] = att[b])
        /\ gate' = gate
        /\ att'[a] = Ended(me)
        /\ rt'.wired = {} /\ rt'.watched = {} /\ ~rt'.identity
        /\ (rt'.cRec <=> rt.cRec /\ rt.rec)
        /\ (rt'.pend <=> rt.pend \/ (rt.rec /\ (rt.deferred \/ rt.dirty \/ rt.gen = me.gen)))
        /\ ~rt'.deferred /\ ~rt'.active /\ ~rt'.inFlight
    BY ONLY <1>0, <1>1, <1>5, TypeOK, FailsFacts, a \in Attempts
  <2>3. /\ Ended(me).pc = "idle" /\ Ended(me).work = "undoing" /\ ~Ended(me).alive
        /\ Ended(me).cleaned /\ Ended(me).gen = me.gen /\ Ended(me).session = me.session
    BY <1>0, <1>1, <1>5 DEF Ended, Attempt
  <2>4. TypeOK'
    BY <1>0, <1>2, <2>2 DEF TypeOK
  <2>5. Keeps({}) /\ (Opening => Opening')
    BY <2>2 DEF Keeps, Opening
  <2>6. Works(a) /\ HandsOver(a)
    BY <1>0, <1>3, <2>2, <2>3, <2>4 DEF Works, HandsOver
  <2> QED BY <1>0, <1>1, <1>3, <1>5, <2>2, <2>3, <2>5, <2>6
<1> QED BY <1>1, <1>4, <1>5

LEMMA AttemptCleanedFacts ==
  ASSUME TypeOK, Shape, NEW a \in Attempts, AttemptCleaned(a)
  PROVE  /\ Works(a) /\ hist' = hist /\ slots' = {}
         /\ ((socket # NoSession => socket \in slots) => socket' = NoSession)
         /\ socket' \in {socket, NoSession} /\ ~Opening
         /\ gate # <<>> /\ Head(gate).op = "disconnect"
         /\ Keeps({Asks("disconnect", "attempt", a)})
         /\ SameCycle(rt', rt) /\ rt'.ui = rt.ui /\ rt'.watchdog = rt.watchdog
         /\ rt'.device = rt.device /\ rt'.pendingId = rt.pendingId
         /\ att[a].pc = "cleanup" /\ HandsOver(a)
         /\ \/ att'[a] = IdleAttempt
            \/ /\ att[a].work = "undoing" /\ att'[a].work = "undoing"
               /\ att'[a].cleaned /\ ~att'[a].alive /\ att'[a].session = att[a].session
<1> DEFINE g == Tail(gate)
           me == att[a]
           x == Asks("disconnect", "attempt", a)
<1>0. /\ rt \in Machine /\ att \in [Attempts -> Attempt] /\ gate \in Seq(Ask)
      /\ socket \in Sessions \cup {NoSession}
      /\ UNCHANGED <<lost, conn, fin, power, budget, hist>>
      /\ Macro /\ me \in Attempt /\ me.pc = "cleanup"
      /\ DriverDisconnects("attempt", a)
      /\ rt' = AfterError(rt, me.gen) /\ gate' = g
      /\ att' = [att EXCEPT ![a] = Ended(me)]
  BY DEF TypeOK, AttemptCleaned
<1>1. me.cleaned
  BY <1>0 DEF Shape, AttShape
<1>2. /\ slots' = {} /\ socket' \in {socket, NoSession}
      /\ ((socket # NoSession => socket \in slots) => socket' = NoSession)
      /\ gate # <<>> /\ Head(gate) = x
      /\ g \in Seq(Ask)
      /\ \A y : InGate(gate, y) /\ y # x => InGate(g, y)
      /\ ~Opening
  BY <1>0, DisconnectsTypes
<1>20. Head(gate).op = "disconnect"
  BY <1>2 DEF Asks
<1>3. /\ Ended(me) \in Attempt /\ Ended(me).pc = "idle" /\ Ended(me).gen \in {me.gen, 0}
      /\ \/ Ended(me) = IdleAttempt
         \/ /\ me.work = "undoing" /\ Ended(me).work = "undoing"
            /\ Ended(me).cleaned /\ ~Ended(me).alive /\ Ended(me).session = me.session
  BY <1>0, <1>1, IdleTypes DEF Ended, Attempt
<1>4. me = att[a]
  OBVIOUS
<1> HIDE DEF g, me
<1>5. /\ rt' \in Machine /\ SameCycle(rt', rt) /\ rt'.ui = rt.ui
      /\ rt'.wired = {} /\ rt'.watched = {} /\ ~rt'.identity /\ ~rt'.driver
      /\ rt'.device = rt.device /\ rt'.alarm = rt.alarm /\ rt'.watchdog = rt.watchdog
      /\ rt'.pendingId = rt.pendingId
      /\ (rt'.cRec <=> rt.cRec /\ rt.rec)
      /\ (rt'.pend <=> rt.pend \/ (rt.rec /\ (rt.deferred \/ rt.dirty \/ rt.gen = me.gen)))
      /\ ~rt'.deferred /\ ~rt'.active /\ ~rt'.inFlight
  BY ONLY <1>0, AfterErrorFacts
<1>6. /\ att' \in [Attempts -> Attempt] /\ att'[a] = Ended(me)
      /\ \A b \in Attempts : b # a => att'[b] = att[b]
  BY <1>0, <1>3
<1>7. TypeOK'
  BY <1>0, <1>2, <1>5, <1>6 DEF TypeOK
<1>8. Keeps({x})
  BY <1>0, <1>2 DEF Keeps
<1>9. Works(a) /\ HandsOver(a)
  BY <1>0, <1>3, <1>4, <1>5, <1>6, <1>7 DEF Works, HandsOver
<1> QED BY <1>0, <1>2, <1>20, <1>3, <1>4, <1>5, <1>6, <1>8, <1>9

-----------------------------------------------------------------------------
(* What every step of a connect keeps, and how one gives up. *)
Calls(c) ==
  /\ TypeOK' /\ UNCHANGED <<att, lost, fin, power>>
  /\ Macro
  /\ rt'.alarm = rt.alarm
  /\ \A d \in Connects : d # c => conn'[d] = conn[d]

GivenUp(c) ==
  /\ SameFlags(rt', rt) /\ ~rt'.rec /\ rt'.gen = rt.gen + 1 /\ rt'.cGen = rt.cGen
  /\ rt'.explicit = rt.explicit /\ rt'.params = rt.params
  /\ rt'.device = NoSession /\ rt'.wired = {} /\ rt'.watched = {} /\ ~rt'.watchdog
  /\ \/ /\ conn'[c].pc = "failing" /\ conn'[c].session = conn[c].session
        /\ gate' # <<>> /\ InGate(gate', Asks("disconnect", "connect", c))
        /\ rt'.ui \in {rt.ui, "connected"}
     \/ conn'[c] = IdleConnect /\ rt'.ui = "disconnected"

LEMMA ConnectFacts ==
  ASSUME TypeOK, Shape, NEW c \in Connects, Connect(c)
  PROVE  /\ Calls(c) /\ UNCHANGED <<slots, socket>> /\ Prompt
         /\ rt.ui = "disconnected" /\ conn[c].pc = "idle"
         /\ ~power.asleep /\ ~power.due
         /\ conn'[c].session = NoSession
         /\ rt'.device = NoSession
         /\ \/ rt'.wired = {} /\ rt'.watched = {} /\ ~rt'.watchdog
            \/ /\ rt.device = NoSession /\ ~rt.driver
               /\ rt'.wired = rt.wired /\ rt'.watched = rt.watched
               /\ rt'.watchdog = rt.watchdog
         /\ gate' # <<>> /\ (Opening => Opening') /\ Keeps({})
         /\ hist'.late = hist.late
         /\ (~hist'.crossed => /\ ~hist.crossed /\ fin = "idle"
                               /\ \A a \in Attempts : att[a] = IdleAttempt
                               /\ \A d \in Connects : conn[d].pc = "idle")
         /\ \/ /\ conn'[c].pc = "preparing" /\ hist'.stale = hist.stale
               /\ InGate(gate', Asks("disconnect", "connect", c))
               /\ SameCycle(rt', rt) /\ SameFlags(rt', rt) /\ rt'.ui = rt.ui
               /\ (rt.device # NoSession \/ rt.driver)
            \/ /\ conn'[c].pc = "opening" /\ rt'.ui = "connecting" /\ rt'.params
               /\ (\A a \in Attempts : <<"attempt", a>> \in hist'.stale)
               /\ (\A d \in Connects : <<"connect", d>> \in hist'.stale)
               /\ ~rt'.rec /\ rt'.gen = rt.gen + 1 /\ rt'.cGen = rt.cGen + 1
               /\ ~rt'.explicit /\ ~rt'.cRec /\ ~rt'.active /\ ~rt'.pend /\ ~rt'.inFlight
<1> DEFINE held == rt.device # NoSession \/ rt.driver
           w == [rt EXCEPT !.watchdog = FALSE]
           e == CleanupSubscriptions(w)
           k == IF held THEN e ELSE rt
           d == IF held THEN Drop(k) ELSE k
           x == Asks("disconnect", "connect", c)
           y == Asks("connect", "connect", c)
           p == [conn[c] EXCEPT !.pc = "preparing"]
           o == [conn[c] EXCEPT !.pc = "opening"]
           h == Crossed(hist)
<1>0. /\ rt \in Machine /\ conn \in [Connects -> Connection] /\ gate \in Seq(Ask)
      /\ hist \in History /\ conn[c] \in Connection
      /\ UNCHANGED <<slots, socket, att, lost, fin, power>>
      /\ Macro /\ Prompt /\ Spend /\ rt.ui = "disconnected" /\ conn[c].pc = "idle"
      /\ ~power.asleep /\ ~power.due
      /\ conn[c].session = NoSession
      /\ held \in BOOLEAN
  BY DEF TypeOK, Connect, History, Shape, ConnShape
<1>1. \/ /\ held /\ rt' = Drop(k) /\ conn' = [conn EXCEPT ![c] = p]
         /\ gate' = Append(gate, x) /\ hist' = h
      \/ /\ rt' = Prepared(d) /\ conn' = [conn EXCEPT ![c] = o]
         /\ gate' = Append(gate, y) /\ hist' = AllStale(h)
  BY <1>0 DEF Connect, Enqueue
<1>2. budget' \in 0..MaxEvents
  BY <1>0, SpendType
<1>3. w \in Machine /\ SameCycle(w, rt) /\ SameFlags(w, rt) /\ w.ui = rt.ui
      /\ w.alarm = rt.alarm /\ ~w.watchdog
  BY <1>0, ZenonT(120) DEF Machine, SameCycle, SameFlags
<1>4. e = CleanupSubscriptions(w) /\ k = (IF held THEN e ELSE rt)
      /\ d = (IF held THEN Drop(k) ELSE k)
      /\ (~held => rt.device = NoSession /\ ~rt.driver)
  OBVIOUS
<1>5. /\ x \in Ask /\ y \in Ask /\ x = Asks("disconnect", "connect", c)
  BY AskType
<1>6. /\ p \in Connection /\ p.pc = "preparing" /\ p.session = NoSession
      /\ o \in Connection /\ o.pc = "opening" /\ o.session = NoSession
  BY <1>0 DEF Connection
<1> HIDE DEF w, e, k, d, x, y, p, o, held
<1>7. /\ e \in Machine /\ SameCycle(e, w) /\ SameFlags(e, w) /\ e.ui = w.ui
      /\ e.wired = {} /\ e.watched = {} /\ e.alarm = w.alarm /\ e.watchdog = w.watchdog
  BY ONLY <1>3, <1>4, CleanFacts
<1>8. held =>
        /\ d \in Machine /\ SameCycle(d, rt) /\ SameFlags(d, rt) /\ d.ui = rt.ui
        /\ d.device = NoSession /\ d.wired = {} /\ d.watched = {} /\ ~d.watchdog
        /\ d.alarm = rt.alarm /\ d = Drop(k)
  <2> SUFFICES ASSUME held
               PROVE  /\ d \in Machine /\ SameCycle(d, rt) /\ SameFlags(d, rt) /\ d.ui = rt.ui
                      /\ d.device = NoSession /\ d.wired = {} /\ d.watched = {} /\ ~d.watchdog
                      /\ d.alarm = rt.alarm /\ d = Drop(k)
    OBVIOUS
  <2>1. d = Drop(e) /\ k = e
    BY <1>4
  <2>2. /\ d \in Machine /\ SameCycle(d, e) /\ SameFlags(d, e) /\ d.ui = e.ui
        /\ d.device = NoSession
        /\ d.wired = e.wired /\ d.watched = e.watched /\ d.alarm = e.alarm
        /\ d.watchdog = e.watchdog
    BY ONLY <1>7, <2>1, DropFacts
  <2> QED BY ONLY <1>3, <1>7, <2>1, <2>2 DEF SameCycle, SameFlags
<1>9. ~held => d = rt
  BY <1>4
<1>10. /\ d \in Machine /\ d.device = NoSession /\ d.alarm = rt.alarm
       /\ SameCycle(d, rt) /\ SameFlags(d, rt)
       /\ \/ d.wired = {} /\ d.watched = {} /\ ~d.watchdog
          \/ /\ rt.device = NoSession /\ ~rt.driver
             /\ d.wired = rt.wired /\ d.watched = rt.watched
             /\ d.watchdog = rt.watchdog
  <2>1. CASE held
    BY <1>8, <2>1
  <2>2. CASE ~held
    BY <1>0, <1>4, <1>9, <2>2 DEF SameCycle, SameFlags
  <2> QED BY <2>1, <2>2
<1>11. /\ h \in History /\ h.late = hist.late
       /\ h.stale = hist.stale /\ h = Crossed(hist)
       /\ (~h.crossed => /\ ~hist.crossed /\ fin = "idle"
                         /\ \A a \in Attempts : att[a] = IdleAttempt
                         /\ \A b \in Connects : conn[b].pc = "idle")
  BY <1>0, HistoryTypes DEF Crossed, History
<1> HIDE DEF h
<1>12. CASE /\ held /\ rt' = Drop(k) /\ conn' = [conn EXCEPT ![c] = p]
            /\ gate' = Append(gate, x) /\ hist' = h
  <2>1. rt' = d
    BY <1>8, <1>12
  <2>2. /\ conn' \in [Connects -> Connection] /\ conn'[c] = p
        /\ \A b \in Connects : b # c => conn'[b] = conn[b]
    BY <1>0, <1>6, <1>12
  <2>3. gate' \in Seq(Ask) /\ gate' # <<>> /\ InGate(gate', x)
        /\ (gate # <<>> => Head(gate') = Head(gate))
        /\ \A z : InGate(gate, z) => InGate(gate', z)
    BY ONLY <1>0, <1>5, <1>12, AppendGate
  <2>4. Keeps({}) /\ (Opening => Opening')
    BY <2>3 DEF Keeps, Opening
  <2>5. TypeOK'
    BY <1>0, <1>2, <1>10, <1>11, <1>12, <2>1, <2>2, <2>3 DEF TypeOK, History
  <2>6. Calls(c)
    BY <1>0, <1>10, <2>1, <2>2, <2>5 DEF Calls
  <2>7. rt'.ui = rt.ui /\ (rt.device # NoSession \/ rt.driver)
    BY <1>8, <1>12, <2>1 DEF held
  <2>8. /\ rt'.device = NoSession /\ SameCycle(rt', rt) /\ SameFlags(rt', rt)
        /\ \/ rt'.wired = {} /\ rt'.watched = {} /\ ~rt'.watchdog
           \/ /\ rt.device = NoSession /\ ~rt.driver
              /\ rt'.wired = rt.wired /\ rt'.watched = rt.watched
              /\ rt'.watchdog = rt.watchdog
    BY ONLY <1>10, <2>1
  <2>12. hist'.late = hist.late /\ hist'.stale = hist.stale
    BY ONLY <1>11, <1>12
  <2>13. hist' = h
    BY ONLY <1>12
  <2>9. ~hist'.crossed => /\ ~hist.crossed /\ fin = "idle"
                          /\ \A a \in Attempts : att[a] = IdleAttempt
                          /\ \A b \in Connects : conn[b].pc = "idle"
    BY ONLY <1>11, <2>13
  <2>10. conn'[c].pc = "preparing" /\ conn'[c].session = NoSession
    BY ONLY <1>6, <2>2
  <2>11. InGate(gate', Asks("disconnect", "connect", c))
    BY ONLY <1>5, <2>3
  <2> QED BY ONLY <1>0, <2>3, <2>4, <2>6, <2>7, <2>8, <2>9, <2>10, <2>11, <2>12
<1>13. CASE /\ rt' = Prepared(d) /\ conn' = [conn EXCEPT ![c] = o]
            /\ gate' = Append(gate, y) /\ hist' = AllStale(h)
  <2>1. /\ rt' \in Machine /\ SameLink(rt', d)
        /\ ~rt'.rec /\ rt'.gen = d.gen + 1 /\ rt'.cGen = d.cGen + 1
        /\ ~rt'.explicit /\ rt'.params
        /\ ~rt'.cRec /\ ~rt'.dirty /\ ~rt'.active /\ ~rt'.pend /\ ~rt'.inFlight
        /\ rt'.deferred = d.deferred /\ rt'.ui = "connecting"
    BY ONLY <1>10, <1>13, PreparedFacts
  <2>2. /\ conn' \in [Connects -> Connection] /\ conn'[c] = o
        /\ \A b \in Connects : b # c => conn'[b] = conn[b]
    BY <1>0, <1>6, <1>13
  <2>3. gate' \in Seq(Ask) /\ gate' # <<>> /\ InGate(gate', y)
        /\ (gate # <<>> => Head(gate') = Head(gate))
        /\ \A z : InGate(gate, z) => InGate(gate', z)
    BY ONLY <1>0, <1>5, <1>13, AppendGate
  <2>4. Keeps({}) /\ (Opening => Opening')
    BY <2>3 DEF Keeps, Opening
  <2>5. /\ hist' \in History /\ hist'.late = h.late /\ hist'.crossed = h.crossed
        /\ (\A a \in Attempts : <<"attempt", a>> \in hist'.stale)
        /\ (\A b \in Connects : <<"connect", b>> \in hist'.stale)
    BY ONLY <1>11, <1>13, HistoryTypes
  <2>6. TypeOK'
    BY <1>0, <1>2, <2>1, <2>2, <2>3, <2>5 DEF TypeOK, History
  <2>7. /\ rt'.device = NoSession /\ rt'.alarm = rt.alarm
        /\ rt'.gen = rt.gen + 1 /\ rt'.cGen = rt.cGen + 1
        /\ \/ rt'.wired = {} /\ rt'.watched = {} /\ ~rt'.watchdog
           \/ /\ rt.device = NoSession /\ ~rt.driver
              /\ rt'.wired = rt.wired /\ rt'.watched = rt.watched
              /\ rt'.watchdog = rt.watchdog
    BY ONLY <1>10, <2>1 DEF SameLink, SameCycle
  <2>8. Calls(c)
    BY <1>0, <2>2, <2>6, <2>7 DEF Calls
  <2>9. hist'.late = hist.late
        /\ (~hist'.crossed => /\ ~hist.crossed /\ fin = "idle"
                              /\ \A a \in Attempts : att[a] = IdleAttempt
                              /\ \A b \in Connects : conn[b].pc = "idle")
    BY <1>11, <2>5
  <2>10. conn'[c].pc = "opening" /\ conn'[c].session = NoSession
    BY ONLY <1>6, <2>2
  <2> QED BY ONLY <1>0, <2>1, <2>3, <2>4, <2>5, <2>7, <2>8, <2>9, <2>10
<1> QED BY <1>1, <1>12, <1>13

LEMMA ConnectPreparedFacts ==
  ASSUME TypeOK, Shape, NEW c \in Connects, ConnectPrepared(c)
  PROVE  /\ Calls(c) /\ conn[c].pc = "preparing" /\ ~Opening
         /\ slots' = {} /\ socket' \in {socket, NoSession}
         /\ ((socket # NoSession => socket \in slots) => socket' = NoSession)
         /\ conn'[c].pc = "opening" /\ conn'[c].session = NoSession
         /\ SameLink(rt', rt) /\ gate' # <<>>
         /\ Keeps({Asks("disconnect", "connect", c)})
         /\ hist'.late = hist.late /\ (hist'.crossed <=> hist.crossed)
         /\ (\A a \in Attempts : <<"attempt", a>> \in hist'.stale)
         /\ (\A d \in Connects : <<"connect", d>> \in hist'.stale)
         /\ ~rt'.rec /\ rt'.gen = rt.gen + 1 /\ rt'.cGen = rt.cGen + 1 /\ rt'.ui = "connecting"
         /\ rt'.params /\ ~rt'.explicit /\ ~rt'.cRec /\ ~rt'.active /\ ~rt'.pend /\ ~rt'.inFlight
<1> DEFINE x == Asks("disconnect", "connect", c)
           y == Asks("connect", "connect", c)
           g == Tail(gate)
           o == [conn[c] EXCEPT !.pc = "opening"]
<1>0. /\ rt \in Machine /\ conn \in [Connects -> Connection] /\ hist \in History
      /\ conn[c] \in Connection /\ Macro /\ conn[c].pc = "preparing"
      /\ DriverDisconnects("connect", c)
      /\ rt' = Prepared(rt) /\ conn' = [conn EXCEPT ![c] = o]
      /\ gate' = Append(g, y) /\ hist' = AllStale(hist)
      /\ UNCHANGED <<att, lost, fin, power, budget>>
      /\ conn[c].session = NoSession
  BY DEF TypeOK, ConnectPrepared, Supersedes, History, Shape, ConnShape
<1>1. /\ slots' = {} /\ socket' \in {socket, NoSession}
      /\ ((socket # NoSession => socket \in slots) => socket' = NoSession)
      /\ gate # <<>> /\ g \in Seq(Ask) /\ ~Opening
      /\ \A z : InGate(gate, z) /\ z # x => InGate(g, z)
  BY <1>0, DisconnectsTypes
<1>2. y \in Ask
  BY AskType
<1>3. o \in Connection /\ o.pc = "opening" /\ o.session = NoSession
  BY <1>0 DEF Connection
<1>4. x = Asks("disconnect", "connect", c)
  OBVIOUS
<1> HIDE DEF x, y, g, o
<1>5. gate' \in Seq(Ask) /\ gate' # <<>> /\ \A z : InGate(g, z) => InGate(gate', z)
  BY ONLY <1>0, <1>1, <1>2, AppendGate
<1>6. /\ rt' \in Machine /\ SameLink(rt', rt)
      /\ ~rt'.rec /\ rt'.gen = rt.gen + 1 /\ rt'.cGen = rt.cGen + 1
      /\ ~rt'.explicit /\ rt'.params
      /\ ~rt'.cRec /\ ~rt'.dirty /\ ~rt'.active /\ ~rt'.pend /\ ~rt'.inFlight
      /\ rt'.deferred = rt.deferred /\ rt'.ui = "connecting"
  BY ONLY <1>0, PreparedFacts
<1>7. /\ conn' \in [Connects -> Connection] /\ conn'[c] = o
      /\ \A b \in Connects : b # c => conn'[b] = conn[b]
  BY <1>0, <1>3
<1>8. /\ hist' \in History /\ hist'.late = hist.late /\ hist'.crossed = hist.crossed
      /\ (\A a \in Attempts : <<"attempt", a>> \in hist'.stale)
      /\ (\A b \in Connects : <<"connect", b>> \in hist'.stale)
  BY ONLY <1>0, HistoryTypes
<1>9. TypeOK'
  BY <1>0, <1>1, <1>5, <1>6, <1>7, <1>8 DEF TypeOK, History
<1>10. Keeps({x})
  BY <1>1, <1>5 DEF Keeps
<1>11. rt'.alarm = rt.alarm
  BY <1>6 DEF SameLink
<1>12. Calls(c)
  BY <1>0, <1>7, <1>9, <1>11 DEF Calls
<1> QED BY ONLY <1>0, <1>1, <1>3, <1>4, <1>5, <1>6, <1>7, <1>8, <1>10, <1>12

LEMMA ConnectOpenFailsFacts ==
  ASSUME TypeOK, Shape, NEW c \in Connects, ConnectOpenFails(c)
  PROVE  /\ Calls(c) /\ GivenUp(c) /\ conn[c].pc = "opening" /\ Opening
         /\ slots' = slots /\ socket' = NoSession /\ hist' = hist
         /\ Keeps({})
<1> DEFINE g == Tail(gate)
<1>0. /\ rt \in Machine /\ conn \in [Connects -> Connection] /\ hist' = hist
      /\ Macro /\ conn[c].pc = "opening" /\ DriverConnects("connect", c, NoSession)
      /\ ConnectFailure(c, rt, g)
      /\ UNCHANGED <<att, lost, fin, power, budget>>
  BY DEF TypeOK, ConnectOpenFails
<1>1. /\ slots' = slots \cup ({NoSession} \ {NoSession}) /\ slots' \subseteq Sessions
      /\ socket' = NoSession /\ Opening /\ g \in Seq(Ask)
      /\ \A y : InGate(gate, y) /\ y.op = "disconnect" => InGate(g, y)
  BY <1>0, ConnectsTypes
<1>2. slots' = slots
  BY <1>1
<1> HIDE DEF g
<1>3. /\ rt' \in Machine /\ gate' \in Seq(Ask) /\ conn' \in [Connects -> Connection]
      /\ SameFlags(rt', rt)
      /\ ~rt'.rec /\ rt'.gen = rt.gen + 1 /\ rt'.cGen = rt.cGen
      /\ rt'.explicit = rt.explicit /\ rt'.params = rt.params
      /\ rt'.device = NoSession /\ rt'.wired = {} /\ rt'.watched = {}
      /\ rt'.alarm = rt.alarm /\ ~rt'.watchdog
      /\ (\A y : InGate(g, y) => InGate(gate', y))
      /\ (\A d \in Connects : d # c => conn'[d] = conn[d])
      /\ \/ /\ conn'[c].pc = "failing" /\ conn'[c].session = conn[c].session
            /\ gate' # <<>> /\ rt'.ui = rt.ui
            /\ InGate(gate', Asks("disconnect", "connect", c))
         \/ conn'[c] = IdleConnect /\ rt'.ui = "disconnected"
  BY ONLY <1>0, <1>1, TypeOK, c \in Connects, ConnectFailureFacts
<1>4. TypeOK'
  BY <1>0, <1>1, <1>3 DEF TypeOK
<1>5. Calls(c) /\ GivenUp(c) /\ Keeps({})
  BY <1>0, <1>1, <1>3, <1>4 DEF Calls, GivenUp, Keeps
<1> QED BY <1>0, <1>1, <1>2, <1>5

LEMMA ConnectOpensFacts ==
  ASSUME TypeOK, Shape, NEW c \in Connects, ConnectOpens(c), NEW s, s = NewSession
  PROVE  /\ Calls(c) /\ conn[c].pc = "opening" /\ Opening /\ Keeps({})
         /\ s \in Sessions /\ s # NoSession /\ s \notin Held
         /\ slots' = slots \cup {s} /\ socket' = s
         /\ SameCycle(rt', rt) /\ SameFlags(rt', rt)
         /\ rt'.ui = rt.ui /\ rt'.watchdog = rt.watchdog /\ rt'.device = s
         /\ rt'.wired = rt.wired \cup {s} /\ rt'.watched = rt.watched \cup {s}
         /\ conn'[c].pc = "attaching" /\ conn'[c].session = s /\ conn'[c].gen = rt.gen
         /\ hist'.late = hist.late /\ (hist'.crossed <=> hist.crossed)
         /\ hist'.stale = hist.stale \ {<<"connect", c>>}
<1> DEFINE r == [rt EXCEPT !.driver = TRUE, !.pendingId = TRUE]
           m == [conn[c] EXCEPT !.pc = "attaching", !.gen = rt.gen, !.session = s]
<1>0. /\ rt \in Machine /\ conn \in [Connects -> Connection] /\ hist \in History
      /\ gate \in Seq(Ask)
      /\ conn[c] \in Connection /\ rt.gen \in Nat
      /\ Macro /\ conn[c].pc = "opening" /\ Sessions \ Held # {}
      /\ DriverConnects("connect", c, s) /\ rt' = Wire(r, s) /\ gate' = Tail(gate)
      /\ conn' = [conn EXCEPT ![c] = m] /\ Starts("connect", c)
      /\ UNCHANGED <<att, lost, fin, power, budget>>
  BY DEF TypeOK, ConnectOpens, History, Machine
<1>1. s \in Sessions /\ s # NoSession /\ s \notin Held
  BY <1>0, NewSessionIsNew
<1>2. /\ slots' = slots \cup ({s} \ {NoSession}) /\ slots' \subseteq Sessions
      /\ socket' = s /\ Opening /\ gate' \in Seq(Ask)
      /\ \A y : InGate(gate, y) /\ y.op = "disconnect" => InGate(gate', y)
  BY <1>0, <1>1, ConnectsTypes
<1>3. slots' = slots \cup {s}
  BY <1>1, <1>2
<1>4. /\ r \in Machine /\ SameCycle(r, rt) /\ SameFlags(r, rt) /\ r.ui = rt.ui
      /\ r.device = rt.device /\ r.wired = rt.wired /\ r.watched = rt.watched
      /\ r.alarm = rt.alarm /\ r.watchdog = rt.watchdog
  BY <1>0 DEF Machine, SameCycle, SameFlags
<1>5. m \in Connection /\ m.pc = "attaching" /\ m.session = s /\ m.gen = rt.gen
  BY <1>0, <1>1 DEF Connection
<1> HIDE DEF r, m
<1>6. /\ rt' \in Machine /\ SameCycle(rt', r) /\ SameFlags(rt', r) /\ rt'.ui = r.ui
      /\ rt'.device = s /\ rt'.wired = r.wired \cup {s} /\ rt'.watched = r.watched \cup {s}
      /\ rt'.alarm = r.alarm /\ rt'.watchdog = r.watchdog
  BY ONLY <1>0, <1>1, <1>4, WireFacts
<1>7. /\ SameCycle(rt', rt) /\ SameFlags(rt', rt) /\ rt'.ui = rt.ui
      /\ rt'.device = s /\ rt'.wired = rt.wired \cup {s} /\ rt'.watched = rt.watched \cup {s}
      /\ rt'.alarm = rt.alarm /\ rt'.watchdog = rt.watchdog
  BY ONLY <1>4, <1>6 DEF SameCycle, SameFlags
<1>8. /\ conn' \in [Connects -> Connection] /\ conn'[c] = m
      /\ \A b \in Connects : b # c => conn'[b] = conn[b]
  BY <1>0, <1>5
<1>9. /\ hist' \in History /\ hist'.late = hist.late /\ hist'.crossed = hist.crossed
      /\ hist'.stale = hist.stale \ {<<"connect", c>>}
  BY ONLY <1>0, StartsTypes
<1>10. TypeOK'
  BY <1>0, <1>1, <1>2, <1>6, <1>8, <1>9 DEF TypeOK, History
<1>11. Calls(c) /\ Keeps({})
  BY <1>0, <1>2, <1>7, <1>8, <1>10 DEF Calls, Keeps
<1> QED BY ONLY <1>0, <1>1, <1>2, <1>3, <1>5, <1>7, <1>8, <1>9, <1>11

LEMMA ConnectConfigureFailsFacts ==
  ASSUME TypeOK, Shape, NEW c \in Connects, ConnectConfigureFails(c)
  PROVE  /\ Calls(c) /\ GivenUp(c) /\ conn[c].pc = "attaching"
         /\ UNCHANGED <<slots, socket, hist>>
         /\ (Opening => Opening') /\ (gate # <<>> => gate' # <<>>) /\ Keeps({})
<1>0. /\ rt \in Machine /\ conn \in [Connects -> Connection] /\ gate \in Seq(Ask)
      /\ Macro /\ conn[c].pc = "attaching"
      /\ ConnectFailure(c, rt, gate)
      /\ UNCHANGED <<slots, socket, att, lost, fin, power, budget, hist>>
  BY DEF TypeOK, ConnectConfigureFails
<1>3. /\ rt' \in Machine /\ gate' \in Seq(Ask) /\ conn' \in [Connects -> Connection]
      /\ SameFlags(rt', rt)
      /\ ~rt'.rec /\ rt'.gen = rt.gen + 1 /\ rt'.cGen = rt.cGen
      /\ rt'.explicit = rt.explicit /\ rt'.params = rt.params
      /\ rt'.device = NoSession /\ rt'.wired = {} /\ rt'.watched = {}
      /\ rt'.alarm = rt.alarm /\ ~rt'.watchdog
      /\ (\A y : InGate(gate, y) => InGate(gate', y))
      /\ (gate # <<>> => gate' # <<>> /\ Head(gate') = Head(gate))
      /\ (\A d \in Connects : d # c => conn'[d] = conn[d])
      /\ \/ /\ conn'[c].pc = "failing" /\ conn'[c].session = conn[c].session
            /\ gate' # <<>> /\ rt'.ui = rt.ui
            /\ InGate(gate', Asks("disconnect", "connect", c))
         \/ conn'[c] = IdleConnect /\ rt'.ui = "disconnected"
  BY ONLY <1>0, TypeOK, c \in Connects, ConnectFailureFacts
<1>4. TypeOK'
  BY <1>0, <1>3 DEF TypeOK
<1>5. Calls(c) /\ GivenUp(c) /\ Keeps({})
  BY <1>0, <1>3, <1>4 DEF Calls, GivenUp, Keeps
<1>6. Opening => Opening'
  BY <1>3 DEF Opening
<1> QED BY <1>0, <1>3, <1>5, <1>6

LEMMA ConnectConfiguredFacts ==
  ASSUME TypeOK, Shape, NEW c \in Connects, ConnectConfigured(c)
  PROVE  /\ Calls(c) /\ conn[c].pc = "attaching" /\ Noticed
         /\ UNCHANGED <<slots, socket>> /\ socket = conn[c].session /\ ~Opening
         /\ conn[c].session # NoSession
         /\ (gate # <<>> => gate' # <<>>) /\ Keeps({})
         /\ hist'.stale = hist.stale /\ (hist.crossed => hist'.crossed)
         /\ \/ /\ rt.gen # conn[c].gen /\ GivenUp(c)
               /\ hist'.late = hist.late /\ (fin # "idle" => hist'.crossed)
            \/ /\ rt.gen = conn[c].gen /\ conn'[c] = IdleConnect /\ gate' = gate
               /\ SameCycle(rt', rt) /\ SameFlags(rt', rt) /\ rt'.device = rt.device
               /\ rt'.wired = rt.wired /\ rt'.watched = rt.watched
               /\ (socket \in rt.wired => rt'.watchdog /\ rt'.ui = "connected")
               /\ (socket \notin rt.wired => rt' = rt)
               /\ (hist'.crossed <=> hist.crossed)
               /\ (<<"connect", c>> \notin hist.stale => hist'.late = hist.late)
<1> DEFINE r == Configured(rt, socket)
<1>0. /\ rt \in Machine /\ conn \in [Connects -> Connection] /\ gate \in Seq(Ask)
      /\ hist \in History
      /\ Macro /\ conn[c].pc = "attaching" /\ Noticed /\ LiveSocket = conn[c].session
      /\ IF rt.gen # conn[c].gen
         THEN /\ ConnectFailure(c, r, gate)
              /\ hist' = IF fin # "idle" THEN Crossed(hist) ELSE hist
         ELSE /\ rt' = r
              /\ conn' = [conn EXCEPT ![c] = IdleConnect]
              /\ Succeeds("connect", c)
              /\ UNCHANGED gate
      /\ UNCHANGED <<slots, socket, att, lost, fin, power, budget>>
      /\ conn[c].session # NoSession
  BY DEF TypeOK, ConnectConfigured, History, Shape, ConnShape
<1>1. socket = conn[c].session /\ ~Opening
  BY <1>0 DEF LiveSocket
<1>2. r = Configured(rt, socket)
  OBVIOUS
<1> HIDE DEF r
<1>3. /\ r \in Machine /\ SameCycle(r, rt) /\ SameFlags(r, rt)
      /\ r.device = rt.device /\ r.wired = rt.wired /\ r.watched = rt.watched
      /\ r.alarm = rt.alarm
      /\ (socket \in rt.wired => r.watchdog /\ r.ui = "connected")
      /\ (socket \notin rt.wired => r = rt)
  BY ONLY <1>0, <1>2, ConfiguredFacts
<1>4. CASE rt.gen # conn[c].gen
  <2>1. ConnectFailure(c, r, gate)
    BY <1>0, <1>4
  <2>2. /\ hist' \in History /\ hist'.late = hist.late /\ hist'.stale = hist.stale
        /\ (hist.crossed => hist'.crossed) /\ (fin # "idle" => hist'.crossed)
    <3>1. CASE fin # "idle"
      <4>1. Crossed(hist).crossed = TRUE
        BY <1>0, <3>1 DEF Crossed, History
      <4> QED BY <1>0, <1>4, <3>1, <4>1, HistoryTypes
    <3> QED BY <1>0, <1>4, <3>1
  <2>3. /\ rt' \in Machine /\ gate' \in Seq(Ask) /\ conn' \in [Connects -> Connection]
        /\ SameFlags(rt', r)
        /\ ~rt'.rec /\ rt'.gen = r.gen + 1 /\ rt'.cGen = r.cGen
        /\ rt'.explicit = r.explicit /\ rt'.params = r.params
        /\ rt'.device = NoSession /\ rt'.wired = {} /\ rt'.watched = {}
        /\ rt'.alarm = r.alarm /\ ~rt'.watchdog
        /\ (\A y : InGate(gate, y) => InGate(gate', y))
        /\ (gate # <<>> => gate' # <<>> /\ Head(gate') = Head(gate))
        /\ (\A d \in Connects : d # c => conn'[d] = conn[d])
        /\ \/ /\ conn'[c].pc = "failing" /\ conn'[c].session = conn[c].session
              /\ gate' # <<>> /\ rt'.ui = r.ui
              /\ InGate(gate', Asks("disconnect", "connect", c))
           \/ conn'[c] = IdleConnect /\ rt'.ui = "disconnected"
    BY ONLY <1>0, <1>3, <2>1, TypeOK, c \in Connects, ConnectFailureFacts
  <2>4. TypeOK'
    BY <1>0, <2>2, <2>3 DEF TypeOK, History
  <2>5. Calls(c) /\ Keeps({})
    BY <1>0, <1>3, <2>3, <2>4 DEF Calls, Keeps
  <2>6. r.ui \in {rt.ui, "connected"}
    BY <1>3
  <2>7. /\ SameFlags(rt', rt) /\ rt'.gen = rt.gen + 1 /\ rt'.cGen = rt.cGen
        /\ rt'.explicit = rt.explicit /\ rt'.params = rt.params
    BY ONLY <1>3, <2>3 DEF SameFlags, SameCycle
  <2>8. GivenUp(c)
    BY <2>3, <2>6, <2>7 DEF GivenUp
  <2> QED BY <1>0, <1>1, <1>4, <2>2, <2>3, <2>5, <2>8
<1>5. CASE rt.gen = conn[c].gen
  <2>1. rt' = r /\ conn' = [conn EXCEPT ![c] = IdleConnect] /\ Succeeds("connect", c)
        /\ gate' = gate
    BY <1>0, <1>5
  <2>2. <<"connect", c>> \in Parties
    BY DEF Parties
  <2>3. /\ hist' \in History /\ hist'.stale = hist.stale /\ hist'.crossed = hist.crossed
        /\ (<<"connect", c>> \notin hist.stale => hist'.late = hist.late)
    BY ONLY <1>0, <2>1, <2>2, SucceedsTypes
  <2>4. /\ conn' \in [Connects -> Connection] /\ conn'[c] = IdleConnect
        /\ \A b \in Connects : b # c => conn'[b] = conn[b]
    BY <1>0, <2>1, IdleTypes
  <2>5. TypeOK'
    BY <1>0, <1>3, <2>1, <2>3, <2>4 DEF TypeOK, History
  <2>6. Calls(c) /\ Keeps({})
    BY <1>0, <1>3, <2>1, <2>4, <2>5 DEF Calls, Keeps
  <2> QED BY <1>0, <1>1, <1>3, <1>5, <2>1, <2>3, <2>4, <2>6
<1> QED BY <1>4, <1>5

LEMMA ConnectFailedFacts ==
  ASSUME TypeOK, Shape, NEW c \in Connects, ConnectFailed(c)
  PROVE  /\ Calls(c) /\ conn[c].pc = "failing" /\ ~Opening /\ hist' = hist
         /\ slots' = {} /\ socket' \in {socket, NoSession}
         /\ ((socket # NoSession => socket \in slots) => socket' = NoSession)
         /\ Keeps({Asks("disconnect", "connect", c)})
         /\ conn'[c] = IdleConnect
         /\ SameCycle(rt', rt) /\ SameFlags(rt', rt) /\ rt'.ui = "disconnected"
         /\ rt'.device = rt.device /\ rt'.wired = rt.wired /\ rt'.watched = rt.watched
         /\ rt'.watchdog = rt.watchdog
<1> DEFINE x == Asks("disconnect", "connect", c)
<1>0. /\ rt \in Machine /\ conn \in [Connects -> Connection]
      /\ Macro /\ conn[c].pc = "failing"
      /\ DriverDisconnects("connect", c)
      /\ rt' = FailureEnds(rt) /\ gate' = Tail(gate)
      /\ conn' = [conn EXCEPT ![c] = IdleConnect]
      /\ UNCHANGED <<att, lost, fin, power, budget, hist>>
  BY DEF TypeOK, ConnectFailed
<1>1. /\ slots' = {} /\ socket' \in {socket, NoSession}
      /\ ((socket # NoSession => socket \in slots) => socket' = NoSession)
      /\ gate' \in Seq(Ask) /\ ~Opening
      /\ \A z : InGate(gate, z) /\ z # x => InGate(gate', z)
  BY <1>0, DisconnectsTypes
<1> HIDE DEF x
<1>2. /\ rt' \in Machine /\ SameCycle(rt', rt) /\ SameFlags(rt', rt)
      /\ rt'.device = rt.device /\ rt'.wired = rt.wired /\ rt'.watched = rt.watched
      /\ rt'.alarm = rt.alarm /\ rt'.watchdog = rt.watchdog
      /\ rt'.ui = "disconnected"
  BY ONLY <1>0, FailureEndsFacts
<1>3. /\ conn' \in [Connects -> Connection] /\ conn'[c] = IdleConnect
      /\ \A b \in Connects : b # c => conn'[b] = conn[b]
  BY <1>0, IdleTypes
<1>4. TypeOK'
  BY <1>0, <1>1, <1>2, <1>3 DEF TypeOK
<1>5. Calls(c) /\ Keeps({x})
  BY <1>0, <1>1, <1>2, <1>3, <1>4 DEF Calls, Keeps
<1> QED BY <1>0, <1>1, <1>2, <1>3, <1>5 DEF x

-----------------------------------------------------------------------------
(* What the three callers of handleConnectionLost have in common. *)
Losing ==
  /\ TypeOK' /\ Shape' /\ UNCHANGED <<slots, att, conn, fin>>
  /\ rt'.inFlight = rt.inFlight /\ rt'.active = rt.active /\ rt'.ui = rt.ui
  /\ rt'.explicit = rt.explicit
  /\ hist'.late = hist.late /\ (hist'.crossed <=> hist.crossed)
  /\ socket' \in {socket, NoSession}
  /\ (Opening => Opening') /\ (gate # <<>> => gate' # <<>>)

LinkLost ==
  /\ ~rt.explicit
  /\ rt'.rec /\ rt'.cRec /\ rt'.gen = rt.cGen + 1 /\ rt'.cGen = rt.cGen + 1
  /\ rt'.device = NoSession /\ ~rt'.watchdog
  /\ rt'.wired \subseteq rt.wired /\ rt'.watched \subseteq rt.watched
  /\ (rt'.deferred <=> rt.deferred \/ rt.cRec)
  /\ hist' = AllStale(hist)
  /\ (rt.device # NoSession => socket' = NoSession)
  /\ \/ /\ lost' = lost /\ gate' = gate /\ socket' = socket
        /\ rt.device = NoSession /\ rt'.wired = {} /\ rt'.watched = {}
        /\ (rt'.pend <=> rt.pend \/ ~rt.cRec)
     \/ /\ rt'.pend = rt.pend
        /\ Teardown(rt)

LEMMA LosingFacts ==
  ASSUME TypeOK, Shape, NEW r \in Machine, LoseLink(r),
         UNCHANGED <<slots, att, conn, fin>>,
         power' \in [asleep : BOOLEAN, due : BOOLEAN], budget' \in 0..MaxEvents,
         r.cGen = rt.cGen, r.cRec <=> rt.cRec, r.wired = rt.wired, r.watched = rt.watched,
         r.deferred <=> rt.deferred, r.device = rt.device, r.pend <=> rt.pend,
         r.explicit <=> rt.explicit, r.inFlight <=> rt.inFlight, r.active <=> rt.active,
         r.ui = rt.ui
  PROVE  /\ Losing
         /\ rt'.alarm = r.alarm /\ rt'.params = r.params
         /\ \/ /\ rt.explicit
               /\ rt' = r /\ gate' = gate /\ socket' = socket /\ lost' = lost /\ hist' = hist
            \/ LinkLost
<1>0. rt \in Machine
  BY DEF TypeOK
<1>1. /\ rt' \in Machine /\ gate' \in Seq(Ask) /\ socket' \in {socket, NoSession}
      /\ lost' \in [Losses -> Loss] /\ hist' \in History
      /\ rt'.alarm = r.alarm /\ rt'.explicit = r.explicit /\ rt'.params = r.params
      /\ rt'.inFlight = r.inFlight /\ rt'.active = r.active /\ rt'.ui = r.ui
      /\ hist'.late = hist.late /\ hist'.crossed = hist.crossed
      /\ (Opening => Opening')
      /\ (gate # <<>> => gate' # <<>>)
      /\ (\A y \in Ask : y.op = "disconnect" /\ InGate(gate, y) => InGate(gate', y))
      /\ \/ /\ r.explicit
            /\ rt' = r /\ gate' = gate /\ socket' = socket /\ lost' = lost /\ hist' = hist
         \/ /\ ~r.explicit
            /\ rt'.rec /\ rt'.cRec /\ rt'.gen = r.cGen + 1 /\ rt'.cGen = r.cGen + 1
            /\ rt'.device = NoSession /\ ~rt'.watchdog
            /\ rt'.wired \subseteq r.wired /\ rt'.watched \subseteq r.watched
            /\ (rt'.deferred <=> r.deferred \/ r.cRec)
            /\ hist' = AllStale(hist)
            /\ (r.device # NoSession => socket' = NoSession)
            /\ \/ /\ lost' = lost /\ gate' = gate /\ socket' = socket
                  /\ r.device = NoSession /\ rt'.wired = {} /\ rt'.watched = {}
                  /\ (rt'.pend <=> r.pend \/ ~r.cRec)
               \/ /\ rt'.pend = r.pend
                  /\ Teardown(r)
  BY ONLY TypeOK, r \in Machine, LoseLink(r), LoseLinkFacts
<1>2. TypeOK'
  BY <1>1 DEF TypeOK, History
<1>3. Keeps({})
  BY <1>1 DEF Keeps
<1>4. \A l \in Losses : lost'[l] = lost[l] \/ LostShape(lost'[l], gate', l)
  <2>1. lost' = lost \/ Teardown(r)
    BY <1>1
  <2> QED BY ONLY <2>1 DEF Teardown, LostShape
<1>5. att' = att /\ conn' = conn
  OBVIOUS
<1>6. Shape'
  BY ONLY <1>3, <1>4, <1>5, Shape, ShapeStep
<1>7. Teardown(r) => Teardown(rt)
  BY DEF Teardown
<1>8. (rt'.inFlight <=> rt.inFlight) /\ (rt'.active <=> rt.active)
      /\ (rt'.explicit <=> rt.explicit) /\ (rt'.pend = r.pend => (rt'.pend <=> rt.pend))
  BY <1>1
<1>9. /\ rt'.inFlight = rt.inFlight /\ rt'.active = rt.active
      /\ rt'.explicit = rt.explicit /\ (rt'.pend = r.pend => rt'.pend = rt.pend)
  BY <1>0, <1>1, <1>8 DEF Machine
<1>10. Losing
  BY <1>1, <1>2, <1>6, <1>9 DEF Losing
<1>11. CASE ~r.explicit
  <2>1. LinkLost
    BY <1>1, <1>7, <1>9, <1>11 DEF LinkLost
  <2> QED BY <1>1, <1>10, <2>1
<1>12. CASE r.explicit
  BY <1>1, <1>10, <1>12
<1> QED BY <1>11, <1>12

LEMMA NotifiedFacts ==
  ASSUME TypeOK, Shape, Notified
  PROVE  /\ Losing /\ UNCHANGED <<power, budget>> /\ ~rt.pend /\ rt.alarm # {}
         /\ rt'.alarm \subseteq rt.alarm /\ rt'.params = rt.params
         /\ \/ /\ rt.explicit /\ SameCycle(rt', rt) /\ SameFlags(rt', rt)
               /\ rt'.device = rt.device /\ rt'.watchdog = rt.watchdog
               /\ rt'.wired = rt.wired /\ rt'.watched = rt.watched
               /\ gate' = gate /\ socket' = socket /\ lost' = lost /\ hist' = hist
            \/ LinkLost
<1>0. PICK s \in rt.alarm : LoseLink([rt EXCEPT !.alarm = @ \ {s}])
  BY DEF Notified
<1> DEFINE x == rt.alarm \ {s}
           r == [rt EXCEPT !.alarm = x]
<1>1. /\ rt \in Machine /\ LoseLink(r) /\ UNCHANGED <<slots, att, conn, fin, power, budget>>
      /\ power' \in [asleep : BOOLEAN, due : BOOLEAN] /\ budget' \in 0..MaxEvents
      /\ ~rt.pend /\ rt.alarm # {}
  BY <1>0 DEF TypeOK, Notified
<1>2. x \in SUBSET Sessions /\ x \subseteq rt.alarm
  BY <1>1 DEF Machine
<1>20. r = [rt EXCEPT !.alarm = x]
  OBVIOUS
<1> HIDE DEF x, r
<1>3. r \in Machine /\ r.alarm = x /\ SameCycle(r, rt) /\ SameFlags(r, rt)
      /\ r.device = rt.device /\ r.watchdog = rt.watchdog
      /\ r.wired = rt.wired /\ r.watched = rt.watched /\ r.ui = rt.ui
  BY <1>1, <1>2, <1>20 DEF Machine, SameCycle, SameFlags
<1>4. /\ r.cGen = rt.cGen /\ (r.cRec <=> rt.cRec) /\ (r.deferred <=> rt.deferred)
      /\ (r.pend <=> rt.pend) /\ (r.explicit <=> rt.explicit)
      /\ (r.inFlight <=> rt.inFlight) /\ (r.active <=> rt.active) /\ r.params = rt.params
  BY <1>3 DEF SameCycle, SameFlags
<1>5. /\ Losing
      /\ rt'.alarm = r.alarm /\ rt'.params = r.params
      /\ \/ /\ rt.explicit
            /\ rt' = r /\ gate' = gate /\ socket' = socket /\ lost' = lost /\ hist' = hist
         \/ LinkLost
  BY ONLY <1>1, <1>3, <1>4, TypeOK, Shape, LosingFacts
<1> QED BY <1>1, <1>2, <1>3, <1>4, <1>5

LEMMA WatchdogFiresFacts ==
  ASSUME TypeOK, Shape, WatchdogFires
  PROVE  /\ Losing /\ UNCHANGED power /\ Macro /\ Prompt /\ Noticed /\ rt.watchdog /\ ~rt.rec
         /\ rt'.alarm = rt.alarm /\ rt'.params = rt.params
         /\ \/ /\ rt.explicit
               /\ rt' = rt /\ gate' = gate /\ socket' = socket /\ lost' = lost /\ hist' = hist
            \/ LinkLost
<1>1. /\ rt \in Machine /\ LoseLink(rt) /\ UNCHANGED <<slots, att, conn, fin, power>>
      /\ power' \in [asleep : BOOLEAN, due : BOOLEAN]
      /\ Macro /\ Prompt /\ Noticed /\ rt.watchdog /\ ~rt.rec
  BY DEF TypeOK, WatchdogFires
<1>2. budget' \in 0..MaxEvents
  BY SpendType DEF WatchdogFires, TypeOK
<1>5. /\ Losing
      /\ rt'.alarm = rt.alarm /\ rt'.params = rt.params
      /\ \/ /\ rt.explicit
            /\ rt' = rt /\ gate' = gate /\ socket' = socket /\ lost' = lost /\ hist' = hist
         \/ LinkLost
  BY <1>1, <1>2, LosingFacts
<1> QED BY <1>1, <1>5

LEMMA ResumeDueFacts ==
  ASSUME TypeOK, Shape, ResumeDue
  PROVE  /\ Losing /\ UNCHANGED budget /\ Macro /\ Prompt /\ Noticed /\ power.due
         /\ ~power'.due /\ power'.asleep = power.asleep
         /\ rt'.alarm = rt.alarm
         /\ \/ /\ ~rt.params /\ rt' = rt
               /\ gate' = gate /\ socket' = socket /\ lost' = lost /\ hist' = hist
            \/ /\ rt.explicit /\ rt.params /\ rt'.params
               /\ SameFlags(rt', rt) /\ SameLink(rt', rt)
               /\ ~rt'.rec /\ rt'.gen = rt.gen + 1 /\ rt'.cGen = rt.cGen
               /\ gate' = gate /\ socket' = socket /\ lost' = lost /\ hist' = hist
            \/ LinkLost /\ rt'.params
<1> DEFINE g == rt.gen + 1
           r == [rt EXCEPT !.params = TRUE, !.tries = 0, !.gen = g, !.rec = FALSE]
<1>1. /\ rt \in Machine /\ UNCHANGED <<slots, att, conn, fin, budget>>
      /\ Macro /\ Prompt /\ Noticed /\ power.due
      /\ power' = [power EXCEPT !.due = FALSE]
      /\ budget' \in 0..MaxEvents
      /\ \/ (rt.params \/ ~rt.explicit) /\ LoseLink(r)
         \/ ~rt.params /\ UNCHANGED <<rt, gate, socket, lost, hist>>
  BY DEF TypeOK, ResumeDue
<1>2. /\ power' \in [asleep : BOOLEAN, due : BOOLEAN] /\ ~power'.due
      /\ power'.asleep = power.asleep
  BY <1>1 DEF TypeOK
<1>3. 0 \in 0..MaxTries /\ g \in Nat /\ rt.gen \in Nat
  BY <1>1, RfAssumption DEF Machine
<1>4. g = rt.gen + 1 /\ r = [rt EXCEPT !.params = TRUE, !.tries = 0, !.gen = g, !.rec = FALSE]
  OBVIOUS
<1> HIDE DEF g, r
<1>5. r \in Machine
  BY <1>1, <1>3, <1>4, ZenonT(120) DEF Machine
<1>6. /\ SameFlags(r, rt) /\ SameLink(r, rt)
      /\ ~r.rec /\ r.gen = g /\ r.cGen = rt.cGen /\ r.explicit = rt.explicit
      /\ r.params /\ r.ui = rt.ui
  BY <1>1, <1>4 DEF Machine, SameFlags, SameLink
<1>7. CASE (rt.params \/ ~rt.explicit) /\ LoseLink(r)
  <2>1. /\ r.cGen = rt.cGen /\ (r.cRec <=> rt.cRec) /\ (r.deferred <=> rt.deferred)
        /\ (r.pend <=> rt.pend) /\ (r.explicit <=> rt.explicit)
        /\ (r.inFlight <=> rt.inFlight) /\ (r.active <=> rt.active) /\ r.ui = rt.ui
        /\ r.device = rt.device /\ r.wired = rt.wired /\ r.watched = rt.watched
        /\ r.alarm = rt.alarm
    BY <1>6 DEF SameLink, SameFlags
  <2>2. /\ Losing
        /\ rt'.alarm = r.alarm /\ rt'.params = r.params
        /\ \/ /\ rt.explicit
              /\ rt' = r /\ gate' = gate /\ socket' = socket /\ lost' = lost /\ hist' = hist
           \/ LinkLost
    BY ONLY <1>1, <1>2, <1>5, <1>7, <2>1, TypeOK, Shape, LosingFacts
  <2> QED BY <1>1, <1>2, <1>4, <1>6, <1>7, <2>1, <2>2, ZenonT(120)
<1>8. CASE ~rt.params /\ UNCHANGED <<rt, gate, socket, lost, hist>>
  <2>1. TypeOK'
    BY <1>1, <1>2, <1>8 DEF TypeOK
  <2>2. Keeps({}) /\ (Opening => Opening')
    BY <1>8 DEF Keeps, Opening
  <2>3. att' = att /\ conn' = conn /\ lost' = lost
    BY <1>1, <1>8
  <2>4. Shape'
    BY ONLY <2>2, <2>3, Shape, ShapeStep
  <2>5. Losing
    BY <1>1, <1>8, <2>1, <2>2, <2>4 DEF Losing
  <2> QED BY <1>1, <1>2, <1>8, <2>5
<1> QED BY <1>1, <1>7, <1>8

-----------------------------------------------------------------------------
(* The end of a teardown, the user's Disconnect, the radio and the computer. *)
Hands(l) ==
  /\ SameCycle(rt', rt) /\ rt'.ui = rt.ui
  /\ rt'.wired = {} /\ rt'.watched = {}
  /\ rt'.device = rt.device /\ rt'.alarm = rt.alarm /\ rt'.watchdog = rt.watchdog
  /\ rt'.cRec = rt.cRec /\ rt'.active = rt.active /\ rt'.inFlight = rt.inFlight
  /\ (rt'.pend <=> rt.pend \/ lost[l].start)
  /\ (rt'.deferred <=> rt.deferred \/ ~lost[l].start)
  /\ lost'[l] = IdleLost

LEMMA LostClosedFacts ==
  ASSUME TypeOK, Shape, NEW l \in Losses, LostClosed(l)
  PROVE  /\ TypeOK' /\ Shape' /\ Macro /\ lost[l].pc = "closing"
         /\ UNCHANGED <<slots, socket, att, conn, fin, power, budget, hist>>
         /\ (\A k \in Losses : k # l => lost'[k] = lost[k])
         /\ (Opening => Opening') /\ (gate # <<>> => gate' # <<>>)
         /\ \/ /\ rt' = rt /\ lost'[l].pc = "dropping" /\ lost'[l].start = lost[l].start
               /\ gate' # <<>>
            \/ gate' = gate /\ Hands(l)
<1> DEFINE m == [lost[l] EXCEPT !.pc = "dropping"]
           x == Asks("disconnect", "lost", l)
           start == lost[l].start
<1>0. /\ rt \in Machine /\ lost \in [Losses -> Loss] /\ lost[l] \in Loss /\ gate \in Seq(Ask)
      /\ Macro /\ lost[l].pc = "closing"
      /\ UNCHANGED <<slots, socket, att, conn, fin, power, budget, hist>>
      /\ \/ lost' = [lost EXCEPT ![l] = m] /\ gate' = Append(gate, x) /\ rt' = rt
         \/ lost' = [lost EXCEPT ![l] = IdleLost] /\ rt' = LostEnds(rt, start) /\ gate' = gate
  BY DEF TypeOK, LostClosed, Enqueue
<1>1. m \in Loss /\ m.pc = "dropping" /\ m.start = lost[l].start /\ start \in BOOLEAN
  BY <1>0 DEF Loss
<1>2. x \in Ask /\ x = Asks("disconnect", "lost", l) /\ start = lost[l].start
  BY AskType
<1> HIDE DEF m, x, start
<1>3. CASE lost' = [lost EXCEPT ![l] = m] /\ gate' = Append(gate, x) /\ rt' = rt
  <2>0. gate \in Seq(Ask) /\ x \in Ask /\ gate' = Append(gate, x)
    BY <1>0, <1>2, <1>3
  <2>1. /\ gate' \in Seq(Ask) /\ gate' # <<>> /\ InGate(gate', x)
        /\ (gate # <<>> => Head(gate') = Head(gate))
        /\ \A y : InGate(gate, y) => InGate(gate', y)
    BY ONLY <2>0, AppendGate
  <2>2. /\ lost' \in [Losses -> Loss] /\ lost'[l] = m
        /\ \A k \in Losses : k # l => lost'[k] = lost[k]
    BY <1>0, <1>1, <1>3
  <2>3. TypeOK'
    BY <1>0, <1>3, <2>1, <2>2 DEF TypeOK
  <2>4. Keeps({}) /\ (Opening => Opening')
    BY <2>1 DEF Keeps, Opening
  <2>5. LostShape(lost'[l], gate', l)
    BY <1>2, <2>1 DEF LostShape
  <2>6. \A k \in Losses : lost'[k] = lost[k] \/ LostShape(lost'[k], gate', k)
    BY ONLY <2>2, <2>5
  <2>7. att' = att /\ conn' = conn
    BY <1>0
  <2>8. Shape'
    BY ONLY <2>4, <2>6, <2>7, Shape, ShapeStep
  <2> QED BY <1>0, <1>1, <1>3, <2>1, <2>2, <2>3, <2>4, <2>8
<1>4. CASE lost' = [lost EXCEPT ![l] = IdleLost] /\ rt' = LostEnds(rt, start) /\ gate' = gate
  <2>1. /\ rt' \in Machine /\ SameCycle(rt', rt) /\ rt'.ui = rt.ui
        /\ rt'.wired = {} /\ rt'.watched = {}
        /\ rt'.device = rt.device /\ rt'.alarm = rt.alarm /\ rt'.watchdog = rt.watchdog
        /\ rt'.cRec = rt.cRec /\ rt'.active = rt.active /\ rt'.inFlight = rt.inFlight
        /\ (rt'.pend <=> rt.pend \/ start)
        /\ (rt'.deferred <=> rt.deferred \/ ~start)
    BY ONLY <1>0, <1>1, <1>4, LostEndsFacts
  <2>2. /\ lost' \in [Losses -> Loss] /\ lost'[l] = IdleLost
        /\ \A k \in Losses : k # l => lost'[k] = lost[k]
    BY <1>0, <1>4, IdleTypes
  <2>3. TypeOK'
    BY <1>0, <1>4, <2>1, <2>2 DEF TypeOK
  <2>4. Keeps({}) /\ (Opening => Opening')
    BY <1>4 DEF Keeps, Opening
  <2>5. LostShape(lost'[l], gate', l)
    BY <2>2, IdleTypes DEF LostShape
  <2>6. \A k \in Losses : lost'[k] = lost[k] \/ LostShape(lost'[k], gate', k)
    BY ONLY <2>2, <2>5
  <2>7. att' = att /\ conn' = conn
    BY <1>0
  <2>8. Shape'
    BY ONLY <2>4, <2>6, <2>7, Shape, ShapeStep
  <2>9. Hands(l)
    BY <1>2, <2>1, <2>2 DEF Hands
  <2> QED BY <1>0, <1>4, <2>2, <2>3, <2>4, <2>8, <2>9
<1> QED BY <1>0, <1>3, <1>4

LEMMA LostDroppedFacts ==
  ASSUME TypeOK, Shape, NEW l \in Losses, LostDropped(l)
  PROVE  /\ TypeOK' /\ Shape' /\ Macro /\ lost[l].pc = "dropping" /\ ~Opening
         /\ UNCHANGED <<att, conn, fin, power, budget, hist>>
         /\ slots' = {} /\ socket' \in {socket, NoSession}
         /\ ((socket # NoSession => socket \in slots) => socket' = NoSession)
         /\ (\A k \in Losses : k # l => lost'[k] = lost[k])
         /\ Hands(l)
<1> DEFINE x == Asks("disconnect", "lost", l)
           start == lost[l].start
<1>0. /\ rt \in Machine /\ lost \in [Losses -> Loss] /\ lost[l] \in Loss
      /\ Macro /\ lost[l].pc = "dropping" /\ DriverDisconnects("lost", l)
      /\ lost' = [lost EXCEPT ![l] = IdleLost] /\ rt' = LostEnds(rt, start)
      /\ gate' = Tail(gate)
      /\ UNCHANGED <<att, conn, fin, power, budget, hist>>
  BY DEF TypeOK, LostDropped
<1>1. start \in BOOLEAN /\ start = lost[l].start /\ x = Asks("disconnect", "lost", l)
  BY <1>0 DEF Loss
<1>2. /\ slots' = {} /\ socket' \in {socket, NoSession}
      /\ ((socket # NoSession => socket \in slots) => socket' = NoSession)
      /\ gate' \in Seq(Ask) /\ ~Opening
      /\ \A z : InGate(gate, z) /\ z # x => InGate(gate', z)
  BY <1>0, DisconnectsTypes
<1> HIDE DEF x, start
<1>3. /\ rt' \in Machine /\ SameCycle(rt', rt) /\ rt'.ui = rt.ui
      /\ rt'.wired = {} /\ rt'.watched = {}
      /\ rt'.device = rt.device /\ rt'.alarm = rt.alarm /\ rt'.watchdog = rt.watchdog
      /\ rt'.cRec = rt.cRec /\ rt'.active = rt.active /\ rt'.inFlight = rt.inFlight
      /\ (rt'.pend <=> rt.pend \/ start)
      /\ (rt'.deferred <=> rt.deferred \/ ~start)
  BY ONLY <1>0, <1>1, LostEndsFacts
<1>4. /\ lost' \in [Losses -> Loss] /\ lost'[l] = IdleLost
      /\ \A k \in Losses : k # l => lost'[k] = lost[k]
  BY <1>0, IdleTypes
<1>5. TypeOK'
  BY <1>0, <1>2, <1>3, <1>4 DEF TypeOK
<1>6. Keeps({x})
  BY <1>2 DEF Keeps
<1>7. /\ \A k \in Losses : \/ lost'[k] = lost[k] /\ Asks("disconnect", "lost", k) \notin {x}
                           \/ LostShape(lost'[k], gate', k)
      /\ \A a \in Attempts : /\ att'[a] = att[a]
                             /\ Asks("disconnect", "work", a) \notin {x}
                             /\ Asks("disconnect", "attempt", a) \notin {x}
      /\ \A c \in Connects : conn'[c] = conn[c] /\ Asks("disconnect", "connect", c) \notin {x}
  BY <1>0, <1>1, <1>4, IdleTypes DEF LostShape, Asks
<1>8. Shape'
  BY ONLY <1>6, <1>7, Shape, ShapeStep
<1>9. Hands(l)
  BY <1>1, <1>3, <1>4 DEF Hands
<1> QED BY <1>0, <1>2, <1>4, <1>5, <1>8, <1>9

LEMMA SocketDropsFacts ==
  ASSUME TypeOK, Shape, SocketDrops
  PROVE  /\ TypeOK' /\ Shape' /\ Macro /\ ~Opening /\ socket' = NoSession
         /\ UNCHANGED <<gate, slots, att, lost, conn, fin, power, hist>>
         /\ SameCycle(rt', rt) /\ SameFlags(rt', rt) /\ rt'.ui = rt.ui
         /\ rt'.device = rt.device /\ rt'.wired = rt.wired /\ rt'.watched = {}
         /\ rt'.alarm = rt.watched /\ rt'.watchdog = rt.watchdog /\ rt'.driver = rt.driver
<1> DEFINE w == rt.watched
<1>1. /\ rt \in Machine /\ rt' = [rt EXCEPT !.alarm = w, !.watched = {}]
      /\ Macro /\ Spend /\ LiveSocket # NoSession /\ socket' = NoSession
      /\ UNCHANGED <<gate, slots, att, lost, conn, fin, power, hist>>
      /\ w \in SUBSET Sessions /\ w = rt.watched
  BY DEF TypeOK, SocketDrops, flows, Machine
<1>2. ~Opening
  BY <1>1 DEF LiveSocket
<1> HIDE DEF w
<1>3. /\ rt' \in Machine /\ SameCycle(rt', rt) /\ SameFlags(rt', rt) /\ rt'.ui = rt.ui
      /\ rt'.device = rt.device /\ rt'.wired = rt.wired /\ rt'.watched = {}
      /\ rt'.alarm = w /\ rt'.watchdog = rt.watchdog /\ rt'.driver = rt.driver
  BY <1>1, ZenonT(120) DEF Machine, SameCycle, SameFlags
<1>4. budget' \in 0..MaxEvents
  BY <1>1, SpendType
<1>5. TypeOK'
  BY <1>1, <1>3, <1>4 DEF TypeOK
<1>6. Shape'
  <2>1. Keeps({}) /\ att' = att /\ conn' = conn /\ lost' = lost
    BY <1>1 DEF Keeps
  <2> QED BY ONLY <2>1, Shape, ShapeStep
<1> QED BY <1>1, <1>2, <1>3, <1>5, <1>6

LEMMA SuspendFacts ==
  ASSUME TypeOK, Shape, Suspend
  PROVE  /\ TypeOK' /\ Shape' /\ Macro /\ Prompt /\ power'.asleep /\ ~power'.due
         /\ UNCHANGED <<gate, slots, socket, att, lost, conn, fin>>
         /\ (\A c \in Connects : conn[c].pc = "idle")
         /\ SameLink(rt', rt) /\ ~rt'.rec /\ rt'.gen = rt.gen + 1 /\ rt'.cGen = rt.cGen + 1
         /\ rt'.explicit = rt.explicit /\ rt'.params = rt.params
         /\ ~rt'.cRec /\ ~rt'.active /\ ~rt'.pend /\ rt'.inFlight = rt.inFlight
         /\ rt'.deferred = rt.deferred /\ rt'.ui = rt.ui
         /\ hist'.late = hist.late /\ (hist'.crossed <=> hist.crossed)
<1>1. /\ rt \in Machine /\ hist \in History /\ rt' = Sleeps(rt) /\ hist' = AllStale(hist)
      /\ Macro /\ Prompt /\ Spend
      /\ power' = [asleep |-> TRUE, due |-> FALSE]
      /\ UNCHANGED <<gate, slots, socket, att, lost, conn, fin>>
      /\ \A c \in Connects : conn[c].pc = "idle"
  BY DEF TypeOK, Suspend, flows, Sleeps, Supersedes, History
<1>2. /\ rt' \in Machine /\ SameLink(rt', rt)
      /\ ~rt'.rec /\ rt'.gen = rt.gen + 1 /\ rt'.cGen = rt.cGen + 1
      /\ rt'.explicit = rt.explicit /\ rt'.params = rt.params
      /\ ~rt'.cRec /\ ~rt'.active /\ ~rt'.pend /\ rt'.inFlight = rt.inFlight
      /\ rt'.deferred = rt.deferred /\ rt'.ui = rt.ui
  BY ONLY <1>1, SleepsFacts
<1>3. hist' \in History /\ hist'.late = hist.late /\ hist'.crossed = hist.crossed
  BY <1>1, HistoryTypes
<1>4. budget' \in 0..MaxEvents
  BY <1>1, SpendType
<1>5. TypeOK'
  BY <1>1, <1>2, <1>3, <1>4 DEF TypeOK, History
<1>6. Shape'
  <2>1. Keeps({}) /\ att' = att /\ conn' = conn /\ lost' = lost
    BY <1>1 DEF Keeps
  <2> QED BY ONLY <2>1, Shape, ShapeStep
<1> QED BY <1>1, <1>2, <1>3, <1>5, <1>6

LEMMA ResumeFacts ==
  ASSUME TypeOK, Shape, Resume
  PROVE  /\ TypeOK' /\ Shape' /\ Macro /\ power.asleep /\ ~power'.asleep /\ power'.due
         /\ UNCHANGED <<rt, gate, slots, socket, att, lost, conn, fin, budget, hist>>
<1>1. /\ UNCHANGED <<rt, gate, slots, socket, att, lost, conn, fin, budget, hist>>
      /\ power' = [asleep |-> FALSE, due |-> TRUE] /\ Macro /\ power.asleep
  BY DEF Resume, flows
<1>2. TypeOK'
  BY <1>1 DEF TypeOK
<1>3. Shape'
  <2>1. Keeps({}) /\ att' = att /\ conn' = conn /\ lost' = lost
    BY <1>1 DEF Keeps
  <2> QED BY ONLY <2>1, Shape, ShapeStep
<1> QED BY <1>1, <1>2, <1>3

LEMMA DisconnectFacts ==
  ASSUME TypeOK, Shape, Disconnect
  PROVE  /\ TypeOK' /\ Shape' /\ Macro /\ Prompt /\ fin = "idle"
         /\ UNCHANGED <<slots, att, lost, power>> /\ rt.ui # "disconnected"
         /\ (\A c \in Connects : /\ conn'[c].pc = conn[c].pc /\ conn'[c].gen = conn[c].gen
                                 /\ conn'[c].session = conn[c].session
                                 /\ (conn[c] = IdleConnect => conn'[c] = IdleConnect))
         /\ (Opening => Opening') /\ (gate # <<>> => gate' # <<>>)
         /\ socket' \in {socket, NoSession}
         /\ hist'.late = hist.late
         /\ (~hist'.crossed => ~hist.crossed /\ \A c \in Connects : conn[c].pc # "opening")
         /\ (\A a \in Attempts : <<"attempt", a>> \in hist'.stale)
         /\ (\A c \in Connects : <<"connect", c>> \in hist'.stale)
         /\ ~rt'.rec /\ rt'.gen = rt.gen + 1 /\ rt'.cGen = rt.cGen + 1
         /\ rt'.explicit /\ ~rt'.params
         /\ ~rt'.cRec /\ ~rt'.active /\ ~rt'.pend /\ ~rt'.inFlight
         /\ rt'.device = NoSession /\ ~rt'.watchdog /\ rt'.alarm = rt.alarm
         /\ rt'.deferred = rt.deferred
         /\ \/ /\ fin' # "idle" /\ rt'.wired = rt.wired /\ rt'.watched = rt.watched
               /\ rt'.ui = rt.ui
               /\ (fin' = "closing" => socket' = NoSession)
               /\ (fin' = "dropping" => gate' # <<>>)
            \/ /\ fin' = "idle" /\ rt'.wired = {} /\ rt'.watched = {}
               /\ rt'.ui = "disconnected"
               /\ gate' = gate /\ socket' = socket
<1> DEFINE r == UserEnds(rt)
           e == FinalizeEnds(r)
           x == Asks("disconnect", "fin", 0)
           b == hist.crossed \/ \E c \in Connects : conn[c].pc = "opening"
           h == [hist EXCEPT !.crossed = b]
<1>0. /\ rt \in Machine /\ hist \in History /\ gate \in Seq(Ask)
      /\ conn \in [Connects -> Connection]
      /\ Macro /\ Prompt /\ Spend /\ fin = "idle" /\ rt.ui # "disconnected"
      /\ conn' = [c \in Connects |-> [conn[c] EXCEPT !.cancelled = conn[c].pc # "idle"]]
      /\ hist' = AllStale(h)
      /\ UNCHANGED <<slots, att, lost, power>>
  BY DEF TypeOK, Disconnect, History
<1>1. \/ rt' = r /\ fin' = "dropping" /\ gate' = Append(gate, x) /\ socket' = socket
      \/ rt' = r /\ fin' = "closing" /\ CloseSocket
      \/ rt' = e /\ UNCHANGED <<fin, gate, socket>>
  BY DEF Disconnect, UserEnds, Enqueue
<1>2. r = UserEnds(rt) /\ e = FinalizeEnds(r)
  OBVIOUS
<1>3. x \in Ask
  BY AskType
<1>4. h \in History /\ h.late = hist.late /\ (h.crossed <=> b)
  BY <1>0 DEF History
<1>5. ~b => ~hist.crossed /\ \A c \in Connects : conn[c].pc # "opening"
  OBVIOUS
<1> HIDE DEF r, e, x, b, h
<1>6. /\ r \in Machine
      /\ ~r.rec /\ r.gen = rt.gen + 1 /\ r.cGen = rt.cGen + 1
      /\ r.explicit /\ ~r.params
      /\ r.device = NoSession /\ r.wired = rt.wired /\ r.watched = rt.watched
      /\ r.alarm = rt.alarm /\ ~r.watchdog
      /\ ~r.cRec /\ ~r.active /\ ~r.pend /\ ~r.inFlight
      /\ r.deferred = rt.deferred /\ r.ui = rt.ui
  BY ONLY <1>0, <1>2, UserEndsFacts
<1>7. /\ e \in Machine /\ SameCycle(e, r) /\ SameFlags(e, r)
      /\ e.device = r.device /\ e.wired = {} /\ e.watched = {}
      /\ e.alarm = r.alarm /\ e.watchdog = r.watchdog
      /\ e.ui = "disconnected"
  BY ONLY <1>2, <1>6, FinalizeEndsFacts
<1>8. /\ e \in Machine
      /\ ~e.rec /\ e.gen = rt.gen + 1 /\ e.cGen = rt.cGen + 1
      /\ e.explicit /\ ~e.params
      /\ e.device = NoSession /\ e.wired = {} /\ e.watched = {}
      /\ e.alarm = rt.alarm /\ ~e.watchdog
      /\ ~e.cRec /\ ~e.active /\ ~e.pend /\ ~e.inFlight
      /\ e.deferred = rt.deferred /\ e.ui = "disconnected"
  BY ONLY <1>6, <1>7 DEF SameCycle, SameFlags
<1>9. /\ rt' \in Machine
      /\ ~rt'.rec /\ rt'.gen = rt.gen + 1 /\ rt'.cGen = rt.cGen + 1
      /\ rt'.explicit /\ ~rt'.params
      /\ ~rt'.cRec /\ ~rt'.active /\ ~rt'.pend /\ ~rt'.inFlight
      /\ rt'.device = NoSession /\ ~rt'.watchdog /\ rt'.alarm = rt.alarm
      /\ rt'.deferred = rt.deferred
  <2>1. rt' = r \/ rt' = e
    BY <1>1
  <2> QED BY ONLY <1>6, <1>8, <2>1
<1>10. /\ hist' \in History /\ hist'.late = hist.late /\ (hist'.crossed <=> b)
       /\ (\A a \in Attempts : <<"attempt", a>> \in hist'.stale)
       /\ (\A c \in Connects : <<"connect", c>> \in hist'.stale)
  BY <1>0, <1>4, HistoryTypes
<1>11. /\ conn' \in [Connects -> Connection]
       /\ \A c \in Connects : /\ conn'[c].pc = conn[c].pc /\ conn'[c].gen = conn[c].gen
                              /\ conn'[c].session = conn[c].session
                              /\ (conn[c] = IdleConnect => conn'[c] = IdleConnect)
  <2>1. ASSUME NEW c \in Connects
        PROVE  /\ conn'[c] \in Connection
               /\ conn'[c].pc = conn[c].pc /\ conn'[c].gen = conn[c].gen
               /\ conn'[c].session = conn[c].session
               /\ (conn[c] = IdleConnect => conn'[c] = IdleConnect)
    <3>1. conn[c] \in Connection /\ (conn[c].pc # "idle") \in BOOLEAN
          /\ conn'[c] = [conn[c] EXCEPT !.cancelled = conn[c].pc # "idle"]
      BY <1>0
    <3>2. /\ conn'[c] \in Connection
          /\ conn'[c].pc = conn[c].pc /\ conn'[c].gen = conn[c].gen
          /\ conn'[c].session = conn[c].session
      BY <3>1 DEF Connection
    <3>3. ASSUME conn[c] = IdleConnect  PROVE conn'[c] = IdleConnect
      <4>1. conn[c].pc = "idle"
        BY <3>3, IdleTypes
      <4>2. conn'[c] = [IdleConnect EXCEPT !.cancelled = FALSE]
        BY <3>1, <3>3, <4>1
      <4> QED BY <4>2 DEF IdleConnect
    <3> QED BY <3>2, <3>3
  <2> QED BY <1>0, <2>1
<1>12. budget' \in 0..MaxEvents
  BY <1>0, SpendType
<1>13. /\ gate' \in Seq(Ask) /\ socket' \in Sessions \cup {NoSession}
       /\ socket' \in {socket, NoSession}
       /\ (Opening => Opening') /\ (gate # <<>> => gate' # <<>>)
       /\ (\A y \in Ask : y.op = "disconnect" /\ InGate(gate, y) => InGate(gate', y))
       /\ fin' \in {"idle", "closing", "dropping"}
  <2>1. CASE rt' = r /\ fin' = "dropping" /\ gate' = Append(gate, x) /\ socket' = socket
    <3>1. /\ gate' \in Seq(Ask) /\ gate' # <<>>
          /\ (gate # <<>> => Head(gate') = Head(gate))
          /\ \A y : InGate(gate, y) => InGate(gate', y)
      BY ONLY <1>0, <1>3, <2>1, AppendGate
    <3>2. Opening => Opening'
      BY <3>1 DEF Opening
    <3> QED BY <2>1, <3>1, <3>2 DEF TypeOK
  <2>2. CASE rt' = r /\ fin' = "closing" /\ CloseSocket
    <3>1. /\ gate' \in Seq(Ask) /\ socket' = NoSession
          /\ (Opening => Opening')
          /\ (gate = <<>> <=> gate' = <<>>)
          /\ \A y \in Ask : y.op = "disconnect" /\ InGate(gate, y) => InGate(gate', y)
      BY ONLY <2>2, TypeOK, CloseGate
    <3> QED BY <2>2, <3>1
  <2>3. CASE rt' = e /\ UNCHANGED <<fin, gate, socket>>
    BY <1>0, <2>3 DEF Opening, TypeOK
  <2> QED BY <1>1, <2>1, <2>2, <2>3
<1>14. TypeOK'
  BY <1>0, <1>9, <1>10, <1>11, <1>12, <1>13 DEF TypeOK, History
<1>15. Shape'
  <2>1. Keeps({}) /\ att' = att /\ lost' = lost
    BY <1>0, <1>13 DEF Keeps
  <2>2. ASSUME NEW c \in Connects  PROVE ConnShape(conn'[c], gate', c)
    <3>1. ConnShape(conn[c], gate, c)
      BY DEF Shape
    <3>2. InGate(gate, Asks("disconnect", "connect", c))
          => InGate(gate', Asks("disconnect", "connect", c))
      BY <1>13, AskType DEF Asks
    <3> QED BY ONLY <1>11, <3>1, <3>2, c \in Connects DEF ConnShape
  <2> QED BY ONLY <2>1, <2>2, Shape, ShapeStep
<1>16. \/ /\ fin' # "idle" /\ rt'.wired = rt.wired /\ rt'.watched = rt.watched
          /\ rt'.ui = rt.ui
          /\ (fin' = "closing" => socket' = NoSession)
          /\ (fin' = "dropping" => gate' # <<>>)
       \/ /\ fin' = "idle" /\ rt'.wired = {} /\ rt'.watched = {}
          /\ rt'.ui = "disconnected"
          /\ gate' = gate /\ socket' = socket
  <2>1. CASE rt' = r /\ fin' = "dropping" /\ gate' = Append(gate, x) /\ socket' = socket
    BY <1>0, <1>3, <1>6, <2>1, AppendGate
  <2>2. CASE rt' = r /\ fin' = "closing" /\ CloseSocket
    BY <1>6, <2>2 DEF CloseSocket
  <2>3. CASE rt' = e /\ UNCHANGED <<fin, gate, socket>>
    BY <1>0, <1>8, <2>3
  <2> QED BY <1>1, <2>1, <2>2, <2>3
<1> QED BY ONLY <1>0, <1>5, <1>9, <1>10, <1>11, <1>13, <1>14, <1>15, <1>16

LEMMA DisconnectEndsFacts ==
  ASSUME TypeOK, Shape, DisconnectEnds
  PROVE  /\ TypeOK' /\ Shape' /\ Macro /\ fin # "idle" /\ fin' = "idle"
         /\ UNCHANGED <<att, lost, conn, power, budget, hist>>
         /\ SameCycle(rt', rt) /\ SameFlags(rt', rt)
         /\ rt'.device = rt.device /\ rt'.wired = {} /\ rt'.watched = {}
         /\ rt'.alarm = rt.alarm /\ rt'.watchdog = rt.watchdog
         /\ rt'.ui = "disconnected"
         /\ \/ fin = "closing" /\ UNCHANGED <<gate, slots, socket>>
            \/ /\ fin = "dropping" /\ ~Opening
               /\ slots' = {} /\ socket' \in {socket, NoSession}
               /\ ((socket # NoSession => socket \in slots) => socket' = NoSession)
<1> DEFINE x == Asks("disconnect", "fin", 0)
<1>0. /\ rt \in Machine /\ Macro /\ rt' = FinalizeEnds(rt) /\ fin' = "idle"
      /\ UNCHANGED <<att, lost, conn, power, budget, hist>>
      /\ \/ fin = "closing" /\ UNCHANGED <<gate, slots, socket>>
         \/ fin = "dropping" /\ DriverDisconnects("fin", 0) /\ gate' = Tail(gate)
  BY DEF TypeOK, DisconnectEnds
<1>1. x = Asks("disconnect", "fin", 0)
  OBVIOUS
<1> HIDE DEF x
<1>2. /\ rt' \in Machine /\ SameCycle(rt', rt) /\ SameFlags(rt', rt)
      /\ rt'.device = rt.device /\ rt'.wired = {} /\ rt'.watched = {}
      /\ rt'.alarm = rt.alarm /\ rt'.watchdog = rt.watchdog
      /\ rt'.ui = "disconnected"
  BY ONLY <1>0, FinalizeEndsFacts
<1>3. CASE fin = "closing" /\ UNCHANGED <<gate, slots, socket>>
  <2>1. TypeOK'
    BY <1>0, <1>2, <1>3 DEF TypeOK
  <2>2. Keeps({}) /\ att' = att /\ conn' = conn /\ lost' = lost
    BY <1>0, <1>3 DEF Keeps
  <2>3. Shape'
    BY ONLY <2>2, Shape, ShapeStep
  <2> QED BY <1>0, <1>2, <1>3, <2>1, <2>3
<1>4. CASE fin = "dropping" /\ DriverDisconnects("fin", 0) /\ gate' = Tail(gate)
  <2>1. /\ slots' = {} /\ socket' \in {socket, NoSession}
        /\ ((socket # NoSession => socket \in slots) => socket' = NoSession)
        /\ gate' \in Seq(Ask) /\ ~Opening
        /\ \A z : InGate(gate, z) /\ z # x => InGate(gate', z)
    BY <1>1, <1>4, DisconnectsTypes
  <2>2. TypeOK'
    BY <1>0, <1>2, <2>1 DEF TypeOK
  <2>3. Keeps({x})
    BY <2>1 DEF Keeps
  <2>4. /\ \A k \in Losses : lost'[k] = lost[k] /\ Asks("disconnect", "lost", k) \notin {x}
        /\ \A a \in Attempts : /\ att'[a] = att[a]
                               /\ Asks("disconnect", "work", a) \notin {x}
                               /\ Asks("disconnect", "attempt", a) \notin {x}
        /\ \A c \in Connects : conn'[c] = conn[c] /\ Asks("disconnect", "connect", c) \notin {x}
    BY <1>0, <1>1 DEF Asks
  <2>5. Shape'
    BY ONLY <2>3, <2>4, Shape, ShapeStep
  <2> QED BY <1>0, <1>2, <1>4, <2>1, <2>2, <2>5
<1> QED BY <1>0, <1>3, <1>4

-----------------------------------------------------------------------------
(* Every step keeps the types and the shape. *)

LEMMA IdleShapes ==
  /\ \A g, a : AttShape(IdleAttempt, g, a)
  /\ \A g, c : ConnShape(IdleConnect, g, c)
  /\ \A g, l : LostShape(IdleLost, g, l)
BY DEF AttShape, ConnShape, LostShape, IdleAttempt, IdleConnect, IdleLost

(* A step of one attempt, which answers at most one request of its own.     *)
LEMMA AttemptShape ==
  ASSUME Shape, NEW a \in Attempts, NEW K, Keeps(K),
         K \subseteq {Asks("disconnect", "work", a), Asks("disconnect", "attempt", a)},
         \A b \in Attempts : b # a => att'[b] = att[b],
         UNCHANGED <<lost, conn>>,
         AttShape(att'[a], gate', a)
  PROVE  Shape'
<1>1. \A b \in Attempts :
        \/ /\ att'[b] = att[b]
           /\ Asks("disconnect", "work", b) \notin K
           /\ Asks("disconnect", "attempt", b) \notin K
        \/ AttShape(att'[b], gate', b)
  <2> SUFFICES ASSUME NEW b \in Attempts, b # a
               PROVE  /\ att'[b] = att[b]
                      /\ Asks("disconnect", "work", b) \notin K
                      /\ Asks("disconnect", "attempt", b) \notin K
    OBVIOUS
  <2> QED BY DEF Asks
<1>2. /\ \A c \in Connects : conn'[c] = conn[c] /\ Asks("disconnect", "connect", c) \notin K
      /\ \A l \in Losses : lost'[l] = lost[l] /\ Asks("disconnect", "lost", l) \notin K
  BY DEF Asks
<1> QED BY ONLY <1>1, <1>2, Shape, Keeps(K), ShapeStep

LEMMA ConnectShape ==
  ASSUME Shape, NEW c \in Connects, NEW K, Keeps(K),
         K \subseteq {Asks("disconnect", "connect", c)},
         \A b \in Connects : b # c => conn'[b] = conn[b],
         UNCHANGED <<lost, att>>,
         ConnShape(conn'[c], gate', c)
  PROVE  Shape'
<1>1. \A b \in Connects :
        \/ conn'[b] = conn[b] /\ Asks("disconnect", "connect", b) \notin K
        \/ ConnShape(conn'[b], gate', b)
  <2> SUFFICES ASSUME NEW b \in Connects, b # c
               PROVE  conn'[b] = conn[b] /\ Asks("disconnect", "connect", b) \notin K
    OBVIOUS
  <2> QED BY DEF Asks
<1>2. /\ \A b \in Attempts : /\ att'[b] = att[b]
                             /\ Asks("disconnect", "work", b) \notin K
                             /\ Asks("disconnect", "attempt", b) \notin K
      /\ \A l \in Losses : lost'[l] = lost[l] /\ Asks("disconnect", "lost", l) \notin K
  BY DEF Asks
<1> QED BY ONLY <1>1, <1>2, Shape, Keeps(K), ShapeStep

LEMMA RunOwnerShape ==
  ASSUME TypeOK, Shape, RunOwner
  PROVE  Shape'
<1>1. gate' = gate /\ lost' = lost /\ conn' = conn
      /\ \/ att' = att
         \/ \E a \in Attempts :
              /\ att[a].pc = "idle" /\ att[a].work = "none"
              /\ att'[a].pc = "backoff" /\ att'[a].gen = rt.gen
              /\ att'[a].work = "none" /\ att'[a].session = NoSession
              /\ ~att'[a].cleaned /\ ~att'[a].alive
              /\ \A b \in Attempts : b # a => att'[b] = att[b]
              /\ hist'.stale = hist.stale \ {<<"attempt", a>>}
  BY RunOwnerFacts
<1>2. Keeps({})
  BY <1>1 DEF Keeps
<1>3. CASE att' = att
  BY ONLY <1>1, <1>2, <1>3, Shape, ShapeStep
<1>4. CASE \E a \in Attempts :
              /\ att'[a].pc = "backoff"
              /\ att'[a].work = "none" /\ att'[a].session = NoSession
              /\ ~att'[a].cleaned /\ ~att'[a].alive
              /\ \A b \in Attempts : b # a => att'[b] = att[b]
  <2>1. PICK a \in Attempts :
              /\ att'[a].pc = "backoff"
              /\ att'[a].work = "none" /\ att'[a].session = NoSession
              /\ ~att'[a].cleaned /\ ~att'[a].alive
              /\ \A b \in Attempts : b # a => att'[b] = att[b]
    BY <1>4
  <2>2. AttShape(att'[a], gate', a)
    BY <2>1 DEF AttShape
  <2> QED BY ONLY <1>1, <1>2, <2>1, <2>2, Shape, AttemptShape
<1> QED BY <1>1, <1>3, <1>4

LEMMA BackoffShape ==
  ASSUME TypeOK, Shape, NEW a \in Attempts,
         BackoffAborted(a) \/ BackoffSuspended(a) \/ BackoffDone(a)
  PROVE  Shape'
<1>1. CASE BackoffAborted(a) \/ BackoffSuspended(a)
  <2>1. /\ gate' = gate /\ UNCHANGED <<lost, conn>> /\ att'[a] = IdleAttempt
        /\ \A b \in Attempts : b # a => att'[b] = att[b]
    BY <1>1, BackoffAbortedFacts, BackoffSuspendedFacts
  <2>2. Keeps({}) /\ AttShape(att'[a], gate', a)
    BY <2>1, IdleShapes DEF Keeps
  <2> QED BY ONLY <2>1, <2>2, Shape, AttemptShape, a \in Attempts
<1>2. CASE BackoffDone(a)
  <2>1. /\ UNCHANGED <<lost, conn>> /\ att[a].pc = "backoff"
        /\ (\A b \in Attempts : b # a => att'[b] = att[b])
        /\ \/ att'[a] = IdleAttempt /\ gate' = gate
           \/ /\ att'[a].pc = "open" /\ att'[a].work = "opening"
              /\ att'[a].gen = att[a].gen /\ att'[a].session = att[a].session
              /\ att'[a].cleaned = att[a].cleaned
              /\ \A y : InGate(gate, y) => InGate(gate', y)
    BY <1>2, BackoffDoneFacts
  <2>2. Keeps({})
    BY <2>1 DEF Keeps
  <2>3. AttShape(att[a], gate, a)
    BY DEF Shape
  <2>4. AttShape(att'[a], gate', a)
    BY ONLY <2>1, <2>3, IdleShapes DEF AttShape
  <2> QED BY ONLY <2>1, <2>2, <2>4, Shape, AttemptShape, a \in Attempts
<1> QED BY <1>1, <1>2

LEMMA WorkShape ==
  ASSUME TypeOK, Shape, NEW a \in Attempts,
         \/ WorkOpenFails(a) \/ WorkOpens(a) \/ WorkUndone(a)
         \/ ConfigureFails(a) \/ ConfigureDone(a)
         \/ Deadline(a) \/ AttemptCleaned(a)
  PROVE  Shape'
<1> DEFINE w == Asks("disconnect", "work", a)
           x == Asks("disconnect", "attempt", a)
           K == {w, x}
<1>0. /\ w = Asks("disconnect", "work", a) /\ x = Asks("disconnect", "attempt", a)
      /\ w \in Ask /\ x \in Ask /\ w.op = "disconnect" /\ x.op = "disconnect" /\ w # x
  BY AskType DEF Asks
<1>1. AttShape(att[a], gate, a) /\ att[a] \in Attempt
  BY DEF Shape, TypeOK
<1> HIDE DEF w, x
<1>2. CASE WorkOpenFails(a)
  <2>1. /\ Works(a) /\ Keeps({})
        /\ att'[a].work = "none" /\ att'[a].session = NoSession
        /\ (Cleans(a) \/ (HandsOver(a) /\ att'[a] = IdleAttempt))
    BY <1>2, WorkOpenFailsFacts
  <2>2. AttShape(att'[a], gate', a)
    BY ONLY <2>1, IdleShapes DEF AttShape, Cleans
  <2>3. UNCHANGED <<lost, conn>> /\ \A b \in Attempts : b # a => att'[b] = att[b]
    BY <2>1 DEF Works
  <2> QED BY ONLY <2>1, <2>2, <2>3, Shape, AttemptShape, a \in Attempts
<1>3. CASE WorkOpens(a)
  <2>1. /\ Works(a) /\ Keeps({})
        /\ NewSession # NoSession
        /\ att'[a].session = NewSession /\ att'[a].pc = "open"
        /\ \/ /\ att'[a].work = "undoing" /\ att'[a].cleaned
              /\ InGate(gate', w)
           \/ att'[a].work = "configuring" /\ ~att'[a].cleaned
    BY <1>0, <1>3, WorkOpensFacts
  <2>2. AttShape(att'[a], gate', a)
    BY ONLY <1>0, <2>1 DEF AttShape
  <2>3. UNCHANGED <<lost, conn>> /\ \A b \in Attempts : b # a => att'[b] = att[b]
    BY <2>1 DEF Works
  <2> QED BY ONLY <2>1, <2>2, <2>3, Shape, AttemptShape, a \in Attempts
<1>4. CASE WorkUndone(a)
  <2>1. /\ Works(a) /\ Keeps({w}) /\ att[a].pc # "backoff"
        /\ att'[a].work = "none"
        /\ \/ att'[a] = IdleAttempt
           \/ /\ att[a].pc # "open" /\ att'[a].pc = att[a].pc
              /\ att'[a].cleaned = (att[a].pc # "idle") /\ att'[a].alive = FALSE
              /\ (att[a].pc = "idle" => att'[a] = IdleAttempt)
    BY <1>0, <1>4, WorkUndoneFacts
  <2>2. InGate(gate, x) => InGate(gate', x)
    BY <1>0, <2>1 DEF Keeps
  <2>3. AttShape(att'[a], gate', a)
    BY ONLY <1>0, <1>1, <2>1, <2>2, IdleShapes DEF AttShape, Attempt
  <2>4. UNCHANGED <<lost, conn>> /\ \A b \in Attempts : b # a => att'[b] = att[b]
    BY <2>1 DEF Works
  <2>5. {w} \subseteq {Asks("disconnect", "work", a), Asks("disconnect", "attempt", a)}
    BY <1>0
  <2> QED BY ONLY <2>1, <2>3, <2>4, <2>5, Shape, AttemptShape, a \in Attempts
<1>5. CASE ConfigureFails(a)
  <2>1. /\ Works(a) /\ Keeps({})
        /\ att'[a].work = "none"
        /\ \/ Cleans(a)
           \/ /\ att[a].pc = "cleanup" /\ gate' = gate
              /\ att'[a].pc = "cleanup" /\ att'[a].cleaned /\ ~att'[a].alive
    BY <1>5, ConfigureFailsFacts
  <2>3. AttShape(att'[a], gate', a)
    BY ONLY <1>0, <1>1, <2>1 DEF AttShape, Cleans
  <2>4. UNCHANGED <<lost, conn>> /\ \A b \in Attempts : b # a => att'[b] = att[b]
    BY <2>1 DEF Works
  <2> QED BY ONLY <2>1, <2>3, <2>4, Shape, AttemptShape, a \in Attempts
<1>6. CASE ConfigureDone(a)
  <2>1. /\ Works(a) /\ Keeps({}) /\ att[a].session # NoSession
        /\ \/ /\ att'[a].session = att[a].session /\ att'[a].pc = att[a].pc
              /\ att'[a].cleaned
              /\ \/ /\ att[a].pc = "cleanup" /\ att'[a].work = "none" /\ ~att'[a].alive
                 \/ /\ att[a].pc = "open" /\ att'[a].work = "undoing"
                    /\ InGate(gate', w)
           \/ att'[a] = IdleAttempt
    BY <1>0, <1>6, ConfigureDoneFacts
  <2>2. InGate(gate, x) => InGate(gate', x)
    BY <1>0, <2>1 DEF Keeps
  <2>3. AttShape(att'[a], gate', a)
    BY ONLY <1>0, <1>1, <2>1, <2>2, IdleShapes DEF AttShape
  <2>4. UNCHANGED <<lost, conn>> /\ \A b \in Attempts : b # a => att'[b] = att[b]
    BY <2>1 DEF Works
  <2> QED BY ONLY <2>1, <2>3, <2>4, Shape, AttemptShape, a \in Attempts
<1>7. CASE Deadline(a)
  <2>1. /\ Works(a) /\ Keeps({})
        /\ att[a].pc = "open" /\ att'[a].work = att[a].work
        /\ att'[a].session = att[a].session
        /\ ~att'[a].alive
        /\ \/ att[a].work = "configuring" /\ att[a].session # NoSession /\ Cleans(a)
           \/ att[a].work = "undoing" /\ gate' = gate /\ att'[a].cleaned /\ HandsOver(a)
    BY <1>7, DeadlineFacts
  <2>3. AttShape(att'[a], gate', a)
    BY ONLY <1>0, <1>1, <2>1 DEF AttShape, Cleans, HandsOver
  <2>4. UNCHANGED <<lost, conn>> /\ \A b \in Attempts : b # a => att'[b] = att[b]
    BY <2>1 DEF Works
  <2> QED BY ONLY <2>1, <2>3, <2>4, Shape, AttemptShape, a \in Attempts
<1>8. CASE AttemptCleaned(a)
  <2>1. /\ Works(a) /\ Keeps({x}) /\ att'[a].pc = "idle"
        /\ \/ att'[a] = IdleAttempt
           \/ /\ att[a].work = "undoing" /\ att'[a].work = "undoing"
              /\ att'[a].cleaned /\ ~att'[a].alive /\ att'[a].session = att[a].session
    BY <1>0, <1>8, AttemptCleanedFacts DEF HandsOver
  <2>2. InGate(gate, w) => InGate(gate', w)
    BY <1>0, <2>1 DEF Keeps
  <2>3. AttShape(att'[a], gate', a)
    BY ONLY <1>0, <1>1, <2>1, <2>2, IdleShapes DEF AttShape
  <2>4. UNCHANGED <<lost, conn>> /\ \A b \in Attempts : b # a => att'[b] = att[b]
    BY <2>1 DEF Works
  <2>5. {x} \subseteq {Asks("disconnect", "work", a), Asks("disconnect", "attempt", a)}
    BY <1>0
  <2> QED BY ONLY <2>1, <2>3, <2>4, <2>5, Shape, AttemptShape, a \in Attempts
<1> QED BY <1>2, <1>3, <1>4, <1>5, <1>6, <1>7, <1>8

LEMMA ConnectStepShape ==
  ASSUME TypeOK, Shape, NEW c \in Connects, Connect(c) \/ ConnectStep(c)
  PROVE  Shape'
<1> DEFINE x == Asks("disconnect", "connect", c)
<1>0. x = Asks("disconnect", "connect", c)
  BY DEF Asks
<1>1. conn[c] \in Connection /\ ConnShape(conn[c], gate, c)
  BY DEF TypeOK, Shape
<1> HIDE DEF x
<1>2. /\ Calls(c) /\ (Keeps({}) \/ Keeps({x}))
      /\ \/ conn'[c] = IdleConnect
         \/ conn'[c].pc = "preparing" /\ conn'[c].session = NoSession /\ InGate(gate', x)
         \/ conn'[c].pc = "opening" /\ conn'[c].session = NoSession
         \/ conn'[c].pc = "attaching" /\ conn'[c].session # NoSession
         \/ conn'[c].pc = "failing" /\ InGate(gate', x)
  <2>1. CASE Connect(c)
    BY <1>0, <2>1, ConnectFacts
  <2>2. CASE ConnectPrepared(c)
    BY <1>0, <2>2, ConnectPreparedFacts
  <2>3. CASE ConnectOpenFails(c)
    BY <1>0, <2>3, ConnectOpenFailsFacts DEF GivenUp
  <2>4. CASE ConnectOpens(c)
    BY <1>0, <2>4, ConnectOpensFacts
  <2>5. CASE ConnectConfigureFails(c)
    BY <1>0, <2>5, ConnectConfigureFailsFacts DEF GivenUp
  <2>6. CASE ConnectConfigured(c)
    BY <1>0, <2>6, ConnectConfiguredFacts DEF GivenUp
  <2>7. CASE ConnectFailed(c)
    BY <1>0, <2>7, ConnectFailedFacts
  <2> QED BY <2>1, <2>2, <2>3, <2>4, <2>5, <2>6, <2>7 DEF ConnectStep
<1>3. ConnShape(conn'[c], gate', c)
  BY ONLY <1>0, <1>2, IdleShapes DEF ConnShape
<1>4. /\ \A b \in Connects : b # c => conn'[b] = conn[b]
      /\ UNCHANGED <<lost, att>>
  BY <1>2 DEF Calls
<1>5. PICK K : Keeps(K) /\ K \subseteq {Asks("disconnect", "connect", c)}
  BY <1>0, <1>2
<1> QED BY ONLY <1>3, <1>4, <1>5, Shape, ConnectShape, c \in Connects

(* The types and the shape, over a step.                                    *)
LEMMA TypesStep ==
  ASSUME TypeOK, Shape, [Next]_vars
  PROVE  TypeOK' /\ Shape'
<1>1. CASE RunOwner
  BY <1>1, RunOwnerFacts, RunOwnerShape
<1>2. CASE Notified \/ WatchdogFires \/ ResumeDue
  BY <1>2, NotifiedFacts, WatchdogFiresFacts, ResumeDueFacts DEF Losing
<1>3. CASE \E l \in Losses : LostClosed(l) \/ LostDropped(l)
  BY <1>3, LostClosedFacts, LostDroppedFacts
<1>4. ASSUME NEW a \in Attempts, AttemptStep(a)  PROVE TypeOK' /\ Shape'
  <2>1. CASE BackoffAborted(a) \/ BackoffSuspended(a) \/ BackoffDone(a)
    BY <2>1, BackoffShape, BackoffAbortedFacts, BackoffSuspendedFacts, BackoffDoneFacts
  <2>2. CASE \/ WorkOpenFails(a) \/ WorkOpens(a) \/ WorkUndone(a)
             \/ ConfigureFails(a) \/ ConfigureDone(a)
             \/ Deadline(a) \/ AttemptCleaned(a)
    <3>1. Works(a)
      BY <2>2, WorkOpenFailsFacts, WorkOpensFacts, WorkUndoneFacts, ConfigureFailsFacts,
         ConfigureDoneFacts, DeadlineFacts, AttemptCleanedFacts
    <3> QED BY <2>2, <3>1, WorkShape DEF Works
  <2> QED BY <1>4, <2>1, <2>2 DEF AttemptStep
<1>5. ASSUME NEW c \in Connects, Connect(c) \/ ConnectStep(c)  PROVE TypeOK' /\ Shape'
  <2>1. Calls(c)
    BY <1>5, ConnectFacts, ConnectPreparedFacts, ConnectOpenFailsFacts, ConnectOpensFacts,
       ConnectConfigureFailsFacts, ConnectConfiguredFacts, ConnectFailedFacts DEF ConnectStep
  <2> QED BY <1>5, <2>1, ConnectStepShape DEF Calls
<1>6. CASE Disconnect \/ DisconnectEnds \/ SocketDrops \/ Suspend \/ Resume
  BY <1>6, DisconnectFacts, DisconnectEndsFacts, SocketDropsFacts, SuspendFacts, ResumeFacts
<1>7. CASE UNCHANGED vars
  BY <1>7 DEF vars, TypeOK, Shape
<1> QED BY <1>1, <1>2, <1>3, <1>4, <1>5, <1>6, <1>7 DEF Next

LEMMA InitTypes ==
  ASSUME Init
  PROVE  TypeOK /\ Shape
<1>1. rt \in Machine
  BY RfAssumption DEF Init, Machine
<1>2. gate \in Seq(Ask) /\ slots \subseteq Sessions /\ socket \in Sessions \cup {NoSession}
      /\ fin \in {"idle", "closing", "dropping"}
      /\ power \in [asleep : BOOLEAN, due : BOOLEAN] /\ budget \in 0..MaxEvents
      /\ hist \in [stale : SUBSET Parties, late : SUBSET Parties, crossed : BOOLEAN]
  BY RfAssumption DEF Init
<1>3. att \in [Attempts -> Attempt] /\ lost \in [Losses -> Loss] /\ conn \in [Connects -> Connection]
  BY IdleTypes DEF Init
<1>4. Shape
  BY IdleShapes DEF Init, Shape
<1> QED BY <1>1, <1>2, <1>3, <1>4 DEF TypeOK

(* Every variable keeps its type, the tries stay within the budget, and a   *)
(* session of the runtime is one that was opened.                           *)
THEOREM TypeCorrect == Spec => []TypeOK
<1>1. Init => TypeOK /\ Shape
  BY InitTypes
<1>2. TypeOK /\ Shape /\ [Next]_vars => (TypeOK /\ Shape)'
  BY TypesStep
<1> QED BY <1>1, <1>2, PTL DEF Spec

-----------------------------------------------------------------------------
(* No success of what was superseded.  Both generations of the machine are   *)
(* compared with the one an attempt or a connect() took, so what is needed   *)
(* is that superseding raises the generation above all that were taken.  For *)
(* attempts it does.  handleConnectionLost takes the controller's generation, *)
(* which may be behind the runtime's, and so behind a connect()'s: there it  *)
(* is the socket that saves it, because a connect() still attaching when a   *)
(* link is lost has lost its socket too (Gone).                              *)

RecGen == rt.rec => rt.gen = rt.cGen

AttGen ==
  \A a \in Attempts :
    /\ att[a].gen <= rt.gen /\ att[a].gen <= rt.cGen
    /\ (<<"attempt", a>> \in hist.stale => att[a].gen < rt.gen)

SocketInv == socket # NoSession => socket \in slots
AlarmInv == rt.alarm # {} => socket = NoSession
PowerInv == power.asleep \/ power.due => \A c \in Connects : conn[c].pc = "idle"

Distinct ==
  /\ \A a \in Attempts, c \in Connects :
       att[a].session = conn[c].session => conn[c].session = NoSession
  /\ \A c, d \in Connects :
       c # d /\ conn[c].session = conn[d].session => conn[c].session = NoSession

Gone(c) == Opening \/ socket # conn[c].session

(* A connect() whose socket lives is the one the runtime uses, or a step of  *)
(* the driver is about to take that socket away, or no watchdog watches it.  *)
Attached(c) ==
  conn[c].pc = "attaching" /\ ~Gone(c) =>
    /\ \/ rt.device = conn[c].session
       \/ gate # <<>>
       \/ ~rt.watchdog /\ conn[c].session \notin rt.wired
    /\ conn[c].gen <= rt.gen
    /\ (<<"connect", c>> \in hist.stale => conn[c].gen < rt.gen)

ConnInv == \A c \in Connects : Attached(c)

LateInv ==
  /\ TypeOK /\ Shape
  /\ RecGen /\ AttGen /\ SocketInv /\ AlarmInv /\ PowerInv /\ Distinct /\ ConnInv
  /\ hist.late = {}

LEMMA PowerStep ==
  ASSUME TypeOK, Shape, PowerInv, [Next]_vars
  PROVE  PowerInv'
<1>1. CASE RunOwner
  BY <1>1, RunOwnerFacts DEF PowerInv
<1>2. CASE Notified \/ WatchdogFires
  BY <1>2, NotifiedFacts, WatchdogFiresFacts DEF Losing, PowerInv
<1>20. CASE ResumeDue
  BY <1>20, ResumeDueFacts DEF Losing, PowerInv
<1>3. CASE \E l \in Losses : LostClosed(l) \/ LostDropped(l)
  BY <1>3, LostClosedFacts, LostDroppedFacts DEF PowerInv
<1>4. ASSUME NEW a \in Attempts, AttemptStep(a)  PROVE PowerInv'
  <2>1. CASE BackoffAborted(a) \/ BackoffSuspended(a) \/ BackoffDone(a)
    BY <2>1, BackoffAbortedFacts, BackoffSuspendedFacts, BackoffDoneFacts DEF PowerInv
  <2>2. CASE \/ WorkOpenFails(a) \/ WorkOpens(a) \/ WorkUndone(a)
             \/ ConfigureFails(a) \/ ConfigureDone(a)
             \/ Deadline(a) \/ AttemptCleaned(a)
    <3>1. Works(a)
      BY <2>2, WorkOpenFailsFacts, WorkOpensFacts, WorkUndoneFacts, ConfigureFailsFacts,
         ConfigureDoneFacts, DeadlineFacts, AttemptCleanedFacts, ZenonT(120)
    <3> QED BY <3>1 DEF Works, PowerInv
  <2> QED BY <1>4, <2>1, <2>2 DEF AttemptStep
<1>5. ASSUME NEW c \in Connects, Connect(c)  PROVE PowerInv'
  BY <1>5, ConnectFacts DEF PowerInv, Calls
<1>6. ASSUME NEW c \in Connects, ConnectStep(c)  PROVE PowerInv'
  <2>1. conn[c].pc # "idle" /\ Calls(c)
    BY <1>6, ConnectPreparedFacts, ConnectOpenFailsFacts, ConnectOpensFacts,
       ConnectConfigureFailsFacts, ConnectConfiguredFacts, ConnectFailedFacts DEF ConnectStep
  <2> QED BY <2>1 DEF Calls, PowerInv
<1>7. CASE Disconnect
  BY <1>7, DisconnectFacts DEF PowerInv
<1>8. CASE DisconnectEnds \/ SocketDrops
  BY <1>8, DisconnectEndsFacts, SocketDropsFacts DEF PowerInv
<1>9. CASE Suspend
  BY <1>9, SuspendFacts DEF PowerInv
<1>10. CASE Resume
  BY <1>10, ResumeFacts DEF PowerInv
<1>11. CASE UNCHANGED vars
  BY <1>11 DEF vars, PowerInv
<1> QED BY <1>1, <1>2, <1>20, <1>3, <1>4, <1>5, <1>6, <1>7, <1>8, <1>9, <1>10, <1>11 DEF Next

LEMMA SocketStep ==
  ASSUME TypeOK, Shape, SocketInv, AlarmInv, [Next]_vars
  PROVE  SocketInv' /\ AlarmInv'
<1>1. CASE RunOwner
  BY <1>1, RunOwnerFacts DEF SocketInv, AlarmInv
<1>2. CASE Notified \/ WatchdogFires \/ ResumeDue
  <2>1. Losing /\ rt'.alarm \subseteq rt.alarm
    BY <1>2, NotifiedFacts, WatchdogFiresFacts, ResumeDueFacts
  <2> QED BY <2>1 DEF Losing, SocketInv, AlarmInv
<1>3. CASE \E l \in Losses : LostClosed(l) \/ LostDropped(l)
  <2>1. PICK l \in Losses : LostClosed(l) \/ LostDropped(l)
    BY <1>3
  <2>2. Macro /\ rt'.alarm = rt.alarm
    BY <2>1, LostClosedFacts, LostDroppedFacts DEF Hands
  <2>3. SocketInv'
    BY <2>1, LostClosedFacts, LostDroppedFacts DEF SocketInv
  <2> QED BY <2>2, <2>3 DEF AlarmInv, Macro
<1>4. ASSUME NEW a \in Attempts, AttemptStep(a)  PROVE SocketInv' /\ AlarmInv'
  <2>1. CASE BackoffAborted(a) \/ BackoffSuspended(a) \/ BackoffDone(a)
    <3>1. rt'.alarm = rt.alarm /\ socket' = socket /\ slots' = slots
      BY <2>1, BackoffAbortedFacts, BackoffSuspendedFacts, BackoffDoneFacts DEF SameLink
    <3> QED BY <3>1 DEF SocketInv, AlarmInv
  <2>2. CASE \/ WorkOpenFails(a) \/ WorkOpens(a) \/ WorkUndone(a)
             \/ ConfigureFails(a) \/ ConfigureDone(a)
             \/ Deadline(a) \/ AttemptCleaned(a)
    <3>1. Works(a)
      BY <2>2, WorkOpenFailsFacts, WorkOpensFacts, WorkUndoneFacts, ConfigureFailsFacts,
         ConfigureDoneFacts, DeadlineFacts, AttemptCleanedFacts, ZenonT(120)
    <3>2. \/ slots' = slots /\ socket' \in {socket, NoSession}
          \/ slots' = {} /\ (SocketInv => socket' = NoSession)
          \/ \E s \in Sessions : slots' = slots \cup {s} /\ socket' = s
      <4>1. CASE WorkOpens(a)
        BY <4>1, WorkOpensFacts
      <4>2. CASE WorkOpenFails(a) \/ ConfigureFails(a) \/ Deadline(a)
        BY <4>2, WorkOpenFailsFacts, ConfigureFailsFacts, DeadlineFacts
      <4>3. CASE ConfigureDone(a)
        BY <4>3, ConfigureDoneFacts
      <4>4. CASE WorkUndone(a) \/ AttemptCleaned(a)
        BY <4>4, WorkUndoneFacts, AttemptCleanedFacts DEF SocketInv
      <4> QED BY <2>2, <4>1, <4>2, <4>3, <4>4
    <3>3. SocketInv'
      BY ONLY <3>2, SocketInv DEF SocketInv
    <3> QED BY <3>1, <3>3 DEF Works, AlarmInv, Macro
  <2> QED BY <1>4, <2>1, <2>2 DEF AttemptStep
<1>5. ASSUME NEW c \in Connects, Connect(c) \/ ConnectStep(c)  PROVE SocketInv' /\ AlarmInv'
  <2>1. Calls(c)
    BY <1>5, ConnectFacts, ConnectPreparedFacts, ConnectOpenFailsFacts, ConnectOpensFacts,
       ConnectConfigureFailsFacts, ConnectConfiguredFacts, ConnectFailedFacts DEF ConnectStep
  <2>2. \/ slots' = slots /\ socket' \in {socket, NoSession}
        \/ slots' = {} /\ (SocketInv => socket' = NoSession)
        \/ \E s \in Sessions : slots' = slots \cup {s} /\ socket' = s
    <3>1. CASE ConnectOpens(c)
      BY <3>1, ConnectOpensFacts
    <3>2. CASE Connect(c) \/ ConnectOpenFails(c) \/ ConnectConfigureFails(c)
      BY <3>2, ConnectFacts, ConnectOpenFailsFacts, ConnectConfigureFailsFacts
    <3>3. CASE ConnectConfigured(c)
      BY <3>3, ConnectConfiguredFacts
    <3>4. CASE ConnectPrepared(c) \/ ConnectFailed(c)
      BY <3>4, ConnectPreparedFacts, ConnectFailedFacts DEF SocketInv
    <3> QED BY <1>5, <3>1, <3>2, <3>3, <3>4 DEF ConnectStep
  <2>3. SocketInv'
    BY ONLY <2>2, SocketInv DEF SocketInv
  <2> QED BY <2>1, <2>3 DEF Calls, AlarmInv, Macro
<1>6. CASE Disconnect
  BY <1>6, DisconnectFacts DEF SocketInv, AlarmInv
<1>7. CASE DisconnectEnds
  BY <1>7, DisconnectEndsFacts DEF SocketInv, AlarmInv, Macro
<1>8. CASE SocketDrops \/ Resume
  BY <1>8, SocketDropsFacts, ResumeFacts DEF SocketInv, AlarmInv
<1>9. CASE Suspend
  BY <1>9, SuspendFacts DEF SocketInv, AlarmInv, SameLink
<1>10. CASE UNCHANGED vars
  BY <1>10 DEF vars, SocketInv, AlarmInv
<1> QED BY <1>1, <1>2, <1>3, <1>4, <1>5, <1>6, <1>7, <1>8, <1>9, <1>10 DEF Next

LEMMA GenKeep ==
  ASSUME TypeOK, TypeOK', AttGen,
         \A a \in Attempts : att'[a].gen \in {att[a].gen, 0},
         rt.cGen <= rt'.cGen,
         \/ rt.gen <= rt'.gen /\ hist'.stale \subseteq hist.stale
         \/ rt'.gen = rt.gen + 1 \/ rt'.gen = rt.cGen + 1
  PROVE  AttGen'
<1>1. rt.gen \in Nat /\ rt'.gen \in Nat /\ rt.cGen \in Nat /\ rt'.cGen \in Nat
  BY DEF TypeOK, Machine
<1>2. ASSUME NEW a \in Attempts
      PROVE  /\ att'[a].gen <= rt'.gen /\ att'[a].gen <= rt'.cGen
             /\ (<<"attempt", a>> \in hist'.stale => att'[a].gen < rt'.gen)
  <2>1. att[a].gen \in Nat /\ att'[a].gen \in {att[a].gen, 0}
    BY DEF TypeOK, Attempt
  <2>2. /\ att[a].gen <= rt.gen /\ att[a].gen <= rt.cGen
        /\ (<<"attempt", a>> \in hist.stale => att[a].gen < rt.gen)
    BY DEF AttGen
  <2> QED BY <1>1, <2>1, <2>2
<1> QED BY <1>2 DEF AttGen

LEMMA GenStep ==
  ASSUME TypeOK, Shape, RecGen, AttGen, [Next]_vars
  PROVE  RecGen' /\ AttGen'
<1>0. TypeOK' /\ rt \in Machine /\ rt.gen \in Nat /\ rt.cGen \in Nat
      /\ rt.rec \in BOOLEAN
  BY TypesStep DEF TypeOK, Machine
<1>1. CASE RunOwner
  <2>1. /\ rt'.gen = rt.gen /\ rt'.cGen = rt.cGen
        /\ \/ att' = att /\ hist' = hist /\ (rt'.rec => rt.rec)
           \/ /\ rt.rec
              /\ \E a \in Attempts :
                    /\ att'[a].gen = rt.gen
                    /\ \A b \in Attempts : b # a => att'[b] = att[b]
                    /\ hist'.stale = hist.stale \ {<<"attempt", a>>}
    <3>1. CASE att' = att /\ hist' = hist
      BY <1>1, <3>1, RunOwnerFacts
    <3>2. CASE \E a \in Attempts :
                    /\ att'[a].gen = rt.gen
                    /\ \A b \in Attempts : b # a => att'[b] = att[b]
                    /\ hist'.stale = hist.stale \ {<<"attempt", a>>}
      BY <1>1, <3>2, RunOwnerFacts
    <3> QED BY <1>1, <3>1, <3>2, RunOwnerFacts
  <2>2. RecGen'
    BY <2>1 DEF RecGen
  <2>3. CASE att' = att /\ hist' = hist
    BY <1>0, <2>1, <2>2, <2>3 DEF AttGen
  <2>4. CASE /\ rt.rec
             /\ \E a \in Attempts :
                    /\ att'[a].gen = rt.gen
                    /\ \A b \in Attempts : b # a => att'[b] = att[b]
                    /\ hist'.stale = hist.stale \ {<<"attempt", a>>}
    <3>1. PICK a \in Attempts :
                    /\ att'[a].gen = rt.gen
                    /\ \A b \in Attempts : b # a => att'[b] = att[b]
                    /\ hist'.stale = hist.stale \ {<<"attempt", a>>}
      BY <2>4
    <3>2. rt.gen = rt.cGen
      BY <2>4 DEF RecGen
    <3> QED BY <1>0, <2>1, <2>2, <3>1, <3>2 DEF AttGen
  <2> QED BY <2>1, <2>2, <2>3, <2>4
<1>2. CASE Notified \/ WatchdogFires \/ ResumeDue
  <2>1. /\ Losing
        /\ \/ SameCycle(rt', rt) /\ hist' = hist
           \/ ~rt'.rec /\ rt'.gen = rt.gen + 1 /\ rt'.cGen = rt.cGen /\ hist' = hist
           \/ LinkLost
    BY <1>2, NotifiedFacts, WatchdogFiresFacts, ResumeDueFacts DEF SameCycle
  <2>2. att' = att
    BY <2>1 DEF Losing
  <2>3. RecGen'
    BY <2>1 DEF RecGen, SameCycle, LinkLost
  <2>4. /\ rt.cGen <= rt'.cGen
        /\ \/ rt.gen <= rt'.gen /\ hist'.stale \subseteq hist.stale
           \/ rt'.gen = rt.gen + 1 \/ rt'.gen = rt.cGen + 1
    BY <1>0, <2>1 DEF SameCycle, LinkLost
  <2> QED BY <1>0, <2>2, <2>3, <2>4, GenKeep
<1>3. CASE \E l \in Losses : LostClosed(l) \/ LostDropped(l)
  <2>1. SameCycle(rt', rt) /\ hist' = hist /\ att' = att
    BY <1>3, LostClosedFacts, LostDroppedFacts DEF Hands, SameCycle
  <2> QED BY <1>0, <2>1 DEF RecGen, AttGen, SameCycle
<1>4. ASSUME NEW a \in Attempts, AttemptStep(a)  PROVE RecGen' /\ AttGen'
  <2>1. /\ rt.gen = rt'.gen /\ rt.cGen <= rt'.cGen
        /\ (rt'.rec => rt.rec /\ rt'.cGen = rt.cGen)
        /\ att'[a].gen \in {att[a].gen, 0} /\ hist'.stale = hist.stale
        /\ \A b \in Attempts : b # a => att'[b] = att[b]
    <3>1. CASE BackoffAborted(a)
      BY <1>0, <3>1, BackoffAbortedFacts, IdleTypes DEF SameCycle
    <3>2. CASE BackoffSuspended(a)
      BY <1>0, <3>2, BackoffSuspendedFacts, IdleTypes
    <3>3. CASE BackoffDone(a)
      BY <1>0, <3>3, BackoffDoneFacts, IdleTypes DEF SameCycle
    <3>4. CASE WorkOpenFails(a) \/ WorkOpens(a) \/ WorkUndone(a)
               \/ ConfigureFails(a) \/ Deadline(a) \/ AttemptCleaned(a)
      <4>1. Works(a) /\ SameCycle(rt', rt) /\ hist' = hist
        BY <3>4, WorkOpenFailsFacts, WorkOpensFacts, WorkUndoneFacts, ConfigureFailsFacts,
           DeadlineFacts, AttemptCleanedFacts
      <4> QED BY <1>0, <4>1 DEF Works, SameCycle
    <3>5. CASE ConfigureDone(a)
      <4>1. /\ Works(a) /\ rt'.gen = rt.gen /\ rt'.cGen = rt.cGen
            /\ hist'.stale = hist.stale /\ (~rt'.rec \/ rt'.rec = rt.rec)
        BY <3>5, ConfigureDoneFacts
      <4> QED BY ONLY <1>0, <4>1 DEF Works
    <3> QED BY <1>4, <3>1, <3>2, <3>3, <3>4, <3>5 DEF AttemptStep
  <2>2. RecGen'
    BY <2>1 DEF RecGen
  <2>3. /\ \A b \in Attempts : att'[b].gen \in {att[b].gen, 0}
        /\ rt.gen <= rt'.gen /\ hist'.stale \subseteq hist.stale
    BY <1>0, <2>1
  <2> QED BY <1>0, <2>1, <2>2, <2>3, GenKeep
<1>5. ASSUME NEW c \in Connects, Connect(c) \/ ConnectStep(c)  PROVE RecGen' /\ AttGen'
  <2>1. /\ Calls(c)
        /\ \/ ~rt'.rec
           \/ rt'.rec = rt.rec /\ rt'.gen = rt.gen /\ rt'.cGen = rt.cGen
        /\ rt.cGen <= rt'.cGen
        /\ \/ rt.gen <= rt'.gen /\ hist'.stale \subseteq hist.stale
           \/ rt'.gen = rt.gen + 1
    <3>1. CASE Connect(c)
      BY <1>0, <3>1, ConnectFacts DEF SameCycle
    <3>2. CASE ConnectPrepared(c)
      <4>1. Calls(c) /\ ~rt'.rec /\ rt'.gen = rt.gen + 1 /\ rt'.cGen = rt.cGen + 1
        BY <3>2, ConnectPreparedFacts
      <4> QED BY ONLY <1>0, <4>1
    <3>3. CASE ConnectOpenFails(c) \/ ConnectConfigureFails(c)
      BY <1>0, <3>3, ConnectOpenFailsFacts, ConnectConfigureFailsFacts DEF GivenUp
    <3>4. CASE ConnectOpens(c)
      BY <1>0, <3>4, ConnectOpensFacts DEF SameCycle
    <3>5. CASE ConnectConfigured(c)
      <4>1. Calls(c) /\ (GivenUp(c) \/ SameCycle(rt', rt)) /\ hist'.stale = hist.stale
        BY <3>5, ConnectConfiguredFacts
      <4> QED BY ONLY <1>0, <4>1 DEF GivenUp, SameCycle
    <3>6. CASE ConnectFailed(c)
      <4>1. Calls(c) /\ SameCycle(rt', rt) /\ hist' = hist
        BY <3>6, ConnectFailedFacts
      <4> QED BY ONLY <1>0, <4>1 DEF SameCycle
    <3> QED BY <1>5, <3>1, <3>2, <3>3, <3>4, <3>5, <3>6 DEF ConnectStep
  <2>2. RecGen'
    BY <2>1 DEF RecGen
  <2>3. att' = att
    BY <2>1 DEF Calls
  <2> QED BY <1>0, <2>1, <2>2, <2>3, GenKeep
<1>6. CASE Disconnect
  BY <1>0, <1>6, DisconnectFacts, GenKeep DEF RecGen
<1>7. CASE DisconnectEnds \/ SocketDrops \/ Resume
  <2>1. SameCycle(rt', rt) /\ hist' = hist /\ att' = att
    BY <1>7, DisconnectEndsFacts, SocketDropsFacts, ResumeFacts DEF SameCycle
  <2> QED BY <1>0, <2>1 DEF RecGen, AttGen, SameCycle
<1>8. CASE Suspend
  BY <1>0, <1>8, SuspendFacts, GenKeep DEF RecGen
<1>9. CASE UNCHANGED vars
  BY <1>9 DEF vars, RecGen, AttGen
<1> QED BY <1>1, <1>2, <1>3, <1>4, <1>5, <1>6, <1>7, <1>8, <1>9 DEF Next

LEMMA DistinctKeep ==
  ASSUME Distinct,
         \A a \in Attempts : att'[a].session \in {att[a].session, NoSession},
         \A c \in Connects : conn'[c].session \in {conn[c].session, NoSession}
  PROVE  Distinct'
BY DEF Distinct

LEMMA DistinctStep ==
  ASSUME TypeOK, Shape, Distinct, [Next]_vars
  PROVE  Distinct'
<1>1. CASE RunOwner
  <2>1. conn' = conn /\ \A a \in Attempts : att'[a].session \in {att[a].session, NoSession}
    <3>1. CASE att' = att
      BY <1>1, <3>1, RunOwnerFacts
    <3>2. CASE \E a \in Attempts :
                    /\ att'[a].session = NoSession
                    /\ \A b \in Attempts : b # a => att'[b] = att[b]
      BY <1>1, <3>2, RunOwnerFacts
    <3> QED BY <1>1, <3>1, <3>2, RunOwnerFacts
  <2> QED BY <2>1, DistinctKeep
<1>2. CASE Notified \/ WatchdogFires \/ ResumeDue
  <2>1. att' = att /\ conn' = conn
    BY <1>2, NotifiedFacts, WatchdogFiresFacts, ResumeDueFacts DEF Losing
  <2> QED BY <2>1, DistinctKeep
<1>3. CASE \E l \in Losses : LostClosed(l) \/ LostDropped(l)
  <2>1. att' = att /\ conn' = conn
    BY <1>3, LostClosedFacts, LostDroppedFacts
  <2> QED BY <2>1, DistinctKeep
<1>4. ASSUME NEW a \in Attempts, AttemptStep(a)  PROVE Distinct'
  <2>1. CASE WorkOpens(a)
    <3>1. Works(a) /\ att'[a].session = NewSession /\ NewSession \notin Held
      BY <2>1, WorkOpensFacts
    <3>2. /\ conn' = conn /\ \A b \in Attempts : b # a => att'[b] = att[b]
      BY <3>1 DEF Works
    <3>3. \A c \in Connects : conn[c].session # NewSession
      BY <3>1 DEF Held
    <3> QED BY ONLY <3>1, <3>2, <3>3, Distinct DEF Distinct
  <2>2. CASE ~WorkOpens(a)
    <3>1. /\ conn' = conn /\ att'[a].session \in {att[a].session, NoSession}
          /\ \A b \in Attempts : b # a => att'[b] = att[b]
      <4>1. CASE BackoffAborted(a) \/ BackoffSuspended(a)
        BY <4>1, BackoffAbortedFacts, BackoffSuspendedFacts, IdleTypes
      <4>2. CASE BackoffDone(a)
        BY <4>2, BackoffDoneFacts, IdleTypes
      <4>3. CASE WorkOpenFails(a)
        BY <4>3, WorkOpenFailsFacts DEF Works
      <4>4. CASE WorkUndone(a)
        BY <4>4, WorkUndoneFacts DEF Works
      <4>5. CASE ConfigureFails(a)
        BY <4>5, ConfigureFailsFacts DEF Works
      <4>6. CASE ConfigureDone(a)
        BY <4>6, ConfigureDoneFacts, IdleTypes DEF Works
      <4>7. CASE Deadline(a)
        BY <4>7, DeadlineFacts DEF Works
      <4>8. CASE AttemptCleaned(a)
        BY <4>8, AttemptCleanedFacts, IdleTypes DEF Works
      <4> QED BY <1>4, <2>2, <4>1, <4>2, <4>3, <4>4, <4>5, <4>6, <4>7, <4>8 DEF AttemptStep
    <3> QED BY <3>1, DistinctKeep
  <2> QED BY <2>1, <2>2
<1>5. ASSUME NEW c \in Connects, Connect(c) \/ ConnectStep(c)  PROVE Distinct'
  <2>1. CASE ConnectOpens(c)
    <3>1. Calls(c) /\ conn'[c].session = NewSession /\ NewSession \notin Held
      BY <2>1, ConnectOpensFacts
    <3>2. att' = att /\ \A b \in Connects : b # c => conn'[b] = conn[b]
      BY <3>1 DEF Calls
    <3>3. /\ \A b \in Connects : conn[b].session # NewSession
          /\ \A a \in Attempts : att[a].session # NewSession
      BY <3>1 DEF Held
    <3> QED BY ONLY <3>1, <3>2, <3>3, Distinct DEF Distinct
  <2>2. CASE ~ConnectOpens(c)
    <3>1. Calls(c) /\ conn'[c].session \in {conn[c].session, NoSession}
      <4>1. CASE Connect(c)
        BY <4>1, ConnectFacts
      <4>2. CASE ConnectPrepared(c)
        BY <4>2, ConnectPreparedFacts
      <4>3. CASE ConnectOpenFails(c) \/ ConnectConfigureFails(c)
        BY <4>3, ConnectOpenFailsFacts, ConnectConfigureFailsFacts, IdleTypes DEF GivenUp
      <4>4. CASE ConnectConfigured(c)
        BY <4>4, ConnectConfiguredFacts, IdleTypes DEF GivenUp
      <4>5. CASE ConnectFailed(c)
        BY <4>5, ConnectFailedFacts, IdleTypes
      <4> QED BY <1>5, <2>2, <4>1, <4>2, <4>3, <4>4, <4>5 DEF ConnectStep
    <3> QED BY <3>1, DistinctKeep DEF Calls
  <2> QED BY <2>1, <2>2
<1>6. CASE Disconnect
  BY <1>6, DisconnectFacts, DistinctKeep
<1>7. CASE DisconnectEnds \/ SocketDrops \/ Suspend \/ Resume
  <2>1. att' = att /\ conn' = conn
    BY <1>7, DisconnectEndsFacts, SocketDropsFacts, SuspendFacts, ResumeFacts
  <2> QED BY <2>1, DistinctKeep
<1>8. CASE UNCHANGED vars
  BY <1>8, DistinctKeep DEF vars
<1> QED BY <1>1, <1>2, <1>3, <1>4, <1>5, <1>6, <1>7, <1>8 DEF Next

(* What keeps a connect() attached, or takes its socket for good.           *)
Stays(c) ==
  \/ conn'[c].pc # "attaching"
  \/ Gone(c)'
  \/ /\ conn'[c].pc = conn[c].pc /\ conn'[c].session = conn[c].session
     /\ conn'[c].gen = conn[c].gen
     /\ ~Gone(c)
     /\ rt.gen <= rt'.gen
     /\ hist'.stale \subseteq hist.stale \/ rt.gen < rt'.gen
     /\ \/ gate' # <<>>
        \/ ~rt'.watchdog /\ conn[c].session \notin rt'.wired
        \/ /\ rt'.device = rt.device /\ rt'.wired \subseteq rt.wired
           /\ (rt'.watchdog => rt.watchdog) /\ (gate # <<>> => gate' # <<>>)

LEMMA AttachedKeep ==
  ASSUME TypeOK, TypeOK', NEW c \in Connects, Attached(c), Stays(c)
  PROVE  Attached(c)'
<1>1. CASE conn'[c].pc # "attaching" \/ Gone(c)'
  BY <1>1 DEF Attached
<1>2. CASE ~(conn'[c].pc # "attaching" \/ Gone(c)')
  <2>0. rt.gen \in Nat /\ rt'.gen \in Nat /\ conn[c].gen \in Nat /\ conn'[c].gen = conn[c].gen
    BY <1>2 DEF TypeOK, Machine, Connection, Stays
  <2>1. /\ \/ rt.device = conn[c].session
           \/ gate # <<>>
           \/ ~rt.watchdog /\ conn[c].session \notin rt.wired
        /\ conn[c].gen <= rt.gen
        /\ (<<"connect", c>> \in hist.stale => conn[c].gen < rt.gen)
        /\ conn'[c].session = conn[c].session
    BY <1>2 DEF Attached, Stays
  <2>2. /\ rt.gen <= rt'.gen
        /\ hist'.stale \subseteq hist.stale \/ rt.gen < rt'.gen
        /\ \/ gate' # <<>>
           \/ ~rt'.watchdog /\ conn[c].session \notin rt'.wired
           \/ /\ rt'.device = rt.device /\ rt'.wired \subseteq rt.wired
              /\ (rt'.watchdog => rt.watchdog) /\ (gate # <<>> => gate' # <<>>)
    BY <1>2 DEF Stays
  <2>3. \/ rt'.device = conn'[c].session
        \/ gate' # <<>>
        \/ ~rt'.watchdog /\ conn'[c].session \notin rt'.wired
    BY ONLY <2>1, <2>2
  <2>4. /\ conn'[c].gen <= rt'.gen
        /\ (<<"connect", c>> \in hist'.stale => conn'[c].gen < rt'.gen)
    BY ONLY <2>0, <2>1, <2>2
  <2> QED BY <2>3, <2>4 DEF Attached
<1> QED BY <1>1, <1>2

(* A session is not the socket's once the socket is closed or another's.    *)
LEMMA SocketGone ==
  ASSUME Shape', NEW c \in Connects, socket' = NoSession \/ socket' # conn'[c].session
  PROVE  conn'[c].pc # "attaching" \/ Gone(c)'
BY DEF Shape, ConnShape, Gone

LEMMA GoneKept ==
  ASSUME NEW c \in Connects, Gone(c), conn'[c].session = conn[c].session,
         socket' = socket, Opening => Opening'
  PROVE  Gone(c)'
BY DEF Gone

LEMMA StaysPut ==
  ASSUME TypeOK, TypeOK', NEW c \in Connects, Attached(c),
         conn'[c].pc = conn[c].pc /\ conn'[c].session = conn[c].session
           /\ conn'[c].gen = conn[c].gen,
         socket' = socket, Opening => Opening',
         rt.gen <= rt'.gen,
         hist'.stale \subseteq hist.stale \/ rt.gen < rt'.gen,
         \/ gate' # <<>>
         \/ ~rt'.watchdog /\ rt'.wired = {}
         \/ /\ rt'.device = rt.device /\ rt'.wired \subseteq rt.wired
            /\ (rt'.watchdog => rt.watchdog) /\ (gate # <<>> => gate' # <<>>)
  PROVE  Attached(c)'
<1>1. Stays(c)
  BY GoneKept DEF Stays
<1> QED BY <1>1, AttachedKeep

LEMMA ConnStep ==
  ASSUME TypeOK, TypeOK', Shape, Shape', SocketInv, AlarmInv, PowerInv, Distinct, ConnInv,
         [Next]_vars
  PROVE  ConnInv'
<1> SUFFICES ASSUME NEW c \in Connects  PROVE Attached(c)'
  BY DEF ConnInv
<1>0. /\ rt.gen \in Nat /\ rt'.gen \in Nat /\ rt.gen <= rt.gen /\ rt.gen < rt.gen + 1
      /\ rt.gen <= rt.gen + 1
  BY DEF TypeOK, Machine
<1>a. Attached(c)
  BY DEF ConnInv
<1>n. ASSUME socket' = NoSession  PROVE Attached(c)'
  BY <1>n, SocketGone DEF Attached
<1>1. CASE RunOwner
  <2>1. /\ conn' = conn /\ socket' = socket /\ gate' = gate /\ rt'.gen = rt.gen
        /\ hist'.stale \subseteq hist.stale
        /\ \/ ~rt'.watchdog /\ rt'.wired = {}
           \/ SameLink(rt', rt)
    BY <1>1, RunOwnerFacts
  <2>2. Opening => Opening'
    BY <2>1 DEF Opening
  <2> QED BY <1>0, <1>a, <2>1, <2>2, StaysPut DEF SameLink
<1>2. CASE Notified
  BY <1>2, <1>n, NotifiedFacts DEF Losing, AlarmInv
<1>3. CASE WatchdogFires
  <2>1. CASE rt' = rt /\ gate' = gate /\ socket' = socket /\ hist' = hist
    <3>1. conn' = conn
      BY <1>3, WatchdogFiresFacts DEF Losing
    <3>2. Opening => Opening'
      BY <2>1 DEF Opening
    <3> QED BY <1>0, <1>a, <2>1, <3>1, <3>2, StaysPut
  <2>2. CASE LinkLost
    <3>1. /\ conn' = conn /\ socket' \in {socket, NoSession} /\ (Opening => Opening')
          /\ (rt.device # NoSession => socket' = NoSession)
          /\ rt.watchdog /\ Prompt
      BY <1>3, <2>2, WatchdogFiresFacts DEF Losing, LinkLost
    <3>2. CASE rt.device # NoSession
      BY <1>n, <3>1, <3>2
    <3>3. CASE rt.device = NoSession
      <4>1. gate # <<>> => Opening
        <5>1. gate # <<>> => Head(gate) \in Ask
          BY DEF TypeOK
        <5> QED BY <3>1, <5>1 DEF Prompt, Opening, Ask
      <4>2. conn[c].pc = "attaching" => Gone(c)
        <5>1. conn[c].pc = "attaching" => conn[c].session # NoSession
          BY DEF Shape, ConnShape
        <5> QED BY <1>a, <3>1, <3>3, <4>1, <5>1 DEF Attached, Gone
      <4>3. CASE socket' = NoSession
        BY <1>n, <4>3
      <4>4. CASE socket' = socket
        BY <3>1, <4>2, <4>4, GoneKept DEF Attached
      <4> QED BY <3>1, <4>3, <4>4
    <3> QED BY <3>2, <3>3
  <2> QED BY <1>3, <2>1, <2>2, WatchdogFiresFacts
<1>4. CASE ResumeDue
  BY <1>4, ResumeDueFacts DEF Losing, PowerInv, Attached
<1>5. ASSUME NEW l \in Losses, LostClosed(l)  PROVE Attached(c)'
  <2>1. /\ conn' = conn /\ hist' = hist /\ socket' = socket
        /\ (Opening => Opening') /\ (gate # <<>> => gate' # <<>>)
        /\ rt'.gen = rt.gen /\ rt'.device = rt.device /\ rt'.watchdog = rt.watchdog
        /\ rt'.wired \subseteq rt.wired
    BY <1>5, LostClosedFacts DEF Hands, SameCycle
  <2> QED BY <1>0, <1>a, <2>1, StaysPut
<1>6. ASSUME NEW l \in Losses, LostDropped(l)  PROVE Attached(c)'
  BY <1>6, <1>n, LostDroppedFacts DEF SocketInv
<1>7. ASSUME NEW a \in Attempts, AttemptStep(a)  PROVE Attached(c)'
  <2>1. CASE BackoffAborted(a) \/ BackoffSuspended(a) \/ BackoffDone(a)
    <3>1. /\ conn' = conn /\ hist' = hist /\ socket' = socket
          /\ SameLink(rt', rt) /\ rt'.gen = rt.gen
          /\ gate' = gate \/ (gate' # <<>> /\ (Opening => Opening'))
      BY <2>1, BackoffAbortedFacts, BackoffSuspendedFacts, BackoffDoneFacts DEF SameCycle
    <3>2. Opening => Opening'
      BY <3>1 DEF Opening
    <3> QED BY <1>0, <1>a, <3>1, <3>2, StaysPut DEF SameLink
  <2>2. CASE WorkOpenFails(a) \/ WorkUndone(a) \/ AttemptCleaned(a)
    BY <2>2, <1>n, WorkOpenFailsFacts, WorkUndoneFacts, AttemptCleanedFacts DEF SocketInv
  <2>3. CASE WorkOpens(a)
    <3>1. conn' = conn /\ socket' = NewSession /\ NewSession \notin Held
      BY <2>3, WorkOpensFacts DEF Works
    <3>2. socket' # conn'[c].session
      BY <3>1 DEF Held
    <3> QED BY <3>2, SocketGone DEF Attached
  <2>4. CASE ConfigureFails(a) \/ Deadline(a)
    <3>1. /\ conn' = conn /\ hist' = hist /\ socket' = socket
          /\ (Opening => Opening')
          /\ rt'.gen = rt.gen
          /\ gate' # <<>> \/ rt' = rt
      BY <2>4, ConfigureFailsFacts, DeadlineFacts DEF Works, SameCycle, Cleans
    <3>2. gate # <<>> => gate' # <<>>
      BY <2>4, ConfigureFailsFacts, DeadlineFacts
    <3> QED BY <1>0, <1>a, <3>1, <3>2, StaysPut
  <2>5. CASE ConfigureDone(a)
    <3>1. conn' = conn /\ socket' = att[a].session /\ att[a].session # NoSession
      BY <2>5, ConfigureDoneFacts DEF Works
    <3>2. socket' # conn'[c].session
      BY <3>1 DEF Distinct
    <3> QED BY <3>2, SocketGone DEF Attached
  <2> QED BY <1>7, <2>1, <2>2, <2>3, <2>4, <2>5 DEF AttemptStep
<1>8. ASSUME NEW d \in Connects, Connect(d)  PROVE Attached(c)'
  <2>1. /\ Calls(d) /\ socket' = socket /\ gate' # <<>> /\ (Opening => Opening')
        /\ \/ SameCycle(rt', rt) /\ hist'.stale = hist.stale
           \/ rt'.gen = rt.gen + 1
        /\ conn'[d].pc \in {"preparing", "opening"}
    BY <1>8, ConnectFacts
  <2>2. CASE c = d
    BY <2>1, <2>2 DEF Attached
  <2>3. CASE c # d
    BY <1>0, <1>a, <2>1, <2>3, StaysPut DEF Calls, SameCycle
  <2> QED BY <2>2, <2>3
<1>9. ASSUME NEW d \in Connects, ConnectStep(d)  PROVE Attached(c)'
  <2>1. CASE ConnectPrepared(d) \/ ConnectOpenFails(d) \/ ConnectFailed(d)
    BY <2>1, <1>n, ConnectPreparedFacts, ConnectOpenFailsFacts, ConnectFailedFacts DEF SocketInv
  <2>2. CASE ConnectOpens(d)
    <3>1. /\ Calls(d) /\ socket' = NewSession /\ NewSession \notin Held
          /\ rt'.device = NewSession /\ rt'.gen = rt.gen
          /\ conn'[d].session = NewSession /\ conn'[d].gen = rt.gen
          /\ hist'.stale = hist.stale \ {<<"connect", d>>}
      BY <2>2, ConnectOpensFacts DEF SameCycle
    <3>2. CASE c = d
      BY <1>0, <3>1, <3>2 DEF Attached
    <3>3. CASE c # d
      <4>1. socket' # conn'[c].session
        BY <3>1, <3>3 DEF Held, Calls
      <4> QED BY <4>1, SocketGone DEF Attached
    <3> QED BY <3>2, <3>3
  <2>3. CASE ConnectConfigureFails(d)
    <3>1. /\ Calls(d) /\ GivenUp(d) /\ socket' = socket /\ (Opening => Opening')
      BY <2>3, ConnectConfigureFailsFacts
    <3>2. CASE c = d
      BY <3>1, <3>2, IdleTypes DEF Attached, GivenUp
    <3>3. CASE c # d
      BY <1>0, <1>a, <3>1, <3>3, StaysPut DEF Calls, GivenUp
    <3> QED BY <3>2, <3>3
  <2>4. CASE ConnectConfigured(d)
    <3>1. /\ Calls(d) /\ socket' = conn[d].session /\ conn[d].session # NoSession
          /\ GivenUp(d) \/ conn'[d] = IdleConnect
      BY <2>4, ConnectConfiguredFacts
    <3>2. CASE c = d
      BY <3>1, <3>2, IdleTypes DEF Attached, GivenUp
    <3>3. CASE c # d
      <4>1. socket' # conn'[c].session
        BY <3>1, <3>3 DEF Distinct, Calls
      <4> QED BY <4>1, SocketGone DEF Attached
    <3> QED BY <3>2, <3>3
  <2> QED BY <1>9, <2>1, <2>2, <2>3, <2>4 DEF ConnectStep
<1>10. CASE Disconnect
  <2>1. /\ conn'[c].pc = conn[c].pc /\ conn'[c].session = conn[c].session
        /\ conn'[c].gen = conn[c].gen
        /\ (Opening => Opening') /\ rt'.gen = rt.gen + 1
        /\ socket' \in {socket, NoSession}
        /\ \/ socket' = NoSession
           \/ gate' # <<>>
           \/ ~rt'.watchdog /\ rt'.wired = {}
    <3>1. fin' \in {"idle", "closing", "dropping"}
      BY DEF TypeOK
    <3> QED BY <1>10, <3>1, DisconnectFacts
  <2>2. CASE socket' = NoSession
    BY <1>n, <2>2
  <2>3. CASE socket' = socket
    BY <1>0, <1>a, <2>1, <2>2, <2>3, StaysPut
  <2> QED BY <2>1, <2>2, <2>3
<1>11. CASE DisconnectEnds
  <2>1. CASE socket' = NoSession
    BY <1>n, <2>1
  <2>2. CASE UNCHANGED <<gate, slots, socket>>
    <3>1. /\ conn' = conn /\ hist' = hist /\ rt'.gen = rt.gen
          /\ rt'.device = rt.device /\ rt'.watchdog = rt.watchdog /\ rt'.wired = {}
      BY <1>11, DisconnectEndsFacts DEF SameCycle
    <3>2. Opening => Opening'
      BY <2>2 DEF Opening
    <3> QED BY <1>0, <1>a, <2>2, <3>1, <3>2, StaysPut
  <2> QED BY <1>11, <2>1, <2>2, DisconnectEndsFacts DEF SocketInv
<1>12. CASE SocketDrops
  BY <1>12, <1>n, SocketDropsFacts
<1>13. CASE Suspend
  BY <1>13, SuspendFacts DEF Attached
<1>14. CASE Resume \/ UNCHANGED vars
  <2>1. conn' = conn /\ hist' = hist /\ rt' = rt /\ gate' = gate /\ socket' = socket
    BY <1>14, ResumeFacts DEF vars
  <2>2. Opening => Opening'
    BY <2>1 DEF Opening
  <2> QED BY <1>0, <1>a, <2>1, <2>2, StaysPut
<1> QED
  BY <1>1, <1>2, <1>3, <1>4, <1>5, <1>6, <1>7, <1>8, <1>9, <1>10, <1>11, <1>12, <1>13, <1>14
  DEF Next

LEMMA LateStep ==
  ASSUME LateInv, [Next]_vars
  PROVE  hist'.late = {}
<1>0. /\ TypeOK /\ Shape /\ AttGen /\ ConnInv
      /\ hist.late = {}
  BY DEF LateInv
<1>1. CASE RunOwner
  BY <1>0, <1>1, RunOwnerFacts
<1>2. CASE Notified \/ WatchdogFires \/ ResumeDue
  BY <1>0, <1>2, NotifiedFacts, WatchdogFiresFacts, ResumeDueFacts DEF Losing
<1>3. CASE \E l \in Losses : LostClosed(l) \/ LostDropped(l)
  BY <1>0, <1>3, LostClosedFacts, LostDroppedFacts
<1>4. ASSUME NEW a \in Attempts, AttemptStep(a)  PROVE hist'.late = {}
  <2>1. CASE ConfigureDone(a)
    <3>1. CASE hist'.late = hist.late
      BY <1>0, <3>1
    <3>2. CASE rt.gen = att[a].gen /\ (<<"attempt", a>> \notin hist.stale => hist'.late = hist.late)
      <4>1. att[a].gen \in Nat /\ (<<"attempt", a>> \in hist.stale => att[a].gen < rt.gen)
        BY <1>0 DEF AttGen, TypeOK, Attempt
      <4> QED BY ONLY <1>0, <3>2, <4>1
    <3> QED BY <1>0, <2>1, <3>1, <3>2, ConfigureDoneFacts
  <2>2. CASE ~ConfigureDone(a)
    <3>1. hist' = hist
      BY <1>0, <1>4, <2>2, BackoffAbortedFacts, BackoffSuspendedFacts, BackoffDoneFacts,
         WorkOpenFailsFacts, WorkOpensFacts, WorkUndoneFacts, ConfigureFailsFacts, DeadlineFacts,
         AttemptCleanedFacts DEF AttemptStep
    <3> QED BY <1>0, <3>1
  <2> QED BY <2>1, <2>2
<1>5. ASSUME NEW c \in Connects, Connect(c) \/ ConnectStep(c)  PROVE hist'.late = {}
  <2>1. CASE ConnectConfigured(c)
    <3>1. CASE hist'.late = hist.late
      BY <1>0, <3>1
    <3>2. CASE rt.gen = conn[c].gen /\ (<<"connect", c>> \notin hist.stale => hist'.late = hist.late)
      <4>1. conn[c].pc = "attaching" /\ ~Gone(c)
        BY <1>0, <2>1, ConnectConfiguredFacts DEF Gone
      <4>2. conn[c].gen \in Nat /\ (<<"connect", c>> \in hist.stale => conn[c].gen < rt.gen)
        BY <1>0, <4>1 DEF ConnInv, Attached, TypeOK, Connection
      <4> QED BY ONLY <1>0, <3>2, <4>2
    <3> QED BY <1>0, <2>1, <3>1, <3>2, ConnectConfiguredFacts
  <2>2. CASE ~ConnectConfigured(c)
    <3>1. hist'.late = hist.late
      BY <1>0, <1>5, <2>2, ConnectFacts, ConnectPreparedFacts, ConnectOpenFailsFacts,
         ConnectOpensFacts, ConnectConfigureFailsFacts, ConnectFailedFacts DEF ConnectStep
    <3> QED BY <1>0, <3>1
  <2> QED BY <2>1, <2>2
<1>6. CASE Disconnect \/ DisconnectEnds \/ SocketDrops \/ Suspend \/ Resume
  BY <1>0, <1>6, DisconnectFacts, DisconnectEndsFacts, SocketDropsFacts, SuspendFacts,
     ResumeFacts
<1>7. CASE UNCHANGED vars
  BY <1>0, <1>7 DEF vars
<1> QED BY <1>1, <1>2, <1>3, <1>4, <1>5, <1>6, <1>7 DEF Next

LEMMA InitLate ==
  ASSUME Init
  PROVE  LateInv
<1>1. TypeOK /\ Shape
  BY InitTypes
<1> QED BY <1>1 DEF Init, LateInv, RecGen, AttGen, SocketInv, AlarmInv, PowerInv, Distinct,
            ConnInv, Attached, IdleAttempt, IdleConnect

LEMMA LateInvStep ==
  ASSUME LateInv, [Next]_vars
  PROVE  LateInv'
<1>1. TypeOK' /\ Shape'
  BY TypesStep DEF LateInv
<1>2. RecGen' /\ AttGen' /\ Distinct' /\ PowerInv' /\ SocketInv' /\ AlarmInv'
  BY GenStep, DistinctStep, PowerStep, SocketStep DEF LateInv
<1>3. ConnInv'
  BY <1>1, ConnStep DEF LateInv
<1> QED BY <1>1, <1>2, <1>3, LateStep DEF LateInv

(* No attempt and no connect() that was superseded, by a link lost, a power *)
(* event or the user, ever reports success: with any number of tries, of    *)
(* sessions, attempts, teardowns and calls under way at once.               *)
THEOREM NoLateSuccessHolds == Spec => []NoLateSuccess
<1>1. LateInv => NoLateSuccess
  BY DEF LateInv, NoLateSuccess
<1> QED BY <1>1, InitLate, LateInvStep, PTL DEF Spec

-----------------------------------------------------------------------------
(* Nothing wedges.  The flags of the machine are worth something only as    *)
(* long as somebody is left to clear them: that is what follows, from the   *)
(* chain of the driver, where nobody waits twice, up to the cycle itself.   *)

(* Who asked is still waiting. *)
Asked(y, w, p) ==
  \/ y.kind = "work" /\ y.id \in Attempts /\ w[y.id].work = "opening"
  \/ y.kind = "connect" /\ y.id \in Connects /\ p[y.id].pc = "opening"

Opens(y) == y.op # "disconnect"

(* Every open in the chain has one party that waits for it, and one only.   *)
GateOk(g, w, p) ==
  /\ \A i \in 1..Len(g) : Opens(g[i]) => Asked(g[i], w, p)
  /\ \A i, j \in 1..Len(g) :
       i # j /\ Opens(g[i]) /\ Opens(g[j]) => g[i].kind # g[j].kind \/ g[i].id # g[j].id

GateInv == GateOk(gate, att, conn)

(* The chain becomes g, or g with a disconnect asked at its end. *)
Adds(g) == gate' = g \/ \E x \in Ask : x.op = "disconnect" /\ gate' = Append(g, x)

LEMMA FailsAdds ==
  ASSUME NEW a \in Attempts, NEW me, NEW r, NEW g, Fails(a, me, r, g)
  PROVE  Adds(g)
BY AskType DEF Fails, Adds, Asks

LEMMA RejectsAdds ==
  ASSUME NEW a \in Attempts, NEW r, NEW g, WorkRejects(a, r, g)
  PROVE  Adds(g)
BY FailsAdds DEF WorkRejects, Adds

LEMMA UndoesAdds ==
  ASSUME NEW a \in Attempts, NEW me, NEW r, NEW g, WorkUndoes(a, me, r, g)
  PROVE  Adds(g)
BY FailsAdds, AskType DEF WorkUndoes, Adds, Asks

LEMMA FailureAdds ==
  ASSUME NEW c \in Connects, NEW r, NEW g, ConnectFailure(c, r, g)
  PROVE  Adds(g)
BY AskType DEF ConnectFailure, Adds, Asks

LEMMA GateAppend ==
  ASSUME NEW g \in Seq(Ask), NEW w, NEW p, GateOk(g, w, p),
         NEW x \in Ask, NEW v, NEW q,
         \A y \in Ask : Asked(y, w, p) => Asked(y, v, q),
         Opens(x) => ~Asked(x, w, p) /\ Asked(x, v, q)
  PROVE  GateOk(Append(g, x), v, q)
<1> DEFINE n == Append(g, x)
<1>1. /\ Len(n) = Len(g) + 1 /\ n[Len(g) + 1] = x /\ Len(g) \in Nat
      /\ \A i \in 1..Len(g) : n[i] = g[i] /\ g[i] \in Ask
  OBVIOUS
<1>2. \A i \in 1..Len(n) : i \in 1..Len(g) \/ i = Len(g) + 1
  BY <1>1
<1> HIDE DEF n
<1>3. \A i \in 1..Len(g) : Opens(x) /\ Opens(g[i]) => g[i].kind # x.kind \/ g[i].id # x.id
  BY <1>1 DEF GateOk, Asked
<1>4. \A i \in 1..Len(n) : Opens(n[i]) => Asked(n[i], v, q)
  BY <1>1, <1>2 DEF GateOk
<1>5. ASSUME NEW i \in 1..Len(n), NEW j \in 1..Len(n), i # j, Opens(n[i]), Opens(n[j])
      PROVE  n[i].kind # n[j].kind \/ n[i].id # n[j].id
  <2>1. CASE i \in 1..Len(g) /\ j \in 1..Len(g)
    BY <1>1, <1>5, <2>1 DEF GateOk
  <2>2. CASE i \in 1..Len(g) /\ j = Len(g) + 1
    BY <1>1, <1>3, <1>5, <2>2
  <2>3. CASE i = Len(g) + 1 /\ j \in 1..Len(g)
    BY <1>1, <1>3, <1>5, <2>3
  <2> QED BY <1>2, <1>5, <2>1, <2>2, <2>3
<1>6. GateOk(n, v, q)
  BY <1>4, <1>5 DEF GateOk
<1> QED BY <1>6 DEF n

LEMMA GateTail ==
  ASSUME NEW g \in Seq(Ask), g # <<>>, NEW w, NEW p, GateOk(g, w, p),
         NEW v, NEW q,
         \A y \in Ask : Asked(y, w, p) => \/ Asked(y, v, q)
                                          \/ /\ Opens(Head(g))
                                             /\ y.kind = Head(g).kind /\ y.id = Head(g).id
  PROVE  GateOk(Tail(g), v, q)
<1> DEFINE n == Tail(g)
<1>1. /\ Len(g) \in Nat /\ 1 \in 1..Len(g) /\ Head(g) = g[1]
      /\ \A i \in 1..Len(n) : /\ n[i] = g[i + 1] /\ i + 1 \in 1..Len(g) /\ i + 1 # 1
                              /\ g[i + 1] \in Ask
  OBVIOUS
<1>2. \A i, j \in 1..Len(n) : i # j => i + 1 # j + 1
  OBVIOUS
<1> HIDE DEF n
<1>3. ASSUME NEW i \in 1..Len(n), Opens(n[i])
      PROVE  Asked(n[i], v, q)
  <2>1. Asked(n[i], w, p)
    BY <1>1, <1>3 DEF GateOk
  <2>2. Opens(Head(g)) => n[i].kind # Head(g).kind \/ n[i].id # Head(g).id
    BY <1>1, <1>3, SMTT(30) DEF GateOk
  <2> QED BY <1>1, <1>3, <2>1, <2>2
<1>4. \A i, j \in 1..Len(n) :
        i # j /\ Opens(n[i]) /\ Opens(n[j]) => n[i].kind # n[j].kind \/ n[i].id # n[j].id
  BY <1>1, <1>2, SMTT(30) DEF GateOk
<1>5. GateOk(n, v, q)
  BY <1>3, <1>4 DEF GateOk
<1> QED BY <1>5 DEF n

(* The chain's own three moves, for a step that keeps who waits.            *)
LEMMA GateStays ==
  ASSUME TypeOK, GateInv, Adds(gate),
         \A y \in Ask : Asked(y, att, conn) => Asked(y, att', conn')
  PROVE  GateInv'
<1>0. gate \in Seq(Ask)
  BY DEF TypeOK
<1>1. GateOk(gate, att', conn')
  <2>1. \A i \in 1..Len(gate) : gate[i] \in Ask
    BY <1>0
  <2> QED BY <2>1 DEF GateInv, GateOk
<1>2. CASE gate' = gate
  BY <1>1, <1>2 DEF GateInv
<1>3. CASE \E x \in Ask : x.op = "disconnect" /\ gate' = Append(gate, x)
  <2>1. PICK x \in Ask : x.op = "disconnect" /\ gate' = Append(gate, x)
    BY <1>3
  <2>2. ~Opens(x)
    BY <2>1 DEF Opens
  <2>3. GateOk(Append(gate, x), att', conn')
    BY ONLY <1>0, <1>1, <2>1, <2>2, GateAppend
  <2> QED BY <2>1, <2>3 DEF GateInv
<1> QED BY <1>2, <1>3 DEF Adds

LEMMA GateShrinks ==
  ASSUME TypeOK, GateInv, gate # <<>>, Adds(Tail(gate)),
         \A y \in Ask : Asked(y, att, conn)
           => \/ Asked(y, att', conn')
              \/ /\ Opens(Head(gate))
                 /\ y.kind = Head(gate).kind /\ y.id = Head(gate).id
  PROVE  GateInv'
<1> DEFINE g == Tail(gate)
<1>0. gate \in Seq(Ask) /\ g \in Seq(Ask)
  BY DEF TypeOK
<1>1. GateOk(g, att', conn')
  BY ONLY <1>0, gate # <<>>, GateInv, GateTail,
          \A y \in Ask : Asked(y, att, conn)
            => \/ Asked(y, att', conn')
               \/ /\ Opens(Head(gate))
                  /\ y.kind = Head(gate).kind /\ y.id = Head(gate).id
     DEF GateInv
<1>2. CASE gate' = g
  BY <1>1, <1>2 DEF GateInv
<1>3. CASE \E x \in Ask : x.op = "disconnect" /\ gate' = Append(g, x)
  <2>1. PICK x \in Ask : x.op = "disconnect" /\ gate' = Append(g, x)
    BY <1>3
  <2>2. ~Opens(x)
    BY <2>1 DEF Opens
  <2> HIDE DEF g
  <2>3. GateOk(Append(g, x), att', conn')
    BY ONLY <1>0, <1>1, <2>1, <2>2, GateAppend
  <2> QED BY <2>1, <2>3 DEF GateInv
<1> QED BY <1>2, <1>3 DEF Adds

LEMMA GateBreaks ==
  ASSUME TypeOK, GateInv, CloseSocket,
         \A y \in Ask : Asked(y, att, conn) => Asked(y, att', conn')
  PROVE  GateInv'
<1>0. gate \in Seq(Ask)
  BY DEF TypeOK
<1>1. CASE ~Opening
  BY <1>1, GateStays DEF CloseSocket, Adds
<1>2. CASE Opening
  <2>1. /\ gate # <<>> /\ Head(gate).op # "disconnect" /\ gate' = [gate EXCEPT ![1].op = "broken"]
        /\ Head(gate) = gate[1] /\ 1 \in 1..Len(gate)
        /\ \A i \in 1..Len(gate) : gate[i] \in Ask
    BY <1>0, <1>2 DEF CloseSocket, Opening
  <2>2. /\ Len(gate') = Len(gate)
        /\ \A i \in 1..Len(gate) : i # 1 => gate'[i] = gate[i]
        /\ gate'[1] = [gate[1] EXCEPT !.op = "broken"]
    BY <1>0, <2>1
  <2>3. gate'[1].kind = gate[1].kind /\ gate'[1].id = gate[1].id /\ Opens(gate[1])
    BY <2>1, <2>2 DEF Ask, Opens
  <2>4. \A i \in 1..Len(gate) :
          /\ gate'[i].kind = gate[i].kind /\ gate'[i].id = gate[i].id
          /\ (Opens(gate'[i]) => Opens(gate[i]))
    BY <2>2, <2>3
  <2>5. \A i \in 1..Len(gate) : Opens(gate[i]) => Asked(gate[i], att', conn')
    BY <2>1 DEF GateInv, GateOk
  <2>6. \A i \in 1..Len(gate') : Opens(gate'[i]) => Asked(gate'[i], att', conn')
    BY <2>2, <2>4, <2>5 DEF Asked
  <2>7. \A i, j \in 1..Len(gate') :
          i # j /\ Opens(gate'[i]) /\ Opens(gate'[j])
            => gate'[i].kind # gate'[j].kind \/ gate'[i].id # gate'[j].id
    BY <2>2, <2>4 DEF GateInv, GateOk
  <2> QED BY <2>6, <2>7 DEF GateInv, GateOk
<1> QED BY <1>1, <1>2

LEMMA GateLost ==
  ASSUME TypeOK, GateInv, NEW r, LoseLink(r), att' = att, conn' = conn
  PROVE  GateInv'
<1>1. CASE gate' = gate \/ \E x \in Ask : x.op = "disconnect" /\ gate' = Append(gate, x)
  BY <1>1, GateStays DEF Adds
<1>2. CASE CloseSocket
  BY <1>2, GateBreaks
<1>3. CASE \E l \in Losses : Enqueue("disconnect", "lost", l)
  BY <1>1, <1>3, AskType DEF Enqueue, Asks
<1> QED BY <1>1, <1>2, <1>3 DEF LoseLink


LEMMA AskedKept ==
  ASSUME \A b \in Attempts : att[b].work = "opening" => att'[b].work = "opening",
         \A d \in Connects : conn[d].pc = "opening" => conn'[d].pc = "opening"
  PROVE  \A y \in Ask : Asked(y, att, conn) => Asked(y, att', conn')
BY DEF Asked

LEMMA GateStep ==
  ASSUME TypeOK, Shape, GateInv, [Next]_vars
  PROVE  GateInv'
<1>0. gate \in Seq(Ask)
  BY DEF TypeOK
<1>s. ASSUME att' = att, conn' = conn, Adds(gate)  PROVE GateInv'
  BY <1>s, GateStays
<1>t. ASSUME att' = att, conn' = conn, gate # <<>>, gate' = Tail(gate)  PROVE GateInv'
  BY <1>t, GateShrinks DEF Adds
<1>1. CASE RunOwner
  <2>1. conn' = conn /\ gate' = gate
    BY <1>1, RunOwnerFacts
  <2>2. \A b \in Attempts : att[b].work = "opening" => att'[b].work = "opening"
    <3>1. CASE att' = att
      BY <3>1
    <3>2. CASE \E a \in Attempts : /\ att[a].work = "none"
                                   /\ \A b \in Attempts : b # a => att'[b] = att[b]
      BY <3>2
    <3> QED BY <1>1, <3>1, <3>2, RunOwnerFacts
  <2> QED BY <2>1, <2>2, AskedKept, GateStays DEF Adds
<1>2. CASE Notified \/ WatchdogFires \/ ResumeDue
  <2>1. att' = att /\ conn' = conn
    BY <1>2 DEF Notified, WatchdogFires, ResumeDue
  <2>2. CASE \E r : LoseLink(r)
    BY <2>1, <2>2, GateLost
  <2>3. CASE gate' = gate
    BY <1>s, <2>1, <2>3 DEF Adds
  <2> QED BY <1>2, <2>2, <2>3 DEF Notified, WatchdogFires, ResumeDue
<1>3. ASSUME NEW l \in Losses, LostClosed(l) \/ LostDropped(l)  PROVE GateInv'
  <2>1. CASE LostClosed(l)
    BY <1>s, <2>1, AskType DEF LostClosed, Adds, Enqueue, Asks
  <2>2. CASE LostDropped(l)
    BY <1>t, <2>2 DEF LostDropped, DriverDisconnects, IsHead
  <2> QED BY <1>3, <2>1, <2>2
<1>4. ASSUME NEW a \in Attempts, AttemptStep(a)  PROVE GateInv'
  <2>1. CASE BackoffAborted(a) \/ BackoffSuspended(a)
    <3>1. conn' = conn /\ gate' = gate /\ att[a].work # "opening"
          /\ \A b \in Attempts : b # a => att'[b] = att[b]
      BY <2>1, BackoffAbortedFacts, BackoffSuspendedFacts DEF Shape, AttShape
    <3> QED BY <3>1, AskedKept, GateStays DEF Adds
  <2>2. CASE BackoffDone(a)
    <3>1. conn' = conn /\ att[a].work = "none"
          /\ \A b \in Attempts : b # a => att'[b] = att[b]
      BY <2>2, BackoffDoneFacts DEF Shape, AttShape
    <3>2. CASE gate' = gate
      BY <3>1, <3>2, AskedKept, GateStays DEF Adds
    <3>3. CASE Enqueue("connect", "work", a) /\ att'[a].work = "opening"
      <4> DEFINE x == Asks("connect", "work", a)
      <4>1. /\ gate' = Append(gate, x) /\ x \in Ask /\ x.kind = "work" /\ x.id = a
        BY <3>3, AskType DEF Enqueue, Asks
      <4> HIDE DEF x
      <4>2. ~Asked(x, att, conn) /\ Asked(x, att', conn')
        BY <3>1, <3>3, <4>1 DEF Asked
      <4>3. \A y \in Ask : Asked(y, att, conn) => Asked(y, att', conn')
        BY <3>1, AskedKept
      <4> QED BY ONLY <1>0, GateInv, <4>1, <4>2, <4>3, GateAppend DEF GateInv
    <3>4. gate' = gate \/ (Enqueue("connect", "work", a) /\ att'[a].work = "opening")
      <4>1. CASE rt.inFlight
        BY <2>2, <4>1, ZenonT(120) DEF BackoffDone
      <4>2. CASE ~rt.inFlight
        BY <2>2, <4>2, BackoffDoneFacts DEF BackoffDone
      <4> QED BY <4>1, <4>2, ZenonT(120)
    <3> QED BY <3>2, <3>3, <3>4
  <2>3. CASE WorkOpenFails(a) \/ WorkOpens(a)
    <3>1. /\ conn' = conn /\ att[a].work = "opening"
          /\ \A b \in Attempts : b # a => att'[b] = att[b]
      BY <2>3, WorkOpenFailsFacts, WorkOpensFacts DEF Works
    <3>2. gate # <<>> /\ Opens(Head(gate)) /\ Head(gate).kind = "work" /\ Head(gate).id = a
      BY <2>3 DEF WorkOpenFails, WorkOpens, DriverConnects, IsHead, Asks, Opens
    <3>3. Adds(Tail(gate))
      <4>1. CASE WorkRejects(a, rt, Tail(gate))
        BY <4>1, RejectsAdds
      <4>2. CASE \E me, r : WorkUndoes(a, me, r, Tail(gate))
        BY <4>2, UndoesAdds
      <4>3. CASE gate' = Tail(gate)
        BY <4>3 DEF Adds
      <4> QED BY <2>3, <4>1, <4>2, <4>3 DEF WorkOpenFails, WorkOpens
    <3>4. \A y \in Ask : Asked(y, att, conn)
            => \/ Asked(y, att', conn')
               \/ /\ Opens(Head(gate))
                  /\ y.kind = Head(gate).kind /\ y.id = Head(gate).id
      BY <3>1, <3>2 DEF Asked
    <3> QED BY ONLY TypeOK, GateInv, <3>2, <3>3, <3>4, GateShrinks
  <2>4. CASE WorkUndone(a) \/ AttemptCleaned(a)
    <3>1. /\ conn' = conn /\ att[a].work # "opening"
          /\ \A b \in Attempts : b # a => att'[b] = att[b]
      BY <2>4, WorkUndoneFacts, AttemptCleanedFacts DEF Works, Shape, AttShape
    <3>2. gate # <<>> /\ Adds(Tail(gate))
      BY <2>4, RejectsAdds
      DEF WorkUndone, AttemptCleaned, DriverDisconnects, IsHead, Adds
    <3>3. \A y \in Ask : Asked(y, att, conn) => Asked(y, att', conn')
      BY <3>1, AskedKept
    <3> QED BY ONLY TypeOK, GateInv, <3>2, <3>3, GateShrinks
  <2>5. CASE ConfigureFails(a) \/ ConfigureDone(a) \/ Deadline(a)
    <3>1. /\ conn' = conn /\ att[a].work # "opening"
          /\ \A b \in Attempts : b # a => att'[b] = att[b]
      BY <2>5, ConfigureFailsFacts, ConfigureDoneFacts, DeadlineFacts DEF Works, Deadline
    <3>2. Adds(gate)
      BY <2>5, RejectsAdds, UndoesAdds, FailsAdds
      DEF ConfigureFails, ConfigureDone, Deadline, Adds
    <3> QED BY <3>1, <3>2, AskedKept, GateStays
  <2> QED BY <1>4, <2>1, <2>2, <2>3, <2>4, <2>5 DEF AttemptStep
<1>5. ASSUME NEW c \in Connects, Connect(c)  PROVE GateInv'
  <2>1. /\ att' = att /\ conn[c].pc = "idle" /\ \A d \in Connects : d # c => conn'[d] = conn[d]
    BY <1>5, ConnectFacts DEF Calls
  <2>2. \A y \in Ask : Asked(y, att, conn) => Asked(y, att', conn')
    BY <2>1, AskedKept
  <2>3. CASE Enqueue("disconnect", "connect", c)
    BY <2>2, <2>3, GateStays, AskType DEF Enqueue, Adds, Asks
  <2>4. CASE Enqueue("connect", "connect", c) /\ conn'[c].pc = "opening"
    <3> DEFINE x == Asks("connect", "connect", c)
    <3>1. /\ gate' = Append(gate, x) /\ x \in Ask /\ x.kind = "connect" /\ x.id = c
      BY <2>4, AskType DEF Enqueue, Asks
    <3> HIDE DEF x
    <3>2. ~Asked(x, att, conn) /\ Asked(x, att', conn')
      BY <2>1, <2>4, <3>1 DEF Asked
    <3> QED BY ONLY <1>0, GateInv, <2>2, <3>1, <3>2, GateAppend DEF GateInv
  <2>5. \/ Enqueue("disconnect", "connect", c)
        \/ Enqueue("connect", "connect", c) /\ conn' = [conn EXCEPT ![c].pc = "opening"]
    BY <1>5 DEF Connect
  <2>6. conn' = [conn EXCEPT ![c].pc = "opening"] => conn'[c].pc = "opening"
    BY DEF TypeOK, Connection
  <2> QED BY <2>3, <2>4, <2>5, <2>6
<1>6. ASSUME NEW c \in Connects, ConnectStep(c)  PROVE GateInv'
  <2>1. CASE ConnectPrepared(c)
    <3> DEFINE x == Asks("connect", "connect", c)
    <3>1. /\ gate' = Append(Tail(gate), x) /\ gate # <<>> /\ conn'[c].pc = "opening"
          /\ conn[c].pc # "opening" /\ att' = att
          /\ \A d \in Connects : d # c => conn'[d] = conn[d]
      BY <2>1, ConnectPreparedFacts DEF ConnectPrepared, DriverDisconnects, IsHead, Calls
    <3>2. x \in Ask /\ x.kind = "connect" /\ x.id = c
      BY AskType DEF Asks
    <3> HIDE DEF x
    <3>3. ~Asked(x, att, conn) /\ Asked(x, att', conn')
      BY <3>1, <3>2 DEF Asked
    <3>4. \A y \in Ask : Asked(y, att, conn) => Asked(y, att', conn')
      BY <3>1, AskedKept
    <3>5. GateOk(Tail(gate), att, conn) /\ Tail(gate) \in Seq(Ask)
      <4>1. \A y \in Ask : Asked(y, att, conn) => Asked(y, att, conn)
        OBVIOUS
      <4>2. Tail(gate) \in Seq(Ask)
        BY <1>0, <3>1
      <4> QED BY ONLY <1>0, GateInv, <3>1, <4>1, <4>2, GateTail DEF GateInv
    <3>6. GateOk(Append(Tail(gate), x), att', conn')
      BY ONLY <3>2, <3>3, <3>4, <3>5, GateAppend
    <3> QED BY <3>1, <3>6 DEF GateInv
  <2>2. CASE ConnectOpenFails(c) \/ ConnectOpens(c)
    <3>1. /\ att' = att /\ conn[c].pc = "opening"
          /\ \A d \in Connects : d # c => conn'[d] = conn[d]
      BY <2>2, ConnectOpenFailsFacts, ConnectOpensFacts DEF Calls
    <3>2. gate # <<>> /\ Opens(Head(gate)) /\ Head(gate).kind = "connect" /\ Head(gate).id = c
      BY <2>2 DEF ConnectOpenFails, ConnectOpens, DriverConnects, IsHead, Asks, Opens
    <3>3. Adds(Tail(gate))
      BY <2>2, FailureAdds DEF ConnectOpenFails, ConnectOpens, Adds
    <3>4. \A y \in Ask : Asked(y, att, conn)
            => \/ Asked(y, att', conn')
               \/ /\ Opens(Head(gate))
                  /\ y.kind = Head(gate).kind /\ y.id = Head(gate).id
      BY <3>1, <3>2 DEF Asked
    <3> QED BY ONLY TypeOK, GateInv, <3>2, <3>3, <3>4, GateShrinks
  <2>3. CASE ConnectConfigureFails(c) \/ ConnectConfigured(c)
    <3>1. /\ att' = att /\ conn[c].pc = "attaching"
          /\ \A d \in Connects : d # c => conn'[d] = conn[d]
      BY <2>3, ConnectConfigureFailsFacts, ConnectConfiguredFacts DEF Calls
    <3>2. Adds(gate)
      BY <2>3, FailureAdds DEF ConnectConfigureFails, ConnectConfigured, Adds
    <3> QED BY <3>1, <3>2, AskedKept, GateStays
  <2>4. CASE ConnectFailed(c)
    <3>1. /\ att' = att /\ conn[c].pc = "failing"
          /\ \A d \in Connects : d # c => conn'[d] = conn[d]
      BY <2>4, ConnectFailedFacts DEF Calls
    <3>2. gate # <<>> /\ Adds(Tail(gate))
      BY <2>4 DEF ConnectFailed, DriverDisconnects, IsHead, Adds
    <3>3. \A y \in Ask : Asked(y, att, conn) => Asked(y, att', conn')
      BY <3>1, AskedKept
    <3> QED BY ONLY TypeOK, GateInv, <3>2, <3>3, GateShrinks
  <2> QED BY <1>6, <2>1, <2>2, <2>3, <2>4 DEF ConnectStep
<1>7. CASE Disconnect
  <2>1. att' = att /\ \A c \in Connects : conn'[c].pc = conn[c].pc
    BY <1>7, DisconnectFacts
  <2>2. \A y \in Ask : Asked(y, att, conn) => Asked(y, att', conn')
    BY <2>1, AskedKept
  <2>3. CASE Enqueue("disconnect", "fin", 0)
    BY <2>2, <2>3, GateStays, AskType DEF Enqueue, Adds, Asks
  <2>4. CASE CloseSocket
    BY <2>2, <2>4, GateBreaks
  <2>5. CASE gate' = gate
    BY <2>2, <2>5, GateStays DEF Adds
  <2>6. \/ Enqueue("disconnect", "fin", 0) \/ CloseSocket \/ gate' = gate
    BY <1>7 DEF Disconnect
  <2> QED BY <2>3, <2>4, <2>5, <2>6
<1>8. CASE DisconnectEnds
  <2>1. CASE UNCHANGED <<gate, slots, socket>>
    BY <1>8, <1>s, <2>1 DEF DisconnectEnds, Adds
  <2>2. CASE DriverDisconnects("fin", 0) /\ gate' = Tail(gate)
    BY <1>8, <1>t, <2>2 DEF DisconnectEnds, DriverDisconnects, IsHead
  <2> QED BY <1>8, <2>1, <2>2 DEF DisconnectEnds
<1>9. CASE SocketDrops \/ Suspend \/ Resume \/ UNCHANGED vars
  BY <1>9, <1>s DEF SocketDrops, Suspend, Resume, vars, flows, Adds
<1> QED BY <1>1, <1>2, <1>3, <1>4, <1>5, <1>6, <1>7, <1>8, <1>9 DEF Next

-----------------------------------------------------------------------------
(* What the steps of an attempt that has left its back-off do, in five      *)
(* kinds.                                                                   *)

SameRun(n, r) ==
  /\ n.rec = r.rec /\ n.gen = r.gen /\ n.explicit = r.explicit /\ n.params = r.params
SameWires(n, r) ==
  n.wired = r.wired /\ n.watched = r.watched

(* It goes on where it is. *)
Stands(a) ==
  /\ SameRun(rt', rt) /\ SameFlags(rt', rt) /\ SameWires(rt', rt)
  /\ rt'.device = rt.device
  /\ att'[a].pc = att[a].pc /\ att'[a].work # "configuring"
  /\ (rt'.ui = rt.ui \/ rt'.ui = "connected")
  /\ \/ rt'.watchdog = rt.watchdog
     \/ /\ rt'.watchdog /\ rt.wired # {} /\ att[a].pc # "idle"
        /\ (fin # "idle" => hist'.crossed)

(* It starts to clean up after a failure. *)
TidiesUp(a) ==
  /\ SameRun(rt', rt) /\ SameFlags(rt', rt) /\ SameWires(rt', rt)
  /\ rt'.device = NoSession /\ rt'.ui = rt.ui /\ rt'.watchdog = rt.watchdog
  /\ att[a].pc = "open" /\ att'[a].pc = "cleanup"

(* It ends with an error. *)
EndsBadly(a) ==
  /\ SameRun(rt', rt) /\ rt'.device \in {rt.device, NoSession}
  /\ rt'.ui = rt.ui /\ rt'.watchdog = rt.watchdog
  /\ att[a].pc \in {"open", "cleanup"} /\ HandsOver(a)

(* It attaches the session it opened. *)
Attaches(a) ==
  /\ SameRun(rt', rt) /\ SameFlags(rt', rt)
  /\ rt'.ui = rt.ui /\ rt'.watchdog = rt.watchdog
  /\ att[a].pc = "open" /\ att'[a].pc = "open" /\ att[a].gen = rt.gen
  /\ rt'.device = att'[a].session

(* It ends with a session. *)
EndsWell(a) ==
  /\ att[a].pc = "open" /\ att[a].work = "configuring" /\ att[a].session # NoSession
  /\ att[a].gen = rt.gen
  /\ att'[a].pc = "idle"
  /\ rt'.gen = rt.gen /\ rt'.explicit = rt.explicit /\ rt'.params = rt.params
  /\ rt'.device = rt.device /\ SameWires(rt', rt)
  /\ ~rt'.rec /\ ~rt'.cRec /\ ~rt'.active /\ rt'.pend = rt.pend
  /\ ~rt'.inFlight /\ rt'.ui = "connected"

WorkStep(a) ==
  \/ WorkOpenFails(a) \/ WorkOpens(a) \/ WorkUndone(a)
  \/ ConfigureFails(a) \/ ConfigureDone(a)
  \/ Deadline(a) \/ AttemptCleaned(a)

Moved(a) ==
  /\ Macro /\ UNCHANGED <<lost, conn, fin, power>> /\ rt'.alarm = rt.alarm
  /\ hist'.stale = hist.stale
  /\ att[a] # IdleAttempt /\ att[a].pc # "backoff"
  /\ (att'[a].pc # "idle" => att'[a].gen = att[a].gen)
  /\ \A b \in Attempts : b # a => att'[b] = att[b]

LEMMA WorkMoves ==
  ASSUME TypeOK, Shape, NEW a \in Attempts, WorkStep(a)
  PROVE  /\ Moved(a)
         /\ \/ Stands(a) \/ TidiesUp(a) \/ EndsBadly(a) \/ Attaches(a) \/ EndsWell(a)
<1>0. att[a].work # "none" \/ att[a].pc # "idle" => att[a] # IdleAttempt
  BY IdleTypes
<1>1. CASE WorkOpenFails(a)
  <2>1. Cleans(a) => TidiesUp(a)
    BY <1>1, WorkOpenFailsFacts DEF Cleans, TidiesUp, SameRun, SameCycle, SameWires
  <2>2. HandsOver(a) => EndsBadly(a)
    BY <1>1, WorkOpenFailsFacts DEF EndsBadly, SameRun, SameCycle
  <2> QED BY <1>0, <1>1, <2>1, <2>2, WorkOpenFailsFacts DEF Moved, Works
<1>2. CASE WorkOpens(a)
  <2>1. Stands(a) \/ Attaches(a)
    BY <1>2, WorkOpensFacts
    DEF Stands, Attaches, SameRun, SameCycle, SameWires
  <2> QED BY <1>0, <1>2, <2>1, WorkOpensFacts DEF Moved, Works
<1>3. CASE WorkUndone(a)
  <2>1. Stands(a) \/ EndsBadly(a)
    <3>1. CASE att[a].pc = "open"
      BY <1>3, <3>1, WorkUndoneFacts DEF EndsBadly, SameRun, SameCycle
    <3>2. CASE att[a].pc # "open"
      BY <1>3, <3>2, WorkUndoneFacts DEF Stands, SameRun, SameFlags, SameWires
    <3> QED BY <3>1, <3>2
  <2> QED BY <1>0, <1>3, <2>1, WorkUndoneFacts DEF Moved, Works
<1>4. CASE ConfigureFails(a)
  <2>1. Stands(a) \/ TidiesUp(a)
    BY <1>4, ConfigureFailsFacts
    DEF Cleans, Stands, TidiesUp, SameRun, SameCycle, SameFlags, SameWires
  <2> QED BY <1>0, <1>4, <2>1, ConfigureFailsFacts DEF Moved, Works
<1>5. CASE ConfigureDone(a)
  <2>1. Stands(a) \/ EndsWell(a)
    BY <1>5, ConfigureDoneFacts, IdleTypes, ZenonT(120)
    DEF Stands, EndsWell, SameRun, SameFlags, SameWires
  <2>2. att[a].pc # "idle" /\ att[a].pc # "backoff"
    BY <1>5, ConfigureDoneFacts
  <2> QED BY <1>0, <1>5, <2>1, <2>2, ConfigureDoneFacts DEF Moved, Works
<1>6. CASE Deadline(a)
  <2>1. TidiesUp(a) \/ EndsBadly(a)
    BY <1>6, DeadlineFacts
    DEF Cleans, TidiesUp, EndsBadly, SameRun, SameCycle, SameWires
  <2> QED BY <1>0, <1>6, <2>1, DeadlineFacts DEF Moved, Works
<1>7. CASE AttemptCleaned(a)
  <2>1. EndsBadly(a)
    BY <1>7, AttemptCleanedFacts DEF EndsBadly, SameRun, SameCycle
  <2> QED BY <1>0, <1>7, <2>1, AttemptCleanedFacts DEF Moved, Works
<1> QED BY <1>1, <1>2, <1>3, <1>4, <1>5, <1>6, <1>7 DEF WorkStep

(* What a listener, the watchdog and the timer of the resume do: nothing    *)
(* once the user has ended the session, or before there was one, and else   *)
(* they lose the link.                                                      *)
EndedParams == rt.explicit => ~rt.params

Ignores ==
  /\ SameRun(rt', rt) /\ SameFlags(rt', rt) /\ SameWires(rt', rt)
  /\ rt'.device = rt.device /\ rt'.watchdog = rt.watchdog /\ rt'.ui = rt.ui
  /\ rt'.alarm \subseteq rt.alarm
  /\ gate' = gate /\ lost' = lost /\ hist' = hist
  /\ rt.explicit \/ ~rt.params

Event ==
  /\ UNCHANGED <<att, conn, fin>>
  /\ power'.asleep = power.asleep /\ (power'.due => power.due)
  /\ rt'.alarm \subseteq rt.alarm

LosesLink ==
  /\ LinkLost /\ ~rt'.explicit
  /\ rt'.ui = rt.ui /\ rt'.active = rt.active /\ rt'.inFlight = rt.inFlight
  /\ rt.alarm # {} \/ (Noticed /\ (rt.watchdog \/ power.due))

LEMMA LosingMoves ==
  ASSUME TypeOK, Shape, EndedParams, Notified \/ WatchdogFires \/ ResumeDue
  PROVE  Event /\ (Ignores \/ LosesLink)
<1>1. CASE Notified
  <2>1. UNCHANGED <<att, conn, fin, power>> /\ rt.alarm # {} /\ rt'.alarm \subseteq rt.alarm
        /\ rt'.ui = rt.ui /\ rt'.explicit = rt.explicit
        /\ rt'.active = rt.active /\ rt'.inFlight = rt.inFlight
    BY <1>1, NotifiedFacts DEF Losing
  <2>2. Ignores \/ LinkLost
    BY <1>1, NotifiedFacts
    DEF Losing, Ignores, SameCycle, SameRun, SameFlags, SameWires
  <2> QED BY <2>1, <2>2 DEF Event, LosesLink, LinkLost
<1>2. CASE WatchdogFires
  <2>1. UNCHANGED <<att, conn, fin, power>> /\ rt'.alarm = rt.alarm /\ Noticed /\ rt.watchdog
        /\ rt'.ui = rt.ui /\ rt'.explicit = rt.explicit
        /\ rt'.active = rt.active /\ rt'.inFlight = rt.inFlight
    BY <1>2, WatchdogFiresFacts DEF Losing
  <2>2. Ignores \/ LinkLost
    BY <1>2, WatchdogFiresFacts DEF Ignores, SameRun, SameFlags, SameWires
  <2> QED BY <2>1, <2>2 DEF Event, LosesLink, LinkLost
<1>3. CASE ResumeDue
  <2>1. UNCHANGED <<att, conn, fin>> /\ rt'.alarm = rt.alarm /\ Noticed /\ power.due
        /\ ~power'.due /\ power'.asleep = power.asleep
        /\ rt'.ui = rt.ui /\ rt'.explicit = rt.explicit
        /\ rt'.active = rt.active /\ rt'.inFlight = rt.inFlight
    BY <1>3, ResumeDueFacts DEF Losing
  <2>2. Ignores \/ LinkLost
    BY <1>3, ResumeDueFacts, EndedParams
    DEF Ignores, EndedParams, SameRun, SameFlags, SameWires
  <2> QED BY <2>1, <2>2 DEF Event, LosesLink, LinkLost
<1> QED BY <1>1, <1>2, <1>3

(* What the steps of a connect() that is under way do.                      *)

(* It fails, or finds itself superseded. *)
Failing(c) == conn[c].pc \in {"opening", "attaching"} /\ GivenUp(c)

(* It has its session. *)
Holding(c) ==
  /\ conn[c].pc = "attaching" /\ conn'[c].pc = "idle" /\ conn[c].gen = rt.gen
  /\ SameRun(rt', rt) /\ SameFlags(rt', rt) /\ SameWires(rt', rt)
  /\ rt'.device = rt.device
  /\ socket = conn[c].session /\ ~Opening
  /\ (socket \in rt.wired => rt'.watchdog /\ rt'.ui = "connected")
  /\ (socket \notin rt.wired => rt' = rt)

Called(c) ==
  /\ Macro /\ UNCHANGED <<att, lost, fin, power>> /\ rt'.alarm = rt.alarm
  /\ \A d \in Connects : d # c => conn'[d] = conn[d]

LEMMA ConnectMoves ==
  ASSUME TypeOK, Shape, NEW c \in Connects, ConnectStep(c)
  PROVE  /\ Called(c)
         /\ \/ ConnectPrepared(c) \/ ConnectOpens(c) \/ ConnectFailed(c)
            \/ (Failing(c) \/ Holding(c)) /\ hist'.stale = hist.stale
<1>1. CASE ConnectPrepared(c)
  BY <1>1, ConnectPreparedFacts DEF Called, Calls
<1>2. CASE ConnectOpenFails(c)
  BY <1>2, ConnectOpenFailsFacts DEF Called, Calls, Failing
<1>3. CASE ConnectOpens(c)
  BY <1>3, ConnectOpensFacts DEF Called, Calls
<1>4. CASE ConnectConfigureFails(c)
  BY <1>4, ConnectConfigureFailsFacts DEF Called, Calls, Failing
<1>5. CASE ConnectConfigured(c)
  <2>1. Failing(c) \/ Holding(c)
    BY <1>5, ConnectConfiguredFacts, IdleTypes
    DEF Failing, Holding, SameRun, SameCycle, SameFlags, SameWires
  <2> QED BY <1>5, <2>1, ConnectConfiguredFacts DEF Called, Calls
<1>6. CASE ConnectFailed(c)
  BY <1>6, ConnectFailedFacts DEF Called, Calls
<1> QED BY <1>1, <1>2, <1>3, <1>4, <1>5, <1>6 DEF ConnectStep

(* Once a call has met the leftovers of another, that is so for good.       *)
LEMMA CrossedKept ==
  ASSUME TypeOK, Shape, [Next]_vars, Uncrossed'
  PROVE  Uncrossed
<1>0. hist \in History
  BY DEF TypeOK, History
<1>1. ASSUME NEW kind, NEW i, Starts(kind, i)  PROVE hist'.crossed = hist.crossed
  BY <1>0, <1>1 DEF Starts, History
<1>2. ASSUME NEW kind, NEW i, Succeeds(kind, i)  PROVE hist'.crossed = hist.crossed
  BY <1>0, <1>2 DEF Succeeds, History
<1>3. CASE RunOwner
  BY <1>3, RunOwnerFacts DEF Uncrossed
<1>4. CASE Notified \/ WatchdogFires \/ ResumeDue
  BY <1>4, NotifiedFacts, WatchdogFiresFacts, ResumeDueFacts DEF Losing, Uncrossed
<1>5. ASSUME NEW a \in Attempts, AttemptStep(a)  PROVE Uncrossed
  <2>1. CASE ConfigureDone(a)
    BY <1>5, <2>1, ConfigureDoneFacts DEF Uncrossed
  <2> QED BY <1>5, <2>1
      DEF AttemptStep, Uncrossed, BackoffAborted, BackoffSuspended, BackoffDone,
          WorkOpenFails, WorkOpens, WorkUndone, ConfigureFails, Deadline, AttemptCleaned
<1>6. ASSUME NEW c \in Connects, Connect(c)  PROVE Uncrossed
  BY <1>6, ConnectFacts DEF Uncrossed
<1>7. ASSUME NEW c \in Connects, ConnectStep(c)  PROVE Uncrossed
  BY <1>7, ConnectPreparedFacts, ConnectOpenFailsFacts, ConnectOpensFacts,
     ConnectConfigureFailsFacts, ConnectConfiguredFacts, ConnectFailedFacts
  DEF ConnectStep, Uncrossed
<1>8. CASE Disconnect
  BY <1>8, DisconnectFacts DEF Uncrossed
<1>9. CASE Suspend
  BY <1>9, SuspendFacts DEF Uncrossed
<1>10. CASE \/ DisconnectEnds \/ SocketDrops \/ Resume \/ UNCHANGED vars
            \/ \E l \in Losses : LostClosed(l) \/ LostDropped(l)
  BY <1>10 DEF DisconnectEnds, SocketDrops, Resume, vars, LostClosed, LostDropped, Uncrossed
<1> QED BY <1>3, <1>4, <1>5, <1>6, <1>7, <1>8, <1>9, <1>10 DEF Next

(* It opens its session and attaches it. *)
Attaching(c) ==
  /\ conn[c].pc = "opening" /\ conn'[c].pc = "attaching"
  /\ SameRun(rt', rt) /\ SameFlags(rt', rt)
  /\ rt'.ui = rt.ui /\ rt'.watchdog = rt.watchdog
  /\ rt'.device = conn'[c].session /\ rt'.device # NoSession
  /\ rt'.wired = rt.wired \cup {rt'.device}
  /\ hist'.stale = hist.stale \ {<<"connect", c>>}

LEMMA ConnectOpensMoves ==
  ASSUME TypeOK, Shape, NEW c \in Connects, ConnectOpens(c)
  PROVE  Attaching(c)
<1> DEFINE s == NewSession
<1>0. s = NewSession
  OBVIOUS
<1> HIDE DEF s
<1> QED BY <1>0, ConnectOpensFacts DEF Attaching, SameCycle, SameRun

(* What connect() does at its call: it lets go of what is held first, or    *)
(* opens at once.                                                           *)
Calling(c) ==
  /\ Called(c) /\ Prompt /\ rt.ui = "disconnected" /\ conn[c].pc = "idle"
  /\ ~power.asleep /\ ~power.due /\ rt'.device = NoSession
  /\ (Uncrossed' => /\ fin = "idle" /\ \A a \in Attempts : att[a] = IdleAttempt
                    /\ \A d \in Connects : conn[d].pc = "idle")
Unhooks == rt'.wired = {} /\ rt'.watched = {} /\ ~rt'.watchdog
Resets ==
  /\ ~rt'.rec /\ ~rt'.cRec /\ ~rt'.active /\ ~rt'.pend /\ ~rt'.inFlight
  /\ rt'.gen = rt.gen + 1 /\ ~rt'.explicit /\ rt'.params /\ rt'.ui = "connecting"
LetsGo(c) ==
  /\ conn'[c].pc = "preparing" /\ (rt.device # NoSession \/ rt.driver) /\ Unhooks
  /\ SameRun(rt', rt) /\ SameFlags(rt', rt) /\ rt'.ui = rt.ui
  /\ hist'.stale = hist.stale
Begins(c) ==
  /\ conn'[c].pc = "opening" /\ Resets
  /\ \/ Unhooks
     \/ rt.device = NoSession /\ SameWires(rt', rt) /\ rt'.watchdog = rt.watchdog

LEMMA ConnectBegins ==
  ASSUME TypeOK, Shape, NEW c \in Connects, Connect(c)
  PROVE  Calling(c) /\ (LetsGo(c) \/ Begins(c))
<1>1. Calling(c)
  BY ConnectFacts DEF Calling, Called, Calls, Uncrossed
<1>2. /\ \/ Unhooks
         \/ /\ rt.device = NoSession /\ ~rt.driver
            /\ SameWires(rt', rt) /\ rt'.watchdog = rt.watchdog
      /\ \/ /\ conn'[c].pc = "preparing" /\ (rt.device # NoSession \/ rt.driver)
            /\ SameCycle(rt', rt) /\ SameFlags(rt', rt) /\ rt'.ui = rt.ui
            /\ hist'.stale = hist.stale
         \/ conn'[c].pc = "opening" /\ Resets
  BY ConnectFacts DEF Unhooks, SameWires, Resets
<1>3. CASE conn'[c].pc = "preparing"
  BY ONLY <1>1, <1>2, <1>3 DEF LetsGo, SameRun, SameCycle
<1>4. CASE conn'[c].pc = "opening"
  BY ONLY <1>1, <1>2, <1>4 DEF Begins
<1> QED BY <1>1, <1>2, <1>3, <1>4

LEMMA ConnectPreparedMoves ==
  ASSUME TypeOK, Shape, NEW c \in Connects, ConnectPrepared(c)
  PROVE  /\ conn[c].pc = "preparing" /\ conn'[c].pc = "opening" /\ Resets
         /\ SameWires(rt', rt) /\ rt'.device = rt.device /\ rt'.watchdog = rt.watchdog
BY ConnectPreparedFacts DEF Resets, SameLink, SameWires

(* What the teardown of a lost link does: it goes on to its second step, or *)
(* hands over to the owner.                                                 *)
TornDown(l) ==
  /\ Macro /\ lost[l].pc # "idle" /\ UNCHANGED <<att, conn, fin, power, hist>>
  /\ \A k \in Losses : k # l => lost'[k] = lost[k]
GoesOn(l) == rt' = rt /\ lost'[l].pc # "idle" /\ lost'[l].start = lost[l].start
HandsTo(l) ==
  /\ SameRun(rt', rt) /\ rt'.ui = rt.ui /\ rt'.wired = {} /\ rt'.watched = {}
  /\ rt'.device = rt.device /\ rt'.alarm = rt.alarm /\ rt'.watchdog = rt.watchdog
  /\ rt'.cRec = rt.cRec /\ rt'.active = rt.active /\ rt'.inFlight = rt.inFlight
  /\ (rt'.pend <=> rt.pend \/ lost[l].start)
  /\ (rt'.deferred <=> rt.deferred \/ ~lost[l].start)
  /\ lost'[l].pc = "idle"

LEMMA LostMoves ==
  ASSUME TypeOK, Shape, NEW l \in Losses, LostClosed(l) \/ LostDropped(l)
  PROVE  TornDown(l) /\ (GoesOn(l) \/ HandsTo(l))
<1>0. Hands(l) => HandsTo(l)
  BY IdleTypes DEF Hands, HandsTo, SameCycle, SameRun
<1>1. CASE LostClosed(l)
  BY <1>0, <1>1, LostClosedFacts DEF TornDown, GoesOn
<1>2. CASE LostDropped(l)
  BY <1>0, <1>2, LostDroppedFacts DEF TornDown
<1> QED BY <1>1, <1>2

-----------------------------------------------------------------------------
(* What the flags of a cycle stand for, whatever calls met.                 *)

(* The ref says that a cycle runs only while the controller does, and the   *)
(* controller stops when the user ends the session.                         *)
CycleFlags == (rt.rec => rt.cRec) /\ (rt.explicit => ~rt.cRec)

(* The in-flight mark is an open or a clean-up under way. *)
InFlightHeld == rt.inFlight => \E a \in Attempts : att[a].pc \in {"open", "cleanup"}

(* The active mark is an attempt under way, which sees to what it deferred. *)
ActiveHeld ==
  rt.active => /\ rt.cRec
               /\ \E a \in Attempts : /\ att[a].pc # "idle"
                                      /\ rt.rec => att[a].gen = rt.gen \/ rt.deferred

(* Sleep stops both halves of the cycle. *)
SleepCycle == power.asleep \/ power.due => (rt.cRec => rt.rec)

(* Until the first connect() nothing is held and nothing runs. *)
LinkClear == rt.wired = {} /\ rt.watched = {} /\ ~rt.watchdog
Untouched ==
  ~rt.params /\ ~rt.explicit =>
    /\ LinkClear /\ rt.alarm = {} /\ ~rt.rec /\ ~rt.cRec /\ ~rt.driver /\ ~rt.pend
    /\ rt.device = NoSession /\ fin = "idle" /\ rt.ui = "disconnected"
    /\ \A a \in Attempts : att[a] = IdleAttempt
    /\ \A l \in Losses : lost[l].pc = "idle"
    /\ \A c \in Connects : conn[c].pc = "idle"

(* Somebody will change a status that says a session is awaited. *)
CallEnding == fin # "idle" \/ \E c \in Connects : conn[c].pc = "failing"
Awaited == rt.ui = "reconnecting" => rt.rec \/ power.asleep \/ power.due \/ CallEnding
AwaitedEnded == rt.ui = "reconnecting" /\ rt.explicit => CallEnding

LEMMA EndedParamsStep ==
  ASSUME TypeOK, Shape, EndedParams, [Next]_vars
  PROVE  EndedParams'
<1>1. CASE RunOwner
  BY <1>1, RunOwnerFacts DEF EndedParams, SameLink
<1>2. ASSUME NEW a \in Attempts, BackoffAborted(a)  PROVE EndedParams'
  BY <1>2, BackoffAbortedFacts DEF EndedParams, SameLink, SameCycle
<1>3. ASSUME NEW a \in Attempts, BackoffSuspended(a)  PROVE EndedParams'
  BY <1>3, BackoffSuspendedFacts DEF EndedParams, SameLink
<1>4. ASSUME NEW a \in Attempts, BackoffDone(a)  PROVE EndedParams'
  BY <1>4, BackoffDoneFacts DEF EndedParams, SameLink, SameCycle
<1>5. ASSUME NEW a \in Attempts, WorkStep(a)  PROVE EndedParams'
  <2>0. Moved(a)
    BY <1>5, WorkMoves
  <2>1. CASE Stands(a)
    BY <2>0, <2>1 DEF EndedParams, Moved, Stands, SameRun, SameFlags, SameWires
  <2>2. CASE TidiesUp(a)
    BY <2>0, <2>2
    DEF EndedParams, Moved, TidiesUp, SameRun, SameFlags, SameWires
  <2>3. CASE EndsBadly(a)
    BY <2>0, <2>3 DEF EndedParams, Moved, EndsBadly, SameRun, HandsOver
  <2>4. CASE Attaches(a)
    BY <2>0, <2>4 DEF EndedParams, Moved, Attaches, SameRun, SameFlags
  <2>5. CASE EndsWell(a)
    BY <2>0, <2>5 DEF EndedParams, Moved, EndsWell, SameWires
  <2> QED BY <1>5, <2>1, <2>2, <2>3, <2>4, <2>5, WorkMoves
<1>6. ASSUME NEW c \in Connects, Connect(c)  PROVE EndedParams'
  <2>0. Calling(c)
    BY <1>6, ConnectBegins
  <2>1. CASE LetsGo(c)
    BY <2>0, <2>1
    DEF EndedParams, Calling, Called, LetsGo, Unhooks, SameRun, SameFlags
  <2>2. CASE Begins(c)
    BY <2>0, <2>2
    DEF EndedParams, Calling, Called, Begins, Resets, Unhooks, SameWires
  <2> QED BY <1>6, <2>1, <2>2, ConnectBegins
<1>7. ASSUME NEW c \in Connects, ConnectStep(c)  PROVE EndedParams'
  <2>0. Called(c)
    BY <1>7, ConnectMoves
  <2>1. CASE ConnectPrepared(c)
    BY <2>0, <2>1, ConnectPreparedMoves
    DEF EndedParams, Called, Resets, SameWires
  <2>2. CASE ConnectOpens(c)
    BY <2>0, <2>2, ConnectOpensMoves
    DEF EndedParams, Called, Attaching, SameRun, SameFlags
  <2>3. CASE ConnectFailed(c)
    BY <2>0, <2>3, ConnectFailedFacts
    DEF EndedParams, Called, SameCycle, SameFlags
  <2>4. CASE Failing(c)
    BY <2>0, <2>4, IdleTypes
    DEF EndedParams, Called, Failing, GivenUp, SameFlags
  <2>5. CASE Holding(c)
    BY <2>0, <2>5
    DEF EndedParams, Called, Holding, SameRun, SameFlags, SameWires
  <2> QED BY <1>7, <2>1, <2>2, <2>3, <2>4, <2>5, ConnectMoves
<1>8. CASE Notified \/ WatchdogFires \/ ResumeDue
  <2>0. Event
    BY <1>8, LosingMoves
  <2>1. CASE Ignores
    BY <2>0, <2>1 DEF EndedParams, Event, Ignores, SameRun, SameFlags, SameWires
  <2>2. CASE LosesLink
    BY <2>0, <2>2 DEF EndedParams, Event, LosesLink, LinkLost
  <2> QED BY <1>8, <2>1, <2>2, LosingMoves
<1>9. ASSUME NEW l \in Losses, LostClosed(l) \/ LostDropped(l)  PROVE EndedParams'
  <2>0. TornDown(l)
    BY <1>9, LostMoves
  <2>1. CASE GoesOn(l)
    BY <2>0, <2>1 DEF EndedParams, TornDown, GoesOn
  <2>2. CASE HandsTo(l)
    BY <2>0, <2>2 DEF EndedParams, TornDown, HandsTo, SameRun
  <2> QED BY <1>9, <2>1, <2>2, LostMoves
<1>10. CASE Disconnect
  BY <1>10, DisconnectFacts DEF EndedParams
<1>11. CASE DisconnectEnds
  BY <1>11, DisconnectEndsFacts DEF EndedParams, SameCycle, SameFlags
<1>12. CASE SocketDrops \/ Resume
  BY <1>12, SocketDropsFacts, ResumeFacts DEF EndedParams, SameCycle, SameFlags
<1>13. CASE Suspend
  BY <1>13, SuspendFacts DEF EndedParams, SameLink
<1>14. CASE UNCHANGED vars
  BY <1>14 DEF vars, flows, EndedParams
<1> QED BY <1>1, <1>2, <1>3, <1>4, <1>5, <1>6, <1>7, <1>8, <1>9, <1>10, <1>11,
           <1>12, <1>13, <1>14
       DEF Next, AttemptStep, WorkStep

LEMMA CycleFlagsStep ==
  ASSUME TypeOK, Shape, EndedParams, CycleFlags, [Next]_vars
  PROVE  CycleFlags'
<1>1. CASE RunOwner
  BY <1>1, RunOwnerFacts DEF CycleFlags, SameLink
<1>2. ASSUME NEW a \in Attempts, BackoffAborted(a)  PROVE CycleFlags'
  BY <1>2, BackoffAbortedFacts DEF CycleFlags, SameLink, SameCycle
<1>3. ASSUME NEW a \in Attempts, BackoffSuspended(a)  PROVE CycleFlags'
  BY <1>3, BackoffSuspendedFacts DEF CycleFlags, SameLink
<1>4. ASSUME NEW a \in Attempts, BackoffDone(a)  PROVE CycleFlags'
  BY <1>4, BackoffDoneFacts DEF CycleFlags, SameLink, SameCycle
<1>5. ASSUME NEW a \in Attempts, WorkStep(a)  PROVE CycleFlags'
  <2>0. Moved(a)
    BY <1>5, WorkMoves
  <2>1. CASE Stands(a)
    BY <2>0, <2>1 DEF CycleFlags, Moved, Stands, SameRun, SameFlags, SameWires
  <2>2. CASE TidiesUp(a)
    BY <2>0, <2>2 DEF CycleFlags, Moved, TidiesUp, SameRun, SameFlags, SameWires
  <2>3. CASE EndsBadly(a)
    BY <2>0, <2>3 DEF CycleFlags, Moved, EndsBadly, SameRun, HandsOver
  <2>4. CASE Attaches(a)
    BY <2>0, <2>4 DEF CycleFlags, Moved, Attaches, SameRun, SameFlags
  <2>5. CASE EndsWell(a)
    BY <2>0, <2>5 DEF CycleFlags, Moved, EndsWell, SameWires
  <2> QED BY <1>5, <2>1, <2>2, <2>3, <2>4, <2>5, WorkMoves
<1>6. ASSUME NEW c \in Connects, Connect(c)  PROVE CycleFlags'
  <2>0. Calling(c)
    BY <1>6, ConnectBegins
  <2>1. CASE LetsGo(c)
    BY <2>0, <2>1
    DEF CycleFlags, Calling, Called, LetsGo, Unhooks, SameRun, SameFlags
  <2>2. CASE Begins(c)
    BY <2>0, <2>2
    DEF CycleFlags, Calling, Called, Begins, Resets, Unhooks, SameWires
  <2> QED BY <1>6, <2>1, <2>2, ConnectBegins
<1>7. ASSUME NEW c \in Connects, ConnectStep(c)  PROVE CycleFlags'
  <2>0. Called(c)
    BY <1>7, ConnectMoves
  <2>1. CASE ConnectPrepared(c)
    BY <2>0, <2>1, ConnectPreparedMoves
    DEF CycleFlags, Called, Resets, SameWires
  <2>2. CASE ConnectOpens(c)
    BY <2>0, <2>2, ConnectOpensMoves
    DEF CycleFlags, Called, Attaching, SameRun, SameFlags
  <2>3. CASE ConnectFailed(c)
    BY <2>0, <2>3, ConnectFailedFacts
    DEF CycleFlags, Called, SameCycle, SameFlags
  <2>4. CASE Failing(c)
    BY <2>0, <2>4, IdleTypes DEF CycleFlags, Called, Failing, GivenUp, SameFlags
  <2>5. CASE Holding(c)
    BY <2>0, <2>5 DEF CycleFlags, Called, Holding, SameRun, SameFlags, SameWires
  <2> QED BY <1>7, <2>1, <2>2, <2>3, <2>4, <2>5, ConnectMoves
<1>8. CASE Notified \/ WatchdogFires \/ ResumeDue
  <2>0. Event
    BY <1>8, LosingMoves
  <2>1. CASE Ignores
    BY <2>0, <2>1 DEF CycleFlags, Event, Ignores, SameRun, SameFlags, SameWires
  <2>2. CASE LosesLink
    BY <2>0, <2>2 DEF CycleFlags, Event, LosesLink, LinkLost
  <2> QED BY <1>8, <2>1, <2>2, LosingMoves
<1>9. ASSUME NEW l \in Losses, LostClosed(l) \/ LostDropped(l)  PROVE CycleFlags'
  <2>0. TornDown(l)
    BY <1>9, LostMoves
  <2>1. CASE GoesOn(l)
    BY <2>0, <2>1 DEF CycleFlags, TornDown, GoesOn
  <2>2. CASE HandsTo(l)
    BY <2>0, <2>2 DEF CycleFlags, TornDown, HandsTo, SameRun
  <2> QED BY <1>9, <2>1, <2>2, LostMoves
<1>10. CASE Disconnect
  BY <1>10, DisconnectFacts DEF CycleFlags
<1>11. CASE DisconnectEnds
  BY <1>11, DisconnectEndsFacts DEF CycleFlags, SameCycle, SameFlags
<1>12. CASE SocketDrops \/ Resume
  BY <1>12, SocketDropsFacts, ResumeFacts DEF CycleFlags, SameCycle, SameFlags
<1>13. CASE Suspend
  BY <1>13, SuspendFacts DEF CycleFlags, SameLink
<1>14. CASE UNCHANGED vars
  BY <1>14 DEF vars, flows, CycleFlags
<1> QED BY <1>1, <1>2, <1>3, <1>4, <1>5, <1>6, <1>7, <1>8, <1>9, <1>10, <1>11,
           <1>12, <1>13, <1>14
       DEF Next, AttemptStep, WorkStep

LEMMA InFlightHeldStep ==
  ASSUME TypeOK, Shape, EndedParams, InFlightHeld, [Next]_vars
  PROVE  InFlightHeld'
<1>1. CASE RunOwner
  BY <1>1, RunOwnerFacts DEF InFlightHeld, SameLink
<1>2. ASSUME NEW a \in Attempts, BackoffAborted(a)  PROVE InFlightHeld'
  BY <1>2, BackoffAbortedFacts DEF InFlightHeld, SameLink, SameCycle
<1>3. ASSUME NEW a \in Attempts, BackoffSuspended(a)  PROVE InFlightHeld'
  BY <1>3, BackoffSuspendedFacts DEF InFlightHeld, SameLink
<1>4. ASSUME NEW a \in Attempts, BackoffDone(a)  PROVE InFlightHeld'
  BY <1>4, BackoffDoneFacts DEF InFlightHeld, SameLink, SameCycle
<1>5. ASSUME NEW a \in Attempts, WorkStep(a)  PROVE InFlightHeld'
  <2>0. Moved(a)
    BY <1>5, WorkMoves
  <2>1. CASE Stands(a)
    BY <2>0, <2>1 DEF InFlightHeld, Moved, Stands, SameRun, SameFlags, SameWires
  <2>2. CASE TidiesUp(a)
    BY <2>0, <2>2
    DEF InFlightHeld, Moved, TidiesUp, SameRun, SameFlags, SameWires
  <2>3. CASE EndsBadly(a)
    BY <2>0, <2>3 DEF InFlightHeld, Moved, EndsBadly, SameRun, HandsOver
  <2>4. CASE Attaches(a)
    BY <2>0, <2>4 DEF InFlightHeld, Moved, Attaches, SameRun, SameFlags
  <2>5. CASE EndsWell(a)
    BY <2>0, <2>5 DEF InFlightHeld, Moved, EndsWell, SameWires
  <2> QED BY <1>5, <2>1, <2>2, <2>3, <2>4, <2>5, WorkMoves
<1>6. ASSUME NEW c \in Connects, Connect(c)  PROVE InFlightHeld'
  <2>0. Calling(c)
    BY <1>6, ConnectBegins
  <2>1. CASE LetsGo(c)
    BY <2>0, <2>1
    DEF InFlightHeld, Calling, Called, LetsGo, Unhooks, SameRun, SameFlags
  <2>2. CASE Begins(c)
    BY <2>0, <2>2
    DEF InFlightHeld, Calling, Called, Begins, Resets, Unhooks, SameWires
  <2> QED BY <1>6, <2>1, <2>2, ConnectBegins
<1>7. ASSUME NEW c \in Connects, ConnectStep(c)  PROVE InFlightHeld'
  <2>0. Called(c)
    BY <1>7, ConnectMoves
  <2>1. CASE ConnectPrepared(c)
    BY <2>0, <2>1, ConnectPreparedMoves
    DEF InFlightHeld, Called, Resets, SameWires
  <2>2. CASE ConnectOpens(c)
    BY <2>0, <2>2, ConnectOpensMoves
    DEF InFlightHeld, Called, Attaching, SameRun, SameFlags
  <2>3. CASE ConnectFailed(c)
    BY <2>0, <2>3, ConnectFailedFacts
    DEF InFlightHeld, Called, SameCycle, SameFlags
  <2>4. CASE Failing(c)
    BY <2>0, <2>4, IdleTypes
    DEF InFlightHeld, Called, Failing, GivenUp, SameFlags
  <2>5. CASE Holding(c)
    BY <2>0, <2>5
    DEF InFlightHeld, Called, Holding, SameRun, SameFlags, SameWires
  <2> QED BY <1>7, <2>1, <2>2, <2>3, <2>4, <2>5, ConnectMoves
<1>8. CASE Notified \/ WatchdogFires \/ ResumeDue
  <2>0. Event
    BY <1>8, LosingMoves
  <2>1. CASE Ignores
    BY <2>0, <2>1
    DEF InFlightHeld, Event, Ignores, SameRun, SameFlags, SameWires
  <2>2. CASE LosesLink
    BY <2>0, <2>2 DEF InFlightHeld, Event, LosesLink, LinkLost
  <2> QED BY <1>8, <2>1, <2>2, LosingMoves
<1>9. ASSUME NEW l \in Losses, LostClosed(l) \/ LostDropped(l)  PROVE InFlightHeld'
  <2>0. TornDown(l)
    BY <1>9, LostMoves
  <2>1. CASE GoesOn(l)
    BY <2>0, <2>1 DEF InFlightHeld, TornDown, GoesOn
  <2>2. CASE HandsTo(l)
    BY <2>0, <2>2 DEF InFlightHeld, TornDown, HandsTo, SameRun
  <2> QED BY <1>9, <2>1, <2>2, LostMoves
<1>10. CASE Disconnect
  BY <1>10, DisconnectFacts DEF InFlightHeld
<1>11. CASE DisconnectEnds
  BY <1>11, DisconnectEndsFacts DEF InFlightHeld, SameCycle, SameFlags
<1>12. CASE SocketDrops \/ Resume
  BY <1>12, SocketDropsFacts, ResumeFacts DEF InFlightHeld, SameCycle, SameFlags
<1>13. CASE Suspend
  BY <1>13, SuspendFacts DEF InFlightHeld, SameLink
<1>14. CASE UNCHANGED vars
  BY <1>14 DEF vars, flows, InFlightHeld
<1> QED BY <1>1, <1>2, <1>3, <1>4, <1>5, <1>6, <1>7, <1>8, <1>9, <1>10, <1>11,
           <1>12, <1>13, <1>14
       DEF Next, AttemptStep, WorkStep

LEMMA ActiveHeldStep ==
  ASSUME TypeOK, Shape, EndedParams, InFlightHeld, ActiveHeld, [Next]_vars
  PROVE  ActiveHeld'
<1>1. CASE RunOwner
  <2>1. /\ rt'.gen = rt.gen
        /\ \/ att' = att /\ rt'.rec = rt.rec /\ rt'.cRec = rt.cRec /\ rt'.active = rt.active
              /\ (rt.deferred => rt'.deferred)
           \/ ~rt'.active
           \/ rt'.cRec /\ \E b \in Attempts : att'[b].pc # "idle" /\ att'[b].gen = rt'.gen
    BY <1>1, RunOwnerFacts, IdleTypes DEF TypeOK
  <2> QED BY <2>1 DEF ActiveHeld
<1>2. ASSUME NEW a \in Attempts, BackoffAborted(a)  PROVE ActiveHeld'
  BY <1>2, BackoffAbortedFacts, IdleTypes DEF ActiveHeld, SameLink, SameCycle
<1>3. ASSUME NEW a \in Attempts, BackoffSuspended(a)  PROVE ActiveHeld'
  BY <1>3, BackoffSuspendedFacts, IdleTypes DEF ActiveHeld, SameLink
<1>4. ASSUME NEW a \in Attempts, BackoffDone(a)  PROVE ActiveHeld'
  <2>1. CASE rt.inFlight
    <3>1. PICK b \in Attempts : att[b].pc \in {"open", "cleanup"}
      BY <2>1 DEF InFlightHeld
    <3>2. att'[b].pc # "idle" /\ rt'.deferred /\ rt'.cRec = rt.cRec /\ rt'.active = rt.active
      BY <1>4, <2>1, <3>1, BackoffDoneFacts
    <3> QED BY <3>2 DEF ActiveHeld
  <2>2. CASE ~rt.inFlight
    BY <1>4, <2>2, BackoffDoneFacts, ZenonT(120) DEF ActiveHeld, SameCycle
  <2> QED BY <2>1, <2>2
<1>5. ASSUME NEW a \in Attempts, WorkStep(a)  PROVE ActiveHeld'
  <2>0. Moved(a)
    BY <1>5, WorkMoves
  <2>1. CASE Stands(a)
    BY <2>0, <2>1, IdleTypes
    DEF ActiveHeld, Moved, Stands, SameRun, SameFlags, SameWires
  <2>2. CASE TidiesUp(a)
    BY <2>0, <2>2, IdleTypes
    DEF ActiveHeld, Moved, TidiesUp, SameRun, SameFlags, SameWires
  <2>3. CASE EndsBadly(a)
    BY <2>0, <2>3, IdleTypes
    DEF ActiveHeld, Moved, EndsBadly, SameRun, HandsOver
  <2>4. CASE Attaches(a)
    BY <2>0, <2>4, IdleTypes DEF ActiveHeld, Moved, Attaches, SameRun, SameFlags
  <2>5. CASE EndsWell(a)
    BY <2>0, <2>5, IdleTypes DEF ActiveHeld, Moved, EndsWell, SameWires
  <2> QED BY <1>5, <2>1, <2>2, <2>3, <2>4, <2>5, WorkMoves
<1>6. ASSUME NEW c \in Connects, Connect(c)  PROVE ActiveHeld'
  <2>0. Calling(c)
    BY <1>6, ConnectBegins
  <2>1. CASE LetsGo(c)
    BY <2>0, <2>1, IdleTypes
    DEF ActiveHeld, Calling, Called, LetsGo, Unhooks, SameRun, SameFlags
  <2>2. CASE Begins(c)
    BY <2>0, <2>2, IdleTypes
    DEF ActiveHeld, Calling, Called, Begins, Resets, Unhooks, SameWires
  <2> QED BY <1>6, <2>1, <2>2, ConnectBegins
<1>7. ASSUME NEW c \in Connects, ConnectStep(c)  PROVE ActiveHeld'
  <2>0. Called(c)
    BY <1>7, ConnectMoves
  <2>1. CASE ConnectPrepared(c)
    BY <2>0, <2>1, ConnectPreparedMoves, IdleTypes
    DEF ActiveHeld, Called, Resets, SameWires
  <2>2. CASE ConnectOpens(c)
    BY <2>0, <2>2, ConnectOpensMoves, IdleTypes, ZenonT(120)
    DEF ActiveHeld, Called, Attaching, SameRun, SameFlags
  <2>3. CASE ConnectFailed(c)
    BY <2>0, <2>3, ConnectFailedFacts, IdleTypes, ZenonT(120)
    DEF ActiveHeld, Called, SameCycle, SameFlags
  <2>4. CASE Failing(c)
    BY <2>0, <2>4, IdleTypes, IdleTypes
    DEF ActiveHeld, Called, Failing, GivenUp, SameFlags
  <2>5. CASE Holding(c)
    BY <2>0, <2>5, IdleTypes
    DEF ActiveHeld, Called, Holding, SameRun, SameFlags, SameWires
  <2> QED BY <1>7, <2>1, <2>2, <2>3, <2>4, <2>5, ConnectMoves
<1>8. CASE Notified \/ WatchdogFires \/ ResumeDue
  <2>0. Event
    BY <1>8, LosingMoves
  <2>1. CASE Ignores
    BY <2>0, <2>1, IdleTypes
    DEF ActiveHeld, Event, Ignores, SameRun, SameFlags, SameWires
  <2>2. CASE LosesLink
    BY <2>0, <2>2, IdleTypes DEF ActiveHeld, Event, LosesLink, LinkLost
  <2> QED BY <1>8, <2>1, <2>2, LosingMoves
<1>9. ASSUME NEW l \in Losses, LostClosed(l) \/ LostDropped(l)  PROVE ActiveHeld'
  <2>0. TornDown(l)
    BY <1>9, LostMoves
  <2>1. CASE GoesOn(l)
    BY <2>0, <2>1, IdleTypes DEF ActiveHeld, TornDown, GoesOn
  <2>2. CASE HandsTo(l)
    BY <2>0, <2>2, IdleTypes DEF ActiveHeld, TornDown, HandsTo, SameRun
  <2> QED BY <1>9, <2>1, <2>2, LostMoves
<1>10. CASE Disconnect
  BY <1>10, DisconnectFacts, IdleTypes DEF ActiveHeld
<1>11. CASE DisconnectEnds
  BY <1>11, DisconnectEndsFacts, IdleTypes DEF ActiveHeld, SameCycle, SameFlags
<1>12. CASE SocketDrops \/ Resume
  BY <1>12, SocketDropsFacts, ResumeFacts, IdleTypes
  DEF ActiveHeld, SameCycle, SameFlags
<1>13. CASE Suspend
  BY <1>13, SuspendFacts, IdleTypes DEF ActiveHeld, SameLink
<1>14. CASE UNCHANGED vars
  BY <1>14 DEF vars, flows, ActiveHeld
<1> QED BY <1>1, <1>2, <1>3, <1>4, <1>5, <1>6, <1>7, <1>8, <1>9, <1>10, <1>11,
           <1>12, <1>13, <1>14
       DEF Next, AttemptStep, WorkStep

LEMMA SleepCycleStep ==
  ASSUME TypeOK, Shape, PowerInv, EndedParams, CycleFlags, SleepCycle,
         [Next]_vars
  PROVE  SleepCycle'
<1>1. CASE RunOwner
  BY <1>1, RunOwnerFacts DEF SleepCycle, PowerInv, SameLink
<1>2. ASSUME NEW a \in Attempts, BackoffAborted(a)  PROVE SleepCycle'
  BY <1>2, BackoffAbortedFacts DEF SleepCycle, PowerInv, SameLink, SameCycle
<1>3. ASSUME NEW a \in Attempts, BackoffSuspended(a)  PROVE SleepCycle'
  BY <1>3, BackoffSuspendedFacts DEF SleepCycle, PowerInv, SameLink
<1>4. ASSUME NEW a \in Attempts, BackoffDone(a)  PROVE SleepCycle'
  BY <1>4, BackoffDoneFacts DEF SleepCycle, PowerInv, SameLink, SameCycle
<1>5. ASSUME NEW a \in Attempts, WorkStep(a)  PROVE SleepCycle'
  <2>0. Moved(a)
    BY <1>5, WorkMoves
  <2>1. CASE Stands(a)
    BY <2>0, <2>1
    DEF SleepCycle, PowerInv, Moved, Stands, SameRun, SameFlags, SameWires
  <2>2. CASE TidiesUp(a)
    BY <2>0, <2>2
    DEF SleepCycle, PowerInv, Moved, TidiesUp, SameRun, SameFlags, SameWires
  <2>3. CASE EndsBadly(a)
    BY <2>0, <2>3 DEF SleepCycle, PowerInv, Moved, EndsBadly, SameRun, HandsOver
  <2>4. CASE Attaches(a)
    BY <2>0, <2>4 DEF SleepCycle, PowerInv, Moved, Attaches, SameRun, SameFlags
  <2>5. CASE EndsWell(a)
    BY <2>0, <2>5 DEF SleepCycle, PowerInv, Moved, EndsWell, SameWires
  <2> QED BY <1>5, <2>1, <2>2, <2>3, <2>4, <2>5, WorkMoves
<1>6. ASSUME NEW c \in Connects, Connect(c)  PROVE SleepCycle'
  <2>0. Calling(c)
    BY <1>6, ConnectBegins
  <2>1. CASE LetsGo(c)
    BY <2>0, <2>1
    DEF SleepCycle, PowerInv, Calling, Called, LetsGo, Unhooks, SameRun,
        SameFlags
  <2>2. CASE Begins(c)
    BY <2>0, <2>2
    DEF SleepCycle, PowerInv, Calling, Called, Begins, Resets, Unhooks,
        SameWires
  <2> QED BY <1>6, <2>1, <2>2, ConnectBegins
<1>7. ASSUME NEW c \in Connects, ConnectStep(c)  PROVE SleepCycle'
  <2>0. Called(c)
    BY <1>7, ConnectMoves
  <2>1. CASE ConnectPrepared(c)
    BY <2>0, <2>1, ConnectPreparedMoves
    DEF SleepCycle, PowerInv, Called, Resets, SameWires
  <2>2. CASE ConnectOpens(c)
    BY <2>0, <2>2, ConnectOpensMoves
    DEF SleepCycle, PowerInv, Called, Attaching, SameRun, SameFlags
  <2>3. CASE ConnectFailed(c)
    BY <2>0, <2>3, ConnectFailedFacts
    DEF SleepCycle, PowerInv, Called, SameCycle, SameFlags
  <2>4. CASE Failing(c)
    BY <2>0, <2>4, IdleTypes
    DEF SleepCycle, PowerInv, Called, Failing, GivenUp, SameFlags
  <2>5. CASE Holding(c)
    BY <2>0, <2>5
    DEF SleepCycle, PowerInv, Called, Holding, SameRun, SameFlags, SameWires
  <2> QED BY <1>7, <2>1, <2>2, <2>3, <2>4, <2>5, ConnectMoves
<1>8. CASE Notified \/ WatchdogFires \/ ResumeDue
  <2>0. Event
    BY <1>8, LosingMoves
  <2>1. CASE Ignores
    BY <2>0, <2>1
    DEF SleepCycle, PowerInv, Event, Ignores, SameRun, SameFlags, SameWires
  <2>2. CASE LosesLink
    BY <2>0, <2>2 DEF SleepCycle, PowerInv, Event, LosesLink, LinkLost
  <2> QED BY <1>8, <2>1, <2>2, LosingMoves
<1>9. ASSUME NEW l \in Losses, LostClosed(l) \/ LostDropped(l)  PROVE SleepCycle'
  <2>0. TornDown(l)
    BY <1>9, LostMoves
  <2>1. CASE GoesOn(l)
    BY <2>0, <2>1 DEF SleepCycle, PowerInv, TornDown, GoesOn
  <2>2. CASE HandsTo(l)
    BY <2>0, <2>2 DEF SleepCycle, PowerInv, TornDown, HandsTo, SameRun
  <2> QED BY <1>9, <2>1, <2>2, LostMoves
<1>10. CASE Disconnect
  BY <1>10, DisconnectFacts DEF SleepCycle, PowerInv
<1>11. CASE DisconnectEnds
  BY <1>11, DisconnectEndsFacts DEF SleepCycle, PowerInv, SameCycle, SameFlags
<1>12. CASE SocketDrops \/ Resume
  BY <1>12, SocketDropsFacts, ResumeFacts
  DEF SleepCycle, PowerInv, SameCycle, SameFlags
<1>13. CASE Suspend
  BY <1>13, SuspendFacts DEF SleepCycle, PowerInv, SameLink
<1>14. CASE UNCHANGED vars
  BY <1>14 DEF vars, flows, SleepCycle, PowerInv
<1> QED BY <1>1, <1>2, <1>3, <1>4, <1>5, <1>6, <1>7, <1>8, <1>9, <1>10, <1>11,
           <1>12, <1>13, <1>14
       DEF Next, AttemptStep, WorkStep

LEMMA UntouchedStep ==
  ASSUME TypeOK, Shape, EndedParams, Untouched, [Next]_vars
  PROVE  Untouched'
<1>1. CASE RunOwner
  BY <1>1, RunOwnerFacts, IdleTypes DEF Untouched, LinkClear, SameLink
<1>2. ASSUME NEW a \in Attempts, BackoffAborted(a)  PROVE Untouched'
  BY <1>2, BackoffAbortedFacts, IdleTypes
  DEF Untouched, LinkClear, SameLink, SameCycle
<1>3. ASSUME NEW a \in Attempts, BackoffSuspended(a)  PROVE Untouched'
  BY <1>3, BackoffSuspendedFacts, IdleTypes DEF Untouched, LinkClear, SameLink
<1>4. ASSUME NEW a \in Attempts, BackoffDone(a)  PROVE Untouched'
  BY <1>4, BackoffDoneFacts, IdleTypes
  DEF Untouched, LinkClear, SameLink, SameCycle
<1>5. ASSUME NEW a \in Attempts, WorkStep(a)  PROVE Untouched'
  <2>0. Moved(a)
    BY <1>5, WorkMoves
  <2>1. CASE Stands(a)
    BY <2>0, <2>1, IdleTypes
    DEF Untouched, LinkClear, Moved, Stands, SameRun, SameFlags, SameWires
  <2>2. CASE TidiesUp(a)
    BY <2>0, <2>2, IdleTypes
    DEF Untouched, LinkClear, Moved, TidiesUp, SameRun, SameFlags, SameWires
  <2>3. CASE EndsBadly(a)
    BY <2>0, <2>3, IdleTypes
    DEF Untouched, LinkClear, Moved, EndsBadly, SameRun, HandsOver
  <2>4. CASE Attaches(a)
    BY <2>0, <2>4, IdleTypes
    DEF Untouched, LinkClear, Moved, Attaches, SameRun, SameFlags
  <2>5. CASE EndsWell(a)
    BY <2>0, <2>5, IdleTypes
    DEF Untouched, LinkClear, Moved, EndsWell, SameWires
  <2> QED BY <1>5, <2>1, <2>2, <2>3, <2>4, <2>5, WorkMoves
<1>6. ASSUME NEW c \in Connects, Connect(c)  PROVE Untouched'
  <2>0. Calling(c)
    BY <1>6, ConnectBegins
  <2>1. CASE LetsGo(c)
    BY <2>0, <2>1, IdleTypes
    DEF Untouched, LinkClear, Calling, Called, LetsGo, Unhooks, SameRun,
        SameFlags
  <2>2. CASE Begins(c)
    BY <2>0, <2>2, IdleTypes
    DEF Untouched, LinkClear, Calling, Called, Begins, Resets, Unhooks,
        SameWires
  <2> QED BY <1>6, <2>1, <2>2, ConnectBegins
<1>7. ASSUME NEW c \in Connects, ConnectStep(c)  PROVE Untouched'
  <2>0. Called(c)
    BY <1>7, ConnectMoves
  <2>1. CASE ConnectPrepared(c)
    BY <2>0, <2>1, ConnectPreparedMoves, IdleTypes
    DEF Untouched, LinkClear, Called, Resets, SameWires
  <2>2. CASE ConnectOpens(c)
    BY <2>0, <2>2, ConnectOpensMoves, IdleTypes
    DEF Untouched, LinkClear, Called, Attaching, SameRun, SameFlags
  <2>3. CASE ConnectFailed(c)
    BY <2>0, <2>3, ConnectFailedFacts, IdleTypes
    DEF Untouched, LinkClear, Called, SameCycle, SameFlags
  <2>4. CASE Failing(c)
    BY <2>0, <2>4, IdleTypes, IdleTypes
    DEF Untouched, LinkClear, Called, Failing, GivenUp, SameFlags
  <2>5. CASE Holding(c)
    BY <2>0, <2>5, IdleTypes
    DEF Untouched, LinkClear, Called, Holding, SameRun, SameFlags, SameWires
  <2> QED BY <1>7, <2>1, <2>2, <2>3, <2>4, <2>5, ConnectMoves
<1>8. CASE Notified \/ WatchdogFires \/ ResumeDue
  <2>1. CASE Notified
    BY <1>8, <2>1, NotifiedFacts DEF Untouched, SameCycle, Losing, LinkLost
  <2>2. CASE WatchdogFires
    BY <1>8, <2>2, WatchdogFiresFacts DEF Untouched, LinkClear, Losing, LinkLost
  <2>3. CASE ResumeDue
    BY <1>8, <2>3, ResumeDueFacts DEF Untouched, LinkClear, Losing
  <2> QED BY <1>8, <2>1, <2>2, <2>3
<1>9. ASSUME NEW l \in Losses, LostClosed(l) \/ LostDropped(l)  PROVE Untouched'
  <2>0. TornDown(l)
    BY <1>9, LostMoves
  <2>1. CASE GoesOn(l)
    BY <2>0, <2>1, IdleTypes DEF Untouched, LinkClear, TornDown, GoesOn
  <2>2. CASE HandsTo(l)
    BY <2>0, <2>2, IdleTypes
    DEF Untouched, LinkClear, TornDown, HandsTo, SameRun
  <2> QED BY <1>9, <2>1, <2>2, LostMoves
<1>10. CASE Disconnect
  BY <1>10, DisconnectFacts, IdleTypes DEF Untouched, LinkClear
<1>11. CASE DisconnectEnds
  BY <1>11, DisconnectEndsFacts, IdleTypes
  DEF Untouched, LinkClear, SameCycle, SameFlags
<1>12. CASE SocketDrops \/ Resume
  BY <1>12, SocketDropsFacts, ResumeFacts, IdleTypes
  DEF Untouched, LinkClear, SameCycle, SameFlags
<1>13. CASE Suspend
  BY <1>13, SuspendFacts, IdleTypes DEF Untouched, LinkClear, SameLink
<1>14. CASE UNCHANGED vars
  BY <1>14 DEF vars, flows, Untouched, LinkClear
<1> QED BY <1>1, <1>2, <1>3, <1>4, <1>5, <1>6, <1>7, <1>8, <1>9, <1>10, <1>11,
           <1>12, <1>13, <1>14
       DEF Next, AttemptStep, WorkStep

LEMMA AwaitedEndedStep ==
  ASSUME TypeOK, Shape, EndedParams, AwaitedEnded, [Next]_vars
  PROVE  AwaitedEnded'
<1>1. CASE RunOwner
  BY <1>1, RunOwnerFacts, IdleTypes DEF AwaitedEnded, CallEnding, SameLink
<1>2. ASSUME NEW a \in Attempts, BackoffAborted(a)  PROVE AwaitedEnded'
  BY <1>2, BackoffAbortedFacts, IdleTypes, ZenonT(120)
  DEF AwaitedEnded, CallEnding, SameLink, SameCycle
<1>3. ASSUME NEW a \in Attempts, BackoffSuspended(a)  PROVE AwaitedEnded'
  BY <1>3, BackoffSuspendedFacts, IdleTypes
  DEF AwaitedEnded, CallEnding, SameLink
<1>4. ASSUME NEW a \in Attempts, BackoffDone(a)  PROVE AwaitedEnded'
  BY <1>4, BackoffDoneFacts, IdleTypes, ZenonT(120)
  DEF AwaitedEnded, CallEnding, SameLink, SameCycle
<1>5. ASSUME NEW a \in Attempts, WorkStep(a)  PROVE AwaitedEnded'
  <2>0. Moved(a)
    BY <1>5, WorkMoves
  <2>1. CASE Stands(a)
    BY <2>0, <2>1, IdleTypes
    DEF AwaitedEnded, CallEnding, Moved, Stands, SameRun, SameFlags, SameWires
  <2>2. CASE TidiesUp(a)
    BY <2>0, <2>2, IdleTypes
    DEF AwaitedEnded, CallEnding, Moved, TidiesUp, SameRun, SameFlags,
        SameWires
  <2>3. CASE EndsBadly(a)
    BY <2>0, <2>3, IdleTypes
    DEF AwaitedEnded, CallEnding, Moved, EndsBadly, SameRun, HandsOver
  <2>4. CASE Attaches(a)
    BY <2>0, <2>4, IdleTypes
    DEF AwaitedEnded, CallEnding, Moved, Attaches, SameRun, SameFlags
  <2>5. CASE EndsWell(a)
    BY <2>0, <2>5, IdleTypes
    DEF AwaitedEnded, CallEnding, Moved, EndsWell, SameWires
  <2> QED BY <1>5, <2>1, <2>2, <2>3, <2>4, <2>5, WorkMoves
<1>6. ASSUME NEW c \in Connects, Connect(c)  PROVE AwaitedEnded'
  <2>0. Calling(c)
    BY <1>6, ConnectBegins
  <2>1. CASE LetsGo(c)
    BY <2>0, <2>1, IdleTypes
    DEF AwaitedEnded, CallEnding, Calling, Called, LetsGo, Unhooks, SameRun,
        SameFlags
  <2>2. CASE Begins(c)
    BY <2>0, <2>2, IdleTypes
    DEF AwaitedEnded, CallEnding, Calling, Called, Begins, Resets, Unhooks,
        SameWires
  <2> QED BY <1>6, <2>1, <2>2, ConnectBegins
<1>7. ASSUME NEW c \in Connects, ConnectStep(c)  PROVE AwaitedEnded'
  <2>0. Called(c)
    BY <1>7, ConnectMoves
  <2>1. CASE ConnectPrepared(c)
    BY <2>0, <2>1, ConnectPreparedMoves, IdleTypes
    DEF AwaitedEnded, CallEnding, Called, Resets, SameWires
  <2>2. CASE ConnectOpens(c)
    BY <2>0, <2>2, ConnectOpensMoves, IdleTypes, ZenonT(120)
    DEF AwaitedEnded, CallEnding, Called, Attaching, SameRun, SameFlags
  <2>3. CASE ConnectFailed(c)
    BY <2>0, <2>3, ConnectFailedFacts, IdleTypes
    DEF AwaitedEnded, CallEnding, Called, SameCycle, SameFlags
  <2>4. CASE Failing(c)
    BY <2>0, <2>4, IdleTypes, IdleTypes
    DEF AwaitedEnded, CallEnding, Called, Failing, GivenUp, SameFlags
  <2>5. CASE Holding(c)
    BY <2>0, <2>5, IdleTypes
    DEF AwaitedEnded, CallEnding, Called, Holding, SameRun, SameFlags,
        SameWires
  <2> QED BY <1>7, <2>1, <2>2, <2>3, <2>4, <2>5, ConnectMoves
<1>8. CASE Notified \/ WatchdogFires \/ ResumeDue
  <2>0. Event
    BY <1>8, LosingMoves
  <2>1. CASE Ignores
    BY <2>0, <2>1, IdleTypes
    DEF AwaitedEnded, CallEnding, Event, Ignores, SameRun, SameFlags,
        SameWires
  <2>2. CASE LosesLink
    BY <2>0, <2>2, IdleTypes
    DEF AwaitedEnded, CallEnding, Event, LosesLink, LinkLost
  <2> QED BY <1>8, <2>1, <2>2, LosingMoves
<1>9. ASSUME NEW l \in Losses, LostClosed(l) \/ LostDropped(l)  PROVE AwaitedEnded'
  <2>0. TornDown(l)
    BY <1>9, LostMoves
  <2>1. CASE GoesOn(l)
    BY <2>0, <2>1, IdleTypes DEF AwaitedEnded, CallEnding, TornDown, GoesOn
  <2>2. CASE HandsTo(l)
    BY <2>0, <2>2, IdleTypes
    DEF AwaitedEnded, CallEnding, TornDown, HandsTo, SameRun
  <2> QED BY <1>9, <2>1, <2>2, LostMoves
<1>10. CASE Disconnect
  BY <1>10, DisconnectFacts, IdleTypes DEF AwaitedEnded, CallEnding
<1>11. CASE DisconnectEnds
  BY <1>11, DisconnectEndsFacts, IdleTypes
  DEF AwaitedEnded, CallEnding, SameCycle, SameFlags
<1>12. CASE SocketDrops \/ Resume
  BY <1>12, SocketDropsFacts, ResumeFacts, IdleTypes
  DEF AwaitedEnded, CallEnding, SameCycle, SameFlags
<1>13. CASE Suspend
  BY <1>13, SuspendFacts, IdleTypes DEF AwaitedEnded, CallEnding, SameLink
<1>14. CASE UNCHANGED vars
  BY <1>14 DEF vars, flows, AwaitedEnded, CallEnding
<1> QED BY <1>1, <1>2, <1>3, <1>4, <1>5, <1>6, <1>7, <1>8, <1>9, <1>10, <1>11,
           <1>12, <1>13, <1>14
       DEF Next, AttemptStep, WorkStep

LEMMA AwaitedStep ==
  ASSUME TypeOK, Shape, EndedParams, Untouched, AwaitedEnded, Awaited,
         [Next]_vars
  PROVE  Awaited'
<1>1. CASE RunOwner
  BY <1>1, RunOwnerFacts, IdleTypes DEF Awaited, CallEnding, SameLink
<1>2. ASSUME NEW a \in Attempts, BackoffAborted(a)  PROVE Awaited'
  BY <1>2, BackoffAbortedFacts, IdleTypes
  DEF Awaited, CallEnding, SameLink, SameCycle
<1>3. ASSUME NEW a \in Attempts, BackoffSuspended(a)  PROVE Awaited'
  BY <1>3, BackoffSuspendedFacts, IdleTypes DEF Awaited, CallEnding, SameLink
<1>4. ASSUME NEW a \in Attempts, BackoffDone(a)  PROVE Awaited'
  BY <1>4, BackoffDoneFacts, IdleTypes
  DEF Awaited, CallEnding, SameLink, SameCycle
<1>5. ASSUME NEW a \in Attempts, WorkStep(a)  PROVE Awaited'
  <2>0. Moved(a)
    BY <1>5, WorkMoves
  <2>1. CASE Stands(a)
    BY <2>0, <2>1, IdleTypes
    DEF Awaited, CallEnding, Moved, Stands, SameRun, SameFlags, SameWires
  <2>2. CASE TidiesUp(a)
    BY <2>0, <2>2, IdleTypes
    DEF Awaited, CallEnding, Moved, TidiesUp, SameRun, SameFlags, SameWires
  <2>3. CASE EndsBadly(a)
    BY <2>0, <2>3, IdleTypes
    DEF Awaited, CallEnding, Moved, EndsBadly, SameRun, HandsOver
  <2>4. CASE Attaches(a)
    BY <2>0, <2>4, IdleTypes
    DEF Awaited, CallEnding, Moved, Attaches, SameRun, SameFlags
  <2>5. CASE EndsWell(a)
    BY <2>0, <2>5, IdleTypes DEF Awaited, CallEnding, Moved, EndsWell, SameWires
  <2> QED BY <1>5, <2>1, <2>2, <2>3, <2>4, <2>5, WorkMoves
<1>6. ASSUME NEW c \in Connects, Connect(c)  PROVE Awaited'
  <2>0. Calling(c)
    BY <1>6, ConnectBegins
  <2>1. CASE LetsGo(c)
    BY <2>0, <2>1, IdleTypes
    DEF Awaited, CallEnding, Calling, Called, LetsGo, Unhooks, SameRun,
        SameFlags
  <2>2. CASE Begins(c)
    BY <2>0, <2>2, IdleTypes
    DEF Awaited, CallEnding, Calling, Called, Begins, Resets, Unhooks,
        SameWires
  <2> QED BY <1>6, <2>1, <2>2, ConnectBegins
<1>7. ASSUME NEW c \in Connects, ConnectStep(c)  PROVE Awaited'
  <2>0. Called(c)
    BY <1>7, ConnectMoves
  <2>1. CASE ConnectPrepared(c)
    BY <2>0, <2>1, ConnectPreparedMoves, IdleTypes
    DEF Awaited, CallEnding, Called, Resets, SameWires
  <2>2. CASE ConnectOpens(c)
    BY <2>0, <2>2, ConnectOpensMoves, IdleTypes
    DEF Awaited, CallEnding, Called, Attaching, SameRun, SameFlags
  <2>3. CASE ConnectFailed(c)
    BY <2>0, <2>3, ConnectFailedFacts, IdleTypes
    DEF Awaited, CallEnding, Called, SameCycle, SameFlags
  <2>4. CASE Failing(c)
    BY <2>0, <2>4, IdleTypes, IdleTypes
    DEF Awaited, CallEnding, Called, Failing, GivenUp, SameFlags
  <2>5. CASE Holding(c)
    BY <2>0, <2>5, IdleTypes
    DEF Awaited, CallEnding, Called, Holding, SameRun, SameFlags, SameWires
  <2> QED BY <1>7, <2>1, <2>2, <2>3, <2>4, <2>5, ConnectMoves
<1>8. CASE Notified \/ WatchdogFires \/ ResumeDue
  <2>0. Event
    BY <1>8, LosingMoves
  <2>1. CASE Ignores
    <3>1. rt.explicit \/ rt.ui = "disconnected"
      BY <2>0, <2>1 DEF Ignores, Untouched
    <3>2. (CallEnding => CallEnding') /\ rt'.ui = rt.ui /\ rt'.rec = rt.rec
      BY <2>0, <2>1 DEF Ignores, Event, SameRun, CallEnding
    <3>3. CASE rt.explicit
      BY <3>2, <3>3 DEF Awaited, AwaitedEnded
    <3>4. CASE rt.ui = "disconnected"
      BY <3>2, <3>4 DEF Awaited
    <3> QED BY <3>1, <3>3, <3>4
  <2>2. CASE LosesLink
    BY <2>2 DEF Awaited, LosesLink, LinkLost
  <2> QED BY <1>8, <2>1, <2>2, LosingMoves
<1>9. ASSUME NEW l \in Losses, LostClosed(l) \/ LostDropped(l)  PROVE Awaited'
  <2>0. TornDown(l)
    BY <1>9, LostMoves
  <2>1. CASE GoesOn(l)
    BY <2>0, <2>1, IdleTypes DEF Awaited, CallEnding, TornDown, GoesOn
  <2>2. CASE HandsTo(l)
    BY <2>0, <2>2, IdleTypes DEF Awaited, CallEnding, TornDown, HandsTo, SameRun
  <2> QED BY <1>9, <2>1, <2>2, LostMoves
<1>10. CASE Disconnect
  BY <1>10, DisconnectFacts, IdleTypes DEF Awaited, CallEnding
<1>11. CASE DisconnectEnds
  BY <1>11, DisconnectEndsFacts, IdleTypes
  DEF Awaited, CallEnding, SameCycle, SameFlags
<1>12. CASE SocketDrops \/ Resume
  BY <1>12, SocketDropsFacts, ResumeFacts, IdleTypes
  DEF Awaited, CallEnding, SameCycle, SameFlags
<1>13. CASE Suspend
  BY <1>13, SuspendFacts, IdleTypes DEF Awaited, CallEnding, SameLink
<1>14. CASE UNCHANGED vars
  BY <1>14 DEF vars, flows, Awaited, CallEnding
<1> QED BY <1>1, <1>2, <1>3, <1>4, <1>5, <1>6, <1>7, <1>8, <1>9, <1>10, <1>11,
           <1>12, <1>13, <1>14
       DEF Next, AttemptStep, WorkStep

-----------------------------------------------------------------------------
(* What holds as long as no call has met the leftovers of another.          *)

(* One attempt at a time; the marks of the cycle are its.                   *)
OneAttempt ==
  \A a, b \in Attempts : att[a].pc # "idle" /\ att[b].pc # "idle" => a = b
BackoffActive == \A a \in Attempts : att[a].pc = "backoff" => rt.active \/ ~rt.rec
OpenInFlight ==
  \A a \in Attempts : att[a].pc \in {"open", "cleanup"} => rt.inFlight \/ rt.explicit

(* No session is listened to while the owner waits for its microtask, or an *)
(* attempt backs off.                                                       *)
OwnerUnwatched == rt.pend => rt.watched = {}
BackoffUnwatched ==
  \A a \in Attempts : att[a].pc = "backoff" => rt.watched = {} /\ (rt.alarm # {} => rt.rec)

(* An attempt that outlives its cycle is of an earlier generation. *)
EndedStale ==
  ~rt.rec => \A a \in Attempts : att[a].pc # "idle" => att[a].gen < rt.gen

(* The session an attempt configures is that of the runtime. *)
OpenHolds ==
  \A a \in Attempts :
    att[a].pc = "open" /\ att[a].work = "configuring" /\ att[a].gen = rt.gen
      => rt.device = att[a].session

(* With no cycle and no sleep nothing listens to a link that is let go. *)
AttemptsIdle == \A a \in Attempts : att[a].pc = "idle"
Ending == fin # "idle" /\ ~rt.watchdog
LinkOff ==
  ~rt.rec /\ ~power.asleep /\ ~power.due
    => LinkClear \/ Ending \/ (rt.device # NoSession /\ AttemptsIdle)
ExplicitOff == rt.explicit => LinkClear \/ Ending

(* A cycle that runs is moved on by the owner's microtask, by a teardown or *)
(* by an attempt.                                                           *)
CycleMoves ==
  rt.rec => \/ rt.pend
            \/ \E l \in Losses : lost[l].pc # "idle" /\ lost[l].start
            \/ \E a \in Attempts : att[a].pc # "idle" /\ (att[a].gen = rt.gen \/ rt.deferred)

(* The controller's flag outlives the cycle only where no link is left to   *)
(* be lost.                                                                 *)
LeftoverOff ==
  rt.cRec /\ ~rt.rec => LinkClear /\ rt.alarm = {} /\ rt.device = NoSession

ConnectingHeld == rt.ui = "connecting" => \E c \in Connects : conn[c].pc # "idle"

(* A connect() that nothing has superseded runs alone. *)
Calm(c) ==
  \/ conn[c].pc \in {"preparing", "opening"}
  \/ conn[c].pc = "attaching" /\ <<"connect", c>> \notin hist.stale
Alone(c) ==
  /\ \A a \in Attempts : att[a] = IdleAttempt
  /\ \A l \in Losses : lost[l].pc = "idle"
  /\ \A d \in Connects : d # c => conn[d].pc = "idle"
  /\ fin = "idle" /\ ~rt.rec
ConnectClear(c) ==
  /\ conn[c].pc # "attaching" => LinkClear /\ rt.alarm = {} /\ rt.device = NoSession
  /\ conn[c].pc # "preparing" => ~rt.explicit
  /\ conn[c].pc = "opening" => ~rt.cRec
  /\ conn[c].pc = "preparing" => rt.ui = "disconnected"
  /\ conn[c].pc = "attaching" => rt.device = conn[c].session /\ rt.device \in rt.wired
ConnectAlone == \A c \in Connects : Calm(c) => Alone(c) /\ ConnectClear(c)

LEMMA PcTypes ==
  ASSUME TypeOK
  PROVE  \A a \in Attempts : att[a].pc \in {"idle", "backoff", "open", "cleanup"}
BY DEF TypeOK, Attempt

(* The owner begins or gives up when no attempt is under way. *)
LEMMA OwnerFindsNone ==
  ASSUME TypeOK, BackoffActive, OpenInFlight, rt.rec, ~rt.active, ~rt.inFlight, ~rt.explicit
  PROVE  AttemptsIdle
BY PcTypes DEF BackoffActive, OpenInFlight, AttemptsIdle

(* An attempt that is under way is the only one. *)
LEMMA OnlyAttempt ==
  ASSUME OneAttempt, NEW a \in Attempts, att[a].pc # "idle"
  PROVE  \A b \in Attempts : b # a => att[b].pc = "idle"
BY DEF OneAttempt

(* What a connect() that is under way has found when it moves on. *)
LEMMA ConnectFinds ==
  ASSUME TypeOK, Shape, NEW c \in Connects, ConnectPrepared(c) \/ ConnectOpens(c), ConnectAlone
  PROVE  Alone(c) /\ ConnectClear(c) /\ AttemptsIdle
BY ConnectPreparedMoves, ConnectOpensMoves, IdleTypes
DEF ConnectAlone, Calm, Attaching, Alone, AttemptsIdle

LEMMA ConnectHolds ==
  ASSUME TypeOK, ConnInv, NEW c \in Connects, Holding(c), ConnectAlone
  PROVE  Alone(c) /\ ConnectClear(c) /\ AttemptsIdle
<1>1. <<"connect", c>> \notin hist.stale
  <2>1. ~Gone(c) /\ conn[c].pc = "attaching" /\ conn[c].gen = rt.gen /\ rt.gen \in Nat
    BY DEF Holding, Gone, TypeOK, Machine
  <2> QED BY <2>1 DEF ConnInv, Attached
<1> QED BY <1>1, IdleTypes DEF ConnectAlone, Calm, Holding, Alone, AttemptsIdle

LEMMA OneAttemptStep ==
  ASSUME TypeOK, Shape, EndedParams, BackoffActive, OpenInFlight,
         OneAttempt, [Next]_vars
  PROVE  OneAttempt'
<1>1. CASE RunOwner
  <2>1. CASE att' = att
    BY <2>1 DEF OneAttempt
  <2>2. CASE \E a \in Attempts : /\ att[a].pc = "idle"
                                 /\ \A b \in Attempts : b # a => att'[b] = att[b]
                                 /\ rt.rec /\ ~rt.active /\ ~rt.inFlight /\ ~rt.explicit
    <3>1. AttemptsIdle
      BY <2>2, OwnerFindsNone
    <3> QED BY <2>2, <3>1 DEF OneAttempt, AttemptsIdle
  <2> QED BY <1>1, <2>1, <2>2, RunOwnerFacts
<1>2. ASSUME NEW a \in Attempts, BackoffAborted(a)  PROVE OneAttempt'
  BY <1>2, BackoffAbortedFacts, IdleTypes DEF OneAttempt, SameLink, SameCycle
<1>3. ASSUME NEW a \in Attempts, BackoffSuspended(a)  PROVE OneAttempt'
  BY <1>3, BackoffSuspendedFacts, IdleTypes DEF OneAttempt, SameLink
<1>4. ASSUME NEW a \in Attempts, BackoffDone(a)  PROVE OneAttempt'
  BY <1>4, BackoffDoneFacts, IdleTypes DEF OneAttempt, SameLink, SameCycle
<1>5. ASSUME NEW a \in Attempts, WorkStep(a)  PROVE OneAttempt'
  <2>0. Moved(a)
    BY <1>5, WorkMoves
  <2>1. CASE Stands(a)
    BY <2>0, <2>1, IdleTypes
    DEF OneAttempt, Moved, Stands, SameRun, SameFlags, SameWires
  <2>2. CASE TidiesUp(a)
    BY <2>0, <2>2, IdleTypes
    DEF OneAttempt, Moved, TidiesUp, SameRun, SameFlags, SameWires
  <2>3. CASE EndsBadly(a)
    BY <2>0, <2>3, IdleTypes
    DEF OneAttempt, Moved, EndsBadly, SameRun, HandsOver
  <2>4. CASE Attaches(a)
    BY <2>0, <2>4, IdleTypes DEF OneAttempt, Moved, Attaches, SameRun, SameFlags
  <2>5. CASE EndsWell(a)
    BY <2>0, <2>5, IdleTypes DEF OneAttempt, Moved, EndsWell, SameWires
  <2> QED BY <1>5, <2>1, <2>2, <2>3, <2>4, <2>5, WorkMoves
<1>6. ASSUME NEW c \in Connects, Connect(c)  PROVE OneAttempt'
  BY <1>6, ConnectBegins DEF Calling, Called, OneAttempt
<1>7. ASSUME NEW c \in Connects, ConnectStep(c)  PROVE OneAttempt'
  BY <1>7, ConnectMoves DEF Called, OneAttempt
<1>8. CASE Notified \/ WatchdogFires \/ ResumeDue
  BY <1>8, LosingMoves DEF Event, OneAttempt
<1>9. ASSUME NEW l \in Losses, LostClosed(l) \/ LostDropped(l)  PROVE OneAttempt'
  <2>0. TornDown(l)
    BY <1>9, LostMoves
  <2>1. CASE GoesOn(l)
    BY <2>0, <2>1, IdleTypes DEF OneAttempt, TornDown, GoesOn
  <2>2. CASE HandsTo(l)
    BY <2>0, <2>2, IdleTypes DEF OneAttempt, TornDown, HandsTo, SameRun
  <2> QED BY <1>9, <2>1, <2>2, LostMoves
<1>10. CASE Disconnect
  BY <1>10, DisconnectFacts, IdleTypes DEF OneAttempt
<1>11. CASE DisconnectEnds
  BY <1>11, DisconnectEndsFacts, IdleTypes DEF OneAttempt, SameCycle, SameFlags
<1>12. CASE SocketDrops \/ Resume
  BY <1>12, SocketDropsFacts, ResumeFacts, IdleTypes
  DEF OneAttempt, SameCycle, SameFlags
<1>13. CASE Suspend
  BY <1>13, SuspendFacts, IdleTypes DEF OneAttempt, SameLink
<1>14. CASE UNCHANGED vars
  BY <1>14 DEF vars, flows, OneAttempt
<1> QED BY <1>1, <1>2, <1>3, <1>4, <1>5, <1>6, <1>7, <1>8, <1>9, <1>10, <1>11,
           <1>12, <1>13, <1>14
       DEF Next, AttemptStep, WorkStep

LEMMA OpenInFlightStep ==
  ASSUME TypeOK, Shape, EndedParams, OneAttempt, OpenInFlight,
         BackoffActive, ConnectAlone, [Next]_vars, Uncrossed'
  PROVE  OpenInFlight'
<1>1. CASE RunOwner
  <2>1. CASE rt.rec /\ ~rt.active /\ ~rt.inFlight /\ ~rt.explicit
    <3>1. AttemptsIdle
      BY <2>1, OwnerFindsNone
    <3> QED BY <1>1, <3>1, RunOwnerFacts DEF AttemptsIdle, OpenInFlight
  <2>2. CASE ~(rt.rec /\ ~rt.active /\ ~rt.inFlight /\ ~rt.explicit)
    BY <1>1, <2>2, RunOwnerFacts DEF OpenInFlight
  <2> QED BY <2>1, <2>2
<1>2. ASSUME NEW a \in Attempts, BackoffAborted(a)  PROVE OpenInFlight'
  BY <1>2, BackoffAbortedFacts, IdleTypes DEF OpenInFlight, SameLink, SameCycle
<1>3. ASSUME NEW a \in Attempts, BackoffSuspended(a)  PROVE OpenInFlight'
  BY <1>3, BackoffSuspendedFacts, IdleTypes DEF OpenInFlight, SameLink
<1>4. ASSUME NEW a \in Attempts, BackoffDone(a)  PROVE OpenInFlight'
  BY <1>4, BackoffDoneFacts, IdleTypes DEF OpenInFlight, SameLink, SameCycle
<1>5. ASSUME NEW a \in Attempts, WorkStep(a)  PROVE OpenInFlight'
  <2>0. Moved(a)
    BY <1>5, WorkMoves
  <2>1. CASE Stands(a)
    BY <2>0, <2>1, IdleTypes
    DEF OpenInFlight, Moved, Stands, SameRun, SameFlags, SameWires
  <2>2. CASE TidiesUp(a)
    BY <2>0, <2>2, IdleTypes
    DEF OpenInFlight, Moved, TidiesUp, SameRun, SameFlags, SameWires
  <2>3. CASE EndsBadly(a)
    BY <2>0, <2>3, OnlyAttempt DEF OpenInFlight, Moved, EndsBadly, HandsOver
  <2>4. CASE Attaches(a)
    BY <2>0, <2>4, IdleTypes
    DEF OpenInFlight, Moved, Attaches, SameRun, SameFlags
  <2>5. CASE EndsWell(a)
    BY <2>0, <2>5, OnlyAttempt DEF OpenInFlight, Moved, EndsWell
  <2> QED BY <1>5, <2>1, <2>2, <2>3, <2>4, <2>5, WorkMoves
<1>6. ASSUME NEW c \in Connects, Connect(c)  PROVE OpenInFlight'
  <2>1. att' = att /\ AttemptsIdle
    BY <1>6, ConnectBegins, IdleTypes DEF Calling, Called, AttemptsIdle
  <2> QED BY <2>1 DEF OpenInFlight, AttemptsIdle
<1>7. ASSUME NEW c \in Connects, ConnectStep(c)  PROVE OpenInFlight'
  <2>0. Called(c)
    BY <1>7, ConnectMoves
  <2>1. CASE ConnectPrepared(c)
    <3>1. att' = att /\ AttemptsIdle
      BY <2>0, <2>1, ConnectFinds DEF Called
    <3> QED BY <3>1 DEF OpenInFlight, AttemptsIdle
  <2>2. CASE ConnectOpens(c)
    BY <2>0, <2>2, ConnectOpensMoves, IdleTypes
    DEF OpenInFlight, Called, Attaching, SameRun, SameFlags
  <2>3. CASE ConnectFailed(c)
    BY <2>0, <2>3, ConnectFailedFacts, IdleTypes
    DEF OpenInFlight, Called, SameCycle, SameFlags
  <2>4. CASE Failing(c)
    BY <2>0, <2>4, IdleTypes
    DEF OpenInFlight, Called, Failing, GivenUp, SameFlags
  <2>5. CASE Holding(c)
    BY <2>0, <2>5, IdleTypes
    DEF OpenInFlight, Called, Holding, SameRun, SameFlags, SameWires
  <2> QED BY <1>7, <2>1, <2>2, <2>3, <2>4, <2>5, ConnectMoves
<1>8. CASE Notified \/ WatchdogFires \/ ResumeDue
  <2>0. Event
    BY <1>8, LosingMoves
  <2>1. CASE Ignores
    BY <2>0, <2>1, IdleTypes
    DEF OpenInFlight, Event, Ignores, SameRun, SameFlags, SameWires
  <2>2. CASE LosesLink
    BY <2>0, <2>2, IdleTypes DEF OpenInFlight, Event, LosesLink, LinkLost
  <2> QED BY <1>8, <2>1, <2>2, LosingMoves
<1>9. ASSUME NEW l \in Losses, LostClosed(l) \/ LostDropped(l)  PROVE OpenInFlight'
  <2>0. TornDown(l)
    BY <1>9, LostMoves
  <2>1. CASE GoesOn(l)
    BY <2>0, <2>1, IdleTypes DEF OpenInFlight, TornDown, GoesOn
  <2>2. CASE HandsTo(l)
    BY <2>0, <2>2, IdleTypes DEF OpenInFlight, TornDown, HandsTo, SameRun
  <2> QED BY <1>9, <2>1, <2>2, LostMoves
<1>10. CASE Disconnect
  BY <1>10, DisconnectFacts, IdleTypes DEF OpenInFlight
<1>11. CASE DisconnectEnds
  BY <1>11, DisconnectEndsFacts, IdleTypes
  DEF OpenInFlight, SameCycle, SameFlags
<1>12. CASE SocketDrops \/ Resume
  BY <1>12, SocketDropsFacts, ResumeFacts, IdleTypes
  DEF OpenInFlight, SameCycle, SameFlags
<1>13. CASE Suspend
  BY <1>13, SuspendFacts, IdleTypes DEF OpenInFlight, SameLink
<1>14. CASE UNCHANGED vars
  BY <1>14 DEF vars, flows, OpenInFlight
<1> QED BY <1>1, <1>2, <1>3, <1>4, <1>5, <1>6, <1>7, <1>8, <1>9, <1>10, <1>11,
           <1>12, <1>13, <1>14
       DEF Next, AttemptStep, WorkStep

LEMMA BackoffActiveStep ==
  ASSUME TypeOK, Shape, EndedParams, OneAttempt, OpenInFlight,
         BackoffActive, BackoffUnwatched, ConnectAlone, [Next]_vars,
         Uncrossed'
  PROVE  BackoffActive'
<1>1. CASE RunOwner
  <2>1. CASE rt.rec /\ ~rt.active /\ ~rt.inFlight /\ ~rt.explicit
    <3>1. AttemptsIdle
      BY <2>1, OwnerFindsNone
    <3> QED BY <1>1, <3>1, RunOwnerFacts DEF AttemptsIdle, BackoffActive
  <2>2. CASE ~(rt.rec /\ ~rt.active /\ ~rt.inFlight /\ ~rt.explicit)
    BY <1>1, <2>2, RunOwnerFacts DEF BackoffActive
  <2> QED BY <2>1, <2>2
<1>2. ASSUME NEW a \in Attempts, BackoffAborted(a)  PROVE BackoffActive'
  BY <1>2, OnlyAttempt, BackoffAbortedFacts, IdleTypes DEF BackoffActive
<1>3. ASSUME NEW a \in Attempts, BackoffSuspended(a)  PROVE BackoffActive'
  BY <1>3, BackoffSuspendedFacts, IdleTypes DEF BackoffActive, SameLink
<1>4. ASSUME NEW a \in Attempts, BackoffDone(a)  PROVE BackoffActive'
  BY <1>4, BackoffDoneFacts, IdleTypes DEF BackoffActive, SameLink, SameCycle
<1>5. ASSUME NEW a \in Attempts, WorkStep(a)  PROVE BackoffActive'
  <2>0. Moved(a)
    BY <1>5, WorkMoves
  <2>1. CASE Stands(a)
    BY <2>0, <2>1, IdleTypes
    DEF BackoffActive, Moved, Stands, SameRun, SameFlags, SameWires
  <2>2. CASE TidiesUp(a)
    BY <2>0, <2>2, IdleTypes
    DEF BackoffActive, Moved, TidiesUp, SameRun, SameFlags, SameWires
  <2>3. CASE EndsBadly(a)
    BY <2>0, <2>3, OnlyAttempt DEF BackoffActive, Moved, EndsBadly, HandsOver
  <2>4. CASE Attaches(a)
    BY <2>0, <2>4, IdleTypes
    DEF BackoffActive, Moved, Attaches, SameRun, SameFlags
  <2>5. CASE EndsWell(a)
    BY <2>0, <2>5, OnlyAttempt DEF BackoffActive, Moved, EndsWell
  <2> QED BY <1>5, <2>1, <2>2, <2>3, <2>4, <2>5, WorkMoves
<1>6. ASSUME NEW c \in Connects, Connect(c)  PROVE BackoffActive'
  <2>1. att' = att /\ AttemptsIdle
    BY <1>6, ConnectBegins, IdleTypes DEF Calling, Called, AttemptsIdle
  <2> QED BY <2>1 DEF BackoffActive, AttemptsIdle
<1>7. ASSUME NEW c \in Connects, ConnectStep(c)  PROVE BackoffActive'
  <2>0. Called(c)
    BY <1>7, ConnectMoves
  <2>1. CASE ConnectPrepared(c)
    <3>1. att' = att /\ AttemptsIdle
      BY <2>0, <2>1, ConnectFinds DEF Called
    <3> QED BY <3>1 DEF BackoffActive, AttemptsIdle
  <2>2. CASE ConnectOpens(c)
    BY <2>0, <2>2, ConnectOpensMoves, IdleTypes
    DEF BackoffActive, Called, Attaching, SameRun, SameFlags
  <2>3. CASE ConnectFailed(c)
    BY <2>0, <2>3, ConnectFailedFacts, IdleTypes
    DEF BackoffActive, Called, SameCycle, SameFlags
  <2>4. CASE Failing(c)
    BY <2>0, <2>4, IdleTypes
    DEF BackoffActive, Called, Failing, GivenUp, SameFlags
  <2>5. CASE Holding(c)
    BY <2>0, <2>5, IdleTypes
    DEF BackoffActive, Called, Holding, SameRun, SameFlags, SameWires
  <2> QED BY <1>7, <2>1, <2>2, <2>3, <2>4, <2>5, ConnectMoves
<1>8. CASE Notified \/ WatchdogFires \/ ResumeDue
  <2>0. Event
    BY <1>8, LosingMoves
  <2>1. CASE Ignores
    BY <2>0, <2>1, IdleTypes
    DEF BackoffActive, Event, Ignores, SameRun, SameFlags, SameWires
  <2>2. CASE LosesLink
    <3>1. \A a \in Attempts : att[a].pc = "backoff" => rt.rec
      BY <2>2 DEF LosesLink, Noticed, MustAbort, BackoffUnwatched
    <3> QED BY <2>0, <2>2, <3>1 DEF BackoffActive, Event, LosesLink
  <2> QED BY <1>8, <2>1, <2>2, LosingMoves
<1>9. ASSUME NEW l \in Losses, LostClosed(l) \/ LostDropped(l)  PROVE BackoffActive'
  <2>0. TornDown(l)
    BY <1>9, LostMoves
  <2>1. CASE GoesOn(l)
    BY <2>0, <2>1, IdleTypes DEF BackoffActive, TornDown, GoesOn
  <2>2. CASE HandsTo(l)
    BY <2>0, <2>2, IdleTypes DEF BackoffActive, TornDown, HandsTo, SameRun
  <2> QED BY <1>9, <2>1, <2>2, LostMoves
<1>10. CASE Disconnect
  BY <1>10, DisconnectFacts, IdleTypes DEF BackoffActive
<1>11. CASE DisconnectEnds
  BY <1>11, DisconnectEndsFacts, IdleTypes
  DEF BackoffActive, SameCycle, SameFlags
<1>12. CASE SocketDrops \/ Resume
  BY <1>12, SocketDropsFacts, ResumeFacts, IdleTypes
  DEF BackoffActive, SameCycle, SameFlags
<1>13. CASE Suspend
  BY <1>13, SuspendFacts, IdleTypes DEF BackoffActive, SameLink
<1>14. CASE UNCHANGED vars
  BY <1>14 DEF vars, flows, BackoffActive
<1> QED BY <1>1, <1>2, <1>3, <1>4, <1>5, <1>6, <1>7, <1>8, <1>9, <1>10, <1>11,
           <1>12, <1>13, <1>14
       DEF Next, AttemptStep, WorkStep

LEMMA OwnerUnwatchedStep ==
  ASSUME TypeOK, Shape, EndedParams, OwnerUnwatched, BackoffUnwatched,
         [Next]_vars, Uncrossed'
  PROVE  OwnerUnwatched'
<1>1. CASE RunOwner
  BY <1>1, RunOwnerFacts DEF OwnerUnwatched, Macro, SameLink
<1>2. ASSUME NEW a \in Attempts, BackoffAborted(a)  PROVE OwnerUnwatched'
  BY <1>2, BackoffAbortedFacts DEF OwnerUnwatched, BackoffUnwatched, SameLink
<1>3. ASSUME NEW a \in Attempts, BackoffSuspended(a)  PROVE OwnerUnwatched'
  BY <1>3, BackoffSuspendedFacts DEF OwnerUnwatched, Macro, SameLink
<1>4. ASSUME NEW a \in Attempts, BackoffDone(a)  PROVE OwnerUnwatched'
  BY <1>4, BackoffDoneFacts DEF OwnerUnwatched, Macro, SameLink, SameCycle
<1>5. ASSUME NEW a \in Attempts, WorkStep(a)  PROVE OwnerUnwatched'
  <2>0. Moved(a)
    BY <1>5, WorkMoves
  <2>1. CASE Stands(a)
    BY <2>0, <2>1
    DEF OwnerUnwatched, Macro, Moved, Stands, SameRun, SameFlags, SameWires
  <2>2. CASE TidiesUp(a)
    BY <2>0, <2>2
    DEF OwnerUnwatched, Macro, Moved, TidiesUp, SameRun, SameFlags, SameWires
  <2>3. CASE EndsBadly(a)
    BY <2>0, <2>3
    DEF OwnerUnwatched, Macro, Moved, EndsBadly, SameRun, HandsOver
  <2>4. CASE Attaches(a)
    BY <2>0, <2>4 DEF OwnerUnwatched, Macro, Moved, Attaches, SameRun, SameFlags
  <2>5. CASE EndsWell(a)
    BY <2>0, <2>5 DEF OwnerUnwatched, Macro, Moved, EndsWell, SameWires
  <2> QED BY <1>5, <2>1, <2>2, <2>3, <2>4, <2>5, WorkMoves
<1>6. ASSUME NEW c \in Connects, Connect(c)  PROVE OwnerUnwatched'
  <2>0. Calling(c)
    BY <1>6, ConnectBegins
  <2>1. CASE LetsGo(c)
    BY <2>0, <2>1
    DEF OwnerUnwatched, Macro, Calling, Called, LetsGo, Unhooks, SameRun,
        SameFlags
  <2>2. CASE Begins(c)
    BY <2>0, <2>2
    DEF OwnerUnwatched, Macro, Calling, Called, Begins, Resets, Unhooks,
        SameWires
  <2> QED BY <1>6, <2>1, <2>2, ConnectBegins
<1>7. ASSUME NEW c \in Connects, ConnectStep(c)  PROVE OwnerUnwatched'
  <2>0. Called(c)
    BY <1>7, ConnectMoves
  <2>1. CASE ConnectPrepared(c)
    BY <2>0, <2>1, ConnectPreparedMoves
    DEF OwnerUnwatched, Macro, Called, Resets, SameWires
  <2>2. CASE ConnectOpens(c)
    BY <2>0, <2>2, ConnectOpensMoves
    DEF OwnerUnwatched, Macro, Called, Attaching, SameRun, SameFlags
  <2>3. CASE ConnectFailed(c)
    BY <2>0, <2>3, ConnectFailedFacts
    DEF OwnerUnwatched, Macro, Called, SameCycle, SameFlags
  <2>4. CASE Failing(c)
    BY <2>0, <2>4, IdleTypes
    DEF OwnerUnwatched, Macro, Called, Failing, GivenUp, SameFlags
  <2>5. CASE Holding(c)
    BY <2>0, <2>5
    DEF OwnerUnwatched, Macro, Called, Holding, SameRun, SameFlags, SameWires
  <2> QED BY <1>7, <2>1, <2>2, <2>3, <2>4, <2>5, ConnectMoves
<1>8. CASE Notified \/ WatchdogFires \/ ResumeDue
  <2>0. Event
    BY <1>8, LosingMoves
  <2>1. CASE Ignores
    BY <2>0, <2>1
    DEF OwnerUnwatched, Macro, Event, Ignores, SameRun, SameFlags, SameWires
  <2>2. CASE LosesLink
    BY <2>0, <2>2 DEF OwnerUnwatched, Macro, Event, LosesLink, LinkLost
  <2> QED BY <1>8, <2>1, <2>2, LosingMoves
<1>9. ASSUME NEW l \in Losses, LostClosed(l) \/ LostDropped(l)  PROVE OwnerUnwatched'
  <2>0. TornDown(l)
    BY <1>9, LostMoves
  <2>1. CASE GoesOn(l)
    BY <2>0, <2>1 DEF OwnerUnwatched, Macro, TornDown, GoesOn
  <2>2. CASE HandsTo(l)
    BY <2>0, <2>2 DEF OwnerUnwatched, Macro, TornDown, HandsTo, SameRun
  <2> QED BY <1>9, <2>1, <2>2, LostMoves
<1>10. CASE Disconnect
  BY <1>10, DisconnectFacts DEF OwnerUnwatched, Macro
<1>11. CASE DisconnectEnds
  BY <1>11, DisconnectEndsFacts DEF OwnerUnwatched, Macro, SameCycle, SameFlags
<1>12. CASE SocketDrops \/ Resume
  BY <1>12, SocketDropsFacts, ResumeFacts
  DEF OwnerUnwatched, Macro, SameCycle, SameFlags
<1>13. CASE Suspend
  BY <1>13, SuspendFacts DEF OwnerUnwatched, Macro, SameLink
<1>14. CASE UNCHANGED vars
  BY <1>14 DEF vars, flows, OwnerUnwatched, Macro
<1> QED BY <1>1, <1>2, <1>3, <1>4, <1>5, <1>6, <1>7, <1>8, <1>9, <1>10, <1>11,
           <1>12, <1>13, <1>14
       DEF Next, AttemptStep, WorkStep

LEMMA BackoffUnwatchedStep ==
  ASSUME TypeOK, Shape, EndedParams, OneAttempt, OpenInFlight,
         BackoffActive, OwnerUnwatched, BackoffUnwatched, ConnectAlone,
         [Next]_vars, Uncrossed'
  PROVE  BackoffUnwatched'
<1>1. CASE RunOwner
  <2>1. CASE rt.rec /\ ~rt.active /\ ~rt.inFlight /\ ~rt.explicit
    <3>1. AttemptsIdle
      BY <2>1, OwnerFindsNone
    <3> QED BY <1>1, <3>1, RunOwnerFacts DEF AttemptsIdle, BackoffUnwatched, OwnerUnwatched, SameLink
  <2>2. CASE ~(rt.rec /\ ~rt.active /\ ~rt.inFlight /\ ~rt.explicit)
    BY <1>1, <2>2, RunOwnerFacts DEF BackoffUnwatched, SameLink
  <2> QED BY <2>1, <2>2
<1>2. ASSUME NEW a \in Attempts, BackoffAborted(a)  PROVE BackoffUnwatched'
  BY <1>2, BackoffAbortedFacts, IdleTypes
  DEF BackoffUnwatched, Macro, SameLink, SameCycle
<1>3. ASSUME NEW a \in Attempts, BackoffSuspended(a)  PROVE BackoffUnwatched'
  BY <1>3, OnlyAttempt, BackoffSuspendedFacts, IdleTypes DEF BackoffUnwatched
<1>4. ASSUME NEW a \in Attempts, BackoffDone(a)  PROVE BackoffUnwatched'
  BY <1>4, BackoffDoneFacts, IdleTypes
  DEF BackoffUnwatched, Macro, SameLink, SameCycle
<1>5. ASSUME NEW a \in Attempts, WorkStep(a)  PROVE BackoffUnwatched'
  <2>0. Moved(a)
    BY <1>5, WorkMoves
  <2>1. CASE Stands(a)
    BY <2>0, <2>1, IdleTypes
    DEF BackoffUnwatched, Macro, Moved, Stands, SameRun, SameFlags, SameWires
  <2>2. CASE TidiesUp(a)
    BY <2>0, <2>2, IdleTypes
    DEF BackoffUnwatched, Macro, Moved, TidiesUp, SameRun, SameFlags,
        SameWires
  <2>3. CASE EndsBadly(a)
    BY <2>0, <2>3, OnlyAttempt DEF BackoffUnwatched, Moved, EndsBadly, HandsOver
  <2>4. CASE Attaches(a)
    BY <2>0, <2>4, OnlyAttempt DEF BackoffUnwatched, Moved, Attaches
  <2>5. CASE EndsWell(a)
    BY <2>0, <2>5, OnlyAttempt DEF BackoffUnwatched, Moved, EndsWell
  <2> QED BY <1>5, <2>1, <2>2, <2>3, <2>4, <2>5, WorkMoves
<1>6. ASSUME NEW c \in Connects, Connect(c)  PROVE BackoffUnwatched'
  <2>1. att' = att /\ AttemptsIdle
    BY <1>6, ConnectBegins, IdleTypes DEF Calling, Called, AttemptsIdle
  <2> QED BY <2>1 DEF BackoffUnwatched, AttemptsIdle
<1>7. ASSUME NEW c \in Connects, ConnectStep(c)  PROVE BackoffUnwatched'
  <2>0. Called(c)
    BY <1>7, ConnectMoves
  <2>1. CASE ConnectPrepared(c)
    <3>1. att' = att /\ AttemptsIdle
      BY <2>0, <2>1, ConnectFinds DEF Called
    <3> QED BY <3>1 DEF BackoffUnwatched, AttemptsIdle
  <2>2. CASE ConnectOpens(c)
    <3>1. att' = att /\ AttemptsIdle
      BY <2>0, <2>2, ConnectFinds DEF Called
    <3> QED BY <3>1 DEF BackoffUnwatched, AttemptsIdle
  <2>3. CASE ConnectFailed(c)
    BY <2>0, <2>3, ConnectFailedFacts, IdleTypes
    DEF BackoffUnwatched, Macro, Called, SameCycle, SameFlags
  <2>4. CASE Failing(c)
    BY <2>0, <2>4, IdleTypes
    DEF BackoffUnwatched, Macro, Called, Failing, GivenUp, SameFlags
  <2>5. CASE Holding(c)
    BY <2>0, <2>5, IdleTypes
    DEF BackoffUnwatched, Macro, Called, Holding, SameRun, SameFlags,
        SameWires
  <2> QED BY <1>7, <2>1, <2>2, <2>3, <2>4, <2>5, ConnectMoves
<1>8. CASE Notified \/ WatchdogFires \/ ResumeDue
  <2>0. Event
    BY <1>8, LosingMoves
  <2>1. CASE Ignores
    BY <2>0, <2>1, IdleTypes
    DEF BackoffUnwatched, Macro, Event, Ignores, SameRun, SameFlags, SameWires
  <2>2. CASE LosesLink
    BY <2>0, <2>2, IdleTypes
    DEF BackoffUnwatched, Macro, Event, LosesLink, LinkLost
  <2> QED BY <1>8, <2>1, <2>2, LosingMoves
<1>9. ASSUME NEW l \in Losses, LostClosed(l) \/ LostDropped(l)  PROVE BackoffUnwatched'
  <2>0. TornDown(l)
    BY <1>9, LostMoves
  <2>1. CASE GoesOn(l)
    BY <2>0, <2>1, IdleTypes DEF BackoffUnwatched, Macro, TornDown, GoesOn
  <2>2. CASE HandsTo(l)
    BY <2>0, <2>2, IdleTypes
    DEF BackoffUnwatched, Macro, TornDown, HandsTo, SameRun
  <2> QED BY <1>9, <2>1, <2>2, LostMoves
<1>10. CASE Disconnect
  BY <1>10, DisconnectFacts, IdleTypes DEF BackoffUnwatched, Macro
<1>11. CASE DisconnectEnds
  BY <1>11, DisconnectEndsFacts, IdleTypes
  DEF BackoffUnwatched, Macro, SameCycle, SameFlags
<1>12. CASE SocketDrops \/ Resume
  BY <1>12, SocketDropsFacts, ResumeFacts, IdleTypes
  DEF BackoffUnwatched, Macro, SameCycle, SameFlags
<1>13. CASE Suspend
  BY <1>13, SuspendFacts, IdleTypes DEF BackoffUnwatched, Macro, SameLink
<1>14. CASE UNCHANGED vars
  BY <1>14 DEF vars, flows, BackoffUnwatched, Macro
<1> QED BY <1>1, <1>2, <1>3, <1>4, <1>5, <1>6, <1>7, <1>8, <1>9, <1>10, <1>11,
           <1>12, <1>13, <1>14
       DEF Next, AttemptStep, WorkStep

(* A generation that grows leaves every attempt behind.                     *)
LEMMA GenPassed ==
  ASSUME TypeOK, AttGen, rt'.gen = rt.gen + 1 \/ rt'.gen = rt.cGen + 1
  PROVE  \A a \in Attempts : att[a].gen < rt'.gen /\ att[a].gen # rt'.gen
<1>1. rt.gen \in Nat /\ rt.cGen \in Nat
  BY DEF TypeOK, Machine
<1>2. \A a \in Attempts : att[a].gen \in Nat
  BY DEF TypeOK, Attempt
<1>3. \A a \in Attempts : att[a].gen <= rt.gen /\ att[a].gen <= rt.cGen
  BY DEF AttGen
<1>4. ASSUME NEW a \in Attempts  PROVE att[a].gen < rt'.gen /\ att[a].gen # rt'.gen
  <2> DEFINE x == att[a].gen  n == rt'.gen  g == rt.gen  k == rt.cGen
  <2>1. x \in Nat /\ g \in Nat /\ k \in Nat /\ x <= g /\ x <= k /\ (n = g + 1 \/ n = k + 1)
    BY <1>1, <1>2, <1>3
  <2> HIDE DEF x, n, g, k
  <2>2. x < n /\ x # n
    BY ONLY <2>1
  <2> QED BY <2>2 DEF x, n
<1> QED BY <1>4

LEMMA EndedStaleStep ==
  ASSUME TypeOK, Shape, EndedParams, AttGen, OneAttempt, OpenInFlight,
         BackoffActive, EndedStale, ConnectAlone, [Next]_vars, Uncrossed'
  PROVE  EndedStale'
<1>1. CASE RunOwner
  <2>1. CASE rt.rec /\ ~rt.active /\ ~rt.inFlight /\ ~rt.explicit
    <3>1. AttemptsIdle
      BY <2>1, OwnerFindsNone
    <3> QED BY <1>1, <3>1, RunOwnerFacts DEF AttemptsIdle, EndedStale
  <2>2. CASE ~(rt.rec /\ ~rt.active /\ ~rt.inFlight /\ ~rt.explicit)
    BY <1>1, <2>2, RunOwnerFacts DEF EndedStale
  <2> QED BY <2>1, <2>2
<1>2. ASSUME NEW a \in Attempts, BackoffAborted(a)  PROVE EndedStale'
  BY <1>2, BackoffAbortedFacts, IdleTypes DEF EndedStale, SameLink, SameCycle
<1>3. ASSUME NEW a \in Attempts, BackoffSuspended(a)  PROVE EndedStale'
  BY <1>3, OnlyAttempt, BackoffSuspendedFacts, IdleTypes DEF EndedStale, SameLink
<1>4. ASSUME NEW a \in Attempts, BackoffDone(a)  PROVE EndedStale'
  BY <1>4, BackoffDoneFacts, IdleTypes DEF EndedStale, SameLink, SameCycle
<1>5. ASSUME NEW a \in Attempts, WorkStep(a)  PROVE EndedStale'
  <2>0. Moved(a)
    BY <1>5, WorkMoves
  <2>1. CASE Stands(a)
    BY <2>0, <2>1, IdleTypes
    DEF EndedStale, Moved, Stands, SameRun, SameFlags, SameWires
  <2>2. CASE TidiesUp(a)
    BY <2>0, <2>2, IdleTypes
    DEF EndedStale, Moved, TidiesUp, SameRun, SameFlags, SameWires
  <2>3. CASE EndsBadly(a)
    BY <2>0, <2>3, OnlyAttempt DEF EndedStale, Moved, EndsBadly, HandsOver, SameRun
  <2>4. CASE Attaches(a)
    BY <2>0, <2>4, IdleTypes DEF EndedStale, Moved, Attaches, SameRun, SameFlags
  <2>5. CASE EndsWell(a)
    BY <2>0, <2>5, OnlyAttempt DEF EndedStale, Moved, EndsWell
  <2> QED BY <1>5, <2>1, <2>2, <2>3, <2>4, <2>5, WorkMoves
<1>6. ASSUME NEW c \in Connects, Connect(c)  PROVE EndedStale'
  <2>1. att' = att /\ AttemptsIdle
    BY <1>6, ConnectBegins, IdleTypes DEF Calling, Called, AttemptsIdle
  <2> QED BY <2>1 DEF EndedStale, AttemptsIdle
<1>7. ASSUME NEW c \in Connects, ConnectStep(c)  PROVE EndedStale'
  <2>0. Called(c)
    BY <1>7, ConnectMoves
  <2>1. CASE ConnectPrepared(c)
    <3>1. att' = att /\ AttemptsIdle
      BY <2>0, <2>1, ConnectFinds DEF Called
    <3> QED BY <3>1 DEF EndedStale, AttemptsIdle
  <2>2. CASE ConnectOpens(c)
    BY <2>0, <2>2, ConnectOpensMoves, IdleTypes
    DEF EndedStale, Called, Attaching, SameRun, SameFlags
  <2>3. CASE ConnectFailed(c)
    BY <2>0, <2>3, ConnectFailedFacts, IdleTypes
    DEF EndedStale, Called, SameCycle, SameFlags
  <2>4. CASE Failing(c)
    <3>1. att' = att /\ \A a \in Attempts : att[a].gen < rt'.gen /\ ~(att[a].gen = rt'.gen)
      BY <2>0, <2>4, GenPassed, IdleTypes DEF Called, Failing, GivenUp
    <3> QED BY <3>1 DEF EndedStale
  <2>5. CASE Holding(c)
    BY <2>0, <2>5, IdleTypes
    DEF EndedStale, Called, Holding, SameRun, SameFlags, SameWires
  <2> QED BY <1>7, <2>1, <2>2, <2>3, <2>4, <2>5, ConnectMoves
<1>8. CASE Notified \/ WatchdogFires \/ ResumeDue
  <2>0. Event
    BY <1>8, LosingMoves
  <2>1. CASE Ignores
    BY <2>0, <2>1, IdleTypes
    DEF EndedStale, Event, Ignores, SameRun, SameFlags, SameWires
  <2>2. CASE LosesLink
    BY <2>0, <2>2, IdleTypes DEF EndedStale, Event, LosesLink, LinkLost
  <2> QED BY <1>8, <2>1, <2>2, LosingMoves
<1>9. ASSUME NEW l \in Losses, LostClosed(l) \/ LostDropped(l)  PROVE EndedStale'
  <2>0. TornDown(l)
    BY <1>9, LostMoves
  <2>1. CASE GoesOn(l)
    BY <2>0, <2>1, IdleTypes DEF EndedStale, TornDown, GoesOn
  <2>2. CASE HandsTo(l)
    BY <2>0, <2>2, IdleTypes DEF EndedStale, TornDown, HandsTo, SameRun
  <2> QED BY <1>9, <2>1, <2>2, LostMoves
<1>10. CASE Disconnect
  <2>1. att' = att /\ \A a \in Attempts : att[a].gen < rt'.gen /\ ~(att[a].gen = rt'.gen)
    BY <1>10, GenPassed, DisconnectFacts
  <2> QED BY <2>1 DEF EndedStale
<1>11. CASE DisconnectEnds
  BY <1>11, DisconnectEndsFacts, IdleTypes DEF EndedStale, SameCycle, SameFlags
<1>12. CASE SocketDrops \/ Resume
  BY <1>12, SocketDropsFacts, ResumeFacts, IdleTypes
  DEF EndedStale, SameCycle, SameFlags
<1>13. CASE Suspend
  <2>1. att' = att /\ \A a \in Attempts : att[a].gen < rt'.gen /\ ~(att[a].gen = rt'.gen)
    BY <1>13, GenPassed, SuspendFacts
  <2> QED BY <2>1 DEF EndedStale
<1>14. CASE UNCHANGED vars
  BY <1>14 DEF vars, flows, EndedStale
<1> QED BY <1>1, <1>2, <1>3, <1>4, <1>5, <1>6, <1>7, <1>8, <1>9, <1>10, <1>11,
           <1>12, <1>13, <1>14
       DEF Next, AttemptStep, WorkStep

LEMMA OpenHoldsStep ==
  ASSUME TypeOK, Shape, EndedParams, AttGen, OneAttempt, OpenInFlight,
         BackoffActive, OpenHolds, ConnectAlone, [Next]_vars, Uncrossed'
  PROVE  OpenHolds'
<1>1. CASE RunOwner
  <2>1. CASE rt.rec /\ ~rt.active /\ ~rt.inFlight /\ ~rt.explicit
    <3>1. AttemptsIdle
      BY <2>1, OwnerFindsNone
    <3> QED BY <1>1, <3>1, RunOwnerFacts DEF AttemptsIdle, OpenHolds, SameLink
  <2>2. CASE ~(rt.rec /\ ~rt.active /\ ~rt.inFlight /\ ~rt.explicit)
    BY <1>1, <2>2, RunOwnerFacts DEF OpenHolds, SameLink
  <2> QED BY <2>1, <2>2
<1>2. ASSUME NEW a \in Attempts, BackoffAborted(a)  PROVE OpenHolds'
  BY <1>2, BackoffAbortedFacts, IdleTypes DEF OpenHolds, SameLink, SameCycle
<1>3. ASSUME NEW a \in Attempts, BackoffSuspended(a)  PROVE OpenHolds'
  BY <1>3, OnlyAttempt, BackoffSuspendedFacts, IdleTypes DEF OpenHolds, SameLink
<1>4. ASSUME NEW a \in Attempts, BackoffDone(a)  PROVE OpenHolds'
  BY <1>4, BackoffDoneFacts, IdleTypes DEF OpenHolds, SameLink, SameCycle
<1>5. ASSUME NEW a \in Attempts, WorkStep(a)  PROVE OpenHolds'
  <2>0. Moved(a)
    BY <1>5, WorkMoves
  <2>1. CASE Stands(a)
    BY <2>0, <2>1, IdleTypes
    DEF OpenHolds, Moved, Stands, SameRun, SameFlags, SameWires
  <2>2. CASE TidiesUp(a)
    BY <2>0, <2>2, OnlyAttempt DEF OpenHolds, Moved, TidiesUp
  <2>3. CASE EndsBadly(a)
    BY <2>0, <2>3, OnlyAttempt DEF OpenHolds, Moved, EndsBadly, HandsOver, SameRun
  <2>4. CASE Attaches(a)
    BY <2>0, <2>4, OnlyAttempt DEF OpenHolds, Moved, Attaches
  <2>5. CASE EndsWell(a)
    BY <2>0, <2>5, OnlyAttempt DEF OpenHolds, Moved, EndsWell
  <2> QED BY <1>5, <2>1, <2>2, <2>3, <2>4, <2>5, WorkMoves
<1>6. ASSUME NEW c \in Connects, Connect(c)  PROVE OpenHolds'
  <2>1. att' = att /\ AttemptsIdle
    BY <1>6, ConnectBegins, IdleTypes DEF Calling, Called, AttemptsIdle
  <2> QED BY <2>1 DEF OpenHolds, AttemptsIdle
<1>7. ASSUME NEW c \in Connects, ConnectStep(c)  PROVE OpenHolds'
  <2>0. Called(c)
    BY <1>7, ConnectMoves
  <2>1. CASE ConnectPrepared(c)
    <3>1. att' = att /\ AttemptsIdle
      BY <2>0, <2>1, ConnectFinds DEF Called
    <3> QED BY <3>1 DEF OpenHolds, AttemptsIdle
  <2>2. CASE ConnectOpens(c)
    <3>1. att' = att /\ AttemptsIdle
      BY <2>0, <2>2, ConnectFinds DEF Called
    <3> QED BY <3>1 DEF OpenHolds, AttemptsIdle
  <2>3. CASE ConnectFailed(c)
    BY <2>0, <2>3, ConnectFailedFacts, IdleTypes, ZenonT(120)
    DEF OpenHolds, Called, SameCycle, SameFlags
  <2>4. CASE Failing(c)
    <3>1. att' = att /\ \A a \in Attempts : att[a].gen < rt'.gen /\ ~(att[a].gen = rt'.gen)
      BY <2>0, <2>4, GenPassed, IdleTypes DEF Called, Failing, GivenUp
    <3> QED BY <3>1 DEF OpenHolds
  <2>5. CASE Holding(c)
    BY <2>0, <2>5, IdleTypes
    DEF OpenHolds, Called, Holding, SameRun, SameFlags, SameWires
  <2> QED BY <1>7, <2>1, <2>2, <2>3, <2>4, <2>5, ConnectMoves
<1>8. CASE Notified \/ WatchdogFires \/ ResumeDue
  <2>0. Event
    BY <1>8, LosingMoves
  <2>1. CASE Ignores
    BY <2>0, <2>1, IdleTypes
    DEF OpenHolds, Event, Ignores, SameRun, SameFlags, SameWires
  <2>2. CASE LosesLink
    <3>1. att' = att /\ \A a \in Attempts : att[a].gen < rt'.gen /\ ~(att[a].gen = rt'.gen)
      BY <2>0, <2>2, GenPassed, IdleTypes DEF Event, LosesLink, LinkLost
    <3> QED BY <3>1 DEF OpenHolds
  <2> QED BY <1>8, <2>1, <2>2, LosingMoves
<1>9. ASSUME NEW l \in Losses, LostClosed(l) \/ LostDropped(l)  PROVE OpenHolds'
  <2>0. TornDown(l)
    BY <1>9, LostMoves
  <2>1. CASE GoesOn(l)
    BY <2>0, <2>1, IdleTypes DEF OpenHolds, TornDown, GoesOn
  <2>2. CASE HandsTo(l)
    BY <2>0, <2>2, IdleTypes DEF OpenHolds, TornDown, HandsTo, SameRun
  <2> QED BY <1>9, <2>1, <2>2, LostMoves
<1>10. CASE Disconnect
  <2>1. att' = att /\ \A a \in Attempts : att[a].gen < rt'.gen /\ ~(att[a].gen = rt'.gen)
    BY <1>10, GenPassed, DisconnectFacts
  <2> QED BY <2>1 DEF OpenHolds
<1>11. CASE DisconnectEnds
  BY <1>11, DisconnectEndsFacts, IdleTypes DEF OpenHolds, SameCycle, SameFlags
<1>12. CASE SocketDrops \/ Resume
  BY <1>12, SocketDropsFacts, ResumeFacts, IdleTypes
  DEF OpenHolds, SameCycle, SameFlags
<1>13. CASE Suspend
  <2>1. att' = att /\ \A a \in Attempts : att[a].gen < rt'.gen /\ ~(att[a].gen = rt'.gen)
    BY <1>13, GenPassed, SuspendFacts
  <2> QED BY <2>1 DEF OpenHolds
<1>14. CASE UNCHANGED vars
  BY <1>14 DEF vars, flows, OpenHolds
<1> QED BY <1>1, <1>2, <1>3, <1>4, <1>5, <1>6, <1>7, <1>8, <1>9, <1>10, <1>11,
           <1>12, <1>13, <1>14
       DEF Next, AttemptStep, WorkStep

LEMMA ConnectingHeldStep ==
  ASSUME TypeOK, Shape, EndedParams, ConnInv, ConnectingHeld, ConnectAlone,
         [Next]_vars, Uncrossed'
  PROVE  ConnectingHeld'
<1>1. CASE RunOwner
  BY <1>1, RunOwnerFacts, IdleTypes DEF ConnectingHeld, SameLink
<1>2. ASSUME NEW a \in Attempts, BackoffAborted(a)  PROVE ConnectingHeld'
  BY <1>2, BackoffAbortedFacts, IdleTypes
  DEF ConnectingHeld, SameLink, SameCycle
<1>3. ASSUME NEW a \in Attempts, BackoffSuspended(a)  PROVE ConnectingHeld'
  BY <1>3, BackoffSuspendedFacts, IdleTypes DEF ConnectingHeld, SameLink
<1>4. ASSUME NEW a \in Attempts, BackoffDone(a)  PROVE ConnectingHeld'
  BY <1>4, BackoffDoneFacts, IdleTypes DEF ConnectingHeld, SameLink, SameCycle
<1>5. ASSUME NEW a \in Attempts, WorkStep(a)  PROVE ConnectingHeld'
  <2>0. Moved(a)
    BY <1>5, WorkMoves
  <2>1. CASE Stands(a)
    BY <2>0, <2>1, IdleTypes
    DEF ConnectingHeld, Moved, Stands, SameRun, SameFlags, SameWires
  <2>2. CASE TidiesUp(a)
    BY <2>0, <2>2, IdleTypes
    DEF ConnectingHeld, Moved, TidiesUp, SameRun, SameFlags, SameWires
  <2>3. CASE EndsBadly(a)
    BY <2>0, <2>3, IdleTypes
    DEF ConnectingHeld, Moved, EndsBadly, SameRun, HandsOver
  <2>4. CASE Attaches(a)
    BY <2>0, <2>4, IdleTypes
    DEF ConnectingHeld, Moved, Attaches, SameRun, SameFlags
  <2>5. CASE EndsWell(a)
    BY <2>0, <2>5, IdleTypes DEF ConnectingHeld, Moved, EndsWell, SameWires
  <2> QED BY <1>5, <2>1, <2>2, <2>3, <2>4, <2>5, WorkMoves
<1>6. ASSUME NEW c \in Connects, Connect(c)  PROVE ConnectingHeld'
  <2>0. Calling(c)
    BY <1>6, ConnectBegins
  <2>1. CASE LetsGo(c)
    BY <2>0, <2>1, IdleTypes
    DEF ConnectingHeld, Calling, Called, LetsGo, Unhooks, SameRun, SameFlags
  <2>2. CASE Begins(c)
    BY <2>0, <2>2, IdleTypes
    DEF ConnectingHeld, Calling, Called, Begins, Resets, Unhooks, SameWires
  <2> QED BY <1>6, <2>1, <2>2, ConnectBegins
<1>7. ASSUME NEW c \in Connects, ConnectStep(c)  PROVE ConnectingHeld'
  <2>0. Called(c)
    BY <1>7, ConnectMoves
  <2>1. CASE ConnectPrepared(c)
    BY <2>0, <2>1, ConnectPreparedMoves, IdleTypes
    DEF ConnectingHeld, Called, Resets, SameWires
  <2>2. CASE ConnectOpens(c)
    BY <2>0, <2>2, ConnectOpensMoves, IdleTypes
    DEF ConnectingHeld, Called, Attaching, SameRun, SameFlags
  <2>3. CASE ConnectFailed(c)
    BY <2>0, <2>3, ConnectFailedFacts, IdleTypes
    DEF ConnectingHeld, Called, SameCycle, SameFlags
  <2>4. CASE Failing(c)
    BY <2>0, <2>4, IdleTypes
    DEF ConnectingHeld, Called, Failing, GivenUp, SameFlags
  <2>5. CASE Holding(c)
    <3>1. rt'.ui = "connected"
      BY <2>5, ConnectHolds DEF ConnectClear, Holding
    <3> QED BY <3>1 DEF ConnectingHeld
  <2> QED BY <1>7, <2>1, <2>2, <2>3, <2>4, <2>5, ConnectMoves
<1>8. CASE Notified \/ WatchdogFires \/ ResumeDue
  <2>0. Event
    BY <1>8, LosingMoves
  <2>1. CASE Ignores
    BY <2>0, <2>1, IdleTypes
    DEF ConnectingHeld, Event, Ignores, SameRun, SameFlags, SameWires
  <2>2. CASE LosesLink
    BY <2>0, <2>2, IdleTypes DEF ConnectingHeld, Event, LosesLink, LinkLost
  <2> QED BY <1>8, <2>1, <2>2, LosingMoves
<1>9. ASSUME NEW l \in Losses, LostClosed(l) \/ LostDropped(l)  PROVE ConnectingHeld'
  <2>0. TornDown(l)
    BY <1>9, LostMoves
  <2>1. CASE GoesOn(l)
    BY <2>0, <2>1, IdleTypes DEF ConnectingHeld, TornDown, GoesOn
  <2>2. CASE HandsTo(l)
    BY <2>0, <2>2, IdleTypes DEF ConnectingHeld, TornDown, HandsTo, SameRun
  <2> QED BY <1>9, <2>1, <2>2, LostMoves
<1>10. CASE Disconnect
  BY <1>10, DisconnectFacts, IdleTypes DEF ConnectingHeld
<1>11. CASE DisconnectEnds
  BY <1>11, DisconnectEndsFacts, IdleTypes
  DEF ConnectingHeld, SameCycle, SameFlags
<1>12. CASE SocketDrops \/ Resume
  BY <1>12, SocketDropsFacts, ResumeFacts, IdleTypes
  DEF ConnectingHeld, SameCycle, SameFlags
<1>13. CASE Suspend
  BY <1>13, SuspendFacts, IdleTypes DEF ConnectingHeld, SameLink
<1>14. CASE UNCHANGED vars
  BY <1>14 DEF vars, flows, ConnectingHeld
<1> QED BY <1>1, <1>2, <1>3, <1>4, <1>5, <1>6, <1>7, <1>8, <1>9, <1>10, <1>11,
           <1>12, <1>13, <1>14
       DEF Next, AttemptStep, WorkStep

(* With nobody about who opens, the chain is empty and no teardown is left. *)
LEMMA NobodyAsks ==
  ASSUME TypeOK, Shape, GateInv, Prompt, \A a \in Attempts : att[a] = IdleAttempt,
         \A c \in Connects : conn[c].pc = "idle"
  PROVE  gate = <<>> /\ \A l \in Losses : lost[l].pc = "idle"
<1>1. gate = <<>>
  <2> SUFFICES ASSUME gate # <<>>  PROVE FALSE
    OBVIOUS
  <2>1. gate \in Seq(Ask)
    BY DEF TypeOK
  <2>2. Head(gate) = gate[1] /\ 1 \in 1..Len(gate) /\ Head(gate).op # "disconnect"
    BY <2>1 DEF Prompt
  <2>3. Asked(gate[1], att, conn)
    BY <2>2 DEF GateInv, GateOk, Opens
  <2> QED BY <2>3, IdleTypes DEF Asked
<1>2. \A l \in Losses : lost[l].pc \in {"idle", "closing", "dropping"}
  BY DEF TypeOK, Loss
<1>3. \A l \in Losses : lost[l].pc # "dropping"
  BY <1>1 DEF Shape, LostShape, InGate
<1> QED BY <1>1, <1>2, <1>3 DEF Prompt

(* What connect() finds when nothing that was ended is still about. *)
LEMMA ConnectFree ==
  ASSUME TypeOK, Shape, GateInv, CycleMoves, NEW c \in Connects, Connect(c), Uncrossed'
  PROVE  /\ Calling(c) /\ (LetsGo(c) \/ Begins(c)) /\ AttemptsIdle /\ ~rt.rec /\ fin = "idle"
         /\ \A a \in Attempts : att[a] = IdleAttempt
         /\ \A l \in Losses : lost[l].pc = "idle"
         /\ \A d \in Connects : conn[d].pc = "idle"
<1>1. /\ Calling(c) /\ (LetsGo(c) \/ Begins(c)) /\ fin = "idle"
      /\ \A a \in Attempts : att[a] = IdleAttempt
      /\ \A d \in Connects : conn[d].pc = "idle"
  BY ConnectBegins DEF Calling
<1>2. \A l \in Losses : lost[l].pc = "idle"
  BY <1>1, NobodyAsks DEF Calling
<1>3. AttemptsIdle
  BY <1>1, IdleTypes DEF AttemptsIdle
<1>4. ~rt.rec
  BY <1>1, <1>2, <1>3 DEF Calling, Called, Macro, CycleMoves, AttemptsIdle
<1> QED BY <1>1, <1>2, <1>3, <1>4

(* It leaves no listener and no watchdog. *)
LEMMA ConnectClears ==
  ASSUME TypeOK, Shape, GateInv, CycleMoves, LinkOff, NEW c \in Connects, Connect(c), Uncrossed'
  PROVE  LinkClear' /\ rt'.device = NoSession /\ rt'.alarm = {}
<1>1. /\ rt'.device = NoSession /\ rt'.alarm = {} /\ ~rt.rec /\ ~power.asleep /\ ~power.due
      /\ fin = "idle"
  BY ConnectFree DEF Calling, Called, Macro
<1>2. CASE Unhooks
  BY <1>1, <1>2 DEF Unhooks, LinkClear
<1>3. CASE rt.device = NoSession /\ SameWires(rt', rt) /\ rt'.watchdog = rt.watchdog
  BY <1>1, <1>3 DEF LinkOff, Ending, LinkClear, SameWires
<1> QED BY <1>2, <1>3, ConnectFree DEF LetsGo, Begins

(* An attempt of the current generation has a cycle. *)
LEMMA CycleOfAttempt ==
  ASSUME TypeOK, EndedStale, NEW a \in Attempts, att[a].pc # "idle", att[a].gen = rt.gen
  PROVE  rt.rec
<1>1. rt.gen \in Nat /\ att[a].gen \in Nat
  BY DEF TypeOK, Machine, Attempt
<1> QED BY <1>1 DEF EndedStale

LEMMA LeftoverOffStep ==
  ASSUME TypeOK, Shape, EndedParams, CycleFlags, GateInv, ConnInv, OneAttempt,
         EndedStale, LinkOff, CycleMoves, LeftoverOff, ConnectAlone,
         [Next]_vars, Uncrossed'
  PROVE  LeftoverOff'
<1>1. CASE RunOwner
  BY <1>1, RunOwnerFacts DEF LeftoverOff, LinkClear, SameLink
<1>2. ASSUME NEW a \in Attempts, BackoffAborted(a)  PROVE LeftoverOff'
  BY <1>2, BackoffAbortedFacts DEF LeftoverOff, SameCycle
<1>3. ASSUME NEW a \in Attempts, BackoffSuspended(a)  PROVE LeftoverOff'
  BY <1>3, BackoffSuspendedFacts DEF LeftoverOff, LinkClear, SameLink
<1>4. ASSUME NEW a \in Attempts, BackoffDone(a)  PROVE LeftoverOff'
  BY <1>4, BackoffDoneFacts DEF LeftoverOff, LinkClear, SameLink, SameCycle
<1>5. ASSUME NEW a \in Attempts, WorkStep(a)  PROVE LeftoverOff'
  <2>0. Moved(a)
    BY <1>5, WorkMoves
  <2>1. CASE Stands(a)
    BY <2>0, <2>1
    DEF LeftoverOff, LinkClear, Moved, Stands, SameRun, SameFlags, SameWires
  <2>2. CASE TidiesUp(a)
    BY <2>0, <2>2
    DEF LeftoverOff, LinkClear, Moved, TidiesUp, SameRun, SameFlags, SameWires
  <2>3. CASE EndsBadly(a)
    BY <2>0, <2>3
    DEF LeftoverOff, LinkClear, Moved, EndsBadly, SameRun, HandsOver
  <2>4. CASE Attaches(a)
    <3>1. rt.rec
      BY <2>4, CycleOfAttempt DEF Attaches
    <3> QED BY <2>4, <3>1 DEF LeftoverOff, Attaches, SameRun
  <2>5. CASE EndsWell(a)
    BY <2>0, <2>5 DEF LeftoverOff, LinkClear, Moved, EndsWell, SameWires
  <2> QED BY <1>5, <2>1, <2>2, <2>3, <2>4, <2>5, WorkMoves
<1>6. ASSUME NEW c \in Connects, Connect(c)  PROVE LeftoverOff'
  BY <1>6, ConnectClears DEF LeftoverOff
<1>7. ASSUME NEW c \in Connects, ConnectStep(c)  PROVE LeftoverOff'
  <2>0. Called(c)
    BY <1>7, ConnectMoves
  <2>1. CASE ConnectPrepared(c)
    BY <2>0, <2>1, ConnectPreparedMoves
    DEF LeftoverOff, LinkClear, Called, Resets, SameWires
  <2>2. CASE ConnectOpens(c)
    <3>1. ~rt.cRec
      BY <2>0, <2>2, ConnectFinds, ConnectOpensMoves DEF ConnectClear, Attaching
    <3> QED BY <2>2, <3>1, ConnectOpensMoves DEF LeftoverOff, Attaching, SameFlags
  <2>3. CASE ConnectFailed(c)
    BY <2>0, <2>3, ConnectFailedFacts
    DEF LeftoverOff, LinkClear, Called, SameCycle, SameFlags
  <2>4. CASE Failing(c)
    BY <2>0, <2>4 DEF LeftoverOff, LinkClear, Called, Failing, GivenUp, Macro
  <2>5. CASE Holding(c)
    <3>1. rt.wired # {} /\ ~rt.rec
      BY <2>5, ConnectHolds DEF Alone, ConnectClear, Holding
    <3> QED BY <2>5, <3>1 DEF LeftoverOff, LinkClear, Holding, SameRun, SameFlags
  <2> QED BY <1>7, <2>1, <2>2, <2>3, <2>4, <2>5, ConnectMoves
<1>8. CASE Notified \/ WatchdogFires \/ ResumeDue
  <2>0. Event
    BY <1>8, LosingMoves
  <2>1. CASE Ignores
    BY <2>0, <2>1
    DEF LeftoverOff, LinkClear, Event, Ignores, SameRun, SameFlags, SameWires
  <2>2. CASE LosesLink
    BY <2>0, <2>2 DEF LeftoverOff, LinkClear, Event, LosesLink, LinkLost
  <2> QED BY <1>8, <2>1, <2>2, LosingMoves
<1>9. ASSUME NEW l \in Losses, LostClosed(l) \/ LostDropped(l)  PROVE LeftoverOff'
  <2>0. TornDown(l)
    BY <1>9, LostMoves
  <2>1. CASE GoesOn(l)
    BY <2>0, <2>1 DEF LeftoverOff, LinkClear, TornDown, GoesOn
  <2>2. CASE HandsTo(l)
    BY <2>0, <2>2 DEF LeftoverOff, LinkClear, TornDown, HandsTo, SameRun
  <2> QED BY <1>9, <2>1, <2>2, LostMoves
<1>10. CASE Disconnect
  BY <1>10, DisconnectFacts DEF LeftoverOff, LinkClear
<1>11. CASE DisconnectEnds
  BY <1>11, DisconnectEndsFacts DEF LeftoverOff, LinkClear, SameCycle, SameFlags
<1>12. CASE SocketDrops \/ Resume
  BY <1>12, SocketDropsFacts, ResumeFacts
  DEF LeftoverOff, LinkClear, SameCycle, SameFlags
<1>13. CASE Suspend
  BY <1>13, SuspendFacts DEF LeftoverOff, LinkClear, SameLink
<1>14. CASE UNCHANGED vars
  BY <1>14 DEF vars, flows, LeftoverOff, LinkClear
<1> QED BY <1>1, <1>2, <1>3, <1>4, <1>5, <1>6, <1>7, <1>8, <1>9, <1>10, <1>11,
           <1>12, <1>13, <1>14
       DEF Next, AttemptStep, WorkStep

LEMMA ExplicitOffStep ==
  ASSUME TypeOK, Shape, EndedParams, CycleFlags, GateInv, ConnInv, EndedStale,
         LinkOff, CycleMoves, ExplicitOff, ConnectAlone, [Next]_vars,
         Uncrossed'
  PROVE  ExplicitOff'
<1>1. CASE RunOwner
  BY <1>1, RunOwnerFacts DEF ExplicitOff, LinkClear, Ending, SameLink
<1>2. ASSUME NEW a \in Attempts, BackoffAborted(a)  PROVE ExplicitOff'
  BY <1>2, BackoffAbortedFacts
  DEF ExplicitOff, LinkClear, Ending, SameLink, SameCycle
<1>3. ASSUME NEW a \in Attempts, BackoffSuspended(a)  PROVE ExplicitOff'
  BY <1>3, BackoffSuspendedFacts DEF ExplicitOff, LinkClear, Ending, SameLink
<1>4. ASSUME NEW a \in Attempts, BackoffDone(a)  PROVE ExplicitOff'
  BY <1>4, BackoffDoneFacts
  DEF ExplicitOff, LinkClear, Ending, SameLink, SameCycle
<1>5. ASSUME NEW a \in Attempts, WorkStep(a)  PROVE ExplicitOff'
  <2>0. Moved(a)
    BY <1>5, WorkMoves
  <2>1. CASE Stands(a)
    BY <2>0, <2>1 DEF ExplicitOff, LinkClear, Ending, Uncrossed, Moved, Stands, SameRun,
       SameWires
  <2>2. CASE TidiesUp(a)
    BY <2>0, <2>2
    DEF ExplicitOff, LinkClear, Ending, Moved, TidiesUp, SameRun, SameFlags,
        SameWires
  <2>3. CASE EndsBadly(a)
    BY <2>0, <2>3
    DEF ExplicitOff, LinkClear, Ending, Moved, EndsBadly, SameRun, HandsOver
  <2>4. CASE Attaches(a)
    <3>1. rt.rec
      BY <2>4, CycleOfAttempt DEF Attaches
    <3> QED BY <2>4, <3>1 DEF ExplicitOff, CycleFlags, Attaches, SameRun
  <2>5. CASE EndsWell(a)
    <3>1. rt.rec
      BY <2>5, CycleOfAttempt DEF EndsWell
    <3> QED BY <2>5, <3>1 DEF ExplicitOff, CycleFlags, EndsWell
  <2> QED BY <1>5, <2>1, <2>2, <2>3, <2>4, <2>5, WorkMoves
<1>6. ASSUME NEW c \in Connects, Connect(c)  PROVE ExplicitOff'
  BY <1>6, ConnectClears DEF ExplicitOff
<1>7. ASSUME NEW c \in Connects, ConnectStep(c)  PROVE ExplicitOff'
  <2>0. Called(c)
    BY <1>7, ConnectMoves
  <2>1. CASE ConnectPrepared(c)
    BY <2>0, <2>1, ConnectPreparedMoves
    DEF ExplicitOff, LinkClear, Ending, Called, Resets, SameWires
  <2>2. CASE ConnectOpens(c)
    <3>1. ~rt.explicit
      BY <2>0, <2>2, ConnectFinds, ConnectOpensMoves DEF ConnectClear, Attaching
    <3> QED BY <2>2, <3>1, ConnectOpensMoves DEF ExplicitOff, Attaching, SameRun
  <2>3. CASE ConnectFailed(c)
    BY <2>0, <2>3, ConnectFailedFacts
    DEF ExplicitOff, LinkClear, Ending, Called, SameCycle, SameFlags
  <2>4. CASE Failing(c)
    BY <2>0, <2>4, IdleTypes
    DEF ExplicitOff, LinkClear, Ending, Called, Failing, GivenUp, SameFlags
  <2>5. CASE Holding(c)
    <3>1. ~rt.explicit
      BY <2>5, ConnectHolds DEF ConnectClear, Holding
    <3> QED BY <2>5, <3>1 DEF ExplicitOff, Holding, SameRun
  <2> QED BY <1>7, <2>1, <2>2, <2>3, <2>4, <2>5, ConnectMoves
<1>8. CASE Notified \/ WatchdogFires \/ ResumeDue
  <2>0. Event
    BY <1>8, LosingMoves
  <2>1. CASE Ignores
    BY <2>0, <2>1
    DEF ExplicitOff, LinkClear, Ending, Event, Ignores, SameRun, SameFlags,
        SameWires
  <2>2. CASE LosesLink
    BY <2>0, <2>2 DEF ExplicitOff, LinkClear, Ending, Event, LosesLink, LinkLost
  <2> QED BY <1>8, <2>1, <2>2, LosingMoves
<1>9. ASSUME NEW l \in Losses, LostClosed(l) \/ LostDropped(l)  PROVE ExplicitOff'
  <2>0. TornDown(l)
    BY <1>9, LostMoves
  <2>1. CASE GoesOn(l)
    BY <2>0, <2>1 DEF ExplicitOff, LinkClear, Ending, TornDown, GoesOn
  <2>2. CASE HandsTo(l)
    BY <2>0, <2>2 DEF ExplicitOff, LinkClear, Ending, TornDown, HandsTo, SameRun
  <2> QED BY <1>9, <2>1, <2>2, LostMoves
<1>10. CASE Disconnect
  BY <1>10, DisconnectFacts DEF ExplicitOff, LinkClear, Ending
<1>11. CASE DisconnectEnds
  BY <1>11, DisconnectEndsFacts
  DEF ExplicitOff, LinkClear, Ending, SameCycle, SameFlags
<1>12. CASE SocketDrops \/ Resume
  BY <1>12, SocketDropsFacts, ResumeFacts
  DEF ExplicitOff, LinkClear, Ending, SameCycle, SameFlags
<1>13. CASE Suspend
  BY <1>13, SuspendFacts DEF ExplicitOff, LinkClear, Ending, SameLink
<1>14. CASE UNCHANGED vars
  BY <1>14 DEF vars, flows, ExplicitOff, LinkClear, Ending
<1> QED BY <1>1, <1>2, <1>3, <1>4, <1>5, <1>6, <1>7, <1>8, <1>9, <1>10, <1>11,
           <1>12, <1>13, <1>14
       DEF Next, AttemptStep, WorkStep

LEMMA LinkOffStep ==
  ASSUME TypeOK, Shape, EndedParams, Untouched, GateInv, ConnInv, OneAttempt,
         EndedStale, OpenHolds, ExplicitOff, LinkOff, CycleMoves,
         ConnectAlone, [Next]_vars, Uncrossed'
  PROVE  LinkOff'
<1>1. CASE RunOwner
  BY <1>1, RunOwnerFacts, IdleTypes
  DEF LinkOff, LinkClear, Ending, AttemptsIdle, SameLink
<1>2. ASSUME NEW a \in Attempts, BackoffAborted(a)  PROVE LinkOff'
  BY <1>2, BackoffAbortedFacts, IdleTypes
  DEF LinkOff, LinkClear, Ending, AttemptsIdle, SameLink, SameCycle
<1>3. ASSUME NEW a \in Attempts, BackoffSuspended(a)  PROVE LinkOff'
  BY <1>3, BackoffSuspendedFacts, IdleTypes
  DEF LinkOff, LinkClear, Ending, AttemptsIdle, SameLink
<1>4. ASSUME NEW a \in Attempts, BackoffDone(a)  PROVE LinkOff'
  BY <1>4, BackoffDoneFacts DEF LinkOff, SameCycle
<1>5. ASSUME NEW a \in Attempts, WorkStep(a)  PROVE LinkOff'
  <2>0. Moved(a)
    BY <1>5, WorkMoves
  <2>1. CASE Stands(a)
    BY <2>0, <2>1 DEF LinkOff, LinkClear, Ending, AttemptsIdle, Uncrossed, Moved, Stands, SameRun,
       SameWires
  <2>2. CASE TidiesUp(a)
    BY <2>0, <2>2, IdleTypes
    DEF LinkOff, LinkClear, Ending, AttemptsIdle, Moved, TidiesUp, SameRun,
        SameFlags, SameWires
  <2>3. CASE EndsBadly(a)
    BY <2>0, <2>3, IdleTypes
    DEF LinkOff, LinkClear, Ending, AttemptsIdle, Moved, EndsBadly, SameRun,
        HandsOver
  <2>4. CASE Attaches(a)
    <3>1. rt.rec
      BY <2>4, CycleOfAttempt DEF Attaches
    <3> QED BY <2>4, <3>1 DEF LinkOff, Attaches, SameRun
  <2>5. CASE EndsWell(a)
    <3>1. rt'.device # NoSession
      BY <2>5 DEF EndsWell, OpenHolds
    <3>2. AttemptsIdle'
      BY <2>0, <2>5, OnlyAttempt DEF Moved, EndsWell, AttemptsIdle
    <3> QED BY <3>1, <3>2 DEF LinkOff
  <2> QED BY <1>5, <2>1, <2>2, <2>3, <2>4, <2>5, WorkMoves
<1>6. ASSUME NEW c \in Connects, Connect(c)  PROVE LinkOff'
  BY <1>6, ConnectClears DEF LinkOff
<1>7. ASSUME NEW c \in Connects, ConnectStep(c)  PROVE LinkOff'
  <2>0. Called(c)
    BY <1>7, ConnectMoves
  <2>1. CASE ConnectPrepared(c)
    <3>1. LinkClear
      BY <2>0, <2>1, ConnectFinds, ConnectPreparedMoves DEF ConnectClear
    <3> QED BY <2>1, <3>1, ConnectPreparedMoves DEF LinkOff, LinkClear, SameWires
  <2>2. CASE ConnectOpens(c)
    <3>1. AttemptsIdle'
      BY <2>0, <2>2, ConnectFinds DEF Called, AttemptsIdle
    <3> QED BY <2>2, <3>1, ConnectOpensMoves DEF LinkOff, Attaching
  <2>3. CASE ConnectFailed(c)
    BY <2>0, <2>3, ConnectFailedFacts, IdleTypes
    DEF LinkOff, LinkClear, Ending, AttemptsIdle, Called, SameCycle, SameFlags
  <2>4. CASE Failing(c)
    BY <2>0, <2>4, IdleTypes
    DEF LinkOff, LinkClear, Ending, AttemptsIdle, Called, Failing, GivenUp,
        SameFlags
  <2>5. CASE Holding(c)
    <3>1. AttemptsIdle' /\ rt'.device # NoSession
      <4>1. AttemptsIdle /\ rt.device = conn[c].session
        BY <2>5, ConnectHolds DEF ConnectClear, Holding
      <4>2. conn[c].session # NoSession
        BY <2>5 DEF Shape, ConnShape, Holding
      <4> QED BY <2>0, <2>5, <4>1, <4>2 DEF Called, Holding, AttemptsIdle
    <3> QED BY <3>1 DEF LinkOff
  <2> QED BY <1>7, <2>1, <2>2, <2>3, <2>4, <2>5, ConnectMoves
<1>8. CASE Notified \/ WatchdogFires \/ ResumeDue
  <2>0. Event
    BY <1>8, LosingMoves
  <2>1. CASE Ignores
    <3>1. CASE rt.explicit
      BY <2>0, <2>1, <3>1 DEF ExplicitOff, LinkOff, LinkClear, Ending, Event, Ignores, SameWires
    <3>2. CASE ~rt.explicit
      BY <2>0, <2>1, <3>2 DEF Untouched, LinkOff, LinkClear, Event, Ignores, SameWires
    <3> QED BY <3>1, <3>2
  <2>2. CASE LosesLink
    BY <2>0, <2>2, IdleTypes
    DEF LinkOff, LinkClear, Ending, AttemptsIdle, Event, LosesLink, LinkLost
  <2> QED BY <1>8, <2>1, <2>2, LosingMoves
<1>9. ASSUME NEW l \in Losses, LostClosed(l) \/ LostDropped(l)  PROVE LinkOff'
  <2>0. TornDown(l)
    BY <1>9, LostMoves
  <2>1. CASE GoesOn(l)
    BY <2>0, <2>1, IdleTypes
    DEF LinkOff, LinkClear, Ending, AttemptsIdle, TornDown, GoesOn
  <2>2. CASE HandsTo(l)
    BY <2>0, <2>2, IdleTypes
    DEF LinkOff, LinkClear, Ending, AttemptsIdle, TornDown, HandsTo, SameRun
  <2> QED BY <1>9, <2>1, <2>2, LostMoves
<1>10. CASE Disconnect
  BY <1>10, DisconnectFacts, IdleTypes
  DEF LinkOff, LinkClear, Ending, AttemptsIdle
<1>11. CASE DisconnectEnds
  BY <1>11, DisconnectEndsFacts, IdleTypes
  DEF LinkOff, LinkClear, Ending, AttemptsIdle, SameCycle, SameFlags
<1>12. CASE SocketDrops \/ Resume
  BY <1>12, SocketDropsFacts, ResumeFacts, IdleTypes
  DEF LinkOff, LinkClear, Ending, AttemptsIdle, SameCycle, SameFlags
<1>13. CASE Suspend
  BY <1>13, SuspendFacts, IdleTypes
  DEF LinkOff, LinkClear, Ending, AttemptsIdle, SameLink
<1>14. CASE UNCHANGED vars
  BY <1>14 DEF vars, flows, LinkOff, LinkClear, Ending, AttemptsIdle
<1> QED BY <1>1, <1>2, <1>3, <1>4, <1>5, <1>6, <1>7, <1>8, <1>9, <1>10, <1>11,
           <1>12, <1>13, <1>14
       DEF Next, AttemptStep, WorkStep

(* A link is lost with a cycle that runs, or with none. *)
LEMMA LosesInCycle ==
  ASSUME LeftoverOff, SleepCycle, LosesLink
  PROVE  rt.cRec => rt.rec
BY DEF LeftoverOff, LinkClear, SleepCycle, LosesLink

LEMMA CycleMovesStep ==
  ASSUME TypeOK, Shape, EndedParams, CycleFlags, InFlightHeld, ActiveHeld,
         SleepCycle, OneAttempt, CycleMoves, LeftoverOff, [Next]_vars,
         Uncrossed'
  PROVE  CycleMoves'
<1>1. CASE RunOwner
  <2>1. CASE att' = att /\ rt'.rec = rt.rec
    <3>1. rt.rec => rt.cRec /\ ~rt.explicit
      BY DEF CycleFlags
    <3>2. rt.rec => \/ rt.active /\ (rt.deferred => rt'.deferred)
                    \/ rt.inFlight /\ rt'.deferred
      BY <1>1, <2>1, <3>1, RunOwnerFacts
    <3>3. rt'.gen = rt.gen
      BY <1>1, RunOwnerFacts
    <3> QED BY <2>1, <3>2, <3>3 DEF CycleMoves, ActiveHeld, InFlightHeld
  <2>2. CASE ~rt'.rec
    BY <2>2 DEF CycleMoves
  <2>3. CASE \E a \in Attempts : att'[a].pc = "backoff" /\ att'[a].gen = rt'.gen
    BY <2>3 DEF CycleMoves
  <2> QED BY <1>1, <2>1, <2>2, <2>3, RunOwnerFacts
<1>2. ASSUME NEW a \in Attempts, BackoffAborted(a)  PROVE CycleMoves'
  <2>1. /\ att[a].pc = "backoff" /\ lost' = lost /\ rt'.rec = rt.rec
        /\ (rt.pend => rt'.pend) /\ (rt.rec => att[a].gen # rt.gen)
        /\ (rt.deferred /\ rt.rec /\ ~rt.explicit => rt'.pend)
    BY <1>2, BackoffAbortedFacts DEF SameCycle
  <2>2. rt.rec => ~rt.explicit
    BY DEF CycleFlags
  <2> QED BY <2>1, <2>2, OnlyAttempt DEF CycleMoves
<1>3. ASSUME NEW a \in Attempts, BackoffSuspended(a)  PROVE CycleMoves'
  BY <1>3, BackoffSuspendedFacts DEF CycleMoves
<1>4. ASSUME NEW a \in Attempts, BackoffDone(a)  PROVE CycleMoves'
  <2>1. CASE rt.inFlight
    <3>1. PICK b \in Attempts : att[b].pc \in {"open", "cleanup"}
      BY <2>1 DEF InFlightHeld
    <3>2. att'[b].pc # "idle" /\ rt'.deferred
      BY <1>4, <2>1, <3>1, BackoffDoneFacts
    <3> QED BY <3>2 DEF CycleMoves
  <2>2. CASE ~rt.inFlight
    <3>1. /\ att'[a].pc = "open" /\ att'[a].gen = rt'.gen
      BY <1>4, <2>2, BackoffDoneFacts DEF SameCycle
    <3> QED BY <3>1 DEF CycleMoves
  <2> QED BY <2>1, <2>2
<1>5. ASSUME NEW a \in Attempts, WorkStep(a)  PROVE CycleMoves'
  <2>0. Moved(a)
    BY <1>5, WorkMoves
  <2>1. CASE Stands(a)
    BY <2>0, <2>1 DEF CycleMoves, Moved, Stands, SameRun, SameFlags, SameWires
  <2>2. CASE TidiesUp(a)
    BY <2>0, <2>2 DEF CycleMoves, Moved, TidiesUp, SameRun, SameFlags, SameWires
  <2>3. CASE EndsBadly(a)
    <3>1. /\ att[a].pc # "idle" /\ lost' = lost /\ rt'.rec = rt.rec
          /\ (rt'.pend <=> rt.pend \/ (rt.rec /\ (rt.deferred \/ rt.dirty \/ rt.gen = att[a].gen)))
      BY <2>0, <2>3 DEF Moved, EndsBadly, HandsOver, SameRun
    <3> QED BY <3>1, OnlyAttempt DEF CycleMoves
  <2>4. CASE Attaches(a)
    BY <2>0, <2>4 DEF CycleMoves, Moved, Attaches, SameRun, SameFlags
  <2>5. CASE EndsWell(a)
    BY <2>0, <2>5 DEF CycleMoves, Moved, EndsWell, SameWires
  <2> QED BY <1>5, <2>1, <2>2, <2>3, <2>4, <2>5, WorkMoves
<1>6. ASSUME NEW c \in Connects, Connect(c)  PROVE CycleMoves'
  <2>0. Calling(c)
    BY <1>6, ConnectBegins
  <2>1. CASE LetsGo(c)
    BY <2>0, <2>1
    DEF CycleMoves, Calling, Called, LetsGo, Unhooks, SameRun, SameFlags
  <2>2. CASE Begins(c)
    BY <2>2 DEF Begins, Resets, CycleMoves
  <2> QED BY <1>6, <2>1, <2>2, ConnectBegins
<1>7. ASSUME NEW c \in Connects, ConnectStep(c)  PROVE CycleMoves'
  <2>0. Called(c)
    BY <1>7, ConnectMoves
  <2>1. CASE ConnectPrepared(c)
    BY <2>1, ConnectPreparedMoves DEF Resets, CycleMoves
  <2>2. CASE ConnectOpens(c)
    BY <2>0, <2>2, ConnectOpensMoves
    DEF CycleMoves, Called, Attaching, SameRun, SameFlags
  <2>3. CASE ConnectFailed(c)
    BY <2>0, <2>3, ConnectFailedFacts
    DEF CycleMoves, Called, SameCycle, SameFlags
  <2>4. CASE Failing(c)
    BY <2>4 DEF Failing, GivenUp, CycleMoves
  <2>5. CASE Holding(c)
    BY <2>0, <2>5 DEF CycleMoves, Called, Holding, SameRun, SameFlags, SameWires
  <2> QED BY <1>7, <2>1, <2>2, <2>3, <2>4, <2>5, ConnectMoves
<1>8. CASE Notified \/ WatchdogFires \/ ResumeDue
  <2>0. Event
    BY <1>8, LosingMoves
  <2>1. CASE Ignores
    BY <2>0, <2>1 DEF CycleMoves, Event, Ignores, SameRun, SameFlags, SameWires
  <2>2. CASE LosesLink
    <3>1. CASE rt.cRec
      <4>1. rt.rec /\ rt'.deferred /\ att' = att
        BY <2>0, <2>2, <3>1, LosesInCycle DEF Event, LosesLink, LinkLost
      <4>2. rt.pend => rt'.pend
        BY <2>2 DEF LosesLink, LinkLost
      <4>3. \A l \in Losses : lost[l].pc # "idle" => lost'[l] = lost[l]
        BY <2>2 DEF LosesLink, LinkLost, Teardown
      <4> QED BY <4>1, <4>2, <4>3 DEF CycleMoves
    <3>2. CASE ~rt.cRec
      <4>1. rt'.pend \/ \E l \in Losses : lost'[l].pc # "idle" /\ lost'[l].start
        BY <2>2, <3>2 DEF LosesLink, LinkLost, Teardown
      <4> QED BY <4>1 DEF CycleMoves
    <3> QED BY <3>1, <3>2
  <2> QED BY <1>8, <2>1, <2>2, LosingMoves
<1>9. ASSUME NEW l \in Losses, LostClosed(l) \/ LostDropped(l)  PROVE CycleMoves'
  <2>0. TornDown(l)
    BY <1>9, LostMoves
  <2>1. CASE GoesOn(l)
    BY <2>0, <2>1 DEF CycleMoves, TornDown, GoesOn
  <2>2. CASE HandsTo(l)
    BY <2>0, <2>2 DEF CycleMoves, TornDown, HandsTo, SameRun
  <2> QED BY <1>9, <2>1, <2>2, LostMoves
<1>10. CASE Disconnect
  BY <1>10, DisconnectFacts DEF CycleMoves
<1>11. CASE DisconnectEnds
  BY <1>11, DisconnectEndsFacts DEF CycleMoves, SameCycle, SameFlags
<1>12. CASE SocketDrops \/ Resume
  BY <1>12, SocketDropsFacts, ResumeFacts DEF CycleMoves, SameCycle, SameFlags
<1>13. CASE Suspend
  BY <1>13, SuspendFacts DEF CycleMoves
<1>14. CASE UNCHANGED vars
  BY <1>14 DEF vars, flows, CycleMoves
<1> QED BY <1>1, <1>2, <1>3, <1>4, <1>5, <1>6, <1>7, <1>8, <1>9, <1>10, <1>11,
           <1>12, <1>13, <1>14
       DEF Next, AttemptStep, WorkStep

(* No other connect() that is not superseded moves on beside this one. *)
LEMMA ConnectSole ==
  ASSUME TypeOK, Shape, NEW c \in Connects, ConnectStep(c), ConnectAlone
  PROVE  \A d \in Connects : d # c => ~Calm(d)'
<1>1. /\ \A d \in Connects : d # c => conn'[d] = conn[d]
      /\ conn[c].pc # "idle"
  BY ConnectMoves, ConnectPreparedMoves, ConnectOpensMoves, ConnectFailedFacts
  DEF Called, Attaching, Failing, Holding
<1>2. \A d \in Connects : d # c /\ <<"connect", d>> \in hist.stale
        => <<"connect", d>> \in hist'.stale
  <2>1. \/ \A d \in Connects : <<"connect", d>> \in hist'.stale
        \/ hist'.stale = hist.stale
        \/ hist'.stale = hist.stale \ {<<"connect", c>>}
    BY ConnectMoves, ConnectPreparedFacts, ConnectOpensMoves, ConnectFailedFacts DEF Attaching
  <2> QED BY <2>1
<1>3. ASSUME NEW d \in Connects, d # c, Calm(d)'  PROVE FALSE
  <2>1. Calm(d)
    BY <1>1, <1>2, <1>3 DEF Calm
  <2> QED BY <1>1, <1>3, <2>1 DEF ConnectAlone, Alone
<1> QED BY <1>3

LEMMA ConnectAloneStep ==
  ASSUME TypeOK, Shape, PowerInv, EndedParams, GateInv, ConnInv, LinkOff,
         CycleMoves, ConnectAlone, [Next]_vars, Uncrossed'
  PROVE  ConnectAlone'
<1>1. CASE RunOwner
  <2>1. /\ conn' = conn /\ lost' = lost /\ fin' = fin /\ rt'.explicit = rt.explicit
        /\ rt'.alarm = rt.alarm
        /\ hist'.stale = hist.stale \/ \E a \in Attempts : hist'.stale = hist.stale \ {<<"attempt", a>>}
    BY <1>1, RunOwnerFacts
  <2>2. \A c \in Connects : Calm(c)' => Calm(c)
    BY <2>1 DEF Calm
  <2>3. CASE rt.rec
    BY <2>2, <2>3 DEF ConnectAlone, Alone
  <2>4. CASE ~rt.rec
    <3>1. /\ att' = att /\ ~rt'.rec /\ SameLink(rt', rt) /\ rt'.ui = rt.ui
          /\ rt'.cRec = rt.cRec
      BY <1>1, <2>4, RunOwnerFacts
    <3> QED BY <2>1, <2>2, <3>1
            DEF ConnectAlone, Alone, ConnectClear, LinkClear, SameLink
  <2> QED BY <2>3, <2>4
<1>2. ASSUME NEW a \in Attempts, BackoffAborted(a)  PROVE ConnectAlone'
  BY <1>2, BackoffAbortedFacts, IdleTypes DEF ConnectAlone, Calm, Alone
<1>3. ASSUME NEW a \in Attempts, BackoffSuspended(a)  PROVE ConnectAlone'
  BY <1>3, BackoffSuspendedFacts, IdleTypes DEF ConnectAlone, Calm, Alone
<1>4. ASSUME NEW a \in Attempts, BackoffDone(a)  PROVE ConnectAlone'
  BY <1>4, BackoffDoneFacts, IdleTypes DEF ConnectAlone, Calm, Alone
<1>5. ASSUME NEW a \in Attempts, WorkStep(a)  PROVE ConnectAlone'
  BY <1>5, WorkMoves DEF Moved, ConnectAlone, Calm, Alone
<1>6. ASSUME NEW c \in Connects, Connect(c)  PROVE ConnectAlone'
  <2>1. /\ att' = att /\ lost' = lost /\ fin' = fin /\ (LetsGo(c) \/ Begins(c))
        /\ \A d \in Connects : d # c => conn'[d].pc = "idle"
    BY <1>6, ConnectFree DEF Calling, Called
  <2>2. \A d \in Connects : Calm(d)' => d = c
    BY <2>1 DEF Calm
  <2>3. Alone(c)'
    <3>1. /\ fin = "idle" /\ ~rt.rec /\ (\A a \in Attempts : att[a] = IdleAttempt)
          /\ \A l \in Losses : lost[l].pc = "idle"
      BY <1>6, ConnectFree
    <3>2. ~rt'.rec
      BY <2>1, <3>1 DEF LetsGo, Begins, Resets, SameRun
    <3> QED BY <2>1, <3>1, <3>2 DEF Alone
  <2>4. ConnectClear(c)'
    <3>1. LinkClear' /\ rt'.device = NoSession /\ rt'.alarm = {} /\ rt.ui = "disconnected"
      BY <1>6, ConnectClears, ConnectBegins DEF Calling
    <3>2. \/ conn'[c].pc = "preparing" /\ rt'.ui = rt.ui
          \/ conn'[c].pc = "opening" /\ ~rt'.explicit /\ ~rt'.cRec
      BY <2>1 DEF LetsGo, Begins, Resets
    <3> QED BY <3>1, <3>2 DEF ConnectClear
  <2> QED BY <2>2, <2>3, <2>4 DEF ConnectAlone
<1>7. ASSUME NEW c \in Connects, ConnectStep(c)  PROVE ConnectAlone'
  <2>1. \A d \in Connects : Calm(d)' => d = c
    BY <1>7, ConnectSole
  <2>2. /\ att' = att /\ lost' = lost /\ fin' = fin /\ rt'.alarm = rt.alarm
        /\ \A d \in Connects : d # c => conn'[d] = conn[d]
    BY <1>7, ConnectMoves DEF Called
  <2>3. CASE ConnectPrepared(c)
    <3>1. /\ Alone(c) /\ ConnectClear(c) /\ conn[c].pc = "preparing" /\ conn'[c].pc = "opening"
          /\ Resets /\ SameWires(rt', rt) /\ rt'.device = rt.device
          /\ rt'.watchdog = rt.watchdog
      BY <2>3, ConnectFinds, ConnectPreparedMoves
    <3>2. Alone(c)'
      BY <2>2, <3>1 DEF Alone, Resets
    <3>3. ConnectClear(c)'
      BY <2>2, <3>1 DEF ConnectClear, Resets, LinkClear, SameWires
    <3> QED BY <2>1, <3>2, <3>3 DEF ConnectAlone
  <2>4. CASE ConnectOpens(c)
    <3>1. Alone(c) /\ ConnectClear(c) /\ Attaching(c)
      BY <2>4, ConnectFinds, ConnectOpensMoves
    <3>2. Alone(c)'
      BY <2>2, <3>1 DEF Alone, Attaching, SameRun
    <3>3. ConnectClear(c)'
      BY <3>1 DEF ConnectClear, Attaching, SameRun
    <3> QED BY <2>1, <3>2, <3>3 DEF ConnectAlone
  <2>5. CASE ConnectFailed(c) \/ Failing(c) \/ Holding(c)
    <3>1. ~Calm(c)'
      BY <2>5, ConnectFailedFacts, IdleTypes DEF Calm, Failing, GivenUp, Holding
    <3> QED BY <2>1, <3>1 DEF ConnectAlone
  <2> QED BY <1>7, <2>3, <2>4, <2>5, ConnectMoves
<1>8. CASE Notified \/ WatchdogFires \/ ResumeDue
  <2>0. Event
    BY <1>8, LosingMoves
  <2>1. CASE Ignores
    <3>1. \A c \in Connects : Calm(c)' => Calm(c)
      BY <2>0, <2>1 DEF Calm, Event, Ignores
    <3> QED BY <2>0, <2>1, <3>1
            DEF ConnectAlone, Alone, ConnectClear, LinkClear, Event, Ignores, SameRun,
                SameFlags, SameWires
  <2>2. CASE LosesLink
    <3>1. ASSUME NEW c \in Connects, Calm(c)'  PROVE FALSE
      <4>1. conn' = conn /\ <<"connect", c>> \in hist'.stale
        BY <2>0, <2>2, HistoryTypes DEF Event, LosesLink, LinkLost, TypeOK, History
      <4>2. conn[c].pc \in {"preparing", "opening"}
        BY <3>1, <4>1 DEF Calm
      <4>3. ConnectClear(c)
        BY <4>2 DEF ConnectAlone, Calm
      <4> QED BY <2>2, <4>2, <4>3 DEF ConnectClear, LinkClear, PowerInv, LosesLink
    <3> QED BY <3>1 DEF ConnectAlone
  <2> QED BY <1>8, <2>1, <2>2, LosingMoves
<1>9. ASSUME NEW l \in Losses, LostClosed(l) \/ LostDropped(l)  PROVE ConnectAlone'
  BY <1>9, LostMoves DEF TornDown, ConnectAlone, Calm, Alone
<1>10. CASE Disconnect
  <2>1. ASSUME NEW c \in Connects, Calm(c)'  PROVE FALSE
    <3>1. /\ conn'[c].pc = conn[c].pc /\ <<"connect", c>> \in hist'.stale
          /\ conn[c].pc # "opening" /\ rt.ui # "disconnected"
      BY <1>10, DisconnectFacts DEF Uncrossed
    <3>2. conn[c].pc = "preparing"
      BY <2>1, <3>1 DEF Calm
    <3> QED BY <3>1, <3>2 DEF ConnectAlone, Calm, ConnectClear
  <2> QED BY <2>1 DEF ConnectAlone
<1>11. CASE DisconnectEnds
  BY <1>11, DisconnectEndsFacts DEF ConnectAlone, Calm, Alone
<1>12. CASE SocketDrops \/ Resume
  <2>1. CASE SocketDrops
    <3>1. /\ UNCHANGED <<att, lost, conn, fin, hist>> /\ SameCycle(rt', rt) /\ SameFlags(rt', rt)
          /\ rt'.ui = rt.ui /\ rt'.device = rt.device /\ rt'.wired = rt.wired
          /\ rt'.watched = {} /\ rt'.alarm = rt.watched /\ rt'.watchdog = rt.watchdog
      BY <2>1, SocketDropsFacts
    <3>2. \A c \in Connects : Calm(c)' => Calm(c)
      BY <3>1 DEF Calm
    <3> QED BY <3>1, <3>2
            DEF ConnectAlone, Alone, ConnectClear, LinkClear, SameCycle, SameFlags
  <2>2. CASE Resume
    BY <2>2, ResumeFacts DEF ConnectAlone, Calm, Alone, ConnectClear, LinkClear
  <2> QED BY <1>12, <2>1, <2>2
<1>13. CASE Suspend
  BY <1>13, SuspendFacts DEF ConnectAlone, Calm
<1>14. CASE UNCHANGED vars
  BY <1>14 DEF vars, flows, ConnectAlone, Calm, Alone, ConnectClear, LinkClear
<1> QED BY <1>1, <1>2, <1>3, <1>4, <1>5, <1>6, <1>7, <1>8, <1>9, <1>10, <1>11,
           <1>12, <1>13, <1>14
       DEF Next, AttemptStep, WorkStep

-----------------------------------------------------------------------------
(* The inductive invariant, and the two promises it gives.                  *)

FlagInv ==
  /\ GateInv /\ EndedParams /\ CycleFlags /\ InFlightHeld /\ ActiveHeld /\ SleepCycle
  /\ Untouched /\ AwaitedEnded /\ Awaited
CycleInv ==
  /\ OneAttempt /\ BackoffActive /\ OpenInFlight /\ OwnerUnwatched /\ BackoffUnwatched
  /\ EndedStale /\ OpenHolds /\ LinkOff /\ ExplicitOff /\ CycleMoves /\ LeftoverOff
  /\ ConnectingHeld /\ ConnectAlone
ReconnectInv == LateInv /\ FlagInv /\ (Uncrossed => CycleInv)

LEMMA InitReconnect ==
  ASSUME Init
  PROVE  ReconnectInv
<1>1. LateInv
  BY InitLate
<1>2. /\ gate = <<>> /\ fin = "idle" /\ ~power.asleep /\ ~power.due
      /\ (\A a \in Attempts : att[a] = IdleAttempt /\ att[a].pc = "idle")
      /\ (\A l \in Losses : lost[l].pc = "idle")
      /\ (\A c \in Connects : conn[c].pc = "idle")
      /\ ~rt.cRec /\ ~rt.active /\ ~rt.pend /\ ~rt.rec /\ ~rt.inFlight /\ ~rt.explicit
      /\ ~rt.driver /\ rt.device = NoSession /\ rt.wired = {} /\ rt.watched = {}
      /\ rt.alarm = {} /\ ~rt.watchdog /\ rt.ui = "disconnected"
  BY IdleTypes DEF Init
<1>3. GateInv
  BY <1>2 DEF GateInv, GateOk
<1>4. EndedParams /\ CycleFlags /\ InFlightHeld /\ ActiveHeld /\ SleepCycle
  BY <1>2 DEF EndedParams, CycleFlags, InFlightHeld, ActiveHeld, SleepCycle
<1>5. Untouched /\ AwaitedEnded /\ Awaited
  BY <1>2 DEF Untouched, LinkClear, AwaitedEnded, Awaited
<1>6. OneAttempt /\ BackoffActive /\ OpenInFlight /\ OwnerUnwatched /\ BackoffUnwatched
  BY <1>2 DEF OneAttempt, BackoffActive, OpenInFlight, OwnerUnwatched, BackoffUnwatched
<1>7. EndedStale /\ OpenHolds /\ LinkOff /\ ExplicitOff /\ CycleMoves
  BY <1>2 DEF EndedStale, OpenHolds, LinkOff, LinkClear, ExplicitOff, CycleMoves
<1>8. LeftoverOff /\ ConnectingHeld /\ ConnectAlone
  BY <1>2 DEF LeftoverOff, ConnectingHeld, ConnectAlone, Calm
<1> QED BY <1>1, <1>3, <1>4, <1>5, <1>6, <1>7, <1>8 DEF ReconnectInv, FlagInv, CycleInv

LEMMA FlagStep ==
  ASSUME LateInv, FlagInv, [Next]_vars
  PROVE  FlagInv'
<1>1. TypeOK /\ Shape /\ PowerInv
  BY DEF LateInv
<1>2. GateInv'
  BY <1>1, GateStep DEF FlagInv
<1>3. EndedParams' /\ CycleFlags'
  BY <1>1, EndedParamsStep, CycleFlagsStep DEF FlagInv
<1>4. InFlightHeld' /\ ActiveHeld'
  BY <1>1, InFlightHeldStep, ActiveHeldStep DEF FlagInv
<1>5. SleepCycle' /\ Untouched'
  BY <1>1, SleepCycleStep, UntouchedStep DEF FlagInv
<1>6. AwaitedEnded' /\ Awaited'
  BY <1>1, AwaitedEndedStep, AwaitedStep DEF FlagInv
<1> QED BY <1>2, <1>3, <1>4, <1>5, <1>6 DEF FlagInv

LEMMA CycleStep ==
  ASSUME LateInv, FlagInv, CycleInv, [Next]_vars, Uncrossed'
  PROVE  CycleInv'
<1>1. TypeOK /\ Shape /\ PowerInv /\ AttGen /\ ConnInv
  BY DEF LateInv
<1>2. OneAttempt' /\ OpenInFlight'
  BY <1>1, OneAttemptStep, OpenInFlightStep DEF FlagInv, CycleInv
<1>3. BackoffActive' /\ OwnerUnwatched' /\ BackoffUnwatched'
  BY <1>1, BackoffActiveStep, OwnerUnwatchedStep, BackoffUnwatchedStep DEF FlagInv, CycleInv
<1>4. EndedStale' /\ OpenHolds'
  BY <1>1, EndedStaleStep, OpenHoldsStep DEF FlagInv, CycleInv
<1>5. LinkOff'
  BY <1>1, LinkOffStep DEF FlagInv, CycleInv
<1>6. ExplicitOff'
  BY <1>1, ExplicitOffStep DEF FlagInv, CycleInv
<1>7. CycleMoves'
  BY <1>1, CycleMovesStep DEF FlagInv, CycleInv
<1>8. LeftoverOff'
  BY <1>1, LeftoverOffStep DEF FlagInv, CycleInv
<1>9. ConnectingHeld' /\ ConnectAlone'
  BY <1>1, ConnectingHeldStep, ConnectAloneStep DEF FlagInv, CycleInv
<1> QED BY <1>2, <1>3, <1>4, <1>5, <1>6, <1>7, <1>8, <1>9 DEF CycleInv

LEMMA ReconnectStep ==
  ASSUME ReconnectInv, [Next]_vars
  PROVE  ReconnectInv'
<1>1. LateInv' /\ FlagInv'
  BY LateInvStep, FlagStep DEF ReconnectInv
<1>2. ASSUME Uncrossed'  PROVE CycleInv'
  <2>1. Uncrossed
    BY <1>2, CrossedKept DEF ReconnectInv, LateInv
  <2> QED BY <1>2, <2>1, CycleStep DEF ReconnectInv
<1> QED BY <1>1, <1>2 DEF ReconnectInv

LEMMA ReconnectCorrect == Spec => []ReconnectInv
<1>1. Init => ReconnectInv
  BY InitReconnect
<1>2. ReconnectInv /\ [Next]_vars => ReconnectInv'
  BY ReconnectStep
<1> QED BY <1>1, <1>2, PTL DEF Spec

(* What a quiet state leaves of each flag. *)
LEMMA QuietFlags ==
  ASSUME FlagInv, Quiet
  PROVE  ~rt.inFlight /\ ~rt.active
<1>1. \A a \in Attempts : att[a].pc = "idle"
  BY IdleTypes DEF Quiet
<1> QED BY <1>1 DEF FlagInv, InFlightHeld, ActiveHeld

LEMMA QuietCycle ==
  ASSUME FlagInv, CycleInv, Quiet
  PROVE  ~Wedged
<1>1. /\ ~rt.pend /\ fin = "idle" /\ ~power.due /\ ~power.asleep
      /\ (\A a \in Attempts : att[a].pc = "idle")
      /\ (\A l \in Losses : lost[l].pc = "idle")
      /\ \A c \in Connects : conn[c].pc = "idle"
  BY IdleTypes DEF Quiet, Macro
<1>2. ~rt.rec
  BY <1>1 DEF CycleInv, CycleMoves
<1>3. rt.ui # "reconnecting"
  BY <1>1, <1>2 DEF FlagInv, Awaited, CallEnding
<1>4. rt.ui # "connecting"
  BY <1>1 DEF CycleInv, ConnectingHeld
<1>5. ~(rt.device # NoSession /\ rt.cRec)
  BY <1>2 DEF CycleInv, LeftoverOff
<1> QED BY <1>2, <1>3, <1>4, <1>5, QuietFlags DEF Wedged

(* The reconnect machine never wedges, as loraRfReconnectAttempt.ts asks    *)
(* (no isReconnecting "with no work"): once nothing is under way no flag of *)
(* either half says that a cycle runs and no status says that a session is  *)
(* awaited, unless a call met the leftovers of another.                     *)
THEOREM NothingWedgedHolds == Spec => []NothingWedged
<1>1. ReconnectInv => NothingWedged
  BY QuietCycle DEF ReconnectInv, NothingWedged
<1> QED BY <1>1, ReconnectCorrect, PTL

(* The in-flight mark of loraRfReconnectAttempt.ts and the active mark of   *)
(* rfReconnectController.ts are given back by whoever took them, also where *)
(* calls have met: when nothing is under way neither is set, so no later    *)
(* attempt is deferred for ever.                                            *)
THEOREM MarksGivenBack == Spec => [](Quiet => ~rt.inFlight /\ ~rt.active)
<1>1. ReconnectInv => (Quiet => ~rt.inFlight /\ ~rt.active)
  BY QuietFlags DEF ReconnectInv
<1> QED BY <1>1, ReconnectCorrect, PTL

(* One owner: rfReconnectController.ts never has two attempts of the        *)
(* current generation at work, unless a call met the leftovers of another.  *)
THEOREM OneOwnerHolds == Spec => []OneOwner
<1>1. ReconnectInv => OneOwner
  BY DEF ReconnectInv, CycleInv, OneAttempt, OneOwner, Live
<1> QED BY <1>1, ReconnectCorrect, PTL
=============================================================================
