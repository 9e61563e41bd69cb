------------------------------ MODULE RfReconnect ------------------------------
(***************************************************************************)
(* How the Meshtastic runtime gets its radio back over TCP.                *)
(*                                                                         *)
(* A link drop starts a cycle of reconnect attempts, each a back-off, an   *)
(* open and a configure under a deadline.  The cycle lives in two places:  *)
(* the controller of rfReconnectController.ts and the refs of the runtime, *)
(* each with its own flag and its own generation.  Attempts, teardowns of  *)
(* lost links, the user's Connect and Disconnect and the power events all  *)
(* write both, between awaits of one another.                              *)
(*                                                                         *)
(* One action is one block of the event loop that ends at an await.        *)
(***************************************************************************)
EXTENDS Naturals, Sequences, FiniteSets

CONSTANTS
  MaxTries,     \* RF_MAX_RECONNECT_ATTEMPTS
  Sessions,     \* device handles that may exist at once
  Attempts,     \* attempts that may be under way at once, stale ones included
  Losses,       \* teardowns of a lost link under way at once
  Connects,     \* connect() calls under way at once
  MaxEvents     \* bound: what the user, the radio and the computer do

ASSUME RfAssumption ==
  /\ MaxTries \in Nat \ {0}
  /\ MaxEvents \in Nat
  /\ Sessions \subseteq Nat \ {0}

NoSession == 0

VARIABLES
  rt,        \* the controller, and the refs of the runtime
  gate,      \* the lifecycle chain of ConnectionDriver: what is asked of it
  slots,     \* sessions registered in the driver
  socket,    \* the session whose TCP socket the main process holds
  att, lost, conn, fin,   \* async functions between two awaits
  power,     \* systemSuspended, and the timer of usePowerRecovery
  budget,    \* events left
  hist       \* history, for the properties only

flows == <<att, lost, conn, fin>>
vars == <<rt, gate, slots, socket, att, lost, conn, fin, power, budget, hist>>

-----------------------------------------------------------------------------
(* The controller.  `cRec', `cGen' are its isReconnecting and generation;   *)
(* `rec', `gen' the refs of the runtime that mirror them.                   *)

StartsOwner(r) == ~r.cRec

OnLinkLost(r) ==
  [r EXCEPT !.cGen = @ + 1, !.cRec = TRUE, !.dirty = r.cRec]

Cancel(r) ==
  [r EXCEPT !.cGen = @ + 1, !.cRec = FALSE, !.dirty = FALSE, !.active = FALSE,
            !.pend = FALSE]

MarkDone(r) == [r EXCEPT !.cRec = FALSE, !.dirty = FALSE, !.active = FALSE]

(* A mutant: the attempt under way is not remembered. *)
BeginAttempt_Unmarked(r) == r

BeginAttempt(r) == [r EXCEPT !.active = TRUE]

EndAttempt(r, keep) ==
  [r EXCEPT !.active = FALSE, !.dirty = FALSE, !.cRec = @ /\ keep]

(* What endAttempt() returns. *)
ShouldSchedule(r, keep) == keep /\ r.dirty

ScheduleOwner(r) == [r EXCEPT !.pend = TRUE]

-----------------------------------------------------------------------------
(* The runtime's own helpers.                                               *)

(* meshtasticIdentityIdRef ?? meshtasticPendingDriverIdentityRef. *)
Known(r) == r.identity \/ r.pendingId

CleanupSubscriptions(r) ==
  [r EXCEPT !.wired = {}, !.watched = {}, !.identity = FALSE, !.driver = FALSE]

(* A mutant: the handle stays in deviceRef. *)
Drop_KeepsDevice(r) == [r EXCEPT !.driver = FALSE, !.pendingId = FALSE]

(* The device is let go: deviceRef and the two driver refs. *)
Drop(r) == [r EXCEPT !.device = NoSession, !.driver = FALSE, !.pendingId = FALSE]

Wire(r, s) ==
  [r EXCEPT !.device = s, !.wired = @ \cup {s}, !.watched = @ \cup {s},
            !.identity = TRUE]

(* The DeviceConfigured event of a session that is subscribed to. *)
Configured(r, s) ==
  IF s \in r.wired THEN [r EXCEPT !.watchdog = TRUE, !.ui = "connected"] ELSE r

Asks(op, kind, i) == [op |-> op, kind |-> kind, id |-> i]
Enqueue(op, kind, i) == gate' = Append(gate, Asks(op, kind, i))
IsHead(op, kind, i) == gate # <<>> /\ Head(gate) = Asks(op, kind, i)

(* connectionDriver.disconnect when its turn has come: every session of the *)
(* identity is destroyed, and destroying one closes the socket whoever has  *)
(* it.                                                                      *)
DriverDisconnects(kind, i) ==
  /\ IsHead("disconnect", kind, i)
  /\ slots' = {}
  /\ socket' = IF slots = {} THEN socket ELSE NoSession

(* The main process has one socket: an open that is under way has taken it  *)
(* from the session before, and a close meanwhile breaks that open.         *)
Opening == gate # <<>> /\ Head(gate).op \in {"connect", "broken"}
LiveSocket == IF Opening THEN NoSession ELSE socket
CloseSocket ==
  /\ socket' = NoSession
  /\ gate' = IF Opening THEN [gate EXCEPT ![1].op = "broken"] ELSE gate

(* connectionDriver.connect when its turn has come: a new session, or none. *)
DriverConnects(kind, i, s) ==
  /\ IsHead("connect", kind, i) \/ (s = NoSession /\ IsHead("broken", kind, i))
  /\ slots' = slots \cup ({s} \ {NoSession})
  /\ socket' = s

(* Closing a socket and its streams takes milliseconds; what takes seconds, *)
(* or a person, comes before it or after it.                                *)
Prompt ==
  /\ \A l \in Losses : lost[l].pc # "closing"
  /\ fin # "closing"
  /\ gate # <<>> => Head(gate).op # "disconnect"

(* Sessions are numbered from the lowest number nobody holds. *)
Held == slots \cup rt.wired \cup {rt.device, socket}
          \cup {att[a].session : a \in Attempts}
          \cup {conn[c].session : c \in Connects}
NewSession == CHOOSE s \in Sessions \ Held : \A t \in Sessions \ Held : s <= t

IdleAttempt == [pc |-> "idle", gen |-> 0, work |-> "none", alive |-> FALSE,
                session |-> NoSession, cleaned |-> FALSE]
IdleLost    == [pc |-> "idle", start |-> FALSE, known |-> FALSE]
IdleConnect == [pc |-> "idle", gen |-> 0, session |-> NoSession,
                cancelled |-> FALSE]

(* Microtasks and the remaining listeners of an event run before the next   *)
(* event of the page does.                                                  *)
Macro == ~rt.pend /\ rt.alarm = {}

(* Who is superseded by a lost link, a power event or the user. *)
AllStale(h) == [h EXCEPT !.stale = {<<"attempt", a>> : a \in Attempts}
                                     \cup {<<"connect", c>> : c \in Connects}]
Supersedes == hist' = AllStale(hist)
(* A call that meets what the user ended a moment ago. *)
Crossed(h) ==
  [h EXCEPT !.crossed = @ \/ fin # "idle"
                          \/ (\E a \in Attempts : att[a] # IdleAttempt)
                          \/ (\E c \in Connects : conn[c].pc # "idle")]
Starts(kind, i) == hist' = [hist EXCEPT !.stale = @ \ {<<kind, i>>}]
Succeeds(kind, i) ==
  hist' = [hist EXCEPT !.late = @ \cup ({<<kind, i>>} \cap hist.stale)]

Spend == budget > 0 /\ budget' = budget - 1

-----------------------------------------------------------------------------
(* handleConnectionLost, from the machine's state r.                        *)

LostEnds(r, start) ==
  LET c == CleanupSubscriptions(r)
  IN IF start THEN ScheduleOwner(c) ELSE [c EXCEPT !.deferred = TRUE]

LoseLink(r) ==
  IF r.explicit
  THEN rt' = r /\ UNCHANGED <<gate, socket, lost, hist>>
  ELSE LET start == StartsOwner(r)
           c == OnLinkLost(r)
           d == Drop([c EXCEPT !.gen = c.cGen, !.rec = TRUE, !.watchdog = FALSE,
                               !.deferred = @ \/ ~start])
       IN /\ Supersedes
          /\ IF r.device = NoSession /\ ~Known(r)
             THEN rt' = LostEnds(d, start) /\ UNCHANGED <<gate, socket, lost>>
             ELSE \E l \in Losses :
                    /\ lost[l].pc = "idle"
                    /\ rt' = d
                    /\ IF r.device # NoSession
                       THEN /\ lost' = [lost EXCEPT ![l] =
                                  [pc |-> "closing", start |-> start, known |-> Known(r)]]
                            /\ CloseSocket
                       ELSE /\ lost' = [lost EXCEPT ![l] =
                                  [pc |-> "dropping", start |-> start, known |-> TRUE]]
                            /\ Enqueue("disconnect", "lost", l)
                            /\ UNCHANGED socket

(* safeDisconnect of the lost device has returned. *)
LostClosed(l) ==
  /\ Macro
  /\ lost[l].pc = "closing"
  /\ IF lost[l].known
     THEN /\ lost' = [lost EXCEPT ![l].pc = "dropping"]
          /\ Enqueue("disconnect", "lost", l)
          /\ UNCHANGED rt
     ELSE /\ lost' = [lost EXCEPT ![l] = IdleLost]
          /\ rt' = LostEnds(rt, lost[l].start)
          /\ UNCHANGED gate
  /\ UNCHANGED <<slots, socket, att, conn, fin, power, budget, hist>>

(* connectionDriver.disconnect has returned. *)
LostDropped(l) ==
  /\ Macro
  /\ lost[l].pc = "dropping"
  /\ DriverDisconnects("lost", l)
  /\ gate' = Tail(gate)
  /\ lost' = [lost EXCEPT ![l] = IdleLost]
  /\ rt' = LostEnds(rt, lost[l].start)
  /\ UNCHANGED <<att, conn, fin, power, budget, hist>>

-----------------------------------------------------------------------------
(* The attempt: runLoraRfReconnectAttempt with the runtime's hooks.         *)

OutOfTries(r) == r.tries >= MaxTries

Exhausted(r) ==
  Drop(CleanupSubscriptions(MarkDone(
    [r EXCEPT !.rec = FALSE, !.tries = 0, !.watchdog = FALSE,
              !.ui = "disconnected"])))

(* The microtask of scheduleOwner, and the runner it is given. *)
RunOwner ==
  /\ rt.pend
  /\ LET r == [rt EXCEPT !.pend = FALSE]
     IN CASE ~r.cRec              -> rt' = r /\ UNCHANGED <<att, hist>>
          [] r.cRec /\ r.active   -> rt' = [r EXCEPT !.dirty = TRUE] /\ UNCHANGED <<att, hist>>
          [] r.cRec /\ ~r.active /\ (~r.rec \/ r.explicit)
                                  -> rt' = r /\ UNCHANGED <<att, hist>>
          [] r.cRec /\ ~r.active /\ r.rec /\ ~r.explicit /\ r.inFlight
               -> rt' = [r EXCEPT !.deferred = TRUE, !.dirty = TRUE] /\ UNCHANGED <<att, hist>>
          [] r.cRec /\ ~r.active /\ r.rec /\ ~r.explicit /\ ~r.inFlight
               -> IF OutOfTries(r)
                  THEN rt' = Exhausted(r) /\ UNCHANGED <<att, hist>>
                  ELSE \E a \in Attempts :
                         /\ att[a].pc = "idle" /\ att[a].work = "none"
                         /\ rt' = BeginAttempt([r EXCEPT !.tries = @ + 1,
                                                         !.ui = "reconnecting"])
                         /\ att' = [att EXCEPT ![a] =
                              [IdleAttempt EXCEPT !.pc = "backoff", !.gen = r.gen]]
                         /\ Starts("attempt", a)
  /\ UNCHANGED <<gate, slots, socket, lost, conn, fin, power, budget>>

(* A mutant: the generation is not compared. *)
Superseded_OnlyDeadline(a) == ~att[a].alive

Superseded(a) == rt.gen # att[a].gen \/ ~att[a].alive
MustAbort(a) == ~rt.rec \/ rt.gen # att[a].gen

(* A back-off looks at its abort condition every half second: what takes    *)
(* seconds finds none left to abort.                                        *)
Noticed == \A a \in Attempts : att[a].pc = "backoff" => ~MustAbort(a)

(* A mutant: a drop that was deferred is not flushed. *)
FlushOrEnd_NoFlush(r) ==
  EndAttempt(IF r.rec THEN r ELSE [r EXCEPT !.ui = "disconnected"], r.rec)

(* flushDeferredOrEnd, and what its callers show. *)
FlushOrEnd(r) ==
  IF r.deferred /\ r.rec /\ ~r.explicit
  THEN ScheduleOwner(EndAttempt([r EXCEPT !.deferred = FALSE], TRUE))
  ELSE EndAttempt(IF r.rec THEN r ELSE [r EXCEPT !.ui = "disconnected"], r.rec)

(* The back-off is over or cut short. *)
BackoffAborted(a) ==
  /\ Macro
  /\ att[a].pc = "backoff"
  /\ MustAbort(a)
  /\ rt' = FlushOrEnd(rt)
  /\ att' = [att EXCEPT ![a] = IdleAttempt]
  /\ UNCHANGED <<gate, slots, socket, lost, conn, fin, power, budget, hist>>

BackoffSuspended(a) ==
  /\ Macro
  /\ att[a].pc = "backoff"
  /\ ~MustAbort(a)
  /\ power.asleep
  /\ rt' = Cancel([rt EXCEPT !.rec = FALSE, !.ui = "disconnected"])
  /\ att' = [att EXCEPT ![a] = IdleAttempt]
  /\ UNCHANGED <<gate, slots, socket, lost, conn, fin, power, budget, hist>>

BackoffDone(a) ==
  /\ Macro
  /\ Prompt
  /\ att[a].pc = "backoff"
  /\ Noticed
  /\ ~power.asleep
  /\ IF rt.inFlight
     THEN /\ rt' = [rt EXCEPT !.deferred = TRUE, !.dirty = TRUE]
          /\ att' = [att EXCEPT ![a] = IdleAttempt]
          /\ UNCHANGED gate
     ELSE /\ rt' = [rt EXCEPT !.inFlight = TRUE]
          /\ att' = [att EXCEPT ![a].pc = "open", ![a].work = "opening",
                                ![a].alive = TRUE]
          /\ Enqueue("connect", "work", a)
  /\ UNCHANGED <<slots, socket, lost, conn, fin, power, budget, hist>>

(* The finally of the attempt. *)
Settle(r) ==
  LET c == [r EXCEPT !.inFlight = FALSE, !.dirty = @ \/ r.deferred]
      again == r.deferred \/ ShouldSchedule(c, r.rec)
      e == EndAttempt(c, r.rec)
  IN IF again
     THEN LET f == [e EXCEPT !.deferred = FALSE]
          IN IF f.rec THEN ScheduleOwner(f) ELSE f
     ELSE e

(* A mutant: the error is not retried. *)
AfterError_NoRetry(r, gen) == Settle(CleanupSubscriptions(r))

(* onAttemptError after its await, the retry it answers, and the finally. *)
AfterError(r, gen) ==
  LET c == CleanupSubscriptions(r)
      retry == ~r.deferred /\ r.rec /\ r.gen = gen
  IN Settle(IF retry THEN ScheduleOwner(c) ELSE c)

(* The attempt's own function returns.  Its work goes on if it waits to be  *)
(* undone; a configure left behind has lost its session and is never seen.  *)
Ended(me) == IF me.work = "undoing" THEN [me EXCEPT !.pc = "idle", !.alive = FALSE]
             ELSE IdleAttempt

(* The attempt `me' fails in the state r, with g the driver's chain. *)
Fails(a, me, r, g) ==
  IF (me.session # NoSession \/ Known(r)) /\ ~me.cleaned
  THEN /\ rt' = Drop(r)
       /\ gate' = Append(g, Asks("disconnect", "attempt", a))
       /\ att' = [att EXCEPT ![a] = [me EXCEPT !.pc = "cleanup", !.alive = FALSE,
                                               !.cleaned = TRUE]]
  ELSE /\ rt' = AfterError(Drop(r), me.gen)
       /\ gate' = g
       /\ att' = [att EXCEPT ![a] = Ended(me)]

(* The work of the attempt is over without a session. *)
WorkRejects(a, r, g) ==
  LET me == [att[a] EXCEPT !.work = "none"]
  IN IF me.pc = "open" THEN Fails(a, me, r, g)
     ELSE /\ rt' = r
          /\ gate' = g
          /\ att' = [att EXCEPT ![a] = IF me.pc = "idle" THEN IdleAttempt ELSE me]

(* A mutant: the session of a superseded open is left to itself. *)
WorkUndoes_LeftOpen(a, me, r, g) == WorkRejects(a, r, g)

(* runOpenAndAttach finds itself superseded with a session open. *)
WorkUndoes(a, me, r, g) ==
  IF me.cleaned
  THEN LET done == [me EXCEPT !.work = "none"]
       IN IF me.pc = "open" THEN Fails(a, done, r, g)
          ELSE /\ rt' = r /\ gate' = g
               /\ att' = [att EXCEPT ![a] = IF me.pc = "idle" THEN IdleAttempt ELSE done]
  ELSE /\ rt' = r
       /\ gate' = Append(g, Asks("disconnect", "work", a))
       /\ att' = [att EXCEPT ![a] = [me EXCEPT !.work = "undoing", !.cleaned = TRUE]]

WorkOpenFails(a) ==
  /\ Macro
  /\ att[a].work = "opening"
  /\ DriverConnects("work", a, NoSession)
  /\ WorkRejects(a, rt, Tail(gate))
  /\ UNCHANGED <<lost, conn, fin, power, budget, hist>>

WorkOpens(a) ==
  /\ Macro
  /\ att[a].work = "opening"
  /\ Sessions \ Held # {}
  /\ DriverConnects("work", a, NewSession)
  /\ LET me == [att[a] EXCEPT !.session = NewSession]
         r == [rt EXCEPT !.driver = TRUE]
     IN IF Superseded(a) THEN WorkUndoes(a, me, r, Tail(gate))
        ELSE /\ rt' = Wire(r, NewSession)
             /\ gate' = Tail(gate)
             /\ att' = [att EXCEPT ![a] = [me EXCEPT !.work = "configuring"]]
  /\ UNCHANGED <<lost, conn, fin, power, budget, hist>>

WorkUndone(a) ==
  /\ Macro
  /\ att[a].work = "undoing"
  /\ DriverDisconnects("work", a)
  /\ WorkRejects(a, rt, Tail(gate))
  /\ UNCHANGED <<lost, conn, fin, power, budget, hist>>

ConfigureFails(a) ==
  /\ Macro
  /\ att[a].work = "configuring"
  /\ WorkRejects(a, rt, gate)
  /\ UNCHANGED <<slots, socket, lost, conn, fin, power, budget, hist>>

Success(r) ==
  MarkDone([r EXCEPT !.tries = 0, !.rec = FALSE, !.deferred = FALSE,
                     !.ui = "connected"])

ConfigureDone(a) ==
  /\ Macro
  /\ att[a].work = "configuring"
  /\ Noticed
  /\ LiveSocket = att[a].session
  /\ LET r == Configured(rt, socket)
     IN IF Superseded(a)
        THEN /\ WorkUndoes(a, att[a], r, gate)
             /\ hist' = IF fin # "idle" THEN Crossed(hist) ELSE hist
        ELSE /\ rt' = Settle(Success(r))
             /\ att' = [att EXCEPT ![a] = IdleAttempt]
             /\ Succeeds("attempt", a)
             /\ UNCHANGED gate
  /\ UNCHANGED <<slots, socket, lost, conn, fin, power, budget>>

(* raceWithDeadline: the budget of the attempt is over.  A TCP open is given *)
(* up by the main process long before, so only a configure lasts that long. *)
Deadline(a) ==
  /\ Macro
  /\ Prompt
  /\ Spend
  /\ att[a].pc = "open"
  /\ att[a].work # "opening"
  /\ Fails(a, att[a], rt, gate)
  /\ UNCHANGED <<slots, socket, lost, conn, fin, power, hist>>

AttemptCleaned(a) ==
  /\ Macro
  /\ att[a].pc = "cleanup"
  /\ DriverDisconnects("attempt", a)
  /\ rt' = AfterError(rt, att[a].gen)
  /\ gate' = Tail(gate)
  /\ att' = [att EXCEPT ![a] = Ended(@)]
  /\ UNCHANGED <<lost, conn, fin, power, budget, hist>>

-----------------------------------------------------------------------------
(* connect() of the user.                                                   *)

(* prepareRfConnect after its await, and the open that follows. *)
Prepared(r) ==
  Cancel([r EXCEPT !.params = TRUE, !.explicit = FALSE, !.tries = 0, !.rec = FALSE,
                   !.inFlight = FALSE, !.gen = @ + 1, !.ui = "connecting"])

Connect(c) ==
  /\ Macro
  /\ Prompt
  /\ Spend
  /\ rt.ui = "disconnected"
  /\ conn[c].pc = "idle"
  /\ \A d \in Connects : conn[d].pc = "idle" \/ conn[d].cancelled
  /\ ~power.asleep /\ ~power.due      \* bound: no sleep meets a connect()
  /\ LET held == rt.device # NoSession \/ rt.driver
         k == IF held THEN CleanupSubscriptions([rt EXCEPT !.watchdog = FALSE]) ELSE rt
     IN IF held /\ Known(k)
        THEN /\ rt' = Drop(k)
             /\ conn' = [conn EXCEPT ![c].pc = "preparing"]
             /\ Enqueue("disconnect", "connect", c)
             /\ hist' = Crossed(hist)
        ELSE /\ rt' = Prepared(IF held THEN Drop(k) ELSE k)
             /\ conn' = [conn EXCEPT ![c].pc = "opening"]
             /\ Enqueue("connect", "connect", c)
             /\ hist' = AllStale(Crossed(hist))
  /\ UNCHANGED <<slots, socket, att, lost, fin, power>>

ConnectPrepared(c) ==
  /\ Macro
  /\ conn[c].pc = "preparing"
  /\ DriverDisconnects("connect", c)
  /\ rt' = Prepared(rt)
  /\ conn' = [conn EXCEPT ![c].pc = "opening"]
  /\ gate' = Append(Tail(gate), Asks("connect", "connect", c))
  /\ Supersedes
  /\ UNCHANGED <<att, lost, fin, power, budget>>

FailureEnds(r) ==
  [r EXCEPT !.pendingId = FALSE, !.driver = FALSE, !.ui = "disconnected"]

(* handleRfConnectFailure. *)
ConnectFailure(c, r, g) ==
  LET f == [CleanupSubscriptions(r) EXCEPT
              !.rec = FALSE, !.gen = @ + 1, !.watchdog = FALSE, !.device = NoSession]
  IN IF conn[c].session # NoSession \/ Known(f)
     THEN /\ rt' = f
          /\ gate' = Append(g, Asks("disconnect", "connect", c))
          /\ conn' = [conn EXCEPT ![c].pc = "failing"]
     ELSE /\ rt' = FailureEnds(f)
          /\ gate' = g
          /\ conn' = [conn EXCEPT ![c] = IdleConnect]

ConnectOpenFails(c) ==
  /\ Macro
  /\ conn[c].pc = "opening"
  /\ DriverConnects("connect", c, NoSession)
  /\ ConnectFailure(c, rt, Tail(gate))
  /\ UNCHANGED <<att, lost, fin, power, budget, hist>>

(* The open is done; attachRfSession takes the generation of now. *)
ConnectOpens(c) ==
  /\ Macro
  /\ conn[c].pc = "opening"
  /\ Sessions \ Held # {}
  /\ DriverConnects("connect", c, NewSession)
  /\ rt' = Wire([rt EXCEPT !.driver = TRUE, !.pendingId = TRUE], NewSession)
  /\ gate' = Tail(gate)
  /\ conn' = [conn EXCEPT ![c].pc = "attaching", ![c].gen = rt.gen,
                          ![c].session = NewSession]
  /\ Starts("connect", c)
  /\ UNCHANGED <<att, lost, fin, power, budget>>

ConnectConfigureFails(c) ==
  /\ Macro
  /\ conn[c].pc = "attaching"
  /\ ConnectFailure(c, rt, gate)
  /\ UNCHANGED <<slots, socket, att, lost, fin, power, budget, hist>>

ConnectConfigured(c) ==
  /\ Macro
  /\ conn[c].pc = "attaching"
  /\ Noticed
  /\ LiveSocket = conn[c].session
  /\ LET r == Configured(rt, socket)
     IN IF rt.gen # conn[c].gen
        THEN /\ ConnectFailure(c, r, gate)
             /\ hist' = IF fin # "idle" THEN Crossed(hist) ELSE hist
        ELSE /\ rt' = r
             /\ conn' = [conn EXCEPT ![c] = IdleConnect]
             /\ Succeeds("connect", c)
             /\ UNCHANGED gate
  /\ UNCHANGED <<slots, socket, att, lost, fin, power, budget>>

ConnectFailed(c) ==
  /\ Macro
  /\ conn[c].pc = "failing"
  /\ DriverDisconnects("connect", c)
  /\ rt' = FailureEnds(rt)
  /\ gate' = Tail(gate)
  /\ conn' = [conn EXCEPT ![c] = IdleConnect]
  /\ UNCHANGED <<att, lost, fin, power, budget, hist>>

-----------------------------------------------------------------------------
(* disconnect(): the user's Disconnect, and Cancel while connecting.        *)

FinalizeEnds(r) ==
  [CleanupSubscriptions(r) EXCEPT !.pendingId = FALSE, !.ui = "disconnected"]

Disconnect ==
  /\ Macro
  /\ Prompt
  /\ Spend
  /\ fin = "idle"
  /\ rt.ui # "disconnected"
  /\ LET known == rt.driver /\ Known(rt)
         r == Cancel([rt EXCEPT !.explicit = TRUE, !.params = FALSE, !.tries = 0,
                        !.rec = FALSE, !.inFlight = FALSE, !.gen = @ + 1,
                        !.watchdog = FALSE, !.device = NoSession])
     IN CASE known ->
               rt' = r /\ fin' = "dropping" /\ Enqueue("disconnect", "fin", 0)
                 /\ UNCHANGED socket
          [] ~known /\ rt.device # NoSession ->
               rt' = r /\ fin' = "closing" /\ CloseSocket
          [] ~known /\ rt.device = NoSession ->
               rt' = FinalizeEnds(r) /\ UNCHANGED <<fin, gate, socket>>
  /\ conn' = [c \in Connects |-> [conn[c] EXCEPT !.cancelled = conn[c].pc # "idle"]]
  /\ hist' = AllStale([hist EXCEPT !.crossed = @ \/ \E c \in Connects : conn[c].pc = "opening"])
  /\ UNCHANGED <<slots, att, lost, power>>

DisconnectEnds ==
  /\ Macro
  /\ \/ fin = "closing" /\ UNCHANGED <<gate, slots, socket>>
     \/ fin = "dropping" /\ DriverDisconnects("fin", 0) /\ gate' = Tail(gate)
  /\ rt' = FinalizeEnds(rt)
  /\ fin' = "idle"
  /\ UNCHANGED <<att, lost, conn, power, budget, hist>>

-----------------------------------------------------------------------------
(* The radio and the computer.                                              *)

(* The socket closes; every session that listens is told of it. *)
SocketDrops ==
  /\ Macro
  /\ Spend
  /\ LiveSocket # NoSession
  /\ socket' = NoSession
  /\ rt' = [rt EXCEPT !.alarm = rt.watched, !.watched = {}]
  /\ UNCHANGED <<gate, slots, flows, power, hist>>

(* One listener calls handleConnectionLost. *)
Notified ==
  /\ ~rt.pend
  /\ \E s \in rt.alarm : LoseLink([rt EXCEPT !.alarm = @ \ {s}])
  /\ UNCHANGED <<slots, att, conn, fin, power, budget>>

(* No data for too long: the link is dead, or the radio was merely silent. *)
WatchdogFires ==
  /\ Macro
  /\ Prompt
  /\ rt.watchdog
  /\ Noticed
  /\ ~rt.rec
  /\ IF LiveSocket = rt.device THEN Spend ELSE UNCHANGED budget
  /\ LoseLink(rt)
  /\ UNCHANGED <<slots, att, conn, fin, power>>

Suspend ==
  /\ Macro
  /\ Prompt
  /\ Spend
  /\ ~power.asleep
  /\ \A c \in Connects : conn[c].pc = "idle"      \* the same bound
  /\ power' = [asleep |-> TRUE, due |-> FALSE]
  /\ rt' = Cancel([rt EXCEPT !.gen = @ + 1, !.rec = FALSE])
  /\ Supersedes
  /\ UNCHANGED <<gate, slots, socket, flows>>

Resume ==
  /\ Macro
  /\ power.asleep
  /\ power' = [asleep |-> FALSE, due |-> TRUE]
  /\ UNCHANGED <<rt, gate, slots, socket, flows, budget, hist>>

(* The timer of usePowerRecovery, four seconds after the resume. *)
ResumeDue ==
  /\ Macro
  /\ Prompt
  /\ power.due
  /\ Noticed
  /\ power' = [power EXCEPT !.due = FALSE]
  /\ \/ /\ rt.params \/ ~rt.explicit
        /\ LoseLink([rt EXCEPT !.params = TRUE, !.tries = 0, !.gen = @ + 1,
                               !.rec = FALSE])
     \/ /\ ~rt.params
        /\ UNCHANGED <<rt, gate, socket, lost, hist>>
  /\ UNCHANGED <<slots, att, conn, fin, budget>>

-----------------------------------------------------------------------------
Init ==
  /\ rt = [cRec |-> FALSE, cGen |-> 0, dirty |-> FALSE, active |-> FALSE,
           pend |-> FALSE, rec |-> FALSE, gen |-> 0, tries |-> 0,
           deferred |-> FALSE, inFlight |-> FALSE, explicit |-> FALSE,
           params |-> FALSE, device |-> NoSession, identity |-> FALSE,
           pendingId |-> FALSE, driver |-> FALSE, wired |-> {}, watched |-> {},
           alarm |-> {}, watchdog |-> FALSE, ui |-> "disconnected"]
  /\ gate = <<>>
  /\ slots = {}
  /\ socket = NoSession
  /\ att = [a \in Attempts |-> IdleAttempt]
  /\ lost = [l \in Losses |-> IdleLost]
  /\ conn = [c \in Connects |-> IdleConnect]
  /\ fin = "idle"
  /\ power = [asleep |-> FALSE, due |-> FALSE]
  /\ budget = MaxEvents
  /\ hist = [stale |-> {}, late |-> {}, crossed |-> FALSE]

AttemptStep(a) ==
  \/ BackoffAborted(a) \/ BackoffSuspended(a) \/ BackoffDone(a)
  \/ WorkOpenFails(a) \/ WorkOpens(a) \/ WorkUndone(a)
  \/ ConfigureFails(a) \/ ConfigureDone(a)
  \/ Deadline(a) \/ AttemptCleaned(a)

ConnectStep(c) ==
  \/ ConnectPrepared(c) \/ ConnectOpenFails(c) \/ ConnectOpens(c)
  \/ ConnectConfigureFails(c) \/ ConnectConfigured(c) \/ ConnectFailed(c)

Next ==
  \/ RunOwner \/ Notified
  \/ \E l \in Losses : LostClosed(l) \/ LostDropped(l)
  \/ \E a \in Attempts : AttemptStep(a)
  \/ \E c \in Connects : Connect(c) \/ ConnectStep(c)
  \/ Disconnect \/ DisconnectEnds
  \/ SocketDrops \/ WatchdogFires \/ Suspend \/ Resume \/ ResumeDue

Spec == Init /\ [][Next]_vars

(* Microtasks, IPC calls and timers take place; an open and a configure end *)
(* within their time-outs.  Nothing is assumed of the radio, the user and   *)
(* the computer, nor of how an open or a configure ends.                    *)
Fairness ==
  /\ WF_vars(RunOwner) /\ WF_vars(Notified) /\ WF_vars(DisconnectEnds)
  /\ WF_vars(ResumeDue)
  /\ \A l \in Losses : WF_vars(LostClosed(l)) /\ WF_vars(LostDropped(l))
  /\ \A a \in Attempts :
       /\ WF_vars(BackoffAborted(a) \/ BackoffSuspended(a) \/ BackoffDone(a))
       /\ WF_vars(WorkOpenFails(a) \/ WorkOpens(a))
       /\ WF_vars(ConfigureFails(a) \/ ConfigureDone(a))
       /\ WF_vars(WorkUndone(a)) /\ WF_vars(AttemptCleaned(a))
  /\ \A c \in Connects :
       /\ WF_vars(ConnectPrepared(c)) /\ WF_vars(ConnectFailed(c))
       /\ WF_vars(ConnectOpenFails(c) \/ ConnectOpens(c))
       /\ WF_vars(ConnectConfigureFails(c) \/ ConnectConfigured(c))

FairSpec == Spec /\ Fairness

-----------------------------------------------------------------------------
(* Properties.                                                              *)

Machine ==
  [cRec : BOOLEAN, cGen : Nat, dirty : BOOLEAN, active : BOOLEAN, pend : BOOLEAN,
   rec : BOOLEAN, gen : Nat, tries : 0..MaxTries, deferred : BOOLEAN,
   inFlight : BOOLEAN, explicit : BOOLEAN, params : BOOLEAN,
   device : Sessions \cup {NoSession}, identity : BOOLEAN, pendingId : BOOLEAN,
   driver : BOOLEAN, wired : SUBSET Sessions, watched : SUBSET Sessions,
   alarm : SUBSET Sessions, watchdog : BOOLEAN,
   ui : {"disconnected", "connecting", "connected", "reconnecting"}]
Attempt ==
  [pc : {"idle", "backoff", "open", "cleanup"}, gen : Nat,
   work : {"none", "opening", "configuring", "undoing"}, alive : BOOLEAN,
   session : Sessions \cup {NoSession}, cleaned : BOOLEAN]
Loss == [pc : {"idle", "closing", "dropping"}, start : BOOLEAN, known : BOOLEAN]
Connection ==
  [pc : {"idle", "preparing", "opening", "attaching", "failing"}, gen : Nat,
   session : Sessions \cup {NoSession}, cancelled : BOOLEAN]
Ask == [op : {"connect", "broken", "disconnect"},
        kind : {"lost", "attempt", "work", "connect", "fin"},
        id : Attempts \cup Losses \cup Connects \cup {0}]
Parties == ({"attempt"} \X Attempts) \cup ({"connect"} \X Connects)

(* Every variable keeps its type; the tries never pass the budget, and the  *)
(* session of the runtime is one that was opened.                           *)
TypeOK ==
  /\ rt \in Machine
  /\ gate \in Seq(Ask)
  /\ slots \subseteq Sessions
  /\ socket \in Sessions \cup {NoSession}
  /\ att \in [Attempts -> Attempt]
  /\ lost \in [Losses -> Loss]
  /\ conn \in [Connects -> Connection]
  /\ fin \in {"idle", "closing", "dropping"}
  /\ power \in [asleep : BOOLEAN, due : BOOLEAN]
  /\ budget \in 0..MaxEvents
  /\ hist \in [stale : SUBSET Parties, late : SUBSET Parties, crossed : BOOLEAN]

(* Nothing is under way: no async function, no timer, no queued operation.  *)
Quiet ==
  /\ Macro /\ gate = <<>> /\ fin = "idle" /\ ~power.due /\ ~power.asleep
  /\ \A a \in Attempts : att[a] = IdleAttempt
  /\ \A l \in Losses : lost[l] = IdleLost
  /\ \A c \in Connects : conn[c] = IdleConnect

(* No call has met the leftovers of one the user had ended (see Crossed).   *)
Uncrossed == ~hist.crossed

(* The reconnect machine never wedges: when nothing is under way no flag    *)
(* says that a cycle runs, no status says that one is awaited, and no       *)
(* attempt holds the in-flight mark that would defer the next one for ever  *)
(* (loraRfReconnectAttempt.ts: "do not leave isReconnecting true with no    *)
(* work").  A connect() whose failure leaves the controller's flag set      *)
(* (handleRfConnectFailure does not cancel it) while the next one opens     *)
(* breaks it: the next link lost is then taken for one of a running cycle.  *)
Wedged == rt.rec \/ rt.inFlight \/ rt.active
            \/ rt.ui \in {"reconnecting", "connecting"}
            \/ (rt.device # NoSession /\ rt.cRec)
NothingWedged == Uncrossed => (Quiet => ~Wedged)

(* What a lost link, a power event or the user superseded never reports     *)
(* success: the generations of the two halves never agree by accident.      *)
NoLateSuccess == hist.late = {}

(* One owner: no two attempts of the current generation run at a time, as   *)
(* rfReconnectController.ts promises.                                       *)
Live(a) == att[a].pc \in {"backoff", "open"} /\ rt.rec /\ att[a].gen = rt.gen
OneOwner == Uncrossed => \A a, b \in Attempts : Live(a) /\ Live(b) => a = b

(* Sessions do not leak: when nothing is under way the driver holds no      *)
(* session but the one the runtime uses.                                    *)
OneSession == Uncrossed => (Quiet => slots \subseteq {rt.device})

(* What the panel shows is true: "connected" has a session, alive or under  *)
(* the watchdog that will notice; any other status has none.                *)
StatusTruthful ==
  Uncrossed =>
    (Quiet => IF rt.ui = "connected"
              THEN rt.device # NoSession /\ (socket = rt.device \/ rt.watchdog)
              ELSE rt.device = NoSession)

(* A stale teardown spares the session in use: the socket of the runtime's  *)
(* session closes only when the runtime lets that session go or on an event *)
(* from outside.                                                            *)
LinkKept ==
  [][ socket # NoSession /\ socket = rt.device /\ socket' # socket
        => rt'.device = NoSession \/ budget' < budget \/ hist.crossed ]_vars

(* A cycle ends: "connecting" and "reconnecting" give way to an outcome, or *)
(* the computer sleeps.                                                     *)
CycleEnds ==
  rt.ui \in {"connecting", "reconnecting"}
    ~> rt.ui \in {"connected", "disconnected"} \/ power.asleep
=============================================================================
