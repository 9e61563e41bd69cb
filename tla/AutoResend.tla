----------------------------- MODULE AutoResend -----------------------------
(***************************************************************************)
(* Automatic resends of failed chat messages: autoResendController.ts over *)
(* the message store, with the sends it starts and the transports that     *)
(* answer them.                                                            *)
(*                                                                         *)
(* The controller follows the store: every row added as `sending` is       *)
(* tracked, every write of the store re-checks the tracked rows, and a row *)
(* found failed gets a countdown.  Ids change under it: a provisional id   *)
(* becomes a packet id or an LXMF hash when the transport accepts a send,  *)
(* and a resend either takes a new row (Meshtastic, MeshCore) or sends the *)
(* failed row again under its own id (Reticulum).                          *)
(*                                                                         *)
(* A handler is one step: it runs in one turn of the event loop.           *)
(***************************************************************************)
EXTENDS Integers, Sequences, FiniteSets

CONSTANTS
    MaxResends,     \* REGULAR_MESSAGE_MAX_AUTO_RESENDS
    MaxTracked,     \* MAX_TRACKED_OUTBOUND
    Protocols,      \* the protocols a behaviour may be about
    AnnounceResend, \* the setting that resends on an announce
    None,
    \* Bounds, by protocol:
    MaxIds,         \* store ids
    MaxSends,       \* sends under way at a time
    MaxUser         \* messages typed or resent by hand, and announces

ASSUME AutoResendAssumption ==
    /\ MaxResends \in Nat \ {0} /\ MaxTracked \in Nat \ {0}
    /\ MaxIds \in [Protocols -> Nat] /\ MaxSends \in [Protocols -> Nat]
    /\ MaxUser \in [Protocols -> Nat]
    /\ Protocols \subseteq {"meshtastic", "meshcore", "reticulum"}
    /\ AnnounceResend \in BOOLEAN
    /\ None \notin Nat

Ids == UNION {1..MaxIds[p] : p \in Protocols}
Sends == UNION {1..MaxSends[p] : p \in Protocols}

VARIABLES
    proto,    \* the protocol of the identity
    msgs,     \* the store's rows: [id -> status and history]
    tracked,  \* [id -> resends used, and the id of the first send]
    order,    \* the order of the tracked Map's keys
    entries,  \* [id -> the resend a countdown is for], 0: none
    timers,   \* ids whose setTimeout is pending
    behind,   \* [id -> the sends that were under way when its countdown began]
    told,     \* [id of a first send -> outcomes reported]
    sends,    \* sends under way
    nextId,   \* ids used so far, plus one
    user      \* what the user and the peers did so far

vars == <<proto, msgs, tracked, order, entries, timers, behind, told, sends,
          nextId, user>>
control == <<tracked, order, entries, timers, behind, told>>

\* `autos` counts the automatic resends that led to a row, `of` is the row it
\* repeats by hand, `quiet` is set when its retry is cancelled: the properties
\* refer to them, the code does not.
Row(st) == [st |-> st, autos |-> 0, of |-> None, quiet |-> FALSE]
NoRow == Row("none")
NoInfo == [used |-> 0, origin |-> None]
NoSend == [at |-> None, hash |-> None, st |-> "free"]

TypeOK ==
    /\ proto \in Protocols
    /\ msgs \in [Ids -> [st : {"none", "sending", "acked", "failed"}, autos : Nat,
                         of : Ids \cup {None}, quiet : BOOLEAN]]
    /\ tracked \in [Ids -> [used : Nat, origin : Ids \cup {None}]]
    /\ order \in Seq(Ids)
    /\ entries \in [Ids -> Nat]
    /\ timers \subseteq Ids
    /\ behind \in [Ids -> SUBSET Sends]
    /\ told \in [Ids -> Nat]
    /\ sends \in [Sends -> [at : Ids \cup {None}, hash : Ids \cup {None},
                            st : {"free", "posting", "out"}]]
    /\ nextId \in Nat /\ user \in Nat

Init ==
    /\ proto \in Protocols
    /\ msgs = [k \in Ids |-> NoRow]
    /\ tracked = [k \in Ids |-> NoInfo]
    /\ order = <<>>
    /\ entries = [k \in Ids |-> 0]
    /\ timers = {}
    /\ behind = [k \in Ids |-> {}]
    /\ told = [k \in Ids |-> 0]
    /\ sends = [s \in Sends |-> NoSend]
    /\ nextId = 1 /\ user = 0

-----------------------------------------------------------------------------
(* The controller's state, passed through the calls of one handler.        *)
Ctl == [msgs |-> msgs, tracked |-> tracked, order |-> order,
        entries |-> entries, timers |-> timers, told |-> told]

Become(c) ==
    /\ msgs' = c.msgs /\ tracked' = c.tracked /\ order' = c.order
    /\ entries' = c.entries /\ timers' = c.timers /\ told' = c.told
    /\ behind' = [k \in Ids |->
                    IF k \notin c.timers THEN {}
                    ELSE {s \in Sends : sends'[s].st = "posting"
                                        /\ (k \in timers => s \in behind[k])}]

Tracked(c) == {k \in Ids : c.tracked[k].origin # None}

Without(q, ks) == SelectSeq(q, LAMBDA k : k \notin ks)

Untrack(c, k) ==
    [c EXCEPT !.tracked = [@ EXCEPT ![k] = NoInfo], !.order = Without(@, {k})]

\* trackOutbound: the oldest key makes room for a new one.
Room(c) == IF Cardinality(Tracked(c)) >= MaxTracked THEN Untrack(c, Head(c.order)) ELSE c

\* A mutant: what is known of a row that is tracked already stays.
TrackOnce(c, k, info) ==
    IF k \in Tracked(c) THEN c
    ELSE [Room(c) EXCEPT !.order = Append(@, k), !.tracked = [@ EXCEPT ![k] = info]]

Track(c, k, info) ==
    LET d == IF k \in Tracked(c) THEN c ELSE [Room(c) EXCEPT !.order = Append(@, k)]
    IN  [d EXCEPT !.tracked = [@ EXCEPT ![k] = info]]

\* A mutant: only the timer is cleared.
ClearTimer(c, k) == [c EXCEPT !.timers = @ \ {k}]

ClearEntry(c, k) ==
    [c EXCEPT !.entries = [@ EXCEPT ![k] = 0], !.timers = @ \ {k}]

\* evaluateTrackedOutbound: acknowledged rows and rows that failed for the last
\* time leave, the other failed ones get their countdown.
Evaluate(c) ==
    LET acked  == {k \in Tracked(c) : c.msgs[k].st = "acked"}
        failed == {k \in Tracked(c) : c.msgs[k].st = "failed" /\ c.entries[k] = 0}
        spent  == {k \in failed : c.tracked[k].used >= MaxResends}
        due    == failed \ spent
        over   == acked \cup spent
    IN  [c EXCEPT
           !.tracked = [k \in Ids |-> IF k \in over THEN NoInfo ELSE @[k]],
           !.order = Without(@, over),
           !.entries = [k \in Ids |-> IF k \in acked THEN 0
                                      ELSE IF k \in due THEN c.tracked[k].used + 1 ELSE @[k]],
           !.timers = (@ \ acked) \cup due,
           !.told = [o \in Ids |-> @[o] + Cardinality({k \in over : c.tracked[k].origin = o})]]

-----------------------------------------------------------------------------
(* The store's writers: each write that changes something is evaluated     *)
(* before the store's own event is heard.                                  *)
Write(c, k, row) == Evaluate([c EXCEPT !.msgs = [@ EXCEPT ![k] = row]])

\* addMessage, upsertMessage of a row the store does not have.
Add(c, k, row) ==
    LET d == Write(c, k, row)
    IN  IF k \in Tracked(d) THEN d ELSE Track(d, k, [used |-> 0, origin |-> k])

\* upsertMessage of a row the store has.
Put(c, k, st) ==
    IF c.msgs[k].st \in {"none", st} THEN c ELSE Write(c, k, [c.msgs[k] EXCEPT !.st = st])

\* updateMessageStatus.
SetStatus(c, k, st) ==
    IF c.msgs[k].st = "acked" /\ st = "sending" THEN c ELSE Put(c, k, st)

Delete(c, k) == Write(c, k, NoRow)

\* onRenamed.
Renamed(c, from, to) ==
    LET d == Track(ClearEntry(Untrack(c, from), from), to, c.tracked[from])
    IN  IF from \notin Tracked(c) THEN c
        ELSE IF c.entries[from] > 0 THEN Evaluate(d) ELSE d

\* renameMessageId: a row that was acknowledged under the new id stays.
Rename(c, from, to) ==
    LET kept == IF c.msgs[to].st = "acked" THEN c.msgs[to] ELSE c.msgs[from]
        row  == [kept EXCEPT !.quiet = @ /\ c.msgs[to].st = "none"]
    IN  IF c.msgs[from].st = "none" \/ from = to THEN c
        ELSE Renamed(Evaluate([c EXCEPT !.msgs = [@ EXCEPT ![from] = NoRow, ![to] = row]]),
                     from, to)

\* ingestReticulumLxmfPayload of the sidecar's copy of an outbound message.
Ingest(c, k) ==
    IF c.msgs[k].st = "none" THEN Add(c, k, Row("sending")) ELSE SetStatus(c, k, "sending")

-----------------------------------------------------------------------------
(* Sends.                                                                  *)
Fresh(k) == k = nextId /\ k \in 1..MaxIds[proto]
Takes(k) == nextId' = IF k = nextId THEN nextId + 1 ELSE nextId

\* The send function hands row k to the transport.
Posts(k) ==
    \E s \in 1..MaxSends[proto] :
        /\ sends[s] = NoSend /\ \A r \in 1..(s - 1) : sends[r] # NoSend
        /\ sends' = [sends EXCEPT ![s] = [at |-> k, hash |-> None, st |-> "posting"]]

\* A message is typed.
Compose(k) ==
    /\ user < MaxUser[proto] /\ user' = user + 1
    /\ Fresh(k) /\ Takes(k) /\ Posts(k)
    /\ Become(Add(Ctl, k, Row("sending")))
    /\ UNCHANGED proto

\* Resend, on a failed bubble: a row of its own, or the same one.
ResendByHand(k) ==
    /\ user < MaxUser[proto] /\ user' = user + 1
    /\ msgs[k].st = "failed"
    /\ \/ /\ proto # "reticulum"
          /\ Fresh(nextId) /\ Takes(nextId) /\ Posts(nextId)
          /\ Become(Add(Ctl, nextId, [Row("sending") EXCEPT !.of = k]))
       \/ /\ proto = "reticulum"
          /\ Posts(k)
          /\ Become(Write(Ctl, k, [msgs[k] EXCEPT !.st = "sending", !.quiet = FALSE]))
          /\ UNCHANGED nextId
    /\ UNCHANGED proto

\* resendFailedReticulumForDestination: the row keeps its status.
Announce(k) ==
    /\ AnnounceResend /\ proto = "reticulum"
    /\ user < MaxUser[proto] /\ user' = user + 1
    /\ msgs[k].st = "failed"
    /\ Posts(k)
    /\ UNCHANGED <<proto, msgs, control, nextId>>

-----------------------------------------------------------------------------
(* fireResend.                                                             *)
\* A countdown lasts at least as long as Reticulum's deadline for a send: those
\* that were under way when it began are over.
Pending(k) ==
    /\ k \in timers
    /\ proto = "reticulum" => behind[k] = {}

\* Superseded meanwhile.
FireDrops(k) ==
    /\ Pending(k)
    /\ msgs[k].st # "failed"
    /\ UNCHANGED <<proto, sends, nextId, user>>
    /\ Become(ClearEntry(Ctl, k))

Info(k) ==
    IF tracked[k].origin # None THEN tracked[k]
    ELSE [used |-> entries[k] - 1, origin |-> k]

Tell(o) == [told EXCEPT ![o] = @ + 1]

\* A mutant: the row stays tracked.
StartFails(k) ==
    /\ Pending(k)
    /\ msgs[k].st = "failed"
    /\ UNCHANGED <<proto, sends, nextId, user>>
    /\ Become([ClearEntry(Ctl, k) EXCEPT !.told = Tell(Info(k).origin)])

\* The send function throws, or returns no id.
CannotStart(k) ==
    LET c == Untrack(ClearEntry(Ctl, k), k)
    IN  /\ Pending(k)
        /\ msgs[k].st = "failed"
        /\ UNCHANGED <<proto, sends, nextId, user>>
        /\ Become([c EXCEPT !.told = Tell(Info(k).origin)])

\* A row of its own takes the place of the failed one.
FireAnew(k) ==
    LET n == nextId
        c == Add(Untrack(ClearEntry(Ctl, k), k), n,
                 [Row("sending") EXCEPT !.autos = msgs[k].autos + 1])
        d == Track(c, n, [used |-> entries[k], origin |-> Info(k).origin])
    IN  /\ Pending(k)
        /\ msgs[k].st = "failed"
        /\ proto # "reticulum"
        /\ Fresh(n) /\ Takes(n) /\ Posts(n)
        /\ Become(Delete(d, k))
        /\ UNCHANGED <<proto, user>>

\* The failed row is sent again.
FireAgain(k) ==
    LET c == Write(Untrack(ClearEntry(Ctl, k), k), k,
                   [msgs[k] EXCEPT !.st = "sending", !.autos = @ + 1])
    IN  /\ Pending(k)
        /\ msgs[k].st = "failed"
        /\ proto = "reticulum"
        /\ Posts(k)
        /\ Become(Track(c, k, [used |-> entries[k], origin |-> Info(k).origin]))
        /\ UNCHANGED <<proto, nextId, user>>

Fire(k) == FireDrops(k) \/ CannotStart(k) \/ FireAnew(k) \/ FireAgain(k)

Quieted(k) == [msgs EXCEPT ![k] = [msgs[k] EXCEPT !.quiet = TRUE]]

\* A mutant: the countdown ends, the row stays tracked.
CancelsCountdown(k) ==
    /\ entries[k] > 0 /\ msgs[k].st = "failed"
    /\ UNCHANGED <<proto, sends, nextId, user>>
    /\ Become([ClearEntry(Ctl, k) EXCEPT !.msgs = Quieted(k)])

\* Cancel retry.
CancelAutoResend(k) ==
    LET c == Untrack(ClearEntry(Ctl, k), k)
    IN  /\ entries[k] > 0 /\ msgs[k].st = "failed"
        /\ UNCHANGED <<proto, sends, nextId, user>>
        /\ Become([c EXCEPT !.msgs = Quieted(k)])

-----------------------------------------------------------------------------
(* What the transports answer.                                             *)
Settles(s) == sends' = [sends EXCEPT ![s] = NoSend]
Remains(s, k) == sends' = [sends EXCEPT ![s] = [@ EXCEPT !.st = "out", !.hash = k]]

\* The id a row gets from its transport: a new one, or the one it has.
Accepted(s, k) == Fresh(k) \/ k = sends[s].at

\* Meshtastic: the SDK's promise, and a routing error logged before it settles.
DeviceAcks(s, k) ==
    /\ proto = "meshtastic" /\ sends[s].st = "posting"
    /\ Accepted(s, k) /\ Takes(k)
    /\ Settles(s)
    /\ Become(SetStatus(Rename(Ctl, sends[s].at, k), k, "acked"))
    /\ UNCHANGED <<proto, user>>

RoutingError(s) ==
    /\ proto = "meshtastic" /\ sends[s].st = "posting"
    /\ msgs[sends[s].at].st = "sending"
    /\ UNCHANGED <<proto, sends, nextId, user>>
    /\ Become(SetStatus(Ctl, sends[s].at, "failed"))

\* MeshCore: the companion takes a DM, then event 130 or the hop-ACK timer; an
\* ACK may still come after the timer.
CompanionAccepts(s, k) ==
    /\ proto = "meshcore" /\ sends[s].st = "posting"
    /\ Accepted(s, k) /\ Takes(k)
    /\ Remains(s, k)
    /\ Become(Rename(Ctl, sends[s].at, k))
    /\ UNCHANGED <<proto, user>>

\* The send is refused, or fails; or it overruns its deadline and the sidecar
\* goes on with it.
SendFails(s) ==
    /\ sends[s].st = "posting"
    /\ \/ sends[s].hash = None /\ Settles(s)
       \/ proto = "reticulum" /\ Remains(s, sends[s].hash)
    /\ Become(SetStatus(Ctl, sends[s].at, "failed"))
    /\ UNCHANGED <<proto, nextId, user>>

\* Reticulum: the event with the sidecar's copy, before the reply or without one.
Echo(s, k) ==
    /\ proto = "reticulum" /\ sends[s].st # "free" /\ sends[s].hash = None
    /\ Fresh(k) /\ Takes(k)
    /\ sends' = [sends EXCEPT ![s].hash = k]
    /\ Become(Ingest(Ctl, k))
    /\ UNCHANGED <<proto, user>>

\* The reply; without the copy, a status that came first was kept for it.
Reply(s, k, early) ==
    LET hash == sends[s].hash IN
    /\ proto = "reticulum" /\ sends[s].st = "posting"
    /\ IF hash = None THEN Fresh(k) ELSE k = hash /\ early = "sending"
    /\ Takes(k)
    /\ Remains(s, k)
    /\ Become(SetStatus(Ingest(Rename(Ctl, sends[s].at, k), k), k, early))
    /\ UNCHANGED <<proto, user>>

\* MeshCore's ACK, NACK or timer; lxmf_outbound_status. It comes by the id the
\* transport knows, to a row that may be gone; none comes after a delivery.
Status(s, st) ==
    /\ sends[s].hash # None
    /\ msgs[sends[s].hash].st # "acked"
    /\ IF st = "acked" /\ sends[s].st = "out" THEN Settles(s) ELSE UNCHANGED sends
    /\ Become(SetStatus(Ctl, sends[s].hash, st))
    /\ UNCHANGED <<proto, nextId, user>>

\* Nothing more comes.
Silence(s) ==
    /\ sends[s].st = "out"
    /\ sends[s].hash # None => msgs[sends[s].hash].st # "sending"
    /\ Settles(s)
    /\ UNCHANGED <<proto, msgs, control, nextId, user>>

\* A propagation node takes over a row that had failed.
Revived(s) ==
    /\ proto = "reticulum" /\ sends[s].hash # None
    /\ msgs[sends[s].hash].st = "failed"
    /\ UNCHANGED <<proto, sends, nextId, user>>
    /\ Become(Put(Ctl, sends[s].hash, "sending"))

\* failReticulumSendingOutboundToDestHash, for the peer of row k.
LinkTimesOut(k) ==
    /\ proto = "reticulum" /\ msgs[k].st = "sending"
    /\ UNCHANGED <<proto, sends, nextId, user>>
    /\ Become(SetStatus(Ctl, k, "failed"))

Next ==
    \/ \E k \in Ids : \/ Compose(k) \/ ResendByHand(k) \/ Announce(k)
                      \/ Fire(k) \/ CancelAutoResend(k) \/ LinkTimesOut(k)
    \/ \E s \in Sends : \/ RoutingError(s) \/ SendFails(s) \/ Silence(s) \/ Revived(s)
                        \/ \E st \in {"acked", "failed"} : Status(s, st)
                        \/ \E k \in Ids : \/ DeviceAcks(s, k) \/ CompanionAccepts(s, k)
                                          \/ Echo(s, k)
                                          \/ \E early \in {"sending", "acked", "failed"} :
                                                Reply(s, k, early)

Spec == Init /\ [][Next]_vars

-----------------------------------------------------------------------------
\* A tracked row that has failed has a countdown with a timer behind it: no
\* order of late answers and re-keys leaves it without its next resend.
FailedIsScheduled ==
    \A k \in Tracked(Ctl) :
        msgs[k].st = "failed" => entries[k] > 0 /\ k \in timers

\* What follows is about Meshtastic and MeshCore: Reticulum's copy of a message
\* has a chain of its own until the reply re-keys the message onto it, and the
\* two chains' counts, cancels and outcomes are then mixed.
Unmixed == proto # "reticulum"

\* However sends fail, are re-keyed, repeated by hand or pushed out of the
\* tracked ones, no row is the last of more automatic resends than allowed.
ResendBudget == Unmixed => \A k \in Ids : msgs[k].autos <= MaxResends

\* Who hears how a message ended hears it once.
OneOutcome == Unmixed => \A o \in Ids : told[o] <= 1

\* A cancelled retry stays cancelled, whatever answers come later and whatever
\* the row is called by then, until the user resends it.
CancelledIsQuiet == Unmixed => \A k \in Ids : msgs[k].quiet => k \notin timers

\* fireResend: "Superseded meanwhile (manual Resend, Reticulum announce resend,
\* late ACK)" of a row it leaves alone.
SupersededIsLeftAlone ==
    [][\A k, m \in Ids : FireAnew(k) \/ FireAgain(k) =>
            ~(msgs[m].of = k /\ msgs[m].st \in {"sending", "acked"})]_vars
=============================================================================
