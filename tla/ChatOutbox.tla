----------------------------- MODULE ChatOutbox -----------------------------
(***************************************************************************)
(* The durable chat outbox of one protocol: the SQLite table, the two      *)
(* drains that send its rows (ChatPanel's useChatOutbox and the App-level  *)
(* useEmergencyOutboxDrain), the per-protocol lock that serialises them,   *)
(* and the user, the radio link and the clock that interfere.              *)
(*                                                                         *)
(* One action is one uninterrupted block of the renderer's event loop: it  *)
(* ends at an await. An IPC request takes effect when it is sent, because  *)
(* the requests of one renderer are executed in order and synchronously.   *)
(* A row is in the renderer's hands as a copy: a pass sends the rows it    *)
(* listed, whatever happens to the table meanwhile.                        *)
(***************************************************************************)
EXTENDS OutboxPolicy, FiniteSets, TLC

CONSTANTS
    Paced,      \* TRUE for meshtastic: a send waits for its pacing slot
    Receipts,   \* TRUE for reticulum: every send waits for its receipt
    Upgraded,   \* kinds of the rows a previous version left in the table
    PanelKinds, \* kinds of message the user queues from ChatPanel
    AppKinds,   \* kinds queued by Incident Command (ACK, beacon cancel)
    \* Bounds of the instance.
    MaxRows, MaxTime, MaxQueue, MaxFaults, MaxCrashes,
    SlowIPC,    \* TRUE if the clock may advance while a pass awaits IPC
    PanelLife   \* ChatPanel mounts "never", "once", or "remounts" (it is
                \* unmounted when the user switches protocol)

ASSUME OutboxAssumption ==
    /\ Paced \in BOOLEAN /\ Receipts \in BOOLEAN /\ SlowIPC \in BOOLEAN
    /\ ~(Paced /\ Receipts)
    /\ PanelLife \in {"never", "once", "remounts"}
    /\ Upgraded \in Seq(Kinds)
    /\ PanelKinds \subseteq Kinds /\ AppKinds \subseteq Kinds
    /\ MaxRows \in Nat /\ MaxTime \in Nat /\ MaxQueue \in Nat
    /\ MaxFaults \in Nat /\ MaxCrashes \in Nat
    /\ Len(Upgraded) <= MaxRows

VARIABLES
    now,      \* Date.now()
    online,   \* isSendAvailable of the protocol
    identity, \* the connected identity
    db,       \* chat_outbox, as a function from the ids of the stored rows
    nextId,   \* AUTOINCREMENT
    lock,     \* drainLocks: the drain holding the chain, then those queued
    pass,     \* the drain pass of each drainer
    panel,    \* the mounted ChatPanel hook
    queueing, \* the panel's queue() between two awaits
    app,      \* the App-level drain hook
    budget,   \* IPC failures and crashes left to the environment
    hist      \* history: what happened to each row id

vars == <<now, online, identity, db, nextId, lock, pass, panel,
          queueing, app, budget, hist>>

env == <<now, online, identity>>
store == <<db, nextId>>

Drainers == {"panel", "app"}
Ids == 1..MaxRows
Rows == {db[i] : i \in DOMAIN db}

(***************************************************************************)
(* A pass: rows is the listing until the eligible ones are picked, todo    *)
(* the eligible rows still to do, the first of them being sent; retries    *)
(* are the retry times among the listed rows and those the pass recorded   *)
(* (all that the hooks take from the rows of drainChatOutboxOnce's result).*)
(***************************************************************************)
Steps == {"idle", "listed", "recovered", "picked", "next", "pacing", "marking",
          "calling", "awaiting"}

Pass == [step: Steps, rows: SUBSET Row, todo: SUBSET Row, retries: SUBSET Time,
         attempted: BOOLEAN, aborted: BOOLEAN]

IdlePass == [step |-> "idle", rows |-> {}, todo |-> {}, retries |-> {},
             attempted |-> FALSE, aborted |-> FALSE]

Current(c) == FirstOf(pass[c].todo)
Becomes(c, p) == pass' = [pass EXCEPT ![c] = p]
InFlight(c) == pass[c].step \in {"calling", "awaiting"}

(* The panel hook: drainingRef, the retry timer, a drain due on the next   *)
(* tick, a reload owed after an App drain, and the rows its mount effect   *)
(* saw in "sending" and is about to reset.                                 *)
PanelState == [mounted: BOOLEAN, draining: BOOLEAN, timer: Time,
               soon: BOOLEAN, reload: BOOLEAN, reset: SUBSET Ids]

FreshPanel == [mounted |-> FALSE, draining |-> FALSE, timer |-> Never,
               soon |-> FALSE, reload |-> FALSE, reset |-> {}]

(* queue(): the row is added, the soft cap lists the rows and pauses a     *)
(* victim (at most one) picked from that listing, then the drain is asked. *)
QueueingState == [step: {"idle", "added", "listed", "capped"},
                  row: Nat, emergency: BOOLEAN, victim: SUBSET Ids]

NotQueueing == [step |-> "idle", row |-> 0, emergency |-> FALSE, victim |-> {}]

(* The App hook: retryAtByProtocol, and a drain owed for a row just added. *)
FreshApp == [timer |-> Never, ask |-> FALSE]

TypeOK ==
    /\ now \in Nat
    /\ online \in BOOLEAN
    /\ identity \in Identities \cup {NoIdentity}
    /\ DOMAIN db \subseteq Ids
    /\ \A i \in DOMAIN db : db[i] \in Row /\ db[i].id = i
    /\ nextId \in 1..(MaxRows + 1)
    /\ lock \in Seq(Drainers)
    /\ pass \in [Drainers -> Pass]
    /\ panel \in PanelState
    /\ queueing \in QueueingState
    /\ app \in [timer: Time, ask: BOOLEAN]
    /\ budget \in [faults: Nat, crashes: Nat]
    /\ hist \in [acked: SUBSET Ids, radioed: SUBSET Ids, cancelled: SUBSET Ids,
                 tries: [Ids -> Nat]]

Init ==
    /\ now = 0
    /\ online = FALSE
    /\ identity \in Identities
    /\ db = [i \in DOMAIN Upgraded |-> NewRow(i, Upgraded[i], NoIdentity, Never, 0)]
    /\ nextId = Len(Upgraded) + 1
    /\ lock = <<>>
    /\ pass = [c \in Drainers |-> IdlePass]
    /\ panel = FreshPanel
    /\ queueing = NotQueueing
    /\ app = FreshApp
    /\ budget = [faults |-> MaxFaults, crashes |-> MaxCrashes]
    /\ hist = [acked |-> {}, radioed |-> {}, cancelled |-> {},
               tries |-> [i \in Ids |-> 0]]

(***************************************************************************)
(* IPC to SQLite. An UPDATE or DELETE of a missing row does nothing.       *)
(***************************************************************************)
Insert(d, r) == [i \in DOMAIN d \cup {r.id} |-> IF i = r.id THEN r ELSE d[i]]
PutUpserts(d, r) == Insert(d, r)  \* mutant: INSERT OR REPLACE
Put(d, r) == IF r.id \in DOMAIN d THEN [d EXCEPT ![r.id] = r] ELSE d
Delete(d, id) == [i \in DOMAIN d \ {id} |-> d[i]]
SetStatus(d, ids, status) ==
    [i \in DOMAIN d |-> IF i \in ids THEN WithStatus(d[i], status) ELSE d[i]]

Fault == budget.faults > 0 /\ budget' = [budget EXCEPT !.faults = @ - 1]
NoFault == UNCHANGED budget

(***************************************************************************)
(* Asking for a drain. The panel's drainOnce drops the request while it is *)
(* already draining; the App-level one always queues on the lock.          *)
(***************************************************************************)
PanelAccepts(p, available) == p.mounted /\ ~p.draining /\ available
AskPanel(p, available) ==
    [p EXCEPT !.draining = p.draining \/ PanelAccepts(p, available)]
EnqueueIfIdle(q, c, accepted) ==  \* mutant: a busy lock turns callers away
    IF accepted /\ q = <<>> THEN Append(q, c) ELSE q
Enqueue(q, c, accepted) == IF accepted THEN Append(q, c) ELSE q

AskBoth(available) ==
    /\ lock' = Enqueue(Enqueue(lock, "panel", PanelAccepts(panel, available)),
                       "app", available)
    /\ panel' = AskPanel(panel, available)

Release(q) == SubSeq(q, 2, Len(q))

Room == Len(lock) < MaxQueue

-----------------------------------------------------------------------------
(***************************************************************************)
(* drainChatOutboxOnce, under withChatOutboxDrainLock.                     *)
(***************************************************************************)
HoldsQueued(c) == \E i \in DOMAIN lock : lock[i] = c  \* mutant: nobody waits
Holds(c) == lock # <<>> /\ Head(lock) = c

(* The pass ends: each hook arms its timer from the rows it tracked, and   *)
(* the App tells a mounted panel to reload if it attempted anything.       *)
Finish(c, retries) ==
    /\ lock' = Release(lock)
    /\ Becomes(c, IdlePass)
    /\ IF c = "panel"
       THEN /\ panel' = [panel EXCEPT !.draining = FALSE,
                                      !.timer = EarliestRetry(retries, now)]
            /\ UNCHANGED app
       ELSE /\ app' = [app EXCEPT !.timer = EarliestRetry(retries, now)]
            /\ panel' = [panel EXCEPT !.reload =
                            @ \/ (panel.mounted /\ pass[c].attempted)]

RejectStillDraining(c) ==  \* mutant: drainingRef is not reset on a failure
    /\ lock' = Release(lock)
    /\ Becomes(c, IdlePass)
    /\ UNCHANGED <<env, store, panel, queueing, app, hist>>

(* A rejected IPC ends the pass: no timer is armed by either hook.         *)
Reject(c) ==
    /\ lock' = Release(lock)
    /\ Becomes(c, IdlePass)
    /\ panel' = IF c = "panel" THEN [panel EXCEPT !.draining = FALSE] ELSE panel
    /\ UNCHANGED <<env, store, queueing, app, hist>>

StartOffline(c) ==
    /\ Holds(c) /\ pass[c].step = "idle" /\ ~online
    /\ Finish(c, {})
    /\ UNCHANGED <<env, store, queueing, budget, hist>>

List(c) ==
    /\ Holds(c) /\ pass[c].step = "idle" /\ online
    /\ \/ /\ NoFault
          /\ Becomes(c, [pass[c] EXCEPT !.step = "listed", !.rows = Rows])
          /\ UNCHANGED <<env, store, lock, panel, queueing, app, hist>>
       \/ Fault /\ Reject(c)

Stuck(c) == {r.id : r \in {s \in pass[c].rows : s.status = "sending"}}

(* recoverStuckSendingRows *)
Recover(c) ==
    /\ pass[c].step = "listed" /\ Stuck(c) # {}
    /\ \/ /\ NoFault
          /\ db' = SetStatus(db, Stuck(c), "queued")
          /\ Becomes(c, [pass[c] EXCEPT !.step = "recovered",
                                        !.rows = {Requeued(r) : r \in @}])
          /\ UNCHANGED <<env, nextId, lock, panel, queueing, app, hist>>
       \/ Fault /\ Reject(c)

(* The eligible snapshot; the App-level drain passes isAppDrainedOutboxRow. *)
(* The pass goes on to the first row in the same block of the event loop.  *)
Filter(c) ==
    /\ pass[c].step = "recovered" \/ (pass[c].step = "listed" /\ Stuck(c) = {})
    /\ Becomes(c, [pass[c] EXCEPT
            !.step = "picked", !.rows = {},
            !.retries = RetryTimes(pass[c].rows),
            !.todo = {r \in pass[c].rows : /\ Eligible(r, now)
                                           /\ MatchesIdentity(r, identity)
                                           /\ c = "app" => AppDrained(r)}])
    /\ UNCHANGED <<env, store, lock, panel, queueing, app, budget, hist>>

AtRow(c) == pass[c].step \in {"picked", "next"}

MayGoOn(c) ==
    /\ pass[c].todo # {} /\ online
    /\ MatchesIdentity(Current(c), identity)

End(c) ==
    /\ AtRow(c) /\ ~MayGoOn(c)
    /\ Finish(c, pass[c].retries)
    /\ UNCHANGED <<env, store, queueing, budget, hist>>

(* The row is done: on to the next one, keeping its retry time if any.     *)
RowDone(c, retries) ==
    Becomes(c, [pass[c] EXCEPT !.step = "next", !.retries = @ \cup retries,
                               !.todo = @ \ {Current(c)}, !.aborted = FALSE])

(* quarantineLegacyMultipartOutboxRow: blocked, never sent.                *)
Quarantine(c) ==
    /\ AtRow(c) /\ MayGoOn(c) /\ Current(c).kind = "legacy"
    /\ \/ NoFault /\ db' = SetStatus(db, {Current(c).id}, "blocked")
       \/ Fault /\ UNCHANGED db
    /\ Becomes(c, [pass[c] EXCEPT !.step = "next", !.attempted = TRUE,
                                  !.todo = @ \ {Current(c)}])
    /\ UNCHANGED <<env, nextId, lock, panel, queueing, app, hist>>

(* withMeshtasticTextSendPacing: the row waits for the radio's text slot.  *)
Pace(c) ==
    /\ Paced
    /\ AtRow(c) /\ MayGoOn(c) /\ Current(c).kind # "legacy"
    /\ Becomes(c, [pass[c] EXCEPT !.step = "pacing", !.attempted = TRUE])
    /\ UNCHANGED <<env, store, lock, panel, queueing, app, budget, hist>>

(* sendOneOutboxRow writes "sending" without looking at the row again.     *)
Mark(c) ==
    /\ \/ pass[c].step = "pacing"
       \/ /\ ~Paced
          /\ AtRow(c) /\ MayGoOn(c) /\ Current(c).kind # "legacy"
    /\ \/ /\ NoFault
          /\ db' = SetStatus(db, {Current(c).id}, "sending")
          /\ Becomes(c, [pass[c] EXCEPT !.step = "marking", !.attempted = TRUE])
          /\ UNCHANGED <<env, nextId, lock, panel, queueing, app, hist>>
       \/ Fault /\ Reject(c)

(* beginOutboxRowSend registers the abort handle and sendFn is called with *)
(* the radio that is connected now.                                        *)
Call(c) ==
    /\ pass[c].step = "marking"
    /\ Becomes(c, [pass[c] EXCEPT !.step = "calling"])
    /\ LET r == Current(c) IN
         hist' = [hist EXCEPT !.tries[r.id] = IF AppManaged(r) THEN 0 ELSE @ + 1]
    /\ UNCHANGED <<env, store, lock, panel, queueing, app, budget>>

(***************************************************************************)
(* Outcomes of the send.                                                   *)
(***************************************************************************)
NeedsNothing(c) == FALSE  \* mutant: radio accept counts as delivery
NeedsAck(c) == Emergency(Current(c)) \/ Receipts

(* finalizeSuccessfulOutboxSend: remove the row; if that fails, block it,  *)
(* and if that fails too the row stays "sending" in the table.             *)
Finalize(c) ==
    LET r == Current(c)
        blocked == [WithStatus(r, "blocked") EXCEPT !.attempts = Bump(@)]
    IN  /\ \/ NoFault /\ db' = Delete(db, r.id)
           \/ Fault /\ db' = Put(db, blocked)
           \/ /\ budget.faults > 1
              /\ budget' = [budget EXCEPT !.faults = @ - 2]
              /\ UNCHANGED db
        /\ RowDone(c, {})

(* The user cancelled: the row is gone from the table, nothing is written. *)
Abandon(c) == RowDone(c, {}) /\ UNCHANGED <<db, budget>>

(* recordOutboxSendFailure *)
RecordFailure(c, encryptionBlocked) ==
    LET r == Failed(Current(c), encryptionBlocked, now) IN
    /\ \/ NoFault /\ db' = Put(db, r)
       \/ Fault /\ UNCHANGED db
    /\ RowDone(c, RetryTimes({r}))

Settled(c) == UNCHANGED <<env, nextId, lock, panel, queueing, app>>

(* The radio takes the message. For a report this is sendFn resolving and  *)
(* awaitNetworkAck beginning; any other sendFn is still to settle.         *)
Accept(c) ==
    /\ pass[c].step = "calling"
    /\ Becomes(c, [pass[c] EXCEPT !.step = "awaiting"])
    /\ hist' = [hist EXCEPT !.radioed = @ \cup {Current(c).id}]
    /\ UNCHANGED <<db, budget>> /\ Settled(c)

(* sendFn resolves and there is no acknowledgement to wait for.            *)
Resolve(c) ==
    /\ pass[c].step = "awaiting" /\ ~NeedsAck(c)
    /\ IF pass[c].aborted THEN Abandon(c) ELSE Finalize(c)
    /\ Settled(c) /\ UNCHANGED hist

(* awaitNetworkAck resolves, or the LXMF receipt arrives.                  *)
AckArrives(c) ==
    /\ pass[c].step = "awaiting" /\ NeedsAck(c)
    /\ IF pass[c].aborted THEN Abandon(c) ELSE Finalize(c)
    /\ hist' = [hist EXCEPT !.acked = @ \cup {Current(c).id}]
    /\ Settled(c)

(* sendFn rejects (not connected, no key for the recipient) or hangs until *)
(* the row watchdog; or no acknowledgement comes in time. A send that      *)
(* timed out is not aborted and may still reach the radio.                 *)
Fails(c) ==
    /\ InFlight(c)
    /\ IF pass[c].aborted THEN Abandon(c)
       ELSE \E encryptionBlocked \in BOOLEAN :
              /\ encryptionBlocked => pass[c].step = "calling"
              /\ RecordFailure(c, encryptionBlocked)
    /\ Settled(c) /\ UNCHANGED hist

-----------------------------------------------------------------------------
(***************************************************************************)
(* What asks for a drain.                                                  *)
(***************************************************************************)
(* requestChatOutboxDrain, from an announce, a path update, a reconnect.   *)
ExternalDrain ==
    /\ online /\ Room
    /\ AskBoth(online)
    /\ UNCHANGED <<env, store, pass, queueing, app, budget, hist>>

PanelDrains(p) ==
    /\ lock' = Enqueue(lock, "panel", PanelAccepts(p, online))
    /\ panel' = AskPanel(p, online)

PanelTimer ==
    /\ panel.timer # Never /\ panel.timer <= now /\ Room
    /\ PanelDrains([panel EXCEPT !.timer = Never])
    /\ UNCHANGED <<env, store, pass, queueing, app, budget, hist>>

PanelSoon ==
    /\ panel.soon /\ Room
    /\ PanelDrains([panel EXCEPT !.soon = FALSE])
    /\ UNCHANGED <<env, store, pass, queueing, app, budget, hist>>

PanelReload ==
    /\ panel.reload
    /\ panel' = [panel EXCEPT !.reload = FALSE, !.timer = EarliestRetry(RetryTimes(Rows), now)]
    /\ UNCHANGED <<env, store, lock, pass, queueing, app, budget, hist>>

AppTimer ==
    /\ app.timer # Never /\ app.timer <= now /\ Room
    /\ app' = [app EXCEPT !.timer = Never]
    /\ lock' = Enqueue(lock, "app", online)
    /\ UNCHANGED <<env, store, pass, panel, queueing, budget, hist>>

-----------------------------------------------------------------------------
(***************************************************************************)
(* The user.                                                               *)
(***************************************************************************)
AddRow(kind, at) ==
    /\ nextId <= MaxRows
    /\ db' = Insert(db, NewRow(nextId, kind, identity, at, now))
    /\ nextId' = nextId + 1

(* Messages go now; a chat message may also be scheduled for later.        *)
Queue(kind) ==
    /\ panel.mounted /\ queueing.step = "idle"
    /\ \E at \in {Never} \cup (IF kind = "text" THEN (now + 1)..MaxTime ELSE {}) :
         AddRow(kind, at)
    /\ queueing' = [queueing EXCEPT !.step = "added", !.row = nextId,
                                    !.emergency = kind \in {"mayday", "report"}]
    /\ UNCHANGED <<env, lock, pass, panel, app, budget, hist>>

(* enforceEmergencyOutboxSoftCap lists the rows, then pauses a victim it   *)
(* chose from that listing. A failure is only logged.                      *)
CapList ==
    /\ queueing.step = "added" /\ queueing.emergency
    /\ LET counted == CapCounted(Rows, queueing.row)
           victims == CapVictims(Rows, queueing.row)
       IN  \/ /\ NoFault
              /\ queueing' = [queueing EXCEPT !.step = "listed", !.victim =
                    IF Cardinality(counted) + 1 > SoftCap /\ victims # {}
                    THEN {FirstOf(victims).id} ELSE {}]
           \/ /\ Fault
              /\ queueing' = [queueing EXCEPT !.step = "capped"]
    /\ UNCHANGED <<env, store, lock, pass, panel, app, hist>>

CapBlock ==
    /\ queueing.step = "listed"
    /\ \/ NoFault /\ db' = SetStatus(db, queueing.victim, "blocked")
       \/ queueing.victim # {} /\ Fault /\ UNCHANGED db
    /\ queueing' = [queueing EXCEPT !.step = "capped", !.victim = {}]
    /\ UNCHANGED <<env, nextId, lock, pass, panel, app, hist>>

(* setTimeout(drainOnce, 0) when online, else the retry timer.             *)
QueueDone ==
    /\ \/ queueing.step = "capped"
       \/ queueing.step = "added" /\ ~queueing.emergency
    /\ queueing' = NotQueueing
    /\ panel' = IF online THEN [panel EXCEPT !.soon = TRUE]
                ELSE [panel EXCEPT !.timer = EarliestRetry(RetryTimes(Rows), now)]
    /\ UNCHANGED <<env, store, lock, pass, app, budget, hist>>

(* Retry of a failed or blocked row, Send now of a scheduled one.          *)
Retry(id) ==
    /\ panel.mounted /\ id \in DOMAIN db
    /\ db[id].status \in {"failed", "blocked"} \/ Scheduled(db[id])
    /\ \/ /\ NoFault
          /\ db' = Put(db, [WithStatus(db[id], "queued") EXCEPT !.attempts = 0])
          /\ panel' = [panel EXCEPT !.soon = TRUE]
          /\ hist' = [hist EXCEPT !.tries[id] = 0]
       \/ Fault /\ UNCHANGED <<db, panel, hist>>
    /\ UNCHANGED <<env, nextId, lock, pass, queueing, app>>

(* Cancel: abort the in-flight send, then delete the row. The abort finds  *)
(* a handle only once the drain has begun the send of this row; it ends a  *)
(* wait for the network acknowledgement at once and is looked at by any    *)
(* other send when that settles.                                           *)
Cancelled(p, id) ==
    IF p.step \notin {"calling", "awaiting"} \/ FirstOf(p.todo).id # id THEN p
    ELSE IF p.step = "awaiting" /\ Emergency(FirstOf(p.todo))
    THEN [p EXCEPT !.step = "next", !.todo = {s \in @ : s.id # id}]
    ELSE [p EXCEPT !.aborted = TRUE]

Cancel(id) ==
    /\ id \in DOMAIN db
    /\ panel.mounted \/ db[id].kind = "ack"
    /\ pass' = [c \in Drainers |-> Cancelled(pass[c], id)]
    /\ \/ /\ NoFault
          /\ db' = Delete(db, id)
          /\ hist' = [hist EXCEPT !.cancelled = @ \cup {id}]
       \/ Fault /\ UNCHANGED <<db, hist>>
    /\ UNCHANGED <<env, nextId, lock, panel, queueing, app>>

(* Incident Command adds its row itself, then asks both hooks to drain.    *)
AppQueue(kind) ==
    /\ ~app.ask
    /\ AddRow(kind, Never)
    /\ app' = [app EXCEPT !.ask = TRUE]
    /\ UNCHANGED <<env, lock, pass, panel, queueing, budget, hist>>

AppAsks ==
    /\ app.ask /\ Room
    /\ app' = [app EXCEPT !.ask = FALSE]
    /\ AskBoth(online)
    /\ UNCHANGED <<env, store, pass, queueing, budget, hist>>

-----------------------------------------------------------------------------
(***************************************************************************)
(* ChatPanel mounts: its load effect lists the rows it will reset, and its *)
(* availability effect asks for a drain.                                   *)
(***************************************************************************)
Mount ==
    /\ PanelLife # "never"
    /\ ~panel.mounted /\ Room
    /\ panel' = [FreshPanel EXCEPT !.mounted = TRUE, !.draining = online,
                    !.reset = {i \in DOMAIN db : db[i].status = "sending"}]
    /\ lock' = Enqueue(lock, "panel", online)
    /\ UNCHANGED <<env, store, pass, queueing, app, budget, hist>>

(* The reset does not take the drain lock.                                 *)
MountReset ==
    /\ panel.reset # {}
    /\ \/ NoFault /\ db' = SetStatus(db, panel.reset, "queued")
       \/ Fault /\ UNCHANGED db
    /\ panel' = [panel EXCEPT !.reset = {}]
    /\ UNCHANGED <<env, nextId, lock, pass, queueing, app, hist>>

(* Bound: the panel is only unmounted between its own operations.          *)
Unmount ==
    /\ PanelLife = "remounts"
    /\ panel.mounted /\ ~panel.draining /\ ~panel.soon /\ ~panel.reload
    /\ panel.reset = {} /\ queueing.step = "idle"
    /\ panel' = FreshPanel
    /\ UNCHANGED <<env, store, lock, pass, queueing, app, budget, hist>>

(***************************************************************************)
(* The link, the identity and the clock; a crash of the application.       *)
(***************************************************************************)
GoOnline ==
    /\ ~online /\ Room
    /\ online' = TRUE
    /\ AskBoth(TRUE)
    /\ UNCHANGED <<now, identity, store, pass, queueing, app, budget, hist>>

GoOffline ==
    /\ online
    /\ online' = FALSE
    /\ UNCHANGED <<now, identity, store, lock, pass, panel, queueing, app,
                   budget, hist>>

SwitchIdentity(i) ==
    /\ i # identity /\ Room
    /\ identity' = i
    /\ AskBoth(online)
    /\ UNCHANGED <<now, online, store, pass, queueing, app, budget, hist>>

Tick ==
    /\ now < MaxTime
    /\ SlowIPC \/ \A c \in Drainers :
                     pass[c].step \in {"idle", "pacing", "calling", "awaiting"}
    /\ now' = now + 1
    /\ UNCHANGED <<online, identity, store, lock, pass, panel, queueing,
                   app, budget, hist>>

Crash ==
    /\ budget.crashes > 0
    /\ budget' = [budget EXCEPT !.crashes = @ - 1]
    /\ online' = FALSE
    /\ lock' = <<>>
    /\ pass' = [c \in Drainers |-> IdlePass]
    /\ panel' = FreshPanel
    /\ queueing' = NotQueueing
    /\ app' = FreshApp
    /\ UNCHANGED <<now, identity, store, hist>>

-----------------------------------------------------------------------------
DrainStep(c) ==
    \/ StartOffline(c) \/ List(c) \/ Recover(c) \/ Filter(c) \/ End(c)
    \/ Quarantine(c) \/ Pace(c) \/ Mark(c) \/ Call(c)

Outcome(c) ==
    \/ Accept(c) \/ Resolve(c) \/ AckArrives(c) \/ Fails(c)

Trigger ==
    \/ ExternalDrain \/ PanelTimer \/ PanelSoon \/ PanelReload \/ AppTimer
    \/ AppAsks \/ CapList \/ CapBlock \/ QueueDone \/ MountReset

User ==
    \/ \E kind \in PanelKinds : Queue(kind)
    \/ \E kind \in AppKinds : AppQueue(kind)
    \/ \E id \in Ids : Retry(id) \/ Cancel(id)
    \/ Mount \/ Unmount

World ==
    \/ GoOnline \/ GoOffline \/ Tick \/ Crash
    \/ \E i \in Identities : SwitchIdentity(i)

(* A pass that has just picked its rows runs on before anything else does. *)
Next ==
    \/ \E c \in Drainers : DrainStep(c)
    \/ /\ \A c \in Drainers : pass[c].step # "picked"
       /\ \/ \E c \in Drainers : Outcome(c)
          \/ Trigger \/ User \/ World

Spec == Init /\ [][Next]_vars

(***************************************************************************)
(* What the program's own scheduling guarantees: promise continuations and *)
(* timers run, an acknowledgement wait and a hanging send are cut by their *)
(* watchdogs. Nothing is assumed of the radio, the user or the link.       *)
(***************************************************************************)
Fairness ==
    /\ \A c \in Drainers :
          /\ WF_vars(DrainStep(c))
          /\ WF_vars(Resolve(c) \/ AckArrives(c) \/ Fails(c))
    /\ WF_vars(PanelTimer) /\ WF_vars(PanelSoon) /\ WF_vars(PanelReload)
    /\ WF_vars(AppTimer) /\ WF_vars(AppAsks) /\ WF_vars(MountReset)
    /\ WF_vars(CapList \/ CapBlock \/ QueueDone)

FairSpec == Spec /\ Fairness

-----------------------------------------------------------------------------
(***************************************************************************)
(* Safety.                                                                 *)
(***************************************************************************)
Sending(c) == pass[c].step \in {"marking", "calling", "awaiting"}

(* ChatPanel and the App-level drain never send the same row at the same   *)
(* time: withChatOutboxDrainLock admits one pass at a time.                *)
OneSenderPerRow ==
    \A c, d \in Drainers :
        c # d /\ Sending(c) /\ Sending(d) => Current(c).id # Current(d).id

(* A row only leaves the table because the user cancelled it or because    *)
(* the radio took it, and for a report or an LXMF message the network      *)
(* acknowledged it: finalizeSuccessfulOutboxSend is the only automatic     *)
(* removal.                                                                *)
RemovedOnlyWhenDelivered ==
    [][\A i \in DOMAIN db \ DOMAIN db' :
          \/ i \in hist'.cancelled
          \/ /\ i \in hist'.radioed
             /\ Emergency(db[i]) \/ Receipts => i \in hist'.acked]_vars

(* Once a row was delivered and removed, no drain sends it again from a    *)
(* listing it took earlier: rows are listed only under the lock. A row the *)
(* user cancelled is taken up by no pass afterwards: only one that had it  *)
(* in hand before may still send it.                                       *)
InHand(p) == {r.id : r \in p.rows \cup p.todo}

NeverSentAfterRemoval ==
    [][\A c \in Drainers :
          /\ pass[c].step = "marking" /\ pass'[c].step = "calling"
               => Current(c).id \in DOMAIN db \cup hist.cancelled
          /\ InHand(pass'[c]) \cap hist.cancelled \subseteq InHand(pass[c])]_vars

(* What a pass still writes about a row the user cancelled does not bring  *)
(* the row back.                                                           *)
CancelledStaysGone == hist.cancelled \cap DOMAIN db = {}

(* Between two manual retries a chat message is attempted at most          *)
(* MAX_ATTEMPTS times, whoever drains it and however often ChatPanel       *)
(* remounts (without crashes and failing IPC, which lose the count).       *)
AttemptBudget == \A i \in Ids : hist.tries[i] <= MaxAttempts

(* A blocked row (no key for the recipient, paused by the soft cap, sent   *)
(* but not removed) stays blocked until the user retries or cancels it,    *)
(* unless it was blocked behind the back of someone who had listed it: a   *)
(* pass that has yet to requeue or send it, or ChatPanel's mount reset.    *)
BlockedStaysBlocked ==
    [][\A i \in DOMAIN db \cap DOMAIN db' :
          db[i].status = "blocked" /\ db'[i].status # "blocked"
            => \/ Retry(i)
               \/ i \in panel.reset
               \/ \E c \in Drainers : \E r \in pass[c].rows \cup pass[c].todo :
                     r.id = i /\ r.status # "blocked"]_vars

-----------------------------------------------------------------------------
(***************************************************************************)
(* Wake-ups. The outbox is asleep when no drain runs, waits or was asked   *)
(* for, and no timer is armed: only the world outside can start a drain.   *)
(***************************************************************************)
AppIdle == lock = <<>> /\ ~app.ask

Asleep ==
    /\ AppIdle /\ app.timer = Never
    /\ panel.timer = Never /\ ~panel.soon /\ ~panel.reload
    /\ panel.reset = {} /\ queueing.step = "idle"

Sendable(r) == online /\ MatchesIdentity(r, identity)

(* A row Incident Command adds is attempted by the drain it asks for, even *)
(* if that request arrives in the middle of another drain.                 *)
AppRowIsDrained ==
    AppIdle => ~ \E r \in Rows : /\ Sendable(r) /\ AppManaged(r)
                                 /\ r.status = "queued" /\ r.attempts = 0

(* When the App-level drain is idle, its timer is armed no later than any  *)
(* retry still ahead of the clock.                                         *)
AppRetryArmed ==
    AppIdle /\ online =>
        \A r \in Rows : AppDrained(r) /\ Waiting(r) /\ r.retryAt > now
                          => app.timer # Never /\ app.timer <= r.retryAt

(* A report is sent right away when the radio is up and keeps retrying: it *)
(* is never left, untried or failed, in a sleeping outbox.                 *)
ReportKeepsTrying ==
    Asleep => ~ \E r \in Rows : /\ Sendable(r) /\ Emergency(r)
                                /\ \/ r.status = "failed"
                                   \/ r.status = "queued" /\ r.attempts = 0

-----------------------------------------------------------------------------
(* The drain lock is always given back: a drain ChatPanel started ends,    *)
(* even if a send hangs (the row watchdog) or IPC fails.                   *)
PanelDrainEnds == panel.draining ~> ~panel.draining
=============================================================================
