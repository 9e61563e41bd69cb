------------------------- MODULE ScheduledBroadcasts -------------------------
(***************************************************************************)
(* The scheduler of recurring broadcasts: its timers, the run that claims  *)
(* and delivers due slots one after another, the passes that skip missed   *)
(* occurrences (at start, on power resume, when the master switch is       *)
(* turned on), Send now, the table, and the renderer's copy of the table,  *)
(* every change of which calls the scheduler's refresh().                  *)
(*                                                                         *)
(* One action is one uninterrupted block of the renderer's event loop. A   *)
(* request to the database takes effect when it is sent; its reply waits   *)
(* in a queue, because the main process answers in order, and carries what *)
(* the awaiting function still knows: its row, its run or its pass.        *)
(***************************************************************************)
EXTENDS BroadcastRule, Sequences, FiniteSets

CONSTANTS
    SlotCount,   \* SCHEDULED_BROADCAST_SLOT_COUNT
    Stored,      \* tables a previous session may have left
    \* Bounds of the instance.
    MaxTime,
    MaxReplies,  \* replies pending when an unrelated setting changes
    MaxEvents,   \* edits, sends, switches, sleeps, crashes and failures
    MaxSleeps    \* power resumes in one life of the renderer

ASSUME BroadcastAssumption ==
    /\ SlotCount \in Nat \ {0} /\ MaxTime \in Nat \ {0} /\ MaxReplies \in Nat
    /\ MaxEvents \in Nat /\ MaxSleeps \in Nat
    /\ Stored \subseteq [1..SlotCount -> Row]

VARIABLES
    now,        \* Date.now()
    power,      \* the computer is awake; a power-resume event is on its way
    up,         \* the renderer is running
    user,       \* what the user's own request is waiting for
    budget,     \* events left to the user and the environment
    db,         \* scheduled_broadcasts
    slots,      \* useScheduledBroadcastsStore
    master,     \* the scheduledBroadcastsEnabled setting
    sch,        \* the scheduler's own variables
    replies,    \* replies of the database on their way to the renderer
    deliveries, \* deliverScheduledBroadcast() calls that have not returned
    hist        \* history: the fate of every occurrence, and what it explains

environment == <<now, power, up, user, budget>>
machine == <<db, slots, master, sch, replies, deliveries, hist>>
vars == <<now, power, up, user, budget,
          db, slots, master, sch, replies, deliveries, hist>>

Slots == 1..SlotCount
Times == 1..MaxTime
NoTimer == 0

(* started, the listeners of bootScheduler, the two timers, running, the   *)
(* two flags a run leaves for finishRun, resumeEpoch and lastEnabled.      *)
Scheduler == [started: BOOLEAN, subscribed: BOOLEAN, timer: Nat, interval: BOOLEAN,
              running: BOOLEAN, tickPending: BOOLEAN, reconcilePending: BOOLEAN,
              epoch: Nat, lastEnabled: BOOLEAN]

IdleScheduler == [started |-> FALSE, subscribed |-> FALSE, timer |-> NoTimer,
                  interval |-> FALSE, running |-> FALSE, tickPending |-> FALSE,
                  reconcilePending |-> FALSE, epoch |-> 0, lastEnabled |-> FALSE]

(* The row object a function holds across its awaits.                      *)
Held == [slot: Slots, rule: Rules, due: Due]

(* A run of tick(), or Send now; and a pass of normalizeSlots() with the   *)
(* rows it has not come to, called by refresh, start, resume or finishRun. *)
Run == [epoch: Nat, attempted: SUBSET (Slots \X Due), sendNow: BOOLEAN]
Callers == {"refresh", "start", "resume", "finish"}
Pass == [who: Callers, at: Nat, rest: SUBSET Held]

Answers == {"yes", "no", "failed"}
RunReply == [kind: {"fire", "sent"}, row: Held, next: Due, ok: Answers, run: Run]
PassReply == [kind: {"miss", "missed"}, row: Held, next: Due, ok: Answers, pass: Pass]
FillReply == [kind: {"filled"}, slot: Slots, stored: Row, ok: Answers, pass: Pass]
UserReply == [kind: {"saved"}, slot: Slots, stored: Row]
             \cup [kind: {"removed"}, slot: Slots] \cup [kind: {"cleared"}]
Reply == RunReply \cup PassReply \cup FillReply \cup UserReply
Delivery == [row: Held, next: Due, run: Run]

Fates == {"open", "fired", "missed", "twice"}
Skips == Slots \X Times

TypeOK ==
    /\ now \in Times
    /\ power \in [awake: BOOLEAN, resume: BOOLEAN]
    /\ up \in BOOLEAN
    /\ user \in {"idle", "clearing", "waiting"}
    /\ budget \in 0..MaxEvents
    /\ db \in [Slots -> Row]
    /\ slots \in [Slots -> Row]
    /\ master \in BOOLEAN
    /\ sch \in Scheduler
    /\ replies \in Seq(Reply)
    /\ deliveries \subseteq Delivery
    /\ hist \in [fate: [Slots -> [Times -> Fates]], skip: SUBSET Skips,
                 skewed: SUBSET Slots]

(***************************************************************************)
(* The functions of the scheduler call each other within one block, so     *)
(* they are operators from the machine's state to its next state. `inject` *)
(* is TRUE when the environment rejects the next request of the block.     *)
(***************************************************************************)
Here == [db |-> db, slots |-> slots, master |-> master, sch |-> sch,
         replies |-> replies, deliveries |-> deliveries, hist |-> hist,
         inject |-> FALSE]

Become(m) ==
    /\ db' = m.db
    /\ slots' = m.slots
    /\ master' = m.master
    /\ sch' = m.sch
    /\ replies' = m.replies
    /\ deliveries' = m.deliveries
    /\ hist' = m.hist

Spend == budget > 0 /\ budget' = budget - 1

(* The step that leads to Op(m), with or without a rejected request.       *)
Does(Op(_), m) ==
    \/ /\ \E done \in {Op(m)} : Become(done)
       /\ UNCHANGED budget
    \/ /\ Spend
       /\ \E done \in {Op([m EXCEPT !.inject = TRUE])} : ~done.inject /\ Become(done)

Send(m, reply) == [m EXCEPT !.replies = Append(@, reply)]
Rejected(m, reply) ==
    [m EXCEPT !.replies = Append(@, [reply EXCEPT !.ok = "failed"]), !.inject = FALSE]

On(m) == {s \in Slots : m.slots[s].on}
Hold(m, s) == [slot |-> s, rule |-> m.slots[s].rule, due |-> m.slots[s].due]
Timely(m) == {s \in On(m) : m.slots[s].due # NoDue}
OverdueSlots(m) == {s \in Timely(m) : m.slots[s].due <= now}

(* arm(): both timers go when the switch is off; a run arms when it ends.  *)
Earliest(m) == CHOOSE d \in {m.slots[s].due : s \in Timely(m)} :
                   \A s \in Timely(m) : d <= m.slots[s].due
Arm(m) ==
    IF ~m.sch.started \/ ~m.master
    THEN [m EXCEPT !.sch.timer = NoTimer, !.sch.interval = FALSE]
    ELSE IF m.sch.running THEN [m EXCEPT !.sch.timer = NoTimer]
    ELSE [m EXCEPT !.sch.interval = TRUE,
                   !.sch.timer = IF Timely(m) = {} THEN NoTimer
                                 ELSE IF Earliest(m) > now THEN Earliest(m) ELSE now]

(* Deliveries and replies that will write a due time into the copy of s:   *)
(* what is written into the table meanwhile they cross.                    *)
Outstanding(m, s) ==
    \/ \E d \in m.deliveries : d.row.slot = s
    \/ \E i \in DOMAIN m.replies :
           /\ m.replies[i].kind \in {"fire", "sent", "miss", "missed"}
           /\ m.replies[i].row.slot = s

Crossed(m, s) == [m EXCEPT !.hist.skewed = @ \cup {t \in {s} : Outstanding(m, t)}]

(* The claim of an occurrence: fate is what the claim is for.              *)
Settle(fate, how) == IF fate = "open" THEN how ELSE "twice"
Claim(m, reply, how) ==
    LET s == reply.row.slot
        due == reply.row.due
    IN  IF m.inject THEN Rejected(m, reply)
        ELSE IF ~Claimable(m.db[s], due) THEN Send(m, [reply EXCEPT !.ok = "no"])
        ELSE Send([Crossed(m, s) EXCEPT !.db[s].due = reply.next,
                                        !.hist.fate[s][due] = Settle(@, how)], reply)

(***************************************************************************)
(* normalizeSlots(): rows it has nothing to do for are passed over in one  *)
(* block; the first of the others is claimed, or saved if it had no due    *)
(* time. Its callers finish as Normalized says.                            *)
(***************************************************************************)
NextFor(row, at) ==
    IF row.due = NoDue THEN NextDue(row.rule, at) ELSE AdvancePastDue(row.rule, row.due, at)

Todo(m, mode) ==
    {row \in {Hold(m, s) : s \in On(m)} :
        /\ row.due = NoDue \/ (mode = "skip-missed" /\ row.due <= now)
        /\ NextFor(row, now) # NoDue}

(* The rows are taken in the order of their slots.                         *)
First(rest) == CHOOSE row \in rest : \A other \in rest : row.slot <= other.slot

Normalized(m, who) ==
    CASE who = "refresh" -> Arm(m)
      [] who = "start" -> [Arm(m) EXCEPT !.sch.subscribed = TRUE]
      [] OTHER -> Arm([m EXCEPT !.sch.running = FALSE])

Fill(m, slot, next, pass) ==
    LET stored == WithDue(m.db[slot], next)
        reply == [kind |-> "filled", slot |-> slot, stored |-> stored,
                  ok |-> "yes", pass |-> pass]
    IN  IF m.inject THEN Rejected(m, reply)
        ELSE Send([Crossed(m, slot) EXCEPT !.db[slot] = stored], reply)

Normalize(m, pass) ==
    IF pass.rest = {} THEN Normalized(m, pass.who)
    ELSE LET row == First(pass.rest)
             next == NextFor(row, pass.at)
             later == [pass EXCEPT !.rest = @ \ {row}]
         IN  IF row.due = NoDue THEN Fill(m, row.slot, next, later)
             ELSE Claim(m, [kind |-> "miss", row |-> row, next |-> next,
                            ok |-> "yes", pass |-> later], "missed")

Reconcile(m, who, mode) ==
    Normalize(m, [who |-> who, at |-> now, rest |-> Todo(m, mode)])

(* refresh(): called for every change of the store or of a setting.        *)
Refresh(m) ==
    LET justEnabled == m.master /\ ~m.sch.lastEnabled
        noted == [m EXCEPT !.sch.lastEnabled = m.master]
    IN  IF m.master /\ ~m.sch.running
        THEN Reconcile(noted, "refresh", IF justEnabled THEN "skip-missed" ELSE "fill-null")
        ELSE Arm([noted EXCEPT !.sch.reconcilePending = @ \/ justEnabled])

ChangedUnseen(m) == m  \* mutant: no subscription to the store
Changed(m) == IF m.sch.subscribed THEN Refresh(m) ELSE m

(* applyRuntimeState(): a slot removed meanwhile stays removed.            *)
Apply(m, slot, due) ==
    IF m.slots[slot].here THEN Changed([m EXCEPT !.slots[slot].due = due]) ELSE m

(***************************************************************************)
(* tick(): the earliest due slot not yet attempted in this run is claimed, *)
(* until the switch is off, the computer has slept, or nothing is due.     *)
(***************************************************************************)
NewRun(m) == [epoch |-> m.sch.epoch, attempted |-> {}, sendNow |-> FALSE]

FireableStale(m, run) ==  \* mutant: resumeEpoch is not compared
    {s \in OverdueSlots(m) : <<s, m.slots[s].due>> \notin run.attempted}
Fireable(m, run) ==
    IF m.master /\ run.epoch = m.sch.epoch
    THEN {s \in OverdueSlots(m) : <<s, m.slots[s].due>> \notin run.attempted}
    ELSE {}

Before(m, s, t) ==
    \/ m.slots[s].due < m.slots[t].due
    \/ m.slots[s].due = m.slots[t].due /\ s <= t

Fire(m, run) ==
    LET due == Fireable(m, run)
        slot == CHOOSE s \in due : \A t \in due : Before(m, s, t)
        row == Hold(m, slot)
    IN  Claim([m EXCEPT !.sch.running = TRUE],
              [kind |-> "fire", row |-> row, next |-> NextDue(row.rule, now), ok |-> "yes",
               run |-> [run EXCEPT !.attempted = @ \cup {<<slot, row.due>>}]],
              "fired")

(* finishRun(): a pending reconcile takes precedence over a pending tick,  *)
(* which is a run of its own and ends at once when nothing is due.         *)
FinishRun(m) ==
    LET done == [m EXCEPT !.sch.running = FALSE, !.sch.reconcilePending = FALSE,
                          !.sch.tickPending = FALSE]
    IN  IF m.sch.reconcilePending
        THEN Reconcile([done EXCEPT !.sch.running = TRUE], "finish", "skip-missed")
        ELSE IF m.sch.tickPending /\ m.sch.started /\ Fireable(m, NewRun(m)) # {}
        THEN Fire(Arm(done), NewRun(m))
        ELSE Arm(done)

Continue(m, run) == IF Fireable(m, run) = {} THEN FinishRun(m) ELSE Fire(m, run)

TickAnyway(m) ==  \* mutant: `running` is not looked at
    IF m.sch.started /\ m.master THEN Continue(m, NewRun(m)) ELSE m
Tick(m) ==
    IF ~m.sch.started THEN m
    ELSE IF ~m.master THEN Arm(m)
    ELSE IF m.sch.running THEN [m EXCEPT !.sch.tickPending = TRUE]
    ELSE Continue(m, NewRun(m))

Init ==
    /\ now = 1
    /\ power = [awake |-> TRUE, resume |-> FALSE]
    /\ up = FALSE
    /\ user = "idle"
    /\ budget = MaxEvents
    /\ db \in Stored
    /\ slots = [s \in Slots |-> Absent]
    /\ master \in BOOLEAN
    /\ sch = IdleScheduler
    /\ replies = <<>>
    /\ deliveries = {}
    /\ hist = [fate |-> [s \in Slots |-> [t \in Times |-> "open"]],
               skip |-> {}, skewed |-> {}]

Running == up /\ power.awake


(* A row is on its way from the table to the store.                        *)
BeingStored(s) ==
    \E i \in DOMAIN replies : replies[i].kind \in {"saved", "filled"} /\ replies[i].slot = s

(* From now on the overdue occurrences must be skipped.                    *)
Skipping(m) ==
    LET missed == {s \in OverdueSlots(m) :
                      ~BeingStored(s) /\ m.hist.fate[s][m.slots[s].due] = "open"}
    IN  [m EXCEPT !.hist.skip = @ \cup {<<s, m.slots[s].due>> : s \in missed}]

(***************************************************************************)
(* Replies of the database, in order. A lost or failed claim ends the      *)
(* attempt; a failed setResult is only noticed by a pass, which then does  *)
(* not update its copy.                                                    *)
(***************************************************************************)
Answer(kind) == Running /\ replies # <<>> /\ Head(replies).kind = kind
Received == [Here EXCEPT !.replies = Tail(replies)]

FireClaimed ==
    /\ Answer("fire")
    /\ Head(replies).ok = "yes"
    /\ LET reply == Head(replies)
           Op(m) == LET m1 == Apply(m, reply.row.slot, reply.next)
                    IN  [m1 EXCEPT !.deliveries = @ \cup
                           {[row |-> reply.row, next |-> reply.next, run |-> reply.run]}]
       IN  Does(Op, Received)
    /\ UNCHANGED <<now, power, up, user>>

FireRefused ==
    /\ Answer("fire")
    /\ Head(replies).ok # "yes"
    /\ LET Op(m) == Continue(m, Head(replies).run) IN Does(Op, Received)
    /\ UNCHANGED <<now, power, up, user>>

(* deliverScheduledBroadcast() returns; its outcome is written down.       *)
Delivered ==
    /\ Running
    /\ \E d \in deliveries :
         LET reply == [kind |-> "sent", row |-> d.row, next |-> d.next,
                       ok |-> "yes", run |-> d.run]
             Op(m) == IF m.inject THEN Rejected(m, reply) ELSE Send(m, reply)
         IN  Does(Op, [Here EXCEPT !.deliveries = @ \ {d}])
    /\ UNCHANGED <<now, power, up, user>>

Recorded ==
    /\ Answer("sent")
    /\ LET reply == Head(replies)
           Op(m) == LET m1 == Apply(m, reply.row.slot, reply.next)
                    IN  IF reply.run.sendNow THEN FinishRun(m1) ELSE Continue(m1, reply.run)
       IN  Does(Op, Received)
    /\ UNCHANGED <<now, power, up, user>>

MissClaimed ==
    /\ Answer("miss")
    /\ Head(replies).ok = "yes"
    /\ LET reply == [Head(replies) EXCEPT !.kind = "missed"]
           Op(m) == IF m.inject THEN Rejected(m, reply) ELSE Send(m, reply)
       IN  Does(Op, Received)
    /\ UNCHANGED <<now, power, up, user>>

(* The promise to skip an occurrence does not hold if its claim failed.    *)
MissRefused ==
    /\ Answer("miss")
    /\ Head(replies).ok # "yes"
    /\ LET reply == Head(replies)
           Op(m) == Normalize(m, reply.pass)
       IN  Does(Op, [Received EXCEPT !.hist.skip =
                        IF reply.ok = "no" THEN @
                        ELSE {k \in @ : k[1] # reply.row.slot}])
    /\ UNCHANGED <<now, power, up, user>>

Missed ==
    /\ Answer("missed")
    /\ LET reply == Head(replies)
           s == reply.row.slot
           Op(m) == IF reply.ok = "yes" THEN Normalize(Apply(m, s, reply.next), reply.pass)
                    ELSE Normalize([m EXCEPT !.hist.skewed = @ \cup {s}], reply.pass)
       IN  Does(Op, Received)
    /\ UNCHANGED <<now, power, up, user>>

Filled ==
    /\ Answer("filled")
    /\ LET reply == Head(replies)
           Op(m) == IF reply.ok = "failed" THEN Normalize(m, reply.pass)
                    ELSE Normalize(Changed([m EXCEPT !.slots[reply.slot] = reply.stored]),
                                   reply.pass)
       IN  Does(Op, Received)
    /\ UNCHANGED <<now, power, up, user>>

(***************************************************************************)
(* Timers, power events, start and crash.                                  *)
(***************************************************************************)
TimerFires ==
    /\ Running
    /\ sch.timer # NoTimer
    /\ sch.timer <= now
    /\ Does(Tick, [Here EXCEPT !.sch.timer = NoTimer])
    /\ UNCHANGED <<now, power, up, user>>

IntervalFires ==
    /\ Running
    /\ sch.interval
    /\ Does(Tick, Here)
    /\ UNCHANGED <<now, power, up, user>>

Sleep ==
    /\ power.awake
    /\ ~power.resume
    /\ sch.epoch < MaxSleeps
    /\ Spend
    /\ power' = [power EXCEPT !.awake = FALSE]
    /\ UNCHANGED <<now, up, user, machine>>

Wake ==
    /\ ~power.awake
    /\ power' = [awake |-> TRUE, resume |-> up]
    /\ UNCHANGED <<now, up, user, budget, machine>>

(* onPowerResume(); the event is lost before bootScheduler listens to it.  *)
PowerResume ==
    /\ Running
    /\ power.resume
    /\ power' = [power EXCEPT !.resume = FALSE]
    /\ LET Op(m) ==
             LET m1 == [m EXCEPT !.sch.epoch = @ + 1]
             IN  IF ~m.sch.subscribed THEN m
                 ELSE IF m.sch.running THEN [m1 EXCEPT !.sch.reconcilePending = TRUE]
                 ELSE IF m.master
                 THEN Reconcile([m1 EXCEPT !.sch.running = TRUE], "resume", "skip-missed")
                 ELSE Arm(m1)
       IN  Does(Op, IF sch.subscribed /\ master THEN Skipping(Here) ELSE Here)
    /\ UNCHANGED <<now, up, user>>

(* hydrate(), then start(): the listeners come after its pass.             *)
Boot ==
    /\ ~up
    /\ power.awake
    /\ up' = TRUE
    /\ LET m == [Here EXCEPT !.slots = db, !.sch.started = TRUE, !.sch.lastEnabled = master]
           Op(m1) == IF master THEN Reconcile(m1, "start", "skip-missed")
                     ELSE Normalized(m1, "start")
       IN  Does(Op, IF master THEN Skipping(m) ELSE m)
    /\ UNCHANGED <<now, power, user>>

Crash ==
    /\ up
    /\ Spend
    /\ up' = FALSE
    /\ user' = "idle"
    /\ power' = [power EXCEPT !.resume = FALSE]
    /\ Become([Here EXCEPT !.slots = [s \in Slots |-> Absent], !.sch = IdleScheduler,
                           !.replies = <<>>, !.deliveries = {},
                           !.hist.skip = {}, !.hist.skewed = {}])
    /\ UNCHANGED now

Clock ==
    /\ now < MaxTime
    /\ now' = now + 1
    /\ UNCHANGED <<power, up, user, budget, machine>>

(***************************************************************************)
(* The user. The panel is a lazily loaded tab: it is used after start().   *)
(***************************************************************************)
UserActs == Running /\ sch.subscribed /\ user = "idle"

(* A row edited or removed starts a new history; a delivery or a pass that *)
(* holds the old row will overwrite the copy of it.                        *)
Rewrite(m, edited, row, reply) ==
    [m EXCEPT !.db = [s \in Slots |-> IF s \in edited THEN row ELSE m.db[s]],
              !.replies = Append(@, reply),
              !.hist = [fate |-> [s \in Slots |-> IF s \in edited
                                                  THEN [t \in Times |-> "open"]
                                                  ELSE m.hist.fate[s]],
                        skip |-> {k \in m.hist.skip : k[1] \notin edited},
                        skewed |-> m.hist.skewed
                                   \cup {s \in edited : Outstanding(m, s)}]]

Save ==
    /\ UserActs
    /\ Spend
    /\ user' = "waiting"
    /\ \E s \in Slots, on \in BOOLEAN, rule \in Rules :
         LET row == Edited(on, rule, now)
         IN  Become(Rewrite(Here, {s}, row, [kind |-> "saved", slot |-> s, stored |-> row]))
    /\ UNCHANGED <<now, power, up>>

Remove ==
    /\ UserActs
    /\ Spend
    /\ user' = "waiting"
    /\ \E s \in Slots :
         /\ slots[s].here
         /\ Become(Rewrite(Here, {s}, Absent, [kind |-> "removed", slot |-> s]))
    /\ UNCHANGED <<now, power, up>>

(* Clear All Local Data: the switch first, then the table.                 *)
ClearAll ==
    /\ UserActs
    /\ Spend
    /\ user' = "clearing"
    /\ Become(Refresh([Here EXCEPT !.master = FALSE]))
    /\ UNCHANGED <<now, power, up>>

ClearTable ==
    /\ Running
    /\ user = "clearing"
    /\ user' = "waiting"
    /\ Become(Rewrite(Here, Slots, Absent, [kind |-> "cleared"]))
    /\ UNCHANGED <<now, power, up, budget>>

(* The store takes the reply over; the copies agree again, unless someone  *)
(* still holds an older row.                                               *)
TakesAllButDue(m, taken, row) ==  \* mutant: save() keeps the runtime fields
    Changed([m EXCEPT !.slots = [s \in Slots |->
        IF s \in taken THEN [row EXCEPT !.due = m.slots[s].due] ELSE m.slots[s]]])
Takes(m, taken, row) ==
    Changed([m EXCEPT
        !.slots = [s \in Slots |-> IF s \in taken THEN row ELSE m.slots[s]],
        !.hist.skewed = {s \in @ : s \notin taken \/ Outstanding(m, s)}])

UserAnswered(kind, taken, row) ==
    /\ Answer(kind)
    /\ user' = "idle"
    /\ LET Op(m) == Takes(m, taken, row) IN Does(Op, Received)
    /\ UNCHANGED <<now, power, up>>

Saved == replies # <<>> /\ UserAnswered("saved", {Head(replies).slot}, Head(replies).stored)
Removed == replies # <<>> /\ UserAnswered("removed", {Head(replies).slot}, Absent)
Cleared == UserAnswered("cleared", Slots, Absent)

(* Send now delivers the row as the store has it and writes its due time   *)
(* back; a due time on its way to the store is overwritten.                *)
SendNow ==
    /\ Running
    /\ sch.subscribed
    /\ master
    /\ ~sch.running
    /\ Spend
    /\ \E s \in Slots :
         /\ slots[s].here
         /\ LET row == Hold(Here, s)
            IN  Become([Here EXCEPT
                  !.sch.running = TRUE,
                  !.deliveries = @ \cup {[row |-> row, next |-> row.due,
                                          run |-> [NewRun(Here) EXCEPT !.sendNow = TRUE]]},
                  !.hist.skewed = @ \cup {t \in {s} : BeingStored(t) \/ Outstanding(Here, t)}])
    /\ UNCHANGED <<now, power, up, user>>

(* The master switch: the setting event calls refresh().                   *)
SetMaster ==
    /\ UserActs
    /\ Spend
    /\ Become(Refresh([Here EXCEPT !.master = ~master]))
    /\ UNCHANGED <<now, power, up, user>>

(* Any other setting changes.                                              *)
SettingChanged ==
    /\ Running
    /\ sch.subscribed
    /\ Len(replies) < MaxReplies
    /\ Does(Refresh, Here)
    /\ UNCHANGED <<now, power, up, user>>

Respond ==
    \/ FireClaimed \/ FireRefused \/ Recorded \/ MissClaimed \/ MissRefused
    \/ Missed \/ Filled \/ Saved \/ Removed \/ Cleared

Next ==
    \/ Respond \/ Delivered
    \/ TimerFires \/ IntervalFires \/ Sleep \/ Wake \/ PowerResume
    \/ Boot \/ Crash \/ Clock
    \/ Save \/ Remove \/ ClearAll \/ ClearTable \/ SendNow \/ SetMaster \/ SettingChanged

Spec == Init /\ [][Next]_vars

(***************************************************************************)
(* Properties.                                                             *)
(***************************************************************************)
(* "A single `running` flag serializes every fire and every Send now"      *)
(* (scheduler.ts:6): at most one delivery, or pass of a resume or of a     *)
(* run's end, has that flag. The passes of refresh() and of the start run  *)
(* without it, beside each other and beside a run, and are not counted.    *)
InRun(reply) ==
    \/ reply.kind \in {"fire", "sent"}
    \/ reply.kind \in {"miss", "missed", "filled"} /\ reply.pass.who \in {"resume", "finish"}

OneRun == Cardinality(deliveries) + Cardinality({i \in DOMAIN replies : InRun(replies[i])}) <= 1

(* At most once (scheduled-broadcasts.md, "claimDue advances next_due_at   *)
(* before transmit"): an occurrence of a saved row is claimed once, to be  *)
(* sent or to be marked missed, never both, crashes included.              *)
OneFate == \A s \in Slots, t \in Times : hist.fate[s][t] # "twice"

(* scheduler.ts:8-9: what is overdue when the scheduler starts, or when it *)
(* hears of a power resume, is never fired, whatever is running meanwhile. *)
ResumeSkips == ~ \E k \in hist.skip : hist.fate[k[1]][k[2]] = "fired"

(* The store's copy, by which the scheduler claims, is the table's row     *)
(* once nothing is on its way, except for a row edited while a run or a    *)
(* pass held it, or whose result could not be written.                     *)
Settled == up /\ replies = <<>> /\ deliveries = {} /\ user = "idle"
StoreMirrorsTable == Settled => \A s \in Slots \ hist.skewed : slots[s] = db[s]

(* No lost wake-up: with nothing under way, the timer is set for the       *)
(* earliest slot or is already due, after every order of edits, switches,  *)
(* runs, passes and sleeps.                                                *)
AlarmSet ==
    (up /\ sch.started /\ master /\ replies = <<>> /\ deliveries = {}) =>
        \A s \in Timely(Here) :
            /\ sch.timer # NoTimer
            /\ sch.timer <= slots[s].due \/ sch.timer <= now
=============================================================================
