---------------------------- MODULE TextSendLane ----------------------------
(***************************************************************************)
(* How the senders of Meshtastic text share one radio: the composition of  *)
(* the two promise chains.                                                 *)
(*                                                                         *)
(*   drain lock   one function at a time per protocol: outbox passes       *)
(*                (drainChatOutboxOnce) and broadcast targets              *)
(*                (deliverToTarget)                                        *)
(*   pacing slot  one text at a time, and a gap after it: every row of a   *)
(*                pass, every broadcast text, and the composer's own texts *)
(*                                                                         *)
(* A pass or a broadcast asks for slots while it holds the lock; the       *)
(* composer asks for slots alone, and so do signal reports and Incident    *)
(* Command's live acknowledgements. Resends (manual or automatic),         *)
(* reactions, MECP rebroadcasts and the TAK relay take no slot and are not *)
(* in the lane. Time is kept as ticks since an event, which stop mattering *)
(* after Gap ticks.                                                        *)
(***************************************************************************)
EXTENDS Naturals, Sequences, FiniteSets

CONSTANTS
    Passes,         \* outbox passes
    Targets,        \* broadcast targets, each delivered under the lock
    Composers,      \* live sends: a message of one or more chunks
    Count,          \* texts of each sender
    Acked,          \* texts whose slot also waits for a network acknowledgement
    Gap,            \* MESHTASTIC_TEXT_CHUNK_SEND_INTERVAL_MS, in ticks
    None

Holders == Passes \cup Targets
Senders == Holders \cup Composers

\* The k-th text of sender u; each is one call of withMeshtasticTextSendPacing.
Texts == UNION {{<<u, k>> : k \in 1..Count[u]} : u \in Senders}
Of(t) == t[1]

ASSUME LaneAssumption ==
    /\ Passes \cap Targets = {} /\ Holders \cap Composers = {}
    /\ Count \in [Senders -> Nat]
    /\ Acked \subseteq {t \in Texts : Of(t) \in Passes}
    /\ Gap \in Nat
    /\ None \notin Holders \cup Texts

VARIABLES
    lTail, lPrev, lPhase, lArrivals,    \* drainLocks
    sTail, sPrev, sPhase, sArrivals,    \* meshtasticTextSendChain
    done,       \* [Senders -> Nat]: texts whose slot has been given back
    step,       \* where the holder of a slot stands
    left,       \* ticks left of the wait computed when the slot was granted
    since,      \* ticks since lastMeshtasticTextSendAtMs
    air,        \* texts handed to the SDK whose write has not finished
    sinceStart  \* history: ticks since a text was last handed to the SDK

lockVars == <<lTail, lPrev, lPhase, lArrivals>>
slotVars == <<sTail, sPrev, sPhase, sArrivals>>
clocks   == <<since, sinceStart>>
vars == <<lockVars, slotVars, done, step, left, air, clocks>>

Lock == INSTANCE PromiseChain WITH
    Calls <- Holders, Forgets <- TRUE,
    tail <- lTail, prev <- lPrev, phase <- lPhase, arrivals <- lArrivals

Slot == INSTANCE PromiseChain WITH
    Calls <- Texts, Forgets <- FALSE,
    tail <- sTail, prev <- sPrev, phase <- sPhase, arrivals <- sArrivals

Init ==
    /\ Lock!Init
    /\ Slot!Init
    /\ done = [u \in Senders |-> 0]
    /\ step = [t \in Texts |-> "none"]
    /\ left = [t \in Texts |-> 0]
    /\ air = {}
    /\ since = Gap /\ sinceStart = Gap

\* The loop of u awaits each of its texts before it goes on.
InSlot(u) == \E t \in Texts : Of(t) = u /\ sPhase[t] \in {"waiting", "running"}

MayReturn(u) == ~InSlot(u)

Unstamped == since          \* mutant: no stamp in the finally block
Stamp == 0                  \* lastMeshtasticTextSendAtMs = Date.now()

Unwatched(t) == FALSE       \* mutant: no row watchdog
Watched(t) == step[t] = "awaiting"

-----------------------------------------------------------------------------
(* Senders. *)

\* drainChatOutboxOnce or deliverToTarget is called.
AskLock(u) ==
    /\ Lock!Enter(u)
    /\ UNCHANGED <<slotVars, done, step, left, air, clocks>>

\* The next row, target or chunk asks for its slot.
AskSlot(u) ==
    /\ u \in Holders => lPhase[u] = "running"
    /\ ~InSlot(u)
    /\ done[u] < Count[u]
    /\ Slot!Enter(<<u, done[u] + 1>>)
    /\ UNCHANGED <<lockVars, done, step, left, air, clocks>>

\* The function under the lock returns: all texts sent, the radio gone, or
\* (a broadcast) the message settled or its settlement timed out.
LeaveLock(u) ==
    /\ MayReturn(u)
    /\ Lock!End(u)
    /\ UNCHANGED <<slotVars, done, step, left, air, clocks>>

-----------------------------------------------------------------------------
(* The slot: run() in withMeshtasticTextSendPacing. *)

\* Granted: compute the wait from the last stamp.
TakeSlot(t) ==
    /\ Slot!Begin(t)
    /\ step' = [step EXCEPT ![t] = "gap"]
    /\ left' = [left EXCEPT ![t] = Gap - since]
    /\ UNCHANGED <<lockVars, done, air, clocks>>

(***************************************************************************)
(* send().  The runtime's sendMessage returns the message's id as soon as  *)
(* it has started the SDK's write, so the write goes on after the slot.    *)
(* An emergency row also waits for its acknowledgement before it returns.  *)
(***************************************************************************)
Send(t) ==
    /\ step[t] = "gap"
    /\ left[t] = 0
    /\ step' = [step EXCEPT ![t] = IF t \in Acked THEN "awaiting" ELSE "returned"]
    /\ air' = air \cup {t}
    /\ sinceStart' = 0
    /\ UNCHANGED <<lockVars, slotVars, done, left, since>>

\* send() throws before it reaches the SDK: not connected.
SendThrows(t) ==
    /\ step[t] = "gap"
    /\ left[t] = 0
    /\ step' = [step EXCEPT ![t] = "returned"]
    /\ UNCHANGED <<lockVars, slotVars, done, left, air, clocks>>

Acknowledged(t) ==
    /\ step[t] = "awaiting"
    /\ step' = [step EXCEPT ![t] = "returned"]
    /\ UNCHANGED <<lockVars, slotVars, done, left, air, clocks>>

\* withOutboxDrainRowTimeout gives the row up; the write is not cancelled.
RowTimeout(t) ==
    /\ Watched(t)
    /\ step' = [step EXCEPT ![t] = "returned"]
    /\ UNCHANGED <<lockVars, slotVars, done, left, air, clocks>>

\* The finally block stamps the completion, whatever the outcome.
GiveSlot(t) ==
    /\ step[t] = "returned"
    /\ Slot!End(t)
    /\ step' = [step EXCEPT ![t] = "none"]
    /\ since' = Stamp
    /\ done' = [done EXCEPT ![Of(t)] = @ + 1]
    /\ UNCHANGED <<lockVars, left, air, sinceStart>>

-----------------------------------------------------------------------------
(* The runtime, the clock and the SDK. *)

\* Reactions of the two chains that run no sender's code.
TurnLock(u) ==
    /\ Lock!Begin(u) \/ Lock!Settle(u) \/ Lock!Forget(u)
    /\ UNCHANGED <<slotVars, done, step, left, air, clocks>>

TurnSlot(t) ==
    /\ Slot!Settle(t)
    /\ UNCHANGED <<lockVars, done, step, left, air, clocks>>

Later(n) == IF n < Gap THEN n + 1 ELSE n

Tick ==
    /\ since' = Later(since)
    /\ sinceStart' = Later(sinceStart)
    /\ left' = [t \in Texts |-> IF left[t] > 0 THEN left[t] - 1 ELSE 0]
    /\ UNCHANGED <<lockVars, slotVars, done, step, air>>

\* sendText's promise settles: the write is over.
Written(t) ==
    /\ t \in air
    /\ air' = air \ {t}
    /\ UNCHANGED <<lockVars, slotVars, done, step, left, clocks>>

Next ==
    \/ \E u \in Holders : AskLock(u) \/ LeaveLock(u) \/ TurnLock(u)
    \/ \E u \in Senders : AskSlot(u)
    \/ \E t \in Texts :
        \/ TakeSlot(t) \/ Send(t) \/ SendThrows(t)
        \/ Acknowledged(t) \/ RowTimeout(t) \/ GiveSlot(t)
        \/ TurnSlot(t) \/ Written(t)
    \/ Tick

(***************************************************************************)
(* The runtime runs its reactions, timers fire (the gap, the row watchdog, *)
(* the settlement timeout), and a sender that got its turn goes on.  No    *)
(* acknowledgement, no end of a write and no new call is assumed.          *)
(***************************************************************************)
Fairness ==
    /\ WF_vars(Tick)
    /\ \A u \in Holders : WF_vars(TurnLock(u)) /\ WF_vars(LeaveLock(u))
    /\ \A t \in Texts :
        /\ WF_vars(TakeSlot(t)) /\ WF_vars(GiveSlot(t)) /\ WF_vars(TurnSlot(t))
        /\ WF_vars(Send(t) \/ SendThrows(t))
        /\ WF_vars(RowTimeout(t))

Spec == Init /\ [][Next]_vars /\ Fairness

-----------------------------------------------------------------------------
(* Properties. *)

(***************************************************************************)
(* Two paced texts are never handed to the radio within the gap, whichever *)
(* of the paced senders they come from: the wait is computed when the slot *)
(* is granted, from a stamp no other paced sender can move meanwhile       *)
(* (meshtasticTextSendPacing.ts, "two waiters cannot both pass the gap     *)
(* check and hit the radio inside the firmware rate-limit window").        *)
(***************************************************************************)
SendSpacing ==
    [][\A t \in Texts : t \in air' \ air => sinceStart = Gap]_vars

(***************************************************************************)
(* The two chains stay locks whatever their users do with them: a function *)
(* runs only when those of all earlier calls have ended, although a holder *)
(* of the drain lock queues on the pacing chain, and although the drain    *)
(* lock forgets its tail (chatOutboxDrain.ts, "Callers queue behind the    *)
(* in-flight drain").                                                      *)
(***************************************************************************)
ChainsAreLocks == Lock!ImplementsLock /\ Slot!ImplementsLock

(***************************************************************************)
(* Texts of two passes, or of a pass and a broadcast, never stand in the   *)
(* pacing queue together: a pass is still in the table's rows until its    *)
(* last text is through, and the next one lists the table again            *)
(* (chatOutboxDrain.ts, "Callers queue behind the in-flight drain and must *)
(* re-list rows from SQLite once they hold the lock").                     *)
(***************************************************************************)
OneHolderQueued == \A u, v \in Holders : InSlot(u) /\ InSlot(v) => u = v

(***************************************************************************)
(* Nobody waits for ever: whoever asks for the lock gets it and whoever    *)
(* asks for a slot gets it, although holders of the lock wait for slots,   *)
(* and although no acknowledgement need ever come.                         *)
(***************************************************************************)
EveryoneServed ==
    /\ \A u \in Holders : lPhase[u] = "waiting" ~> lPhase[u] = "running"
    /\ \A t \in Texts : sPhase[t] = "waiting" ~> sPhase[t] = "running"
=============================================================================
