------------------------- MODULE TextSendLaneProofs -------------------------
(***************************************************************************)
(* Whatever passes, broadcasts and the composer do, the chains they share  *)
(* stay first-come first-served locks: every step of the lane is a step of *)
(* each chain or leaves it alone.                                          *)
(***************************************************************************)
EXTENDS TextSendLane, TLAPS

LockP == INSTANCE PromiseChainProofs WITH
    Calls <- Holders, Forgets <- TRUE,
    tail <- lTail, prev <- lPrev, phase <- lPhase, arrivals <- lArrivals

SlotP == INSTANCE PromiseChainProofs WITH
    Calls <- Texts, Forgets <- FALSE,
    tail <- sTail, prev <- sPrev, phase <- sPhase, arrivals <- sArrivals

(* The loops count the texts they have sent.                               *)
Counted == done \in [Senders -> Nat]

LEMMA LaneCounts == Spec => []Counted
<1>1. Init => Counted
  BY DEF Init, Counted
<1>2. ASSUME Counted, [Next]_vars
      PROVE  Counted'
  <2>1. CASE UNCHANGED done
    BY <1>2, <2>1 DEF Counted
  <2>2. ASSUME NEW t \in Texts, GiveSlot(t)
        PROVE  Counted'
    <3>1. Of(t) \in Senders
      BY DEF Of, Texts
    <3>2. QED
      BY <1>2, <2>2, <3>1 DEF GiveSlot, Counted
  <2>3. CASE UNCHANGED vars
    BY <2>1, <2>3 DEF vars
  <2>4. ASSUME NEW u \in Senders,
               AskSlot(u) \/ (u \in Holders /\ (AskLock(u) \/ LeaveLock(u) \/ TurnLock(u)))
        PROVE  UNCHANGED done
    BY <2>4 DEF AskSlot, AskLock, LeaveLock, TurnLock
  <2>5. ASSUME NEW t \in Texts,
               \/ TakeSlot(t) \/ Send(t) \/ SendThrows(t) \/ Acknowledged(t)
               \/ RowTimeout(t) \/ TurnSlot(t) \/ Written(t)
        PROVE  UNCHANGED done
    BY <2>5 DEF TakeSlot, Send, SendThrows, Acknowledged, RowTimeout, TurnSlot, Written
  <2>6. CASE Tick
    BY <2>1, <2>6 DEF Tick
  <2>7. Holders \subseteq Senders
    BY DEF Senders
  <2>8. QED
    BY <1>2, <2>1, <2>2, <2>3, <2>4, <2>5, <2>6, <2>7 DEF Next
<1>3. QED
  BY <1>1, <1>2, PTL DEF Spec

LEMMA LaneInit ==
    Init => /\ Lock!Init /\ Slot!Init
            /\ LockP!Init /\ SlotP!Init
BY DEF Init, Lock!Init, Slot!Init, LockP!Init, SlotP!Init

(* A step of the lane is a step of the drain lock, or leaves it alone.     *)
LEMMA LaneStepsLock == [Next]_vars => [LockP!Next]_(LockP!vars)
<1> SUFFICES ASSUME [Next]_vars
             PROVE  [LockP!Next]_(LockP!vars)
  OBVIOUS
<1>1. CASE UNCHANGED lockVars
  BY <1>1 DEF lockVars, LockP!vars
<1>2. ASSUME NEW u \in Holders,
             \/ Lock!Enter(u) \/ Lock!Begin(u) \/ Lock!End(u)
             \/ Lock!Settle(u) \/ Lock!Forget(u)
      PROVE  LockP!Next
  BY <1>2 DEF LockP!Next, Lock!Enter, Lock!Begin, Lock!End, Lock!Settle, Lock!Forget,
              Lock!Predecessor, Lock!Cleaned, Lock!Settled, Lock!Finished,
              LockP!Enter, LockP!Begin, LockP!End, LockP!Settle, LockP!Forget,
              LockP!Predecessor, LockP!Cleaned, LockP!Settled, LockP!Finished
<1>3. CASE UNCHANGED vars
  BY <1>1, <1>3 DEF vars
<1>4. ASSUME NEW u \in Holders, AskLock(u) \/ LeaveLock(u) \/ TurnLock(u)
      PROVE  LockP!Next
  BY <1>2, <1>4 DEF AskLock, LeaveLock, TurnLock
<1>5. ASSUME NEW u \in Senders, AskSlot(u)
      PROVE  UNCHANGED lockVars
  BY <1>5 DEF AskSlot
<1>6. ASSUME NEW t \in Texts,
             \/ TakeSlot(t) \/ Send(t) \/ SendThrows(t)
             \/ Acknowledged(t) \/ RowTimeout(t) \/ GiveSlot(t)
             \/ TurnSlot(t) \/ Written(t)
      PROVE  UNCHANGED lockVars
  BY <1>6 DEF TakeSlot, Send, SendThrows, Acknowledged, RowTimeout, GiveSlot,
              TurnSlot, Written
<1>7. CASE Tick
  BY <1>1, <1>7 DEF Tick
<1>8. QED
  BY <1>1, <1>3, <1>4, <1>5, <1>6, <1>7 DEF Next

(* A step of the lane is a step of the pacing chain, or leaves it alone.   *)
LEMMA LaneStepsSlot == Counted /\ [Next]_vars => [SlotP!Next]_(SlotP!vars)
<1> SUFFICES ASSUME Counted, [Next]_vars
             PROVE  [SlotP!Next]_(SlotP!vars)
  OBVIOUS
<1>1. CASE UNCHANGED slotVars
  BY <1>1 DEF slotVars, SlotP!vars
<1>2. ASSUME NEW t \in Texts,
             Slot!Enter(t) \/ Slot!Begin(t) \/ Slot!End(t) \/ Slot!Settle(t)
      PROVE  SlotP!Next
  BY <1>2 DEF SlotP!Next, Slot!Enter, Slot!Begin, Slot!End, Slot!Settle,
              Slot!Predecessor, Slot!Settled, Slot!Finished,
              SlotP!Enter, SlotP!Begin, SlotP!End, SlotP!Settle,
              SlotP!Predecessor, SlotP!Settled, SlotP!Finished
<1>3. CASE UNCHANGED vars
  BY <1>1, <1>3 DEF vars
<1>4. ASSUME NEW u \in Holders, AskLock(u) \/ LeaveLock(u) \/ TurnLock(u)
      PROVE  UNCHANGED slotVars
  BY <1>4 DEF AskLock, LeaveLock, TurnLock
<1>5. ASSUME NEW u \in Senders, AskSlot(u)
      PROVE  SlotP!Next
  <2>1. Slot!Enter(<<u, done[u] + 1>>)
    BY <1>5 DEF AskSlot
  <2>2. <<u, done[u] + 1>> \in Texts
    <3>1. done[u] \in Nat /\ Count[u] \in Nat /\ done[u] < Count[u]
      BY <1>5, LaneAssumption DEF AskSlot, Counted
    <3>2. done[u] + 1 \in 1..Count[u]
      BY <3>1
    <3>3. QED
      BY <3>2 DEF Texts
  <2>3. QED
    BY <2>1, <2>2, <1>2
<1>6. ASSUME NEW t \in Texts, TakeSlot(t) \/ GiveSlot(t) \/ TurnSlot(t)
      PROVE  SlotP!Next
  BY <1>2, <1>6 DEF TakeSlot, GiveSlot, TurnSlot
<1>7. ASSUME NEW t \in Texts,
             \/ Send(t) \/ SendThrows(t) \/ Acknowledged(t)
             \/ RowTimeout(t) \/ Written(t)
      PROVE  UNCHANGED slotVars
  BY <1>7 DEF Send, SendThrows, Acknowledged, RowTimeout, Written
<1>8. CASE Tick
  BY <1>1, <1>8 DEF Tick
<1>9. QED
  BY <1>1, <1>3, <1>4, <1>5, <1>6, <1>7, <1>8 DEF Next

LEMMA LaneMaps == Spec => LockP!Spec /\ SlotP!Spec
BY LaneInit, LaneCounts, LaneStepsLock, LaneStepsSlot, PTL
   DEF Spec, LockP!Spec, SlotP!Spec

LEMMA LaneConstants == LockP!ChainAssumption /\ SlotP!ChainAssumption
BY LaneAssumption DEF LockP!ChainAssumption, SlotP!ChainAssumption

(***************************************************************************)
(* The drain lock and the pacing chain, driven by the lane, implement a    *)
(* first-come first-served lock (withChatOutboxDrainLock and               *)
(* withMeshtasticTextSendPacing as drainChatOutboxOnce, deliverToTarget    *)
(* and the composer call them).                                            *)
(***************************************************************************)
THEOREM LaneChains == Spec => ChainsAreLocks
<1>1. (LockP!Spec => LockP!ImplementsLock) /\ (SlotP!Spec => SlotP!ImplementsLock)
  BY LaneConstants, LockP!ChainIsLock, SlotP!ChainIsLock
<1>2. Spec => LockP!Spec /\ SlotP!Spec
  BY LaneMaps
<1>3. LockP!ImplementsLock => Lock!ImplementsLock
  <2>1. LockP!Lock!Init => Lock!Lock!Init
    BY DEF LockP!Lock!Init, Lock!Lock!Init, LockP!Stage, Lock!Stage
  <2>2. [LockP!Lock!Next]_(LockP!Lock!vars) => [Lock!Lock!Next]_(Lock!Lock!vars)
    BY DEF LockP!Lock!Next, Lock!Lock!Next, LockP!Lock!vars, Lock!Lock!vars,
           LockP!Lock!Request, Lock!Lock!Request, LockP!Lock!Grant, Lock!Lock!Grant,
           LockP!Lock!Release, Lock!Lock!Release, LockP!Lock!Before, Lock!Lock!Before,
           LockP!Stage, Lock!Stage
  <2>3. QED
    BY <2>1, <2>2, PTL DEF LockP!ImplementsLock, Lock!ImplementsLock,
                           LockP!Lock!Spec, Lock!Lock!Spec
<1>4. SlotP!ImplementsLock => Slot!ImplementsLock
  <2>1. SlotP!Lock!Init => Slot!Lock!Init
    BY DEF SlotP!Lock!Init, Slot!Lock!Init, SlotP!Stage, Slot!Stage
  <2>2. [SlotP!Lock!Next]_(SlotP!Lock!vars) => [Slot!Lock!Next]_(Slot!Lock!vars)
    BY DEF SlotP!Lock!Next, Slot!Lock!Next, SlotP!Lock!vars, Slot!Lock!vars,
           SlotP!Lock!Request, Slot!Lock!Request, SlotP!Lock!Grant, Slot!Lock!Grant,
           SlotP!Lock!Release, Slot!Lock!Release, SlotP!Lock!Before, Slot!Lock!Before,
           SlotP!Stage, Slot!Stage
  <2>3. QED
    BY <2>1, <2>2, PTL DEF SlotP!ImplementsLock, Slot!ImplementsLock,
                           SlotP!Lock!Spec, Slot!Lock!Spec
<1>5. QED
  BY <1>1, <1>2, <1>3, <1>4, PTL DEF ChainsAreLocks

(* What the theorems about one chain say of the two.                       *)
ChainFact ==
    /\ LockP!TypeOK /\ LockP!Lock!MutualExclusion
    /\ SlotP!TypeOK /\ SlotP!Lock!MutualExclusion

LEMMA ChainFacts == Spec => []ChainFact
<1>1. /\ LockP!Spec => []LockP!IInv
      /\ SlotP!Spec => []SlotP!IInv
      /\ LockP!Spec => []LockP!Lock!MutualExclusion
      /\ SlotP!Spec => []SlotP!Lock!MutualExclusion
  BY LaneConstants, LockP!Invariance, SlotP!Invariance, LockP!OneAtATime, SlotP!OneAtATime
<1>2. (LockP!IInv => LockP!TypeOK) /\ (SlotP!IInv => SlotP!TypeOK)
  BY DEF LockP!IInv, SlotP!IInv
<1>3. QED
  BY <1>1, <1>2, LaneMaps, PTL DEF ChainFact

(* A holder of the drain lock gives it back only outside a slot.           *)
SlotUnderLock ==
    \A t \in Texts :
        Of(t) \in Holders /\ sPhase[t] \in {"waiting", "running"}
            => lPhase[Of(t)] = "running"

LEMMA LaneSlotUnderLock ==
    ASSUME LockP!TypeOK, SlotP!TypeOK, SlotUnderLock, [Next]_vars
    PROVE  SlotUnderLock'
<1>1. lPhase \in [Holders -> LockP!Phases] /\ sPhase \in [Texts -> SlotP!Phases]
  BY DEF LockP!TypeOK, SlotP!TypeOK
<1>2. CASE UNCHANGED <<lPhase, sPhase>>
  BY <1>2 DEF SlotUnderLock
<1>3. CASE UNCHANGED vars
  BY <1>2, <1>3 DEF vars, lockVars, slotVars
<1>4. ASSUME NEW u \in Holders, AskLock(u) \/ TurnLock(u)
      PROVE  SlotUnderLock'
  <2>1. sPhase' = sPhase
    BY <1>4 DEF AskLock, TurnLock, slotVars
  <2>2. \A v \in Holders : lPhase[v] = "running" => lPhase'[v] = "running"
    BY <1>1, <1>4 DEF AskLock, TurnLock, Lock!Enter, Lock!Begin, Lock!Settle, Lock!Forget
  <2>3. QED
    BY <2>1, <2>2 DEF SlotUnderLock
<1>5. ASSUME NEW u \in Holders, LeaveLock(u)
      PROVE  SlotUnderLock'
  <2>1. sPhase' = sPhase /\ lPhase' = [lPhase EXCEPT ![u] = "ended"]
    BY <1>5 DEF LeaveLock, slotVars, Lock!End
  <2>2. \A t \in Texts : Of(t) = u => sPhase[t] \notin {"waiting", "running"}
    BY <1>5 DEF LeaveLock, MayReturn, InSlot
  <2>3. QED
    BY <1>1, <2>1, <2>2 DEF SlotUnderLock
<1>6. ASSUME NEW u \in Senders, AskSlot(u)
      PROVE  SlotUnderLock'
  <2>1. /\ lPhase' = lPhase
        /\ sPhase' = [sPhase EXCEPT ![<<u, done[u] + 1>>] = "waiting"]
        /\ u \in Holders => lPhase[u] = "running"
    BY <1>6 DEF AskSlot, lockVars, Slot!Enter
  <2>2. ASSUME NEW t \in Texts, Of(t) \in Holders, sPhase'[t] \in {"waiting", "running"}
        PROVE  lPhase'[Of(t)] = "running"
    <3>1. CASE t = <<u, done[u] + 1>>
      BY <3>1, <2>1, <2>2 DEF Of
    <3>2. CASE t # <<u, done[u] + 1>>
      <4>1. sPhase'[t] = sPhase[t]
        BY <3>2, <2>1, <1>1
      <4>2. QED
        BY <4>1, <2>1, <2>2 DEF SlotUnderLock
    <3>3. QED
      BY <3>1, <3>2
  <2>3. QED
    BY <2>2 DEF SlotUnderLock
<1>7. ASSUME NEW t \in Texts, TakeSlot(t) \/ GiveSlot(t) \/ TurnSlot(t)
      PROVE  SlotUnderLock'
  <2>1. lPhase' = lPhase
    BY <1>7 DEF TakeSlot, GiveSlot, TurnSlot, lockVars
  <2>2. \A s \in Texts : sPhase'[s] \in {"waiting", "running"}
                            => sPhase[s] \in {"waiting", "running"}
    BY <1>1, <1>7 DEF TakeSlot, GiveSlot, TurnSlot, Slot!Begin, Slot!End, Slot!Settle
  <2>3. QED
    BY <2>1, <2>2 DEF SlotUnderLock
<1>8. ASSUME NEW t \in Texts,
             \/ Send(t) \/ SendThrows(t) \/ Acknowledged(t)
             \/ RowTimeout(t) \/ Written(t)
      PROVE  SlotUnderLock'
  BY <1>2, <1>8 DEF Send, SendThrows, Acknowledged, RowTimeout, Written, lockVars, slotVars
<1>9. CASE Tick
  BY <1>2, <1>9 DEF Tick, lockVars, slotVars
<1>10. QED
  BY <1>3, <1>4, <1>5, <1>6, <1>7, <1>8, <1>9 DEF Next

(***************************************************************************)
(* The texts of two passes, or of a pass and a broadcast, never stand in   *)
(* the pacing queue together: the drain loop awaits every slot it asks     *)
(* for, and the drain lock excludes the other holders meanwhile.           *)
(***************************************************************************)
THEOREM OneHolder == Spec => []OneHolderQueued
<1>1. Spec => [](LockP!TypeOK /\ SlotP!TypeOK /\ LockP!Lock!MutualExclusion)
  BY ChainFacts, PTL DEF ChainFact
<1>2. Init => SlotUnderLock
  BY DEF Init, Slot!Init, SlotUnderLock
<1>3. ASSUME SlotUnderLock, LockP!Lock!MutualExclusion
      PROVE  OneHolderQueued
  <2> SUFFICES ASSUME NEW u \in Holders, NEW v \in Holders, InSlot(u), InSlot(v)
               PROVE  u = v
    BY DEF OneHolderQueued
  <2>1. lPhase[u] = "running" /\ lPhase[v] = "running"
    BY <1>3 DEF InSlot, SlotUnderLock
  <2>2. LockP!Stage[u] = "holding" /\ LockP!Stage[v] = "holding"
    BY <2>1 DEF LockP!Stage
  <2>3. QED
    BY <1>3, <2>2 DEF LockP!Lock!MutualExclusion
<1>4. QED
  BY <1>1, <1>2, <1>3, LaneSlotUnderLock, PTL DEF Spec

(***************************************************************************)
(* The gap.  The wait of a text in its slot and the time since the last    *)
(* stamp add up to the gap, because no other sender can stamp meanwhile;   *)
(* and outside a send the last text was handed over before the stamp.      *)
(***************************************************************************)
SpacingInv ==
    /\ since \in 0..Gap /\ sinceStart \in 0..Gap
    /\ left \in [Texts -> Nat]
    /\ step \in [Texts -> {"none", "gap", "awaiting", "returned"}]
    /\ \A t \in Texts : step[t] # "none" => sPhase[t] = "running"
    /\ \A t \in Texts : step[t] = "gap" => since + left[t] >= Gap
    /\ (\A t \in Texts : step[t] \in {"none", "gap"}) => since <= sinceStart

(* Only the text that holds the slot is on its way.                        *)
LEMMA OneOnItsWay ==
    ASSUME SpacingInv, ChainFact,
           NEW s \in Texts, NEW t \in Texts, step[s] # "none", sPhase[t] = "running"
    PROVE  s = t
<1>1. sPhase[s] = "running"
  BY DEF SpacingInv
<1>2. SlotP!Stage[s] = "holding" /\ SlotP!Stage[t] = "holding"
  BY <1>1 DEF SlotP!Stage
<1>3. QED
  BY <1>2 DEF ChainFact, SlotP!Lock!MutualExclusion

LEMMA SpacingStep ==
    ASSUME SpacingInv, ChainFact, ChainFact', [Next]_vars
    PROVE  SpacingInv'
<1>0. Gap \in Nat /\ sPhase \in [Texts -> SlotP!Phases]
  BY LaneAssumption DEF ChainFact, SlotP!TypeOK
<1>1. CASE UNCHANGED <<sPhase, step, left, clocks>>
  BY <1>1 DEF SpacingInv, clocks
<1>2. CASE UNCHANGED vars
  BY <1>1, <1>2 DEF vars, slotVars, clocks
<1>3. ASSUME NEW u \in Holders, AskLock(u) \/ LeaveLock(u) \/ TurnLock(u)
      PROVE  SpacingInv'
  BY <1>1, <1>3 DEF AskLock, LeaveLock, TurnLock, slotVars
<1>4. ASSUME NEW u \in Senders, AskSlot(u)
      PROVE  SpacingInv'
  <2>1. /\ UNCHANGED <<step, left, clocks>>
        /\ \A t \in Texts : sPhase[t] = "running" => sPhase'[t] = "running"
    BY <1>0, <1>4 DEF AskSlot, Slot!Enter
  <2>2. QED
    BY <2>1 DEF SpacingInv, clocks
<1>5. ASSUME NEW t \in Texts, TurnSlot(t)
      PROVE  SpacingInv'
  <2>1. /\ UNCHANGED <<step, left, clocks>>
        /\ \A s \in Texts : sPhase[s] = "running" => sPhase'[s] = "running"
    BY <1>0, <1>5 DEF TurnSlot, Slot!Settle
  <2>2. QED
    BY <2>1 DEF SpacingInv, clocks
<1>6. ASSUME NEW t \in Texts, TakeSlot(t)
      PROVE  SpacingInv'
  <2>1. /\ sPhase' = [sPhase EXCEPT ![t] = "running"]
        /\ step' = [step EXCEPT ![t] = "gap"]
        /\ left' = [left EXCEPT ![t] = Gap - since]
        /\ since' = since /\ sinceStart' = sinceStart
    BY <1>6 DEF TakeSlot, Slot!Begin, clocks
  <2>2. Gap - since \in Nat /\ since + (Gap - since) >= Gap
    BY <1>0 DEF SpacingInv
  <2>3. step[t] = "none"
    <3>1. step[t] # "none" => sPhase[t] = "running"
      BY DEF SpacingInv
    <3>2. sPhase[t] = "waiting"
      BY <1>6 DEF TakeSlot, Slot!Begin
    <3>3. QED
      BY <3>1, <3>2
  <2>4. (\A s \in Texts : step'[s] \in {"none", "gap"})
            => \A s \in Texts : step[s] \in {"none", "gap"}
    BY <2>1, <2>3 DEF SpacingInv
  <2>5. QED
    BY <1>0, <2>1, <2>2, <2>4 DEF SpacingInv
<1>7. ASSUME NEW t \in Texts, Send(t) \/ SendThrows(t)
      PROVE  SpacingInv'
  <2>1. /\ step[t] = "gap"
        /\ UNCHANGED <<sPhase, left, since>>
        /\ sinceStart' \in {0, sinceStart}
        /\ \/ step' = [step EXCEPT ![t] = "awaiting"]
           \/ step' = [step EXCEPT ![t] = "returned"]
    BY <1>7 DEF Send, SendThrows, slotVars, clocks
  <2>2. step'[t] \notin {"none", "gap"}
    BY <2>1 DEF SpacingInv
  <2>3. QED
    BY <1>0, <2>1, <2>2 DEF SpacingInv
<1>8. ASSUME NEW t \in Texts, Acknowledged(t) \/ RowTimeout(t)
      PROVE  SpacingInv'
  <2>1. /\ step[t] = "awaiting"
        /\ UNCHANGED <<sPhase, left, since, sinceStart>>
        /\ step' = [step EXCEPT ![t] = "returned"]
    BY <1>8 DEF Acknowledged, RowTimeout, Watched, slotVars, clocks
  <2>2. step'[t] \notin {"none", "gap"}
    BY <2>1 DEF SpacingInv
  <2>3. QED
    BY <1>0, <2>1, <2>2 DEF SpacingInv
<1>9. ASSUME NEW t \in Texts, GiveSlot(t)
      PROVE  SpacingInv'
  <2>1. /\ step[t] = "returned"
        /\ sPhase[t] = "running"
        /\ sPhase' = [sPhase EXCEPT ![t] = "ended"]
        /\ step' = [step EXCEPT ![t] = "none"]
        /\ since' = 0
        /\ UNCHANGED <<left, sinceStart>>
    BY <1>9 DEF GiveSlot, Slot!End, Stamp
  <2>2. \A s \in Texts : s # t => step[s] = "none"
    BY <2>1, OneOnItsWay
  <2>3. QED
    BY <1>0, <2>1, <2>2 DEF SpacingInv
<1>10. ASSUME NEW t \in Texts, Written(t)
       PROVE  SpacingInv'
  BY <1>1, <1>10 DEF Written, slotVars
<1>11. CASE Tick
  <2>1. /\ UNCHANGED <<sPhase, step>>
        /\ since' = Later(since) /\ sinceStart' = Later(sinceStart)
        /\ left' = [t \in Texts |-> IF left[t] > 0 THEN left[t] - 1 ELSE 0]
    BY <1>11 DEF Tick, slotVars
  <2>2. /\ since' \in 0..Gap /\ sinceStart' \in 0..Gap
        /\ since <= sinceStart => since' <= sinceStart'
        /\ \A n \in Nat : since + n >= Gap
              => since' + (IF n > 0 THEN n - 1 ELSE 0) >= Gap
    BY <1>0, <2>1 DEF SpacingInv, Later
  <2>3. left' \in [Texts -> Nat]
    BY <2>1 DEF SpacingInv
  <2>4. \A t \in Texts : step'[t] = "gap" => since' + left'[t] >= Gap
    <3> SUFFICES ASSUME NEW t \in Texts, step[t] = "gap"
                 PROVE  since' + left'[t] >= Gap
      BY <2>1
    <3>1. left[t] \in Nat /\ since + left[t] >= Gap
      BY DEF SpacingInv
    <3>2. QED
      BY <3>1, <2>1, <2>2
  <2>5. QED
    BY <2>1, <2>2, <2>3, <2>4 DEF SpacingInv
<1>12. QED
  BY <1>2, <1>3, <1>4, <1>5, <1>6, <1>7, <1>8, <1>9, <1>10, <1>11 DEF Next

LEMMA Spacing == Spec => []SpacingInv
<1>1. Init => SpacingInv
  BY LaneAssumption DEF Init, SpacingInv
<1>2. QED
  BY <1>1, SpacingStep, ChainFacts, PTL DEF Spec

(***************************************************************************)
(* Whichever paced senders they come from, two texts are handed to the SDK *)
(* at least MESHTASTIC_TEXT_CHUNK_SEND_INTERVAL_MS apart                   *)
(* (withMeshtasticTextSendPacing). Senders that take no slot have no part  *)
(* in it.                                                                  *)
(***************************************************************************)
THEOREM Spaced == Spec => SendSpacing
<1>1. ASSUME SpacingInv, ChainFact, [Next]_vars
      PROVE  [\A t \in Texts : t \in air' \ air => sinceStart = Gap]_vars
  <2> SUFFICES ASSUME Next, NEW t \in Texts, t \in air' \ air
               PROVE  sinceStart = Gap
    BY <1>1
  <2>1. Send(t)
    <3>1. \A u \in Holders : ~(AskLock(u) \/ LeaveLock(u) \/ TurnLock(u))
      BY DEF AskLock, LeaveLock, TurnLock
    <3>2. \A u \in Senders : ~AskSlot(u)
      BY DEF AskSlot
    <3>3. \A s \in Texts :
            ~(\/ TakeSlot(s) \/ SendThrows(s) \/ Acknowledged(s) \/ RowTimeout(s)
              \/ GiveSlot(s) \/ TurnSlot(s) \/ Written(s))
      BY DEF TakeSlot, SendThrows, Acknowledged, RowTimeout, GiveSlot, TurnSlot, Written
    <3>4. ~Tick
      BY DEF Tick
    <3>5. PICK s \in Texts : Send(s)
      BY <3>1, <3>2, <3>3, <3>4 DEF Next
    <3>6. s = t
      BY <3>5 DEF Send
    <3>7. QED
      BY <3>5, <3>6
  <2>2. step[t] = "gap" /\ left[t] = 0
    BY <2>1 DEF Send
  <2>3. sPhase[t] = "running" /\ since + 0 >= Gap
    BY <1>1, <2>2 DEF SpacingInv
  <2>4. \A s \in Texts : step[s] \in {"none", "gap"}
    BY <1>1, <2>2, <2>3, OneOnItsWay
  <2>5. since <= sinceStart
    BY <1>1, <2>4 DEF SpacingInv
  <2>6. QED
    BY <1>1, <2>3, <2>5, LaneAssumption DEF SpacingInv
<1>2. QED
  BY <1>1, Spacing, ChainFacts, PTL DEF Spec, SendSpacing
=============================================================================
