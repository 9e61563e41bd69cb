------------------------- MODULE PromiseChainProofs -------------------------
(***************************************************************************)
(* A promise chain is a first-come first-served lock, for any number of    *)
(* calls: proofs about PromiseChain.                                       *)
(***************************************************************************)
EXTENDS PromiseChain, TLAPS

USE DEF ChainAssumption

-----------------------------------------------------------------------------
(***************************************************************************)
(* The inductive invariant.                                                *)
(***************************************************************************)
(* A call is in the order of arrival once, from the moment it is made.     *)
OrderInv ==
    /\ \A i, j \in DOMAIN arrivals : arrivals[i] = arrivals[j] => i = j
    /\ \A c \in Calls : phase[c] # "idle" <=> \E i \in DOMAIN arrivals : arrivals[i] = c

(* The tail is the latest call; no tail means that all calls have settled. *)
TailInv ==
    /\ tail # None => /\ Len(arrivals) > 0
                      /\ tail = arrivals[Len(arrivals)]
    /\ tail = None => \A i \in DOMAIN arrivals : Settled(arrivals[i])

(* A call is chained to the one before it, or all before it have settled.    *)
LinkInv ==
    \A i \in DOMAIN arrivals :
        \/ prev[arrivals[i]] = None /\ \A j \in 1..(i-1) : Settled(arrivals[j])
        \/ i > 1 /\ prev[arrivals[i]] = arrivals[i-1]

(* A call that has begun has only settled calls before it.                   *)
TurnInv ==
    \A i \in DOMAIN arrivals :
        Begun(arrivals[i]) => \A j \in 1..(i-1) : Settled(arrivals[j])

IInv == TypeOK /\ OrderInv /\ TailInv /\ LinkInv /\ TurnInv

-----------------------------------------------------------------------------
LEMMA InitInv == ASSUME ChainAssumption PROVE Init => IInv
BY ChainAssumption
   DEF Init, IInv, TypeOK, OrderInv, TailInv, LinkInv, TurnInv, Phases

(* A new call goes behind the tail.                                        *)
LEMMA EnterInv ==
    ASSUME ChainAssumption, IInv, NEW c \in Calls, Enter(c)
    PROVE  IInv'
<1> DEFINE n == Len(arrivals)
<1>1. /\ arrivals \in Seq(Calls)
      /\ n \in Nat
      /\ arrivals' = Append(arrivals, c)
      /\ DOMAIN arrivals = 1..n
      /\ DOMAIN arrivals' = 1..(n + 1)
      /\ Len(arrivals') = n + 1
      /\ \A i \in 1..n : arrivals'[i] = arrivals[i] /\ arrivals[i] \in Calls
      /\ arrivals'[n + 1] = c
  BY DEF IInv, TypeOK, Enter, Predecessor
<1>2. TypeOK'
  BY ChainAssumption DEF IInv, TypeOK, Enter, Predecessor, Phases
<1>3. \A i \in 1..n : arrivals[i] # c
  BY <1>1 DEF IInv, OrderInv, Enter, Predecessor
<1>4. /\ phase'[c] = "waiting"
      /\ prev'[c] = tail
      /\ tail' = c
      /\ \A d \in Calls \ {c} : phase'[d] = phase[d] /\ prev'[d] = prev[d]
  BY DEF IInv, TypeOK, Enter, Predecessor
<1> HIDE DEF n
<1>5. OrderInv'
  <2>1. \A i, j \in DOMAIN arrivals' : arrivals'[i] = arrivals'[j] => i = j
    BY <1>1, <1>3 DEF IInv, OrderInv
  <2>2. ASSUME NEW d \in Calls
        PROVE  phase'[d] # "idle" <=> \E i \in DOMAIN arrivals' : arrivals'[i] = d
    <3>1. CASE d = c
      <4>1. n + 1 \in DOMAIN arrivals'
        BY <1>1
      <4>2. QED
        BY <3>1, <4>1, <1>1, <1>4
    <3>2. CASE d # c
      <4>1. (\E i \in DOMAIN arrivals : arrivals[i] = d)
               <=> (\E i \in DOMAIN arrivals' : arrivals'[i] = d)
        BY <3>2, <1>1
      <4>2. QED
        BY <3>2, <4>1, <1>4 DEF IInv, OrderInv
    <3>3. QED
      BY <3>1, <3>2
  <2>3. QED
    BY <2>1, <2>2 DEF OrderInv
<1>6. TailInv'
  BY <1>1, <1>4, ChainAssumption DEF TailInv
<1>7. ASSUME NEW i \in 1..n
      PROVE  /\ Settled(arrivals[i])' <=> Settled(arrivals[i])
             /\ Begun(arrivals[i])' <=> Begun(arrivals[i])
             /\ prev'[arrivals'[i]] = prev[arrivals[i]]
             /\ arrivals'[i] = arrivals[i]
  BY <1>1, <1>3, <1>4 DEF Settled, Finished, Begun
<1>8. LinkInv'
  <2> SUFFICES ASSUME NEW i \in 1..(n + 1)
               PROVE  \/ /\ prev'[arrivals'[i]] = None
                         /\ \A j \in 1..(i-1) : Settled(arrivals[j])'
                      \/ i > 1 /\ prev'[arrivals'[i]] = arrivals'[i-1]
    BY <1>1 DEF LinkInv
  <2>1. CASE i \in 1..n
    <3>1. \A j \in 1..(i-1) : j \in 1..n
      BY <2>1, <1>1
    <3>2. i > 1 => i - 1 \in 1..n
      BY <2>1, <1>1
    <3>3. QED
      <4>1. \/ prev[arrivals[i]] = None /\ \A j \in 1..(i-1) : Settled(arrivals[j])
            \/ i > 1 /\ prev[arrivals[i]] = arrivals[i-1]
        BY <2>1, <1>1 DEF IInv, LinkInv
      <4>2. QED
        BY <2>1, <3>1, <3>2, <4>1, <1>7
  <2>2. CASE i = n + 1
    <3>1. CASE tail = None
      <4>1. \A j \in 1..n : Settled(arrivals[j])
        BY <3>1, <1>1 DEF IInv, TailInv, Settled
      <4>2. \A j \in 1..(i-1) : j \in 1..n
        BY <2>2, <1>1
      <4>3. QED
        BY <2>2, <3>1, <4>1, <4>2, <1>1, <1>4, <1>7
    <3>2. CASE tail # None
      <4>1. n > 0 /\ tail = arrivals[n]
        BY <3>2 DEF IInv, TailInv, n
      <4>2. n \in 1..n /\ i > 1 /\ i - 1 = n
        BY <4>1, <2>2, <1>1
      <4>3. QED
        BY <4>1, <4>2, <2>2, <1>1, <1>4
    <3>3. QED
      BY <3>1, <3>2
  <2>3. QED
    BY <2>1, <2>2, <1>1
<1>9. TurnInv'
  <2> SUFFICES ASSUME NEW i \in 1..(n + 1), Begun(arrivals[i])',
                      NEW j \in 1..(i-1)
               PROVE  Settled(arrivals[j])'
    BY <1>1 DEF TurnInv
  <2>1. CASE i \in 1..n
    <3>1. j \in 1..n
      BY <2>1, <1>1
    <3>2. Begun(arrivals[i]) /\ Settled(arrivals[j])
      BY <2>1, <1>1, <1>7 DEF IInv, TurnInv
    <3>3. QED
      BY <3>1, <3>2, <1>7
  <2>2. CASE i = n + 1
    BY <2>2, <1>1, <1>4 DEF Begun, Finished, Settled
  <2>3. QED
    BY <2>1, <2>2, <1>1
<1>10. QED
  BY <1>2, <1>5, <1>6, <1>8, <1>9 DEF IInv

(* A call that begins has its predecessor's end behind it.                 *)
LEMMA BeginInv ==
    ASSUME ChainAssumption, IInv, NEW c \in Calls, Begin(c)
    PROVE  IInv'
<1>1. TypeOK'
  BY DEF IInv, TypeOK, Begin, Phases
<1>2. /\ arrivals' = arrivals /\ prev' = prev /\ tail' = tail
      /\ phase[c] = "waiting" /\ phase'[c] = "running"
      /\ \A d \in Calls \ {c} : phase'[d] = phase[d]
      /\ \A i \in DOMAIN arrivals : arrivals[i] \in Calls
      /\ DOMAIN arrivals = 1..Len(arrivals) /\ Len(arrivals) \in Nat
  BY DEF IInv, TypeOK, Begin
<1>3. \A d \in Calls : /\ Settled(d)' <=> Settled(d)
                       /\ d # c => (Begun(d)' <=> Begun(d))
  BY <1>2 DEF Settled, Finished, Begun
<1>4. OrderInv' /\ TailInv' /\ LinkInv'
  <2>1. OrderInv'
    BY <1>2 DEF IInv, OrderInv
  <2>2. TailInv'
    BY <1>2, <1>3 DEF IInv, TailInv
  <2>3. LinkInv'
    <3> SUFFICES ASSUME NEW i \in DOMAIN arrivals
                 PROVE  \/ /\ prev[arrivals[i]] = None
                           /\ \A j \in 1..(i-1) : Settled(arrivals[j])'
                        \/ i > 1 /\ prev[arrivals[i]] = arrivals[i-1]
      BY <1>2 DEF LinkInv
    <3>1. \A j \in 1..(i-1) : arrivals[j] \in Calls
      BY <1>2
    <3>2. QED
      BY <3>1, <1>2, <1>3 DEF IInv, LinkInv
  <2>4. QED
    BY <2>1, <2>2, <2>3
<1>5. TurnInv'
  <2> SUFFICES ASSUME NEW i \in DOMAIN arrivals, Begun(arrivals[i])',
                      NEW j \in 1..(i-1)
               PROVE  Settled(arrivals[j])
    <3>1. \A i \in DOMAIN arrivals : \A j \in 1..(i-1) : arrivals[j] \in Calls
      BY <1>2
    <3>2. QED
      BY <3>1, <1>2, <1>3 DEF TurnInv
  <2>1. CASE arrivals[i] # c
    BY <2>1, <1>2, <1>3 DEF IInv, TurnInv
  <2>2. CASE arrivals[i] = c /\ prev[c] = None
    <3>1. ~(i > 1 /\ prev[arrivals[i]] = arrivals[i-1])
      BY <2>2, <1>2, ChainAssumption
    <3>2. QED
      BY <2>2, <3>1 DEF IInv, LinkInv
  <2>3. CASE arrivals[i] = c /\ prev[c] # None
    <3>1. i > 1 /\ prev[c] = arrivals[i-1] /\ i - 1 \in DOMAIN arrivals
      BY <2>3, <1>2 DEF IInv, LinkInv
    <3>2. Settled(arrivals[i-1])
      BY <3>1, <2>3 DEF Begin
    <3>3. Begun(arrivals[i-1])
      BY <3>2 DEF Settled, Finished, Begun
    <3>4. \A k \in 1..(i-2) : Settled(arrivals[k])
      BY <3>1, <3>3, <1>2 DEF IInv, TurnInv
    <3>5. j = i - 1 \/ j \in 1..(i-2)
      BY <1>2
    <3>6. QED
      BY <3>2, <3>4, <3>5
  <2>4. QED
    BY <2>1, <2>2, <2>3
<1>6. QED
  BY <1>1, <1>4, <1>5 DEF IInv

(* What ends, settles or is forgotten stays ended.                         *)
LEMMA LeaveInv ==
    ASSUME ChainAssumption, IInv, NEW c \in Calls, End(c) \/ Settle(c) \/ Forget(c)
    PROVE  IInv'
<1>1. TypeOK'
  BY DEF IInv, TypeOK, End, Settle, Forget, Cleaned, Phases
<1>2. /\ arrivals' = arrivals /\ prev' = prev
      /\ phase[c] # "idle" /\ phase'[c] # "idle"
      /\ \A d \in Calls \ {c} : phase'[d] = phase[d]
      /\ \A i \in DOMAIN arrivals : arrivals[i] \in Calls
      /\ DOMAIN arrivals = 1..Len(arrivals) /\ Len(arrivals) \in Nat
  BY DEF IInv, TypeOK, End, Settle, Forget, Cleaned
<1>3. \A d \in Calls : /\ Settled(d) => Settled(d)'
                       /\ Begun(d)' => Begun(d)
  BY DEF IInv, TypeOK, End, Settle, Forget, Cleaned, Settled, Finished, Begun
<1>4. OrderInv'
  BY <1>2 DEF IInv, OrderInv
<1>5. TailInv'
  <2>1. CASE tail' = tail
    BY <2>1, <1>2, <1>3 DEF IInv, TailInv
  <2>2. CASE tail' # tail
    <3>1. Forget(c) /\ tail = c /\ tail' = None /\ phase'[c] = "gone"
      BY <2>2 DEF End, Settle, Forget, Cleaned, IInv, TypeOK
    <3>2. Len(arrivals) > 0 /\ arrivals[Len(arrivals)] = c /\ Len(arrivals) \in DOMAIN arrivals
      BY <3>1, <1>2, ChainAssumption DEF IInv, TailInv
    <3>3. \A j \in DOMAIN arrivals : arrivals[j] = c \/ Settled(arrivals[j])
      <4>1. Begun(c)
        BY <3>1 DEF Forget, Cleaned, Begun, Finished
      <4>2. \A j \in 1..(Len(arrivals) - 1) : Settled(arrivals[j])
        BY <4>1, <3>2 DEF IInv, TurnInv
      <4>3. QED
        BY <4>2, <3>2, <1>2
    <3>4. \A j \in DOMAIN arrivals : Settled(arrivals[j])'
      BY <3>1, <3>3, <1>2, <1>3 DEF Settled
    <3>5. QED
      BY <3>1, <3>4, <1>2 DEF TailInv
  <2>3. QED
    BY <2>1, <2>2
<1>6. LinkInv' /\ TurnInv'
  <2>1. \A i \in DOMAIN arrivals : \A j \in 1..(i-1) : arrivals[j] \in Calls
    BY <1>2
  <2>2. LinkInv'
    <3> SUFFICES ASSUME NEW i \in DOMAIN arrivals
                 PROVE  \/ /\ prev[arrivals[i]] = None
                           /\ \A j \in 1..(i-1) : Settled(arrivals[j])'
                        \/ i > 1 /\ prev[arrivals[i]] = arrivals[i-1]
      BY <1>2 DEF LinkInv
    <3>1. QED
      BY <2>1, <1>2, <1>3 DEF IInv, LinkInv
  <2>3. TurnInv'
    <3> SUFFICES ASSUME NEW i \in DOMAIN arrivals, Begun(arrivals[i])',
                        NEW j \in 1..(i-1)
                 PROVE  Settled(arrivals[j])'
      BY <1>2 DEF TurnInv
    <3>1. Begun(arrivals[i])
      BY <1>2, <1>3
    <3>2. QED
      BY <3>1, <2>1, <1>2, <1>3 DEF IInv, TurnInv
  <2>4. QED
    BY <2>2, <2>3
<1>7. QED
  BY <1>1, <1>4, <1>5, <1>6 DEF IInv

LEMMA NextInv == ASSUME ChainAssumption PROVE IInv /\ [Next]_vars => IInv'
<1> SUFFICES ASSUME IInv, [Next]_vars
             PROVE  IInv'
  OBVIOUS
<1>1. CASE UNCHANGED vars
  BY <1>1 DEF IInv, TypeOK, OrderInv, TailInv, LinkInv, TurnInv,
              Settled, Begun, Finished, vars
<1>2. ASSUME NEW c \in Calls, Enter(c) PROVE IInv'
  BY <1>2, EnterInv, ChainAssumption
<1>3. ASSUME NEW c \in Calls, Begin(c) PROVE IInv'
  BY <1>3, BeginInv, ChainAssumption
<1>4. ASSUME NEW c \in Calls, End(c) \/ Settle(c) \/ Forget(c) PROVE IInv'
  BY <1>4, LeaveInv, ChainAssumption
<1>5. QED
  BY <1>1, <1>2, <1>3, <1>4 DEF Next

LEMMA Invariance == ASSUME ChainAssumption PROVE Spec => []IInv
BY InitInv, NextInv, PTL DEF Spec

-----------------------------------------------------------------------------
(***************************************************************************)
(* The drain lock forgets its tail only when nothing is queued or running  *)
(* (the clean-up in withChatOutboxDrainLock).                              *)
(***************************************************************************)
THEOREM ForgetsWhenEmpty == ASSUME ChainAssumption PROVE Spec => []EmptyWhenForgotten
<1>1. ASSUME IInv, tail = None, NEW c \in Calls, phase[c] # "idle"
      PROVE  Settled(c)
  <2>1. PICK i \in DOMAIN arrivals : arrivals[i] = c
    BY <1>1 DEF IInv, OrderInv
  <2>2. Settled(arrivals[i])
    BY <1>1 DEF IInv, TailInv
  <2>3. QED
    BY <2>1, <2>2
<1>2. IInv => EmptyWhenForgotten
  BY <1>1 DEF EmptyWhenForgotten
<1>3. QED
  BY <1>2, Invariance, PTL

(***************************************************************************)
(* withChatOutboxDrainLock and withMeshtasticTextSendPacing implement a    *)
(* first-come first-served lock.                                           *)
(***************************************************************************)
THEOREM ChainIsLock == ASSUME ChainAssumption PROVE Spec => ImplementsLock
<1>1. ASSUME Init
      PROVE  Lock!Init
  <2>1. \A c \in Calls : phase[c] = "idle"
    BY <1>1 DEF Init
  <2>2. Stage = [c \in Calls |-> "idle"]
    BY <2>1 DEF Stage
  <2>3. QED
    BY <2>2, <1>1 DEF Init, Lock!Init
<1>2. ASSUME IInv, [Next]_vars
      PROVE  [Lock!Next]_(Lock!vars)
  <2>1. ASSUME UNCHANGED Stage, UNCHANGED arrivals
        PROVE  [Lock!Next]_(Lock!vars)
    BY <2>1 DEF Lock!vars
  <2>2. CASE UNCHANGED vars
    BY <2>1, <2>2 DEF vars, Stage
  <2>3. ASSUME NEW c \in Calls, Enter(c)
        PROVE  Lock!Request(c)
    <3>1. Stage[c] = "idle"
      BY <2>3 DEF Enter, Predecessor, Stage
    <3>2. Stage' = [Stage EXCEPT ![c] = "waiting"]
      BY <2>3, <1>2 DEF Enter, Predecessor, Stage, IInv, TypeOK
    <3>3. QED
      BY <2>3, <3>1, <3>2 DEF Enter, Predecessor, Lock!Request
  <2>4. ASSUME NEW c \in Calls, Begin(c)
        PROVE  Lock!Grant(c)
    <3>1. Stage[c] = "waiting"
      BY <2>4 DEF Begin, Stage
    <3>2. Stage' = [Stage EXCEPT ![c] = "holding"]
      BY <2>4, <1>2 DEF Begin, Stage, IInv, TypeOK
    <3>3. ASSUME NEW d \in Calls, Lock!Before(d, c)
          PROVE  Stage[d] = "done"
      <4>1. PICK i, j \in DOMAIN arrivals : i < j /\ arrivals[i] = d /\ arrivals[j] = c
        BY <3>3 DEF Lock!Before
      <4>2. Begun(c)'
        BY <2>4, <1>2 DEF Begin, Begun, IInv, TypeOK
      <4>3. IInv' /\ arrivals' = arrivals
        BY <2>4, <1>2, BeginInv DEF Begin
      <4>4. i \in 1..(j-1)
        BY <4>1, <1>2 DEF IInv, TypeOK
      <4>5. Settled(d)'
        BY <4>1, <4>2, <4>3, <4>4 DEF IInv, TurnInv
      <4>6. Settled(d)
        BY <4>5, <2>4, <1>2 DEF Begin, Settled, IInv, TypeOK
      <4>7. QED
        BY <4>6 DEF Settled, Stage
    <3>4. QED
      BY <2>4, <3>1, <3>2, <3>3 DEF Begin, Lock!Grant
  <2>5. ASSUME NEW c \in Calls, End(c)
        PROVE  Lock!Release(c)
    <3>1. Stage[c] = "holding"
      BY <2>5 DEF End, Stage
    <3>2. Stage' = [Stage EXCEPT ![c] = "done"]
      BY <2>5, <1>2 DEF End, Stage, IInv, TypeOK
    <3>3. QED
      BY <2>5, <3>1, <3>2 DEF End, Lock!Release
  <2>6. ASSUME NEW c \in Calls, Settle(c) \/ Forget(c)
        PROVE  UNCHANGED Stage /\ UNCHANGED arrivals
    BY <2>6, <1>2 DEF Settle, Forget, Cleaned, Stage, IInv, TypeOK
  <2>7. QED
    BY <1>2, <2>1, <2>2, <2>3, <2>4, <2>5, <2>6 DEF Next, Lock!Next
<1>3. QED
  BY <1>1, <1>2, Invariance, PTL DEF Spec, ImplementsLock, Lock!Spec

(***************************************************************************)
(* Two functions on one chain never run together: two drains never send    *)
(* the same row, two texts never pass the pacing gap together.             *)
(***************************************************************************)
THEOREM OneAtATime == ASSUME ChainAssumption PROVE Spec => []Lock!MutualExclusion
<1>1. ASSUME IInv, NEW c \in Calls, NEW d \in Calls,
             phase[c] = "running", phase[d] = "running"
      PROVE  c = d
  <2>1. PICK i, j \in DOMAIN arrivals : arrivals[i] = c /\ arrivals[j] = d
    BY <1>1 DEF IInv, OrderInv
  <2>2. DOMAIN arrivals = 1..Len(arrivals) /\ Len(arrivals) \in Nat
    BY <1>1 DEF IInv, TypeOK
  <2>3. ~(i < j)
    BY <2>1, <2>2, <1>1 DEF IInv, TurnInv, Begun, Settled
  <2>4. ~(j < i)
    BY <2>1, <2>2, <1>1 DEF IInv, TurnInv, Begun, Settled
  <2>5. QED
    BY <2>1, <2>2, <2>3, <2>4
<1>2. IInv => Lock!MutualExclusion
  <2>1. \A c \in Calls : Stage[c] = "holding" => phase[c] = "running"
    BY DEF Stage
  <2>2. QED
    BY <1>1, <2>1 DEF Lock!MutualExclusion
<1>3. QED
  BY <1>2, Invariance, PTL
=============================================================================
