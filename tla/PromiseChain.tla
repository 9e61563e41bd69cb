---------------------------- MODULE PromiseChain ----------------------------
(***************************************************************************)
(* The promise chains that serialise chat work in the renderer:            *)
(* withChatOutboxDrainLock (chatOutboxDrain.ts), one chain per protocol,   *)
(* and withMeshtasticTextSendPacing (meshtasticTextSendPacing.ts).         *)
(*                                                                         *)
(* A call reads the promise at the tail of the chain, hangs its function   *)
(* on it, and puts its own `settled` promise at the tail.  Nothing counts  *)
(* the callers and nothing wakes the next one up: the order, the mutual    *)
(* exclusion and the liveness of the lock all rest on each call having     *)
(* chained itself to the right predecessor, and on `settled` resolving     *)
(* whether the function succeeds or throws.  The drain lock moreover       *)
(* forgets a chain that has run empty; the pacing chain keeps its tail.    *)
(***************************************************************************)
EXTENDS Naturals, Sequences

CONSTANTS
    Calls,      \* the calls ever made, each with an identity of its own
    None,       \* Promise.resolve(), the predecessor of a call on an empty chain
    Forgets     \* the chain drops its tail once it has settled (drain lock)

\* What the theorems ask of an instance's constants.
ChainAssumption == None \notin Calls

VARIABLES
    tail,       \* the call whose `settled` promise ends the chain, or None
    prev,       \* the call each call was chained to when it was made
    phase,      \* where each call stands
    arrivals    \* history: the calls in the order they were made

vars == <<tail, prev, phase, arrivals>>

(***************************************************************************)
(* "waiting": fn is a reaction of the predecessor's promise. "running": fn *)
(* is between its first statement and its last. "ended": the promise of fn *)
(* is resolved or rejected, `settled` not yet. "settled": `settled` is     *)
(* resolved, its clean-up reaction not yet run.  "gone": clean-up ran.     *)
(***************************************************************************)
Phases == {"idle", "waiting", "running", "ended", "settled", "gone"}

TypeOK ==
    /\ tail \in Calls \cup {None}
    /\ prev \in [Calls -> Calls \cup {None}]
    /\ phase \in [Calls -> Phases]
    /\ arrivals \in Seq(Calls)

Finished(c) == phase[c] \in {"ended", "settled", "gone"}
Settled(c)  == phase[c] \in {"settled", "gone"}
Begun(c)    == phase[c] = "running" \/ Finished(c)

Init ==
    /\ tail = None
    /\ prev = [c \in Calls |-> None]
    /\ phase = [c \in Calls |-> "idle"]
    /\ arrivals = <<>>

NoPredecessor(c) == None    \* mutant: the tail is not read

\* drainLocks.get(protocol) ?? Promise.resolve()
Predecessor(c) == tail

\* if (drainLocks.get(protocol) === settled) drainLocks.delete(protocol)
Cleaned(c) == IF tail = c THEN None ELSE tail

\* The synchronous part of a call: read the tail, chain on it, become the tail.
Enter(c) ==
    /\ phase[c] = "idle"
    /\ prev' = [prev EXCEPT ![c] = Predecessor(c)]
    /\ tail' = c
    /\ phase' = [phase EXCEPT ![c] = "waiting"]
    /\ arrivals' = Append(arrivals, c)

\* The predecessor's promise is resolved: the runtime calls fn.
Begin(c) ==
    /\ phase[c] = "waiting"
    /\ prev[c] # None => Settled(prev[c])
    /\ phase' = [phase EXCEPT ![c] = "running"]
    /\ UNCHANGED <<tail, prev, arrivals>>

\* fn's promise resolves or rejects.
End(c) ==
    /\ phase[c] = "running"
    /\ phase' = [phase EXCEPT ![c] = "ended"]
    /\ UNCHANGED <<tail, prev, arrivals>>

\* Both handlers of `settled` map the outcome to undefined: it always resolves.
Settle(c) ==
    /\ phase[c] = "ended"
    /\ phase' = [phase EXCEPT ![c] = "settled"]
    /\ UNCHANGED <<tail, prev, arrivals>>

\* Clean-up: forget the chain, unless a later call has become its tail.
Forget(c) ==
    /\ Forgets
    /\ phase[c] = "settled"
    /\ tail' = Cleaned(c)
    /\ phase' = [phase EXCEPT ![c] = "gone"]
    /\ UNCHANGED <<prev, arrivals>>

Next == \E c \in Calls : Enter(c) \/ Begin(c) \/ End(c) \/ Settle(c) \/ Forget(c)

\* Which reactions the runtime owes a call is said where a chain is used.
Spec == Init /\ [][Next]_vars

-----------------------------------------------------------------------------
(* The lock a chain implements. *)

Stage == [c \in Calls |->
            CASE phase[c] \in {"idle", "waiting"} -> phase[c]
              [] phase[c] = "running" -> "holding"
              [] OTHER -> "done"]

Lock == INSTANCE FifoLock WITH stage <- Stage

(***************************************************************************)
(* The chain is a first-come first-served lock: a function starts only     *)
(* when the functions of all earlier calls have ended                      *)
(* (chatOutboxDrain.ts, "Callers queue behind the in-flight drain").       *)
(***************************************************************************)
ImplementsLock == Lock!Spec

(***************************************************************************)
(* A chain that forgets its tail forgets it only when nothing is queued or *)
(* running: a call made just then would otherwise run beside them.         *)
(***************************************************************************)
EmptyWhenForgotten == tail = None => \A c \in Calls : phase[c] = "idle" \/ Settled(c)
=============================================================================
