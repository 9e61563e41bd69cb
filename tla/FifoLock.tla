------------------------------ MODULE FifoLock ------------------------------
(***************************************************************************)
(* What a promise chain promises its callers: a lock granted in order of   *)
(* arrival.  `arrivals` is the order in which the calls were made and      *)
(* stage[c] where call c stands.  A call is granted the lock only when     *)
(* every call that arrived before it has given it back.                    *)
(***************************************************************************)
EXTENDS Naturals, Sequences

CONSTANT Calls

VARIABLES arrivals, stage

vars == <<arrivals, stage>>

\* d arrived before c.
Before(d, c) ==
    \E i, j \in DOMAIN arrivals : i < j /\ arrivals[i] = d /\ arrivals[j] = c

Init ==
    /\ arrivals = <<>>
    /\ stage = [c \in Calls |-> "idle"]

Request(c) ==
    /\ stage[c] = "idle"
    /\ arrivals' = Append(arrivals, c)
    /\ stage' = [stage EXCEPT ![c] = "waiting"]

Grant(c) ==
    /\ stage[c] = "waiting"
    /\ \A d \in Calls : Before(d, c) => stage[d] = "done"
    /\ stage' = [stage EXCEPT ![c] = "holding"]
    /\ UNCHANGED arrivals

Release(c) ==
    /\ stage[c] = "holding"
    /\ stage' = [stage EXCEPT ![c] = "done"]
    /\ UNCHANGED arrivals

Next == \E c \in Calls : Request(c) \/ Grant(c) \/ Release(c)

Spec == Init /\ [][Next]_vars

\* Two calls never hold the lock together.
MutualExclusion ==
    \A c, d \in Calls : stage[c] = "holding" /\ stage[d] = "holding" => c = d
=============================================================================
