------------------------ MODULE MCScheduledBroadcasts ------------------------
(* Values for the instances of the scheduled broadcasts.                   *)
EXTENDS ScheduledBroadcasts

\* A rule with a short period, so that occurrences pile up.
MCRules == {[every |-> 2, at |-> 0]}

\* Every slot holds an enabled row saved at time 1; or the first is disabled.
MCAllOn == [s \in 1..SlotCount |-> Edited(TRUE, SomeRule, 1)]
MCFirstOff == [MCAllOn EXCEPT ![1] = Edited(FALSE, SomeRule, 1)]
MCStored == {MCAllOn, MCFirstOff}
=============================================================================
