---------------------------- MODULE MCAutoResend ----------------------------
(* Bounds for the instances: Reticulum has more to interleave on less, as  *)
(* each of its sends may add a row of the sidecar.                         *)
EXTENDS AutoResend

MCMaxIds == [p \in Protocols |-> IF p = "reticulum" THEN 3 ELSE 6]
MCMaxSends == [p \in Protocols |-> IF p = "reticulum" THEN 1 ELSE 2]
MCMaxUser == [p \in Protocols |-> 2]
=============================================================================
