--------------------------- MODULE MCTextSendLane ---------------------------
(***************************************************************************)
(* Instance of TextSendLane: an outbox pass with an emergency row and a    *)
(* plain one, a broadcast target and a live text of the composer.          *)
(***************************************************************************)
EXTENDS TextSendLane

MCCount == [u \in {"pass", "target", "live"} |-> IF u = "pass" THEN 2 ELSE 1]
MCAcked == {<<"pass", 1>>}
=============================================================================
