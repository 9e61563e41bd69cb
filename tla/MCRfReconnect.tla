---------------------------- MODULE MCRfReconnect ----------------------------
(* Instances of RfReconnect for TLC. *)
EXTENDS RfReconnect
=============================================================================
