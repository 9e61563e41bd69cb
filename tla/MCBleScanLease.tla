--------------------------- MODULE MCBleScanLease ---------------------------
(***************************************************************************)
(* Instance of BleScanLease: two LoRa operations, two scans of the picker  *)
(* (one that was closed and one after it), two recoveries.                 *)
(***************************************************************************)
EXTENDS BleScanLease

CONSTANTS connect, lora_scan, scan1, scan2, rec1, rec2

MCOps == {connect, lora_scan}
MCScans == {scan1, scan2}
MCRecoveries == {rec1, rec2}
=============================================================================
