-------------------------- MODULE MCSidecarManager --------------------------
(***************************************************************************)
(* Instance of SidecarManager: the Reticulum page and the GATT proxy.      *)
(***************************************************************************)
EXTENDS SidecarManager

CONSTANTS ui, ble

MCUsers == {ui, ble}
MCBleUsers == {ble}
=============================================================================
