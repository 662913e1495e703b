---------------------------- MODULE MCDeviceBurst ----------------------------
(***************************************************************************)
(* DeviceBurst for TLC: bursts that fit, that the ingress queue takes only *)
(* in part, and that the pool has too few operations for.                  *)
(***************************************************************************)
EXTENDS DeviceBurst
=============================================================================
