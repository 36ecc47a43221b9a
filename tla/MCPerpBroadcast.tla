---------------------------- MODULE MCPerpBroadcast ----------------------------
(***************************************************************************)
(* Small instances of PerpBroadcast.  The cfg files give the intents as    *)
(* model values; they are not interchangeable (Cosigned tells them apart), *)
(* so no symmetry is declared.                                             *)
(***************************************************************************)
EXTENDS PerpBroadcast
================================================================================
