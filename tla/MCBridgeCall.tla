---------------------------- MODULE MCBridgeCall ----------------------------
(***************************************************************************)
(* Two threads of the application that call the server a few times.        *)
(***************************************************************************)
EXTENDS BridgeCall
==============================================================================
