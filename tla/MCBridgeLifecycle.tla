-------------------------- MODULE MCBridgeLifecycle --------------------------
(***************************************************************************)
(* One application that sends two commands, and a server whose forced end  *)
(* comes after two sleeps.                                                 *)
(***************************************************************************)
EXTENDS BridgeLifecycle
==============================================================================
