---------------------------- MODULE MCPresentSync ----------------------------
(***************************************************************************)
(* Two threads that present a few frames.                                  *)
(***************************************************************************)
EXTENDS PresentSync
==============================================================================
