--------------------------- MODULE MCDlfgPresenter ---------------------------
(***************************************************************************)
(* Two back buffers, as for a swap chain with one, and a few frames.       *)
(***************************************************************************)
EXTENDS DlfgPresenter
==============================================================================
