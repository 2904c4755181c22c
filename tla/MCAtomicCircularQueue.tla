----------------------- MODULE MCAtomicCircularQueue -----------------------
(* The command queue on a small ring. *)
EXTENDS AtomicCircularQueue
=============================================================================
