-------------------------- MODULE MCLockableBuffer --------------------------
(***************************************************************************)
(* Two resources with nested locks in a heap of a few places.              *)
(***************************************************************************)
EXTENDS LockableBuffer, TLC

CONSTANTS r1, r2

\* One resource is locked in every way, the other one discards whenever it is to be written.
AllFlags == (r1 :> SUBSET {"discard", "readonly"}) @@ (r2 :> {{"discard"}, {"readonly"}})
==============================================================================
