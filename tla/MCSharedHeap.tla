---------------------------- MODULE MCSharedHeap ----------------------------
(***************************************************************************)
(* The shared heap with a few chunks in two or three segments.             *)
(***************************************************************************)
EXTENDS SharedHeap

MCSizes == 1 .. 3
==============================================================================
