--------------------------- MODULE MCDataQueueSync ---------------------------
(***************************************************************************)
(* The data queue's flow control on a ring of a few words.                 *)
(***************************************************************************)
EXTENDS DataQueueSync

Answered0 == [items |-> <<>>, answered |-> TRUE]

Sends(items) == [items |-> items, answered |-> FALSE]

\* Commands with one blob, with several words at once, with no argument, and one
\* whose arguments can never be in the ring together.
MixedShapes ==
  {Answered0, Sends(<<>>), Sends(<<Blob(4)>>), Sends(<<Many(3)>>), Sends(<<Many(5), Many(5)>>)}

\* Commands that lap the ring quickly.
FewShapes == {Answered0, Sends(<<Blob(2)>>), Sends(<<Many(3)>>)}

==============================================================================
