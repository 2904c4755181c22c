------------------------------ MODULE DataQueue ------------------------------
(***************************************************************************)
(* The data queue of a bridge channel: a ring of 32-bit words in shared    *)
(* memory that carries the arguments of the commands                       *)
(* (bridge/src/util/util_circularqueue.h, util_circularbuffer.h).  The     *)
(* writer and the reader each keep a position of their own and nothing in  *)
(* the ring says where the other one is: that both go through the same     *)
(* positions is a property of the arithmetic of this module.               *)
(*                                                                         *)
(* What a command sends is a sequence of items: a word (send_data, and     *)
(* also a null pointer, which sends the size 0), several words at once     *)
(* (send_many), or a blob of n words after a word that holds its size.     *)
(***************************************************************************)
EXTENDS Integers, Sequences

CONSTANT TotalSize      \* words in the ring (m_size)

ASSUME TotalSizeAssumption == TotalSize \in Nat \ {0}

Pos == 0 .. TotalSize - 1

Many(n) == [kind |-> "many", words |-> n]
Blob(n) == [kind |-> "blob", words |-> n]
Word    == Many(1)

\* The items that fit the ring.  A larger blob ends the process (ensure_space),
\* but for one of exactly TotalSize words, which no command sends.
Item == {Many(n) : n \in 1 .. TotalSize} \cup {Blob(n) : n \in 1 .. TotalSize - 1}

\* One word on.
Pop(pos) == IF pos + 1 < TotalSize THEN pos + 1 ELSE 0

\* Mutant of PushMany: the bulk copy may end at the end of the ring.
PushMany_ToTheEnd(pos, n) ==
  IF TotalSize - pos >= n THEN pos + n ELSE (pos + n) % TotalSize

\* push_many: in one piece if the words fit before the last one of the ring,
\* else word by word.
PushMany(pos, n) ==
  IF TotalSize - pos > n THEN pos + n ELSE (pos + n) % TotalSize

\* Where a blob whose size word has been passed begins: blobs are contiguous.
EnsureSpace(pos, n) == IF pos + n >= TotalSize THEN 0 ELSE pos

PushBlob(pos, n) == EnsureSpace(Pop(pos), n) + n

\* The writer's position after the item.
PushItem(pos, item) ==
  IF item.kind = "blob" THEN PushBlob(pos, item.words) ELSE PushMany(pos, item.words)

\* The positions an item pushed at pos is written to.
Written(pos, item) ==
  IF item.kind = "blob"
  THEN LET first == EnsureSpace(Pop(pos), item.words)
       IN  {pos} \cup (first .. first + item.words - 1)
  ELSE {(pos + i) % TotalSize : i \in 0 .. item.words - 1}

\* The memory syncDataQueue is told the item needs.
MemUsage(item) == IF item.kind = "blob" THEN item.words + 1 ELSE item.words

\* Mutant of PullItem: the reader does not start a blob over.
PullItem_InPlace(pos, item) ==
  IF item.kind = "blob" THEN (Pop(pos) + item.words) % TotalSize ELSE Pop(pos)

\* The reader pulls the words of a send_many one at a time, and a blob at once.
PullItem(pos, item) ==
  IF item.kind = "blob" THEN EnsureSpace(Pop(pos), item.words) + item.words ELSE Pop(pos)

\* What is left of an item after a pull.
LeftOf(item) ==
  IF item.kind = "many" /\ item.words > 1 THEN <<Many(item.words - 1)>> ELSE <<>>
==============================================================================
