------------------------------- MODULE Sstack -------------------------------
(***************************************************************************)
(* The sorted stack behind the priority queues (courier/utils/prque):      *)
(* items in blocks of BlockSize slots, and the sift operations of Go's     *)
(* container/heap on it.  A stack is a record: blocks, the number of the   *)
(* active block, offset in it, size.  Nobody in the courier sets a         *)
(* setIndex callback or calls Remove or Reset.                             *)
(***************************************************************************)
EXTENDS Integers, Sequences, SequencesExt

CONSTANTS BlockSize,  \* 4096 in the code
          Width,      \* 2^64: priorities count modulo Width
          Nil

ASSUME SizeAssumption == BlockSize \in Nat \ {0} /\ Width \in Nat \ {0} /\ Width % 2 = 0

NewBlock == [o \in 0..(BlockSize - 1) |-> Nil]

New == [blocks |-> <<NewBlock>>, active |-> 1, offset |-> 0, size |-> 0]

Capacity(s) == Len(s.blocks) * BlockSize

(* The slot of index i: s.blocks[i/blockSize][i%blockSize].                *)
At(s, i) == s.blocks[(i \div BlockSize) + 1][i % BlockSize]
Put(s, i, item) == [s EXCEPT !.blocks[(i \div BlockSize) + 1][i % BlockSize] = item]

(* The difference of two priorities as an int64.                           *)
Wrapped(n) == ((n + (Width \div 2)) % Width) - (Width \div 2)

Less(s, i, j) == Wrapped(At(s, i).priority - At(s, j).priority) > 0

Swap(s, i, j) == Put(Put(s, i, At(s, j)), j, At(s, i))

(* The stack with room for one more item at its offset.                    *)
Expanded(s) ==
  IF s.size = Capacity(s)
  THEN [s EXCEPT !.blocks = Append(@, NewBlock), !.active = Len(s.blocks) + 1, !.offset = 0]
  ELSE IF s.offset = BlockSize
  THEN [s EXCEPT !.active = (s.size \div BlockSize) + 1, !.offset = 0]
  ELSE s

StackPush(s, item) ==
  LET e == Expanded(s) IN
    [e EXCEPT !.blocks[e.active][e.offset] = item, !.offset = @ + 1, !.size = @ + 1]

(* The stack with its last slot at the offset.                             *)
Retreated(s) ==
  IF s.offset > 0 THEN [s EXCEPT !.size = @ - 1, !.offset = @ - 1]
  ELSE [s EXCEPT !.size = @ - 1, !.offset = BlockSize - 1,
                 !.active = ((s.size - 1) \div BlockSize) + 1]

StackPop(s) ==
  LET r == Retreated(s) IN
    [item |-> r.blocks[r.active][r.offset], stack |-> [r EXCEPT !.blocks[r.active][r.offset] = Nil]]

-----------------------------------------------------------------------------
(* container/heap: up and down, the loops of Push and Pop.                 *)
(* A sift is a loop that stands at an index and swaps until the item there *)
(* is in order.  heap.Push sifts the last item up, heap.Pop puts the last  *)
(* one in place of the first and sifts it down among the others.           *)

Parent(j) == (j - 1) \div 2

Rises(s, j) == j > 0 /\ Less(s, j, Parent(j))

(* Mutant: only the left child is looked at.                               *)
FirstChildLeft(s, i, n) == 2 * i + 1

(* The child of i that comes first, among the n first items.               *)
FirstChild(s, i, n) ==
  IF 2 * i + 2 < n /\ Less(s, 2 * i + 2, 2 * i + 1) THEN 2 * i + 2 ELSE 2 * i + 1

Sinks(s, i, n) == 2 * i + 1 < n /\ Less(s, FirstChild(s, i, n), i)

-----------------------------------------------------------------------------
(* The items fill the first slots, all others are nil (a popped item is    *)
(* not kept alive), and the next item goes to the slot after the last.     *)
InPlace(s) ==
  /\ s.size \in 0..Capacity(s) /\ s.offset \in 0..BlockSize /\ s.active \in 1..Len(s.blocks)
  /\ \A i \in 0..(Capacity(s) - 1) : (At(s, i) = Nil) <=> (i >= s.size)
  /\ s.size = (s.active - 1) * BlockSize + s.offset

=============================================================================
