--------------------------- MODULE PriorityQueue ---------------------------
(***************************************************************************)
(* What a priority queue of the courier promises: a bag whose Pop returns  *)
(* one of its first elements, as long as the keys of its elements are not  *)
(* further apart than half the range of an int64 (the note at              *)
(* courier/utils/prque/sstack.go:10).  Beyond that, and from then on until *)
(* it is empty, Pop returns some element.                                  *)
(***************************************************************************)
EXTENDS Integers, Prque

CONSTANTS Elems,    \* what is put into the queue
          Key,      \* its key, the negated priority
          Half      \* half the range of an int64

VARIABLES bag, orderly

vars == <<bag, orderly>>

Close(q) == \A x, y \in Elements(q) : Key[x] - Key[y] < Half

Orderly(was, q) == IsEmpty(q) \/ (was /\ Close(q))

Init == bag = Empty(Elems) /\ orderly = TRUE

Add(x) == bag' = Push(bag, x) /\ orderly' = Orderly(orderly, bag')

Take(x) ==
  /\ In(x, bag)
  /\ orderly => x \in Firsts(bag, Key)
  /\ bag' = Drop(bag, x) /\ orderly' = Orderly(orderly, bag')

Next == \E x \in Elems : Add(x) \/ Take(x)

Spec == Init /\ [][Next]_vars

=============================================================================
