------------------------------- MODULE Prque -------------------------------
(***************************************************************************)
(* The courier's priority queues (courier/utils/prque), as bags: q[x] is   *)
(* the number of copies of x.  The heap order is in Firsts, which names    *)
(* the elements Pop may return for a given key (the negated priority).     *)
(*                                                                         *)
(* Push and Pop are not safe for concurrent use.  A Push that another      *)
(* operation on the same queue overlaps is torn: two writes of one slot    *)
(* lose one of the two elements, and a slot read before it is written is a *)
(* nil item, whose use panics.                                             *)
(***************************************************************************)
EXTENDS Naturals

Empty(S) == [x \in S |-> 0]

IsEmpty(q) == \A x \in DOMAIN q : q[x] = 0

In(x, q) == q[x] > 0

Elements(q) == {x \in DOMAIN q : q[x] > 0}

Push(q, x) == [q EXCEPT ![x] = @ + 1]

Drop(q, x) == [q EXCEPT ![x] = @ - 1]

Firsts(q, key) ==
  {x \in Elements(q) : \A y \in Elements(q) : key[x] <= key[y]}

Lasts(q, key) ==
  {x \in Elements(q) : \A y \in Elements(q) : key[y] <= key[x]}

(* What the queue may hold after a push of x: the bag with x in it, and if *)
(* the push was torn also the bag without x, or without another element.   *)
AfterPush(q, x, torn) ==
  {Push(q, x)} \cup
  (IF torn THEN {q} \cup {Push(Drop(q, y), x) : y \in Elements(q)} ELSE {})

=============================================================================
