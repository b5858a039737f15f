---------------------------- MODULE MCChaincode ----------------------------
(* Small instances of Chaincode.                                           *)
EXTENDS Chaincode

CONSTANTS a, b, c1, c2

Pay(f, t, x) == [func |-> "pay", from |-> f, to |-> t, x |-> x]
Undefined == [func |-> "undefined", from |-> a, to |-> b, x |-> 1]
NotInteger == [func |-> "notInteger", from |-> a, to |-> b, x |-> 1]

(* a and b start near the top of the range, so a payment wraps around.     *)
InitialAB == [k \in {a, b} |-> IF k = a THEN 1 ELSE 3]
InitialA  == [k \in {a} |-> 1]

BothPay    == [k \in Contracts |-> IF k = c1 THEN Pay(a, b, 1) ELSE Pay(b, a, 2)]
OneFails   == [k \in Contracts |-> IF k = c1 THEN Pay(a, b, 1) ELSE Undefined]
SelfPay    == {Pay(a, a, 1)}
Transfers  == {Pay(b, a, 2), NotInteger}
NoPayments == {}
=============================================================================
