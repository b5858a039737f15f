---------------------------- MODULE MCTxManager ----------------------------
(* Small instances of TxManager.                                           *)
EXTENDS TxManager

CONSTANTS t1, unknown

MCTimeStamp == [i \in CrossIDs |-> IF i = t1 THEN 1 ELSE 2]

r1 == [id |-> t1, val |-> "receipt 1", seq |-> 1]
rx == [id |-> unknown, val |-> "receipt x", seq |-> 2]

ReceiptOfOne  == {r1}
WithUnknown   == {r1, rx}
MCValues      == {"receipt 1", "receipt x"}
=============================================================================
