------------------------------ MODULE MCIntake ------------------------------
(* Blocks of envelopes small enough for TLC.                               *)
EXTENDS Intake

(* Three timestamps, of which the first and the last are half the range of *)
(* a three-bit integer apart.                                              *)
ThreeSeconds == [a |-> -2, b |-> 1, c |-> 2]

Envelope(flag, unpacks, header, actions, txid) ==
  [flag |-> flag, unpacks |-> unpacks, header |-> header, actions |-> actions, txid |-> txid]

Precommits == {Envelope("VALID", TRUE, "endorser", <<"precommit">>, t) : t \in {"a", "b", "c"}}

Others ==
  {Envelope("MVCC_READ_CONFLICT", TRUE, "endorser", <<"precommit">>, "a"),
   Envelope("VALID", FALSE, "endorser", <<>>, "a"),
   Envelope("VALID", TRUE, "config", <<>>, "a"),
   Envelope("VALID", TRUE, "bad", <<"precommit">>, "a"),
   Envelope("VALID", TRUE, "bad", <<"other">>, "a"),
   Envelope("VALID", TRUE, "endorser", <<"none">>, "a"),
   Envelope("VALID", TRUE, "endorser", <<"other", "precommit">>, "a"),
   Envelope("VALID", TRUE, "endorser", <<"precommit", "bad">>, "a"),
   Envelope("VALID", TRUE, "endorser", <<"none", "commit">>, "a")}

Wanted1 == Envelope("VALID", TRUE, "endorser", <<"precommit">>, "b")

PairBlocks == {<<x, y>> : x \in Precommits, y \in Precommits}
                \cup {<<Wanted1, y>> : y \in Others} \cup {<<y, Wanted1>> : y \in Others}
                \cup {<<y>> : y \in Others}

=============================================================================
