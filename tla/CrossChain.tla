---------------------------- MODULE CrossChain -----------------------------
(***************************************************************************)
(* What the courier promises of a cross-chain transaction, seen from the   *)
(* two chains alone (README.md:26-36): it is sent to the outchain, the     *)
(* outchain answers with a receipt, and only then is the contract on       *)
(* Fabric finished.  Phases follow one another and never go back, whatever *)
(* the courier sends twice, replays, forgets or loses in a crash.          *)
(***************************************************************************)
CONSTANT Txs

VARIABLE phase

Phases == {"precommitted", "sent", "receipted", "finished"}

Follows == {<<"precommitted", "sent">>, <<"sent", "receipted">>,
            <<"receipted", "finished">>}

Init == phase = [i \in Txs |-> "precommitted"]

Advance(i) ==
  \E p \in Phases : /\ <<phase[i], p>> \in Follows
                    /\ phase' = [phase EXCEPT ![i] = p]

Next == \E i \in Txs : Advance(i)

Spec == Init /\ [][Next]_phase

=============================================================================
