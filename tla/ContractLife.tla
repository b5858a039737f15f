--------------------------- MODULE ContractLife ----------------------------
(***************************************************************************)
(* What the chaincode promises of a contract: one precommit, then at most  *)
(* one commit, and a deleted contract does not come back.                  *)
(***************************************************************************)
CONSTANT Contracts

VARIABLE life

Follows == {<<"none", "Init">>, <<"Init", "Finished">>,
            <<"Init", "deleted">>, <<"Finished", "deleted">>}

Init == life = [c \in Contracts |-> "none"]

Live(c) ==
  \E l \in {"Init", "Finished", "deleted"} :
    /\ <<life[c], l>> \in Follows
    /\ life' = [life EXCEPT ![c] = l]

Next == \E c \in Contracts : Live(c)

Spec == Init /\ [][Next]_life

=============================================================================
