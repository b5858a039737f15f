---------------------------- MODULE ContractLib ----------------------------
(***************************************************************************)
(* The contract life cycle shared by the chaincode and the courier         *)
(* (courier/contractlib/type.go).  A contract is a PrecommitContract or a  *)
(* CommitContract, and the variant a stored contract is rebuilt into is    *)
(* decided by its status alone.                                            *)
(***************************************************************************)

CStatus == {"Init", "Pending", "Executed", "Finished", "Completed"}

(* RebuildIContract: Finished gives a CommitContract, every other status,  *)
(* Completed included, a PrecommitContract.                                *)
IsCommit(s) == s = "Finished"

IsPrecommit(s) == s \in CStatus \ {"Finished"}

=============================================================================
