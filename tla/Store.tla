------------------------------- MODULE Store -------------------------------
(***************************************************************************)
(* The cross-transaction bucket of the courier's database                  *)
(* (courier/database.go).  A database maps every cross ID to a record;     *)
(* each operation is one read-write transaction, so it is one function     *)
(* from databases to databases.                                            *)
(*                                                                         *)
(* A batch maps every cross ID to the status of the transaction the batch  *)
(* carries for it, or to "None".  A block carries at most one transaction  *)
(* per contract: the ledger lets one transaction of a block write a key.   *)
(***************************************************************************)
EXTENDS ContractLib

NoReceipt == "no receipt"

Absent == [status |-> "Absent", receipt |-> NoReceipt]

IsStored(rec) == rec.status # "Absent"

(* Mutant: a known record is completed whatever came in.                   *)
SaveCompletesDuplicate(old, new) ==
  IF new = "None" THEN old
  ELSE IF ~IsStored(old) THEN [status |-> new, receipt |-> NoReceipt]
  ELSE [old EXCEPT !.status = "Completed"]

(* Mutant: a duplicate precommit overwrites the record.                    *)
SaveOverwrites(old, new) ==
  IF new = "None" THEN old
  ELSE IF new = "Finished" /\ IsStored(old) THEN [old EXCEPT !.status = "Completed"]
  ELSE [status |-> new, receipt |-> NoReceipt]

(* One round of the loop of Save.                                          *)
SaveOne(old, new) ==
  CASE new = "None"                        -> old
    [] new # "None" /\ ~IsStored(old)      -> [status |-> new, receipt |-> NoReceipt]
    [] new = "Finished" /\ IsStored(old)   -> [old EXCEPT !.status = "Completed"]
    [] new = "Init" /\ IsStored(old)       -> old

(* A record One cannot read, for an error other than ErrNotFound, is only  *)
(* warned of: whatever came in for it is silently not stored.              *)
Save(db, batch, unread) ==
  [i \in DOMAIN db |-> IF i \in unread THEN db[i] ELSE SaveOne(db[i], batch[i])]

(* Updates fails with ErrNotFound, and writes nothing, unless every id is  *)
(* stored.                                                                 *)
AllFound(db, ids) == \A i \in ids : IsStored(db[i])

Updates(db, new) ==
  [i \in DOMAIN db |-> IF i \in DOMAIN new THEN new[i] ELSE db[i]]

=============================================================================
