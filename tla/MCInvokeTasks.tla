--------------------------- MODULE MCInvokeTasks ---------------------------
(* Invocations and queries small enough for TLC.                           *)
EXTENDS InvokeTasks

SetThenVar == << <<"$set(", "x", ",", "$seq(", ")", ")">>, <<"${", "x", "}">> >>
Keyed == << <<"key", "$seq(", ")", "val">> >>
Unclosed == << <<"key", "$seq(", ")", "val", "$seq(", "1">> >>
Padded == << <<"val", "$pad(", "$rand(", "2", ")", ",", "X", ")", "$file(", "f", ")">> >>
Refusals == << <<"key", "$rand(", "val", ")", "$pad(", "3", ")", "$set(", "x", ")", "${", "y", "}",
                 "$file(", "g", ")", "$seq(", ")">> >>
Panicking == << <<"$rand(", "0", ")">> >>

Command1(query, verbose, concurrency, iterations, args) ==
  [query |-> query, verbose |-> verbose, concurrency |-> concurrency, iterations |-> iterations,
   attempts |-> IF args = SetThenVar THEN 0 ELSE 1,
   args |-> args, files |-> <<"f">> :> <<"text">>]

AllCommands ==
  {Command1(FALSE, FALSE, 2, 2, SetThenVar), Command1(TRUE, FALSE, 2, 1, SetThenVar)}
  \cup {Command1(FALSE, TRUE, c, 2, Keyed) : c \in {2, 3}}
  \cup {Command1(FALSE, FALSE, c, n, a) : c \in {1, 2}, n \in {0, 2}, a \in {<<>>, Keyed, Panicking}}
  \cup {Command1(FALSE, FALSE, 1, 2, a) : a \in {Unclosed, Padded, Refusals}}

=============================================================================
