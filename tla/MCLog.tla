------------------------------- MODULE MCLog -------------------------------
(* Settings, calls and contexts small enough for TLC.                      *)
EXTENDS Log

CONSTANTS s, u

SomeRules == {s :> 0 @@ u :> 0, s :> 1 @@ u :> 0}

Same == Permutations(Loggers)

Kind(k, t) == [kind |-> k, text |-> t]

Context == <<Text(<<"id">>), Text(<<"x">>)>>

SomeCalls == {
  <<Text(<<"a">>), Text(<<"backslash", "n", "quote">>), Text(<<"space", "a">>), Text(<<"newline", "equals">>),
    Kind("other", <<"z">>), Kind("lazy", <<>>), Text(<<"a">>), Kind("bad lazy", <<"y">>), Text(<<"a">>)>>,
  <<Text(<<"a">>), Text(<<"backslash", "n">>), Text(<<"b", "space", "newline">>), Text(<<"x">>)>>}

=============================================================================
