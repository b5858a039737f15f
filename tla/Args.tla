-------------------------------- MODULE Args --------------------------------
(***************************************************************************)
(* The expressions in the arguments of an invocation                       *)
(* (fabric-cli/chaincode/utils/util.go).  A text is a sequence of tokens;  *)
(* what opens an expression, what closes one, a comma and a literal are    *)
(* tokens.  The environment env holds the global counter, the variables of *)
(* the iteration, the files, the next random number, and whether the       *)
(* process has panicked.                                                   *)
(***************************************************************************)
EXTENDS Integers, Sequences, SequencesExt, TLC

Kinds == <<"seq", "rand", "pad", "file", "set", "var">>

Opens == [seq |-> "$seq(", rand |-> "$rand(", pad |-> "$pad(", file |-> "$file(",
          set |-> "$set(", var |-> "${"]
Delimiter(kind) == IF kind = "var" THEN "}" ELSE ")"

(* strconv on the literals that are numbers.                               *)
Number == [d \in {ToString(n) : n \in 0..9} |-> CHOOSE n \in 0..9 : ToString(n) = d]
IsNumber(text) == Len(text) = 1 /\ text[1] \in DOMAIN Number

FirstAt(text, token, from) ==
  LET found == {i \in from..Len(text) : text[i] = token}
  IN  IF found = {} THEN 0 ELSE CHOOSE i \in found : \A j \in found : i <= j

(* strings.Split at the commas, when there is exactly one.                 *)
IsPair(text) == Len(SelectSeq(text, LAMBDA t : t = ",")) = 1
Left(text) == SubSeq(text, 1, FirstAt(text, ",", 1) - 1)
Right(text) == SubSeq(text, FirstAt(text, ",", 1) + 1, Len(text))

Repeated(n, text) == FoldLeft(LAMBDA done, i : done \o text, <<>>, [i \in 1..n |-> i])

Ok(env, text) == [env |-> env, ok |-> TRUE, text |-> text]
Refused(env) == [env |-> env, ok |-> FALSE, text |-> <<>>]

(* What one expression is replaced by.                                     *)
Apply(kind, env, text) ==
  CASE kind = "seq" -> Ok([env EXCEPT !.seq = @ + 1], <<ToString(env.seq + 1)>>)
    [] kind = "rand" ->
         IF ~IsNumber(text) THEN Refused(env)
         ELSE IF Number[text[1]] = 0 THEN Refused([env EXCEPT !.panic = TRUE])
         ELSE Ok(env, <<ToString(env.random % Number[text[1]])>>)
    [] kind = "pad" ->
         IF IsPair(text) /\ IsNumber(Left(text))
         THEN Ok(env, Repeated(Number[Left(text)[1]], Right(text))) ELSE Refused(env)
    [] kind = "file" -> IF text \in DOMAIN env.files THEN Ok(env, env.files[text]) ELSE Refused(env)
    [] kind = "set" ->
         IF IsPair(text) THEN Ok([env EXCEPT !.vars = (Left(text) :> Right(text)) @@ @], Right(text))
         ELSE Refused(env)
    [] kind = "var" -> IF text \in DOMAIN env.vars THEN Ok(env, env.vars[text]) ELSE Refused(env)

(* What is kept of an expression and of the text before it.                *)
Kept(lead, expression, r) == lead \o (IF r.ok THEN r.text ELSE expression)

(* One token of one pass: done is the result so far, lead the text before  *)
(* the expression, inner the expression when one is open.                  *)
Scan(kind, s, token) ==
  IF ~s.open
  THEN IF token = Opens[kind] THEN [s EXCEPT !.open = TRUE] ELSE [s EXCEPT !.lead = Append(@, token)]
  ELSE IF token # Delimiter(kind) THEN [s EXCEPT !.inner = Append(@, token)]
  ELSE LET r == Apply(kind, s.env, s.inner) IN
         [env |-> r.env, lead |-> <<>>, inner |-> <<>>, open |-> FALSE,
          done |-> s.done \o Kept(s.lead, <<Opens[kind]>> \o s.inner \o <<token>>, r)]

(* Op(v), with v evaluated once.                                           *)
Once(Op(_), v) == CHOOSE y \in {Op(u) : u \in {v}} : TRUE

(* A whole pass.  When a delimiter is missing the result is what is left   *)
(* of the text: what was replaced before it is lost.                       *)
Evaluate(kind, env, text) ==
  LET start == [env |-> env, done |-> <<>>, lead |-> <<>>, inner |-> <<>>, open |-> FALSE]
      Step(s, token) == Once(LAMBDA u : Scan(kind, u, token), s)
      Result(s) == [env |-> s.env,
                    text |-> IF s.open THEN s.lead \o <<Opens[kind]>> \o s.inner ELSE s.done \o s.lead]
  IN  Once(Result, FoldLeft(Step, start, text))

GetArg(env, text) ==
  FoldLeft(LAMBDA e, kind : Once(LAMBDA u : Evaluate(kind, u.env, u.text), e),
           [env |-> env, text |-> text], Kinds)

(* An expression that is not closed follows one of its kind that is.       *)
LosesText(text) ==
  \E kind \in ToSet(Kinds) :
    LET last == SelectLastInSeq(text, LAMBDA t : t = Opens[kind])
    IN  last > 0 /\ FirstAt(text, Opens[kind], 1) < last /\ FirstAt(text, Delimiter(kind), last) = 0

=============================================================================
