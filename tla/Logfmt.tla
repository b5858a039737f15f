------------------------------- MODULE Logfmt -------------------------------
(***************************************************************************)
(* What becomes of the arguments of a log call (log/logger.go,             *)
(* log/handler.go, log/format.go), and a reader of the lines.  An argument *)
(* is a record [kind, text]: "string", "other" (any other type), "nil",    *)
(* "lazy" or "bad lazy" (a Lazy whose function has the wrong type).  A     *)
(* text is a sequence of characters; those that mean something to the      *)
(* format have names, the others stand for themselves.                     *)
(***************************************************************************)
EXTENDS Integers, Sequences, SequencesExt, TLC

Text(t) == [kind |-> "string", text |-> t]
ErrorKey == Text(<<"LOG15_ERROR">>)
TheNil == [kind |-> "nil", text |-> <<>>]

(* An odd argument gets the value nil and an explanation.  A Ctx map as    *)
(* the only argument, which no call in this repository has, is left out.   *)
Normalize(args) ==
  IF Len(args) % 2 = 0 THEN args
  ELSE args \o <<TheNil, ErrorKey, Text(<<"Normalized", "space", "odd">>)>>

NewContext(prefix, suffix) == prefix \o Normalize(suffix)

(* LazyHandler, which assigns to the values of the record itself.          *)
EvaluateLazy(v) ==
  CASE v.kind = "lazy" -> Text(v.text)
    [] v.kind = "bad lazy" -> Text(<<"INVALID_LAZY">>)
    [] OTHER -> v

LazyHandler(ctx) ==
  [i \in DOMAIN ctx |-> IF i % 2 = 0 THEN EvaluateLazy(ctx[i]) ELSE ctx[i]]
    \o (IF \E i \in DOMAIN ctx : i % 2 = 0 /\ ctx[i].kind = "bad lazy"
        THEN <<ErrorKey, Text(<<"bad", "space", "lazy">>)>> ELSE <<>>)

-----------------------------------------------------------------------------
Holds(s, chars) == \E c \in ToSet(s) : c \in chars

EscapeChar(c) ==
  CASE c \in {"backslash", "quote"} -> <<"backslash", c>>
    [] c = "newline" -> <<"backslash", "n">>
    [] OTHER -> <<c>>

(* Mutant: a backslash alone is not escaped.                               *)
EscapeStringQuoted(s) ==
  IF Holds(s, {"space", "newline", "equals", "quote"})
  THEN <<"quote">> \o FlattenSeq([i \in DOMAIN s |-> EscapeChar(s[i])]) \o <<"quote">> ELSE s

EscapeString(s) ==
  LET escaped == FlattenSeq([i \in DOMAIN s |-> EscapeChar(s[i])])
  IN  IF Holds(s, {"space", "newline", "equals", "quote"}) THEN <<"quote">> \o escaped \o <<"quote">>
      ELSE escaped

FormatValue(v) == IF v.kind = "nil" THEN <<"nil">> ELSE EscapeString(v.text)

(* The key and the value of a field: with a key that is not a string, the  *)
(* value is lost, and the key with it.  A key is written as it is.         *)
FieldKey(k) == IF k.kind = "string" THEN k.text ELSE ErrorKey.text
FieldValue(k, v) == IF k.kind = "string" THEN FormatValue(v) ELSE <<>>

Spaces(n) == [i \in 1..n |-> "space"]

(* The fields of a line and the longest values seen so far, per key.       *)
Field(acc, k, v, last, maxPadding) ==
  LET key == FieldKey(k)
      value == FieldValue(k, v)
      known == IF key \in DOMAIN acc.padding THEN acc.padding[key] ELSE 0
      padding == IF known < Len(value) /\ Len(value) <= maxPadding THEN Len(value) ELSE known
  IN  [line |-> acc.line \o (IF acc.line = <<>> THEN <<>> ELSE <<"space">>)
                  \o key \o <<"equals">> \o value
                  \o (IF last THEN <<>> ELSE Spaces(padding - Len(value))),
       padding |-> IF padding > known THEN (key :> padding) @@ acc.padding ELSE acc.padding]

Logfmt(ctx, padding, maxPadding) ==
  FoldLeft(LAMBDA acc, i : Field(acc, ctx[2 * i - 1], ctx[2 * i], 2 * i = Len(ctx), maxPadding),
           [line |-> <<>>, padding |-> padding], [i \in 1..(Len(ctx) \div 2) |-> i])

-----------------------------------------------------------------------------
(* A reader: fields are apart by spaces, a key ends with an equals sign, a *)
(* value that starts with a quote ends with one, and a backslash takes the *)
(* next character as it is.  A key without an equals sign has no value.    *)
Reading == [mode |-> "gap", key |-> <<>>, value |-> <<>>, fields |-> <<>>]

Unescape(c) == IF c = "n" THEN "newline" ELSE c

FieldRead(r) == [mode |-> "gap", key |-> <<>>, value |-> <<>>,
                 fields |-> Append(r.fields, <<r.key, r.value>>)]

ReadChar(r, c) ==
  CASE r.mode = "gap" -> IF c = "space" THEN r ELSE [r EXCEPT !.mode = "key", !.key = <<c>>]
    [] r.mode = "key" /\ c = "equals" -> [r EXCEPT !.mode = "start"]
    [] r.mode = "key" /\ c = "space" -> FieldRead(r)
    [] r.mode = "key" -> [r EXCEPT !.key = Append(@, c)]
    [] r.mode = "start" /\ c = "quote" -> [r EXCEPT !.mode = "quoted"]
    [] r.mode \in {"start", "plain"} /\ c = "space" -> FieldRead(r)
    [] r.mode \in {"start", "plain"} /\ c = "backslash" -> [r EXCEPT !.mode = "escape"]
    [] r.mode \in {"start", "plain"} -> [r EXCEPT !.mode = "plain", !.value = Append(@, c)]
    [] r.mode = "escape" -> [r EXCEPT !.mode = "plain", !.value = Append(@, Unescape(c))]
    [] r.mode = "quoted" /\ c = "quote" -> FieldRead(r)
    [] r.mode = "quoted" /\ c = "backslash" -> [r EXCEPT !.mode = "quoted escape"]
    [] r.mode = "quoted" -> [r EXCEPT !.value = Append(@, c)]
    [] r.mode = "quoted escape" -> [r EXCEPT !.mode = "quoted", !.value = Append(@, Unescape(c))]

ReadFields(line) ==
  LET r == FoldLeft(ReadChar, Reading, line)
  IN  IF r.mode \in {"start", "plain"} THEN FieldRead(r).fields ELSE r.fields

=============================================================================
