----------------------------- MODULE Formatter -----------------------------
(***************************************************************************)
(* The two output formats of fabric-cli (fabric-cli/printer/formatter.go): *)
(* the state of each formatter, what each call writes, and a reader of     *)
(* JSON that knows nothing of them.  What is kept of a name or a value is  *)
(* whether it is plain, that is, stands between quotes as it is; the names *)
(* are literals of blockprinter.go, and plain.                             *)
(***************************************************************************)
EXTENDS Integers, Sequences, SequencesExt

-----------------------------------------------------------------------------
(* A reader of JSON: the brackets that are open, and what was read last:   *)
(* "first" nothing yet in the innermost bracket, "next" a complete member, *)
(* "comma" a comma, "key" a name, "bad" something that is not JSON.        *)

NothingRead == [open |-> <<>>, last |-> "first"]

Inside(r, bracket) == r.open # <<>> /\ Last(r.open) = bracket

TakesName(r) == Inside(r, "{") /\ r.last \in {"first", "comma"}

TakesValue(r) ==
  \/ r.last = "key"
  \/ Inside(r, "[") /\ r.last \in {"first", "comma"}
  \/ r.open = <<>> /\ r.last = "first"

Closes(r, token) ==
  /\ r.last \in {"first", "next"}
  /\ \/ token = "}" /\ Inside(r, "{")
     \/ token = "]" /\ Inside(r, "[")

ReadToken(r, token) ==
  CASE token = "," /\ r.open # <<>> /\ r.last = "next" -> [r EXCEPT !.last = "comma"]
    [] token = "name" /\ TakesName(r) -> [r EXCEPT !.last = "key"]
    [] token = "value" /\ TakesValue(r) -> [r EXCEPT !.last = "next"]
    [] token \in {"{", "["} /\ TakesValue(r) ->
         [open |-> Append(r.open, token), last |-> "first"]
    [] token \in {"}", "]"} /\ Closes(r, token) ->
         [open |-> Front(r.open), last |-> "next"]
    [] OTHER -> [r EXCEPT !.last = "bad"]

ReadIf(r, written, token) == IF written THEN ReadToken(r, token) ELSE r

-----------------------------------------------------------------------------
(* The calls of a formatter.  "Array0" is Array(""), "Item0" ItemValue at  *)
(* the index 0, "ItemN" at a later index and "ItemK" at a key of a map;    *)
(* "Stray" is a fmt.Printf straight to the standard output.                *)

Opening == {"Header", "Element", "Array", "Array0", "Item"}
Closing == {"Footer", "ElementEnd", "ArrayEnd", "ItemEnd"}
Calls == Opening \cup Closing \cup {"Field", "Value", "Item0", "ItemN", "ItemK", "Print", "Stray"}

(* displayFormatter: the headers are rules of stars at any indentation.    *)
Indent(indent, call) ==
  CASE call \in Opening \ {"Header"} -> indent + 1
    [] call \in Closing \ {"Footer"} -> indent - 1
    [] OTHER -> indent

(* jsonFormatter writes a comma, if it needs one or the call always does, *)
(* a name, and at most one token after them.                               *)
WritesComma(comma, call) ==
  call = "ItemN" \/ (comma /\ call \in {"Field", "Value"} \cup Opening)

WritesName(call) == call \in {"Field", "Element", "Array"}

LastToken(call) ==
  CASE call \in {"Header", "Element", "Item"}             -> "{"
    [] call \in {"Footer", "ElementEnd", "ItemEnd"}       -> "}"
    [] call \in {"Array", "Array0"}                       -> "["
    [] call = "ArrayEnd"                                  -> "]"
    [] call \in {"Field", "Value", "Item0", "ItemN", "ItemK"} -> "value"
    [] call = "Stray"                                     -> "text"
    [] OTHER                                              -> "none"

HoldsValue(call) == LastToken(call) = "value"

(* What a reader of the output has read when the call is over, if the      *)
(* value it wrote is plain ...                                             *)
ReadCall(r, comma, call) ==
  ReadIf(ReadIf(ReadIf(r, WritesComma(comma, call), ","), WritesName(call), "name"),
         LastToken(call) # "none", LastToken(call))

(* ... and if it is not: values are written between quotes with "%v", so a *)
(* quote, a backslash or a control character in one is not escaped.        *)
ReadRaw(r, comma, call) == [ReadCall(r, comma, call) EXCEPT !.last = "bad"]

(* Mutant: ArrayEnd leaves the comma flag alone.                           *)
CommaAfterLost(comma, call) ==
  CASE call \in Opening \cup {"Footer"} -> FALSE
    [] call \in {"Field", "ItemN", "ElementEnd", "ItemEnd"} -> TRUE
    [] OTHER -> comma

(* ... and whether it needs one afterwards.                                *)
CommaAfter(comma, call) ==
  CASE call \in Opening \cup {"Footer"} -> FALSE
    [] call \in {"Field", "ItemN"} \cup (Closing \ {"Footer"}) -> TRUE
    [] OTHER -> comma

=============================================================================
