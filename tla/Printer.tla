------------------------------ MODULE Printer ------------------------------
(***************************************************************************)
(* The block printer of fabric-cli (fabric-cli/printer/blockprinter.go) as *)
(* a grammar: a rule says which calls of the formatter and which other     *)
(* print functions a function makes, in which order; where the code looks  *)
(* at the data, a rule has an alternative for each outcome, and what a     *)
(* value looks like is a choice.  Both formatters are fed at once.  A      *)
(* panic of an ...OrPanic ends the process and is left out.                *)
(***************************************************************************)
EXTENDS Formatter, TLC

CONSTANTS MaxItems,   \* bound: elements of one array
          MaxExtra    \* bound: further elements, and groups, policies and envelopes
                      \* inside their own kind, in one document

ASSUME BoundsAssumption == MaxItems \in Nat /\ MaxExtra \in Nat

VARIABLES
  root,     \* the function a command called
  todo,     \* what is left to print, innermost first
  out,      \* displayFormatter.indent, jsonFormatter.commaRequired, a reader of its output
  extra,    \* what MaxExtra bounds, printed so far
  flawed,   \* a value was printed that is not plain, or by a call that does not
            \* suit its place
  strays    \* collection configurations of an unknown type

printerVars == <<root, todo, out, extra, flawed, strays>>

-----------------------------------------------------------------------------
(* What a rule is made of.                                                 *)

Do(call) == <<"do", call, 0>>
P(f) == <<"print", f, 0>>
Each(f) == <<"each", f, 0>>                  \* Item, f, ItemEnd per element
Loop(f) == <<"loop", f, 0>>                  \* f per element
Values(kind) == <<"values", kind, 0>>        \* ItemValue per element

Fields(n) == [i \in 1..n |-> Do("Field")]
Element(x) == <<Do("Element")>> \o x \o <<Do("ElementEnd")>>
In(f) == Element(<<P(f)>>)
InFields(n) == Element(Fields(n))
Array(s) == <<Do("Array"), s, Do("ArrayEnd")>>
Items(f) == Array(Each(f))
Document(x) == <<Do("Header")>> \o x \o <<Do("Footer")>>

(* The elements of an array: stop, or print one more.                      *)
OneMore(s) ==
  CASE s[1] = "each" -> <<Do("Item"), P(s[2]), Do("ItemEnd")>>
    [] s[1] = "loop" -> <<P(s[2])>>
    [] s[1] = "values" -> <<Do(IF s[2] = "key" THEN "ItemK" ELSE IF s[3] = 0 THEN "Item0" ELSE "ItemN")>>

MoreItems(s) ==
  {<<>>} \cup (IF s[3] < MaxItems
               THEN {OneMore(s) \o <<<<s[1], s[2], s[3] + 1>>>>} ELSE {})

-----------------------------------------------------------------------------
DocumentRules == [
  PrintBlockchainInfo       |-> {Document(Fields(3))},
  PrintBlock                |-> {Document(InFields(3) \o In("PrintBlockMetadata")
                                  \o Element(Items("PrintEnvelope")))},
  PrintFilteredBlock        |-> {Document(Fields(2) \o Element(Array(Loop("PrintFilteredTransaction"))))},
  PrintChannels             |-> {Document(Array(Loop("ChannelId")))},
  ChannelId                 |-> {Fields(1)},
  PrintPeers                |-> {Document(Items("PrintPeer"))},
  PrintChaincodes           |-> {Document(<<Do("Array0"), Each("PrintChaincodeInfo"), Do("ArrayEnd")>>)},
  PrintProcessedTransaction |-> {Document(<<Do("Print"), P("PrintEnvelope")>>)},
  PrintChaincodeData        |-> {Document(<<P("doPrintChaincodeData")>> \o c) :
                                   c \in {<<>>, <<P("doPrintCollConfig")>>}}]

DataRules == [
  doPrintChaincodeData |-> {Fields(5) \o InFields(2) \o In("PrintSignaturePolicyEnvelope")
                              \o In("PrintSignaturePolicyEnvelope")},
  doPrintCollConfig    |-> {Array(Loop("CollectionConfig"))},
  CollectionConfig     |-> {<<Do("Item"), P("printStaticCollectionConfig"), Do("ItemEnd")>>,
                            <<Do("Item"), Do("Value")>>},
  printStaticCollectionConfig |-> {Fields(6) \o In("PrintSignaturePolicyEnvelope")},
  PrintTxProposalResponses |->
    {Document(<<Do("Array0"), Each("PrintTxProposalResponse"), Do("ArrayEnd")>>)},
  PrintChaincodeEvent  |-> {Document(Fields(4))}]

(* PrintTxProposalResponse with payloadOnly prints one field, whichever.   *)
ResponseRules == [
  PrintTxProposalResponse |-> {Fields(1), Fields(2) \o In("PrintProposalResponse")},
  PrintProposalResponse   |-> {<<>>, InFields(3) \o In("PrintProposalResponsePayload")
                                       \o In("PrintEndorsement")},
  PrintResponses          |-> {Document(<<Do("Array0"), Each("PrintResponse"), Do("ArrayEnd")>>)},
  PrintResponse           |-> {Fields(3)}]

EnvelopeRules == [
  PrintEnvelope       |-> {Fields(1) \o In("PrintPayload")},
  PrintPayload        |-> {Element(In("PrintChannelHeader") \o In("PrintSignatureHeader"))
                             \o Element(Fields(1) \o <<P("PrintData")>>)},
  PrintChannelHeader  |-> {Fields(3) \o Element(In("PrintChaincodeID")) \o Fields(3)},
  PrintChaincodeID    |-> {<<>>, Fields(3)},
  PrintChaincodeInfo  |-> {Fields(6)},
  PrintSignatureHeader |-> {Fields(2)},
  PrintData           |-> {<<Do("Print"), P("PrintConfigEnvelope")>>,
                           <<Do("Print"), P("PrintConfigUpdateEnvelope")>>,
                           <<Do("Print"), P("PrintTransaction")>>,
                           Fields(1)},
  PrintConfigEnvelope |-> {In("PrintConfig") \o In("PrintEnvelope")},
  PrintConfigUpdateEnvelope |-> {Items("PrintConfigSignature") \o In("PrintConfigUpdate")}]

TransactionRules == [
  PrintTransaction         |-> {Items("PrintTXAction")},
  PrintFilteredTransaction |-> {Fields(3) \o Element(Array(Loop("PrintFilteredCCAction")))},
  PrintTXAction            |-> {In("PrintSignatureHeader") \o In("PrintChaincodeActionPayload")},
  PrintFilteredCCAction    |-> {Fields(4)},
  PrintChaincodeActionPayload   |-> {In("PrintChaincodeProposalPayload") \o In("PrintAction")},
  PrintChaincodeProposalPayload |-> {In("PrintChaincodeInvocationSpec") \o Items("TransientValue")},
  TransientValue           |-> {Fields(1)},
  PrintChaincodeInvocationSpec  |-> {In("PrintChaincodeSpec")},
  PrintAction              |-> {Items("PrintEndorsement") \o In("PrintProposalResponsePayload")},
  PrintProposalResponsePayload  |-> {Fields(1) \o In("PrintChaincodeAction")}]

(* Results and Events of a chaincode action are printed when they are there. *)
RwSetRules == [
  PrintChaincodeAction   |-> {InFields(3) \o InFields(0) \o InFields(e) : e \in {0, 4}} \cup
                            {InFields(3) \o In("PrintTxReadWriteSet") \o InFields(e) : e \in {0, 4}},
  PrintTxReadWriteSet    |-> {Items("PrintNsReadWriteSet")},
  PrintNsReadWriteSet    |-> {Fields(1) \o In("PrintKvRwSet") \o In("PrintCollHashedRwSets")},
  PrintKvRwSet           |-> {Items("PrintRead") \o Items(w) \o Items("PrintRangeQueryInfo") :
                                w \in {"PrintWrite", "PrintLSCCWrite"}},
  PrintCollHashedRwSets  |-> {Items("PrintCollHashedRwSet")},
  PrintCollHashedRwSet   |-> {Fields(2) \o In("PrintHashedRwSet")},
  PrintHashedRwSet       |-> {Items("PrintHashedRead") \o Items("PrintHashedWrite")},
  PrintHashedRead        |-> {Fields(1) \o <<P("PrintVersion")>>}]

ReadRules == [
  PrintHashedWrite    |-> {Fields(3)},
  PrintRangeQueryInfo |-> {Fields(3) \o In("PrintReadsInfo")},
  PrintReadsInfo      |-> {Items("PrintRead"), Fields(2) \o Array(Values("index")), <<>>, <<Do("Print")>>},
  PrintRead           |-> {Fields(1) \o In("PrintVersion")},
  PrintVersion        |-> {<<>>, Fields(2)},
  PrintWrite          |-> {Fields(3)},
  PrintLSCCWrite      |-> {Fields(2) \o v : v \in {<<>>, In("doPrintChaincodeData"),
                             <<P("doPrintCollConfig")>>, <<Do("Stray")>>}},
  PrintEndorsement    |-> {Fields(2)}]

ConfigRules == [
  PrintConfig       |-> {Fields(1) \o In("PrintConfigGroup")},
  PrintConfigGroup  |-> {<<>>, Fields(2) \o Items("PrintConfigGroup") \o Items("PrintConfigValue")
                                 \o Items("PrintConfigPolicy")},
  PrintConfigPolicy |-> {Fields(2) \o t : t \in {<<>>, <<Do("Field"), P("PrintSignaturePolicyEnvelope")>>,
                                                 <<Do("Field"), Do("Print")>>, Fields(3)}},
  PrintSignaturePolicyEnvelope |-> {In("PrintSignaturePolicy") \o Items("PrintMSPPrincipal")}]

(* Mutant: the array of a rule of n out of m is not ended.                 *)
PolicyRulesOpen == [
  PrintMSPPrincipal    |-> {Fields(1) \o InFields(2)},
  PrintSignaturePolicy |-> {Fields(2), Fields(2) \o <<Do("Array"), Each("PrintSignaturePolicy")>>}]

PolicyRules == [
  PrintMSPPrincipal    |-> {Fields(1) \o Element(v) :
                              v \in {Fields(2), <<Do("Value")>>, Fields(3)}},
  PrintSignaturePolicy |-> {Fields(2), Fields(2) \o Items("PrintSignaturePolicy"), <<Do("Print")>>}]

(* Batch size, a single field or element, the capabilities, or unknown.    *)
ValueRules == [
  PrintConfigValue |-> {Fields(2) \o v : v \in
    {In("PrintAnchorPeers"), In("PrintMSPConfig"), Fields(1), InFields(3), InFields(1),
     In("PrintConfigPolicy"), In("PrintCapabilities"), <<Do("Print")>>}},
  PrintCapabilities |-> {<<Loop("Capability")>>},
  Capability        |-> {Fields(1)}]

MetadataRules == [
  PrintMSPConfig       |-> {<<Do("Print"), Do("Print"), Do("Field")>> \o Array(Values("index")), <<Do("Print")>>},
  PrintAnchorPeers     |-> {Items("PrintAnchorPeer")},
  PrintAnchorPeer      |-> {Fields(2)},
  PrintConfigSignature |-> {Fields(1) \o In("PrintSignatureHeader")},
  PrintConfigUpdate    |-> {Fields(1) \o In("PrintConfigGroup") \o In("PrintConfigGroup")},
  PrintBlockMetadata   |-> {Items("PrintSignatureHeader") \o Fields(1) \o Array(Values("index")) \o Fields(1)}]

SpecRules == [
  PrintChaincodeSpec  |-> {In("PrintChaincodeID") \o Fields(2) \o In("PrintChaincodeInput")},
  PrintChaincodeInput |-> {Array(Values("index")) \o Array(Values("key"))},
  PrintPeer           |-> {Fields(2), Fields(3)}]

RuleGroups == {DocumentRules, DataRules, ResponseRules, EnvelopeRules, TransactionRules, RwSetRules,
               ReadRules, ConfigRules, PolicyRules, ValueRules, MetadataRules, SpecRules}

(* The rules of a function: no two groups have one for the same.           *)
Rules(f) == UNION {R[f] : R \in {G \in RuleGroups : f \in DOMAIN G}}

(* What a step of printing s may go on with.                               *)
Alternatives(s) == IF s[1] = "print" THEN Rules(s[2]) ELSE MoreItems(s)

IsExtra(s, x) ==
  \/ s[1] # "print" /\ x # <<>> /\ (s[3] > 0 \/ s[2] \in {"PrintSignaturePolicy", "PrintConfigGroup"})
  \/ P("PrintConfigEnvelope") \in ToSet(x)

IsStray(s, x) == s = P("CollectionConfig") /\ Do("ItemEnd") \notin ToSet(x)

(* The functions of the Printer interface a command calls.                 *)
Roots == {"PrintBlockchainInfo", "PrintBlock", "PrintFilteredBlock", "PrintChannels", "PrintPeers",
          "PrintChaincodes", "PrintProcessedTransaction", "PrintChaincodeData",
          "PrintTxProposalResponses", "PrintChaincodeEvent", "PrintResponses"}

PrinterInit ==
  /\ root \in Roots /\ todo = <<P(root)>>
  /\ out = [indent |-> 0, comma |-> FALSE, reader |-> NothingRead]
  /\ extra = 0 /\ flawed = FALSE /\ strays = 0

(* A function is entered, or a loop goes on or ends.                       *)
Expand ==
  /\ todo # <<>> /\ Head(todo)[1] # "do"
  /\ \E x \in Alternatives(Head(todo)) :
       /\ todo' = x \o Tail(todo)
       /\ extra' = extra + (IF IsExtra(Head(todo), x) THEN 1 ELSE 0)
       /\ strays' = strays + (IF IsStray(Head(todo), x) THEN 1 ELSE 0)
  /\ extra' <= MaxExtra
  /\ UNCHANGED <<root, out, flawed>>

(* One call of the formatter, with a value that is plain or is not.        *)
Call ==
  /\ todo # <<>> /\ Head(todo)[1] = "do"
  /\ \E plain \in BOOLEAN :
       LET call == Head(todo)[2] IN
       /\ plain \/ HoldsValue(call)
       /\ out' = [indent |-> Indent(out.indent, call), comma |-> CommaAfter(out.comma, call),
                  reader |-> IF plain THEN ReadCall(out.reader, out.comma, call)
                             ELSE ReadRaw(out.reader, out.comma, call)]
       /\ flawed' = (flawed \/ call \in {"Value", "ItemK", "Stray"} \/ ~plain)
  /\ todo' = Tail(todo)
  /\ UNCHANGED <<root, extra, strays>>

PrinterNext == Expand \/ Call

PrinterSpec == PrinterInit /\ [][PrinterNext]_printerVars

-----------------------------------------------------------------------------
PrinterTypeOK ==
  /\ root \in Roots /\ flawed \in BOOLEAN
  /\ out.indent \in Nat /\ out.comma \in BOOLEAN
  /\ extra \in 0..MaxExtra /\ strays \in Nat
  /\ \A i \in DOMAIN todo : todo[i][1] = "do" => todo[i][2] \in Calls

(* A document leaves the display formatter at the indentation it found,    *)
(* except for one level per collection configuration of an unknown type,   *)
(* whose item is never ended (blockprinter.go:319).  The printer of a      *)
(* listening command prints all its blocks, so what is left accumulates.   *)
DocumentsClosed == PrinterTypeOK /\ (todo = <<>> => out.indent = strays)

(* The documents whose arrays all consist of values or of items.           *)
JsonRoots == {"PrintBlockchainInfo", "PrintBlock", "PrintPeers", "PrintProcessedTransaction",
              "PrintChaincodeData", "PrintChaincodeEvent"}

(* With --format json these documents are JSON, whatever their shape, if   *)
(* their values are plain: those that are not are written without escapes  *)
(* (formatter.go:231, 290, 297).  The other exceptions are a value printed *)
(* in the place of a member (Value, a decoration) and an error printed     *)
(* into the document (blockprinter.go:319, 963, 975, 1118, 1441).          *)
JsonReadable == root \in JsonRoots /\ ~flawed =>
  /\ out.reader.last # "bad"
  /\ todo = <<>> => out.reader.open = <<>>

=============================================================================
