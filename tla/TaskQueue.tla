----------------------------- MODULE TaskQueue -----------------------------
(***************************************************************************)
(* What an executor promises (fabric-cli/executor/executor.go:33-36): the  *)
(* tasks it has accepted are begun in the order in which they were         *)
(* accepted, each of them once, and a worker has one task at a time.       *)
(***************************************************************************)
EXTENDS Sequences

CONSTANTS Tasks, Workers, NoTask

VARIABLES waiting, serving, finished

tqVars == <<waiting, serving, finished>>

Init ==
  /\ waiting = <<>>
  /\ serving = [w \in Workers |-> NoTask]
  /\ finished = {}

(* A task that was ever accepted is not accepted again.                    *)
Accept(t) ==
  /\ t \notin finished
  /\ \A w \in Workers : serving[w] # t
  /\ \A i \in DOMAIN waiting : waiting[i] # t
  /\ waiting' = Append(waiting, t)
  /\ UNCHANGED <<serving, finished>>

Begin(w) ==
  /\ serving[w] = NoTask /\ waiting # <<>>
  /\ serving' = [serving EXCEPT ![w] = Head(waiting)]
  /\ waiting' = Tail(waiting)
  /\ UNCHANGED finished

Finish(w) ==
  /\ serving[w] # NoTask
  /\ finished' = finished \cup {serving[w]}
  /\ serving' = [serving EXCEPT ![w] = NoTask]
  /\ UNCHANGED waiting

Next == (\E t \in Tasks : Accept(t)) \/ \E w \in Workers : Begin(w) \/ Finish(w)

Spec == Init /\ [][Next]_tqVars

=============================================================================
