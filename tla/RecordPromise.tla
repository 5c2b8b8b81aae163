--------------------------- MODULE RecordPromise ---------------------------
(***************************************************************************)
(* What the record pipeline promises to the sender of a record message,    *)
(* with no queue, no batch and no parser in sight.  A message is accepted  *)
(* once; each of its lines is settled once, as saved or as failed; and the *)
(* message is answered once, after its last line is settled.  Answers come *)
(* in the order the messages were accepted.                                *)
(*                                                                         *)
(* RecordBatcher implements this specification.                            *)
(***************************************************************************)
EXTENDS Naturals, Sequences

CONSTANTS Messages,   \* the record messages
          Items,      \* their lines, [entry |-> m, line |-> l]
          CanPanic    \* may a panic make the service forget lines

VARIABLES accepted,   \* the accepted messages, in the order of acceptance
          outcome,    \* what became of each line: "none", "saved", "failed"
          answered    \* the answered messages, in the order of the answers

promiseVars == <<accepted, outcome, answered>>

Elements(s) == {s[i] : i \in DOMAIN s}

Settled(m) == \A it \in Items : it.entry = m => outcome[it] # "none"

PromiseInit ==
  /\ accepted = <<>>
  /\ outcome = [it \in Items |-> "none"]
  /\ answered = <<>>

\* A message not seen before is accepted.
Accept(m) ==
  /\ m \notin Elements(accepted)
  /\ accepted' = Append(accepted, m)
  /\ UNCHANGED <<outcome, answered>>

\* Some unsettled lines of accepted messages are settled, never to change.
Settle(lines, result) ==
  /\ \A it \in lines : it.entry \in Elements(accepted) /\ outcome[it] = "none"
  /\ outcome' = [it \in Items |-> IF it \in lines THEN result ELSE outcome[it]]
  /\ UNCHANGED <<accepted, answered>>

\* The message whose turn it is, and whose lines are all settled, is answered:
\* the oldest unanswered one, or a later one when a panic lost a line of it.
Answer(m) ==
  /\ m \notin Elements(answered)
  /\ Settled(m)
  /\ \E i \in DOMAIN accepted :
       /\ accepted[i] = m
       /\ \A j \in 1..(i - 1) :
            accepted[j] \in Elements(answered) \/ CanPanic
       /\ \A j \in (i + 1)..Len(accepted) : accepted[j] \notin Elements(answered)
  /\ answered' = Append(answered, m)
  /\ UNCHANGED <<accepted, outcome>>

PromiseNext ==
  \/ \E m \in Messages : Accept(m) \/ Answer(m)
  \/ \E lines \in SUBSET Items, result \in {"saved", "failed"} :
       Settle(lines, result)

PromiseSpec == PromiseInit /\ [][PromiseNext]_promiseVars
=============================================================================
