------------------------------ MODULE Requests ------------------------------
(***************************************************************************)
(* The workers of the chats and the batcher over one parser, which fails   *)
(* and answers each of them as it likes.                                   *)
(***************************************************************************)
EXTENDS RecordBatch, Chatbot

vars == <<geminiVars, batchVars, chatVars>>

ASSUME WorkersAssumption == Callers = Chats \cup {Batcher} /\ Batcher \notin Chats

Init == GeminiInit /\ BatchInit /\ ChatInit

Next ==
  \/ GeminiNext /\ UNCHANGED <<batchVars, chatVars>>
  \/ BatchNext /\ UNCHANGED chatVars
  \/ ChatNext /\ UNCHANGED batchVars

(* Every goroutine that can go on does, a pause ends, and Gemini says         *)
(* something at last: its client has no timeout of its own.                   *)
Fairness ==
  /\ \A c \in Callers :
       WF_vars((Answer(c) \/ Unavailable(c) \/ Retry(c)) /\ UNCHANGED <<batchVars, chatVars>>)
  /\ WF_vars((ParseFails \/ Malformed \/ Parsed \/ RejectItem \/ SaveItem)
                /\ UNCHANGED chatVars)
  /\ \A c \in Chats :
       WF_vars((ParserFailed(c) \/ Report(c) \/ Amend(c) \/ SendReplies(c))
                 /\ UNCHANGED batchVars)

Spec == Init /\ [][Next]_vars
FairSpec == Spec /\ Fairness

\* The three parts have the values they are meant to have.
TypeOK == GeminiTypeOK /\ BatchTypeOK /\ ChatTypeOK

\* Every request ends, however long the parser is unavailable: a message is answered, and
\* the batch is done or put off.
RequestsEnd ==
  /\ \A c \in Chats : job[c].phase # "idle" ~> job[c].phase = "idle"
  /\ step \in {"parse", "save"} ~> step \in {"idle", "done"}
=============================================================================
