----------------------------- MODULE RecordAcks -----------------------------
(***************************************************************************)
(* The acks of RecordBatcher ("got it, working on it"), seen by the user:  *)
(* RecordBatcher with two history variables that remember which messages   *)
(* came in, and which were told to expect their result, since the last     *)
(* take opened a window.                                                   *)
(***************************************************************************)
EXTENDS RecordBatcher

VARIABLES window,    \* the messages push queued since the last take
          promised   \* the messages whose ack was skipped since, as imminent

acksVars == <<vars, window, promised>>

AcksInit == Init /\ window = {} /\ promised = {}

PushInWindow(m) ==
  Push(m) /\ window' = window \cup {m} /\ UNCHANGED promised

DecideAckInWindow(m) ==
  /\ DecideAck(m)
  /\ promised' = IF SkipsAck(m) THEN promised \cup {m} ELSE promised
  /\ UNCHANGED window

TakeOpensWindow == Take /\ window' = {} /\ promised' = {}

AcksNext ==
  \/ \E m \in Messages : PushInWindow(m) \/ DecideAckInWindow(m)
  \/ TakeOpensWindow
  \/ /\ \/ \E m \in Messages : PushBlank(m)
        \/ TimePasses \/ Cancel \/ Start \/ OnTick \/ Stop
        \/ Defer \/ FailBatch \/ ParseOk \/ RecordItem \/ Assign \/ Panic
     /\ UNCHANGED <<window, promised>>

AcksSpec == AcksInit /\ [][AcksNext]_acksVars

\* Of the messages a user gets in between two takes, at most one is acked, also
\* when the acks are decided after the window was closed.
OneAckPerWindow ==
  \A m, n \in window :
    UserOf[m] = UserOf[n] /\ ack[m] /\ ack[n] => m = n

\* The inductive invariant behind it.  A message may get the ack while its Enqueue has not
\* decided; of those that one user has in the window only one may.
MayGetAck(m) == ack[m] \/ pushed[m].isFirstAck

OneFirstPerWindow ==
  /\ window \subseteq Messages
  /\ \A m \in window : Queued(m) /\ UserOf[m] \in ackedUsers
  /\ \A m \in Messages : MayGetAck(m) => Queued(m)
  /\ \A m, n \in window :
       UserOf[m] = UserOf[n] /\ MayGetAck(m) /\ MayGetAck(n) => m = n

\* The comment of isResultImminent: "whether the next tick is within
\* ackSkipWindow and will include every item up to queueLen".  A message that was
\* told so has its lines within the next batch until that batch is taken.
ImminentIsNext ==
  \A m \in promised : \A i \in DOMAIN queue :
    queue[i].entry = m => i <= MaxBatchSize
=============================================================================
