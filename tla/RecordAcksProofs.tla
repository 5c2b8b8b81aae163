-------------------------- MODULE RecordAcksProofs --------------------------
(***************************************************************************)
(* Proofs about RecordAcks, for any users, messages and batches: of the    *)
(* messages a user gets in between two takes at most one is acked.         *)
(***************************************************************************)
EXTENDS RecordAcks, RecordBatcherProofs

\* The history variables take no step away from the batcher, and add none.
LEMMA AcksRefineBatcher == AcksSpec => Spec
  <1>1. AcksInit => Init
    BY DEF AcksInit
  <1>2. [AcksNext]_acksVars => [Next]_vars
    BY DEF AcksNext, acksVars, PushInWindow, DecideAckInWindow, TakeOpensWindow,
           Next, Steps
  <1>. QED
    BY <1>1, <1>2, PTL DEF AcksSpec, Spec

LEMMA InitAcks == AcksInit => OneFirstPerWindow
  BY DEF AcksInit, Init, OneFirstPerWindow, MayGetAck, NotPushed

LEMMA PushAcks ==
  ASSUME TypeOK, OneFirstPerWindow, NEW m \in Messages, PushInWindow(m)
  PROVE  OneFirstPerWindow'
  <1>1. /\ caller[m] = "new" /\ caller' = [caller EXCEPT ![m] = "pushed"]
        /\ ackedUsers' = ackedUsers \cup {UserOf[m]}
        /\ pushed' = [pushed EXCEPT ![m] = [isFirstAck |-> UserOf[m] \notin ackedUsers,
                                           queueLen |-> Len(queue) + LineCount[m]]]
        /\ ack' = ack
        /\ window' = window \cup {m}
    BY DEF PushInWindow, Push
  <1>2. /\ ~Queued(m) /\ Queued(m)' /\ m \notin window /\ ~MayGetAck(m)
        /\ \A n \in Messages : n # m => (Queued(n)' <=> Queued(n))
    BY <1>1 DEF Queued, TypeOK, OneFirstPerWindow
  <1>3. \A n \in Messages : n # m => (MayGetAck(n)' <=> MayGetAck(n))
    BY <1>1 DEF MayGetAck, TypeOK
  <1>4. MayGetAck(m)' => UserOf[m] \notin ackedUsers
    BY <1>1, <1>2 DEF MayGetAck, TypeOK
  <1>5. ASSUME NEW n \in window, UserOf[m] = UserOf[n], MayGetAck(m)'
        PROVE  FALSE
    BY <1>4, <1>5 DEF OneFirstPerWindow
  <1>6. window' \subseteq Messages
    BY <1>1 DEF OneFirstPerWindow
  <1>7. \A n \in window' : Queued(n)' /\ UserOf[n] \in ackedUsers'
    BY <1>1, <1>2, <1>6 DEF OneFirstPerWindow
  <1>8. \A n \in Messages : MayGetAck(n)' => Queued(n)'
    BY <1>2, <1>3 DEF OneFirstPerWindow
  <1>9. \A k, n \in window' :
          UserOf[k] = UserOf[n] /\ MayGetAck(k)' /\ MayGetAck(n)' => k = n
    BY <1>1, <1>2, <1>3, <1>5, <1>6 DEF OneFirstPerWindow
  <1>. QED
    BY <1>6, <1>7, <1>8, <1>9 DEF OneFirstPerWindow

LEMMA DecideAcks ==
  ASSUME TypeOK, OneFirstPerWindow, NEW m \in Messages, DecideAckInWindow(m)
  PROVE  OneFirstPerWindow'
  <1>1. /\ caller[m] = "pushed" /\ caller' = [caller EXCEPT ![m] = "returned"]
        /\ ack' = [ack EXCEPT ![m] = pushed[m].isFirstAck /\ ~SkipsAck(m)]
        /\ pushed' = [pushed EXCEPT ![m] = NotPushed]
        /\ ackedUsers' = ackedUsers /\ window' = window
    BY DEF DecideAckInWindow, DecideAck, queueVars
  <1>2. \A n \in Messages : Queued(n)' <=> Queued(n)
    BY <1>1 DEF Queued, TypeOK
  <1>3. \A n \in Messages : MayGetAck(n)' => MayGetAck(n)
    <2>1. ack'[m] => pushed[m].isFirstAck
      BY <1>1 DEF TypeOK
    <2>2. pushed'[m].isFirstAck = FALSE
      BY <1>1 DEF TypeOK, NotPushed
    <2>3. \A n \in Messages : n # m => ack'[n] = ack[n] /\ pushed'[n] = pushed[n]
      BY <1>1 DEF TypeOK
    <2>. QED
      BY <2>1, <2>2, <2>3 DEF MayGetAck
  <1>. QED
    BY <1>1, <1>2, <1>3 DEF OneFirstPerWindow

\* The others leave acks and callers alone; Take, which forgets who was acked, also opens
\* a new window, and PushBlank queues nothing.
LEMMA OtherAcks ==
  ASSUME TypeOK, OneFirstPerWindow,
         \/ TakeOpensWindow
         \/ UNCHANGED acksVars
         \/ /\ \/ \E m \in Messages : PushBlank(m)
               \/ TimePasses \/ Cancel \/ Start \/ OnTick \/ Stop
               \/ Defer \/ FailBatch \/ ParseOk \/ RecordItem \/ Assign \/ Panic
            /\ UNCHANGED <<window, promised>>
  PROVE  OneFirstPerWindow'
  <1>1. UNCHANGED <<ack, pushed>>
    BY DEF TakeOpensWindow, Take, PushBlank, TimePasses, Cancel, Start, OnTick, Stop, Defer,
           FailBatch, ParseOk, RecordItem, Assign, Panic, acksVars, vars, callerVars
  <1>2. \A m \in Messages : Queued(m)' <=> Queued(m)
    BY DEF TakeOpensWindow, Take, PushBlank, TimePasses, Cancel, Start, OnTick, Stop, Defer,
           FailBatch, ParseOk, RecordItem, Assign, Panic, acksVars, vars, callerVars,
           Queued, TypeOK
  <1>3. window' = {} \/ UNCHANGED <<window, ackedUsers>>
    BY DEF TakeOpensWindow, PushBlank, TimePasses, Cancel, Start, OnTick, Stop, Defer,
           FailBatch, ParseOk, RecordItem, Assign, Panic, acksVars, vars, queueVars
  <1>4. \A m : MayGetAck(m)' <=> MayGetAck(m)
    BY <1>1 DEF MayGetAck
  <1>. QED
    BY <1>2, <1>3, <1>4 DEF OneFirstPerWindow

\* Of the messages of one user in a window of the queue, at most one got, or may still get,
\* the canned ack: push decides under the lock, whoever decides about the ack later.
THEOREM OneFirstAck == AcksSpec => []OneFirstPerWindow
  <1>1. AcksInit => OneFirstPerWindow
    BY InitAcks
  <1>2. TypeOK /\ OneFirstPerWindow /\ [AcksNext]_acksVars => OneFirstPerWindow'
    BY PushAcks, DecideAcks, OtherAcks DEF AcksNext
  <1>. QED
    BY <1>1, <1>2, AcksRefineBatcher, BatcherTypeOK, PTL DEF AcksSpec

\* Between two takes a user gets at most one ack, however the pushes of the user's chats
\* and their decisions interleave with ticks and flushes (record_queue.go, ackedUsers).
THEOREM AcksComeOnce == AcksSpec => []OneAckPerWindow
  <1>1. OneFirstPerWindow => OneAckPerWindow
    BY DEF OneFirstPerWindow, OneAckPerWindow, MayGetAck
  <1>. QED
    BY <1>1, OneFirstAck, PTL
=============================================================================
