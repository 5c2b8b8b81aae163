------------------------ MODULE RecordBatcherProofs ------------------------
(***************************************************************************)
(* Proofs that hold for every set of messages, every number of lines and   *)
(* every batch size: the state of RecordBatcher is well typed, Consistent  *)
(* is an inductive invariant, and it implies NoLineTwice, SavedOnce and    *)
(* AnswersTrue.                                                            *)
(***************************************************************************)
EXTENDS RecordBatcher, SequenceTheorems, FiniteSetTheorems, TLAPS

-----------------------------------------------------------------------------
(* The lines of a message.                                                 *)

LEMMA ItemType ==
  ASSUME NEW m \in Messages, NEW l \in 1..LineCount[m]
  PROVE  [entry |-> m, line |-> l] \in Items
  <1>1. l \in LineNumbers
    BY DEF LineNumbers
  <1>2. l <= LineCount[m]
    BY LinesAssumption
  <1>. QED
    BY <1>1, <1>2 DEF Items

LEMMA ItemFields ==
  ASSUME NEW it \in Items
  PROVE  /\ it.entry \in Messages
         /\ it.line \in 1..LineCount[it.entry]
         /\ it = [entry |-> it.entry, line |-> it.line]
  <1>1. it.entry \in Messages /\ it.line \in LineNumbers
    BY DEF Items
  <1>2. PICK m \in Messages : it.line \in 1..LineCount[m]
    BY <1>1 DEF LineNumbers
  <1>3. it.line \in Nat /\ it.line >= 1
    BY <1>2, LinesAssumption
  <1>4. it.line <= LineCount[it.entry]
    BY DEF Items
  <1>. QED
    BY <1>1, <1>3, <1>4, LinesAssumption DEF Items

LEMMA LinesOfValue ==
  ASSUME NEW m \in Messages
  PROVE  /\ LineCount[m] \in Nat
         /\ DOMAIN LinesOf(m) = 1..LineCount[m]
         /\ \A l \in 1..LineCount[m] : LinesOf(m)[l] = [entry |-> m, line |-> l]
  BY LinesAssumption DEF LinesOf

LEMMA LinesOfType ==
  ASSUME NEW m \in Messages
  PROVE  /\ LinesOf(m) \in Seq(Items)
         /\ Len(LinesOf(m)) = LineCount[m]
         /\ \A l \in 1..LineCount[m] : LinesOf(m)[l] \in Items
  <1>1. \A l \in 1..LineCount[m] : [entry |-> m, line |-> l] \in Items
    BY ItemType
  <1>. QED
    BY <1>1, LinesOfValue DEF LinesOf

LEMMA LinesOfFields ==
  ASSUME NEW m \in Messages, NEW l \in 1..LineCount[m]
  PROVE  LinesOf(m)[l].entry = m /\ LinesOf(m)[l].line = l
  <1>1. LinesOf(m)[l] = [entry |-> m, line |-> l]
    BY LinesOfValue
  <1>2. [entry |-> m, line |-> l].entry = m /\ [entry |-> m, line |-> l].line = l
    OBVIOUS
  <1>. QED
    BY <1>1, <1>2

\* All the lines of m; LinesOf(m) enumerates them.
AllLines(m) == {it \in Items : it.entry = m}

LEMMA AllLinesFinite ==
  ASSUME NEW m \in Messages
  PROVE  IsFiniteSet(AllLines(m)) /\ Cardinality(AllLines(m)) = LineCount[m]
  <1> DEFINE f == LinesOf(m)
             n == LineCount[m]
  <1>1. n \in Nat
    BY LinesAssumption
  <1>2. \A l \in 1..n : f[l] = [entry |-> m, line |-> l] /\ f[l] \in AllLines(m)
    BY LinesOfType, LinesOfValue, LinesOfFields DEF AllLines
  <1>3. f \in [1..n -> AllLines(m)]
    BY <1>2 DEF LinesOf
  <1>4. \A k, l \in 1..n : f[k] = f[l] => k = l
    <2>1. \A l \in 1..n : f[l].line = l
      BY LinesOfFields
    <2>. QED
      BY <2>1
  <1>5. \A it \in AllLines(m) : \E l \in 1..n : f[l] = it
    <2>1. ASSUME NEW it \in AllLines(m)
          PROVE  it.line \in 1..n /\ it = [entry |-> m, line |-> it.line]
      BY ItemFields DEF AllLines
    <2>. QED
      BY <1>2, <2>1
  <1>6. f \in Bijection(1..n, AllLines(m))
    BY <1>3, <1>4, <1>5 DEF Bijection, Injection, Surjection, IsInjective
  <1>7. ExistsBijection(1..n, AllLines(m))
    BY <1>6 DEF ExistsBijection
  <1>. QED
    BY <1>1, <1>7, FS_CountingElements, FS_NatBijection

LEMMA OpenFinite ==
  ASSUME NEW m \in Messages
  PROVE  IsFiniteSet(Open(m))
  BY AllLinesFinite, FS_Subset DEF Open, AllLines

\* What a take leaves in the batch and in the queue is what was queued.
LEMMA TakeSplits ==
  ASSUME NEW S, NEW s \in Seq(S), NEW n \in 0..Len(s)
  PROVE  /\ SubSeq(s, 1, n) \in Seq(S)
         /\ Len(SubSeq(s, 1, n)) = n
         /\ SubSeq(s, n + 1, Len(s)) \in Seq(S)
         /\ Len(SubSeq(s, n + 1, Len(s))) = Len(s) - n
         /\ SubSeq(s, 1, n) \o SubSeq(s, n + 1, Len(s)) = s
  <1>1. \A i \in 1..Len(s) : s[i] \in S
    BY ElementOfSeq
  <1>2. Len(s) \in Nat
    BY LenProperties
  <1>3. SubSeq(s, 1, n) \in Seq(S) /\ Len(SubSeq(s, 1, n)) = n
    BY <1>1, <1>2, SubSeqProperties
  <1>4. /\ SubSeq(s, n + 1, Len(s)) \in Seq(S)
        /\ Len(SubSeq(s, n + 1, Len(s))) = Len(s) - n
    BY <1>1, <1>2, SubSeqProperties
  <1>5. SubSeq(s, 1, n) \o SubSeq(s, n + 1, Len(s)) = SubSeq(s, 1, Len(s))
    <2>1. 1 \in 1..Len(s) + 1 /\ n \in 1 - 1..Len(s) /\ Len(s) \in n..Len(s)
      BY <1>2
    <2>. QED
      BY <2>1, ConcatAdjacentSubSeq
  <1>. QED
    BY <1>3, <1>4, <1>5, SubSeqFull

-----------------------------------------------------------------------------
(* Type correctness.  Assign and Panic decrement remaining, which stays a    *)
(* natural number only because it counts the open lines (RemainingCounts).   *)

LEMMA BatchItem ==
  ASSUME TypeOK, batch # <<>>
  PROVE  /\ pos \in 1..Len(batch)
         /\ batch[pos] \in Items
         /\ batch[pos].entry \in Messages
  <1>1. pos \in 1..Len(batch)
    BY LenProperties DEF TypeOK
  <1>2. batch[pos] \in Items
    BY <1>1, ElementOfSeq DEF TypeOK
  <1>. QED
    BY <1>1, <1>2, ItemFields

LEMMA InitType == Init => TypeOK
  BY UsersAssumption, LinesAssumption, EmptySeq
  DEF Init, TypeOK, NotPushed, Outcomes

LEMMA CallerTypes ==
  ASSUME TypeOK, NEW m \in Messages, PushBlank(m) \/ Push(m) \/ DecideAck(m)
  PROVE  TypeOK'
  <1>1. CASE PushBlank(m)
    BY <1>1 DEF PushBlank, TypeOK, queueVars, entryVars, timeVars, loopVars, storeVars
  <1>2. CASE Push(m)
    <2>1. queue' \in Seq(Items)
      BY <1>2, LinesOfType, ConcatProperties DEF Push, TypeOK
    <2>2. LineCount[m] \in Nat /\ Len(queue) \in Nat /\ UserOf[m] \in Users
      BY LinesAssumption, UsersAssumption, LenProperties DEF TypeOK
    <2>3. accepted' \in Seq(Messages)
      BY <1>2, AppendProperties DEF Push, TypeOK
    <2>4. pushed' \in [Messages -> [isFirstAck : BOOLEAN, queueLen : Nat]]
      BY <1>2, <2>2 DEF Push, TypeOK
    <2>. QED
      BY <1>2, <2>1, <2>2, <2>3, <2>4
      DEF Push, TypeOK, timeVars, loopVars, storeVars
  <1>3. CASE DecideAck(m)
    <2>1. ack' \in [Messages -> BOOLEAN]
      BY <1>3 DEF DecideAck, TypeOK
    <2>2. pushed' \in [Messages -> [isFirstAck : BOOLEAN, queueLen : Nat]]
      BY <1>3 DEF DecideAck, TypeOK, NotPushed
    <2>. QED
      BY <1>3, <2>1, <2>2
      DEF DecideAck, TypeOK, queueVars, entryVars, timeVars, loopVars, storeVars
  <1>. QED
    BY <1>1, <1>2, <1>3

LEMMA IdleTypes ==
  ASSUME TypeOK, TimePasses \/ Cancel \/ Start \/ OnTick \/ Stop
  PROVE  TypeOK'
  BY DEF TimePasses, Cancel, Start, OnTick, Stop, TypeOK, queueVars, entryVars,
         timeVars, callerVars, loopVars, storeVars

LEMMA TakeType ==
  ASSUME TypeOK, Take
  PROVE  /\ TypeOK'
         /\ Waiting' = Waiting
         /\ queue = batch' \o queue'
         /\ batch = <<>>
  <1> DEFINE n == Smaller(MaxBatchSize, Len(queue))
  <1>1. Len(queue) \in Nat /\ n \in 0..Len(queue) /\ (n = 0 <=> Len(queue) = 0)
    BY BatchAssumption, LenProperties DEF TypeOK, Smaller
  <1>2. /\ batch' = SubSeq(queue, 1, n)
        /\ queue' = SubSeq(queue, n + 1, Len(queue))
    BY DEF Take
  <1> HIDE DEF n
  <1>3. /\ batch' \in Seq(Items) /\ Len(batch') = n
        /\ queue' \in Seq(Items)
        /\ batch' \o queue' = queue
    <2>1. queue \in Seq(Items)
      BY DEF TypeOK
    <2>2. /\ SubSeq(queue, 1, n) \in Seq(Items)
          /\ Len(SubSeq(queue, 1, n)) = n
          /\ SubSeq(queue, n + 1, Len(queue)) \in Seq(Items)
          /\ SubSeq(queue, 1, n) \o SubSeq(queue, n + 1, Len(queue)) = queue
      BY <1>1, <2>1, TakeSplits
    <2>. QED
      BY <1>2, <2>2
  <1>4. batch = <<>>
    BY DEF Take, TypeOK
  <1>5. n = 0 <=> batch' = <<>>
    BY <1>3, EmptySeq
  <1>6. pc' = (IF n = 0 THEN "wait" ELSE "parse") /\ pos' = 1 /\ ackedUsers' = {}
    BY DEF Take, n
  <1>7. TypeOK'
    <2>1. (pc' \in {"parse", "save", "assign"}) = (batch' # <<>>)
      BY <1>5, <1>6
    <2>2. batch' # <<>> => pos' <= Len(batch')
      BY <1>1, <1>3, <1>5, <1>6
    <2>3. pc' \in {"start", "wait", "take", "parse", "save", "assign", "stopped"}
      BY <1>6
    <2>4. UNCHANGED <<remaining, results, nextFlushAt, ctx, caller, pushed, ack,
                      outcome, rows, delivered, accepted>>
      BY DEF Take, entryVars, timeVars, callerVars, storeVars
    <2>. QED
      BY <1>3, <1>6, <2>1, <2>2, <2>3, <2>4 DEF TypeOK
  <1>8. Waiting = queue
    BY <1>4, ConcatEmptySeq DEF Waiting, TypeOK
  <1>. QED
    BY <1>3, <1>4, <1>7, <1>8 DEF Waiting

LEMMA ParseTypes ==
  ASSUME TypeOK, Defer \/ FailBatch \/ ParseOk
  PROVE  TypeOK'
  <1>1. CASE Defer
    <2>1. queue' \in Seq(Items)
      BY <1>1, ConcatProperties DEF Defer, TypeOK
    <2>. QED
      BY <1>1, <2>1, EmptySeq
      DEF Defer, EndFlush, TypeOK, entryVars, timeVars, callerVars, storeVars
  <1>2. CASE FailBatch
    <2>1. outcome' \in [Items -> Outcomes]
      BY <1>2 DEF FailBatch, TypeOK, Outcomes
    <2>2. pc = "parse" /\ pc' = "assign" /\ pos' = 1 /\ batch' = batch
      BY <1>2 DEF FailBatch
    <2>3. batch # <<>> /\ 1 <= Len(batch)
      BY <2>2, EmptySeq DEF TypeOK
    <2>4. UNCHANGED <<queue, ackedUsers, remaining, results, nextFlushAt, ctx,
                      caller, pushed, ack, rows, delivered, accepted>>
      BY <1>2 DEF FailBatch, queueVars, entryVars, timeVars, callerVars
    <2>. QED
      BY <2>1, <2>2, <2>3, <2>4 DEF TypeOK
  <1>3. CASE ParseOk
    <2>1. batch # <<>> /\ 1 <= Len(batch)
      BY <1>3, EmptySeq DEF ParseOk, TypeOK
    <2>. QED
      BY <1>3, <2>1
      DEF ParseOk, TypeOK, queueVars, entryVars, timeVars, callerVars, storeVars
  <1>. QED
    BY <1>1, <1>2, <1>3

LEMMA RecordItemType ==
  ASSUME TypeOK, RecordItem
  PROVE  TypeOK'
  <1>1. batch # <<>> /\ pc = "save"
    BY DEF RecordItem, TypeOK
  <1>2. pos \in 1..Len(batch) /\ Len(batch) \in Nat /\ batch[pos] \in Items
    BY <1>1, BatchItem, LenProperties DEF TypeOK
  <1>3. rows' \in [Items -> Nat] /\ outcome' \in [Items -> Outcomes]
    <2>1. rows \in [Items -> Nat] /\ outcome \in [Items -> Outcomes]
      BY DEF TypeOK
    <2>2. \/ /\ rows' = [rows EXCEPT ![batch[pos]] = @ + 1]
             /\ outcome' = [outcome EXCEPT ![batch[pos]] = "saved"]
          \/ /\ outcome' = [outcome EXCEPT ![batch[pos]] = "failed"]
             /\ rows' = rows
      BY DEF RecordItem
    <2>. QED
      BY <1>2, <2>1, <2>2 DEF Outcomes
  <1>4. pos' \in 1..Len(batch) /\ pc' \in {"save", "assign"} /\ batch' = batch
    BY <1>1, <1>2 DEF RecordItem, Advance
  <1>5. UNCHANGED <<queue, ackedUsers, remaining, results, nextFlushAt, ctx,
                    caller, pushed, ack, delivered, accepted>>
    BY DEF RecordItem, queueVars, entryVars, timeVars, callerVars
  <1>. QED
    BY <1>1, <1>3, <1>4, <1>5, SMTT(30) DEF TypeOK

\* The line at pos is open, and its message counts it.
LEMMA CurrentIsOpen ==
  ASSUME TypeOK, Consistent, pc = "assign"
  PROVE  LET it == batch[pos] IN
         /\ it \in Items
         /\ it.entry \in Messages
         /\ it \in Open(it.entry)
         /\ Queued(it.entry)
         /\ outcome[it] # "none"
         /\ IsFiniteSet(Open(it.entry))
         /\ remaining[it.entry] = Cardinality(Open(it.entry))
         /\ remaining[it.entry] \in Nat \ {0}
  <1> DEFINE it == batch[pos]
  <1>1. batch # <<>>
    BY DEF TypeOK
  <1>2. pos \in 1..Len(batch) /\ it \in Items /\ it.entry \in Messages
    BY <1>1, BatchItem
  <1>3. /\ batch \in Seq(Items) /\ queue \in Seq(Items)
        /\ DOMAIN batch = 1..Len(batch) /\ Len(batch) \in Nat /\ Len(queue) \in Nat
    BY LenProperties DEF TypeOK
  <1>4. outcome[it] # "none" /\ results[it] = "none"
    BY <1>2, <1>3 DEF Consistent, BatchProgress
  <1>5. Queued(it.entry)
    <2>1. /\ pos \in 1..Len(batch) + Len(queue)
          /\ (batch \o queue)[pos] = it
          /\ batch \o queue \in Seq(Items)
          /\ Len(batch \o queue) = Len(batch) + Len(queue)
      BY <1>2, <1>3, ConcatProperties
    <2>2. pos \in DOMAIN Waiting /\ Waiting[pos] = it
      BY <2>1, LenProperties DEF Waiting
    <2>. QED
      BY <2>2 DEF Consistent, WaitingWasQueued
  <1>6. it \in Open(it.entry)
    BY <1>2, <1>4 DEF Open
  <1>7. IsFiniteSet(Open(it.entry))
    BY <1>2, OpenFinite
  <1>8. remaining[it.entry] = Cardinality(Open(it.entry))
    BY <1>2, <1>5 DEF Consistent, RemainingCounts
  <1>9. Cardinality(Open(it.entry)) \in Nat \ {0}
    BY <1>6, <1>7, FS_CardinalityType, FS_EmptySet
  <1>. QED
    BY <1>2, <1>4, <1>5, <1>6, <1>7, <1>8, <1>9

LEMMA StoreResultType ==
  ASSUME TypeOK, Consistent, pc = "assign", StoreResult(batch[pos])
  PROVE  /\ results' \in [Items -> Outcomes]
         /\ remaining' \in [Messages -> Nat]
  <1>1. /\ batch[pos] \in Items /\ batch[pos].entry \in Messages
        /\ remaining[batch[pos].entry] \in Nat \ {0}
    BY CurrentIsOpen
  <1>2. /\ results \in [Items -> Outcomes] /\ outcome \in [Items -> Outcomes]
        /\ remaining \in [Messages -> Nat]
    BY DEF TypeOK
  <1>3. /\ results' = [results EXCEPT ![batch[pos]] = outcome[batch[pos]]]
        /\ remaining' = [remaining EXCEPT ![batch[pos].entry] = @ - 1]
    BY DEF StoreResult
  <1>. QED
    BY <1>1, <1>2, <1>3

LEMMA AssignType ==
  ASSUME TypeOK, Consistent, Assign
  PROVE  TypeOK'
  <1>1. pc = "assign" /\ batch # <<>>
    BY DEF Assign, TypeOK
  <1>2. /\ pos \in 1..Len(batch) /\ batch[pos].entry \in Messages
        /\ Len(batch) \in Nat
    BY <1>1, BatchItem, LenProperties DEF TypeOK
  <1>3. results' \in [Items -> Outcomes] /\ remaining' \in [Messages -> Nat]
    BY <1>1, StoreResultType DEF Assign
  <1>4. delivered' \in Seq(Messages)
    BY <1>2, AppendProperties DEF Assign, TypeOK
  <1>5. \/ /\ pos < Len(batch) /\ pos' = pos + 1 /\ pc' = pc /\ batch' = batch
        \/ pc' = "wait" /\ batch' = <<>> /\ pos' = 1
    BY DEF Assign, EndFlush
  <1>6. UNCHANGED <<queue, ackedUsers, nextFlushAt, ctx, caller, pushed, ack,
                    outcome, rows, accepted>>
    BY DEF Assign, queueVars, timeVars, callerVars, storeVars
  <1>7. batch \in Seq(Items) /\ <<>> \in Seq(Items)
    BY EmptySeq DEF TypeOK
  <1>8. /\ batch' \in Seq(Items) /\ pos' \in Nat \ {0}
        /\ (pc' \in {"parse", "save", "assign"}) = (batch' # <<>>)
        /\ batch' # <<>> => pos' <= Len(batch')
        /\ pc' \in {"assign", "wait"}
    <2>1. CASE pos < Len(batch) /\ pos' = pos + 1 /\ pc' = pc /\ batch' = batch
      BY <1>1, <1>2, <1>7, <2>1
    <2>2. CASE pc' = "wait" /\ batch' = <<>> /\ pos' = 1
      BY <1>7, <2>2
    <2>. QED
      BY <1>5, <2>1, <2>2
  <1>. QED
    BY <1>3, <1>4, <1>6, <1>8 DEF TypeOK

LEMMA PanicType ==
  ASSUME TypeOK, Consistent, Panic
  PROVE  TypeOK'
  <1>1. results' \in [Items -> Outcomes] /\ remaining' \in [Messages -> Nat]
    BY StoreResultType DEF Panic, entryVars, TypeOK
  <1>2. pc' = "wait" /\ batch' = <<>> /\ pos' = 1
    BY DEF Panic, EndFlush
  <1>3. UNCHANGED <<queue, ackedUsers, nextFlushAt, ctx, caller, pushed, ack,
                    outcome, rows, delivered, accepted>>
    BY DEF Panic, queueVars, timeVars, callerVars, storeVars
  <1>. QED
    BY <1>1, <1>2, <1>3, EmptySeq DEF TypeOK

LEMMA NextType == TypeOK /\ Consistent /\ [Next]_vars => TypeOK'
  <1> SUFFICES ASSUME TypeOK, Consistent, [Next]_vars
               PROVE  TypeOK'
    OBVIOUS
  <1>1. CASE \E m \in Messages : PushBlank(m) \/ Push(m) \/ DecideAck(m)
    BY <1>1, CallerTypes
  <1>2. CASE TimePasses \/ Cancel \/ Start \/ OnTick \/ Stop
    BY <1>2, IdleTypes
  <1>3. CASE Take
    BY <1>3, TakeType
  <1>4. CASE Defer \/ FailBatch \/ ParseOk
    BY <1>4, ParseTypes
  <1>5. CASE RecordItem
    BY <1>5, RecordItemType
  <1>6. CASE Assign
    BY <1>6, AssignType
  <1>7. CASE Panic
    BY <1>7, PanicType
  <1>8. CASE UNCHANGED vars
    BY <1>8 DEF vars, queueVars, entryVars, timeVars, callerVars, loopVars,
                storeVars, TypeOK
  <1>. QED
    BY <1>1, <1>2, <1>3, <1>4, <1>5, <1>6, <1>7, <1>8 DEF Next, Steps

-----------------------------------------------------------------------------
(* Consistent is inductive.                                                *)

LEMMA ConcatFacts ==
  ASSUME NEW S, NEW s \in Seq(S), NEW t \in Seq(S)
  PROVE  /\ s \o t \in Seq(S)
         /\ Len(s) \in Nat /\ Len(t) \in Nat
         /\ DOMAIN s = 1..Len(s)
         /\ DOMAIN t = 1..Len(t)
         /\ DOMAIN (s \o t) = 1..(Len(s) + Len(t))
         /\ \A i \in DOMAIN (s \o t) :
              (s \o t)[i] = IF i <= Len(s) THEN s[i] ELSE t[i - Len(s)]
         /\ \A i \in DOMAIN s : s[i] \in S
         /\ \A i \in DOMAIN t : t[i] \in S
  <1>1. /\ s \o t \in Seq(S)
        /\ Len(s \o t) = Len(s) + Len(t)
        /\ \A i \in 1..(Len(s) + Len(t)) :
             (s \o t)[i] = IF i <= Len(s) THEN s[i] ELSE t[i - Len(s)]
    BY ConcatProperties
  <1>. QED
    BY <1>1, LenProperties, ElementOfSeq

LEMMA WaitingFacts ==
  ASSUME TypeOK
  PROVE  /\ batch \in Seq(Items) /\ queue \in Seq(Items) /\ Waiting \in Seq(Items)
         /\ Len(batch) \in Nat /\ Len(queue) \in Nat
         /\ DOMAIN batch = 1..Len(batch)
         /\ DOMAIN queue = 1..Len(queue)
         /\ DOMAIN Waiting = 1..(Len(batch) + Len(queue))
         /\ \A i \in DOMAIN Waiting :
              Waiting[i] = IF i <= Len(batch) THEN batch[i] ELSE queue[i - Len(batch)]
         /\ \A i \in DOMAIN batch : batch[i] \in Items
         /\ \A i \in DOMAIN queue : queue[i] \in Items
  BY ConcatFacts DEF TypeOK, Waiting

LEMMA PlacesDiffer ==
  ASSUME TypeOK, NoLineTwice
  PROVE  /\ \A i \in DOMAIN batch, j \in DOMAIN queue : batch[i] # queue[j]
         /\ \A i, j \in DOMAIN batch : batch[i] = batch[j] => i = j
         /\ \A i, j \in DOMAIN queue : queue[i] = queue[j] => i = j
  <1>1. \A i \in DOMAIN batch : i \in DOMAIN Waiting /\ Waiting[i] = batch[i]
    BY WaitingFacts
  <1>2. \A j \in DOMAIN queue : /\ j + Len(batch) \in DOMAIN Waiting
                                /\ Waiting[j + Len(batch)] = queue[j]
    BY WaitingFacts
  <1>3. \A i, j \in DOMAIN Waiting : Waiting[i] = Waiting[j] => i = j
    BY DEF NoLineTwice
  <1>. QED
    BY <1>1, <1>2, <1>3, WaitingFacts

LEMMA ConcatElements ==
  ASSUME NEW S, NEW s \in Seq(S), NEW t \in Seq(S)
  PROVE  \A i \in DOMAIN (s \o t) : \/ \E j \in DOMAIN s : (s \o t)[i] = s[j]
                                   \/ \E j \in DOMAIN t : (s \o t)[i] = t[j]
  BY ConcatFacts

\* Two sequences without repetition and without a common element.
LEMMA ConcatDistinct ==
  ASSUME NEW S, NEW s \in Seq(S), NEW t \in Seq(S),
         \A i \in DOMAIN s, j \in DOMAIN t : s[i] # t[j],
         \A i, j \in DOMAIN s : s[i] = s[j] => i = j,
         \A i, j \in DOMAIN t : t[i] = t[j] => i = j
  PROVE  \A i, j \in DOMAIN (s \o t) : (s \o t)[i] = (s \o t)[j] => i = j
  BY ConcatFacts

LEMMA InitConsistent == Init => Consistent
  <1> SUFFICES ASSUME Init PROVE Consistent
    OBVIOUS
  <1>1. TypeOK
    BY InitType
  <1>2. DOMAIN Waiting = {} /\ DOMAIN queue = {} /\ DOMAIN batch = {}
    BY <1>1, WaitingFacts DEF Init
  <1>3. Elements(delivered) = {}
    BY DEF Init, Elements
  <1>. QED
    BY <1>2, <1>3
    DEF Init, Consistent, NoLineTwice, WaitingWasQueued, BatchProgress,
        StoresAgree, RemainingCounts, Queued

\* Steps that move no line, such as DecideAck and the ticks.
LEMMA NothingMoves ==
  ASSUME TypeOK, Consistent,
         UNCHANGED <<queue, batch, outcome, rows, results, remaining, delivered>>,
         \A m \in Messages : Queued(m)' <=> Queued(m),
         BatchProgress'
  PROVE  Consistent'
  <1>1. Waiting' = Waiting /\ \A m : Open(m)' = Open(m)
    BY DEF Waiting, Open
  <1>2. NoLineTwice'
    BY <1>1 DEF Consistent, NoLineTwice
  <1>3. \A it \in Items : it.entry \in Messages
    BY ItemFields
  <1>4. \A i \in DOMAIN Waiting : Waiting[i] \in Items
    BY WaitingFacts
  <1>5. WaitingWasQueued'
    BY <1>1, <1>3, <1>4 DEF Consistent, WaitingWasQueued
  <1>6. StoresAgree'
    BY DEF Consistent, StoresAgree
  <1>7. RemainingCounts'
    BY <1>1 DEF Consistent, RemainingCounts
  <1>. QED
    BY <1>2, <1>5, <1>6, <1>7 DEF Consistent

LEMMA IdleConsistent ==
  ASSUME TypeOK, Consistent,
         TimePasses \/ Cancel \/ Start \/ OnTick \/ Stop \/ UNCHANGED vars
  PROVE  Consistent'
  <1>1. /\ UNCHANGED <<queue, batch, outcome, rows, results, remaining,
                       delivered, caller>>
        /\ (pc' = pc /\ pos' = pos) \/ batch = <<>>
    BY DEF TimePasses, Cancel, Start, OnTick, Stop, TypeOK, vars, queueVars,
           entryVars, timeVars, callerVars, loopVars, storeVars
  <1>2. BatchProgress'
    BY <1>1 DEF Consistent, BatchProgress
  <1>3. \A m \in Messages : Queued(m)' <=> Queued(m)
    BY <1>1 DEF Queued
  <1>. QED
    BY <1>1, <1>2, <1>3, NothingMoves

LEMMA EnqueueConsistent ==
  ASSUME TypeOK, Consistent, NEW m \in Messages, PushBlank(m) \/ DecideAck(m)
  PROVE  Consistent'
  <1>1. /\ UNCHANGED <<queue, batch, outcome, rows, results, remaining,
                       delivered, pc, pos>>
        /\ \/ caller[m] = "new" /\ caller' = [caller EXCEPT ![m] = "ignored"]
           \/ caller[m] = "pushed" /\ caller' = [caller EXCEPT ![m] = "returned"]
    BY DEF PushBlank, DecideAck, queueVars, entryVars, timeVars, loopVars, storeVars
  <1>2. BatchProgress'
    BY <1>1 DEF Consistent, BatchProgress
  <1>3. \A n \in Messages : Queued(n)' <=> Queued(n)
    BY <1>1 DEF Queued, TypeOK
  <1>. QED
    BY <1>1, <1>2, <1>3, NothingMoves

LEMMA PushConsistent ==
  ASSUME TypeOK, Consistent, NEW m \in Messages, Push(m)
  PROVE  Consistent'
  <1> DEFINE lines == LinesOf(m)
  <1>1. /\ queue' = queue \o lines
        /\ caller[m] = "new"
        /\ caller' = [caller EXCEPT ![m] = "pushed"]
        /\ remaining' = [remaining EXCEPT ![m] = LineCount[m]]
        /\ UNCHANGED <<batch, outcome, rows, results, delivered, pc, pos>>
    BY DEF Push, timeVars, loopVars, storeVars
  <1>2. /\ ~Queued(m)
        /\ Queued(m)'
        /\ \A n \in Messages : n # m => (Queued(n)' <=> Queued(n))
    BY <1>1 DEF Queued, TypeOK
  <1>3. /\ lines \in Seq(Items)
        /\ \A l \in DOMAIN lines : /\ lines[l] \in Items
                                   /\ lines[l].entry = m
                                   /\ lines[l].line = l
    BY LinesOfType, LinesOfFields, LinesOfValue
  <1>4. /\ batch \in Seq(Items) /\ queue \in Seq(Items) /\ Waiting \in Seq(Items)
        /\ lines \in Seq(Items)
    BY WaitingFacts, LinesOfType
  <1> HIDE DEF lines
  <1>5. Waiting' = Waiting \o lines
    <2>1. batch \o (queue \o lines) = (batch \o queue) \o lines
      BY <1>4, ConcatAssociative, SMTT(30)
    <2>. QED
      BY <1>1, <2>1 DEF Waiting
  <1>6. \A i \in DOMAIN Waiting : /\ Waiting[i] \in Items
                                  /\ Waiting[i].entry \in Messages \ {m}
                                  /\ Queued(Waiting[i].entry)
    BY <1>2, <1>4, ElementOfSeq, LenProperties, ItemFields
    DEF Consistent, WaitingWasQueued
  <1>7. \A it \in Items : it.entry = m => outcome[it] = "none" /\ results[it] = "none"
    BY <1>2 DEF Consistent, WaitingWasQueued, StoresAgree
  <1>8. NoLineTwice'
    <2>1. \A i, j \in DOMAIN Waiting' : Waiting'[i] = Waiting'[j] => i = j
      <3>1. \A i \in DOMAIN Waiting, j \in DOMAIN lines : Waiting[i] # lines[j]
        BY <1>3, <1>6
      <3>2. \A i, j \in DOMAIN lines : lines[i] = lines[j] => i = j
        BY <1>3
      <3>3. \A i, j \in DOMAIN Waiting : Waiting[i] = Waiting[j] => i = j
        BY DEF Consistent, NoLineTwice
      <3>. QED
        BY <1>3, <1>4, <1>5, <3>1, <3>2, <3>3, ConcatDistinct
    <2>2. ASSUME NEW i \in DOMAIN queue'
          PROVE  outcome'[queue'[i]] = "none"
      <3>1. \/ \E j \in DOMAIN queue : queue'[i] = queue[j]
            \/ \E l \in DOMAIN lines : queue'[i] = lines[l]
        <4>1. \A k \in DOMAIN (queue \o lines) :
                \/ \E j \in DOMAIN queue : (queue \o lines)[k] = queue[j]
                \/ \E j \in DOMAIN lines : (queue \o lines)[k] = lines[j]
          BY <1>4, ConcatElements
        <4>. QED
          BY <1>1, <4>1
      <3>. QED
        BY <1>1, <1>3, <1>7, <3>1 DEF Consistent, NoLineTwice
    <2>. QED
      BY <2>1, <2>2 DEF NoLineTwice
  <1>9. WaitingWasQueued'
    <2>1. ASSUME NEW i \in DOMAIN Waiting'
          PROVE  Queued(Waiting[i].entry)'
      <3>1. \/ \E j \in DOMAIN Waiting : Waiting'[i] = Waiting[j]
            \/ \E l \in DOMAIN lines : Waiting'[i] = lines[l]
        <4>1. ASSUME NEW w \in Seq(Items)
              PROVE  \A k \in DOMAIN (w \o lines) :
                       \/ \E j \in DOMAIN w : (w \o lines)[k] = w[j]
                       \/ \E j \in DOMAIN lines : (w \o lines)[k] = lines[j]
          <5>1. lines \in Seq(Items)
            BY <1>4
          <5>. QED
            BY <4>1, <5>1, ConcatElements
        <4>. QED
          BY <1>4, <1>5, <4>1
      <3>2. Waiting'[i].entry = m \/ (Waiting'[i].entry \in Messages \ {m}
                                      /\ Queued(Waiting'[i].entry))
        BY <1>3, <1>6, <3>1
      <3>. QED
        BY <1>1, <3>2 DEF Queued, TypeOK
    <2>2. ASSUME NEW it \in Items, ~Queued(it.entry)'
          PROVE  outcome'[it] = "none"
      <3>1. it.entry \in Messages
        BY ItemFields
      <3>2. ~Queued(it.entry)
        BY <1>1, <2>2, <3>1 DEF Queued, TypeOK
      <3>. QED
        BY <1>1, <3>2 DEF Consistent, WaitingWasQueued
    <2>. QED
      BY <2>1, <2>2 DEF WaitingWasQueued
  <1>10. BatchProgress' /\ StoresAgree'
    BY <1>1 DEF Consistent, BatchProgress, StoresAgree
  <1>11. RemainingCounts'
    <2>1. \A n : Open(n)' = Open(n)
      BY <1>1 DEF Open
    <2>2. Open(m) = AllLines(m)
      BY <1>7 DEF Open, AllLines
    <2>3. remaining'[m] = Cardinality(Open(m)')
      BY <1>1, <2>1, <2>2, AllLinesFinite DEF TypeOK
    <2>4. \A n \in Messages : n # m => remaining'[n] = remaining[n]
      BY <1>1 DEF TypeOK
    <2>. QED
      BY <1>1, <1>2, <2>1, <2>3, <2>4 DEF Consistent, RemainingCounts
  <1>. QED
    BY <1>8, <1>9, <1>10, <1>11 DEF Consistent

LEMMA TakeConsistent ==
  ASSUME TypeOK, Consistent, Take
  PROVE  Consistent'
  <1>1. Waiting' = Waiting /\ queue = batch' \o queue' /\ batch = <<>> /\ TypeOK'
    BY TakeType
  <1>2. /\ UNCHANGED <<remaining, results, caller, outcome, rows, delivered>>
        /\ pc' \in {"wait", "parse"}
        /\ pc' = "wait" <=> batch' = <<>>
    <2>1. UNCHANGED <<remaining, results, caller, outcome, rows, delivered>>
      BY DEF Take, entryVars, callerVars, storeVars
    <2>2. pc' \in {"wait", "parse"}
      BY DEF Take
    <2>3. pc' = "wait" <=> batch' = <<>>
      BY <1>1, <2>2 DEF TypeOK
    <2>. QED
      BY <2>1, <2>2, <2>3
  <1>3. /\ batch' \in Seq(Items) /\ queue' \in Seq(Items)
    BY <1>1 DEF TypeOK
  <1>4. /\ \A i \in DOMAIN batch' : \E j \in DOMAIN queue : batch'[i] = queue[j]
        /\ \A i \in DOMAIN queue' : \E j \in DOMAIN queue : queue'[i] = queue[j]
    <2>1. /\ Len(batch') \in Nat /\ Len(queue') \in Nat
          /\ DOMAIN batch' = 1..Len(batch') /\ DOMAIN queue' = 1..Len(queue')
          /\ DOMAIN queue = 1..(Len(batch') + Len(queue'))
          /\ \A i \in DOMAIN queue :
               queue[i] = IF i <= Len(batch') THEN batch'[i] ELSE queue'[i - Len(batch')]
      BY <1>1, <1>3, ConcatFacts
    <2>2. ASSUME NEW i \in DOMAIN queue'
          PROVE  i + Len(batch') \in DOMAIN queue /\ queue[i + Len(batch')] = queue'[i]
      BY <2>1
    <2>3. ASSUME NEW i \in DOMAIN batch'
          PROVE  i \in DOMAIN queue /\ queue[i] = batch'[i]
      BY <2>1
    <2>. QED
      BY <2>2, <2>3
  <1>5. \A j \in DOMAIN queue : queue[j] \in Items /\ outcome[queue[j]] = "none"
    BY WaitingFacts DEF Consistent, NoLineTwice
  <1>6. \A j \in DOMAIN queue : results[queue[j]] = "none"
    BY <1>5 DEF Consistent, StoresAgree
  <1>7. NoLineTwice'
    BY <1>1, <1>2, <1>4, <1>5 DEF Consistent, NoLineTwice
  <1>8. WaitingWasQueued'
    BY <1>1, <1>2 DEF Consistent, WaitingWasQueued, Queued
  <1>9. BatchProgress'
    <2>1. CASE pc' = "wait"
      BY <1>2, <2>1 DEF BatchProgress
    <2>2. CASE pc' = "parse"
      BY <1>2, <1>4, <1>5, <1>6, <2>2 DEF BatchProgress
    <2>. QED
      BY <1>2, <2>1, <2>2
  <1>10. StoresAgree' /\ RemainingCounts'
    BY <1>2 DEF Consistent, StoresAgree, RemainingCounts, Open, Queued
  <1>. QED
    BY <1>7, <1>8, <1>9, <1>10 DEF Consistent

LEMMA DeferConsistent ==
  ASSUME TypeOK, Consistent, Defer
  PROVE  Consistent'
  <1>1. /\ pc = "parse" /\ queue' = batch \o queue /\ batch' = <<>>
        /\ UNCHANGED <<remaining, results, caller, outcome, rows, delivered>>
    BY DEF Defer, EndFlush, entryVars, callerVars, storeVars
  <1>2. queue' = Waiting /\ Waiting' = Waiting
    BY <1>1, WaitingFacts, ConcatEmptySeq DEF Waiting
  <1>3. \A i \in DOMAIN batch : outcome[batch[i]] = "none"
    BY <1>1 DEF Consistent, BatchProgress
  <1>4. NoLineTwice'
    <2>1. \A i \in DOMAIN Waiting : \/ \E j \in DOMAIN batch : Waiting[i] = batch[j]
                                    \/ \E j \in DOMAIN queue : Waiting[i] = queue[j]
      <3>1. \A i \in DOMAIN Waiting :
              Waiting[i] = IF i <= Len(batch) THEN batch[i] ELSE queue[i - Len(batch)]
        BY WaitingFacts
      <3>2. ASSUME NEW i \in DOMAIN Waiting
            PROVE  IF i <= Len(batch) THEN i \in DOMAIN batch
                                      ELSE i - Len(batch) \in DOMAIN queue
        BY WaitingFacts
      <3>. QED
        BY <3>1, <3>2
    <2>2. \A i \in DOMAIN Waiting : outcome[Waiting[i]] = "none"
      BY <1>3, <2>1 DEF Consistent, NoLineTwice
    <2>. QED
      BY <1>1, <1>2, <2>2 DEF Consistent, NoLineTwice
  <1>5. WaitingWasQueued'
    BY <1>1, <1>2 DEF Consistent, WaitingWasQueued, Queued
  <1>6. BatchProgress'
    BY <1>1 DEF BatchProgress
  <1>7. StoresAgree' /\ RemainingCounts'
    BY <1>1 DEF Consistent, StoresAgree, RemainingCounts, Open, Queued
  <1>. QED
    BY <1>4, <1>5, <1>6, <1>7 DEF Consistent

\* Every line of the batch is one of a queued message.
LEMMA BatchWasQueued ==
  ASSUME TypeOK, Consistent, NEW i \in DOMAIN batch
  PROVE  batch[i] \in Items /\ batch[i].entry \in Messages /\ Queued(batch[i].entry)
  <1>1. i \in DOMAIN Waiting /\ Waiting[i] = batch[i] /\ batch[i] \in Items
    BY WaitingFacts
  <1>. QED
    BY <1>1, ItemFields DEF Consistent, WaitingWasQueued

LEMMA FailBatchConsistent ==
  ASSUME TypeOK, Consistent, FailBatch
  PROVE  Consistent'
  <1>1. /\ pc = "parse" /\ pc' = "assign" /\ pos' = 1
        /\ UNCHANGED <<queue, batch, remaining, results, caller, rows, delivered>>
    BY DEF FailBatch, queueVars, entryVars, callerVars
  <1>2. \A it \in Items :
          outcome'[it] = IF it \in Elements(batch) THEN "failed" ELSE outcome[it]
    BY DEF FailBatch
  <1>3. \A i \in DOMAIN batch : /\ outcome[batch[i]] = "none"
                                /\ results[batch[i]] = "none"
                                /\ batch[i] \in Items
                                /\ batch[i] \in Elements(batch)
    BY <1>1, WaitingFacts DEF Consistent, BatchProgress, Elements
  <1>4. Waiting' = Waiting
    BY <1>1 DEF Waiting
  <1>5. NoLineTwice'
    <2>1. ASSUME NEW i \in DOMAIN queue
          PROVE  outcome'[queue[i]] = "none"
      <3>1. queue[i] \notin Elements(batch)
        BY PlacesDiffer DEF Elements, Consistent
      <3>. QED
        BY <1>2, <3>1, WaitingFacts DEF Consistent, NoLineTwice
    <2>. QED
      BY <1>1, <1>4, <2>1 DEF Consistent, NoLineTwice
  <1>6. WaitingWasQueued'
    <2>1. ASSUME NEW it \in Items, ~Queued(it.entry)
          PROVE  it \notin Elements(batch)
      BY <2>1, BatchWasQueued DEF Elements
    <2>. QED
      BY <1>1, <1>2, <1>4, <2>1 DEF Consistent, WaitingWasQueued, Queued
  <1>7. BatchProgress'
    <2>1. DOMAIN batch = 1..Len(batch) /\ Len(batch) \in Nat
      BY WaitingFacts
    <2>. QED
      BY <1>1, <1>2, <1>3, <2>1 DEF BatchProgress
  <1>8. StoresAgree'
    BY <1>1, <1>2, <1>3 DEF Consistent, StoresAgree, Elements
  <1>9. RemainingCounts'
    BY <1>1 DEF Consistent, RemainingCounts, Open, Queued
  <1>. QED
    BY <1>5, <1>6, <1>7, <1>8, <1>9 DEF Consistent

LEMMA ParseOkConsistent ==
  ASSUME TypeOK, Consistent, ParseOk
  PROVE  Consistent'
  <1>1. /\ pc = "parse" /\ pc' = "save" /\ pos' = 1
        /\ UNCHANGED <<queue, batch, remaining, results, caller, outcome, rows,
                       delivered>>
    BY DEF ParseOk, queueVars, entryVars, callerVars, storeVars
  <1>2. BatchProgress'
    <2>1. DOMAIN batch = 1..Len(batch) /\ Len(batch) \in Nat
      BY WaitingFacts
    <2>. QED
      BY <1>1, <2>1 DEF Consistent, BatchProgress
  <1>. QED
    BY <1>1, <1>2, NothingMoves DEF Queued

LEMMA RecordItemConsistent ==
  ASSUME TypeOK, Consistent, RecordItem
  PROVE  Consistent'
  <1> DEFINE it == batch[pos]
  <1>1. pc = "save" /\ batch # <<>>
    BY DEF RecordItem, TypeOK
  <1>2. /\ pos \in DOMAIN batch /\ DOMAIN batch = 1..Len(batch) /\ Len(batch) \in Nat
        /\ it \in Items
    BY <1>1, BatchItem, WaitingFacts
  <1>3. outcome[it] = "none" /\ results[it] = "none" /\ rows[it] = 0
    <2>1. outcome[it] = "none" /\ results[it] = "none"
      BY <1>1, <1>2 DEF Consistent, BatchProgress
    <2>. QED
      BY <1>2, <2>1 DEF Consistent, StoresAgree
  <1>4. /\ outcome'[it] \in {"saved", "failed"}
        /\ rows'[it] = IF outcome'[it] = "saved" THEN 1 ELSE 0
        /\ \A other \in Items : other # it => /\ outcome'[other] = outcome[other]
                                              /\ rows'[other] = rows[other]
    <2>1. rows \in [Items -> Nat] /\ outcome \in [Items -> Outcomes]
      BY DEF TypeOK
    <2>2. \/ /\ rows' = [rows EXCEPT ![it] = @ + 1]
             /\ outcome' = [outcome EXCEPT ![it] = "saved"]
          \/ /\ outcome' = [outcome EXCEPT ![it] = "failed"]
             /\ rows' = rows
      BY DEF RecordItem
    <2> HIDE DEF it
    <2>. QED
      BY <1>2, <1>3, <2>1, <2>2
  <1>5. /\ UNCHANGED <<queue, batch, remaining, results, caller, delivered>>
        /\ \/ pos < Len(batch) /\ pos' = pos + 1 /\ pc' = "save"
           \/ pos = Len(batch) /\ pos' = 1 /\ pc' = "assign"
    BY <1>1, <1>2 DEF RecordItem, Advance, queueVars, entryVars, callerVars
  <1>6. Waiting' = Waiting
    BY <1>5 DEF Waiting
  <1>7. NoLineTwice'
    <2>1. \A j \in DOMAIN queue : queue[j] # it /\ queue[j] \in Items
      BY <1>2, PlacesDiffer, WaitingFacts DEF Consistent
    <2>. QED
      BY <1>4, <1>5, <1>6, <2>1 DEF Consistent, NoLineTwice
  <1>8. WaitingWasQueued'
    <2>1. Queued(it.entry)
      BY <1>2, BatchWasQueued
    <2>. QED
      BY <1>4, <1>5, <1>6, <2>1 DEF Consistent, WaitingWasQueued, Queued
  <1>9. BatchProgress'
    <2>1. \A i \in DOMAIN batch : i # pos => batch[i] # it /\ batch[i] \in Items
      BY <1>2, PlacesDiffer, WaitingFacts DEF Consistent
    <2>2. \A i \in DOMAIN batch : i # pos => outcome'[batch[i]] = outcome[batch[i]]
      BY <1>4, <2>1
    <2>3. \A i \in DOMAIN batch : /\ outcome[batch[i]] = "none" <=> i >= pos
                                  /\ results[batch[i]] = "none"
      BY <1>1 DEF Consistent, BatchProgress
    <2> HIDE DEF it
    <2>4. \A i \in DOMAIN batch : outcome'[batch[i]] = "none" <=> i > pos
      <3>1. outcome'[batch[pos]] # "none"
        BY <1>4 DEF it
      <3>. QED
        BY <1>2, <2>2, <2>3, <3>1
    <2>. QED
      BY <1>2, <1>5, <2>3, <2>4 DEF BatchProgress
  <1>10. StoresAgree'
    BY <1>3, <1>4, <1>5 DEF Consistent, StoresAgree
  <1>11. RemainingCounts'
    BY <1>5 DEF Consistent, RemainingCounts, Open, Queued
  <1>. QED
    BY <1>7, <1>8, <1>9, <1>10, <1>11 DEF Consistent

\* Storing the result of the current line closes it and nothing else.
LEMMA StoreResultCounts ==
  ASSUME TypeOK, Consistent, pc = "assign", UNCHANGED <<outcome, rows, caller>>,
         NEW it \in Items, it = batch[pos], StoreResult(it)
  PROVE  /\ StoresAgree'
         /\ \A other \in Items : other # it => results'[other] = results[other]
         /\ results'[it] = outcome[it]
         /\ \A m \in Messages : Queued(m)' => remaining'[m] = Cardinality(Open(m)')
         /\ \A m \in Messages : Open(m) = {} => Open(m)' = {}
         /\ remaining[it.entry] = 1 => Open(it.entry)' = {}
  <1>1. /\ it.entry \in Messages /\ it \in Open(it.entry)
        /\ outcome[it] # "none"
        /\ IsFiniteSet(Open(it.entry))
        /\ remaining[it.entry] = Cardinality(Open(it.entry))
        /\ remaining[it.entry] \in Nat \ {0}
    BY CurrentIsOpen
  <1>2. /\ results \in [Items -> Outcomes] /\ remaining \in [Messages -> Nat]
        /\ results' = [results EXCEPT ![it] = outcome[it]]
        /\ remaining' = [remaining EXCEPT ![it.entry] = @ - 1]
    BY DEF StoreResult, TypeOK
  <1>3. /\ \A other \in Items : other # it => results'[other] = results[other]
        /\ results'[it] = outcome[it]
    BY <1>1, <1>2
  <1>4. Open(it.entry)' = Open(it.entry) \ {it}
    BY <1>1, <1>3 DEF Open
  <1>5. \A m \in Messages : m # it.entry => Open(m)' = Open(m)
    BY <1>1, <1>3 DEF Open
  <1>6. /\ remaining'[it.entry] = remaining[it.entry] - 1
        /\ \A m \in Messages : m # it.entry => remaining'[m] = remaining[m]
    BY <1>1, <1>2
  <1>7. Cardinality(Open(it.entry) \ {it}) = Cardinality(Open(it.entry)) - 1
    BY <1>1, FS_RemoveElement
  <1>8. \A m \in Messages : Queued(m)' => remaining'[m] = Cardinality(Open(m)')
    <2>1. remaining'[it.entry] = Cardinality(Open(it.entry)')
      BY <1>1, <1>4, <1>6, <1>7
    <2>2. ASSUME NEW m \in Messages, m # it.entry, Queued(m)'
          PROVE  remaining'[m] = Cardinality(Open(m)')
      <3>1. remaining[m] = Cardinality(Open(m))
        BY <2>2 DEF Queued, Consistent, RemainingCounts
      <3>. QED
        BY <1>5, <1>6, <2>2, <3>1
    <2>. QED
      BY <2>1, <2>2
  <1>9. StoresAgree'
    BY <1>1, <1>3 DEF Consistent, StoresAgree
  <1>10. remaining[it.entry] = 1 => Open(it.entry)' = {}
    <2>1. IsFiniteSet(Open(it.entry) \ {it})
      BY <1>1, FS_RemoveElement
    <2>. QED
      BY <1>1, <1>4, <1>7, <2>1, FS_EmptySet
  <1>11. \A m \in Messages : Open(m) = {} => Open(m)' = {}
    BY <1>1, <1>5
  <1>. QED
    BY <1>3, <1>8, <1>9, <1>10, <1>11

\* When a flush ends, with or without a panic, what waits is the queue.
LEMMA FlushEnds ==
  ASSUME TypeOK, Consistent, batch' = <<>>, UNCHANGED <<queue, outcome, caller>>
  PROVE  NoLineTwice' /\ WaitingWasQueued' /\ BatchProgress'
  <1>1. Waiting' = queue
    BY WaitingFacts, ConcatEmptySeq DEF Waiting
  <1>2. \A i, j \in DOMAIN queue : queue[i] = queue[j] => i = j
    BY PlacesDiffer DEF Consistent
  <1>3. \A i \in DOMAIN queue : i + Len(batch) \in DOMAIN Waiting
                                /\ Waiting[i + Len(batch)] = queue[i]
    BY WaitingFacts
  <1>4. NoLineTwice'
    BY <1>1, <1>2 DEF NoLineTwice, Consistent
  <1>5. WaitingWasQueued'
    <2>1. \A i \in DOMAIN queue : Queued(queue[i].entry)
      BY <1>3 DEF Consistent, WaitingWasQueued
    <2>. QED
      BY <1>1, <2>1 DEF Consistent, WaitingWasQueued, Queued
  <1>6. BatchProgress'
    BY DEF BatchProgress
  <1>. QED
    BY <1>4, <1>5, <1>6

LEMMA AssignConsistent ==
  ASSUME TypeOK, Consistent, Assign
  PROVE  Consistent'
  <1>1. pc = "assign" /\ batch # <<>>
    BY DEF Assign, TypeOK
  <1>2. PICK it \in Items : it = batch[pos]
    BY <1>1, BatchItem
  <1>3. /\ pos \in DOMAIN batch /\ DOMAIN batch = 1..Len(batch) /\ Len(batch) \in Nat
        /\ it.entry \in Messages
    BY <1>1, <1>2, BatchItem, WaitingFacts
  <1>4. /\ StoreResult(it)
        /\ delivered' = IF remaining[it.entry] = 1 THEN Append(delivered, it.entry)
                                                   ELSE delivered
        /\ UNCHANGED <<queue, outcome, rows, caller>>
        /\ \/ pos < Len(batch) /\ pos' = pos + 1 /\ pc' = pc /\ batch' = batch
           \/ batch' = <<>>
    BY <1>2 DEF Assign, EndFlush, queueVars, callerVars, storeVars
  <1>5. /\ StoresAgree'
        /\ \A other \in Items : other # it => results'[other] = results[other]
        /\ results'[it] = outcome[it]
        /\ \A m \in Messages : Queued(m)' => remaining'[m] = Cardinality(Open(m)')
        /\ \A m \in Messages : Open(m) = {} => Open(m)' = {}
        /\ remaining[it.entry] = 1 => Open(it.entry)' = {}
    BY <1>1, <1>2, <1>4, StoreResultCounts
  <1>6. RemainingCounts'
    <2>1. delivered \in Seq(Messages)
      BY DEF TypeOK
    <2>2. ASSUME NEW m \in Elements(delivered)'
          PROVE  \/ m \in Elements(delivered)
                 \/ m = it.entry /\ remaining[it.entry] = 1
      BY <1>3, <1>4, <2>1, AppendProperties, LenProperties DEF Elements
    <2>3. \A m \in Elements(delivered) : m \in Messages /\ Open(m) = {}
      BY <2>1, LenProperties, ElementOfSeq DEF Elements, Consistent, RemainingCounts
    <2>4. ASSUME NEW m \in Elements(delivered)'
          PROVE  Open(m)' = {}
      BY <1>5, <2>2, <2>3
    <2>. QED
      BY <1>5, <2>4 DEF RemainingCounts
  <1>7. CASE batch' = <<>>
    BY <1>4, <1>5, <1>6, <1>7, FlushEnds DEF Consistent
  <1>8. CASE pos < Len(batch) /\ pos' = pos + 1 /\ pc' = pc /\ batch' = batch
    <2>1. Waiting' = Waiting
      BY <1>4, <1>8 DEF Waiting
    <2>2. NoLineTwice' /\ WaitingWasQueued'
      BY <1>4, <2>1 DEF Consistent, NoLineTwice, WaitingWasQueued, Queued
    <2>3. BatchProgress'
      <3>1. \A i \in DOMAIN batch : i # pos => batch[i] # it /\ batch[i] \in Items
        BY <1>2, <1>3, PlacesDiffer, WaitingFacts DEF Consistent
      <3>2. \A i \in DOMAIN batch : i # pos => results'[batch[i]] = results[batch[i]]
        BY <1>5, <3>1
      <3>3. \A i \in DOMAIN batch : /\ outcome[batch[i]] # "none"
                                    /\ results[batch[i]] = "none" <=> i >= pos
        BY <1>1 DEF Consistent, BatchProgress
      <3>4. \A i \in DOMAIN batch : results'[batch[i]] = "none" <=> i > pos
        <4>1. results'[batch[pos]] # "none"
          BY <1>2, <1>3, <1>5, <3>3
        <4>. QED
          BY <1>3, <3>2, <3>3, <4>1
      <3>. QED
        BY <1>1, <1>3, <1>4, <1>8, <3>3, <3>4 DEF BatchProgress
    <2>. QED
      BY <1>5, <1>6, <2>2, <2>3 DEF Consistent
  <1>. QED
    BY <1>4, <1>7, <1>8

LEMMA PanicConsistent ==
  ASSUME TypeOK, Consistent, Panic
  PROVE  Consistent'
  <1>1. /\ batch' = <<>>
        /\ UNCHANGED <<queue, outcome, rows, caller, delivered>>
        /\ \/ UNCHANGED <<remaining, results>>
           \/ pc = "assign" /\ StoreResult(batch[pos])
    BY DEF Panic, EndFlush, entryVars, queueVars, callerVars, storeVars
  <1>2. NoLineTwice' /\ WaitingWasQueued' /\ BatchProgress'
    BY <1>1, FlushEnds
  <1>3. CASE UNCHANGED <<remaining, results>>
    BY <1>1, <1>2, <1>3 DEF Consistent, StoresAgree, RemainingCounts, Open, Queued
  <1>4. CASE pc = "assign" /\ StoreResult(batch[pos])
    <2>1. PICK it \in Items : it = batch[pos]
      BY <1>4, CurrentIsOpen
    <2>2. /\ StoresAgree'
          /\ \A m \in Messages : Queued(m)' => remaining'[m] = Cardinality(Open(m)')
          /\ \A m \in Messages : Open(m) = {} => Open(m)' = {}
      BY <1>1, <1>4, <2>1, StoreResultCounts
    <2>3. delivered \in Seq(Messages)
      BY DEF TypeOK
    <2>4. \A m \in Elements(delivered) : m \in Messages /\ Open(m) = {}
      BY <2>3, LenProperties, ElementOfSeq DEF Elements, Consistent, RemainingCounts
    <2>5. RemainingCounts'
      BY <1>1, <2>2, <2>4 DEF RemainingCounts, Elements
    <2>. QED
      BY <1>2, <2>2, <2>5 DEF Consistent
  <1>. QED
    BY <1>1, <1>3, <1>4

-----------------------------------------------------------------------------

\* The state is well typed and consistent in every reachable state: queue,
\* batch, entries and saved transactions never disagree on a line, whatever the
\* number of messages, lines and batches (Run, flush, push, take, requeue).
THEOREM BatcherConsistent == Spec => [](TypeOK /\ Consistent)
  <1>1. Init => TypeOK /\ Consistent
    BY InitType, InitConsistent
  <1>2. TypeOK /\ Consistent /\ [Next]_vars => (TypeOK /\ Consistent)'
    <2> SUFFICES ASSUME TypeOK, Consistent, [Next]_vars
                 PROVE  (TypeOK /\ Consistent)'
      OBVIOUS
    <2>1. TypeOK'
      BY NextType
    <2>2. Consistent'
      <3>1. CASE \E m \in Messages : PushBlank(m) \/ Push(m) \/ DecideAck(m)
        BY <3>1, EnqueueConsistent, PushConsistent
      <3>2. CASE TimePasses \/ Cancel \/ Start \/ OnTick \/ Stop \/ UNCHANGED vars
        BY <3>2, IdleConsistent
      <3>3. CASE Take \/ Defer \/ FailBatch \/ ParseOk
        BY <3>3, TakeConsistent, DeferConsistent, FailBatchConsistent,
           ParseOkConsistent
      <3>4. CASE RecordItem \/ Assign \/ Panic
        BY <3>4, RecordItemConsistent, AssignConsistent, PanicConsistent
      <3>. QED
        BY <3>1, <3>2, <3>3, <3>4 DEF Next, Steps
    <2>. QED
      BY <2>1, <2>2
  <1>. QED
    BY <1>1, <1>2, PTL DEF Spec

\* The variables of the batcher keep their types; in particular remaining, which
\* flush decrements without a check, never falls below zero.
THEOREM BatcherTypeOK == Spec => []TypeOK
  BY BatcherConsistent, PTL

\* No line is ever at two places of the pipeline, nor queued once it has an
\* outcome, however batches are deferred and requeued.
THEOREM LinesAreNeverTwice == Spec => []NoLineTwice
  <1>1. TypeOK /\ Consistent => NoLineTwice
    BY DEF Consistent
  <1>. QED
    BY <1>1, BatcherConsistent, PTL

\* No line is created as a transaction twice, and a line that will be sent to the
\* parser again has not been created at all.
THEOREM LinesAreSavedOnce == Spec => []SavedOnce
  <1>1. ASSUME TypeOK, Consistent
        PROVE  SavedOnce
    <2>1. \A it \in Items : rows[it] = IF outcome[it] = "saved" THEN 1 ELSE 0
      BY <1>1 DEF Consistent, StoresAgree
    <2>2. \A i \in DOMAIN queue : queue[i] \in Items /\ outcome[queue[i]] = "none"
      BY <1>1, WaitingFacts DEF Consistent, NoLineTwice
    <2>. QED
      BY <2>1, <2>2 DEF SavedOnce
  <1>. QED
    BY <1>1, BatcherConsistent, PTL

\* A message is handed over only when each of its lines has a result, and the
\* result is "saved" exactly for the lines whose transaction exists.
THEOREM AnswersAreTrue == Spec => []AnswersTrue
  <1>1. ASSUME TypeOK, Consistent
        PROVE  AnswersTrue
    <2> SUFFICES ASSUME NEW m \in Elements(delivered), NEW it \in Items, it.entry = m
                 PROVE  results[it] = IF rows[it] = 1 THEN "saved" ELSE "failed"
      BY DEF AnswersTrue
    <2>1. results[it] # "none"
      BY <1>1 DEF Consistent, RemainingCounts, Open
    <2>2. results[it] = outcome[it] /\ outcome[it] \in {"saved", "failed"}
      BY <1>1, <2>1 DEF Consistent, StoresAgree, TypeOK, Outcomes
    <2>. QED
      BY <1>1, <2>2 DEF Consistent, StoresAgree
  <1>. QED
    BY <1>1, BatcherConsistent, PTL
=============================================================================
