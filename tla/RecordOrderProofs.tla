------------------------- MODULE RecordOrderProofs -------------------------
(***************************************************************************)
(* Proofs about the order of RecordBatcher: no line is lost, messages are  *)
(* answered in the order in which they were accepted, and RecordBatcher    *)
(* implements RecordPromise; for every number of messages, lines and       *)
(* batches.  The invariant is Ordered, on top of Consistent.               *)
(***************************************************************************)
EXTENDS RecordBatcherProofs

-----------------------------------------------------------------------------
(* The order of acceptance.                                                *)

LEMMA AcceptedFacts ==
  ASSUME TypeOK
  PROVE  /\ accepted \in Seq(Messages) /\ delivered \in Seq(Messages)
         /\ Len(accepted) \in Nat /\ Len(delivered) \in Nat
         /\ DOMAIN accepted = 1..Len(accepted)
         /\ DOMAIN delivered = 1..Len(delivered)
         /\ \A i \in DOMAIN accepted : accepted[i] \in Messages
         /\ \A i \in DOMAIN delivered : delivered[i] \in Messages
  BY LenProperties, ElementOfSeq DEF TypeOK

LEMMA BeforeIsStrict ==
  ASSUME TypeOK, AcceptedOnce, NEW m, NEW n, AcceptedBefore(m, n)
  PROVE  m # n /\ ~AcceptedBefore(n, m)
  <1>1. PICK i, j \in DOMAIN accepted : i < j /\ accepted[i] = m /\ accepted[j] = n
    BY DEF AcceptedBefore
  <1>2. \A k, l \in DOMAIN accepted : accepted[k] = accepted[l] => k = l
    BY DEF AcceptedOnce
  <1>3. DOMAIN accepted \subseteq Nat
    BY AcceptedFacts
  <1>4. m # n
    BY <1>1, <1>2, <1>3
  <1>5. ASSUME NEW k \in DOMAIN accepted, NEW l \in DOMAIN accepted,
               k < l, accepted[k] = n, accepted[l] = m
        PROVE  FALSE
    <2>1. k = j /\ l = i
      BY <1>1, <1>2, <1>5
    <2>. QED
      BY <1>1, <1>3, <1>5, <2>1
  <1>. QED
    BY <1>4, <1>5 DEF AcceptedBefore

\* The order of acceptance after a step.
BeforeNext(m, n) ==
  \E k, l \in DOMAIN accepted' : k < l /\ accepted'[k] = m /\ accepted'[l] = n

\* A message that is accepted comes after all the others, which stay as they are.
LEMMA AcceptedLast ==
  ASSUME TypeOK, NEW m \in Messages, accepted' = Append(accepted, m)
  PROVE  /\ \A x, y : AcceptedBefore(x, y) => BeforeNext(x, y)
         /\ \A x \in Elements(accepted) : BeforeNext(x, m)
         /\ Elements(accepted)' = Elements(accepted) \cup {m}
  <1> DEFINE n == Len(accepted)
  <1>1. /\ n \in Nat /\ DOMAIN accepted = 1..n
        /\ DOMAIN accepted' = 1..(n + 1)
        /\ \A i \in 1..n : accepted'[i] = accepted[i]
        /\ accepted'[n + 1] = m
    <2>1. accepted \in Seq(Messages) /\ accepted' \in Seq(Messages)
      BY AppendProperties DEF TypeOK
    <2>. QED
      BY <2>1, AppendProperties, LenProperties
  <1> HIDE DEF n
  <1>2. ASSUME NEW x, NEW y, AcceptedBefore(x, y)
        PROVE  BeforeNext(x, y)
    <2>1. PICK k, l \in DOMAIN accepted : k < l /\ accepted[k] = x /\ accepted[l] = y
      BY <1>2 DEF AcceptedBefore
    <2>. QED
      BY <1>1, <2>1 DEF BeforeNext
  <1>3. ASSUME NEW x \in Elements(accepted)
        PROVE  BeforeNext(x, m)
    <2>1. PICK k \in DOMAIN accepted : accepted[k] = x
      BY <1>3 DEF Elements
    <2>2. k \in DOMAIN accepted' /\ n + 1 \in DOMAIN accepted' /\ k < n + 1
      BY <1>1, <2>1
    <2>. QED
      BY <1>1, <2>1, <2>2 DEF BeforeNext
  <1>4. Elements(accepted)' = Elements(accepted) \cup {m}
    BY <1>1 DEF Elements
  <1>. QED
    BY <1>2, <1>3, <1>4

LEMMA AppendedElements ==
  ASSUME NEW S, NEW s \in Seq(S), NEW e \in S
  PROVE  /\ Elements(Append(s, e)) = Elements(s) \cup {e}
         /\ DOMAIN Append(s, e) = 1..(Len(s) + 1)
         /\ \A i \in 1..Len(s) : Append(s, e)[i] = s[i]
         /\ Append(s, e)[Len(s) + 1] = e
  <1>1. /\ Len(s) \in Nat /\ DOMAIN s = 1..Len(s)
        /\ DOMAIN Append(s, e) = 1..(Len(s) + 1)
        /\ \A i \in 1..Len(s) : Append(s, e)[i] = s[i]
        /\ Append(s, e)[Len(s) + 1] = e
    BY AppendProperties, LenProperties
  <1>. QED
    BY <1>1 DEF Elements

\* A prefix of a sequence stays one when something is appended, or is one element longer.
LEMMA AppendedPrefix ==
  ASSUME NEW S, NEW s \in Seq(S), NEW e \in S, NEW n \in 0..Len(s)
  PROVE  SubSeq(Append(s, e), 1, n) = SubSeq(s, 1, n)
  <1>1. /\ Len(s) \in Nat /\ \A i \in 1..Len(s) : s[i] \in S
        /\ \A i \in 1..Len(s) : Append(s, e)[i] = s[i]
    BY LenProperties, ElementOfSeq, AppendProperties
  <1>2. /\ SubSeq(s, 1, n) \in Seq(S)
        /\ Len(SubSeq(s, 1, n)) = n
        /\ \A i \in 1..n : SubSeq(s, 1, n)[i] = s[i]
    BY <1>1, SubSeqProperties
  <1>3. /\ SubSeq(Append(s, e), 1, n) \in Seq(S)
        /\ Len(SubSeq(Append(s, e), 1, n)) = n
        /\ \A i \in 1..n : SubSeq(Append(s, e), 1, n)[i] = Append(s, e)[i]
    BY <1>1, SubSeqProperties
  <1>4. \A i \in 1..n : SubSeq(Append(s, e), 1, n)[i] = SubSeq(s, 1, n)[i]
    BY <1>1, <1>2, <1>3
  <1>. QED
    BY <1>2, <1>3, <1>4, SeqEqual

LEMMA LongerPrefix ==
  ASSUME NEW S, NEW s \in Seq(S), NEW n \in 0..(Len(s) - 1)
  PROVE  SubSeq(s, 1, n + 1) = Append(SubSeq(s, 1, n), s[n + 1])
  <1>1. Len(s) \in Nat /\ \A i \in 1..Len(s) : s[i] \in S
    BY LenProperties, ElementOfSeq
  <1>2. SubSeq(s, 1, n + 1) = SubSeq(s, 1, n + 1 - 1) \o <<s[n + 1]>>
    <2>1. 1 \in 1..Len(s) /\ n + 1 \in 1..Len(s)
      BY <1>1
    <2>. QED
      BY <2>1, SubSeqRecursiveSecond
  <1>3. n + 1 - 1 = n /\ SubSeq(s, 1, n) \in Seq(S) /\ s[n + 1] \in S
    BY <1>1, SubSeqProperties
  <1>. QED
    BY <1>2, <1>3, AppendIsConcat

LEMMA PrefixValues ==
  ASSUME NEW s, NEW n \in Nat
  PROVE  \A i \in 1..n : SubSeq(s, 1, n)[i] = s[i]
  <1> DEFINE S == {s[i] : i \in 1..n}
  <1>1. \A i \in 1..n : s[i] \in S
    OBVIOUS
  <1> HIDE DEF S
  <1>2. \A i \in 1..(n - 1 + 1) : SubSeq(s, 1, n)[i] = s[1 + i - 1]
    BY <1>1, SubSeqProperties
  <1>. QED
    BY <1>2

\* Without a panic the answers are a prefix of what was accepted, which is as long.
LEMMA DeliveredFit ==
  ASSUME TypeOK, AcceptedOnce, AnswersInOrder, ~CanPanic
  PROVE  /\ Len(delivered) \in 0..Len(accepted)
         /\ \A i \in DOMAIN delivered : delivered[i] = accepted[i]
  <1> DEFINE n == Len(delivered)
  <1>1. /\ n \in Nat /\ Len(accepted) \in Nat
        /\ DOMAIN delivered = 1..n /\ DOMAIN accepted = 1..Len(accepted)
        /\ \A i \in DOMAIN accepted : accepted[i] \in Messages
    BY AcceptedFacts
  <1>2. delivered = SubSeq(accepted, 1, n)
    BY DEF AnswersInOrder
  <1> HIDE DEF n
  <1>3. \A i \in DOMAIN delivered : i \in DOMAIN accepted => delivered[i] = accepted[i]
    BY <1>1, <1>2, PrefixValues
  <1>4. ASSUME n > Len(accepted)
        PROVE  FALSE
    <2>1. delivered[n] \in Elements(delivered) /\ delivered[n] \in Messages
      BY <1>1, <1>4, AcceptedFacts DEF Elements
    <2>2. delivered[n] \in Elements(accepted)
      BY <2>1 DEF AcceptedOnce
    <2>3. PICK k \in DOMAIN accepted : accepted[k] = delivered[n]
      BY <2>2 DEF Elements
    <2>4. k \in DOMAIN delivered /\ n \in DOMAIN delivered /\ k < n
      BY <1>1, <1>4
    <2>5. AcceptedBefore(delivered[k], delivered[n]) /\ delivered[k] = delivered[n]
      BY <1>3, <2>3, <2>4 DEF AnswersInOrder
    <2>. QED
      BY <2>5, BeforeIsStrict
  <1>. QED
    BY <1>1, <1>3, <1>4 DEF n

-----------------------------------------------------------------------------
(* Ordered is inductive, given Consistent.                                 *)

LEMMA InitOrdered == Init => Ordered
  <1> SUFFICES ASSUME Init PROVE Ordered
    OBVIOUS
  <1>1. TypeOK
    BY InitType
  <1>2. DOMAIN Waiting = {} /\ DOMAIN accepted = {} /\ DOMAIN delivered = {}
    BY <1>1, WaitingFacts, AcceptedFacts DEF Init
  <1>3. Elements(accepted) = {} /\ Elements(delivered) = {}
    BY <1>2 DEF Elements
  <1>4. \A m \in Messages : ~Queued(m)
    BY DEF Init, Queued
  <1>5. delivered = SubSeq(accepted, 1, Len(delivered))
    <2>1. delivered = <<>> /\ Len(delivered) = 0
      BY EmptySeq DEF Init
    <2>. QED
      BY <2>1, SubSeqEmpty
  <1>. QED
    BY <1>2, <1>3, <1>4, <1>5
    DEF Ordered, AcceptedOnce, WaitingInOrder, AnsweredWhenDone, NoLineLost,
        AnswersInOrder

\* Steps that neither move nor settle a line.
LEMMA LinesStay ==
  ASSUME TypeOK, Ordered, Waiting' = Waiting,
         UNCHANGED <<accepted, delivered, results>>,
         \A m \in Messages : Queued(m)' <=> Queued(m)
  PROVE  Ordered'
  <1>1. /\ \A x, y : AcceptedBefore(x, y)' <=> AcceptedBefore(x, y)
        /\ \A m : Open(m)' = Open(m)
        /\ Elements(accepted)' = Elements(accepted)
        /\ Elements(delivered)' = Elements(delivered)
        /\ Elements(Waiting)' = Elements(Waiting)
    BY DEF AcceptedBefore, Open, Elements
  <1>2. \A m \in Elements(delivered) : m \in Messages
    BY AcceptedFacts DEF Elements
  <1>3. AcceptedOnce'
    BY <1>1, <1>2 DEF Ordered, AcceptedOnce
  <1>4. WaitingInOrder'
    BY <1>1 DEF Ordered, WaitingInOrder
  <1>5. AnsweredWhenDone'
    BY <1>1 DEF Ordered, AnsweredWhenDone
  <1>6. NoLineLost'
    BY <1>1 DEF Ordered, NoLineLost
  <1>7. AnswersInOrder'
    BY <1>1 DEF Ordered, AnswersInOrder
  <1>. QED
    BY <1>3, <1>4, <1>5, <1>6, <1>7 DEF Ordered

LEMMA OtherStepsOrdered ==
  ASSUME TypeOK, Consistent, Ordered,
         \/ \E m \in Messages : PushBlank(m) \/ DecideAck(m)
         \/ TimePasses \/ Cancel \/ Start \/ OnTick \/ Stop \/ UNCHANGED vars
         \/ Take \/ Defer \/ FailBatch \/ ParseOk \/ RecordItem
  PROVE  Ordered'
  <1>1. UNCHANGED <<accepted, delivered, results>>
    BY DEF PushBlank, DecideAck, TimePasses, Cancel, Start, OnTick, Stop, Take,
           Defer, FailBatch, ParseOk, RecordItem, vars, entryVars
  <1>2. \A m \in Messages : Queued(m)' <=> Queued(m)
    <2>1. CASE \E m \in Messages : PushBlank(m) \/ DecideAck(m)
      BY <2>1 DEF PushBlank, DecideAck, Queued, TypeOK
    <2>2. CASE ~\E m \in Messages : PushBlank(m) \/ DecideAck(m)
      <3>1. caller' = caller
        BY <2>2 DEF TimePasses, Cancel, Start, OnTick, Stop, Take, Defer, FailBatch,
                    ParseOk, RecordItem, vars, callerVars
      <3>. QED
        BY <3>1 DEF Queued
    <2>. QED
      BY <2>1, <2>2
  <1>3. Waiting' = Waiting
    <2>1. CASE Take
      BY <2>1, TakeType
    <2>2. CASE Defer
      BY <2>2, WaitingFacts, ConcatEmptySeq DEF Defer, EndFlush, Waiting
    <2>3. CASE ~Take /\ ~Defer
      <3>1. UNCHANGED <<batch, queue>>
        BY <2>3 DEF PushBlank, DecideAck, TimePasses, Cancel, Start, OnTick, Stop,
                    FailBatch, ParseOk, RecordItem, vars, queueVars, loopVars
      <3>. QED
        BY <3>1 DEF Waiting
    <2>. QED
      BY <2>1, <2>2, <2>3
  <1>. QED
    BY <1>1, <1>2, <1>3, LinesStay

LEMMA PushOrdered ==
  ASSUME TypeOK, Consistent, Ordered, NEW m \in Messages, Push(m)
  PROVE  Ordered'
  <1> DEFINE lines == LinesOf(m)
  <1>1. /\ queue' = queue \o lines
        /\ caller[m] = "new" /\ caller' = [caller EXCEPT ![m] = "pushed"]
        /\ accepted' = Append(accepted, m)
        /\ LineCount[m] > 0
        /\ UNCHANGED <<batch, results, delivered>>
    BY DEF Push, loopVars
  <1>2. /\ ~Queued(m) /\ Queued(m)'
        /\ \A n \in Messages : n # m => (Queued(n)' <=> Queued(n))
    BY <1>1 DEF Queued, TypeOK
  <1>3. /\ lines \in Seq(Items)
        /\ \A l \in DOMAIN lines : lines[l] \in Items /\ lines[l].entry = m
        /\ DOMAIN lines = 1..LineCount[m]
    BY LinesOfType, LinesOfFields, LinesOfValue
  <1>4. lines[1] \in Items /\ lines[1].entry = m
    BY <1>1, <1>3, LinesAssumption
  <1>5. /\ batch \in Seq(Items) /\ queue \in Seq(Items) /\ Waiting \in Seq(Items)
        /\ Waiting' = Waiting \o lines
    <2>1. batch \in Seq(Items) /\ queue \in Seq(Items) /\ Waiting \in Seq(Items)
      BY WaitingFacts
    <2>2. lines \in Seq(Items)
      BY <1>3
    <2> HIDE DEF lines
    <2>3. batch \o (queue \o lines) = (batch \o queue) \o lines
      BY <2>1, <2>2, ConcatAssociative
    <2>. QED
      BY <1>1, <2>1, <2>3 DEF Waiting
  <1> HIDE DEF lines
  <1>6. /\ DOMAIN Waiting = 1..Len(Waiting) /\ DOMAIN lines = 1..Len(lines)
        /\ Len(Waiting) \in Nat /\ Len(lines) \in Nat
        /\ DOMAIN Waiting' = 1..(Len(Waiting) + Len(lines))
        /\ \A i \in DOMAIN Waiting' :
             Waiting'[i] = IF i <= Len(Waiting) THEN Waiting[i] ELSE lines[i - Len(Waiting)]
    BY <1>3, <1>5, ConcatFacts
  <1>7. \A i \in DOMAIN Waiting : /\ Waiting[i] \in Items
                                  /\ Waiting[i].entry \in Messages
                                  /\ Waiting[i].entry \in Elements(accepted)
    BY <1>5, ElementOfSeq, <1>6, ItemFields
    DEF Consistent, WaitingWasQueued, Ordered, AcceptedOnce
  <1>8. /\ \A x, y : AcceptedBefore(x, y) => BeforeNext(x, y)
        /\ \A x \in Elements(accepted) : BeforeNext(x, m)
        /\ Elements(accepted)' = Elements(accepted) \cup {m}
    BY <1>1, AcceptedLast
  <1>9. m \notin Elements(accepted)
    BY <1>2 DEF Ordered, AcceptedOnce
  <1>10. \A n \in Elements(delivered) : n \in Messages /\ n # m /\ n \in Elements(accepted)
    BY <1>9, AcceptedFacts DEF Elements, Ordered, AcceptedOnce
  <1>11. AcceptedOnce'
    <2>1. \A i, j \in DOMAIN accepted' : accepted'[i] = accepted'[j] => i = j
      <3>1. /\ DOMAIN accepted = 1..Len(accepted) /\ Len(accepted) \in Nat
            /\ DOMAIN accepted' = 1..(Len(accepted) + 1)
            /\ \A i \in 1..Len(accepted) : accepted'[i] = accepted[i]
            /\ accepted'[Len(accepted) + 1] = m
        BY <1>1, AcceptedFacts, AppendedElements
      <3>2. \A i \in DOMAIN accepted : accepted[i] # m
        BY <1>9 DEF Elements
      <3>. QED
        BY <3>1, <3>2 DEF Ordered, AcceptedOnce
    <2>2. \A n \in Messages : Queued(n)' <=> n \in Elements(accepted)'
      BY <1>2, <1>8 DEF Ordered, AcceptedOnce
    <2>3. Elements(delivered)' = Elements(delivered)
      BY <1>1 DEF Elements
    <2>4. \A n \in Elements(delivered)' : Queued(n)'
      BY <1>2, <1>10, <2>3 DEF Ordered, AcceptedOnce
    <2>. QED
      BY <2>1, <2>2, <2>4 DEF AcceptedOnce
  <1>12. WaitingInOrder'
    <2>1. ASSUME NEW i \in DOMAIN Waiting', NEW j \in DOMAIN Waiting', i < j
          PROVE  \/ Waiting'[i].entry = Waiting'[j].entry
                 \/ BeforeNext(Waiting'[i].entry, Waiting'[j].entry)
      <3>1. CASE j <= Len(Waiting)
        <4>1. /\ i \in DOMAIN Waiting /\ j \in DOMAIN Waiting
              /\ Waiting'[i] = Waiting[i] /\ Waiting'[j] = Waiting[j]
          BY <1>6, <2>1, <3>1
        <4>2. \/ Waiting[i].entry = Waiting[j].entry
              \/ AcceptedBefore(Waiting[i].entry, Waiting[j].entry)
          BY <2>1, <4>1 DEF Ordered, WaitingInOrder
        <4>. QED
          BY <1>8, <4>1, <4>2
      <3>2. CASE i <= Len(Waiting) /\ j > Len(Waiting)
        <4>1. /\ i \in DOMAIN Waiting /\ Waiting'[i] = Waiting[i]
              /\ j - Len(Waiting) \in DOMAIN lines
              /\ Waiting'[j] = lines[j - Len(Waiting)]
          BY <1>6, <2>1, <3>2
        <4>2. Waiting'[j].entry = m
          BY <1>3, <4>1
        <4>. QED
          BY <1>7, <1>8, <4>1, <4>2
      <3>3. CASE i > Len(Waiting)
        <4>1. /\ i - Len(Waiting) \in DOMAIN lines /\ j - Len(Waiting) \in DOMAIN lines
              /\ Waiting'[i] = lines[i - Len(Waiting)]
              /\ Waiting'[j] = lines[j - Len(Waiting)]
          BY <1>6, <2>1, <3>3
        <4>2. Waiting'[i].entry = m /\ Waiting'[j].entry = m
          BY <1>3, <4>1
        <4>. QED
          BY <4>2
      <3>4. i \in Nat /\ j \in Nat
        BY <1>6, <2>1
      <3>. QED
        BY <1>6, <3>1, <3>2, <3>3, <3>4
    <2>2. ASSUME NEW n \in Elements(delivered)', NEW j \in DOMAIN Waiting',
                 results'[Waiting'[j]] = "none"
          PROVE  BeforeNext(n, Waiting'[j].entry)
      <3>1. n \in Elements(delivered)
        BY <1>1, <2>2 DEF Elements
      <3>2. CASE j <= Len(Waiting)
        <4>1. j \in DOMAIN Waiting /\ Waiting'[j] = Waiting[j]
          BY <1>6, <2>2, <3>2
        <4>2. AcceptedBefore(n, Waiting[j].entry)
          BY <1>1, <2>2, <3>1, <4>1 DEF Ordered, WaitingInOrder
        <4>. QED
          BY <1>8, <4>1, <4>2
      <3>3. CASE j > Len(Waiting)
        <4>1. j - Len(Waiting) \in DOMAIN lines /\ Waiting'[j] = lines[j - Len(Waiting)]
          BY <1>6, <2>2, <3>3
        <4>2. Waiting'[j].entry = m
          BY <1>3, <4>1
        <4>. QED
          BY <1>8, <1>10, <3>1, <4>2
      <3>4. j \in Nat
        BY <1>6, <2>2
      <3>. QED
        BY <1>6, <3>2, <3>3, <3>4
    <2>. QED
      BY <2>1, <2>2 DEF WaitingInOrder, AcceptedBefore, BeforeNext
  <1>13. AnsweredWhenDone'
    <2>1. ASSUME ~CanPanic, NEW n \in Messages, Queued(n)', Open(n)' = {}
          PROVE  n \in Elements(delivered)'
      <3>1. results[lines[1]] = "none"
        BY <1>2, <1>4 DEF Consistent, WaitingWasQueued, StoresAgree
      <3>2. n # m
        BY <1>1, <1>4, <2>1, <3>1 DEF Open
      <3>3. Queued(n) /\ Open(n) = {}
        BY <1>1, <1>2, <2>1, <3>2 DEF Open
      <3>. QED
        BY <1>1, <2>1, <3>3 DEF Ordered, AnsweredWhenDone, Elements
    <2>. QED
      BY <2>1 DEF AnsweredWhenDone
  <1>14. NoLineLost'
    <2>1. ASSUME ~CanPanic, NEW it \in Items,
                 it.entry \in Elements(accepted)', results'[it] = "none"
          PROVE  it \in Elements(Waiting)'
      <3>1. CASE it.entry = m
        <4>1. it.line \in 1..LineCount[m] /\ it = [entry |-> m, line |-> it.line]
          BY <3>1, ItemFields
        <4>2. it.line \in DOMAIN lines /\ lines[it.line] = it
          BY <4>1, LinesOfValue DEF lines
        <4>3. /\ it.line + Len(Waiting) \in DOMAIN Waiting'
              /\ Waiting'[it.line + Len(Waiting)] = lines[it.line]
          <5>1. it.line \in 1..Len(lines)
            BY <1>6, <4>2
          <5>2. /\ it.line + Len(Waiting) \in DOMAIN Waiting'
                /\ ~(it.line + Len(Waiting) <= Len(Waiting))
                /\ (it.line + Len(Waiting)) - Len(Waiting) = it.line
            BY <1>6, <5>1
          <5>. QED
            BY <1>6, <5>2
        <4>. QED
          BY <4>2, <4>3 DEF Elements
      <3>2. CASE it.entry # m
        <4>1. it \in Elements(Waiting)
          BY <1>1, <1>8, <2>1, <3>2 DEF Ordered, NoLineLost
        <4>2. PICK i \in DOMAIN Waiting : Waiting[i] = it
          BY <4>1 DEF Elements
        <4>3. i \in DOMAIN Waiting' /\ Waiting'[i] = it
          BY <1>6, <4>2
        <4>. QED
          BY <4>3 DEF Elements
      <3>. QED
        BY <3>1, <3>2
    <2>. QED
      BY <2>1 DEF NoLineLost
  <1>15. AnswersInOrder'
    <2>1. \A i, j \in DOMAIN delivered : i < j => BeforeNext(delivered[i], delivered[j])
      BY <1>8 DEF Ordered, AnswersInOrder
    <2>2. ~CanPanic => delivered = SubSeq(accepted', 1, Len(delivered))
      <3>1. ASSUME ~CanPanic
            PROVE  delivered = SubSeq(accepted', 1, Len(delivered))
        <4>1. delivered = SubSeq(accepted, 1, Len(delivered))
          BY <3>1 DEF Ordered, AnswersInOrder
        <4>2. Len(delivered) <= Len(accepted)
          BY <3>1, DeliveredFit DEF Ordered
        <4>. QED
          BY <1>1, <4>1, <4>2, AppendedPrefix, AcceptedFacts
      <3>. QED
        BY <3>1
    <2>3. delivered' = delivered
      BY <1>1
    <2>. QED
      BY <2>1, <2>2, <2>3 DEF AnswersInOrder, AcceptedBefore, BeforeNext
  <1>. QED
    BY <1>11, <1>12, <1>13, <1>14, <1>15 DEF Ordered

\* Assign settles the line at pos, and hands its message over when that was its last.
LEMMA AssignSettles ==
  ASSUME TypeOK, Consistent, Assign
  PROVE  \E it \in Items :
           /\ it = batch[pos] /\ pos \in DOMAIN Waiting /\ Waiting[pos] = it
           /\ it.entry \in Messages /\ Queued(it.entry) /\ it \in Open(it.entry)
           /\ results[it] = "none" /\ results'[it] # "none"
           /\ \A other \in Items : other # it => results'[other] = results[other]
           /\ delivered' = IF Open(it.entry)' = {} THEN Append(delivered, it.entry)
                                                   ELSE delivered
           /\ UNCHANGED <<accepted, caller, outcome>>
  <1>1. pc = "assign" /\ batch # <<>>
    BY DEF Assign, TypeOK
  <1>2. PICK it \in Items : it = batch[pos]
    BY <1>1, BatchItem
  <1>3. /\ StoreResult(it)
        /\ delivered' = IF remaining[it.entry] = 1 THEN Append(delivered, it.entry)
                                                   ELSE delivered
        /\ UNCHANGED <<outcome, rows, caller, accepted>>
    BY <1>2 DEF Assign, callerVars, storeVars
  <1>4. /\ it.entry \in Messages /\ it \in Open(it.entry) /\ Queued(it.entry)
        /\ outcome[it] # "none"
        /\ IsFiniteSet(Open(it.entry))
        /\ remaining[it.entry] \in Nat \ {0}
    BY <1>1, <1>2, CurrentIsOpen
  <1>5. /\ \A other \in Items : other # it => results'[other] = results[other]
        /\ results'[it] = outcome[it]
        /\ \A m \in Messages : Queued(m)' => remaining'[m] = Cardinality(Open(m)')
        /\ remaining[it.entry] = 1 => Open(it.entry)' = {}
    BY <1>1, <1>2, <1>3, StoreResultCounts
  <1>6. Open(it.entry)' = {} => remaining[it.entry] = 1
    <2>1. remaining'[it.entry] = Cardinality(Open(it.entry)')
      BY <1>3, <1>4, <1>5 DEF Queued
    <2>2. remaining'[it.entry] = remaining[it.entry] - 1
      BY <1>3, <1>4 DEF StoreResult, TypeOK
    <2>3. Open(it.entry)' = {} => remaining'[it.entry] = 0
      BY <2>1, FS_EmptySet
    <2>. QED
      BY <1>4, <2>2, <2>3
  <1>7. pos \in DOMAIN Waiting /\ Waiting[pos] = it
    BY <1>1, <1>2, BatchItem, WaitingFacts
  <1>8. results[it] = "none"
    BY <1>4 DEF Open
  <1>. QED
    BY <1>2, <1>3, <1>4, <1>5, <1>6, <1>7, <1>8

\* After a flush or within it, what waits is a part of what waited, in the same order, and
\* without a panic no open line is missing.
LEMMA WaitingLeaves ==
  ASSUME TypeOK, Consistent, Assign \/ Panic
  PROVE  \E k \in Nat :
           /\ DOMAIN Waiting' \subseteq Nat
           /\ \A i \in DOMAIN Waiting' : /\ i + k \in DOMAIN Waiting
                                         /\ Waiting'[i] = Waiting[i + k]
           /\ Assign =>
                \A j \in DOMAIN Waiting :
                  results'[Waiting[j]] = "none" => j > k /\ j - k \in DOMAIN Waiting'
  <1>1. CASE UNCHANGED <<batch, queue>>
    <2>1. Waiting' = Waiting
      BY <1>1 DEF Waiting
    <2>2. \A i \in DOMAIN Waiting : i \in Nat /\ i > 0 /\ i + 0 = i /\ i - 0 = i
      BY WaitingFacts
    <2>. QED
      BY <2>1, <2>2
  <1>2. CASE batch' = <<>> /\ queue' = queue
    <2>1. Waiting' = queue
      BY <1>2, WaitingFacts, ConcatEmptySeq DEF Waiting
    <2>2. /\ Len(batch) \in Nat
          /\ \A i \in DOMAIN queue : /\ i + Len(batch) \in DOMAIN Waiting
                                     /\ queue[i] = Waiting[i + Len(batch)]
      BY WaitingFacts
    <2>3. ASSUME Assign, NEW j \in DOMAIN Waiting, results'[Waiting[j]] = "none"
          PROVE  j > Len(batch) /\ j - Len(batch) \in DOMAIN queue
      <3>1. pc = "assign" /\ batch # <<>>
        BY <2>3 DEF Assign, TypeOK
      <3>2. pos = Len(batch)
        BY <1>2, <2>3, <3>1, BatchItem, WaitingFacts DEF Assign
      <3>3. PICK it \in Items :
              /\ it = batch[pos] /\ Waiting[pos] = it /\ results'[it] # "none"
              /\ \A other \in Items : other # it => results'[other] = results[other]
        BY <2>3, AssignSettles
      <3>4. Waiting[j] \in Items /\ Waiting[j] # it /\ j # pos
        BY <2>3, <3>3, WaitingFacts, ElementOfSeq
      <3>5. results[Waiting[j]] = "none"
        BY <2>3, <3>3, <3>4
      <3>6. j <= Len(batch) => Waiting[j] = batch[j] /\ j \in DOMAIN batch
        BY <2>3, WaitingFacts
      <3>7. j \in DOMAIN batch => j >= pos
        BY <3>1, <3>5, <3>6, WaitingFacts DEF Consistent, BatchProgress
      <3>. QED
        BY <2>3, <3>2, <3>4, <3>6, <3>7, WaitingFacts
    <2>. QED
      BY <2>1, <2>2, <2>3, WaitingFacts
  <1>3. UNCHANGED <<batch, queue>> \/ (batch' = <<>> /\ queue' = queue)
    BY DEF Assign, Panic, EndFlush, queueVars
  <1>. QED
    BY <1>1, <1>2, <1>3

LEMMA AcceptedStays ==
  ASSUME accepted' = accepted
  PROVE  /\ \A x, y : BeforeNext(x, y) <=> AcceptedBefore(x, y)
         /\ Elements(accepted)' = Elements(accepted)
  BY DEF BeforeNext, AcceptedBefore, Elements

\* What is left in order stays in order.
LEMMA LeftInOrder ==
  ASSUME TypeOK, Ordered, accepted' = accepted, NEW k \in Nat,
         DOMAIN Waiting' \subseteq Nat,
         \A i \in DOMAIN Waiting' : i + k \in DOMAIN Waiting /\ Waiting'[i] = Waiting[i + k],
         \A m \in Elements(delivered)', j \in DOMAIN Waiting' :
           results'[Waiting'[j]] = "none" => AcceptedBefore(m, Waiting'[j].entry)
  PROVE  WaitingInOrder'
  <1>1. ASSUME NEW i \in DOMAIN Waiting', NEW j \in DOMAIN Waiting', i < j
        PROVE  \/ Waiting'[i].entry = Waiting'[j].entry
               \/ AcceptedBefore(Waiting'[i].entry, Waiting'[j].entry)
    <2>1. i + k < j + k
      BY <1>1
    <2>. QED
      BY <2>1 DEF Ordered, WaitingInOrder
  <1>2. \A x, y : BeforeNext(x, y) <=> AcceptedBefore(x, y)
    BY AcceptedStays
  <1>3. /\ \A i, j \in DOMAIN Waiting' : i < j =>
             \/ Waiting'[i].entry = Waiting'[j].entry
             \/ BeforeNext(Waiting'[i].entry, Waiting'[j].entry)
        /\ \A m \in Elements(delivered)', j \in DOMAIN Waiting' :
             results'[Waiting'[j]] = "none" => BeforeNext(m, Waiting'[j].entry)
    BY <1>1, <1>2
  <1>. QED
    BY <1>3 DEF WaitingInOrder, AcceptedBefore, BeforeNext

LEMMA PanicOrdered ==
  ASSUME TypeOK, Consistent, Ordered, Panic
  PROVE  Ordered'
  <1>1. /\ CanPanic
        /\ UNCHANGED <<accepted, delivered, caller, outcome>>
        /\ \/ results' = results
           \/ pc = "assign" /\ StoreResult(batch[pos])
    BY DEF Panic, entryVars, callerVars, storeVars
  <1>2. PICK k \in Nat :
          /\ DOMAIN Waiting' \subseteq Nat
          /\ \A i \in DOMAIN Waiting' : i + k \in DOMAIN Waiting /\ Waiting'[i] = Waiting[i + k]
    BY WaitingLeaves
  <1>3. \A it \in Items : results'[it] = "none" => results[it] = "none"
    <2>1. CASE results' = results
      BY <2>1
    <2>2. CASE pc = "assign" /\ StoreResult(batch[pos])
      <3>1. batch[pos] \in Items /\ outcome[batch[pos]] # "none"
        BY <2>2, CurrentIsOpen
      <3>. QED
        BY <2>2, <3>1 DEF StoreResult, TypeOK
    <2>. QED
      BY <1>1, <2>1, <2>2
  <1>4. Elements(delivered)' = Elements(delivered)
    BY <1>1 DEF Elements
  <1>5. \A i \in DOMAIN Waiting : Waiting[i] \in Items
    BY WaitingFacts, ElementOfSeq, LenProperties
  <1>6. WaitingInOrder'
    <2>1. ASSUME NEW m \in Elements(delivered)', NEW j \in DOMAIN Waiting',
                 results'[Waiting'[j]] = "none"
          PROVE  AcceptedBefore(m, Waiting'[j].entry)
      <3>1. j + k \in DOMAIN Waiting /\ Waiting'[j] = Waiting[j + k]
        BY <1>2
      <3>2. results[Waiting[j + k]] = "none"
        BY <1>3, <1>5, <2>1, <3>1
      <3>. QED
        BY <1>4, <3>1, <3>2 DEF Ordered, WaitingInOrder
    <2>. QED
      BY <1>1, <1>2, <2>1, LeftInOrder
  <1>7. AcceptedOnce' /\ AnswersInOrder'
    <2>1. /\ \A x, y : AcceptedBefore(x, y)' <=> AcceptedBefore(x, y)
          /\ Elements(accepted)' = Elements(accepted)
          /\ \A m : Queued(m)' <=> Queued(m)
      BY <1>1 DEF AcceptedBefore, Elements, Queued
    <2>2. AcceptedOnce'
      BY <1>1, <1>4, <2>1 DEF Ordered, AcceptedOnce
    <2>3. AnswersInOrder'
      BY <1>1, <2>1 DEF Ordered, AnswersInOrder
    <2>. QED
      BY <2>2, <2>3
  <1>8. AnsweredWhenDone' /\ NoLineLost'
    BY <1>1 DEF AnsweredWhenDone, NoLineLost
  <1>. QED
    BY <1>6, <1>7, <1>8 DEF Ordered

\* The message that Assign hands over is after all that were handed over, and without a
\* panic it is the next one that was accepted.
LEMMA NextAnswer ==
  ASSUME TypeOK, Consistent, Ordered, Assign, NEW it \in Items, it = batch[pos],
         Open(it.entry)' = {}
  PROVE  /\ it.entry \in Messages /\ it.entry \in Elements(accepted)
         /\ \A m \in Elements(delivered) : AcceptedBefore(m, it.entry)
         /\ ~CanPanic => /\ Len(delivered) \in 0..(Len(accepted) - 1)
                         /\ accepted[Len(delivered) + 1] = it.entry
  <1> DEFINE n == Len(delivered)
  <1>1. /\ pos \in DOMAIN Waiting /\ Waiting[pos] = it
        /\ it.entry \in Messages /\ Queued(it.entry) /\ it \in Open(it.entry)
        /\ results[it] = "none"
        /\ \A other \in Items : other # it => results'[other] = results[other]
    BY AssignSettles
  <1>2. it.entry \in Elements(accepted)
    BY <1>1 DEF Ordered, AcceptedOnce
  <1>3. \A m \in Elements(delivered) : AcceptedBefore(m, it.entry)
    BY <1>1 DEF Ordered, WaitingInOrder
  <1>4. ASSUME ~CanPanic
        PROVE  /\ n \in 0..(Len(accepted) - 1)
               /\ accepted[n + 1] = it.entry
    <2>1. /\ n \in 0..Len(accepted)
          /\ \A i \in DOMAIN delivered : delivered[i] = accepted[i]
      BY <1>4, DeliveredFit DEF Ordered
    <2>2. /\ DOMAIN delivered = 1..n /\ DOMAIN accepted = 1..Len(accepted)
          /\ n \in Nat /\ Len(accepted) \in Nat
      BY AcceptedFacts
    <2> HIDE DEF n
    <2>3. PICK k \in DOMAIN accepted : accepted[k] = it.entry
      BY <1>2 DEF Elements
    <2>4. ~AcceptedBefore(it.entry, it.entry)
      BY BeforeIsStrict DEF Ordered
    <2>5. it.entry \notin Elements(delivered)
      BY <1>3, <2>4
    <2>6. k > n
      BY <2>1, <2>2, <2>3, <2>5 DEF Elements
    <2>7. ASSUME k > n + 1
          PROVE  FALSE
      <3> DEFINE m == accepted[n + 1]
      <3>1. n + 1 \in DOMAIN accepted /\ m \in Messages
        BY <2>2, <2>7, AcceptedFacts
      <3>2. AcceptedBefore(m, it.entry)
        BY <2>2, <2>3, <2>7, <3>1 DEF AcceptedBefore
      <3>3. Queued(m)
        BY <3>1 DEF Ordered, AcceptedOnce, Elements
      <3>4. m \notin Elements(delivered)
        <4>1. ASSUME NEW i \in DOMAIN delivered, delivered[i] = m
              PROVE  FALSE
          <5>1. i \in DOMAIN accepted /\ accepted[i] = accepted[n + 1] /\ i # n + 1
            BY <2>1, <2>2, <4>1
          <5>. QED
            BY <3>1, <5>1 DEF Ordered, AcceptedOnce
        <4>. QED
          BY <4>1 DEF Elements
      <3>5. Open(m) # {}
        BY <1>4, <3>1, <3>3, <3>4 DEF Ordered, AnsweredWhenDone
      <3>6. PICK other \in Items : other.entry = m /\ results[other] = "none"
        BY <3>5 DEF Open
      <3>7. other \in Elements(Waiting)
        <4>1. m \in Elements(accepted)
          BY <3>1 DEF Elements
        <4>. QED
          BY <1>4, <3>6, <4>1 DEF Ordered, NoLineLost
      <3>8. PICK j \in DOMAIN Waiting : Waiting[j] = other
        BY <3>7 DEF Elements
      <3>9. m # it.entry /\ ~AcceptedBefore(it.entry, m)
        BY <3>2, BeforeIsStrict DEF Ordered
      <3>10. ~(pos < j)
        BY <1>1, <3>6, <3>8, <3>9 DEF Ordered, WaitingInOrder
      <3>11. j # pos
        BY <1>1, <3>6, <3>8, <3>9
      <3>12. j \in DOMAIN batch /\ batch[j] = other /\ j < pos /\ pc = "assign"
        <4>1. pc = "assign" /\ batch # <<>>
          BY DEF Assign, TypeOK
        <4>. QED
          BY <3>8, <3>10, <3>11, <4>1, BatchItem, WaitingFacts
      <3>13. results[other] # "none"
        BY <3>12, WaitingFacts DEF Consistent, BatchProgress, TypeOK
      <3>. QED
        BY <3>6, <3>13
    <2>8. k = n + 1 /\ n \in 0..(Len(accepted) - 1)
      BY <2>2, <2>3, <2>6, <2>7
    <2>. QED
      BY <2>3, <2>8
  <1>. QED
    BY <1>1, <1>2, <1>3, <1>4

LEMMA AssignOrdered ==
  ASSUME TypeOK, Consistent, Ordered, Assign
  PROVE  Ordered'
  <1>1. PICK it \in Items :
          /\ it = batch[pos] /\ pos \in DOMAIN Waiting /\ Waiting[pos] = it
          /\ it.entry \in Messages /\ Queued(it.entry) /\ it \in Open(it.entry)
          /\ results[it] = "none" /\ results'[it] # "none"
          /\ \A other \in Items : other # it => results'[other] = results[other]
          /\ delivered' = IF Open(it.entry)' = {} THEN Append(delivered, it.entry)
                                                  ELSE delivered
          /\ UNCHANGED <<accepted, caller, outcome>>
    BY AssignSettles
  <1>2. PICK k \in Nat :
          /\ DOMAIN Waiting' \subseteq Nat
          /\ \A i \in DOMAIN Waiting' : i + k \in DOMAIN Waiting /\ Waiting'[i] = Waiting[i + k]
          /\ \A j \in DOMAIN Waiting :
               results'[Waiting[j]] = "none" => j > k /\ j - k \in DOMAIN Waiting'
    BY WaitingLeaves
  <1>3. /\ \A x, y : AcceptedBefore(x, y)' <=> AcceptedBefore(x, y)
        /\ Elements(accepted)' = Elements(accepted)
        /\ \A m : Queued(m)' <=> Queued(m)
    BY <1>1 DEF AcceptedBefore, Elements, Queued
  <1>4. /\ delivered \in Seq(Messages) /\ Len(delivered) \in Nat
        /\ DOMAIN delivered = 1..Len(delivered)
    BY AcceptedFacts
  <1>5. \A m \in Elements(delivered)' :
          m \in Elements(delivered) \/ (m = it.entry /\ Open(it.entry)' = {})
    <2>1. Elements(delivered') = Elements(delivered)'
      BY DEF Elements
    <2>. QED
      BY <1>1, <1>4, <2>1, AppendedElements
  <1>6. Elements(delivered) \subseteq Elements(delivered)'
        /\ (Open(it.entry)' = {} => it.entry \in Elements(delivered)')
    <2>1. Elements(delivered') = Elements(delivered)'
      BY DEF Elements
    <2>. QED
      BY <1>1, <1>4, <2>1, AppendedElements
  <1>7. \A i \in DOMAIN Waiting : Waiting[i] \in Items /\ i \in Nat
    BY WaitingFacts, ElementOfSeq, LenProperties
  <1>8. AcceptedOnce'
    <2>1. \A m \in Elements(delivered)' : Queued(m)
      BY <1>1, <1>5 DEF Ordered, AcceptedOnce
    <2>. QED
      BY <1>1, <1>3, <2>1 DEF Ordered, AcceptedOnce
  <1>9. WaitingInOrder'
    <2>1. ASSUME NEW m \in Elements(delivered)', NEW j \in DOMAIN Waiting',
                 results'[Waiting'[j]] = "none"
          PROVE  AcceptedBefore(m, Waiting'[j].entry)
      <3>1. /\ j + k \in DOMAIN Waiting /\ Waiting'[j] = Waiting[j + k]
            /\ Waiting[j + k] # it /\ results[Waiting[j + k]] = "none"
        BY <1>1, <1>2, <1>7, <2>1
      <3>2. CASE m \in Elements(delivered)
        BY <3>1, <3>2 DEF Ordered, WaitingInOrder
      <3>3. CASE m = it.entry /\ Open(it.entry)' = {}
        <4>1. Waiting[j + k].entry # it.entry
          BY <1>7, <2>1, <3>1, <3>3 DEF Open
        <4>2. j + k # pos
          BY <1>1, <3>1
        <4>3. ~(j + k < pos)
          <5>1. pc = "assign" /\ batch # <<>>
            BY DEF Assign, TypeOK
          <5>2. j + k < pos => j + k \in DOMAIN batch /\ batch[j + k] = Waiting[j + k]
            BY <1>7, <3>1, <5>1, BatchItem, WaitingFacts
          <5>. QED
            BY <3>1, <5>1, <5>2, <1>1, <1>7 DEF Consistent, BatchProgress
        <4>4. pos < j + k
          BY <1>1, <1>7, <3>1, <4>2, <4>3
        <4>. QED
          BY <1>1, <3>1, <3>3, <4>1, <4>4 DEF Ordered, WaitingInOrder
      <3>. QED
        BY <1>5, <3>2, <3>3
    <2>. QED
      BY <1>1, <1>2, <2>1, LeftInOrder
  <1>10. AnsweredWhenDone'
    <2>1. ASSUME ~CanPanic, NEW m \in Messages, Queued(m), Open(m)' = {}
          PROVE  m \in Elements(delivered)'
      <3>1. m # it.entry => Open(m)' = Open(m)
        BY <1>1 DEF Open
      <3>. QED
        BY <1>6, <2>1, <3>1 DEF Ordered, AnsweredWhenDone
    <2>. QED
      BY <1>3, <2>1 DEF AnsweredWhenDone
  <1>11. NoLineLost'
    <2>1. ASSUME ~CanPanic, NEW other \in Items,
                 other.entry \in Elements(accepted), results'[other] = "none"
          PROVE  other \in Elements(Waiting)'
      <3>1. other # it /\ results[other] = "none"
        BY <1>1, <2>1
      <3>2. PICK j \in DOMAIN Waiting : Waiting[j] = other
        BY <2>1, <3>1 DEF Ordered, NoLineLost, Elements
      <3>3. j - k \in DOMAIN Waiting' /\ Waiting'[j - k] = other
        <4>1. j > k /\ j - k \in DOMAIN Waiting'
          BY <1>2, <2>1, <3>2
        <4>2. (j - k) + k = j
          BY <1>2, <1>7, <3>2
        <4>. QED
          BY <1>2, <3>2, <4>1, <4>2
      <3>. QED
        BY <3>3 DEF Elements
    <2>. QED
      BY <1>3, <2>1 DEF NoLineLost
  <1>12. AnswersInOrder'
    <2>1. CASE delivered' = delivered
      BY <1>1, <1>3, <2>1 DEF Ordered, AnswersInOrder
    <2>2. CASE Open(it.entry)' = {}
      <3>1. /\ it.entry \in Messages
            /\ \A m \in Elements(delivered) : AcceptedBefore(m, it.entry)
            /\ ~CanPanic => /\ Len(delivered) \in 0..(Len(accepted) - 1)
                            /\ accepted[Len(delivered) + 1] = it.entry
        BY <1>1, <2>2, NextAnswer
      <3>2. /\ delivered' = Append(delivered, it.entry)
            /\ DOMAIN delivered' = 1..(Len(delivered) + 1)
            /\ \A i \in DOMAIN delivered : delivered'[i] = delivered[i]
            /\ delivered'[Len(delivered) + 1] = it.entry
        BY <1>1, <1>4, <2>2, AppendedElements
      <3>3. ASSUME NEW i \in DOMAIN delivered', NEW j \in DOMAIN delivered', i < j
            PROVE  AcceptedBefore(delivered'[i], delivered'[j])
        <4>1. i \in DOMAIN delivered
          BY <1>4, <3>2, <3>3
        <4>2. CASE j \in DOMAIN delivered
          BY <3>2, <3>3, <4>1, <4>2 DEF Ordered, AnswersInOrder
        <4>3. CASE j = Len(delivered) + 1
          BY <3>1, <3>2, <4>1, <4>3 DEF Elements
        <4>. QED
          BY <1>4, <3>2, <4>2, <4>3
      <3>4. ASSUME ~CanPanic
            PROVE  delivered' = SubSeq(accepted, 1, Len(delivered'))
        <4>1. delivered = SubSeq(accepted, 1, Len(delivered))
          BY <3>4 DEF Ordered, AnswersInOrder
        <4>2. Len(delivered') = Len(delivered) + 1
          BY <1>4, <3>1, <3>2, AppendProperties
        <4>3. SubSeq(accepted, 1, Len(delivered) + 1)
                = Append(SubSeq(accepted, 1, Len(delivered)), accepted[Len(delivered) + 1])
          BY <3>1, <3>4, LongerPrefix, AcceptedFacts
        <4>. QED
          BY <3>1, <3>2, <3>4, <4>1, <4>2, <4>3
      <3>5. \A i, j \in DOMAIN delivered' :
              i < j => BeforeNext(delivered'[i], delivered'[j])
        BY <1>1, <3>3, AcceptedStays
      <3>6. ~CanPanic => delivered' = SubSeq(accepted', 1, Len(delivered'))
        BY <1>1, <3>4
      <3>. QED
        BY <3>5, <3>6 DEF AnswersInOrder, AcceptedBefore, BeforeNext
    <2>. QED
      BY <1>1, <2>1, <2>2
  <1>. QED
    BY <1>8, <1>9, <1>10, <1>11, <1>12 DEF Ordered

LEMMA NextOrdered ==
  ASSUME TypeOK, Consistent, Ordered, [Next]_vars
  PROVE  Ordered'
  <1>1. CASE \E m \in Messages : PushBlank(m) \/ Push(m) \/ DecideAck(m)
    BY <1>1, PushOrdered, OtherStepsOrdered
  <1>2. CASE \/ TimePasses \/ Cancel \/ Start \/ OnTick \/ Stop \/ UNCHANGED vars
             \/ Take \/ Defer \/ FailBatch \/ ParseOk \/ RecordItem
    BY <1>2, OtherStepsOrdered
  <1>3. CASE Assign \/ Panic
    BY <1>3, AssignOrdered, PanicOrdered
  <1>. QED
    BY <1>1, <1>2, <1>3 DEF Next, Steps

\* In every reachable state the lines that wait, and the messages that were handed over,
\* are in the order in which push accepted the messages, however often batches are
\* requeued while other messages arrive (push, take, requeue, flush).
THEOREM BatcherOrdered == Spec => []Ordered
  <1>1. Init => Ordered
    BY InitOrdered
  <1>2. TypeOK /\ Consistent /\ Ordered /\ [Next]_vars => Ordered'
    BY NextOrdered
  <1>. QED
    BY <1>1, <1>2, BatcherConsistent, PTL DEF Spec

\* Unless a flush panics, every accepted line without a result is in the batch or in the
\* queue: requeue forgets none, and take and push leave none out.
THEOREM NoLineIsLost == Spec => []NoLineLost
  <1>1. Ordered => NoLineLost
    BY DEF Ordered
  <1>. QED
    BY <1>1, BatcherOrdered, PTL

\* Messages are handed to deliver once each and in the order of acceptance, also when their
\* lines are spread over several batches; without a panic none is passed over.
THEOREM AnswersComeInOrder == Spec => []AnswersInOrder
  <1>1. Ordered => AnswersInOrder
    BY DEF Ordered
  <1>. QED
    BY <1>1, BatcherOrdered, PTL

-----------------------------------------------------------------------------
(* The promise to the sender.                                              *)

LEMMA PromiseStutter ==
  ASSUME UNCHANGED <<accepted, outcome, delivered>>
  PROVE  UNCHANGED Promise!promiseVars
  BY DEF Promise!promiseVars

LEMMA PushAccepts ==
  ASSUME TypeOK, Ordered, NEW m \in Messages, Push(m)
  PROVE  Promise!Accept(m)
  <1>1. /\ caller[m] = "new" /\ accepted' = Append(accepted, m)
        /\ UNCHANGED <<outcome, delivered>>
    BY DEF Push, storeVars
  <1>2. m \notin Elements(accepted)
    BY <1>1 DEF Ordered, AcceptedOnce, Queued
  <1>. QED
    BY <1>1, <1>2 DEF Promise!Accept, Promise!Elements, Elements

\* Lines of the batch are those of accepted messages.
LEMMA BatchAccepted ==
  ASSUME TypeOK, Consistent, Ordered, NEW i \in DOMAIN batch
  PROVE  /\ batch[i] \in Items
         /\ batch[i].entry \in Promise!Elements(accepted)
  <1>1. batch[i] \in Items /\ batch[i].entry \in Messages /\ Queued(batch[i].entry)
    BY BatchWasQueued
  <1>2. batch[i].entry \in Elements(accepted)
    BY <1>1 DEF Ordered, AcceptedOnce
  <1>. QED
    BY <1>1, <1>2 DEF Elements, Promise!Elements

LEMMA FailBatchSettles ==
  ASSUME TypeOK, Consistent, Ordered, FailBatch
  PROVE  Promise!Settle(Elements(batch), "failed") /\ Elements(batch) \in SUBSET Items
  <1>1. /\ pc = "parse"
        /\ outcome' = [it \in Items |-> IF it \in Elements(batch) THEN "failed"
                                                                  ELSE outcome[it]]
        /\ UNCHANGED <<accepted, delivered>>
    BY DEF FailBatch
  <1>2. ASSUME NEW it \in Elements(batch)
        PROVE  it \in Items /\ it.entry \in Promise!Elements(accepted) /\ outcome[it] = "none"
    <2>1. PICK i \in DOMAIN batch : batch[i] = it
      BY <1>2 DEF Elements
    <2>2. outcome[batch[i]] = "none"
      BY <1>1 DEF Consistent, BatchProgress
    <2>. QED
      BY <2>1, <2>2, BatchAccepted
  <1>. QED
    BY <1>1, <1>2 DEF Promise!Settle

LEMMA RecordItemSettles ==
  ASSUME TypeOK, Consistent, Ordered, RecordItem
  PROVE  \E lines \in SUBSET Items, result \in {"saved", "failed"} :
           Promise!Settle(lines, result)
  <1>1. pc = "save" /\ batch # <<>>
    BY DEF RecordItem, TypeOK
  <1>2. pos \in DOMAIN batch
    BY <1>1, BatchItem, WaitingFacts
  <1>3. PICK it \in Items : it = batch[pos]
    BY <1>2, BatchAccepted
  <1>4. it.entry \in Promise!Elements(accepted) /\ outcome[it] = "none"
    <2>1. outcome[batch[pos]] = "none"
      BY <1>1, <1>2, WaitingFacts DEF Consistent, BatchProgress
    <2>. QED
      BY <1>2, <1>3, <2>1, BatchAccepted
  <1>5. PICK result \in {"saved", "failed"} : outcome' = [outcome EXCEPT ![it] = result]
    BY <1>3 DEF RecordItem
  <1>6. outcome' = [other \in Items |-> IF other \in {it} THEN result ELSE outcome[other]]
    BY <1>5 DEF TypeOK
  <1>7. UNCHANGED <<accepted, delivered>>
    BY DEF RecordItem
  <1>8. Promise!Settle({it}, result)
    BY <1>4, <1>6, <1>7 DEF Promise!Settle
  <1>. QED
    BY <1>8

LEMMA AssignAnswers ==
  ASSUME TypeOK, Consistent, Ordered, Assign
  PROVE  \/ UNCHANGED Promise!promiseVars
         \/ \E m \in Messages : Promise!Answer(m)
  <1>1. PICK it \in Items :
          /\ it = batch[pos] /\ it.entry \in Messages
          /\ it \in Open(it.entry)
          /\ delivered' = IF Open(it.entry)' = {} THEN Append(delivered, it.entry)
                                                  ELSE delivered
          /\ UNCHANGED <<accepted, outcome>>
    BY AssignSettles
  <1>2. CASE delivered' = delivered
    BY <1>1, <1>2, PromiseStutter
  <1>3. CASE Open(it.entry)' = {}
    <2> DEFINE m == it.entry
    <2>1. /\ m \in Messages /\ m \in Elements(accepted)
          /\ \A n \in Elements(delivered) : AcceptedBefore(n, m)
          /\ ~CanPanic => /\ Len(delivered) \in 0..(Len(accepted) - 1)
                          /\ accepted[Len(delivered) + 1] = m
      BY <1>1, <1>3, NextAnswer
    <2>2. m \notin Elements(delivered)
      BY <2>1, BeforeIsStrict DEF Ordered
    <2>3. Promise!Settled(m)
      <3>1. StoresAgree'
        BY AssignConsistent DEF Consistent
      <3>2. \A other \in Items : other.entry = m => results'[other] # "none"
        BY <1>3 DEF Open
      <3>. QED
        BY <1>1, <3>1, <3>2 DEF StoresAgree, Promise!Settled
    <2>4. PICK i \in DOMAIN accepted : accepted[i] = m
      BY <2>1 DEF Elements
    <2>5. ASSUME NEW j \in 1..(i - 1), ~CanPanic
          PROVE  accepted[j] \in Elements(delivered)
      <3>1. /\ \A k \in DOMAIN delivered : delivered[k] = accepted[k]
            /\ DOMAIN delivered = 1..Len(delivered) /\ Len(delivered) \in Nat
        BY <2>5, DeliveredFit, AcceptedFacts DEF Ordered
      <3>2. i = Len(delivered) + 1
        <4>1. Len(delivered) + 1 \in DOMAIN accepted
          BY <2>1, <2>5, <3>1, AcceptedFacts
        <4>. QED
          BY <2>1, <2>4, <2>5, <4>1 DEF Ordered, AcceptedOnce
      <3>3. j \in DOMAIN delivered
        BY <2>5, <3>1, <3>2
      <3>. QED
        BY <3>1, <3>3 DEF Elements
    <2>6. ASSUME NEW j \in (i + 1)..Len(accepted)
          PROVE  accepted[j] \notin Elements(delivered)
      <3>1. j \in DOMAIN accepted /\ i < j
        BY <2>4, <2>6, AcceptedFacts
      <3>2. AcceptedBefore(m, accepted[j])
        BY <2>4, <3>1 DEF AcceptedBefore
      <3>. QED
        BY <2>1, <3>2, BeforeIsStrict DEF Ordered
    <2>7. delivered' = Append(delivered, m)
      BY <1>1, <1>3
    <2> HIDE DEF m
    <2>8. Promise!Answer(m)
      BY <1>1, <2>2, <2>3, <2>4, <2>5, <2>6, <2>7
      DEF Promise!Answer, Promise!Elements, Elements
    <2>. QED
      BY <2>1, <2>8
  <1>. QED
    BY <1>1, <1>2, <1>3

LEMMA NextPromise ==
  ASSUME TypeOK, Consistent, Ordered, [Next]_vars
  PROVE  [Promise!PromiseNext]_Promise!promiseVars
  <1>1. CASE \E m \in Messages : Push(m)
    BY <1>1, PushAccepts DEF Promise!PromiseNext
  <1>2. CASE FailBatch
    BY <1>2, FailBatchSettles DEF Promise!PromiseNext
  <1>3. CASE RecordItem
    BY <1>3, RecordItemSettles DEF Promise!PromiseNext
  <1>4. CASE Assign
    BY <1>4, AssignAnswers DEF Promise!PromiseNext
  <1>5. CASE \/ \E m \in Messages : PushBlank(m) \/ DecideAck(m)
             \/ TimePasses \/ Cancel \/ Start \/ OnTick \/ Stop \/ UNCHANGED vars
             \/ Take \/ Defer \/ ParseOk \/ Panic
    <2>1. UNCHANGED <<accepted, outcome, delivered>>
      BY <1>5 DEF PushBlank, DecideAck, TimePasses, Cancel, Start, OnTick, Stop, Take,
                  Defer, ParseOk, Panic, vars, storeVars
    <2>. QED
      BY <2>1, PromiseStutter
  <1>. QED
    BY <1>1, <1>2, <1>3, <1>4, <1>5 DEF Next, Steps

\* Queue, batches and retries are invisible to the sender: RecordBatcher implements
\* RecordPromise, where a message is accepted, each line settled once, and the message
\* answered once in its turn.
THEOREM BatcherKeepsPromise == Spec => ImplementsPromise
  <1>1. Init => Promise!PromiseInit
    BY DEF Init, Promise!PromiseInit
  <1>2. TypeOK /\ Consistent /\ Ordered /\ [Next]_vars
          => [Promise!PromiseNext]_Promise!promiseVars
    BY NextPromise
  <1>. QED
    BY <1>1, <1>2, BatcherConsistent, BatcherOrdered, PTL
    DEF Spec, ImplementsPromise, Promise!PromiseSpec
=============================================================================
