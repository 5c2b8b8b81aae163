-------------------------- MODULE RecordFlowProofs --------------------------
(***************************************************************************)
(* Proofs about RecordFlow, for any chats, messages and lines, with panics *)
(* and failing sends: the hourglass is never the last reaction.            *)
(***************************************************************************)
EXTENDS RecordFlow, SequenceTheorems, TLAPS

(* Facts about the data. *)

LEMMA JobFacts ==
  /\ \A m \in Messages :
       /\ Process(m) \in Jobs /\ Delivery(m) \in Jobs
       /\ Process(m).message = m /\ Delivery(m).message = m
       /\ Process(m).kind = "process" /\ Delivery(m).kind = "deliver"
       /\ ChatOfJob[Process(m)] = ChatOf[m] /\ ChatOfJob[Delivery(m)] = ChatOf[m]
       /\ ChatOf[m] \in Chats
  /\ \A j \in Jobs :
       /\ j.message \in Messages
       /\ ChatOfJob[j] = ChatOf[j.message] /\ ChatOfJob[j] \in Chats
       /\ j.kind = "process" => j = Process(j.message)
       /\ j.kind # "process" => j = Delivery(j.message)
       /\ j # NoJob
  <1>1. \A m \in Messages :
          /\ Process(m) \in Jobs /\ Delivery(m) \in Jobs
          /\ Process(m).message = m /\ Delivery(m).message = m
          /\ Process(m).kind = "process" /\ Delivery(m).kind = "deliver"
    BY DEF Process, Delivery, Jobs
  <1>2. \A j \in Jobs :
          /\ j.message \in Messages
          /\ j.kind = "process" => j = Process(j.message)
          /\ j.kind # "process" => j = Delivery(j.message)
    BY DEF Process, Delivery, Jobs
  <1>3. \A j \in Jobs : ChatOfJob[j] = ChatOf[j.message]
    BY DEF ChatOfJob
  <1>. QED
    BY <1>1, <1>2, <1>3, ChatOfAssumption, NoJobAssumption

LEMMA AppendFacts ==
  ASSUME NEW S, NEW s \in Seq(S), NEW e \in S
  PROVE  /\ Append(s, e) \in Seq(S)
         /\ Len(s) \in Nat
         /\ DOMAIN s = 1..Len(s)
         /\ DOMAIN Append(s, e) = 1..(Len(s) + 1)
         /\ \A i \in 1..Len(s) : Append(s, e)[i] = s[i]
         /\ Append(s, e)[Len(s) + 1] = e
  BY AppendProperties, LenProperties

LEMMA TailFacts ==
  ASSUME NEW S, NEW s \in Seq(S), s # <<>>
  PROVE  /\ Tail(s) \in Seq(S)
         /\ Head(s) \in S /\ Head(s) = s[1] /\ 1 \in DOMAIN s
         /\ DOMAIN s \subseteq Nat
         /\ \A i \in DOMAIN Tail(s) : i > 0 /\ i + 1 \in DOMAIN s /\ Tail(s)[i] = s[i + 1]
  <1>1. /\ Tail(s) \in Seq(S) /\ Head(s) \in S /\ Len(s) \in Nat
        /\ DOMAIN s = 1..Len(s)
        /\ Len(Tail(s)) = Len(s) - 1
        /\ \A i \in 1..Len(Tail(s)) : Tail(s)[i] = s[i + 1]
        /\ DOMAIN Tail(s) = 1..Len(Tail(s))
    BY HeadTailProperties, LenProperties
  <1>2. Len(s) # 0 /\ Head(s) = s[1]
    BY EmptySeq
  <1>. QED
    BY <1>1, <1>2

LEMMA ElementsAppend ==
  ASSUME NEW S, NEW s \in Seq(S), NEW e \in S
  PROVE  Promise!Elements(Append(s, e)) = Promise!Elements(s) \cup {e}
  BY AppendFacts DEF Promise!Elements

LEMMA ElementsIn ==
  ASSUME NEW S, NEW s \in Seq(S)
  PROVE  Promise!Elements(s) \subseteq S
  BY ElementOfSeq, LenProperties DEF Promise!Elements

-----------------------------------------------------------------------------
(* Types *)

LEMMA InitType == Init => TypeOK
  <1> SUFFICES ASSUME Init PROVE TypeOK
    OBVIOUS
  <1> USE DEF Init, Lanes!LanesInit, Promise!PromiseInit
  <1>1. /\ lane \in [Chats -> Seq(Jobs)] /\ log \in [Chats -> Seq(Sendings)]
        /\ accepted \in Seq(Messages) /\ answered \in Seq(Messages)
        /\ arrived \in Seq(Messages)
    BY EmptySeq
  <1>2. running \in [Chats -> Jobs \cup {NoJob}] /\ step \in [Chats -> {"idle"}]
    OBVIOUS
  <1>. QED
    BY <1>1, <1>2 DEF TypeOK

LEMMA ShowType ==
  ASSUME TypeOK, NEW c \in Chats, running[c] \in Jobs,
         NEW what \in {"hourglass", "ack", "final", "reply"}, Show(c, what)
  PROVE  log' \in [Chats -> Seq(Sendings)]
  <1>1. CASE UNCHANGED log
    BY <1>1 DEF TypeOK
  <1>2. CASE log' # log
    <2> DEFINE to == ChatOf[running[c].message]
               e  == [what |-> what, message |-> running[c].message]
    <2>1. to \in Chats /\ e \in Sendings
      BY JobFacts DEF Sendings
    <2>2. log' = [log EXCEPT ![to] = Append(log[to], e)]
      BY <1>2 DEF Show
    <2>3. log \in [Chats -> Seq(Sendings)]
      BY DEF TypeOK
    <2> HIDE DEF to, e
    <2>4. log[to] \in Seq(Sendings)
      BY <2>1, <2>3
    <2>5. Append(log[to], e) \in Seq(Sendings)
      BY <2>1, <2>4, AppendFacts
    <2>. QED
      BY <2>2, <2>3, <2>5
  <1>. QED
    BY <1>1, <1>2

\* A worker that is not idle has a job.
LEMMA StepHasJob ==
  ASSUME TypeOK, NEW c \in Chats, step[c] # "idle"
  PROVE  running[c] \in Jobs
  BY DEF TypeOK

LEMMA EnterType ==
  ASSUME TypeOK, NEW j \in Jobs, Lanes!Enter(j)
  PROVE  /\ lane' \in [Chats -> Seq(Jobs)]
         /\ running' \in [Chats -> Jobs \cup {NoJob}]
         /\ entered' \in SUBSET Jobs /\ finished' \in SUBSET Jobs
  <1> DEFINE c == ChatOfJob[j]
  <1>1. c \in Chats
    BY JobFacts
  <1>2. /\ lane' = [lane EXCEPT ![c] = Append(lane[c], j)]
        /\ entered' = entered \cup {j} /\ UNCHANGED <<running, finished>>
    BY DEF Lanes!Enter
  <1>3. lane \in [Chats -> Seq(Jobs)]
    BY DEF TypeOK
  <1> HIDE DEF c
  <1>4. lane[c] \in Seq(Jobs)
    BY <1>1, <1>3
  <1>5. Append(lane[c], j) \in Seq(Jobs)
    BY <1>4, AppendFacts
  <1>6. lane' \in [Chats -> Seq(Jobs)]
    BY <1>2, <1>3, <1>5
  <1>. QED
    BY <1>2, <1>6 DEF TypeOK

LEMMA NextType == TypeOK /\ [Next]_vars => TypeOK'
  <1> SUFFICES ASSUME TypeOK, [Next]_vars PROVE TypeOK'
    OBVIOUS
  <1> USE DEF lanesVars, promiseVars
  <1>1. ASSUME NEW m \in Messages, Arrive(m) PROVE TypeOK'
    <2>1. Process(m) \in Jobs
      BY JobFacts
    <2>2. /\ lane' \in [Chats -> Seq(Jobs)]
          /\ entered' \in SUBSET Jobs /\ finished' \in SUBSET Jobs
      BY <1>1, <2>1, EnterType DEF Arrive
    <2>3. UNCHANGED running
      BY <1>1 DEF Arrive, Lanes!Enter
    <2>4. arrived' = Append(arrived, m)
      BY <1>1 DEF Arrive
    <2>5. arrived' \in Seq(Messages)
      BY <2>4, AppendFacts DEF TypeOK
    <2>. QED
      BY <1>1, <2>2, <2>3, <2>5 DEF TypeOK, Arrive
  <1>2. ASSUME NEW m \in Messages, Answer(m) PROVE TypeOK'
    <2>1. answered' = Append(answered, m) /\ UNCHANGED <<accepted, outcome>>
      BY <1>2 DEF Answer, Promise!Answer
    <2>2. answered' \in Seq(Messages)
      BY <2>1, AppendFacts DEF TypeOK
    <2>. QED
      BY <1>2, <2>1, <2>2 DEF TypeOK, Answer
  <1>3. ASSUME NEW c \in Chats, BeginJob(c) PROVE TypeOK'
    <2>1. lane[c] \in Seq(Jobs) /\ lane[c] # <<>>
      BY <1>3 DEF BeginJob, Lanes!Begin, TypeOK
    <2>2. Tail(lane[c]) \in Seq(Jobs) /\ Head(lane[c]) \in Jobs
      BY <2>1, TailFacts
    <2>3. /\ lane' = [lane EXCEPT ![c] = Tail(lane[c])]
          /\ running' = [running EXCEPT ![c] = Head(lane[c])]
          /\ UNCHANGED <<entered, finished>>
      BY <1>3 DEF BeginJob, Lanes!Begin
    <2>4. lane' \in [Chats -> Seq(Jobs)]
      BY <2>2, <2>3 DEF TypeOK
    <2>5. \A d \in Chats : step'[d] = "idle" <=> running'[d] = NoJob
      BY <1>3, <2>2, <2>3, JobFacts DEF TypeOK, BeginJob
    <2>. QED
      BY <1>3, <2>2, <2>3, <2>4, <2>5 DEF TypeOK, BeginJob
  <1>4. ASSUME NEW c \in Chats, QueueRecord(c) PROVE TypeOK'
    <2>1. running[c] \in Jobs
      BY <1>4, StepHasJob DEF QueueRecord
    <2>2. running[c].message \in Messages
      BY <2>1, JobFacts
    <2>3. accepted' = Append(accepted, running[c].message) /\ UNCHANGED <<outcome, answered>>
      BY <1>4 DEF QueueRecord, Promise!Accept
    <2>4. accepted' \in Seq(Messages)
      BY <2>2, <2>3, AppendFacts DEF TypeOK
    <2>. QED
      BY <1>4, <2>3, <2>4 DEF TypeOK, QueueRecord
  <1>5. ASSUME NEW c \in Chats, ReplyAtOnce(c) PROVE TypeOK'
    BY <1>5 DEF TypeOK, ReplyAtOnce
  <1>6. ASSUME NEW c \in Chats, React(c) \/ SendAck(c) \/ SendReply(c) PROVE TypeOK'
    <2>1. step[c] # "idle"
      BY <1>6 DEF React, SendAck, SendReply
    <2>2. running[c] \in Jobs
      BY <2>1, StepHasJob
    <2>3. \E what \in {"hourglass", "ack", "final", "reply"} : Show(c, what)
      BY <1>6 DEF React, SendAck, SendReply
    <2>4. log' \in [Chats -> Seq(Sendings)]
      BY <2>2, <2>3, ShowType
    <2>5. /\ UNCHANGED <<lane, running, entered, finished, accepted, outcome, answered,
                         handing, ctx, arrived>>
          /\ \E s \in {"ack", "reply", "done"} : step' = [step EXCEPT ![c] = s]
      BY <1>6 DEF React, SendAck, SendReply
    <2>. QED
      BY <2>1, <2>4, <2>5 DEF TypeOK
  <1>7. ASSUME NEW c \in Chats, EndJob(c) PROVE TypeOK'
    <2>1. running[c] \in Jobs
      BY <1>7 DEF EndJob, Lanes!End, TypeOK
    <2>. QED
      BY <1>7, <2>1 DEF TypeOK, EndJob, Lanes!End
  <1>8. ASSUME NEW lines \in SUBSET Items, NEW result \in {"saved", "failed"},
               Settle(lines, result)
        PROVE  TypeOK'
    <2>1. /\ outcome' = [it \in Items |-> IF it \in lines THEN result ELSE outcome[it]]
          /\ UNCHANGED <<accepted, answered>>
      BY <1>8 DEF Settle, Promise!Settle
    <2>2. outcome' \in [Items -> {"none", "saved", "failed"}]
      BY <2>1 DEF TypeOK
    <2>. QED
      BY <1>8, <2>1, <2>2 DEF TypeOK, Settle
  <1>9. ASSUME Deliver PROVE TypeOK'
    <2>1. Delivery(handing) \in Jobs
      BY <1>9, JobFacts DEF Deliver, TypeOK
    <2>2. /\ lane' \in [Chats -> Seq(Jobs)]
          /\ entered' \in SUBSET Jobs /\ finished' \in SUBSET Jobs
      BY <1>9, <2>1, EnterType DEF Deliver
    <2>3. UNCHANGED running
      BY <1>9 DEF Deliver, Lanes!Enter
    <2>. QED
      BY <1>9, <2>2, <2>3 DEF TypeOK, Deliver
  <1>10. CASE Cancel
    BY <1>10 DEF TypeOK, Cancel
  <1>11. CASE UNCHANGED vars
    BY <1>11 DEF TypeOK, vars
  <1>. QED
    BY <1>1, <1>2, <1>3, <1>4, <1>5, <1>6, <1>7, <1>8, <1>9, <1>10, <1>11 DEF Next

-----------------------------------------------------------------------------
(* The invariant *)

LEMMA InitConsistent == Init => Consistent
  BY DEF Init, Lanes!LanesInit, Promise!PromiseInit, Consistent, JobsInOnePlace,
         StepsMatch, ProcessBeforeDelivery, FinalAfterProcess,
         HourglassNeverLast, Promise!Elements

\* A job enters the lane of its chat.
LEMMA EnterJobs ==
  ASSUME TypeOK, JobsInOnePlace, NEW j \in Jobs, Lanes!Enter(j)
  PROVE  JobsInOnePlace'
  <1>1. PICK c \in Chats : c = ChatOfJob[j]
    BY JobFacts
  <1>2. /\ lane' = [lane EXCEPT ![c] = Append(lane[c], j)]
        /\ entered' = entered \cup {j} /\ UNCHANGED <<running, finished>>
        /\ j \notin entered
    BY <1>1 DEF Lanes!Enter
  <1>3. lane \in [Chats -> Seq(Jobs)] /\ lane[c] \in Seq(Jobs)
    BY DEF TypeOK
  <1>4. /\ Len(lane[c]) \in Nat
        /\ DOMAIN lane[c] = 1..Len(lane[c])
        /\ DOMAIN Append(lane[c], j) = 1..(Len(lane[c]) + 1)
        /\ \A i \in 1..Len(lane[c]) : Append(lane[c], j)[i] = lane[c][i]
        /\ Append(lane[c], j)[Len(lane[c]) + 1] = j
    BY <1>3, AppendFacts
  <1>5. finished' \subseteq entered'
    BY <1>2 DEF JobsInOnePlace
  <1>6. ASSUME NEW d \in Chats
        PROVE  running'[d] # NoJob =>
                 running'[d] \in entered' \ finished' /\ ChatOfJob[running'[d]] = d
    BY <1>2 DEF JobsInOnePlace
  <1>7. ASSUME NEW d \in Chats, d # c
        PROVE  /\ lane'[d] = lane[d]
               /\ \A i \in DOMAIN lane'[d] :
                    /\ lane'[d][i] \in entered' \ finished'
                    /\ ChatOfJob[lane'[d][i]] = d
                    /\ lane'[d][i] # running'[d]
    BY <1>2, <1>3, <1>7 DEF JobsInOnePlace
  <1>8. lane'[c] = Append(lane[c], j)
    BY <1>2, <1>3
  <1>9. running[c] # j
    BY <1>2, JobFacts DEF JobsInOnePlace
  <1>10. ASSUME NEW i \in DOMAIN Append(lane[c], j)
         PROVE  /\ Append(lane[c], j)[i] \in entered' \ finished'
                /\ ChatOfJob[Append(lane[c], j)[i]] = c
                /\ Append(lane[c], j)[i] # running'[c]
    <2>1. CASE i \in 1..Len(lane[c])
      BY <2>1, <1>2, <1>4 DEF JobsInOnePlace
    <2>2. CASE i = Len(lane[c]) + 1
      BY <2>2, <1>1, <1>2, <1>4, <1>9 DEF JobsInOnePlace
    <2>. QED
      BY <2>1, <2>2, <1>4
  <1>11. ASSUME NEW i \in DOMAIN Append(lane[c], j), NEW k \in DOMAIN Append(lane[c], j),
                Append(lane[c], j)[i] = Append(lane[c], j)[k]
         PROVE  i = k
    <2>1. \A l \in 1..Len(lane[c]) : lane[c][l] # j
      BY <1>2, <1>4 DEF JobsInOnePlace
    <2>. QED
      BY <2>1, <1>4, <1>11 DEF JobsInOnePlace
  <1>12. \A d \in Chats : \A i, k \in DOMAIN lane'[d] : lane'[d][i] = lane'[d][k] => i = k
    BY <1>7, <1>8, <1>11 DEF JobsInOnePlace
  <1>13. \A d \in Chats : \A i \in DOMAIN lane'[d] :
           /\ lane'[d][i] \in entered' \ finished'
           /\ ChatOfJob[lane'[d][i]] = d
           /\ lane'[d][i] # running'[d]
    BY <1>7, <1>8, <1>10
  <1>. QED
    BY <1>5, <1>6, <1>12, <1>13 DEF JobsInOnePlace

\* The oldest job of a lane begins.
LEMMA BeginJobs ==
  ASSUME TypeOK, JobsInOnePlace, NEW c \in Chats, Lanes!Begin(c)
  PROVE  /\ JobsInOnePlace'
         /\ \A j \in Jobs : Begun(j) => Begun(j)'
  <1>1. /\ lane[c] # <<>> /\ running[c] = NoJob
        /\ lane' = [lane EXCEPT ![c] = Tail(lane[c])]
        /\ running' = [running EXCEPT ![c] = Head(lane[c])]
        /\ UNCHANGED <<entered, finished>>
    BY DEF Lanes!Begin
  <1>2. /\ lane \in [Chats -> Seq(Jobs)] /\ lane[c] \in Seq(Jobs)
        /\ running \in [Chats -> Jobs \cup {NoJob}]
    BY DEF TypeOK
  <1>3. /\ Head(lane[c]) = lane[c][1] /\ 1 \in DOMAIN lane[c]
        /\ DOMAIN lane[c] \subseteq Nat
        /\ \A i \in DOMAIN Tail(lane[c]) :
             i > 0 /\ i + 1 \in DOMAIN lane[c] /\ Tail(lane[c])[i] = lane[c][i + 1]
        /\ DOMAIN Tail(lane[c]) \subseteq Nat
    <2>1. Tail(lane[c]) \in Seq(Jobs)
      BY <1>1, <1>2, TailFacts
    <2>2. DOMAIN Tail(lane[c]) \subseteq Nat
      BY <2>1, LenProperties
    <2>. QED
      BY <1>1, <1>2, <2>2, TailFacts
  <1>4. /\ lane'[c] = Tail(lane[c]) /\ running'[c] = Head(lane[c])
        /\ \A d \in Chats : d # c => lane'[d] = lane[d] /\ running'[d] = running[d]
    BY <1>1, <1>2
  <1>5. ASSUME NEW i \in DOMAIN Tail(lane[c])
        PROVE  /\ Tail(lane[c])[i] \in entered \ finished
               /\ ChatOfJob[Tail(lane[c])[i]] = c
               /\ Tail(lane[c])[i] # Head(lane[c])
    <2>1. i + 1 \in DOMAIN lane[c] /\ i + 1 # 1 /\ Tail(lane[c])[i] = lane[c][i + 1]
      BY <1>3
    <2>. QED
      BY <2>1, <1>3 DEF JobsInOnePlace
  <1>6. ASSUME NEW i \in DOMAIN Tail(lane[c]), NEW k \in DOMAIN Tail(lane[c]),
               Tail(lane[c])[i] = Tail(lane[c])[k]
        PROVE  i = k
    <2>1. i + 1 = k + 1 /\ i \in Nat /\ k \in Nat
      BY <1>3, <1>6 DEF JobsInOnePlace
    <2>. QED
      BY <2>1
  <1>7. Head(lane[c]) \in entered \ finished /\ ChatOfJob[Head(lane[c])] = c
    BY <1>3 DEF JobsInOnePlace
  <1>8. JobsInOnePlace'
    <2>1. finished' \subseteq entered'
      BY <1>1 DEF JobsInOnePlace
    <2>2. \A d \in Chats : \A i \in DOMAIN lane'[d] :
            /\ lane'[d][i] \in entered' \ finished'
            /\ ChatOfJob[lane'[d][i]] = d
            /\ lane'[d][i] # running'[d]
      <3>1. ASSUME NEW d \in Chats, NEW i \in DOMAIN lane'[d]
            PROVE  /\ lane'[d][i] \in entered' \ finished'
                   /\ ChatOfJob[lane'[d][i]] = d
                   /\ lane'[d][i] # running'[d]
        <4>1. CASE d # c
          <5>1. lane'[d] = lane[d] /\ running'[d] = running[d]
            BY <1>4, <4>1
          <5>2. i \in DOMAIN lane[d]
            BY <3>1, <5>1
          <5>. QED
            BY <5>1, <5>2, <1>1 DEF JobsInOnePlace
        <4>2. CASE d = c
          <5>1. i \in DOMAIN Tail(lane[c]) /\ lane'[c][i] = Tail(lane[c])[i]
            BY <1>4, <3>1, <4>2
          <5>. QED
            BY <4>2, <5>1, <1>1, <1>4, <1>5
        <4>. QED
          BY <4>1, <4>2
      <3>. QED
        BY <3>1
    <2>3. \A d \in Chats : running'[d] # NoJob =>
            running'[d] \in entered' \ finished' /\ ChatOfJob[running'[d]] = d
      BY <1>1, <1>4, <1>7 DEF JobsInOnePlace
    <2>4. \A d \in Chats : \A i, k \in DOMAIN lane'[d] : lane'[d][i] = lane'[d][k] => i = k
      <3>1. ASSUME NEW d \in Chats, NEW i \in DOMAIN lane'[d], NEW k \in DOMAIN lane'[d],
                   lane'[d][i] = lane'[d][k]
            PROVE  i = k
        <4>1. CASE d # c
          <5>1. lane'[d] = lane[d]
            BY <1>4, <4>1
          <5>. QED
            BY <3>1, <5>1 DEF JobsInOnePlace
        <4>2. CASE d = c
          <5>1. lane'[d] = Tail(lane[c])
            BY <1>4, <4>2
          <5>. QED
            BY <3>1, <5>1, <1>6
        <4>. QED
          BY <4>1, <4>2
      <3>. QED
        BY <3>1
    <2>. QED
      BY <2>1, <2>2, <2>3, <2>4 DEF JobsInOnePlace
  <1>9. ASSUME NEW j \in Jobs, Begun(j) PROVE Begun(j)'
    <2>1. j # NoJob /\ ChatOfJob[j] \in Chats
      BY JobFacts
    <2>. QED
      BY <2>1, <1>1, <1>4, <1>9 DEF Begun
  <1>. QED
    BY <1>8, <1>9

\* The job of a worker ends.
LEMMA EndJobs ==
  ASSUME TypeOK, JobsInOnePlace, NEW c \in Chats, Lanes!End(c)
  PROVE  /\ JobsInOnePlace'
         /\ \A j \in Jobs : Begun(j) => Begun(j)'
  <1>1. /\ running[c] # NoJob
        /\ running' = [running EXCEPT ![c] = NoJob]
        /\ finished' = finished \cup {running[c]}
        /\ UNCHANGED <<lane, entered>>
    BY DEF Lanes!End
  <1>2. /\ lane \in [Chats -> Seq(Jobs)]
        /\ running \in [Chats -> Jobs \cup {NoJob}]
    BY DEF TypeOK
  <1>3. running'[c] = NoJob /\ \A d \in Chats : d # c => running'[d] = running[d]
    BY <1>1, <1>2
  <1>4. ASSUME NEW d \in Chats, NEW i \in DOMAIN lane[d]
        PROVE  lane[d][i] # NoJob /\ lane[d][i] # running[c]
    <2>1. lane[d][i] \in Jobs
      BY <1>2, ElementOfSeq, LenProperties
    <2>2. lane[d][i] = running[c] => d = c
      BY <1>1 DEF JobsInOnePlace
    <2>. QED
      BY <2>1, <2>2, JobFacts DEF JobsInOnePlace
  <1>5. ASSUME NEW d \in Chats, d # c, running[d] # NoJob
        PROVE  running[d] # running[c]
    BY <1>1, <1>5 DEF JobsInOnePlace
  <1>6. JobsInOnePlace'
    <2>1. finished' \subseteq entered'
      BY <1>1 DEF JobsInOnePlace
    <2>2. \A d \in Chats : \A i \in DOMAIN lane'[d] :
            /\ lane'[d][i] \in entered' \ finished'
            /\ ChatOfJob[lane'[d][i]] = d
            /\ lane'[d][i] # running'[d]
      BY <1>1, <1>3, <1>4 DEF JobsInOnePlace
    <2>3. \A d \in Chats : running'[d] # NoJob =>
            running'[d] \in entered' \ finished' /\ ChatOfJob[running'[d]] = d
      BY <1>1, <1>3, <1>5 DEF JobsInOnePlace
    <2>4. \A d \in Chats : \A i, k \in DOMAIN lane'[d] : lane'[d][i] = lane'[d][k] => i = k
      BY <1>1 DEF JobsInOnePlace
    <2>. QED
      BY <2>1, <2>2, <2>3, <2>4 DEF JobsInOnePlace
  <1>7. ASSUME NEW j \in Jobs, Begun(j) PROVE Begun(j)'
    <2>1. ChatOfJob[j] \in Chats
      BY JobFacts
    <2>. QED
      BY <2>1, <1>1, <1>3, <1>7 DEF Begun
  <1>. QED
    BY <1>6, <1>7

LEMMA JobsStay ==
  ASSUME JobsInOnePlace, UNCHANGED <<lane, running, entered, finished>>
  PROVE  JobsInOnePlace'
  BY DEF JobsInOnePlace

LEMMA LogStays ==
  ASSUME FinalAfterProcess, HourglassNeverLast, UNCHANGED log, finished \subseteq finished'
  PROVE  FinalAfterProcess' /\ HourglassNeverLast'
  BY DEF FinalAfterProcess, HourglassNeverLast

LEMMA OrderStays ==
  ASSUME TypeOK, ProcessBeforeDelivery, UNCHANGED <<entered, accepted, answered, handing>>,
         \A j \in Jobs : Begun(j) => Begun(j)'
  PROVE  ProcessBeforeDelivery'
  <1>1. Promise!Elements(accepted) \subseteq Messages
    BY ElementsIn DEF TypeOK
  <1>2. \A m \in Promise!Elements(accepted) : Begun(Process(m))'
    BY <1>1, JobFacts DEF ProcessBeforeDelivery
  <1>3. Promise!Elements(accepted)' = Promise!Elements(accepted)
        /\ Promise!Elements(answered)' = Promise!Elements(answered)
    BY DEF Promise!Elements
  <1>. QED
    BY <1>2, <1>3 DEF ProcessBeforeDelivery

\* A delivery runs only when the process job of its message has ended.
LEMMA DeliveryComesLater ==
  ASSUME TypeOK, JobsInOnePlace, ProcessBeforeDelivery, NEW c \in Chats,
         running[c] \in Jobs, running[c].kind # "process"
  PROVE  Process(running[c].message) \in finished
  <1>1. PICK m \in Messages : m = running[c].message
    BY JobFacts
  <1>2. running[c] = Delivery(m) /\ ChatOf[m] = c
    BY <1>1, JobFacts DEF JobsInOnePlace
  <1>3. Delivery(m) \in entered
    BY <1>2, JobFacts DEF JobsInOnePlace
  <1>4. m \in Promise!Elements(accepted)
    BY <1>3 DEF ProcessBeforeDelivery
  <1>5. Begun(Process(m))
    BY <1>4 DEF ProcessBeforeDelivery
  <1>6. Process(m) # Delivery(m)
    BY DEF Process, Delivery
  <1>7. ChatOfJob[Process(m)] = c
    BY <1>2, JobFacts
  <1>8. running[ChatOfJob[Process(m)]] # Process(m)
    BY <1>2, <1>6, <1>7
  <1>9. Process(m) \in finished
    BY <1>5, <1>8 DEF Begun
  <1>. QED
    BY <1>1, <1>9

\* Something is sent: a final reaction when the process job has ended, an hourglass or
\* an ack by the process job.
LEMMA ShowConsistent ==
  ASSUME TypeOK, Consistent, NEW c \in Chats, running[c] \in Jobs,
         NEW what \in {"hourglass", "ack", "final", "reply"}, Show(c, what),
         what = "final" => running[c].kind # "process",
         what \in {"hourglass", "ack"} => running[c].kind = "process",
         UNCHANGED finished
  PROVE  FinalAfterProcess' /\ HourglassNeverLast'
  <1>1. CASE UNCHANGED log
    BY <1>1, LogStays DEF Consistent
  <1>2. CASE log' # log
    <2>1. PICK m \in Messages : m = running[c].message
      BY JobFacts
    <2>2. PICK to \in Chats : to = ChatOf[m]
      BY JobFacts
    <2>3. PICK e \in Sendings : e = [what |-> what, message |-> m]
      BY DEF Sendings
    <2>4. log' = [log EXCEPT ![to] = Append(log[to], e)]
      BY <1>2, <2>1, <2>2, <2>3 DEF Show
    <2>5. log \in [Chats -> Seq(Sendings)] /\ log[to] \in Seq(Sendings)
      BY DEF TypeOK
    <2>6. e.what = what /\ e.message = m
      BY <2>3
    <2>7. /\ Len(log[to]) \in Nat
          /\ DOMAIN log[to] = 1..Len(log[to])
          /\ DOMAIN Append(log[to], e) = 1..(Len(log[to]) + 1)
          /\ \A i \in 1..Len(log[to]) : Append(log[to], e)[i] = log[to][i]
          /\ Append(log[to], e)[Len(log[to]) + 1] = e
      BY <2>5, AppendFacts
    <2>8. /\ log'[to] = Append(log[to], e)
          /\ \A d \in Chats : d # to => log'[d] = log[d]
      BY <2>4, <2>5
    <2>9. e.what = "final" => Process(e.message) \in finished
      BY <2>1, <2>6, DeliveryComesLater DEF Consistent
    <2>10. e.what \in {"hourglass", "ack"} => Process(e.message) \notin finished
      <3>1. running[c] \notin finished
        BY JobFacts DEF Consistent, JobsInOnePlace
      <3>. QED
        BY <3>1, <2>1, <2>6, JobFacts
    <2>11. ASSUME NEW i \in DOMAIN Append(log[to], e), Append(log[to], e)[i].what = "final"
           PROVE  Process(Append(log[to], e)[i].message) \in finished
      <3>1. CASE i \in 1..Len(log[to])
        BY <3>1, <2>7, <2>11 DEF Consistent, FinalAfterProcess
      <3>2. CASE i = Len(log[to]) + 1
        BY <3>2, <2>7, <2>9, <2>11
      <3>. QED
        BY <3>1, <3>2, <2>7
    <2>12. FinalAfterProcess'
      <3>1. \A d \in Chats : \A i \in DOMAIN log'[d] :
              log'[d][i].what = "final" => Process(log'[d][i].message) \in finished
        BY <2>8, <2>11 DEF Consistent, FinalAfterProcess
      <3>. QED
        BY <3>1 DEF FinalAfterProcess
    <2>13. ASSUME NEW i \in DOMAIN Append(log[to], e), NEW k \in DOMAIN Append(log[to], e),
                  Append(log[to], e)[i].what = "final",
                  Append(log[to], e)[k].what \in {"hourglass", "ack"},
                  Append(log[to], e)[i].message = Append(log[to], e)[k].message
           PROVE  k < i
      <3>1. CASE i \in 1..Len(log[to]) /\ k \in 1..Len(log[to])
        BY <3>1, <2>7, <2>13 DEF Consistent, HourglassNeverLast
      <3>2. CASE i = Len(log[to]) + 1 /\ k \in 1..Len(log[to])
        BY <3>2, <2>7
      <3>3. CASE k = Len(log[to]) + 1
        <4>1. Process(e.message) \in finished
          BY <3>3, <2>7, <2>11, <2>13
        <4>2. e.what \in {"hourglass", "ack"}
          BY <3>3, <2>7, <2>13
        <4>. QED
          BY <4>1, <4>2, <2>10
      <3>. QED
        BY <3>1, <3>2, <3>3, <2>7
    <2>14. HourglassNeverLast'
      <3>1. \A d \in Chats : \A i, k \in DOMAIN log'[d] :
              /\ log'[d][i].what = "final"
              /\ log'[d][k].what \in {"hourglass", "ack"}
              /\ log'[d][i].message = log'[d][k].message
              => k < i
        BY <2>8, <2>13 DEF Consistent, HourglassNeverLast
      <3>. QED
        BY <3>1 DEF HourglassNeverLast
    <2>. QED
      BY <2>12, <2>14
  <1>. QED
    BY <1>1, <1>2

LEMMA NextSteps == TypeOK /\ StepsMatch /\ [Next]_vars => StepsMatch'
  <1> SUFFICES ASSUME TypeOK, StepsMatch, [Next]_vars PROVE StepsMatch'
    OBVIOUS
  <1>1. ASSUME NEW c \in Chats, BeginJob(c) PROVE StepsMatch'
    <2>1. /\ running' = [running EXCEPT ![c] = Head(lane[c])]
          /\ step' = [step EXCEPT ![c] =
                        IF Head(lane[c]).kind = "process" THEN "route" ELSE "react"]
      BY <1>1 DEF BeginJob, Lanes!Begin
    <2>. QED
      BY <2>1 DEF StepsMatch, TypeOK
  <1>2. ASSUME NEW c \in Chats, React(c) PROVE StepsMatch'
    BY <1>2 DEF React, StepsMatch, TypeOK, lanesVars
  <1>3. ASSUME NEW c \in Chats, EndJob(c) PROVE StepsMatch'
    <2>1. /\ running' = [running EXCEPT ![c] = NoJob]
          /\ step' = [step EXCEPT ![c] = "idle"]
      BY <1>3 DEF EndJob, Lanes!End
    <2>. QED
      BY <2>1 DEF StepsMatch, TypeOK
  <1>4. ASSUME NEW c \in Chats,
               QueueRecord(c) \/ ReplyAtOnce(c) \/ SendAck(c) \/ SendReply(c)
        PROVE  StepsMatch'
    <2>1. /\ UNCHANGED running
          /\ \E s \in {"react", "reply", "done"} : step' = [step EXCEPT ![c] = s]
      BY <1>4 DEF QueueRecord, ReplyAtOnce, SendAck, SendReply, lanesVars
    <2>. QED
      BY <2>1 DEF StepsMatch, TypeOK
  <1>5. ASSUME \/ \E m \in Messages : Arrive(m) \/ Answer(m)
               \/ \E lines \in SUBSET Items, result \in {"saved", "failed"} :
                    Settle(lines, result)
               \/ Deliver \/ Cancel \/ UNCHANGED vars
        PROVE  StepsMatch'
    <2>1. UNCHANGED <<running, step>>
      BY <1>5 DEF Arrive, Answer, Settle, Deliver, Cancel, Lanes!Enter, lanesVars, vars
    <2>. QED
      BY <2>1 DEF StepsMatch
  <1>. QED
    BY <1>1, <1>2, <1>3, <1>4, <1>5 DEF Next

LEMMA NextConsistent == TypeOK /\ Consistent /\ [Next]_vars => Consistent'
  <1> SUFFICES ASSUME TypeOK, Consistent, [Next]_vars PROVE Consistent'
    OBVIOUS
  <1>a. JobsInOnePlace /\ StepsMatch /\ ProcessBeforeDelivery /\ FinalAfterProcess
        /\ HourglassNeverLast
    BY DEF Consistent
  <1>b. StepsMatch'
    BY <1>a, NextSteps
  <1> USE DEF lanesVars, promiseVars
  <1>1. ASSUME NEW m \in Messages, Arrive(m) PROVE Consistent'
    <2>1. Process(m) \in Jobs /\ Lanes!Enter(Process(m))
      BY <1>1, JobFacts DEF Arrive
    <2>2. JobsInOnePlace'
      BY <1>a, <2>1, EnterJobs
    <2>3. /\ entered' = entered \cup {Process(m)}
          /\ UNCHANGED <<running, finished, accepted, answered, handing, log>>
      BY <1>1, <2>1 DEF Arrive, Lanes!Enter
    <2>4. \A n \in Messages : Delivery(n) # Process(m)
      BY DEF Process, Delivery
    <2>5. \A j \in Jobs : Begun(j) => Begun(j)'
      BY <2>3 DEF Begun
    <2>6. Promise!Elements(accepted)' = Promise!Elements(accepted)
          /\ Promise!Elements(answered)' = Promise!Elements(answered)
      BY <2>3 DEF Promise!Elements
    <2>7. Promise!Elements(accepted) \subseteq Messages
      BY ElementsIn DEF TypeOK
    <2>8. \A n \in Promise!Elements(accepted) : Begun(Process(n))'
      BY <1>a, <2>5, <2>7, JobFacts DEF ProcessBeforeDelivery
    <2>9. ProcessBeforeDelivery'
      BY <1>a, <2>3, <2>4, <2>6, <2>8 DEF ProcessBeforeDelivery
    <2>10. FinalAfterProcess' /\ HourglassNeverLast'
      BY <1>a, <2>3, LogStays
    <2>. QED
      BY <1>b, <2>2, <2>9, <2>10 DEF Consistent
  <1>2. ASSUME NEW m \in Messages, Answer(m) PROVE Consistent'
    <2>1. /\ answered' = Append(answered, m) /\ handing' = m
          /\ m \in Promise!Elements(accepted)
          /\ UNCHANGED <<lane, running, entered, finished, accepted, log>>
      BY <1>2 DEF Answer, Promise!Answer, Promise!Elements
    <2>2. Promise!Elements(answered)' = Promise!Elements(answered) \cup {m}
      <3>1. Promise!Elements(answered') = Promise!Elements(answered) \cup {m}
        BY <2>1, ElementsAppend DEF TypeOK
      <3>. QED
        BY <3>1 DEF Promise!Elements
    <2>3. Promise!Elements(accepted)' = Promise!Elements(accepted)
      BY <2>1 DEF Promise!Elements
    <2>4. \A j : Begun(j)' <=> Begun(j)
      BY <2>1 DEF Begun
    <2>5. ProcessBeforeDelivery'
      BY <1>a, <2>1, <2>2, <2>3, <2>4 DEF ProcessBeforeDelivery
    <2>6. JobsInOnePlace' /\ FinalAfterProcess' /\ HourglassNeverLast'
      BY <1>a, <2>1, JobsStay, LogStays
    <2>. QED
      BY <1>b, <2>5, <2>6 DEF Consistent
  <1>3. ASSUME NEW c \in Chats, BeginJob(c) PROVE Consistent'
    <2>1. Lanes!Begin(c) /\ UNCHANGED <<accepted, answered, handing, log>>
      BY <1>3 DEF BeginJob
    <2>2. UNCHANGED <<entered, finished>>
      BY <2>1 DEF Lanes!Begin
    <2>3. JobsInOnePlace' /\ \A j \in Jobs : Begun(j) => Begun(j)'
      BY <1>a, <2>1, BeginJobs
    <2>4. ProcessBeforeDelivery' /\ FinalAfterProcess' /\ HourglassNeverLast'
      BY <1>a, <2>1, <2>2, <2>3, OrderStays, LogStays
    <2>. QED
      BY <1>b, <2>3, <2>4 DEF Consistent
  <1>4. ASSUME NEW c \in Chats, QueueRecord(c) PROVE Consistent'
    <2>1. running[c] \in Jobs
      BY <1>4, StepHasJob DEF QueueRecord
    <2>2. PICK m \in Messages : m = running[c].message
      BY <2>1, JobFacts
    <2>3. /\ accepted' = Append(accepted, m)
          /\ m \notin Promise!Elements(accepted)
          /\ UNCHANGED <<lane, running, entered, finished, answered, handing, log>>
      BY <1>4, <2>2 DEF QueueRecord, Promise!Accept
    <2>4. running[c] = Process(m)
      <3>1. ASSUME running[c].kind # "process" PROVE FALSE
        <4>1. Delivery(m) \in entered
          BY <2>1, <2>2, <3>1, <1>a, JobFacts DEF JobsInOnePlace
        <4>. QED
          BY <4>1, <1>a, <2>3 DEF ProcessBeforeDelivery
      <3>. QED
        BY <3>1, <2>1, <2>2, JobFacts
    <2>5. ChatOfJob[Process(m)] = c
      BY <1>a, <2>1, <2>4, JobFacts DEF JobsInOnePlace
    <2>6. Promise!Elements(accepted)' = Promise!Elements(accepted) \cup {m}
      <3>1. Promise!Elements(accepted') = Promise!Elements(accepted) \cup {m}
        BY <2>3, ElementsAppend DEF TypeOK
      <3>. QED
        BY <3>1 DEF Promise!Elements
    <2>7. Promise!Elements(answered)' = Promise!Elements(answered)
      BY <2>3 DEF Promise!Elements
    <2>8. Begun(Process(m))' /\ \A j : Begun(j)' <=> Begun(j)
      BY <2>3, <2>4, <2>5 DEF Begun
    <2>9. ProcessBeforeDelivery'
      BY <1>a, <2>3, <2>6, <2>7, <2>8 DEF ProcessBeforeDelivery
    <2>10. JobsInOnePlace' /\ FinalAfterProcess' /\ HourglassNeverLast'
      BY <1>a, <2>3, JobsStay, LogStays
    <2>. QED
      BY <1>b, <2>9, <2>10 DEF Consistent
  <1>5. ASSUME NEW c \in Chats, React(c) \/ SendAck(c) \/ SendReply(c) PROVE Consistent'
    <2>1. step[c] # "idle"
      BY <1>5 DEF React, SendAck, SendReply
    <2>2. running[c] \in Jobs
      BY <2>1, StepHasJob
    <2>3. UNCHANGED <<lane, running, entered, finished, accepted, answered, handing>>
      BY <1>5 DEF React, SendAck, SendReply
    <2>4. JobsInOnePlace' /\ ProcessBeforeDelivery'
      BY <1>a, <2>3, JobsStay, OrderStays DEF Begun
    <2>5. FinalAfterProcess' /\ HourglassNeverLast'
      <3>1. CASE React(c)
        BY <3>1, <2>2, <2>3, ShowConsistent DEF React
      <3>2. CASE SendAck(c)
        BY <3>2, <2>2, <2>3, ShowConsistent, <1>a DEF SendAck, StepsMatch
      <3>3. CASE SendReply(c)
        BY <3>3, <2>2, <2>3, ShowConsistent DEF SendReply
      <3>. QED
        BY <1>5, <3>1, <3>2, <3>3
    <2>. QED
      BY <1>b, <2>4, <2>5 DEF Consistent
  <1>6. ASSUME NEW c \in Chats, EndJob(c) PROVE Consistent'
    <2>1. Lanes!End(c) /\ UNCHANGED <<accepted, answered, handing, log>>
      BY <1>6 DEF EndJob
    <2>2. UNCHANGED entered /\ finished \subseteq finished'
      BY <2>1 DEF Lanes!End
    <2>3. JobsInOnePlace' /\ \A j \in Jobs : Begun(j) => Begun(j)'
      BY <1>a, <2>1, EndJobs
    <2>4. ProcessBeforeDelivery' /\ FinalAfterProcess' /\ HourglassNeverLast'
      BY <1>a, <2>1, <2>2, <2>3, OrderStays, LogStays
    <2>. QED
      BY <1>b, <2>3, <2>4 DEF Consistent
  <1>7. ASSUME Deliver PROVE Consistent'
    <2>1. PICK m \in Messages : m = handing
      BY <1>7 DEF Deliver, TypeOK
    <2>2. Delivery(m) \in Jobs /\ Lanes!Enter(Delivery(m))
      BY <1>7, <2>1, JobFacts DEF Deliver
    <2>3. JobsInOnePlace'
      BY <1>a, <2>2, EnterJobs
    <2>4. /\ entered' = entered \cup {Delivery(m)} /\ handing' = NoMessage
          /\ UNCHANGED <<running, finished, accepted, answered, log>>
      BY <1>7, <2>2 DEF Deliver, Lanes!Enter
    <2>5. m \in Promise!Elements(answered)
      BY <1>a, <2>1, NoMessageAssumption DEF ProcessBeforeDelivery
    <2>6. \A n \in Messages : Delivery(n) = Delivery(m) => n = m
      BY JobFacts
    <2>7. \A j : Begun(j)' <=> Begun(j)
      BY <2>4 DEF Begun
    <2>8. Promise!Elements(accepted)' = Promise!Elements(accepted)
          /\ Promise!Elements(answered)' = Promise!Elements(answered)
      BY <2>4 DEF Promise!Elements
    <2>9. ProcessBeforeDelivery'
      BY <1>a, <2>4, <2>5, <2>6, <2>7, <2>8 DEF ProcessBeforeDelivery
    <2>10. FinalAfterProcess' /\ HourglassNeverLast'
      BY <1>a, <2>4, LogStays
    <2>. QED
      BY <1>b, <2>3, <2>9, <2>10 DEF Consistent
  <1>8. ASSUME \/ \E c \in Chats : ReplyAtOnce(c)
               \/ \E lines \in SUBSET Items, result \in {"saved", "failed"} :
                    Settle(lines, result)
               \/ Cancel
               \/ UNCHANGED vars
        PROVE  Consistent'
    <2>1. UNCHANGED <<lane, running, entered, finished, accepted, answered, handing, log>>
      BY <1>8 DEF ReplyAtOnce, Settle, Promise!Settle, Cancel, vars
    <2>2. \A j \in Jobs : Begun(j) => Begun(j)'
      BY <2>1 DEF Begun
    <2>. QED
      BY <1>b, <1>a, <2>1, <2>2, JobsStay, OrderStays, LogStays DEF Consistent
  <1>. QED
    BY <1>1, <1>2, <1>3, <1>4, <1>5, <1>6, <1>7, <1>8 DEF Next

\* In every reachable state the jobs, the batcher and the chats match.
THEOREM FlowConsistent == Spec => [](TypeOK /\ Consistent)
  <1>1. Init => TypeOK /\ Consistent
    BY InitType, InitConsistent
  <1>2. TypeOK /\ Consistent /\ [Next]_vars => (TypeOK /\ Consistent)'
    BY NextType, NextConsistent
  <1>. QED
    BY <1>1, <1>2, PTL DEF Spec

\* The queues, the steps of each chat and what was sent keep their types, and a chat is
\* between two steps of a job exactly while a job of it runs (chatQueue.run).
THEOREM FlowTypeOK == Spec => []TypeOK
  <1>1. TypeOK /\ Consistent => TypeOK
    OBVIOUS
  <1>. QED
    BY <1>1, FlowConsistent, PTL

\* The hourglass and the ack of a message never come after its final reaction,
\* however the two queues interleave and whatever panics (process, deliverRecord).
THEOREM HourglassBeforeFinal == Spec => []HourglassNeverLast
  <1>1. TypeOK /\ Consistent => HourglassNeverLast
    BY DEF Consistent
  <1>. QED
    BY <1>1, FlowConsistent, PTL

-----------------------------------------------------------------------------
(* The order of the final reactions. *)

LEMMA InitInOrder == Init => InOrder
  <1> SUFFICES ASSUME Init PROVE InOrder
    OBVIOUS
  <1>1. /\ lane = [c \in Chats |-> <<>>] /\ running = [c \in Chats |-> NoJob]
        /\ entered = {} /\ finished = {} /\ accepted = <<>> /\ arrived = <<>>
        /\ handing = NoMessage /\ log = [c \in Chats |-> <<>>]
    BY DEF Init, Lanes!LanesInit, Promise!PromiseInit
  <1>2. LanesInOrder
    BY <1>1, JobFacts DEF LanesInOrder, Ahead
  <1>3. ArrivedOnce
    BY <1>1 DEF ArrivedOnce, Promise!Elements
  <1>4. AcceptedInOrder /\ HandedInOrder /\ FinalsSent /\ FinalsInOrder
    BY <1>1 DEF AcceptedInOrder, HandedInOrder, FinalsSent, FinalSent, FinalsInOrder
  <1>. QED
    BY <1>2, <1>3, <1>4 DEF InOrder

\* Messages keep their order.
LEMMA BeforeStays ==
  ASSUME TypeOK, [Next]_vars, NEW m \in Messages, NEW n \in Messages, Before(m, n)
  PROVE  Before(m, n)'
  <1>1. CASE UNCHANGED arrived
    BY <1>1 DEF Before
  <1>2. ASSUME NEW e \in Messages, Arrive(e) PROVE Before(m, n)'
    <2>1. arrived' = Append(arrived, e) /\ arrived \in Seq(Messages)
      BY <1>2 DEF Arrive, TypeOK
    <2>2. /\ Len(arrived) \in Nat
          /\ DOMAIN arrived = 1..Len(arrived)
          /\ DOMAIN Append(arrived, e) = 1..(Len(arrived) + 1)
          /\ \A i \in 1..Len(arrived) : Append(arrived, e)[i] = arrived[i]
      BY <2>1, AppendFacts
    <2>3. PICK k \in DOMAIN arrived, l \in DOMAIN arrived :
            k < l /\ arrived[k] = m /\ arrived[l] = n
      BY DEF Before
    <2>4. /\ k \in DOMAIN arrived' /\ l \in DOMAIN arrived'
          /\ arrived'[k] = m /\ arrived'[l] = n
      BY <2>1, <2>2, <2>3
    <2>. QED
      BY <2>3, <2>4 DEF Before
  <1>3. (\E e \in Messages : Arrive(e)) \/ UNCHANGED arrived
    BY DEF Next, vars, Answer, BeginJob, QueueRecord, ReplyAtOnce, React, SendAck,
           SendReply, EndJob, Settle, Deliver, Cancel
  <1>. QED
    BY <1>1, <1>2, <1>3

\* A job that enters comes after those that are in.
LEMMA AheadEnter ==
  ASSUME TypeOK, JobsInOnePlace, NEW j \in Jobs, Lanes!Enter(j),
         NEW x \in Jobs, NEW y \in Jobs, Ahead(x, y)'
  PROVE  Ahead(x, y) \/ (y = j /\ x \in entered /\ ChatOfJob[x] = ChatOfJob[j])
  <1>1. PICK c \in Chats : c = ChatOfJob[j]
    BY JobFacts
  <1>2. PICK d \in Chats : d = ChatOfJob[y]
    BY JobFacts
  <1>3. /\ lane' = [lane EXCEPT ![c] = Append(lane[c], j)]
        /\ UNCHANGED <<running, finished>>
    BY <1>1 DEF Lanes!Enter
  <1>4. lane \in [Chats -> Seq(Jobs)] /\ lane[c] \in Seq(Jobs)
    BY DEF TypeOK
  <1>5. ChatOfJob[x] = d /\ (Begun(x)' <=> Begun(x))
    BY <1>2, <1>3 DEF Ahead, Begun
  <1>6. Begun(x) => x \in entered
    BY JobFacts DEF Begun, JobsInOnePlace
  <1>7. CASE d # c
    <2>1. lane'[d] = lane[d]
      BY <1>3, <1>4, <1>7
    <2>. QED
      BY <1>2, <1>3, <1>5, <2>1 DEF Ahead
  <1>8. CASE d = c
    <2>1. lane'[c] = Append(lane[c], j)
      BY <1>3, <1>4
    <2>2. /\ Len(lane[c]) \in Nat
          /\ DOMAIN lane[c] = 1..Len(lane[c])
          /\ DOMAIN lane'[c] = 1..(Len(lane[c]) + 1)
          /\ \A i \in 1..Len(lane[c]) : lane'[c][i] = lane[c][i]
          /\ lane'[c][Len(lane[c]) + 1] = j
      BY <1>4, <2>1, AppendFacts
    <2>3. ASSUME NEW i \in DOMAIN lane'[c], NEW k \in DOMAIN lane'[c],
                 i < k, lane'[c][i] = x, lane'[c][k] = y
          PROVE  Ahead(x, y) \/ (y = j /\ x \in entered)
      <3>1. i \in 1..Len(lane[c]) /\ lane[c][i] = x
        BY <2>2, <2>3
      <3>2. x \in entered
        BY <2>2, <3>1 DEF JobsInOnePlace
      <3>3. CASE k \in 1..Len(lane[c])
        <4>1. lane[c][k] = y
          BY <2>2, <2>3, <3>3
        <4>. QED
          BY <1>2, <1>5, <1>8, <2>2, <2>3, <3>1, <3>3, <4>1 DEF Ahead
      <3>. QED
        BY <2>2, <2>3, <3>2, <3>3
    <2>4. ASSUME Begun(x), NEW k \in DOMAIN lane'[c], lane'[c][k] = y
          PROVE  Ahead(x, y) \/ (y = j /\ x \in entered)
      <3>1. CASE k \in 1..Len(lane[c])
        BY <1>2, <1>5, <1>8, <2>2, <2>4, <3>1 DEF Ahead
      <3>. QED
        BY <1>6, <2>2, <2>4, <3>1
    <2>5. ASSUME x \in finished, running[c] = y PROVE Ahead(x, y)
      BY <1>2, <1>5, <1>8, <2>5 DEF Ahead
    <2>6. \/ \E i, k \in DOMAIN lane'[c] : i < k /\ lane'[c][i] = x /\ lane'[c][k] = y
          \/ Begun(x)' /\ \E k \in DOMAIN lane'[c] : lane'[c][k] = y
          \/ x \in finished' /\ running'[c] = y
      BY <1>2, <1>8 DEF Ahead
    <2>. QED
      BY <1>1, <1>3, <1>5, <1>8, <2>3, <2>4, <2>5, <2>6
  <1>. QED
    BY <1>7, <1>8

\* To begin a job overtakes none.
LEMMA AheadBegin ==
  ASSUME TypeOK, NEW c \in Chats, Lanes!Begin(c),
         NEW x \in Jobs, NEW y \in Jobs, Ahead(x, y)'
  PROVE  Ahead(x, y)
  <1>1. PICK d \in Chats : d = ChatOfJob[y]
    BY JobFacts
  <1>2. /\ lane[c] # <<>>
        /\ lane' = [lane EXCEPT ![c] = Tail(lane[c])]
        /\ running' = [running EXCEPT ![c] = Head(lane[c])]
        /\ UNCHANGED finished
    BY DEF Lanes!Begin
  <1>3. /\ lane \in [Chats -> Seq(Jobs)] /\ lane[c] \in Seq(Jobs)
        /\ running \in [Chats -> Jobs \cup {NoJob}]
    BY DEF TypeOK
  <1>4. ChatOfJob[x] = d
    BY <1>1 DEF Ahead
  <1>5. /\ lane'[c] = Tail(lane[c]) /\ running'[c] = Head(lane[c])
        /\ \A e \in Chats : e # c => lane'[e] = lane[e] /\ running'[e] = running[e]
    BY <1>2, <1>3
  <1>6. \/ \E i, k \in DOMAIN lane'[d] : i < k /\ lane'[d][i] = x /\ lane'[d][k] = y
        \/ Begun(x)' /\ \E k \in DOMAIN lane'[d] : lane'[d][k] = y
        \/ x \in finished' /\ running'[d] = y
    BY <1>1 DEF Ahead
  <1>7. Begun(x)' => x \in finished \/ running'[d] = x
    BY <1>2, <1>4 DEF Begun
  <1>8. CASE d # c
    <2>1. lane'[d] = lane[d] /\ running'[d] = running[d]
      BY <1>5, <1>8
    <2>2. Begun(x)' => Begun(x)
      BY <1>4, <1>7, <2>1 DEF Begun
    <2>3. \/ \E i, k \in DOMAIN lane[d] : i < k /\ lane[d][i] = x /\ lane[d][k] = y
          \/ Begun(x) /\ \E k \in DOMAIN lane[d] : lane[d][k] = y
          \/ x \in finished /\ running[d] = y
      BY <1>2, <1>6, <2>1, <2>2
    <2>. QED
      BY <1>1, <1>4, <2>3 DEF Ahead
  <1>9. CASE d = c
    <2>1. /\ Head(lane[c]) = lane[c][1] /\ 1 \in DOMAIN lane[c]
          /\ DOMAIN lane[c] \subseteq Nat
          /\ \A i \in DOMAIN lane'[c] :
               i > 0 /\ i + 1 \in DOMAIN lane[c] /\ lane'[c][i] = lane[c][i + 1]
      BY <1>2, <1>3, <1>5, TailFacts
    <2>2. DOMAIN lane'[c] \subseteq Nat
      <3>1. Tail(lane[c]) \in Seq(Jobs)
        BY <1>2, <1>3, TailFacts
      <3>. QED
        BY <1>5, <3>1, LenProperties
    <2>3. ASSUME NEW i \in DOMAIN lane'[c], NEW k \in DOMAIN lane'[c],
                 i < k, lane'[c][i] = x, lane'[c][k] = y
          PROVE  Ahead(x, y)
      <3>1. /\ i + 1 \in DOMAIN lane[c] /\ k + 1 \in DOMAIN lane[c] /\ i + 1 < k + 1
            /\ lane[c][i + 1] = x /\ lane[c][k + 1] = y
        BY <2>1, <2>2, <2>3
      <3>. QED
        BY <1>1, <1>4, <1>9, <3>1 DEF Ahead
    <2>4. ASSUME Begun(x)', NEW k \in DOMAIN lane'[c], lane'[c][k] = y
          PROVE  Ahead(x, y)
      <3>1. k + 1 \in DOMAIN lane[c] /\ 1 < k + 1 /\ lane[c][k + 1] = y
        BY <2>1, <2>2, <2>4
      <3>2. CASE x \in finished
        BY <1>1, <1>4, <1>9, <3>1, <3>2 DEF Ahead, Begun
      <3>3. CASE running'[d] = x
        <4>1. lane[c][1] = x
          BY <1>5, <1>9, <2>1, <3>3
        <4>. QED
          BY <1>1, <1>4, <1>9, <2>1, <3>1, <4>1 DEF Ahead
      <3>. QED
        BY <1>7, <2>4, <3>2, <3>3
    <2>5. ASSUME x \in finished, running'[c] = y PROVE Ahead(x, y)
      <3>1. lane[c][1] = y /\ Begun(x)
        BY <1>5, <2>1, <2>5 DEF Begun
      <3>. QED
        BY <1>1, <1>4, <1>9, <2>1, <3>1 DEF Ahead
    <2>. QED
      BY <1>2, <1>6, <1>9, <2>3, <2>4, <2>5
  <1>. QED
    BY <1>8, <1>9

\* Nor does to end one.
LEMMA AheadEnd ==
  ASSUME TypeOK, JobsInOnePlace, NEW c \in Chats, Lanes!End(c),
         NEW x \in Jobs, NEW y \in Jobs, Ahead(x, y)'
  PROVE  Ahead(x, y)
  <1>1. PICK d \in Chats : d = ChatOfJob[y]
    BY JobFacts
  <1>2. /\ running[c] # NoJob
        /\ running' = [running EXCEPT ![c] = NoJob]
        /\ finished' = finished \cup {running[c]}
        /\ UNCHANGED lane
    BY DEF Lanes!End
  <1>3. running'[c] = NoJob /\ \A e \in Chats : e # c => running'[e] = running[e]
    BY <1>2 DEF TypeOK
  <1>4. ChatOfJob[x] = d /\ ChatOfJob[running[c]] = c /\ y # NoJob /\ x # NoJob
    BY <1>1, <1>2, JobFacts DEF Ahead, JobsInOnePlace
  <1>5. Begun(x)' => Begun(x)
    BY <1>2, <1>3, <1>4 DEF Begun
  <1>6. running'[d] = y => d # c /\ running[d] = y
    BY <1>3, <1>4
  <1>7. x \in finished' /\ d # c => x \in finished
    BY <1>2, <1>4
  <1>. QED
    BY <1>1, <1>2, <1>4, <1>5, <1>6, <1>7 DEF Ahead

LEMMA AheadStays ==
  ASSUME UNCHANGED <<lane, running, finished>>,
         NEW x \in Jobs, NEW y \in Jobs, Ahead(x, y)'
  PROVE  Ahead(x, y)
  BY DEF Ahead, Begun

\* A message comes after those that arrived before.
LEMMA ArrivesLast ==
  ASSUME TypeOK, NEW m \in Messages, Arrive(m),
         NEW n \in Messages, n \in Promise!Elements(arrived)
  PROVE  Before(n, m)'
  <1>1. arrived' = Append(arrived, m) /\ arrived \in Seq(Messages)
    BY DEF Arrive, TypeOK
  <1>2. /\ Len(arrived) \in Nat
        /\ DOMAIN arrived = 1..Len(arrived)
        /\ DOMAIN arrived' = 1..(Len(arrived) + 1)
        /\ \A i \in 1..Len(arrived) : arrived'[i] = arrived[i]
        /\ arrived'[Len(arrived) + 1] = m
    BY <1>1, AppendFacts
  <1>3. PICK k \in DOMAIN arrived : arrived[k] = n
    BY DEF Promise!Elements
  <1>4. /\ k \in DOMAIN arrived' /\ Len(arrived) + 1 \in DOMAIN arrived'
        /\ k < Len(arrived) + 1 /\ arrived'[k] = n
    BY <1>2, <1>3
  <1>. QED
    BY <1>2, <1>4 DEF Before

LEMMA NextLanesInOrder ==
  ASSUME TypeOK, Consistent, InOrder, [Next]_vars
  PROVE  LanesInOrder'
  <1> SUFFICES ASSUME NEW x \in Jobs, NEW y \in Jobs, x.kind = y.kind, Ahead(x, y)'
               PROVE  Before(x.message, y.message)'
    BY DEF LanesInOrder
  <1>a. x.message \in Messages /\ y.message \in Messages
    BY JobFacts
  <1>b. JobsInOnePlace
    BY DEF Consistent
  <1>0. Ahead(x, y) => Before(x.message, y.message)'
    BY <1>a, BeforeStays DEF InOrder, LanesInOrder
  <1>1. ASSUME NEW m \in Messages, Arrive(m) PROVE Before(x.message, y.message)'
    <2>1. Process(m) \in Jobs /\ Lanes!Enter(Process(m))
      BY <1>1, JobFacts DEF Arrive
    <2>2. CASE y = Process(m) /\ x \in entered
      <3>1. x = Process(x.message) /\ y.message = m
        BY <2>2, JobFacts
      <3>2. x.message \in Promise!Elements(arrived)
        BY <1>a, <2>2, <3>1 DEF InOrder, ArrivedOnce
      <3>. QED
        BY <1>1, <1>a, <3>1, <3>2, ArrivesLast
    <2>. QED
      BY <1>0, <1>b, <2>1, <2>2, AheadEnter
  <1>2. CASE Deliver
    <2>1. PICK m \in Messages : m = handing
      BY <1>2 DEF Deliver, TypeOK
    <2>2. Delivery(m) \in Jobs /\ Lanes!Enter(Delivery(m))
      BY <1>2, <2>1, JobFacts DEF Deliver
    <2>3. CASE y = Delivery(m) /\ x \in entered /\ ChatOfJob[x] = ChatOfJob[Delivery(m)]
      <3>1. x = Delivery(x.message) /\ y.message = m /\ ChatOf[x.message] = ChatOf[m]
        BY <2>3, JobFacts
      <3>2. Before(x.message, m)
        BY <1>a, <2>1, <2>3, <3>1, NoMessageAssumption DEF InOrder, HandedInOrder
      <3>. QED
        BY <1>a, <3>1, <3>2, BeforeStays
    <2>. QED
      BY <1>0, <1>b, <2>2, <2>3, AheadEnter
  <1>3. ASSUME NEW c \in Chats, BeginJob(c) PROVE Before(x.message, y.message)'
    BY <1>0, <1>3, AheadBegin DEF BeginJob
  <1>4. ASSUME NEW c \in Chats, EndJob(c) PROVE Before(x.message, y.message)'
    BY <1>0, <1>b, <1>4, AheadEnd DEF EndJob
  <1>5. CASE UNCHANGED <<lane, running, finished>>
    BY <1>0, <1>5, AheadStays
  <1>6. \/ \E m \in Messages : Arrive(m)
        \/ Deliver
        \/ \E c \in Chats : BeginJob(c) \/ EndJob(c)
        \/ UNCHANGED <<lane, running, finished>>
    BY DEF Next, vars, lanesVars, Answer, QueueRecord, ReplyAtOnce, React, SendAck,
           SendReply, Settle, Cancel
  <1>. QED
    BY <1>1, <1>2, <1>3, <1>4, <1>5, <1>6

LEMMA NextArrivedOnce ==
  ASSUME TypeOK, ArrivedOnce, [Next]_vars
  PROVE  ArrivedOnce'
  <1>1. ASSUME NEW m \in Messages, Arrive(m) PROVE ArrivedOnce'
    <2>1. /\ arrived' = Append(arrived, m) /\ arrived \in Seq(Messages)
          /\ Process(m) \notin entered /\ entered' = entered \cup {Process(m)}
      BY <1>1 DEF Arrive, TypeOK, Lanes!Enter
    <2>2. /\ Len(arrived) \in Nat
          /\ DOMAIN arrived = 1..Len(arrived)
          /\ DOMAIN arrived' = 1..(Len(arrived) + 1)
          /\ \A i \in 1..Len(arrived) : arrived'[i] = arrived[i]
          /\ arrived'[Len(arrived) + 1] = m
      BY <2>1, AppendFacts
    <2>3. Promise!Elements(arrived)' = Promise!Elements(arrived) \cup {m}
      <3>1. Promise!Elements(arrived') = Promise!Elements(arrived) \cup {m}
        BY <2>1, ElementsAppend
      <3>. QED
        BY <3>1 DEF Promise!Elements
    <2>4. m \notin Promise!Elements(arrived)
      BY <2>1 DEF ArrivedOnce
    <2>5. \A n \in Messages : Process(n) \in entered' <=> n \in Promise!Elements(arrived)'
      BY <2>1, <2>3, JobFacts DEF ArrivedOnce
    <2>6. \A i \in 1..Len(arrived) : arrived[i] # m
      BY <2>2, <2>4 DEF Promise!Elements
    <2>7. \A i, k \in DOMAIN arrived' : arrived'[i] = arrived'[k] => i = k
      BY <2>2, <2>6 DEF ArrivedOnce
    <2>. QED
      BY <2>5, <2>7 DEF ArrivedOnce
  <1>2. CASE Deliver
    <2>1. /\ entered' = entered \cup {Delivery(handing)} /\ UNCHANGED arrived
          /\ \A m \in Messages : Process(m) # Delivery(handing)
      BY <1>2 DEF Deliver, Lanes!Enter, Process, Delivery
    <2>. QED
      BY <2>1 DEF ArrivedOnce, Promise!Elements
  <1>3. CASE UNCHANGED <<entered, arrived>>
    BY <1>3 DEF ArrivedOnce, Promise!Elements
  <1>4. \/ \E m \in Messages : Arrive(m)
        \/ Deliver
        \/ UNCHANGED <<entered, arrived>>
    BY DEF Next, vars, lanesVars, Answer, BeginJob, Lanes!Begin, QueueRecord, ReplyAtOnce,
           React, SendAck, SendReply, EndJob, Lanes!End, Settle, Cancel
  <1>. QED
    BY <1>1, <1>2, <1>3, <1>4

LEMMA NextAcceptedInOrder ==
  ASSUME TypeOK, Consistent, InOrder, [Next]_vars
  PROVE  AcceptedInOrder'
  <1> SUFFICES ASSUME NEW m \in Messages, NEW n \in Messages, ChatOf[m] = ChatOf[n],
                      NEW i \in DOMAIN accepted', NEW k \in DOMAIN accepted',
                      i < k, accepted'[i] = m, accepted'[k] = n
               PROVE  Before(m, n)'
    BY DEF AcceptedInOrder
  <1>1. CASE UNCHANGED accepted
    <2>1. Before(m, n)
      BY <1>1 DEF InOrder, AcceptedInOrder
    <2>. QED
      BY <2>1, BeforeStays
  <1>2. ASSUME NEW c \in Chats, QueueRecord(c) PROVE Before(m, n)'
    <2>1. running[c] \in Jobs
      BY <1>2, StepHasJob DEF QueueRecord
    <2>2. PICK e \in Messages : e = running[c].message
      BY <2>1, JobFacts
    <2>3. /\ accepted' = Append(accepted, e) /\ accepted \in Seq(Messages)
          /\ e \notin Promise!Elements(accepted)
      BY <1>2, <2>2 DEF QueueRecord, Promise!Accept, TypeOK
    <2>4. /\ Len(accepted) \in Nat
          /\ DOMAIN accepted = 1..Len(accepted)
          /\ DOMAIN accepted' = 1..(Len(accepted) + 1)
          /\ \A l \in 1..Len(accepted) : accepted'[l] = accepted[l]
          /\ accepted'[Len(accepted) + 1] = e
      BY <2>3, AppendFacts
    <2>5. i \in DOMAIN accepted /\ accepted[i] = m
      BY <2>4
    <2>6. CASE k \in DOMAIN accepted
      <3>1. Before(m, n)
        BY <2>4, <2>5, <2>6 DEF InOrder, AcceptedInOrder
      <3>. QED
        BY <3>1, BeforeStays
    <2>7. CASE n = e
      <3>1. running[c].kind = "process"
        BY <1>2 DEF QueueRecord, Consistent, StepsMatch
      <3>2. running[c] = Process(n) /\ ChatOf[n] = c
        BY <2>1, <2>2, <2>7, <3>1, JobFacts DEF Consistent, JobsInOnePlace
      <3>3. m \in Promise!Elements(accepted) /\ m # n
        BY <2>3, <2>5, <2>7 DEF Promise!Elements
      <3>4. Process(m) \in finished
        <4>1. Begun(Process(m))
          BY <3>3 DEF Consistent, ProcessBeforeDelivery
        <4>2. Process(m) # Process(n) /\ ChatOfJob[Process(m)] = c
          BY <3>2, <3>3, JobFacts
        <4>. QED
          BY <3>2, <4>1, <4>2 DEF Begun
      <3>5. Ahead(Process(m), Process(n))
        BY <3>2, <3>4, JobFacts DEF Ahead
      <3>6. Before(m, n)
        BY <3>5, JobFacts DEF InOrder, LanesInOrder
      <3>. QED
        BY <3>6, BeforeStays
    <2>. QED
      BY <2>4, <2>6, <2>7
  <1>3. (\E c \in Chats : QueueRecord(c)) \/ UNCHANGED accepted
    BY DEF Next, vars, promiseVars, Arrive, Answer, Promise!Answer, BeginJob, ReplyAtOnce,
           React, SendAck, SendReply, EndJob, Settle, Promise!Settle, Deliver, Cancel
  <1>. QED
    BY <1>1, <1>2, <1>3

LEMMA NextHandedInOrder ==
  ASSUME TypeOK, Consistent, InOrder, [Next]_vars
  PROVE  HandedInOrder'
  <1>1. ASSUME NEW h \in Messages, Answer(h) PROVE HandedInOrder'
    <2>1. /\ h \notin Promise!Elements(answered) /\ handing' = h /\ UNCHANGED entered
          /\ \E i \in DOMAIN accepted :
               /\ accepted[i] = h
               /\ \A j \in (i + 1)..Len(accepted) :
                    accepted[j] \notin Promise!Elements(answered)
      BY <1>1 DEF Answer, Promise!Answer, lanesVars
    <2>2. PICK i \in DOMAIN accepted :
            /\ accepted[i] = h
            /\ \A j \in (i + 1)..Len(accepted) :
                 accepted[j] \notin Promise!Elements(answered)
      BY <2>1
    <2>3. Len(accepted) \in Nat /\ DOMAIN accepted = 1..Len(accepted)
      BY LenProperties DEF TypeOK
    <2>4. ASSUME NEW m \in Messages, Delivery(m) \in entered, ChatOf[m] = ChatOf[h]
          PROVE  Before(m, h)'
      <3>1. m \in Promise!Elements(answered) /\ m \in Promise!Elements(accepted)
        BY <2>4 DEF Consistent, ProcessBeforeDelivery
      <3>2. PICK k \in DOMAIN accepted : accepted[k] = m
        BY <3>1 DEF Promise!Elements
      <3>3. k < i
        BY <2>1, <2>2, <2>3, <3>1, <3>2
      <3>4. Before(m, h)
        BY <2>2, <2>4, <3>2, <3>3 DEF InOrder, AcceptedInOrder
      <3>. QED
        BY <3>4, BeforeStays
    <2>5. ASSUME NEW m \in Messages, Delivery(m) \in entered', ChatOf[m] = ChatOf[handing']
          PROVE  Before(m, handing)'
      <3>1. Before(m, h)'
        BY <2>1, <2>4, <2>5
      <3>. QED
        BY <2>1, <3>1 DEF Before
    <2>. QED
      BY <2>5 DEF HandedInOrder
  <1>2. CASE Deliver
    BY <1>2 DEF Deliver, HandedInOrder
  <1>3. ASSUME UNCHANGED handing,
               \A m \in Messages : Delivery(m) \in entered' => Delivery(m) \in entered
        PROVE  HandedInOrder'
    <2> SUFFICES ASSUME handing' # NoMessage,
                        NEW m \in Messages, Delivery(m) \in entered',
                        ChatOf[m] = ChatOf[handing']
                 PROVE  Before(m, handing)'
      BY DEF HandedInOrder
    <2>1. PICK h \in Messages : h = handing
      BY <1>3 DEF TypeOK
    <2>2. Before(m, h)
      BY <1>3, <2>1 DEF InOrder, HandedInOrder
    <2>3. Before(m, h)'
      BY <2>1, <2>2, BeforeStays
    <2>. QED
      BY <1>3, <2>1, <2>3 DEF Before
  <1>4. ASSUME NEW e \in Messages, Arrive(e) PROVE HandedInOrder'
    <2>1. UNCHANGED handing /\ entered' = entered \cup {Process(e)}
      BY <1>4 DEF Arrive, Lanes!Enter
    <2>2. \A m \in Messages : Delivery(m) # Process(e)
      BY DEF Process, Delivery
    <2>. QED
      BY <1>3, <2>1, <2>2
  <1>5. CASE UNCHANGED <<entered, handing>>
    BY <1>3, <1>5
  <1>6. \/ \E m \in Messages : Arrive(m) \/ Answer(m)
        \/ Deliver
        \/ UNCHANGED <<entered, handing>>
    BY DEF Next, vars, lanesVars, BeginJob, Lanes!Begin, QueueRecord, ReplyAtOnce,
           React, SendAck, SendReply, EndJob, Lanes!End, Settle, Cancel
  <1>. QED
    BY <1>1, <1>2, <1>4, <1>5, <1>6

LEMMA BegunStays ==
  ASSUME TypeOK, JobsInOnePlace, [Next]_vars, NEW j \in Jobs, Begun(j)
  PROVE  Begun(j)'
  <1>1. ASSUME NEW c \in Chats, BeginJob(c) PROVE Begun(j)'
    BY <1>1, BeginJobs DEF BeginJob
  <1>2. ASSUME NEW c \in Chats, EndJob(c) PROVE Begun(j)'
    BY <1>2, EndJobs DEF EndJob
  <1>3. CASE UNCHANGED <<running, finished>>
    BY <1>3 DEF Begun
  <1>4. \/ \E c \in Chats : BeginJob(c) \/ EndJob(c)
        \/ UNCHANGED <<running, finished>>
    BY DEF Next, vars, lanesVars, Arrive, Answer, QueueRecord, ReplyAtOnce, React, SendAck,
           SendReply, Settle, Deliver, Lanes!Enter, Cancel
  <1>. QED
    BY <1>1, <1>2, <1>3, <1>4

\* While a delivery that sent its final reaction runs, it stands at the reply or after.
LEMMA NextAfterFinal ==
  ASSUME TypeOK, Consistent, [Next]_vars, NEW c \in Chats, NEW m \in Messages,
         Begun(Delivery(m)), ChatOf[m] = c,
         running[c] = Delivery(m) => step[c] \in {"reply", "done"}
  PROVE  running'[c] = Delivery(m) => step'[c] \in {"reply", "done"}
  <1>a. Delivery(m) # NoJob /\ ChatOfJob[Delivery(m)] = c
    BY JobFacts
  <1>1. ASSUME NEW d \in Chats, BeginJob(d)
        PROVE  running'[c] = Delivery(m) => step'[c] \in {"reply", "done"}
    <2>1. /\ running[d] = NoJob /\ lane[d] # <<>> /\ lane[d] \in Seq(Jobs)
          /\ running' = [running EXCEPT ![d] = Head(lane[d])]
          /\ \A e \in Chats : e # d => step'[e] = step[e]
      BY <1>1 DEF BeginJob, Lanes!Begin, TypeOK
    <2>2. CASE c # d
      BY <2>1, <2>2 DEF TypeOK
    <2>3. CASE c = d
      <3>1. Delivery(m) \in finished
        BY <1>a, <2>1, <2>3 DEF Begun
      <3>2. Head(lane[d]) = lane[d][1] /\ 1 \in DOMAIN lane[d]
        BY <2>1, TailFacts
      <3>3. Head(lane[d]) \notin finished
        BY <3>2 DEF Consistent, JobsInOnePlace
      <3>4. running'[c] = Head(lane[d])
        BY <2>1, <2>3 DEF TypeOK
      <3>. QED
        BY <3>1, <3>3, <3>4
    <2>. QED
      BY <2>2, <2>3
  <1>2. ASSUME NEW d \in Chats, EndJob(d)
        PROVE  running'[c] = Delivery(m) => step'[c] \in {"reply", "done"}
    BY <1>a, <1>2 DEF EndJob, Lanes!End, TypeOK
  <1>3. ASSUME NEW d \in Chats,
               \/ QueueRecord(d) \/ ReplyAtOnce(d) \/ React(d) \/ SendAck(d) \/ SendReply(d)
        PROVE  running'[c] = Delivery(m) => step'[c] \in {"reply", "done"}
    <2>1. /\ UNCHANGED running
          /\ \/ step[d] \in {"route", "react", "ack"}
             \/ step' = [step EXCEPT ![d] = "done"]
          /\ \A e \in Chats : e # d => step'[e] = step[e]
      BY <1>3 DEF QueueRecord, ReplyAtOnce, React, SendAck, SendReply, lanesVars, TypeOK
    <2>. QED
      BY <2>1 DEF TypeOK
  <1>4. CASE UNCHANGED <<running, step>>
    BY <1>4
  <1>5. \/ \E d \in Chats :
             \/ BeginJob(d) \/ EndJob(d)
             \/ QueueRecord(d) \/ ReplyAtOnce(d) \/ React(d) \/ SendAck(d) \/ SendReply(d)
        \/ UNCHANGED <<running, step>>
    BY DEF Next, vars, lanesVars, Arrive, Answer, Settle, Deliver, Lanes!Enter, Cancel
  <1>. QED
    BY <1>1, <1>2, <1>3, <1>4, <1>5

\* What a step sends: nothing, something else, or the final reaction of the delivery that
\* the chat runs.
LEMMA WhatIsSent ==
  ASSUME TypeOK, Consistent, [Next]_vars
  PROVE  \/ UNCHANGED log
         \/ \E c \in Chats : \E e \in Sendings :
              /\ log' = [log EXCEPT ![c] = Append(log[c], e)]
              /\ e.what = "final" =>
                   /\ running[c] = Delivery(e.message) /\ ChatOf[e.message] = c
                   /\ step[c] = "react" /\ step'[c] = "reply"
                   /\ UNCHANGED <<running, finished>>
  <1>1. ASSUME NEW c \in Chats, NEW what \in {"hourglass", "ack", "final", "reply"},
               Show(c, what), log' # log, running[c] \in Jobs
        PROVE  \E e \in Sendings :
                 /\ e.what = what /\ e.message = running[c].message
                 /\ log' = [log EXCEPT ![c] = Append(log[c], e)]
    <2>1. PICK m \in Messages : m = running[c].message
      BY <1>1, JobFacts
    <2>2. ChatOf[m] = c
      BY <1>1, <2>1, JobFacts DEF Consistent, JobsInOnePlace
    <2>3. PICK e \in Sendings : e = [what |-> what, message |-> m]
      BY DEF Sendings
    <2>4. log' = [log EXCEPT ![c] = Append(log[c], e)]
      BY <1>1, <2>1, <2>2, <2>3 DEF Show
    <2>. QED
      BY <2>1, <2>3, <2>4
  <1>2. ASSUME NEW c \in Chats, React(c), log' # log
        PROVE  \E e \in Sendings :
                 /\ log' = [log EXCEPT ![c] = Append(log[c], e)]
                 /\ e.what = "final" =>
                      /\ running[c] = Delivery(e.message) /\ ChatOf[e.message] = c
                      /\ step[c] = "react" /\ step'[c] = "reply"
                      /\ UNCHANGED <<running, finished>>
    <2>1. running[c] \in Jobs
      BY <1>2, StepHasJob DEF React
    <2>2. ChatOf[running[c].message] = c
      BY <2>1, JobFacts DEF Consistent, JobsInOnePlace
    <2>3. CASE running[c].kind = "process"
      <3>1. Show(c, "hourglass")
        BY <1>2, <2>3 DEF React
      <3>2. PICK e \in Sendings :
              e.what = "hourglass" /\ log' = [log EXCEPT ![c] = Append(log[c], e)]
        BY <1>1, <1>2, <2>1, <3>1
      <3>. QED
        BY <3>2
    <2>4. CASE running[c].kind # "process"
      <3>1. Show(c, "final") /\ UNCHANGED <<running, finished>>
            /\ step' = [step EXCEPT ![c] = "reply"] /\ step[c] = "react"
        BY <1>2, <2>4 DEF React, lanesVars
      <3>2. PICK e \in Sendings :
              /\ e.message = running[c].message
              /\ log' = [log EXCEPT ![c] = Append(log[c], e)]
        BY <1>1, <1>2, <2>1, <3>1
      <3>3. running[c] = Delivery(e.message)
        BY <2>1, <2>4, <3>2, JobFacts
      <3>4. step'[c] = "reply"
        BY <3>1 DEF TypeOK
      <3>. QED
        BY <2>2, <3>1, <3>2, <3>3, <3>4
    <2>. QED
      BY <2>3, <2>4
  <1>3. ASSUME NEW c \in Chats, SendAck(c) \/ SendReply(c), log' # log
        PROVE  \E e \in Sendings :
                 log' = [log EXCEPT ![c] = Append(log[c], e)] /\ e.what # "final"
    <2>1. running[c] \in Jobs
      BY <1>3, StepHasJob DEF SendAck, SendReply
    <2>2. CASE SendAck(c)
      <3>1. Show(c, "ack")
        BY <2>2 DEF SendAck
      <3>2. PICK e \in Sendings :
              e.what = "ack" /\ log' = [log EXCEPT ![c] = Append(log[c], e)]
        BY <1>1, <1>3, <2>1, <3>1
      <3>. QED
        BY <3>2
    <2>3. CASE SendReply(c)
      <3>1. Show(c, "reply")
        BY <2>3 DEF SendReply
      <3>2. PICK e \in Sendings :
              e.what = "reply" /\ log' = [log EXCEPT ![c] = Append(log[c], e)]
        BY <1>1, <1>3, <2>1, <3>1
      <3>. QED
        BY <3>2
    <2>. QED
      BY <1>3, <2>2, <2>3
  <1>4. (\E c \in Chats : React(c) \/ SendAck(c) \/ SendReply(c)) \/ UNCHANGED log
    BY DEF Next, vars, Arrive, Answer, BeginJob, QueueRecord, ReplyAtOnce, EndJob, Settle,
           Deliver, Cancel
  <1>. QED
    BY <1>2, <1>3, <1>4

\* What was sent is about messages.
LEMMA SentMessages ==
  ASSUME NEW S \in [Chats -> Seq(Sendings)], NEW c \in Chats, NEW i \in DOMAIN S[c]
  PROVE  S[c][i].message \in Messages
  <1>1. S[c] \in Seq(Sendings)
    OBVIOUS
  <1>2. DOMAIN S[c] = 1..Len(S[c])
    BY <1>1, LenProperties
  <1>3. S[c][i] \in Sendings
    BY <1>1, <1>2, ElementOfSeq
  <1>. QED
    BY <1>3 DEF Sendings

LEMMA NextFinalsSent ==
  ASSUME TypeOK, Consistent, InOrder, [Next]_vars
  PROVE  FinalsSent'
  <1>a. FinalsSent /\ JobsInOnePlace
    BY DEF InOrder, Consistent
  <1>b. ASSUME NEW c \in Chats, NEW m \in Messages, FinalSent(c, m)
        PROVE  /\ ChatOf[m] = c
               /\ Begun(Delivery(m))'
               /\ running'[c] = Delivery(m) => step'[c] \in {"reply", "done"}
    <2>1. /\ ChatOf[m] = c /\ Begun(Delivery(m))
          /\ running[c] = Delivery(m) => step[c] \in {"reply", "done"}
      BY <1>a, <1>b DEF FinalsSent
    <2>. QED
      BY <1>a, <2>1, JobFacts, BegunStays, NextAfterFinal
  <1>1. CASE UNCHANGED log
    BY <1>1, <1>b DEF FinalsSent, FinalSent
  <1>2. ASSUME NEW c \in Chats, NEW e \in Sendings,
               log' = [log EXCEPT ![c] = Append(log[c], e)],
               e.what = "final" =>
                 /\ running[c] = Delivery(e.message) /\ ChatOf[e.message] = c
                 /\ step[c] = "react" /\ step'[c] = "reply"
                 /\ UNCHANGED <<running, finished>>
        PROVE  FinalsSent'
    <2>1. log \in [Chats -> Seq(Sendings)] /\ log[c] \in Seq(Sendings)
      BY DEF TypeOK
    <2>2. log'[c] = Append(log[c], e) /\ \A d \in Chats : d # c => log'[d] = log[d]
      BY <1>2, <2>1
    <2>3. /\ Len(log[c]) \in Nat
          /\ DOMAIN log[c] = 1..Len(log[c])
          /\ DOMAIN log'[c] = 1..(Len(log[c]) + 1)
          /\ \A i \in 1..Len(log[c]) : log'[c][i] = log[c][i]
          /\ log'[c][Len(log[c]) + 1] = e
      BY <2>1, <2>2, AppendFacts
    <2>4. PICK m \in Messages : m = e.message
      BY DEF Sendings
    <2>5. ASSUME NEW d \in Chats, NEW n \in Messages, FinalSent(d, n)'
          PROVE  FinalSent(d, n) \/ (e.what = "final" /\ d = c /\ n = m)
      <3>1. PICK i \in DOMAIN log'[d] : log'[d][i].what = "final" /\ log'[d][i].message = n
        BY <2>5 DEF FinalSent
      <3>2. CASE d # c
        BY <2>2, <3>1, <3>2 DEF FinalSent
      <3>3. CASE d = c /\ i \in DOMAIN log[c]
        BY <2>3, <3>1, <3>3 DEF FinalSent
      <3>4. CASE d = c /\ i = Len(log[c]) + 1
        BY <2>3, <2>4, <3>1, <3>4
      <3>. QED
        BY <2>3, <3>1, <3>2, <3>3, <3>4
    <2>6. ASSUME e.what = "final"
          PROVE  /\ ChatOf[m] = c
                 /\ Begun(Delivery(m))'
                 /\ step'[c] \in {"reply", "done"}
      <3>1. running'[c] = Delivery(m) /\ ChatOfJob[Delivery(m)] = c
        BY <1>2, <2>4, <2>6, JobFacts
      <3>. QED
        BY <1>2, <2>4, <2>6, <3>1 DEF Begun
    <2>7. ASSUME NEW d \in Chats, NEW n \in Messages, FinalSent(d, n)'
          PROVE  /\ ChatOf[n] = d
                 /\ Begun(Delivery(n))'
                 /\ running'[d] = Delivery(n) => step'[d] \in {"reply", "done"}
      BY <1>b, <2>5, <2>6, <2>7
    <2>. QED
      BY <2>7 DEF FinalsSent
  <1>. QED
    BY <1>1, <1>2, WhatIsSent

LEMMA NextFinalsInOrder ==
  ASSUME TypeOK, Consistent, InOrder, [Next]_vars
  PROVE  FinalsInOrder'
  <1> SUFFICES ASSUME NEW d \in Chats, NEW i \in DOMAIN log'[d], NEW k \in DOMAIN log'[d],
                      i < k, log'[d][i].what = "final", log'[d][k].what = "final"
               PROVE  Before(log[d][i].message, log[d][k].message)'
    BY DEF FinalsInOrder
  <1>a. log \in [Chats -> Seq(Sendings)] /\ log' \in [Chats -> Seq(Sendings)]
    BY NextType DEF TypeOK
  <1>b. PICK m \in Messages, n \in Messages :
          m = log'[d][i].message /\ n = log'[d][k].message
    BY <1>a, SentMessages
  <1>c. SUFFICES Before(m, n)'
    BY <1>b DEF Before
  <1>d. FinalsSent /\ FinalsInOrder /\ LanesInOrder
    BY DEF InOrder
  <1>1. ASSUME i \in DOMAIN log[d], log'[d][i] = log[d][i],
               k \in DOMAIN log[d], log'[d][k] = log[d][k]
        PROVE  Before(m, n)'
    <2>1. Before(m, n)
      BY <1>1, <1>b, <1>d DEF FinalsInOrder
    <2>. QED
      BY <2>1, BeforeStays
  <1>2. ASSUME NEW c \in Chats, NEW e \in Sendings,
               log' = [log EXCEPT ![c] = Append(log[c], e)],
               e.what = "final" =>
                 /\ running[c] = Delivery(e.message) /\ ChatOf[e.message] = c
                 /\ step[c] = "react" /\ step'[c] = "reply"
                 /\ UNCHANGED <<running, finished>>
        PROVE  Before(m, n)'
    <2>1. log[c] \in Seq(Sendings)
      BY <1>a
    <2>2. log'[c] = Append(log[c], e) /\ (d # c => log'[d] = log[d])
      BY <1>2, <1>a
    <2>3. /\ Len(log[c]) \in Nat
          /\ DOMAIN log[c] = 1..Len(log[c])
          /\ DOMAIN log'[c] = 1..(Len(log[c]) + 1)
          /\ \A l \in 1..Len(log[c]) : log'[c][l] = log[c][l]
          /\ log'[c][Len(log[c]) + 1] = e
      BY <2>1, <2>2, AppendFacts
    <2>4. CASE d # c
      BY <1>1, <2>2, <2>4
    <2>5. CASE d = c /\ k \in DOMAIN log[c]
      <3>1. i \in DOMAIN log[c]
        BY <2>3, <2>5
      <3>. QED
        BY <1>1, <2>3, <2>5, <3>1
    <2>6. CASE d = c /\ k = Len(log[c]) + 1
      <3>1. i \in DOMAIN log[c] /\ log[c][i].what = "final" /\ log[c][i].message = m
        BY <1>b, <2>3, <2>6
      <3>2. FinalSent(c, m)
        BY <3>1 DEF FinalSent
      <3>3. /\ ChatOf[m] = c /\ Begun(Delivery(m))
            /\ running[c] = Delivery(m) => step[c] \in {"reply", "done"}
        BY <1>d, <3>2 DEF FinalsSent
      <3>4. running[c] = Delivery(n) /\ ChatOf[n] = c /\ step[c] = "react"
        <4>1. log'[d][k] = e
          BY <2>3, <2>6
        <4>2. e.what = "final" /\ e.message = n
          BY <1>b, <4>1
        <4>. QED
          BY <1>2, <4>2
      <3>5. Delivery(m) \in finished
        <4>1. ChatOfJob[Delivery(m)] = c
          BY <3>3, JobFacts
        <4>2. running[c] # Delivery(m)
          BY <3>3, <3>4
        <4>. QED
          BY <3>3, <4>1, <4>2 DEF Begun
      <3>6. Ahead(Delivery(m), Delivery(n))
        BY <3>3, <3>4, <3>5, JobFacts DEF Ahead
      <3>7. Before(m, n)
        BY <1>d, <3>6, JobFacts DEF LanesInOrder
      <3>. QED
        BY <3>7, BeforeStays
    <2>. QED
      BY <2>2, <2>3, <2>4, <2>5, <2>6
  <1>. QED
    BY <1>1, <1>2, WhatIsSent

\* In every reachable state both queues keep the order of each chat: the lanes, the
\* accepted messages, the answers handed over and the final reactions (enqueue, push,
\* flush, deliverRecord).
THEOREM FlowInOrder == Spec => [](TypeOK /\ Consistent /\ InOrder)
  <1>1. Init => TypeOK /\ Consistent /\ InOrder
    BY InitType, InitConsistent, InitInOrder
  <1>2. TypeOK /\ Consistent /\ InOrder /\ [Next]_vars
          => (TypeOK /\ Consistent /\ InOrder)'
    BY NextType, NextConsistent, NextLanesInOrder, NextArrivedOnce, NextAcceptedInOrder,
       NextHandedInOrder, NextFinalsSent, NextFinalsInOrder DEF InOrder
  <1>. QED
    BY <1>1, <1>2, PTL DEF Spec

\* The final reactions of a chat come in the order of its messages, for any number of
\* chats and messages, through both queues ("so it stays in order", deliverRecord).
THEOREM FinalsComeInOrder == Spec => []FinalsInOrder
  <1>1. TypeOK /\ Consistent /\ InOrder => FinalsInOrder
    BY DEF InOrder
  <1>. QED
    BY <1>1, FlowInOrder, PTL
=============================================================================
