-------------------------- MODULE ChatQueueProofs --------------------------
(***************************************************************************)
(* Proofs about ChatQueue, for any number of chats, jobs and workers and   *)
(* any capacity: the chats and their workers match (Consistent), and the   *)
(* workers together implement the lanes of ChatLanes.                      *)
(***************************************************************************)
EXTENDS ChatQueue, SequenceTheorems, TLAPS

\* A job is sent into the channel of the live worker of its chat.
LEMMA SenderHasWorker ==
  ASSUME TypeOK, Consistent, NEW j \in Jobs, caller[j] = "sending"
  PROVE  \E w \in Workers :
           workers[ChatOf[j]] = w /\ Live(w) /\ chat[w] = ChatOf[j]
  BY ChatOfAssumption DEF TypeOK, Consistent, HandedToLiveWorker, OneWorkerPerChat

-----------------------------------------------------------------------------
(* Types *)

LEMMA InitType == Init => TypeOK
  <1> SUFFICES ASSUME Init PROVE TypeOK
    OBVIOUS
  <1>1. jobs \in [Workers -> Seq(Jobs)]
    BY EmptySeq DEF Init
  <1>2. chat \in [Workers -> Chats]
    BY ChatsAssumption DEF Init
  <1>3. \A w \in Workers : Len(jobs[w]) <= Capacity
    BY CapacityAssumption DEF Init
  <1>. QED
    BY <1>1, <1>2, <1>3 DEF Init, TypeOK

LEMMA NextType == TypeOK /\ Consistent /\ [Next]_vars => TypeOK'
  <1> SUFFICES ASSUME TypeOK, Consistent, [Next]_vars PROVE TypeOK'
    OBVIOUS
  <1>1. ASSUME NEW j \in Jobs, Call(j) PROVE TypeOK'
    BY <1>1 DEF TypeOK, Call
  <1>2. ASSUME NEW j \in Jobs, FindWorker(j) PROVE TypeOK'
    BY <1>2 DEF TypeOK, FindWorker
  <1>3. ASSUME NEW j \in Jobs, Send(j) PROVE TypeOK'
    <2>1. PICK w \in Workers : workers[ChatOf[j]] = w
      BY <1>3, SenderHasWorker DEF Send
    <2>2. jobs[w] \in Seq(Jobs) /\ Len(jobs[w]) < Capacity
      BY <1>3, <2>1 DEF Send, TypeOK
    <2>3. Append(jobs[w], j) \in Seq(Jobs) /\ Len(Append(jobs[w], j)) = Len(jobs[w]) + 1
      BY <2>2, AppendProperties
    <2>4. jobs' = [jobs EXCEPT ![w] = Append(jobs[w], j)]
      BY <1>3, <2>1 DEF Send
    <2>5. jobs' \in [Workers -> Seq(Jobs)]
      BY <2>3, <2>4 DEF TypeOK
    <2>6. \A v \in Workers : Len(jobs'[v]) <= Capacity
      <3> SUFFICES ASSUME NEW v \in Workers PROVE Len(jobs'[v]) <= Capacity
        OBVIOUS
      <3>1. Len(jobs[w]) \in Nat
        BY <2>2, LenProperties
      <3>2. CASE v = w
        BY <2>2, <2>3, <2>4, <3>1, <3>2, CapacityAssumption DEF TypeOK
      <3>3. CASE v # w
        BY <2>4, <3>3 DEF TypeOK
      <3>. QED
        BY <3>2, <3>3
    <2>. QED
      BY <1>3, <2>5, <2>6 DEF TypeOK, Send
  <1>4. ASSUME NEW j \in Jobs, NEW w \in Workers, StartWorker(j, w) PROVE TypeOK'
    <2>1. jobs' \in [Workers -> Seq(Jobs)]
      BY <1>4, EmptySeq DEF TypeOK, StartWorker
    <2>2. \A v \in Workers : Len(jobs'[v]) <= Capacity
      BY <1>4, CapacityAssumption DEF TypeOK, StartWorker
    <2>. QED
      BY <1>4, <2>1, <2>2, ChatOfAssumption DEF TypeOK, StartWorker
  <1>5. ASSUME NEW w \in Workers, Receive(w) PROVE TypeOK'
    <2>1. jobs[w] \in Seq(Jobs) /\ jobs[w] # <<>>
      BY <1>5 DEF Receive, TypeOK
    <2>2. /\ Head(jobs[w]) \in Jobs
          /\ Tail(jobs[w]) \in Seq(Jobs)
          /\ Len(Tail(jobs[w])) = Len(jobs[w]) - 1
          /\ Len(jobs[w]) \in Nat
      BY <2>1, HeadTailProperties, LenProperties
    <2>3. jobs' = [jobs EXCEPT ![w] = Tail(jobs[w])]
      BY <1>5 DEF Receive
    <2>4. jobs' \in [Workers -> Seq(Jobs)]
      BY <2>2, <2>3 DEF TypeOK
    <2>5. \A v \in Workers : Len(jobs'[v]) <= Capacity
      <3> SUFFICES ASSUME NEW v \in Workers PROVE Len(jobs'[v]) <= Capacity
        OBVIOUS
      <3>1. CASE v = w
        BY <2>2, <2>3, <3>1, CapacityAssumption DEF TypeOK
      <3>2. CASE v # w
        BY <2>3, <3>2 DEF TypeOK
      <3>. QED
        BY <3>1, <3>2
    <2>. QED
      BY <1>5, <2>2, <2>4, <2>5 DEF TypeOK, Receive
  <1>6. ASSUME NEW w \in Workers, Finish(w) PROVE TypeOK'
    BY <1>6, NoJobAssumption DEF TypeOK, Finish, Consistent, JobWhileRunning
  <1>7. ASSUME NEW w \in Workers, TimerFires(w) PROVE TypeOK'
    BY <1>7 DEF TypeOK, TimerFires
  <1>8. ASSUME NEW w \in Workers, Exit(w) PROVE TypeOK'
    BY <1>8 DEF TypeOK, Exit
  <1>9. ASSUME NEW w \in Workers, Stay(w) PROVE TypeOK'
    BY <1>9 DEF TypeOK, Stay
  <1>10. CASE UNCHANGED vars
    BY <1>10 DEF TypeOK, vars
  <1>. QED
    BY <1>1, <1>2, <1>3, <1>4, <1>5, <1>6, <1>7, <1>8, <1>9, <1>10 DEF Next

-----------------------------------------------------------------------------
(* The invariant *)

LEMMA InitConsistent == Init => Consistent
  <1> SUFFICES ASSUME Init PROVE Consistent
    OBVIOUS
  <1>1. OneWorkerPerChat
    BY NoWorkerAssumption DEF Init, OneWorkerPerChat, Live
  <1>2. HandedToLiveWorker
    BY DEF Init, HandedToLiveWorker
  <1>3. MutexHeld /\ JobWhileRunning
    BY NoJobAssumption DEF Init, MutexHeld, JobWhileRunning
  <1>. QED
    BY <1>1, <1>2, <1>3 DEF Consistent

LEMMA NextConsistent == TypeOK /\ Consistent /\ [Next]_vars => Consistent'
  <1> SUFFICES ASSUME TypeOK, Consistent, [Next]_vars PROVE Consistent'
    OBVIOUS
  <1> USE NoJobAssumption, NoWorkerAssumption, ChatOfAssumption
  <1>1. ASSUME NEW j \in Jobs, Call(j) PROVE Consistent'
    BY <1>1 DEF TypeOK, Call, Consistent, OneWorkerPerChat, HandedToLiveWorker,
                MutexHeld, JobWhileRunning, Live
  <1>2. ASSUME NEW j \in Jobs, FindWorker(j) PROVE Consistent'
    <2>1. OneWorkerPerChat' /\ JobWhileRunning'
      BY <1>2 DEF FindWorker, Consistent, OneWorkerPerChat, JobWhileRunning, Live
    <2>2. MutexHeld'
      BY <1>2 DEF TypeOK, FindWorker, Consistent, MutexHeld
    <2>3. HandedToLiveWorker'
      BY <1>2 DEF TypeOK, FindWorker, Consistent, OneWorkerPerChat,
                  HandedToLiveWorker, Live
    <2>. QED
      BY <2>1, <2>2, <2>3 DEF Consistent
  <1>3. ASSUME NEW j \in Jobs, Send(j) PROVE Consistent'
    <2>1. PICK w \in Workers : workers[ChatOf[j]] = w /\ Live(w)
      BY <1>3, SenderHasWorker DEF Send
    <2>2. OneWorkerPerChat' /\ JobWhileRunning'
      BY <1>3 DEF Send, Consistent, OneWorkerPerChat, JobWhileRunning, Live
    <2>3. MutexHeld'
      BY <1>3 DEF TypeOK, Send, Consistent, MutexHeld
    <2>4. \A v \in Workers : v # w => jobs'[v] = jobs[v]
      BY <1>3, <2>1 DEF Send, TypeOK
    <2>5. HandedToLiveWorker'
      BY <1>3, <2>1, <2>4 DEF TypeOK, Send, Consistent, HandedToLiveWorker, Live
    <2>. QED
      BY <2>2, <2>3, <2>5 DEF Consistent
  <1>4. ASSUME NEW j \in Jobs, NEW w \in Workers, StartWorker(j, w) PROVE Consistent'
    <2>1. \A c \in Chats : workers[c] # w
      BY <1>4 DEF StartWorker, Consistent, OneWorkerPerChat, Live
    <2>2. OneWorkerPerChat'
      BY <1>4, <2>1 DEF TypeOK, StartWorker, Consistent, OneWorkerPerChat, Live
    <2>3. MutexHeld'
      BY <1>4 DEF TypeOK, StartWorker, Consistent, MutexHeld
    <2>4. JobWhileRunning'
      BY <1>4 DEF TypeOK, StartWorker, Consistent, JobWhileRunning
    <2>5. HandedToLiveWorker'
      BY <1>4, <2>1 DEF TypeOK, StartWorker, Consistent, HandedToLiveWorker,
                        MutexHeld, Live
    <2>. QED
      BY <2>2, <2>3, <2>4, <2>5 DEF Consistent
  <1>5. ASSUME NEW w \in Workers, Receive(w) PROVE Consistent'
    <2>1. jobs[w] \in Seq(Jobs) /\ jobs[w] # <<>>
      BY <1>5 DEF Receive, TypeOK
    <2>2. Head(jobs[w]) \in Jobs
      BY <2>1, HeadTailProperties
    <2>3. OneWorkerPerChat' /\ MutexHeld'
      BY <1>5 DEF TypeOK, Receive, Consistent, OneWorkerPerChat, MutexHeld, Live
    <2>4. JobWhileRunning'
      BY <1>5, <2>2 DEF TypeOK, Receive, Consistent, JobWhileRunning
    <2>5. HandedToLiveWorker'
      BY <1>5 DEF TypeOK, Receive, Consistent, HandedToLiveWorker, Live
    <2>. QED
      BY <2>3, <2>4, <2>5 DEF Consistent
  <1>6. ASSUME NEW w \in Workers, Finish(w) PROVE Consistent'
    BY <1>6 DEF TypeOK, Finish, Consistent, OneWorkerPerChat, HandedToLiveWorker,
                MutexHeld, JobWhileRunning, Live
  <1>7. ASSUME NEW w \in Workers, TimerFires(w) PROVE Consistent'
    BY <1>7 DEF TypeOK, TimerFires, Consistent, OneWorkerPerChat, HandedToLiveWorker,
                MutexHeld, JobWhileRunning, Live
  <1>8. ASSUME NEW w \in Workers, Exit(w) PROVE Consistent'
    <2>1. \A j \in Jobs : caller[j] # "sending"
      BY <1>8 DEF Exit, Consistent, MutexHeld
    <2>2. OneWorkerPerChat'
      BY <1>8 DEF TypeOK, Exit, Consistent, OneWorkerPerChat, Live
    <2>3. HandedToLiveWorker' /\ MutexHeld' /\ JobWhileRunning'
      BY <1>8, <2>1 DEF TypeOK, Exit, Consistent, HandedToLiveWorker, MutexHeld,
                        JobWhileRunning, Live
    <2>. QED
      BY <2>2, <2>3 DEF Consistent
  <1>9. ASSUME NEW w \in Workers, Stay(w) PROVE Consistent'
    BY <1>9 DEF TypeOK, Stay, Consistent, OneWorkerPerChat, HandedToLiveWorker,
                MutexHeld, JobWhileRunning, Live
  <1>10. CASE UNCHANGED vars
    BY <1>10 DEF vars, Consistent, OneWorkerPerChat, HandedToLiveWorker,
                 MutexHeld, JobWhileRunning, Live
  <1>. QED
    BY <1>1, <1>2, <1>3, <1>4, <1>5, <1>6, <1>7, <1>8, <1>9, <1>10 DEF Next

\* The chats, their workers, the mutex and the channels match in every reachable
\* state, for any number of each (enqueue, run).
THEOREM ChatsConsistent == Spec => [](TypeOK /\ Consistent)
  <1>1. Init => TypeOK /\ Consistent
    BY InitType, InitConsistent
  <1>2. TypeOK /\ Consistent /\ [Next]_vars => (TypeOK /\ Consistent)'
    BY NextType, NextConsistent
  <1>. QED
    BY <1>1, <1>2, PTL DEF Spec

\* Callers, workers and channels keep their types, and no channel ever holds more than its
\* capacity, also when several callers wait for one chat (enqueue).
THEOREM ChatsTypeOK == Spec => []TypeOK
  <1>1. TypeOK /\ Consistent => TypeOK
    OBVIOUS
  <1>. QED
    BY <1>1, ChatsConsistent, PTL

\* A chat never has two workers, and never an entry of a worker that left (the
\* delete of run, under mu).
THEOREM OneWorker == Spec => []OneWorkerPerChat
  <1>1. TypeOK /\ Consistent => OneWorkerPerChat
    BY DEF Consistent
  <1>. QED
    BY <1>1, ChatsConsistent, PTL

\* A job is never left with a worker that exited: the comment of enqueue holds.
THEOREM NoJobStranded == Spec => []HandedToLiveWorker
  <1>1. TypeOK /\ Consistent => HandedToLiveWorker
    BY DEF Consistent
  <1>. QED
    BY <1>1, ChatsConsistent, PTL

-----------------------------------------------------------------------------
(* The workers implement the lanes. *)

LEMMA InitLanes == Init => Lanes!LanesInit
  BY ChatOfAssumption DEF Init, Lanes!LanesInit, LaneOf, RunningIn

\* What is in the lane of a chat, seen from a live worker.
LEMMA LaneOfWorker ==
  ASSUME TypeOK, Consistent, NEW w \in Workers, Live(w)
  PROVE  /\ workers[chat[w]] = w
         /\ chat[w] \in Chats
         /\ LaneOf(chat[w]) = jobs[w]
         /\ RunningIn(chat[w]) = job[w]
  BY NoWorkerAssumption DEF TypeOK, Consistent, OneWorkerPerChat, LaneOf, RunningIn

LEMMA NextLanes == TypeOK /\ Consistent /\ [Next]_vars => [Lanes!LanesNext]_Lanes!lanesVars
  <1> SUFFICES ASSUME TypeOK, Consistent, [Next]_vars
               PROVE  Lanes!LanesNext \/ UNCHANGED Lanes!lanesVars
    OBVIOUS
  <1> DEFINE lane    == [c \in Chats |-> LaneOf(c)]
             running == [c \in Chats |-> RunningIn(c)]
             entered == {j \in Jobs : caller[j] = "sent"}
             Stutter == UNCHANGED lane /\ UNCHANGED running
                          /\ UNCHANGED entered /\ UNCHANGED finished
  <1>a. Stutter => UNCHANGED Lanes!lanesVars
    BY DEF Lanes!lanesVars
  <1> USE NoJobAssumption, NoWorkerAssumption, ChatOfAssumption
  <1>1. ASSUME NEW j \in Jobs, Call(j) PROVE Stutter
    BY <1>1 DEF TypeOK, Call, LaneOf, RunningIn
  <1>2. ASSUME NEW j \in Jobs, FindWorker(j) PROVE Stutter
    BY <1>2 DEF TypeOK, FindWorker, LaneOf, RunningIn
  <1>3. ASSUME NEW j \in Jobs, Send(j) PROVE Lanes!Enter(j)
    <2>1. PICK w \in Workers :
            workers[ChatOf[j]] = w /\ Live(w) /\ chat[w] = ChatOf[j]
      BY <1>3, SenderHasWorker DEF Send
    <2>2. jobs' = [jobs EXCEPT ![w] = Append(jobs[w], j)]
      BY <1>3, <2>1 DEF Send
    <2>3. \A c \in Chats : c # ChatOf[j] => workers[c] # w
      BY <2>1 DEF Consistent, OneWorkerPerChat
    <2>4. UNCHANGED <<workers, job, finished>>
      BY <1>3 DEF Send
    <2>5. UNCHANGED running
      BY <2>4 DEF RunningIn
    <2>6. lane' = [lane EXCEPT ![ChatOf[j]] = Append(@, j)]
      BY <2>1, <2>2, <2>3, <2>4 DEF LaneOf, TypeOK
    <2>7. j \notin entered /\ entered' = entered \cup {j}
      BY <1>3 DEF Send, TypeOK
    <2>. QED
      BY <2>4, <2>5, <2>6, <2>7 DEF Lanes!Enter
  <1>4. ASSUME NEW j \in Jobs, NEW w \in Workers, StartWorker(j, w) PROVE Stutter
    <2>1. \A c \in Chats : workers[c] # w
      BY <1>4 DEF StartWorker, Consistent, OneWorkerPerChat, Live
    <2>2. job[w] = NoJob
      BY <1>4 DEF StartWorker, Consistent, JobWhileRunning, TypeOK
    <2>3. UNCHANGED lane
      BY <1>4, <2>1 DEF StartWorker, LaneOf, TypeOK
    <2>4. UNCHANGED running
      BY <1>4, <2>1, <2>2 DEF StartWorker, RunningIn, TypeOK
    <2>5. UNCHANGED entered /\ UNCHANGED finished
      BY <1>4 DEF StartWorker, TypeOK
    <2>. QED
      BY <2>3, <2>4, <2>5
  <1>5. ASSUME NEW w \in Workers, Receive(w) PROVE Lanes!Begin(chat[w])
    <2>1. Live(w)
      BY <1>5 DEF Receive, Live
    <2>2. /\ workers[chat[w]] = w
          /\ chat[w] \in Chats
          /\ lane[chat[w]] = jobs[w]
          /\ running[chat[w]] = job[w]
      BY <2>1, LaneOfWorker
    <2>3. job[w] = NoJob
      BY <1>5 DEF Receive, Consistent, JobWhileRunning
    <2>4. \A c \in Chats : c # chat[w] => workers[c] # w
      BY DEF Consistent, OneWorkerPerChat
    <2>5. lane' = [lane EXCEPT ![chat[w]] = Tail(@)]
      BY <1>5, <2>2, <2>4 DEF Receive, LaneOf, TypeOK
    <2>6. running' = [running EXCEPT ![chat[w]] = Head(lane[chat[w]])]
      BY <1>5, <2>2, <2>4 DEF Receive, RunningIn, TypeOK
    <2>7. UNCHANGED entered /\ UNCHANGED finished
      BY <1>5 DEF Receive
    <2>8. lane[chat[w]] # <<>>
      BY <1>5, <2>2 DEF Receive
    <2>. QED
      BY <2>2, <2>3, <2>5, <2>6, <2>7, <2>8 DEF Lanes!Begin
  <1>6. ASSUME NEW w \in Workers, Finish(w) PROVE Lanes!End(chat[w])
    <2>1. Live(w)
      BY <1>6 DEF Finish, Live
    <2>2. /\ workers[chat[w]] = w
          /\ chat[w] \in Chats
          /\ running[chat[w]] = job[w]
      BY <2>1, LaneOfWorker
    <2>3. job[w] # NoJob
      BY <1>6 DEF Finish, Consistent, JobWhileRunning
    <2>4. \A c \in Chats : c # chat[w] => workers[c] # w
      BY DEF Consistent, OneWorkerPerChat
    <2>5. running' = [running EXCEPT ![chat[w]] = NoJob]
      BY <1>6, <2>2, <2>4 DEF Finish, RunningIn, TypeOK
    <2>6. UNCHANGED lane
      BY <1>6 DEF Finish, LaneOf
    <2>7. UNCHANGED entered /\ finished' = finished \cup {running[chat[w]]}
      BY <1>6, <2>2 DEF Finish
    <2>. QED
      BY <2>2, <2>3, <2>5, <2>6, <2>7 DEF Lanes!End
  <1>7. ASSUME NEW w \in Workers, TimerFires(w) PROVE Stutter
    BY <1>7 DEF TimerFires, LaneOf, RunningIn
  <1>8. ASSUME NEW w \in Workers, Exit(w) PROVE Stutter
    <2>1. Live(w)
      BY <1>8 DEF Exit, Live
    <2>2. /\ workers[chat[w]] = w
          /\ LaneOf(chat[w]) = <<>>
          /\ RunningIn(chat[w]) = job[w]
      BY <1>8, <2>1, LaneOfWorker DEF Exit
    <2>3. job[w] = NoJob
      BY <1>8 DEF Exit, Consistent, JobWhileRunning
    <2>4. UNCHANGED lane
      BY <1>8, <2>2 DEF Exit, LaneOf, TypeOK
    <2>5. UNCHANGED running
      BY <1>8, <2>2, <2>3 DEF Exit, RunningIn, TypeOK
    <2>6. UNCHANGED entered /\ UNCHANGED finished
      BY <1>8 DEF Exit
    <2>. QED
      BY <2>4, <2>5, <2>6
  <1>9. ASSUME NEW w \in Workers, Stay(w) PROVE Stutter
    BY <1>9 DEF Stay, LaneOf, RunningIn
  <1>10. CASE UNCHANGED vars
    BY <1>10 DEF vars, LaneOf, RunningIn, Lanes!lanesVars
  <1>11. \A w \in Workers : chat[w] \in Chats
    BY DEF TypeOK
  <1> HIDE DEF Stutter
  <1>. QED
    BY <1>a, <1>1, <1>2, <1>3, <1>4, <1>5, <1>6, <1>7, <1>8, <1>9, <1>10, <1>11
    DEF Next, Lanes!LanesNext

\* In every chat jobs run one at a time and in order, none is lost and none runs
\* twice, although workers come and go: ChatQueue implements ChatLanes (README,
\* "Request flow").
THEOREM QueueImplementsLanes == Spec => ImplementsLanes
  <1>1. Init => Lanes!LanesInit
    BY InitLanes
  <1>2. TypeOK /\ Consistent /\ [Next]_vars => [Lanes!LanesNext]_Lanes!lanesVars
    BY NextLanes
  <1>. QED
    BY <1>1, <1>2, ChatsConsistent, PTL DEF Spec, ImplementsLanes, Lanes!LanesSpec
=============================================================================
