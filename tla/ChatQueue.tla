----------------------------- MODULE ChatQueue -----------------------------
(***************************************************************************)
(* The queue of jobs of every chat (infra/delivery/whatsapp/queue.go).     *)
(*                                                                         *)
(* enqueue is called by goroutines of the WhatsApp client, for incoming    *)
(* messages, and by the record batcher, for finished ones.  Under mu it    *)
(* finds or starts the worker of the chat and sends the job into the       *)
(* worker's buffered channel; a full channel blocks it, mu held.  A worker *)
(* runs the jobs of its chat one after the other, and leaves when it had   *)
(* none for the time idle.                                                 *)
(*                                                                         *)
(* A job is opaque; it may be one that never returns, as the calls it      *)
(* makes have no timeout.                                                  *)
(***************************************************************************)
EXTENDS Naturals, Sequences

CONSTANTS Chats,     \* the WhatsApp chats
          Jobs,      \* the jobs enqueued in one execution
          ChatOf,    \* ChatOf[j]: the chat of j
          Workers,   \* identities for the goroutines that execute run
          Capacity,  \* chatQueueBuffer
          Hanging,   \* the jobs that may never return
          NoJob,     \* not a job
          NoWorker   \* not a worker

ASSUME ChatsAssumption == Chats # {}
ASSUME ChatOfAssumption == ChatOf \in [Jobs -> Chats]
ASSUME CapacityAssumption == Capacity \in Nat \ {0}
ASSUME HangingAssumption == Hanging \subseteq Jobs
ASSUME NoJobAssumption == NoJob \notin Jobs
ASSUME NoWorkerAssumption == NoWorker \notin Workers

VARIABLES
  mu,        \* the job whose enqueue holds chatQueue.mu, or NoJob
  workers,   \* chatQueue.workers: the worker each chat has, or NoWorker
  caller,    \* where the goroutine that enqueues each job stands
  chat,      \* the chat each worker was started for
  jobs,      \* the channel of each worker
  pc,        \* where each worker stands in run
  job,       \* the job each worker runs, or NoJob
  finished   \* history: the jobs that ran

vars == <<mu, workers, caller, chat, jobs, pc, job, finished>>

\* An identity's chat means nothing before its first start.
Init ==
  /\ mu = NoJob
  /\ workers = [c \in Chats |-> NoWorker]
  /\ caller = [j \in Jobs |-> "new"]
  /\ chat = [w \in Workers |-> CHOOSE c \in Chats : TRUE]
  /\ jobs = [w \in Workers |-> <<>>]
  /\ pc = [w \in Workers |-> "exited"]
  /\ job = [w \in Workers |-> NoJob]
  /\ finished = {}

-----------------------------------------------------------------------------
(* enqueue *)

Call(j) ==
  /\ caller[j] = "new"
  /\ caller' = [caller EXCEPT ![j] = "locking"]
  /\ UNCHANGED <<mu, workers, chat, jobs, pc, job, finished>>

\* mu is acquired and the chat has a worker.
FindWorker(j) ==
  /\ caller[j] = "locking"
  /\ mu = NoJob
  /\ workers[ChatOf[j]] # NoWorker
  /\ mu' = j
  /\ caller' = [caller EXCEPT ![j] = "sending"]
  /\ UNCHANGED <<workers, chat, jobs, pc, job, finished>>

\* mu is acquired and the chat has no worker: one is started.
StartWorker(j, w) ==
  /\ caller[j] = "locking"
  /\ mu = NoJob
  /\ workers[ChatOf[j]] = NoWorker
  /\ pc[w] = "exited"
  /\ mu' = j
  /\ workers' = [workers EXCEPT ![ChatOf[j]] = w]
  /\ chat' = [chat EXCEPT ![w] = ChatOf[j]]
  /\ jobs' = [jobs EXCEPT ![w] = <<>>]
  /\ pc' = [pc EXCEPT ![w] = "select"]
  /\ caller' = [caller EXCEPT ![j] = "sending"]
  /\ UNCHANGED <<job, finished>>

\* Broken variant: the channel has no bound.
SendUnbounded(j) ==
  LET w == workers[ChatOf[j]]
  IN
  /\ caller[j] = "sending"
  /\ jobs' = [jobs EXCEPT ![w] = Append(@, j)]
  /\ mu' = NoJob
  /\ caller' = [caller EXCEPT ![j] = "sent"]
  /\ UNCHANGED <<workers, chat, pc, job, finished>>

\* The channel has room; mu is released.
Send(j) ==
  LET w == workers[ChatOf[j]]
  IN
  /\ caller[j] = "sending"
  /\ Len(jobs[w]) < Capacity
  /\ jobs' = [jobs EXCEPT ![w] = Append(@, j)]
  /\ mu' = NoJob
  /\ caller' = [caller EXCEPT ![j] = "sent"]
  /\ UNCHANGED <<workers, chat, pc, job, finished>>

-----------------------------------------------------------------------------
(* run *)

\* select takes a job.
Receive(w) ==
  /\ pc[w] = "select"
  /\ jobs[w] # <<>>
  /\ job' = [job EXCEPT ![w] = Head(jobs[w])]
  /\ jobs' = [jobs EXCEPT ![w] = Tail(@)]
  /\ pc' = [pc EXCEPT ![w] = "running"]
  /\ UNCHANGED <<mu, workers, caller, chat, finished>>

\* Broken variant: the panic of a job ends the worker.
FinishDies(w) ==
  /\ pc[w] = "running"
  /\ finished' = finished \cup {job[w]}
  /\ job' = [job EXCEPT ![w] = NoJob]
  /\ \E next \in {"select", "exited"} : pc' = [pc EXCEPT ![w] = next]
  /\ UNCHANGED <<mu, workers, caller, chat, jobs>>

\* runJob returns, also when the job panicked, and the timer is set anew.
Finish(w) ==
  /\ pc[w] = "running"
  /\ finished' = finished \cup {job[w]}
  /\ job' = [job EXCEPT ![w] = NoJob]
  /\ pc' = [pc EXCEPT ![w] = "select"]
  /\ UNCHANGED <<mu, workers, caller, chat, jobs>>

\* select takes the timer.  A job may have come at the same time.
TimerFires(w) ==
  /\ pc[w] = "select"
  /\ pc' = [pc EXCEPT ![w] = "expired"]
  /\ UNCHANGED <<mu, workers, caller, chat, jobs, job, finished>>

\* Broken variant: the entry of the chat stays.
ExitForgets(w) ==
  /\ pc[w] = "expired"
  /\ mu = NoJob
  /\ jobs[w] = <<>>
  /\ workers' = workers
  /\ pc' = [pc EXCEPT ![w] = "exited"]
  /\ UNCHANGED <<mu, caller, chat, jobs, job, finished>>

\* Broken variant: the worker looks at its channel without mu.
ExitUnlocked(w) ==
  /\ pc[w] = "expired"
  /\ jobs[w] = <<>>
  /\ workers' = [workers EXCEPT ![chat[w]] = NoWorker]
  /\ pc' = [pc EXCEPT ![w] = "exited"]
  /\ UNCHANGED <<mu, caller, chat, jobs, job, finished>>

\* Broken variant: the worker does not look at its channel.
ExitUnchecked(w) ==
  /\ pc[w] = "expired"
  /\ mu = NoJob
  /\ workers' = [workers EXCEPT ![chat[w]] = NoWorker]
  /\ pc' = [pc EXCEPT ![w] = "exited"]
  /\ UNCHANGED <<mu, caller, chat, jobs, job, finished>>

\* Under mu, the worker sees an empty channel and leaves.
Exit(w) ==
  /\ pc[w] = "expired"
  /\ mu = NoJob
  /\ jobs[w] = <<>>
  /\ workers' = [workers EXCEPT ![chat[w]] = NoWorker]
  /\ pc' = [pc EXCEPT ![w] = "exited"]
  /\ UNCHANGED <<mu, caller, chat, jobs, job, finished>>

\* Under mu, the worker sees that a job came meanwhile, and goes on.
Stay(w) ==
  /\ pc[w] = "expired"
  /\ mu = NoJob
  /\ jobs[w] # <<>>
  /\ pc' = [pc EXCEPT ![w] = "select"]
  /\ UNCHANGED <<mu, workers, caller, chat, jobs, job, finished>>

Next ==
  \/ \E j \in Jobs : Call(j) \/ FindWorker(j) \/ Send(j)
  \/ \E j \in Jobs, w \in Workers : StartWorker(j, w)
  \/ \E w \in Workers :
       Receive(w) \/ Finish(w) \/ TimerFires(w) \/ Exit(w) \/ Stay(w)

Spec == Init /\ [][Next]_vars

(* A goroutine that can go on does.  sync.Mutex hands itself to the goroutine *)
(* that waited longest, so nobody waits for ever for a mutex that is released *)
(* again and again; select picks at random, so it does not prefer the timer   *)
(* for ever.  A job that may hang need not return.                            *)
Lock(j) == FindWorker(j) \/ \E w \in Workers : StartWorker(j, w)

Fairness ==
  /\ \A j \in Jobs : SF_vars(Lock(j)) /\ WF_vars(Send(j))
  /\ \A w \in Workers :
       /\ SF_vars(Receive(w))
       /\ WF_vars(job[w] \notin Hanging /\ Finish(w))
       /\ SF_vars(Exit(w) \/ Stay(w))

FairSpec == Spec /\ Fairness

-----------------------------------------------------------------------------

TypeOK ==
  /\ mu \in Jobs \cup {NoJob}
  /\ workers \in [Chats -> Workers \cup {NoWorker}]
  /\ caller \in [Jobs -> {"new", "locking", "sending", "sent"}]
  /\ chat \in [Workers -> Chats]
  /\ jobs \in [Workers -> Seq(Jobs)]
  /\ pc \in [Workers -> {"select", "running", "expired", "exited"}]
  /\ job \in [Workers -> Jobs \cup {NoJob}]
  /\ finished \in SUBSET Jobs
  /\ \A w \in Workers : Len(jobs[w]) <= Capacity

Live(w) == pc[w] # "exited"

\* A chat has at most one worker, the one workers knows: a worker that leaves
\* never removes the entry of another, and is never replaced before it left.
OneWorkerPerChat ==
  \A c \in Chats, w \in Workers : workers[c] = w <=> Live(w) /\ chat[w] = c

\* The comment of enqueue: "the worker can't decide to exit between us finding it
\* and handing it the job".  Whoever sends has a worker to send to, and a job is
\* never left in the channel of a worker that exited.
HandedToLiveWorker ==
  /\ \A j \in Jobs :
       caller[j] = "sending" => \E w \in Workers : workers[ChatOf[j]] = w /\ Live(w)
  /\ \A w \in Workers : jobs[w] # <<>> => Live(w)

\* mu is held by the job that is being sent, and a worker has a job while it runs
\* one: what the two properties above need to be inductive.
MutexHeld == \A j \in Jobs : caller[j] = "sending" <=> mu = j
JobWhileRunning == \A w \in Workers : pc[w] = "running" <=> job[w] # NoJob
Consistent ==
  OneWorkerPerChat /\ HandedToLiveWorker /\ MutexHeld /\ JobWhileRunning

\* The job a chat runs, and those that wait in it.
RunningIn(c) ==
  IF workers[c] = NoWorker THEN NoJob ELSE job[workers[c]]
LaneOf(c) ==
  IF workers[c] = NoWorker THEN <<>> ELSE jobs[workers[c]]

\* README, "Request flow": "one worker per chat, in order".
Lanes == INSTANCE ChatLanes WITH
  lane    <- [c \in Chats |-> LaneOf(c)],
  running <- [c \in Chats |-> RunningIn(c)],
  entered <- {j \in Jobs : caller[j] = "sent"}
ImplementsLanes == Lanes!LanesSpec

\* README, "Request flow": "chats in parallel".  A job is let in and runs to its
\* end, unless a job of its own chat hangs, whatever the other chats do.
EveryJobRuns ==
  \A j \in Jobs :
    (\A h \in Hanging : ChatOf[h] # ChatOf[j])
      => caller[j] = "locking" ~> j \in finished

\* The comment of chatQueueBuffer: "how many messages one chat can have waiting
\* before Enqueue blocks".  It blocks for that chat, not for another.
OnlyFullChatBlocks ==
  \A j, k \in Jobs :
    /\ caller[j] = "locking"
    /\ mu = k /\ Len(jobs[workers[ChatOf[k]]]) = Capacity
    => ChatOf[j] = ChatOf[k]
=============================================================================
