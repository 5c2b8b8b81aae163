----------------------------- MODULE RecordFlow -----------------------------
(***************************************************************************)
(* A record message on its way through the bot: from the event handler     *)
(* (infra/delivery/whatsapp/handler.go) through the queue of its chat to   *)
(* the chatbot service (infra/service/chatbot.go), to the batcher, and     *)
(* back through the queue of its chat as an answer.                        *)
(*                                                                         *)
(* The two queues are here what they promise: the chat queue is ChatLanes, *)
(* which ChatQueue implements, and the batcher is RecordPromise, which     *)
(* RecordBatcher implements.  What this module adds are the two jobs of a  *)
(* message, what each sends to the chat, and how they may interleave.      *)
(***************************************************************************)
EXTENDS Naturals, Sequences

CONSTANTS Chats,     \* the WhatsApp chats
          Messages,  \* the messages that users send
          ChatOf,    \* ChatOf[m]: the chat m was sent in
          Items,     \* the non-blank lines of the messages, [entry, line]
          CanPanic,  \* whether jobs and flushes may panic
          NoJob,     \* not a job
          NoMessage  \* not a message

ASSUME ChatOfAssumption == ChatOf \in [Messages -> Chats]
ASSUME NoMessageAssumption == NoMessage \notin Messages

\* A message has a job that processes it, and perhaps one that delivers its answer.
Jobs == [kind : {"process", "deliver"}, message : Messages]

ASSUME NoJobAssumption == NoJob \notin Jobs

Process(m) == [kind |-> "process", message |-> m]
Delivery(m) == [kind |-> "deliver", message |-> m]
ChatOfJob == [j \in Jobs |-> ChatOf[j.message]]

VARIABLES
  lane, running, entered, finished,  \* the chat queue: see ChatLanes
  accepted, outcome, answered,       \* the batcher: see RecordPromise
  handing,   \* the message the batcher is delivering, or NoMessage
  step,      \* where the worker of each chat stands in its job
  log,       \* what each chat was sent, [what, message], in order
  ctx,       \* the context of the batcher: "live" or "cancelled"
  arrived    \* history: the messages in the order of their events

lanesVars   == <<lane, running, entered, finished>>
promiseVars == <<accepted, outcome, answered>>
vars == <<lanesVars, promiseVars, handing, step, log, ctx, arrived>>

Lanes   == INSTANCE ChatLanes WITH ChatOf <- ChatOfJob
Promise == INSTANCE RecordPromise

Init ==
  /\ Lanes!LanesInit
  /\ Promise!PromiseInit
  /\ handing = NoMessage
  /\ step = [c \in Chats |-> "idle"]
  /\ log = [c \in Chats |-> <<>>]
  /\ ctx = "live"
  /\ arrived = <<>>

-----------------------------------------------------------------------------

\* handleEvent puts a job for the message into the queue of its chat.
Arrive(m) ==
  /\ Lanes!Enter(Process(m))
  /\ arrived' = Append(arrived, m)
  /\ UNCHANGED <<promiseVars, handing, step, log, ctx>>

\* The worker of a chat takes its next job: process, or sendReplies of an answer.
BeginJob(c) ==
  /\ Lanes!Begin(c)
  /\ step' = [step EXCEPT ![c] =
                IF Head(lane[c]).kind = "process" THEN "route" ELSE "react"]
  /\ UNCHANGED <<promiseVars, handing, log, ctx, arrived>>

\* ProcessIncomingMessage finds a valid user and a record, and EnqueueRecordTransaction
\* queues its lines.
QueueRecord(c) ==
  LET m == running[c].message
  IN
  /\ step[c] = "route"
  /\ \E it \in Items : it.entry = m
  /\ Promise!Accept(m)
  /\ step' = [step EXCEPT ![c] = "react"]
  /\ UNCHANGED <<lanesVars, handing, log, ctx, arrived>>

\* Anything else: an error, a blank record, or another action, answered with a text.
ReplyAtOnce(c) ==
  /\ step[c] = "route"
  /\ step' = [step EXCEPT ![c] = "reply"]
  /\ UNCHANGED <<lanesVars, promiseVars, handing, log, ctx, arrived>>

\* Something is sent to the chat of the message; a send that fails is only logged.
\* Answers are sent with the context of the batcher, which fails them once cancelled.
Show(c, what) ==
  LET j == running[c]
      to == ChatOf[j.message]
  IN
  \/ /\ j.kind = "process" \/ ctx = "live"
     /\ log' = [log EXCEPT ![to] = Append(@, [what |-> what, message |-> j.message])]
  \/ UNCHANGED log

\* react: the hourglass of a queued record, or the final reaction that replaces it.
React(c) ==
  /\ step[c] = "react"
  /\ Show(c, IF running[c].kind = "process" THEN "hourglass" ELSE "final")
  /\ step' = [step EXCEPT ![c] =
                IF running[c].kind = "process" THEN "ack" ELSE "reply"]
  /\ UNCHANGED <<lanesVars, promiseVars, handing, ctx, arrived>>

\* The canned ack, if the user is to get one.
SendAck(c) ==
  /\ step[c] = "ack"
  /\ Show(c, "ack")
  /\ step' = [step EXCEPT ![c] = "done"]
  /\ UNCHANGED <<lanesVars, promiseVars, handing, ctx, arrived>>

\* The text of a reply, or of the confirmations of an answer.
SendReply(c) ==
  /\ step[c] = "reply"
  /\ Show(c, "reply")
  /\ step' = [step EXCEPT ![c] = "done"]
  /\ UNCHANGED <<lanesVars, promiseVars, handing, ctx, arrived>>

\* Broken variant: after a panic the worker has forgotten that it is idle.
EndJobKeepsStep(c) ==
  /\ step[c] = "done" \/ (CanPanic /\ step[c] # "idle")
  /\ Lanes!End(c)
  /\ step' = [step EXCEPT ![c] = IF @ = "done" THEN "idle" ELSE @]
  /\ UNCHANGED <<promiseVars, handing, log, ctx, arrived>>

\* The job returns, or panics anywhere and is recovered by runJob.
EndJob(c) ==
  /\ step[c] = "done" \/ (CanPanic /\ step[c] # "idle")
  /\ Lanes!End(c)
  /\ step' = [step EXCEPT ![c] = "idle"]
  /\ UNCHANGED <<promiseVars, handing, log, ctx, arrived>>

\* Execute settles lines, never while the same goroutine is delivering.
Settle(lines, result) ==
  /\ handing = NoMessage
  /\ Promise!Settle(lines, result)
  /\ UNCHANGED <<lanesVars, handing, step, log, ctx, arrived>>

\* flush calls deliver for a message whose lines are done.
Answer(m) ==
  /\ handing = NoMessage
  /\ Promise!Answer(m)
  /\ handing' = m
  /\ UNCHANGED <<lanesVars, step, log, ctx, arrived>>

\* Broken variant: the answer is sent by the batcher itself.
DeliverAtOnce ==
  /\ handing # NoMessage
  /\ log' = [log EXCEPT ![ChatOf[handing]] =
               Append(@, [what |-> "final", message |-> handing])]
  /\ handing' = NoMessage
  /\ UNCHANGED <<lanesVars, promiseVars, step, ctx, arrived>>

\* Broken variant: the answer goes through the queue of any chat, as of the sender.
DeliverElsewhere ==
  /\ handing # NoMessage
  /\ entered' = entered \cup {Delivery(handing)}
  /\ \E c \in Chats : lane' = [lane EXCEPT ![c] = Append(@, Delivery(handing))]
  /\ handing' = NoMessage
  /\ UNCHANGED <<running, finished, promiseVars, step, log, ctx, arrived>>

\* Broken variant: the answer is dropped when the chat is busy.
DeliverIfIdle ==
  /\ handing # NoMessage
  /\ \/ Lanes!Enter(Delivery(handing))
     \/ running[ChatOf[handing]] # NoJob /\ UNCHANGED lanesVars
  /\ handing' = NoMessage
  /\ UNCHANGED <<promiseVars, step, log, ctx, arrived>>

\* deliverRecord puts a job for the answer into the queue of the message's chat.
Deliver ==
  /\ handing # NoMessage
  /\ Lanes!Enter(Delivery(handing))
  /\ handing' = NoMessage
  /\ UNCHANGED <<promiseVars, step, log, ctx, arrived>>

\* main cancels the context when the process is told to end.
Cancel ==
  /\ ctx = "live"
  /\ ctx' = "cancelled"
  /\ UNCHANGED <<lanesVars, promiseVars, handing, step, log, arrived>>

Next ==
  \/ \E m \in Messages : Arrive(m) \/ Answer(m)
  \/ \E c \in Chats :
       \/ BeginJob(c) \/ QueueRecord(c) \/ ReplyAtOnce(c)
       \/ React(c) \/ SendAck(c) \/ SendReply(c) \/ EndJob(c)
  \/ \E lines \in SUBSET Items, result \in {"saved", "failed"} :
       Settle(lines, result)
  \/ Deliver \/ Cancel

Spec == Init /\ [][Next]_vars

\* Workers and the delivery of an answer go on when they can, while the context is live.
\* Once it is cancelled, main waits for the batcher alone (Disconnect) and returns: a job
\* in the queue of a chat, or in the middle, need not go on.
Fairness ==
  /\ \A c \in Chats :
       /\ WF_vars(ctx = "live" /\ BeginJob(c))
       /\ WF_vars(ctx = "live" /\ (QueueRecord(c) \/ ReplyAtOnce(c)))
       /\ WF_vars(ctx = "live" /\ (React(c) \/ SendAck(c) \/ SendReply(c)))
       /\ WF_vars(ctx = "live" /\ EndJob(c))
  /\ WF_vars(ctx = "live" /\ Deliver)

FairSpec == Spec /\ Fairness

-----------------------------------------------------------------------------

Sendings == [what : {"hourglass", "ack", "final", "reply"}, message : Messages]

TypeOK ==
  /\ lane \in [Chats -> Seq(Jobs)]
  /\ running \in [Chats -> Jobs \cup {NoJob}]
  /\ entered \in SUBSET Jobs
  /\ finished \in SUBSET Jobs
  /\ accepted \in Seq(Messages)
  /\ outcome \in [Items -> {"none", "saved", "failed"}]
  /\ answered \in Seq(Messages)
  /\ handing \in Messages \cup {NoMessage}
  /\ step \in [Chats -> {"idle", "route", "react", "ack", "reply", "done"}]
  /\ \A c \in Chats : step[c] = "idle" <=> running[c] = NoJob
  /\ log \in [Chats -> Seq(Sendings)]
  /\ ctx \in {"live", "cancelled"}
  /\ arrived \in Seq(Messages)

\* "A new reaction replaces the previous one" (react): the hourglass is never set
\* after the final reaction, nor an ack sent after it, although the batch may be done
\* before the job that queued the message has sent either.
HourglassNeverLast ==
  \A c \in Chats : \A i, j \in DOMAIN log[c] :
    /\ log[c][i].what = "final"
    /\ log[c][j].what \in {"hourglass", "ack"}
    /\ log[c][i].message = log[c][j].message
    => j < i

-----------------------------------------------------------------------------
(* The inductive invariant behind HourglassNeverLast.                       *)

\* A job waits once in the lane of its chat, or runs there, or ran.
JobsInOnePlace ==
  /\ finished \subseteq entered
  /\ \A c \in Chats :
       /\ \A i \in DOMAIN lane[c] :
            /\ lane[c][i] \in entered \ finished
            /\ ChatOfJob[lane[c][i]] = c
            /\ lane[c][i] # running[c]
       /\ \A i, j \in DOMAIN lane[c] : lane[c][i] = lane[c][j] => i = j
       /\ running[c] # NoJob =>
            running[c] \in entered \ finished /\ ChatOfJob[running[c]] = c

Begun(j) == j \in finished \/ running[ChatOfJob[j]] = j

\* A message is accepted by its process job, answered when accepted, and delivered
\* when answered.
ProcessBeforeDelivery ==
  /\ \A m \in Promise!Elements(accepted) : Begun(Process(m))
  /\ \A m \in Promise!Elements(answered) : m \in Promise!Elements(accepted)
  /\ handing # NoMessage => handing \in Promise!Elements(answered)
  /\ \A m \in Messages :
       Delivery(m) \in entered => m \in Promise!Elements(answered)

\* A final reaction is sent when the process job of the message has ended.
FinalAfterProcess ==
  \A c \in Chats : \A i \in DOMAIN log[c] :
    log[c][i].what = "final" => Process(log[c][i].message) \in finished

\* Only process jobs are routed and send acks.
StepsMatch ==
  \A c \in Chats :
    step[c] \in {"route", "ack"} => running[c].kind = "process"

Consistent ==
  /\ JobsInOnePlace
  /\ StepsMatch
  /\ ProcessBeforeDelivery
  /\ FinalAfterProcess
  /\ HourglassNeverLast

-----------------------------------------------------------------------------

\* Elements are in the order in which they came.
Before(m, n) ==
  \E k, l \in DOMAIN arrived : k < l /\ arrived[k] = m /\ arrived[l] = n

\* "So it stays in order" (deliverRecord): in a chat, the final reactions come in
\* the order in which the messages came, through both queues.
FinalsInOrder ==
  \A c \in Chats : \A i, j \in DOMAIN log[c] :
    /\ i < j
    /\ log[c][i].what = "final" /\ log[c][j].what = "final"
    => Before(log[c][i].message, log[c][j].message)

(* The inductive invariant behind FinalsInOrder.                            *)

\* Job y of a chat comes after job x: x waits before y, or began while y waits, or
\* ended while y runs.
Ahead(x, y) ==
  LET c == ChatOfJob[y]
  IN
  /\ ChatOfJob[x] = c
  /\ \/ \E i, k \in DOMAIN lane[c] : i < k /\ lane[c][i] = x /\ lane[c][k] = y
     \/ Begun(x) /\ \E k \in DOMAIN lane[c] : lane[c][k] = y
     \/ x \in finished /\ running[c] = y

\* The jobs of one kind stand in their lane in the order of their messages.
LanesInOrder ==
  \A x, y \in Jobs : x.kind = y.kind /\ Ahead(x, y) => Before(x.message, y.message)

\* The messages that arrived are those with a process job, each once.
ArrivedOnce ==
  /\ \A m \in Messages : Process(m) \in entered <=> m \in Promise!Elements(arrived)
  /\ \A i, k \in DOMAIN arrived : arrived[i] = arrived[k] => i = k

\* The messages of a chat are accepted in their order.
AcceptedInOrder ==
  \A m, n \in Messages :
    /\ ChatOf[m] = ChatOf[n]
    /\ \E i, k \in DOMAIN accepted : i < k /\ accepted[i] = m /\ accepted[k] = n
    => Before(m, n)

\* What is delivered next comes after all the deliveries of its chat.
HandedInOrder ==
  handing # NoMessage =>
    \A m \in Messages :
      Delivery(m) \in entered /\ ChatOf[m] = ChatOf[handing] => Before(m, handing)

\* A final reaction is sent once, by the delivery, to the chat of the message.
FinalSent(c, m) ==
  \E i \in DOMAIN log[c] : log[c][i].what = "final" /\ log[c][i].message = m
FinalsSent ==
  \A c \in Chats, m \in Messages :
    FinalSent(c, m) =>
      /\ ChatOf[m] = c
      /\ Begun(Delivery(m))
      /\ running[c] = Delivery(m) => step[c] \in {"reply", "done"}

InOrder ==
  /\ LanesInOrder
  /\ ArrivedOnce
  /\ AcceptedInOrder
  /\ HandedInOrder
  /\ FinalsSent
  /\ FinalsInOrder

-----------------------------------------------------------------------------

\* An answer the batcher hands over is delivered by a job of the chat, whatever panics,
\* unless a job hangs or the process is told to end (deliverRecord, chatQueue.runJob).
AnswersAreDelivered ==
  \A m \in Messages :
    handing = m ~> Delivery(m) \in finished \/ ctx = "cancelled"
=============================================================================
