--------------------------- MODULE RecordBatcher ---------------------------
(***************************************************************************)
(* The record batcher (internal/infra/service/record_batcher.go), its      *)
(* global line queue (record_queue.go) and the batch usecase it calls      *)
(* (internal/usecase/transaction/record_batch.go).                         *)
(*                                                                         *)
(* Many goroutines, one per chat, call Enqueue; one goroutine runs Run: on *)
(* every tick it takes the oldest lines, sends them to the parser in one   *)
(* call, saves what the parser understood, and hands every message whose   *)
(* last line is done to the delivery adapter.  When the parser is rate     *)
(* limited or unavailable the batch goes back to the front of the queue.   *)
(*                                                                         *)
(* What a line says, which group it belongs to and what a failure says are *)
(* abstracted: a line is a position of a message, and the parser and the   *)
(* database answer as they like.                                           *)
(***************************************************************************)
EXTENDS Naturals, Sequences, FiniteSets

CONSTANTS Messages,      \* the record messages users send
          Users,         \* the users who send them
          UserOf,        \* UserOf[m]: the sender of m
          LineCount,     \* LineCount[m]: the non-blank lines of m
          MaxBatchSize,  \* config.MaxBatchSize
          CanPanic       \* whether a flush may panic

ASSUME UsersAssumption == UserOf \in [Messages -> Users]
ASSUME LinesAssumption == LineCount \in [Messages -> Nat]
ASSUME BatchAssumption == MaxBatchSize \in Nat \ {0}
ASSUME PanicAssumption == CanPanic \in BOOLEAN

VARIABLES
  queue,        \* recordQueue.items, the global FIFO of lines
  ackedUsers,   \* recordQueue.ackedUsers
  remaining,    \* recordEntry.remaining, of every message
  results,      \* recordEntry.results, of every line
  nextFlushAt,  \* 0 ("unset"), due within ackSkipWindow ("near") or later ("far")
  ctx,          \* the context of Run: "live" or "cancelled"
  caller,       \* where the goroutine that enqueues each message stands
  pushed,       \* the pushResult that goroutine holds until Enqueue returns
  ack,          \* whether the message got the canned ack
  pc,           \* where the goroutine of Run stands
  batch,        \* flush's batch
  pos,          \* the position of the loop over batch
  outcome,      \* the RecordBatchResult of every line
  rows,         \* how many transactions were created for every line
  delivered,    \* the messages handed to deliver, in order
  accepted      \* history: the messages push queued, in order

queueVars  == <<queue, ackedUsers>>
entryVars  == <<remaining, results>>
timeVars   == <<nextFlushAt, ctx>>
callerVars == <<caller, pushed, ack>>
loopVars   == <<pc, batch, pos>>
storeVars  == <<outcome, rows>>
vars == <<queueVars, entryVars, timeVars, callerVars, loopVars, storeVars,
          delivered, accepted>>

LineNumbers == UNION {1..LineCount[m] : m \in Messages}

\* A recordItem: one line of a message, the unit sent to the parser.
Items == {it \in [entry : Messages, line : LineNumbers] :
            it.line <= LineCount[it.entry]}

Outcomes == {"none", "saved", "failed"}

Elements(s) == {s[i] : i \in DOMAIN s}

Smaller(a, b) == IF a < b THEN a ELSE b

NotPushed == [isFirstAck |-> FALSE, queueLen |-> 0]

Init ==
  /\ queue = <<>>
  /\ ackedUsers = {}
  /\ remaining = [m \in Messages |-> 0]
  /\ results = [it \in Items |-> "none"]
  /\ nextFlushAt = "unset"
  /\ ctx = "live"
  /\ caller = [m \in Messages |-> "new"]
  /\ pushed = [m \in Messages |-> NotPushed]
  /\ ack = [m \in Messages |-> FALSE]
  /\ pc = "start"
  /\ batch = <<>>
  /\ pos = 1
  /\ outcome = [it \in Items |-> "none"]
  /\ rows = [it \in Items |-> 0]
  /\ delivered = <<>>
  /\ accepted = <<>>

-----------------------------------------------------------------------------
(* Enqueue, called by the goroutine of the message's chat.                 *)

LinesOf(m) == [l \in 1..LineCount[m] |-> [entry |-> m, line |-> l]]

\* push finds no non-blank line: nothing is queued.
PushBlank(m) ==
  /\ caller[m] = "new"
  /\ LineCount[m] = 0
  /\ caller' = [caller EXCEPT ![m] = "ignored"]
  /\ UNCHANGED <<queueVars, entryVars, timeVars, pushed, ack, loopVars,
                 storeVars, delivered, accepted>>

\* Broken variant: the entry is queued with remaining still 0.
PushUncounted(m) ==
  /\ caller[m] = "new"
  /\ LineCount[m] > 0
  /\ queue' = queue \o LinesOf(m)
  /\ ackedUsers' = ackedUsers \cup {UserOf[m]}
  /\ pushed' = [pushed EXCEPT ![m] =
                  [isFirstAck |-> UserOf[m] \notin ackedUsers,
                   queueLen   |-> Len(queue) + LineCount[m]]]
  /\ caller' = [caller EXCEPT ![m] = "pushed"]
  /\ accepted' = Append(accepted, m)
  /\ UNCHANGED <<entryVars, timeVars, ack, loopVars, storeVars, delivered>>

\* Broken variant: the user is not marked as acked.
PushUnmarked(m) ==
  /\ caller[m] = "new"
  /\ LineCount[m] > 0
  /\ queue' = queue \o LinesOf(m)
  /\ remaining' = [remaining EXCEPT ![m] = LineCount[m]]
  /\ pushed' = [pushed EXCEPT ![m] =
                  [isFirstAck |-> UserOf[m] \notin ackedUsers,
                   queueLen   |-> Len(queue) + LineCount[m]]]
  /\ caller' = [caller EXCEPT ![m] = "pushed"]
  /\ accepted' = Append(accepted, m)
  /\ UNCHANGED <<ackedUsers, results, timeVars, ack, loopVars, storeVars,
                 delivered>>

\* push appends the lines, under recordQueue.mu, and marks the user as acked.
Push(m) ==
  /\ caller[m] = "new"
  /\ LineCount[m] > 0
  /\ queue' = queue \o LinesOf(m)
  /\ remaining' = [remaining EXCEPT ![m] = LineCount[m]]
  /\ ackedUsers' = ackedUsers \cup {UserOf[m]}
  /\ pushed' = [pushed EXCEPT ![m] =
                  [isFirstAck |-> UserOf[m] \notin ackedUsers,
                   queueLen   |-> Len(queue) + LineCount[m]]]
  /\ caller' = [caller EXCEPT ![m] = "pushed"]
  /\ accepted' = Append(accepted, m)
  /\ UNCHANGED <<results, timeVars, ack, loopVars, storeVars, delivered>>

\* The next tick is within ackSkipWindow and the line at queueLen fits in it.
IsResultImminent(queueLen) ==
  /\ nextFlushAt = "near"
  /\ queueLen <= MaxBatchSize

\* Whether Enqueue, holding pushed, skips the ack because the result is imminent.
SkipsAck(m) == pushed[m].isFirstAck /\ IsResultImminent(pushed[m].queueLen)

\* Enqueue reads nextFlushAt, after the lock of push was released.
DecideAck(m) ==
  /\ caller[m] = "pushed"
  /\ ack' = [ack EXCEPT ![m] = pushed[m].isFirstAck /\ ~SkipsAck(m)]
  /\ caller' = [caller EXCEPT ![m] = "returned"]
  /\ pushed' = [pushed EXCEPT ![m] = NotPushed]
  /\ UNCHANGED <<queueVars, entryVars, timeVars, loopVars, storeVars,
                 delivered, accepted>>

-----------------------------------------------------------------------------
(* Time and the end of the process.                                        *)

\* The next tick comes within ackSkipWindow.
TimePasses ==
  /\ nextFlushAt = "far"
  /\ nextFlushAt' = "near"
  /\ UNCHANGED <<queueVars, entryVars, ctx, callerVars, loopVars,
                 storeVars, delivered, accepted>>

\* main cancels the context when the process is told to end.
Cancel ==
  /\ ctx = "live"
  /\ ctx' = "cancelled"
  /\ UNCHANGED <<queueVars, entryVars, nextFlushAt, callerVars, loopVars,
                 storeVars, delivered, accepted>>

-----------------------------------------------------------------------------
(* Run: the ticker is made, then select chooses between ctx.Done and a tick. *)

Start ==
  /\ pc = "start"
  /\ pc' = "wait"
  /\ nextFlushAt' = "far"
  /\ UNCHANGED <<queueVars, entryVars, ctx, callerVars, batch, pos,
                 storeVars, delivered, accepted>>

\* A tick is in the ticker's channel.  Ticks keep their own period: one that was
\* handled late is followed by the next sooner than nextFlushAt says.
OnTick ==
  /\ pc = "wait"
  /\ nextFlushAt' = "far"
  /\ pc' = "take"
  /\ UNCHANGED <<queueVars, entryVars, ctx, callerVars, batch, pos, storeVars,
                 delivered, accepted>>

\* What is still queued is logged, and lost with the process.
Stop ==
  /\ pc = "wait"
  /\ ctx = "cancelled"
  /\ pc' = "stopped"
  /\ UNCHANGED <<queueVars, entryVars, timeVars, callerVars, batch, pos,
                 storeVars, delivered, accepted>>

-----------------------------------------------------------------------------
(* flush.                                                                  *)

\* Broken variant: take waits for a line.
TakeBlocks ==
  LET n == Smaller(MaxBatchSize, Len(queue))
  IN
  /\ pc = "take"
  /\ n > 0
  /\ ackedUsers' = {}
  /\ batch' = SubSeq(queue, 1, n)
  /\ queue' = SubSeq(queue, n + 1, Len(queue))
  /\ pos' = 1
  /\ pc' = "parse"
  /\ UNCHANGED <<entryVars, timeVars, callerVars, storeVars, delivered, accepted>>

\* take opens a new ack window and removes the oldest lines.
Take ==
  LET n == Smaller(MaxBatchSize, Len(queue))
  IN
  /\ pc = "take"
  /\ ackedUsers' = {}
  /\ batch' = SubSeq(queue, 1, n)
  /\ queue' = SubSeq(queue, n + 1, Len(queue))
  /\ pos' = 1
  /\ pc' = IF n = 0 THEN "wait" ELSE "parse"
  /\ UNCHANGED <<entryVars, timeVars, callerVars, storeVars, delivered, accepted>>

\* The flush is over; the next one waits for its tick.
EndFlush ==
  /\ pc' = "wait"
  /\ batch' = <<>>
  /\ pos' = 1

\* Broken variant: the batch goes to the back of the queue.
DeferAtBack ==
  /\ pc = "parse"
  /\ queue' = queue \o batch
  /\ EndFlush
  /\ UNCHANGED <<ackedUsers, entryVars, timeVars, callerVars, storeVars,
                 delivered, accepted>>

\* Broken variant: the batch is not put back.
DeferDrops ==
  /\ pc = "parse"
  /\ queue' = queue
  /\ EndFlush
  /\ UNCHANGED <<ackedUsers, entryVars, timeVars, callerVars, storeVars,
                 delivered, accepted>>

\* Broken variant: a retryable error also ends a batch that is being saved.
DeferMidway ==
  /\ pc \in {"parse", "save"}
  /\ queue' = batch \o queue
  /\ EndFlush
  /\ UNCHANGED <<ackedUsers, entryVars, timeVars, callerVars, storeVars,
                 delivered, accepted>>

\* Broken variant: flush does not return after requeue.
DeferGoesOn ==
  /\ pc = "parse"
  /\ queue' = batch \o queue
  /\ pc' = "assign"
  /\ pos' = 1
  /\ UNCHANGED <<ackedUsers, entryVars, timeVars, callerVars, batch, storeVars,
                 delivered, accepted>>

\* ErrTooManyRequests or ErrServiceUnavailable: requeue puts the batch back at
\* the front, ahead of what arrived meanwhile.
Defer ==
  /\ pc = "parse"
  /\ queue' = batch \o queue
  /\ EndFlush
  /\ UNCHANGED <<ackedUsers, entryVars, timeVars, callerVars, storeVars,
                 delivered, accepted>>

\* Any other error: every line of the batch failed.
FailBatch ==
  /\ pc = "parse"
  /\ outcome' = [it \in Items |-> IF it \in Elements(batch) THEN "failed"
                                                            ELSE outcome[it]]
  /\ pc' = "assign"
  /\ pos' = 1
  /\ UNCHANGED <<queueVars, entryVars, timeVars, callerVars, batch, rows,
                 delivered, accepted>>

\* The parser answered; mapParsedByIndex pairs its messages with the lines.
ParseOk ==
  /\ pc = "parse"
  /\ pc' = "save"
  /\ pos' = 1
  /\ UNCHANGED <<queueVars, entryVars, timeVars, callerVars, batch, storeVars,
                 delivered, accepted>>

\* The loop goes on to the next line, or to what follows it.
Advance(after) ==
  IF pos < Len(batch) THEN pos' = pos + 1 /\ pc' = pc
                      ELSE pos' = 1 /\ pc' = after

\* recordItem: the line is created as a transaction, or fails on its own (no
\* parse result, not a transaction, out of range, in the future, or Create).
RecordItem ==
  LET it == batch[pos]
  IN
  /\ pc = "save"
  /\ \/ /\ rows' = [rows EXCEPT ![it] = @ + 1]
        /\ outcome' = [outcome EXCEPT ![it] = "saved"]
     \/ /\ outcome' = [outcome EXCEPT ![it] = "failed"]
        /\ UNCHANGED rows
  /\ Advance("assign")
  /\ UNCHANGED <<queueVars, entryVars, timeVars, callerVars, batch, delivered,
                 accepted>>

\* Broken variant: every line gets the result of the first of the batch.
StoreResultOfFirst(it) ==
  /\ results' = [results EXCEPT ![it] = outcome[batch[1]]]
  /\ remaining' = [remaining EXCEPT ![it.entry] = @ - 1]

\* The line's result goes to its entry, which has one line less to wait for.
StoreResult(it) ==
  /\ results' = [results EXCEPT ![it] = outcome[it]]
  /\ remaining' = [remaining EXCEPT ![it.entry] = @ - 1]

\* Broken variant: the last entry of a batch is delivered although lines of it still wait.
AssignDeliversEarly ==
  LET it == batch[pos]
  IN
  /\ pc = "assign"
  /\ StoreResult(it)
  /\ delivered' = IF remaining[it.entry] = 1 \/ pos = Len(batch)
                    THEN Append(delivered, it.entry) ELSE delivered
  /\ IF pos < Len(batch) THEN pos' = pos + 1 /\ UNCHANGED <<pc, batch>>
                         ELSE EndFlush
  /\ UNCHANGED <<queueVars, timeVars, callerVars, storeVars, accepted>>

\* Broken variant: only the last entry of a batch is delivered.
AssignDeliversLast ==
  LET it == batch[pos]
  IN
  /\ pc = "assign"
  /\ StoreResult(it)
  /\ delivered' = IF remaining[it.entry] = 1 /\ pos = Len(batch)
                    THEN Append(delivered, it.entry) ELSE delivered
  /\ IF pos < Len(batch) THEN pos' = pos + 1 /\ UNCHANGED <<pc, batch>>
                         ELSE EndFlush
  /\ UNCHANGED <<queueVars, timeVars, callerVars, storeVars, accepted>>

\* The entry is delivered when it waits for no line any more.
Assign ==
  LET it == batch[pos]
  IN
  /\ pc = "assign"
  /\ StoreResult(it)
  /\ delivered' = IF remaining[it.entry] = 1 THEN Append(delivered, it.entry)
                                             ELSE delivered
  /\ IF pos < Len(batch) THEN pos' = pos + 1 /\ UNCHANGED <<pc, batch>>
                         ELSE EndFlush
  /\ UNCHANGED <<queueVars, timeVars, callerVars, storeVars, accepted>>

\* safeFlush recovers from a panic, before or while a line is handled, and
\* forgets the rest of the batch.
Panic ==
  /\ CanPanic
  /\ \/ pc \in {"parse", "save", "assign"} /\ UNCHANGED entryVars
     \/ pc = "assign" /\ StoreResult(batch[pos])
  /\ EndFlush
  /\ UNCHANGED <<queueVars, timeVars, callerVars, storeVars, delivered, accepted>>

\* What happens while nothing panics.
Steps ==
  \/ \E m \in Messages : PushBlank(m) \/ Push(m) \/ DecideAck(m)
  \/ TimePasses \/ Cancel
  \/ Start \/ OnTick \/ Stop
  \/ Take \/ Defer \/ FailBatch \/ ParseOk \/ RecordItem \/ Assign

Next == Steps \/ Panic

Spec == Init /\ [][Next]_vars

(* Every goroutine that can go on does.  The parser's call returns, and not   *)
(* with a retryable error for ever; select picks at random, so a cancelled    *)
(* context is not passed over for ever in favour of ticks.                    *)
Fairness ==
  /\ \A m \in Messages : WF_vars(DecideAck(m))
  /\ WF_vars(Start) /\ WF_vars(OnTick) /\ WF_vars(Take)
  /\ WF_vars(RecordItem) /\ WF_vars(Assign)
  /\ SF_vars(FailBatch \/ ParseOk)
  /\ SF_vars(Stop)

FairSpec == Spec /\ Fairness

-----------------------------------------------------------------------------

TypeOK ==
  /\ queue \in Seq(Items)
  /\ ackedUsers \in SUBSET Users
  /\ remaining \in [Messages -> Nat]
  /\ results \in [Items -> Outcomes]
  /\ nextFlushAt \in {"unset", "far", "near"}
  /\ ctx \in {"live", "cancelled"}
  /\ caller \in [Messages -> {"new", "pushed", "returned", "ignored"}]
  /\ pushed \in [Messages -> [isFirstAck : BOOLEAN, queueLen : Nat]]
  /\ ack \in [Messages -> BOOLEAN]
  /\ pc \in {"start", "wait", "take", "parse", "save", "assign", "stopped"}
  /\ batch \in Seq(Items)
  /\ pos \in Nat \ {0}
  /\ (pc \in {"parse", "save", "assign"}) = (batch # <<>>)
  /\ batch # <<>> => pos <= Len(batch)
  /\ outcome \in [Items -> Outcomes]
  /\ rows \in [Items -> Nat]
  /\ delivered \in Seq(Messages)
  /\ accepted \in Seq(Messages)

\* The lines a flush still has to send or to handle, oldest first.
Waiting == batch \o queue

\* A line is at one place at a time: however batches are deferred and messages
\* arrive meanwhile, take, requeue and push never leave it twice in the batch
\* and the queue, and a line with an outcome is never queued again.
NoLineTwice ==
  /\ \A i, j \in DOMAIN Waiting : Waiting[i] = Waiting[j] => i = j
  /\ \A i \in DOMAIN queue : outcome[queue[i]] = "none"

\* Unless a flush panics, a line that was accepted and has no result yet is in
\* the batch or in the queue: a deferred batch is not forgotten.
NoLineLost ==
  ~CanPanic =>
    \A it \in Items :
      it.entry \in Elements(accepted) /\ results[it] = "none"
        => it \in Elements(Waiting)

\* However often its batch is sent to the parser again, a line is created as a
\* transaction at most once, and a line that will be sent again not at all.
SavedOnce ==
  /\ \A it \in Items : rows[it] <= 1
  /\ \A i \in DOMAIN queue : rows[queue[i]] = 0

\* A message is handed over when all its lines have a result, and the answer
\* tells the truth about each: saved if its transaction exists, else failed.
AnswersTrue ==
  \A m \in Elements(delivered) : \A it \in Items :
    it.entry = m => results[it] = IF rows[it] = 1 THEN "saved" ELSE "failed"

\* m was accepted before n.
AcceptedBefore(m, n) ==
  \E k, l \in DOMAIN accepted : k < l /\ accepted[k] = m /\ accepted[l] = n

\* Messages are handed over once each, in the order they were accepted, also
\* when their lines are spread over batches; without a panic none is passed over.
AnswersInOrder ==
  /\ \A i, j \in DOMAIN delivered :
       i < j => AcceptedBefore(delivered[i], delivered[j])
  /\ ~CanPanic => delivered = SubSeq(accepted, 1, Len(delivered))

-----------------------------------------------------------------------------
(* The inductive invariants.  Behind NoLineTwice, SavedOnce and AnswersTrue: *)

Queued(m) == caller[m] \in {"pushed", "returned"}

\* Lines wait only after push, and a line has an outcome only after it waited.
WaitingWasQueued ==
  /\ \A i \in DOMAIN Waiting : Queued(Waiting[i].entry)
  /\ \A it \in Items : ~Queued(it.entry) => outcome[it] = "none"

\* The loops of Execute and of flush have handled the lines before pos.
BatchProgress ==
  \A i \in DOMAIN batch :
    /\ outcome[batch[i]] = "none" <=> pc = "parse" \/ (pc = "save" /\ i >= pos)
    /\ results[batch[i]] = "none" <=> pc # "assign" \/ i >= pos

\* A transaction exists exactly for a saved line; a result repeats the outcome.
StoresAgree ==
  \A it \in Items :
    /\ rows[it] = IF outcome[it] = "saved" THEN 1 ELSE 0
    /\ results[it] \in {"none", outcome[it]}

\* The lines of m without a result.
Open(m) == {it \in Items : it.entry = m /\ results[it] = "none"}

\* remaining counts them, and there are none left when m is handed over.
RemainingCounts ==
  /\ \A m \in Messages : Queued(m) => remaining[m] = Cardinality(Open(m))
  /\ \A m \in Elements(delivered) : Open(m) = {}

\* However flushes, deferrals, panics and arrivals interleave, the queue, the
\* batch, the entries and the saved transactions agree on the fate of each line.
Consistent ==
  NoLineTwice /\ WaitingWasQueued /\ BatchProgress /\ StoresAgree /\ RemainingCounts

(* Behind NoLineLost, AnswersInOrder and ImplementsPromise, with Consistent. *)

\* What was queued was accepted, once, and only that is handed over.
AcceptedOnce ==
  /\ \A i, j \in DOMAIN accepted : accepted[i] = accepted[j] => i = j
  /\ \A m \in Messages : Queued(m) <=> m \in Elements(accepted)
  /\ \A m \in Elements(delivered) : Queued(m)

\* The lines that wait are in the order of their messages, and what was handed
\* over is before every message that still has an open line among them.
WaitingInOrder ==
  /\ \A i, j \in DOMAIN Waiting : i < j =>
       \/ Waiting[i].entry = Waiting[j].entry
       \/ AcceptedBefore(Waiting[i].entry, Waiting[j].entry)
  /\ \A m \in Elements(delivered), j \in DOMAIN Waiting :
       results[Waiting[j]] = "none" => AcceptedBefore(m, Waiting[j].entry)

\* Without a panic, a message whose lines all have a result was handed over.
AnsweredWhenDone ==
  ~CanPanic =>
    \A m \in Messages : Queued(m) /\ Open(m) = {} => m \in Elements(delivered)

\* However batches are deferred while messages arrive, what waits and what was
\* answered stay in the order of acceptance, and nothing is between the two.
Ordered ==
  AcceptedOnce /\ WaitingInOrder /\ AnsweredWhenDone /\ NoLineLost /\ AnswersInOrder

-----------------------------------------------------------------------------

\* The batcher implements the promise to the sender.
Promise == INSTANCE RecordPromise WITH answered <- delivered
ImplementsPromise == Promise!PromiseSpec

\* An accepted message is handed over at last, if the process is not stopped.
EveryMessageAnswered ==
  \A m \in Messages :
    caller[m] = "pushed" ~> m \in Elements(delivered) \/ ctx = "cancelled"

\* Run returns once its context is cancelled, so Disconnect does not wait for ever.
StopsWhenCancelled == ctx = "cancelled" ~> pc = "stopped"
=============================================================================
