# WhatsUp Bot in TLA+

WhatsUp Bot is a WhatsApp finance tracker written in Go. A user writes "buy coffee 5K"; the bot parses the
message with Gemini, saves a transaction in SQLite and answers with a confirmation that can be replied to.
This directory holds TLA+ specifications of the bot's own logic, configurations that check them with TLC on
small instances, and proofs that TLAPS checks for every value of the constants.

Paths below are relative to `src/internal/` unless they start with `src/`.

## 1. Inventory

### How a message travels

    whatsmeow event ── Handler.handleEvent ── chatQueue.enqueue ──> worker of the chat
                                                                     │ Handler.process
                                                                     │   Chatbot.ProcessIncomingMessage
                                   recordQueue.push <────────────────┤   (records only)
                                        │                            │ sendReplies: ⏳ and perhaps an ack
                          ticker ── RecordBatcher.flush              
                                        │ RecordBatch.Execute: one parser call, Create for each line
                                        └─ deliver ── Handler.deliverRecord ── chatQueue.enqueue
                                                                     └─> worker: sendReplies: ✅/⚠️, one
                                                                         confirmation a line, SetMessage

The goroutines are: those of the WhatsApp client that call `handleEvent`, one worker for each chat that is
active, the one goroutine of `RecordBatcher.Run`, and `main`. The MCP server is another process on the same
database.

### Components

| Component | State | Operations | What is hard | What makes it correct |
|---|---|---|---|---|
| Record batcher (`infra/service/record_batcher.go`) | `nextFlushAt`, entries with `remaining` and `results` | `Enqueue`, `Run`, `flush`, `safeFlush` | messages arrive during a flush; a batch is deferred; a message spans batches; panics; shutdown | each message answered once, after its last line, truthfully, in order |
| Record queue (`infra/service/record_queue.go`) | `items`, `ackedUsers` under a mutex | `push`, `take`, `requeue` | `requeue` against concurrent `push`; the ack window | no line lost or twice; one ack in a window |
| Batch usecase (`usecase/transaction/record_batch.go`) | none | `Execute`, `selectQuipPositions`, `mapParsedByIndex`, `recordItem` | the parser answers with missing, double or unknown numbers; one line fails | a line gets what was meant for it alone; a retryable error only before anything was saved |
| Chat queue (`infra/delivery/whatsapp/queue.go`) | `workers` under `mu`, a channel for each worker | `enqueue`, `run`, `runJob` | a worker leaves while a job comes; a full channel; a job that hangs or panics | one worker a chat, order, no job lost, chats independent |
| WhatsApp handler (`infra/delivery/whatsapp/handler.go`) | `batcherWG` | `handleEvent`, `process`, `deliverRecord`, `sendReplies`, `send`, `react` | two jobs of one message; sends that fail; shutdown | the final reaction is the last one; a card sent is a card that can be amended |
| Chatbot service (`infra/service/chatbot.go`, `usecase/prediction`) | none | `ProcessIncomingMessage` and one method an action | what a reply means is read from the words of the message replied to; order of validations; uncoded errors | a reply means what its card or page says; errors change nothing |
| Amend (`usecase/transaction/amend.go`) and confirmations | rows of `transactions`, `message_id` | `Execute`, `SetMessage` | read, wait for the parser, write back; cards that are superseded; crashes | no update is lost; a reply hits what it shows; the newest card works |
| Reports (`usecase/report`) | none: a page is read back from the text of its foot | detail, summary, `getNewOffset` | page numbers at the boundary; a table that changes between two pages | every transaction shown once; labels true; sums add up |
| Gemini client (`infra/external/gemini/parse.go`) | none | `generate` and four parsers | three attempts, pauses, a context that ends | the error class tells whether to retry; each call ends |
| Users (`usecase/user`) | `users` | register, validate | each message looks the user up anew | registration before anything else |
| Groups and split (`usecase/group`, `usecase/transaction/split.go`) | `groups`, `group_members` | validate, split | never reached, see "Not modelled" | |
| MCP (`usecase/integration`, `infra/delivery/mcp`, `usecase/report/get_transaction_list.go`) | `mcp_tokens` | issue, authenticate, list | a token is replaced while it is used; pages over a table that changes; another process | a replaced token gets nothing; a client gets its user's list, each row once |
| Persona picker (`usecase/persona/picker.go`) | `last` under a mutex | `Pick`, `PickAck`, `PickDeleted` | chats in parallel | style only |
| Rendering, storage, configuration, wiring | tables | | no control of their own | |

`PROJECT.json` lists the components with their state of modelling, and every hazard of the code at its line
with the properties that cover it or the reason why none does.

## 2. Modules

| Module | What it is |
|---|---|
| `RecordPromise` | abstract: what the sender of a record message is promised: accepted once, each line settled once, answered once after its last line, in the order of acceptance |
| `RecordBatcher` | the batcher, its queue and the loop of the batch usecase, in the steps of the goroutines |
| `RecordAcks` | `RecordBatcher` with history variables for what users were told in an ack window |
| `RecordBatcherProofs` | theorems about `RecordBatcher`: where each line is, and what is stored of it |
| `RecordOrderProofs` | theorems about `RecordBatcher`: the order of its messages, and that it implements `RecordPromise` |
| `RecordAcksProofs` | theorems about `RecordAcks` |
| `ChatLanes` | abstract: one lane of jobs for each chat, independent of the others |
| `ChatQueue` | the chat queue: mutex, workers that come and go, bounded channels |
| `ChatQueueProofs` | theorems about `ChatQueue`, and that it implements `ChatLanes` |
| `RecordFlow` | a message on its way through both queues, each taken as what it promises (`ChatLanes`, `RecordPromise`), and what its chat is sent |
| `RecordFlowProofs` | theorems about `RecordFlow`: which job comes first, and the order of the answers |
| `Ledger` | transactions, their cards and message ids, amends, with sends and stores that fail and a process that ends |
| `LedgerProofs` | theorems about `Ledger` |
| `TransactionList` | the table as its readers query it: periods, order, LIMIT and OFFSET, a total with each row |
| `Reports` | detail pages and summaries in the chats, over `TransactionList` |
| `McpServer` | tokens, requests and pages of the MCP server, over `TransactionList` |
| `Readers` | `Reports` and `McpServer` together over one table that the bot writes |
| `ReadersProofs` | theorems about `Readers`: tokens, lists, pages and their numbers, and sums |
| `Gemini` | the call of the parser: attempts, pauses, classes of error, the context |
| `RecordBatch` | one batch in detail, over `Gemini` |
| `Chatbot` | what becomes of each message: routing, registration, actions and their errors, over `Gemini` |
| `Requests` | `RecordBatch` and `Chatbot` together over one parser |
| `RequestsProofs` | theorems about `Requests`: registration, errors, quips, the lines of a batch, and the way of a reply |
| `MCRecordBatcher`, `MCRecordAcks`, `MCChatQueue`, `MCRecordFlow`, `MCLedger`, `MCReaders`, `MCRequests` | instances for TLC |

How they fit: `RecordFlow` composes the two queues through their abstract specifications. `RecordBatcher` lets the
parser and the database decide as they like; `RecordBatch` says how one batch decides. `ChatLanes` gives each
user's jobs an order, which `Ledger` and `Chatbot` build on: one job for each chat at a time. `Ledger` says how rows
change, `TransactionList` how they are read while they change in any way.

Definitions whose comment begins with "Broken variant" are plausible mistakes in the operation they stand
before; no specification uses them. Each one replaces its operation in an experiment (`mutants` of
`PROJECT.json`) in which TLC must find the named property violated.

### RecordBatcher and the code

* `queue`, `ackedUsers`: the fields of `recordQueue`. An item is `[entry |-> m, line |-> l]`. `remaining` and
  `results`: the fields of `recordEntry`. `rows` counts the transactions `Create` made for a line, `outcome` is
  the `RecordBatchResult` of a line. `accepted` is history.
* What runs under the mutex of the queue is one action: `Push`, `Take`, `Defer` (`requeue`). Everything else is
  interleaved: `Enqueue` decides about the ack (`DecideAck`) after the lock was released, with the values
  `push` returned; the call of the parser is the time between `Take` and `Defer`, `FailBatch` or `ParseOk`; one
  step saves one line (`RecordItem`) or assigns one result (`Assign`).
* A message is a model value with a sender and a number of non-blank lines, 0 for a blank message. Texts,
  groups, quips and error messages are left out: no property of this module tells them apart. Why a line fails is a
  choice of `RecordItem`. A failed `Create` leaves no row: it is one INSERT.
* Time: `nextFlushAt` is unset, `"far"` or `"near"` (within `ackSkipWindow`). A tick may come whenever `Run`
  waits: a tick that was handled late is followed by the next sooner than `nextFlushAt` says.
* `Panic` ends a flush at any step between the parser call and the last result (`safeFlush`), with or without
  the result of the current line assigned. `CanPanic` switches it off for what only holds
  without; `Steps` is `Next` without it.
* `select` between a tick and `ctx.Done` is a choice, so a cancelled batcher may flush again before it stops.

### ChatQueue and the code

* `mu` names the job whose `enqueue` holds the mutex; `workers` is the map; `jobs[w]` is the channel of the worker
  `w`, bounded by `Capacity` (`chatQueueBuffer`). Worker identities are reused after `Exit`.
* `enqueue` is `Call`, `FindWorker` or `StartWorker` (the mutex is acquired) and `Send` (room in the channel; the
  mutex is released). A full channel disables `Send`: the caller is blocked with the mutex held.
* `run` is `Receive`, `Finish` (return or recovered panic, then the timer is reset), `TimerFires`, and `Exit` or
  `Stay`, which happen under the mutex. The timer may fire whenever the worker is in its `select`. Since Go 1.23
  `Stop` and `Reset` leave no old value in the timer's channel, so it does not fire for a period that ended.
* Each job is enqueued by a goroutine of its own: more concurrency than the client and the batcher have, so what
  holds here holds for them. `Hanging` are jobs that need not return.

### RecordFlow and the code

* The two queues are instances of their abstract specifications, which their detailed modules implement: `lane`,
  `running`, `entered`, `finished` of `ChatLanes`, and `accepted`, `outcome`, `answered` of `RecordPromise`. What is
  added is `handing` (the batcher is inside `deliver`), `step` (where the worker of a chat stands in its
  job), `log` (what a chat was sent, in order), `ctx` and the history `arrived`.
* A message has two jobs. The one of `handleEvent` runs `process`: it is routed (`QueueRecord`, or `ReplyAtOnce` for
  whatever is answered at once), then `sendReplies` sends the hourglass and perhaps an ack, or the reply. The one of
  `deliverRecord` sends the final reaction (`React`) and the confirmations (`SendReply`, one step for all of them).
* Between queueing a record and sending its hourglass the worker may pause for any time, so the batch may be parsed,
  answered and delivered in between. A send may fail, which is only logged; the sends of a delivery use the
  batcher's context and always fail once it is cancelled. A job may panic anywhere, and its worker goes on.
* While `deliver` runs the batcher does nothing else, so `Settle` and `Answer` wait for `handing`. Two event handlers and the
  batcher enter jobs in any order. That `deliverRecord` cannot parse a JID is left out: both were made by
  the library's own `String`.

### Ledger and the code

* `state`, `version` and `message` are the table: whether a row is there, how often its fields were written, and its
  `message_id`, which is a place in `sent`, the cards that reached a chat. Which field an amend changes is left out: a
  version stands for all fields, as `UpdateTransaction` writes all of them back.
* A worker's job is `cards` (what it has to send, or the one transaction it amends) and `phase`. `send` is two steps with
  a pause between them, `Send` or `SendFails`, then `Store` or `StoreFails` (`SetMessage`), for each card. An amend is `Reply` (look
  up, ask the parser) and, any time later, `Update`, `Delete` or `GiveUp`.
* `Crash` may come at any step; table and chats stay, jobs and the rows waiting for a confirmation are gone. `lost` is
  history: the transactions whose card such a failure took.
* A user has one chat here, because a group is always refused (below); the lane of that chat is the only place of her jobs.

### TransactionList, Reports, McpServer and the code

* `table[r]` is what row `r` holds: date, type, amount, category. `Write` stands for every statement of `Ledger` that changes
  a row, at any time between two queries, also in the other process. `Listed` and `Page` are `getListByPeriodQuery`: a
  negative OFFSET is 0, a negative LIMIT is none, and the total comes with the rows, so that a page without rows has none.
  `ByDate` is the ORDER BY, stated by rank: the k-th row is the one that k - 1 rows precede, in the order of date and id.
* `page[u]` is the message at the foot of the last page that `u` was shown: the only state of a walk, since the code reads
  period and page back from the quoted text. A reply to an older foot is left out. `NewOffset` is `getNewOffset` with the
  machine's integers, `MaxInt` standing for 2^63 - 1, and `Atoi`'s answer to numbers that are too large.
* `walk` and `calm` are history: what a user saw by "next" from the first page on, and whether the table has changed since
  then. What a reader sees of a table that changes under it is no property of this code: OFFSET promises nothing.
* The summary is a function of a list (`Info`, `TopOf`); the order in which Go walks a map is an argument, over all orders. An
  amount is a natural number, 0 when the message stated none. Sums do not wrap around in the model: the code has no upper
  bound for an amount, so a sum beyond int64 is possible in principle and left out.
* `tokens` is the table of hashes, a token being the number of its issue; `Issue` is the upsert in one statement. A request
  goes through `Call`, `Authenticate` (tokenVerifier) and `Serve`, with tokens issued in between.
* A client begins to read at any offset. `Valid` has the refusals of `GetTransactionList` (a period turned round or too long, a
  negative offset); what it refuses ends in `Fail`, whose message changes nothing. `first` is history: the offset where the
  client began, from which `PagesCoverList` counts. An offset past the end gets an empty page and no promise of more.

### Gemini, RecordBatch, Chatbot and the code

* `call[c]` is one run of `generate`: an attempt that is under way, a pause, or the end with a text or a class of error.
  `BreakOff` is the pause that ends with the context, which only the batcher's is: jobs of chats have `context.Background`.
* `RecordBatch` is `Execute` for one batch. An answer of the parser is any short sequence of numbered messages; what a message
  holds is its kind, the outcome that `constructTransaction` gives it.
* `Chatbot` has a message as its keywords and the message it replies to as kind and words. The words of cards, summaries,
  pages and of Frankie's messages are those of the templates and pools: `CardWords` and the operators after it. `INCOME` and `EXPENSE`
  are one word, as they route alike.
* The usecases behind the actions appear as what they change (`granted`) and how they may fail (`DirectErrors`, `PeriodErrors`);
  `Ledger`, `Reports` and `McpServer` have their insides.
* `validateGroup` fails for every group: `FindByJID` passes `groupColumns` to the database as its statement
  (`group/find_by_jid.go:18`; `src/README.md`, "Known issues"). `RefuseGroup` is that, and no action of a group goes further.

## 3. Runs

All runs of one module give the same names to their model values. `CHECK_DEADLOCK FALSE` stands in the
configurations whose instance ends: the messages, jobs or tokens are finitely many, and the batcher may be stopped. The
ledger never stops, as the process may always end and start again.

| Run | Instance | Checks |
|---|---|---|
| `batcher_safety` | two messages of two lines of one user, a blank one of another, batches of three lines, panics | `TypeOK`, `NoLineTwice`, `SavedOnce`, `AnswersTrue`, `AnswersInOrder`, `OneAckPerWindow`, refinement of `RecordPromise` |
| `batcher_liveness` | the same from two users, without panics, under the fairness of `FairSpec` | `NoLineLost`, `EveryMessageAnswered`, `StopsWhenCancelled` |
| `acks_imminent` | three messages of one line, two of them from one user, batches of two | violated: `ImminentIsNext` |
| `chats_safety` | five jobs in two chats, three worker identities, capacity 1 | `TypeOK`, `OneWorkerPerChat`, `HandedToLiveWorker`, refinement of `ChatLanes` |
| `chats_liveness` | two jobs in each of two chats, one of which hangs, capacity 2, under `FairSpec` | `EveryJobRuns` |
| `chats_deadlock` | three jobs in one chat, capacity 1, under `FairSpec` | violated: `EveryJobRuns` |
| `chats_parallel` | the same | violated: `OnlyFullChatBlocks` |
| `flow` | two messages of one line in a chat, beside another chat, panics, failing sends, a context that may be cancelled, under `FairSpec` | `TypeOK`, `HourglassNeverLast`, `FinalsInOrder`, `AnswersAreDelivered` |
| `ledger` | two transactions of one user and one of another, three cards, one update a row, failures and crashes | `TypeOK`, `NoLostUpdate`, `CardsTrue`, `ReplyHitsShown`, `LatestCardWorks`, `NothingForgotten` |
| `ledger_cards` | the same | violated: `CardsCanBeRepliedTo` |
| `reports` | three tables of up to five rows of two users, one write, pages of three, two tokens, one MCP client that begins at any of three offsets | `TypeOK`, `WalkShowsAll`, `LabelsTrue`, `SummaryBalances`, `RevokedGetsNothing`, `OwnRowsOnly`, `PagesCoverList` |
| `requests` | a batch of three lines of two users, answers of up to three messages numbered 0 to 4, two ticks; a user in a private chat and in a group, two messages each; three attempts; fairness | `TypeOK`, `LinesIndependent`, `RowsAsTold`, `OneQuipPerUser`, `RegisterFirst`, `ErrorChangesNothing`, `RepliesReach`, `RequestsEnd` |

### Bounds, and why they are enough to be interesting

* A batch of three lines holds the first message and half of the second, so a message is spread over two flushes, and
  each of them can be deferred, fail, or panic half-way while the other message arrives; deferring a batch is possible without
  end. Two messages of one user give an ack window with a user acked before.
* Capacity 1 makes channels full with the second job; three identities for two chats let a new worker start beside an old
  one, which `OneWorkerPerChat` must exclude.
* In `flow` two messages of one chat give four jobs in one lane, so an answer can wait behind the other message's jobs or
  before them; that messages of different chats do not disturb each other is `ChatLanes`' own form, and the proofs cover any number.
* `MaxCards = 3` lets a transaction be confirmed, listed and amended, so that its id is overwritten twice, or three transactions
  be shown once; `MaxVersion = 1` tells an old card from a new one.
* In `reports` four rows of a user and pages of three (`Limit`) give a full page and a rest; `MaxInt = 9` makes page 7
  overflow, and 10 is no number at all (`Numbers`); `MaxPlain = 3` gives page numbers with a comma. One value has amount 0. One write (`MaxWrites`) is enough to break the calm of a walk and to
  give a list another length. `Tables` has lists in and out of the order of ids, with gaps, and an empty one, which a single write
  makes a list of one.
  The client's limits 0 and 3 are replaced by the default (1) and the maximum (2). Its first offsets are -1, which is refused,
  0, and 2, which is inside the longest list and at or past the end of the others. `OneRefused` lets a request have
  one thing that is refused; `AliceFirst` fixes which of two users gets the first token.
  `OneReads` takes one reader at a time: readers share the table alone, which `Write` changes whenever another
  reader could matter, and no reader changes it.
* In `requests` numbers 0 and 4 are of no line, and three messages suffice for a line with none, one and two. The
  kinds are reduced to one good and one refused: all refusals take the same path. `OneKind` takes either the batch or the chats: the
  parser's state is one call for each caller, so they meet nowhere but in the context, which only the batcher's pauses look at.
  Two messages let a user register and go on, or two chats of one user race. `MaxAttempt = 3` is the code's own.

Every property has an experiment that breaks it (`mutants`). Larger numbers are the business of the proofs.

### What the violated properties show

* `ImminentIsNext`: `isResultImminent` says that the next tick will include the message, and so the canned ack is skipped.
  While a batch is at the parser it does not count; when it is deferred it goes back ahead of the message, which
  then misses the next batch. The user gets neither ack nor result, and is not acked again in that window.
* `EveryJobRuns` with a full channel: the worker took its timer and waits for `mu`; `enqueue` holds `mu` and waits for
  the worker to empty its channel. Both wait for ever, and so do all chats and the batcher. In the code this takes
  65 enqueues for one chat between the timer and the worker's `Lock`; nothing excludes it.
* `OnlyFullChatBlocks`: short of that deadlock, a chat with a full channel (one slow or hanging job and 64 that wait)
  keeps `mu` locked, so no message of any chat gets in, against "chats in parallel".
* `CardsCanBeRepliedTo`: each card says "Reply to this message to update or delete this transaction", but a transaction keeps the id
  of one message. Once it was listed or amended, a reply to its confirmation is answered with "transaction not found". What does
  hold, and is proved, is `LatestCardWorks`: the newest card works.

### Observed while modelling

Not violations of a property here, but worth knowing when reading the code:

* An answer of the parser to an amend that is no JSON is an error without a code; `picker.Pick` has no pool for it, and
  the reply has no text (`gemini/parse.go:183`, `chatbot.go:338`).
* Reports turn quota and availability errors of the parser into an internal error (`get_summary.go:97`), amends pass them on.
* "prev" on page 1 shows the first rows again under the number 0, and a page number that overflows when multiplied by the limit shows
  some page or none; `LabelsTrue` names both as its exceptions.
* A card whose description or quip has the word "page" is routed to the detail report: its transaction cannot be amended by
  replying to that card. `RepliesReach` leaves such cards out.
* A confirmation waits for the last line of its message. If another line is deferred, the transaction can be listed and amended
  before, and the confirmation then shows it as it was created.
* A failing look-up of a user is answered like an unknown user, who is told to register (`chatbot.go:112`).
* Amounts and dates are validated when a transaction is recorded, not when it is amended.
* `src/README.md:16` and `:152` give one month as the longest period of a report; the code takes three
  (`usecase/report/util.go:41`). The model has a span of any length (`ChatSpan`), and no property depends on it.
* An amount that was not stated is 0, and such a transaction is recorded (`gemini/const.go:23`, `record.go:38`). When all
  transactions of a kind have amount 0, none exceeds the 0 that the search for the largest starts from, so the summary names
  neither a top category nor a biggest transaction, though it counts them (`get_summary.go:63`, `:81`). `SummaryBalances` says
  when: exactly when the total is 0.

### Fairness

`RecordBatcher!Fairness`: goroutines that can go on do (weak fairness of each step). Strong fairness is assumed of
two steps. The parser does not answer with a retryable error for ever (`FailBatch \/ ParseOk`): quotas and outages
end. `Stop`: Go's `select` chooses at random among what is ready, so it does not prefer ticks for ever. Nothing is
assumed about arrivals, time, cancellation or panics. The delivery that `Assign` calls is taken to return: it is
`enqueue` of the chat queue, which can block as `chats_deadlock` shows.

`ChatQueue!Fairness`, for a process that goes on: weak fairness of sending and of jobs that do not hang; strong fairness of acquiring the mutex
(`sync.Mutex` hands itself to a goroutine that waited for a millisecond) and of receiving (random `select`, and a timer
that needs five minutes to fire again).

`RecordFlow!Fairness`: weak fairness of each worker's steps (jobs do not hang; a job that does hang stops its own chat
and no other) and of `Deliver`, which takes `enqueue` to return, both only while the context is live. Once `main` has
cancelled it, `Disconnect` waits for the batcher alone (`handler.go:92-96`) and `main` returns (`src/cmd/bot/main.go:39-48`):
the workers are not waited for, and a job that was entered just before the end may never run. So no step after `Cancel` is
fair, and `AnswersAreDelivered`, like `EveryMessageAnswered`, excuses a cancelled context. Nothing is assumed about
arrivals, routing to a record, the batcher, panics or sends: `AnswersAreDelivered` says that a job for the answer ends,
not that WhatsApp accepted what it sent.

`Requests!Fairness`: weak fairness of the goroutines that have an answer of the parser, of pauses (timers), and of an attempt
under way: Gemini's client returns at last, with whatever it likes. The code sets no timeout; a call that hangs hangs its job,
which `chats_liveness` has. `RequestsEnd` needs no fairness against unavailability: the attempts are counted.

`Ledger` and `Readers` state no liveness: nothing in them must happen that a user did not ask for.

## 4. Theorems

The theorems hold for all constants that satisfy the named assumptions of the modules. The bounds of a model are constants
too, so they hold for every bound.

| Module | Assumptions | What they ask |
|---|---|---|
| `RecordBatcher` | `UsersAssumption`, `LinesAssumption`, `BatchAssumption`, `PanicAssumption` | each message has a user and a number of lines, perhaps 0; a batch has room for a line |
| `ChatQueue` | `ChatsAssumption`, `ChatOfAssumption`, `CapacityAssumption`, `HangingAssumption`, `NoJobAssumption`, `NoWorkerAssumption` | each job has a chat; a channel has room for a job; the markers are no jobs or workers |
| `RecordFlow` | `ChatOfAssumption`, `NoMessageAssumption`, `NoJobAssumption` | as above |
| `Ledger` | `OwnerAssumption`, `BoundsAssumption` | each transaction has an owner |
| `TransactionList` | `RowsAssumption`, `ValuesAssumption`, `TablesAssumption` | ids are finitely many numbers, dates are integers, the first tables hold such values |
| `Reports` | `NumbersAssumption`, `AmountsAssumption` | a page has a row; two pages, and every page whose number is printed without a comma, end below `MaxInt` (10 rows and page 999, against 2^63 - 1); kinds and categories are finitely many, no amount is negative (`record.go:38`, `amend.go:127`) |
| `McpServer`, `Readers` | `LimitsAssumption`, `ReadersAssumption` | the default and the largest limit are positive, limits and offsets are integers; chats and clients are different readers |
| `Gemini`, `RecordBatch`, `Chatbot`, `Requests` | `CallersAssumption`, `SizeAssumption`, `TicksAssumption`, `AnswersAssumption`, `MessagesAssumption`, `WorkersAssumption` | the batcher and the chats call the parser; a batch has a line; an answer is any sequence of numbered messages |

| Theorem | Statement |
|---|---|
| `RecordBatcherProofs!BatcherConsistent` | `Spec => [](TypeOK /\ Consistent)` |
| `BatcherTypeOK`, `LinesAreNeverTwice`, `LinesAreSavedOnce`, `AnswersAreTrue` | `TypeOK`, `NoLineTwice`, `SavedOnce`, `AnswersTrue` are invariants |
| `RecordOrderProofs!BatcherOrdered` | `Spec => []Ordered` |
| `NoLineIsLost`, `AnswersComeInOrder` | `NoLineLost`, which is about batchers that do not panic, and `AnswersInOrder` are invariants |
| `BatcherKeepsPromise` | `Spec => ImplementsPromise`: the batcher implements `RecordPromise` |
| `RecordAcksProofs!OneFirstAck`, `AcksComeOnce` | `OneFirstPerWindow`, `OneAckPerWindow` are invariants of `RecordAcks` |
| `ChatQueueProofs!ChatsConsistent` | `Spec => [](TypeOK /\ Consistent)` |
| `ChatsTypeOK`, `OneWorker`, `NoJobStranded` | `TypeOK`, `OneWorkerPerChat`, `HandedToLiveWorker` are invariants |
| `QueueImplementsLanes` | `Spec => ImplementsLanes`: the workers implement `ChatLanes` |
| `RecordFlowProofs!FlowConsistent`, `FlowInOrder` | `Spec => [](TypeOK /\ Consistent)`, and the order of jobs and log |
| `FlowTypeOK`, `HourglassBeforeFinal`, `FinalsComeInOrder` | `TypeOK`, `HourglassNeverLast`, `FinalsInOrder` are invariants |
| `LedgerProofs!LedgerInvariant` | `Spec => []IInv`, which is `TypeOK /\ Consistent` |
| `LedgerTypeOK`, `LedgerOwnJobs`, `AmendsLoseNothing`, `CardsAreTrue`, `RepliesHitWhatIsShown`, `NewestCardWorks`, `NoLineForgotten` | `TypeOK`, `OwnJobs`, `NoLostUpdate`, `CardsTrue`, `ReplyHitsShown`, `LatestCardWorks`, `NothingForgotten` are invariants |
| `ReadersProofs!TokensInvariant`, `RevokedTokensAreDead`, `ServedIsOwner` | `Spec => []TokensInv`; `RevokedGetsNothing`, `ServedOwner` are invariants |
| `ListsAreInOrder` | in every state the list of a user and a query has exactly the user's rows that match, each before the next in date and id |
| `PagesInvariant`, `ClientsGetTheirOwn`, `FollowingGetsAll` | `Spec => []PagesInv`; `OwnRowsOnly`, `PagesCoverList` are invariants |
| `WalksInvariant`, `NextShowsAll` | `Spec => []WalksInv`; `WalkShowsAll` is an invariant |
| `LabelsAreTrue` | `Spec => LabelsTrue`, an action property |
| `SummariesBalance`, `ReadersTypes` | `SummaryBalances`, `TypeOK` are invariants |
| `RequestsProofs!RequestsInvariant`, `RequestsTypes` | `Spec => []RequestsInv`; `TypeOK` is an invariant |
| `RegistrationComesFirst`, `ErrorsChangeNothing`, `OneQuip`, `RetriedBatchLeftNothing` | `RegisterFirst`, `ErrorChangesNothing`, `OneQuipPerUser`, `NothingYet` are invariants |
| `BatchInvariant`, `LinesAreIndependent`, `RowsTold` | `Spec => []BatchInv`; `LinesIndependent`, `RowsAsTold` are invariants |
| `RepliesInvariant`, `RepliesReachTheirEnd` | `Spec => []RepliesInv`; `RepliesReach` is an invariant |

**The batcher.** `SavedOnce` alone is not inductive: that a queued line has no row must follow from its having no
outcome, which must survive `Defer`, which puts a batch back. `Consistent` therefore says where every line is and what
its stores hold: `NoLineTwice` over batch and queue together; `WaitingWasQueued`, so that `Push` adds lines that are new;
`BatchProgress`, which lines of the batch the loops have passed; `StoresAgree`, rows and results repeat the outcome;
`RemainingCounts`, `remaining` is the number of lines without a result. The last one makes `AnswersTrue`: a message is handed
over at `remaining = 1` before the step, so the line being assigned was its only open one. The proof has one lemma for each
action, and lemmas about positions in sequences and about the set of open lines.

**The order of the batcher.** `AnswersInOrder` needs to know what still waits: `WaitingInOrder` says that batch and queue, one
after the other, are in the order of acceptance, and that whatever was handed over comes before every message with an open line
there. `Defer` keeps it because it puts the batch back where it came from, `Push` because an accepted message is the last.
`AnsweredWhenDone` (without panics) closes the gaps: a message before the one handed over has no open line left, so it
was handed over too. With them the step of `Assign` that answers is the step `Answer` of `RecordPromise`, the other steps settle a line,
accept a message, or stutter: `BatcherKeepsPromise`.

**The acks.** `OneFirstPerWindow` strengthens `OneAckPerWindow` to the messages that may still get the ack: `push` decided under the lock, and the
user is in `ackedUsers` from then on until the next `take`, so a second message of the window is told that it is not the first.

**The chat queue.** `OneWorkerPerChat` is an equivalence: `workers[c] = w` exactly when `w` is alive and was started
for `c`. With `MutexHeld` it makes `Exit` safe: the worker looks at its channel while nobody is sending, so neither a
sender nor a job is left behind. The refinement maps the lane of a chat to the channel of its worker, empty if it has
none; starting and leaving are stuttering steps because a fresh and a leaving worker have neither job nor channel content.

**The flow of a message.** `HourglassNeverLast` follows from a chain that spans both queues (`ProcessBeforeDelivery`): a
delivery job exists only for an answered message, which was accepted, which its process job did, so that job has begun.
`JobsInOnePlace` says that a chat runs one job at a time and that a job belongs to its chat; so a delivery that runs is
in the chat of the process job, which is therefore over (`FinalAfterProcess`), and will send nothing any more. Both jobs
going through the same lane is all that orders the two reactions: a delivery through any other lane breaks it
(`DeliverElsewhere`).

**The order of the answers.** `FinalsInOrder` goes through four sequences, and `InOrder` says of each that it follows the arrival of the
messages of a chat: the lane (`LanesInOrder`, which counts a job that runs or is over as before those that wait), the messages
accepted by the batcher (`AcceptedInOrder`: a process job that comes later queues its message later), the answers handed over
(`HandedInOrder`, from the promise of the batcher), and the final reactions sent. A message that panics between two of
these drops out, which leaves the order of the rest alone.

**The ledger.** `NoLostUpdate` is about a pause without a lock: an amend reads a row, waits for the parser, and writes all fields
back. What makes it hold is `OwnJobs`: a worker only holds cards of its own user's transactions, and a user has one lane, so
nobody else is at that row meanwhile. `OwnJobs` also says that the card whose id is being stored is still the newest one of its
transaction; without it `LatestCardWorks` would not survive `Store`. `Save` never disturbs these, since it only makes new rows. If groups
were admitted, a user would have two lanes, and the argument would break exactly there.

**The tokens.** `RevokedGetsNothing` needs `LatestOnly` (of the tokens made for one user the table has the latest at most) and
`MarkedRight` (a request that is marked as revoked carries a token for which a later one exists). `Authenticate` then
finds nothing for it, whatever was issued between the request and its authentication.

**Lists and pages.** `ListsAreInOrder` is about `ByDate`, which chooses rows by rank. Date and id are a strict total order of the rows
that are there, so two rows of a set never have the same rank; ranks are numbers below the size of the set, so by
the pigeonhole principle each is taken, and the list is a permutation of the set, in order. On top of it `PagesInv` and
`WalksInv` say what a reader holds while the table is calm: the list from the first offset up to the one that is asked for next, or up
to the end of the page that was printed. For the chats that takes the arithmetic of the pages, with products of variables and
division: the offset read back from a printed number is the offset of that page and does not wrap around, and
the number of pages is the least that holds the list. `LabelsAreTrue` has the same arithmetic for any number a user may
write; the two exceptions that the property names are those where the offset is negative or may wrap around.

**The sums.** `SumFunction` and `FoldLeft` of the community modules choose a function that satisfies a recursive equation. That one
exists is proved by induction over the size of the subsets (`FoldExists`), and then that it goes through the prefixes of a
sequence one by one (`FoldOfPrefixes`). Along these prefixes, `AddsUp` says of the summary of a kind that its categories sum up
to its total and that no amount is above its category; the counts of the kinds sum up to the length of the prefix,
since a row is added to the summary of exactly one kind; `TopOK` says of the search for the top category that none of
those it has passed is larger. An order of the categories passes all of them, by the pigeonhole principle again.

**The requests.** `WaitsAdmitted` carries the admission over the pause for the parser: who waits for it was found registered
before, outside a group, and no one is ever removed. For the quips `QuipsAsked` says that a line has one only if it asked, and that
of a user's lines one asks. The parser's answers, being any sequence, play no part in it.

**The lines of a batch.** `PlacedCounts` says what `mapParsedByIndex` leaves after any answer: for each line, how many messages were meant
for it, and the message if there is one, whatever else the answer has, in any order. `BatchInv` then follows `Execute` from line to
line: those behind `pos` have the result of their own message and the row it tells of, those ahead have no row.

**Replies.** `RepliesInv` ties the action of a message to what it replies to, through the pause for the parser: a card leads to an amend
and to nothing else, a page to the detail report, and only a card lets rows be updated or deleted. `ReplyMeans` spells the rules out, one word
after the other, in the order in which the code tries them.

**Induction.** What is chosen by a recursive equation, or filled step by step, is reasoned about by induction over numbers, through `SetInduction`: a set that has 0, and with a number the next one, has
them all. It is a first-order fact and follows from the library's `NatLessThanWellFounded` and the least element that it gives.

**What is only model-checked.** Liveness (`EveryMessageAnswered`, `StopsWhenCancelled`, `EveryJobRuns`, `AnswersAreDelivered`,
`RequestsEnd`): fairness and ENABLED are out of this prover's reach. The safety properties of the passing runs are all theorems. What
the violated properties say is refuted by their runs. No module declares a RECURSIVE operator.

## 5. Plan

Done: the batcher, the chat queue, the flow of a message through both, the ledger, the readers and the requests, and theorems for all
the safety properties that the runs check. What is left:

1. Refinements worth stating: that a batch in the detail of `RecordBatch` is one that `RecordBatcher` takes it to be, so that the theorems of
   the two hold of one system.
2. When groups can be looked up again: two lanes for one user in `Ledger`, membership, and the split.


## 6. Not modelled

* Groups and the split. Every message of a group is refused before any action (above), and ACTION_SPLIT needs a group, so
  `addMember`, `createGroup` and `split.go` are never reached. They become part of the model when `find_by_jid.go` is repaired.
* The picker's choice of a variant: random, one step under a mutex, read by nothing else.
* Wording: templates, prompts and schemas for Gemini, number and date formats, beyond the words that route a reply and the
  numbers of a page.
* Typing pauses, JIDs, read marks, logging, configuration and wiring; SQLite and the whatsmeow library themselves.
* The lost queue after a restart: it lives in memory by design, and is listed as a hazard.
* The files under `src/.agents` are templates for other projects and no part of the bot.
