---------------------------- MODULE RecordBatch ----------------------------
(***************************************************************************)
(* One batch of lines in detail: RecordBatch.Execute                       *)
(* (internal/usecase/transaction/record_batch.go), where RecordBatcher     *)
(* lets parser and database decide as they like.  The lines go to the      *)
(* parser numbered from 1; it answers with messages that carry a number,   *)
(* in any order, some twice, some not at all, some with a number of no     *)
(* line.  A batch that is put off comes again at the next tick.            *)
(***************************************************************************)
EXTENDS Gemini, Integers, Sequences, FiniteSets

CONSTANTS Size,        \* the lines of the batch
          LineUser,    \* LineUser[i]: the user who wrote line i
          Answers,     \* the answers of the parser: sequences of [index, kind]
          MaxTicks     \* bound: how often the batch comes

ASSUME SizeAssumption == Size \in Nat \ {0}
ASSUME TicksAssumption == MaxTicks \in Nat

Lines == 1 .. Size

\* The model may give a message any number; its kind is what constructTransaction makes of it.
Kinds == {"good", "invalid", "type", "amount", "future"}

ASSUME AnswersAssumption == Answers \subseteq Seq([index : Int, kind : Kinds])

VARIABLES
  step,     \* where Execute stands
  ticks,    \* how often it was called
  quips,    \* selectQuipPositions: the lines that ask for a quip
  answer,   \* the messages of the parser
  pos,      \* the line that is saved next
  results,  \* the result of each line
  created   \* history: [line, from]: rows created, and the messages they are made from

batchVars == <<step, ticks, quips, answer, pos, results, created>>

NoResult == [outcome |-> "none", from |-> 0, quip |-> FALSE]
Failed(code) == [outcome |-> code, from |-> 0, quip |-> FALSE]

BatchInit ==
  /\ step = "idle" /\ ticks = 0 /\ quips = {} /\ answer = <<>> /\ pos = 1
  /\ results = [i \in Lines |-> NoResult]
  /\ created = <<>>

LinesOf(u) == {i \in Lines : LineUser[i] = u}

\* Execute: one line of each user asks for a quip, and the parser is called.
Execute ==
  /\ step = "idle" /\ ticks < MaxTicks
  /\ ticks' = ticks + 1
  /\ quips' \in {s \in SUBSET Lines :
                   \A i \in Lines : Cardinality(s \cap LinesOf(LineUser[i])) = 1}
  /\ step' = "parse"
  /\ Ask(Batcher)
  /\ UNCHANGED <<answer, pos, results, created>>

\* The parser failed.  Quota or availability: flush puts the batch off, else it fails.
ParseFails ==
  /\ step = "parse" /\ call[Batcher].end \in Failures
  /\ IF call[Batcher].end = "ErrInternal"
       THEN /\ step' = "done"
            /\ results' = [i \in Lines |-> Failed("ErrInternal")]
       ELSE step' = "idle" /\ UNCHANGED results
  /\ Forget(Batcher)
  /\ UNCHANGED <<ticks, quips, answer, pos, created>>

\* The answer is no JSON: an error without a code, which toLineResult calls internal.
Malformed ==
  /\ step = "parse" /\ call[Batcher].end = "text"
  /\ step' = "done"
  /\ results' = [i \in Lines |-> Failed("ErrInternal")]
  /\ Forget(Batcher)
  /\ UNCHANGED <<ticks, quips, answer, pos, created>>

\* The answer is a list of messages.
Parsed ==
  /\ step = "parse" /\ call[Batcher].end = "text"
  /\ answer' \in Answers
  /\ step' = "save" /\ pos' = 1
  /\ Forget(Batcher)
  /\ UNCHANGED <<ticks, quips, results, created>>

\* The loop of mapParsedByIndex: message k goes to the place of its number.
Place(items, k) ==
  LET i == answer[k].index
  IN IF i \in Lines THEN [items EXCEPT ![i] = [count |-> @.count + 1, message |-> k]]
                    ELSE items

\* What the first k messages leave in the places.
Placed[k \in 0 .. Len(answer)] ==
  IF k = 0 THEN [i \in Lines |-> [count |-> 0, message |-> 0]]
           ELSE Place(Placed[k - 1], k)

\* Broken variant: of messages with the same number the last one counts.
LastByIndex(i) == Placed[Len(answer)][i].message

\* mapParsedByIndex: the message for line i, or 0 if its number is missing or comes twice.
ParsedByIndex(i) ==
  LET item == Placed[Len(answer)][i]
  IN IF item.count = 1 THEN item.message ELSE 0

\* recordItem and constructTransaction: what a message of each kind leads to.
OutcomeOf(kind) ==
  CASE kind = "good" -> "saved"
    [] kind = "invalid" -> "ErrInvalidRequest"
    [] kind = "type" -> "ErrInvalidTransactionType"
    [] kind = "amount" -> "ErrInvalidTransactionAmount"
    [] kind = "future" -> "ErrFutureTransactionDate"

\* The loop goes on to the next line.
NextLine == IF pos < Size THEN pos' = pos + 1 /\ step' = step ELSE pos' = 1 /\ step' = "done"

\* recordItem for a line that becomes no transaction.
RejectItem ==
  LET k == ParsedByIndex(pos)
  IN /\ step = "save"
     /\ IF k = 0 THEN results' = [results EXCEPT ![pos] = Failed("ErrTransactionUnparsed")]
        ELSE /\ answer[k].kind # "good"
             /\ results' = [results EXCEPT ![pos] = Failed(OutcomeOf(answer[k].kind))]
     /\ NextLine
     /\ UNCHANGED <<ticks, quips, answer, created, geminiVars>>

\* Broken variant: a quip that was not asked for is kept.
SaveItemWithQuip ==
  LET k == ParsedByIndex(pos)
  IN /\ step = "save" /\ k # 0 /\ answer[k].kind = "good"
     /\ results' = [results EXCEPT ![pos] = [outcome |-> "saved", from |-> k, quip |-> TRUE]]
     /\ created' = Append(created, [line |-> pos, from |-> k])
     /\ NextLine
     /\ UNCHANGED <<ticks, quips, answer, geminiVars>>

\* Broken variant: an error after Create turns a saved line into a failed one.
SaveItemMisreports ==
  LET k == ParsedByIndex(pos)
  IN /\ step = "save" /\ k # 0 /\ answer[k].kind = "good"
     /\ \E r \in {[outcome |-> "saved", from |-> k, quip |-> pos \in quips], Failed("ErrInternal")} :
          results' = [results EXCEPT ![pos] = r]
     /\ created' = Append(created, [line |-> pos, from |-> k])
     /\ NextLine
     /\ UNCHANGED <<ticks, quips, answer, geminiVars>>

\* recordItem for a transaction: it is created, or Create fails.  The parser may write a
\* quip for any line; only where one was asked for it is kept.
SaveItem ==
  LET k == ParsedByIndex(pos)
  IN /\ step = "save" /\ k # 0 /\ answer[k].kind = "good"
     /\ \/ /\ results' = [results EXCEPT ![pos] =
                            [outcome |-> "saved", from |-> k, quip |-> pos \in quips]]
           /\ created' = Append(created, [line |-> pos, from |-> k])
        \/ /\ results' = [results EXCEPT ![pos] = Failed("ErrInternal")]
           /\ UNCHANGED created
     /\ NextLine
     /\ UNCHANGED <<ticks, quips, answer, geminiVars>>

BatchNext ==
  Execute \/ ParseFails \/ Malformed \/ Parsed \/ RejectItem \/ SaveItem

-----------------------------------------------------------------------------

BatchTypeOK ==
  /\ step \in {"idle", "parse", "save", "done"}
  /\ ticks \in 0 .. MaxTicks /\ pos \in Lines /\ quips \subseteq Lines
  /\ answer \in Answers \cup {<<>>}
  /\ \A i \in Lines : results[i].from \in 0 .. Len(answer) /\ results[i].quip \in BOOLEAN

\* The messages of the answer for a line.
Meant(i) == {k \in DOMAIN answer : answer[k].index = i}

\* What came of a line depends on the messages with its number alone.
LineIndependent(i) ==
  IF Cardinality(Meant(i)) # 1 THEN results[i].outcome = "ErrTransactionUnparsed"
  ELSE \A k \in Meant(i) :
         \/ results[i].outcome = OutcomeOf(answer[k].kind) /\ results[i].from \in {0, k}
         \/ answer[k].kind = "good" /\ results[i].outcome = "ErrInternal"

\* "One bad item never fails the others": once the batch is done, what came of a line
\* depends on the messages with its number alone, whatever else the answer holds, and a
\* line with one message never gets the transaction of another.
LinesIndependent ==
  step = "done" /\ answer # <<>> => \A i \in Lines : LineIndependent(i)

\* The rows created for a line.
RowsOf(i) == {k \in DOMAIN created : created[k].line = i}

\* A line has the row that its result tells of, or none.
RowAsTold(i) ==
  IF results[i].outcome = "saved"
    THEN \E k \in RowsOf(i) : RowsOf(i) = {k} /\ created[k].from = results[i].from
    ELSE RowsOf(i) = {}

\* The rows and the results agree line by line, and a batch that the parser failed, however
\* often it came, has left no row.
RowsAsTold ==
  /\ step \in {"idle", "parse"} => created = <<>>
  /\ step = "done" => \A i \in Lines : RowAsTold(i)

\* Of the lines of a user in a batch at most one gets a quip.
OneQuipPerUser ==
  \A i, j \in Lines : results[i].quip /\ results[j].quip /\ LineUser[i] = LineUser[j] => i = j
=============================================================================
