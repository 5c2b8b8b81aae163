--------------------------- MODULE TransactionList ---------------------------
(***************************************************************************)
(* The table of transactions as its readers see it: the chats, through     *)
(* reports, and AI tools, through the MCP server.  Each page is a query of *)
(* its own (infra/storage/sqlite/transaction/get_list_by_period.go), and   *)
(* between two the bot may insert, update and delete.  Ledger says how.    *)
(***************************************************************************)
EXTENDS Integers, Sequences, FiniteSets, SequencesExt

CONSTANTS Users,    \* the registered users
          Rows,     \* the ids of the transactions
          OwnerOf,  \* OwnerOf[r]: the user_id of the row
          Values,   \* what a row may hold: [date, type, amount, category]
          NoRow,    \* a row that is not in the table
          Tables,   \* bound: what the table holds when the program starts
          MaxWrites,  \* bound: how often the bot writes
          Readers   \* the chats of the users, and the clients of the MCP server

VARIABLES
  table,  \* what each row holds, or NoRow
  writes, \* how often it was written
  calm    \* history: whether the table is as it was when a reader began to page

tableVars == <<table, writes, calm>>

ASSUME RowsAssumption == Rows \subseteq Nat /\ IsFiniteSet(Rows)
ASSUME ValuesAssumption == NoRow \notin Values /\ \A v \in Values : v.date \in Int
ASSUME TablesAssumption == Tables \subseteq [Rows -> Values \cup {NoRow}] /\ MaxWrites \in Nat

\* The program starts with the rows of earlier days.
TableInit ==
  /\ table \in Tables
  /\ writes = 0
  /\ calm = [r \in Readers |-> TRUE]

TableTypeOK ==
  /\ table \in [Rows -> Values \cup {NoRow}]
  /\ writes \in 0 .. MaxWrites
  /\ calm \in [Readers -> BOOLEAN]

\* The bot records, amends or deletes a transaction.
Write(r) ==
  /\ writes < MaxWrites /\ writes' = writes + 1
  /\ \E v \in Values \cup {NoRow} : v # table[r] /\ table' = [table EXCEPT ![r] = v]
  /\ calm' = [reader \in Readers |-> FALSE]

\* A reader sees the first page of a list.
Begin(reader) == calm' = [calm EXCEPT ![reader] = TRUE]

Precedes(r, s) ==
  table[r].date < table[s].date \/ (table[r].date = table[s].date /\ r < s)

Matches(r, query) ==
  /\ table[r] # NoRow
  /\ query.from <= table[r].date /\ table[r].date <= query.to
  /\ query.type \in {"", table[r].type}

\* Rows in the order of date and id: the k-th is the one that k - 1 rows precede.
ByDate(rows) ==
  [k \in 1 .. Cardinality(rows) |->
     CHOOSE r \in rows : Cardinality({s \in rows : Precedes(s, r)}) = k - 1]

\* Broken variant: the query forgets the user.
ListedOfAll(u, query) == ByDate({r \in Rows : Matches(r, query)})

\* The transactions of a user in a period.
Found(u, query) == {r \in Rows : OwnerOf[r] = u /\ Matches(r, query)}

\* ORDER BY date, id.
Listed(u, query) == ByDate(Found(u, query))

\* Broken variant: the last row of a page comes with the next one too.
PageOverlaps(list, limit, offset) ==
  LET end == IF limit < 0 \/ offset + limit > Len(list) THEN Len(list) ELSE offset + limit
  IN SubSeq(list, IF offset > 0 THEN offset ELSE 1, end)

\* LIMIT and OFFSET: a negative limit is none, a negative offset is 0.
Page(list, limit, offset) ==
  LET skipped == IF offset < 0 THEN 0 ELSE offset
      end == IF limit < 0 \/ skipped + limit > Len(list) THEN Len(list) ELSE skipped + limit
  IN SubSeq(list, skipped + 1, end)

\* The total comes with every row of the page: without a row there is none.
TotalWith(list, page) == IF page = <<>> THEN 0 ELSE Len(list)
=============================================================================
