------------------------------ MODULE Reports ------------------------------
(***************************************************************************)
(* Reports in a chat: the pages of the detail report                       *)
(* (usecase/report/get_detail.go), where the user replies to a page to see *)
(* another, and the summary (get_summary.go).  The bot keeps no state of a *)
(* list: which page comes next is read from the text of the message that   *)
(* the user replied to.  A reply that is refused changes nothing.          *)
(***************************************************************************)
EXTENDS TransactionList

CONSTANTS Limit,     \* rows in a page
          ChatSpan,  \* a period of the chat is shorter than this
          MaxInt,    \* the largest int: 2^63 - 1 in the code
          MaxPlain,  \* the largest page printed without a comma: 999 in the code
          Numbers    \* numbers that users write

ASSUME NumbersAssumption ==
  /\ Limit \in Nat \ {0} /\ MaxInt \in Nat /\ MaxPlain \in Nat /\ Numbers \subseteq Nat
  /\ 2 * Limit <= MaxInt /\ MaxPlain * Limit <= MaxInt  \* 10 and 999, and 2^63 - 1

VARIABLES
  page,  \* the message at the foot of the last page that a user got, or NoPage
  walk   \* history: the rows a user was shown from the first page on, by "next" alone

CONSTANT NoPage

chatVars == <<page, walk>>

ReportsInit ==
  /\ page = [u \in Users |-> NoPage]
  /\ walk = [u \in Users |-> <<>>]

\* Integers of the machine wrap around, and divide towards zero.
Wrapped(n) == ((n + MaxInt + 1) % (2 * (MaxInt + 1))) - (MaxInt + 1)
Quotient(n) == IF n >= 0 THEN n \div Limit ELSE -((-n) \div Limit)

\* generateTransactionPeriod and ValidateTransactionRange: dates in any order, apart less
\* than the span.
Period(from, to, type) ==
  [from |-> IF to < from THEN to ELSE from, to |-> IF to < from THEN from ELSE to,
   type |-> type]

InRange(query) == query.to < query.from + ChatSpan

\* Broken variant: pages are counted from zero.
DetailedFromZero(query, rows, total, offset) ==
  [query |-> query, rows |-> rows, current |-> Quotient(offset),
   total |-> Quotient(total) + (IF total % Limit > 0 THEN 1 ELSE 0),
   start |-> offset + 1, end |-> offset + Len(rows), count |-> total]

\* What is printed under a page: detailed, and the template.
Detailed(query, rows, total, offset) ==
  [query |-> query, rows |-> rows,
   current |-> Quotient(offset) + 1,
   total |-> Quotient(total) + (IF total % Limit > 0 THEN 1 ELSE 0),
   start |-> offset + 1, end |-> offset + Len(rows), count |-> total]

Words == {"next", "prev", "none"}

\* getNewOffset: the first number of the text, unless it is 0, else a word.  Atoi
\* returns the largest int for a number that is too large; its error is ignored.
NewOffset(number, word, current) ==
  LET delta == IF word = "next" THEN 1 ELSE IF word = "prev" THEN -1 ELSE 0
      atoi == IF number > MaxInt THEN MaxInt ELSE number
      new == IF atoi > 0 THEN atoi ELSE current + delta
  IN Wrapped((new - 1) * Limit)

\* parsedQuotedText finds a page only in digits: none with a sign or a comma.
Readable(message) ==
  /\ message # NoPage
  /\ message.current >= 0 /\ message.current <= MaxPlain

\* Broken variant: a page without rows is sent too.
ShowEmpty(u, query, offset) ==
  LET list == Listed(u, query)
      rows == Page(list, Limit, offset)
  IN /\ InRange(query)
     /\ page' = [page EXCEPT ![u] = Detailed(query, rows, TotalWith(list, rows), offset)]

\* The page at an offset is sent, if it has rows.
Show(u, query, offset) ==
  LET list == Listed(u, query)
      rows == Page(list, Limit, offset)
  IN /\ InRange(query)
     /\ rows # <<>>
     /\ page' = [page EXCEPT ![u] = Detailed(query, rows, TotalWith(list, rows), offset)]

\* GetDetailFirstPage: the period comes from the parser.
FirstPage(u, from, to) ==
  /\ Show(u, Period(from, to, ""), 0)
  /\ walk' = [walk EXCEPT ![u] = page'[u].rows]
  /\ Begin(u)
  /\ UNCHANGED <<table, writes>>

\* GetDetailSpecificPage: the period and the page come from the message replied to.
SpecificPage(u, number, word) ==
  LET message == page[u]
      offset == NewOffset(number, word, message.current)
  IN /\ Readable(message)
     /\ Show(u, message.query, offset)
     /\ IF offset = 0
          THEN Begin(u) /\ walk' = [walk EXCEPT ![u] = page'[u].rows]
          ELSE /\ walk' = [walk EXCEPT ![u] =
                             IF @ # <<>> /\ number = 0 /\ word = "next"
                               THEN @ \o page'[u].rows ELSE <<>>]
               /\ UNCHANGED calm
     /\ UNCHANGED <<table, writes>>

ReportsNext ==
  \E u \in Users :
    \/ \E from, to \in {v.date : v \in Values} : FirstPage(u, from, to)
    \/ \E number \in Numbers \cup {0}, word \in Words :
         SpecificPage(u, number, word)

-----------------------------------------------------------------------------
(* The summary reads all transactions of a period at once.                  *)

\* Add, one transaction after the other.
Add(info, r) ==
  LET v == table[r]
  IN [total |-> info.total + v.amount,
      count |-> info.count + 1,
      highest |-> IF info.highest < v.amount THEN v.amount ELSE info.highest,
      categories |-> [info.categories EXCEPT ![v.category] = @ + v.amount]]

Categories == {v.category : v \in Values}
Types == {v.type : v \in Values}
Orders == SetToSeqs(Categories)

\* An amount that was not stated is 0; Record and Amend let none be negative.
ASSUME AmountsAssumption ==
  IsFiniteSet(Types) /\ IsFiniteSet(Categories) /\ \A v \in Values : v.amount \in Nat

NewSummaryInfo ==
  [total |-> 0, count |-> 0, highest |-> 0, categories |-> [c \in Categories |-> 0]]

\* Broken variant: an income counts as an expense too.
InfoOfAll(list, type) == FoldLeft(Add, NewSummaryInfo, list)

\* sumarize: each transaction goes to the summary of its type.
Info(list, type) ==
  FoldLeft(LAMBDA info, r : IF table[r].type = type THEN Add(info, r) ELSE info,
           NewSummaryInfo, list)

\* GetTopTransaction looks at the categories in the order of the map, which is any.
TopOf(info, order) ==
  FoldLeft(LAMBDA top, c :
             IF top.total < info.categories[c]
               THEN [category |-> {c}, total |-> info.categories[c]] ELSE top,
           [category |-> {}, total |-> 0], order)

-----------------------------------------------------------------------------

ReportsTypeOK ==
  \A u \in Users :
    /\ page[u] # NoPage => page[u].rows \in Seq(Rows) /\ page[u].rows # <<>>
    /\ walk[u] \in Seq(Rows)

\* Whoever goes from the first page on with "next", over a table that does not change,
\* sees every transaction of the period once, in order, and the last page is numbered as
\* the last.
WalkShowsAll ==
  \A u \in Users :
    walk[u] # <<>> /\ calm[u] =>
      LET list == Listed(u, page[u].query)
          seen == page[u].current * Limit
      IN /\ walk[u] = SubSeq(list, 1, IF seen < Len(list) THEN seen ELSE Len(list))
         /\ page[u].current = page[u].total <=> Len(walk[u]) = Len(list)

\* The numbers under a page are those of its rows, save in two cases: before the first page
\* ("prev" on it) are the first rows, and a number too large to multiply leads anywhere.
LabelsTrue ==
  [][\A u \in Users :
       page'[u] # page[u] =>
         LET new == page'[u]
             list == Listed(u, new.query)
         IN \/ /\ new.current \in 1 .. new.total
               /\ new.start = (new.current - 1) * Limit + 1
               /\ new.rows = SubSeq(list, new.start, new.end)
            \/ /\ page[u] # NoPage /\ page[u].current <= 1
               /\ new.current <= 0
               /\ new.rows = SubSeq(list, 1, Len(new.rows))
            \/ \E n \in Numbers, word \in Words :
                 n > MaxInt \div Limit /\ SpecificPage(u, n, word)]_<<table, page>>

\* A summary adds up, whatever the order of the map: both kinds make up the list, the
\* categories the total, and no category has more than the one on top, which there is
\* unless no amount was stated.
SummaryBalances ==
  \A u \in Users, from, to \in {v.date : v \in Values}, type \in Types \cup {""} :
    from <= to =>
      LET list == Page(Listed(u, Period(from, to, type)), -1, 0)
      IN /\ SumFunction([kind \in Types |-> Info(list, kind).count]) = Len(list)
         /\ \A kind \in Types :
              LET info == Info(list, kind)
              IN \A order \in Orders :
                   LET top == TopOf(info, order)
                   IN /\ SumFunction(info.categories) = info.total
                      /\ info.highest <= top.total /\ top.total <= info.total
                      /\ \A c \in Categories : info.categories[c] <= top.total
                      /\ \A c \in top.category : info.categories[c] = top.total
                      /\ top.category = {} <=> info.total = 0
=============================================================================
