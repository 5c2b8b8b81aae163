------------------------------ MODULE Chatbot ------------------------------
(***************************************************************************)
(* What becomes of a message: ProcessIncomingMessage                       *)
(* (internal/infra/service/chatbot.go), called by the worker of each chat, *)
(* with the prediction of the action, the registration of users and the    *)
(* calls to the parser.  Of a text only the keywords count, of the message *)
(* it replies to only whether it says PAGE, or EXPENSE or INCOME, which    *)
(* are EXPENSE here.  The bot keeps no note of what it sent: what a reply  *)
(* means is read from the text of the message replied to.                  *)
(***************************************************************************)
EXTENDS Gemini, Sequences, FiniteSets, FiniteSetsExt

CONSTANTS Chats,        \* the chats that are not the batcher: the other callers
          Groups,       \* those of them that are groups
          SenderOf,     \* who writes in a chat
          Words,        \* the sets of keywords that a message may hold
          MaxMessages   \* bound: how many messages a chat gets

ASSUME MessagesAssumption == MaxMessages \in Nat

VARIABLES
  registered,  \* the table of users: the senders in it
  job,         \* the message that the worker of each chat is at
  quoted,      \* the message that it replies to: [kind, words]
  count,       \* how many messages each chat got
  granted      \* history: the changes made for each chat's message

chatVars == <<registered, job, quoted, count, granted>>

NoJob == [phase |-> "idle", action |-> "none", code |-> "none"]
NoQuote == [kind |-> "none", words |-> {}]

\* A card names the type of its transaction; its description or its quip may say anything.
CardWords == {{"EXPENSE"}, {"EXPENSE", "PAGE"}}

\* A summary names its types; its rows and the biggest one may say anything.
SummaryWords == {{"EXPENSE"}, {"EXPENSE", "PAGE"}}

\* The foot of a page is a template.
PageWords == {{"PAGE"}}

\* Of the messages for errors and deletions some speak of a page, an expense or an income.
PersonaWords == {{}, {"EXPENSE"}, {"PAGE"}}

\* A user may reply to any message of the chat.
Quotes ==
  LET Of(kind, texts) == [kind : {kind}, words : texts]
  IN Of("card", CardWords) \cup Of("summary", SummaryWords) \cup Of("page", PageWords)
       \cup Of("persona", PersonaWords) \cup Of("other", SUBSET {"EXPENSE", "PAGE"})

ChatInit ==
  /\ registered = {}
  /\ job = [c \in Chats |-> NoJob]
  /\ quoted = [c \in Chats |-> NoQuote]
  /\ count = [c \in Chats |-> 0]
  /\ granted = [c \in Chats |-> {}]

\* The action of the first rule whose word is among the words.
FirstRule(rules, words, default) ==
  LET hits == {k \in DOMAIN rules : rules[k][1] \in words}
  IN IF hits = {} THEN default ELSE rules[Min(hits)][2]

\* MappingAction and MappingReplyAction.
Rules(isGroup) ==
  <<<<"register", "REGISTRATION">>, <<"mcp", "MCP">>>>
    \o (IF isGroup THEN <<<<"split", "SPLIT">>>> ELSE <<>>)
    \o <<<<"summary", "SUMMARY">>, <<"list", "DETAIL">>>>

ReplyRules == <<<<"PAGE", "DETAIL_PAGE">>, <<"EXPENSE", "AMEND">>>>

\* Broken variant: a reply is read for keywords of its own first.
PredictActionByText(words, quote, isGroup) ==
  FirstRule(Rules(isGroup), words,
            IF quote # NoQuote THEN FirstRule(ReplyRules, quote.words, "UNKNOWN") ELSE "RECORD")

PredictAction(words, quote, isGroup) ==
  IF quote # NoQuote THEN FirstRule(ReplyRules, quote.words, "UNKNOWN")
                     ELSE FirstRule(Rules(isGroup), words, "RECORD")

\* The message is answered with the message of a code; "ok" is a success.
Replies(c, action, code, changes) ==
  /\ job' = [job EXCEPT ![c] = [phase |-> "reply", action |-> action, code |-> code]]
  /\ granted' = [granted EXCEPT ![c] = changes]

\* The worker of the chat is free, and a message comes, which may be a reply.
Arrives(c, quote) ==
  /\ job[c] = NoJob /\ count[c] < MaxMessages
  /\ quoted' = [quoted EXCEPT ![c] = quote]
  /\ count' = [count EXCEPT ![c] = @ + 1]

\* The user is not found, or looking them up fails.
RefuseUser(c, action) ==
  /\ action # "REGISTRATION"
  /\ Replies(c, action, "ErrUserNotRegister", {})
  /\ UNCHANGED <<registered, geminiVars>>

\* Broken variant: only reports and amends look the user up.
KnownForReports(c, action) ==
  action \in {"REGISTRATION", "RECORD", "MCP"} \/ SenderOf[c] \in registered

\* The user is found, or will be one.
Known(c, action) == action = "REGISTRATION" \/ SenderOf[c] \in registered

\* The group is looked up with a query that fails (find_by_jid.go): no message of a group
\* is ever admitted, nor one about a split.
RefuseGroup(c, action) ==
  /\ Known(c, action) /\ c \in Groups
  /\ Replies(c, action, "ErrInvalidGroup", {})
  /\ UNCHANGED <<registered, geminiVars>>

Admitted(c, action) == Known(c, action) /\ c \notin Groups

\* RegisterUser: who is registered already succeeds again; a text without name and email,
\* or the database, may fail.
Register(c, action) ==
  /\ Admitted(c, action) /\ action = "REGISTRATION"
  /\ \/ /\ Replies(c, action, "ok", IF SenderOf[c] \in registered THEN {} ELSE {"user"})
        /\ registered' = registered \cup {SenderOf[c]}
     \/ /\ Replies(c, action, "ErrInternal", {})
        /\ UNCHANGED registered
  /\ UNCHANGED geminiVars

PeriodErrors ==
  {"ErrInvalidRequest", "ErrUnclearReportPeriod", "ErrInvalidReportPeriodRange",
   "ErrReportNotFound", "ErrInternal"}

\* The actions that need no parser now, and how each may fail.  A page is shown in reply to
\* a message that looks like the foot of one.
DirectErrors ==
  [RECORD |-> {"ErrInvalidRequest"}, MCP |-> {"ErrInternal"}, DETAIL_PAGE |-> PeriodErrors,
   UNKNOWN |-> {"ErrInvalidRequest"}]

\* What they change: a line in the queue of the batcher, or a token.
Changes(action) ==
  IF action = "RECORD" THEN {"line"} ELSE IF action = "MCP" THEN {"token"} ELSE {}

Direct(c, action, quote) ==
  /\ Admitted(c, action) /\ action \in DOMAIN DirectErrors
  /\ \/ /\ action # "UNKNOWN" /\ (action = "DETAIL_PAGE" => quote.kind \in {"page", "other"})
        /\ Replies(c, action, "ok", Changes(action))
     \/ \E code \in DirectErrors[action] : Replies(c, action, code, {})
  /\ UNCHANGED <<registered, geminiVars>>

\* An amend finds no transaction of the user at the message, before the parser is called.
NothingToAmend(c, action) ==
  /\ Admitted(c, action) /\ action = "AMEND"
  /\ \E code \in {"ErrTransactionNotFound", "ErrInvalidRequest", "ErrInternal"} :
       Replies(c, action, code, {})
  /\ UNCHANGED <<registered, geminiVars>>

\* Reports and amends call the parser: an amend when the message is a card, since the rows
\* hold the ids of cards only.
AskParser(c, action, quote) ==
  /\ Admitted(c, action) /\ action \in {"SUMMARY", "DETAIL", "AMEND"}
  /\ action = "AMEND" => quote.kind = "card"
  /\ job' = [job EXCEPT ![c] = [phase |-> "parse", action |-> action, code |-> "none"]]
  /\ granted' = [granted EXCEPT ![c] = {}]
  /\ Ask(c)
  /\ UNCHANGED registered

\* The parser failed: an amend passes its code on, a report calls any failure internal.
ParserFailed(c) ==
  /\ job[c].phase = "parse" /\ call[c].end \in Failures
  /\ Replies(c, job[c].action,
             IF job[c].action = "AMEND" THEN call[c].end ELSE "ErrInternal", {})
  /\ Forget(c)
  /\ UNCHANGED <<registered, quoted, count>>

\* The parser answered: a report is read.
Report(c) ==
  /\ job[c].phase = "parse" /\ call[c].end = "text" /\ job[c].action # "AMEND"
  /\ \E code \in {"ok"} \cup PeriodErrors : Replies(c, job[c].action, code, {})
  /\ Forget(c)
  /\ UNCHANGED <<registered, quoted, count>>

\* Broken variant: the answer is read after the transaction was written.
AmendThenRead(c) ==
  /\ job[c].phase = "parse" /\ call[c].end = "text" /\ job[c].action = "AMEND"
  /\ \E code \in {"ok", "uncoded"}, change \in {"update", "delete"} :
       Replies(c, "AMEND", code, {change})
  /\ Forget(c)
  /\ UNCHANGED <<registered, quoted, count>>

\* The parser answered: the transaction is updated or deleted; a text that means neither is
\* no valid amend.  An answer that is no JSON is an error without a code, and the reply to
\* it has no text.
Amend(c) ==
  /\ job[c].phase = "parse" /\ call[c].end = "text" /\ job[c].action = "AMEND"
  /\ \/ \E changes \in {{"update"}, {"delete"}} : Replies(c, "AMEND", "ok", changes)
     \/ \E code \in {"uncoded", "ErrInvalidRequest", "ErrInternal"} :
          Replies(c, "AMEND", code, {})
  /\ Forget(c)
  /\ UNCHANGED <<registered, quoted, count>>

\* The replies are sent; the worker takes its next job.
SendReplies(c) ==
  /\ job[c].phase = "reply"
  /\ job' = [job EXCEPT ![c] = NoJob]
  /\ quoted' = [quoted EXCEPT ![c] = NoQuote]
  /\ UNCHANGED <<registered, count, granted, geminiVars>>

Process(c, words, quote) ==
  \E action \in {PredictAction(words, quote, c \in Groups)} :
    /\ Arrives(c, quote)
    /\ \/ RefuseUser(c, action) \/ RefuseGroup(c, action) \/ Register(c, action)
       \/ Direct(c, action, quote) \/ NothingToAmend(c, action) \/ AskParser(c, action, quote)

ChatNext ==
  \E c \in Chats :
    \/ \E words \in Words, quote \in Quotes \cup {NoQuote} : Process(c, words, quote)
    \/ ParserFailed(c) \/ Report(c) \/ Amend(c) \/ SendReplies(c)

-----------------------------------------------------------------------------

ChatTypeOK ==
  /\ registered \subseteq {SenderOf[c] : c \in Chats}
  /\ \A c \in Chats :
       /\ job[c].phase \in {"idle", "parse", "reply"}
       /\ quoted[c] \in Quotes \cup {NoQuote}
       /\ count[c] \in 0 .. MaxMessages
       /\ granted[c] \subseteq {"user", "line", "token", "update", "delete"}

\* "Required before anything else" (README, Register): whatever chats and words a sender
\* uses, nothing is changed for a sender who is not registered, and in no group anything.
RegisterFirst ==
  \A c \in Chats : granted[c] # {} => SenderOf[c] \in registered /\ c \notin Groups

\* A user who is answered with an error, or with nothing, finds everything as it was.
ErrorChangesNothing ==
  \A c \in Chats : job[c].phase = "reply" /\ job[c].code # "ok" => granted[c] = {}

\* "Reply to this message to update or delete this transaction", "... to see more" (the
\* templates of a card and of the foot of a page): such a reply means what they say,
\* whatever words the reply has, but for a card that speaks of a page.  A reply to any
\* other message of the bot, many of which say EXPENSE or PAGE too, changes nothing, and
\* no reply is ever recorded as a transaction or makes a token.
RepliesReach ==
  \A c \in Chats :
    job[c].phase # "idle" =>
      /\ quoted[c].kind = "card" /\ "PAGE" \notin quoted[c].words => job[c].action = "AMEND"
      /\ quoted[c].kind = "page" => job[c].action = "DETAIL_PAGE"
      /\ quoted[c].kind \notin {"none", "card"} => granted[c] = {}
      /\ quoted[c].kind = "card" => granted[c] \subseteq {"update", "delete"}
=============================================================================
