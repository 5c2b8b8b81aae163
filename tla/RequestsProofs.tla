--------------------------- MODULE RequestsProofs ---------------------------
(***************************************************************************)
(* Proofs about the requests of the chats and the batch (Requests), for    *)
(* any chats, users, words, lines and answers of the parser.               *)
(***************************************************************************)
EXTENDS Requests, SequenceTheorems, FiniteSetTheorems, WellFoundedInduction, TLAPS

\* A chat whose worker waits for the parser belongs to a user who was admitted.
WaitsAdmitted ==
  \A c \in Chats :
    job[c].phase = "parse" => SenderOf[c] \in registered /\ c \notin Groups

\* The functions over the chats and the lines.
Domains == DOMAIN job = Chats /\ DOMAIN granted = Chats /\ DOMAIN results = Lines

\* A quip is kept only where it was asked for, and of the lines of a user one asks.
QuipsAsked ==
  /\ \A i \in Lines : results[i].quip \in BOOLEAN
  /\ \A i \in Lines : results[i].quip => i \in quips
  /\ step \in {"idle", "parse"} => \A i \in Lines : ~results[i].quip
  /\ \A i, j \in Lines : i \in quips /\ j \in quips /\ LineUser[i] = LineUser[j] => i = j
  /\ pos \in Lines

\* A batch that the parser has not answered has left no row.
NothingYet == step \in {"idle", "parse"} => created = <<>>

ChatInv == WaitsAdmitted /\ RegisterFirst /\ ErrorChangesNothing
RequestsInv == Domains /\ ChatInv /\ QuipsAsked /\ NothingYet

-----------------------------------------------------------------------------
(* The chats.                                                               *)

\* At the start nobody waits, and nothing was changed.
LEMMA InitRequests == Init => RequestsInv
<1> SUFFICES ASSUME Init PROVE RequestsInv
  OBVIOUS
<1> USE DEF Init, ChatInit, BatchInit
<1>1. /\ DOMAIN job = Chats /\ DOMAIN granted = Chats /\ DOMAIN results = Lines
      /\ \A c \in Chats : job[c].phase = "idle" /\ granted[c] = {}
      /\ \A i \in Lines : results[i].quip = FALSE
  BY DEF NoJob, NoResult
<1>2. 1 \in Lines
  BY SizeAssumption DEF Lines
<1> QED
  BY <1>1, <1>2 DEF RequestsInv, Domains, ChatInv, WaitsAdmitted, RegisterFirst,
                    ErrorChangesNothing, QuipsAsked, NothingYet

\* A reply that is about to be sent: its code is "ok", or it changed nothing, and what it
\* changed it changed for a user who was admitted.
LEMMA RepliesKeep ==
  ASSUME Domains, ChatInv, NEW c \in Chats, NEW action, NEW code, NEW changes,
         Replies(c, action, code, changes), registered \subseteq registered',
         code = "ok" \/ changes = {},
         changes # {} => SenderOf[c] \in registered' /\ c \notin Groups
  PROVE  ChatInv' /\ DOMAIN job' = Chats /\ DOMAIN granted' = Chats
<1>1. /\ DOMAIN job' = Chats /\ DOMAIN granted' = Chats
      /\ job'[c] = [phase |-> "reply", action |-> action, code |-> code]
      /\ granted'[c] = changes
      /\ \A d \in Chats : d # c => job'[d] = job[d] /\ granted'[d] = granted[d]
  BY DEF Replies, Domains
<1>2. job'[c].phase = "reply" /\ job'[c].code = code
  BY <1>1
<1>3. WaitsAdmitted'
  BY <1>1, <1>2 DEF ChatInv, WaitsAdmitted
<1>4. RegisterFirst'
  BY <1>1 DEF ChatInv, RegisterFirst
<1>5. ErrorChangesNothing'
  BY <1>1, <1>2 DEF ChatInv, ErrorChangesNothing
<1> QED
  BY <1>1, <1>3, <1>4, <1>5 DEF ChatInv

\* A message that arrives is refused, answered at once, or waits for the parser.
LEMMA ProcessKeeps ==
  ASSUME Domains, ChatInv, NEW c \in Chats, NEW words, NEW quote,
         Process(c, words, quote)
  PROVE  ChatInv' /\ DOMAIN job' = Chats /\ DOMAIN granted' = Chats
<1> DEFINE action == PredictAction(words, quote, c \in Groups)
<1> HIDE DEF action
<1>0. \/ RefuseUser(c, action) \/ RefuseGroup(c, action) \/ Register(c, action)
      \/ Direct(c, action, quote) \/ NothingToAmend(c, action) \/ AskParser(c, action, quote)
  BY DEF Process, action
<1>1. CASE RefuseUser(c, action)
  BY <1>1, RepliesKeep DEF RefuseUser
<1>2. CASE RefuseGroup(c, action)
  BY <1>2, RepliesKeep DEF RefuseGroup
<1>3. CASE Register(c, action)
  <2>1. c \notin Groups
    BY <1>3 DEF Register, Admitted
  <2>2. CASE /\ Replies(c, action, "ok",
                        IF SenderOf[c] \in registered THEN {} ELSE {"user"})
             /\ registered' = registered \cup {SenderOf[c]}
    BY <2>1, <2>2, RepliesKeep
  <2>3. CASE Replies(c, action, "ErrInternal", {}) /\ UNCHANGED registered
    BY <2>3, RepliesKeep
  <2> QED
    BY <1>3, <2>2, <2>3 DEF Register
<1>4. CASE Direct(c, action, quote)
  <2>1. /\ c \notin Groups /\ registered' = registered
        /\ action \in {"RECORD", "MCP", "DETAIL_PAGE", "UNKNOWN"}
    BY <1>4 DEF Direct, Admitted, DirectErrors
  <2>2. SenderOf[c] \in registered
    BY <1>4, <2>1 DEF Direct, Admitted, Known
  <2>3. CASE Replies(c, action, "ok", Changes(action))
    BY <2>1, <2>2, <2>3, RepliesKeep
  <2>4. CASE \E code \in DirectErrors[action] : Replies(c, action, code, {})
    BY <2>1, <2>4, RepliesKeep
  <2> QED
    BY <1>4, <2>3, <2>4 DEF Direct
<1>5. CASE NothingToAmend(c, action)
  BY <1>5, RepliesKeep DEF NothingToAmend
<1>6. CASE AskParser(c, action, quote)
  <2>1. SenderOf[c] \in registered /\ c \notin Groups
    BY <1>6 DEF AskParser, Admitted, Known
  <2>2. /\ job' = [job EXCEPT ![c] = [phase |-> "parse", action |-> action, code |-> "none"]]
        /\ granted' = [granted EXCEPT ![c] = {}]
        /\ registered' = registered
    BY <1>6 DEF AskParser
  <2>3. /\ DOMAIN job' = Chats /\ DOMAIN granted' = Chats
        /\ job'[c].phase = "parse" /\ granted'[c] = {}
        /\ \A d \in Chats : d # c => job'[d] = job[d] /\ granted'[d] = granted[d]
    BY <2>2 DEF Domains
  <2> QED
    BY <2>1, <2>2, <2>3 DEF ChatInv, WaitsAdmitted, RegisterFirst, ErrorChangesNothing
<1> QED
  BY <1>0, <1>1, <1>2, <1>3, <1>4, <1>5, <1>6

\* The parser is done with a chat's request, or the replies are sent.
LEMMA FinishKeeps ==
  ASSUME Domains, ChatInv, NEW c \in Chats,
         ParserFailed(c) \/ Report(c) \/ Amend(c) \/ SendReplies(c)
  PROVE  ChatInv' /\ DOMAIN job' = Chats /\ DOMAIN granted' = Chats
<1>1. CASE ParserFailed(c)
  BY <1>1, RepliesKeep DEF ParserFailed
<1>2. CASE Report(c)
  BY <1>2, RepliesKeep DEF Report
<1>3. CASE Amend(c)
  <2>1. SenderOf[c] \in registered /\ c \notin Groups /\ registered' = registered
    BY <1>3 DEF Amend, ChatInv, WaitsAdmitted
  <2>2. CASE \E changes \in {{"update"}, {"delete"}} : Replies(c, "AMEND", "ok", changes)
    BY <2>1, <2>2, RepliesKeep
  <2>3. CASE \E code \in {"uncoded", "ErrInvalidRequest", "ErrInternal"} :
               Replies(c, "AMEND", code, {})
    BY <2>1, <2>3, RepliesKeep
  <2> QED
    BY <1>3, <2>2, <2>3 DEF Amend
<1>4. CASE SendReplies(c)
  <2>1. /\ DOMAIN job' = Chats /\ job'[c].phase = "idle"
        /\ \A d \in Chats : d # c => job'[d] = job[d]
        /\ granted' = granted /\ registered' = registered
    BY <1>4 DEF SendReplies, Domains, NoJob
  <2> QED
    BY <2>1 DEF ChatInv, WaitsAdmitted, RegisterFirst, ErrorChangesNothing, Domains
<1> QED
  BY <1>1, <1>2, <1>3, <1>4

-----------------------------------------------------------------------------
(* The batch.                                                               *)

\* selectQuipPositions: of the lines of a user one asks.
LEMMA OneAsks ==
  ASSUME NEW s \in SUBSET Lines,
         \A i \in Lines : Cardinality(s \cap LinesOf(LineUser[i])) = 1,
         NEW i \in s, NEW j \in s, LineUser[i] = LineUser[j]
  PROVE  i = j
<1> DEFINE both == s \cap LinesOf(LineUser[i])
<1>1. IsFiniteSet(Lines)
  BY SizeAssumption, FS_Interval DEF Lines
<1>2. IsFiniteSet(both)
  BY <1>1, FS_Subset
<1>3. Cardinality(both) = 1
  OBVIOUS
<1>4. PICK x : both = {x}
  BY <1>2, <1>3, FS_Singleton
<1>5. i \in both /\ j \in both
  BY DEF LinesOf
<1> QED
  BY <1>4, <1>5

\* A result for the line that is saved now: it has a quip only if the line asked.
QuipFits(result) == result.quip \in BOOLEAN /\ (result.quip => pos \in quips)

\* recordItem: one line gets its result, with a quip only if it asked.
LEMMA LineKeeps ==
  ASSUME Domains, QuipsAsked, step = "save", NextLine, UNCHANGED quips,
         NEW result, QuipFits(result),
         results' = [results EXCEPT ![pos] = result]
  PROVE  QuipsAsked' /\ DOMAIN results' = Lines /\ step' \in {"save", "done"}
<1>1. /\ DOMAIN results' = Lines
      /\ results'[pos] = result
      /\ \A i \in Lines : i # pos => results'[i] = results[i]
  BY DEF Domains, QuipsAsked
<1>2. pos' \in Lines /\ step' \in {"save", "done"}
  BY SizeAssumption DEF NextLine, QuipsAsked, Lines
<1>3. \A i \in Lines : results'[i].quip \in BOOLEAN
  BY <1>1 DEF QuipsAsked, QuipFits
<1>4. \A i \in Lines : results'[i].quip => i \in quips'
  BY <1>1 DEF QuipsAsked, QuipFits
<1> QED
  BY <1>1, <1>2, <1>3, <1>4 DEF QuipsAsked

\* One step of Execute.
LEMMA BatchKeeps ==
  ASSUME Domains, QuipsAsked, NothingYet, BatchNext
  PROVE  QuipsAsked' /\ NothingYet' /\ DOMAIN results' = Lines
<1>1. CASE Execute
  <2>1. PICK s \in SUBSET Lines :
          /\ \A i \in Lines : Cardinality(s \cap LinesOf(LineUser[i])) = 1
          /\ quips' = s
    BY <1>1 DEF Execute
  <2>2. \A i, j \in Lines :
          i \in quips' /\ j \in quips' /\ LineUser[i] = LineUser[j] => i = j
    BY <2>1, OneAsks
  <2>3. /\ step = "idle" /\ step' = "parse" /\ results' = results /\ pos' = pos
        /\ created' = created
    BY <1>1 DEF Execute
  <2>4. \A i \in Lines : ~results[i].quip
    BY <2>3 DEF QuipsAsked
  <2> QED
    BY <2>2, <2>3, <2>4 DEF QuipsAsked, NothingYet, Domains
<1>2. ASSUME step = "parse", UNCHANGED <<quips, created, pos>>,
             results' = results \/ \E code : results' = [i \in Lines |-> Failed(code)],
             step' \in {"idle", "done"}
      PROVE  QuipsAsked' /\ NothingYet' /\ DOMAIN results' = Lines
  <2>1. DOMAIN results' = Lines /\ \A i \in Lines : results'[i].quip = FALSE
    <3>1. CASE results' = results
      BY <1>2, <3>1 DEF QuipsAsked, Domains
    <3>2. CASE \E code : results' = [i \in Lines |-> Failed(code)]
      BY <3>2 DEF Failed
    <3> QED
      BY <1>2, <3>1, <3>2
  <2> QED
    BY <1>2, <2>1 DEF QuipsAsked, NothingYet
<1>3. CASE ParseFails
  BY <1>2, <1>3 DEF ParseFails
<1>4. CASE Malformed
  BY <1>2, <1>4 DEF Malformed
<1>5. CASE Parsed
  <2>1. /\ step = "parse" /\ step' = "save" /\ pos' = 1
        /\ UNCHANGED <<quips, results, created>>
    BY <1>5 DEF Parsed
  <2>2. 1 \in Lines
    BY SizeAssumption DEF Lines
  <2> QED
    BY <2>1, <2>2 DEF QuipsAsked, NothingYet, Domains
<1>6. CASE RejectItem
  <2>1. step = "save" /\ NextLine /\ UNCHANGED quips
    BY <1>6 DEF RejectItem
  <2>2. PICK code : results' = [results EXCEPT ![pos] = Failed(code)]
    BY <1>6 DEF RejectItem
  <2>3. Failed(code).quip = FALSE
    BY DEF Failed
  <2>4. QuipsAsked' /\ DOMAIN results' = Lines /\ step' \in {"save", "done"}
    <3> DEFINE result == Failed(code)
    <3>1. QuipFits(result) /\ results' = [results EXCEPT ![pos] = result]
      BY <2>2, <2>3 DEF QuipFits
    <3> HIDE DEF result
    <3> QED
      BY ONLY Domains, QuipsAsked, <2>1, <3>1, LineKeeps
  <2> QED
    BY <2>4 DEF NothingYet
<1>7. CASE SaveItem
  <2> DEFINE saved == [outcome |-> "saved", from |-> ParsedByIndex(pos), quip |-> pos \in quips]
             failed == Failed("ErrInternal")
  <2>1. step = "save" /\ NextLine /\ UNCHANGED quips
    BY <1>7 DEF SaveItem
  <2>2. \/ results' = [results EXCEPT ![pos] = saved]
        \/ results' = [results EXCEPT ![pos] = failed]
    BY <1>7 DEF SaveItem
  <2>6. QuipFits(failed)
    BY DEF QuipFits, Failed
  <2>3. QuipFits(saved)
    <3>1. CASE pos \in quips
      <4>1. saved.quip = TRUE
        BY <3>1
      <4> HIDE DEF saved
      <4> QED
        BY <3>1, <4>1 DEF QuipFits
    <3>2. CASE pos \notin quips
      <4>2. (pos \in quips) = FALSE
        BY <3>2
      <4>3. saved.quip = (pos \in quips)
        BY Zenon
      <4>1. saved.quip = FALSE
        <5> HIDE DEF saved
        <5> QED
          BY <4>2, <4>3
      <4> HIDE DEF saved
      <4> QED
        BY <3>2, <4>1 DEF QuipFits
    <3> QED
      BY <3>1, <3>2
  <2> HIDE DEF saved, failed
  <2>4. CASE results' = [results EXCEPT ![pos] = saved]
    <3>1. QuipsAsked' /\ DOMAIN results' = Lines /\ step' \in {"save", "done"}
      BY ONLY Domains, QuipsAsked, <2>1, <2>3, <2>4, LineKeeps
    <3> QED
      BY <3>1 DEF NothingYet
  <2>5. CASE results' = [results EXCEPT ![pos] = failed]
    <3>1. QuipsAsked' /\ DOMAIN results' = Lines /\ step' \in {"save", "done"}
      BY ONLY Domains, QuipsAsked, <2>1, <2>5, <2>6, LineKeeps
    <3> QED
      BY <3>1 DEF NothingYet
  <2> QED
    BY <2>2, <2>4, <2>5
<1> QED
  BY <1>1, <1>3, <1>4, <1>5, <1>6, <1>7 DEF BatchNext

-----------------------------------------------------------------------------
(* The theorems.                                                            *)

\* Each step keeps the invariant.
LEMMA RequestsStep == RequestsInv /\ [Next]_vars => RequestsInv'
<1> SUFFICES ASSUME RequestsInv, [Next]_vars PROVE RequestsInv'
  OBVIOUS
<1> USE DEF RequestsInv
<1>1. ASSUME UNCHANGED chatVars
      PROVE  ChatInv' /\ DOMAIN job' = Chats /\ DOMAIN granted' = Chats
  BY <1>1 DEF chatVars, ChatInv, Domains, WaitsAdmitted, RegisterFirst, ErrorChangesNothing
<1>2. ASSUME UNCHANGED batchVars
      PROVE  QuipsAsked' /\ NothingYet' /\ DOMAIN results' = Lines
  BY <1>2 DEF batchVars, QuipsAsked, NothingYet, Domains
<1>3. CASE GeminiNext /\ UNCHANGED <<batchVars, chatVars>>
  BY <1>1, <1>2, <1>3 DEF Domains
<1>4. CASE BatchNext /\ UNCHANGED chatVars
  BY <1>1, <1>4, BatchKeeps DEF Domains
<1>5. CASE ChatNext /\ UNCHANGED batchVars
  <2>1. ChatInv' /\ DOMAIN job' = Chats /\ DOMAIN granted' = Chats
    BY <1>5, ProcessKeeps, FinishKeeps DEF ChatNext
  <2> QED
    BY <1>2, <1>5, <2>1 DEF Domains
<1>6. CASE UNCHANGED vars
  BY <1>1, <1>2, <1>6 DEF vars, Domains
<1> QED
  BY <1>3, <1>4, <1>5, <1>6 DEF Next

\* The workers of the chats and the batch, with one parser.
THEOREM RequestsInvariant == Spec => []RequestsInv
<1> QED
  BY InitRequests, RequestsStep, PTL DEF Spec

\* "Required before anything else" (README, Register): nothing is changed for a sender who
\* is not registered, whichever chats, words and replies they use, also while the parser
\* is asked (ProcessIncomingMessage).
THEOREM RegistrationComesFirst == Spec => []RegisterFirst
<1>1. RequestsInv => RegisterFirst
  BY DEF RequestsInv, ChatInv
<1> QED
  BY <1>1, RequestsInvariant, PTL

\* A user who is answered with an error finds everything as it was.
THEOREM ErrorsChangeNothing == Spec => []ErrorChangesNothing
<1>1. RequestsInv => ErrorChangesNothing
  BY DEF RequestsInv, ChatInv
<1> QED
  BY <1>1, RequestsInvariant, PTL

\* Of the lines of a user in a batch at most one gets a quip, whatever the parser writes
\* and however often the batch comes (selectQuipPositions, recordItem).
THEOREM OneQuip == Spec => []OneQuipPerUser
<1>1. RequestsInv => OneQuipPerUser
  BY DEF RequestsInv, QuipsAsked, OneQuipPerUser
<1> QED
  BY <1>1, RequestsInvariant, PTL

\* A batch that the parser has failed, however often, has left no row: it may come again.
THEOREM RetriedBatchLeftNothing == Spec => []NothingYet
<1>1. RequestsInv => NothingYet
  BY DEF RequestsInv
<1> QED
  BY <1>1, RequestsInvariant, PTL

-----------------------------------------------------------------------------
(* The numbers of the parser's answer.                                      *)

LEMMA LessThanOnNat == OpToRel(<, Nat) = {p \in Nat \X Nat : p[1] < p[2]}
  BY Zenon DEF OpToRel

\* Induction over the numbers, for a set that holds 0 and the next of each.
LEMMA SetInduction ==
  ASSUME NEW S, 0 \in S, \A n \in Nat : n \in S => n + 1 \in S
  PROVE  Nat \subseteq S
<1>1. SUFFICES ASSUME Nat \ S # {} PROVE FALSE
  OBVIOUS
<1>2. PICK n \in Nat \ S : \A m \in Nat \ S : ~(<<m, n>> \in OpToRel(<, Nat))
  BY <1>1, NatLessThanWellFounded, WFMin, Zenon
<1>3. \A m \in Nat \ S : ~ m < n
  BY <1>2, LessThanOnNat
<1>4. n - 1 \in Nat /\ n - 1 \in S
  BY <1>3
<1>5. (n - 1) + 1 \in S
  BY <1>4
<1>6. n \in Nat /\ n \notin S
  OBVIOUS
<1>7. (n - 1) + 1 = n
  BY <1>6
<1> QED
  BY <1>5, <1>6, <1>7

\* The places of the lines, and what they hold at first.
Places == [Lines -> [count : Nat, message : Nat]]
NoMessages == [i \in Lines |-> [count |-> 0, message |-> 0]]

LEMMA PlaceFacts ==
  ASSUME NEW items \in Places, NEW k \in Nat
  PROVE  /\ Place(items, k) \in Places
         /\ \A i \in Lines :
              IF i = answer[k].index
                THEN Place(items, k)[i] = [count |-> items[i].count + 1, message |-> k]
                ELSE Place(items, k)[i] = items[i]
<1> DEFINE item(i) == [count |-> items[i].count + 1, message |-> k]
<1>1. CASE answer[k].index \in Lines
  <2>1. PICK i \in Lines : i = answer[k].index
    BY <1>1
  <2>2. Place(items, k) = [items EXCEPT ![i] = item(i)]
    BY <2>1 DEF Place
  <2>3. item(i) \in [count : Nat, message : Nat]
    BY DEF Places
  <2> HIDE DEF item
  <2>4. Place(items, k) \in Places
    BY <2>2, <2>3 DEF Places
  <2>5. Place(items, k)[i] = item(i) /\ \A j \in Lines : j # i => Place(items, k)[j] = items[j]
    BY <2>2 DEF Places
  <2> QED
    BY <2>1, <2>4, <2>5 DEF item
<1>2. CASE answer[k].index \notin Lines
  BY <1>2 DEF Place
<1> QED
  BY <1>1, <1>2

\* The loop of mapParsedByIndex, message by message.
LEMMA PlacedSteps ==
  ASSUME Len(answer) \in Nat
  PROVE  Placed = [k \in 0 .. Len(answer) |->
                     IF k = 0 THEN NoMessages ELSE Place(Placed[k - 1], k)]
<1> DEFINE N == Len(answer)
           Loop(f, n) == f[0] = NoMessages /\ \A k \in 1 .. n : f[k] = Place(f[k - 1], k)
           S == {n \in Nat : \E f \in [0 .. n -> Places] : Loop(f, n)}
<1>1. 0 \in S
  <2>1. NoMessages \in Places
    BY DEF NoMessages, Places
  <2>2. [k \in 0 .. 0 |-> NoMessages] \in [0 .. 0 -> Places]
    BY <2>1
  <2>3. Loop([k \in 0 .. 0 |-> NoMessages], 0)
    OBVIOUS
  <2> QED
    BY <2>2, <2>3
<1>2. ASSUME NEW n \in Nat, n \in S PROVE n + 1 \in S
  <2>1. PICK f \in [0 .. n -> Places] : Loop(f, n)
    BY <1>2
  <2> DEFINE g == [k \in 0 .. (n + 1) |-> IF k = n + 1 THEN Place(f[n], n + 1) ELSE f[k]]
  <2>2. Place(f[n], n + 1) \in Places
    BY PlaceFacts
  <2>3. g \in [0 .. (n + 1) -> Places]
    BY <2>2
  <2>4. g[0] = NoMessages
    BY <2>1
  <2>5. ASSUME NEW k \in 1 .. (n + 1) PROVE g[k] = Place(g[k - 1], k)
    <3>1. g[k - 1] = f[k - 1]
      OBVIOUS
    <3>2. CASE k = n + 1
      BY <3>1, <3>2
    <3>3. CASE k # n + 1
      <4>1. k \in 1 .. n /\ g[k] = f[k]
        BY <3>3
      <4> QED
        BY <2>1, <3>1, <4>1
    <3> QED
      BY <3>2, <3>3
  <2>6. Loop(g, n + 1)
    BY <2>4, <2>5
  <2> HIDE DEF g, Loop
  <2> QED
    BY <2>3, <2>6
<1> HIDE DEF Loop
<1>3. Nat \subseteq S
  <2> HIDE DEF S
  <2> QED
    BY <1>1, <1>2, SetInduction
<1>4. PICK f \in [0 .. N -> Places] : Loop(f, N)
  BY <1>3
<1>5. f = [k \in 0 .. N |-> IF k = 0 THEN NoMessages ELSE Place(f[k - 1], k)]
  BY <1>4 DEF Loop
<1> QED
  BY <1>5, Zenon DEF Placed, NoMessages

\* The first n messages for a line.
MeantAmong(i, n) == {k \in 1 .. n : answer[k].index = i}

\* The places hold how many messages there were for each line, and the one if one.
LEMMA PlacedCounts ==
  ASSUME Len(answer) \in Nat, NEW i \in Lines
  PROVE  /\ Placed[Len(answer)][i].count = Cardinality(MeantAmong(i, Len(answer)))
         /\ Placed[Len(answer)][i].count = 1
              => MeantAmong(i, Len(answer)) = {Placed[Len(answer)][i].message}
<1> DEFINE N == Len(answer)
           Counts(n) == /\ Placed[n][i].count = Cardinality(MeantAmong(i, n))
                        /\ Placed[n][i].count = 1 => MeantAmong(i, n) = {Placed[n][i].message}
           S == {n \in Nat : n <= N => Placed[n] \in Places /\ Counts(n)}
<1>1. 0 \in S
  <2>1. Placed[0] = NoMessages
    BY PlacedSteps
  <2>2. Placed[0] \in Places /\ Placed[0][i].count = 0
    BY <2>1 DEF NoMessages, Places
  <2>3. MeantAmong(i, 0) = {}
    BY DEF MeantAmong
  <2>4. Cardinality(MeantAmong(i, 0)) = 0
    BY <2>3, FS_EmptySet
  <2> QED
    BY <2>2, <2>4
<1>2. ASSUME NEW n \in Nat, n \in S PROVE n + 1 \in S
  <2> SUFFICES ASSUME n + 1 <= N PROVE Placed[n + 1] \in Places /\ Counts(n + 1)
    OBVIOUS
  <2>1. Placed[n] \in Places /\ Counts(n)
    BY <1>2
  <2>2. Placed[n + 1] = Place(Placed[n], n + 1)
    <3>1. n + 1 \in 0 .. N /\ n + 1 # 0 /\ (n + 1) - 1 = n
      OBVIOUS
    <3>2. Placed[n + 1] = Place(Placed[(n + 1) - 1], n + 1)
      BY <3>1, PlacedSteps
    <3> QED
      BY <3>1, <3>2
  <2>3. /\ Placed[n + 1] \in Places
        /\ IF i = answer[n + 1].index
             THEN Placed[n + 1][i] = [count |-> Placed[n][i].count + 1, message |-> n + 1]
             ELSE Placed[n + 1][i] = Placed[n][i]
    <3> HIDE DEF Counts, S
    <3>1. PICK items \in Places, k \in Nat : items = Placed[n] /\ k = n + 1
      BY <2>1
    <3>2. /\ Place(items, k) \in Places
          /\ IF i = answer[k].index
               THEN Place(items, k)[i] = [count |-> items[i].count + 1, message |-> k]
               ELSE Place(items, k)[i] = items[i]
      BY PlaceFacts
    <3>3. Placed[n + 1] = Place(items, k)
      BY <2>2, <3>1
    <3> QED
      BY <3>1, <3>2, <3>3
  <2>4. IsFiniteSet(MeantAmong(i, n)) /\ Cardinality(MeantAmong(i, n)) \in Nat
    <3> HIDE DEF Counts, S
    <3>1. MeantAmong(i, n) \in SUBSET (1 .. n)
      BY DEF MeantAmong
    <3>2. IsFiniteSet(1 .. n)
      BY FS_Interval
    <3> QED
      BY <3>1, <3>2, FS_Subset, FS_CardinalityType
  <2>5. CASE i = answer[n + 1].index
    <3>1. MeantAmong(i, n + 1) = MeantAmong(i, n) \cup {n + 1} /\ n + 1 \notin MeantAmong(i, n)
      BY <2>5 DEF MeantAmong
    <3>2. Cardinality(MeantAmong(i, n + 1)) = Cardinality(MeantAmong(i, n)) + 1
      <4> HIDE DEF Counts
      <4> QED
        BY <3>1, <2>4, FS_AddElement
    <3>3. Placed[n + 1][i].count = Placed[n][i].count + 1 /\ Placed[n + 1][i].message = n + 1
      BY <2>3, <2>5
    <3>4. Cardinality(MeantAmong(i, n)) = 0 => MeantAmong(i, n) = {}
      BY <2>4, FS_EmptySet
    <3> QED
      BY <2>1, <2>3, <2>4, <3>1, <3>2, <3>3, <3>4
  <2>6. CASE i # answer[n + 1].index
    <3>1. MeantAmong(i, n + 1) = MeantAmong(i, n)
      BY <2>6 DEF MeantAmong
    <3>2. Placed[n + 1][i] = Placed[n][i]
      BY <2>3, <2>6
    <3> QED
      BY <2>1, <2>3, <3>1, <3>2
  <2> QED
    BY <2>5, <2>6
<1>3. N \in S
  <2> HIDE DEF S
  <2> QED
    BY <1>1, <1>2, SetInduction
<1> QED
  BY <1>3

\* mapParsedByIndex finds the one message for a line, or none.
LEMMA ParsedFacts ==
  ASSUME Len(answer) \in Nat, DOMAIN answer = 1 .. Len(answer), NEW i \in Lines
  PROVE  \/ ParsedByIndex(i) = 0 /\ Cardinality(Meant(i)) # 1
         \/ ParsedByIndex(i) \in DOMAIN answer /\ Meant(i) = {ParsedByIndex(i)}
<1>1. Meant(i) = MeantAmong(i, Len(answer))
  BY DEF Meant, MeantAmong
<1>2. CASE Placed[Len(answer)][i].count = 1
  <2>1. ParsedByIndex(i) = Placed[Len(answer)][i].message
    BY <1>2 DEF ParsedByIndex
  <2>2. Meant(i) = {ParsedByIndex(i)}
    BY <1>1, <1>2, <2>1, PlacedCounts
  <2>3. ParsedByIndex(i) \in DOMAIN answer
    BY <2>2 DEF Meant
  <2> QED
    BY <2>2, <2>3
<1>3. CASE Placed[Len(answer)][i].count # 1
  <2>1. ParsedByIndex(i) = 0
    BY <1>3 DEF ParsedByIndex
  <2> QED
    BY <1>1, <1>3, <2>1, PlacedCounts
<1> QED
  BY <1>2, <1>3

-----------------------------------------------------------------------------
(* The rows and the results of the batch.                                   *)

\* A line that has its result.
LineDone(i) == step = "done" \/ (step = "save" /\ i < pos)

Rows == Seq([line : Lines, from : Nat])

\* The lines that are done have the result of their message and the row they tell of, the
\* others have no row.
BatchInv ==
  /\ step \in {"idle", "parse", "save", "done"}
  /\ ticks \in 0 .. MaxTicks /\ quips \subseteq Lines
  /\ answer \in Answers \cup {<<>>}
  /\ step \in {"idle", "parse"} => answer = <<>>
  /\ \A i \in Lines : results[i].from \in 0 .. Len(answer)
  /\ created \in Rows
  /\ \A i \in Lines : LineDone(i) => RowAsTold(i)
  /\ \A i \in Lines : ~LineDone(i) => RowsOf(i) = {}
  /\ \A i \in Lines : LineDone(i) /\ (step = "save" \/ answer # <<>>) => LineIndependent(i)

LEMMA AnswerFacts ==
  ASSUME answer \in Answers \cup {<<>>}
  PROVE  /\ Len(answer) \in Nat /\ DOMAIN answer = 1 .. Len(answer)
         /\ \A k \in DOMAIN answer : answer[k].kind \in Kinds
<1>1. answer \in Seq([index : Int, kind : Kinds])
  BY AnswersAssumption, EmptySeq
<1>2. Len(answer) \in Nat /\ DOMAIN answer = 1 .. Len(answer)
  BY <1>1, LenProperties
<1>3. \A k \in DOMAIN answer : answer[k] \in [index : Int, kind : Kinds]
  BY <1>1, <1>2, ElementOfSeq
<1> QED
  BY <1>2, <1>3

\* recordItem: the line at pos gets a result, and a row if it is saved.
LEMMA LineRecorded ==
  ASSUME Domains, QuipsAsked, BatchInv, step = "save", NextLine,
         UNCHANGED <<ticks, quips, answer>>,
         NEW line \in Lines, line = pos,
         NEW result, results' = [results EXCEPT ![line] = result],
         result.from \in 0 .. Len(answer),
         \/ result.outcome # "saved" /\ UNCHANGED created
         \/ result.outcome = "saved"
              /\ created' = Append(created, [line |-> line, from |-> result.from]),
         LineIndependent(line)'
  PROVE  BatchInv'
<1>1. /\ results'[line] = result
      /\ \A i \in Lines : i # line => results'[i] = results[i]
  BY DEF Domains, QuipsAsked
<1>2. pos \in Lines /\ \A i \in Lines : i \in Int
  BY DEF QuipsAsked, Lines
<1>3. /\ \A i \in Lines : LineDone(i)' <=> LineDone(i) \/ i = line
      /\ ~LineDone(line)
      /\ step' \in {"save", "done"}
  BY <1>2, SizeAssumption DEF NextLine, LineDone, Lines
<1>4. Len(answer) \in Nat
  BY AnswerFacts DEF BatchInv
<1>5. \A i \in Lines : results'[i].from \in 0 .. Len(answer')
  BY <1>1 DEF BatchInv
<1>6. ASSUME NEW i \in Lines, i # line
      PROVE  LineIndependent(i)' <=> LineIndependent(i)
  <2>1. Meant(i)' = Meant(i)
    BY DEF Meant
  <2>2. results'[i] = results[i]
    BY <1>1, <1>6
  <2> QED
    BY <2>1, <2>2 DEF LineIndependent
<1>7. \A i \in Lines : LineDone(i)' => LineIndependent(i)'
  BY <1>3, <1>6 DEF BatchInv
<1>8. /\ created' \in Rows
      /\ \A i \in Lines : i # line => (RowAsTold(i)' <=> RowAsTold(i)) /\ RowsOf(i)' = RowsOf(i)
      /\ RowAsTold(line)'
  <2>1. RowsOf(line) = {} /\ created \in Rows
    BY <1>2, <1>3 DEF BatchInv
  <2>2. CASE result.outcome # "saved" /\ UNCHANGED created
    BY <1>1, <2>1, <2>2 DEF RowAsTold, RowsOf
  <2>3. CASE /\ result.outcome = "saved"
             /\ created' = Append(created, [line |-> line, from |-> result.from])
    <3>1. PICK row \in [line : Lines, from : Nat] : row = [line |-> line, from |-> result.from]
      BY <1>2, <1>4
    <3>2. /\ Len(created) \in Nat
          /\ DOMAIN created = 1 .. Len(created)
          /\ created' \in Rows
          /\ DOMAIN created' = 1 .. (Len(created) + 1)
          /\ \A k \in 1 .. Len(created) : created'[k] = created[k]
          /\ created'[Len(created) + 1] = row
      <4>1. created' = Append(created, row) /\ created \in Seq([line : Lines, from : Nat])
        BY <2>1, <2>3, <3>1 DEF Rows
      <4>2. Append(created, row) \in Seq([line : Lines, from : Nat])
        BY <4>1, AppendProperties
      <4> QED
        BY <4>1, <4>2, AppendProperties, LenProperties DEF Rows
    <3>3. row.line = line /\ row.from = result.from
      BY <3>1
    <3>4. \A i \in Lines : i # line => RowsOf(i)' = RowsOf(i)
      BY <3>2, <3>3 DEF RowsOf
    <3>5. RowsOf(line)' = {Len(created) + 1}
      BY <2>1, <3>2, <3>3 DEF RowsOf
    <3>6. RowAsTold(line)'
      BY <1>1, <2>3, <3>2, <3>3, <3>5 DEF RowAsTold
    <3>7. ASSUME NEW i \in Lines, i # line PROVE RowAsTold(i)' <=> RowAsTold(i)
      <4>1. \A k \in RowsOf(i) : created'[k] = created[k]
        BY <3>2 DEF RowsOf
      <4> QED
        BY <1>1, <3>4, <3>7, <4>1 DEF RowAsTold
    <3> QED
      BY <3>2, <3>4, <3>6, <3>7
  <2> QED
    BY <2>2, <2>3
<1>9. \A i \in Lines : LineDone(i)' => RowAsTold(i)'
  BY <1>3, <1>8 DEF BatchInv
<1>10. \A i \in Lines : ~LineDone(i)' => RowsOf(i)' = {}
  BY <1>3, <1>8 DEF BatchInv
<1> QED
  BY <1>3, <1>5, <1>7, <1>8, <1>9, <1>10 DEF BatchInv

\* A line gets what its one message leads to, or the error of a line without one.
LEMMA LineAnswered ==
  ASSUME BatchInv, NEW line \in Lines, UNCHANGED answer, NEW result, results'[line] = result,
         NEW k, k = ParsedByIndex(line),
         k = 0 => result.outcome = "ErrTransactionUnparsed",
         k # 0 => \/ result.outcome = OutcomeOf(answer[k].kind) /\ result.from \in {0, k}
                  \/ answer[k].kind = "good" /\ result.outcome = "ErrInternal"
  PROVE  LineIndependent(line)'
<1>1. Len(answer) \in Nat /\ DOMAIN answer = 1 .. Len(answer)
  BY AnswerFacts DEF BatchInv
<1>2. \/ k = 0 /\ Cardinality(Meant(line)) # 1
      \/ k \in DOMAIN answer /\ Meant(line) = {k}
  BY <1>1, ParsedFacts
<1>3. Meant(line)' = Meant(line)
  BY DEF Meant
<1>4. CASE k = 0 /\ Cardinality(Meant(line)) # 1
  BY <1>3, <1>4 DEF LineIndependent
<1>5. CASE k \in DOMAIN answer /\ Meant(line) = {k}
  <2>1. k # 0
    BY <1>1, <1>5
  <2>2. Cardinality({k}) = 1
    BY FS_Singleton
  <2>3. Cardinality(Meant(line)') = 1
    BY <1>3, <1>5, <2>2
  <2>4. \A l \in Meant(line)' : l = k
    BY <1>3, <1>5
  <2>5. \/ results'[line].outcome = OutcomeOf(answer'[k].kind) /\ results'[line].from \in {0, k}
        \/ answer'[k].kind = "good" /\ results'[line].outcome = "ErrInternal"
    BY <2>1
  <2> QED
    BY <2>3, <2>4, <2>5 DEF LineIndependent
<1> QED
  BY <1>2, <1>4, <1>5

\* One step of Execute.
LEMMA BatchSteps ==
  ASSUME Domains, QuipsAsked, BatchInv, BatchNext
  PROVE  BatchInv'
<1>1. CASE Execute
  <2>1. /\ step = "idle" /\ step' = "parse" /\ ticks < MaxTicks /\ ticks' = ticks + 1
        /\ quips' \subseteq Lines
        /\ UNCHANGED <<answer, results, created>>
    BY <1>1 DEF Execute
  <2>2. ticks' \in 0 .. MaxTicks
    BY <2>1, TicksAssumption DEF BatchInv
  <2>3. \A i \in Lines : ~LineDone(i)' /\ ~LineDone(i) /\ RowsOf(i)' = RowsOf(i)
    BY <2>1 DEF LineDone, RowsOf
  <2> QED
    BY <2>1, <2>2, <2>3 DEF BatchInv
<1>2. ASSUME step = "parse", step' \in {"idle", "done"},
             UNCHANGED <<ticks, quips, answer, created>>,
             \/ step' = "idle" /\ results' = results
             \/ results' = [i \in Lines |-> Failed("ErrInternal")]
      PROVE  BatchInv'
  <2>1. answer = <<>> /\ \A i \in Lines : RowsOf(i)' = {} /\ ~LineDone(i)
    BY <1>2 DEF BatchInv, LineDone, RowsOf
  <2>2. \A i \in Lines : results'[i].from \in 0 .. Len(answer')
    <3>1. CASE results' = results
      BY <1>2, <3>1 DEF BatchInv
    <3>2. CASE results' = [i \in Lines |-> Failed("ErrInternal")]
      BY <1>2, <2>1, <3>2 DEF Failed
    <3> QED
      BY <1>2, <3>1, <3>2
  <2>3. \A i \in Lines : LineDone(i)' => RowAsTold(i)'
    <3>1. CASE step' = "idle"
      BY <3>1 DEF LineDone
    <3>2. CASE results' = [i \in Lines |-> Failed("ErrInternal")]
      <4>1. \A i \in Lines : results'[i].outcome = "ErrInternal"
        BY <3>2 DEF Failed
      <4> QED
        BY <2>1, <4>1 DEF RowAsTold
    <3> QED
      BY <1>2, <3>1, <3>2
  <2> QED
    BY <1>2, <2>1, <2>2, <2>3 DEF BatchInv
<1>3. CASE ParseFails
  BY <1>2, <1>3 DEF ParseFails
<1>4. CASE Malformed
  BY <1>2, <1>4 DEF Malformed
<1>5. CASE Parsed
  <2>1. /\ step = "parse" /\ step' = "save" /\ pos' = 1 /\ answer' \in Answers
        /\ UNCHANGED <<ticks, quips, results, created>>
    BY <1>5 DEF Parsed
  <2>2. Len(answer') \in Nat
    <3>1. answer' \in Seq([index : Int, kind : Kinds])
      BY <2>1, AnswersAssumption
    <3> QED
      BY <3>1, LenProperties
  <2>3. \A i \in Lines : results'[i].from \in 0 .. Len(answer')
    <3>1. Len(<<>>) = 0 /\ answer = <<>>
      BY <2>1 DEF BatchInv
    <3>2. \A i \in Lines : results[i].from = 0
      BY <3>1 DEF BatchInv
    <3> QED
      BY <2>1, <2>2, <3>2
  <2>4. \A i \in Lines : ~LineDone(i)' /\ ~LineDone(i) /\ RowsOf(i)' = RowsOf(i)
    BY <2>1 DEF LineDone, RowsOf, Lines
  <2> QED
    BY <2>1, <2>3, <2>4 DEF BatchInv
<1>6. CASE RejectItem
  <2>1. /\ step = "save" /\ NextLine /\ UNCHANGED <<ticks, quips, answer, created>>
        /\ pos \in Lines
    BY <1>6 DEF RejectItem, QuipsAsked
  <2>0. PICK line \in Lines : line = pos
    BY <2>1
  <2>2. PICK k : line = pos /\ k = ParsedByIndex(line)
    BY <2>0
  <2>3. /\ Len(answer) \in Nat /\ DOMAIN answer = 1 .. Len(answer)
        /\ \A l \in DOMAIN answer : answer[l].kind \in Kinds
    BY AnswerFacts DEF BatchInv
  <2>4. k = 0 \/ k \in DOMAIN answer
    BY <2>2, <2>3, ParsedFacts
  <2>5. PICK code :
          /\ results' = [results EXCEPT ![line] = Failed(code)]
          /\ code # "saved"
          /\ k = 0 => code = "ErrTransactionUnparsed"
          /\ k # 0 => code = OutcomeOf(answer[k].kind)
    <3>1. CASE k = 0
      BY <1>6, <2>2, <3>1 DEF RejectItem
    <3>2. CASE k # 0
      <4>1. /\ answer[k].kind \in Kinds /\ answer[k].kind # "good"
            /\ results' = [results EXCEPT ![line] = Failed(OutcomeOf(answer[k].kind))]
        BY <1>6, <2>2, <2>3, <2>4, <3>2 DEF RejectItem
      <4>2. OutcomeOf(answer[k].kind) # "saved"
        BY <4>1 DEF OutcomeOf, Kinds
      <4> QED
        BY <3>2, <4>1, <4>2
    <3> QED
      BY <3>1, <3>2
  <2>6. PICK result : result = Failed(code)
    OBVIOUS
  <2>7. result.outcome = code /\ result.from = 0
    BY <2>6 DEF Failed
  <2>8. results' = [results EXCEPT ![line] = result] /\ results'[line] = result
    BY <2>5, <2>6 DEF Domains
  <2>9. LineIndependent(line)'
    BY <2>1, <2>2, <2>5, <2>7, <2>8, LineAnswered
  <2>10. result.from \in 0 .. Len(answer)
    BY <2>3, <2>7
  <2> QED
    BY <2>1, <2>2, <2>5, <2>7, <2>8, <2>9, <2>10, LineRecorded
<1>7. CASE SaveItem
  <2>1. /\ step = "save" /\ NextLine /\ UNCHANGED <<ticks, quips, answer>>
        /\ pos \in Lines
    BY <1>7 DEF SaveItem, QuipsAsked
  <2>0. PICK line \in Lines : line = pos
    BY <2>1
  <2>2. PICK k : line = pos /\ k = ParsedByIndex(line)
    BY <2>0
  <2>3. Len(answer) \in Nat /\ DOMAIN answer = 1 .. Len(answer)
    BY AnswerFacts DEF BatchInv
  <2>4. k # 0 /\ k \in DOMAIN answer /\ answer[k].kind = "good"
    BY <1>7, <2>2, <2>3, ParsedFacts DEF SaveItem
  <2> DEFINE saved == [outcome |-> "saved", from |-> k, quip |-> pos \in quips]
  <2>5. saved.outcome = "saved" /\ saved.from = k
    BY Zenon
  <2>6. \/ /\ results' = [results EXCEPT ![line] = saved]
           /\ created' = Append(created, [line |-> line, from |-> k])
        \/ /\ results' = [results EXCEPT ![line] = Failed("ErrInternal")]
           /\ UNCHANGED created
    BY <1>7, <2>2 DEF SaveItem
  <2> HIDE DEF saved
  <2>7. PICK result :
          /\ results' = [results EXCEPT ![line] = result]
          /\ result.from \in {0, k}
          /\ \/ /\ result.outcome = "saved" /\ result.from = k
                /\ created' = Append(created, [line |-> line, from |-> result.from])
             \/ result.outcome = "ErrInternal" /\ UNCHANGED created
    <3>1. CASE /\ results' = [results EXCEPT ![line] = saved]
               /\ created' = Append(created, [line |-> line, from |-> k])
      BY <2>5, <3>1
    <3>2. CASE results' = [results EXCEPT ![line] = Failed("ErrInternal")] /\ UNCHANGED created
      <4>1. PICK result : result = Failed("ErrInternal")
        OBVIOUS
      <4>2. result.outcome = "ErrInternal" /\ result.from = 0
        BY <4>1 DEF Failed
      <4>3. results' = [results EXCEPT ![line] = result]
        BY <3>2, <4>1
      <4> QED
        BY <3>2, <4>2, <4>3
    <3> QED
      BY <2>6, <3>1, <3>2
  <2>8. results'[line] = result
    BY <2>7 DEF Domains
  <2>9. LineIndependent(line)'
    <3>1. OutcomeOf(answer[k].kind) = "saved"
      BY <2>4 DEF OutcomeOf
    <3> QED
      BY <2>1, <2>2, <2>4, <2>7, <2>8, <3>1, LineAnswered
  <2>10. result.from \in 0 .. Len(answer)
    BY <2>3, <2>4, <2>7
  <2>11. \/ result.outcome # "saved" /\ UNCHANGED created
         \/ result.outcome = "saved"
              /\ created' = Append(created, [line |-> line, from |-> result.from])
    BY <2>7
  <2> QED
    BY <2>1, <2>2, <2>7, <2>9, <2>10, <2>11, LineRecorded
<1> QED
  BY <1>1, <1>3, <1>4, <1>5, <1>6, <1>7 DEF BatchNext

LEMMA InitBatch == Init => BatchInv
<1> SUFFICES ASSUME Init PROVE BatchInv
  OBVIOUS
<1>1. /\ step = "idle" /\ ticks = 0 /\ quips = {} /\ answer = <<>> /\ created = <<>>
      /\ results = [i \in Lines |-> NoResult]
  BY DEF Init, BatchInit
<1>2. \A i \in Lines : results[i].from = 0
  BY <1>1 DEF NoResult
<1>3. created \in Rows /\ \A i \in Lines : RowsOf(i) = {} /\ ~LineDone(i)
  BY <1>1, EmptySeq DEF Rows, RowsOf, LineDone
<1> QED
  BY <1>1, <1>2, <1>3, TicksAssumption DEF BatchInv

\* What the chats and the client of Gemini do is nothing to the batch.
LEMMA BatchUnchanged ==
  ASSUME BatchInv, UNCHANGED batchVars
  PROVE  BatchInv'
<1>1. UNCHANGED <<step, ticks, quips, answer, pos, results, created>>
  BY DEF batchVars
<1>2. \A i \in Lines : RowsOf(i)' = RowsOf(i) /\ Meant(i)' = Meant(i)
  BY <1>1 DEF RowsOf, Meant
<1>3. \A i \in Lines :
        /\ LineDone(i)' <=> LineDone(i)
        /\ RowAsTold(i)' <=> RowAsTold(i)
        /\ LineIndependent(i)' <=> LineIndependent(i)
  BY <1>1, <1>2 DEF LineDone, RowAsTold, LineIndependent
<1> QED
  BY <1>1, <1>2, <1>3 DEF BatchInv

\* The batch line by line, among the requests of the chats.
THEOREM BatchInvariant == Spec => [](RequestsInv /\ BatchInv)
<1>1. RequestsInv /\ BatchInv /\ [Next]_vars => RequestsInv' /\ BatchInv'
  <2> SUFFICES ASSUME RequestsInv, BatchInv, [Next]_vars PROVE BatchInv'
    BY RequestsStep
  <2>1. Domains /\ QuipsAsked
    BY DEF RequestsInv
  <2>2. CASE BatchNext
    BY <2>1, <2>2, BatchSteps
  <2>3. CASE UNCHANGED batchVars
    BY <2>3, BatchUnchanged
  <2> QED
    BY <2>2, <2>3 DEF Next, vars
<1> QED
  BY <1>1, InitRequests, InitBatch, PTL DEF Spec

\* "One bad item never fails the others" (RecordBatch.Execute, mapParsedByIndex): whatever
\* list of messages the parser answers with, of whatever length, what comes of a line
\* depends on the messages with its number alone.
THEOREM LinesAreIndependent == Spec => []LinesIndependent
<1>1. BatchInv => LinesIndependent
  BY DEF BatchInv, LinesIndependent, LineDone
<1> QED
  BY <1>1, BatchInvariant, PTL

\* The rows that a batch creates and the results it returns agree line by line, and a batch
\* that the parser failed has left none (recordItem).
THEOREM RowsTold == Spec => []RowsAsTold
<1>1. RequestsInv /\ BatchInv => RowsAsTold
  BY DEF RequestsInv, NothingYet, BatchInv, RowsAsTold, LineDone
<1> QED
  BY <1>1, BatchInvariant, PTL

-----------------------------------------------------------------------------
(* What a reply means, and the types.                                       *)

\* A chat's message, what it replies to, and what it has changed.
Fits(message, quote, n, changes) ==
  /\ message.phase \in {"idle", "parse", "reply"}
  /\ quote \in Quotes \cup {NoQuote}
  /\ n \in 0 .. MaxMessages
  /\ changes \subseteq {"user", "line", "token", "update", "delete"}
  /\ message.phase # "idle" =>
       /\ quote.kind = "card" /\ "PAGE" \notin quote.words => message.action = "AMEND"
       /\ quote.kind = "page" => message.action = "DETAIL_PAGE"
       /\ quote.kind \notin {"none", "card"} => changes = {}
       /\ quote.kind = "card" => changes \subseteq {"update", "delete"}
  /\ message.phase = "parse" /\ message.action = "AMEND" => quote.kind = "card"

Senders == {SenderOf[c] : c \in Chats}

\* Every chat fits; an amend that waits for the parser is a reply to a card.
RepliesInv ==
  /\ DOMAIN quoted = Chats /\ DOMAIN count = Chats
  /\ registered \subseteq Senders
  /\ \A c \in Chats : Fits(job[c], quoted[c], count[c], granted[c])

\* MappingReplyAction, spelled out.
LEMMA ReplyMeans ==
  ASSUME NEW words
  PROVE  FirstRule(ReplyRules, words, "UNKNOWN") =
           IF "PAGE" \in words THEN "DETAIL_PAGE"
           ELSE IF "EXPENSE" \in words THEN "AMEND" ELSE "UNKNOWN"
<1> DEFINE hits == {k \in DOMAIN ReplyRules : ReplyRules[k][1] \in words}
<1>1. /\ DOMAIN ReplyRules = {1, 2}
      /\ ReplyRules[1] = <<"PAGE", "DETAIL_PAGE">>
      /\ ReplyRules[2] = <<"EXPENSE", "AMEND">>
  BY DEF ReplyRules
<1>2. /\ hits = {k \in {1, 2} : IF k = 1 THEN "PAGE" \in words ELSE "EXPENSE" \in words}
      /\ ReplyRules[1][2] = "DETAIL_PAGE" /\ ReplyRules[2][2] = "AMEND"
  BY <1>1
<1>3. FirstRule(ReplyRules, words, "UNKNOWN") =
        IF hits = {} THEN "UNKNOWN" ELSE ReplyRules[Min(hits)][2]
  BY DEF FirstRule
<1> HIDE DEF hits
<1>4. CASE "PAGE" \in words
  <2>1. 1 \in hits /\ \A k \in hits : 1 <= k
    BY <1>2, <1>4
  <2>2. Min(hits) = 1
    <3>1. \A k \in hits : k \in {1, 2}
      BY <1>2
    <3> QED
      BY <2>1, <3>1 DEF Min
  <2> QED
    BY <1>2, <1>3, <1>4, <2>1, <2>2
<1>5. CASE "PAGE" \notin words /\ "EXPENSE" \in words
  <2>1. hits = {2}
    BY <1>2, <1>5
  <2>2. Min(hits) = 2
    BY <2>1 DEF Min
  <2> QED
    BY <1>2, <1>3, <1>5, <2>1, <2>2
<1>6. CASE "PAGE" \notin words /\ "EXPENSE" \notin words
  BY <1>2, <1>3, <1>6
<1> QED
  BY <1>4, <1>5, <1>6

\* A reply to a card amends and a reply to the foot of a page shows the next one, whatever
\* words the reply has; every reply is one of these, or unknown.
LEMMA ReplyPredicted ==
  ASSUME NEW words, NEW quote \in Quotes \cup {NoQuote}, NEW isGroup,
         NEW action, action = PredictAction(words, quote, isGroup)
  PROVE  /\ quote.kind = "card" /\ "PAGE" \notin quote.words => action = "AMEND"
         /\ quote.kind = "page" => action = "DETAIL_PAGE"
         /\ quote.kind # "none" => action \in {"DETAIL_PAGE", "AMEND", "UNKNOWN"}
<1>1. CASE quote = NoQuote
  <2>1. quote.kind = "none"
    BY <1>1 DEF NoQuote
  <2> QED
    BY <2>1
<1>2. CASE quote # NoQuote
  <2>1. action = IF "PAGE" \in quote.words THEN "DETAIL_PAGE"
                 ELSE IF "EXPENSE" \in quote.words THEN "AMEND" ELSE "UNKNOWN"
    BY <1>2, ReplyMeans DEF PredictAction
  <2>2. quote \in Quotes
    BY <1>2
  <2>3. /\ quote.kind = "card" => "EXPENSE" \in quote.words
        /\ quote.kind = "page" => "PAGE" \in quote.words
    BY <2>2 DEF Quotes, CardWords, PageWords
  <2> QED
    BY <2>1, <2>3
<1> QED
  BY <1>1, <1>2

\* A step of one chat.
LEMMA OneChat ==
  ASSUME RepliesInv, NEW c \in Chats, DOMAIN quoted' = Chats, DOMAIN count' = Chats,
         \A d \in Chats \ {c} :
           /\ job'[d] = job[d] /\ quoted'[d] = quoted[d]
           /\ count'[d] = count[d] /\ granted'[d] = granted[d],
         registered' \subseteq Senders,
         Fits(job'[c], quoted'[c], count'[c], granted'[c])
  PROVE  RepliesInv'
<1> QED
  BY DEF RepliesInv, Senders, Fits

\* A message that arrived: it is answered, or waits for the parser.
LEMMA MessageFits ==
  ASSUME RepliesInv, Domains, NEW c \in Chats, NEW words, NEW quote \in Quotes \cup {NoQuote},
         Arrives(c, quote), NEW action, action = PredictAction(words, quote, c \in Groups),
         NEW phase \in {"parse", "reply"}, NEW code, NEW changes,
         job' = [job EXCEPT ![c] = [phase |-> phase, action |-> action, code |-> code]],
         granted' = [granted EXCEPT ![c] = changes],
         changes \subseteq {"user", "line", "token", "update", "delete"},
         quote.kind # "none" => changes = {},
         phase = "parse" /\ action = "AMEND" => quote.kind = "card",
         registered' \subseteq Senders
  PROVE  RepliesInv'
<1>1. PICK message : message = [phase |-> phase, action |-> action, code |-> code]
  OBVIOUS
<1>2. message.phase = phase /\ message.action = action
  BY <1>1
<1>3. /\ quoted' = [quoted EXCEPT ![c] = quote] /\ count' = [count EXCEPT ![c] = count[c] + 1]
      /\ count[c] < MaxMessages
  BY DEF Arrives
<1>4. /\ job'[c] = message /\ granted'[c] = changes
      /\ quoted'[c] = quote /\ count'[c] = count[c] + 1
      /\ DOMAIN quoted' = Chats /\ DOMAIN count' = Chats
      /\ \A d \in Chats \ {c} :
           /\ job'[d] = job[d] /\ quoted'[d] = quoted[d]
           /\ count'[d] = count[d] /\ granted'[d] = granted[d]
  BY <1>1, <1>3 DEF RepliesInv, Domains
<1>5. count'[c] \in 0 .. MaxMessages
  BY <1>3, <1>4, MessagesAssumption DEF RepliesInv, Fits
<1>6. Fits(message, quote, count'[c], changes)
  BY <1>2, <1>5, ReplyPredicted DEF Fits
<1> QED
  BY <1>4, <1>6, OneChat

\* A message is processed.
LEMMA ProcessFits ==
  ASSUME RepliesInv, Domains, NEW c \in Chats, NEW words, NEW quote \in Quotes \cup {NoQuote},
         Process(c, words, quote)
  PROVE  RepliesInv'
<1>1. PICK action :
        /\ action = PredictAction(words, quote, c \in Groups)
        /\ \/ RefuseUser(c, action) \/ RefuseGroup(c, action) \/ Register(c, action)
           \/ Direct(c, action, quote) \/ NothingToAmend(c, action) \/ AskParser(c, action, quote)
  BY DEF Process
<1>2. Arrives(c, quote)
  BY DEF Process
<1>3. ASSUME NEW code, NEW changes, Replies(c, action, code, changes),
             registered' \subseteq registered \cup {SenderOf[c]},
             changes \subseteq {"user", "line", "token"},
             changes # {} => action \in {"REGISTRATION", "RECORD", "MCP"}
      PROVE  RepliesInv'
  <2>1. registered' \subseteq Senders
    BY <1>3 DEF RepliesInv, Senders
  <2>2. /\ job' = [job EXCEPT ![c] = [phase |-> "reply", action |-> action, code |-> code]]
        /\ granted' = [granted EXCEPT ![c] = changes]
    BY <1>3 DEF Replies
  <2>3. quote.kind # "none" => changes = {}
    BY <1>1, <1>3, ReplyPredicted
  <2> QED
    BY <1>1, <1>2, <1>3, <2>1, <2>2, <2>3, MessageFits
<1>4. CASE RefuseUser(c, action)
  BY <1>3, <1>4 DEF RefuseUser
<1>5. CASE RefuseGroup(c, action)
  BY <1>3, <1>5 DEF RefuseGroup
<1>6. CASE Register(c, action)
  <2>1. action = "REGISTRATION"
    BY <1>6 DEF Register
  <2>2. CASE /\ Replies(c, action, "ok",
                        IF SenderOf[c] \in registered THEN {} ELSE {"user"})
             /\ registered' = registered \cup {SenderOf[c]}
    BY <1>3, <2>1, <2>2
  <2>3. CASE Replies(c, action, "ErrInternal", {}) /\ UNCHANGED registered
    BY <1>3, <2>3
  <2> QED
    BY <1>6, <2>2, <2>3 DEF Register
<1>7. CASE Direct(c, action, quote)
  <2>1. registered' = registered
    BY <1>7 DEF Direct
  <2>2. CASE Replies(c, action, "ok", Changes(action))
    <3>1. /\ Changes(action) \subseteq {"user", "line", "token"}
          /\ Changes(action) # {} => action \in {"RECORD", "MCP"}
      BY DEF Changes
    <3> QED
      BY <1>3, <2>1, <2>2, <3>1
  <2>3. CASE \E code \in DirectErrors[action] : Replies(c, action, code, {})
    BY <1>3, <2>1, <2>3
  <2> QED
    BY <1>7, <2>2, <2>3 DEF Direct
<1>8. CASE NothingToAmend(c, action)
  BY <1>3, <1>8 DEF NothingToAmend
<1>9. CASE AskParser(c, action, quote)
  <2>1. registered' \subseteq Senders
    BY <1>9 DEF AskParser, RepliesInv
  <2> QED
    BY <1>1, <1>2, <1>9, <2>1, MessageFits DEF AskParser
<1> QED
  BY <1>1, <1>4, <1>5, <1>6, <1>7, <1>8, <1>9

\* The parser is done with a chat's request, or the replies are sent.
LEMMA FinishFits ==
  ASSUME RepliesInv, Domains, NEW c \in Chats,
         ParserFailed(c) \/ Report(c) \/ Amend(c) \/ SendReplies(c)
  PROVE  RepliesInv'
<1>1. ASSUME NEW code, NEW changes, job[c].phase = "parse",
             Replies(c, job[c].action, code, changes),
             UNCHANGED <<registered, quoted, count>>,
             \/ changes = {}
             \/ job[c].action = "AMEND" /\ changes \subseteq {"update", "delete"}
      PROVE  RepliesInv'
  <2>1. PICK message : message = [phase |-> "reply", action |-> job[c].action, code |-> code]
    OBVIOUS
  <2>2. message.phase = "reply" /\ message.action = job[c].action
    BY <2>1
  <2>3. /\ job'[c] = message /\ granted'[c] = changes
        /\ \A d \in Chats \ {c} : job'[d] = job[d] /\ granted'[d] = granted[d]
    BY <1>1, <2>1 DEF Replies, Domains
  <2>4. Fits(job[c], quoted[c], count[c], granted[c])
    BY DEF RepliesInv
  <2>5. Fits(message, quoted[c], count[c], changes)
    BY <1>1, <2>2, <2>4 DEF Fits
  <2> QED
    BY <1>1, <2>3, <2>5, OneChat DEF RepliesInv
<1>2. CASE ParserFailed(c)
  BY <1>1, <1>2 DEF ParserFailed
<1>3. CASE Report(c)
  BY <1>1, <1>3 DEF Report
<1>4. CASE Amend(c)
  BY <1>1, <1>4 DEF Amend
<1>5. CASE SendReplies(c)
  <2>1. /\ job' = [job EXCEPT ![c] = NoJob] /\ quoted' = [quoted EXCEPT ![c] = NoQuote]
        /\ UNCHANGED <<registered, count, granted>>
    BY <1>5 DEF SendReplies
  <2>2. NoJob.phase = "idle"
    BY DEF NoJob
  <2>3. /\ job'[c] = NoJob /\ quoted'[c] = NoQuote /\ DOMAIN quoted' = Chats
        /\ \A d \in Chats \ {c} : job'[d] = job[d] /\ quoted'[d] = quoted[d]
    BY <2>1 DEF RepliesInv, Domains
  <2>4. Fits(NoJob, NoQuote, count[c], granted[c])
    BY <2>2 DEF RepliesInv, Fits
  <2> QED
    BY <2>1, <2>3, <2>4, OneChat DEF RepliesInv
<1> QED
  BY <1>2, <1>3, <1>4, <1>5

LEMMA InitReplies == Init => RepliesInv
<1> SUFFICES ASSUME Init PROVE RepliesInv
  OBVIOUS
<1>1. /\ registered = {} /\ job = [c \in Chats |-> NoJob] /\ quoted = [c \in Chats |-> NoQuote]
      /\ count = [c \in Chats |-> 0] /\ granted = [c \in Chats |-> {}]
  BY DEF Init, ChatInit
<1>2. NoJob.phase = "idle"
  BY DEF NoJob
<1>3. Fits(NoJob, NoQuote, 0, {})
  BY <1>2, MessagesAssumption DEF Fits
<1> QED
  BY <1>1, <1>3 DEF RepliesInv

\* Every message fits what it replies to.
THEOREM RepliesInvariant == Spec => [](RequestsInv /\ RepliesInv)
<1>1. RequestsInv /\ RepliesInv /\ [Next]_vars => RequestsInv' /\ RepliesInv'
  <2> SUFFICES ASSUME RequestsInv, RepliesInv, [Next]_vars PROVE RepliesInv'
    BY RequestsStep
  <2>1. Domains
    BY DEF RequestsInv
  <2>2. CASE UNCHANGED chatVars
    BY <2>2 DEF chatVars, RepliesInv
  <2>3. CASE ChatNext
    BY <2>1, <2>3, ProcessFits, FinishFits DEF ChatNext
  <2> QED
    BY <2>2, <2>3 DEF Next, vars
<1> QED
  BY <1>1, InitRequests, InitReplies, PTL DEF Spec

\* "Reply to this message to update or delete this transaction" (the template of a card)
\* and "... to see more": such a reply means what they say, whatever words it has, and a
\* reply to any other message changes nothing, also when the parser answers after a while
\* (MappingReplyAction, the amend and report cases of ProcessIncomingMessage).
THEOREM RepliesReachTheirEnd == Spec => []RepliesReach
<1>1. RepliesInv => RepliesReach
  BY DEF RepliesInv, Fits, RepliesReach
<1> QED
  BY <1>1, RepliesInvariant, PTL

-----------------------------------------------------------------------------
(* The calls of the parser.                                                 *)

Ended == {"text"} \cup Failures

\* A call that pauses has an attempt left; one that has ended, and no other, has its end.
CallOK(attempt) ==
  /\ attempt \in [phase : {"none", "calling", "pausing", "ended"}, attempt : 0 .. MaxAttempt,
                  end : {"none"} \cup Ended]
  /\ attempt.phase = "pausing" => attempt.attempt < MaxAttempt
  /\ attempt.end # "none" <=> attempt.phase = "ended"

CallsInv ==
  /\ DOMAIN call = Callers
  /\ \A c \in Callers : CallOK(call[c])
  /\ ctx \in {"live", "cancelled"}

\* A step of one call.
LEMMA OneCall ==
  ASSUME CallsInv, NEW c \in Callers, NEW next, CallOK(next),
         call' = [call EXCEPT ![c] = next], UNCHANGED ctx
  PROVE  CallsInv'
<1>1. DOMAIN call' = Callers /\ \A d \in Callers : call'[d] = IF d = c THEN next ELSE call[d]
  BY DEF CallsInv
<1> QED
  BY <1>1 DEF CallsInv, CallOK

\* generate is called, and its caller has what it returned.
LEMMA CallerSteps ==
  ASSUME CallsInv, NEW c \in Callers, Ask(c) \/ Forget(c)
  PROVE  CallsInv'
<1>1. CallOK(NoCall)
  BY CallersAssumption DEF CallOK, NoCall, Ended
<1>2. CallOK([phase |-> "calling", attempt |-> 1, end |-> "none"])
  BY CallersAssumption DEF CallOK, Ended
<1> QED
  BY <1>1, <1>2, OneCall DEF Ask, Forget

\* A step of generate: an attempt fails for good, or is followed by another.
LEMMA GeminiSteps ==
  ASSUME CallsInv, GeminiNext
  PROVE  CallsInv'
<1> DEFINE phases == {"none", "calling", "pausing", "ended"}
<1>1. ASSUME NEW c \in Callers, NEW end \in Ended, Ends(c, end)
      PROVE  CallsInv'
  <2>1. CallOK([call[c] EXCEPT !.phase = "ended", !.end = end])
    BY <1>1, CallersAssumption DEF CallsInv, CallOK, Ended, Failures
  <2>2. call' = [call EXCEPT ![c] = [call[c] EXCEPT !.phase = "ended", !.end = end]]
    BY <1>1 DEF Ends
  <2> QED
    BY <1>1, <2>1, <2>2, OneCall DEF Ends
<1>2. ASSUME NEW c \in Callers, call[c].phase = "calling", call[c].attempt # MaxAttempt, Pauses(c)
      PROVE  CallsInv'
  <2>1. CallOK([call[c] EXCEPT !.phase = "pausing"])
    BY <1>2, CallersAssumption DEF CallsInv, CallOK, Ended
  <2>2. call' = [call EXCEPT ![c] = [call[c] EXCEPT !.phase = "pausing"]]
    BY <1>2 DEF Pauses
  <2> QED
    BY <1>2, <2>1, <2>2, OneCall DEF Pauses
<1>3. ASSUME NEW c \in Callers, Retry(c)
      PROVE  CallsInv'
  <2>1. CallOK([call[c] EXCEPT !.phase = "calling", !.attempt = call[c].attempt + 1])
    BY <1>3, CallersAssumption DEF CallsInv, CallOK, Ended, Retry
  <2>2. call' = [call EXCEPT ![c] = [call[c] EXCEPT !.phase = "calling",
                                                    !.attempt = call[c].attempt + 1]]
    BY <1>3 DEF Retry
  <2> QED
    BY <1>3, <2>1, <2>2, OneCall DEF Retry
<1>4. CASE \E c \in Callers : Answer(c)
  BY <1>1, <1>4 DEF Answer, Ended, Failures
<1>5. CASE \E c \in Callers : Unavailable(c)
  BY <1>1, <1>2, <1>5 DEF Unavailable, Ended, Failures
<1>6. CASE BreakOff
  BY <1>1, <1>6, CallersAssumption DEF BreakOff, Ended, Failures
<1>7. CASE Cancel
  BY <1>7 DEF Cancel, CallsInv, CallOK
<1> QED
  BY <1>3, <1>4, <1>5, <1>6, <1>7 DEF GeminiNext

LEMMA InitCalls == Init => CallsInv
<1> SUFFICES ASSUME Init PROVE CallsInv
  OBVIOUS
<1>1. call = [c \in Callers |-> NoCall] /\ ctx = "live"
  BY DEF Init, GeminiInit
<1>2. CallOK(NoCall)
  BY CallersAssumption DEF CallOK, NoCall, Ended
<1> QED
  BY <1>1, <1>2 DEF CallsInv

LEMMA CallsStep == CallsInv /\ [Next]_vars => CallsInv'
<1> SUFFICES ASSUME CallsInv, [Next]_vars PROVE CallsInv'
  OBVIOUS
<1>1. CASE UNCHANGED geminiVars
  BY <1>1 DEF geminiVars, CallsInv, CallOK
<1>2. CASE GeminiNext
  BY <1>2, GeminiSteps
<1>3. CASE BatchNext
  <2>1. UNCHANGED geminiVars \/ Ask(Batcher) \/ Forget(Batcher)
    BY <1>3 DEF BatchNext, Execute, ParseFails, Malformed, Parsed, RejectItem, SaveItem
  <2> QED
    BY <1>1, <2>1, CallerSteps, CallersAssumption
<1>4. ASSUME NEW c \in Chats, NEW words, NEW quote, Process(c, words, quote)
      PROVE  CallsInv'
  <2>1. UNCHANGED geminiVars \/ Ask(c)
    BY <1>4 DEF Process, RefuseUser, RefuseGroup, Register, Direct, NothingToAmend, AskParser
  <2> QED
    BY <1>1, <2>1, CallerSteps, WorkersAssumption
<1>5. ASSUME NEW c \in Chats, ParserFailed(c) \/ Report(c) \/ Amend(c) \/ SendReplies(c)
      PROVE  CallsInv'
  <2>1. UNCHANGED geminiVars \/ Forget(c)
    BY <1>5 DEF ParserFailed, Report, Amend, SendReplies
  <2> QED
    BY <1>1, <2>1, CallerSteps, WorkersAssumption
<1>6. CASE ChatNext
  BY <1>4, <1>5, <1>6 DEF ChatNext
<1>7. CASE UNCHANGED vars
  BY <1>1, <1>7 DEF vars
<1> QED
  BY <1>2, <1>3, <1>6, <1>7 DEF Next

\* The three parts have the values they are meant to have: no call counts more attempts
\* than maxAttempt, no result points past the answer, no chat holds a reply to nothing.
THEOREM RequestsTypes == Spec => []TypeOK
<1>1. RequestsInv /\ BatchInv /\ RepliesInv /\ CallsInv => TypeOK
  <2> SUFFICES ASSUME RequestsInv, BatchInv, RepliesInv, CallsInv PROVE TypeOK
    OBVIOUS
  <2>1. GeminiTypeOK
    BY DEF CallsInv, CallOK, Ended, GeminiTypeOK
  <2>2. BatchTypeOK
    BY DEF RequestsInv, QuipsAsked, BatchInv, BatchTypeOK
  <2>3. ChatTypeOK
    BY DEF RepliesInv, Fits, Senders, ChatTypeOK
  <2> QED
    BY <2>1, <2>2, <2>3 DEF TypeOK
<1> QED
  BY <1>1, BatchInvariant, RepliesInvariant, InitCalls, CallsStep, PTL DEF Spec
=============================================================================
