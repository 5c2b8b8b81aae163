------------------------------- MODULE Ledger -------------------------------
(***************************************************************************)
(* The transactions of the users and the cards that show them in the chats *)
(* (usecase/transaction/amend.go, handler.send, the repository under       *)
(* storage/sqlite/transaction).  A transaction is amended by replying to   *)
(* its card: the id of the message that showed it last is kept in its row. *)
(*                                                                         *)
(* The batcher creates rows; the worker of a chat sends the cards of its   *)
(* jobs one by one, and stores the id of each.  A worker runs one job at a *)
(* time (ChatLanes), and a user has one chat with the bot, since a message *)
(* of a group is always refused: validateGroup asks the database for the   *)
(* text of the list of columns (group/find_by_jid.go:18), which fails.     *)
(* The cards of one job may be sent here in any order.                     *)
(***************************************************************************)
EXTENDS Naturals, Sequences

CONSTANTS Users,         \* the registered users
          Transactions,  \* the ids of the rows, given once each
          Owner,         \* Owner[t]: the user that t is created for
          MaxCards,      \* bound: how many cards are sent
          MaxVersion     \* bound: how often a row is updated

ASSUME OwnerAssumption == Owner \in [Transactions -> Users]
ASSUME BoundsAssumption == MaxCards \in Nat /\ MaxVersion \in Nat

\* What a card shows: a transaction as it was after so many updates.
Cards == [tx : Transactions, version : 0 .. MaxVersion]

VARIABLES
  state,    \* of each row: "none" before Create, "live", "gone" after Delete
  version,  \* how often the fields of the row were written
  message,  \* its message_id: the place in sent of the card it has, or 0
  saved,    \* for each user the rows created and not being confirmed yet
  phase,    \* where the worker of the user's chat stands in its job
  cards,    \* what its job has to send, or amends
  fresh,    \* the card just sent whose id it stores, or 0
  sent,     \* all cards sent; the id of a card is its place
  lost      \* history: rows whose first card was not sent, or newest not stored

table   == <<state, version, message>>
workers == <<phase, cards, fresh>>
vars    == <<table, saved, workers, sent, lost>>

Init ==
  /\ state = [t \in Transactions |-> "none"]
  /\ version = [t \in Transactions |-> 0]
  /\ message = [t \in Transactions |-> 0]
  /\ saved = [u \in Users |-> {}]
  /\ phase = [u \in Users |-> "idle"]
  /\ cards = [u \in Users |-> {}]
  /\ fresh = [u \in Users |-> 0]
  /\ sent = <<>>
  /\ lost = {}

CardOf(t) == [tx |-> t, version |-> version[t]]

-----------------------------------------------------------------------------

\* The statements of the repository.  Delete, Update and SetMessage of a row that is
\* gone change no row, and report it as not found.
FindByMessage(k) == {t \in Transactions : state[t] = "live" /\ message[t] = k}

FindByUser(u) == {t \in Transactions : state[t] = "live" /\ Owner[t] = u}

CreateRow(t) ==
  /\ state[t] = "none"
  /\ state' = [state EXCEPT ![t] = "live"]
  /\ UNCHANGED <<version, message>>

UpdateRow(t) ==
  /\ state[t] = "live"
  /\ version' = [version EXCEPT ![t] = @ + 1]
  /\ UNCHANGED <<state, message>>

DeleteRow(t) ==
  /\ state[t] = "live"
  /\ state' = [state EXCEPT ![t] = "gone"]
  /\ UNCHANGED <<version, message>>

\* Broken variant: the first card of a transaction keeps its id.
SetMessageOnce(t, k) ==
  /\ message' = [message EXCEPT ![t] = IF state[t] = "live" /\ @ = 0 THEN k ELSE @]
  /\ UNCHANGED <<state, version>>

SetMessage(t, k) ==
  /\ message' = [message EXCEPT ![t] = IF state[t] = "live" THEN k ELSE @]
  /\ UNCHANGED <<state, version>>

-----------------------------------------------------------------------------

\* The rows that wait, in some worker or for one, for a card or for its id.
Unstored ==
  {t \in Transactions :
     \E u \in Users :
       \/ t \in saved[u]
       \/ \E c \in cards[u] : phase[u] # "parse" /\ c.tx = t
       \/ fresh[u] # 0 /\ sent[fresh[u]].tx = t}

\* Those of a set that no reply can reach.
Unreached(rows) == {t \in rows : message[t] = 0}

\* The worker of u goes on with its job: the cards of job are left, or it is done.
GoOn(u, job) ==
  /\ phase' = [phase EXCEPT ![u] = IF job = {} THEN "idle" ELSE "send"]
  /\ cards' = [cards EXCEPT ![u] = job]
  /\ fresh' = [fresh EXCEPT ![u] = 0]

\* recordItem saves a line of a batch; its card waits for the rest of the message, and
\* for the job that delivers the answer.
Save(t) ==
  /\ CreateRow(t)
  /\ saved' = [saved EXCEPT ![Owner[t]] = @ \cup {t}]
  /\ UNCHANGED <<workers, sent, lost>>

\* The job that delivers the answer to a message: the cards show the lines as saved.
Confirm(u) ==
  /\ phase[u] = "idle"
  /\ \E lines \in SUBSET saved[u] \ {{}} :
       /\ GoOn(u, {[tx |-> t, version |-> 0] : t \in lines})
       /\ saved' = [saved EXCEPT ![u] = @ \ lines]
  /\ UNCHANGED <<table, sent, lost>>

\* A detail report shows a page of the transactions of the user, a card for each.
List(u) ==
  /\ phase[u] = "idle"
  /\ \E page \in SUBSET FindByUser(u) \ {{}} : GoOn(u, {CardOf(t) : t \in page})
  /\ UNCHANGED <<table, saved, sent, lost>>

\* Broken variant: whoever sees a card may amend what it shows.
ReplyOfAnyone(u, k) ==
  /\ phase[u] = "idle"
  /\ \E t \in FindByMessage(k) :
       /\ phase' = [phase EXCEPT ![u] = "parse"]
       /\ cards' = [cards EXCEPT ![u] = {CardOf(t)}]
  /\ UNCHANGED <<table, saved, fresh, sent, lost>>

\* Amend.Execute looks for the transaction of the message the user replied to, then
\* asks the parser.  The id is the client's word.  A reply that finds nothing, or the
\* transaction of another user, is answered with an error.
Reply(u, k) ==
  /\ phase[u] = "idle"
  /\ \E t \in FindByMessage(k) :
       /\ Owner[t] = u
       /\ phase' = [phase EXCEPT ![u] = "parse"]
       /\ cards' = [cards EXCEPT ![u] = {CardOf(t)}]
  /\ UNCHANGED <<table, saved, fresh, sent, lost>>

\* UpdateTransaction writes the fields it read, changed as the message says, over the
\* row, and shows what it wrote.
Update(u) ==
  /\ phase[u] = "parse"
  /\ \E c \in cards[u] :
       /\ c.version < MaxVersion
       /\ UpdateRow(c.tx)
       /\ GoOn(u, {[c EXCEPT !.version = @ + 1]})
  /\ UNCHANGED <<saved, sent, lost>>

\* DeleteTransaction; the answer is no card.
Delete(u) ==
  /\ phase[u] = "parse"
  /\ \E c \in cards[u] : DeleteRow(c.tx)
  /\ GoOn(u, {})
  /\ UNCHANGED <<saved, sent, lost>>

\* Broken variant: the card of an update is sent although the update failed.
GiveUpUnseen(u) ==
  /\ phase[u] = "parse"
  /\ \E c \in cards[u] :
       c.version < MaxVersion /\ GoOn(u, {[c EXCEPT !.version = @ + 1]})
  /\ UNCHANGED <<table, saved, sent, lost>>

\* The parser failed, found no amend in the text, or the row could not be written: the
\* answer is an error, and nothing has changed.
GiveUp(u) ==
  /\ phase[u] = "parse"
  /\ GoOn(u, {})
  /\ UNCHANGED <<table, saved, sent, lost>>

\* Broken variant: an error of SendMessage is overlooked.
SendBlindly(u, c) ==
  /\ phase[u] = "send" /\ c \in cards[u]
  /\ Len(sent) < MaxCards
  /\ phase' = [phase EXCEPT ![u] = "store"]
  /\ cards' = [cards EXCEPT ![u] = @ \ {c}]
  /\ fresh' = [fresh EXCEPT ![u] = Len(sent) + 1]
  /\ UNCHANGED <<table, saved, sent, lost>>

\* send: the card reaches the chat, and the worker learns its id.
Send(u, c) ==
  /\ phase[u] = "send" /\ c \in cards[u]
  /\ Len(sent) < MaxCards
  /\ sent' = Append(sent, c)
  /\ phase' = [phase EXCEPT ![u] = "store"]
  /\ cards' = [cards EXCEPT ![u] = @ \ {c}]
  /\ fresh' = [fresh EXCEPT ![u] = Len(sent) + 1]
  /\ UNCHANGED <<table, saved, lost>>

\* Broken variant: a card that fails ends the job.
SendFailsAll(u, c) ==
  /\ phase[u] = "send" /\ c \in cards[u]
  /\ GoOn(u, {})
  /\ lost' = lost \cup Unreached({c.tx})
  /\ UNCHANGED <<table, saved, sent>>

\* send: SendMessage fails, which is logged; the other cards are still sent.
SendFails(u, c) ==
  /\ phase[u] = "send" /\ c \in cards[u]
  /\ GoOn(u, cards[u] \ {c})
  /\ lost' = lost \cup Unreached({c.tx})
  /\ UNCHANGED <<table, saved, sent>>

\* Broken variant: the id goes to the transaction of the next card.
StoreForNext(u) ==
  /\ phase[u] = "store"
  /\ \E c \in cards[u] \cup {sent[fresh[u]]} : SetMessage(c.tx, fresh[u])
  /\ lost' = lost \ {sent[fresh[u]].tx}
  /\ GoOn(u, cards[u])
  /\ UNCHANGED <<saved, sent>>

\* send: the id is stored in the row of the transaction, over the one it had.
Store(u) ==
  /\ phase[u] = "store"
  /\ SetMessage(sent[fresh[u]].tx, fresh[u])
  /\ lost' = lost \ {sent[fresh[u]].tx}
  /\ GoOn(u, cards[u])
  /\ UNCHANGED <<saved, sent>>

\* send: the id could not be stored, which is logged.
StoreFails(u) ==
  /\ phase[u] = "store"
  /\ lost' = lost \cup {sent[fresh[u]].tx}
  /\ GoOn(u, cards[u])
  /\ UNCHANGED <<table, saved, sent>>

\* The process ends and is started again: the table and the chats are what is left.
Crash ==
  /\ lost' = lost \cup Unreached(Unstored)
                  \cup {sent[fresh[u]].tx : u \in {v \in Users : fresh[v] # 0}}
  /\ saved' = [u \in Users |-> {}]
  /\ phase' = [u \in Users |-> "idle"]
  /\ cards' = [u \in Users |-> {}]
  /\ fresh' = [u \in Users |-> 0]
  /\ UNCHANGED <<table, sent>>

Next ==
  \/ \E t \in Transactions : Save(t)
  \/ \E u \in Users :
       \/ Confirm(u) \/ List(u) \/ Update(u) \/ Delete(u) \/ GiveUp(u)
       \/ Store(u) \/ StoreFails(u)
       \/ \E k \in 1 .. MaxCards : Reply(u, k)
       \/ \E c \in Cards : Send(u, c) \/ SendFails(u, c)
  \/ Crash

Spec == Init /\ [][Next]_vars

-----------------------------------------------------------------------------

TypeOK ==
  /\ state \in [Transactions -> {"none", "live", "gone"}]
  /\ version \in [Transactions -> 0 .. MaxVersion]
  /\ message \in [Transactions -> 0 .. Len(sent)]
  /\ saved \in [Users -> SUBSET Transactions]
  /\ phase \in [Users -> {"idle", "parse", "send", "store"}]
  /\ cards \in [Users -> SUBSET Cards]
  /\ fresh \in [Users -> 0 .. Len(sent)]
  /\ sent \in Seq(Cards)
  /\ lost \in SUBSET Transactions

Newest(k) == \A l \in DOMAIN sent : sent[l].tx = sent[k].tx => l <= k

\* A worker has only cards of its own user's transactions, in a lane of their own: the
\* card whose id it stores is still the newest of its transaction.
OwnJobs ==
  \A u \in Users :
    /\ \A c \in cards[u] : Owner[c.tx] = u
    /\ \A t \in saved[u] : Owner[t] = u
    /\ phase[u] = "idle" => cards[u] = {}
    /\ phase[u] = "store" <=> fresh[u] # 0
    /\ fresh[u] # 0 => Owner[sent[fresh[u]].tx] = u /\ Newest(fresh[u])

\* Amend writes all fields back as it read them before it asked the parser: meanwhile
\* nobody else has updated or deleted the row, so no update is lost and no deleted
\* transaction is reported as updated.
NoLostUpdate ==
  \A u \in Users : \A c \in cards[u] :
    phase[u] = "parse" => state[c.tx] = "live" /\ c = CardOf(c.tx)

\* A card shows what its transaction is, or once was: a created row, after an update
\* that was made.  An amend that fails shows no card.
CardsTrue ==
  /\ \A k \in DOMAIN sent :
       state[sent[k].tx] # "none" /\ sent[k].version <= version[sent[k].tx]
  /\ \A u \in Users :
       /\ \A c \in cards[u] : state[c.tx] # "none" /\ c.version <= version[c.tx]
       /\ \A t \in saved[u] : state[t] # "none"

\* A reply to a card amends the transaction that the card shows, and no other.
ReplyHitsShown ==
  \A t \in Transactions : message[t] # 0 => sent[message[t]].tx = t

\* The card of a transaction that was sent last is the one a reply finds, or its id is
\* about to be stored, although cards are sent by jobs of three kinds; unless a send or
\* a store failed, or the process ended between them.
LatestCardWorks ==
  \A k \in DOMAIN sent :
    LET t == sent[k].tx
    IN Newest(k) /\ state[t] = "live" /\ t \notin lost
         => message[t] = k \/ fresh[Owner[t]] = k

\* A transaction that no reply can reach waits in a job for its card or for the id of one,
\* unless that was lost: no line is forgotten between its creation and its confirmation.
NothingForgotten ==
  \A t \in Transactions :
    state[t] = "live" /\ message[t] = 0 => t \in Unstored \cup lost

\* "Reply to this message to update or delete this transaction" (transaction.tmpl, the
\* text of each card): while the row is there, a reply to any of its cards finds it.
CardsCanBeRepliedTo ==
  \A k \in DOMAIN sent :
    LET t == sent[k].tx
    IN state[t] = "live" /\ t \notin lost /\ fresh[Owner[t]] = 0 => message[t] = k

Consistent ==
  /\ OwnJobs
  /\ NoLostUpdate
  /\ CardsTrue
  /\ ReplyHitsShown
  /\ LatestCardWorks
  /\ NothingForgotten
=============================================================================
