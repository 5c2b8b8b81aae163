---------------------------- MODULE LedgerProofs ----------------------------
(***************************************************************************)
(* Proofs about Ledger, for any users, transactions and bounds.  The       *)
(* invariant is Consistent: every job works on transactions of its own     *)
(* user, and a user's jobs run one at a time, so nothing that an amend     *)
(* read, and no card whose id is being stored, is overtaken by another.    *)
(***************************************************************************)
EXTENDS Ledger, TLAPS

IInv == TypeOK /\ Consistent

\* A card has a transaction and a version.
LEMMA CardFields ==
  ASSUME NEW c \in Cards
  PROVE  c.tx \in Transactions /\ c.version \in 0 .. MaxVersion
BY DEF Cards

\* A sent card is a card, of a transaction of some user.
LEMMA SentCard ==
  ASSUME TypeOK, NEW k \in DOMAIN sent
  PROVE  /\ k \in 1 .. Len(sent) /\ sent[k] \in Cards
         /\ sent[k].tx \in Transactions /\ Owner[sent[k].tx] \in Users
<1>1. k \in 1 .. Len(sent) /\ sent[k] \in Cards
  BY DEF TypeOK
<1> QED BY <1>1, CardFields, OwnerAssumption

\* The cards of a job are cards, of transactions of its user.
LEMMA JobCard ==
  ASSUME TypeOK, OwnJobs, NEW u \in Users, NEW c \in cards[u]
  PROVE  c \in Cards /\ Owner[c.tx] = u
BY DEF TypeOK, OwnJobs

\* A worker that stores an id has sent a card of its user.
LEMMA FreshCard ==
  ASSUME TypeOK, OwnJobs, NEW u \in Users, phase[u] = "store"
  PROVE  /\ fresh[u] \in 1 .. Len(sent) /\ fresh[u] # 0
         /\ sent[fresh[u]] \in Cards /\ Owner[sent[fresh[u]].tx] = u
         /\ Newest(fresh[u])
<1>1. fresh[u] \in 1 .. Len(sent) /\ fresh[u] # 0
  BY DEF TypeOK, OwnJobs
<1>2. DOMAIN sent = 1 .. Len(sent)
  BY DEF TypeOK
<1> QED BY <1>1, <1>2, SentCard DEF OwnJobs

\* What a transaction would show is a card.
LEMMA CardOfType ==
  ASSUME TypeOK, NEW t \in Transactions
  PROVE  /\ CardOf(t) \in Cards
         /\ CardOf(t).tx = t /\ CardOf(t).version = version[t]
BY DEF TypeOK, CardOf, Cards

\* GoOn leaves the jobs of other workers alone.
LEMMA GoOnJobs ==
  ASSUME TypeOK, NEW u \in Users, NEW job \in SUBSET Cards, GoOn(u, job)
  PROVE  /\ phase' \in [Users -> {"idle", "parse", "send", "store"}]
         /\ cards' \in [Users -> SUBSET Cards]
         /\ fresh' \in [Users -> 0 .. Len(sent)]
         /\ phase'[u] = (IF job = {} THEN "idle" ELSE "send") /\ cards'[u] = job /\ fresh'[u] = 0
         /\ \A v \in Users \ {u} :
              phase'[v] = phase[v] /\ cards'[v] = cards[v] /\ fresh'[v] = fresh[v]
BY DEF TypeOK, GoOn

\* Nothing changes for the newest cards while no row and no id does.
LEMMA NewestCardsStay ==
  ASSUME TypeOK, LatestCardWorks, state' = state, message' = message, sent' = sent,
         lost' = lost, \A v \in Users : fresh'[v] = fresh[v]
  PROVE  LatestCardWorks'
BY SentCard DEF LatestCardWorks, Newest

-----------------------------------------------------------------------------
LEMMA InitIInv == Init => IInv
BY OwnerAssumption, BoundsAssumption
DEF Init, IInv, TypeOK, Consistent, OwnJobs, NoLostUpdate, CardsTrue, ReplyHitsShown,
    LatestCardWorks, NothingForgotten

-----------------------------------------------------------------------------

\* A line is saved.
LEMMA SaveKeeps ==
  ASSUME IInv, NEW t \in Transactions, Save(t)
  PROVE  IInv'
<1>t. TypeOK /\ OwnJobs /\ NoLostUpdate /\ CardsTrue /\ ReplyHitsShown /\ LatestCardWorks
      /\ NothingForgotten
  BY DEF IInv, Consistent
<1>s. /\ state[t] = "none" /\ state' = [state EXCEPT ![t] = "live"]
      /\ saved' = [saved EXCEPT ![Owner[t]] = @ \cup {t}]
      /\ version' = version /\ message' = message
      /\ phase' = phase /\ cards' = cards /\ fresh' = fresh
      /\ sent' = sent /\ lost' = lost
  BY DEF Save, CreateRow, workers
<1>o. Owner[t] \in Users
  BY OwnerAssumption
<1>1. TypeOK'
  BY <1>t, <1>s, <1>o DEF TypeOK
<1>2. OwnJobs'
  BY <1>t, <1>s, <1>o DEF OwnJobs, TypeOK, Newest
<1>3. NoLostUpdate'
  BY <1>t, <1>s DEF NoLostUpdate, CardOf, TypeOK, Cards
<1>4. CardsTrue'
  BY <1>t, <1>s, <1>o DEF CardsTrue, TypeOK, Cards
<1>5. ReplyHitsShown'
  BY <1>t, <1>s DEF ReplyHitsShown
<1>6. LatestCardWorks'
  <2>1. ASSUME NEW k \in DOMAIN sent
        PROVE  sent[k].tx \in Transactions /\ sent[k].tx # t
    BY <1>t, <1>s, SentCard DEF CardsTrue
  <2> QED BY <2>1, <1>t, <1>s DEF LatestCardWorks, Newest, TypeOK
<1>7. NothingForgotten'
  <2>1. Unstored' = Unstored \cup {t}
    BY <1>s, <1>o, <1>t DEF Unstored, TypeOK
  <2> QED BY <2>1, <1>t, <1>s DEF NothingForgotten, TypeOK
<1> QED BY <1>1, <1>2, <1>3, <1>4, <1>5, <1>6, <1>7 DEF IInv, Consistent

\* A worker that has no card to send takes other cards of its user: a job starts, or
\* ends.  Of the rows that wait for a confirmation it takes those it has a card for.
LEMMA JobKeeps ==
  ASSUME IInv, NEW u \in Users, NEW job \in SUBSET Cards, NEW lines \in SUBSET saved[u],
         phase[u] \in {"idle", "parse"}, GoOn(u, job),
         saved' = [saved EXCEPT ![u] = @ \ lines],
         \A t \in lines : \E c \in job : c.tx = t,
         \A c \in job : /\ Owner[c.tx] = u /\ state[c.tx] # "none"
                        /\ c.version <= version[c.tx],
         UNCHANGED <<table, sent, lost>>
  PROVE  IInv'
<1>t. TypeOK /\ OwnJobs /\ NoLostUpdate /\ CardsTrue /\ ReplyHitsShown /\ LatestCardWorks
      /\ NothingForgotten
  BY DEF IInv, Consistent
<1>s. /\ state' = state /\ version' = version /\ message' = message
      /\ sent' = sent /\ lost' = lost
  BY DEF table
<1>g. /\ phase' \in [Users -> {"idle", "parse", "send", "store"}]
      /\ cards' \in [Users -> SUBSET Cards]
      /\ fresh' \in [Users -> 0 .. Len(sent)]
      /\ phase'[u] = (IF job = {} THEN "idle" ELSE "send")
      /\ cards'[u] = job /\ fresh'[u] = 0
      /\ \A v \in Users \ {u} :
           phase'[v] = phase[v] /\ cards'[v] = cards[v] /\ fresh'[v] = fresh[v]
  BY <1>t, GoOnJobs
<1>f. fresh[u] = 0
  BY <1>t DEF OwnJobs
<1>1. TypeOK'
  BY <1>t, <1>s, <1>g DEF TypeOK
<1>2. OwnJobs'
  BY <1>t, <1>s, <1>g DEF OwnJobs, TypeOK, Newest
<1>3. NoLostUpdate'
  BY <1>t, <1>s, <1>g DEF NoLostUpdate, CardOf
<1>4. CardsTrue'
  BY <1>t, <1>s, <1>g DEF CardsTrue, TypeOK
<1>5. ReplyHitsShown'
  BY <1>t, <1>s DEF ReplyHitsShown
<1>6. LatestCardWorks'
  <2>1. \A v \in Users : fresh'[v] = fresh[v]
    BY <1>g, <1>f
  <2> QED BY <2>1, <1>t, <1>s, NewestCardsStay
<1>7. NothingForgotten'
  <2>1. ASSUME NEW t \in Unstored PROVE t \in Unstored'
    <3>1. PICK v \in Users :
            \/ t \in saved[v]
            \/ \E c \in cards[v] : phase[v] # "parse" /\ c.tx = t
            \/ fresh[v] # 0 /\ sent[fresh[v]].tx = t
      BY DEF Unstored
    <3>2. t \in Transactions
      BY DEF Unstored
    <3>3. CASE v # u
      BY <3>1, <3>2, <3>3, <1>g, <1>s, <1>t DEF Unstored, TypeOK
    <3>4. CASE v = u /\ t \in lines
      <4>1. PICK c \in job : c.tx = t
        BY <3>4
      <4>2. c \in cards'[u] /\ phase'[u] # "parse"
        BY <4>1, <1>g
      <4> QED BY <3>2, <4>1, <4>2 DEF Unstored
    <3>5. CASE v = u /\ t \in saved[u] \ lines
      BY <3>2, <3>5, <1>t DEF Unstored, TypeOK
    <3>6. CASE v = u /\ \E c \in cards[v] : phase[v] # "parse" /\ c.tx = t
      BY <3>6, <1>t DEF OwnJobs
    <3> QED BY <3>1, <3>3, <3>4, <3>5, <3>6, <1>f
  <2> QED BY <2>1, <1>t, <1>s DEF NothingForgotten
<1> QED BY <1>1, <1>2, <1>3, <1>4, <1>5, <1>6, <1>7 DEF IInv, Consistent

\* The answer to a message begins.
LEMMA ConfirmKeeps ==
  ASSUME IInv, NEW u \in Users, Confirm(u)
  PROVE  IInv'
<1> PICK lines \in SUBSET saved[u] :
      /\ GoOn(u, {[tx |-> t, version |-> 0] : t \in lines})
      /\ saved' = [saved EXCEPT ![u] = @ \ lines]
  BY DEF Confirm
<1> DEFINE job == {[tx |-> t, version |-> 0] : t \in lines}
<1>1. GoOn(u, job) /\ saved' = [saved EXCEPT ![u] = @ \ lines]
  OBVIOUS
<1>2. \A t \in lines : /\ t \in Transactions /\ Owner[t] = u /\ state[t] # "none"
                       /\ version[t] \in 0 .. MaxVersion
  BY DEF IInv, Consistent, OwnJobs, CardsTrue, TypeOK
<1>3. job \in SUBSET Cards
  BY <1>2, BoundsAssumption DEF Cards
<1>4. \A c \in job : c.tx \in lines /\ c.version = 0
  OBVIOUS
<1>5. \A t \in lines : \E c \in job : c.tx = t
  <2>1. \A t \in lines : [tx |-> t, version |-> 0] \in job
    OBVIOUS
  <2> QED BY <2>1
<1> HIDE DEF job
<1>6. \A c \in job : /\ Owner[c.tx] = u /\ state[c.tx] # "none"
                     /\ c.version <= version[c.tx]
  BY <1>2, <1>4
<1>7. phase[u] \in {"idle", "parse"} /\ UNCHANGED <<table, sent, lost>>
  BY DEF Confirm
<1>8. lines \in SUBSET saved[u]
  OBVIOUS
<1> QED BY ONLY IInv, u \in Users, <1>1, <1>3, <1>5, <1>6, <1>7, <1>8, JobKeeps, ZenonT(30)

\* A report begins.
LEMMA ListKeeps ==
  ASSUME IInv, NEW u \in Users, List(u)
  PROVE  IInv'
<1>1. PICK page \in SUBSET FindByUser(u) : GoOn(u, {CardOf(t) : t \in page})
  BY DEF List
<1> DEFINE job == {CardOf(t) : t \in page}
<1>2. \A c \in job : \E t \in page : c = CardOf(t)
  OBVIOUS
<1>3. GoOn(u, job)
  BY <1>1
<1> HIDE DEF job
<1>4. TypeOK
  BY DEF IInv
<1>5. ASSUME NEW c \in job
      PROVE  /\ c \in Cards /\ Owner[c.tx] = u /\ state[c.tx] # "none"
             /\ c.version <= version[c.tx]
  <2>1. PICK t \in page : c = CardOf(t)
    BY <1>2
  <2>2. t \in Transactions /\ state[t] = "live" /\ Owner[t] = u
    BY DEF FindByUser
  <2>3. c \in Cards /\ c.tx = t /\ c.version = version[t] /\ version[t] \in Nat
    BY <1>4, <2>1, <2>2, CardOfType DEF TypeOK
  <2> QED BY <2>2, <2>3
<1>6. saved' = [saved EXCEPT ![u] = @ \ {}] /\ {} \in SUBSET saved[u]
  BY <1>4 DEF List, TypeOK
<1>7. phase[u] \in {"idle", "parse"} /\ UNCHANGED <<table, sent, lost>>
  BY DEF List
<1>8. job \in SUBSET Cards
  BY <1>5
<1> QED BY <1>3, <1>5, <1>6, <1>7, <1>8, JobKeeps

\* An amend ends without a change.
LEMMA GiveUpKeeps ==
  ASSUME IInv, NEW u \in Users, GiveUp(u)
  PROVE  IInv'
<1>1. saved' = [saved EXCEPT ![u] = @ \ {}] /\ {} \in SUBSET saved[u]
  BY DEF GiveUp, IInv, TypeOK
<1>2. phase[u] \in {"idle", "parse"} /\ GoOn(u, {}) /\ UNCHANGED <<table, sent, lost>>
  BY DEF GiveUp
<1> DEFINE none == {}
<1>3. none \in SUBSET Cards /\ none \in SUBSET saved[u] /\ GoOn(u, none)
      /\ saved' = [saved EXCEPT ![u] = @ \ none]
  BY <1>1, <1>2
<1>4. \A x : x \notin none
  OBVIOUS
<1> HIDE DEF none
<1> QED BY <1>2, <1>3, <1>4, JobKeeps

\* What the invariant says, and what the next job of a worker needs.
LEMMA Parts == IInv => /\ TypeOK /\ OwnJobs /\ NoLostUpdate /\ CardsTrue
                       /\ ReplyHitsShown /\ LatestCardWorks /\ NothingForgotten
BY DEF IInv, Consistent

\* An amend begins: what it reads is what the row says.
LEMMA ReplyKeeps ==
  ASSUME IInv, NEW u \in Users, NEW k \in 1 .. MaxCards, Reply(u, k)
  PROVE  IInv'
<1>t. TypeOK /\ OwnJobs /\ NoLostUpdate /\ CardsTrue /\ ReplyHitsShown /\ LatestCardWorks
      /\ NothingForgotten
  BY Parts
<1> PICK t \in FindByMessage(k) :
      /\ Owner[t] = u
      /\ phase' = [phase EXCEPT ![u] = "parse"]
      /\ cards' = [cards EXCEPT ![u] = {CardOf(t)}]
  BY DEF Reply
<1>s. /\ phase[u] = "idle"
      /\ state' = state /\ version' = version /\ message' = message
      /\ saved' = saved /\ fresh' = fresh /\ sent' = sent /\ lost' = lost
  BY DEF Reply, table
<1>c. /\ CardOf(t) \in Cards /\ CardOf(t).tx = t /\ CardOf(t).version = version[t]
      /\ t \in Transactions /\ state[t] = "live" /\ version[t] \in Nat
  BY <1>t, CardOfType DEF FindByMessage, TypeOK
<1>g. /\ phase' \in [Users -> {"idle", "parse", "send", "store"}]
      /\ cards' \in [Users -> SUBSET Cards]
      /\ phase'[u] = "parse" /\ cards'[u] = {CardOf(t)}
      /\ \A v \in Users \ {u} : phase'[v] = phase[v] /\ cards'[v] = cards[v]
  BY <1>t, <1>c DEF TypeOK
<1>1. TypeOK'
  BY <1>t, <1>s, <1>g DEF TypeOK
<1>2. OwnJobs'
  BY <1>t, <1>s, <1>c, <1>g DEF OwnJobs, Newest
<1>3. NoLostUpdate'
  <2> SUFFICES ASSUME NEW v \in Users, NEW c \in cards'[v], phase'[v] = "parse"
               PROVE  state[c.tx] = "live" /\ c = CardOf(c.tx)
    BY <1>s DEF NoLostUpdate, CardOf
  <2>1. CASE v = u
    BY <2>1, <1>c, <1>g
  <2>2. CASE v # u
    BY <2>2, <1>g, <1>t DEF NoLostUpdate
  <2> QED BY <2>1, <2>2
<1>4. CardsTrue'
  BY <1>t, <1>s, <1>c, <1>g DEF CardsTrue
<1>5. ReplyHitsShown'
  BY <1>t, <1>s DEF ReplyHitsShown
<1>6. LatestCardWorks'
  BY <1>t, <1>s, NewestCardsStay
<1>7. NothingForgotten'
  <2>1. ASSUME NEW v \in Users, phase[v] # "parse", NEW c \in cards[v]
        PROVE  c \in cards'[v] /\ phase'[v] # "parse"
    <3>1. v # u
      BY <2>1, <1>s, <1>t DEF OwnJobs
    <3> QED BY <2>1, <3>1, <1>g
  <2>2. Unstored \subseteq Unstored'
    BY <2>1, <1>s DEF Unstored
  <2> QED BY <2>2, <1>t, <1>s DEF NothingForgotten
<1> QED BY <1>1, <1>2, <1>3, <1>4, <1>5, <1>6, <1>7 DEF IInv, Consistent

\* An amend ends with a change of the row: the row is still as it was read, and no other
\* worker has a card of it to amend.
LEMMA AmendFacts ==
  ASSUME IInv, NEW u \in Users, phase[u] = "parse", NEW c \in cards[u]
  PROVE  /\ c \in Cards /\ c.tx \in Transactions /\ Owner[c.tx] = u
         /\ state[c.tx] = "live" /\ c.version = version[c.tx]
         /\ c.version \in 0 .. MaxVersion /\ fresh[u] = 0
         /\ \A v \in Users \ {u} : \A d \in cards[v] : d.tx # c.tx
<1>1. c \in Cards /\ Owner[c.tx] = u /\ c.tx \in Transactions
      /\ c.version \in 0 .. MaxVersion
  BY Parts, JobCard, CardFields
<1>2. state[c.tx] = "live" /\ c.version = version[c.tx]
  BY <1>1, Parts, CardOfType DEF NoLostUpdate
<1>3. fresh[u] = 0
  BY Parts DEF OwnJobs
<1>4. \A v \in Users \ {u} : \A d \in cards[v] : d.tx # c.tx
  BY <1>1, Parts DEF OwnJobs
<1> QED BY <1>1, <1>2, <1>3, <1>4

\* An update: its card shows what was written.
LEMMA UpdateKeeps ==
  ASSUME IInv, NEW u \in Users, Update(u)
  PROVE  IInv'
<1>t. TypeOK /\ OwnJobs /\ NoLostUpdate /\ CardsTrue /\ ReplyHitsShown /\ LatestCardWorks
      /\ NothingForgotten
  BY Parts
<1> PICK c \in cards[u] :
      /\ c.version < MaxVersion
      /\ UpdateRow(c.tx)
      /\ GoOn(u, {[c EXCEPT !.version = @ + 1]})
  BY DEF Update
<1>c. /\ c \in Cards /\ c.tx \in Transactions /\ Owner[c.tx] = u
      /\ state[c.tx] = "live" /\ c.version = version[c.tx]
      /\ c.version \in 0 .. MaxVersion /\ fresh[u] = 0
      /\ \A v \in Users \ {u} : \A d \in cards[v] : d.tx # c.tx
  BY AmendFacts DEF Update
<1> DEFINE new == [c EXCEPT !.version = @ + 1]
<1>n. new \in Cards /\ new.tx = c.tx /\ new.version = c.version + 1
  BY <1>c, BoundsAssumption DEF Cards
<1>j. GoOn(u, {new})
  OBVIOUS
<1> HIDE DEF new
<1>s. /\ phase[u] = "parse" /\ version' = [version EXCEPT ![c.tx] = @ + 1]
      /\ state' = state /\ message' = message
      /\ saved' = saved /\ sent' = sent /\ lost' = lost
  BY DEF Update, UpdateRow
<1>g. /\ phase' \in [Users -> {"idle", "parse", "send", "store"}]
      /\ cards' \in [Users -> SUBSET Cards]
      /\ fresh' \in [Users -> 0 .. Len(sent)]
      /\ phase'[u] = "send" /\ cards'[u] = {new} /\ fresh'[u] = 0
      /\ \A v \in Users \ {u} :
           phase'[v] = phase[v] /\ cards'[v] = cards[v] /\ fresh'[v] = fresh[v]
  <2>1. {new} \in SUBSET Cards /\ {new} # {}
    BY <1>n
  <2> QED BY <2>1, <1>j, <1>t, GoOnJobs
<1>v. /\ \A t \in Transactions \ {c.tx} : version'[t] = version[t]
      /\ version'[c.tx] = c.version + 1
      /\ \A t \in Transactions : version[t] \in Nat /\ version'[t] \in Nat
                                 /\ version[t] <= version'[t]
      /\ version' \in [Transactions -> 0 .. MaxVersion]
  BY <1>t, <1>s, <1>c, BoundsAssumption DEF TypeOK
<1>1. TypeOK'
  BY <1>t, <1>s, <1>g, <1>v DEF TypeOK
<1>2. OwnJobs'
  BY <1>t, <1>s, <1>c, <1>n, <1>g DEF OwnJobs, Newest
<1>3. NoLostUpdate'
  <2> SUFFICES ASSUME NEW v \in Users, NEW d \in cards'[v], phase'[v] = "parse"
               PROVE  state'[d.tx] = "live" /\ d = CardOf(d.tx)'
    BY DEF NoLostUpdate
  <2>1. v # u /\ d \in cards[v] /\ phase[v] = "parse"
    BY <1>g
  <2>2. d.tx \in Transactions /\ d.tx # c.tx
    BY <2>1, <1>t, <1>c, JobCard, CardFields
  <2> QED BY <2>1, <2>2, <1>t, <1>s, <1>v DEF NoLostUpdate, CardOf
<1>4. CardsTrue'
  <2>1. ASSUME NEW k \in DOMAIN sent
        PROVE  state[sent[k].tx] # "none" /\ sent[k].version <= version'[sent[k].tx]
    <3>1. /\ sent[k].tx \in Transactions /\ sent[k].version \in Nat
          /\ state[sent[k].tx] # "none" /\ sent[k].version <= version[sent[k].tx]
      BY <1>t, SentCard, CardFields DEF CardsTrue
    <3> QED BY <3>1, <1>v
  <2>2. ASSUME NEW v \in Users, NEW d \in cards'[v]
        PROVE  state[d.tx] # "none" /\ d.version <= version'[d.tx]
    <3>1. CASE v = u
      BY <3>1, <1>g, <1>n, <1>c, <1>v
    <3>2. CASE v # u
      <4>1. d \in cards[v] /\ d.tx \in Transactions /\ d.version \in Nat
        BY <3>2, <1>g, <1>t, JobCard, CardFields
      <4>2. state[d.tx] # "none" /\ d.version <= version[d.tx]
        BY <4>1, <1>t DEF CardsTrue
      <4> QED BY <4>1, <4>2, <1>v
    <3> QED BY <3>1, <3>2
  <2> QED BY <2>1, <2>2, <1>t, <1>s DEF CardsTrue
<1>5. ReplyHitsShown'
  BY <1>t, <1>s DEF ReplyHitsShown
<1>6. LatestCardWorks'
  <2>1. \A v \in Users : fresh'[v] = fresh[v]
    BY <1>g, <1>c
  <2> QED BY <2>1, <1>t, <1>s, NewestCardsStay
<1>7. NothingForgotten'
  <2>1. ASSUME NEW t \in Unstored PROVE t \in Unstored'
    <3>1. PICK v \in Users :
            \/ t \in saved[v]
            \/ \E d \in cards[v] : phase[v] # "parse" /\ d.tx = t
            \/ fresh[v] # 0 /\ sent[fresh[v]].tx = t
      BY DEF Unstored
    <3>2. t \in Transactions
      BY DEF Unstored
    <3>3. CASE v # u
      BY <3>1, <3>2, <3>3, <1>g, <1>s DEF Unstored
    <3>4. CASE v = u
      BY <3>1, <3>2, <3>4, <1>c, <1>s DEF Unstored
    <3> QED BY <3>3, <3>4
  <2> QED BY <2>1, <1>t, <1>s DEF NothingForgotten
<1> QED BY <1>1, <1>2, <1>3, <1>4, <1>5, <1>6, <1>7 DEF IInv, Consistent

\* A deletion.
LEMMA DeleteKeeps ==
  ASSUME IInv, NEW u \in Users, Delete(u)
  PROVE  IInv'
<1>t. TypeOK /\ OwnJobs /\ NoLostUpdate /\ CardsTrue /\ ReplyHitsShown /\ LatestCardWorks
      /\ NothingForgotten
  BY Parts
<1> PICK c \in cards[u] : DeleteRow(c.tx)
  BY DEF Delete
<1>c. /\ c \in Cards /\ c.tx \in Transactions /\ Owner[c.tx] = u
      /\ state[c.tx] = "live" /\ c.version = version[c.tx]
      /\ c.version \in 0 .. MaxVersion /\ fresh[u] = 0
      /\ \A v \in Users \ {u} : \A d \in cards[v] : d.tx # c.tx
  BY AmendFacts DEF Delete
<1>s. /\ phase[u] = "parse" /\ state' = [state EXCEPT ![c.tx] = "gone"]
      /\ version' = version /\ message' = message
      /\ saved' = saved /\ sent' = sent /\ lost' = lost
  BY DEF Delete, DeleteRow
<1>g. /\ phase' \in [Users -> {"idle", "parse", "send", "store"}]
      /\ cards' \in [Users -> SUBSET Cards]
      /\ fresh' \in [Users -> 0 .. Len(sent)]
      /\ phase'[u] = "idle" /\ cards'[u] = {} /\ fresh'[u] = 0
      /\ \A v \in Users \ {u} :
           phase'[v] = phase[v] /\ cards'[v] = cards[v] /\ fresh'[v] = fresh[v]
  <2>1. GoOn(u, {}) /\ {} \in SUBSET Cards
    BY DEF Delete
  <2> QED BY <2>1, <1>t, GoOnJobs
<1>v. /\ state' \in [Transactions -> {"none", "live", "gone"}]
      /\ \A t \in Transactions \ {c.tx} : state'[t] = state[t]
      /\ \A t \in Transactions : /\ state'[t] = "live" => state[t] = "live"
                                 /\ state[t] # "none" => state'[t] # "none"
  BY <1>t, <1>s, <1>c DEF TypeOK
<1>1. TypeOK'
  BY <1>t, <1>s, <1>g, <1>v DEF TypeOK
<1>2. OwnJobs'
  BY <1>t, <1>s, <1>g DEF OwnJobs, Newest
<1>3. NoLostUpdate'
  <2> SUFFICES ASSUME NEW v \in Users, NEW d \in cards'[v], phase'[v] = "parse"
               PROVE  state'[d.tx] = "live" /\ d = CardOf(d.tx)'
    BY DEF NoLostUpdate
  <2>1. v # u /\ d \in cards[v] /\ phase[v] = "parse"
    BY <1>g
  <2>2. d.tx \in Transactions /\ d.tx # c.tx
    BY <2>1, <1>t, <1>c, JobCard, CardFields
  <2> QED BY <2>1, <2>2, <1>t, <1>s, <1>v DEF NoLostUpdate, CardOf
<1>4. CardsTrue'
  <2>1. ASSUME NEW k \in DOMAIN sent PROVE state'[sent[k].tx] # "none"
    BY <1>t, <1>v, SentCard DEF CardsTrue
  <2>2. ASSUME NEW v \in Users, NEW d \in cards'[v]
        PROVE  d \in cards[v] /\ state'[d.tx] # "none"
    <3>1. v # u /\ d \in cards[v]
      BY <1>g
    <3>2. d.tx \in Transactions
      BY <3>1, <1>t, JobCard, CardFields
    <3> QED BY <3>1, <3>2, <1>t, <1>v DEF CardsTrue
  <2>3. ASSUME NEW v \in Users, NEW t \in saved[v] PROVE state'[t] # "none"
    BY <1>t, <1>v DEF CardsTrue, TypeOK
  <2> QED BY <2>1, <2>2, <2>3, <1>t, <1>s DEF CardsTrue
<1>5. ReplyHitsShown'
  BY <1>t, <1>s DEF ReplyHitsShown
<1>6. LatestCardWorks'
  <2>1. \A v \in Users : fresh'[v] = fresh[v]
    BY <1>g, <1>c
  <2> QED BY <2>1, <1>t, <1>s, <1>v, SentCard DEF LatestCardWorks, Newest
<1>7. NothingForgotten'
  <2>1. ASSUME NEW t \in Unstored PROVE t \in Unstored'
    <3>1. PICK v \in Users :
            \/ t \in saved[v]
            \/ \E d \in cards[v] : phase[v] # "parse" /\ d.tx = t
            \/ fresh[v] # 0 /\ sent[fresh[v]].tx = t
      BY DEF Unstored
    <3>2. t \in Transactions
      BY DEF Unstored
    <3>3. CASE v # u
      BY <3>1, <3>2, <3>3, <1>g, <1>s DEF Unstored
    <3>4. CASE v = u
      BY <3>1, <3>2, <3>4, <1>c, <1>s DEF Unstored
    <3> QED BY <3>3, <3>4
  <2> QED BY <2>1, <1>t, <1>s, <1>v DEF NothingForgotten
<1> QED BY <1>1, <1>2, <1>3, <1>4, <1>5, <1>6, <1>7 DEF IInv, Consistent

\* A card is sent: it is the newest of its transaction, and only its worker, whose user
\* owns the transaction, can send another before its id is stored.
LEMMA SendKeeps ==
  ASSUME IInv, NEW u \in Users, NEW c \in Cards, Send(u, c)
  PROVE  IInv'
<1>t. TypeOK /\ OwnJobs /\ NoLostUpdate /\ CardsTrue /\ ReplyHitsShown /\ LatestCardWorks
      /\ NothingForgotten
  BY Parts
<1> DEFINE n == Len(sent) + 1
<1>s. /\ phase[u] = "send" /\ c \in cards[u]
      /\ sent' = Append(sent, c)
      /\ phase' = [phase EXCEPT ![u] = "store"]
      /\ cards' = [cards EXCEPT ![u] = @ \ {c}]
      /\ fresh' = [fresh EXCEPT ![u] = n]
      /\ state' = state /\ version' = version /\ message' = message
      /\ saved' = saved /\ lost' = lost
  BY DEF Send, table
<1>c. c.tx \in Transactions /\ Owner[c.tx] = u /\ c.version \in Nat
  BY <1>s, <1>t, JobCard, CardFields
<1>n. /\ sent' \in Seq(Cards) /\ Len(sent') = n /\ n \in Nat \ {0}
      /\ DOMAIN sent' = 1 .. n /\ DOMAIN sent = 1 .. Len(sent) /\ Len(sent) \in Nat
      /\ sent'[n] = c /\ \A k \in 1 .. Len(sent) : sent'[k] = sent[k]
  BY <1>t, <1>s DEF TypeOK
<1> HIDE DEF n
<1>l. n = Len(sent) + 1
  BY DEF n
<1>g. /\ phase'[u] = "store" /\ cards'[u] = cards[u] \ {c} /\ fresh'[u] = n
      /\ \A v \in Users \ {u} :
           phase'[v] = phase[v] /\ cards'[v] = cards[v] /\ fresh'[v] = fresh[v]
      /\ fresh[u] = 0
  BY <1>t, <1>s DEF TypeOK, OwnJobs
<1>o. \A v \in Users : fresh[v] # 0 => fresh[v] \in 1 .. Len(sent) /\ fresh[v] # n
  BY <1>t, <1>l, <1>n DEF TypeOK
<1>1. TypeOK'
  BY <1>t, <1>s, <1>n, <1>l DEF TypeOK
<1>2. OwnJobs'
  <2>1. ASSUME NEW v \in Users, fresh'[v] # 0
        PROVE  /\ Owner[sent'[fresh'[v]].tx] = v
               /\ \A l \in DOMAIN sent' :
                    sent'[l].tx = sent'[fresh'[v]].tx => l <= fresh'[v]
    <3>1. CASE v = u
      BY <3>1, <1>n, <1>g, <1>c
    <3>2. CASE v # u
      <4>1. /\ fresh'[v] = fresh[v] /\ fresh[v] \in 1 .. Len(sent)
            /\ sent'[fresh[v]] = sent[fresh[v]]
            /\ Owner[sent[fresh[v]].tx] = v /\ Newest(fresh[v])
        BY <3>2, <2>1, <1>o, <1>n, <1>g, <1>t DEF OwnJobs
      <4>2. sent[fresh[v]].tx # c.tx
        BY <3>2, <4>1, <1>c
      <4>3. \A l \in 1 .. n : l = n \/ l \in 1 .. Len(sent)
        BY <1>n, <1>l
      <4> QED BY <4>1, <4>2, <4>3, <1>n DEF Newest
    <3> QED BY <3>1, <3>2
  <2>3. \A v \in Users : cards'[v] \subseteq cards[v]
    BY <1>g
  <2>4. ASSUME NEW v \in Users
        PROVE  /\ phase'[v] = "idle" => cards'[v] = {}
               /\ phase'[v] = "store" <=> fresh'[v] # 0
    BY <1>g, <1>n, <1>t DEF OwnJobs
  <2>5. \A v \in Users : /\ \A d \in cards'[v] : Owner[d.tx] = v
                        /\ \A r \in saved[v] : Owner[r] = v
    BY <2>3, <1>t DEF OwnJobs
  <2> QED BY <2>1, <2>4, <2>5, <1>s DEF OwnJobs, Newest
<1>3. NoLostUpdate'
  BY <1>t, <1>s, <1>g DEF NoLostUpdate, CardOf
<1>4. CardsTrue'
  <2>1. state[c.tx] # "none" /\ c.version <= version[c.tx]
    BY <1>t, <1>s DEF CardsTrue
  <2>2. ASSUME NEW k \in DOMAIN sent'
        PROVE  state[sent'[k].tx] # "none" /\ sent'[k].version <= version[sent'[k].tx]
    <3>1. CASE k = n
      BY <3>1, <2>1, <1>n
    <3>2. CASE k # n
      BY <3>2, <1>n, <1>l, <1>t DEF CardsTrue
    <3> QED BY <3>1, <3>2
  <2> QED BY <2>2, <1>t, <1>s, <1>g DEF CardsTrue
<1>5. ReplyHitsShown'
  <2>1. \A t \in Transactions : message[t] # 0 => message[t] \in 1 .. Len(sent)
    BY <1>t, <1>n DEF TypeOK
  <2> QED BY <2>1, <1>t, <1>s, <1>n DEF ReplyHitsShown
<1>6. LatestCardWorks'
  <2> SUFFICES ASSUME NEW k \in 1 .. n, Newest(k)', state[sent'[k].tx] = "live",
                      sent'[k].tx \notin lost
               PROVE  \/ message[sent'[k].tx] = k
                      \/ fresh'[Owner[sent'[k].tx]] = k
    BY <1>s, <1>n DEF LatestCardWorks
  <2>1. CASE k = n
    BY <2>1, <1>n, <1>c, <1>g
  <2>2. CASE k # n
    <3>1. k \in 1 .. Len(sent) /\ sent'[k] = sent[k]
      BY <2>2, <1>n, <1>l
    <3>2. sent[k].tx # c.tx
      BY <2>2, <3>1, <1>n, <1>l DEF Newest
    <3>3. Newest(k)
      BY <3>1, <1>n, <1>l DEF Newest
    <3>4. message[sent[k].tx] = k \/ fresh[Owner[sent[k].tx]] = k
      BY <3>1, <3>3, <1>t, <1>n DEF LatestCardWorks
    <3>5. Owner[sent[k].tx] \in Users
      BY <3>1, <1>n, <1>t, SentCard
    <3>6. fresh[u] # k
      BY <3>1, <1>g, <1>n
    <3> QED BY <3>1, <3>4, <3>5, <3>6, <1>g
  <2> QED BY <2>1, <2>2
<1>7. NothingForgotten'
  <2>1. ASSUME NEW t \in Unstored PROVE t \in Unstored'
    <3>1. PICK v \in Users :
            \/ t \in saved[v]
            \/ \E d \in cards[v] : phase[v] # "parse" /\ d.tx = t
            \/ fresh[v] # 0 /\ sent[fresh[v]].tx = t
      BY DEF Unstored
    <3>2. t \in Transactions
      BY DEF Unstored
    <3>3. CASE t \in saved[v]
      BY <3>2, <3>3, <1>s DEF Unstored
    <3>4. CASE fresh[v] # 0 /\ sent[fresh[v]].tx = t
      <4>1. v # u /\ fresh'[v] = fresh[v] /\ sent'[fresh[v]] = sent[fresh[v]]
        BY <3>4, <1>g, <1>o, <1>n
      <4> QED BY <3>2, <3>4, <4>1 DEF Unstored
    <3>5. ASSUME NEW d \in cards[v], phase[v] # "parse", d.tx = t
          PROVE  t \in Unstored'
      <4>1. CASE v = u /\ d = c
        BY <4>1, <3>2, <3>5, <1>g, <1>n DEF Unstored
      <4>2. CASE v = u /\ d # c
        <5>1. d \in cards'[u] /\ phase'[u] # "parse"
          BY <4>2, <3>5, <1>g
        <5> QED BY <5>1, <3>2, <3>5 DEF Unstored
      <4>3. CASE v # u
        BY <4>3, <3>2, <3>5, <1>g DEF Unstored
      <4> QED BY <4>1, <4>2, <4>3
    <3> QED BY <3>1, <3>3, <3>4, <3>5
  <2> QED BY <2>1, <1>t, <1>s DEF NothingForgotten
<1> QED BY <1>1, <1>2, <1>3, <1>4, <1>5, <1>6, <1>7 DEF IInv, Consistent

\* A card is not sent: its transaction is lost if no reply can reach it.
LEMMA SendFailsKeeps ==
  ASSUME IInv, NEW u \in Users, NEW c \in Cards, SendFails(u, c)
  PROVE  IInv'
<1>t. TypeOK /\ OwnJobs /\ NoLostUpdate /\ CardsTrue /\ ReplyHitsShown /\ LatestCardWorks
      /\ NothingForgotten
  BY Parts
<1> DEFINE rest == cards[u] \ {c}
<1>s. /\ phase[u] = "send" /\ c \in cards[u] /\ GoOn(u, rest)
      /\ lost' = lost \cup Unreached({c.tx})
      /\ state' = state /\ version' = version /\ message' = message
      /\ saved' = saved /\ sent' = sent
  BY DEF SendFails, table
<1>r. rest \in SUBSET Cards /\ rest \subseteq cards[u]
      /\ \A d \in cards[u] : d # c => d \in rest
  BY <1>t DEF TypeOK
<1> HIDE DEF rest
<1>g. /\ phase' \in [Users -> {"idle", "parse", "send", "store"}]
      /\ cards' \in [Users -> SUBSET Cards]
      /\ fresh' \in [Users -> 0 .. Len(sent)]
      /\ phase'[u] = (IF rest = {} THEN "idle" ELSE "send")
      /\ cards'[u] = rest /\ fresh'[u] = 0
      /\ \A v \in Users \ {u} :
           phase'[v] = phase[v] /\ cards'[v] = cards[v] /\ fresh'[v] = fresh[v]
  BY <1>t, <1>s, <1>r, GoOnJobs
<1>f. fresh[u] = 0
  BY <1>t, <1>s DEF OwnJobs
<1>c. c.tx \in Transactions
  BY CardFields
<1>l. /\ lost \subseteq lost' /\ lost' \in SUBSET Transactions
      /\ message[c.tx] = 0 => c.tx \in lost'
  BY <1>s, <1>c, <1>t DEF Unreached, TypeOK
<1>1. TypeOK'
  BY <1>t, <1>s, <1>g, <1>l DEF TypeOK
<1>2. OwnJobs'
  BY <1>t, <1>s, <1>g, <1>r DEF OwnJobs, Newest
<1>3. NoLostUpdate'
  BY <1>t, <1>s, <1>g DEF NoLostUpdate, CardOf
<1>4. CardsTrue'
  BY <1>t, <1>s, <1>g, <1>r DEF CardsTrue
<1>5. ReplyHitsShown'
  BY <1>t, <1>s DEF ReplyHitsShown
<1>6. LatestCardWorks'
  <2>1. \A v \in Users : fresh'[v] = fresh[v]
    BY <1>g, <1>f
  <2> QED BY <2>1, <1>t, <1>s, <1>l, SentCard DEF LatestCardWorks, Newest
<1>7. NothingForgotten'
  <2>1. ASSUME NEW t \in Unstored, t # c.tx PROVE t \in Unstored'
    <3>1. PICK v \in Users :
            \/ t \in saved[v]
            \/ \E d \in cards[v] : phase[v] # "parse" /\ d.tx = t
            \/ fresh[v] # 0 /\ sent[fresh[v]].tx = t
      BY DEF Unstored
    <3>2. t \in Transactions
      BY DEF Unstored
    <3>3. CASE v # u
      BY <3>1, <3>2, <3>3, <1>g, <1>s DEF Unstored
    <3>4. CASE v = u /\ t \in saved[u]
      BY <3>2, <3>4, <1>s DEF Unstored
    <3>5. ASSUME v = u, NEW d \in cards[u], d.tx = t PROVE t \in Unstored'
      <4>1. d \in cards'[u] /\ phase'[u] # "parse"
        BY <2>1, <3>5, <1>r, <1>g
      <4> QED BY <4>1, <3>2, <3>5 DEF Unstored
    <3> QED BY <3>1, <3>3, <3>4, <3>5, <1>f
  <2> QED BY <2>1, <1>t, <1>s, <1>l DEF NothingForgotten
<1> QED BY <1>1, <1>2, <1>3, <1>4, <1>5, <1>6, <1>7 DEF IInv, Consistent

\* The rows that wait when a worker is done with the card it sent.
LEMMA UnstoredGoOn ==
  ASSUME IInv, NEW u \in Users, phase[u] = "store", GoOn(u, cards[u]),
         saved' = saved, sent' = sent, NEW t \in Unstored, t # sent[fresh[u]].tx
  PROVE  t \in Unstored'
<1>g. /\ phase' \in [Users -> {"idle", "parse", "send", "store"}]
      /\ cards' \in [Users -> SUBSET Cards]
      /\ fresh' \in [Users -> 0 .. Len(sent)]
      /\ phase'[u] = (IF cards[u] = {} THEN "idle" ELSE "send")
      /\ cards'[u] = cards[u] /\ fresh'[u] = 0
      /\ \A v \in Users \ {u} :
           phase'[v] = phase[v] /\ cards'[v] = cards[v] /\ fresh'[v] = fresh[v]
  BY Parts, GoOnJobs DEF TypeOK
<1>1. PICK v \in Users :
        \/ t \in saved[v]
        \/ \E d \in cards[v] : phase[v] # "parse" /\ d.tx = t
        \/ fresh[v] # 0 /\ sent[fresh[v]].tx = t
  BY DEF Unstored
<1>2. t \in Transactions
  BY DEF Unstored
<1>3. CASE v # u
  BY <1>1, <1>2, <1>3, <1>g DEF Unstored
<1>4. CASE v = u /\ t \in saved[u]
  BY <1>2, <1>4 DEF Unstored
<1>5. ASSUME v = u, NEW d \in cards[u], d.tx = t PROVE t \in Unstored'
  BY <1>2, <1>5, <1>g DEF Unstored
<1> QED BY <1>1, <1>3, <1>4, <1>5

\* The id of the newest card is stored.
LEMMA StoreKeeps ==
  ASSUME IInv, NEW u \in Users, Store(u)
  PROVE  IInv'
<1>t. TypeOK /\ OwnJobs /\ NoLostUpdate /\ CardsTrue /\ ReplyHitsShown /\ LatestCardWorks
      /\ NothingForgotten
  BY Parts
<1> DEFINE k == fresh[u]
           t == sent[k].tx
<1>s. /\ phase[u] = "store" /\ GoOn(u, cards[u])
      /\ message' = [message EXCEPT ![t] = IF state[t] = "live" THEN k ELSE @]
      /\ lost' = lost \ {t}
      /\ state' = state /\ version' = version /\ saved' = saved /\ sent' = sent
  BY DEF Store, SetMessage
<1>k. /\ k \in 1 .. Len(sent) /\ k # 0
      /\ sent[k] \in Cards /\ Owner[t] = u /\ t \in Transactions /\ Newest(k)
  BY <1>t, <1>s, FreshCard, CardFields
<1>g. /\ phase' \in [Users -> {"idle", "parse", "send", "store"}]
      /\ cards' \in [Users -> SUBSET Cards]
      /\ fresh' \in [Users -> 0 .. Len(sent)]
      /\ phase'[u] = (IF cards[u] = {} THEN "idle" ELSE "send")
      /\ cards'[u] = cards[u] /\ fresh'[u] = 0
      /\ \A v \in Users \ {u} :
           phase'[v] = phase[v] /\ cards'[v] = cards[v] /\ fresh'[v] = fresh[v]
  BY <1>t, <1>s, GoOnJobs DEF TypeOK
<1>m. /\ message' \in [Transactions -> 0 .. Len(sent)]
      /\ state[t] = "live" => message'[t] = k
      /\ state[t] # "live" => message'[t] = message[t]
      /\ \A r \in Transactions \ {t} : message'[r] = message[r]
  BY <1>t, <1>s, <1>k DEF TypeOK
<1>1. TypeOK'
  BY <1>t, <1>s, <1>g, <1>m DEF TypeOK
<1>2. OwnJobs'
  BY <1>t, <1>s, <1>g DEF OwnJobs, Newest
<1>3. NoLostUpdate'
  BY <1>t, <1>s, <1>g DEF NoLostUpdate, CardOf
<1>4. CardsTrue'
  BY <1>t, <1>s, <1>g DEF CardsTrue
<1>5. ReplyHitsShown'
  BY <1>t, <1>s, <1>k, <1>m DEF ReplyHitsShown
<1>6. LatestCardWorks'
  <2> SUFFICES ASSUME NEW l \in DOMAIN sent, Newest(l), state[sent[l].tx] = "live",
                      sent[l].tx \notin lost'
               PROVE  message'[sent[l].tx] = l \/ fresh'[Owner[sent[l].tx]] = l
    BY <1>s DEF LatestCardWorks, Newest
  <2>1. sent[l].tx \in Transactions /\ Owner[sent[l].tx] \in Users /\ l \in 1 .. Len(sent)
    BY <1>t, SentCard
  <2>2. CASE sent[l].tx = t
    <3>1. k \in DOMAIN sent /\ k <= l
      BY <2>2, <1>k, <1>t DEF Newest, TypeOK
    <3>2. l = k
      BY <2>1, <2>2, <3>1, <1>k DEF Newest
    <3> QED BY <3>2, <1>m, <2>2
  <2>3. CASE sent[l].tx # t
    <3>1. message[sent[l].tx] = l \/ fresh[Owner[sent[l].tx]] = l
      BY <2>3, <1>t, <1>s DEF LatestCardWorks
    <3>2. fresh[u] # l
      BY <2>3
    <3> QED BY <2>1, <2>3, <3>1, <3>2, <1>g, <1>m
  <2> QED BY <2>2, <2>3
<1>7. NothingForgotten'
  <2> SUFFICES ASSUME NEW r \in Transactions, state[r] = "live", message'[r] = 0
               PROVE  r \in Unstored' \cup lost'
    BY <1>s DEF NothingForgotten
  <2>1. r # t /\ message[r] = 0
    BY <1>m, <1>k
  <2> QED BY <2>1, <1>t, <1>s, UnstoredGoOn DEF NothingForgotten
<1> QED BY <1>1, <1>2, <1>3, <1>4, <1>5, <1>6, <1>7 DEF IInv, Consistent

\* The id of the newest card is not stored: its transaction is lost.
LEMMA StoreFailsKeeps ==
  ASSUME IInv, NEW u \in Users, StoreFails(u)
  PROVE  IInv'
<1>t. TypeOK /\ OwnJobs /\ NoLostUpdate /\ CardsTrue /\ ReplyHitsShown /\ LatestCardWorks
      /\ NothingForgotten
  BY Parts
<1> DEFINE t == sent[fresh[u]].tx
<1>s. /\ phase[u] = "store" /\ GoOn(u, cards[u])
      /\ lost' = lost \cup {t}
      /\ state' = state /\ version' = version /\ message' = message
      /\ saved' = saved /\ sent' = sent
  BY DEF StoreFails, table
<1>k. t \in Transactions /\ Owner[t] = u
  BY <1>t, <1>s, FreshCard, CardFields
<1>g. /\ phase' \in [Users -> {"idle", "parse", "send", "store"}]
      /\ cards' \in [Users -> SUBSET Cards]
      /\ fresh' \in [Users -> 0 .. Len(sent)]
      /\ phase'[u] = (IF cards[u] = {} THEN "idle" ELSE "send")
      /\ cards'[u] = cards[u] /\ fresh'[u] = 0
      /\ \A v \in Users \ {u} :
           phase'[v] = phase[v] /\ cards'[v] = cards[v] /\ fresh'[v] = fresh[v]
  BY <1>t, <1>s, GoOnJobs DEF TypeOK
<1>1. TypeOK'
  BY <1>t, <1>s, <1>g, <1>k DEF TypeOK
<1>2. OwnJobs'
  BY <1>t, <1>s, <1>g DEF OwnJobs, Newest
<1>3. NoLostUpdate'
  BY <1>t, <1>s, <1>g DEF NoLostUpdate, CardOf
<1>4. CardsTrue'
  BY <1>t, <1>s, <1>g DEF CardsTrue
<1>5. ReplyHitsShown'
  BY <1>t, <1>s DEF ReplyHitsShown
<1>6. LatestCardWorks'
  <2> SUFFICES ASSUME NEW l \in DOMAIN sent, Newest(l), state[sent[l].tx] = "live",
                      sent[l].tx \notin lost'
               PROVE  message[sent[l].tx] = l \/ fresh'[Owner[sent[l].tx]] = l
    BY <1>s DEF LatestCardWorks, Newest
  <2>1. sent[l].tx # t /\ sent[l].tx \notin lost
    BY <1>s
  <2>2. Owner[sent[l].tx] \in Users
    BY <1>t, SentCard
  <2>3. message[sent[l].tx] = l \/ fresh[Owner[sent[l].tx]] = l
    BY <2>1, <1>t DEF LatestCardWorks
  <2> QED BY <2>1, <2>2, <2>3, <1>g
<1>7. NothingForgotten'
  <2> SUFFICES ASSUME NEW r \in Transactions, state[r] = "live", message[r] = 0, r # t
               PROVE  r \in Unstored' \cup lost'
    BY <1>s, <1>k DEF NothingForgotten
  <2> QED BY <1>t, <1>s, UnstoredGoOn DEF NothingForgotten
<1> QED BY <1>1, <1>2, <1>3, <1>4, <1>5, <1>6, <1>7 DEF IInv, Consistent

\* The process ends: what waited for a card or an id is lost, the rest works.
LEMMA CrashKeeps ==
  ASSUME IInv, Crash
  PROVE  IInv'
<1>t. TypeOK /\ OwnJobs /\ NoLostUpdate /\ CardsTrue /\ ReplyHitsShown /\ LatestCardWorks
      /\ NothingForgotten
  BY Parts
<1> DEFINE unstored == {sent[fresh[u]].tx : u \in {v \in Users : fresh[v] # 0}}
<1>s. /\ lost' = lost \cup Unreached(Unstored) \cup unstored
      /\ saved' = [u \in Users |-> {}]
      /\ phase' = [u \in Users |-> "idle"]
      /\ cards' = [u \in Users |-> {}]
      /\ fresh' = [u \in Users |-> 0]
      /\ state' = state /\ version' = version /\ message' = message /\ sent' = sent
  BY DEF Crash, table
<1>u. \A u \in Users : fresh[u] # 0 => sent[fresh[u]].tx \in unstored
  OBVIOUS
<1>r. \A r \in unstored : \E u \in Users : fresh[u] # 0 /\ r = sent[fresh[u]].tx
  OBVIOUS
<1> HIDE DEF unstored
<1>i. unstored \subseteq Transactions
  <2>1. ASSUME NEW u \in Users, fresh[u] # 0 PROVE sent[fresh[u]].tx \in Transactions
    BY <2>1, <1>t, FreshCard, CardFields DEF OwnJobs
  <2> QED BY <2>1, <1>r
<1>l. Unreached(Unstored) \subseteq Transactions
  BY DEF Unreached, Unstored
<1>1. TypeOK'
  BY <1>t, <1>s, <1>i, <1>l DEF TypeOK
<1>2. OwnJobs'
  BY <1>s DEF OwnJobs
<1>3. NoLostUpdate'
  BY <1>s DEF NoLostUpdate
<1>4. CardsTrue'
  BY <1>t, <1>s DEF CardsTrue
<1>5. ReplyHitsShown'
  BY <1>t, <1>s DEF ReplyHitsShown
<1>6. LatestCardWorks'
  <2> SUFFICES ASSUME NEW l \in DOMAIN sent, Newest(l), state[sent[l].tx] = "live",
                      sent[l].tx \notin lost, sent[l].tx \notin unstored
               PROVE  message[sent[l].tx] = l
    BY <1>s DEF LatestCardWorks, Newest
  <2>1. Owner[sent[l].tx] \in Users /\ l # 0
    BY <1>t, SentCard
  <2>2. message[sent[l].tx] = l \/ fresh[Owner[sent[l].tx]] = l
    BY <1>t DEF LatestCardWorks
  <2> QED BY <2>1, <2>2, <1>u
<1>7. NothingForgotten'
  BY <1>t, <1>s DEF NothingForgotten, Unreached, Unstored
<1> QED BY <1>1, <1>2, <1>3, <1>4, <1>5, <1>6, <1>7 DEF IInv, Consistent

-----------------------------------------------------------------------------

LEMMA NextKeeps == IInv /\ [Next]_vars => IInv'
<1> SUFFICES ASSUME IInv, [Next]_vars PROVE IInv'
  OBVIOUS
<1>1. ASSUME NEW t \in Transactions, Save(t) PROVE IInv'
  BY <1>1, SaveKeeps
<1>2. ASSUME NEW u \in Users,
             \/ Confirm(u) \/ List(u) \/ Update(u) \/ Delete(u) \/ GiveUp(u)
             \/ Store(u) \/ StoreFails(u)
      PROVE  IInv'
  BY <1>2, ConfirmKeeps, ListKeeps, UpdateKeeps, DeleteKeeps, GiveUpKeeps, StoreKeeps,
     StoreFailsKeeps
<1>3. ASSUME NEW u \in Users, NEW k \in 1 .. MaxCards, Reply(u, k) PROVE IInv'
  BY <1>3, ReplyKeeps
<1>4. ASSUME NEW u \in Users, NEW c \in Cards, Send(u, c) \/ SendFails(u, c) PROVE IInv'
  BY <1>4, SendKeeps, SendFailsKeeps
<1>5. CASE Crash
  BY <1>5, CrashKeeps
<1>6. CASE UNCHANGED vars
  BY <1>6 DEF vars, table, workers, IInv, TypeOK, Consistent, OwnJobs, NoLostUpdate, CardOf,
     CardsTrue, ReplyHitsShown, LatestCardWorks, Newest, NothingForgotten, Unstored
<1> QED BY <1>1, <1>2, <1>3, <1>4, <1>5, <1>6 DEF Next

\* The types and the consistency of the ledger hold in every reachable state.
THEOREM LedgerInvariant == Spec => []IInv
BY InitIInv, NextKeeps, PTL DEF Spec

\* Rows, jobs, cards and ids have the values they are meant to have.
THEOREM LedgerTypeOK == Spec => []TypeOK
<1>1. IInv => TypeOK
  BY Parts
<1> QED BY <1>1, LedgerInvariant, PTL

\* Jobs of a user only touch the user's own transactions, and the card whose id is being
\* stored is the newest of its transaction.
THEOREM LedgerOwnJobs == Spec => []OwnJobs
<1>1. IInv => OwnJobs
  BY Parts
<1> QED BY <1>1, LedgerInvariant, PTL

\* Nobody updates or deletes a row between the read and the write of an amend.
THEOREM AmendsLoseNothing == Spec => []NoLostUpdate
<1>1. IInv => NoLostUpdate
  BY Parts
<1> QED BY <1>1, LedgerInvariant, PTL

\* A card shows nothing that was not in the table.
THEOREM CardsAreTrue == Spec => []CardsTrue
<1>1. IInv => CardsTrue
  BY Parts
<1> QED BY <1>1, LedgerInvariant, PTL

\* A reply reaches the transaction that the card it answers shows.
THEOREM RepliesHitWhatIsShown == Spec => []ReplyHitsShown
<1>1. IInv => ReplyHitsShown
  BY Parts
<1> QED BY <1>1, LedgerInvariant, PTL

\* The newest card of a transaction is the one that a reply finds.
THEOREM NewestCardWorks == Spec => []LatestCardWorks
<1>1. IInv => LatestCardWorks
  BY Parts
<1> QED BY <1>1, LedgerInvariant, PTL

\* A transaction without a message id waits for a card, or lost one to a failure.
THEOREM NoLineForgotten == Spec => []NothingForgotten
<1>1. IInv => NothingForgotten
  BY Parts
<1> QED BY <1>1, LedgerInvariant, PTL
=============================================================================
