--------------------------- MODULE ReadersProofs ---------------------------
(***************************************************************************)
(* Proofs about the readers of the table (Readers): the tokens of the MCP  *)
(* server, the lists that queries return, the pages of them with their     *)
(* numbers, and the sums of them, for any users, clients, tables, queries  *)
(* and bounds.                                                             *)
(***************************************************************************)
EXTENDS Readers, SequenceTheorems, FiniteSetTheorems, WellFoundedInduction, TLAPS

-----------------------------------------------------------------------------
(* The inductive invariant.                                                 *)

\* The parts of a request that say whose it is, and the page that it gets.
Fields == {"phase", "token", "user", "revoked", "rows", "more"}

\* The history of tokens, and the functions over the clients.
TokensTyped ==
  /\ issued \in Seq(Users)
  /\ tokens \subseteq DOMAIN issued
  /\ DOMAIN request = Clients

\* Of the tokens made for one user only the latest is in the table.
LatestOnly ==
  \A t \in tokens, later \in DOMAIN issued : later > t => issued[later] # issued[t]

\* A request that is marked as revoked carries a token that a later one has replaced.
MarkedRight ==
  \A c \in Clients :
    request[c].phase # "idle" =>
      /\ Fields \subseteq DOMAIN request[c]
      /\ request[c].token \in DOMAIN issued
      /\ request[c].revoked =>
           \E later \in DOMAIN issued :
             later > request[c].token /\ issued[later] = issued[request[c].token]

\* Who is served is the user of the token.
ServedOwner ==
  \A c \in Clients :
    request[c].phase \in {"authenticated", "served"} =>
      request[c].user = issued[request[c].token]

TokensInv == TokensTyped /\ LatestOnly /\ MarkedRight /\ ServedOwner /\ RevokedGetsNothing

-----------------------------------------------------------------------------

\* A later token of the same user bars a token from the table.
LEMMA ReplacedIsGone ==
  ASSUME LatestOnly, NEW token \in DOMAIN issued, NEW later \in DOMAIN issued,
         later > token, issued[later] = issued[token]
  PROVE  token \notin tokens
  BY DEF LatestOnly

\* At the start no token was made, and no client asks.
LEMMA InitTokens == Init => TokensInv
<1> SUFFICES ASSUME Init PROVE TokensInv
  OBVIOUS
<1>1. issued = <<>> /\ tokens = {} /\ request = [c \in Clients |-> Idle]
  BY DEF Init, McpInit
<1>2. \A c \in Clients : request[c].phase = "idle"
  BY <1>1 DEF Idle
<1>3. issued \in Seq(Users) /\ DOMAIN request = Clients
  BY <1>1
<1> QED
  BY <1>1, <1>2, <1>3
     DEF TokensInv, TokensTyped, LatestOnly, MarkedRight, ServedOwner, RevokedGetsNothing

\* GenerateMCPToken: the history grows by one, and the token of the user is replaced.
LEMMA IssueKeeps ==
  ASSUME TokensInv, NEW u \in Users, Issue(u)
  PROVE  TokensInv'
<1> USE DEF TokensInv
<1>1. /\ issued' = Append(issued, u)
      /\ tokens' = (tokens \ OfUser(u)) \cup {Len(issued) + 1}
      /\ request' = request
  BY DEF Issue
<1>2. issued \in Seq(Users) /\ Len(issued) \in Nat /\ DOMAIN issued = 1 .. Len(issued)
  BY DEF TokensTyped
<1>3. /\ issued' \in Seq(Users)
      /\ DOMAIN issued' = 1 .. (Len(issued) + 1)
      /\ issued'[Len(issued) + 1] = u
      /\ \A t \in DOMAIN issued : issued'[t] = issued[t]
  BY <1>1, <1>2
<1>4. TokensTyped'
  BY <1>1, <1>2, <1>3 DEF TokensTyped
<1>5. LatestOnly'
  <2> SUFFICES ASSUME NEW t \in tokens', NEW later \in DOMAIN issued', later > t
               PROVE  issued'[later] # issued'[t]
    BY DEF LatestOnly
  <2>1. t # Len(issued) + 1
    BY <1>2, <1>3
  <2>2. t \in tokens /\ issued[t] # u /\ t \in DOMAIN issued
    BY <1>1, <2>1 DEF OfUser, TokensTyped
  <2>3. CASE later = Len(issued) + 1
    BY <1>3, <2>2, <2>3
  <2>4. CASE later # Len(issued) + 1
    <3>1. later \in DOMAIN issued
      BY <1>2, <1>3, <2>4
    <3> QED
      BY <3>1, <1>3, <2>2 DEF LatestOnly
  <2> QED
    BY <2>3, <2>4
<1>6. MarkedRight'
  <2> SUFFICES ASSUME NEW c \in Clients, request[c].phase # "idle"
               PROVE  /\ Fields \subseteq DOMAIN request[c]
                      /\ request[c].token \in DOMAIN issued'
                      /\ request[c].revoked =>
                           \E later \in DOMAIN issued' :
                             /\ later > request[c].token
                             /\ issued'[later] = issued'[request[c].token]
    BY <1>1 DEF MarkedRight
  <2>1. /\ request[c].token \in DOMAIN issued /\ DOMAIN issued \subseteq DOMAIN issued'
        /\ Fields \subseteq DOMAIN request[c]
    BY <1>2, <1>3 DEF MarkedRight
  <2>2. ASSUME request[c].revoked
        PROVE  \E later \in DOMAIN issued' :
                 later > request[c].token /\ issued'[later] = issued'[request[c].token]
    <3>1. PICK later \in DOMAIN issued :
            later > request[c].token /\ issued[later] = issued[request[c].token]
      BY <2>2 DEF MarkedRight
    <3> QED
      BY <3>1, <2>1, <1>3
  <2> QED
    BY <2>1, <2>2
<1>7. ServedOwner'
  <2> SUFFICES ASSUME NEW c \in Clients, request[c].phase \in {"authenticated", "served"}
               PROVE  request[c].user = issued'[request[c].token]
    BY <1>1 DEF ServedOwner
  <2>1. request[c].token \in DOMAIN issued
    BY DEF MarkedRight
  <2> QED
    BY <2>1, <1>3 DEF ServedOwner
<1>8. RevokedGetsNothing'
  BY <1>1 DEF RevokedGetsNothing
<1> QED
  BY <1>4, <1>5, <1>6, <1>7, <1>8

\* A client sends a request: it is marked as the history says.
LEMMA CallKeeps ==
  ASSUME TokensInv, NEW c \in Clients, NEW token \in DOMAIN issued,
         NEW query, NEW limit, NEW first, NEW offset,
         Call(c, token, query, limit, first, offset)
  PROVE  TokensInv'
<1> USE DEF TokensInv
<1> DEFINE revoked == \E later \in DOMAIN issued :
                        later > token /\ issued[later] = issued[token]
           new == [phase |-> "sent", token |-> token, query |-> query, limit |-> limit,
                   first |-> first, offset |-> offset, more |-> FALSE, rows |-> <<>>,
                   user |-> issued[token], revoked |-> revoked]
<1>1. /\ request' = [request EXCEPT ![c] = new]
      /\ issued' = issued /\ tokens' = tokens
  BY DEF Call
<1>2. /\ new.phase = "sent" /\ new.token = token
      /\ new.revoked = revoked
      /\ Fields \subseteq DOMAIN new
  BY DEF Fields
<1> HIDE DEF new
<1>3. /\ DOMAIN request' = Clients
      /\ request'[c] = new
      /\ \A d \in Clients : d # c => request'[d] = request[d]
  BY <1>1 DEF TokensTyped
<1>4. TokensTyped' /\ LatestOnly'
  BY <1>1, <1>3 DEF TokensTyped, LatestOnly
<1>5. MarkedRight'
  <2> SUFFICES ASSUME NEW d \in Clients, request'[d].phase # "idle"
               PROVE  /\ Fields \subseteq DOMAIN request'[d]
                      /\ request'[d].token \in DOMAIN issued
                      /\ request'[d].revoked =>
                           \E later \in DOMAIN issued :
                             /\ later > request'[d].token
                             /\ issued[later] = issued[request'[d].token]
    BY <1>1 DEF MarkedRight
  <2>1. CASE d = c
    BY <2>1, <1>2, <1>3
  <2>2. CASE d # c
    BY <2>2, <1>3 DEF MarkedRight
  <2> QED
    BY <2>1, <2>2
<1>6. ServedOwner' /\ RevokedGetsNothing'
  BY <1>1, <1>2, <1>3 DEF ServedOwner, RevokedGetsNothing
<1> QED
  BY <1>4, <1>5, <1>6

\* tokenVerifier: only a token of the table makes a user, and none there was replaced.
LEMMA AuthenticateKeeps ==
  ASSUME TokensInv, NEW c \in Clients, Authenticate(c)
  PROVE  TokensInv'
<1> USE DEF TokensInv
<1>0. issued' = issued /\ tokens' = tokens /\ request[c].phase = "sent"
  BY DEF Authenticate
<1>1. CASE \E u \in Verified(request[c].token) :
             request' = [request EXCEPT ![c].phase = "authenticated", ![c].user = u]
  <2>1. PICK u \in Verified(request[c].token) :
          request' = [request EXCEPT ![c].phase = "authenticated", ![c].user = u]
    BY <1>1
  <2>2. request[c].token \in tokens /\ u = issued[request[c].token]
    BY <2>1 DEF FindByHash, Verified
  <2>3. /\ DOMAIN request' = Clients
        /\ request'[c] = [[request[c] EXCEPT !.phase = "authenticated"] EXCEPT !.user = u]
        /\ \A d \in Clients : d # c => request'[d] = request[d]
    BY <2>1 DEF TokensTyped
  <2>5. /\ request'[c].phase = "authenticated" /\ request'[c].user = u
        /\ request'[c].token = request[c].token
        /\ request'[c].revoked = request[c].revoked
        /\ DOMAIN request'[c] = DOMAIN request[c]
    <3>1. Fields \subseteq DOMAIN request[c]
      BY <1>0 DEF MarkedRight
    <3> QED
      BY <2>3, <3>1 DEF Fields
  <2>4. ~request[c].revoked
    <3> SUFFICES ASSUME request[c].revoked PROVE FALSE
      OBVIOUS
    <3>1. PICK later \in DOMAIN issued :
            later > request[c].token /\ issued[later] = issued[request[c].token]
      BY <1>0 DEF MarkedRight
    <3> QED
      BY <3>1, <2>2, ReplacedIsGone DEF TokensTyped
  <2>6. TokensTyped' /\ LatestOnly'
    BY <1>0, <2>3 DEF TokensTyped, LatestOnly
  <2>7. MarkedRight'
    <3>1. /\ Fields \subseteq DOMAIN request'[c]
          /\ request'[c].token \in DOMAIN issued
      BY <1>0, <2>5 DEF MarkedRight
    <3>2. ~request'[c].revoked
      BY <2>4, <2>5
    <3>3. \A d \in Clients : d # c => request'[d] = request[d]
      BY <2>3
    <3> QED
      BY <1>0, <3>1, <3>2, <3>3 DEF MarkedRight
  <2>8. ServedOwner' /\ RevokedGetsNothing'
    <3>1. request'[c].user = issued[request'[c].token] /\ ~request'[c].revoked
      BY <2>2, <2>4, <2>5
    <3> QED
      BY <1>0, <2>3, <3>1 DEF ServedOwner, RevokedGetsNothing
  <2> QED
    BY <2>6, <2>7, <2>8
<1>2. CASE request' = [request EXCEPT ![c] = Idle]
  BY <1>0, <1>2
     DEF TokensTyped, LatestOnly, MarkedRight, ServedOwner, RevokedGetsNothing, Idle
<1> QED
  BY <1>1, <1>2 DEF Authenticate

\* The tool answers: the request is the same, but for its page.
LEMMA ServeKeeps ==
  ASSUME TokensInv, NEW c \in Clients, Serve(c)
  PROVE  TokensInv'
<1> USE DEF TokensInv
<1>1. /\ issued' = issued /\ tokens' = tokens
      /\ request[c].phase = "authenticated"
      /\ \E rows, more :
           request' = [request EXCEPT ![c].phase = "served", ![c].rows = rows,
                                      ![c].more = more]
  BY DEF Serve
<1>2. PICK rows, more :
        request' = [request EXCEPT ![c].phase = "served", ![c].rows = rows, ![c].more = more]
  BY <1>1
<1>3. Fields \subseteq DOMAIN request[c]
  BY <1>1 DEF MarkedRight
<1>4. /\ DOMAIN request' = Clients
      /\ \A d \in Clients : d # c => request'[d] = request[d]
      /\ request'[c] = [[[request[c] EXCEPT !.phase = "served"] EXCEPT !.rows = rows]
                          EXCEPT !.more = more]
  BY <1>2 DEF TokensTyped
<1>5. /\ request'[c].phase = "served"
      /\ request'[c].token = request[c].token
      /\ request'[c].user = request[c].user
      /\ request'[c].revoked = request[c].revoked
      /\ DOMAIN request'[c] = DOMAIN request[c]
  BY <1>3, <1>4 DEF Fields
<1>6. TokensTyped' /\ LatestOnly'
  BY <1>1, <1>4 DEF TokensTyped, LatestOnly
<1>7. MarkedRight'
  BY <1>1, <1>4, <1>5 DEF MarkedRight
<1>8. ServedOwner' /\ RevokedGetsNothing'
  BY <1>1, <1>4, <1>5 DEF ServedOwner, RevokedGetsNothing
<1> QED
  BY <1>6, <1>7, <1>8

\* A request that is refused is over.
LEMMA FailKeeps ==
  ASSUME TokensInv, NEW c \in Clients, Fail(c)
  PROVE  TokensInv'
  BY DEF TokensInv, Fail, Idle, TokensTyped, LatestOnly, MarkedRight, ServedOwner,
         RevokedGetsNothing

\* Each step keeps the invariant.
LEMMA TokensStep == TokensInv /\ [Next]_vars => TokensInv'
<1> SUFFICES ASSUME TokensInv, [Next]_vars PROVE TokensInv'
  OBVIOUS
<1>1. ASSUME UNCHANGED <<tokens, issued, request>> PROVE TokensInv'
  BY <1>1 DEF TokensInv, TokensTyped, LatestOnly, MarkedRight, ServedOwner,
              RevokedGetsNothing
<1>2. CASE \E r \in Rows : Write(r) /\ UNCHANGED <<chatVars, mcpVars>>
  BY <1>1, <1>2 DEF mcpVars
<1>3. CASE ReportsNext /\ UNCHANGED mcpVars
  BY <1>1, <1>3 DEF mcpVars
<1>4. CASE McpNext
  <2>1. ASSUME NEW u \in Users, Issue(u) PROVE TokensInv'
    BY <2>1, IssueKeeps
  <2>2. ASSUME NEW c \in Clients, CallAgain(c) PROVE TokensInv'
    <3>1. request[c].token \in DOMAIN issued
      BY <2>2 DEF CallAgain, TokensInv, MarkedRight
    <3> QED
      BY <2>2, <3>1, CallKeeps DEF CallAgain
  <2>3. ASSUME NEW c \in Clients, NEW token \in DOMAIN issued, NEW query \in Queries,
               NEW limit \in Limits, NEW first \in Offsets,
               Call(c, token, query, limit, first, first)
        PROVE  TokensInv'
    BY <2>3, CallKeeps
  <2> QED
    BY <1>4, <2>1, <2>2, <2>3, AuthenticateKeeps, ServeKeeps, FailKeeps DEF McpNext
<1>5. CASE UNCHANGED vars
  BY <1>1, <1>5 DEF vars, mcpVars
<1> QED
  BY <1>2, <1>3, <1>4, <1>5 DEF Next

\* What the token table and the requests under way have to do with the tokens made.
THEOREM TokensInvariant == Spec => []TokensInv
<1> QED
  BY InitTokens, TokensStep, PTL DEF Spec

\* A request that is sent with a token after another was issued to the user gets nothing,
\* for any number of users, clients and tokens, and wherever the tokens are issued
\* between a client's request, its authentication and its answer (upsert.go, tokenVerifier).
THEOREM RevokedTokensAreDead == Spec => []RevokedGetsNothing
<1>1. TokensInv => RevokedGetsNothing
  BY DEF TokensInv
<1> QED
  BY <1>1, TokensInvariant, PTL

\* Who is served is the user that the client's token was issued to.
THEOREM ServedIsOwner == Spec => []ServedOwner
<1>1. TokensInv => ServedOwner
  BY DEF TokensInv
<1> QED
  BY <1>1, TokensInvariant, PTL

-----------------------------------------------------------------------------
(* The list that a query returns.                                           *)

\* What the table holds.
TableInv ==
  /\ table \in [Rows -> Values \cup {NoRow}]
  /\ writes \in 0 .. MaxWrites
  /\ calm \in [Readers -> BOOLEAN]

\* Rows that are in the table: they have a date.
Present(rows) == rows \subseteq Rows /\ \A r \in rows : table[r].date \in Int

\* The rows that come before a row.
Before(rows, r) == {s \in rows : Precedes(s, r)}

\* Date and id order the rows that are in the table.
LEMMA RowsAreOrdered ==
  ASSUME NEW rows, Present(rows)
  PROVE  /\ \A r \in rows : ~Precedes(r, r)
         /\ \A r, s, t \in rows : Precedes(r, s) /\ Precedes(s, t) => Precedes(r, t)
         /\ \A r, s \in rows : r # s => Precedes(r, s) \/ Precedes(s, r)
<1>1. ASSUME NEW r \in rows PROVE r \in Int /\ table[r].date \in Int
  <2>1. r \in Rows
    BY DEF Present
  <2>2. r \in Int
    BY <2>1, RowsAssumption
  <2>3. table[r].date \in Int
    BY DEF Present
  <2> QED
    BY <2>2, <2>3
<1>2. \A r \in rows : ~Precedes(r, r)
  BY <1>1 DEF Precedes
<1>3. ASSUME NEW r \in rows, NEW s \in rows, NEW t \in rows, Precedes(r, s), Precedes(s, t)
      PROVE  Precedes(r, t)
  BY <1>1, <1>3 DEF Precedes
<1>4. ASSUME NEW r \in rows, NEW s \in rows, r # s PROVE Precedes(r, s) \/ Precedes(s, r)
  BY <1>1, <1>4 DEF Precedes
<1> QED
  BY <1>2, <1>3, <1>4

\* Of two rows the later one has more rows before it.
LEMMA BeforeGrows ==
  ASSUME NEW rows, Present(rows), IsFiniteSet(rows), NEW r \in rows, NEW s \in rows,
         Precedes(r, s)
  PROVE  Cardinality(Before(rows, r)) < Cardinality(Before(rows, s))
<1>1. Before(rows, r) \cup {r} \in SUBSET Before(rows, s) /\ r \notin Before(rows, r)
  BY RowsAreOrdered DEF Before
<1>2. Before(rows, s) \in SUBSET rows /\ Before(rows, r) \in SUBSET rows
  BY DEF Before
<1>3. /\ IsFiniteSet(Before(rows, s)) /\ IsFiniteSet(Before(rows, r))
      /\ Cardinality(Before(rows, s)) \in Nat /\ Cardinality(Before(rows, r)) \in Nat
  BY <1>2, FS_Subset, FS_CardinalityType
<1>4. Cardinality(Before(rows, r) \cup {r}) = Cardinality(Before(rows, r)) + 1
  BY <1>1, <1>3, FS_AddElement
<1>5. Cardinality(Before(rows, r) \cup {r}) <= Cardinality(Before(rows, s))
  BY <1>1, <1>3, FS_Subset
<1> QED
  BY <1>3, <1>4, <1>5

\* For each place there is a row that comes there, by the pigeonhole principle.
LEMMA PlacesAreTaken ==
  ASSUME NEW rows, Present(rows), IsFiniteSet(rows)
  PROVE  /\ Cardinality(rows) \in Nat
         /\ \A r \in rows : Cardinality(Before(rows, r)) \in 0 .. Cardinality(rows) - 1
         /\ \A k \in 1 .. Cardinality(rows) :
              \E r \in rows : Cardinality(Before(rows, r)) = k - 1
<1> DEFINE n == Cardinality(rows)
           rank == [r \in rows |-> Cardinality(Before(rows, r))]
           places == 0 .. n - 1
<1>1. n \in Nat
  BY FS_CardinalityType
<1>2. ASSUME NEW r \in rows PROVE Cardinality(Before(rows, r)) \in places
  <2>1. Before(rows, r) \in SUBSET rows
    BY DEF Before
  <2>2. Before(rows, r) # rows
    BY RowsAreOrdered DEF Before
  <2>3. IsFiniteSet(Before(rows, r)) /\ Cardinality(Before(rows, r)) \in Nat
    BY <2>1, FS_Subset, FS_CardinalityType
  <2>4. Cardinality(Before(rows, r)) <= n /\ Cardinality(Before(rows, r)) # n
    BY <2>1, <2>2, FS_Subset
  <2> QED
    BY <1>1, <2>3, <2>4
<1>3. rank \in [rows -> places]
  BY <1>2
<1>4. ASSUME NEW r \in rows, NEW s \in rows, r # s PROVE rank[r] # rank[s]
  <2>1. rank[r] \in Int /\ rank[s] \in Int
    BY <1>1, <1>2
  <2>2. rank[r] < rank[s] \/ rank[s] < rank[r]
    BY <1>4, RowsAreOrdered, BeforeGrows
  <2> QED
    BY <2>1, <2>2
<1>5. rank \in Injection(rows, places)
  BY <1>3, <1>4 DEF Injection, IsInjective
<1>6. IsFiniteSet(places) /\ Cardinality(places) = n
  BY <1>1, FS_Interval, SMTT(30)
<1>7. rank \in Surjection(rows, places)
  <2> HIDE DEF rank, places
  <2> QED
    BY <1>5, <1>6, FS_Injection
<1>8. ASSUME NEW k \in 1 .. n PROVE \E r \in rows : Cardinality(Before(rows, r)) = k - 1
  <2>1. k - 1 \in places
    BY <1>1
  <2>2. PICK r \in rows : rank[r] = k - 1
    BY <1>7, <2>1 DEF Surjection
  <2> QED
    BY <2>2
<1> QED
  BY <1>1, <1>2, <1>8

\* ORDER BY date, id: every row once, and in order.
LEMMA ByDateFacts ==
  ASSUME NEW rows, Present(rows), IsFiniteSet(rows), NEW list, list = ByDate(rows)
  PROVE  /\ list \in Seq(rows) /\ Len(list) = Cardinality(rows)
         /\ DOMAIN list = 1 .. Len(list)
         /\ \A r \in rows : \E k \in DOMAIN list : list[k] = r
         /\ \A k, l \in DOMAIN list : k < l => Precedes(list[k], list[l])
<1> DEFINE n == Cardinality(rows)
<1>1. n \in Nat /\ DOMAIN list = 1 .. n
  BY PlacesAreTaken DEF ByDate
<1>2. ASSUME NEW k \in 1 .. n
      PROVE  list[k] \in rows /\ Cardinality(Before(rows, list[k])) = k - 1
  <2>1. list[k] = CHOOSE r \in rows : Cardinality(Before(rows, r)) = k - 1
    BY DEF ByDate, Before
  <2>2. \E r \in rows : Cardinality(Before(rows, r)) = k - 1
    BY PlacesAreTaken
  <2> QED
    BY <2>1, <2>2
<1>3. list \in [1 .. n -> rows]
  <2>1. \A k \in 1 .. n : (CHOOSE r \in rows : Cardinality(Before(rows, r)) = k - 1) \in rows
    BY PlacesAreTaken
  <2>2. list = [k \in 1 .. n |-> CHOOSE r \in rows : Cardinality(Before(rows, r)) = k - 1]
    BY DEF ByDate, Before
  <2> QED
    BY <2>1, <2>2
<1>4. list \in Seq(rows) /\ Len(list) = n
  BY <1>1, <1>3
<1>5. ASSUME NEW r \in rows, NEW s \in rows,
             Cardinality(Before(rows, r)) < Cardinality(Before(rows, s))
      PROVE  Precedes(r, s)
  <2>1. /\ Cardinality(Before(rows, r)) \in Int
        /\ Cardinality(Before(rows, s)) \in Int
    BY <1>1, PlacesAreTaken
  <2>2. r # s /\ ~Precedes(s, r)
    BY <1>5, <2>1, BeforeGrows
  <2> QED
    BY <2>2, RowsAreOrdered
<1>6. ASSUME NEW k \in DOMAIN list, NEW l \in DOMAIN list, k < l
      PROVE  Precedes(list[k], list[l])
  <2>1. k \in 1 .. n /\ l \in 1 .. n /\ k - 1 < l - 1
    BY <1>1, <1>6
  <2> QED
    BY <1>2, <1>5, <2>1
<1>7. ASSUME NEW r \in rows PROVE \E k \in DOMAIN list : list[k] = r
  <2>1. PICK k \in 1 .. n : Cardinality(Before(rows, r)) = k - 1
    <3>1. PICK m \in 0 .. n - 1 : Cardinality(Before(rows, r)) = m
      BY PlacesAreTaken
    <3>2. m + 1 \in 1 .. n /\ m = (m + 1) - 1
      BY <1>1
    <3> QED
      BY <3>1, <3>2
  <2>2. list[k] = r
    <3>1. list[k] \in rows /\ Cardinality(Before(rows, list[k])) = k - 1
      BY <1>2
    <3>2. ~Precedes(list[k], r) /\ ~Precedes(r, list[k])
      BY <2>1, <3>1, BeforeGrows
    <3> QED
      BY <3>1, <3>2, RowsAreOrdered
  <2> QED
    BY <1>1, <2>2
<1> QED
  BY <1>1, <1>4, <1>6, <1>7

\* A query returns the rows that it finds, each once, in the order of date and id
\* (get_list_by_period.go).
ListInOrder(u, query) ==
  LET list == Listed(u, query)
  IN /\ \A k \in DOMAIN list : list[k] \in Found(u, query)
     /\ \A r \in Found(u, query) : \E k \in DOMAIN list : list[k] = r
     /\ \A k, l \in DOMAIN list : k < l => Precedes(list[k], list[l])

LEMMA ListedFacts ==
  ASSUME TableInv, NEW u, NEW query, NEW list, list = Listed(u, query)
  PROVE  /\ list \in Seq(Rows) /\ Len(list) \in Nat /\ DOMAIN list = 1 .. Len(list)
         /\ \A k \in DOMAIN list : OwnerOf[list[k]] = u
         /\ ListInOrder(u, query)
<1> DEFINE rows == Found(u, query)
<1>1. rows \in SUBSET Rows /\ \A r \in rows : OwnerOf[r] = u /\ table[r] # NoRow
  BY DEF Found, Matches
<1>2. Present(rows)
  BY <1>1, ValuesAssumption DEF TableInv, Present
<1>3. IsFiniteSet(rows)
  BY <1>1, RowsAssumption, FS_Subset
<1>4. list = ByDate(rows)
  BY DEF Listed
<1> HIDE DEF rows
<1>5. /\ list \in Seq(rows) /\ DOMAIN list = 1 .. Len(list)
      /\ \A r \in rows : \E k \in DOMAIN list : list[k] = r
      /\ \A k, l \in DOMAIN list : k < l => Precedes(list[k], list[l])
  BY <1>2, <1>3, <1>4, ByDateFacts
<1>6. Len(list) \in Nat /\ \A k \in DOMAIN list : list[k] \in rows
  BY <1>5, ElementOfSeq
<1>7. list \in Seq(Rows)
  BY <1>1, <1>5, <1>6
<1>8. ListInOrder(u, query)
  BY <1>5, <1>6 DEF ListInOrder, rows
<1> QED
  BY <1>1, <1>5, <1>6, <1>7, <1>8

\* A piece of a list.
LEMMA Piece ==
  ASSUME NEW list \in Seq(Rows), NEW m \in Nat, m > 0, NEW n \in Int, n <= Len(list)
  PROVE  /\ SubSeq(list, m, n) \in Seq(Rows)
         /\ Len(SubSeq(list, m, n)) = IF m <= n THEN n - m + 1 ELSE 0
         /\ \A i \in 1 .. n - m + 1 : SubSeq(list, m, n)[i] = list[m + i - 1]
<1>1. Len(list) \in Nat
  BY LenProperties
<1>2. DOMAIN list = 1 .. Len(list)
  BY LenProperties
<1>3. \A i \in m .. n : i \in 1 .. Len(list)
  BY <1>1
<1>4. \A i \in m .. n : list[i] \in Rows
  BY <1>2, <1>3, ElementOfSeq
<1> QED
  BY <1>4, SubSeqProperties

\* LIMIT and OFFSET: a page of a list has rows of the list.
LEMMA PageFacts ==
  ASSUME NEW list \in Seq(Rows), NEW limit \in Int, NEW offset \in Int,
         NEW rows, rows = Page(list, limit, offset)
  PROVE  /\ rows \in Seq(Rows)
         /\ \A k \in DOMAIN rows : \E l \in DOMAIN list : rows[k] = list[l]
<1>1. Len(list) \in Nat /\ DOMAIN list = 1 .. Len(list)
  BY LenProperties
<1>2. PICK m \in Nat, n \in Int : n <= Len(list) /\ rows = SubSeq(list, m + 1, n)
  <2> DEFINE skipped == IF offset < 0 THEN 0 ELSE offset
             end == IF limit < 0 \/ skipped + limit > Len(list) THEN Len(list)
                    ELSE skipped + limit
  <2>1. skipped \in Nat /\ end \in Int /\ end <= Len(list)
    BY <1>1
  <2>2. rows = SubSeq(list, skipped + 1, end)
    BY DEF Page
  <2> QED
    BY <2>1, <2>2
<1>3. \A i \in m + 1 .. n : list[i] \in Rows
  BY <1>1, <1>2, ElementOfSeq
<1>4. /\ rows \in Seq(Rows)
      /\ Len(rows) = IF m + 1 <= n THEN n - (m + 1) + 1 ELSE 0
      /\ \A i \in 1 .. n - (m + 1) + 1 : rows[i] = list[m + 1 + i - 1]
  BY <1>2, <1>3, SubSeqProperties
<1>5. ASSUME NEW k \in DOMAIN rows PROVE \E l \in DOMAIN list : rows[k] = list[l]
  <2>1. k \in 1 .. Len(rows)
    BY <1>4, LenProperties
  <2>2. k \in 1 .. n - (m + 1) + 1 /\ m + 1 + k - 1 \in 1 .. Len(list)
    BY <1>1, <1>2, <1>4, <2>1
  <2> QED
    BY <1>1, <1>4, <2>2
<1> QED
  BY <1>4, <1>5

\* Where a page with a limit ends.
LEMMA PageEnds ==
  ASSUME NEW n \in Nat, NEW limit \in Nat, limit > 0, NEW offset \in Nat, NEW end \in Int,
         end = IF offset + limit > n THEN n ELSE offset + limit
  PROVE  /\ 0 <= end /\ end <= n
         /\ offset < n => offset < end
         /\ offset >= n => end = n
OBVIOUS

\* A page with a limit: it is empty past the end of the list, else it has as many rows as
\* there are, up to the limit.
LEMMA PageRange ==
  ASSUME NEW list \in Seq(Rows), NEW limit \in Nat, limit > 0, NEW offset \in Nat,
         NEW rows, rows = Page(list, limit, offset),
         NEW end \in Int, end = IF offset + limit > Len(list) THEN Len(list) ELSE offset + limit
  PROVE  /\ end \in Nat /\ end <= Len(list)
         /\ rows = SubSeq(list, offset + 1, end)
         /\ offset < Len(list) => rows # <<>> /\ Len(rows) = end - offset /\ offset < end
         /\ offset >= Len(list) => rows = <<>>
<1>1. Len(list) \in Nat
  BY LenProperties
<1>0. /\ 0 <= end /\ end <= Len(list)
      /\ offset < Len(list) => offset < end
      /\ offset >= Len(list) => end = Len(list)
  BY <1>1, PageEnds
<1>2. rows = SubSeq(list, offset + 1, end)
  <2> DEFINE skipped == IF offset < 0 THEN 0 ELSE offset
  <2>1. skipped = offset
    OBVIOUS
  <2>2. rows = SubSeq(list, skipped + 1,
                 IF limit < 0 \/ skipped + limit > Len(list) THEN Len(list) ELSE skipped + limit)
    BY DEF Page
  <2> HIDE DEF skipped
  <2>3. end = IF limit < 0 \/ skipped + limit > Len(list) THEN Len(list) ELSE skipped + limit
    BY <1>1, <2>1
  <2> QED
    BY <2>1, <2>2, <2>3
<1>5. offset < end => Len(rows) = end - offset
  <2>1. PICK m \in Nat : m = offset + 1 /\ m > 0
    OBVIOUS
  <2>2. Len(SubSeq(list, m, end)) = IF m <= end THEN end - m + 1 ELSE 0
    BY <1>0, <2>1, Piece
  <2>3. rows = SubSeq(list, m, end)
    BY <1>2, <2>1
  <2>4. Len(rows) = IF m <= end THEN end - m + 1 ELSE 0
    BY <2>2, <2>3
  <2>5. PICK length : length = Len(rows)
    OBVIOUS
  <2>6. length = IF m <= end THEN end - m + 1 ELSE 0
    BY <2>4, <2>5
  <2>7. ASSUME offset < end PROVE length = end - offset
    BY ONLY <2>1, <2>6, <2>7, offset \in Nat, end \in Int
  <2> QED
    BY <2>5, <2>7
<1>6. ASSUME offset < Len(list)
      PROVE  rows # <<>> /\ Len(rows) = end - offset /\ offset < end
  <2>1. offset < end /\ Len(rows) = end - offset
    BY <1>0, <1>5, <1>6
  <2>2. Len(<<>>) = 0 /\ end - offset # 0
    BY <2>1
  <2> QED
    BY <2>1, <2>2
<1>7. ASSUME offset >= Len(list) PROVE rows = <<>>
  <2>1. PICK m \in Nat : m = offset + 1
    OBVIOUS
  <2>2. end < m
    BY <1>0, <1>1, <1>7, <2>1
  <2>3. SubSeq(list, m, end) = <<>>
    BY <2>2, SubSeqEmpty
  <2> QED
    BY <1>2, <2>1, <2>3
<1>8. end \in Nat /\ end <= Len(list)
  BY <1>0
<1> QED
  BY <1>2, <1>6, <1>7, <1>8

\* Who has the list up to an offset, and gets the page there, has it up to the page's end.
LEMMA PageFollows ==
  ASSUME NEW list \in Seq(Rows), NEW limit \in Nat, limit > 0, NEW offset \in 0 .. Len(list),
         NEW rows, rows = Page(list, limit, offset),
         NEW end \in Int, end = IF offset + limit > Len(list) THEN Len(list) ELSE offset + limit
  PROVE  /\ Len(SubSeq(list, 1, end)) = end
         /\ offset = 0 => rows = SubSeq(list, 1, end)
         /\ offset # 0 => SubSeq(list, 1, offset) \o rows = SubSeq(list, 1, end)
<1>1. Len(list) \in Nat
  BY LenProperties
<1>2. /\ end \in Nat /\ end <= Len(list) /\ rows = SubSeq(list, offset + 1, end)
      /\ offset <= end
  <2>1. offset \in Nat /\ offset <= end
    BY <1>1
  <2>2. end \in Nat /\ end <= Len(list) /\ rows = SubSeq(list, offset + 1, end)
    BY ONLY <2>1, PageRange, list \in Seq(Rows), limit \in Nat, limit > 0, end \in Int,
            rows = Page(list, limit, offset),
            end = IF offset + limit > Len(list) THEN Len(list) ELSE offset + limit
  <2> QED
    BY <2>1, <2>2
<1>3. offset # 0 => SubSeq(list, 1, offset) \o rows = SubSeq(list, 1, end)
  <2>1. 1 \in 1 .. Len(list) + 1 /\ offset \in 1 - 1 .. Len(list) /\ end \in offset .. Len(list)
    BY <1>1, <1>2
  <2>2. SubSeq(list, 1, offset) \o SubSeq(list, offset + 1, end) = SubSeq(list, 1, end)
    BY <2>1, ConcatAdjacentSubSeq
  <2> QED
    BY <1>2, <2>2
<1>5. offset = 0 => rows = SubSeq(list, 1, end)
  BY <1>2
<1>4. Len(SubSeq(list, 1, end)) = end
  <2>1. 1 <= end \/ end = 0
    BY <1>2
  <2>2. Len(SubSeq(list, 1, end)) = IF 1 <= end THEN end - 1 + 1 ELSE 0
    BY <1>2, Piece
  <2> QED
    BY <1>2, <2>1, <2>2
<1> QED
  BY <1>3, <1>4, <1>5

\* A list does not change while the table does not.
LEMMA ListedKept ==
  ASSUME table' = table, NEW u, NEW query
  PROVE  Listed(u, query)' = Listed(u, query)
BY DEF Listed, ByDate, Found, Matches, Precedes

\* What the readers do to the table: nothing; one of them may begin to page.
Looks(reader) ==
  /\ table' = table /\ writes' = writes
  /\ calm' = calm \/ calm' = [calm EXCEPT ![reader] = TRUE]

LEMMA NextLooks ==
  ASSUME Next
  PROVE  \/ \E r \in Rows : Write(r) /\ UNCHANGED <<chatVars, mcpVars>>
         \/ \E u \in Users : Looks(u) /\ ReportsNext /\ UNCHANGED mcpVars
         \/ \E c \in Clients : Looks(c) /\ McpNext /\ UNCHANGED chatVars
         \/ \E u \in Users : Issue(u) /\ UNCHANGED <<chatVars, tableVars>>
<1>1. CASE ReportsNext /\ UNCHANGED mcpVars
  <2>1. PICK u \in Users :
          \/ \E from, to \in {v.date : v \in Values} : FirstPage(u, from, to)
          \/ \E number \in Numbers \cup {0}, word \in Words : SpecificPage(u, number, word)
    BY <1>1 DEF ReportsNext
  <2>2. Looks(u)
    BY <2>1 DEF FirstPage, SpecificPage, Begin, Looks
  <2> QED
    BY <1>1, <2>2
<1>2. CASE McpNext /\ UNCHANGED chatVars
  <2>1. ASSUME NEW c \in Clients,
               \/ CallAgain(c) \/ Authenticate(c) \/ Serve(c) \/ Fail(c)
               \/ \E token \in DOMAIN issued, query \in Queries, limit \in Limits,
                     first \in Offsets :
                    Call(c, token, query, limit, first, first)
        PROVE  Looks(c)
    BY <2>1 DEF CallAgain, Call, Authenticate, Serve, Fail, Begin, Looks, tableVars
  <2>2. CASE \E u \in Users : Issue(u)
    BY <1>2, <2>2 DEF Issue
  <2> QED
    BY <1>2, <2>1, <2>2 DEF McpNext
<1> QED
  BY <1>1, <1>2 DEF Next

LEMMA TableStep == TableInv /\ [Next]_vars => TableInv'
<1> SUFFICES ASSUME TableInv, [Next]_vars PROVE TableInv'
  OBVIOUS
<1>1. CASE UNCHANGED tableVars
  BY <1>1 DEF tableVars, TableInv
<1>2. ASSUME NEW r \in Rows, Write(r) PROVE TableInv'
  <2>1. PICK v \in Values \cup {NoRow} : table' = [table EXCEPT ![r] = v]
    BY <1>2 DEF Write
  <2>2. table' \in [Rows -> Values \cup {NoRow}]
    BY <2>1 DEF TableInv
  <2>3. writes' \in 0 .. MaxWrites
    BY <1>2, TablesAssumption DEF Write, TableInv
  <2> QED
    BY <1>2, <2>2, <2>3 DEF Write, TableInv
<1>3. ASSUME NEW reader \in Readers, Looks(reader) PROVE TableInv'
  BY <1>3 DEF Looks, TableInv
<1> QED
  BY <1>1, <1>2, <1>3, NextLooks, ReadersAssumption DEF vars, tableVars

LEMMA InitTable == Init => TableInv
BY TablesAssumption DEF Init, TableInit, TableInv

\* Every query of every user returns its transactions, each once, in the order of date and
\* id, whatever the table holds and whoever has written it (get_list_by_period.go).
THEOREM ListsAreInOrder == Spec => [](\A u, query : ListInOrder(u, query))
<1>1. TableInv => \A u, query : ListInOrder(u, query)
  BY ListedFacts
<1> QED
  BY <1>1, InitTable, TableStep, PTL DEF Spec

-----------------------------------------------------------------------------
(* The pages of the MCP server.                                             *)

Asked == {"query", "limit", "first", "offset"}

\* A client, whose request belongs to an owner with a list: while the table is calm, it has
\* the list from its first offset on up to the one that it asks for, or up to the end of the
\* page it was served.  A negative offset is not followed.
ClientOK(req, owner, list, mine, quiet) ==
  /\ mine \in Seq(Rows)
  /\ req.phase \in {"idle", "sent", "authenticated", "served"}
  /\ req.phase # "idle" =>
       /\ Asked \subseteq DOMAIN req
       /\ req.limit \in Int /\ req.first \in Int /\ req.offset \in Int
       /\ req.first = req.offset \/ (0 <= req.first /\ req.first <= req.offset)
  /\ req.phase \in {"sent", "authenticated"} /\ quiet /\ req.offset # req.first =>
       req.offset <= Len(list) /\ mine = SubSeq(list, req.first + 1, req.offset)
  /\ req.phase = "served" =>
       0 <= req.first /\ \A k \in DOMAIN req.rows : OwnerOf[req.rows[k]] = owner
  /\ req.phase = "served" /\ quiet =>
       /\ mine = SubSeq(list, req.first + 1, req.first + Len(mine))
       /\ req.more <=> req.first + Len(mine) < Len(list)
       /\ req.more => req.first + Len(mine) = req.offset + Clamped(req.limit)

OwnerOfRequest(c) == issued[request[c].token]
ListOfRequest(c) == Listed(OwnerOfRequest(c), request[c].query)

PagesInv ==
  /\ DOMAIN got = Clients
  /\ \A c \in Clients :
       ClientOK(request[c], OwnerOfRequest(c), ListOfRequest(c), got[c], calm[c])

LEMMA ClampedFacts ==
  ASSUME NEW limit \in Int
  PROVE  Clamped(limit) \in Nat /\ Clamped(limit) > 0
BY LimitsAssumption DEF Clamped

\* The list of a request depends on its owner and its query alone.
LEMMA ListOfNext ==
  ASSUME table' = table, NEW c, NEW owner, NEW query,
         OwnerOfRequest(c)' = owner, request'[c].query = query
  PROVE  ListOfRequest(c)' = Listed(owner, query)
<1>1. ListOfRequest(c)' = Listed(owner, query)'
  BY DEF ListOfRequest, Listed, Found, Matches, ByDate, Precedes
<1> QED
  BY <1>1, ListedKept

\* A client that does nothing, while the table is not written.
LEMMA OthersKeep ==
  ASSUME PagesInv, TokensInv, NEW c \in Clients, table' = table,
         request'[c] = request[c], got'[c] = got[c], calm'[c] = calm[c],
         \A t \in DOMAIN issued : issued'[t] = issued[t]
  PROVE  ClientOK(request[c], OwnerOfRequest(c), ListOfRequest(c), got[c], calm[c])'
<1>1. ClientOK(request[c], OwnerOfRequest(c), ListOfRequest(c), got[c], calm[c])
  BY DEF PagesInv
<1>2. CASE request[c].phase = "idle"
  BY <1>1, <1>2 DEF ClientOK
<1>3. CASE request[c].phase # "idle"
  <2>1. request[c].token \in DOMAIN issued
    BY <1>3 DEF TokensInv, MarkedRight
  <2>2. OwnerOfRequest(c)' = OwnerOfRequest(c)
    BY <2>1 DEF OwnerOfRequest
  <2>3. PICK owner, query : owner = OwnerOfRequest(c) /\ query = request[c].query
    OBVIOUS
  <2>5. ListOfRequest(c) = Listed(owner, query)
    BY <2>3 DEF ListOfRequest
  <2>6. ListOfRequest(c)' = Listed(owner, query)
    BY <2>2, <2>3, ListOfNext
  <2>7. ClientOK(request'[c], OwnerOfRequest(c)', ListOfRequest(c)', got'[c], calm'[c])
    BY <1>1, <2>2, <2>5, <2>6
  <2> QED
    BY <2>7
<1> QED
  BY <1>2, <1>3

\* A step of one client.
LEMMA OneClient ==
  ASSUME PagesInv, TokensInv, NEW c \in Clients, table' = table, issued' = issued,
         DOMAIN got' = Clients,
         \A d \in Clients \ {c} :
           request'[d] = request[d] /\ got'[d] = got[d] /\ calm'[d] = calm[d],
         ClientOK(request[c], OwnerOfRequest(c), ListOfRequest(c), got[c], calm[c])'
  PROVE  PagesInv'
<1>1. ASSUME NEW d \in Clients, d # c
      PROVE  ClientOK(request[d], OwnerOfRequest(d), ListOfRequest(d), got[d], calm[d])'
  BY <1>1, OthersKeep
<1>2. \A d \in Clients :
        ClientOK(request[d], OwnerOfRequest(d), ListOfRequest(d), got[d], calm[d])'
  BY <1>1
<1> QED
  BY <1>2 DEF PagesInv

\* A client asks: from some offset on, or, when it has all up to the offset, further on.
LEMMA CallPages ==
  ASSUME PagesInv, TokensInv, NEW c \in Clients, NEW token \in DOMAIN issued, NEW query,
         NEW limit \in Int, NEW first \in Int, NEW offset \in Int,
         Call(c, token, query, limit, first, offset),
         first = offset \/ (0 <= first /\ first <= offset),
         NEW list, list = Listed(issued[token], query),
         calm[c] /\ offset # first =>
           offset <= Len(list) /\ got[c] = SubSeq(list, first + 1, offset)
  PROVE  PagesInv'
<1>1. /\ UNCHANGED <<tokens, issued, got>> /\ table' = table /\ calm' = calm
      /\ \E revoked : request' = [request EXCEPT ![c] =
           [phase |-> "sent", token |-> token, query |-> query, limit |-> limit,
            first |-> first, offset |-> offset, more |-> FALSE, rows |-> <<>>,
            user |-> issued[token], revoked |-> revoked]]
  BY DEF Call, tableVars
<1>2. PICK revoked, req :
        /\ req = [phase |-> "sent", token |-> token, query |-> query, limit |-> limit,
                  first |-> first, offset |-> offset, more |-> FALSE, rows |-> <<>>,
                  user |-> issued[token], revoked |-> revoked]
        /\ request' = [request EXCEPT ![c] = req]
  BY <1>1
<1>3. /\ req.phase = "sent" /\ req.token = token /\ req.query = query
      /\ req.limit = limit /\ req.first = first /\ req.offset = offset
      /\ Asked \subseteq DOMAIN req
  BY <1>2 DEF Asked
<1>4. /\ request'[c] = req
      /\ \A d \in Clients \ {c} : request'[d] = request[d]
  BY <1>2 DEF TokensInv, TokensTyped
<1>5. OwnerOfRequest(c)' = issued[token]
  BY <1>1, <1>3, <1>4 DEF OwnerOfRequest
<1>6. ListOfRequest(c)' = list
  <2>1. PICK owner : owner = issued[token]
    OBVIOUS
  <2>2. OwnerOfRequest(c)' = owner /\ request'[c].query = query
    BY <1>3, <1>4, <1>5, <2>1
  <2>3. ListOfRequest(c)' = Listed(owner, query)
    BY <1>1, <2>2, ListOfNext
  <2> QED
    BY <2>1, <2>3
<1>7. got[c] \in Seq(Rows)
  BY DEF PagesInv, ClientOK
<1>8. ClientOK(req, issued[token], list, got[c], calm[c])
  BY <1>3, <1>7 DEF ClientOK
<1>9. ClientOK(request[c], OwnerOfRequest(c), ListOfRequest(c), got[c], calm[c])'
  BY <1>1, <1>4, <1>5, <1>6, <1>8
<1> QED
  BY <1>1, <1>4, <1>9, OneClient DEF PagesInv

\* "call again with offset = offset + limit".
LEMMA CallAgainPages ==
  ASSUME PagesInv, TokensInv, NEW c \in Clients, CallAgain(c)
  PROVE  PagesInv'
<1>1. PICK token, query, limit, first, offset :
        /\ token = request[c].token /\ query = request[c].query
        /\ limit = request[c].limit /\ first = request[c].first
        /\ offset = request[c].offset + Clamped(request[c].limit)
  OBVIOUS
<1>2. /\ request[c].phase = "served" /\ request[c].more
      /\ Call(c, token, query, limit, first, offset)
  BY <1>1 DEF CallAgain
<1>3. ClientOK(request[c], OwnerOfRequest(c), ListOfRequest(c), got[c], calm[c])
  BY DEF PagesInv
<1>4. token \in DOMAIN issued
  BY <1>1, <1>2 DEF TokensInv, MarkedRight
<1>5. limit \in Int /\ first \in Int /\ offset \in Int /\ 0 <= first /\ first <= offset
  <2>1. /\ request[c].limit \in Int /\ request[c].offset \in Int /\ first \in Int
        /\ 0 <= first /\ first <= request[c].offset
    BY <1>1, <1>2, <1>3 DEF ClientOK
  <2>2. Clamped(limit) \in Nat
    BY <1>1, <2>1, ClampedFacts
  <2> QED
    BY <1>1, <2>1, <2>2
<1>6. ListOfRequest(c) = Listed(issued[token], query)
  BY <1>1 DEF ListOfRequest, OwnerOfRequest
<1>7. PICK list : list = Listed(issued[token], query)
  OBVIOUS
<1>8. ASSUME calm[c] PROVE offset <= Len(list) /\ got[c] = SubSeq(list, first + 1, offset)
  <2>1. /\ got[c] = SubSeq(list, first + 1, first + Len(got[c]))
        /\ first + Len(got[c]) < Len(list)
        /\ first + Len(got[c]) = request[c].offset + Clamped(request[c].limit)
    BY <1>1, <1>2, <1>3, <1>6, <1>7, <1>8 DEF ClientOK
  <2>2. first + Len(got[c]) = offset
    BY <1>1, <2>1
  <2>3. Len(list) \in Nat
    BY <1>7, ListedFacts, LenProperties
  <2> QED
    BY <1>5, <2>1, <2>2, <2>3
<1> QED
  BY <1>2, <1>4, <1>5, <1>7, <1>8, CallPages

\* A request whose page is as it was, and whose phase goes on.
LEMMA PhasePages ==
  ASSUME PagesInv, TokensInv, NEW c \in Clients, Authenticate(c) \/ Fail(c)
  PROVE  PagesInv'
<1>1. /\ request[c].phase \in {"sent", "authenticated"}
      /\ UNCHANGED <<issued, got>> /\ table' = table /\ calm' = calm
      /\ \A d \in Clients \ {c} : request'[d] = request[d]
  BY DEF Authenticate, Fail, tableVars, TokensInv, TokensTyped
<1>2. ClientOK(request[c], OwnerOfRequest(c), ListOfRequest(c), got[c], calm[c])
  BY DEF PagesInv
<1>3. CASE request' = [request EXCEPT ![c] = Idle]
  <2>1. request'[c] = Idle /\ Idle.phase = "idle"
    BY <1>3 DEF Idle, TokensInv, TokensTyped
  <2>2. got'[c] \in Seq(Rows)
    BY <1>1, <1>2 DEF ClientOK
  <2>3. ClientOK(request[c], OwnerOfRequest(c), ListOfRequest(c), got[c], calm[c])'
    BY <2>1, <2>2 DEF ClientOK
  <2> QED
    BY <1>1, <2>3, OneClient DEF PagesInv
<1>4. CASE /\ request[c].phase = "sent"
           /\ \E u \in Verified(request[c].token) :
                request' = [request EXCEPT ![c].phase = "authenticated", ![c].user = u]
  <2>1. PICK u :
          request' = [request EXCEPT ![c].phase = "authenticated", ![c].user = u]
    BY <1>4
  <2>2. request'[c] = [[request[c] EXCEPT !.phase = "authenticated"] EXCEPT !.user = u]
    BY <2>1 DEF TokensInv, TokensTyped
  <2>3. Fields \subseteq DOMAIN request[c] /\ Asked \subseteq DOMAIN request[c]
    BY <1>2, <1>4 DEF TokensInv, MarkedRight, ClientOK
  <2>4. PICK req : req = request'[c]
    OBVIOUS
  <2>5. /\ req.phase = "authenticated" /\ req.token = request[c].token
        /\ req.query = request[c].query /\ req.limit = request[c].limit
        /\ req.first = request[c].first /\ req.offset = request[c].offset
        /\ DOMAIN req = DOMAIN request[c]
    BY <2>2, <2>3, <2>4 DEF Fields, Asked
  <2>6. PICK owner, query : owner = OwnerOfRequest(c) /\ query = request[c].query
    OBVIOUS
  <2>7. OwnerOfRequest(c)' = owner
    BY <1>1, <2>4, <2>5, <2>6 DEF OwnerOfRequest
  <2>8. ListOfRequest(c)' = ListOfRequest(c)
    <3>1. request'[c].query = query
      BY <2>4, <2>5, <2>6
    <3>2. ListOfRequest(c)' = Listed(owner, query)
      BY <1>1, <2>7, <3>1, ListOfNext
    <3>3. ListOfRequest(c) = Listed(owner, query)
      BY <2>6 DEF ListOfRequest
    <3> QED
      BY <3>2, <3>3
  <2>9. ClientOK(req, OwnerOfRequest(c), ListOfRequest(c), got[c], calm[c])
    BY <1>2, <1>4, <2>5 DEF ClientOK
  <2>10. ClientOK(request[c], OwnerOfRequest(c), ListOfRequest(c), got[c], calm[c])'
    BY <1>1, <2>4, <2>6, <2>7, <2>8, <2>9
  <2> QED
    BY <1>1, <2>10, OneClient DEF PagesInv
<1> QED
  BY <1>3, <1>4 DEF Authenticate, Fail

\* The tool answers with the page at the offset: a client that had all before it has all up
\* to its end, and more is promised when that is not the end of the list.
LEMMA ServePages ==
  ASSUME PagesInv, TokensInv, TableInv, NEW c \in Clients, Serve(c)
  PROVE  PagesInv'
<1>1. PICK owner, query, limit, first, offset, mine :
        /\ owner = OwnerOfRequest(c) /\ query = request[c].query
        /\ limit = Clamped(request[c].limit) /\ first = request[c].first
        /\ offset = request[c].offset /\ mine = got[c]
  OBVIOUS
<1>2. PICK list : list = Listed(owner, query)
  OBVIOUS
<1>3. PICK rows : rows = Page(list, limit, offset)
  OBVIOUS
<1>4. request[c].phase = "authenticated" /\ request[c].user = owner
  BY <1>1 DEF Serve, TokensInv, ServedOwner, OwnerOfRequest
<1>5. ClientOK(request[c], owner, list, mine, calm[c])
  BY <1>1, <1>2 DEF PagesInv, ListOfRequest
<1>6. /\ first \in Nat /\ offset \in Nat /\ first <= offset
      /\ limit \in Nat /\ limit > 0 /\ request[c].limit \in Int /\ mine \in Seq(Rows)
  <2>1. /\ first \in Int /\ offset \in Int /\ request[c].limit \in Int /\ mine \in Seq(Rows)
        /\ first = offset \/ (0 <= first /\ first <= offset)
    BY <1>1, <1>4, <1>5 DEF ClientOK
  <2>2. offset >= 0
    BY <1>1 DEF Serve, Valid
  <2>3. limit \in Nat /\ limit > 0
    BY <1>1, <2>1, ClampedFacts
  <2>4. first \in Nat /\ offset \in Nat /\ first <= offset
    BY ONLY <2>1, <2>2
  <2> QED
    BY <2>1, <2>3, <2>4
<1>7. PICK more :
        /\ more <=> offset + Len(rows) < TotalWith(list, rows)
        /\ request' = [request EXCEPT ![c].phase = "served", ![c].rows = rows,
                                      ![c].more = more]
  <2>1. request' = [request EXCEPT ![c].phase = "served", ![c].rows = rows,
          ![c].more = HasMore(offset, rows, TotalWith(list, rows), limit)]
    BY <1>1, <1>2, <1>3, <1>4 DEF Serve
  <2> DEFINE more == HasMore(offset, rows, TotalWith(list, rows), limit)
  <2>2. more <=> offset + Len(rows) < TotalWith(list, rows)
    BY DEF HasMore
  <2> HIDE DEF more
  <2> QED
    BY <2>1, <2>2 DEF more
<1>8. /\ got' = [got EXCEPT ![c] = IF offset = first THEN rows ELSE mine \o rows]
      /\ IF offset = first THEN Begin(c) ELSE UNCHANGED calm
      /\ issued' = issued /\ table' = table
  BY <1>1, <1>2, <1>3, <1>4 DEF Serve
<1>9. request'[c] = [[[request[c] EXCEPT !.phase = "served"] EXCEPT !.rows = rows]
                       EXCEPT !.more = more]
  BY <1>7 DEF TokensInv, TokensTyped
<1>10. Fields \subseteq DOMAIN request[c] /\ Asked \subseteq DOMAIN request[c]
  BY <1>4, <1>5 DEF TokensInv, MarkedRight, ClientOK
<1>11. PICK req : req = request'[c]
  OBVIOUS
<1>12. /\ req.phase = "served" /\ req.token = request[c].token /\ req.query = query
       /\ req.limit = request[c].limit /\ req.first = first /\ req.offset = offset
       /\ req.rows = rows /\ DOMAIN req = DOMAIN request[c]
  BY <1>1, <1>9, <1>10, <1>11 DEF Fields, Asked
<1>13. req.more = more
  BY <1>9, <1>10, <1>11, Zenon DEF Fields, Asked
<1>14. OwnerOfRequest(c)' = owner
  BY <1>1, <1>8, <1>11, <1>12 DEF OwnerOfRequest
<1>15. ListOfRequest(c)' = list
  BY <1>2, <1>8, <1>11, <1>12, <1>14, ListOfNext
<1>16. /\ list \in Seq(Rows) /\ \A k \in DOMAIN list : OwnerOf[list[k]] = owner
  BY <1>2, ListedFacts
<1>17. /\ rows \in Seq(Rows)
       /\ \A k \in DOMAIN rows : \E l \in DOMAIN list : rows[k] = list[l]
  BY <1>3, <1>6, <1>16, PageFacts
<1>18. PICK all : all = IF offset = first THEN rows ELSE mine \o rows
  OBVIOUS
<1>19. all \in Seq(Rows)
  BY <1>6, <1>17, <1>18, ConcatProperties
<1>20. /\ got'[c] = all /\ DOMAIN got' = Clients
       /\ \A d \in Clients \ {c} :
            request'[d] = request[d] /\ got'[d] = got[d] /\ calm'[d] = calm[d]
  <2>1. got'[c] = all /\ DOMAIN got' = Clients /\ \A d \in Clients \ {c} : got'[d] = got[d]
    BY <1>8, <1>18 DEF PagesInv
  <2>2. \A d \in Clients \ {c} : request'[d] = request[d]
    BY <1>7 DEF TokensInv, TokensTyped
  <2>3. \A d \in Clients \ {c} : calm'[d] = calm[d]
    BY <1>8, ReadersAssumption DEF Begin, TableInv
  <2> QED
    BY <2>1, <2>2, <2>3
<1>21. Len(list) \in Nat
  BY <1>16, LenProperties
<1>22. ASSUME calm'[c], offset <= Len(list)
       PROVE  /\ all = SubSeq(list, first + 1, first + Len(all))
              /\ more <=> first + Len(all) < Len(list)
              /\ more => first + Len(all) = offset + limit
  <2>1. offset # first => mine = SubSeq(list, first + 1, offset)
    <3> SUFFICES ASSUME offset # first PROVE mine = SubSeq(list, first + 1, offset)
      OBVIOUS
    <3>1. calm[c]
      BY <1>8, <1>22
    <3> QED
      BY <1>1, <1>4, <1>5, <3>1 DEF ClientOK
  <2>2. PICK end \in Int :
          end = IF offset + limit > Len(list) THEN Len(list) ELSE offset + limit
    BY <1>6, <1>21
  <2>3. /\ end \in Nat /\ end <= Len(list) /\ rows = SubSeq(list, offset + 1, end)
        /\ offset < Len(list) => rows # <<>> /\ Len(rows) = end - offset /\ offset < end
        /\ offset >= Len(list) => rows = <<>>
    <3>1. /\ list \in Seq(Rows) /\ limit \in Nat /\ limit > 0 /\ offset \in Nat
          /\ rows = Page(list, limit, offset)
      BY <1>3, <1>6, <1>16
    <3> QED
      BY ONLY <2>2, <3>1, PageRange
  <2>4. PICK m \in Nat : m = first + 1 /\ m > 0
    BY <1>6
  <2>5. offset <= end /\ m <= offset + 1
    BY <1>6, <1>21, <1>22, <2>2, <2>4
  <2>6. all = SubSeq(list, m, end)
    <3>1. CASE offset = first
      BY <1>18, <2>3, <2>4, <3>1
    <3>2. CASE offset # first
      <4>1. /\ m \in 1 .. Len(list) + 1 /\ offset \in m - 1 .. Len(list)
            /\ end \in offset .. Len(list)
        BY <1>6, <1>21, <1>22, <2>3, <2>4, <2>5
      <4>2. SubSeq(list, m, offset) \o SubSeq(list, offset + 1, end) = SubSeq(list, m, end)
        BY <1>16, <4>1, ConcatAdjacentSubSeq
      <4>3. mine = SubSeq(list, m, offset)
        BY <2>1, <2>4, <3>2
      <4> QED
        BY <1>18, <2>3, <3>2, <4>2, <4>3
    <3> QED
      BY <3>1, <3>2
  <2>7. first + Len(all) = end
    <3>1. PICK length : length = Len(SubSeq(list, m, end))
      OBVIOUS
    <3>2. length = IF m <= end THEN end - m + 1 ELSE 0
      BY <1>16, <2>3, <2>4, <3>1, Piece
    <3>3. m <= end \/ end - m + 1 = 0
      BY <1>6, <2>3, <2>4, <2>5
    <3>4. length = end - m + 1
      BY <3>2, <3>3
    <3>5. first + length = end
      BY <1>6, <2>3, <2>4, <3>4
    <3> QED
      BY <2>6, <3>1, <3>5
  <2>8. more <=> end < Len(list)
    <3>1. CASE offset < Len(list)
      <4>1. TotalWith(list, rows) = Len(list) /\ offset + Len(rows) = end
        BY <1>6, <2>3, <3>1 DEF TotalWith
      <4> QED
        BY <1>7, <4>1
    <3>2. CASE offset >= Len(list)
      <4>1. TotalWith(list, rows) = 0 /\ Len(rows) = 0
        BY <2>3, <3>2 DEF TotalWith
      <4>2. ~more
        BY <1>6, <1>7, <4>1
      <4>3. end = Len(list)
        BY <1>6, <1>21, <2>2, <3>2
      <4> QED
        BY <1>21, <4>2, <4>3
    <3> QED
      BY <1>6, <1>21, <3>1, <3>2
  <2>9. more => end = offset + limit
    BY <1>6, <1>21, <2>2, <2>8
  <2> QED
    BY <2>4, <2>6, <2>7, <2>8, <2>9
<1>23. ASSUME calm'[c], ~(offset <= Len(list))
       PROVE  /\ all = SubSeq(list, first + 1, first + Len(all))
              /\ more <=> first + Len(all) < Len(list)
              /\ more => first + Len(all) = offset + limit
  <2>1. offset = first
    <3> SUFFICES ASSUME offset # first PROVE FALSE
      OBVIOUS
    <3>1. calm[c]
      BY <1>8, <1>23
    <3> QED
      BY <1>1, <1>4, <1>5, <1>23, <3>1 DEF ClientOK
  <2>2. rows = <<>>
    <3>1. PICK end \in Int :
            end = IF offset + limit > Len(list) THEN Len(list) ELSE offset + limit
      BY <1>6, <1>21
    <3>2. offset >= Len(list)
      BY <1>6, <1>21, <1>23
    <3> QED
      BY <1>3, <1>6, <1>16, <3>1, <3>2, PageRange
  <2>3. all = <<>> /\ Len(all) = 0
    BY <1>18, <2>1, <2>2
  <2>4. SubSeq(list, first + 1, first) = <<>>
    <3>1. PICK m \in Nat : m = first + 1 /\ first < m
      BY <1>6
    <3>2. SubSeq(list, m, first) = <<>>
      BY <1>6, <3>1, SubSeqEmpty
    <3> QED
      BY <3>1, <3>2
  <2>5. ~more
    <3>1. TotalWith(list, rows) = 0 /\ Len(rows) = 0
      BY <2>2 DEF TotalWith
    <3> QED
      BY <1>6, <1>7, <3>1
  <2>6. first + Len(all) = first /\ ~(first < Len(list))
    BY <1>6, <1>21, <1>23, <2>1, <2>3
  <2> QED
    BY <2>3, <2>4, <2>5, <2>6
<1>24. ClientOK(req, owner, list, all, calm'[c])
  <2>1. 0 <= req.first /\ \A k \in DOMAIN req.rows : OwnerOf[req.rows[k]] = owner
    BY <1>6, <1>12, <1>16, <1>17
  <2>2. /\ req.phase # "idle" /\ Asked \subseteq DOMAIN req
        /\ req.limit \in Int /\ req.first \in Int /\ req.offset \in Int
        /\ 0 <= req.first /\ req.first <= req.offset
    BY <1>6, <1>10, <1>12
  <2>3. ASSUME calm'[c]
        PROVE  /\ all = SubSeq(list, req.first + 1, req.first + Len(all))
               /\ req.more <=> req.first + Len(all) < Len(list)
               /\ req.more => req.first + Len(all) = req.offset + Clamped(req.limit)
    BY <1>1, <1>12, <1>13, <1>22, <1>23, <2>3
  <2> QED
    BY <1>12, <1>19, <2>1, <2>2, <2>3 DEF ClientOK
<1>25. ClientOK(request[c], OwnerOfRequest(c), ListOfRequest(c), got[c], calm[c])'
  BY <1>11, <1>14, <1>15, <1>20, <1>24
<1> QED
  BY <1>8, <1>20, <1>25, OneClient

\* The table is written: nothing is promised any more.
LEMMA WritePages ==
  ASSUME PagesInv, NEW r \in Rows, Write(r), UNCHANGED mcpVars
  PROVE  PagesInv'
<1>1. UNCHANGED <<request, got, issued>> /\ \A c \in Clients : ~calm'[c]
  BY ReadersAssumption DEF Write, mcpVars
<1>2. \A c \in Clients : OwnerOfRequest(c)' = OwnerOfRequest(c)
  BY <1>1 DEF OwnerOfRequest
<1>3. ASSUME NEW c \in Clients
      PROVE  ClientOK(request[c], OwnerOfRequest(c), ListOfRequest(c), got[c], calm[c])'
  <2>1. ClientOK(request[c], OwnerOfRequest(c), ListOfRequest(c), got[c], calm[c])
    BY DEF PagesInv
  <2>2. ClientOK(request[c], OwnerOfRequest(c), ListOfRequest(c)', got[c], calm'[c])
    BY <1>1, <2>1 DEF ClientOK
  <2> QED
    BY <1>1, <1>2, <2>2
<1> QED
  BY <1>1, <1>3 DEF PagesInv

\* A token is issued: who asks with the older ones asks for the same user.
LEMMA IssuePages ==
  ASSUME PagesInv, TokensInv, NEW u \in Users, Issue(u)
  PROVE  PagesInv'
<1>1. /\ UNCHANGED <<request, got>> /\ table' = table /\ calm' = calm
      /\ issued' = Append(issued, u)
  BY DEF Issue, tableVars
<1>2. issued \in Seq(Users)
  BY DEF TokensInv, TokensTyped
<1>3. \A t \in DOMAIN issued : issued'[t] = issued[t]
  BY <1>1, <1>2
<1> QED
  BY <1>1, <1>3, OthersKeep DEF PagesInv

LEMMA InitPages == Init => PagesInv
<1> SUFFICES ASSUME Init PROVE PagesInv
  OBVIOUS
<1>1. request = [c \in Clients |-> Idle] /\ got = [c \in Clients |-> <<>>]
  BY DEF Init, McpInit
<1>2. Idle.phase = "idle" /\ <<>> \in Seq(Rows)
  BY DEF Idle
<1> QED
  BY <1>1, <1>2 DEF PagesInv, ClientOK

\* The clients of the MCP server and what they have of their lists.
THEOREM PagesInvariant == Spec => [](TableInv /\ TokensInv /\ PagesInv)
<1>1. TableInv /\ TokensInv /\ PagesInv /\ [Next]_vars => TableInv' /\ TokensInv' /\ PagesInv'
  <2> SUFFICES ASSUME TableInv, TokensInv, PagesInv, [Next]_vars PROVE PagesInv'
    BY TableStep, TokensStep
  <2>1. ASSUME UNCHANGED mcpVars, table' = table, \A c \in Clients : calm'[c] = calm[c]
        PROVE  PagesInv'
    BY <2>1, OthersKeep DEF mcpVars, PagesInv
  <2>2. CASE UNCHANGED vars
    BY <2>1, <2>2 DEF vars, tableVars
  <2>3. ASSUME NEW u \in Users, Looks(u), UNCHANGED mcpVars PROVE PagesInv'
    <3>1. \A c \in Clients : calm'[c] = calm[c]
      BY <2>3, ReadersAssumption DEF Looks, TableInv
    <3> QED
      BY <2>1, <2>3, <3>1 DEF Looks
  <2>4. CASE McpNext /\ UNCHANGED chatVars
    <3>1. ASSUME NEW c \in Clients, NEW token \in DOMAIN issued, NEW query \in Queries,
                 NEW limit \in Limits, NEW first \in Offsets,
                 Call(c, token, query, limit, first, first)
          PROVE  PagesInv'
      <4>1. limit \in Int /\ first \in Int
        BY LimitsAssumption
      <4> QED
        BY <3>1, <4>1, CallPages
    <3> QED
      BY <2>4, <3>1, IssuePages, CallAgainPages, PhasePages, ServePages DEF McpNext
  <2> QED
    BY <2>2, <2>3, <2>4, WritePages, IssuePages, NextLooks
<1> QED
  BY <1>1, InitTable, InitTokens, InitPages, PTL DEF Spec

\* A client only gets transactions of the user that its token was issued to, whatever
\* tokens are issued and whatever is written meanwhile (tokenVerifier, the query of
\* get_list_by_period.go).
THEOREM ClientsGetTheirOwn == Spec => []OwnRowsOnly
<1>1. PagesInv => OwnRowsOnly
  BY DEF PagesInv, ClientOK, OwnerOfRequest, OwnRowsOnly
<1> QED
  BY <1>1, PagesInvariant, PTL

\* A client that follows has_more over a table that does not change, from any offset on,
\* gets every transaction of its query from there, once, in order, for any limit it asks
\* for, and has_more tells when it has (GetTransactionList.Execute,
\* toGetTransactionListOutput).
THEOREM FollowingGetsAll == Spec => []PagesCoverList
<1>1. TokensInv /\ PagesInv => PagesCoverList
  <2> SUFFICES ASSUME TokensInv, PagesInv, NEW c \in Clients,
                      request[c].phase = "served", calm[c], NEW list,
                      list = Listed(request[c].user, request[c].query),
                      NEW end, end = request[c].first + Len(got[c])
               PROVE  /\ got[c] = SubSeq(list, request[c].first + 1, end)
                      /\ request[c].more <=> end < Len(list)
    BY DEF PagesCoverList
  <2>1. request[c].user = OwnerOfRequest(c)
    BY DEF TokensInv, ServedOwner, OwnerOfRequest
  <2>2. list = ListOfRequest(c)
    BY <2>1 DEF ListOfRequest
  <2> QED
    BY <2>2 DEF PagesInv, ClientOK
<1> QED
  BY <1>1, PagesInvariant, PTL

-----------------------------------------------------------------------------
(* The pages of the chats.                                                  *)

\* Positions and pages.
LEMMA LimitFacts == Limit \in Int /\ Limit > 0 /\ Limit \in Nat /\ MaxInt \in Nat
BY NumbersAssumption

LEMMA QuotientFacts ==
  /\ \A n \in Int : Quotient(n) \in Int
  /\ \A k \in Int : Quotient(k * Limit) = k /\ k * Limit \in Int
  /\ \A k \in Nat : k * Limit \in Nat
  /\ \A k \in Int : k < 0 => k * Limit < 0
<1>1. ASSUME NEW n \in Int PROVE Quotient(n) \in Int
  BY LimitFacts DEF Quotient
<1>2. ASSUME NEW k \in Nat PROVE Quotient(k * Limit) = k /\ k * Limit \in Nat
  <2>1. k * Limit \in Nat
    BY LimitFacts
  <2>2. (k * Limit) \div Limit = k
    BY LimitFacts
  <2> QED
    BY <2>1, <2>2 DEF Quotient
<1>3. ASSUME NEW k \in Int, k < 0
      PROVE  Quotient(k * Limit) = k /\ k * Limit < 0 /\ k * Limit \in Int
  <2>1. PICK m \in Nat : m = -k /\ m > 0
    BY <1>3
  <2>2. k * Limit < 0 /\ k * Limit \in Int /\ -(k * Limit) = m * Limit
    BY <1>3, <2>1, LimitFacts
  <2>3. (m * Limit) \div Limit = m
    BY LimitFacts
  <2> QED
    BY <2>1, <2>2, <2>3 DEF Quotient
<1> QED
  BY <1>1, <1>2, <1>3

\* How many pages a list of n rows has: the last one has rows, and no row comes after it.
PagesFor(n) == Quotient(n) + (IF n % Limit > 0 THEN 1 ELSE 0)

LEMMA PagesForFacts ==
  ASSUME NEW n \in Nat, n > 0, NEW t, t = PagesFor(n)
  PROVE  t \in Nat /\ (t - 1) * Limit < n /\ n <= t * Limit
<1>1. PICK q \in Int, r \in Int : q = n \div Limit /\ r = n % Limit
  BY LimitFacts
<1>2. n = q * Limit + r /\ 0 <= r /\ r < Limit
  BY <1>1, LimitFacts
<1>3. t = q + (IF r > 0 THEN 1 ELSE 0)
  BY <1>1 DEF PagesFor, Quotient
<1>4. q \in Nat
  BY <1>1, LimitFacts
<1>5. CASE r > 0
  <2>1. t = q + 1 /\ (t - 1) * Limit = q * Limit /\ t * Limit = q * Limit + Limit
    BY <1>3, <1>4, <1>5, LimitFacts
  <2>2. q * Limit \in Int
    BY LimitFacts
  <2> QED
    BY <1>2, <1>4, <1>5, <2>1, <2>2, LimitFacts
<1>6. CASE r = 0
  <2>1. t = q /\ (t - 1) * Limit = q * Limit - Limit /\ n = q * Limit
    BY <1>2, <1>3, <1>4, <1>6, LimitFacts
  <2>2. q * Limit \in Int
    BY LimitFacts
  <2> QED
    BY <1>4, <2>1, <2>2, LimitFacts
<1> QED
  BY <1>2, <1>5, <1>6

\* Of the pages that have rows the last one, and no other, reaches the end.
LEMMA LastPage ==
  ASSUME NEW n \in Nat, NEW k \in Int, (k - 1) * Limit < n, k > 0
  PROVE  k = PagesFor(n) <=> n <= k * Limit
<1>1. (k - 1) * Limit \in Nat
  BY LimitFacts
<1>2. n > 0
  BY <1>1
<1>3. PICK t \in Nat : t = PagesFor(n) /\ (t - 1) * Limit < n /\ n <= t * Limit
  BY <1>2, PagesForFacts
<1>4. k <= t
  <2>1. (k - 1) * Limit < t * Limit
    BY <1>1, <1>3, LimitFacts
  <2>2. k - 1 < t
    BY <2>1, LimitFacts
  <2> QED
    BY <2>2
<1>5. ASSUME n <= k * Limit PROVE t <= k
  <2>1. (t - 1) * Limit < k * Limit
    BY <1>3, <1>5, LimitFacts
  <2>2. t - 1 < k
    BY <2>1, LimitFacts
  <2> QED
    BY <2>2
<1> QED
  BY <1>3, <1>4, <1>5

\* Numbers that the machine's integers hold stay what they are.
LEMMA WrappedFacts ==
  /\ \A n \in Int : Wrapped(n) \in Int
  /\ \A n \in Int : -(MaxInt + 1) <= n /\ n <= MaxInt => Wrapped(n) = n
<1>1. ASSUME NEW n \in Int PROVE Wrapped(n) \in Int
  BY LimitFacts DEF Wrapped
<1>2. ASSUME NEW n \in Int, -(MaxInt + 1) <= n, n <= MaxInt PROVE Wrapped(n) = n
  BY <1>2, LimitFacts DEF Wrapped
<1> QED
  BY <1>1, <1>2

\* getNewOffset, of the numbers that are not too large: the page k + 1, which comes before
\* the first one only after "prev", on the first page or the one of number 0.
LEMMA OffsetFacts ==
  ASSUME NEW number \in Numbers \cup {0}, NEW word, NEW current \in Int,
         0 <= current, current <= MaxPlain
  PROVE  /\ NewOffset(number, word, current) \in Int
         /\ number <= MaxInt \div Limit =>
              \E k \in Int :
                /\ NewOffset(number, word, current) = k * Limit
                /\ k < 0 => current <= 1
                /\ number = 0 /\ word = "next" => k = current
<1>1. number \in Nat
  BY NumbersAssumption
<1>2. PICK k \in Int :
        /\ NewOffset(number, word, current) = Wrapped(k * Limit)
        /\ number = 0 /\ word = "next" => k = current
        /\ number = 0 => k \in -2 .. current /\ (k < 0 => current <= 1)
        /\ number > 0 /\ number <= MaxInt => k = number - 1
  <2> DEFINE delta == IF word = "next" THEN 1 ELSE IF word = "prev" THEN -1 ELSE 0
             atoi == IF number > MaxInt THEN MaxInt ELSE number
             new == IF atoi > 0 THEN atoi ELSE current + delta
             k == new - 1
  <2>1. delta \in -1 .. 1 /\ atoi \in Int /\ (word = "next" => delta = 1)
    BY <1>1, LimitFacts
  <2>2. /\ number = 0 => atoi = 0
        /\ number > 0 /\ number <= MaxInt => atoi = number
    BY <1>1, LimitFacts
  <2>3. NewOffset(number, word, current) = Wrapped(k * Limit)
    BY DEF NewOffset
  <2> HIDE DEF delta, atoi
  <2>4. k \in Int
    BY <2>1
  <2>5. /\ number = 0 => k = current + delta - 1
        /\ number > 0 /\ number <= MaxInt => k = number - 1
    BY <1>1, <2>1, <2>2
  <2> HIDE DEF k
  <2>6. ASSUME number = 0, word = "next" PROVE k = current
    <3>1. delta = 1 /\ k = current + delta - 1
      BY <2>1, <2>5, <2>6
    <3> QED
      BY <3>1
  <2>7. number = 0 => k \in -2 .. current /\ (k < 0 => current <= 1)
    BY <2>1, <2>5
  <2> QED
    BY <2>3, <2>4, <2>5, <2>6, <2>7
<1>3. k * Limit \in Int
  BY LimitFacts
<1>4. ASSUME number <= MaxInt \div Limit
      PROVE  Wrapped(k * Limit) = k * Limit /\ (k < 0 => current <= 1)
  <2>1. CASE number = 0
    <3>1. -2 <= k /\ k <= MaxPlain
      BY <1>2, <2>1, NumbersAssumption
    <3>2. -(2 * Limit) <= k * Limit /\ k * Limit <= MaxPlain * Limit
      BY <3>1, LimitFacts, NumbersAssumption
    <3>3. -(MaxInt + 1) <= k * Limit /\ k * Limit <= MaxInt
      <4>1. /\ MaxPlain * Limit \in Int /\ MaxPlain * Limit <= MaxInt
            /\ 2 * Limit \in Int /\ 2 * Limit <= MaxInt
        BY NumbersAssumption
      <4> QED
        BY <1>3, <3>2, <4>1, LimitFacts
    <3> QED
      BY <1>2, <1>3, <2>1, <3>3, WrappedFacts
  <2>2. CASE number # 0
    <3>1. number * Limit <= MaxInt
      BY <1>1, <1>4, LimitFacts
    <3>2. number <= number * Limit /\ number * Limit \in Nat
      BY <1>1, LimitFacts
    <3>3. k = number - 1
      BY <1>1, <1>2, <2>2, <3>1, <3>2, LimitFacts
    <3>4. k \in Nat /\ k * Limit \in Nat /\ k * Limit <= number * Limit
      BY <1>1, <2>2, <3>3, LimitFacts
    <3>5. -(MaxInt + 1) <= k * Limit /\ k * Limit <= MaxInt
      BY <3>1, <3>2, <3>4, LimitFacts
    <3> QED
      BY <1>3, <3>4, <3>5, WrappedFacts
  <2> QED
    BY <2>1, <2>2
<1> QED
  BY <1>2, <1>3, <1>4, WrappedFacts

\* How many of the n rows of a list come up to the end of a page.
PageEnd(number, n) == IF number * Limit < n THEN number * Limit ELSE n

\* What a user was sent last, and was shown from the first page on, of a list: while the
\* table is calm, the list up to the end of the page.
FootOK(foot, seen, quiet, list) ==
  /\ seen \in Seq(Rows)
  /\ foot # NoPage => foot.rows \in Seq(Rows) /\ foot.rows # <<>> /\ foot.current \in Int
  /\ seen # <<>> /\ quiet =>
       /\ foot.current \in Int /\ foot.current > 0
       /\ (foot.current - 1) * Limit < Len(list)
       /\ foot.total = PagesFor(Len(list))
       /\ seen = SubSeq(list, 1, PageEnd(foot.current, Len(list)))

ListOfUser(u) == Listed(u, page[u].query)

WalksInv ==
  /\ DOMAIN page = Users /\ DOMAIN walk = Users
  /\ \A u \in Users : FootOK(page[u], walk[u], calm[u], ListOfUser(u))

\* A page that is sent has rows, is numbered after its offset, and is out of as many as its
\* list needs.
LEMMA ShowFacts ==
  ASSUME TableInv, NEW u \in Users, NEW query, NEW offset \in Int, Show(u, query, offset),
         NEW list, list = Listed(u, query), NEW rows, rows = Page(list, Limit, offset)
  PROVE  /\ rows \in Seq(Rows) /\ rows # <<>>
         /\ \E foot :
              /\ page' = [page EXCEPT ![u] = foot]
              /\ foot.query = query /\ foot.rows = rows
              /\ foot.current = Quotient(offset) + 1 /\ foot.current \in Int
              /\ foot.total = PagesFor(Len(list))
              /\ foot.start = offset + 1 /\ foot.end = offset + Len(rows)
<1>1. rows # <<>> /\ page' = [page EXCEPT ![u] =
                                Detailed(query, rows, TotalWith(list, rows), offset)]
  BY DEF Show
<1>2. list \in Seq(Rows)
  BY ListedFacts
<1>3. rows \in Seq(Rows)
  BY <1>2, LimitFacts, PageFacts
<1>4. PICK n, foot : n = Len(list) /\ foot = Detailed(query, rows, n, offset)
  OBVIOUS
<1>5. page' = [page EXCEPT ![u] = foot]
  BY <1>1, <1>4 DEF TotalWith
<1>6. /\ foot.query = query /\ foot.rows = rows
      /\ foot.current = Quotient(offset) + 1 /\ foot.total = PagesFor(n)
      /\ foot.start = offset + 1 /\ foot.end = offset + Len(rows)
  BY <1>4 DEF Detailed, PagesFor
<1>7. foot.current \in Int
  BY <1>6, QuotientFacts
<1> QED
  BY <1>1, <1>3, <1>4, <1>5, <1>6, <1>7

\* The page number k + 1, with rows.
LEMMA PageShown ==
  ASSUME NEW list \in Seq(Rows), NEW k \in Nat, NEW offset, offset = k * Limit,
         NEW rows, rows = Page(list, Limit, offset), rows # <<>>,
         NEW end, end = PageEnd(k + 1, Len(list))
  PROVE  /\ offset < Len(list) /\ Quotient(offset) + 1 = k + 1
         /\ rows = SubSeq(list, offset + 1, end) /\ end = offset + Len(rows)
         /\ k + 1 <= PagesFor(Len(list))
         /\ k = 0 => rows = SubSeq(list, 1, end)
         /\ k # 0 => SubSeq(list, 1, offset) \o rows = SubSeq(list, 1, end)
<1>1. PICK n \in Nat : n = Len(list)
  BY LenProperties
<1>2. offset \in Nat /\ (k + 1) * Limit = offset + Limit /\ Quotient(offset) = k
  BY QuotientFacts, LimitFacts
<1>3. /\ end = IF offset + Limit > n THEN n ELSE offset + Limit
      /\ end \in Int
  BY <1>1, <1>2, LimitFacts DEF PageEnd
<1>4. /\ rows = SubSeq(list, offset + 1, end)
      /\ offset < n => Len(rows) = end - offset
      /\ offset >= n => rows = <<>>
  <2>1. end = IF offset + Limit > Len(list) THEN Len(list) ELSE offset + Limit
    BY <1>1, <1>3
  <2>2. PICK limit \in Nat : limit = Limit /\ limit > 0
    BY LimitFacts
  <2>3. offset \in Nat /\ end \in Int /\ rows = Page(list, limit, offset)
    BY <1>2, <1>3, <2>2
  <2>4. end = IF offset + limit > Len(list) THEN Len(list) ELSE offset + limit
    BY <2>1, <2>2
  <2>5. /\ rows = SubSeq(list, offset + 1, end)
        /\ offset < Len(list) => Len(rows) = end - offset
        /\ offset >= Len(list) => rows = <<>>
    BY ONLY <2>2, <2>3, <2>4, PageRange, SMTT(30), list \in Seq(Rows)
  <2> QED
    BY <1>1, <2>5
<1>5. offset < n /\ Len(rows) = end - offset /\ end = offset + Len(rows)
  <2>1. offset < n /\ Len(rows) = end - offset
    BY <1>1, <1>2, <1>4
  <2> QED
    BY <1>2, <1>3, <2>1
<1>6. offset \in 0 .. n
  BY <1>2, <1>5
<1>7. /\ offset = 0 => rows = SubSeq(list, 1, end)
      /\ offset # 0 => SubSeq(list, 1, offset) \o rows = SubSeq(list, 1, end)
  <2>1. PICK limit \in Nat : limit = Limit /\ limit > 0
    BY LimitFacts
  <2>2. /\ offset \in 0 .. Len(list) /\ end \in Int /\ rows = Page(list, limit, offset)
        /\ end = IF offset + limit > Len(list) THEN Len(list) ELSE offset + limit
    BY <1>1, <1>3, <1>6, <2>1
  <2> QED
    BY ONLY <2>1, <2>2, PageFollows, list \in Seq(Rows)
<1>8. k + 1 <= PagesFor(n)
  <2>1. PICK t \in Nat : t = PagesFor(n) /\ n <= t * Limit
    <3>1. n \in Nat /\ n > 0
      BY <1>2, <1>5
    <3> QED
      BY ONLY <3>1, PagesForFacts
  <2>2. k * Limit < t * Limit
    BY <1>2, <1>5, <2>1, LimitFacts
  <2>3. k < t
    BY <2>2, LimitFacts
  <2> QED
    BY <2>1, <2>3
<1>9. offset = 0 <=> k = 0
  BY LimitFacts
<1> QED
  BY <1>1, <1>2, <1>3, <1>4, <1>5, <1>7, <1>8, <1>9

\* A user who gets nothing, while the table is not written.
LEMMA UserKeeps ==
  ASSUME WalksInv, NEW u \in Users, table' = table,
         page'[u] = page[u], walk'[u] = walk[u], calm'[u] = calm[u]
  PROVE  FootOK(page[u], walk[u], calm[u], ListOfUser(u))'
<1>1. PICK query : query = page[u].query
  OBVIOUS
<1>2. Listed(u, query)' = Listed(u, query)
  BY ListedKept
<1>3. ListOfUser(u)' = ListOfUser(u)
  BY <1>1, <1>2 DEF ListOfUser
<1>4. FootOK(page'[u], walk'[u], calm'[u], ListOfUser(u)')
  BY <1>3 DEF WalksInv
<1> QED
  BY <1>4

\* A page is sent to one user.
LEMMA OneUser ==
  ASSUME WalksInv, NEW u \in Users, table' = table, NEW foot, NEW seen,
         page' = [page EXCEPT ![u] = foot], walk' = [walk EXCEPT ![u] = seen],
         \A v \in Users \ {u} : calm'[v] = calm[v],
         FootOK(foot, seen, calm'[u], Listed(u, foot.query))
  PROVE  WalksInv'
<1>1. /\ DOMAIN page' = Users /\ DOMAIN walk' = Users
      /\ page'[u] = foot /\ walk'[u] = seen
      /\ \A v \in Users \ {u} : page'[v] = page[v] /\ walk'[v] = walk[v]
  BY DEF WalksInv
<1>2. ASSUME NEW v \in Users, v # u
      PROVE  FootOK(page[v], walk[v], calm[v], ListOfUser(v))'
  BY <1>1, <1>2, UserKeeps
<1>3. FootOK(page[u], walk[u], calm[u], ListOfUser(u))'
  <2>1. PICK query : query = foot.query
    OBVIOUS
  <2>2. Listed(u, query)' = Listed(u, query)
    BY ListedKept
  <2>3. ListOfUser(u)' = Listed(u, query)
    BY <1>1, <2>1, <2>2 DEF ListOfUser
  <2>4. FootOK(page'[u], walk'[u], calm'[u], ListOfUser(u)')
    BY <1>1, <2>1, <2>3
  <2> QED
    BY <2>4
<1>4. \A v \in Users : FootOK(page[v], walk[v], calm[v], ListOfUser(v))'
  BY <1>2, <1>3
<1> QED
  BY <1>1, <1>4 DEF WalksInv

\* The first page of a list.
LEMMA FirstShown ==
  ASSUME TableInv, WalksInv, NEW u \in Users, NEW query, Show(u, query, 0),
         walk' = [walk EXCEPT ![u] = page'[u].rows], table' = table, Looks(u)
  PROVE  WalksInv'
<1>1. PICK list : list = Listed(u, query)
  OBVIOUS
<1>2. PICK rows : rows = Page(list, Limit, 0)
  OBVIOUS
<1>3. /\ rows \in Seq(Rows) /\ rows # <<>>
      /\ \E foot :
           /\ page' = [page EXCEPT ![u] = foot]
           /\ foot.query = query /\ foot.rows = rows
           /\ foot.current = Quotient(0) + 1 /\ foot.current \in Int
           /\ foot.total = PagesFor(Len(list))
  BY <1>1, <1>2, ShowFacts
<1>4. PICK foot :
        /\ page' = [page EXCEPT ![u] = foot]
        /\ foot.query = query /\ foot.rows = rows
        /\ foot.current = Quotient(0) + 1 /\ foot.current \in Int
        /\ foot.total = PagesFor(Len(list))
  BY <1>3
<1>5. walk' = [walk EXCEPT ![u] = rows]
  BY <1>4 DEF WalksInv
<1>6. list \in Seq(Rows)
  BY <1>1, ListedFacts
<1>7. PICK end : end = PageEnd(1, Len(list))
  OBVIOUS
<1>8. 0 < Len(list) /\ Quotient(0) + 1 = 1 /\ rows = SubSeq(list, 1, end)
  <2>1. PICK k, offset : k \in Nat /\ k = 0 /\ offset = k * Limit
    OBVIOUS
  <2>2. offset = 0 /\ k + 1 = 1
    BY <2>1, LimitFacts
  <2>3. end = PageEnd(k + 1, Len(list))
    BY <1>7, <2>2
  <2>4. rows = Page(list, Limit, offset)
    BY <1>2, <2>2
  <2>5. offset < Len(list) /\ Quotient(offset) + 1 = k + 1 /\ rows = SubSeq(list, 1, end)
    <3>1. list \in Seq(Rows) /\ k \in Nat /\ offset = k * Limit /\ rows # <<>>
      BY <1>3, <1>6, <2>1
    <3>2. /\ offset < Len(list) /\ Quotient(offset) + 1 = k + 1
          /\ k = 0 => rows = SubSeq(list, 1, end)
      BY ONLY <2>3, <2>4, <3>1, PageShown
    <3> QED
      BY <2>1, <3>2
  <2> QED
    BY <2>1, <2>2, <2>5
<1>9. /\ foot.current = 1 /\ (foot.current - 1) * Limit = 0
      /\ end = PageEnd(foot.current, Len(list))
  BY <1>4, <1>7, <1>8, LimitFacts
<1>10. FootOK(foot, rows, calm'[u], list)
  BY <1>3, <1>4, <1>8, <1>9 DEF FootOK
<1>11. \A v \in Users \ {u} : calm'[v] = calm[v]
  BY ReadersAssumption DEF Looks, TableInv
<1> QED
  BY <1>1, <1>4, <1>5, <1>10, <1>11, OneUser

\* A page that the text of the last one leads to.
LEMMA SpecificShown ==
  ASSUME TableInv, WalksInv, NEW u \in Users, NEW number \in Numbers \cup {0}, NEW word,
         SpecificPage(u, number, word)
  PROVE  WalksInv'
<1>1. PICK old : old = page[u]
  OBVIOUS
<1>2. PICK offset, query :
        offset = NewOffset(number, word, old.current) /\ query = old.query
  OBVIOUS
<1>3. /\ Readable(old) /\ Show(u, query, offset) /\ table' = table /\ writes' = writes
      /\ offset = 0 => Begin(u) /\ walk' = [walk EXCEPT ![u] = page'[u].rows]
      /\ offset # 0 =>
           /\ calm' = calm
           /\ walk' = [walk EXCEPT ![u] = IF @ # <<>> /\ number = 0 /\ word = "next"
                                            THEN @ \o page'[u].rows ELSE <<>>]
  BY <1>1, <1>2 DEF SpecificPage
<1>4. CASE offset = 0
  <2>1. Looks(u) /\ Show(u, query, 0) /\ walk' = [walk EXCEPT ![u] = page'[u].rows]
    BY <1>3, <1>4 DEF Looks, Begin
  <2> QED
    BY <1>3, <2>1, FirstShown
<1>5. CASE offset # 0
  <2>1. /\ old.current \in Int /\ 0 <= old.current /\ old.current <= MaxPlain
    BY <1>1, <1>3 DEF Readable, WalksInv, FootOK
  <2>2. offset \in Int
    BY <1>2, <2>1, OffsetFacts
  <2>3. PICK list : list = Listed(u, query)
    OBVIOUS
  <2>4. PICK rows : rows = Page(list, Limit, offset)
    OBVIOUS
  <2>5. /\ rows \in Seq(Rows) /\ rows # <<>>
        /\ \E foot :
             /\ page' = [page EXCEPT ![u] = foot]
             /\ foot.query = query /\ foot.rows = rows
             /\ foot.current = Quotient(offset) + 1 /\ foot.current \in Int
             /\ foot.total = PagesFor(Len(list))
    BY <1>3, <2>2, <2>3, <2>4, ShowFacts
  <2>6. PICK foot :
          /\ page' = [page EXCEPT ![u] = foot]
          /\ foot.query = query /\ foot.rows = rows
          /\ foot.current = Quotient(offset) + 1 /\ foot.current \in Int
          /\ foot.total = PagesFor(Len(list))
    BY <2>5
  <2>7. page'[u] = foot
    BY <2>6 DEF WalksInv
  <2>8. PICK before, seen :
          /\ before = walk[u]
          /\ seen = IF before # <<>> /\ number = 0 /\ word = "next"
                      THEN before \o rows ELSE <<>>
    OBVIOUS
  <2>9. walk' = [walk EXCEPT ![u] = seen]
    BY <1>3, <1>5, <2>6, <2>7, <2>8
  <2>10. FootOK(old, before, calm[u], list)
    BY <1>1, <1>2, <2>3, <2>8 DEF WalksInv, ListOfUser
  <2>11. seen \in Seq(Rows)
    BY <2>5, <2>8, <2>10, ConcatProperties DEF FootOK
  <2>12. ASSUME seen # <<>>, calm[u]
         PROVE  /\ foot.current > 0
                /\ (foot.current - 1) * Limit < Len(list)
                /\ seen = SubSeq(list, 1, PageEnd(foot.current, Len(list)))
    <3>1. before # <<>> /\ number = 0 /\ word = "next" /\ seen = before \o rows
      BY <2>8, <2>12
    <3>2. PICK k \in Nat : offset = k * Limit /\ k = old.current
      <4>1. number <= MaxInt \div Limit
        BY <3>1, LimitFacts
      <4>2. PICK k \in Int : offset = k * Limit /\ k = old.current
        BY <1>2, <2>1, <3>1, <4>1, OffsetFacts
      <4> QED
        BY <2>1, <4>2
    <3>3. /\ k > 0
          /\ before = SubSeq(list, 1, PageEnd(k, Len(list)))
      BY <2>10, <2>12, <3>1, <3>2 DEF FootOK
    <3>4. PICK end : end = PageEnd(k + 1, Len(list))
      OBVIOUS
    <3>5. list \in Seq(Rows)
      BY <2>3, ListedFacts
    <3>6. /\ offset < Len(list) /\ Quotient(offset) + 1 = k + 1
          /\ SubSeq(list, 1, offset) \o rows = SubSeq(list, 1, end)
      <4>1. k \in Nat /\ offset = k * Limit /\ rows # <<>> /\ rows = Page(list, Limit, offset)
        BY <2>4, <2>5, <3>2
      <4>2. /\ offset < Len(list) /\ Quotient(offset) + 1 = k + 1
            /\ k # 0 => SubSeq(list, 1, offset) \o rows = SubSeq(list, 1, end)
        BY ONLY <3>4, <3>5, <4>1, PageShown, SMTT(60)
      <4>3. k # 0
        BY <3>3
      <4> QED
        BY <4>2, <4>3, Zenon
    <3>7. seen = SubSeq(list, 1, end)
      BY <3>1, <3>2, <3>3, <3>6 DEF PageEnd
    <3>8. foot.current = k + 1 /\ foot.current - 1 = k /\ foot.current > 0
      BY <2>6, <3>2, <3>3, <3>6
    <3>9. (foot.current - 1) * Limit < Len(list)
      BY <3>2, <3>6, <3>8
    <3> QED
      BY <3>4, <3>7, <3>8, <3>9
  <2>13. FootOK(foot, seen, calm[u], list)
    BY <2>5, <2>6, <2>11, <2>12 DEF FootOK
  <2>14. Listed(u, foot.query) = list /\ calm' = calm
    BY <1>3, <1>5, <2>3, <2>6
  <2>15. FootOK(foot, seen, calm'[u], Listed(u, foot.query))
    BY <2>13, <2>14
  <2> QED
    BY <1>3, <2>6, <2>9, <2>14, <2>15, OneUser
<1> QED
  BY <1>4, <1>5

LEMMA WalksStep == TableInv /\ WalksInv /\ [Next]_vars => WalksInv'
<1> SUFFICES ASSUME TableInv, WalksInv, [Next]_vars PROVE WalksInv'
  OBVIOUS
<1>1. ASSUME UNCHANGED chatVars, table' = table, \A u \in Users : calm'[u] = calm[u]
      PROVE  WalksInv'
  BY <1>1, UserKeeps DEF chatVars, WalksInv
<1>2. CASE UNCHANGED vars
  BY <1>1, <1>2 DEF vars, tableVars
<1>3. ASSUME NEW r \in Rows, Write(r), UNCHANGED chatVars PROVE WalksInv'
  <2>1. page' = page /\ walk' = walk /\ \A u \in Users : ~calm'[u]
    BY <1>3, ReadersAssumption DEF Write, chatVars
  <2>2. ASSUME NEW u \in Users PROVE FootOK(page[u], walk[u], calm[u], ListOfUser(u))'
    <3>1. FootOK(page[u], walk[u], calm[u], ListOfUser(u))
      BY DEF WalksInv
    <3>2. FootOK(page'[u], walk'[u], calm'[u], ListOfUser(u)')
      BY <2>1, <3>1 DEF FootOK
    <3> QED
      BY <3>2
  <2> QED
    BY <2>1, <2>2 DEF WalksInv
<1>4. ASSUME NEW c \in Clients, Looks(c), UNCHANGED chatVars PROVE WalksInv'
  <2>1. \A u \in Users : calm'[u] = calm[u]
    BY <1>4, ReadersAssumption DEF Looks, TableInv
  <2> QED
    BY <1>1, <1>4, <2>1 DEF Looks
<1>5. ASSUME ReportsNext PROVE WalksInv'
  <2>1. PICK u \in Users :
          \/ \E from, to \in {v.date : v \in Values} : FirstPage(u, from, to)
          \/ \E number \in Numbers \cup {0}, word \in Words : SpecificPage(u, number, word)
    BY <1>5 DEF ReportsNext
  <2>2. ASSUME NEW from, NEW to, FirstPage(u, from, to) PROVE WalksInv'
    <3>1. PICK query : query = Period(from, to, "")
      OBVIOUS
    <3>2. /\ Show(u, query, 0) /\ walk' = [walk EXCEPT ![u] = page'[u].rows]
          /\ table' = table /\ Looks(u)
      BY <2>2, <3>1 DEF FirstPage, Begin, Looks
    <3> QED
      BY <3>2, FirstShown
  <2> QED
    BY <2>1, <2>2, SpecificShown
<1>6. ASSUME UNCHANGED <<chatVars, tableVars>> PROVE WalksInv'
  BY <1>1, <1>6 DEF tableVars
<1> QED
  BY <1>2, <1>3, <1>4, <1>5, <1>6, NextLooks

LEMMA InitWalks == Init => WalksInv
<1> SUFFICES ASSUME Init PROVE WalksInv
  OBVIOUS
<1>1. page = [u \in Users |-> NoPage] /\ walk = [u \in Users |-> <<>>]
  BY DEF Init, ReportsInit
<1>2. <<>> \in Seq(Rows)
  OBVIOUS
<1> QED
  BY <1>1, <1>2 DEF WalksInv, FootOK

\* The users of the chats and what they were shown of their lists.
THEOREM WalksInvariant == Spec => [](TableInv /\ WalksInv)
<1> QED
  BY InitTable, TableStep, InitWalks, WalksStep, PTL DEF Spec

\* Whoever goes from the first page on with "next", over a table that does not change, is
\* shown every transaction of the period once, in order, and the last page is the one
\* numbered as the last, for any number of rows and any size of a page, up to the page
\* whose number is printed with a comma (getNewOffset, Detailed).
THEOREM NextShowsAll == Spec => []WalkShowsAll
<1>1. TableInv /\ WalksInv => WalkShowsAll
  <2> SUFFICES ASSUME TableInv, WalksInv, NEW u \in Users, walk[u] # <<>>, calm[u],
                      NEW list, list = ListOfUser(u),
                      NEW seen, seen = page[u].current * Limit
               PROVE  /\ walk[u] = SubSeq(list, 1, IF seen < Len(list) THEN seen
                                                   ELSE Len(list))
                      /\ page[u].current = page[u].total <=> Len(walk[u]) = Len(list)
    BY DEF WalkShowsAll, ListOfUser
  <2>1. PICK k \in Int : k = page[u].current /\ k > 0
    BY DEF WalksInv, FootOK
  <2>2. list \in Seq(Rows)
    BY ListedFacts DEF ListOfUser
  <2>3. PICK n \in Nat : n = Len(list)
    BY <2>2, LenProperties
  <2>4. PICK end \in Nat : end = IF seen < n THEN seen ELSE n
    <3>1. seen \in Nat
      BY <2>1, LimitFacts
    <3> QED
      BY <2>3, <3>1
  <2>5. /\ (k - 1) * Limit < n /\ page[u].total = PagesFor(n)
        /\ walk[u] = SubSeq(list, 1, end)
    BY <2>1, <2>3, <2>4 DEF WalksInv, FootOK, PageEnd
  <2>6. Len(walk[u]) = end
    <3>1. end <= Len(list) /\ 1 \in Nat /\ 1 > 0 /\ end \in Int
      BY <2>1, <2>3, <2>4, LimitFacts
    <3>2. Len(SubSeq(list, 1, end)) = IF 1 <= end THEN end - 1 + 1 ELSE 0
      BY <2>2, <3>1, Piece
    <3>3. 1 <= end \/ end = 0
      OBVIOUS
    <3> QED
      BY <2>5, <3>2, <3>3
  <2>7. k = PagesFor(n) <=> n <= k * Limit
    BY <2>1, <2>5, LastPage
  <2>8. end = n <=> n <= k * Limit
    BY <2>1, <2>4, LimitFacts
  <2> QED
    BY <2>1, <2>3, <2>4, <2>5, <2>6, <2>7, <2>8
<1> QED
  BY <1>1, WalksInvariant, PTL

\* A user's page, once sent, has rows; the table, the tokens and the histories have the
\* values they are meant to have (the parts of Readers).
THEOREM ReadersTypes == Spec => []TypeOK
<1>1. TableInv => TableTypeOK
  BY DEF TableInv, TableTypeOK
<1>2. WalksInv => ReportsTypeOK
  BY DEF WalksInv, FootOK, ReportsTypeOK
<1>3. TokensInv /\ PagesInv => McpTypeOK
  BY DEF TokensInv, TokensTyped, PagesInv, ClientOK, McpTypeOK
<1> QED
  BY <1>1, <1>2, <1>3, PagesInvariant, WalksInvariant, PTL DEF TypeOK

\* The page before the first one has the first rows.
LEMMA PageBefore ==
  ASSUME NEW list \in Seq(Rows), NEW offset \in Int, offset < 0,
         NEW rows, rows = Page(list, Limit, offset)
  PROVE  rows = SubSeq(list, 1, Len(rows))
<1>1. PICK n \in Nat : n = Len(list)
  BY LenProperties
<1>2. PICK end \in Nat : end = IF Limit > n THEN n ELSE Limit
  BY <1>1, LimitFacts
<1>3. rows = SubSeq(list, 1, end)
  <2> DEFINE skipped == IF offset < 0 THEN 0 ELSE offset
  <2>1. skipped = 0
    OBVIOUS
  <2>2. rows = SubSeq(list, skipped + 1,
                 IF Limit < 0 \/ skipped + Limit > Len(list) THEN Len(list) ELSE skipped + Limit)
    BY DEF Page
  <2> HIDE DEF skipped
  <2>3. end = IF Limit < 0 \/ skipped + Limit > Len(list) THEN Len(list) ELSE skipped + Limit
    BY <1>1, <1>2, <2>1, LimitFacts
  <2> QED
    BY <2>1, <2>2, <2>3
<1>4. Len(rows) = end
  <2>1. end <= Len(list) /\ end \in Int /\ 1 \in Nat /\ 1 > 0
    BY <1>1, <1>2, LimitFacts
  <2>2. Len(SubSeq(list, 1, end)) = IF 1 <= end THEN end - 1 + 1 ELSE 0
    BY <2>1, Piece
  <2>3. 1 <= end \/ end = 0
    OBVIOUS
  <2> QED
    BY <1>3, <2>2, <2>3
<1> QED
  BY <1>3, <1>4

\* What is printed under a page, at the offset of page k + 1.
Labelled(new, old, list) ==
  \/ /\ new.current \in 1 .. new.total
     /\ new.start = (new.current - 1) * Limit + 1
     /\ new.rows = SubSeq(list, new.start, new.end)
  \/ /\ old # NoPage /\ old.current <= 1
     /\ new.current <= 0
     /\ new.rows = SubSeq(list, 1, Len(new.rows))

LEMMA ShowLabels ==
  ASSUME TableInv, DOMAIN page = Users, NEW u \in Users, NEW query, NEW k \in Int,
         Show(u, query, k * Limit),
         k < 0 => page[u] # NoPage /\ page[u].current <= 1
  PROVE  /\ page'[u].query = query
         /\ Labelled(page'[u], page[u], Listed(u, query))
<1>1. PICK list : list = Listed(u, query)
  OBVIOUS
<1>2. PICK offset \in Int : offset = k * Limit
  BY QuotientFacts
<1>3. PICK rows : rows = Page(list, Limit, offset)
  OBVIOUS
<1>4. rows # <<>> /\ \E foot :
        /\ page' = [page EXCEPT ![u] = foot]
        /\ foot.query = query /\ foot.rows = rows
        /\ foot.current = Quotient(offset) + 1 /\ foot.current \in Int
        /\ foot.total = PagesFor(Len(list))
        /\ foot.start = offset + 1 /\ foot.end = offset + Len(rows)
  BY <1>1, <1>2, <1>3, ShowFacts
<1>5. PICK foot :
        /\ page' = [page EXCEPT ![u] = foot]
        /\ foot.query = query /\ foot.rows = rows
        /\ foot.current = Quotient(offset) + 1 /\ foot.current \in Int
        /\ foot.total = PagesFor(Len(list))
        /\ foot.start = offset + 1 /\ foot.end = offset + Len(rows)
  BY <1>4
<1>6. page'[u] = foot
  BY <1>5
<1>7. list \in Seq(Rows)
  BY <1>1, ListedFacts
<1>8. foot.current = k + 1
  BY <1>2, <1>5, QuotientFacts
<1>9. CASE k >= 0
  <2>1. PICK end : end = PageEnd(k + 1, Len(list))
    OBVIOUS
  <2>2. k \in Nat /\ offset = k * Limit /\ rows # <<>> /\ rows = Page(list, Limit, offset)
    BY <1>2, <1>3, <1>4, <1>9
  <2>3. /\ offset < Len(list)
        /\ rows = SubSeq(list, offset + 1, end) /\ end = offset + Len(rows)
        /\ k + 1 <= PagesFor(Len(list))
    BY ONLY <1>7, <2>1, <2>2, PageShown, SMTT(60)
  <2>4. PagesFor(Len(list)) \in Nat
    <3>1. Len(list) \in Nat
      BY <1>7, LenProperties
    <3>2. Len(list) > 0
      BY <2>2, <2>3, <3>1, LimitFacts
    <3> QED
      BY <3>1, <3>2, PagesForFacts
  <2>5. foot.current \in 1 .. foot.total
    BY <1>5, <1>8, <2>2, <2>3, <2>4
  <2>6. foot.start = (foot.current - 1) * Limit + 1
    <3>1. foot.current - 1 = k
      BY <1>8
    <3> QED
      BY <1>5, <2>2, <3>1
  <2>7. foot.rows = SubSeq(list, foot.start, foot.end)
    BY <1>5, <2>3
  <2> QED
    BY <1>1, <1>5, <1>6, <2>5, <2>6, <2>7 DEF Labelled
<1>10. CASE k < 0
  <2>1. offset < 0
    BY <1>2, <1>10, QuotientFacts
  <2>2. rows = SubSeq(list, 1, Len(rows))
    BY <1>3, <1>7, <2>1, PageBefore
  <2>3. foot.current <= 0
    BY <1>8, <1>10
  <2> QED
    BY <1>1, <1>5, <1>6, <1>10, <2>2, <2>3 DEF Labelled
<1> QED
  BY <1>9, <1>10

\* The numbers under a page are those of its rows, save in two cases: before the first page
\* are the first rows, and a number too large to multiply leads anywhere.  They are, for
\* any table, page size and width of the machine's integers that holds twice a page and
\* the rows up to the last page whose number is printed without a comma (getNewOffset,
\* Detailed).
THEOREM LabelsAreTrue == Spec => LabelsTrue
<1> DEFINE Good ==
             \A u \in Users :
               page'[u] # page[u] =>
                 LET new == page'[u]
                     list == Listed(u, new.query)
                 IN \/ /\ new.current \in 1 .. new.total
                       /\ new.start = (new.current - 1) * Limit + 1
                       /\ new.rows = SubSeq(list, new.start, new.end)
                    \/ /\ page[u] # NoPage /\ page[u].current <= 1
                       /\ new.current <= 0
                       /\ new.rows = SubSeq(list, 1, Len(new.rows))
                    \/ \E n \in Numbers, word \in Words :
                         n > MaxInt \div Limit /\ SpecificPage(u, n, word)
<1>1. ASSUME TableInv, WalksInv, [Next]_vars PROVE [Good]_<<table, page>>
  <2>1. ASSUME page' = page PROVE Good
    BY <2>1
  <2>2. ASSUME NEW u \in Users, NEW query, NEW k \in Int, Show(u, query, k * Limit),
               k < 0 => page[u] # NoPage /\ page[u].current <= 1
        PROVE  Good
    <3>1. /\ page'[u].query = query
          /\ Labelled(page'[u], page[u], Listed(u, query))
      BY <1>1, <2>2, ShowLabels DEF WalksInv
    <3>2. \A v \in Users : v # u => page'[v] = page[v]
      BY <2>2 DEF Show
    <3> QED
      BY <3>1, <3>2 DEF Labelled
  <2>3. ASSUME NEW u \in Users, NEW from, NEW to, FirstPage(u, from, to) PROVE Good
    <3>1. PICK k \in Int : k = 0
      OBVIOUS
    <3>2. k * Limit = 0 /\ ~(k < 0)
      <4>1. 0 * Limit = 0
        BY LimitFacts
      <4> QED
        BY <3>1, <4>1
    <3>3. PICK query : query = Period(from, to, "")
      OBVIOUS
    <3>4. Show(u, query, k * Limit)
      BY <2>3, <3>2, <3>3 DEF FirstPage
    <3> QED
      BY <2>2, <3>2, <3>4
  <2>4. ASSUME NEW u \in Users, NEW number \in Numbers \cup {0}, NEW word \in Words,
               SpecificPage(u, number, word)
        PROVE  Good
    <3>1. /\ page[u] # NoPage
          /\ page[u].current \in Int /\ 0 <= page[u].current /\ page[u].current <= MaxPlain
      BY <1>1, <2>4 DEF SpecificPage, Readable, WalksInv, FootOK
    <3>2. PICK offset : offset = NewOffset(number, word, page[u].current)
      OBVIOUS
    <3>3. Show(u, page[u].query, offset)
      BY <2>4, <3>2 DEF SpecificPage
    <3>4. CASE number <= MaxInt \div Limit
      <4>1. PICK k \in Int : offset = k * Limit /\ (k < 0 => page[u].current <= 1)
        BY <3>1, <3>2, <3>4, OffsetFacts
      <4> QED
        BY <2>2, <3>1, <3>3, <4>1
    <3>5. CASE ~(number <= MaxInt \div Limit)
      <4>1. number \in Numbers /\ number > MaxInt \div Limit
        BY <3>5, LimitFacts, NumbersAssumption
      <4>2. \A v \in Users : v # u => page'[v] = page[v]
        BY <3>3 DEF Show
      <4> QED
        BY <2>4, <4>1, <4>2
    <3> QED
      BY <3>4, <3>5
  <2>5. CASE ReportsNext
    BY <2>3, <2>4, <2>5 DEF ReportsNext
  <2>6. CASE UNCHANGED chatVars \/ UNCHANGED vars
    BY <2>1, <2>6 DEF chatVars, vars
  <2> QED
    BY <1>1, <2>5, <2>6 DEF Next
<1>2. Spec => [][Good]_<<table, page>>
  <2>1. TableInv /\ WalksInv /\ [Next]_vars => [Good]_<<table, page>>
    BY <1>1
  <2> QED
    BY <2>1, WalksInvariant, PTL DEF Spec
<1> QED
  BY <1>2 DEF LabelsTrue

-----------------------------------------------------------------------------
(* Folds over a finite set, which is what the summary is made of.           *)

LEMMA LessThanOnNat == OpToRel(<, Nat) = {p \in Nat \X Nat : p[1] < p[2]}
  BY Zenon DEF OpToRel

\* A set of numbers that has 0, and with a number the next one, has them all.
LEMMA SetInduction ==
  ASSUME NEW S, 0 \in S, \A n \in Nat : n \in S => n + 1 \in S
  PROVE  Nat \subseteq S
<1>1. SUFFICES ASSUME Nat \ S # {} PROVE FALSE
  OBVIOUS
<1>2. PICK n \in Nat \ S : \A m \in Nat \ S : ~(<<m, n>> \in OpToRel(<, Nat))
  BY <1>1, NatLessThanWellFounded, WFMin, Zenon
<1>3. \A m \in Nat \ S : ~ m < n
  BY <1>2, LessThanOnNat
<1>4. n - 1 \in Nat /\ n - 1 \in S
  BY <1>3
<1>5. (n - 1) + 1 \in S
  BY <1>4
<1>6. (n - 1) + 1 = n
  OBVIOUS
<1> QED
  BY <1>5, <1>6

\* The subsets of S with up to n elements.
Small(S, n) == {s \in SUBSET S : Cardinality(s) <= n}

LEMMA SmallFacts ==
  ASSUME NEW S, IsFiniteSet(S)
  PROVE  /\ Cardinality(S) \in Nat /\ SUBSET S = Small(S, Cardinality(S))
         /\ \A s \in SUBSET S : s = {} <=> Cardinality(s) = 0
         /\ \A s \in SUBSET S : IsFiniteSet(s) /\ Cardinality(s) \in Nat
         /\ \A s \in SUBSET S : \A x \in s :
              Cardinality(s \ {x}) = Cardinality(s) - 1 /\ s \ {x} \in SUBSET S
<1>1. Cardinality(S) \in Nat
  BY FS_CardinalityType
<1>2. ASSUME NEW s \in SUBSET S
      PROVE  IsFiniteSet(s) /\ Cardinality(s) \in Nat /\ Cardinality(s) <= Cardinality(S)
  BY FS_Subset, FS_CardinalityType
<1>3. ASSUME NEW s \in SUBSET S PROVE s = {} <=> Cardinality(s) = 0
  BY <1>2, FS_EmptySet
<1>4. ASSUME NEW s \in SUBSET S, NEW x \in s PROVE Cardinality(s \ {x}) = Cardinality(s) - 1
  BY <1>2, FS_RemoveElement
<1> QED
  BY <1>1, <1>2, <1>3, <1>4 DEF Small

\* What a fold is on the subsets of S: base for none, and a step for an element that is
\* picked from the others.
Folded(g, sets, base, pick, step) ==
  g = [s \in sets |-> IF s = {} THEN base ELSE step[pick[s]][g[s \ {pick[s]}]]]

\* Picked elements are elements, and steps stay in A.
CanFold(S, A, base, pick, step) ==
  /\ IsFiniteSet(S) /\ base \in A
  /\ \A s \in SUBSET S : s # {} => pick[s] \in s
  /\ \A x \in S : \A a \in A : step[x][a] \in A

\* There is such a function, by induction over the size of the subsets.
LEMMA FoldExists ==
  ASSUME NEW S, NEW A, NEW base, NEW pick, NEW step, CanFold(S, A, base, pick, step)
  PROVE  \E g \in [SUBSET S -> A] : Folded(g, SUBSET S, base, pick, step)
<1>0. /\ IsFiniteSet(S) /\ base \in A
      /\ \A s \in SUBSET S : s # {} => pick[s] \in s
      /\ \A x \in S : \A a \in A : step[x][a] \in A
  BY DEF CanFold
<1> USE <1>0
<1> DEFINE P(n) == \E g \in [Small(S, n) -> A] : Folded(g, Small(S, n), base, pick, step)
<1>1. P(0)
  <2> DEFINE g == [s \in Small(S, 0) |-> base]
  <2>1. \A s \in Small(S, 0) : s = {}
    BY SmallFacts DEF Small
  <2>2. g \in [Small(S, 0) -> A]
    OBVIOUS
  <2>3. g = [s \in Small(S, 0) |-> IF s = {} THEN base ELSE step[pick[s]][g[s \ {pick[s]}]]]
    BY <2>1
  <2> QED
    BY <2>2, <2>3 DEF Folded
<1>2. ASSUME NEW n \in Nat, P(n) PROVE P(n + 1)
  <2>1. PICK g \in [Small(S, n) -> A] : Folded(g, Small(S, n), base, pick, step)
    BY <1>2
  <2>2. g = [s \in Small(S, n) |-> IF s = {} THEN base ELSE step[pick[s]][g[s \ {pick[s]}]]]
    BY <2>1 DEF Folded
  <2> DEFINE h == [s \in Small(S, n + 1) |->
                     IF s = {} THEN base ELSE step[pick[s]][g[s \ {pick[s]}]]]
  <2>3. ASSUME NEW s \in Small(S, n + 1), s # {}
        PROVE  s \ {pick[s]} \in Small(S, n) /\ pick[s] \in S
    BY <2>3, SmallFacts DEF Small
  <2>4. h \in [Small(S, n + 1) -> A]
    <3>1. ASSUME NEW s \in Small(S, n + 1), s # {}
          PROVE  step[pick[s]][g[s \ {pick[s]}]] \in A
      <4>1. g[s \ {pick[s]}] \in A
        BY <2>3, <3>1
      <4> QED
        BY <2>3, <3>1, <4>1
    <3> QED
      BY <3>1
  <2>5. ASSUME NEW t \in Small(S, n) PROVE h[t] = g[t] /\ t \in Small(S, n + 1)
    <3>1. t \in Small(S, n + 1)
      BY SmallFacts DEF Small
    <3>2. g[t] = IF t = {} THEN base ELSE step[pick[t]][g[t \ {pick[t]}]]
      BY <2>2
    <3> QED
      BY <3>1, <3>2
  <2>6. ASSUME NEW s \in Small(S, n + 1), s # {}
        PROVE  step[pick[s]][g[s \ {pick[s]}]] = step[pick[s]][h[s \ {pick[s]}]]
    BY <2>3, <2>5, <2>6
  <2>7. h = [s \in Small(S, n + 1) |->
               IF s = {} THEN base ELSE step[pick[s]][h[s \ {pick[s]}]]]
    BY <2>6
  <2> HIDE DEF h
  <2> QED
    BY <2>4, <2>7 DEF Folded
<1>3. \A n \in Nat : P(n)
  <2> DEFINE T == {n \in Nat : P(n)}
  <2>1. 0 \in T
    BY <1>1
  <2>2. \A n \in Nat : n \in T => n + 1 \in T
    BY <1>2
  <2> HIDE DEF T, P
  <2>3. Nat \subseteq T
    BY <2>1, <2>2, SetInduction
  <2> QED
    BY <2>3 DEF T
<1>4. PICK n \in Nat : n = Cardinality(S) /\ SUBSET S = Small(S, n)
  BY SmallFacts
<1>5. PICK g \in [Small(S, n) -> A] : Folded(g, Small(S, n), base, pick, step)
  BY <1>3
<1>6. g \in [SUBSET S -> A] /\ Folded(g, SUBSET S, base, pick, step)
  BY ONLY <1>4, <1>5
<1> QED
  BY ONLY <1>6

\* What holds of the empty set, and of a set when it holds of those with an element less,
\* holds of every finite set.
LEMMA SubsetInduction ==
  ASSUME NEW S, IsFiniteSet(S), NEW T, {} \in T,
         \A s \in SUBSET S : s # {} /\ (\A x \in s : s \ {x} \in T) => s \in T
  PROVE  SUBSET S \subseteq T
<1> DEFINE N == {n \in Nat : Small(S, n) \subseteq T}
<1>1. 0 \in N
  <2>1. \A s \in Small(S, 0) : s = {}
    BY SmallFacts DEF Small
  <2> QED
    BY <2>1
<1>2. ASSUME NEW n \in Nat, n \in N PROVE n + 1 \in N
  <2> SUFFICES ASSUME NEW s \in Small(S, n + 1) PROVE s \in T
    OBVIOUS
  <2>1. s \in SUBSET S /\ Cardinality(s) <= n + 1
    BY DEF Small
  <2>2. ASSUME NEW x \in s PROVE s \ {x} \in T
    <3>1. s \ {x} \in Small(S, n)
      BY <2>1, SmallFacts DEF Small
    <3> QED
      BY <1>2, <3>1
  <2> QED
    BY <2>1, <2>2
<1> HIDE DEF N
<1>3. Nat \subseteq N
  BY <1>1, <1>2, SetInduction
<1> QED
  BY <1>3, SmallFacts DEF N

-----------------------------------------------------------------------------
(* Sums of functions.                                                       *)

\* The element of a set that its sum takes first.
Some(s) == CHOOSE x \in s : TRUE

\* g sums up f over the subsets of D.
IsSum(g, f, D) == g = [s \in SUBSET D |-> IF s = {} THEN 0 ELSE f[Some(s)] + g[s \ {Some(s)}]]

\* SumFunction adds up element by element.
LEMMA SumSteps ==
  ASSUME NEW D, IsFiniteSet(D), NEW f \in [D -> Int]
  PROVE  \E g : IsSum(g, f, D) /\ SumFunction(f) = g[D]
<1> DEFINE pick == [s \in SUBSET D |-> Some(s)]
           step == [x \in D |-> [a \in Int |-> f[x] + a]]
<1>1. \A s \in SUBSET D : s # {} => pick[s] \in s /\ pick[s] = Some(s)
  BY DEF Some
<1>2. \A x \in D : \A a \in Int : step[x][a] \in Int /\ step[x][a] = f[x] + a
  OBVIOUS
<1> HIDE DEF pick, step
<1>3. PICK g \in [SUBSET D -> Int] : Folded(g, SUBSET D, 0, pick, step)
  <2>1. /\ 0 \in Int /\ \A s \in SUBSET D : s # {} => pick[s] \in s
        /\ \A x \in D : \A a \in Int : step[x][a] \in Int
    BY <1>1, <1>2
  <2>2. \E g \in [SUBSET D -> Int] : Folded(g, SUBSET D, 0, pick, step)
    <3>1. PICK A, base, p, q : A = Int /\ base = 0 /\ p = pick /\ q = step
      OBVIOUS
    <3>2. CanFold(D, A, base, p, q)
      BY <2>1, <3>1 DEF CanFold
    <3>3. \E g \in [SUBSET D -> A] : Folded(g, SUBSET D, base, p, q)
      BY <3>2, FoldExists
    <3> QED
      BY <3>1, <3>3
  <2> QED
    BY <2>2
<1>4. g = [s \in SUBSET D |-> IF s = {} THEN 0 ELSE step[pick[s]][g[s \ {pick[s]}]]]
  BY <1>3 DEF Folded
<1>5. ASSUME NEW s \in SUBSET D, s # {}
      PROVE  step[pick[s]][g[s \ {pick[s]}]] = f[Some(s)] + g[s \ {Some(s)}]
  BY <1>1, <1>2, <1>3, <1>5
<1>6. IsSum(g, f, D)
  BY <1>4, <1>5 DEF IsSum
<1>7. SumFunction(f) = (CHOOSE h : IsSum(h, f, D))[D]
  BY DEF SumFunction, SumFunctionOnSet, FoldFunctionOnSet, MapThenFoldSet, IsSum, Some
<1> QED
  BY <1>6, <1>7

LEMMA SumOfNone ==
  ASSUME NEW D, NEW f, NEW g, IsSum(g, f, D)
  PROVE  g[{}] = 0
BY DEF IsSum

LEMMA SumOnSet ==
  ASSUME NEW D, NEW f, NEW g, IsSum(g, f, D), NEW s \in SUBSET D, s # {}, NEW x, x = Some(s)
  PROVE  x \in s /\ g[s] = f[x] + g[s \ {x}]
<1>1. x \in s
  BY DEF Some
<1>2. g[s] = f[Some(s)] + g[s \ {Some(s)}]
  BY DEF IsSum
<1> QED
  BY <1>1, <1>2

\* Nothing adds up to nothing.
LEMMA SumOfZeros ==
  ASSUME NEW D, IsFiniteSet(D), NEW f \in [D -> Int], \A x \in D : f[x] = 0
  PROVE  SumFunction(f) = 0
<1>1. PICK g : IsSum(g, f, D) /\ SumFunction(f) = g[D]
  BY SumSteps
<1> DEFINE T == {s \in SUBSET D : g[s] = 0}
<1>2. {} \in T
  BY <1>1, SumOfNone
<1>3. ASSUME NEW s \in SUBSET D, s # {}, \A x \in s : s \ {x} \in T PROVE s \in T
  <2>1. PICK x : x = Some(s)
    OBVIOUS
  <2>2. x \in s /\ g[s] = f[x] + g[s \ {x}]
    BY <1>1, <1>3, <2>1, SumOnSet
  <2>3. g[s \ {x}] = 0 /\ f[x] = 0
    BY <1>3, <2>2
  <2> QED
    BY <2>2, <2>3
<1> HIDE DEF T
<1>4. SUBSET D \subseteq T
  BY <1>2, <1>3, SubsetInduction
<1> QED
  BY <1>1, <1>4 DEF T

\* h is f with v more at c.
OneGrows(D, f, h, c, v) ==
  /\ IsFiniteSet(D) /\ f \in [D -> Int] /\ h \in [D -> Int] /\ c \in D /\ v \in Int
  /\ h[c] = f[c] + v /\ \A x \in D \ {c} : h[x] = f[x]

\* A sum grows with one of its terms.
LEMMA SumGrows ==
  ASSUME NEW D, NEW f, NEW h, NEW c, NEW v, OneGrows(D, f, h, c, v)
  PROVE  SumFunction(f) \in Int /\ SumFunction(h) = SumFunction(f) + v
<1>0. /\ IsFiniteSet(D) /\ f \in [D -> Int] /\ h \in [D -> Int] /\ c \in D /\ v \in Int
      /\ h[c] = f[c] + v /\ \A x \in D \ {c} : h[x] = f[x]
  BY DEF OneGrows
<1> USE <1>0
<1>1. PICK g : IsSum(g, f, D) /\ SumFunction(f) = g[D]
  BY SumSteps
<1>2. PICK k : IsSum(k, h, D) /\ SumFunction(h) = k[D]
  BY SumSteps
<1> DEFINE T == {s \in SUBSET D : g[s] \in Int /\ k[s] = g[s] + (IF c \in s THEN v ELSE 0)}
<1>3. {} \in T
  BY <1>1, <1>2, SumOfNone
<1>4. ASSUME NEW s \in SUBSET D, s # {}, \A x \in s : s \ {x} \in T PROVE s \in T
  <2>1. PICK x : x = Some(s)
    OBVIOUS
  <2>2. x \in s /\ g[s] = f[x] + g[s \ {x}]
    BY <1>1, <1>4, <2>1, SumOnSet
  <2>7. k[s] = h[x] + k[s \ {x}]
    BY <1>2, <1>4, <2>1, SumOnSet
  <2>3. g[s \ {x}] \in Int /\ k[s \ {x}] = g[s \ {x}] + (IF c \in s \ {x} THEN v ELSE 0)
    BY <1>4, <2>2
  <2>4. f[x] \in Int /\ x \in D
    BY <2>2
  <2>5. CASE x = c
    <3>1. h[x] = f[x] + v /\ c \notin s \ {x} /\ c \in s
      BY <2>2, <2>5
    <3> QED
      BY <2>2, <2>3, <2>4, <2>7, <3>1
  <2>6. CASE x # c
    <3>1. h[x] = f[x] /\ (c \in s \ {x} <=> c \in s)
      BY <2>4, <2>6
    <3> QED
      BY <2>2, <2>3, <2>4, <2>7, <3>1
  <2> QED
    BY <2>5, <2>6
<1> HIDE DEF T
<1>5. SUBSET D \subseteq T
  BY <1>3, <1>4, SubsetInduction
<1>6. D \in T
  BY <1>5
<1> QED
  BY <1>1, <1>2, <1>6 DEF T

\* No term is larger than the sum.
LEMMA SumBounds ==
  ASSUME NEW D, IsFiniteSet(D), NEW f \in [D -> Nat]
  PROVE  SumFunction(f) \in Nat /\ \A x \in D : f[x] <= SumFunction(f)
<1>1. PICK g : IsSum(g, f, D) /\ SumFunction(f) = g[D]
  BY SumSteps
<1> DEFINE T == {s \in SUBSET D : g[s] \in Nat /\ \A x \in s : f[x] <= g[s]}
<1>2. {} \in T
  BY <1>1, SumOfNone
<1>3. ASSUME NEW s \in SUBSET D, s # {}, \A x \in s : s \ {x} \in T PROVE s \in T
  <2>1. PICK x : x = Some(s)
    OBVIOUS
  <2>2. x \in s /\ g[s] = f[x] + g[s \ {x}]
    BY <1>1, <1>3, <2>1, SumOnSet
  <2>3. PICK rest \in Nat : rest = g[s \ {x}] /\ \A y \in s \ {x} : f[y] <= rest
    BY <1>3, <2>2
  <2>4. f[x] \in Nat /\ g[s] = f[x] + rest
    BY <2>2, <2>3
  <2>5. ASSUME NEW y \in s PROVE f[y] <= g[s]
    <3>1. f[y] \in Nat
      OBVIOUS
    <3>2. CASE y = x
      BY <2>4, <3>2
    <3>3. CASE y # x
      <4>1. f[y] <= rest
        BY <2>3, <3>3
      <4> QED
        BY <2>4, <3>1, <4>1
    <3> QED
      BY <3>2, <3>3
  <2>6. g[s] \in Nat
    BY <2>4
  <2> QED
    BY <2>5, <2>6
<1> HIDE DEF T
<1>4. SUBSET D \subseteq T
  BY <1>2, <1>3, SubsetInduction
<1> QED
  BY <1>1, <1>4 DEF T

-----------------------------------------------------------------------------
(* Folds over a sequence.                                                   *)

LEMMA LargestOfPrefix ==
  ASSUME NEW k \in Nat, k > 0
  PROVE  Max(1 .. k) = k /\ (1 .. k) \ {k} = 1 .. (k - 1)
<1>1. \A x \in 1 .. k : (\A y \in 1 .. k : x >= y) <=> x = k
  OBVIOUS
<1> QED
  BY <1>1 DEF Max

LEMMA LargestIsIn ==
  ASSUME NEW n \in Nat, NEW s \in SUBSET (1 .. n), s # {}
  PROVE  Max(s) \in s
<1> DEFINE T == {t \in SUBSET (1 .. n) : t # {} => \E x \in t : \A y \in t : x >= y}
<1>1. {} \in T
  OBVIOUS
<1>2. ASSUME NEW t \in SUBSET (1 .. n), t # {}, \A x \in t : t \ {x} \in T PROVE t \in T
  <2>1. PICK x \in t : TRUE
    BY <1>2
  <2>2. CASE t \ {x} = {}
    <3>1. \A y \in t : y = x
      BY <2>2
    <3> QED
      BY <3>1
  <2>3. CASE t \ {x} # {}
    <3>1. PICK m \in t \ {x} : \A y \in t \ {x} : m >= y
      BY <1>2, <2>3
    <3>2. CASE m >= x
      <4>1. \A y \in t : m >= y
        BY <3>1, <3>2
      <4> QED
        BY <4>1
    <3>3. CASE ~(m >= x)
      <4>1. \A y \in t : x >= y
        <5>1. \A y \in t : y = x \/ m >= y
          BY <3>1
        <5> QED
          BY <3>3, <5>1
      <4> QED
        BY <4>1
    <3> QED
      BY <3>2, <3>3
  <2> QED
    BY <2>2, <2>3
<1> HIDE DEF T
<1>3. PICK S : S = 1 .. n /\ IsFiniteSet(S)
  BY FS_Interval
<1>4. \A t \in SUBSET S : t # {} /\ (\A x \in t : t \ {x} \in T) => t \in T
  BY <1>2, <1>3
<1>6. SUBSET S \subseteq T
  BY ONLY <1>1, <1>3, <1>4, SubsetInduction
<1>5. \E x \in s : \A y \in s : x >= y
  BY <1>3, <1>6 DEF T
<1> QED
  BY <1>5 DEF Max

\* Steps along 1 .. n that stay in A.
CanStep(n, A, base, step) ==
  n \in Nat /\ base \in A /\ \A k \in 1 .. n : \A a \in A : step[k][a] \in A

\* A function on sets that takes these steps from each prefix to the next, within A.
StepsOn(n, A, base, step, g) ==
  /\ g[{}] = base
  /\ \A k \in 1 .. n : g[1 .. (k - 1)] \in A => g[1 .. k] = step[k][g[1 .. (k - 1)]]

\* A sequence of these steps, from the base to the last.
StepsTo(f, n, base, step, last) ==
  f[0] = base /\ f[n] = last /\ \A k \in 1 .. n : f[k] = step[k][f[k - 1]]

\* The folds of the prefixes follow from one another, and have the type of the base.
LEMMA FoldOfPrefixes ==
  ASSUME NEW n, NEW A, NEW base, NEW step, CanStep(n, A, base, step),
         NEW g, StepsOn(n, A, base, step, g)
  PROVE  \E f \in [0 .. n -> A] : StepsTo(f, n, base, step, g[1 .. n])
<1>0. /\ n \in Nat /\ base \in A /\ \A k \in 1 .. n : \A a \in A : step[k][a] \in A
      /\ g[{}] = base
      /\ \A k \in 1 .. n : g[1 .. (k - 1)] \in A => g[1 .. k] = step[k][g[1 .. (k - 1)]]
  BY DEF CanStep, StepsOn
<1> USE <1>0
<1> DEFINE f == [k \in 0 .. n |-> g[1 .. k]]
           T == {k \in Nat : k <= n => g[1 .. k] \in A}
<1>1. 0 \in T
  <2>1. 1 .. 0 = {}
    OBVIOUS
  <2> QED
    BY <2>1
<1>2. ASSUME NEW k \in Nat, k \in T PROVE k + 1 \in T
  <2> SUFFICES ASSUME k + 1 <= n PROVE g[1 .. (k + 1)] \in A
    OBVIOUS
  <2>1. PICK j \in 1 .. n : j = k + 1 /\ j - 1 = k
    OBVIOUS
  <2>2. g[1 .. (j - 1)] \in A
    BY <1>2, <2>1
  <2>3. g[1 .. j] \in A
    BY <2>2
  <2> QED
    BY <2>1, <2>3
<1> HIDE DEF T
<1>3. Nat \subseteq T
  BY <1>1, <1>2, SetInduction
<1>4. ASSUME NEW k \in 0 .. n PROVE g[1 .. k] \in A
  <2>1. k \in T
    BY <1>3
  <2> QED
    BY <2>1 DEF T
<1>5. ASSUME NEW k \in 1 .. n PROVE f[k] = step[k][f[k - 1]]
  <2>1. k - 1 \in 0 .. n /\ k \in 0 .. n
    OBVIOUS
  <2>2. g[1 .. k] = step[k][g[1 .. (k - 1)]]
    BY <1>4, <2>1
  <2> QED
    BY <2>1, <2>2
<1>6. f \in [0 .. n -> A]
  BY <1>4
<1>7. f[0] = base
  <2>1. 1 .. 0 = {} /\ 0 \in 0 .. n
    OBVIOUS
  <2> QED
    BY <2>1
<1>8. f[n] = g[1 .. n]
  OBVIOUS
<1> HIDE DEF f
<1>9. StepsTo(f, n, base, step, g[1 .. n])
  BY <1>5, <1>7, <1>8 DEF StepsTo
<1> QED
  BY <1>6, <1>9

\* The fold on sets of indices, which picks the largest.
FoldedOn(g, n, base, step) ==
  g = [s \in SUBSET (1 .. n) |-> IF s = {} THEN base ELSE step[Max(s)][g[s \ {Max(s)}]]]

\* There is a fold that picks the largest index.
LEMMA FoldOnIndices ==
  ASSUME NEW n, NEW A, NEW base, NEW step, CanStep(n, A, base, step)
  PROVE  \E g \in [SUBSET (1 .. n) -> A] : FoldedOn(g, n, base, step)
<1>1. PICK S : S = 1 .. n /\ IsFiniteSet(S)
  BY FS_Interval DEF CanStep
<1>2. PICK pick : pick = [s \in SUBSET S |-> Max(s)]
  OBVIOUS
<1>3. \A s \in SUBSET S : s # {} => pick[s] \in s
  BY <1>1, <1>2, LargestIsIn DEF CanStep
<1>4. CanFold(S, A, base, pick, step)
  BY <1>1, <1>3 DEF CanFold, CanStep
<1>5. PICK g \in [SUBSET S -> A] : Folded(g, SUBSET S, base, pick, step)
  BY <1>4, FoldExists
<1>6. g = [s \in SUBSET S |-> IF s = {} THEN base ELSE step[pick[s]][g[s \ {pick[s]}]]]
  BY <1>5 DEF Folded
<1>7. g = [s \in SUBSET S |-> IF s = {} THEN base ELSE step[Max(s)][g[s \ {Max(s)}]]]
  BY <1>2, <1>6
<1> QED
  BY <1>1, <1>7 DEF FoldedOn

-----------------------------------------------------------------------------
(* What sumarize adds up, transaction after transaction.                    *)

\* SummaryInfo.
InfoSet ==
  [total : Nat, count : Nat, highest : Nat, categories : [Categories -> Nat]]

\* The switch on the type.
Counted(info, r, type) == IF table[r].type = type THEN Add(info, r) ELSE info

LEMMA AddKeepsInfo ==
  ASSUME AmountsAssumption, NEW info \in InfoSet, NEW r, table[r] \in Values
  PROVE  Add(info, r) \in InfoSet
<1>1. PICK v \in Values : v = table[r]
  OBVIOUS
<1>2. v.amount \in Nat /\ v.category \in Categories
  BY DEF AmountsAssumption, Categories
<1>3. /\ info.total \in Nat /\ info.count \in Nat /\ info.highest \in Nat
      /\ info.categories \in [Categories -> Nat]
  BY DEF InfoSet
<1>4. [info.categories EXCEPT ![v.category] = @ + v.amount] \in [Categories -> Nat]
  BY <1>2, <1>3
<1>5. Add(info, r) =
        [total |-> info.total + v.amount, count |-> info.count + 1,
         highest |-> IF info.highest < v.amount THEN v.amount ELSE info.highest,
         categories |-> [info.categories EXCEPT ![v.category] = @ + v.amount]]
  BY <1>1 DEF Add
<1> QED
  BY <1>2, <1>3, <1>4, <1>5 DEF InfoSet

LEMMA InfoSteps ==
  ASSUME AmountsAssumption, NEW list \in Seq(Rows), NEW type,
         \A k \in 1 .. Len(list) : table[list[k]] \in Values
  PROVE  \E f \in [0 .. Len(list) -> InfoSet] :
           /\ f[0] = NewSummaryInfo /\ f[Len(list)] = Info(list, type)
           /\ \A k \in 1 .. Len(list) : f[k] = Counted(f[k - 1], list[k], type)
<1>1. PICK n \in Nat : n = Len(list) /\ DOMAIN list = 1 .. n
  OBVIOUS
<1>2. PICK step : step = [k \in 1 .. n |-> [a \in InfoSet |-> Counted(a, list[k], type)]]
  OBVIOUS
<1>3. NewSummaryInfo \in InfoSet
  BY DEF NewSummaryInfo, InfoSet
<1>4. ASSUME NEW k \in 1 .. n, NEW a \in InfoSet
      PROVE  step[k][a] \in InfoSet /\ step[k][a] = Counted(a, list[k], type)
  BY <1>1, <1>2, AddKeepsInfo DEF Counted
<1> DEFINE IsFold(g) ==
             g = [s \in SUBSET (1 .. n) |->
                    IF s = {} THEN NewSummaryInfo
                    ELSE Counted(g[s \ {Max(s)}], list[Max(s)], type)]
<1>5. \E g : IsFold(g)
  <2>1. PICK g \in [SUBSET (1 .. n) -> InfoSet] : FoldedOn(g, n, NewSummaryInfo, step)
    <3>1. CanStep(n, InfoSet, NewSummaryInfo, step)
      BY <1>3, <1>4 DEF CanStep
    <3> QED
      BY <3>1, FoldOnIndices
  <2>2. ASSUME NEW s \in SUBSET (1 .. n), s # {}
        PROVE  step[Max(s)][g[s \ {Max(s)}]] = Counted(g[s \ {Max(s)}], list[Max(s)], type)
    BY <1>4, <2>1, <2>2, LargestIsIn
  <2>3. IsFold(g)
    BY <2>1, <2>2 DEF FoldedOn
  <2> QED
    BY <2>3
<1>6. Info(list, type) = (CHOOSE g : IsFold(g))[1 .. n]
  BY <1>1 DEF Info, FoldLeft, MapThenFoldSet, Counted
<1>7. PICK g : IsFold(g) /\ Info(list, type) = g[1 .. n]
  BY <1>5, <1>6
<1>8. g[{}] = NewSummaryInfo
  BY <1>7
<1>9. ASSUME NEW k \in 1 .. n, g[1 .. (k - 1)] \in InfoSet
      PROVE  g[1 .. k] = step[k][g[1 .. (k - 1)]]
  <2>1. 1 .. k \in SUBSET (1 .. n) /\ 1 .. k # {}
    <3>1. k \in 1 .. k /\ \A j \in 1 .. k : j \in 1 .. n
      OBVIOUS
    <3> QED
      BY <3>1
  <2>2. Max(1 .. k) = k /\ (1 .. k) \ {k} = 1 .. (k - 1)
    BY LargestOfPrefix
  <2>3. g[1 .. k] = Counted(g[(1 .. k) \ {Max(1 .. k)}], list[Max(1 .. k)], type)
    BY <1>7, <2>1
  <2> QED
    BY <1>4, <1>9, <2>2, <2>3
<1> HIDE DEF IsFold
<1>10. PICK f \in [0 .. n -> InfoSet] : StepsTo(f, n, NewSummaryInfo, step, g[1 .. n])
  <2>1. CanStep(n, InfoSet, NewSummaryInfo, step)
    BY <1>3, <1>4 DEF CanStep
  <2>2. StepsOn(n, InfoSet, NewSummaryInfo, step, g)
    BY <1>8, <1>9 DEF StepsOn
  <2> QED
    BY <2>1, <2>2, FoldOfPrefixes
<1>11. ASSUME NEW k \in 1 .. n PROVE f[k] = Counted(f[k - 1], list[k], type)
  <2>1. f[k - 1] \in InfoSet
    OBVIOUS
  <2> QED
    BY <1>4, <1>10, <2>1 DEF StepsTo
<1> QED
  BY <1>1, <1>7, <1>10, <1>11 DEF StepsTo

\* The summaries of one kind, of the list up to each of its rows.
SummariesOf(f, list, type) ==
  /\ f \in [0 .. Len(list) -> InfoSet]
  /\ f[0] = NewSummaryInfo /\ f[Len(list)] = Info(list, type)
  /\ \A k \in 1 .. Len(list) : f[k] = Counted(f[k - 1], list[k], type)

\* The categories make up the total, and no amount is above its category.
AddsUp(info) ==
  /\ SumFunction(info.categories) = info.total
  /\ info.highest = 0 \/ \E c \in Categories : info.highest <= info.categories[c]

LEMMA AddAddsUp ==
  ASSUME AmountsAssumption, NEW info \in InfoSet, AddsUp(info), NEW r, table[r] \in Values
  PROVE  AddsUp(Add(info, r))
<1>1. PICK v \in Values : v = table[r]
  OBVIOUS
<1>2. v.amount \in Nat /\ v.category \in Categories /\ IsFiniteSet(Categories)
  BY DEF AmountsAssumption, Categories
<1>3. PICK old \in [Categories -> Nat] : old = info.categories
  BY DEF InfoSet
<1>4. PICK new \in [Categories -> Nat] : new = [old EXCEPT ![v.category] = @ + v.amount]
  <2>1. [old EXCEPT ![v.category] = @ + v.amount] \in [Categories -> Nat]
    BY <1>2
  <2> QED
    BY <2>1
<1>5. PICK high \in Nat : high = info.highest
  BY DEF InfoSet
<1>6. PICK sum : sum = Add(info, r)
  OBVIOUS
<1>7. /\ sum.total = info.total + v.amount /\ sum.categories = new
      /\ sum.highest = IF high < v.amount THEN v.amount ELSE high
  BY <1>1, <1>3, <1>4, <1>5, <1>6 DEF Add
<1>8. /\ new[v.category] = old[v.category] + v.amount
      /\ \A c \in Categories \ {v.category} : new[c] = old[c]
  BY <1>2, <1>4
<1>9. SumFunction(new) = SumFunction(old) + v.amount
  <2>1. old \in [Categories -> Int] /\ new \in [Categories -> Int] /\ v.amount \in Int
    BY <1>2
  <2>2. OneGrows(Categories, old, new, v.category, v.amount)
    BY <1>2, <1>8, <2>1 DEF OneGrows
  <2> QED
    BY <2>2, SumGrows
<1>10. SumFunction(old) = info.total
  BY <1>3 DEF AddsUp
<1>11. sum.highest = 0 \/ \E c \in Categories : sum.highest <= new[c]
  <2>1. \A c \in Categories : old[c] \in Nat /\ new[c] \in Nat /\ old[c] <= new[c]
    BY <1>2, <1>8
  <2>2. CASE high < v.amount
    <3>1. v.amount <= new[v.category]
      BY <1>2, <1>8
    <3> QED
      BY <1>2, <1>7, <2>2, <3>1
  <2>3. CASE ~(high < v.amount)
    <3>1. high = 0 \/ \E c \in Categories : high <= old[c]
      BY <1>3, <1>5 DEF AddsUp
    <3>2. high = 0 \/ \E c \in Categories : high <= new[c]
      BY <2>1, <3>1
    <3> QED
      BY <1>7, <2>3, <3>2
  <2> QED
    BY <2>2, <2>3
<1> QED
  BY <1>6, <1>7, <1>9, <1>10, <1>11 DEF AddsUp

LEMMA NothingAddsUp ==
  ASSUME AmountsAssumption
  PROVE  NewSummaryInfo \in InfoSet /\ AddsUp(NewSummaryInfo)
<1>1. PICK zeros \in [Categories -> Nat] :
        zeros = [c \in Categories |-> 0] /\ \A c \in Categories : zeros[c] = 0
  <2>1. [c \in Categories |-> 0] \in [Categories -> Nat]
    OBVIOUS
  <2> QED
    BY <2>1
<1>2. SumFunction(zeros) = 0
  <2>1. zeros \in [Categories -> Int] /\ IsFiniteSet(Categories)
    BY DEF AmountsAssumption
  <2> QED
    BY <1>1, <2>1, SumOfZeros
<1> QED
  BY <1>1, <1>2 DEF NewSummaryInfo, InfoSet, AddsUp

\* A summary adds up: the categories the total, and no amount is above its category.
LEMMA InfoAddsUp ==
  ASSUME AmountsAssumption, NEW list \in Seq(Rows), NEW type,
         \A k \in 1 .. Len(list) : table[list[k]] \in Values
  PROVE  Info(list, type) \in InfoSet /\ AddsUp(Info(list, type))
<1>1. PICK f : SummariesOf(f, list, type)
  BY InfoSteps DEF SummariesOf
<1>2. PICK n \in Nat : n = Len(list)
  OBVIOUS
<1>3. /\ f \in [0 .. n -> InfoSet] /\ f[0] = NewSummaryInfo /\ f[n] = Info(list, type)
      /\ \A k \in 1 .. n : f[k] = Counted(f[k - 1], list[k], type)
  BY <1>1, <1>2 DEF SummariesOf
<1> DEFINE T == {k \in Nat : k <= n => AddsUp(f[k])}
<1>4. 0 \in T
  BY <1>3, NothingAddsUp
<1>5. ASSUME NEW k \in Nat, k \in T PROVE k + 1 \in T
  <2> SUFFICES ASSUME k + 1 <= n PROVE AddsUp(f[k + 1])
    OBVIOUS
  <2>1. PICK j \in 1 .. n : j = k + 1 /\ j - 1 = k
    OBVIOUS
  <2>2. f[k] \in InfoSet /\ AddsUp(f[k])
    BY <1>3, <1>5
  <2>3. f[j] = Counted(f[k], list[j], type) /\ table[list[j]] \in Values
    BY <1>2, <1>3, <2>1
  <2>4. AddsUp(Counted(f[k], list[j], type))
    BY <2>2, <2>3, AddAddsUp DEF Counted
  <2> QED
    BY <2>1, <2>3, <2>4
<1> HIDE DEF T
<1>6. Nat \subseteq T
  BY <1>4, <1>5, SetInduction
<1>7. n \in T
  BY <1>6
<1> QED
  BY <1>3, <1>7 DEF T

\* The kinds make up the list: each of its rows counts for one of them.
LEMMA CountsAddUp ==
  ASSUME AmountsAssumption, NEW list \in Seq(Rows),
         \A k \in 1 .. Len(list) : table[list[k]] \in Values
  PROVE  SumFunction([kind \in Types |-> Info(list, kind).count]) = Len(list)
<1>1. PICK n \in Nat : n = Len(list)
  OBVIOUS
<1>2. \A kind \in Types : \E f : SummariesOf(f, list, kind)
  BY InfoSteps DEF SummariesOf
<1>3. PICK F : F = [kind \in Types |-> CHOOSE f : SummariesOf(f, list, kind)]
  OBVIOUS
<1>4. \A kind \in Types : SummariesOf(F[kind], list, kind)
  BY <1>2, <1>3
<1> DEFINE counts(k) == [kind \in Types |-> F[kind][k].count]
           T == {k \in Nat : k <= n => SumFunction(counts(k)) = k}
<1>5. ASSUME NEW kind \in Types, NEW k \in 0 .. n
      PROVE  F[kind][k] \in InfoSet /\ F[kind][k].count \in Nat
  <2>1. F[kind][k] \in InfoSet
    BY <1>1, <1>4 DEF SummariesOf
  <2> QED
    BY <2>1 DEF InfoSet
<1>6. IsFiniteSet(Types)
  BY DEF AmountsAssumption
<1>7. 0 \in T
  <2>1. \A kind \in Types : F[kind][0].count = 0
    BY <1>4 DEF SummariesOf, NewSummaryInfo
  <2>2. PICK zeros : zeros = counts(0)
    OBVIOUS
  <2>3. zeros \in [Types -> Int] /\ \A kind \in Types : zeros[kind] = 0
    BY <2>1, <2>2
  <2>4. SumFunction(zeros) = 0
    BY <1>6, <2>3, SumOfZeros
  <2> QED
    BY <2>2, <2>4
<1>8. ASSUME NEW k \in Nat, k \in T PROVE k + 1 \in T
  <2> SUFFICES ASSUME k + 1 <= n PROVE SumFunction(counts(k + 1)) = k + 1
    OBVIOUS
  <2>1. PICK j \in 1 .. n : j = k + 1 /\ j - 1 = k
    OBVIOUS
  <2>2. PICK row : row = list[j] /\ table[row] \in Values
    BY <1>1
  <2>3. PICK own \in Types : own = table[row].type
    BY <2>2 DEF Types
  <2>4. PICK old : old = counts(k)
    OBVIOUS
  <2>5. PICK new : new = counts(j)
    OBVIOUS
  <2>6. old \in [Types -> Int] /\ new \in [Types -> Int]
    BY <1>5, <2>1, <2>4, <2>5
  <2>7. ASSUME NEW kind \in Types
        PROVE  new[kind] = IF kind = own THEN old[kind] + 1 ELSE old[kind]
    <3>1. F[kind][j] = Counted(F[kind][k], row, kind)
      BY <1>1, <1>4, <2>1, <2>2 DEF SummariesOf
    <3>2. Add(F[kind][k], row).count = F[kind][k].count + 1
      BY DEF Add
    <3> QED
      BY <2>3, <2>4, <2>5, <3>1, <3>2 DEF Counted
  <2>8. new[own] = old[own] + 1 /\ \A x \in Types \ {own} : new[x] = old[x]
    BY <2>7
  <2>9. SumFunction(new) = SumFunction(old) + 1
    <3>1. OneGrows(Types, old, new, own, 1)
      BY <1>6, <2>6, <2>8 DEF OneGrows
    <3> QED
      BY <3>1, SumGrows
  <2>10. SumFunction(old) = k
    BY <1>8, <2>4
  <2> QED
    BY <2>1, <2>5, <2>9, <2>10
<1> HIDE DEF T
<1>9. Nat \subseteq T
  BY <1>7, <1>8, SetInduction
<1>10. SumFunction(counts(n)) = n
  <2>1. n \in T
    BY <1>9
  <2> QED
    BY <2>1 DEF T
<1>11. \A kind \in Types : F[kind][n] = Info(list, kind)
  BY <1>1, <1>4 DEF SummariesOf
<1>12. counts(n) = [kind \in Types |-> Info(list, kind).count]
  BY <1>11
<1> QED
  BY <1>1, <1>10, <1>12

\* GetTopTransaction's choice, category after category.
Tops == [category : SUBSET Categories, total : Nat]

Raised(top, categories, c) ==
  IF top.total < categories[c] THEN [category |-> {c}, total |-> categories[c]] ELSE top

NoTop == [category |-> {}, total |-> 0]

LEMMA TopSteps ==
  ASSUME NEW info \in InfoSet, NEW n \in Nat, NEW order \in [1 .. n -> Categories]
  PROVE  \E f \in [0 .. n -> Tops] :
           /\ f[0] = NoTop /\ f[n] = TopOf(info, order)
           /\ \A k \in 1 .. n : f[k] = Raised(f[k - 1], info.categories, order[k])
<1>1. PICK categories \in [Categories -> Nat] : categories = info.categories
  BY DEF InfoSet
<1>2. PICK step : step = [k \in 1 .. n |-> [a \in Tops |-> Raised(a, categories, order[k])]]
  OBVIOUS
<1>3. NoTop \in Tops
  BY DEF NoTop, Tops
<1>4. ASSUME NEW k \in 1 .. n, NEW a \in Tops
      PROVE  step[k][a] \in Tops /\ step[k][a] = Raised(a, categories, order[k])
  <2>1. order[k] \in Categories /\ categories[order[k]] \in Nat
    OBVIOUS
  <2>2. [category |-> {order[k]}, total |-> categories[order[k]]] \in Tops
    BY <2>1 DEF Tops
  <2>3. Raised(a, categories, order[k]) \in Tops
    BY <2>2 DEF Raised
  <2> QED
    BY <1>2, <2>3
<1> DEFINE IsFold(g) ==
             g = [s \in SUBSET (1 .. n) |->
                    IF s = {} THEN NoTop
                    ELSE Raised(g[s \ {Max(s)}], categories, order[Max(s)])]
<1>5. \E g : IsFold(g)
  <2>1. PICK g \in [SUBSET (1 .. n) -> Tops] : FoldedOn(g, n, NoTop, step)
    <3>1. CanStep(n, Tops, NoTop, step)
      BY <1>3, <1>4 DEF CanStep
    <3> QED
      BY <3>1, FoldOnIndices
  <2>2. ASSUME NEW s \in SUBSET (1 .. n), s # {}
        PROVE  step[Max(s)][g[s \ {Max(s)}]]
                 = Raised(g[s \ {Max(s)}], categories, order[Max(s)])
    BY <1>4, <2>1, <2>2, LargestIsIn
  <2>3. IsFold(g)
    BY <2>1, <2>2 DEF FoldedOn
  <2> QED
    BY <2>3
<1>6. TopOf(info, order) = (CHOOSE g : IsFold(g))[1 .. n]
  <2>1. DOMAIN order = 1 .. n
    OBVIOUS
  <2> QED
    BY <1>1, <2>1 DEF TopOf, FoldLeft, MapThenFoldSet, Raised, NoTop
<1>7. PICK g : IsFold(g) /\ TopOf(info, order) = g[1 .. n]
  BY <1>5, <1>6
<1>8. g[{}] = NoTop
  BY <1>7
<1>9. ASSUME NEW k \in 1 .. n, g[1 .. (k - 1)] \in Tops
      PROVE  g[1 .. k] = step[k][g[1 .. (k - 1)]]
  <2>1. 1 .. k \in SUBSET (1 .. n) /\ 1 .. k # {}
    <3>1. k \in 1 .. k /\ \A j \in 1 .. k : j \in 1 .. n
      OBVIOUS
    <3> QED
      BY <3>1
  <2>2. Max(1 .. k) = k /\ (1 .. k) \ {k} = 1 .. (k - 1)
    BY LargestOfPrefix
  <2>3. g[1 .. k] = Raised(g[(1 .. k) \ {Max(1 .. k)}], categories, order[Max(1 .. k)])
    BY <1>7, <2>1
  <2> QED
    BY <1>4, <1>9, <2>2, <2>3
<1> HIDE DEF IsFold
<1>10. PICK f \in [0 .. n -> Tops] : StepsTo(f, n, NoTop, step, g[1 .. n])
  <2>1. CanStep(n, Tops, NoTop, step)
    BY <1>3, <1>4 DEF CanStep
  <2>2. StepsOn(n, Tops, NoTop, step, g)
    BY <1>8, <1>9 DEF StepsOn
  <2> QED
    BY <2>1, <2>2, FoldOfPrefixes
<1>11. ASSUME NEW k \in 1 .. n PROVE f[k] = Raised(f[k - 1], categories, order[k])
  <2>1. f[k - 1] \in Tops
    OBVIOUS
  <2> QED
    BY <1>4, <1>10, <2>1 DEF StepsTo
<1> QED
  BY <1>1, <1>7, <1>10, <1>11 DEF StepsTo

\* Any order of the categories passes each of them.
LEMMA OrderCovers ==
  ASSUME AmountsAssumption, NEW order \in Orders
  PROVE  \E n \in Nat : /\ order \in [1 .. n -> Categories]
                        /\ \A c \in Categories : \E j \in 1 .. n : order[j] = c
<1>1. PICK n \in Nat : n = Cardinality(Categories)
  BY FS_CardinalityType DEF AmountsAssumption
<1>2. /\ order \in [1 .. n -> Categories]
      /\ \A i, j \in 1 .. n : i # j => order[i] # order[j]
  BY <1>1 DEF Orders, SetToSeqs
<1>3. order \in Injection(1 .. n, Categories)
  BY <1>2 DEF Injection, IsInjective
<1>4. Cardinality(1 .. n) = n
  BY FS_Interval
<1>5. order \in Surjection(1 .. n, Categories)
  BY <1>1, <1>3, <1>4, FS_Injection DEF AmountsAssumption
<1> QED
  BY <1>2, <1>5 DEF Surjection

\* The top so far: none of the categories passed has more, and it has an amount.
TopOK(top, categories, order, k) ==
  /\ \A j \in 1 .. k : categories[order[j]] <= top.total
  /\ top.category = {} => top.total = 0
  /\ \A c \in top.category : categories[c] = top.total /\ top.total > 0

LEMMA TopOfIsTop ==
  ASSUME NEW info \in InfoSet, NEW n \in Nat, NEW order \in [1 .. n -> Categories],
         NEW top, top = TopOf(info, order)
  PROVE  top \in Tops /\ TopOK(top, info.categories, order, n)
<1>1. PICK categories \in [Categories -> Nat] : categories = info.categories
  BY DEF InfoSet
<1>2. PICK f \in [0 .. n -> Tops] :
        /\ f[0] = NoTop /\ f[n] = top
        /\ \A k \in 1 .. n : f[k] = Raised(f[k - 1], categories, order[k])
  BY <1>1, TopSteps
<1> DEFINE T == {k \in Nat : k <= n => TopOK(f[k], categories, order, k)}
<1>3. 0 \in T
  BY <1>2 DEF TopOK, NoTop
<1>4. ASSUME NEW k \in Nat, k \in T PROVE k + 1 \in T
  <2> SUFFICES ASSUME k + 1 <= n PROVE TopOK(f[k + 1], categories, order, k + 1)
    OBVIOUS
  <2>1. PICK i \in 1 .. n : i = k + 1 /\ i - 1 = k
    OBVIOUS
  <2>2. PICK old \in Tops : old = f[k]
    OBVIOUS
  <2>3. PICK new \in Tops : new = f[i]
    OBVIOUS
  <2>4. new = Raised(old, categories, order[i])
    BY <1>2, <2>1, <2>2, <2>3
  <2>5. TopOK(old, categories, order, k)
    BY <1>4, <2>2
  <2>6. old.total \in Nat /\ order[i] \in Categories /\ categories[order[i]] \in Nat
    BY DEF Tops
  <2>7. \A j \in 1 .. i : j = i \/ j \in 1 .. k
    BY <2>1
  <2>8. \A j \in 1 .. k : order[j] \in Categories /\ categories[order[j]] \in Nat
    BY <2>1
  <2>9. CASE old.total < categories[order[i]]
    <3>1. new.category = {order[i]} /\ new.total = categories[order[i]]
      BY <2>4, <2>9 DEF Raised
    <3>2. \A j \in 1 .. k : categories[order[j]] <= old.total
      BY <2>5 DEF TopOK
    <3>3. \A j \in 1 .. k : categories[order[j]] <= new.total
      BY <2>6, <2>8, <2>9, <3>1, <3>2
    <3>5. \A j \in 1 .. i : categories[order[j]] <= new.total
      BY <2>6, <2>7, <3>1, <3>3
    <3>6. new.total > 0
      BY <2>6, <2>9, <3>1
    <3>7. new.category # {} /\ \A c \in new.category : categories[c] = new.total
      BY <3>1
    <3>4. TopOK(new, categories, order, i)
      BY <3>5, <3>6, <3>7 DEF TopOK
    <3> QED
      BY <2>1, <2>3, <3>4
  <2>10. CASE ~(old.total < categories[order[i]])
    <3>1. new = old
      BY <2>4, <2>10 DEF Raised
    <3>2. TopOK(new, categories, order, i)
      BY <2>5, <2>6, <2>7, <2>10, <3>1, SMTT(30) DEF TopOK
    <3> QED
      BY <2>1, <2>3, <3>2
  <2> QED
    BY <2>9, <2>10
<1> HIDE DEF T
<1>5. Nat \subseteq T
  BY <1>3, <1>4, SetInduction
<1>6. TopOK(f[n], categories, order, n)
  <2>1. n \in T
    BY <1>5
  <2> QED
    BY <2>1 DEF T
<1>7. f[n] \in Tops
  OBVIOUS
<1> QED
  BY <1>1, <1>2, <1>6, <1>7

\* What is on top of a summary that adds up.
TopBalanced(info, top) ==
  /\ SumFunction(info.categories) = info.total
  /\ info.highest <= top.total /\ top.total <= info.total
  /\ \A c \in Categories : info.categories[c] <= top.total
  /\ \A c \in top.category : info.categories[c] = top.total
  /\ top.category = {} <=> info.total = 0

LEMMA TopBalances ==
  ASSUME AmountsAssumption, NEW info \in InfoSet, AddsUp(info), NEW order \in Orders,
         NEW top, top = TopOf(info, order)
  PROVE  TopBalanced(info, top)
<1>1. PICK categories \in [Categories -> Nat] : categories = info.categories
  BY DEF InfoSet
<1>2. PICK total \in Nat : total = info.total
  BY DEF InfoSet
<1>3. PICK highest \in Nat : highest = info.highest
  BY DEF InfoSet
<1>4. PICK n \in Nat : /\ order \in [1 .. n -> Categories]
                       /\ \A c \in Categories : \E j \in 1 .. n : order[j] = c
  BY OrderCovers
<1>5. top \in Tops /\ TopOK(top, categories, order, n)
  BY <1>1, <1>4, TopOfIsTop
<1>6. PICK most \in Nat : most = top.total
  BY <1>5 DEF Tops
<1>7. top.category \subseteq Categories
  BY <1>5 DEF Tops
<1>8. \A c \in Categories : categories[c] \in Nat /\ categories[c] <= most
  BY <1>4, <1>5, <1>6 DEF TopOK
<1>9. \A c \in top.category : categories[c] = most /\ most > 0
  BY <1>5, <1>6 DEF TopOK
<1>10. top.category = {} => most = 0
  BY <1>5, <1>6 DEF TopOK
<1>11. SumFunction(categories) = total
  BY <1>1, <1>2 DEF AddsUp
<1>12. \A c \in Categories : categories[c] <= total
  BY <1>11, SumBounds DEF AmountsAssumption
<1>13. most <= total
  <2>1. CASE top.category = {}
    BY <1>10, <2>1
  <2>2. CASE top.category # {}
    BY <1>7, <1>9, <1>12, <2>2
  <2> QED
    BY <2>1, <2>2
<1>14. highest <= most
  <2>1. highest = 0 \/ \E c \in Categories : highest <= categories[c]
    BY <1>1, <1>3 DEF AddsUp
  <2> QED
    BY <1>8, <2>1
<1>15. ASSUME top.category = {} PROVE total = 0
  <2>1. \A c \in Categories : categories[c] = 0
    BY <1>8, <1>10, <1>15
  <2>2. categories \in [Categories -> Int] /\ IsFiniteSet(Categories)
    BY DEF AmountsAssumption
  <2> QED
    BY <1>11, <2>1, <2>2, SumOfZeros
<1>16. ASSUME top.category # {} PROVE total # 0
  <2>1. PICK c \in top.category : TRUE
    BY <1>16
  <2> QED
    BY <1>9, <1>13, <2>1
<1> QED
  BY <1>1, <1>2, <1>3, <1>6, <1>8, <1>9, <1>11, <1>13, <1>14, <1>15, <1>16
     DEF TopBalanced

\* The summaries of both kinds of a list, in any order of the categories.
Balanced(list) ==
  /\ SumFunction([kind \in Types |-> Info(list, kind).count]) = Len(list)
  /\ \A kind \in Types : \A order \in Orders :
       TopBalanced(Info(list, kind), TopOf(Info(list, kind), order))

LEMMA ListBalances ==
  ASSUME AmountsAssumption, NEW list \in Seq(Rows),
         \A k \in 1 .. Len(list) : table[list[k]] \in Values
  PROVE  Balanced(list)
<1>1. SumFunction([kind \in Types |-> Info(list, kind).count]) = Len(list)
  BY CountsAddUp
<1>2. ASSUME NEW kind \in Types, NEW order \in Orders,
             NEW info, info = Info(list, kind), NEW top, top = TopOf(info, order)
      PROVE  TopBalanced(info, top)
  <2>1. info \in InfoSet
    BY <1>2, InfoAddsUp
  <2>2. AddsUp(info)
    BY <1>2, InfoAddsUp
  <2> QED
    BY <1>2, <2>1, <2>2, TopBalances
<1> QED
  BY <1>1, <1>2 DEF Balanced

\* Every summary balances, over any table.
LEMMA Balances ==
  ASSUME AmountsAssumption, TableInv, NEW u, NEW query, NEW list,
         list = Page(Listed(u, query), -1, 0)
  PROVE  Balanced(list)
<1>1. PICK all : all = Listed(u, query)
  OBVIOUS
<1>2. /\ all \in Seq(Rows) /\ DOMAIN all = 1 .. Len(all)
      /\ \A k \in DOMAIN all : all[k] \in Found(u, query)
  BY <1>1, ListedFacts DEF ListInOrder
<1>3. /\ list \in Seq(Rows)
      /\ \A k \in DOMAIN list : \E l \in DOMAIN all : list[k] = all[l]
  <2>1. PICK limit \in Int, offset \in Int : limit = -1 /\ offset = 0
    OBVIOUS
  <2>2. list = Page(all, limit, offset)
    BY <1>1, <2>1
  <2>3. all \in Seq(Rows)
    BY <1>2
  <2> QED
    BY ONLY <2>2, <2>3, PageFacts, limit \in Int, offset \in Int
<1>4. ASSUME NEW k \in 1 .. Len(list) PROVE table[list[k]] \in Values
  <2>1. k \in DOMAIN list
    BY <1>3, LenProperties
  <2>2. list[k] \in Found(u, query)
    BY <1>2, <1>3, <2>1
  <2>3. list[k] \in Rows /\ table[list[k]] # NoRow
    BY <2>2 DEF Found, Matches
  <2> QED
    BY <2>3 DEF TableInv
<1> QED
  BY <1>3, <1>4, ListBalances

\* What a summary reports adds up in every state: both kinds of a period make up its list,
\* the categories the total, and the category on top is one that has the most
\* (get_summary.go).
THEOREM SummariesBalance == Spec => []SummaryBalances
<1>1. TableInv => SummaryBalances
  <2> SUFFICES ASSUME TableInv, NEW u \in Users, NEW from \in {v.date : v \in Values},
                      NEW to \in {v.date : v \in Values}, NEW type \in Types \cup {""},
                      from <= to
               PROVE  Balanced(Page(Listed(u, Period(from, to, type)), -1, 0))
    BY DEF SummaryBalances, Balanced, TopBalanced
  <2> QED
    BY Balances, AmountsAssumption
<1> QED
  BY <1>1, InitTable, TableStep, PTL DEF Spec
=============================================================================
