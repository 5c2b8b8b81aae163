----------------------------- MODULE McpServer -----------------------------
(***************************************************************************)
(* The MCP server: a process of its own, over the same database.  A client *)
(* carries a token that its user got in the chat, and reads the list of    *)
(* transactions page by page; each request is authenticated anew           *)
(* (infra/delivery/mcp, usecase/integration, get_transaction_list.go).     *)
(* Users are never deleted, so looking them up again finds them.           *)
(***************************************************************************)
EXTENDS TransactionList

CONSTANTS Clients,       \* the clients of the MCP server
          MaxTokens,     \* bound: how many tokens are issued
          McpSpan,       \* a period of the server is no longer than this
          DefaultLimit,  \* rows in a page, unless the client says
          MaxLimit,      \* rows in a page, whatever the client says
          Limits,        \* limits that clients ask for
          Offsets,       \* offsets that they begin to read at
          Queries        \* the periods and types that they ask for

ASSUME LimitsAssumption ==
  /\ DefaultLimit \in Nat \ {0} /\ MaxLimit \in Nat \ {0}
  /\ Limits \subseteq Int /\ Offsets \subseteq Int

VARIABLES
  tokens,   \* the table of tokens: those that are there
  issued,   \* history: issued[k] is the user that token k was made for
  request,  \* the request of each client
  got       \* history: the rows a client got by following has_more

mcpVars == <<tokens, issued, request, got>>

Idle == [phase |-> "idle"]

McpInit ==
  /\ tokens = {}
  /\ issued = <<>>
  /\ request = [c \in Clients |-> Idle]
  /\ got = [c \in Clients |-> <<>>]

OfUser(u) == {t \in tokens : issued[t] = u}

\* Broken variant: a new token is added to the old one.
IssueBeside(u) ==
  /\ Len(issued) < MaxTokens
  /\ issued' = Append(issued, u)
  /\ tokens' = tokens \cup {Len(issued) + 1}
  /\ UNCHANGED <<request, got, tableVars>>

\* GenerateMCPToken: in a private chat, a new token replaces the one of the user.
Issue(u) ==
  /\ Len(issued) < MaxTokens
  /\ issued' = Append(issued, u)
  /\ tokens' = (tokens \ OfUser(u)) \cup {Len(issued) + 1}
  /\ UNCHANGED <<request, got, tableVars>>

Clamped(limit) ==
  IF limit <= 0 THEN DefaultLimit ELSE IF limit > MaxLimit THEN MaxLimit ELSE limit

\* A client sends a request with a token that a user gave to it; first, a history, is the
\* offset it began to read at.
Call(c, token, query, limit, first, offset) ==
  /\ request[c].phase \in {"idle", "served"}
  /\ request' = [request EXCEPT ![c] =
       [phase |-> "sent", token |-> token, query |-> query, limit |-> limit,
        first |-> first, offset |-> offset, more |-> FALSE, rows |-> <<>>, user |-> issued[token],
        revoked |-> \E later \in DOMAIN issued :
                      later > token /\ issued[later] = issued[token]]]
  /\ UNCHANGED <<tokens, issued, got, tableVars>>

\* "call again with offset = offset + limit", when more is promised.
CallAgain(c) ==
  /\ request[c].phase = "served" /\ request[c].more
  /\ LET r == request[c]
     IN Call(c, r.token, r.query, r.limit, r.first, r.offset + Clamped(r.limit))

FindByHash(token) == tokens \cap {token}

\* AuthenticateMCPToken: the user of the token, if the table has it.
Verified(token) == {issued[t] : t \in FindByHash(token)}

\* tokenVerifier: the request goes on as the user of its token, or is refused.
Authenticate(c) ==
  /\ request[c].phase = "sent"
  /\ \/ \E u \in Verified(request[c].token) :
          request' = [request EXCEPT ![c].phase = "authenticated", ![c].user = u]
     \/ /\ Verified(request[c].token) = {}
        /\ request' = [request EXCEPT ![c] = Idle]
  /\ UNCHANGED <<tokens, issued, got, tableVars>>

\* GetTransactionList refuses a period that is turned round or too long, and a negative
\* offset.
Valid(query, offset) ==
  query.from <= query.to /\ query.to <= query.from + McpSpan /\ offset >= 0

\* Broken variant: more is promised whenever the page is full.
HasMoreIfFull(offset, rows, total, limit) == Len(rows) = limit

HasMore(offset, rows, total, limit) == offset + Len(rows) < total

\* The tool answers with a page.
Serve(c) ==
  LET r == request[c]
      list == Listed(r.user, r.query)
      rows == Page(list, Clamped(r.limit), r.offset)
  IN
  /\ r.phase = "authenticated"
  /\ Valid(r.query, r.offset)
  /\ request' = [request EXCEPT ![c].phase = "served", ![c].rows = rows,
       ![c].more = HasMore(r.offset, rows, TotalWith(list, rows), Clamped(r.limit))]
  /\ got' = [got EXCEPT ![c] = IF r.offset = r.first THEN rows ELSE @ \o rows]
  /\ IF r.offset = r.first THEN Begin(c) ELSE UNCHANGED calm
  /\ UNCHANGED <<tokens, issued, table, writes>>

\* The request is refused, or fails on the way.
Fail(c) ==
  /\ request[c].phase \in {"sent", "authenticated"}
  /\ request' = [request EXCEPT ![c] = Idle]
  /\ UNCHANGED <<tokens, issued, got, tableVars>>

McpNext ==
  \/ \E u \in Users : Issue(u)
  \/ \E c \in Clients :
       \/ CallAgain(c) \/ Authenticate(c) \/ Serve(c) \/ Fail(c)
       \/ \E token \in DOMAIN issued, query \in Queries, limit \in Limits,
             first \in Offsets :
            Call(c, token, query, limit, first, first)

-----------------------------------------------------------------------------

McpTypeOK ==
  /\ tokens \subseteq DOMAIN issued
  /\ issued \in Seq(Users)
  /\ \A c \in Clients :
       /\ request[c].phase \in {"idle", "sent", "authenticated", "served"}
       /\ got[c] \in Seq(Rows)

\* "Issuing a new one replaces (and so revokes) the old one" (upsertQuery): a request that
\* is sent with a token after another was issued to the user gets nothing.
RevokedGetsNothing ==
  \A c \in Clients :
    request[c].phase \in {"authenticated", "served"} => ~request[c].revoked

\* A client only gets transactions of the user its token was issued to.
OwnRowsOnly ==
  \A c \in Clients :
    request[c].phase = "served" =>
      \A i \in DOMAIN request[c].rows :
        OwnerOf[request[c].rows[i]] = issued[request[c].token]

\* A client that follows has_more over a table that does not change, from any offset on,
\* gets every transaction of its query from there, once, in order, and has_more tells when
\* it has (toGetTransactionListOutput).
PagesCoverList ==
  \A c \in Clients :
    request[c].phase = "served" /\ calm[c] =>
      LET list == Listed(request[c].user, request[c].query)
          end == request[c].first + Len(got[c])
      IN /\ got[c] = SubSeq(list, request[c].first + 1, end)
         /\ request[c].more <=> end < Len(list)
=============================================================================
