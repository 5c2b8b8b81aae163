----------------------------- MODULE ChatLanes -----------------------------
(***************************************************************************)
(* What the chat queue promises: each chat has a lane of its own, in which *)
(* jobs run one at a time, in the order they were let in; no job is lost   *)
(* and none runs twice.  Lanes do not know of each other.                  *)
(*                                                                         *)
(* ChatQueue implements this specification with workers that come and go.  *)
(***************************************************************************)
EXTENDS Sequences

CONSTANTS Chats,    \* the WhatsApp chats
          Jobs,     \* what is to be done in them
          ChatOf,   \* ChatOf[j]: the chat of j
          NoJob     \* not a job

VARIABLES lane,      \* the jobs that wait in each chat, oldest first
          running,   \* the job each chat runs, or NoJob
          entered,   \* the jobs let into their lanes so far
          finished   \* the jobs that ran

lanesVars == <<lane, running, entered, finished>>

LanesInit ==
  /\ lane = [c \in Chats |-> <<>>]
  /\ running = [c \in Chats |-> NoJob]
  /\ entered = {}
  /\ finished = {}

Enter(j) ==
  /\ j \notin entered
  /\ entered' = entered \cup {j}
  /\ lane' = [lane EXCEPT ![ChatOf[j]] = Append(@, j)]
  /\ UNCHANGED <<running, finished>>

Begin(c) ==
  /\ running[c] = NoJob
  /\ lane[c] # <<>>
  /\ running' = [running EXCEPT ![c] = Head(lane[c])]
  /\ lane' = [lane EXCEPT ![c] = Tail(@)]
  /\ UNCHANGED <<entered, finished>>

End(c) ==
  /\ running[c] # NoJob
  /\ running' = [running EXCEPT ![c] = NoJob]
  /\ finished' = finished \cup {running[c]}
  /\ UNCHANGED <<lane, entered>>

LanesNext ==
  \/ \E j \in Jobs : Enter(j)
  \/ \E c \in Chats : Begin(c) \/ End(c)

LanesSpec == LanesInit /\ [][LanesNext]_lanesVars
=============================================================================
