----------------------------- MODULE MCRequests -----------------------------
(* Instance of Requests for TLC: a batch of two lines of alice and one of bob, *)
(* and alice in a private chat and a group.  The batch and the chats share     *)
(* nothing but the parser, which treats each caller by itself, so a behaviour  *)
(* has one of the two.                                                         *)
EXTENDS Requests, SequencesExt

CONSTANTS alice, bob, private, group, batcher

MCLineUser == <<alice, bob, alice>>
MCCallers == {private, group, batcher}
MCChats == {private, group}
MCGroups == {group}
MCSenderOf == [c \in MCChats |-> alice]
MCKinds == {"good", "type"}
MCMessages == [index : 0 .. 4, kind : MCKinds]
MCAnswers == SeqOf(MCMessages, 3)
MCWords == {{}, {"register"}, {"summary"}, {"list", "mcp"}, {"split"}}

OneKind == ticks = 0 \/ \A c \in MCChats : count[c] = 0
MCSpec == Init /\ [][Next /\ OneKind']_vars /\ Fairness
=============================================================================
