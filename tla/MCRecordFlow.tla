---------------------------- MODULE MCRecordFlow ----------------------------
(* Instance of RecordFlow for TLC: two messages in one chat, beside another chat. *)
EXTENDS RecordFlow

CONSTANTS chatA, chatB, m1, m2

MCChats == {chatA, chatB}
MCMessages == {m1, m2}
MCChatOf == [m \in Messages |-> chatA]
MCItems == [entry : Messages, line : {1}]
=============================================================================
