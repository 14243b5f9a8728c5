--------------------------- MODULE MCChatSession ---------------------------
(***************************************************************************)
(* ChatSession for TLC: both modes of the chat.                            *)
(***************************************************************************)
EXTENDS ChatSession

Modes == BOOLEAN
=============================================================================
