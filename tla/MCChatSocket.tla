----------------------------- MODULE MCChatSocket -----------------------------
(***************************************************************************)
(* The TLC instance of ChatSocket.                                         *)
(***************************************************************************)
EXTENDS ChatSocket

CONSTANTS c1, c2
=============================================================================
