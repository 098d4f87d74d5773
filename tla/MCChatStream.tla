---------------------------- MODULE MCChatStream ----------------------------
(***************************************************************************)
(* The instance of ChatStream for TLC: chats 1, 2 and 3 compete for one    *)
(* thread and one place in the queue, so that one runs, one waits and one  *)
(* is refused, in the order of their numbers.                              *)
(***************************************************************************)
EXTENDS ChatStream, TLC
=============================================================================
