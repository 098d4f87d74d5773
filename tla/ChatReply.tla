----------------------------- MODULE ChatReply ------------------------------
(***************************************************************************)
(* What a chat promises: the client is shown a growing prefix of one       *)
(* answer and then one end; an answer kept in the session is the answer    *)
(* that was shown, whole; and the client who reads [DONE] will find it     *)
(* there.                                                                  *)
(*                                                                         *)
(* A text is its length in characters, as all texts of a chat are prefixes *)
(* of one answer.  ChatStream is shown to implement ReplySpec.             *)
(***************************************************************************)
EXTENDS Integers

CONSTANTS
  Chats,           \* the chats clients send
  MaxCharacters    \* hmdp.chat.stream.max-characters

VARIABLES
  shown,           \* characters of the answer the client has been sent
  ending,          \* how the client's stream ended
  kept             \* characters of the answer stored in the session; 0: none

reply == <<shown, ending, kept>>

\* "cut": the connection ended without an event that says so.
Endings == {"none", "done", "error", "cut"}

ReplyInit ==
  /\ shown = [c \in Chats |-> 0]
  /\ ending = [c \in Chats |-> "none"]
  /\ kept = [c \in Chats |-> 0]

Show(c) ==
  /\ ending[c] = "none" /\ kept[c] = 0
  /\ \E n \in shown[c]..MaxCharacters : shown' = [shown EXCEPT ![c] = n]
  /\ UNCHANGED <<ending, kept>>

Keep(c) ==
  /\ kept[c] = 0
  /\ kept' = [kept EXCEPT ![c] = shown[c]]
  /\ UNCHANGED <<shown, ending>>

End(c) ==
  /\ ending[c] = "none"
  /\ \E how \in Endings \ {"none"} :
       /\ how = "done" => kept[c] = shown[c]
       /\ ending' = [ending EXCEPT ![c] = how]
  /\ UNCHANGED <<shown, kept>>

ReplyNext == \E c \in Chats : Show(c) \/ Keep(c) \/ End(c)

ReplySpec == ReplyInit /\ [][ReplyNext]_reply

-----------------------------------------------------------------------------

(***************************************************************************)
(* Who is told [DONE] finds in the session what he was shown, to the last  *)
(* character, and nothing shorter is ever kept.                            *)
(***************************************************************************)
DoneIsKept ==
  \A c \in Chats : ending[c] = "done" \/ kept[c] # 0 => kept[c] = shown[c]
=============================================================================
