------------------------------ MODULE Protocol ------------------------------
(***************************************************************************)
(* What the processes of LanShare say to one another: user IDs and the     *)
(* frames the server queues for a client (common/Protocol.h).              *)
(***************************************************************************)
EXTENDS Naturals, FiniteSets

CONSTANTS
  Username,      \* the names accounts can have
  HashPrefix,    \* the first four hex digits of a salted password hash
  Group,         \* the names groups can have
  NoUser,        \* in place of a user ID: none
  NoGroup        \* in place of a group name: none

ASSUME NamesFinite ==
  /\ IsFiniteSet(Username)
  /\ IsFiniteSet(HashPrefix)
  /\ NoUser \notin Username \X HashPrefix
  /\ NoGroup \notin Group

\* "LS-" name "-" prefix.  The prefix has a fixed length, so the string
\* determines both fields, as the pair does.
createUserID(name, prefix) == <<name, prefix>>

UserID == {createUserID(name, prefix) : name \in Username, prefix \in HashPrefix}

\* The frames a session can have in its queue.  The answers to a client's own
\* requests other than AUTH_SUCCESS (AUTH_FAIL, ERROR_MSG, PONG, USER_LIST,
\* GROUP_CODE, GROUP_INFO) differ in their text only and are one REPLY; the
\* three frames of a file transfer are relayed by the same code and are one
\* FILE.
MessageType == {"AUTH_SUCCESS", "MSG_PRIVATE", "MSG_GROUP", "FILE", "REPLY"}

\* A frame.  "n" numbers the routed messages and stands for the sender and the
\* encrypted bytes, which the server copies untouched; it is 0 in an answer.
\* "group" is the group named in the payload.  "to" is the user the server
\* queued the frame for; the wire does not carry it.
Frame == [type : MessageType, group : Group \cup {NoGroup},
          to : UserID \cup {NoUser}, n : Nat]

AuthSuccess(u) == [type |-> "AUTH_SUCCESS", group |-> NoGroup, to |-> u, n |-> 0]
Reply == [type |-> "REPLY", group |-> NoGroup, to |-> NoUser, n |-> 0]
Message(type, group, u, n) == [type |-> type, group |-> group, to |-> u, n |-> n]

=============================================================================
