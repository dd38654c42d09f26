--------------------------- MODULE MessageRouter ---------------------------
(***************************************************************************)
(* Routing (server/MessageRouter.cpp): a message goes to the session that  *)
(* is registered for its recipient, or, for chat messages, into the        *)
(* recipient's offline store, which the next login empties.  Files are     *)
(* relayed to registered sessions only.                                    *)
(*                                                                         *)
(* Three variables record history: what was put into session queues for    *)
(* each user, for whom each routed message was meant, and how much had been *)
(* routed when a user for whom mail was stored already registered.         *)
(***************************************************************************)
EXTENDS ServerCore, GroupManager, SequencesExt

VARIABLES
  offline,       \* offlineMessages_: the stored messages of each user ID
  handed,        \* the numbers of the messages queued for each user, in order
  audience,      \* the users each routed message was meant for, by number
  since          \* how much had been routed when a user with mail registered

routerVars == <<offline, handed, audience, since>>

RouterTypeOK ==
  /\ offline \in [UserID -> Seq(Frame)]
  /\ handed \in [UserID -> Seq(Nat \ {0})]
  /\ audience \in Seq(SUBSET UserID)
  /\ since \in [UserID -> Nat]

RouterInit ==
  /\ offline = [u \in UserID |-> <<>>]
  /\ handed = [u \in UserID |-> <<>>]
  /\ audience = <<>>
  /\ since = [u \in UserID |-> 0]

\* The number of the message being routed.
ThisMessage == Len(audience) + 1

Numbers(fs) == [i \in 1..Len(fs) |-> fs[i].n]

-----------------------------------------------------------------------------
\* The frames a session gets when a message of group g goes to the users T:
\* one for each of them it is registered for.
FramesFor(us, type, g) ==
  [i \in 1..Cardinality(us) |-> Message(type, g, SetToSeq(us)[i], ThisMessage)]

\* getClient and sendMessage, for each user of T: those with a session get it.
SendTo(c, T, type, g) ==
  [c EXCEPT !.session = [s \in Session |->
     sendAll(c.session[s], FramesFor({u \in T : c.clients[u] = s}, type, g))]]

HandedTo(T) ==
  handed' = [u \in UserID |->
               IF u \in T THEN Append(handed[u], ThisMessage) ELSE handed[u]]

\* An OfflineMessage keeps the sender, the type and the encrypted bytes.
storeOfflineMessage(T, type) ==
  offline' = [u \in UserID |->
    IF u \in T THEN Append(offline[u], Message(type, NoGroup, u, ThisMessage))
    ELSE offline[u]]

\* Mutant: what is sent now is stored as well.
RouteChatTwice(T, type) ==
  /\ HandedTo(T \cap Online)
  /\ storeOfflineMessage(T, type)

\* routePrivateMessage with T = {toUserID}, routeGroupMessage with T the
\* members it does not skip: sent now or stored, user by user.
RouteChat(T, type) ==
  /\ HandedTo(T \cap Online)
  /\ storeOfflineMessage(T \ Online, type)

\* routeFileRaw and routeFileRawGroup: who is offline gets nothing.
RelayFile(T) ==
  /\ HandedTo(T \cap Online)
  /\ UNCHANGED offline

\* Mutant: the sender gets its own message.
GroupTargetsAll(from, g) == getGroupMembers(g)

\* The members routeGroupMessage and routeFileRawGroup send to.
GroupTargets(from, g) == getGroupMembers(g) \ {from}

\* Mutant: only the private messages among the stored ones are sent.
DeliverOfflinePrivate(c, u) ==
  LET private == SelectSeq(offline[u], LAMBDA f : f.type = "MSG_PRIVATE")
  IN  IF c.clients[u] = NoSession THEN c
      ELSE [c EXCEPT !.session[c.clients[u]] = sendAll(@, private)]

\* deliverOfflineMessages: the store of u is emptied into the session that is
\* registered for u, or put back when there is none.
DeliverOffline(c, u) ==
  IF c.clients[u] = NoSession THEN c
  ELSE [c EXCEPT !.session[c.clients[u]] = sendAll(@, offline[u])]

\* Mutant: the session is looked up as it was before registerClient.
deliverOfflineEarly(c, u) ==
  IF clients[u] = NoSession THEN UNCHANGED <<offline, handed>>
  ELSE /\ offline' = [offline EXCEPT ![u] = <<>>]
       /\ handed' = [handed EXCEPT ![u] = @ \o Numbers(offline[u])]

\* Mutant: the store is read and not emptied.
deliverOfflineCopies(c, u) ==
  /\ handed' = [handed EXCEPT ![u] = @ \o Numbers(offline[u])]
  /\ UNCHANGED offline

deliverOfflineMessages(c, u) ==
  IF c.clients[u] = NoSession THEN UNCHANGED <<offline, handed>>
  ELSE /\ offline' = [offline EXCEPT ![u] = <<>>]
       /\ handed' = [handed EXCEPT ![u] = @ \o Numbers(offline[u])]

=============================================================================
