--------------------------- MODULE LanShareServer ---------------------------
(***************************************************************************)
(* The server as a whole: the completion handlers of its connections       *)
(* (server/ClientSession.cpp) over the registry, the accounts, the groups  *)
(* and the router.  One thread runs ioContext_, so a handler is one step;  *)
(* what interleaves are the handlers of different connections, and, on one *)
(* connection, its reads, its writes and its end.                          *)
(*                                                                         *)
(* Clients are the environment: at any time one may connect, send any      *)
(* well-formed frame, stop reading, or disappear.  The recipient of a      *)
(* private message or file is any string that has the form of an ID: the   *)
(* server does not ask whether there is such an account, and stores mail   *)
(* for one that may be registered later.                                   *)
(***************************************************************************)
EXTENDS AuthManager, MessageRouter

CONSTANTS
  MaxQueue,      \* bound: answers a client lets pile up before asking again
  MaxMessages    \* bound: routed messages

ASSUME BoundsAssumption == MaxQueue \in Nat /\ MaxMessages \in Nat

vars == <<users, userIDMap, groups, clients, session, hung, offline, handed, audience, since>>

TypeOK == AuthTypeOK /\ GroupTypeOK /\ CoreTypeOK /\ RouterTypeOK

Init == AuthInit /\ GroupInit /\ CoreInit /\ RouterInit

-----------------------------------------------------------------------------
\* A frame of session s has been read and its handler may run.
Arrived(s) == ~hung /\ session[s].reading = "pending"

FrameArrived(s) == Arrived(s) /\ Len(session[s].writeQueue) < MaxQueue

Authenticated(s) == Arrived(s) /\ session[s].authenticated

\* The handler of a frame of s ends by reading the next one, unless it hung.
Finish(c, s) ==
  CoreBecomes(IF c.hung THEN c ELSE [c EXCEPT !.session[s] = NextRead(@)])

Answered(s, f) == [Core EXCEPT !.session[s] = sendMessage(@, f)]

\* The handler answers its own client and changes nothing else.
AnswerOnly(s) ==
  /\ Finish(Answered(s, Reply), s)
  /\ UNCHANGED <<users, userIDMap, groups, offline, handed, audience, since>>

-----------------------------------------------------------------------------
(* Connections. *)

\* acceptConnections; a slot no object occupies stands for the new session.
Accept(s) ==
  /\ ~hung
  /\ session[s] = Blank
  /\ session' = [session EXCEPT ![s] = Fresh]
  /\ UNCHANGED <<users, userIDMap, groups, clients, hung, offline, handed, audience, since>>

\* A completion handler of s that sets s to ss and then lets go of s.
Completion(s, ss) ==
  /\ CoreBecomes(ReleaseSession([Core EXCEPT !.session[s] = ss], s))
  /\ UNCHANGED <<users, userIDMap, groups, offline, handed, audience, since>>

\* The peer closed or reset the connection, the frame was too large, or the
\* socket was closed on this side.
ReadFails(s) ==
  /\ ~hung
  /\ session[s].reading # "none"
  /\ Completion(s, ReadFailed(session[s]))

WriteCompletes(s) ==
  /\ ~hung
  /\ session[s].writing = "pending"
  /\ Completion(s, WriteCompleted(session[s]))

WriteFails(s) ==
  /\ ~hung
  /\ session[s].writing \in {"pending", "failing"}
  /\ Completion(s, WriteFailed(session[s]))

-----------------------------------------------------------------------------
(* Accounts. *)

\* userID_ and authenticated_ are set, then the session is registered.
SignIn(s, u) ==
  registerClient([Core EXCEPT !.session[s] =
                    [@ EXCEPT !.userID = u, !.authenticated = TRUE]], u, s)

\* Mutant: the client is sent its name in place of its ID.
AcknowledgeName(c, s, u) == [c EXCEPT !.session[s] = sendMessage(@, AuthSuccess(u[1]))]

Acknowledge(c, s, u) == [c EXCEPT !.session[s] = sendMessage(@, AuthSuccess(u))]

\* A registration delivers nothing: what was stored for the ID before waits
\* for the first login.
handleAuthRegister(s, name, password, prefix) ==
  LET u == createUserID(name, prefix)
      c == SignIn(s, u)
  IN  /\ FrameArrived(s)
      /\ registerUser(name, password, prefix)
      /\ Finish(IF c.hung THEN c ELSE Acknowledge(c, s, u), s)
      /\ since' = [since EXCEPT ![u] = IF offline[u] = <<>> THEN 0 ELSE Len(audience)]
      /\ UNCHANGED <<groups, offline, handed, audience>>

handleAuthRegisterRefused(s, name, password) ==
  /\ FrameArrived(s)
  /\ ~CanRegister(name, password)
  /\ AnswerOnly(s)

\* Mutant: the stored messages go first.
handleAuthLoginMailFirst(s, name, password) ==
  LET u == users[name].userID
      c == SignIn(s, u)
  IN  /\ FrameArrived(s)
      /\ authenticateUser(name, password)
      /\ IF c.hung
         THEN CoreBecomes(c) /\ UNCHANGED <<offline, handed>>
         ELSE /\ Finish(Acknowledge(DeliverOffline(c, u), s, u), s)
              /\ deliverOfflineMessages(c, u)
      /\ UNCHANGED <<users, userIDMap, groups, audience, since>>

\* The AUTH_SUCCESS goes before the stored messages.
handleAuthLogin(s, name, password) ==
  LET u == users[name].userID
      c == SignIn(s, u)
      d == Acknowledge(c, s, u)
  IN  /\ FrameArrived(s)
      /\ authenticateUser(name, password)
      /\ IF c.hung
         THEN CoreBecomes(c) /\ UNCHANGED <<offline, handed>>
         ELSE Finish(DeliverOffline(d, u), s) /\ deliverOfflineMessages(d, u)
      /\ UNCHANGED <<users, userIDMap, groups, audience, since>>

handleAuthLoginRefused(s, name, password) ==
  /\ FrameArrived(s)
  /\ ~authenticateUser(name, password)
  /\ AnswerOnly(s)

\* The socket is closed in any case; readHeader() then fails.
handleAuthLogout(s) ==
  LET ss == session[s]
      c == IF ss.authenticated THEN unregisterClient(Core, ss.userID) ELSE Core
  IN  /\ Arrived(s)
      /\ Finish(IF c.hung THEN c
                ELSE [c EXCEPT !.session[s] = stop([@ EXCEPT !.authenticated = FALSE])], s)
      /\ UNCHANGED <<users, userIDMap, groups, offline, handed, audience, since>>

-----------------------------------------------------------------------------
(* Messages. *)

\* What the nine handlers that need a login answer without one.
RefuseUnauthenticated(s) ==
  /\ FrameArrived(s)
  /\ ~session[s].authenticated
  /\ AnswerOnly(s)

handlePrivateMessage(s, to) ==
  /\ Authenticated(s)
  /\ ThisMessage <= MaxMessages
  /\ RouteChat({to}, "MSG_PRIVATE")
  /\ Finish(SendTo(Core, {to} \cap Online, "MSG_PRIVATE", NoGroup), s)
  /\ audience' = Append(audience, {to})
  /\ UNCHANGED <<users, userIDMap, groups, since>>

handleGroupMessage(s, g) ==
  LET from == session[s].userID
      T == GroupTargets(from, g)
  IN  /\ Authenticated(s)
      /\ ThisMessage <= MaxMessages
      /\ isMember(g, from)
      /\ RouteChat(T, "MSG_GROUP")
      /\ Finish(SendTo(Core, T \cap Online, "MSG_GROUP", g), s)
      /\ audience' = Append(audience, groups[g].members \ {from})
      /\ UNCHANGED <<users, userIDMap, groups, since>>

handleGroupMessageRefused(s, g) ==
  /\ FrameArrived(s) /\ Authenticated(s)
  /\ ~isMember(g, session[s].userID)
  /\ AnswerOnly(s)

\* A frame of a private transfer.  The history takes it for a message to the
\* recipient only when the recipient has a session: files are not stored.
handlePrivateFile(s, to) ==
  /\ Authenticated(s)
  /\ ThisMessage <= MaxMessages
  /\ RelayFile({to})
  /\ Finish(SendTo(Core, {to} \cap Online, "FILE", NoGroup), s)
  /\ audience' = Append(audience, {u \in {to} : clients[u] # NoSession})
  /\ UNCHANGED <<users, userIDMap, groups, since>>

\* A frame of a group transfer; the sender need not be a member.
handleGroupFile(s, g) ==
  LET from == session[s].userID
      T == GroupTargets(from, g)
  IN  /\ Authenticated(s)
      /\ ThisMessage <= MaxMessages
      /\ RelayFile(T)
      /\ Finish(SendTo(Core, T \cap Online, "FILE", NoGroup), s)
      /\ audience' = Append(audience, {u \in T : clients[u] # NoSession})
      /\ UNCHANGED <<users, userIDMap, groups, since>>

-----------------------------------------------------------------------------
(* Groups. *)

GroupAnswer(s) ==
  /\ Finish(Answered(s, Reply), s)
  /\ UNCHANGED <<users, userIDMap, offline, handed, audience, since>>

handleGroupCreate(s, g, code) ==
  /\ FrameArrived(s) /\ Authenticated(s)
  /\ createGroup(g, session[s].userID, code)
  /\ GroupAnswer(s)

handleGroupCreateRefused(s, g) ==
  /\ FrameArrived(s) /\ Authenticated(s)
  /\ groupExists(g)
  /\ AnswerOnly(s)

handleGroupJoin(s, g, code) ==
  /\ FrameArrived(s) /\ Authenticated(s)
  /\ joinGroup(g, session[s].userID, code)
  /\ GroupAnswer(s)

handleGroupJoinRefused(s, g, code) ==
  /\ FrameArrived(s) /\ Authenticated(s)
  /\ ~CanJoin(g, code)
  /\ AnswerOnly(s)

handleGroupLeave(s, g) ==
  /\ FrameArrived(s) /\ Authenticated(s)
  /\ leaveGroup(g, session[s].userID)
  /\ GroupAnswer(s)

handleGroupLeaveRefused(s, g) ==
  /\ FrameArrived(s) /\ Authenticated(s)
  /\ ~LeaveSucceeds(g, session[s].userID)
  /\ AnswerOnly(s)

-----------------------------------------------------------------------------
(* The rest. *)

handleUserListRequest(s) ==
  FrameArrived(s) /\ Authenticated(s) /\ AnswerOnly(s)

handlePing(s) == FrameArrived(s) /\ AnswerOnly(s)

\* A private or group message without its separator.
AnswerInvalidFormat(s) ==
  FrameArrived(s) /\ Authenticated(s) /\ AnswerOnly(s)

\* A type handleMessage does not know: logged, and the next frame is read.
UnknownType(s) ==
  /\ Arrived(s)
  /\ Finish(Core, s)
  /\ UNCHANGED <<users, userIDMap, groups, offline, handed, audience, since>>

-----------------------------------------------------------------------------
Connection(s) == Accept(s) \/ ReadFails(s) \/ WriteCompletes(s) \/ WriteFails(s)

AccountFrame(s) ==
  \/ \E name \in Username, password \in Password :
       \/ \E prefix \in HashPrefix : handleAuthRegister(s, name, password, prefix)
       \/ handleAuthRegisterRefused(s, name, password)
       \/ handleAuthLogin(s, name, password)
       \/ handleAuthLoginRefused(s, name, password)
  \/ handleAuthLogout(s)

MessageFrame(s) ==
  \/ \E to \in UserID : handlePrivateMessage(s, to) \/ handlePrivateFile(s, to)
  \/ \E g \in Group : \/ handleGroupMessage(s, g)
                      \/ handleGroupMessageRefused(s, g)
                      \/ handleGroupFile(s, g)

GroupFrame(s) ==
  \E g \in Group :
    \/ \E code \in JoinCode : \/ handleGroupCreate(s, g, code)
                              \/ handleGroupJoin(s, g, code)
                              \/ handleGroupJoinRefused(s, g, code)
    \/ handleGroupCreateRefused(s, g)
    \/ handleGroupLeave(s, g)
    \/ handleGroupLeaveRefused(s, g)

OtherFrame(s) ==
  \/ RefuseUnauthenticated(s)
  \/ handleUserListRequest(s)
  \/ handlePing(s)
  \/ AnswerInvalidFormat(s)
  \/ UnknownType(s)

Next ==
  \E s \in Session :
    Connection(s) \/ AccountFrame(s) \/ MessageFrame(s) \/ GroupFrame(s) \/ OtherFrame(s)

\* What asio guarantees: an operation on a closed socket completes with an
\* error sooner or later.  Nothing is promised of an open one, whose peer may
\* be silent or may have stopped reading for ever.
Fairness ==
  \A s \in Session :
    /\ WF_vars(~session[s].open /\ ReadFails(s))
    /\ WF_vars(~session[s].open /\ WriteFails(s))

Spec == Init /\ [][Next]_vars

FairSpec == Spec /\ Fairness

=============================================================================
