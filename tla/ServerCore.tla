----------------------------- MODULE ServerCore -----------------------------
(***************************************************************************)
(* The registry of the server (server/ServerCore.cpp): which session       *)
(* answers for which user ID, and how sessions live and die by the         *)
(* shared_ptrs to them.  A session is owned by its outstanding operations  *)
(* and by the entries of clients_; when the last owner lets go, its        *)
(* destructor runs, and unregisters the session's user if the session was  *)
(* still authenticated.                                                    *)
(*                                                                         *)
(* registerClient and unregisterClient release the old entry while they    *)
(* hold clientsMutex_.  If that was the last owner of an authenticated     *)
(* session, its destructor asks for the same, non-recursive mutex from the *)
(* same thread: the only thread that runs ioContext_ never comes back      *)
(* (glibc blocks it, the MSVC library terminates the process).  That is    *)
(* the state "hung": no handler runs any more.                             *)
(***************************************************************************)
EXTENDS ClientSession

CONSTANTS
  Session,       \* the session objects there can be at one time
  NoSession      \* in place of a session: none

ASSUME NoSessionAssumption == NoSession \notin Session

VARIABLES
  clients,       \* clients_: the session registered for each user ID
  session,       \* the sessions themselves
  hung           \* the io thread is stuck in clientsMutex_

coreVars == <<clients, session, hung>>

CoreTypeOK ==
  /\ clients \in [UserID -> Session \cup {NoSession}]
  /\ session \in [Session -> SessionState]
  /\ hung \in BOOLEAN

CoreInit ==
  /\ clients = [u \in UserID |-> NoSession]
  /\ session = [s \in Session |-> Blank]
  /\ hung = FALSE

\* getOnlineUsers
Online == {u \in UserID : clients[u] # NoSession}

\* The registry and its sessions as one value, for methods that call others.
Core == [clients |-> clients, session |-> session, hung |-> hung]

CoreBecomes(c) == clients' = c.clients /\ session' = c.session /\ hung' = c.hung

-----------------------------------------------------------------------------
Held(c, s) ==
  OwnedByOperation(c.session[s]) \/ \E u \in UserID : c.clients[u] = s

\* Entry u of clients_ is overwritten with new, inside the mutex, and the
\* session it pointed to is destroyed there if that was its last owner.
ReplaceEntry(c, u, new) ==
  LET old == c.clients[u]
      d == [c EXCEPT !.clients[u] = new]
  IN  IF old = NoSession \/ old = new THEN d
      ELSE IF Held(d, old) THEN d
      ELSE IF d.session[old].authenticated THEN [d EXCEPT !.hung = TRUE]
      ELSE [d EXCEPT !.session[old] = Blank]

registerClient(c, u, s) == ReplaceEntry(c, u, s)

unregisterClient(c, u) == ReplaceEntry(c, u, NoSession)

\* Mutant: the registry does not own the sessions it leads to.
ReleaseSessionInUse(c, s) ==
  IF OwnedByOperation(c.session[s]) THEN c ELSE [c EXCEPT !.session[s] = Blank]

\* A completion handler of s returns and its copy of the shared_ptr goes; if
\* it was the last one the destructor runs, outside the mutex.
ReleaseSession(c, s) ==
  LET ss == c.session[s]
      d == [c EXCEPT !.session[s] = Blank]
  IN  IF Held(c, s) THEN c
      ELSE IF ss.authenticated THEN unregisterClient(d, ss.userID)
      ELSE d

=============================================================================
