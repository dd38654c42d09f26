-------------------------- MODULE ServerProperties --------------------------
(***************************************************************************)
(* What the server must get right whatever its clients do and in whatever  *)
(* order their connections come, send and go.                              *)
(***************************************************************************)
EXTENDS LanShareServer

Waiting(u) == Numbers(offline[u])

\* The messages that reached or will reach u, in order.
Inbox(u) == handed[u] \o Waiting(u)

\* In the mail of u, message m may go ahead of message n: it was routed
\* earlier, or n is mail from before u had an account and m is not.  (The
\* registration that creates an account delivers nothing; what was stored
\* under its ID before waits for the first login.)
InTurn(u, m, n) == m < n \/ (n <= since[u] /\ since[u] < m)

Ordered(u, q) == \A i, j \in 1..Len(q) : i < j => InTurn(u, q[i], q[j])

-----------------------------------------------------------------------------
(* What waits on the server for a user who has an entry in clients_ is mail *)
(* from before there was such an account: the store is only filled while    *)
(* the user has no entry, and the login that makes the entry empties it in  *)
(* the same handler; the registration alone leaves it full.  Were it        *)
(* otherwise, a message would sit on the server while its recipient is      *)
(* registered to read it.                                                   *)
MailWaitsForAbsentOnly ==
  ~hung => \A u \in Online : \A i \in DOMAIN offline[u] : offline[u][i].n <= since[u]

(* Every routed message reaches the inbox of each user it was meant for     *)
(* once, in the order of routing, and nobody else's: being handed to a      *)
(* session, being stored, being handed over at a later login, or a change   *)
(* of session in between neither drops, repeats, reorders nor misdirects.   *)
(* Only mail from before an account may come after the mail it got since.   *)
OnceInOrder ==
  \A u \in UserID :
    /\ Ordered(u, Inbox(u))
    /\ Range(Inbox(u)) = {n \in DOMAIN audience : u \in audience[n]}

(* On one connection the messages for a user are written in that order: a   *)
(* queued message may follow the last one written for its user, and every   *)
(* one for that user ahead of it in the queue.                              *)
WireOrder ==
  \A s \in Session : LET q == session[s].writeQueue IN
    \A i \in 1..Len(q) : q[i].n > 0 =>
      /\ InTurn(q[i].to, session[s].written[q[i].to], q[i].n)
      /\ \A j \in 1..(i-1) : q[j].to = q[i].to => InTurn(q[i].to, q[j].n, q[i].n)

(* An open connection is told who it is before it gets anything for that    *)
(* user: ahead of each message for u, on the wire or in the queue, there is the   *)
(* AUTH_SUCCESS for u (a client derives its keys from the ID it carries).   *)
AuthSuccessFirst ==
  \A s \in Session : LET q == session[s].writeQueue IN session[s].open =>
    /\ \A u \in UserID : session[s].written[u] > 0 => u \in session[s].acked
    /\ \A i \in 1..Len(q) : q[i].n > 0 =>
         q[i].to \in session[s].acked
           \/ \E j \in 1..(i-1) : q[j] = AuthSuccess(q[i].to)

(* The registry never leads to a session that was destroyed, and a session  *)
(* nobody owns any more was destroyed: no entry outlives its object, no     *)
(* object its owners.                                                       *)
NoDanglingNoLeak ==
  /\ \A u \in Online : session[clients[u]] # Blank
  /\ ~hung => \A s \in Session : session[s] # Blank => Held(Core, s)

(* The writer of an open connection never goes to sleep on a filled queue,  *)
(* and never runs on an empty one (writing_ and the queue are set by two    *)
(* methods, sendMessage and the completion handler).                        *)
WriterAwake ==
  \A s \in Session : LET ss == session[s] IN
    /\ ss.open => (ss.writing = "pending" <=> ss.writeQueue # <<>>)
    /\ ss.writing = "idle" => ss.writeQueue = <<>>

-----------------------------------------------------------------------------
(* The server implements Mailbox: a user is enrolled with an account,       *)
(* present while the registry has an entry for the user, and has collected  *)
(* what was put into the queues of the sessions registered for the user.    *)
MB == INSTANCE Mailbox WITH
        User <- UserID,
        posted <- Len(audience),
        waiting <- [u \in UserID |-> Waiting(u)],
        collected <- handed,
        present <- Online,
        enrolled <- Accounts

ImplementsMailbox == MB!Spec

-----------------------------------------------------------------------------
(* What counts as handed to u in a step is what joined, in that step, the   *)
(* queue of the session that is registered for u, and no other queue gets a *)
(* message for u: emptying the store and filling the queue, or choosing the *)
(* recipients and sending to them, are two loops of the code.               *)
HandedIsQueued ==
  [][\A u \in UserID :
       LET joined(s) ==
             LET q == session[s].writeQueue
                 r == session'[s].writeQueue
             IN  {r[i].n : i \in {j \in (Len(q)+1)..Len(r) : r[j].to = u /\ r[j].n > 0}}
       IN  /\ clients'[u] = NoSession => handed'[u] = handed[u]
           /\ \A s \in Session :
                joined(s) = IF clients'[u] = s THEN Range(handed'[u]) \ Range(handed[u])
                            ELSE {}]_vars

(* The frame that is being written stays at the head of the queue until its *)
(* write completes: async_write was given a reference to it.                *)
BufferStable ==
  [][\A s \in Session :
       LET q == session[s].writeQueue
           r == session'[s].writeQueue
       IN  session[s].writing \in {"pending", "failing"} /\ session'[s] # Blank =>
             \/ IsPrefix(q, r)
             \/ r = Tail(q) /\ session'[s].written # session[s].written
             \/ r = Tail(q) /\ Head(q).n = 0]_vars

(* When a connection is closed its object goes away, unless the registry    *)
(* keeps it: the aborted read and write end and release it.                 *)
ClosedSessionsEnd ==
  \A s \in Session :
    session[s] # Blank /\ ~session[s].open
      ~> session[s] = Blank \/ hung \/ \E u \in Online : clients[u] = s

-----------------------------------------------------------------------------
(* What the program says of itself and does not keep.                       *)

(* No order of connections, logins and ends stops the server: a client that *)
(* comes back logs in to its account ("Username exists - try login",        *)
(* MessageHandler.cpp:95) and is served.                                    *)
NeverHung == ~hung

=============================================================================
