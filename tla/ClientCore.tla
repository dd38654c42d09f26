----------------------------- MODULE ClientCore -----------------------------
(***************************************************************************)
(* The client library's connection to the server (client/ClientCore.cpp,   *)
(* without file reassembly): its socket, the operations asio has           *)
(* outstanding on it, its flags and its queue of frames.  The object is a  *)
(* record; the operators here are its methods, as far as they change it.   *)
(***************************************************************************)
EXTENDS Naturals, FiniteSets, Sequences

\* AUTH_REGISTER, AUTH_LOGIN, AUTH_LOGOUT, and every other frame of a client.
Kind == {"REGISTER", "LOGIN", "LOGOUT", "DATA"}

\* A frame in the queue; "n" numbers the calls of sendMessage.
OutgoingMessage == [kind : Kind, n : Nat \ {0}]

\* How an outstanding operation stands: not finished, or finished with its
\* handler waiting for the io thread.  A finished read holds what was read:
\* an answer to a registration or a login, or anything else.
WriteStatus == {"pending", "ok", "failed"}
Answer == {"AUTH_SUCCESS", "AUTH_FAIL", "ALREADY_EXISTS", "OTHER"}
ReadStatus == {"pending", "failed"} \cup Answer

\* The socket's "open" means that the connection is established, whether or
\* not the handler of async_connect has run; a socket whose connection failed
\* behaves like a closed one.  "reads" and "connects" count operations by
\* status: connect() can be called over operations that are still outstanding.
\* "posted" counts the calls of writeNext posted to the io thread.
ClientState ==
  [socket : {"closed", "connecting", "open"},
   connected : BOOLEAN, authenticated : BOOLEAN,
   writing : BOOLEAN, writeQueue : Seq(OutgoingMessage), posted : Nat,
   writes : SUBSET [msg : OutgoingMessage, status : WriteStatus],
   reads : [ReadStatus -> Nat], connects : [WriteStatus -> Nat]]

NewClient ==
  [socket |-> "closed", connected |-> FALSE, authenticated |-> FALSE,
   writing |-> FALSE, writeQueue |-> <<>>, posted |-> 0, writes |-> {},
   reads |-> [st \in ReadStatus |-> 0],
   connects |-> [st \in WriteStatus |-> 0]]

-----------------------------------------------------------------------------
\* An operation that stood at "from" stands at "to".
Turn(ops, from, to) == [ops EXCEPT ![from] = @ - 1, ![to] = @ + 1]

\* What is pending when the socket is closed completes with an error.
Abort(ops) == [ops EXCEPT !["failed"] = @ + ops["pending"], !["pending"] = 0]

AbortWrite(op) ==
  IF op.status = "pending" THEN [op EXCEPT !.status = "failed"] ELSE op

close(c) ==
  [c EXCEPT !.socket = "closed", !.reads = Abort(@), !.connects = Abort(@),
            !.writes = {AbortWrite(op) : op \in @}]

\* What an operation can come to the moment it is started.  Before the
\* connection is established the systems differ: it waits or it fails.  A
\* frame that fits the kernel's buffer is written at once.
ReadStarts(c) ==
  CASE c.socket = "closed" -> {"failed"}
    [] c.socket = "connecting" -> {"pending", "failed"}
    [] c.socket = "open" -> {"pending"}

WriteStarts(c) ==
  CASE c.socket = "closed" -> {"failed"}
    [] c.socket = "connecting" -> {"pending", "failed"}
    [] c.socket = "open" -> {"ok", "pending", "failed"}

readHeader(c, st) == [c EXCEPT !.reads[st] = @ + 1]

-----------------------------------------------------------------------------
\* sendMessage up to the unlock: the frame joins the queue and the flag is
\* taken.  Whoever finds it free has to post writeNext.
NeedsStart(c) == ~c.writing

Enqueue(c, kind, n) ==
  [c EXCEPT !.writeQueue = Append(@, [kind |-> kind, n |-> n]), !.writing = TRUE]

PostWriteNext(c) == [c EXCEPT !.posted = @ + 1]

\* sendMessage as the io thread calls it, which nothing else of that thread
\* can interrupt.
sendMessage(c, kind, n) ==
  IF NeedsStart(c) THEN PostWriteNext(Enqueue(c, kind, n)) ELSE Enqueue(c, kind, n)

\* writeNext: async_write of the frame at the front, which stays there.
writeNext(c, st) ==
  IF c.writeQueue = <<>> THEN [c EXCEPT !.posted = @ - 1, !.writing = FALSE]
  ELSE [c EXCEPT !.posted = @ - 1,
                 !.writes = @ \cup {[msg |-> Head(c.writeQueue), status |-> st]}]

\* Mutant: the flag is given back after every frame.
WriteCompletedFrees(c, op) ==
  LET rest == [c EXCEPT !.writes = @ \ {op}, !.writeQueue = Tail(@), !.writing = FALSE]
  IN IF Len(c.writeQueue) > 1 THEN PostWriteNext(rest) ELSE rest

\* The handler of async_write without an error.
WriteCompleted(c, op) ==
  LET rest == [c EXCEPT !.writes = @ \ {op}, !.writeQueue = Tail(@)]
  IN IF Len(c.writeQueue) > 1 THEN PostWriteNext(rest) ELSE [rest EXCEPT !.writing = FALSE]

-----------------------------------------------------------------------------
\* disconnect says goodbye and closes the socket at once; n is the number the
\* AUTH_LOGOUT gets.
SaysGoodbye(c) == c.connected /\ c.authenticated

\* Mutant: the goodbye has the type of an answer (AUTH_FAIL, next to AUTH_LOGOUT).
disconnectAsAnswer(c, n) ==
  IF ~c.connected THEN c
  ELSE [close(IF c.authenticated THEN sendMessage(c, "AUTH_FAIL", n) ELSE c)
          EXCEPT !.connected = FALSE, !.authenticated = FALSE]

disconnect(c, n) ==
  IF ~c.connected THEN c
  ELSE [close(IF c.authenticated THEN sendMessage(c, "LOGOUT", n) ELSE c)
          EXCEPT !.connected = FALSE, !.authenticated = FALSE]

\* Mutant: the peer's closing of the connection is no error.
handleErrorIgnoresEof(c, n) == c

\* handleError(context, error) logs and disconnects, whatever the error.
handleError(c, n) == disconnect(c, n)

=============================================================================
