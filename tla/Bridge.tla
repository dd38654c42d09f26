------------------------------- MODULE Bridge -------------------------------
(***************************************************************************)
(* The bridge process (bridge/MessageHandler.cpp over client/ClientCore):  *)
(* the browser's commands arrive on the WebSocket's thread, every file     *)
(* that is sent has a thread, and the io thread runs the handlers of asio  *)
(* one after the other.  The threads share one ClientCore.  This module    *)
(* has the connection to the server, the frames that go out and the        *)
(* automatic registration; what incoming frames carry is left out.         *)
(***************************************************************************)
EXTENDS ClientCore, SequencesExt

CONSTANTS
  Thread,        \* the threads other than the io thread
  Browser,       \* the one that runs the browser's commands
  Command,       \* the frames the browser asks for itself
  MaxConnects,   \* bound: the browser's "connect" commands
  MaxCalls       \* bound: frames numbered below it may be sent by a thread

ASSUME BridgeAssumption ==
  /\ IsFiniteSet(Thread)
  /\ Browser \in Thread
  /\ Command \subseteq Kind
  /\ MaxConnects \in Nat
  /\ MaxCalls \in Nat

VARIABLES
  client,           \* the ClientCore
  pendingHostname,  \* whether a host name waits for its registration
  thread,           \* where each thread is
  requests,         \* the server: registrations and logins it has not answered
  wire,             \* history: the numbers of the frames written
  issued,           \* history: the calls of sendMessage
  attempts,         \* history: "connect" commands
  reported          \* history: calls of connectionCallback_

vars == <<client, pendingHostname, thread, requests, wire, issued,
          attempts, reported>>

\* A thread is between two commands, in connect() after it closed the socket,
\* in sendMessage with writeNext to be posted, or in logout() with
\* authenticated_ to be cleared.
Place == {"idle", "connect", "post", "postLogout", "logout"}

BridgeTypeOK ==
  /\ client \in ClientState
  /\ pendingHostname \in BOOLEAN
  /\ thread \in [Thread -> Place]
  /\ requests \in Seq({"REGISTER", "LOGIN"})
  /\ wire \in Seq(Nat)
  /\ issued \in Nat /\ attempts \in Nat /\ reported \in Nat

Init ==
  /\ client = NewClient
  /\ pendingHostname = FALSE
  /\ thread = [t \in Thread |-> "idle"]
  /\ requests = <<>> /\ wire = <<>>
  /\ issued = 0 /\ attempts = 0 /\ reported = 0

\* A server that has lost the connection answers nothing more on it.
RequestsLeft(c) == IF c.socket = "closed" THEN <<>> ELSE requests

-----------------------------------------------------------------------------
\* Commands of the browser, and the threads that send files.

\* "connect": the host name is stored and connect() closes the socket.
CloseForConnect ==
  /\ thread[Browser] = "idle"
  /\ attempts < MaxConnects
  /\ pendingHostname' = TRUE
  /\ client' = close(client)
  /\ requests' = <<>>
  /\ thread' = [thread EXCEPT ![Browser] = "connect"]
  /\ attempts' = attempts + 1
  /\ UNCHANGED <<wire, issued, reported>>

\* connect(): async_connect, which opens the socket ...
StartConnect ==
  /\ thread[Browser] = "connect"
  /\ client' = [close(client) EXCEPT !.socket = "connecting", !.connects["pending"] = @ + 1]
  /\ thread' = [thread EXCEPT ![Browser] = "idle"]
  /\ UNCHANGED <<pendingHostname, requests, wire, issued, attempts, reported>>

\* ... or an exception before that: the name was not resolved.
ResolveFails ==
  /\ thread[Browser] = "connect"
  /\ thread' = [thread EXCEPT ![Browser] = "idle"]
  /\ reported' = reported + 1
  /\ UNCHANGED <<client, pendingHostname, requests, wire, issued, attempts>>

\* sendMessage of a thread, up to its post.
Send(t, kind, posting, otherwise) ==
  /\ thread[t] = "idle" /\ (t = Browser => kind \in Command)
  /\ issued < MaxCalls
  /\ client' = Enqueue(client, kind, issued + 1)
  /\ issued' = issued + 1
  /\ thread' = [thread EXCEPT ![t] = IF NeedsStart(client) THEN posting ELSE otherwise]
  /\ UNCHANGED <<pendingHostname, requests, wire, attempts, reported>>

SendFrame(t) ==
  \E kind \in IF t = Browser THEN Kind \ {"LOGOUT"} ELSE {"DATA"} :
    Send(t, kind, "post", "idle")

Logout == Send(Browser, "LOGOUT", "postLogout", "logout")

Post(t) ==
  /\ thread[t] \in {"post", "postLogout"}
  /\ client' = PostWriteNext(client)
  /\ thread' = [thread EXCEPT ![t] = IF @ = "post" THEN "idle" ELSE "logout"]
  /\ UNCHANGED <<pendingHostname, requests, wire, issued, attempts, reported>>

LogoutEnds ==
  /\ thread[Browser] = "logout"
  /\ client' = [client EXCEPT !.authenticated = FALSE]
  /\ thread' = [thread EXCEPT ![Browser] = "idle"]
  /\ UNCHANGED <<pendingHostname, requests, wire, issued, attempts, reported>>

-----------------------------------------------------------------------------
\* The io thread.  Each handler runs to its end before the next; asio promises
\* no order among those that are ready.

IoKeeps == UNCHANGED <<thread, attempts>>

\* What the connection lost with the socket, and the frames a handler sent.
IoEnds(c, sent) ==
  /\ client' = c
  /\ issued' = issued + sent
  /\ requests' = RequestsLeft(c)
  /\ IoKeeps

\* The handler of async_connect finds no error; asio turns a success into an
\* error if the socket was closed meanwhile.
Succeeded(st) == st = "ok" /\ client.socket # "closed"

\* onConnection registers the pending host name; then the first read starts.
Connected ==
  /\ client.connects["ok"] > 0 /\ Succeeded("ok")
  /\ LET c0 == [client EXCEPT !.connects["ok"] = @ - 1, !.connected = TRUE]
         c1 == IF pendingHostname THEN sendMessage(c0, "REGISTER", issued + 1) ELSE c0
     IN \E st \in ReadStarts(c1) :
          IoEnds(readHeader(c1, st), IF pendingHostname THEN 1 ELSE 0)
  /\ reported' = reported + 1
  /\ UNCHANGED <<pendingHostname, wire>>

\* Mutant: only a success is reported.
ConnectFailedSilently(st) ==
  /\ client.connects[st] > 0 /\ ~Succeeded(st)
  /\ IoEnds([client EXCEPT !.connects[st] = @ - 1, !.connected = FALSE], 0)
  /\ UNCHANGED <<pendingHostname, wire, reported>>

ConnectFailed(st) ==
  /\ client.connects[st] > 0 /\ ~Succeeded(st)
  /\ IoEnds([client EXCEPT !.connects[st] = @ - 1, !.connected = FALSE], 0)
  /\ reported' = reported + 1
  /\ UNCHANGED <<pendingHostname, wire>>

\* handleAuthSuccess and handleAuthFail with onAuth: "already exists" makes
\* the bridge log in with the pending host name.
LogsIn(answer) == answer = "ALREADY_EXISTS" /\ pendingHostname

AfterAnswer(answer) ==
  LET c == IF answer = "OTHER" THEN client
           ELSE [client EXCEPT !.authenticated = (answer = "AUTH_SUCCESS")]
  IN IF LogsIn(answer) THEN sendMessage(c, "LOGIN", issued + 1) ELSE c

\* A frame was read: it is handled and the next read starts.
ReadHandled(answer) ==
  /\ client.reads[answer] > 0
  /\ LET c == [AfterAnswer(answer) EXCEPT !.reads[answer] = @ - 1]
     IN \E st \in ReadStarts(c) :
          IoEnds(readHeader(c, st), IF LogsIn(answer) THEN 1 ELSE 0)
  /\ pendingHostname' = (pendingHostname /\ answer # "AUTH_SUCCESS")
  /\ UNCHANGED <<wire, reported>>

\* A handler that found an error, with the operation already taken off.
Errs(c) ==
  /\ IoEnds(handleError(c, issued + 1), IF SaysGoodbye(c) THEN 1 ELSE 0)
  /\ UNCHANGED <<pendingHostname, wire, reported>>

ReadFailed ==
  /\ client.reads["failed"] > 0
  /\ Errs([client EXCEPT !.reads["failed"] = @ - 1])

\* Mutant: a frame that could not be written is given up.
WriteFailedDrops(op) ==
  /\ op.status = "failed"
  /\ Errs([client EXCEPT !.writes = @ \ {op}, !.writeQueue = Tail(@)])

WriteFailed(op) ==
  /\ op.status = "failed"
  /\ Errs([client EXCEPT !.writes = @ \ {op}])

WriteHandled(op) ==
  /\ op.status = "ok"
  /\ IoEnds(WriteCompleted(client, op), 0)
  /\ UNCHANGED <<pendingHostname, wire, reported>>

\* The frame reaches the server, which has to answer some.
Delivered(msg, intact) ==
  /\ wire' = Append(wire, msg.n)
  /\ requests' = IF msg.kind \in {"REGISTER", "LOGIN"} /\ intact
                 THEN Append(requests, msg.kind) ELSE requests

WriteNextRuns ==
  /\ client.posted > 0
  /\ \E st \in WriteStarts(client) :
       /\ client' = writeNext(client, st)
       /\ IF client.writeQueue # <<>> /\ st = "ok"
          THEN Delivered(Head(client.writeQueue), TRUE)
          ELSE UNCHANGED <<wire, requests>>
  /\ IoKeeps
  /\ UNCHANGED <<pendingHostname, issued, reported>>

-----------------------------------------------------------------------------
\* The system and the network.

Environment(c) ==
  /\ client' = c
  /\ UNCHANGED <<pendingHostname, thread, issued, attempts, reported>>

Established ==
  /\ client.socket = "connecting"
  /\ Environment([client EXCEPT !.socket = "open",
                                !.connects = Turn(@, "pending", "ok")])
  /\ UNCHANGED <<requests, wire>>

Refused ==
  /\ client.socket = "connecting"
  /\ Environment(close(client))
  /\ UNCHANGED <<requests, wire>>

\* What the server sends: an answer to the oldest request, or anything else,
\* which is also what two reads at a time make of the frame they share.
Answers(request) ==
  IF request = "REGISTER" THEN {"AUTH_SUCCESS", "AUTH_FAIL", "ALREADY_EXISTS"}
  ELSE {"AUTH_SUCCESS", "AUTH_FAIL"}

FrameArrives(answer) ==
  /\ client.socket = "open" /\ client.reads["pending"] > 0
  /\ IF answer = "OTHER" THEN UNCHANGED requests
     ELSE /\ requests # <<>> /\ answer \in Answers(Head(requests))
          /\ requests' = Tail(requests)
  /\ Environment([client EXCEPT !.reads = Turn(@, "pending", answer)])
  /\ UNCHANGED wire

ReadBreaks ==
  /\ client.socket = "open" /\ client.reads["pending"] > 0
  /\ Environment([client EXCEPT !.reads = Turn(@, "pending", "failed")])
  /\ UNCHANGED <<requests, wire>>

Completed(op, st) ==
  Environment([client EXCEPT !.writes = (@ \ {op}) \cup {[op EXCEPT !.status = st]}])

\* The rest of the frame is written.  The buffers async_write was given are
\* those of writeNext's own copy, which is gone; the handler's copy is another.
WriteGoes(op) ==
  /\ op.status = "pending" /\ client.socket = "open"
  /\ Completed(op, "ok")
  /\ \E intact \in BOOLEAN : Delivered(op.msg, intact)

WriteBreaks(op) ==
  /\ op.status = "pending" /\ client.socket = "open"
  /\ Completed(op, "failed")
  /\ UNCHANGED <<requests, wire>>

-----------------------------------------------------------------------------
Caller ==
  \/ CloseForConnect \/ StartConnect \/ ResolveFails \/ Logout \/ LogoutEnds
  \/ \E t \in Thread : SendFrame(t) \/ Post(t)

IoThread ==
  \/ Connected \/ ReadFailed \/ WriteNextRuns
  \/ \E st \in {"ok", "failed"} : ConnectFailed(st)
  \/ \E answer \in Answer : ReadHandled(answer)
  \/ \E op \in client.writes : WriteFailed(op) \/ WriteHandled(op)

Network ==
  \/ Established \/ Refused \/ ReadBreaks
  \/ \E answer \in Answer : FrameArrives(answer)
  \/ \E op \in client.writes : WriteGoes(op) \/ WriteBreaks(op)

Next == Caller \/ IoThread \/ Network

Spec == Init /\ [][Next]_vars

\* A thread that is in connect() goes on; the system settles a connection
\* attempt (TCP gives up after a while); the io thread gets to every handler
\* that is ready.  Nothing is assumed of an established connection.
FairSpec ==
  /\ Spec
  /\ WF_vars(StartConnect \/ ResolveFails)
  /\ WF_vars(Established \/ Refused)
  /\ WF_vars(Connected)
  /\ \A st \in {"ok", "failed"} : WF_vars(ConnectFailed(st))

=============================================================================
