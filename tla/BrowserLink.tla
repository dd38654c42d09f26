----------------------------- MODULE BrowserLink -----------------------------
(***************************************************************************)
(* The WebSocket server of the bridge (bridge/WebSocketServer.cpp): a      *)
(* session for every browser that connects, and broadcasts of events to    *)
(* all of them.  One thread runs the handlers of the WebSocket server;     *)
(* broadcasts come from that thread, when a command is answered, and from  *)
(* the threads of the client core.  sessionsMutex_ is held for a whole     *)
(* broadcast, writeMutex_ of a session for one send and by the handler of  *)
(* its writes.  Events are numbered in the order of the broadcasts.        *)
(***************************************************************************)
EXTENDS Naturals, FiniteSets, Sequences

CONSTANTS
  Session,       \* slots for the objects of class WebSocketSession
  Caller,        \* the threads of the client core that broadcast
  Ws,            \* the thread that runs the handlers
  NoOne,         \* no thread, no session
  MaxBroadcasts  \* bound: the broadcasts

ASSUME LinkAssumption ==
  /\ Ws \notin Caller
  /\ MaxBroadcasts \in Nat
  /\ NoOne \notin Session \cup Caller \cup {Ws}
  /\ NoOne \notin [by : Caller \cup {Ws}, event : 1..MaxBroadcasts, left : SUBSET Session]

VARIABLES
  session,    \* the sessions
  sessions,   \* sessions_
  broadcast,  \* the call of broadcast that holds sessionsMutex_, if one does
  ws,         \* where the thread of the handlers is, and with which session
  posted      \* history: the broadcasts begun

vars == <<session, sessions, broadcast, ws, posted>>

Event == 1..MaxBroadcasts

\* A session's operation: an async_accept or an async_read that is outstanding
\* or has a result for its handler; "none" while a handler has it.  After a
\* failed handshake there is none any more ("abandoned").
Operation == {"none", "accepting", "accepted", "refused", "abandoned",
              "reading", "command", "failed"}
Write == [event : Event, status : {"pending", "ok", "failed"}]
Received == [event : Event, intact : BOOLEAN]

SessionState ==
  [stream : {"handshake", "open", "broken"}, operation : Operation,
   writeQueue : Seq(Event), writing : BOOLEAN,
   writes : SUBSET Write,       \* async_writes not yet handled
   received : Seq(Received),    \* history: what the browser has received
   early : BOOLEAN]             \* history: an event was sent to it before it was open

NewSession ==
  [stream |-> "handshake", operation |-> "none", writeQueue |-> <<>>, writing |-> FALSE,
   writes |-> {}, received |-> <<>>, early |-> FALSE]

\* The handler of a write has writeMutex_ while it is "writeOk" or "writeFailed".
Place == {"idle", "adding", "removing", "command", "broadcasting", "writeOk", "writeFailed"}

LinkTypeOK ==
  /\ session \in [Session -> SessionState]
  /\ sessions \subseteq Session
  /\ broadcast = NoOne \/
       broadcast \in [by : Caller \cup {Ws}, event : Event, left : SUBSET Session]
  /\ ws \in [at : Place, with : Session \cup {NoOne}]
  /\ posted \in 0..MaxBroadcasts

Idle == [at |-> "idle", with |-> NoOne]
Busy(place, s) == [at |-> place, with |-> s]

LinkInit ==
  /\ session = [s \in Session |-> NewSession]
  /\ sessions = {}
  /\ broadcast = NoOne
  /\ ws = Idle
  /\ posted = 0

-----------------------------------------------------------------------------
\* Methods of a session, on its state x.

\* What an operation started now comes to at once: on a stream that is not
\* open it fails; on an open one a write is done or will be.
WriteStarts(x) == IF x.stream = "open" THEN {"pending", "ok"} ELSE {"failed"}

doRead(x) == [x EXCEPT !.operation = IF x.stream = "open" THEN "reading" ELSE "failed"]

Arrives(x, event, intact) ==
  [x EXCEPT !.received = Append(@, [event |-> event, intact |-> intact])]

\* Mutant: the event stays in the queue until its write is done.
doWriteKeeps(x, started) ==
  IF x.writeQueue = <<>> THEN [x EXCEPT !.writing = FALSE]
  ELSE LET event == Head(x.writeQueue)
           y == [x EXCEPT !.writes = @ \cup {[event |-> event, status |-> started]}]
       IN IF started = "ok" THEN Arrives(y, event, TRUE) ELSE y

\* Mutant: the queue is not looked at first; the front of an empty one is
\* none of the events.
doWriteUnasked(x, started) ==
  LET event == IF x.writeQueue = <<>> THEN 0 ELSE Head(x.writeQueue)
      y == [x EXCEPT !.writeQueue = IF @ = <<>> THEN @ ELSE Tail(@),
                     !.writes = @ \cup {[event |-> event, status |-> started]}]
  IN IF started = "ok" THEN Arrives(y, event, TRUE) ELSE y

doWrite(x, started) ==
  IF x.writeQueue = <<>> THEN [x EXCEPT !.writing = FALSE]
  ELSE LET event == Head(x.writeQueue)
           y == [x EXCEPT !.writeQueue = Tail(@),
                          !.writes = @ \cup {[event |-> event, status |-> started]}]
       IN IF started = "ok" THEN Arrives(y, event, TRUE) ELSE y

\* Mutant: writing_ is not looked at.
sendAlways(x, event, started) ==
  doWrite([x EXCEPT !.writeQueue = Append(@, event), !.writing = TRUE,
                    !.early = @ \/ x.stream = "handshake"], started)

send(x, event, started) ==
  LET y == [x EXCEPT !.writeQueue = Append(@, event),
                     !.early = @ \/ x.stream = "handshake"]
  IN IF x.writing THEN y ELSE doWrite([y EXCEPT !.writing = TRUE], started)

-----------------------------------------------------------------------------
\* The thread of the handlers.

\* A session is destroyed when the list, its operations and the thread have
\* let go of it.
Destroyed(s) ==
  /\ s \notin sessions /\ ws.with # s
  /\ session[s].operation = "none" /\ session[s].writes = {}

Becomes(s, x) == session' = [session EXCEPT ![s] = x]

\* doAccept: a connection becomes a session, is put into the list ...
Accept(s) ==
  /\ ws = Idle /\ Destroyed(s)
  /\ Becomes(s, NewSession)
  /\ ws' = Busy("adding", s)
  /\ UNCHANGED <<sessions, broadcast, posted>>

\* ... and starts its handshake.
AddSession(s) ==
  /\ ws = Busy("adding", s) /\ broadcast = NoOne
  /\ sessions' = sessions \cup {s}
  /\ Becomes(s, [session[s] EXCEPT !.operation = "accepting"])
  /\ ws' = Idle
  /\ UNCHANGED <<broadcast, posted>>

\* start(): the handshake is over; a session that failed is only logged.
AcceptHandled(s) ==
  /\ ws = Idle
  /\ \/ /\ session[s].operation = "accepted"
        /\ Becomes(s, doRead(session[s]))
     \/ /\ session[s].operation = "refused"
        /\ Becomes(s, [session[s] EXCEPT !.operation = "abandoned"])
  /\ UNCHANGED <<sessions, broadcast, ws, posted>>

\* doRead: a command goes to handleCommand, which may broadcast ...
CommandHandled(s) ==
  /\ ws = Idle /\ session[s].operation = "command"
  /\ Becomes(s, [session[s] EXCEPT !.operation = "none"])
  /\ ws' = Busy("command", s)
  /\ UNCHANGED <<sessions, broadcast, posted>>

\* Mutant: after a command nothing is read any more.
CommandEndsDeaf(s) ==
  /\ ws = Busy("command", s)
  /\ ws' = Idle
  /\ UNCHANGED <<session, sessions, broadcast, posted>>

\* ... and the next read starts.
CommandEnds(s) ==
  /\ ws = Busy("command", s)
  /\ Becomes(s, doRead(session[s]))
  /\ ws' = Idle
  /\ UNCHANGED <<sessions, broadcast, posted>>

\* A read failed: the session is taken out of the list.
ReadFailed(s) ==
  /\ ws = Idle /\ session[s].operation = "failed"
  /\ Becomes(s, [session[s] EXCEPT !.operation = "none"])
  /\ ws' = Busy("removing", s)
  /\ UNCHANGED <<sessions, broadcast, posted>>

RemoveSession(s) ==
  /\ ws = Busy("removing", s) /\ broadcast = NoOne
  /\ sessions' = sessions \ {s}
  /\ ws' = Idle
  /\ UNCHANGED <<session, broadcast, posted>>

\* The handler of a write: it locks writeMutex_ ...
WriteHandled(s, w) ==
  /\ ws = Idle /\ w \in session[s].writes /\ w.status # "pending"
  /\ Becomes(s, [session[s] EXCEPT !.writes = @ \ {w}])
  /\ ws' = Busy(IF w.status = "ok" THEN "writeOk" ELSE "writeFailed", s)
  /\ UNCHANGED <<sessions, broadcast, posted>>

\* Mutant: the writer takes itself for free after every event.
WriteOkStops(s) ==
  /\ ws = Busy("writeOk", s)
  /\ Becomes(s, [session[s] EXCEPT !.writing = FALSE])
  /\ ws' = Idle
  /\ UNCHANGED <<sessions, broadcast, posted>>

\* ... and goes on with the queue,
WriteOk(s) ==
  /\ ws = Busy("writeOk", s)
  /\ \E started \in WriteStarts(session[s]) : Becomes(s, doWrite(session[s], started))
  /\ ws' = Idle
  /\ UNCHANGED <<sessions, broadcast, posted>>

\* Mutant: a session that cannot be written to is removed at once.
WriteFailedRemoves(s) ==
  /\ ws = Busy("writeFailed", s) /\ broadcast = NoOne
  /\ Becomes(s, [session[s] EXCEPT !.writing = FALSE])
  /\ sessions' = sessions \ {s}
  /\ ws' = Idle
  /\ UNCHANGED <<broadcast, posted>>

\* or, if the write failed, leaves the rest to the next send.
WriteFailed(s) ==
  /\ ws = Busy("writeFailed", s)
  /\ Becomes(s, [session[s] EXCEPT !.writing = FALSE])
  /\ ws' = Idle
  /\ UNCHANGED <<sessions, broadcast, posted>>

-----------------------------------------------------------------------------
\* broadcast(): a thread takes sessionsMutex_ and sends to one session after
\* the other.  The thread of the handlers does so only out of a command.

Begins(t) ==
  /\ broadcast = NoOne /\ posted < MaxBroadcasts
  /\ posted' = posted + 1
  /\ broadcast' = [by |-> t, event |-> posted + 1, left |-> sessions]
  /\ UNCHANGED <<session, sessions>>

BroadcastFrom(t) == Begins(t) /\ UNCHANGED ws

Answer(s) ==
  /\ ws = Busy("command", s)
  /\ Begins(Ws)
  /\ ws' = Busy("broadcasting", s)

\* send() of a session waits for the handler that has its writeMutex_.
Locked(s) == ws \in {Busy("writeOk", s), Busy("writeFailed", s)}

SendTo(s) ==
  /\ broadcast # NoOne /\ s \in broadcast.left /\ ~Locked(s)
  /\ \E started \in WriteStarts(session[s]) :
       Becomes(s, send(session[s], broadcast.event, started))
  /\ broadcast' = [broadcast EXCEPT !.left = @ \ {s}]
  /\ UNCHANGED <<sessions, ws, posted>>

BroadcastEnds ==
  /\ broadcast # NoOne /\ broadcast.left = {}
  /\ broadcast' = NoOne
  /\ ws' = IF broadcast.by = Ws THEN Busy("command", ws.with) ELSE ws
  /\ UNCHANGED <<session, sessions, posted>>

-----------------------------------------------------------------------------
\* The network and the browsers.

Environment(s, x) ==
  /\ Becomes(s, x)
  /\ UNCHANGED <<sessions, broadcast, ws, posted>>

\* A browser asks for a WebSocket, or asks for a page, or goes away.
HandshakeEnds(s) ==
  /\ session[s].operation = "accepting"
  /\ \/ Environment(s, [session[s] EXCEPT !.operation = "accepted", !.stream = "open"])
     \/ Environment(s, [session[s] EXCEPT !.operation = "refused", !.stream = "broken"])

CommandArrives(s) ==
  /\ session[s].operation = "reading"
  /\ Environment(s, [session[s] EXCEPT !.operation = "command"])

\* The rest of an event is written.  The buffer async_write was given is that
\* of doWrite's own copy, which is gone; the handler's copy is another.
WriteGoes(s, w) ==
  /\ w \in session[s].writes /\ w.status = "pending"
  /\ LET x == [session[s] EXCEPT !.writes = (@ \ {w}) \cup {[w EXCEPT !.status = "ok"]}]
     IN \E intact \in BOOLEAN : Environment(s, Arrives(x, w.event, intact))

\* The connection ends: the operations on it fail.
Breaks(s) ==
  /\ session[s].stream = "open"
  /\ Environment(s, [session[s] EXCEPT
       !.stream = "broken",
       !.operation = IF @ = "reading" THEN "failed" ELSE @,
       !.writes = {[w EXCEPT !.status = IF @ = "pending" THEN "failed" ELSE @] : w \in @}])

-----------------------------------------------------------------------------
Handler(s) ==
  \/ Accept(s) \/ AddSession(s) \/ AcceptHandled(s)
  \/ CommandHandled(s) \/ CommandEnds(s) \/ ReadFailed(s) \/ RemoveSession(s)
  \/ \E w \in session[s].writes : WriteHandled(s, w)
  \/ WriteOk(s) \/ WriteFailed(s)

Broadcasting ==
  \/ \E t \in Caller : BroadcastFrom(t)
  \/ \E s \in Session : Answer(s) \/ SendTo(s)
  \/ BroadcastEnds

Network(s) ==
  \/ HandshakeEnds(s) \/ CommandArrives(s) \/ Breaks(s)
  \/ \E w \in session[s].writes : WriteGoes(s, w)

LinkNext == Broadcasting \/ \E s \in Session : Handler(s) \/ Network(s)

LinkSpec == LinkInit /\ [][LinkNext]_vars

\* A thread that can go on in a broadcast, or in the handler of a write, does.
FairLinkSpec ==
  /\ LinkSpec
  /\ WF_vars(\E s \in Session : SendTo(s))
  /\ WF_vars(BroadcastEnds)
  /\ WF_vars(\E s \in Session : WriteOk(s) \/ WriteFailed(s))

-----------------------------------------------------------------------------
\* At most one async_write is outstanding on a stream, whichever threads
\* broadcast while its handlers run: writing_ is set exactly while one is, or
\* while its handler is about to go on.  Beast allows no two at a time.
\* (send, 41-48, and doWrite, 50-66.)
Writers(s) == Cardinality(session[s].writes) + (IF Locked(s) THEN 1 ELSE 0)

OneWritePerBrowser ==
  \A s \in Session : Writers(s) <= 1 /\ (session[s].writing <=> Writers(s) = 1)

\* An event does not wait for a later one: a filled queue of an open stream is
\* being written, unless an event was sent to the session before it was open.
\* (That one's write fails, and what was queued behind it stays: 60-64.)
NothingWaits ==
  \A s \in Session :
    LET x == session[s]
    IN x.stream = "open" /\ ~x.early /\ x.writeQueue # <<>> => x.writing

\* What a browser receives is an unbroken run of the broadcasts, in order and
\* each once, whichever threads they came from and however many of them came
\* before its handshake or after the connection broke.
UnbrokenRun ==
  \A s \in Session :
    LET r == session[s].received
    IN \A i, j \in DOMAIN r : r[j].event + i = r[i].event + j

\* Who is in the list is being read or about to be, and will be taken out when
\* the connection ends, except after a failed handshake; and who is being read
\* is in the list.  (doAccept, 83-94, and doRead, 26-39.)
Watched(s) == session[s].operation # "none" \/ ws.with = s

BrowsersAreWatched ==
  \A s \in Session :
    /\ s \in sessions => Watched(s)
    /\ session[s].operation # "none" => s \in sessions

\* A broadcast comes to its end: whoever holds sessionsMutex_ waits only for
\* handlers that do not need it.  (96-101 and 56-65.)
BroadcastsEnd == broadcast # NoOne ~> broadcast = NoOne

=============================================================================
