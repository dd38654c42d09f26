--------------------------- MODULE BrowserLinkProofs ---------------------------
(***************************************************************************)
(* Theorems about the WebSocket server of the bridge, for any number of    *)
(* browsers, threads that broadcast, and broadcasts.                       *)
(***************************************************************************)
EXTENDS BrowserLink, FiniteSetTheorems, TLAPS

(***************************************************************************)
(* The inductive invariant, for one session x: "in" is whether it is in    *)
(* the list, "at" where the thread of the handlers is with it, and "last"  *)
(* the last broadcast that was sent to it, if it is in the list.           *)
(***************************************************************************)
Listed(s) == s \in sessions
At(s) == IF ws.with = s THEN ws.at ELSE "idle"
LastSent(s) == IF broadcast # NoOne /\ s \in broadcast.left THEN posted - 1 ELSE posted

InCommand == {"command", "broadcasting", "removing"}
InWrite == {"writeOk", "writeFailed"}

\* One write is outstanding, or its handler has it, or there is none.
WriterOK(x, at) ==
  \/ x.writes = {} /\ (x.writing <=> at \in InWrite)
  \/ x.writing /\ at \notin InWrite /\ \E w \in x.writes : x.writes = {w}

\* Who is in the list has an operation or a handler, and who is not is new or
\* has lost its connection.
OperationOK(x, in, at) ==
  /\ in => x.operation # "none" \/ at \in InCommand
  /\ x.operation # "none" => in
  /\ at \in InCommand => in /\ x.operation = "none" /\ x.stream # "handshake"
  /\ at = "removing" \/ x.operation = "failed" => x.stream = "broken"
  /\ x.operation = "accepting" => x.stream = "handshake"
  /\ x.stream = "handshake" => x.operation \in {"none", "accepting"}
  /\ ~in => x.stream = "broken" \/ x = NewSession
  /\ at = "adding" => ~in /\ x = NewSession

\* The queue holds the last broadcasts, and before it goes what is written.
QueueOK(x, last) ==
  /\ Len(x.writeQueue) <= last
  /\ \A i \in DOMAIN x.writeQueue : x.writeQueue[i] = last - Len(x.writeQueue) + i
  /\ \A w \in x.writes : w.event = last - Len(x.writeQueue)

Pending(x) == \E w \in x.writes : w.status = "pending"
Failed(x) == \E w \in x.writes : w.status = "failed"

\* What has been received goes before that.
Contiguous(r) == \A i, j \in DOMAIN r : r[j].event + i = r[i].event + j
EndsWith(r, event) == r # <<>> => r[Len(r)].event = event

ReceivedOK(x, last) ==
  /\ Contiguous(x.received)
  /\ x.stream = "open" =>
       EndsWith(x.received, last - Len(x.writeQueue) - (IF Pending(x) THEN 1 ELSE 0))
  /\ x.stream = "open" /\ Failed(x) => x.received = <<>>
  /\ x.stream # "open" => ~Pending(x)
  /\ x.stream = "handshake" => x.received = <<>> /\ \A w \in x.writes : w.status = "failed"

\* Writes fail on an open stream only if they were started too early.
EarlyOK(x, at) ==
  ~x.early =>
    /\ x.stream = "handshake" => x.writeQueue = <<>> /\ x.writes = {}
    /\ x.stream # "broken" => ~Failed(x) /\ at # "writeFailed"
    /\ x.stream = "open" /\ x.writeQueue # <<>> => x.writing

SessionOK(x, in, at, last) ==
  /\ WriterOK(x, at) /\ OperationOK(x, in, at)
  /\ in => QueueOK(x, last)
  /\ ReceivedOK(x, last) /\ EarlyOK(x, at)

ThreadsOK ==
  /\ ws.at = "idle" <=> ws.with = NoOne
  /\ broadcast = NoOne => ws.at # "broadcasting"
  /\ broadcast # NoOne =>
       /\ broadcast.event = posted /\ broadcast.left \subseteq sessions
       /\ broadcast.by = Ws <=> ws.at = "broadcasting"

LinkInv ==
  /\ LinkTypeOK /\ ThreadsOK
  /\ \A s \in Session : SessionOK(session[s], Listed(s), At(s), LastSent(s))

-----------------------------------------------------------------------------
\* Methods of a session.

LEMMA EventsAreNumbers == Event \subseteq Nat
BY LinkAssumption DEF Event

LEMMA WriteStartsType ==
  ASSUME NEW x, NEW started \in WriteStarts(x)
  PROVE  /\ started \in {"pending", "ok", "failed"}
         /\ started = "failed" <=> x.stream # "open"
BY DEF WriteStarts

\* The browser receives the event after the last one it has.
LEMMA RunGrows ==
  ASSUME NEW r \in Seq(Received), NEW e \in Received,
         Contiguous(r), EndsWith(r, e.event - 1)
  PROVE  Contiguous(Append(r, e)) /\ EndsWith(Append(r, e), e.event)
<1> DEFINE n == Len(r)
           s == Append(r, e)
<1>1. e.event \in Nat /\ \A i \in DOMAIN r : r[i].event \in Nat
  <2>1. \A i \in DOMAIN r : r[i] \in Received
    OBVIOUS
  <2> QED BY <2>1, EventsAreNumbers DEF Received
<1>2. /\ n \in Nat /\ DOMAIN r = 1..n /\ DOMAIN s = 1..(n + 1) /\ Len(s) = n + 1
      /\ s[n + 1] = e /\ \A i \in 1..n : s[i] = r[i]
  OBVIOUS
<1>3. \A i \in 1..n : r[i].event + n = e.event - 1 + i
  <2> HIDE DEF n, s
  <2> SUFFICES ASSUME NEW i \in 1..n PROVE r[i].event + n = e.event - 1 + i
    OBVIOUS
  <2>1. r # <<>> /\ n \in 1..n
    BY <1>2
  <2>2. r[n].event = e.event - 1
    BY <2>1 DEF EndsWith, n
  <2> QED BY <2>1, <2>2, <1>1, <1>2 DEF Contiguous
<1> HIDE DEF n, s
<1>4. \A i \in 1..n : s[i].event + n = e.event - 1 + i /\ s[i].event \in Nat
  BY <1>1, <1>2, <1>3
<1>5. \A i \in 1..(n + 1) : s[i].event + n = e.event - 1 + i /\ s[i].event \in Nat
  <2>1. \A i \in 1..(n + 1) : i \in 1..n \/ i = n + 1
    BY <1>2
  <2>2. s[n + 1].event + n = e.event - 1 + (n + 1) /\ s[n + 1].event \in Nat
    BY <1>1, <1>2
  <2> QED BY <2>1, <2>2, <1>4
<1>6. \A i, j \in 1..(n + 1) : s[j].event + i = s[i].event + j
  <2> SUFFICES ASSUME NEW i \in 1..(n + 1), NEW j \in 1..(n + 1)
               PROVE  s[j].event + i = s[i].event + j
    OBVIOUS
  <2>1. s[i].event + n = e.event - 1 + i /\ s[i].event \in Nat
    BY <1>5
  <2>2. s[j].event + n = e.event - 1 + j /\ s[j].event \in Nat
    BY <1>5
  <2>3. e.event \in Nat /\ n \in Nat /\ i \in Nat /\ j \in Nat
    BY <1>1, <1>2
  <2> DEFINE a == s[i].event
             b == s[j].event
             c == e.event
  <2>4. a \in Nat /\ b \in Nat /\ c \in Nat /\ a + n = c - 1 + i /\ b + n = c - 1 + j
    BY <2>1, <2>2, <2>3
  <2> HIDE DEF a, b, c
  <2>5. b + i = a + j
    BY <2>3, <2>4
  <2> QED BY <2>5 DEF a, b
<1> QED BY <1>1, <1>2, <1>6 DEF Contiguous, EndsWith, n, s

\* doWrite, called by the one who writes: it takes the next event or sets
\* writing_ free.
LEMMA DoWriteKeeps ==
  ASSUME NEW x \in SessionState, NEW in \in BOOLEAN, NEW at, at \notin InWrite,
         NEW last \in Nat, NEW started \in WriteStarts(x),
         x.writes = {}, x.writing, OperationOK(x, in, at),
         x.stream = "open" => in, in => QueueOK(x, last), ReceivedOK(x, last),
         ~x.early /\ x.stream = "handshake" => x.writeQueue = <<>>
  PROVE  /\ doWrite(x, started) \in SessionState
         /\ SessionOK(doWrite(x, started), in, at, last)
<1> DEFINE y == doWrite(x, started)
           r == x.received
<1>1. CASE x.writeQueue = <<>>
  <2>1. y = [x EXCEPT !.writing = FALSE]
    BY <1>1 DEF doWrite
  <2>2. y \in SessionState
    BY <2>1 DEF SessionState
  <2>3. WriterOK(y, at) /\ EarlyOK(y, at)
    BY <2>1, <1>1 DEF WriterOK, EarlyOK, SessionState, Failed, InWrite
  <2>4. OperationOK(y, in, at)
    BY <2>1 DEF OperationOK, SessionState, NewSession
  <2>5. in => QueueOK(y, last)
    BY <2>1 DEF QueueOK, SessionState
  <2>6. ReceivedOK(y, last)
    BY <2>1 DEF ReceivedOK, SessionState, Pending, Failed
  <2> QED BY <2>2, <2>3, <2>4, <2>5, <2>6 DEF SessionOK
<1>2. CASE x.writeQueue # <<>>
  <2> DEFINE event == Head(x.writeQueue)
             rest == Tail(x.writeQueue)
             w == [event |-> event, status |-> started]
             e == [event |-> event, intact |-> TRUE]
  <2>1. /\ event \in Event /\ rest \in Seq(Event)
        /\ Len(rest) = Len(x.writeQueue) - 1
        /\ DOMAIN x.writeQueue = 1..Len(x.writeQueue)
        /\ DOMAIN rest = 1..(Len(x.writeQueue) - 1)
        /\ \A i \in DOMAIN rest : rest[i] = x.writeQueue[i + 1]
        /\ x.writeQueue[1] = event /\ Len(x.writeQueue) \in Nat \ {0}
    BY <1>2 DEF SessionState
  <2>2. /\ y.writeQueue = rest /\ y.writes = {w} /\ y.writing
        /\ y.stream = x.stream /\ y.operation = x.operation /\ y.early = x.early
        /\ y.received = IF started = "ok" THEN Append(r, e) ELSE r
    BY <1>2 DEF doWrite, Arrives, SessionState
  <2>3. w \in Write /\ w.event = event /\ w.status = started /\ r = x.received
    BY <2>1, WriteStartsType DEF Write
  <2>4. e \in Received /\ e.event = event /\ r \in Seq(Received) /\ y.received \in Seq(Received)
    <3>1. e \in Received
      BY <2>1 DEF Received
    <3>2. r \in Seq(Received)
      BY DEF SessionState
    <3>3. y.received = r \/ y.received = Append(r, e)
      BY <2>2
    <3> HIDE DEF e, r, y
    <3>4. y.received \in Seq(Received)
      BY <3>1, <3>2, <3>3
    <3> QED BY <3>1, <3>2, <3>4 DEF e
  <2>5. y \in SessionState
    BY <1>2, <2>1, <2>3, <2>4 DEF doWrite, Arrives, SessionState
  <2> HIDE DEF y, w, e, r, event, rest
  <2>6. WriterOK(y, at)
    BY <2>2 DEF WriterOK
  <2>7. OperationOK(y, in, at)
    BY <2>2 DEF OperationOK, NewSession
  <2>8. in => QueueOK(y, last) /\ event = last - Len(x.writeQueue) + 1
    <3>1. /\ Len(y.writeQueue) = Len(x.writeQueue) - 1
          /\ DOMAIN y.writeQueue = 1..(Len(x.writeQueue) - 1)
          /\ \A i \in DOMAIN y.writeQueue :
               i + 1 \in DOMAIN x.writeQueue /\ y.writeQueue[i] = x.writeQueue[i + 1]
      BY <2>1, <2>2
    <3>2. in => event = last - Len(x.writeQueue) + 1
      <4>1. 1 \in DOMAIN x.writeQueue
        BY <2>1
      <4> QED BY <4>1, <2>1 DEF QueueOK
    <3>3. in => QueueOK(y, last)
      <4> SUFFICES ASSUME in PROVE QueueOK(y, last)
        OBVIOUS
      <4> DEFINE n == Len(x.writeQueue)
      <4>1. n \in Nat /\ n <= last /\ Len(y.writeQueue) = n - 1
        BY <2>1, <3>1 DEF QueueOK
      <4>2. \A i \in DOMAIN x.writeQueue : x.writeQueue[i] = last - n + i
        BY DEF QueueOK
      <4>3. \A v \in y.writes : v.event = last - n + 1
        BY <2>2, <2>3, <3>2
      <4> HIDE DEF n
      <4>4. \A i \in DOMAIN y.writeQueue : y.writeQueue[i] = last - (n - 1) + i
        <5> SUFFICES ASSUME NEW i \in DOMAIN y.writeQueue
                     PROVE  y.writeQueue[i] = last - (n - 1) + i
          OBVIOUS
        <5>1. y.writeQueue[i] = last - n + (i + 1) /\ i \in Int
          BY <3>1, <4>2
        <5> QED BY <5>1, <4>1
      <4>5. last - n + 1 = last - (n - 1) /\ n - 1 <= last
        BY <4>1
      <4> QED BY <4>1, <4>3, <4>4, <4>5 DEF QueueOK
    <3> QED BY <3>2, <3>3
  <2>9. ReceivedOK(y, last)
    <3>1. CASE started = "ok"
      <4>1. x.stream = "open" /\ in /\ ~Pending(x) /\ ~Pending(y) /\ ~Failed(y)
        BY <3>1, <2>2, <2>3, WriteStartsType DEF Pending, Failed
      <4>2. EndsWith(r, event - 1) /\ Contiguous(r)
        BY <4>1, <2>1, <2>3, <2>8, EventsAreNumbers DEF ReceivedOK
      <4>3. Contiguous(y.received) /\ EndsWith(y.received, event)
        BY <4>2, <3>1, <2>2, <2>4, RunGrows
      <4>4. event = last - Len(y.writeQueue) - 0
        <5>1. Len(y.writeQueue) = Len(x.writeQueue) - 1 /\ Len(x.writeQueue) \in Nat
          BY <2>1, <2>2
        <5> QED BY <5>1, <4>1, <2>8
      <4> QED BY <4>1, <4>3, <4>4, <2>2, EventsAreNumbers, <2>1 DEF ReceivedOK
    <3>2. CASE started = "pending"
      <4>1. x.stream = "open" /\ in /\ ~Pending(x) /\ Pending(y) /\ ~Failed(y)
        BY <3>2, <2>2, <2>3, WriteStartsType DEF Pending, Failed
      <4>2. last - Len(x.writeQueue) - 0 = last - Len(y.writeQueue) - 1
        <5>1. Len(y.writeQueue) = Len(x.writeQueue) - 1 /\ Len(x.writeQueue) \in Nat
          BY <2>1, <2>2
        <5> QED BY <5>1
      <4>3. EndsWith(y.received, last - Len(y.writeQueue) - 1)
        BY <4>1, <4>2, <3>2, <2>2, <2>3 DEF ReceivedOK
      <4> QED BY <4>1, <4>3, <3>2, <2>2, <2>3 DEF ReceivedOK
    <3>3. CASE started = "failed"
      <4>1. x.stream # "open" /\ ~Pending(y)
        BY <3>3, <2>2, <2>3, WriteStartsType DEF Pending
      <4> QED BY <4>1, <3>3, <2>2, <2>3 DEF ReceivedOK
    <3> QED BY <3>1, <3>2, <3>3, WriteStartsType
  <2>10. EarlyOK(y, at)
    <3>1. x.stream = "open" => ~Failed(y)
      BY <2>2, <2>3, WriteStartsType DEF Failed
    <3>2. ~x.early /\ x.stream # "broken" => x.stream = "open"
      BY <1>2 DEF SessionState
    <3> QED BY <3>1, <3>2, <2>2 DEF EarlyOK, InWrite
  <2> QED BY <2>5, <2>6, <2>7, <2>8, <2>9, <2>10 DEF SessionOK, y
<1> QED BY <1>1, <1>2

\* send, of the broadcast after the last one.
LEMMA SendKeeps ==
  ASSUME NEW x \in SessionState, NEW at, at \notin InWrite, NEW last \in Nat,
         last + 1 \in Event, NEW started \in WriteStarts(x), SessionOK(x, TRUE, at, last)
  PROVE  /\ send(x, last + 1, started) \in SessionState
         /\ SessionOK(send(x, last + 1, started), TRUE, at, last + 1)
<1> DEFINE y == [x EXCEPT !.writeQueue = Append(@, last + 1),
                          !.early = @ \/ x.stream = "handshake"]
           z == [y EXCEPT !.writing = TRUE]
<1>1. /\ Len(y.writeQueue) = Len(x.writeQueue) + 1
      /\ DOMAIN y.writeQueue = 1..(Len(x.writeQueue) + 1)
      /\ DOMAIN x.writeQueue = 1..Len(x.writeQueue) /\ Len(x.writeQueue) \in Nat
      /\ y.writeQueue[Len(x.writeQueue) + 1] = last + 1
      /\ \A i \in DOMAIN x.writeQueue : y.writeQueue[i] = x.writeQueue[i]
  BY DEF SessionState
<1>2. y \in SessionState /\ z \in SessionState
  <2>1. Append(x.writeQueue, last + 1) \in Seq(Event)
    BY DEF SessionState
  <2>2. (x.early \/ x.stream = "handshake") \in BOOLEAN
    OBVIOUS
  <2> QED BY <2>1, <2>2 DEF SessionState
<1>3. /\ y.stream = x.stream /\ y.operation = x.operation /\ y.writes = x.writes
      /\ y.received = x.received /\ y.writing = x.writing
      /\ y.early = (x.early \/ x.stream = "handshake")
  BY DEF SessionState
<1>4. /\ z.stream = y.stream /\ z.operation = y.operation /\ z.writes = y.writes
      /\ z.received = y.received /\ z.writing /\ z.early = y.early
      /\ z.writeQueue = y.writeQueue
  BY DEF SessionState
<1>5. QueueOK(y, last + 1) /\ QueueOK(z, last + 1)
  <2>1. QueueOK(x, last)
    BY DEF SessionOK
  <2> QED BY <2>1, <1>1, <1>3, <1>4 DEF QueueOK
<1>6. OperationOK(y, TRUE, at) /\ OperationOK(z, TRUE, at)
  BY <1>3, <1>4 DEF SessionOK, OperationOK
<1>7. ReceivedOK(y, last + 1) /\ ReceivedOK(z, last + 1)
  <2>1. last + 1 - Len(y.writeQueue) = last - Len(x.writeQueue)
    BY <1>1
  <2>2. /\ Pending(y) <=> Pending(x)
        /\ Pending(z) <=> Pending(x)
        /\ Failed(y) <=> Failed(x)
        /\ Failed(z) <=> Failed(x)
    BY <1>3, <1>4 DEF Pending, Failed
  <2> QED BY <2>1, <2>2, <1>3, <1>4 DEF SessionOK, ReceivedOK
<1>8. CASE x.writing
  <2>1. send(x, last + 1, started) = y
    BY <1>8 DEF send
  <2>2. WriterOK(y, at) /\ EarlyOK(y, at)
    BY <1>8, <1>3 DEF SessionOK, WriterOK, EarlyOK, Failed
  <2> QED BY <2>1, <2>2, <1>2, <1>5, <1>6, <1>7 DEF SessionOK
<1>9. CASE ~x.writing
  <2>1. send(x, last + 1, started) = doWrite(z, started)
    BY <1>9 DEF send
  <2>2. x.writes = {} /\ started \in WriteStarts(z)
    BY <1>9, <1>3, <1>4 DEF SessionOK, WriterOK, WriteStarts
  <2>3. z.writes = {} /\ z.writing /\ ~(~z.early /\ z.stream = "handshake")
    BY <2>2, <1>3, <1>4
  <2> HIDE DEF y, z
  <2>4. doWrite(z, started) \in SessionState /\ SessionOK(doWrite(z, started), TRUE, at, last + 1)
    BY <2>2, <2>3, <1>2, <1>5, <1>6, <1>7, last + 1 \in Nat, DoWriteKeeps
  <2> QED BY <2>1, <2>4
<1> QED BY <1>8, <1>9

\* What only gives a session another operation, or the thread another place.
LEMMA OperationChanges ==
  ASSUME NEW x \in SessionState, NEW y \in SessionState,
         y = [x EXCEPT !.operation = y.operation],
         NEW in \in BOOLEAN, NEW in2 \in BOOLEAN, in2 => in \/ x = NewSession,
         NEW at, at \notin InWrite, NEW at2, at2 \notin InWrite, NEW last \in Nat,
         SessionOK(x, in, at, last), OperationOK(y, in2, at2)
  PROVE  SessionOK(y, in2, at2, last)
<1>1. /\ y.stream = x.stream /\ y.writeQueue = x.writeQueue /\ y.writing = x.writing
      /\ y.writes = x.writes /\ y.received = x.received /\ y.early = x.early
  BY DEF SessionState
<1>2. WriterOK(y, at2)
  BY <1>1 DEF SessionOK, WriterOK
<1>3. in2 => QueueOK(y, last)
  <2>1. CASE in
    BY <2>1, <1>1 DEF SessionOK, QueueOK
  <2>2. CASE x = NewSession
    BY <2>2, <1>1 DEF NewSession, QueueOK
  <2> QED BY <2>1, <2>2
<1>4. ReceivedOK(y, last) /\ EarlyOK(y, at2)
  <2>1. at2 # "writeFailed" /\ (Pending(y) <=> Pending(x)) /\ (Failed(y) <=> Failed(x))
    BY <1>1 DEF InWrite, Pending, Failed
  <2> QED BY <2>1, <1>1 DEF SessionOK, ReceivedOK, EarlyOK
<1> QED BY <1>2, <1>3, <1>4 DEF SessionOK

\* Of a session that is not in the list nothing depends on the broadcasts.
LEMMA NotInTheList ==
  ASSUME NEW x, NEW at, NEW m, NEW n, SessionOK(x, FALSE, at, m)
  PROVE  SessionOK(x, FALSE, at, n)
<1>1. x.stream # "open"
  BY DEF SessionOK, OperationOK, NewSession
<1> QED BY <1>1 DEF SessionOK, ReceivedOK

LEMMA NewSessionIsOK ==
  ASSUME NEW at \in {"idle", "adding"}, NEW last
  PROVE  NewSession \in SessionState /\ SessionOK(NewSession, FALSE, at, last)
<1>1. NewSession \in SessionState
  BY DEF NewSession, SessionState, Operation
<1>2. WriterOK(NewSession, at) /\ OperationOK(NewSession, FALSE, at)
  BY DEF NewSession, WriterOK, OperationOK, InWrite, InCommand
<1>3. ReceivedOK(NewSession, last) /\ EarlyOK(NewSession, at)
  BY DEF NewSession, ReceivedOK, EarlyOK, Contiguous, Pending, Failed
<1> QED BY <1>1, <1>2, <1>3 DEF SessionOK

-----------------------------------------------------------------------------
\* The handler of a write, and the network, on a session's state.

LEMMA WriteHandledKeeps ==
  ASSUME NEW x \in SessionState, NEW in \in BOOLEAN, NEW last \in Nat,
         SessionOK(x, in, "idle", last), NEW w \in x.writes, w.status # "pending",
         NEW y, y = [x EXCEPT !.writes = @ \ {w}],
         NEW at, at = IF w.status = "ok" THEN "writeOk" ELSE "writeFailed"
  PROVE  y \in SessionState /\ SessionOK(y, in, at, last)
<1>1. /\ y.stream = x.stream /\ y.writeQueue = x.writeQueue /\ y.writing = x.writing
      /\ y.operation = x.operation /\ y.received = x.received /\ y.early = x.early
      /\ y.writes = x.writes \ {w}
  BY DEF SessionState
<1>2. x.writes = {w} /\ y.writes = {} /\ x.writing
  BY <1>1 DEF SessionOK, WriterOK, InWrite
<1>3. w.status = "ok" \/ w.status = "failed"
  BY DEF SessionState, Write
<1>4. y \in SessionState
  BY DEF SessionState
<1>5. WriterOK(y, at)
  BY <1>1, <1>2 DEF WriterOK, InWrite
<1>6. OperationOK(y, in, at)
  BY <1>1, <1>2 DEF SessionOK, OperationOK, InCommand, NewSession
<1>7. in => QueueOK(y, last)
  BY <1>1, <1>2 DEF SessionOK, QueueOK
<1>8. ~Pending(x) /\ ~Pending(y) /\ ~Failed(y) /\ (Failed(x) <=> at = "writeFailed")
  BY <1>2, <1>3 DEF Pending, Failed
<1>9. ReceivedOK(y, last) /\ EarlyOK(y, at)
  BY <1>1, <1>2, <1>8 DEF SessionOK, ReceivedOK, EarlyOK
<1> QED BY <1>4, <1>5, <1>6, <1>7, <1>9 DEF SessionOK

LEMMA WriteFailedKeeps ==
  ASSUME NEW x \in SessionState, NEW in \in BOOLEAN, NEW last \in Nat,
         SessionOK(x, in, "writeFailed", last),
         NEW y, y = [x EXCEPT !.writing = FALSE]
  PROVE  y \in SessionState /\ SessionOK(y, in, "idle", last)
<1>1. /\ y.stream = x.stream /\ y.writeQueue = x.writeQueue /\ y.writing = FALSE
      /\ y.operation = x.operation /\ y.received = x.received /\ y.early = x.early
      /\ y.writes = x.writes
  BY DEF SessionState
<1>2. x.writes = {} /\ x.writing
  BY DEF SessionOK, WriterOK, InWrite
<1>3. y \in SessionState
  BY DEF SessionState
<1>4. WriterOK(y, "idle") /\ OperationOK(y, in, "idle")
  BY <1>1, <1>2 DEF SessionOK, WriterOK, OperationOK, InWrite, InCommand, NewSession
<1>5. in => QueueOK(y, last)
  BY <1>1 DEF SessionOK, QueueOK
<1>6. (Pending(y) <=> Pending(x)) /\ (Failed(y) <=> Failed(x))
  BY <1>1 DEF Pending, Failed
<1>7. ReceivedOK(y, last) /\ EarlyOK(y, "idle")
  BY <1>1, <1>2, <1>6 DEF SessionOK, ReceivedOK, EarlyOK
<1> QED BY <1>3, <1>4, <1>5, <1>7 DEF SessionOK

LEMMA WriteOkKeeps ==
  ASSUME NEW x \in SessionState, NEW in \in BOOLEAN, NEW last \in Nat,
         SessionOK(x, in, "writeOk", last), NEW started \in WriteStarts(x)
  PROVE  /\ doWrite(x, started) \in SessionState
         /\ SessionOK(doWrite(x, started), in, "idle", last)
<1>1. x.writes = {} /\ x.writing /\ "idle" \notin InWrite
  BY DEF SessionOK, WriterOK, InWrite
<1>2. OperationOK(x, in, "idle") /\ (x.stream = "open" => in)
  BY DEF SessionOK, OperationOK, InCommand, NewSession
<1>3. /\ in => QueueOK(x, last)
      /\ ReceivedOK(x, last)
      /\ ~x.early /\ x.stream = "handshake" => x.writeQueue = <<>>
  BY DEF SessionOK, EarlyOK
<1> QED BY <1>1, <1>2, <1>3, DoWriteKeeps

LEMMA HandshakeKeeps ==
  ASSUME NEW x \in SessionState, NEW in \in BOOLEAN, NEW at, NEW last \in Nat,
         SessionOK(x, in, at, last), x.operation = "accepting",
         NEW y, \/ y = [x EXCEPT !.operation = "accepted", !.stream = "open"]
                \/ y = [x EXCEPT !.operation = "refused", !.stream = "broken"]
  PROVE  y \in SessionState /\ SessionOK(y, in, at, last)
<1>1. /\ y.writeQueue = x.writeQueue /\ y.writing = x.writing
      /\ y.received = x.received /\ y.early = x.early /\ y.writes = x.writes
      /\ \/ y.operation = "accepted" /\ y.stream = "open"
         \/ y.operation = "refused" /\ y.stream = "broken"
  BY DEF SessionState
<1>2. y \in SessionState
  BY DEF SessionState, Operation
<1>3. WriterOK(y, at)
  BY <1>1 DEF SessionOK, WriterOK
<1>4. x.stream = "handshake" /\ in /\ at \notin InCommand /\ at # "adding" /\ at # "removing"
  BY DEF SessionOK, OperationOK, InCommand, NewSession
<1>5. OperationOK(y, in, at)
  BY <1>1, <1>4 DEF OperationOK
<1>6. QueueOK(y, last)
  BY <1>1, <1>4 DEF SessionOK, QueueOK
<1>7. /\ x.received = <<>> /\ ~Pending(y) /\ ~Pending(x)
      /\ Failed(y) <=> Failed(x)
  BY <1>1, <1>4 DEF SessionOK, ReceivedOK, Pending, Failed
<1>8. ReceivedOK(y, last)
  BY <1>1, <1>4, <1>7 DEF SessionOK, ReceivedOK, EndsWith
<1>9. EarlyOK(y, at)
  BY <1>1, <1>4, <1>7 DEF SessionOK, EarlyOK
<1> QED BY <1>2, <1>3, <1>5, <1>6, <1>8, <1>9 DEF SessionOK

LEMMA WriteGoesKeeps ==
  ASSUME NEW x \in SessionState, NEW in \in BOOLEAN, NEW at, NEW last \in Nat,
         SessionOK(x, in, at, last), NEW w \in x.writes, w.status = "pending",
         NEW intact \in BOOLEAN,
         NEW y, y = Arrives([x EXCEPT !.writes = (@ \ {w}) \cup {[w EXCEPT !.status = "ok"]}],
                            w.event, intact)
  PROVE  y \in SessionState /\ SessionOK(y, in, at, last)
<1> DEFINE v == [w EXCEPT !.status = "ok"]
           e == [event |-> w.event, intact |-> intact]
<1>1. /\ w \in Write /\ v \in Write /\ v.event = w.event /\ v.status = "ok"
      /\ e \in Received /\ e.event = w.event /\ w.event \in Nat
  BY EventsAreNumbers DEF SessionState, Write, Received
<1>2. /\ y.stream = x.stream /\ y.writeQueue = x.writeQueue /\ y.writing = x.writing
      /\ y.operation = x.operation /\ y.early = x.early
      /\ y.received = Append(x.received, e) /\ y.writes = (x.writes \ {w}) \cup {v}
  BY DEF SessionState, Arrives
<1>3. x.writes = {w} /\ y.writes = {v} /\ x.writing /\ at \notin InWrite
  <2>1. x.writes = {w} /\ x.writing /\ at \notin InWrite
    BY DEF SessionOK, WriterOK
  <2> HIDE DEF v, e
  <2> QED BY <2>1, <1>2
<1>4. y \in SessionState
  <2>1. Append(x.received, e) \in Seq(Received)
    <3> HIDE DEF e
    <3> QED BY <1>1 DEF SessionState
  <2> QED BY <2>1, <1>1 DEF SessionState, Arrives
<1> HIDE DEF v, e
<1>5. WriterOK(y, at)
  BY <1>2, <1>3 DEF WriterOK
<1>6. OperationOK(y, in, at)
  BY <1>2, <1>3 DEF SessionOK, OperationOK, NewSession
<1>7. x.stream = "open" /\ in /\ Pending(x) /\ ~Pending(y) /\ ~Failed(y)
  <2>1. Pending(x) /\ ~Pending(y) /\ ~Failed(y)
    BY <1>1, <1>3 DEF Pending, Failed
  <2>2. x.stream = "open"
    BY <2>1 DEF SessionOK, ReceivedOK
  <2>3. in
    BY <2>2 DEF SessionOK, OperationOK, NewSession
  <2> QED BY <2>1, <2>2, <2>3
<1>8. QueueOK(y, last) /\ w.event = last - Len(y.writeQueue)
  BY <1>1, <1>2, <1>3, <1>7 DEF SessionOK, QueueOK
<1>9. ReceivedOK(y, last)
  <2>1. x.received \in Seq(Received) /\ Len(y.writeQueue) \in Nat
    BY <1>4 DEF SessionState
  <2>2. Contiguous(x.received) /\ EndsWith(x.received, e.event - 1)
    BY <1>1, <1>2, <1>7, <1>8 DEF SessionOK, ReceivedOK
  <2>3. Contiguous(y.received) /\ EndsWith(y.received, w.event)
    BY <2>1, <2>2, <1>1, <1>2, RunGrows
  <2>4. w.event = last - Len(y.writeQueue) - 0
    BY <2>1, <1>8
  <2> QED BY <2>3, <2>4, <1>2, <1>7 DEF ReceivedOK
<1>10. EarlyOK(y, at)
  BY <1>2, <1>3, <1>7 DEF SessionOK, EarlyOK
<1> QED BY <1>4, <1>5, <1>6, <1>8, <1>9, <1>10 DEF SessionOK

LEMMA BreaksKeeps ==
  ASSUME NEW x \in SessionState, NEW in \in BOOLEAN, NEW at, NEW last \in Nat,
         SessionOK(x, in, at, last), x.stream = "open",
         NEW y, y = [x EXCEPT
           !.stream = "broken",
           !.operation = IF @ = "reading" THEN "failed" ELSE @,
           !.writes = {[w EXCEPT !.status = IF @ = "pending" THEN "failed" ELSE @] : w \in @}]
  PROVE  y \in SessionState /\ SessionOK(y, in, at, last)
<1> DEFINE F(w) == [w EXCEPT !.status = IF @ = "pending" THEN "failed" ELSE @]
<1>1. /\ y.stream = "broken" /\ y.writeQueue = x.writeQueue /\ y.writing = x.writing
      /\ y.operation = IF x.operation = "reading" THEN "failed" ELSE x.operation
      /\ y.early = x.early /\ y.received = x.received
      /\ y.writes = {F(w) : w \in x.writes}
  BY DEF SessionState
<1>2. \A w \in Write : F(w) \in Write /\ F(w).event = w.event /\ F(w).status # "pending"
  BY DEF Write
<1>3. x.writes \subseteq Write
  BY DEF SessionState
<1> HIDE DEF F
<1>4. y \in SessionState
  <2>1. {F(w) : w \in x.writes} \in SUBSET Write
    BY <1>2, <1>3
  <2>2. y = [x EXCEPT !.stream = "broken",
                      !.operation = IF @ = "reading" THEN "failed" ELSE @,
                      !.writes = {F(w) : w \in x.writes}]
    BY DEF F, SessionState
  <2> QED BY <2>1, <2>2 DEF SessionState, Operation
<1>5. WriterOK(y, at)
  <2>1. CASE x.writes = {}
    BY <2>1, <1>1 DEF SessionOK, WriterOK
  <2>2. CASE \E w \in x.writes : x.writes = {w}
    <3>1. PICK w \in x.writes : x.writes = {w}
      BY <2>2
    <3>2. y.writes = {F(w)}
      BY <3>1, <1>1
    <3> QED BY <3>1, <3>2, <1>1 DEF SessionOK, WriterOK
  <2> QED BY <2>1, <2>2 DEF SessionOK, WriterOK
<1>6. OperationOK(y, in, at)
  BY <1>1 DEF SessionOK, OperationOK, NewSession
<1>7. in => QueueOK(y, last)
  BY <1>1, <1>2, <1>3 DEF SessionOK, QueueOK
<1>8. ReceivedOK(y, last) /\ EarlyOK(y, at)
  BY <1>1, <1>2, <1>3 DEF SessionOK, ReceivedOK, EarlyOK, Pending
<1> QED BY <1>4, <1>5, <1>6, <1>7, <1>8 DEF SessionOK

-----------------------------------------------------------------------------
\* An action on one session.  What is said of the others stays.
LEMMA OthersKeep ==
  ASSUME LinkInv, NEW s \in Session, NEW x \in SessionState, Becomes(s, x),
         \A t \in Session \ {s} : /\ Listed(t)' = Listed(t)
                                  /\ At(t)' = At(t) /\ LastSent(t)' = LastSent(t),
         SessionOK(x, Listed(s)', At(s)', LastSent(s)')
  PROVE  /\ session' \in [Session -> SessionState]
         /\ \A t \in Session : SessionOK(session[t], Listed(t), At(t), LastSent(t))'
<1>1. session \in [Session -> SessionState]
  BY DEF LinkInv, LinkTypeOK
<1>2. session' \in [Session -> SessionState] /\ session'[s] = x
  BY <1>1 DEF Becomes
<1>3. ASSUME NEW t \in Session, t # s
      PROVE  SessionOK(session'[t], Listed(t)', At(t)', LastSent(t)')
  <2>1. session'[t] = session[t]
    BY <1>1, <1>3 DEF Becomes
  <2>2. SessionOK(session[t], Listed(t), At(t), LastSent(t))
    BY DEF LinkInv
  <2>3. /\ Listed(t)' = Listed(t)
        /\ At(t)' = At(t) /\ LastSent(t)' = LastSent(t)
    BY <1>3
  <2> QED BY <2>1, <2>2, <2>3
<1> QED BY <1>2, <1>3

\* The numbers, and where the thread of the handlers is.
LEMMA Numbers ==
  ASSUME LinkInv, NEW s \in Session
  PROVE  /\ posted \in Nat /\ LastSent(s) \in Nat
         /\ broadcast # NoOne => posted \in Event
         /\ session[s] \in SessionState /\ Listed(s) \in BOOLEAN
         /\ SessionOK(session[s], Listed(s), At(s), LastSent(s))
         /\ NoOne \notin Session /\ ws \in [at : Place, with : Session \cup {NoOne}]
<1>1. posted \in Nat
  BY LinkAssumption DEF LinkInv, LinkTypeOK
<1>2. broadcast # NoOne => posted \in Event /\ posted - 1 \in Nat
  BY LinkAssumption DEF LinkInv, LinkTypeOK, ThreadsOK, Event
<1>3. NoOne \notin Session
  BY LinkAssumption
<1> QED BY <1>1, <1>2, <1>3 DEF LinkInv, LinkTypeOK, LastSent, Listed

\* The thread goes from one place to another with session s, or leaves it.
LEMMA ThreadMoves ==
  ASSUME LinkInv, NEW s \in Session, ws.with \in {s, NoOne}, UNCHANGED <<broadcast, posted>>,
         ws' = Idle \/ \E place \in Place \ {"idle", "broadcasting"} : ws' = Busy(place, s),
         ws.at # "broadcasting", sessions \subseteq sessions' \/ broadcast = NoOne,
         sessions' \subseteq Session
  PROVE  /\ ThreadsOK' /\ LastSent(s)' = LastSent(s)
         /\ \A t \in Session \ {s} : At(t)' = At(t) /\ LastSent(t)' = LastSent(t)
         /\ ws' \in [at : Place, with : Session \cup {NoOne}]
         /\ ws' = Idle => At(s)' = "idle"
         /\ ws' # Idle => At(s)' = ws'.at
<1>1. NoOne \notin Session /\ ws \in [at : Place, with : Session \cup {NoOne}] /\ ThreadsOK
  BY Numbers DEF LinkInv
<1>2. /\ ws' \in [at : Place, with : Session \cup {NoOne}]
      /\ ws'.at = "idle" <=> ws'.with = NoOne
      /\ ws'.at # "broadcasting" /\ ws'.with \in {s, NoOne}
      /\ ws' = Idle => ws'.with = NoOne /\ ws'.at = "idle"
      /\ ws' # Idle => ws'.with = s
  BY <1>1 DEF Idle, Busy, Place
<1>3. ThreadsOK'
  BY <1>1, <1>2 DEF ThreadsOK
<1>4. \A t \in Session : LastSent(t)' = LastSent(t)
  BY DEF LastSent
<1>5. \A t \in Session \ {s} : At(t)' = At(t)
  BY <1>1, <1>2 DEF At
<1> QED BY <1>1, <1>2, <1>3, <1>4, <1>5 DEF At

LEMMA HandlerKeeps ==
  ASSUME LinkInv, NEW s \in Session, NEW x \in SessionState, Becomes(s, x),
         ws.with \in {s, NoOne}, ws.at # "broadcasting", UNCHANGED <<broadcast, posted>>,
         NEW place \in Place \ {"broadcasting"},
         ws' = IF place = "idle" THEN Idle ELSE Busy(place, s),
         sessions \subseteq sessions' \/ broadcast = NoOne, sessions' \subseteq Session,
         \A t \in Session \ {s} : t \in sessions' <=> t \in sessions,
         NEW in \in BOOLEAN, in = Listed(s)', SessionOK(x, in, place, LastSent(s))
  PROVE  LinkInv'
<1>1. /\ place = "idle" => ws' = Idle
      /\ place # "idle" => ws' = Busy(place, s) /\ ws' # Idle /\ ws'.at = place
  BY DEF Busy, Idle
<1>2. /\ ThreadsOK' /\ LastSent(s)' = LastSent(s) /\ At(s)' = place
      /\ \A t \in Session \ {s} : At(t)' = At(t) /\ LastSent(t)' = LastSent(t)
      /\ ws' \in [at : Place, with : Session \cup {NoOne}]
  BY <1>1, ThreadMoves
<1>3. \A t \in Session \ {s} : Listed(t)' = Listed(t)
  BY DEF Listed
<1>4. SessionOK(x, Listed(s)', At(s)', LastSent(s)')
  BY <1>2
<1>5. /\ session' \in [Session -> SessionState]
      /\ \A t \in Session : SessionOK(session[t], Listed(t), At(t), LastSent(t))'
  BY <1>2, <1>3, <1>4, OthersKeep
<1> QED BY <1>2, <1>5 DEF LinkInv, LinkTypeOK

LEMMA AcceptKeeps == ASSUME LinkInv, NEW s \in Session, Accept(s) PROVE LinkInv'
<1>1. ws.with = NoOne /\ ws.at = "idle" /\ Listed(s)' = FALSE /\ sessions' \subseteq Session
  BY DEF Accept, Destroyed, Idle, LinkInv, LinkTypeOK, Listed
<1>2. ws' = Busy("adding", s) /\ "adding" \in Place \ {"broadcasting"}
  BY DEF Accept, Place
<1>3. NewSession \in SessionState /\ SessionOK(NewSession, FALSE, "adding", LastSent(s))
  BY NewSessionIsOK
<1> QED BY <1>1, <1>2, <1>3, HandlerKeeps DEF Accept

LEMMA AddSessionKeeps == ASSUME LinkInv, NEW s \in Session, AddSession(s) PROVE LinkInv'
<1> DEFINE x == session[s]
           y == [x EXCEPT !.operation = "accepting"]
<1>1. ws.with = s /\ ws.at = "adding" /\ At(s) = "adding" /\ sessions' \subseteq Session
  BY DEF AddSession, Busy, At, LinkInv, LinkTypeOK
<1>2. SessionOK(x, Listed(s), "adding", LastSent(s)) /\ x \in SessionState /\ LastSent(s) \in Nat
  BY <1>1, Numbers
<1>3. x = NewSession /\ Listed(s) = FALSE
  BY <1>2 DEF SessionOK, OperationOK, Listed
<1>4. y \in SessionState /\ OperationOK(y, TRUE, "idle")
  <2>1. y \in SessionState
    BY <1>2 DEF SessionState, Operation
  <2>2. /\ y.operation = "accepting" /\ y.stream = "handshake"
    BY <1>2, <1>3 DEF SessionState, NewSession
  <2> HIDE DEF y
  <2> QED BY <2>1, <2>2 DEF OperationOK, InCommand
<1>5. SessionOK(x, FALSE, "adding", LastSent(s))
  BY <1>3, NewSessionIsOK
<1>6. SessionOK(y, TRUE, "idle", LastSent(s))
  <2> HIDE DEF x, y
  <2>1. y = [x EXCEPT !.operation = y.operation]
    BY <1>2 DEF y, SessionState
  <2>2. "adding" \notin InWrite /\ "idle" \notin InWrite
    BY DEF InWrite
  <2> QED BY <1>2, <1>3, <1>4, <1>5, <2>1, <2>2, OperationChanges
<1>7. ws' = Idle /\ "idle" \in Place \ {"broadcasting"} /\ Listed(s)' = TRUE
  BY DEF AddSession, Place, Listed
<1> QED BY <1>1, <1>4, <1>6, <1>7, HandlerKeeps DEF AddSession

\* The handlers that only give the session another operation.
LEMMA PlainHandlerKeeps ==
  ASSUME LinkInv, NEW s \in Session, NEW op \in Operation,
         Becomes(s, [session[s] EXCEPT !.operation = op]),
         ws.with \in {s, NoOne}, ws.at # "broadcasting", UNCHANGED <<sessions, broadcast, posted>>,
         NEW place \in Place \ {"broadcasting"}, place \notin InWrite, At(s) \notin InWrite,
         ws' = IF place = "idle" THEN Idle ELSE Busy(place, s),
         OperationOK([session[s] EXCEPT !.operation = op], Listed(s), place)
  PROVE  LinkInv'
<1> DEFINE x == session[s]
           y == [x EXCEPT !.operation = op]
<1>1. /\ SessionOK(x, Listed(s), At(s), LastSent(s)) /\ x \in SessionState
      /\ LastSent(s) \in Nat /\ Listed(s) \in BOOLEAN
  BY Numbers
<1>2. y \in SessionState /\ y = [x EXCEPT !.operation = y.operation]
  BY <1>1 DEF SessionState
<1>3. SessionOK(y, Listed(s), place, LastSent(s))
  <2>1. OperationOK(y, Listed(s), place)
    OBVIOUS
  <2> HIDE DEF x, y
  <2> QED BY <1>1, <1>2, <2>1, OperationChanges
<1>4. Listed(s)' = Listed(s) /\ sessions' \subseteq Session
  BY DEF LinkInv, LinkTypeOK, Listed
<1>5. Becomes(s, y)
  OBVIOUS
<1> HIDE DEF x, y
<1> QED BY <1>1, <1>2, <1>3, <1>4, <1>5, HandlerKeeps

LEMMA AcceptHandledKeeps == ASSUME LinkInv, NEW s \in Session, AcceptHandled(s) PROVE LinkInv'
<1> DEFINE x == session[s]
<1>1. /\ ws.with = NoOne /\ ws.at = "idle" /\ At(s) = "idle" /\ "idle" \notin InWrite /\ ws' = Idle
      /\ "idle" \in Place \ {"broadcasting"}
  BY Numbers DEF AcceptHandled, Idle, At, InWrite, Place
<1>2. SessionOK(x, Listed(s), "idle", LastSent(s)) /\ x \in SessionState
  BY <1>1, Numbers
<1>3. OperationOK(x, Listed(s), "idle")
  BY <1>2 DEF SessionOK
<1>4. PICK op \in {"reading", "failed", "abandoned"} :
        /\ Becomes(s, [x EXCEPT !.operation = op])
        /\ \/ x.operation = "accepted" /\ op = IF x.stream = "open" THEN "reading" ELSE "failed"
           \/ x.operation = "refused" /\ op = "abandoned"
  BY DEF AcceptHandled, doRead
<1>5. OperationOK([x EXCEPT !.operation = op], Listed(s), "idle") /\ op \in Operation
  BY <1>2, <1>3, <1>4 DEF OperationOK, Operation, SessionState, InCommand, NewSession
<1> QED BY <1>1, <1>4, <1>5, PlainHandlerKeeps DEF AcceptHandled

LEMMA CommandHandledKeeps == ASSUME LinkInv, NEW s \in Session, CommandHandled(s) PROVE LinkInv'
<1> DEFINE x == session[s]
<1>1. /\ ws.with = NoOne /\ ws.at = "idle" /\ At(s) = "idle" /\ "idle" \notin InWrite
      /\ "command" \in Place \ {"broadcasting", "idle"} /\ "command" \notin InWrite
      /\ ws' = Busy("command", s)
  BY Numbers DEF CommandHandled, Idle, At, InWrite, Place
<1>2. OperationOK(x, Listed(s), "idle") /\ x \in SessionState /\ x.operation = "command"
  BY <1>1, Numbers DEF SessionOK, CommandHandled
<1>3. OperationOK([x EXCEPT !.operation = "none"], Listed(s), "command") /\ "none" \in Operation
  BY <1>2 DEF OperationOK, Operation, SessionState, InCommand, NewSession
<1> QED BY <1>1, <1>3, PlainHandlerKeeps DEF CommandHandled

LEMMA CommandEndsKeeps == ASSUME LinkInv, NEW s \in Session, CommandEnds(s) PROVE LinkInv'
<1> DEFINE x == session[s]
           op == IF x.stream = "open" THEN "reading" ELSE "failed"
<1>1. /\ ws.with = s /\ ws.at = "command" /\ At(s) = "command" /\ "command" \notin InWrite
      /\ "idle" \in Place \ {"broadcasting"} /\ "idle" \notin InWrite /\ ws' = Idle
  BY DEF CommandEnds, Busy, At, InWrite, Place
<1>2. OperationOK(x, Listed(s), "command") /\ x \in SessionState
  BY <1>1, Numbers DEF SessionOK
<1>3. /\ OperationOK([x EXCEPT !.operation = op], Listed(s), "idle") /\ op \in Operation
      /\ Becomes(s, [x EXCEPT !.operation = op])
  BY <1>2 DEF OperationOK, Operation, SessionState, InCommand, NewSession, CommandEnds, doRead
<1> HIDE DEF op
<1> QED BY <1>1, <1>3, PlainHandlerKeeps DEF CommandEnds

LEMMA ReadFailedKeeps == ASSUME LinkInv, NEW s \in Session, ReadFailed(s) PROVE LinkInv'
<1> DEFINE x == session[s]
<1>1. /\ ws.with = NoOne /\ ws.at = "idle" /\ At(s) = "idle" /\ "idle" \notin InWrite
      /\ "removing" \in Place \ {"broadcasting", "idle"} /\ "removing" \notin InWrite
      /\ ws' = Busy("removing", s)
  BY Numbers DEF ReadFailed, Idle, At, InWrite, Place
<1>2. OperationOK(x, Listed(s), "idle") /\ x \in SessionState /\ x.operation = "failed"
  BY <1>1, Numbers DEF SessionOK, ReadFailed
<1>3. OperationOK([x EXCEPT !.operation = "none"], Listed(s), "removing") /\ "none" \in Operation
  BY <1>2 DEF OperationOK, Operation, SessionState, InCommand, NewSession
<1> QED BY <1>1, <1>3, PlainHandlerKeeps DEF ReadFailed

LEMMA RemoveSessionKeeps == ASSUME LinkInv, NEW s \in Session, RemoveSession(s) PROVE LinkInv'
<1> DEFINE x == session[s]
<1>1. /\ ws.with = s /\ ws.at = "removing" /\ At(s) = "removing" /\ sessions' \subseteq Session
      /\ "removing" \notin InWrite /\ "idle" \notin InWrite
  BY DEF RemoveSession, Busy, At, LinkInv, LinkTypeOK, InWrite
<1>2. SessionOK(x, Listed(s), "removing", LastSent(s)) /\ x \in SessionState
      /\ LastSent(s) \in Nat /\ Listed(s) \in BOOLEAN
  BY <1>1, Numbers
<1>3. OperationOK(x, FALSE, "idle") /\ x.operation \in Operation
  BY <1>2 DEF SessionOK, OperationOK, InCommand, SessionState
<1>4. SessionOK(x, FALSE, "idle", LastSent(s)) /\ Becomes(s, x)
  <2>1. x = [x EXCEPT !.operation = x.operation]
    BY <1>2 DEF SessionState
  <2>2. Becomes(s, x)
    BY DEF RemoveSession, Becomes, LinkInv, LinkTypeOK
  <2> HIDE DEF x
  <2>3. SessionOK(x, FALSE, "idle", LastSent(s))
    BY <2>1, <1>1, <1>2, <1>3, OperationChanges
  <2> QED BY <2>2, <2>3
<1>5. ws' = Idle /\ "idle" \in Place \ {"broadcasting"} /\ Listed(s)' = FALSE
  BY DEF RemoveSession, Place, Listed
<1> QED BY <1>1, <1>2, <1>4, <1>5, HandlerKeeps DEF RemoveSession

LEMMA WriteHandlerKeeps ==
  ASSUME LinkInv, NEW s \in Session
  PROVE  /\ (\E w \in session[s].writes : WriteHandled(s, w)) => LinkInv'
         /\ WriteOk(s) => LinkInv'
         /\ WriteFailed(s) => LinkInv'
<1> DEFINE x == session[s]
<1>1. /\ SessionOK(x, Listed(s), At(s), LastSent(s)) /\ x \in SessionState
      /\ LastSent(s) \in Nat /\ Listed(s) \in BOOLEAN
      /\ "idle" \in Place \ {"broadcasting"}
  BY Numbers DEF Place
<1>2. ASSUME NEW w \in x.writes, WriteHandled(s, w) PROVE LinkInv'
  <2> DEFINE y == [x EXCEPT !.writes = @ \ {w}]
             at == IF w.status = "ok" THEN "writeOk" ELSE "writeFailed"
  <2>1. /\ ws.with = NoOne /\ ws.at = "idle" /\ At(s) = "idle" /\ w.status # "pending"
        /\ at \in Place \ {"broadcasting", "idle"} /\ ws' = Busy(at, s)
        /\ Listed(s)' = Listed(s) /\ sessions' \subseteq Session
    BY <1>2, Numbers DEF WriteHandled, Idle, At, Place, LinkInv, LinkTypeOK, Listed
  <2>2. y \in SessionState /\ SessionOK(y, Listed(s), at, LastSent(s))
    <3> HIDE DEF x
    <3> QED BY <2>1, <1>1, WriteHandledKeeps
  <2>3. Becomes(s, y) /\ UNCHANGED <<sessions, broadcast, posted>>
    BY <1>2 DEF WriteHandled
  <2> HIDE DEF at, x, y
  <2> QED BY <1>1, <2>1, <2>2, <2>3, HandlerKeeps
<1>3. ASSUME WriteOk(s) PROVE LinkInv'
  <2>1. /\ ws.with = s /\ ws.at = "writeOk" /\ At(s) = "writeOk" /\ ws' = Idle
        /\ Listed(s)' = Listed(s) /\ sessions' \subseteq Session
    BY <1>3 DEF WriteOk, Busy, At, LinkInv, LinkTypeOK, Listed
  <2>2. PICK started \in WriteStarts(x) : Becomes(s, doWrite(x, started))
    BY <1>3 DEF WriteOk
  <2>3. /\ doWrite(x, started) \in SessionState
        /\ SessionOK(doWrite(x, started), Listed(s), "idle", LastSent(s))
    <3> HIDE DEF x
    <3> QED BY <2>1, <2>2, <1>1, WriteOkKeeps
  <2> QED BY <1>1, <1>3, <2>1, <2>2, <2>3, HandlerKeeps DEF WriteOk
<1>4. ASSUME WriteFailed(s) PROVE LinkInv'
  <2> DEFINE y == [x EXCEPT !.writing = FALSE]
  <2>1. /\ ws.with = s /\ ws.at = "writeFailed" /\ At(s) = "writeFailed" /\ ws' = Idle
        /\ Listed(s)' = Listed(s) /\ sessions' \subseteq Session
    BY <1>4 DEF WriteFailed, Busy, At, LinkInv, LinkTypeOK, Listed
  <2>2. y \in SessionState /\ SessionOK(y, Listed(s), "idle", LastSent(s))
    <3> HIDE DEF x
    <3> QED BY <2>1, <1>1, WriteFailedKeeps
  <2> QED BY <1>1, <1>4, <2>1, <2>2, HandlerKeeps DEF WriteFailed
<1> QED BY <1>2, <1>3, <1>4

-----------------------------------------------------------------------------
\* The network, and broadcasts.

LEMMA NetworkKeeps ==
  ASSUME LinkInv, NEW s \in Session, Network(s)
  PROVE  LinkInv'
<1> DEFINE x == session[s]
<1>1. /\ SessionOK(x, Listed(s), At(s), LastSent(s)) /\ x \in SessionState
      /\ LastSent(s) \in Nat /\ Listed(s) \in BOOLEAN
  BY Numbers
<1>2. ASSUME NEW y \in SessionState, Environment(s, y), SessionOK(y, Listed(s), At(s), LastSent(s))
      PROVE  LinkInv'
  <2>1. /\ Becomes(s, y) /\ sessions' = sessions /\ broadcast' = broadcast
        /\ ws' = ws /\ posted' = posted
    BY <1>2 DEF Environment
  <2>2. \A t \in Session : Listed(t)' = Listed(t) /\ At(t)' = At(t) /\ LastSent(t)' = LastSent(t)
    BY <2>1 DEF Listed, At, LastSent
  <2>3. SessionOK(y, Listed(s)', At(s)', LastSent(s)')
    BY <1>2, <2>2
  <2>4. /\ session' \in [Session -> SessionState]
        /\ \A t \in Session : SessionOK(session[t], Listed(t), At(t), LastSent(t))'
    BY <2>1, <2>2, <2>3, OthersKeep
  <2> QED BY <2>1, <2>4 DEF LinkInv, LinkTypeOK, ThreadsOK
<1>3. CASE HandshakeEnds(s)
  <2>1. PICK y : /\ Environment(s, y)
                 /\ \/ y = [x EXCEPT !.operation = "accepted", !.stream = "open"]
                    \/ y = [x EXCEPT !.operation = "refused", !.stream = "broken"]
    BY <1>3 DEF HandshakeEnds
  <2>2. x.operation = "accepting"
    BY <1>3 DEF HandshakeEnds
  <2> HIDE DEF x
  <2> QED BY <1>1, <1>2, <2>1, <2>2, HandshakeKeeps
<1>4. CASE CommandArrives(s)
  <2> DEFINE y == [x EXCEPT !.operation = "command"]
  <2>1. y \in SessionState /\ y = [x EXCEPT !.operation = y.operation] /\ Environment(s, y)
    BY <1>1, <1>4 DEF CommandArrives, SessionState, Operation
  <2>2. x.operation = "reading" /\ OperationOK(x, Listed(s), At(s)) /\ WriterOK(x, At(s))
    BY <1>1, <1>4 DEF CommandArrives, SessionOK
  <2>3. /\ y.operation = "command" /\ y.stream = x.stream
        /\ x # NewSession /\ x.stream # "handshake"
    BY <1>1, <2>2 DEF SessionState, OperationOK, NewSession
  <2>4. /\ y.writes = x.writes /\ y.writing = x.writing /\ y.writeQueue = x.writeQueue
        /\ y.received = x.received /\ y.early = x.early
    BY <1>1 DEF SessionState
  <2> HIDE DEF x, y
  <2>5. OperationOK(y, Listed(s), At(s))
    BY <2>2, <2>3 DEF OperationOK
  <2>6. WriterOK(y, At(s)) /\ (Listed(s) => QueueOK(y, LastSent(s)))
    BY <1>1, <2>2, <2>4 DEF SessionOK, WriterOK, QueueOK
  <2>7. (Pending(y) <=> Pending(x)) /\ (Failed(y) <=> Failed(x))
    BY <2>4 DEF Pending, Failed
  <2>8. ReceivedOK(y, LastSent(s)) /\ EarlyOK(y, At(s))
    BY <1>1, <2>3, <2>4, <2>7 DEF SessionOK, ReceivedOK, EarlyOK
  <2> QED BY <1>2, <2>1, <2>5, <2>6, <2>8 DEF SessionOK
<1>5. CASE Breaks(s)
  <2>1. PICK y : /\ Environment(s, y)
                 /\ y = [x EXCEPT
                      !.stream = "broken",
                      !.operation = IF @ = "reading" THEN "failed" ELSE @,
                      !.writes = {[w EXCEPT !.status = IF @ = "pending" THEN "failed" ELSE @] : w \in @}]
    BY <1>5 DEF Breaks
  <2>2. x.stream = "open"
    BY <1>5 DEF Breaks
  <2> HIDE DEF x
  <2>3. y \in SessionState /\ SessionOK(y, Listed(s), At(s), LastSent(s))
    BY <1>1, <2>1, <2>2, BreaksKeeps
  <2> QED BY <1>2, <2>1, <2>3
<1>6. CASE \E w \in x.writes : WriteGoes(s, w)
  <2>1. PICK w \in x.writes : WriteGoes(s, w)
    BY <1>6
  <2>2. PICK intact \in BOOLEAN :
          Environment(s, Arrives([x EXCEPT !.writes = (@ \ {w}) \cup {[w EXCEPT !.status = "ok"]}],
                                 w.event, intact))
    BY <2>1 DEF WriteGoes
  <2> DEFINE y == Arrives([x EXCEPT !.writes = (@ \ {w}) \cup {[w EXCEPT !.status = "ok"]}],
                          w.event, intact)
  <2>3. w.status = "pending"
    BY <2>1 DEF WriteGoes
  <2>4. y \in SessionState /\ SessionOK(y, Listed(s), At(s), LastSent(s))
    <3> HIDE DEF x
    <3> QED BY <1>1, <2>3, WriteGoesKeeps
  <2> QED BY <1>2, <2>2, <2>4
<1> QED BY <1>3, <1>4, <1>5, <1>6 DEF Network

\* The thread of the handlers begins or ends a broadcast.
LEMMA CommandOrBroadcast ==
  ASSUME NEW x, NEW in, NEW last, NEW at \in {"command", "broadcasting"},
         NEW at2 \in {"command", "broadcasting"}, SessionOK(x, in, at, last)
  PROVE  SessionOK(x, in, at2, last)
<1>1. WriterOK(x, at2) /\ EarlyOK(x, at2)
  BY DEF SessionOK, WriterOK, EarlyOK, InWrite
<1>2. OperationOK(x, in, at2)
  BY DEF SessionOK, OperationOK, InCommand
<1> QED BY <1>1, <1>2 DEF SessionOK

LEMMA BeginsKeeps ==
  ASSUME LinkInv, NEW t \in Caller \cup {Ws}, Begins(t),
         \/ t \in Caller /\ ws' = ws
         \/ t = Ws /\ \E s \in Session : ws = Busy("command", s) /\ ws' = Busy("broadcasting", s)
  PROVE  LinkInv'
<1>1. /\ broadcast = NoOne /\ session' = session /\ sessions' = sessions
      /\ posted' = posted + 1 /\ posted \in Nat /\ posted' \in Event
      /\ broadcast' = [by |-> t, event |-> posted', left |-> sessions]
      /\ sessions \subseteq Session
  BY LinkAssumption DEF Begins, LinkInv, LinkTypeOK, Event
<1>2. /\ broadcast' \in [by : Caller \cup {Ws}, event : Event, left : SUBSET Session]
      /\ broadcast' # NoOne
  <2>1. broadcast' \in [by : Caller \cup {Ws}, event : Event, left : SUBSET Session]
    BY <1>1
  <2> QED BY <2>1, LinkAssumption DEF Event
<1>3. ws' \in [at : Place, with : Session \cup {NoOne}]
  BY DEF Busy, Place, LinkInv, LinkTypeOK
<1>4. ThreadsOK'
  <2>1. broadcast'.by = t /\ broadcast'.event = posted' /\ broadcast'.left = sessions'
    BY <1>1
  <2>2. t = Ws <=> ws'.at = "broadcasting"
    BY <1>1, LinkAssumption DEF LinkInv, ThreadsOK, Busy
  <2>3. ws'.at = "idle" <=> ws'.with = NoOne
    BY LinkAssumption DEF LinkInv, ThreadsOK, Busy
  <2> QED BY <1>2, <2>1, <2>2, <2>3 DEF ThreadsOK
<1>5. ASSUME NEW u \in Session
      PROVE  SessionOK(session[u], Listed(u), At(u), LastSent(u))'
  <2>1. SessionOK(session[u], Listed(u), At(u), posted)
    BY <1>1, Numbers DEF LastSent
  <2>2. SessionOK(session[u], Listed(u), At(u)', posted)
    <3>1. \/ At(u)' = At(u)
          \/ At(u) = "command" /\ At(u)' = "broadcasting"
      BY DEF At, Busy
    <3> QED BY <2>1, <3>1, CommandOrBroadcast
  <2>3. CASE u \in sessions
    <3>1. LastSent(u)' = posted /\ Listed(u)' = Listed(u)
      BY <1>1, <1>2, <2>3 DEF LastSent, Listed
    <3> QED BY <1>1, <2>2, <3>1
  <2>4. CASE u \notin sessions
    <3>1. Listed(u) = FALSE /\ Listed(u)' = Listed(u)
      BY <1>1, <2>4 DEF Listed
    <3>2. SessionOK(session[u], Listed(u), At(u)', LastSent(u)')
      BY <2>2, <3>1, NotInTheList
    <3> QED BY <1>1, <3>1, <3>2
  <2> QED BY <2>3, <2>4
<1>6. LinkTypeOK'
  <2>1. posted' \in 0..MaxBroadcasts
    BY <1>1, LinkAssumption DEF Event
  <2> QED BY <1>1, <1>2, <1>3, <2>1 DEF LinkInv, LinkTypeOK
<1> QED BY <1>4, <1>5, <1>6 DEF LinkInv

LEMMA SendToKeeps == ASSUME LinkInv, NEW s \in Session, SendTo(s) PROVE LinkInv'
<1> DEFINE x == session[s]
<1>1. /\ broadcast # NoOne /\ s \in broadcast.left /\ broadcast.event = posted
      /\ broadcast \in [by : Caller \cup {Ws}, event : Event, left : SUBSET Session]
      /\ posted \in Nat /\ posted \in Event /\ posted - 1 \in Nat
      /\ broadcast.left \subseteq sessions
  BY Numbers, LinkAssumption DEF SendTo, LinkInv, LinkTypeOK, ThreadsOK, Event
<1>2. /\ Listed(s) = TRUE /\ LastSent(s) = posted - 1 /\ At(s) \notin InWrite
      /\ (posted - 1) + 1 = posted
  <2>1. At(s) \notin InWrite
    BY Numbers DEF SendTo, Locked, At, InWrite, Busy
  <2> QED BY <1>1, <2>1 DEF Listed, LastSent
<1>3. PICK started \in WriteStarts(x) : Becomes(s, send(x, posted, started))
  BY <1>1 DEF SendTo
<1>4. SessionOK(x, TRUE, At(s), posted - 1) /\ x \in SessionState
  BY <1>2, Numbers
<1>5. /\ send(x, posted, started) \in SessionState
      /\ SessionOK(send(x, posted, started), TRUE, At(s), posted)
  <2> HIDE DEF x
  <2> DEFINE last == posted - 1
  <2>1. /\ last \in Nat /\ last + 1 = posted /\ last + 1 \in Event
        /\ SessionOK(x, TRUE, At(s), last)
    BY <1>1, <1>2, <1>4
  <2> HIDE DEF last
  <2>2. /\ send(x, last + 1, started) \in SessionState
        /\ SessionOK(send(x, last + 1, started), TRUE, At(s), last + 1)
    BY <1>2, <1>3, <1>4, <2>1, SendKeeps
  <2> QED BY <2>1, <2>2
<1>6. /\ broadcast' = [broadcast EXCEPT !.left = @ \ {s}]
      /\ sessions' = sessions /\ ws' = ws /\ posted' = posted
  BY DEF SendTo
<1>7. /\ broadcast' \in [by : Caller \cup {Ws}, event : Event, left : SUBSET Session]
      /\ broadcast' # NoOne
      /\ broadcast'.left = broadcast.left \ {s}
      /\ broadcast'.by = broadcast.by /\ broadcast'.event = broadcast.event
  <2>1. /\ broadcast' \in [by : Caller \cup {Ws}, event : Event, left : SUBSET Session]
        /\ broadcast'.left = broadcast.left \ {s}
        /\ broadcast'.by = broadcast.by /\ broadcast'.event = broadcast.event
    BY <1>1, <1>6
  <2> QED BY <2>1, LinkAssumption DEF Event
<1>8. /\ \A u \in Session : Listed(u)' = Listed(u) /\ At(u)' = At(u)
      /\ \A u \in Session \ {s} : LastSent(u)' = LastSent(u)
      /\ LastSent(s)' = posted
  BY <1>1, <1>6, <1>7 DEF Listed, At, LastSent
<1>9. SessionOK(send(x, posted, started), Listed(s)', At(s)', LastSent(s)')
  BY <1>2, <1>5, <1>8
<1>10. /\ session' \in [Session -> SessionState]
       /\ \A u \in Session : SessionOK(session[u], Listed(u), At(u), LastSent(u))'
  <2> HIDE DEF x
  <2> QED BY <1>3, <1>5, <1>8, <1>9, OthersKeep
<1>11. ThreadsOK'
  BY <1>1, <1>6, <1>7 DEF LinkInv, ThreadsOK
<1> QED BY <1>6, <1>7, <1>10, <1>11 DEF LinkInv, LinkTypeOK

LEMMA BroadcastEndsKeeps == ASSUME LinkInv, BroadcastEnds PROVE LinkInv'
<1>1. /\ broadcast # NoOne /\ broadcast.left = {} /\ broadcast' = NoOne
      /\ session' = session /\ sessions' = sessions /\ posted' = posted
      /\ broadcast.by = Ws <=> ws.at = "broadcasting"
      /\ ws' = IF broadcast.by = Ws THEN Busy("command", ws.with) ELSE ws
      /\ ws \in [at : Place, with : Session \cup {NoOne}]
      /\ ws.at = "idle" <=> ws.with = NoOne
  BY DEF BroadcastEnds, LinkInv, LinkTypeOK, ThreadsOK
<1>2. /\ ws' \in [at : Place, with : Session \cup {NoOne}]
      /\ ws'.with = ws.with
      /\ ws'.at = IF ws.at = "broadcasting" THEN "command" ELSE ws.at
  BY <1>1 DEF Busy, Place
<1>3. ThreadsOK'
  BY <1>1, <1>2 DEF ThreadsOK
<1>4. ASSUME NEW u \in Session
      PROVE  SessionOK(session[u], Listed(u), At(u), LastSent(u))'
  <2>1. SessionOK(session[u], Listed(u), At(u), LastSent(u))
    BY Numbers
  <2>2. Listed(u)' = Listed(u) /\ LastSent(u)' = LastSent(u)
    BY <1>1 DEF Listed, LastSent
  <2>3. At(u)' = At(u) \/ (At(u) = "broadcasting" /\ At(u)' = "command")
    BY <1>2 DEF At
  <2>4. SessionOK(session[u], Listed(u), At(u)', LastSent(u))
    BY <2>1, <2>3, CommandOrBroadcast
  <2> QED BY <1>1, <2>2, <2>4
<1> QED BY <1>1, <1>2, <1>3, <1>4 DEF LinkInv, LinkTypeOK

-----------------------------------------------------------------------------
\* The initial states satisfy the invariant, and every step keeps it.

LEMMA LinkInit_LinkInv == ASSUME LinkInit PROVE LinkInv
<1>1. NewSession \in SessionState
  BY NewSessionIsOK
<1>2. LinkTypeOK /\ ThreadsOK
  BY <1>1, LinkAssumption DEF LinkInit, LinkTypeOK, ThreadsOK, Idle, Place
<1>3. ASSUME NEW s \in Session PROVE SessionOK(session[s], Listed(s), At(s), LastSent(s))
  <2>1. session[s] = NewSession /\ Listed(s) = FALSE /\ At(s) = "idle"
    BY <1>3, LinkAssumption DEF LinkInit, Listed, At, Idle
  <2> QED BY <2>1, NewSessionIsOK
<1> QED BY <1>2, <1>3 DEF LinkInv

LEMMA LinkNext_LinkInv == ASSUME LinkInv, [LinkNext]_vars PROVE LinkInv'
<1>1. CASE Broadcasting
  <2>1. CASE \E t \in Caller : BroadcastFrom(t)
    BY <2>1, BeginsKeeps DEF BroadcastFrom
  <2>2. CASE \E s \in Session : Answer(s)
    BY <2>2, BeginsKeeps DEF Answer
  <2>3. CASE \E s \in Session : SendTo(s)
    BY <2>3, SendToKeeps
  <2>4. CASE BroadcastEnds
    BY <2>4, BroadcastEndsKeeps
  <2> QED BY <1>1, <2>1, <2>2, <2>3, <2>4 DEF Broadcasting
<1>2. ASSUME NEW s \in Session, Handler(s) PROVE LinkInv'
  <2>1. CASE Accept(s)
    BY <2>1, AcceptKeeps
  <2>2. CASE AddSession(s)
    BY <2>2, AddSessionKeeps
  <2>3. CASE AcceptHandled(s)
    BY <2>3, AcceptHandledKeeps
  <2>4. CASE CommandHandled(s)
    BY <2>4, CommandHandledKeeps
  <2>5. CASE CommandEnds(s)
    BY <2>5, CommandEndsKeeps
  <2>6. CASE ReadFailed(s)
    BY <2>6, ReadFailedKeeps
  <2>7. CASE RemoveSession(s)
    BY <2>7, RemoveSessionKeeps
  <2>8. CASE \/ \E w \in session[s].writes : WriteHandled(s, w)
             \/ WriteOk(s)
             \/ WriteFailed(s)
    BY <2>8, WriteHandlerKeeps
  <2> QED BY <1>2, <2>1, <2>2, <2>3, <2>4, <2>5, <2>6, <2>7, <2>8 DEF Handler
<1>3. ASSUME NEW s \in Session, Network(s) PROVE LinkInv'
  BY <1>3, NetworkKeeps
<1>4. CASE UNCHANGED vars
  <2>1. /\ session' = session /\ sessions' = sessions /\ broadcast' = broadcast
        /\ ws' = ws /\ posted' = posted
    BY <1>4 DEF vars
  <2>2. ASSUME NEW u \in Session
        PROVE  SessionOK(session[u], Listed(u), At(u), LastSent(u))'
    <3>1. SessionOK(session[u], Listed(u), At(u), LastSent(u))
      BY Numbers
    <3>2. Listed(u)' = Listed(u) /\ At(u)' = At(u) /\ LastSent(u)' = LastSent(u)
      BY <2>1 DEF Listed, At, LastSent
    <3> QED BY <2>1, <3>1, <3>2
  <2> QED BY <2>1, <2>2 DEF LinkInv, LinkTypeOK, ThreadsOK
<1> QED BY <1>1, <1>2, <1>3, <1>4 DEF LinkNext

\* In every reachable state the queue of a session holds the last broadcasts,
\* what is being written goes before them, and what was received before that;
\* for any interleaving of send, doWrite and the handlers.
THEOREM LinkInvariant == LinkSpec => []LinkInv
<1>1. LinkInit => LinkInv
  BY LinkInit_LinkInv
<1>2. LinkInv /\ [LinkNext]_vars => LinkInv'
  BY LinkNext_LinkInv
<1> QED BY <1>1, <1>2, PTL DEF LinkSpec

\* The fields of the state keep their types.
THEOREM LinkTyping == LinkSpec => []LinkTypeOK
<1>1. LinkInv => LinkTypeOK
  BY DEF LinkInv
<1> QED BY <1>1, LinkInvariant, PTL

\* At most one async_write is outstanding on a browser's stream, and writing_
\* says whether one is, for any number of threads that broadcast.
LEMMA LinkInv_OneWrite == ASSUME LinkInv PROVE OneWritePerBrowser
<1> SUFFICES ASSUME NEW s \in Session
             PROVE  Writers(s) <= 1 /\ (session[s].writing <=> Writers(s) = 1)
  BY DEF OneWritePerBrowser
<1> DEFINE x == session[s]
<1>1. WriterOK(x, At(s)) /\ x \in SessionState
  BY Numbers DEF SessionOK
<1>2. Locked(s) <=> At(s) \in InWrite
  BY Numbers DEF Locked, At, InWrite, Busy
<1>3. CASE x.writes = {} /\ (x.writing <=> At(s) \in InWrite)
  <2>1. Cardinality(x.writes) = 0
    BY <1>3, FS_EmptySet
  <2> QED BY <1>2, <1>3, <2>1 DEF Writers
<1>4. CASE x.writing /\ At(s) \notin InWrite /\ \E w \in x.writes : x.writes = {w}
  <2>1. Cardinality(x.writes) = 1
    BY <1>4, FS_Singleton
  <2> QED BY <1>2, <1>4, <2>1 DEF Writers
<1> QED BY <1>1, <1>3, <1>4 DEF WriterOK

THEOREM OneWriteAtATime == LinkSpec => []OneWritePerBrowser
BY LinkInv_OneWrite, LinkInvariant, PTL

\* A filled queue of an open stream is being written, unless an event was sent
\* to the session before its handshake was over.
LEMMA LinkInv_NothingWaits == ASSUME LinkInv PROVE NothingWaits
BY Numbers DEF SessionOK, EarlyOK, NothingWaits

THEOREM NoEventWaits == LinkSpec => []NothingWaits
BY LinkInv_NothingWaits, LinkInvariant, PTL

\* What a browser receives is an unbroken run of the broadcasts, in order and
\* each once, for any number of browsers, threads and broadcasts.
LEMMA LinkInv_UnbrokenRun == ASSUME LinkInv PROVE UnbrokenRun
BY Numbers DEF SessionOK, ReceivedOK, Contiguous, UnbrokenRun

THEOREM BrowsersMissNothing == LinkSpec => []UnbrokenRun
BY LinkInv_UnbrokenRun, LinkInvariant, PTL

\* Who is in the list of sessions is watched by an operation or a handler, and
\* who has an operation is in the list.
LEMMA LinkInv_Watched == ASSUME LinkInv PROVE BrowsersAreWatched
<1> SUFFICES ASSUME NEW s \in Session
             PROVE  /\ s \in sessions => Watched(s)
                    /\ session[s].operation # "none" => s \in sessions
  BY DEF BrowsersAreWatched
<1>1. OperationOK(session[s], Listed(s), At(s))
  BY Numbers DEF SessionOK
<1>2. At(s) \in InCommand => ws.with = s
  BY DEF At, InCommand
<1> QED BY <1>1, <1>2 DEF OperationOK, Listed, Watched

THEOREM ListIsWatched == LinkSpec => []BrowsersAreWatched
BY LinkInv_Watched, LinkInvariant, PTL

=============================================================================
