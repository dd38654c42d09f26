---------------------------- MODULE BridgeProofs ----------------------------
(***************************************************************************)
(* Proofs about the client's connection.  The invariant says where the one *)
(* writer is and which numbers the queue and the wire hold; each method of *)
(* the client core keeps it (first part), and so does each action.         *)
(***************************************************************************)
EXTENDS BridgeProperties, FiniteSetTheorems, SequenceTheorems, TLAPS

\* Nobody writes, a thread in S owes a post, a call of writeNext is posted, or
\* the frame at the front is being written.
NobodyWrites(S, c) ==
  S = {} /\ c.posted = 0 /\ c.writes = {} /\ (c.writing \/ c.writeQueue = <<>>)

ThreadStarts(S, c) ==
  /\ \E t \in S : S = {t}
  /\ c.posted = 0 /\ c.writes = {} /\ c.writing /\ c.writeQueue # <<>>

NextIsPosted(S, c) ==
  S = {} /\ c.posted = 1 /\ c.writes = {} /\ c.writing /\ c.writeQueue # <<>>

FrontIsWritten(S, c) ==
  /\ S = {} /\ c.posted = 0 /\ c.writing /\ c.writeQueue # <<>>
  /\ \E st \in WriteStatus : c.writes = {[msg |-> Head(c.writeQueue), status |-> st]}

WriterAt(S, c) ==
  \/ NobodyWrites(S, c) \/ ThreadStarts(S, c)
  \/ NextIsPosted(S, c) \/ FrontIsWritten(S, c)

\* The front of the queue is on the wire already.
FrontIsOut(c) == \E op \in c.writes : op.status = "ok"

\* The wire holds 1, 2, ..., and the queue ends with the last number n.
Numbered(c, w, n) ==
  /\ \A i \in 1..Len(w) : w[i] = i
  /\ \A j \in 1..Len(c.writeQueue) : c.writeQueue[j].n = n - Len(c.writeQueue) + j
  /\ Len(w) = n - Len(c.writeQueue) + (IF FrontIsOut(c) THEN 1 ELSE 0)

Alive(c) == c.connected => \E st \in ReadStatus : c.reads[st] > 0

\* A connection attempt that the socket is busy with has not finished.
Attempting(c) == c.socket = "connecting" => c.connects["pending"] > 0

Good(S, c, w, n) ==
  /\ c \in ClientState /\ w \in Seq(Nat) /\ n \in Nat
  /\ WriterAt(S, c) /\ Numbered(c, w, n)

-----------------------------------------------------------------------------
\* Whatever leaves the writer's fields alone keeps what is said of them.
LEMMA WriterFieldsKeep ==
  ASSUME NEW S, NEW c, NEW d, NEW w, NEW n, Good(S, c, w, n), d \in ClientState,
         d.writing = c.writing, d.writeQueue = c.writeQueue,
         d.posted = c.posted, d.writes = c.writes
  PROVE  Good(S, d, w, n)
  BY DEF Good, WriterAt, NobodyWrites, ThreadStarts, NextIsPosted, FrontIsWritten,
         Numbered, FrontIsOut

\* Closing the socket turns what is pending into a failure and nothing else.
LEMMA CloseType == ASSUME NEW c \in ClientState PROVE close(c) \in ClientState
<1>1. ASSUME NEW ops \in [ReadStatus -> Nat] PROVE Abort(ops) \in [ReadStatus -> Nat]
  <2>1. "failed" \in ReadStatus /\ "pending" \in ReadStatus
    BY DEF ReadStatus
  <2> QED BY <2>1 DEF Abort
<1>2. ASSUME NEW ops \in [WriteStatus -> Nat] PROVE Abort(ops) \in [WriteStatus -> Nat]
  BY DEF Abort, WriteStatus
<1>3. \A op \in c.writes : AbortWrite(op) \in [msg : OutgoingMessage, status : WriteStatus]
  <2> TAKE op \in c.writes
  <2>1. op \in [msg : OutgoingMessage, status : WriteStatus]
    BY DEF ClientState
  <2> QED BY <2>1 DEF AbortWrite, WriteStatus
<1>4. /\ Abort(c.reads) \in [ReadStatus -> Nat]
      /\ Abort(c.connects) \in [WriteStatus -> Nat]
  BY <1>1, <1>2 DEF ClientState
<1>5. {AbortWrite(op) : op \in c.writes} \in SUBSET [msg : OutgoingMessage, status : WriteStatus]
  BY <1>3
<1> HIDE DEF Abort, AbortWrite
<1> QED BY <1>4, <1>5 DEF close, ClientState

LEMMA CloseKeeps ==
  ASSUME NEW S, NEW c, NEW w, NEW n, Good(S, c, w, n)
  PROVE  Good(S, close(c), w, n)
<1> DEFINE d == close(c)
<1>1. /\ c \in ClientState
      /\ d \in ClientState
  BY CloseType DEF Good
<1>2. /\ d.writing = c.writing /\ d.writeQueue = c.writeQueue /\ d.posted = c.posted
      /\ d.writes = {AbortWrite(op) : op \in c.writes}
  BY <1>1 DEF close, ClientState
<1>3. FrontIsOut(d) <=> FrontIsOut(c)
  BY <1>2, <1>1 DEF FrontIsOut, AbortWrite, ClientState
<1>4. WriterAt(S, d)
  <2>1. CASE c.writes = {}
    BY <2>1, <1>2 DEF Good, WriterAt, NobodyWrites, ThreadStarts, NextIsPosted, FrontIsWritten
  <2>2. CASE FrontIsWritten(S, c)
    <3>1. PICK st \in WriteStatus : c.writes = {[msg |-> Head(c.writeQueue), status |-> st]}
      BY <2>2 DEF FrontIsWritten
    <3>2. PICK su \in WriteStatus : AbortWrite([msg |-> Head(c.writeQueue), status |-> st])
                                      = [msg |-> Head(c.writeQueue), status |-> su]
      BY DEF AbortWrite, WriteStatus
    <3>3. d.writes = {[msg |-> Head(c.writeQueue), status |-> su]}
      BY <3>1, <3>2, <1>2
    <3> QED BY <3>3, <1>2, <2>2 DEF FrontIsWritten, WriterAt
  <2> QED BY <2>1, <2>2 DEF Good, WriterAt, NobodyWrites, ThreadStarts, NextIsPosted
<1> QED BY <1>1, <1>2, <1>3, <1>4 DEF Good, Numbered

LEMMA CloseAlive ==
  ASSUME NEW c \in ClientState, Alive(c) PROVE Alive(close(c))
<1>1. close(c).connected = c.connected /\ close(c).reads = Abort(c.reads)
  BY DEF close, ClientState
<1>2. \A st \in ReadStatus : c.reads[st] \in Nat
  BY DEF ClientState
<1>3. Abort(c.reads)["failed"] = c.reads["failed"] + c.reads["pending"]
      /\ \A st \in Answer : Abort(c.reads)[st] = c.reads[st]
  BY DEF Abort, ClientState, ReadStatus, Answer
<1> QED BY <1>1, <1>2, <1>3 DEF Alive, ReadStatus

-----------------------------------------------------------------------------
\* Sequences of numbered frames.  A new last frame has the next number.
LEMMA NextNumber ==
  ASSUME NEW q \in Seq(OutgoingMessage), NEW m \in OutgoingMessage, NEW n \in Nat,
         m.n = n + 1, \A j \in 1..Len(q) : q[j].n = n - Len(q) + j
  PROVE  LET r == Append(q, m)
         IN /\ r \in Seq(OutgoingMessage) /\ r # <<>> /\ Len(r) = Len(q) + 1
            /\ \A j \in 1..Len(r) : r[j].n = (n + 1) - Len(r) + j
            /\ q # <<>> => Head(r) = Head(q)
<1> DEFINE r == Append(q, m)
<1>1. Len(q) \in Nat /\ r \in Seq(OutgoingMessage) /\ Len(r) = Len(q) + 1 /\ r # <<>>
  BY AppendProperties, LenProperties
<1>2. \A j \in 1..Len(q) : r[j] = q[j]
  BY AppendProperties
<1>3. r[Len(q) + 1] = m
  BY AppendProperties
<1>4. q # <<>> => Head(r) = Head(q)
  BY HeadTailAppend
<1> HIDE DEF r
<1>5. ASSUME NEW j \in 1..Len(r) PROVE r[j].n = (n + 1) - Len(r) + j
  <2>1. CASE j = Len(q) + 1
    BY <2>1, <1>1, <1>3
  <2>2. CASE j # Len(q) + 1
    <3>1. j \in 1..Len(q)
      BY <2>2, <1>1
    <3>2. r[j] = q[j] /\ q[j].n = n - Len(q) + j
      BY <3>1, <1>2
    <3> QED BY <3>1, <3>2, <1>1
  <2> QED BY <2>1, <2>2
<1> QED BY <1>1, <1>4, <1>5 DEF r

\* Without its first frame a queue still ends with the same number.
LEMMA OneLess ==
  ASSUME NEW q \in Seq(OutgoingMessage), q # <<>>, NEW n \in Nat,
         \A j \in 1..Len(q) : q[j].n = n - Len(q) + j
  PROVE  LET r == Tail(q)
         IN /\ r \in Seq(OutgoingMessage) /\ Len(r) = Len(q) - 1
            /\ \A j \in 1..Len(r) : r[j].n = n - Len(r) + j
<1> DEFINE r == Tail(q)
<1>1. Len(q) \in Nat /\ Len(q) > 0 /\ r \in Seq(OutgoingMessage) /\ Len(r) = Len(q) - 1
  OBVIOUS
<1>2. \A j \in 1..Len(r) : r[j] = q[j + 1]
  BY <1>1
<1> HIDE DEF r
<1>3. ASSUME NEW j \in 1..Len(r) PROVE r[j].n = n - Len(r) + j
  <2>1. j + 1 \in 1..Len(q)
    BY <1>1
  <2>2. q[j + 1].n = n - Len(q) + (j + 1)
    BY <2>1
  <2>3. r[j] = q[j + 1]
    BY <1>2
  <2> QED BY <2>2, <2>3, <1>1
<1> QED BY <1>1, <1>3 DEF r

\* The number at the front.
LEMMA FrontNumber ==
  ASSUME NEW q \in Seq(OutgoingMessage), q # <<>>, NEW n \in Nat,
         \A j \in 1..Len(q) : q[j].n = n - Len(q) + j
  PROVE  /\ Len(q) \in Nat \ {0} /\ Head(q) \in OutgoingMessage
         /\ Head(q).n = n - Len(q) + 1
<1>1. Len(q) \in Nat \ {0} /\ Head(q) \in OutgoingMessage /\ Head(q) = q[1]
  OBVIOUS
<1>2. 1 \in 1..Len(q)
  BY <1>1
<1>3. q[1].n = n - Len(q) + 1
  BY <1>2
<1> QED BY <1>1, <1>3

\* The number after the last one on the wire goes on the wire.
LEMMA NextOnWire ==
  ASSUME NEW w \in Seq(Nat), \A i \in 1..Len(w) : w[i] = i
  PROVE  LET x == Append(w, Len(w) + 1)
         IN /\ x \in Seq(Nat) /\ Len(x) = Len(w) + 1
            /\ \A i \in 1..Len(x) : x[i] = i
<1> DEFINE x == Append(w, Len(w) + 1)
<1>1. Len(w) \in Nat /\ x \in Seq(Nat) /\ Len(x) = Len(w) + 1
  OBVIOUS
<1>2. (\A i \in 1..Len(w) : x[i] = w[i]) /\ x[Len(w) + 1] = Len(w) + 1
  OBVIOUS
<1> HIDE DEF x
<1>3. ASSUME NEW i \in 1..Len(x) PROVE x[i] = i
  <2>1. i \in 1..Len(w) \/ i = Len(w) + 1
    BY <1>1
  <2> QED BY <2>1, <1>2
<1> QED BY <1>1, <1>3 DEF x

-----------------------------------------------------------------------------
\* The frame joins the queue; who finds the flag free is the writer now.
LEMMA EnqueueKeeps ==
  ASSUME NEW S, NEW c, NEW w, NEW n, Good(S, c, w, n), NEW kind \in Kind, NEW t
  PROVE  /\ Enqueue(c, kind, n + 1) \in ClientState
         /\ ~NeedsStart(c) => Good(S, Enqueue(c, kind, n + 1), w, n + 1)
         /\ NeedsStart(c) => S = {} /\ Good({t}, Enqueue(c, kind, n + 1), w, n + 1)
<1> DEFINE d == Enqueue(c, kind, n + 1)
           m == [kind |-> kind, n |-> n + 1]
           q == Append(c.writeQueue, m)
<1>1. c \in ClientState /\ w \in Seq(Nat) /\ n \in Nat /\ Numbered(c, w, n)
  BY DEF Good
<1>2. c.writeQueue \in Seq(OutgoingMessage) /\ m \in OutgoingMessage /\ m.n = n + 1
  BY <1>1 DEF ClientState, OutgoingMessage
<1> HIDE DEF m
<1>3. /\ q \in Seq(OutgoingMessage) /\ q # <<>> /\ Len(q) = Len(c.writeQueue) + 1
      /\ \A j \in 1..Len(q) : q[j].n = (n + 1) - Len(q) + j
      /\ c.writeQueue # <<>> => Head(q) = Head(c.writeQueue)
  BY <1>1, <1>2, NextNumber DEF Numbered
<1>4. d = [c EXCEPT !.writeQueue = q, !.writing = TRUE]
  BY DEF Enqueue, m
<1> HIDE DEF d, q
<1>5. /\ d \in ClientState
      /\ d.writing = TRUE /\ d.writeQueue = q
      /\ d.posted = c.posted /\ d.writes = c.writes
  BY <1>1, <1>3, <1>4 DEF ClientState
<1>6. Numbered(d, w, n + 1)
  <2>1. FrontIsOut(d) <=> FrontIsOut(c)
    BY <1>5 DEF FrontIsOut
  <2>2. Len(c.writeQueue) \in Nat /\ Len(w) \in Nat
    BY <1>1, <1>2, LenProperties
  <2>3. Len(w) = (n + 1) - Len(q) + (IF FrontIsOut(d) THEN 1 ELSE 0)
    BY <2>1, <2>2, <1>1, <1>3 DEF Numbered
  <2> QED BY <2>3, <1>1, <1>3, <1>5 DEF Numbered
<1>7. CASE c.writing
  <2>1. WriterAt(S, d)
    BY <1>7, <1>3, <1>5 DEF Good, WriterAt, NobodyWrites, ThreadStarts, NextIsPosted,
       FrontIsWritten
  <2> QED BY <2>1, <1>7, <1>1, <1>5, <1>6 DEF Good, NeedsStart, d
<1>8. CASE ~c.writing
  <2>1. S = {} /\ c.posted = 0 /\ c.writes = {}
    BY <1>8 DEF Good, WriterAt, NobodyWrites, ThreadStarts, NextIsPosted, FrontIsWritten
  <2>2. ThreadStarts({t}, d)
    BY <2>1, <1>3, <1>5 DEF ThreadStarts
  <2> QED BY <2>1, <2>2, <1>8, <1>1, <1>5, <1>6 DEF Good, WriterAt, NeedsStart, d
<1> QED BY <1>7, <1>8

\* The thread that owes the post makes it.
LEMMA PostKeeps ==
  ASSUME NEW S, NEW c, NEW w, NEW n, Good(S, c, w, n), NEW t \in S
  PROVE  S = {t} /\ Good({}, PostWriteNext(c), w, n)
<1>1. S = {t} /\ ThreadStarts(S, c)
  BY DEF Good, WriterAt, NobodyWrites, ThreadStarts, NextIsPosted, FrontIsWritten
<1> DEFINE d == PostWriteNext(c)
<1>2. /\ d \in ClientState /\ d.posted = 1
      /\ d.writing = c.writing /\ d.writeQueue = c.writeQueue /\ d.writes = c.writes
  <2>1. c \in ClientState /\ c.posted = 0
    BY <1>1 DEF Good, ThreadStarts
  <2>2. d = [c EXCEPT !.posted = 1]
    BY <2>1 DEF PostWriteNext
  <2> HIDE DEF d
  <2> QED BY <2>1, <2>2 DEF ClientState
<1> HIDE DEF d
<1>3. NextIsPosted({}, d)
  BY <1>1, <1>2 DEF ThreadStarts, NextIsPosted
<1>4. Numbered(d, w, n)
  BY <1>2 DEF Good, Numbered, FrontIsOut
<1> QED BY <1>1, <1>2, <1>3, <1>4 DEF Good, WriterAt, d

\* sendMessage on the io thread does both at once.
LEMMA SendKeeps ==
  ASSUME NEW S, NEW c, NEW w, NEW n, Good(S, c, w, n), NEW kind \in Kind
  PROVE  Good(S, sendMessage(c, kind, n + 1), w, n + 1)
<1>1. CASE NeedsStart(c)
  <2>1. S = {} /\ Good({0}, Enqueue(c, kind, n + 1), w, n + 1)
    BY <1>1, EnqueueKeeps
  <2>2. Good({}, PostWriteNext(Enqueue(c, kind, n + 1)), w, n + 1)
    <3> DEFINE e == Enqueue(c, kind, n + 1)
    <3>1. Good({0}, e, w, n + 1)
      BY <2>1
    <3> HIDE DEF e
    <3>2. Good({}, PostWriteNext(e), w, n + 1)
      BY <3>1, PostKeeps
    <3> QED BY <3>2 DEF e
  <2> QED BY <1>1, <2>1, <2>2 DEF sendMessage
<1>2. CASE ~NeedsStart(c)
  BY <1>2, EnqueueKeeps DEF sendMessage
<1> QED BY <1>1, <1>2

\* writeNext takes the posted call off and starts the write of the front; a
\* frame that is written at once is on the wire.
LEMMA WriteNextKeeps ==
  ASSUME NEW S, NEW c, NEW w, NEW n, Good(S, c, w, n), c.posted > 0,
         NEW st \in WriteStatus
  PROVE  /\ c.writeQueue # <<>> /\ Head(c.writeQueue) \in OutgoingMessage
         /\ Good(S, writeNext(c, st),
                 IF st = "ok" THEN Append(w, Head(c.writeQueue).n) ELSE w, n)
<1>1. /\ NextIsPosted(S, c) /\ c \in ClientState /\ w \in Seq(Nat) /\ n \in Nat
      /\ Numbered(c, w, n)
  BY DEF Good, WriterAt, NobodyWrites, ThreadStarts, NextIsPosted, FrontIsWritten
<1>2. c.writeQueue \in Seq(OutgoingMessage) /\ c.writeQueue # <<>>
  BY <1>1 DEF NextIsPosted, ClientState
<1> DEFINE h == Head(c.writeQueue)
           op == [msg |-> h, status |-> st]
           d == writeNext(c, st)
           x == IF st = "ok" THEN Append(w, h.n) ELSE w
<1>3. h \in OutgoingMessage /\ h = c.writeQueue[1] /\ Len(c.writeQueue) \in Nat \ {0}
  BY <1>2
<1> HIDE DEF h
<1>4. op \in [msg : OutgoingMessage, status : WriteStatus]
  BY <1>3
<1>5. c.posted = 1 /\ c.writes = {}
  BY <1>1 DEF NextIsPosted
<1>6. d = [c EXCEPT !.posted = 0, !.writes = {op}]
  BY <1>1, <1>2, <1>5 DEF writeNext, h, ClientState
<1> HIDE DEF op, d
<1>7. /\ d \in ClientState /\ d.posted = 0 /\ d.writes = {op}
      /\ d.writing = c.writing /\ d.writeQueue = c.writeQueue
  BY <1>1, <1>4, <1>6 DEF ClientState
<1>8. FrontIsWritten(S, d)
  BY <1>1, <1>7 DEF FrontIsWritten, NextIsPosted, op, h
<1>9. (FrontIsOut(d) <=> st = "ok") /\ ~FrontIsOut(c)
  BY <1>5, <1>7 DEF FrontIsOut, op
<1>10. Numbered(d, x, n) /\ x \in Seq(Nat)
  <2>1. Len(w) \in Nat /\ Len(w) = n - Len(c.writeQueue) /\ h.n = Len(w) + 1
    <3>1. Len(w) \in Nat /\ Len(w) = n - Len(c.writeQueue)
      BY <1>1, <1>3, <1>9, LenProperties DEF Numbered
    <3>2. h.n = n - Len(c.writeQueue) + 1
      BY <1>1, <1>2, FrontNumber DEF Numbered, h
    <3> QED BY <3>1, <3>2, <1>1, <1>3
  <2>2. CASE st = "ok"
    <3>1. x = Append(w, Len(w) + 1)
      BY <2>1, <2>2
    <3> HIDE DEF x
    <3>2. x \in Seq(Nat) /\ Len(x) = Len(w) + 1 /\ \A i \in 1..Len(x) : x[i] = i
      BY <3>1, <1>1, NextOnWire DEF Numbered
    <3>3. Len(x) = n - Len(c.writeQueue) + 1
      BY <3>2, <2>1
    <3> QED BY <3>2, <3>3, <2>2, <1>1, <1>7, <1>9 DEF Numbered
  <2>3. CASE st # "ok"
    BY <2>3, <1>1, <1>7, <1>9 DEF Numbered
  <2> QED BY <2>2, <2>3
<1> QED BY <1>1, <1>2, <1>3, <1>7, <1>8, <1>10 DEF Good, WriterAt, d, h

\* An outstanding write is that of the front.
LEMMA WriteIsOfFront ==
  ASSUME NEW S, NEW c, NEW w, NEW n, Good(S, c, w, n), NEW op \in c.writes
  PROVE  /\ FrontIsWritten(S, c) /\ c.writes = {op}
         /\ op \in [msg : OutgoingMessage, status : WriteStatus]
         /\ op.msg = Head(c.writeQueue)
         /\ c.writeQueue \in Seq(OutgoingMessage) /\ c.writeQueue # <<>>
         /\ FrontIsOut(c) <=> op.status = "ok"
<1>1. FrontIsWritten(S, c) /\ c \in ClientState
  BY DEF Good, WriterAt, NobodyWrites, ThreadStarts, NextIsPosted
<1>2. PICK st \in WriteStatus : c.writes = {[msg |-> Head(c.writeQueue), status |-> st]}
  BY <1>1 DEF FrontIsWritten
<1>3. c.writes = {op} /\ op.msg = Head(c.writeQueue)
  BY <1>2
<1> QED BY <1>1, <1>3 DEF ClientState, FrontIsOut, FrontIsWritten

\* The write was completed: the next frame is posted, or the flag is free.
LEMMA WriteCompletedKeeps ==
  ASSUME NEW S, NEW c, NEW w, NEW n, Good(S, c, w, n), NEW op \in c.writes,
         op.status = "ok"
  PROVE  Good(S, WriteCompleted(c, op), w, n)
<1>1. /\ FrontIsWritten(S, c) /\ c.writes = {op} /\ FrontIsOut(c)
      /\ c.writeQueue \in Seq(OutgoingMessage) /\ c.writeQueue # <<>>
  BY WriteIsOfFront
<1>2. c \in ClientState /\ w \in Seq(Nat) /\ n \in Nat /\ Numbered(c, w, n)
  BY DEF Good
<1> DEFINE q == Tail(c.writeQueue)
           d == WriteCompleted(c, op)
<1>3. /\ q \in Seq(OutgoingMessage) /\ Len(q) = Len(c.writeQueue) - 1
      /\ \A j \in 1..Len(q) : q[j].n = n - Len(q) + j
  BY <1>1, <1>2, OneLess DEF Numbered
<1>4. c.posted = 0
  BY <1>1 DEF FrontIsWritten
<1>5. Len(c.writeQueue) \in Nat /\ Len(q) \in Nat /\ (q = <<>> <=> Len(q) = 0)
  <2> HIDE DEF q
  <2> QED BY <1>1, <1>3, LenProperties, EmptySeq
<1>6. q # <<>> <=> Len(c.writeQueue) > 1
  <2> HIDE DEF q
  <2> QED BY <1>3, <1>5
<1>7. /\ d \in ClientState /\ d.writes = {} /\ d.writeQueue = q
      /\ \/ d.writing = TRUE /\ d.posted = 1 /\ q # <<>>
         \/ d.writing = FALSE /\ d.posted = 0 /\ q = <<>>
  <2> DEFINE rest == [c EXCEPT !.writes = @ \ {op}, !.writeQueue = q]
  <2> HIDE DEF q
  <2>1. /\ rest \in ClientState /\ rest.writes = {} /\ rest.writeQueue = q
        /\ rest.posted = 0 /\ rest.writing = c.writing
    BY <1>1, <1>2, <1>3, <1>4 DEF ClientState
  <2>2. d = IF Len(c.writeQueue) > 1 THEN [rest EXCEPT !.posted = @ + 1]
            ELSE [rest EXCEPT !.writing = FALSE]
    BY DEF WriteCompleted, PostWriteNext, q
  <2>3. c.writing = TRUE
    BY <1>1, <1>2 DEF FrontIsWritten, ClientState
  <2> HIDE DEF d, rest
  <2>4. CASE Len(c.writeQueue) > 1
    <3>1. d = [rest EXCEPT !.posted = 1]
      BY <2>1, <2>2, <2>4
    <3> QED BY <3>1, <2>1, <2>3, <2>4, <1>6 DEF ClientState
  <2>5. CASE ~(Len(c.writeQueue) > 1)
    <3>1. d = [rest EXCEPT !.writing = FALSE]
      BY <2>2, <2>5
    <3> QED BY <3>1, <2>1, <2>5, <1>6 DEF ClientState
  <2> QED BY <2>4, <2>5
<1> HIDE DEF d, q
<1>8. WriterAt(S, d)
  BY <1>1, <1>7 DEF WriterAt, NobodyWrites, NextIsPosted, FrontIsWritten
<1>9. Numbered(d, w, n)
  <2>1. ~FrontIsOut(d)
    BY <1>7 DEF FrontIsOut
  <2>2. Len(w) = n - Len(q)
    <3>1. Len(w) = n - Len(c.writeQueue) + 1
      BY <1>1, <1>2 DEF Numbered
    <3> QED BY <3>1, <1>2, <1>3, <1>5
  <2>3. Len(w) = n - Len(q) + (IF FrontIsOut(d) THEN 1 ELSE 0)
    BY <2>1, <2>2, <1>2, <1>5
  <2>4. \A i \in 1..Len(w) : w[i] = i
    BY <1>2 DEF Numbered
  <2> QED BY <2>3, <2>4, <1>3, <1>7 DEF Numbered
<1> QED BY <1>2, <1>7, <1>8, <1>9 DEF Good, d

\* The write failed: nobody writes any more, and the frame stays.
LEMMA WriteDroppedKeeps ==
  ASSUME NEW S, NEW c, NEW w, NEW n, Good(S, c, w, n), NEW op \in c.writes,
         op.status = "failed"
  PROVE  Good(S, [c EXCEPT !.writes = @ \ {op}], w, n)
<1>1. /\ FrontIsWritten(S, c) /\ c.writes = {op} /\ ~FrontIsOut(c)
      /\ c \in ClientState
  BY WriteIsOfFront DEF Good
<1> DEFINE d == [c EXCEPT !.writes = @ \ {op}]
<1>2. /\ d \in ClientState /\ d.writes = {} /\ d.writeQueue = c.writeQueue
      /\ d.writing = c.writing /\ d.posted = c.posted
  BY <1>1 DEF ClientState
<1> HIDE DEF d
<1>3. NobodyWrites(S, d)
  BY <1>1, <1>2 DEF FrontIsWritten, NobodyWrites
<1>4. ~FrontIsOut(d)
  BY <1>2 DEF FrontIsOut
<1> QED BY <1>1, <1>2, <1>3, <1>4 DEF Good, WriterAt, Numbered, d

\* A pending write finishes; if it succeeds its frame is on the wire.
LEMMA WriteTurns ==
  ASSUME NEW S, NEW c, NEW w, NEW n, Good(S, c, w, n), NEW op \in c.writes,
         op.status = "pending", NEW st \in {"ok", "failed"}
  PROVE  Good(S, [c EXCEPT !.writes = (@ \ {op}) \cup {[op EXCEPT !.status = st]}],
              IF st = "ok" THEN Append(w, op.msg.n) ELSE w, n)
<1>1. /\ FrontIsWritten(S, c) /\ c.writes = {op} /\ ~FrontIsOut(c)
      /\ op \in [msg : OutgoingMessage, status : WriteStatus]
      /\ op.msg = Head(c.writeQueue)
      /\ c.writeQueue \in Seq(OutgoingMessage) /\ c.writeQueue # <<>>
  BY WriteIsOfFront
<1>2. c \in ClientState /\ w \in Seq(Nat) /\ n \in Nat /\ Numbered(c, w, n)
  BY DEF Good
<1> DEFINE o == [op EXCEPT !.status = st]
           d == [c EXCEPT !.writes = (@ \ {op}) \cup {o}]
           x == IF st = "ok" THEN Append(w, op.msg.n) ELSE w
<1>3. /\ o \in [msg : OutgoingMessage, status : WriteStatus]
      /\ o = [msg |-> Head(c.writeQueue), status |-> st]
  BY <1>1 DEF WriteStatus
<1> HIDE DEF o
<1>4. /\ d \in ClientState /\ d.writes = {o} /\ d.writeQueue = c.writeQueue
      /\ d.writing = c.writing /\ d.posted = c.posted
  BY <1>1, <1>2, <1>3 DEF ClientState
<1> HIDE DEF d
<1>5. FrontIsWritten(S, d)
  BY <1>1, <1>3, <1>4 DEF FrontIsWritten, WriteStatus
<1>6. FrontIsOut(d) <=> st = "ok"
  BY <1>3, <1>4 DEF FrontIsOut
<1>7. Numbered(d, x, n) /\ x \in Seq(Nat)
  <2>1. Len(w) \in Nat /\ Len(w) = n - Len(c.writeQueue) /\ op.msg.n = Len(w) + 1
    <3>1. Len(w) \in Nat /\ Len(w) = n - Len(c.writeQueue)
      BY <1>1, <1>2, LenProperties DEF Numbered
    <3>2. /\ Head(c.writeQueue).n = n - Len(c.writeQueue) + 1
          /\ Len(c.writeQueue) \in Nat
      BY <1>1, <1>2, FrontNumber DEF Numbered
    <3>3. op.msg = Head(c.writeQueue)
      BY <1>1
    <3> QED BY <3>1, <3>2, <3>3, <1>2
  <2>2. CASE st = "ok"
    <3>1. x = Append(w, Len(w) + 1)
      BY <2>1, <2>2
    <3> HIDE DEF x
    <3>2. x \in Seq(Nat) /\ Len(x) = Len(w) + 1 /\ \A i \in 1..Len(x) : x[i] = i
      BY <3>1, <1>2, NextOnWire DEF Numbered
    <3>3. Len(x) = n - Len(c.writeQueue) + 1
      BY <3>2, <2>1
    <3> QED BY <3>2, <3>3, <2>2, <1>2, <1>4, <1>6 DEF Numbered
  <2>3. CASE st # "ok"
    BY <2>3, <1>1, <1>2, <1>4, <1>6 DEF Numbered
  <2> QED BY <2>2, <2>3
<1> QED BY <1>2, <1>4, <1>5, <1>7 DEF Good, WriterAt, d, o

\* disconnect sends at most one frame, closes the socket and clears the flags.
LEMMA DisconnectKeeps ==
  ASSUME NEW S, NEW c, NEW w, NEW n, Good(S, c, w, n)
  PROVE  /\ Good(S, handleError(c, n + 1), w, IF SaysGoodbye(c) THEN n + 1 ELSE n)
         /\ Alive(handleError(c, n + 1))
<1>1. CASE ~c.connected
  BY <1>1 DEF handleError, disconnect, SaysGoodbye, Alive
<1>2. CASE c.connected
  <2> DEFINE e == IF c.authenticated THEN sendMessage(c, "LOGOUT", n + 1) ELSE c
             m == IF SaysGoodbye(c) THEN n + 1 ELSE n
             d == [close(e) EXCEPT !.connected = FALSE, !.authenticated = FALSE]
  <2>1. Good(S, e, w, m)
    BY <1>2, SendKeeps DEF SaysGoodbye, Kind
  <2> HIDE DEF e, m
  <2>2. Good(S, close(e), w, m)
    BY <2>1, CloseKeeps
  <2>3. close(e) \in ClientState
    BY <2>2 DEF Good
  <2>4. /\ d \in ClientState /\ d.writing = close(e).writing
        /\ d.writeQueue = close(e).writeQueue /\ d.posted = close(e).posted
        /\ d.writes = close(e).writes /\ d.connected = FALSE
    BY <2>3 DEF ClientState
  <2>5. Good(S, d, w, m)
    <3> HIDE DEF d
    <3> QED BY <2>2, <2>4, WriterFieldsKeep
  <2> QED BY <2>4, <2>5, <1>2 DEF handleError, disconnect, Alive, e, m
<1> QED BY <1>1, <1>2

\* What sendMessage does not touch.
LEMMA SendFields ==
  ASSUME NEW c \in ClientState, NEW kind, NEW n
  PROVE  LET d == sendMessage(c, kind, n)
         IN /\ d.socket = c.socket /\ d.connected = c.connected
            /\ d.reads = c.reads /\ d.connects = c.connects
  BY DEF sendMessage, Enqueue, PostWriteNext, ClientState

-----------------------------------------------------------------------------
\* The invariant, and that every action keeps it.
Rest ==
  /\ pendingHostname \in BOOLEAN
  /\ thread \in [Thread -> Place]
  /\ requests \in Seq({"REGISTER", "LOGIN"})
  /\ attempts \in Nat /\ reported \in Nat

ClientInv(S, c, w, n) == Good(S, c, w, n) /\ Alive(c) /\ Attempting(c)

BridgeInv == Rest /\ ClientInv(Starting, client, wire, issued)

LEMMA InitInv == Init => BridgeInv
<1> SUFFICES ASSUME Init PROVE BridgeInv
  OBVIOUS
<1>1. client = NewClient /\ wire = <<>> /\ issued = 0
  BY DEF Init
<1>2. Starting = {}
  BY DEF Init, Starting
<1>3. client \in ClientState
  BY <1>1 DEF NewClient, ClientState
<1>4. WriterAt({}, client)
  BY <1>1 DEF WriterAt, NobodyWrites, NewClient
<1>5. client.writeQueue = <<>> /\ client.writes = {}
      /\ client.connected = FALSE /\ client.socket = "closed"
  BY <1>1 DEF NewClient
<1>6. Numbered(client, wire, issued)
  BY <1>1, <1>5 DEF Numbered, FrontIsOut
<1>7. wire \in Seq(Nat) /\ issued \in Nat
  BY <1>1, EmptySeq
<1>8. Alive(client) /\ Attempting(client)
  BY <1>5 DEF Alive, Attempting
<1>9. Rest
  <2>1. requests = <<>> /\ requests \in Seq({"REGISTER", "LOGIN"})
    BY EmptySeq DEF Init
  <2> QED BY <2>1 DEF Init, Rest, Place
<1> QED BY <1>2, <1>3, <1>4, <1>6, <1>7, <1>8, <1>9 DEF BridgeInv, ClientInv, Good

\* Closing the socket keeps the whole of it.
LEMMA CloseInv ==
  ASSUME NEW S, NEW c, NEW w, NEW n, ClientInv(S, c, w, n)
  PROVE  ClientInv(S, close(c), w, n) /\ close(c).socket = "closed"
<1>1. c \in ClientState
  BY DEF ClientInv, Good
<1>2. close(c).socket = "closed"
  BY <1>1 DEF close, ClientState
<1> QED BY <1>1, <1>2, CloseKeeps, CloseAlive DEF ClientInv, Attempting

LEMMA DisconnectInv ==
  ASSUME NEW S, NEW c, NEW w, NEW n, Good(S, c, w, n), Attempting(c)
  PROVE  ClientInv(S, handleError(c, n + 1), w, IF SaysGoodbye(c) THEN n + 1 ELSE n)
<1>1. Attempting(handleError(c, n + 1))
  <2>1. CASE ~c.connected
    BY <2>1 DEF handleError, disconnect
  <2>2. CASE c.connected
    <3> DEFINE e == IF c.authenticated THEN sendMessage(c, "LOGOUT", n + 1) ELSE c
               m == IF c.authenticated THEN n + 1 ELSE n
    <3>1. Good(S, e, w, m)
      BY SendKeeps DEF Kind
    <3> HIDE DEF e, m
    <3>2. close(e).socket = "closed" /\ close(e) \in ClientState
      BY <3>1, CloseType DEF Good, close, ClientState
    <3> DEFINE f == close(e)
    <3> HIDE DEF f
    <3>3. [f EXCEPT !.connected = FALSE, !.authenticated = FALSE].socket = "closed"
      BY <3>2 DEF ClientState, f
    <3> QED BY <3>3, <2>2 DEF handleError, disconnect, Attempting, e, f
  <2> QED BY <2>1, <2>2
<1> QED BY <1>1, DisconnectKeeps DEF ClientInv

\* What is left on the server's side after a handler keeps its type.
LEMMA RequestsType == ASSUME Rest, NEW c PROVE RequestsLeft(c) \in Seq({"REGISTER", "LOGIN"})
  BY DEF Rest, RequestsLeft

LEMMA ThreadsStay == ASSUME UNCHANGED thread PROVE Starting' = Starting
  BY DEF Starting

-----------------------------------------------------------------------------
\* Changes that do not concern the writer.
LEMMA SetReads ==
  ASSUME NEW S, NEW c, NEW w, NEW n, Good(S, c, w, n), NEW ops \in [ReadStatus -> Nat]
  PROVE  LET d == [c EXCEPT !.reads = ops]
         IN /\ Good(S, d, w, n) /\ d.reads = ops /\ d.socket = c.socket
            /\ d.connected = c.connected /\ d.connects = c.connects
<1> DEFINE d == [c EXCEPT !.reads = ops]
<1>1. /\ d \in ClientState /\ d.reads = ops /\ d.socket = c.socket
      /\ d.connected = c.connected /\ d.connects = c.connects
      /\ d.writing = c.writing /\ d.writeQueue = c.writeQueue
      /\ d.posted = c.posted /\ d.writes = c.writes
  BY DEF Good, ClientState
<1> HIDE DEF d
<1>2. Good(S, d, w, n)
  BY <1>1, WriterFieldsKeep
<1> QED BY <1>1, <1>2 DEF d

LEMMA SetAuthenticated ==
  ASSUME NEW S, NEW c, NEW w, NEW n, Good(S, c, w, n), NEW on \in BOOLEAN
  PROVE  LET d == [c EXCEPT !.authenticated = on]
         IN /\ Good(S, d, w, n) /\ d.connects = c.connects /\ d.socket = c.socket
            /\ d.connected = c.connected /\ d.reads = c.reads
<1> DEFINE d == [c EXCEPT !.authenticated = on]
<1>1. /\ d \in ClientState /\ d.connects = c.connects /\ d.socket = c.socket
      /\ d.connected = c.connected /\ d.reads = c.reads
      /\ d.writing = c.writing /\ d.writeQueue = c.writeQueue
      /\ d.posted = c.posted /\ d.writes = c.writes
  BY DEF Good, ClientState
<1> HIDE DEF d
<1>2. Good(S, d, w, n)
  BY <1>1, WriterFieldsKeep
<1> QED BY <1>1, <1>2 DEF d

\* An operation turns from one status to another.
LEMMA TurnReads ==
  ASSUME NEW ops \in [ReadStatus -> Nat], NEW st \in ReadStatus, st # "pending",
         ops["pending"] > 0
  PROVE  Turn(ops, "pending", st) \in [ReadStatus -> Nat] /\ Turn(ops, "pending", st)[st] > 0
<1> DEFINE less == [ops EXCEPT !["pending"] = ops["pending"] - 1]
           more == [less EXCEPT ![st] = less[st] + 1]
<1>1. "pending" \in ReadStatus /\ ops["pending"] - 1 \in Nat
  BY DEF ReadStatus
<1>2. less \in [ReadStatus -> Nat] /\ less[st] \in Nat
  BY <1>1
<1> HIDE DEF less
<1>3. more \in [ReadStatus -> Nat] /\ more[st] > 0
  BY <1>2
<1>4. Turn(ops, "pending", st) = more
  BY DEF Turn, less
<1> QED BY <1>3, <1>4

LEMMA TurnConnects ==
  ASSUME NEW ops \in [WriteStatus -> Nat], ops["pending"] > 0
  PROVE  Turn(ops, "pending", "ok") \in [WriteStatus -> Nat]
  BY DEF Turn, WriteStatus

\* A thread goes from one place to another without owing a post.
LEMMA StartingStays ==
  ASSUME Rest, NEW t \in Thread, NEW p, thread[t] \notin {"post", "postLogout"},
         p \notin {"post", "postLogout"}, thread' = [thread EXCEPT ![t] = p]
  PROVE  Starting' = Starting
  BY DEF Rest, Starting

-----------------------------------------------------------------------------
\* The actions of the browser's thread and of the threads that send files.
LEMMA CallerInv ==
  ASSUME BridgeInv, BridgeAssumption PROVE Caller => BridgeInv'
<1> USE DEF BridgeInv, BridgeAssumption
<1>1. ASSUME CloseForConnect PROVE BridgeInv'
  <2>1. Starting' = Starting
    BY <1>1, StartingStays DEF CloseForConnect
  <2>2. ClientInv(Starting, close(client), wire, issued)
    BY CloseInv
  <2>3. Rest'
    BY <1>1 DEF CloseForConnect, Rest, Place
  <2> QED BY <1>1, <2>1, <2>2, <2>3 DEF CloseForConnect
<1>2. ASSUME StartConnect PROVE BridgeInv'
  <2> DEFINE c == close(client)
             ops == [c.connects EXCEPT !["pending"] = @ + 1]
             d == [c EXCEPT !.socket = "connecting", !.connects["pending"] = @ + 1]
  <2>1. Starting' = Starting
    BY <1>2, StartingStays DEF StartConnect
  <2>2. ClientInv(Starting, c, wire, issued)
    BY CloseInv
  <2> HIDE DEF c
  <2>3. c \in ClientState /\ c.connects \in [WriteStatus -> Nat] /\ c.connected \in BOOLEAN
    BY <2>2 DEF ClientInv, Good, ClientState
  <2>4. ops \in [WriteStatus -> Nat] /\ ops["pending"] > 0
    BY <2>3 DEF WriteStatus
  <2>5. d = [c EXCEPT !.socket = "connecting", !.connects = ops]
    BY <2>3 DEF ClientState
  <2> HIDE DEF ops, d
  <2>6. /\ d \in ClientState /\ d.connects = ops
        /\ d.connected = c.connected /\ d.reads = c.reads
        /\ d.writing = c.writing /\ d.writeQueue = c.writeQueue
        /\ d.posted = c.posted /\ d.writes = c.writes
    BY <2>3, <2>4, <2>5 DEF ClientState
  <2>7. Good(Starting, d, wire, issued)
    <3>1. Good(Starting, c, wire, issued)
      BY <2>2 DEF ClientInv
    <3> QED BY <3>1, <2>6, WriterFieldsKeep
  <2>8. ClientInv(Starting, d, wire, issued)
    BY <2>2, <2>4, <2>6, <2>7 DEF ClientInv, Alive, Attempting
  <2>9. Rest'
    BY <1>2 DEF StartConnect, Rest, Place
  <2> QED BY <1>2, <2>1, <2>8, <2>9 DEF StartConnect, c, d
<1>3. ASSUME ResolveFails PROVE BridgeInv'
  <2>1. Starting' = Starting
    BY <1>3, StartingStays DEF ResolveFails
  <2>2. Rest'
    BY <1>3 DEF ResolveFails, Rest, Place
  <2> QED BY <1>3, <2>1, <2>2 DEF ResolveFails
<1>4. ASSUME NEW t \in Thread, NEW kind \in Kind,
             NEW posting \in {"post", "postLogout"}, NEW otherwise \in {"idle", "logout"},
             Send(t, kind, posting, otherwise)
      PROVE  BridgeInv'
  <2> DEFINE d == Enqueue(client, kind, issued + 1)
  <2>1. Good(Starting, client, wire, issued) /\ client \in ClientState
    BY DEF ClientInv, Good
  <2>2. d.socket = client.socket /\ d.connected = client.connected
        /\ d.reads = client.reads /\ d.connects = client.connects
    BY <2>1 DEF Enqueue, ClientState
  <2>3. Rest'
    BY <1>4 DEF Send, Rest, Place
  <2>4. Good(Starting', d, wire, issued + 1)
    <3>1. CASE NeedsStart(client)
      <4>1. Starting = {} /\ Good({t}, d, wire, issued + 1)
        BY <2>1, <3>1, EnqueueKeeps
      <4>2. thread' = [thread EXCEPT ![t] = posting]
        BY <1>4, <3>1 DEF Send
      <4>3. Starting' = {t}
        BY <4>1, <4>2 DEF Starting, Rest
      <4> HIDE DEF d
      <4> QED BY <4>1, <4>3
    <3>2. CASE ~NeedsStart(client)
      <4>1. Good(Starting, d, wire, issued + 1)
        BY <2>1, <3>2, EnqueueKeeps
      <4>2. thread' = [thread EXCEPT ![t] = otherwise] /\ thread[t] = "idle"
        BY <1>4, <3>2 DEF Send
      <4>3. Starting' = Starting
        BY <4>2, StartingStays
      <4> HIDE DEF d
      <4> QED BY <4>1, <4>3
    <3> QED BY <3>1, <3>2
  <2>5. Alive(d) /\ Attempting(d)
    BY <2>2 DEF ClientInv, Alive, Attempting
  <2>6. client' = d /\ issued' = issued + 1 /\ wire' = wire
    BY <1>4 DEF Send
  <2> HIDE DEF d
  <2> QED BY <2>3, <2>4, <2>5, <2>6 DEF ClientInv
<1>5. ASSUME NEW t \in Thread, SendFrame(t) PROVE BridgeInv'
  BY <1>4, <1>5 DEF SendFrame, Kind
<1>6. ASSUME Logout PROVE BridgeInv'
  BY <1>4, <1>6 DEF Logout, Kind
<1>7. ASSUME NEW t \in Thread, Post(t) PROVE BridgeInv'
  <2> DEFINE d == PostWriteNext(client)
  <2>1. t \in Starting /\ Good(Starting, client, wire, issued) /\ client \in ClientState
    BY <1>7 DEF Post, Starting, ClientInv, Good
  <2>2. Starting = {t} /\ Good({}, d, wire, issued)
    BY <2>1, PostKeeps
  <2>3. d.socket = client.socket /\ d.connected = client.connected
        /\ d.reads = client.reads /\ d.connects = client.connects
    BY <2>1 DEF PostWriteNext, ClientState
  <2>4. thread' = [thread EXCEPT ![t] = IF thread[t] = "post" THEN "idle" ELSE "logout"]
    BY <1>7 DEF Post, Rest
  <2>5. Starting' = {}
    BY <2>2, <2>4 DEF Starting, Rest
  <2>6. Rest'
    BY <1>7, <2>4 DEF Post, Rest, Place
  <2>7. client' = d /\ issued' = issued /\ wire' = wire
    BY <1>7 DEF Post
  <2> HIDE DEF d
  <2>8. Alive(d) /\ Attempting(d)
    BY <2>3 DEF ClientInv, Alive, Attempting
  <2> QED BY <2>2, <2>5, <2>6, <2>7, <2>8 DEF ClientInv
<1>8. ASSUME LogoutEnds PROVE BridgeInv'
  <2> DEFINE d == [client EXCEPT !.authenticated = FALSE]
  <2>1. Starting' = Starting
    BY <1>8, StartingStays DEF LogoutEnds
  <2>2. /\ Good(Starting, d, wire, issued) /\ d.connects = client.connects
        /\ d.socket = client.socket /\ d.connected = client.connected
        /\ d.reads = client.reads
    BY SetAuthenticated DEF ClientInv
  <2>3. Rest'
    BY <1>8 DEF LogoutEnds, Rest, Place
  <2>4. client' = d /\ issued' = issued /\ wire' = wire
    BY <1>8 DEF LogoutEnds
  <2> HIDE DEF d
  <2> QED BY <2>1, <2>2, <2>3, <2>4 DEF ClientInv, Alive, Attempting
<1> QED BY <1>1, <1>2, <1>3, <1>5, <1>6, <1>7, <1>8 DEF Caller

-----------------------------------------------------------------------------
\* The actions of the io thread.  A read that starts is outstanding.
LEMMA ReadStartsInv ==
  ASSUME NEW S, NEW c, NEW w, NEW n, Good(S, c, w, n), Attempting(c),
         NEW st \in ReadStarts(c)
  PROVE  ClientInv(S, readHeader(c, st), w, n)
<1> DEFINE ops == [c.reads EXCEPT ![st] = @ + 1]
           d == readHeader(c, st)
<1>1. st \in ReadStatus /\ c.reads \in [ReadStatus -> Nat] /\ c \in ClientState
  BY DEF ReadStarts, ReadStatus, Good, ClientState
<1>2. ops \in [ReadStatus -> Nat] /\ ops[st] > 0
  BY <1>1
<1>3. d = [c EXCEPT !.reads = ops]
  BY <1>1 DEF readHeader
<1> HIDE DEF ops, d
<1>4. /\ Good(S, d, w, n) /\ d.reads = ops /\ d.socket = c.socket
      /\ d.connected = c.connected /\ d.connects = c.connects
  BY <1>2, <1>3, SetReads
<1>5. ClientInv(S, d, w, n)
  BY <1>1, <1>2, <1>4 DEF ClientInv, Alive, Attempting
<1> QED BY <1>5 DEF d

\* A handler of an operation takes it off.
LEMMA TakeRead ==
  ASSUME NEW S, NEW c, NEW w, NEW n, Good(S, c, w, n), Attempting(c),
         NEW st \in ReadStatus, c.reads[st] > 0
  PROVE  LET d == [c EXCEPT !.reads[st] = @ - 1]
         IN Good(S, d, w, n) /\ Attempting(d)
<1> DEFINE ops == [c.reads EXCEPT ![st] = @ - 1]
           d == [c EXCEPT !.reads[st] = @ - 1]
<1>1. ops \in [ReadStatus -> Nat]
  BY DEF Good, ClientState
<1>2. d = [c EXCEPT !.reads = ops]
  BY DEF Good, ClientState
<1> HIDE DEF ops, d
<1>3. Good(S, d, w, n) /\ d.socket = c.socket /\ d.connects = c.connects
  BY <1>1, <1>2, SetReads
<1> QED BY <1>3 DEF Attempting, d

LEMMA TakeConnect ==
  ASSUME NEW S, NEW c, NEW w, NEW n, ClientInv(S, c, w, n),
         NEW st \in {"ok", "failed"}, c.connects[st] > 0, NEW on \in BOOLEAN
  PROVE  LET d == [c EXCEPT !.connects[st] = @ - 1, !.connected = on]
         IN Good(S, d, w, n) /\ Attempting(d) /\ d.connected = on /\ d.reads = c.reads
<1> DEFINE ops == [c.connects EXCEPT ![st] = @ - 1]
           d == [c EXCEPT !.connects[st] = @ - 1, !.connected = on]
<1>1. c \in ClientState /\ c.connects \in [WriteStatus -> Nat]
  BY DEF ClientInv, Good, ClientState
<1>2. ops \in [WriteStatus -> Nat] /\ ops["pending"] = c.connects["pending"]
  BY <1>1 DEF WriteStatus
<1>3. d = [c EXCEPT !.connects = ops, !.connected = on]
  BY <1>1 DEF ClientState
<1> HIDE DEF ops, d
<1>4. /\ d \in ClientState /\ d.connects = ops /\ d.socket = c.socket
      /\ d.connected = on /\ d.reads = c.reads
      /\ d.writing = c.writing /\ d.writeQueue = c.writeQueue
      /\ d.posted = c.posted /\ d.writes = c.writes
  BY <1>1, <1>2, <1>3 DEF ClientState
<1>5. Good(S, d, w, n)
  <2>1. Good(S, c, w, n)
    BY DEF ClientInv
  <2> QED BY <2>1, <1>4, WriterFieldsKeep
<1> QED BY <1>2, <1>4, <1>5 DEF ClientInv, Attempting, d

\* A handler that sends a frame or not.
LEMMA MaybeSend ==
  ASSUME NEW S, NEW c, NEW w, NEW n, Good(S, c, w, n), Attempting(c),
         NEW kind \in Kind, NEW b \in BOOLEAN
  PROVE  LET d == IF b THEN sendMessage(c, kind, n + 1) ELSE c
         IN /\ Good(S, d, w, IF b THEN n + 1 ELSE n) /\ Attempting(d)
            /\ d.reads = c.reads
<1>1. CASE b
  <2> DEFINE d == sendMessage(c, kind, n + 1)
  <2>1. Good(S, d, w, n + 1) /\ c \in ClientState
    BY SendKeeps DEF Good
  <2>2. d.socket = c.socket /\ d.reads = c.reads /\ d.connects = c.connects
    BY <2>1, SendFields
  <2> HIDE DEF d
  <2>3. Attempting(d)
    BY <2>2 DEF Attempting
  <2> QED BY <2>1, <2>2, <2>3, <1>1 DEF d
<1>2. CASE ~b
  BY <1>2
<1> QED BY <1>1, <1>2

\* How a handler of the io thread ends.
LEMMA IoEndsInv ==
  ASSUME BridgeInv, NEW c, NEW sent, IoEnds(c, sent),
         ClientInv(Starting, c, wire, issued + sent),
         wire' = wire,
         pendingHostname' \in BOOLEAN, reported' \in Nat
  PROVE  BridgeInv'
<1>1. /\ client' = c /\ issued' = issued + sent /\ requests' = RequestsLeft(c)
      /\ thread' = thread /\ attempts' = attempts
  BY DEF IoEnds, IoKeeps
<1>2. Starting' = Starting
  BY <1>1, ThreadsStay
<1>3. requests' \in Seq({"REGISTER", "LOGIN"})
  BY <1>1, RequestsType DEF BridgeInv
<1>4. Rest'
  BY <1>1, <1>3 DEF BridgeInv, Rest
<1> QED BY <1>1, <1>2, <1>4 DEF BridgeInv

\* The handlers of async_connect and async_read.
LEMMA ConnectHandlersInv ==
  ASSUME BridgeInv
  PROVE  /\ Connected => BridgeInv'
         /\ \A st \in {"ok", "failed"} : ConnectFailed(st) => BridgeInv'
<1>1. /\ ClientInv(Starting, client, wire, issued)
      /\ pendingHostname \in BOOLEAN /\ reported \in Nat /\ issued \in Nat
  BY DEF BridgeInv, Rest, ClientInv, Good
<1>2. ASSUME Connected PROVE BridgeInv'
  <2> DEFINE c0 == [client EXCEPT !.connects["ok"] = @ - 1, !.connected = TRUE]
             c1 == IF pendingHostname THEN sendMessage(c0, "REGISTER", issued + 1) ELSE c0
             sent == IF pendingHostname THEN 1 ELSE 0
  <2>1. Good(Starting, c0, wire, issued) /\ Attempting(c0)
    <3>1. client.connects["ok"] > 0 /\ "ok" \in {"ok", "failed"} /\ TRUE \in BOOLEAN
      BY <1>2 DEF Connected
    <3> QED BY <1>1, <3>1, TakeConnect
  <2>2. PICK st \in ReadStarts(c1) : IoEnds(readHeader(c1, st), sent)
    BY <1>2 DEF Connected
  <2>3. pendingHostname' \in BOOLEAN /\ reported' \in Nat /\ wire' = wire
    BY <1>1, <1>2 DEF Connected
  <2> HIDE DEF c0
  <2>4. Good(Starting, c1, wire, issued + sent) /\ Attempting(c1)
    <3>1. "REGISTER" \in Kind /\ issued + sent = IF pendingHostname THEN issued + 1 ELSE issued
      BY <1>1 DEF Kind
    <3> HIDE DEF sent
    <3> QED BY <3>1, <1>1, <2>1, MaybeSend
  <2> HIDE DEF c1, sent
  <2>5. ClientInv(Starting, readHeader(c1, st), wire, issued + sent)
    BY <2>2, <2>4, ReadStartsInv
  <2> QED BY <2>2, <2>3, <2>5, IoEndsInv
<1>3. ASSUME NEW st \in {"ok", "failed"}, ConnectFailed(st) PROVE BridgeInv'
  <2> DEFINE d == [client EXCEPT !.connects[st] = @ - 1, !.connected = FALSE]
  <2>1. Good(Starting, d, wire, issued) /\ Attempting(d) /\ d.connected = FALSE
    <3>1. client.connects[st] > 0
      BY <1>3 DEF ConnectFailed
    <3>2. \A on \in BOOLEAN :
            LET e == [client EXCEPT !.connects[st] = @ - 1, !.connected = on]
            IN Good(Starting, e, wire, issued) /\ Attempting(e) /\ e.connected = on
      BY <1>1, <3>1, TakeConnect
    <3> QED BY <3>2, Zenon
  <2>2. /\ IoEnds(d, 0) /\ reported' = reported + 1
        /\ pendingHostname' = pendingHostname /\ wire' = wire
    BY <1>3 DEF ConnectFailed
  <2> HIDE DEF d
  <2>3. ClientInv(Starting, d, wire, issued + 0)
    BY <2>1, <1>1 DEF ClientInv, Alive
  <2> QED BY <1>1, <2>2, <2>3, IoEndsInv
<1> QED BY <1>2, <1>3

LEMMA ReadHandlersInv ==
  ASSUME BridgeInv
  PROVE  /\ \A answer \in Answer : ReadHandled(answer) => BridgeInv'
         /\ ReadFailed => BridgeInv'
<1>1. /\ ClientInv(Starting, client, wire, issued)
      /\ Good(Starting, client, wire, issued) /\ Attempting(client)
      /\ pendingHostname \in BOOLEAN /\ reported \in Nat /\ issued \in Nat
  BY DEF BridgeInv, Rest, ClientInv, Good
<1>2. ASSUME NEW answer \in Answer, ReadHandled(answer) PROVE BridgeInv'
  <2> DEFINE c0 == IF answer = "OTHER" THEN client
                   ELSE [client EXCEPT !.authenticated = (answer = "AUTH_SUCCESS")]
             c1 == AfterAnswer(answer)
             c == [c1 EXCEPT !.reads[answer] = @ - 1]
             sent == IF LogsIn(answer) THEN 1 ELSE 0
  <2>1. Good(Starting, c0, wire, issued) /\ Attempting(c0) /\ c0.reads = client.reads
    <3>1. CASE answer = "OTHER"
      BY <1>1, <3>1
    <3>2. CASE answer # "OTHER"
      <4> DEFINE d == [client EXCEPT !.authenticated = (answer = "AUTH_SUCCESS")]
      <4>1. PICK on \in BOOLEAN : on = (answer = "AUTH_SUCCESS")
        BY Zenon
      <4>2. d = [client EXCEPT !.authenticated = on]
        BY <4>1
      <4> HIDE DEF d
      <4>3. /\ Good(Starting, d, wire, issued) /\ d.connects = client.connects
            /\ d.socket = client.socket /\ d.reads = client.reads
        BY <1>1, <4>2, SetAuthenticated
      <4>4. Attempting(d)
        BY <1>1, <4>3 DEF Attempting
      <4> QED BY <4>3, <4>4, <3>2 DEF d
    <3> QED BY <3>1, <3>2
  <2>2. PICK st \in ReadStarts(c) : IoEnds(readHeader(c, st), sent)
    BY <1>2 DEF ReadHandled
  <2>3. client.reads[answer] > 0
    BY <1>2 DEF ReadHandled
  <2>4. pendingHostname' \in BOOLEAN /\ reported' \in Nat /\ wire' = wire
    BY <1>1, <1>2 DEF ReadHandled
  <2>5. c1 = IF LogsIn(answer) THEN sendMessage(c0, "LOGIN", issued + 1) ELSE c0
    BY DEF AfterAnswer
  <2> HIDE DEF c0, c1
  <2>6. /\ Good(Starting, c1, wire, issued + sent) /\ Attempting(c1)
        /\ c1.reads = client.reads
    <3>1. "LOGIN" \in Kind /\ LogsIn(answer) \in BOOLEAN
      BY <1>1 DEF Kind, LogsIn
    <3>2. issued + sent = IF LogsIn(answer) THEN issued + 1 ELSE issued
      BY <1>1
    <3> HIDE DEF sent
    <3> QED BY <3>1, <3>2, <2>1, <2>5, MaybeSend
  <2>7. Good(Starting, c, wire, issued + sent) /\ Attempting(c)
    <3>1. answer \in ReadStatus /\ c1.reads[answer] > 0
      BY <2>3, <2>6 DEF ReadStatus
    <3> HIDE DEF sent
    <3> QED BY <2>6, <3>1, TakeRead
  <2> HIDE DEF c, sent
  <2>8. ClientInv(Starting, readHeader(c, st), wire, issued + sent)
    BY <2>2, <2>7, ReadStartsInv
  <2> QED BY <2>2, <2>4, <2>8, IoEndsInv
<1>3. ASSUME ReadFailed PROVE BridgeInv'
  <2> DEFINE c == [client EXCEPT !.reads["failed"] = @ - 1]
             sent == IF SaysGoodbye(c) THEN 1 ELSE 0
  <2>1. Good(Starting, c, wire, issued) /\ Attempting(c)
    <3>1. client.reads["failed"] > 0 /\ "failed" \in ReadStatus
      BY <1>3 DEF ReadFailed, ReadStatus
    <3> QED BY <1>1, <3>1, TakeRead
  <2>2. /\ IoEnds(handleError(c, issued + 1), sent)
        /\ UNCHANGED <<pendingHostname, wire, reported>>
    BY <1>3 DEF ReadFailed, Errs
  <2>3. issued + sent = IF SaysGoodbye(c) THEN issued + 1 ELSE issued
    BY <1>1
  <2> HIDE DEF c, sent
  <2>4. ClientInv(Starting, handleError(c, issued + 1), wire, issued + sent)
    BY <2>1, <2>3, DisconnectInv
  <2> QED BY <1>1, <2>2, <2>4, IoEndsInv
<1> QED BY <1>2, <1>3

\* Only the methods that change the queue and the writer differ in them.
LEMMA OtherFields ==
  ASSUME NEW c, Alive(c), Attempting(c), NEW d,
         d.socket = c.socket, d.connected = c.connected,
         d.reads = c.reads, d.connects = c.connects
  PROVE  Alive(d) /\ Attempting(d)
  BY DEF Alive, Attempting

\* A frame reaches the server.
LEMMA DeliveredType ==
  ASSUME Rest, NEW msg, NEW intact \in BOOLEAN, Delivered(msg, intact)
  PROVE  requests' \in Seq({"REGISTER", "LOGIN"})
<1>1. CASE msg.kind \in {"REGISTER", "LOGIN"} /\ intact
  BY <1>1 DEF Rest, Delivered
<1>2. CASE ~(msg.kind \in {"REGISTER", "LOGIN"} /\ intact)
  BY <1>2 DEF Rest, Delivered
<1> QED BY <1>1, <1>2

\* The handler of async_write, and writeNext.
LEMMA WriteHandlersInv ==
  ASSUME BridgeInv
  PROVE  /\ \A op \in client.writes : WriteFailed(op) \/ WriteHandled(op) => BridgeInv'
         /\ WriteNextRuns => BridgeInv'
<1>1. /\ ClientInv(Starting, client, wire, issued) /\ client \in ClientState
      /\ Good(Starting, client, wire, issued) /\ Attempting(client) /\ Alive(client)
      /\ pendingHostname \in BOOLEAN /\ reported \in Nat /\ issued \in Nat
  BY DEF BridgeInv, Rest, ClientInv, Good
<1>2. ASSUME NEW op \in client.writes, WriteFailed(op) PROVE BridgeInv'
  <2> DEFINE c == [client EXCEPT !.writes = @ \ {op}]
             sent == IF SaysGoodbye(c) THEN 1 ELSE 0
  <2>1. Good(Starting, c, wire, issued)
    <3>1. op.status = "failed"
      BY <1>2 DEF WriteFailed
    <3> QED BY <1>1, <3>1, WriteDroppedKeeps
  <2>2. /\ IoEnds(handleError(c, issued + 1), sent)
        /\ UNCHANGED <<pendingHostname, wire, reported>>
    BY <1>2 DEF WriteFailed, Errs
  <2>3. issued + sent = IF SaysGoodbye(c) THEN issued + 1 ELSE issued
    BY <1>1
  <2>4. c.socket = client.socket /\ c.connects = client.connects
    BY <1>1 DEF ClientState
  <2> HIDE DEF c, sent
  <2>5. Attempting(c)
    BY <1>1, <2>4 DEF Attempting
  <2>6. ClientInv(Starting, handleError(c, issued + 1), wire, issued + sent)
    BY <2>1, <2>3, <2>5, DisconnectInv
  <2> QED BY <1>1, <2>2, <2>6, IoEndsInv
<1>3. ASSUME NEW op \in client.writes, WriteHandled(op) PROVE BridgeInv'
  <2> DEFINE d == WriteCompleted(client, op)
  <2>1. Good(Starting, d, wire, issued)
    <3>1. op.status = "ok"
      BY <1>3 DEF WriteHandled
    <3> QED BY <1>1, <3>1, WriteCompletedKeeps
  <2>2. d.socket = client.socket /\ d.connected = client.connected
        /\ d.reads = client.reads /\ d.connects = client.connects
    BY <1>1 DEF WriteCompleted, PostWriteNext, ClientState
  <2>3. IoEnds(d, 0) /\ UNCHANGED <<pendingHostname, wire, reported>>
    BY <1>3 DEF WriteHandled
  <2> HIDE DEF d
  <2>4. Alive(d) /\ Attempting(d)
    BY <1>1, <2>2, OtherFields
  <2>5. ClientInv(Starting, d, wire, issued + 0)
    BY <1>1, <2>1, <2>4 DEF ClientInv
  <2> QED BY <1>1, <2>3, <2>5, IoEndsInv
<1>4. ASSUME WriteNextRuns PROVE BridgeInv'
  <2>1. PICK st \in WriteStarts(client) :
          /\ client' = writeNext(client, st)
          /\ IF client.writeQueue # <<>> /\ st = "ok"
             THEN Delivered(Head(client.writeQueue), TRUE)
             ELSE UNCHANGED <<wire, requests>>
    BY <1>4 DEF WriteNextRuns
  <2>2. client.posted > 0 /\ st \in WriteStatus
    <3>1. client.socket \in {"closed", "connecting", "open"}
      BY <1>1 DEF ClientState
    <3>2. WriteStarts(client) \subseteq WriteStatus
      BY <3>1 DEF WriteStarts, WriteStatus
    <3> QED BY <1>4, <3>2 DEF WriteNextRuns
  <2> DEFINE d == writeNext(client, st)
             x == IF st = "ok" THEN Append(wire, Head(client.writeQueue).n) ELSE wire
  <2>3. client.writeQueue # <<>> /\ Good(Starting, d, x, issued)
    BY <1>1, <2>2, WriteNextKeeps
  <2>4. wire' = x
    BY <2>1, <2>3 DEF Delivered
  <2>5. requests' \in Seq({"REGISTER", "LOGIN"})
    <3>1. CASE st = "ok"
      <4>1. Rest /\ Delivered(Head(client.writeQueue), TRUE)
        BY <2>1, <2>3, <3>1 DEF BridgeInv
      <4>2. \A intact \in BOOLEAN : Delivered(Head(client.writeQueue), intact)
              => requests' \in Seq({"REGISTER", "LOGIN"})
        BY <4>1, DeliveredType
      <4> QED BY <4>1, <4>2, Zenon
    <3>2. CASE st # "ok"
      BY <2>1, <3>2 DEF BridgeInv, Rest
    <3> QED BY <3>1, <3>2
  <2>6. d.socket = client.socket /\ d.connected = client.connected
        /\ d.reads = client.reads /\ d.connects = client.connects
    BY <1>1 DEF writeNext, ClientState
  <2>7. client' = d
    BY <2>1
  <2>8. thread' = thread /\ issued' = issued
        /\ UNCHANGED <<attempts, pendingHostname, reported>>
    BY <1>4 DEF WriteNextRuns, IoKeeps
  <2>9. Starting' = Starting
    BY <2>8, ThreadsStay
  <2> HIDE DEF d, x
  <2>10. Alive(d) /\ Attempting(d)
    BY <1>1, <2>6, OtherFields
  <2>11. Rest'
    BY <2>5, <2>8 DEF BridgeInv, Rest
  <2> QED BY <2>3, <2>4, <2>7, <2>8, <2>9, <2>10, <2>11 DEF BridgeInv, ClientInv
<1> QED BY <1>2, <1>3, <1>4

-----------------------------------------------------------------------------
\* The system and the network.
LEMMA EnvironmentInv ==
  ASSUME BridgeInv, NEW c, Environment(c), ClientInv(Starting, c, wire', issued),
         requests' \in Seq({"REGISTER", "LOGIN"})
  PROVE  BridgeInv'
<1>1. client' = c /\ UNCHANGED <<pendingHostname, thread, issued, attempts, reported>>
  BY DEF Environment
<1>2. Starting' = Starting
  BY <1>1, ThreadsStay
<1>3. Rest'
  BY <1>1 DEF BridgeInv, Rest
<1> QED BY <1>1, <1>2, <1>3 DEF BridgeInv

LEMMA NetworkInv == ASSUME BridgeInv PROVE Network => BridgeInv'
<1>1. /\ ClientInv(Starting, client, wire, issued) /\ client \in ClientState
      /\ Good(Starting, client, wire, issued) /\ Attempting(client) /\ Alive(client)
      /\ requests \in Seq({"REGISTER", "LOGIN"}) /\ Rest
  BY DEF BridgeInv, Rest, ClientInv, Good
<1>2. /\ client.reads \in [ReadStatus -> Nat]
      /\ client.connects \in [WriteStatus -> Nat]
  BY <1>1 DEF ClientState
<1>3. ASSUME Established PROVE BridgeInv'
  <2> DEFINE ops == Turn(client.connects, "pending", "ok")
             d == [client EXCEPT !.socket = "open", !.connects = Turn(@, "pending", "ok")]
  <2>1. ops \in [WriteStatus -> Nat]
    <3>1. client.connects["pending"] > 0
      BY <1>1, <1>3 DEF Established, Attempting
    <3> QED BY <1>2, <3>1, TurnConnects
  <2>2. Environment(d) /\ UNCHANGED <<requests, wire>>
    BY <1>3 DEF Established
  <2>3. d = [client EXCEPT !.socket = "open", !.connects = ops]
    BY <1>1 DEF ClientState
  <2> HIDE DEF ops, d
  <2>4. /\ d \in ClientState /\ d.socket = "open"
        /\ d.connected = client.connected /\ d.reads = client.reads
        /\ d.writing = client.writing /\ d.writeQueue = client.writeQueue
        /\ d.posted = client.posted /\ d.writes = client.writes
    BY <1>1, <2>1, <2>3 DEF ClientState
  <2>5. Good(Starting, d, wire, issued)
    BY <1>1, <2>4, WriterFieldsKeep
  <2>6. ClientInv(Starting, d, wire, issued)
    BY <1>1, <2>4, <2>5 DEF ClientInv, Alive, Attempting
  <2> QED BY <1>1, <2>2, <2>6, EnvironmentInv
<1>4. ASSUME Refused PROVE BridgeInv'
  <2> DEFINE d == close(client)
  <2>1. Environment(d) /\ UNCHANGED <<requests, wire>>
    BY <1>4 DEF Refused
  <2>2. ClientInv(Starting, d, wire, issued)
    BY <1>1, CloseInv
  <2> HIDE DEF d
  <2> QED BY <1>1, <2>1, <2>2, EnvironmentInv
<1>5. ASSUME NEW st \in ReadStatus, st # "pending", client.reads["pending"] > 0
      PROVE  ClientInv(Starting, [client EXCEPT !.reads = Turn(@, "pending", st)], wire, issued)
  <2> DEFINE ops == Turn(client.reads, "pending", st)
             d == [client EXCEPT !.reads = Turn(@, "pending", st)]
  <2>1. ops \in [ReadStatus -> Nat] /\ ops[st] > 0
    BY <1>2, <1>5, TurnReads
  <2>2. d = [client EXCEPT !.reads = ops]
    BY <1>1 DEF ClientState
  <2> HIDE DEF ops, d
  <2>3. /\ Good(Starting, d, wire, issued) /\ d.reads = ops
        /\ d.socket = client.socket /\ d.connects = client.connects
    BY <1>1, <2>1, <2>2, SetReads
  <2>4. ClientInv(Starting, d, wire, issued)
    BY <1>1, <2>1, <2>3 DEF ClientInv, Alive, Attempting
  <2> QED BY <2>4 DEF d
<1>6. ASSUME NEW answer \in Answer, FrameArrives(answer) PROVE BridgeInv'
  <2> DEFINE d == [client EXCEPT !.reads = Turn(@, "pending", answer)]
  <2>1. answer \in ReadStatus /\ answer # "pending" /\ client.reads["pending"] > 0
    BY <1>6 DEF FrameArrives, Answer, ReadStatus
  <2>2. ClientInv(Starting, d, wire, issued)
    BY <1>5, <2>1
  <2>3. Environment(d) /\ UNCHANGED wire
    BY <1>6 DEF FrameArrives
  <2>4. requests' \in Seq({"REGISTER", "LOGIN"})
    <3>1. CASE answer = "OTHER"
      BY <1>1, <1>6, <3>1 DEF FrameArrives
    <3>2. CASE answer # "OTHER"
      <4>1. requests # <<>> /\ requests' = Tail(requests)
        BY <1>6, <3>2 DEF FrameArrives
      <4> QED BY <1>1, <4>1
    <3> QED BY <3>1, <3>2
  <2> HIDE DEF d
  <2> QED BY <1>1, <2>2, <2>3, <2>4, EnvironmentInv
<1>7. ASSUME ReadBreaks PROVE BridgeInv'
  <2> DEFINE d == [client EXCEPT !.reads = Turn(@, "pending", "failed")]
  <2>1. "failed" \in ReadStatus /\ "failed" # "pending" /\ client.reads["pending"] > 0
    BY <1>7 DEF ReadBreaks, ReadStatus
  <2>2. ClientInv(Starting, d, wire, issued)
    BY <1>5, <2>1
  <2>3. Environment(d) /\ UNCHANGED <<requests, wire>>
    BY <1>7 DEF ReadBreaks
  <2> HIDE DEF d
  <2> QED BY <1>1, <2>2, <2>3, EnvironmentInv
<1>8. ASSUME NEW op \in client.writes, op.status = "pending", NEW st \in {"ok", "failed"}
      PROVE  ClientInv(Starting,
               [client EXCEPT !.writes = (@ \ {op}) \cup {[op EXCEPT !.status = st]}],
               IF st = "ok" THEN Append(wire, op.msg.n) ELSE wire, issued)
  <2> DEFINE d == [client EXCEPT !.writes = (@ \ {op}) \cup {[op EXCEPT !.status = st]}]
             x == IF st = "ok" THEN Append(wire, op.msg.n) ELSE wire
  <2>1. Good(Starting, d, x, issued)
    BY <1>1, <1>8, WriteTurns
  <2>2. d.socket = client.socket /\ d.connected = client.connected
        /\ d.reads = client.reads /\ d.connects = client.connects
    BY <1>1 DEF ClientState
  <2> HIDE DEF d, x
  <2>3. Alive(d) /\ Attempting(d)
    BY <1>1, <2>2, OtherFields
  <2>4. ClientInv(Starting, d, x, issued)
    BY <2>1, <2>3 DEF ClientInv
  <2> QED BY <2>4 DEF d, x
<1>9. ASSUME NEW op \in client.writes, WriteGoes(op) PROVE BridgeInv'
  <2> DEFINE d == [client EXCEPT !.writes = (@ \ {op}) \cup {[op EXCEPT !.status = "ok"]}]
  <2>1. PICK intact \in BOOLEAN : Delivered(op.msg, intact)
    BY <1>9 DEF WriteGoes
  <2>2. op.status = "pending" /\ Environment(d)
    BY <1>9 DEF WriteGoes, Completed
  <2>3. wire' = Append(wire, op.msg.n)
    BY <2>1 DEF Delivered
  <2>4. ClientInv(Starting, d, wire', issued)
    BY <1>8, <2>2, <2>3
  <2>5. requests' \in Seq({"REGISTER", "LOGIN"})
    BY <1>1, <2>1, DeliveredType
  <2> HIDE DEF d
  <2> QED BY <2>2, <2>4, <2>5, EnvironmentInv
<1>10. ASSUME NEW op \in client.writes, WriteBreaks(op) PROVE BridgeInv'
  <2> DEFINE d == [client EXCEPT !.writes = (@ \ {op}) \cup {[op EXCEPT !.status = "failed"]}]
  <2>1. op.status = "pending" /\ Environment(d) /\ UNCHANGED <<requests, wire>>
    BY <1>10 DEF WriteBreaks, Completed
  <2>2. ClientInv(Starting, d, wire, issued)
    BY <1>8, <2>1
  <2> HIDE DEF d
  <2> QED BY <1>1, <2>1, <2>2, EnvironmentInv
<1> QED BY <1>3, <1>4, <1>6, <1>7, <1>9, <1>10 DEF Network

-----------------------------------------------------------------------------
\* What the invariant says of the properties.
LEMMA InvOneWriter == ASSUME BridgeInv PROVE OneWriter
<1>1. WriterAt(Starting, client) /\ client \in ClientState
  BY DEF BridgeInv, ClientInv, Good
<1>2. \A x : Cardinality({x}) = 1
  BY FS_Singleton
<1>3. Cardinality({}) = 0
  BY FS_EmptySet
<1>4. CASE NobodyWrites(Starting, client)
  BY <1>3, <1>4 DEF NobodyWrites, OneWriter, Writers
<1>5. CASE ThreadStarts(Starting, client)
  <2>1. Cardinality(Starting) = 1
    BY <1>2, <1>5 DEF ThreadStarts
  <2> QED BY <1>3, <1>5, <2>1 DEF ThreadStarts, OneWriter, Writers
<1>6. CASE NextIsPosted(Starting, client)
  BY <1>3, <1>6 DEF NextIsPosted, OneWriter, Writers
<1>7. CASE FrontIsWritten(Starting, client)
  <2>1. Cardinality(client.writes) = 1
    BY <1>2, <1>7 DEF FrontIsWritten
  <2> QED BY <1>3, <1>7, <2>1 DEF FrontIsWritten, OneWriter, Writers
<1> QED BY <1>1, <1>4, <1>5, <1>6, <1>7 DEF WriterAt

\* A sequence of the first numbers, and the rest of them after it.
LEMMA FirstAndRest ==
  ASSUME NEW w \in Seq(Nat), NEW q \in Seq(OutgoingMessage), NEW n \in Nat,
         \A i \in 1..Len(w) : w[i] = i, Len(w) = n - Len(q),
         \A j \in 1..Len(q) : q[j].n = n - Len(q) + j
  PROVE  w \o [i \in DOMAIN q |-> q[i].n] = [i \in 1..n |-> i]
<1> DEFINE r == [i \in DOMAIN q |-> q[i].n]
<1>1. Len(q) \in Nat /\ Len(w) \in Nat /\ DOMAIN q = 1..Len(q)
  BY LenProperties
<1>2. \A j \in 1..Len(q) : q[j].n \in Nat
  BY <1>1 DEF OutgoingMessage
<1>3. r = [i \in 1..Len(q) |-> q[i].n] /\ r \in [1..Len(q) -> Nat]
  BY <1>1, <1>2
<1>4. r \in Seq(Nat) /\ Len(r) = Len(q)
  <2> HIDE DEF r
  <2>1. r \in Seq(Nat)
    BY <1>1, <1>3, IsASeq
  <2> QED BY <1>1, <1>3, <2>1, LenProperties
<1>5. \A j \in 1..Len(q) : r[j] = Len(w) + j
  BY <1>1, <1>3
<1> HIDE DEF r
<1> DEFINE s == w \o r
<1>6. /\ s \in Seq(Nat) /\ Len(s) = n
      /\ \A i \in 1..n : s[i] = IF i <= Len(w) THEN w[i] ELSE r[i - Len(w)]
  <2>1. Len(w) + Len(r) = n
    BY <1>1, <1>4
  <2>2. /\ s \in Seq(Nat) /\ Len(s) = Len(w) + Len(r)
        /\ \A i \in 1..(Len(w) + Len(r)) : s[i] = IF i <= Len(w) THEN w[i] ELSE r[i - Len(w)]
    BY <1>4, ConcatProperties
  <2> HIDE DEF s
  <2> QED BY <2>1, <2>2
<1> HIDE DEF s
<1>7. \A i \in 1..n : s[i] = i
  <2> TAKE i \in 1..n
  <2>1. CASE i <= Len(w)
    <3>1. i \in 1..Len(w) /\ s[i] = w[i]
      BY <2>1, <1>1, <1>6
    <3> QED BY <3>1
  <2>2. CASE ~(i <= Len(w))
    <3>1. i - Len(w) \in 1..Len(q)
      BY <2>2, <1>1
    <3>2. s[i] = r[i - Len(w)] /\ r[i - Len(w)] = Len(w) + (i - Len(w))
      BY <2>2, <3>1, <1>5, <1>6
    <3> QED BY <3>2, <1>1
  <2> QED BY <2>1, <2>2
<1>8. s \in [1..n -> Nat]
  BY <1>6, LenProperties
<1>9. s = [i \in 1..n |-> i]
  BY <1>7, <1>8
<1> QED BY <1>9 DEF s, r

LEMMA InvInOrderOnce == ASSUME BridgeInv PROVE InOrderOnce
<1>1. /\ Good(Starting, client, wire, issued) /\ client \in ClientState
      /\ wire \in Seq(Nat) /\ issued \in Nat /\ Numbered(client, wire, issued)
      /\ client.writeQueue \in Seq(OutgoingMessage)
  BY DEF BridgeInv, ClientInv, Good, ClientState
<1> DEFINE q == IF FrontIsOut(client) THEN Tail(client.writeQueue) ELSE client.writeQueue
<1>2. CASE FrontIsOut(client)
  <2>1. client.writeQueue # <<>>
    <3>1. PICK op \in client.writes : op.status = "ok"
      BY <1>2 DEF FrontIsOut
    <3> QED BY <1>1, <3>1, WriteIsOfFront
  <2>2. /\ q \in Seq(OutgoingMessage) /\ Len(q) = Len(client.writeQueue) - 1
        /\ \A j \in 1..Len(q) : q[j].n = issued - Len(q) + j
    BY <1>1, <1>2, <2>1, OneLess DEF Numbered
  <2> HIDE DEF q
  <2>3. Len(q) \in Nat /\ Len(client.writeQueue) \in Nat /\ Len(wire) \in Nat
    BY <1>1, <2>2, LenProperties
  <2>4. Len(wire) = issued - Len(q)
    BY <1>1, <1>2, <2>2, <2>3 DEF Numbered
  <2>5. wire \o [i \in DOMAIN q |-> q[i].n] = [i \in 1..issued |-> i]
    BY <1>1, <2>2, <2>4, FirstAndRest DEF Numbered
  <2> QED BY <2>5 DEF InOrderOnce, FrontIsOut, q
<1>3. CASE ~FrontIsOut(client)
  <2>1. /\ q \in Seq(OutgoingMessage) /\ q = client.writeQueue
        /\ \A j \in 1..Len(q) : q[j].n = issued - Len(q) + j
    BY <1>1, <1>3 DEF Numbered
  <2> HIDE DEF q
  <2>2. Len(wire) = issued - Len(q)
    BY <1>1, <1>3, <2>1, LenProperties DEF Numbered
  <2>3. wire \o [i \in DOMAIN q |-> q[i].n] = [i \in 1..issued |-> i]
    BY <1>1, <2>1, <2>2, FirstAndRest DEF Numbered
  <2> QED BY <2>3 DEF InOrderOnce, FrontIsOut, q
<1> QED BY <1>2, <1>3

-----------------------------------------------------------------------------
\* The invariant holds, whatever the threads, the commands and the bounds are.
LEMMA BridgeInvariant == Spec => []BridgeInv
<1>1. BridgeInv /\ [Next]_vars => BridgeInv'
  <2> SUFFICES ASSUME BridgeInv, [Next]_vars PROVE BridgeInv'
    OBVIOUS
  <2>1. CASE Caller
    BY <2>1, BridgeAssumption, CallerInv
  <2>2. CASE IoThread
    BY <2>2, ConnectHandlersInv, ReadHandlersInv, WriteHandlersInv DEF IoThread
  <2>3. CASE Network
    BY <2>3, NetworkInv
  <2>4. CASE UNCHANGED vars
    <3>1. Rest'
      BY <2>4 DEF vars, BridgeInv, Rest
    <3>2. Starting' = Starting
      BY <2>4, ThreadsStay DEF vars
    <3> QED BY <2>4, <3>1, <3>2 DEF vars, BridgeInv
  <2> QED BY <2>1, <2>2, <2>3, <2>4 DEF Next
<1> QED BY InitInv, <1>1, PTL DEF Spec

\* The state keeps its type: in particular no count of outstanding operations
\* is taken below zero by a handler.
THEOREM BridgeTypeCorrect == Spec => []BridgeTypeOK
<1>1. BridgeInv => BridgeTypeOK
  BY DEF BridgeInv, Rest, ClientInv, Good, BridgeTypeOK
<1> QED BY <1>1, BridgeInvariant, PTL

\* Any number of threads may call sendMessage, whatever the io thread and the
\* network do meanwhile: two async_writes never overlap (sendMessage and
\* writeNext, ClientCore.cpp:563-612).
THEOREM OneWriterHolds == Spec => []OneWriter
<1> QED BY InvOneWriter, BridgeInvariant, PTL

\* The frames go out once each and in the order in which they were queued,
\* over any number of connections (ClientCore.cpp:563-612).
THEOREM InOrderOnceHolds == Spec => []InOrderOnce
<1> QED BY InvInOrderOnce, BridgeInvariant, PTL

\* A connected client has a read outstanding, after any number of calls of
\* connect() over each other (ClientCore.cpp:28-56, 452-472).
THEOREM ReaderAliveHolds == Spec => []ReaderAlive
<1>1. BridgeInv => ReaderAlive
  BY DEF BridgeInv, ClientInv, Alive, ReaderAlive
<1> QED BY <1>1, BridgeInvariant, PTL

=============================================================================
