------------------------ MODULE LanShareServerProofs ------------------------
(***************************************************************************)
(* Proofs about the server as a whole, for any users, passwords, groups,   *)
(* sessions, queues and numbers of messages.  ServerInv is the inductive   *)
(* invariant; the theorems at the end are read off it.                     *)
(***************************************************************************)
EXTENDS ServerProperties, AuthManagerProofs, SequenceTheorems, FiniteSetTheorems

-----------------------------------------------------------------------------
(* Sessions and the registry: what every method of a session and every    *)
(* change of an entry keeps true.                                          *)

\* The session, if it is open, is told, or will be before anything queued
\* later, that it is u.
Told(ss, u) ==
  \/ ~ss.open
  \/ u \in ss.acked
  \/ \E j \in 1..Len(ss.writeQueue) : ss.writeQueue[j] = AuthSuccess(u)

\* WriterAwake and AuthSuccessFirst for one session.
WriterOK(ss) ==
  /\ ss.open => ss.writing \in {"idle", "pending"}
  /\ ss.writing = "idle" <=> ss.writeQueue = <<>>

ToldFirst(ss) ==
  ss.open =>
  /\ \A u \in UserID : ss.written[u] > 0 => u \in ss.acked
  /\ \A i \in 1..Len(ss.writeQueue) : ss.writeQueue[i].n > 0 =>
       \/ ss.writeQueue[i].to \in ss.acked
       \/ \E j \in 1..(i-1) : ss.writeQueue[j] = AuthSuccess(ss.writeQueue[i].to)

\* An AUTH_SUCCESS in the queue carries the ID of a user.
Addressed(q) ==
  \A i \in 1..Len(q) : q[i].type = "AUTH_SUCCESS" => q[i].to \in UserID

GoodSession(ss) ==
  ss \in SessionState /\ WriterOK(ss) /\ ToldFirst(ss) /\ Addressed(ss.writeQueue)

-----------------------------------------------------------------------------
LEMMA BlankType == Blank \in SessionState
  BY EmptySeq DEF Blank, NoneWritten, SessionState, Reading, Writing

LEMMA BlankGood == GoodSession(Blank) /\ GoodSession(Fresh)
<1>1. GoodSession(Blank)
  BY BlankType DEF GoodSession, WriterOK, ToldFirst, Addressed, Blank, NoneWritten
<1>2. /\ Fresh \in SessionState
      /\ Fresh.writing = "idle" /\ Fresh.writeQueue = <<>>
      /\ Fresh.written = Blank.written /\ Fresh.acked = {}
  BY BlankType DEF Fresh, Blank, SessionState, Reading, Writing
<1> QED BY <1>1, <1>2 DEF GoodSession, WriterOK, ToldFirst, Addressed, Blank, NoneWritten

(* What a session was told depends on its queue and its history only. *)
LEMMA SameTold ==
  ASSUME NEW ss, NEW tt, tt.writeQueue = ss.writeQueue, tt.acked = ss.acked,
         tt.written = ss.written, tt.open = ss.open
  PROVE  /\ ToldFirst(tt) <=> ToldFirst(ss)
         /\ \A u : Told(tt, u) <=> Told(ss, u)
  BY DEF ToldFirst, Told

LEMMA StopGood ==
  ASSUME NEW ss, GoodSession(ss)
  PROVE  GoodSession(stop(ss)) /\ \A u : Told(stop(ss), u)
<1>1. /\ stop(ss) \in SessionState
      /\ stop(ss).open = FALSE /\ stop(ss).writing = ss.writing
      /\ stop(ss).writeQueue = ss.writeQueue
  BY DEF stop, NoneWritten, GoodSession, SessionState
<1> QED BY <1>1 DEF GoodSession, WriterOK, ToldFirst, Told

LEMMA NextReadGood ==
  ASSUME NEW ss, GoodSession(ss)
  PROVE  GoodSession(NextRead(ss)) /\ \A u : Told(NextRead(ss), u) <=> Told(ss, u)
<1>1. /\ NextRead(ss) \in SessionState
      /\ NextRead(ss).open = ss.open /\ NextRead(ss).writing = ss.writing
      /\ NextRead(ss).writeQueue = ss.writeQueue /\ NextRead(ss).acked = ss.acked
      /\ NextRead(ss).written = ss.written
  BY DEF NextRead, Launch, Reading, GoodSession, SessionState
<1> QED BY <1>1, SameTold DEF GoodSession, WriterOK

LEMMA ReadFailedGood ==
  ASSUME NEW ss, GoodSession(ss)
  PROVE  GoodSession(ReadFailed(ss)) /\ \A u : Told(ReadFailed(ss), u)
<1>1. /\ ReadFailed(ss) \in SessionState
      /\ ReadFailed(ss).open = FALSE /\ ReadFailed(ss).writing = ss.writing
      /\ ReadFailed(ss).writeQueue = ss.writeQueue
  BY DEF ReadFailed, stop, NoneWritten, Reading, GoodSession, SessionState
<1> QED BY <1>1 DEF GoodSession, WriterOK, ToldFirst, Told

LEMMA WriteFailedGood ==
  ASSUME NEW ss, GoodSession(ss), ss.writing # "idle"
  PROVE  GoodSession(WriteFailed(ss)) /\ \A u : Told(WriteFailed(ss), u)
<1>1. /\ WriteFailed(ss) \in SessionState
      /\ WriteFailed(ss).open = FALSE /\ WriteFailed(ss).writing = "stuck"
      /\ WriteFailed(ss).writeQueue = ss.writeQueue
  BY DEF WriteFailed, stop, NoneWritten, Writing, GoodSession, SessionState
<1> QED BY <1>1 DEF GoodSession, WriterOK, ToldFirst, Told

(* Frames join the end of the queue: what was told stays told, and a frame  *)
(* whose user was told before may join.                                     *)
LEMMA SendAllGood ==
  ASSUME NEW ss, GoodSession(ss), NEW fs \in Seq(Frame),
         Addressed(fs), \A i \in 1..Len(fs) : fs[i].n > 0 => Told(ss, fs[i].to)
  PROVE  /\ GoodSession(sendAll(ss, fs))
         /\ \A u : Told(ss, u) => Told(sendAll(ss, fs), u)
         /\ \A u : (\E i \in 1..Len(fs) : fs[i] = AuthSuccess(u)) => Told(sendAll(ss, fs), u)
         /\ sendAll(ss, fs).userID = ss.userID
         /\ sendAll(ss, fs).authenticated = ss.authenticated
         /\ sendAll(ss, fs).reading = ss.reading
<1> DEFINE q == ss.writeQueue
           r == sendAll(ss, fs).writeQueue
<1>1. q \in Seq(Frame) /\ ss \in SessionState
  BY DEF GoodSession, SessionState
<1>2. /\ r = q \o fs
      /\ sendAll(ss, fs).acked = ss.acked /\ sendAll(ss, fs).written = ss.written
      /\ sendAll(ss, fs).open = ss.open
      /\ sendAll(ss, fs).userID = ss.userID
      /\ sendAll(ss, fs).authenticated = ss.authenticated
      /\ sendAll(ss, fs).reading = ss.reading
      /\ sendAll(ss, fs).writing =
           IF ss.writing = "idle" /\ fs # <<>> THEN Launch(ss) ELSE ss.writing
  BY <1>1 DEF sendAll, SessionState
<1>3. /\ r \in Seq(Frame) /\ Len(r) = Len(q) + Len(fs)
      /\ \A i \in 1..Len(r) : r[i] = IF i <= Len(q) THEN q[i] ELSE fs[i - Len(q)]
      /\ Len(q) \in Nat /\ Len(fs) \in Nat
      /\ r = <<>> <=> q = <<>> /\ fs = <<>>
  BY <1>1, <1>2, ConcatProperties, ConcatEqualIffEmpty, LenProperties
<1>4. sendAll(ss, fs) \in SessionState
  BY <1>1, <1>2, <1>3 DEF sendAll, SessionState, Writing, Launch
<1>5. WriterOK(sendAll(ss, fs))
  BY <1>2, <1>3 DEF GoodSession, WriterOK, Launch
<1>6. \A j \in 1..Len(q) : j \in 1..Len(r) /\ r[j] = q[j]
  BY <1>3
<1>7. \A u : Told(ss, u) => Told(sendAll(ss, fs), u)
  BY <1>2, <1>6 DEF Told
<1>8. \A u : (\E i \in 1..Len(fs) : fs[i] = AuthSuccess(u)) => Told(sendAll(ss, fs), u)
  <2> SUFFICES ASSUME NEW u, NEW i \in 1..Len(fs), fs[i] = AuthSuccess(u)
               PROVE  Told(sendAll(ss, fs), u)
    OBVIOUS
  <2>1. \E k \in 1..Len(r) : ~(k <= Len(q)) /\ k - Len(q) = i
    <3>1. Len(q) + i \in 1..Len(r) /\ ~(Len(q) + i <= Len(q)) /\ Len(q) + i - Len(q) = i
      BY <1>3
    <3> QED BY <3>1
  <2>2. PICK k \in 1..Len(r) : ~(k <= Len(q)) /\ k - Len(q) = i
    BY <2>1
  <2>3. r[k] = fs[i]
    BY <1>3, <2>2
  <2> QED BY <1>2, <2>3 DEF Told
<1>9. ToldFirst(sendAll(ss, fs))
  <2> SUFFICES ASSUME ss.open, NEW i \in 1..Len(r), r[i].n > 0, r[i].to \notin ss.acked
               PROVE  \E j \in 1..(i-1) : r[j] = AuthSuccess(r[i].to)
    BY <1>2 DEF GoodSession, ToldFirst
  <2>1. CASE i <= Len(q)
    <3>1. i \in 1..Len(q) /\ r[i] = q[i]
      BY <1>3, <2>1
    <3>2. PICK j \in 1..(i-1) : q[j] = AuthSuccess(q[i].to)
      BY <3>1 DEF GoodSession, ToldFirst
    <3>3. j \in 1..Len(q)
      BY <1>3, <2>1
    <3> QED BY <1>6, <3>1, <3>2, <3>3
  <2>2. CASE i > Len(q)
    <3>1. i - Len(q) \in 1..Len(fs) /\ r[i] = fs[i - Len(q)]
      BY <1>3, <2>2
    <3>2. PICK j \in 1..Len(q) : q[j] = AuthSuccess(r[i].to)
      BY <3>1 DEF Told
    <3>3. j \in 1..(i-1)
      BY <1>3, <2>2
    <3> QED BY <1>6, <3>2, <3>3
  <2> QED BY <1>3, <2>1, <2>2
<1>10. Addressed(r)
  <2> SUFFICES ASSUME NEW i \in 1..Len(r), r[i].type = "AUTH_SUCCESS"
               PROVE  r[i].to \in UserID
    BY DEF Addressed
  <2>1. CASE i <= Len(q)
    <3>1. i \in 1..Len(q) /\ r[i] = q[i]
      BY <1>3, <2>1
    <3> QED BY <3>1 DEF Addressed, GoodSession
  <2>2. CASE i > Len(q)
    <3>1. i - Len(q) \in 1..Len(fs) /\ r[i] = fs[i - Len(q)]
      BY <1>3, <2>2
    <3> QED BY <3>1 DEF Addressed
  <2> QED BY <1>3, <2>1, <2>2
<1> QED BY <1>2, <1>4, <1>5, <1>7, <1>8, <1>9, <1>10 DEF GoodSession

(* The frame at the head is on the wire; the rest of the queue moves up.    *)
LEMMA WriteCompletedGood ==
  ASSUME NEW ss, GoodSession(ss), ss.writing = "pending"
  PROVE  /\ GoodSession(WriteCompleted(ss))
         /\ \A u : Told(ss, u) => Told(WriteCompleted(ss), u)
         /\ WriteCompleted(ss).userID = ss.userID
         /\ WriteCompleted(ss).authenticated = ss.authenticated
<1> DEFINE q == ss.writeQueue
           f == Head(q)
           tt == WriteCompleted(ss)
           r == tt.writeQueue
<1>1. q \in Seq(Frame) /\ ss \in SessionState /\ q # <<>>
  BY DEF GoodSession, SessionState, WriterOK
<1>2. /\ f \in Frame /\ f = q[1]
      /\ Tail(q) \in Seq(Frame) /\ Len(Tail(q)) = Len(q) - 1
      /\ \A i \in 1..Len(Tail(q)) : Tail(q)[i] = q[i+1]
      /\ Len(q) \in Nat /\ Len(q) > 0
  BY <1>1, HeadTailProperties, LenProperties
<1>3. f.type = "AUTH_SUCCESS" => f.to \in UserID
  BY <1>2 DEF GoodSession, Addressed
<1>4. /\ Record(ss, f) \in SessionState
      /\ Record(ss, f).open = ss.open
      /\ Record(ss, f).userID = ss.userID
      /\ Record(ss, f).authenticated = ss.authenticated
      /\ Record(ss, f).acked = IF f.type = "AUTH_SUCCESS" THEN ss.acked \cup {f.to}
                              ELSE ss.acked
      /\ Record(ss, f).written = IF f.type \in {"AUTH_SUCCESS", "REPLY"} THEN ss.written
                                ELSE [ss.written EXCEPT ![f.to] = f.n]
  <2>1. CASE f.type = "AUTH_SUCCESS"
    BY <1>1, <1>3, <2>1 DEF Record, SessionState
  <2>2. CASE f.type = "REPLY"
    BY <1>1, <2>2 DEF Record, SessionState
  <2>3. CASE f.type \notin {"AUTH_SUCCESS", "REPLY"}
    <3>1. [ss.written EXCEPT ![f.to] = f.n] \in [UserID -> Nat]
      BY <1>1, <1>2 DEF SessionState, Frame
    <3> QED BY <1>1, <2>3, <3>1 DEF Record, SessionState
  <2> QED BY <2>1, <2>2, <2>3
<1>5. /\ tt \in SessionState
      /\ r = Tail(q) /\ tt.open = ss.open
      /\ tt.userID = ss.userID /\ tt.authenticated = ss.authenticated
      /\ tt.acked = Record(ss, f).acked /\ tt.written = Record(ss, f).written
      /\ tt.writing = IF r = <<>> THEN "idle" ELSE IF ss.open THEN "pending" ELSE "failing"
  <2> DEFINE rr == [Record(ss, f) EXCEPT !.writeQueue = Tail(@)]
  <2>1. Record(ss, f).writeQueue = q
    BY <1>1 DEF Record, SessionState
  <2>2. rr \in SessionState /\ rr.writeQueue = Tail(q) /\ rr.open = ss.open
        /\ rr.userID = ss.userID /\ rr.authenticated = ss.authenticated
        /\ rr.acked = Record(ss, f).acked /\ rr.written = Record(ss, f).written
    <3> HIDE DEF f
    <3> QED BY <1>2, <1>4, <2>1 DEF SessionState
  <2>3. tt = writeNext(rr)
    BY DEF WriteCompleted
  <2> HIDE DEF rr, tt
  <2> QED BY <2>2, <2>3 DEF writeNext, SessionState, Launch, Writing
<1>6. WriterOK(tt)
  BY <1>5 DEF WriterOK
<1>7. \A j \in 1..Len(q) : j = 1 \/ (j-1 \in 1..Len(r) /\ r[j-1] = q[j])
  BY <1>2, <1>5
<1>8. \A u : q[1] = AuthSuccess(u) => u \in tt.acked
  BY <1>2, <1>4, <1>5 DEF AuthSuccess
<1>9. \A u : Told(ss, u) => Told(tt, u)
  <2> SUFFICES ASSUME NEW u, Told(ss, u) PROVE Told(tt, u)
    OBVIOUS
  <2>1. CASE ~ss.open \/ u \in ss.acked
    BY <1>4, <1>5, <2>1 DEF Told
  <2>2. ASSUME NEW j \in 1..Len(q), q[j] = AuthSuccess(u) PROVE Told(tt, u)
    BY <1>7, <1>8, <2>2 DEF Told
  <2> QED BY <2>1, <2>2 DEF Told
<1>10. ToldFirst(tt)
  <2> SUFFICES ASSUME ss.open PROVE ToldFirst(tt)
    BY <1>5 DEF ToldFirst
  <2>1. ASSUME NEW u \in UserID, tt.written[u] > 0 PROVE u \in tt.acked
    <3>1. CASE tt.written[u] = ss.written[u]
      BY <1>4, <1>5, <2>1, <3>1 DEF GoodSession, ToldFirst
    <3>2. CASE tt.written[u] # ss.written[u]
      <4>1. f.to = u /\ f.n > 0
        BY <1>1, <1>4, <1>5, <2>1, <3>2 DEF SessionState
      <4>2. 1 \in 1..Len(q)
        BY <1>2
      <4> QED BY <1>2, <1>4, <1>5, <4>1, <4>2 DEF GoodSession, ToldFirst
    <3> QED BY <3>1, <3>2
  <2>2. ASSUME NEW i \in 1..Len(r), r[i].n > 0, r[i].to \notin tt.acked
        PROVE  \E j \in 1..(i-1) : r[j] = AuthSuccess(r[i].to)
    <3>1. i+1 \in 1..Len(q) /\ r[i] = q[i+1] /\ r[i].to \notin ss.acked
      BY <1>2, <1>4, <1>5, <2>2
    <3>2. PICK j \in 1..i : q[j] = AuthSuccess(r[i].to)
      BY <2>2, <3>1 DEF GoodSession, ToldFirst
    <3>3. j # 1
      BY <1>8, <2>2, <3>2
    <3>4. j-1 \in 1..(i-1) /\ r[j-1] = q[j]
      BY <1>2, <1>5, <3>1, <3>2, <3>3
    <3> QED BY <3>2, <3>4
  <2> QED BY <2>1, <2>2 DEF ToldFirst
<1>11. Addressed(r)
  <2> SUFFICES ASSUME NEW i \in 1..Len(r), r[i].type = "AUTH_SUCCESS"
               PROVE  r[i].to \in UserID
    BY DEF Addressed
  <2>1. i+1 \in 1..Len(q) /\ r[i] = q[i+1]
    BY <1>2, <1>5
  <2> QED BY <2>1 DEF Addressed, GoodSession
<1> QED BY <1>5, <1>6, <1>9, <1>10, <1>11 DEF GoodSession

-----------------------------------------------------------------------------
CoreState == [clients : [UserID -> Session \cup {NoSession}],
              session : [Session -> SessionState], hung : BOOLEAN]

\* Sessions are good, and an entry leads to a session that has signed in.
GoodCore(c) ==
  /\ c \in CoreState
  /\ \A s \in Session : GoodSession(c.session[s])
  /\ \A u \in UserID : c.clients[u] # NoSession => c.session[c.clients[u]].userID # NoUser

\* A session of S that nobody owns was destroyed.
NoLeak(c, S) ==
  ~c.hung => \A s \in S : c.session[s] # Blank => Held(c, s)

\* Every entry leads to a session that is told, or will be, that it answers
\* for the user of the entry.
EntriesTold(c) ==
  ~c.hung => \A u \in UserID : c.clients[u] # NoSession => Told(c.session[c.clients[u]], u)

\* Sessions sign in as users of A only.
SignedIn(c, A) ==
  \A s \in Session : c.session[s].authenticated => c.session[s].userID \in A

\* From c to d sessions are destroyed only, and none that is in use: no entry
\* leads there, no operation is outstanding.
OnlyDestroys(c, d) ==
  \A s \in Session :
    \/ d.session[s] = c.session[s]
    \/ /\ d.session[s] = Blank
       /\ ~OwnedByOperation(c.session[s])
       /\ \A u \in UserID : d.clients[u] # s

OnlyUnregisters(c, d) ==
  \A u \in UserID : d.clients[u] = c.clients[u] \/ d.clients[u] = NoSession

LEMMA BlankIsIdle ==
  /\ ~OwnedByOperation(Blank) /\ ~Blank.authenticated
  /\ Blank.userID = NoUser
  /\ Blank \in SessionState
  BY BlankType DEF OwnedByOperation, Blank

(* Replacing an entry destroys at most the session the entry led to.        *)
LEMMA ReplaceEntryGood ==
  ASSUME NEW c, GoodCore(c), NEW u \in UserID, NEW new \in Session \cup {NoSession},
         new # NoSession => c.session[new].userID # NoUser,
         NEW S, NoLeak(c, S), S \subseteq Session
  PROVE  LET e == ReplaceEntry(c, u, new) IN
         /\ GoodCore(e)
         /\ NoLeak(e, S)
         /\ OnlyDestroys(c, e)
         /\ e.clients = [c.clients EXCEPT ![u] = new]
         /\ c.hung => e.hung
<1> DEFINE old == c.clients[u]
           d == [c EXCEPT !.clients[u] = new]
           e == ReplaceEntry(c, u, new)
<1>1. /\ d \in CoreState /\ d.clients = [c.clients EXCEPT ![u] = new]
      /\ d.session = c.session /\ d.hung = c.hung
      /\ old \in Session \cup {NoSession}
  BY DEF GoodCore, CoreState
<1>2. \A v \in UserID : d.clients[v] = IF v = u THEN new ELSE c.clients[v]
  BY <1>1 DEF GoodCore, CoreState
<1>3. GoodCore(d)
  BY <1>1, <1>2 DEF GoodCore
<1>4. \A t \in Session : t # old /\ Held(c, t) => Held(d, t)
  BY <1>1, <1>2 DEF Held
<1>5. CASE e = d /\ (old = NoSession \/ old = new \/ Held(d, old))
  <2>1. NoLeak(d, S)
    <3> SUFFICES ASSUME ~d.hung, NEW t \in S, d.session[t] # Blank PROVE Held(d, t)
      BY DEF NoLeak
    <3>1. Held(c, t)
      BY <1>1 DEF NoLeak
    <3>2. CASE t # old
      BY <1>4, <3>1, <3>2
    <3>3. CASE t = old /\ old = new
      BY <1>2, <3>3 DEF Held
    <3> QED BY <1>5, <3>2, <3>3, NoSessionAssumption
  <2> QED BY <1>1, <1>3, <1>5, <2>1 DEF OnlyDestroys
<1>6. CASE e = [d EXCEPT !.hung = TRUE]
  <2>1. /\ e \in CoreState /\ e.clients = d.clients /\ e.session = d.session
        /\ e.hung = TRUE
    BY <1>1, <1>6 DEF CoreState
  <2> QED BY <1>1, <1>3, <2>1 DEF GoodCore, NoLeak, OnlyDestroys
<1>7. CASE /\ e = [d EXCEPT !.session[old] = Blank]
           /\ old \in Session /\ ~Held(d, old)
  <2>1. /\ e \in CoreState /\ e.clients = d.clients /\ e.hung = d.hung
        /\ \A t \in Session : e.session[t] = IF t = old THEN Blank ELSE c.session[t]
    <3> HIDE DEF d, e, old
    <3>1. e = [clients |-> d.clients, session |-> [d.session EXCEPT ![old] = Blank],
               hung |-> d.hung]
      BY <1>1, <1>7 DEF CoreState
    <3>2. [d.session EXCEPT ![old] = Blank] \in [Session -> SessionState]
      BY <1>1, <1>7, BlankType DEF CoreState
    <3> QED BY <1>1, <1>7, <3>1, <3>2 DEF CoreState
  <2>2. \A v \in UserID : e.clients[v] # old
    BY <1>7, <2>1 DEF Held
  <2>3. ~OwnedByOperation(c.session[old])
    BY <1>1, <1>7 DEF Held
  <2>4. GoodCore(e)
    BY <1>1, <1>3, <2>1, <2>2, BlankGood DEF GoodCore, CoreState
  <2>5. \A t \in Session : t # old /\ Held(d, t) => Held(e, t)
    BY <1>1, <2>1 DEF Held
  <2>6. NoLeak(e, S)
    BY <1>1, <1>4, <2>1, <2>5 DEF NoLeak
  <2> QED BY <1>1, <2>1, <2>2, <2>3, <2>4, <2>6 DEF OnlyDestroys
<1> QED BY <1>1, <1>5, <1>6, <1>7 DEF ReplaceEntry

(* A handler of s lets go of s: s is destroyed if it was the last owner, and *)
(* with it the entry of its user.                                           *)
LEMMA ReleaseSessionGood ==
  ASSUME NEW c, GoodCore(c), NEW s \in Session, NoLeak(c, Session \ {s}),
         SignedIn(c, UserID)
  PROVE  LET e == ReleaseSession(c, s) IN
         /\ GoodCore(e)
         /\ NoLeak(e, Session)
         /\ OnlyDestroys(c, e)
         /\ OnlyUnregisters(c, e)
         /\ c.hung => e.hung
<1> DEFINE ss == c.session[s]
           d == [c EXCEPT !.session[s] = Blank]
           e == ReleaseSession(c, s)
<1>1. /\ d \in CoreState /\ d.clients = c.clients /\ d.hung = c.hung
      /\ \A t \in Session : d.session[t] = IF t = s THEN Blank ELSE c.session[t]
  BY BlankType DEF GoodCore, CoreState
<1>2. CASE Held(c, s)
  <2>1. e = c
    BY <1>2 DEF ReleaseSession
  <2> QED BY <1>2, <2>1 DEF NoLeak, OnlyDestroys, OnlyUnregisters
<1>3. CASE ~Held(c, s)
  <2>1. \A v \in UserID : d.clients[v] # s
    BY <1>1, <1>3 DEF Held
  <2>2. GoodCore(d)
    BY <1>1, <2>1, BlankGood DEF GoodCore, CoreState
  <2>3. \A t \in Session : t # s /\ Held(c, t) => Held(d, t)
    BY <1>1 DEF Held
  <2>4. NoLeak(d, Session)
    BY <1>1, <2>3 DEF NoLeak
  <2>5. OnlyDestroys(c, d) /\ OnlyUnregisters(c, d)
    BY <1>1, <1>3, <2>1 DEF OnlyDestroys, OnlyUnregisters, Held
  <2>6. CASE ~ss.authenticated
    <3>1. e = d
      BY <1>3, <2>6 DEF ReleaseSession
    <3> QED BY <1>1, <2>2, <2>4, <2>5, <3>1
  <2>7. CASE ss.authenticated
    <3>1. ss.userID \in UserID /\ e = ReplaceEntry(d, ss.userID, NoSession)
      BY <1>3, <2>7 DEF ReleaseSession, unregisterClient, SignedIn
    <3>2. /\ GoodCore(e) /\ NoLeak(e, Session) /\ OnlyDestroys(d, e)
          /\ e.clients = [d.clients EXCEPT ![ss.userID] = NoSession]
          /\ d.hung => e.hung
      <4> HIDE DEF d, e, ss
      <4> QED BY <2>2, <2>4, <3>1, ReplaceEntryGood
    <3>3. OnlyUnregisters(c, e)
      BY <1>1, <3>1, <3>2 DEF OnlyUnregisters, CoreState
    <3>4. \A v \in UserID : e.clients[v] # s
      BY <1>1, <2>1, <3>2, NoSessionAssumption DEF CoreState
    <3>5. OnlyDestroys(c, e)
      <4> SUFFICES ASSUME NEW t \in Session, e.session[t] # c.session[t]
                   PROVE  /\ e.session[t] = Blank /\ ~OwnedByOperation(c.session[t])
                          /\ \A v \in UserID : e.clients[v] # t
        BY DEF OnlyDestroys
      <4>1. CASE t = s
        BY <1>1, <1>3, <3>2, <3>4, <4>1 DEF OnlyDestroys, Held
      <4>2. CASE t # s
        BY <1>1, <3>2, <4>2 DEF OnlyDestroys
      <4> QED BY <4>1, <4>2
    <3> QED BY <1>1, <3>2, <3>3, <3>5
  <2> QED BY <2>6, <2>7
<1> QED BY <1>2, <1>3

(* What holds of every session and entry outlives destruction.              *)
LEMMA DestroyKeeps ==
  ASSUME NEW c, NEW d, OnlyDestroys(c, d), OnlyUnregisters(c, d),
         d \in CoreState, c.hung => d.hung, NEW A
  PROVE  /\ SignedIn(c, A) => SignedIn(d, A)
         /\ EntriesTold(c) => EntriesTold(d)
  BY BlankIsIdle DEF OnlyDestroys, OnlyUnregisters, SignedIn, EntriesTold, CoreState

\* What the handlers keep true of the registry and its sessions, A being the
\* users there are.
CoreInv(c, A) ==
  GoodCore(c) /\ NoLeak(c, Session) /\ EntriesTold(c) /\ SignedIn(c, A)

SetSession(c, s, tt) == [c EXCEPT !.session[s] = tt]

LEMMA SetSessionFields ==
  ASSUME NEW c \in CoreState, NEW s \in Session, NEW tt \in SessionState
  PROVE  /\ SetSession(c, s, tt) \in CoreState
         /\ SetSession(c, s, tt).clients = c.clients
         /\ SetSession(c, s, tt).hung = c.hung
         /\ SetSession(c, s, tt).session[s] = tt
         /\ \A t \in Session : t # s => SetSession(c, s, tt).session[t] = c.session[t]
  BY DEF CoreState, SetSession

(* One session changes.                                                     *)
LEMMA UpdateGood ==
  ASSUME NEW c, NEW A, CoreInv(c, A), NEW s \in Session, NEW tt, GoodSession(tt),
         c.session[s].userID # NoUser => tt.userID # NoUser,
         tt.authenticated => tt.userID \in A,
         \A u : c.session[s].userID # NoUser /\ Told(c.session[s], u) => Told(tt, u)
  PROVE  /\ GoodCore(SetSession(c, s, tt))
         /\ EntriesTold(SetSession(c, s, tt))
         /\ SignedIn(SetSession(c, s, tt), A)
         /\ NoLeak(SetSession(c, s, tt), Session \ {s})
         /\ OwnedByOperation(tt) => CoreInv(SetSession(c, s, tt), A)
<1> DEFINE e == SetSession(c, s, tt)
<1>1. tt \in SessionState /\ GoodCore(c) /\ c \in CoreState
  BY DEF GoodSession, CoreInv, GoodCore
<1>2. /\ e \in CoreState /\ e.clients = c.clients /\ e.hung = c.hung
      /\ \A t \in Session : e.session[t] = IF t = s THEN tt ELSE c.session[t]
      /\ \A u \in UserID : c.clients[u] \in Session \cup {NoSession}
  <2>1. \A u \in UserID : c.clients[u] \in Session \cup {NoSession}
    BY <1>1 DEF CoreState
  <2>2. /\ e \in CoreState /\ e.clients = c.clients /\ e.hung = c.hung
        /\ e.session[s] = tt
        /\ \A t \in Session : t # s => e.session[t] = c.session[t]
    BY <1>1, SetSessionFields
  <2> HIDE DEF e
  <2> QED BY <2>1, <2>2
<1> HIDE DEF e
<1>3. GoodCore(e)
  BY <1>1, <1>2 DEF GoodCore
<1>4. NoLeak(e, Session \ {s})
  BY <1>2 DEF CoreInv, NoLeak, Held
<1>5. OwnedByOperation(tt) => NoLeak(e, Session)
  BY <1>2 DEF CoreInv, NoLeak, Held
<1>6. EntriesTold(e)
  BY <1>2 DEF CoreInv, GoodCore, EntriesTold
<1>7. SignedIn(e, A)
  BY <1>2 DEF CoreInv, SignedIn
<1> QED BY <1>3, <1>4, <1>5, <1>6, <1>7 DEF CoreInv, e

(* A session that is reading queues frames whose users it was told.         *)
LEMMA QueueGood ==
  ASSUME NEW c, NEW A, CoreInv(c, A), NEW s \in Session, c.session[s].reading # "none",
         NEW fs \in Seq(Frame), Addressed(fs),
         \A i \in 1..Len(fs) : fs[i].n > 0 => Told(c.session[s], fs[i].to)
  PROVE  LET e == SetSession(c, s, sendAll(c.session[s], fs)) IN
         /\ CoreInv(e, A)
         /\ e.clients = c.clients /\ e.hung = c.hung
         /\ e.session[s].reading = c.session[s].reading
<1> DEFINE ss == c.session[s]
           tt == sendAll(ss, fs)
<1>1. GoodSession(ss) /\ \A i \in 1..Len(fs) : fs[i].n > 0 => Told(ss, fs[i].to)
  BY DEF CoreInv, GoodCore
<1>2. /\ GoodSession(tt) /\ tt.userID = ss.userID /\ tt.reading = ss.reading
      /\ tt.authenticated = ss.authenticated
      /\ \A u : Told(ss, u) => Told(tt, u)
  <2> HIDE DEF ss
  <2> QED BY <1>1, SendAllGood
<1>3. OwnedByOperation(tt)
  BY <1>2 DEF OwnedByOperation
<1> HIDE DEF tt
<1>5. /\ tt.authenticated => tt.userID \in A
      /\ c.session[s].userID # NoUser => tt.userID # NoUser
      /\ \A u : Told(c.session[s], u) => Told(tt, u)
  BY <1>2, <1>3 DEF CoreInv, SignedIn
<1>6. CoreInv(SetSession(c, s, tt), A)
  <2> HIDE DEF ss
  <2> QED BY <1>2, <1>3, <1>5, UpdateGood
<1>7. c \in CoreState /\ tt \in SessionState
  BY <1>2 DEF CoreInv, GoodCore, GoodSession
<1>8. /\ SetSession(c, s, tt).clients = c.clients /\ SetSession(c, s, tt).hung = c.hung
      /\ SetSession(c, s, tt).session[s] = tt
  BY <1>7, SetSessionFields
<1> QED BY <1>2, <1>6, <1>8 DEF tt

(* The handler of a frame ends by reading on, unless it hung.               *)
LEMMA ReadOnGood ==
  ASSUME NEW c, NEW A, CoreInv(c, A), NEW s \in Session
  PROVE  LET e == SetSession(c, s, NextRead(c.session[s])) IN
         CoreInv(e, A) /\ e.clients = c.clients /\ e.hung = c.hung
<1> DEFINE ss == c.session[s]
           tt == NextRead(ss)
<1>1. GoodSession(ss)
  BY DEF CoreInv, GoodCore
<1>2. GoodSession(tt) /\ \A u : Told(tt, u) <=> Told(ss, u)
  <2> HIDE DEF ss
  <2> QED BY <1>1, NextReadGood
<1>3. /\ tt.userID = ss.userID /\ tt.authenticated = ss.authenticated
      /\ OwnedByOperation(tt)
  BY <1>1 DEF GoodSession, SessionState, NextRead, Launch, OwnedByOperation
<1> HIDE DEF tt
<1>5. /\ tt.authenticated => tt.userID \in A
      /\ c.session[s].userID # NoUser => tt.userID # NoUser
      /\ \A u : Told(c.session[s], u) => Told(tt, u)
  BY <1>2, <1>3 DEF CoreInv, SignedIn
<1>6. CoreInv(SetSession(c, s, tt), A)
  <2> HIDE DEF ss
  <2> QED BY <1>2, <1>3, <1>5, UpdateGood
<1>7. c \in CoreState /\ tt \in SessionState
  BY <1>2 DEF CoreInv, GoodCore, GoodSession
<1>8. /\ SetSession(c, s, tt).clients = c.clients /\ SetSession(c, s, tt).hung = c.hung
      /\ SetSession(c, s, tt).session[s] = tt
  BY <1>7, SetSessionFields
<1> QED BY <1>2, <1>6, <1>8 DEF tt

(* A completion handler sets its session to tt and lets go of it.           *)
LEMMA CompletionGood ==
  ASSUME NEW c, NEW A \in SUBSET UserID, CoreInv(c, A), NEW s \in Session,
         NEW tt, GoodSession(tt), tt.userID = c.session[s].userID,
         tt.authenticated = c.session[s].authenticated,
         \A u : Told(c.session[s], u) => Told(tt, u)
  PROVE  LET e == ReleaseSession(SetSession(c, s, tt), s) IN
         CoreInv(e, A) /\ OnlyUnregisters(c, e) /\ (c.hung => e.hung)
<1> DEFINE d == SetSession(c, s, tt)
           e == ReleaseSession(d, s)
<1>1. tt.authenticated => tt.userID \in A
  BY DEF CoreInv, SignedIn
<1>2. c \in CoreState /\ tt \in SessionState
  BY DEF CoreInv, GoodCore, GoodSession
<1>3. /\ GoodCore(d) /\ NoLeak(d, Session \ {s}) /\ EntriesTold(d) /\ SignedIn(d, A)
  BY <1>1, UpdateGood
<1>4. d.clients = c.clients /\ d.hung = c.hung
  BY <1>2, SetSessionFields
<1> HIDE DEF d
<1>5. SignedIn(d, UserID)
  BY <1>3 DEF SignedIn
<1>6. /\ GoodCore(e) /\ NoLeak(e, Session) /\ OnlyDestroys(d, e)
      /\ OnlyUnregisters(d, e) /\ (d.hung => e.hung)
  BY <1>5, <1>3, ReleaseSessionGood
<1> HIDE DEF e
<1>7. EntriesTold(e) /\ SignedIn(e, A)
  BY <1>6, <1>3, DestroyKeeps DEF GoodCore
<1> QED BY <1>6, <1>7, <1>4 DEF CoreInv, OnlyUnregisters, d, e

-----------------------------------------------------------------------------
(* The group store by itself, for any users, groups and join codes. *)

\* One of the four operations on group g by user u.
GroupStep(g, u) ==
  \/ \E code \in JoinCode : createGroup(g, u, code)
  \/ \E code \in JoinCode : joinGroup(g, u, code)
  \/ leaveGroup(g, u)
  \/ deleteGroup(g, u)

(* An operation keeps the table typed and its groups non-empty, and adds to *)
(* a group nobody but the user who asked for it.                            *)
LEMMA GroupStepKeeps ==
  ASSUME GroupTypeOK, NonEmptyGroups, NEW g \in Group, NEW u \in UserID, GroupStep(g, u)
  PROVE  /\ GroupTypeOK' /\ NonEmptyGroups'
         /\ \A h \in Group : getGroupMembers(h)' \subseteq getGroupMembers(h) \cup {u}
<1> DEFINE Keeps == /\ GroupTypeOK' /\ NonEmptyGroups'
                    /\ \A h \in Group : getGroupMembers(h)' \subseteq getGroupMembers(h) \cup {u}
<1> USE DEF GroupTypeOK, NonEmptyGroups, getGroupMembers, groupExists
<1>1. ASSUME NEW code \in JoinCode, createGroup(g, u, code) PROVE Keeps
  <2>1. [creatorUserID |-> u, joinCode |-> code, members |-> {u}] \in GroupInfo
    BY DEF GroupInfo
  <2> QED BY <1>1, <2>1, NoInfoAssumption DEF createGroup
<1>2. ASSUME NEW code \in JoinCode, joinGroup(g, u, code) PROVE Keeps
  <2> DEFINE info == [groups[g] EXCEPT !.members = @ \cup {u}]
  <2>1. groups[g] \in GroupInfo /\ groups' = [groups EXCEPT ![g] = info]
    BY <1>2 DEF joinGroup, CanJoin
  <2>2. info \in GroupInfo /\ info.members = groups[g].members \cup {u}
    BY <2>1 DEF GroupInfo
  <2> HIDE DEF info
  <2> QED BY <2>1, <2>2, NoInfoAssumption
<1>3. ASSUME leaveGroup(g, u) PROVE Keeps
  <2> DEFINE rest == groups[g].members \ {u}
             info == [groups[g] EXCEPT !.members = rest]
  <2>1. groups[g] \in GroupInfo /\ groups[g] # NoInfo
        /\ groups' = [groups EXCEPT ![g] = IF rest = {} THEN NoInfo ELSE info]
    BY <1>3 DEF leaveGroup, LeaveSucceeds
  <2>2. info \in GroupInfo /\ info.members = rest /\ rest \subseteq groups[g].members
    BY <2>1 DEF GroupInfo
  <2> HIDE DEF info, rest
  <2> QED BY <2>1, <2>2, NoInfoAssumption
<1>4. ASSUME deleteGroup(g, u) PROVE Keeps
  BY <1>4 DEF deleteGroup
<1> QED BY <1>1, <1>2, <1>3, <1>4 DEF GroupStep

LEMMA GroupInvariant == GroupSpec => [](GroupTypeOK /\ NonEmptyGroups)
<1>1. GroupInit => GroupTypeOK /\ NonEmptyGroups
  BY DEF GroupInit, GroupTypeOK, NonEmptyGroups, groupExists
<1>2. (GroupTypeOK /\ NonEmptyGroups) /\ [GroupNext]_groups
        => (GroupTypeOK /\ NonEmptyGroups)'
  <2>1. CASE UNCHANGED groups
    BY <2>1 DEF GroupTypeOK, NonEmptyGroups, groupExists
  <2> QED BY <2>1, GroupStepKeeps DEF GroupNext, GroupStep
<1> QED BY <1>1, <1>2, PTL DEF GroupSpec

(* The group table has its type in every reachable state. *)
THEOREM GroupTyping == GroupSpec => []GroupTypeOK
  BY GroupInvariant, PTL

(* A group that exists has a member: whoever leaves last ends it. *)
THEOREM GroupsNeverEmpty == GroupSpec => []NonEmptyGroups
  BY GroupInvariant, PTL

(* Creator and join code of a group stay as they are while the group lives. *)
THEOREM GroupsKeepTheirCode == GroupSpec => NoTakeover
<1> DEFINE Kept == \A g \in Group : groupExists(g) /\ groupExists(g)' =>
                     /\ groups'[g].joinCode = groups[g].joinCode
                     /\ groups'[g].creatorUserID = groups[g].creatorUserID
<1>1. GroupTypeOK /\ [GroupNext]_groups => [Kept]_groups
  <2> SUFFICES ASSUME GroupTypeOK, GroupNext, NEW h \in Group,
                      groupExists(h), groupExists(h)'
               PROVE  /\ groups'[h].joinCode = groups[h].joinCode
                      /\ groups'[h].creatorUserID = groups[h].creatorUserID
    OBVIOUS
  <2> USE DEF groupExists, GroupTypeOK, GroupInfo
  <2>1. ASSUME NEW g \in Group, NEW u \in UserID, NEW code \in JoinCode,
               createGroup(g, u, code)
        PROVE  groups'[h] = groups[h]
    BY <2>1 DEF createGroup
  <2>2. ASSUME NEW g \in Group, NEW u \in UserID, NEW code \in JoinCode,
               joinGroup(g, u, code)
        PROVE  /\ groups'[h].joinCode = groups[h].joinCode
               /\ groups'[h].creatorUserID = groups[h].creatorUserID
    BY <2>2 DEF joinGroup
  <2>3. ASSUME NEW g \in Group, NEW u \in UserID, leaveGroup(g, u)
        PROVE  /\ groups'[h].joinCode = groups[h].joinCode
               /\ groups'[h].creatorUserID = groups[h].creatorUserID
    BY <2>3 DEF leaveGroup
  <2>4. ASSUME NEW g \in Group, NEW u \in UserID, deleteGroup(g, u)
        PROVE  groups'[h] = groups[h]
    BY <2>4 DEF deleteGroup
  <2> QED BY <2>1, <2>2, <2>3, <2>4 DEF GroupNext
<1> QED BY <1>1, GroupTyping, PTL DEF GroupSpec, NoTakeover

-----------------------------------------------------------------------------
(* The frames of one message. *)

LEMMA UserIDFinite == IsFiniteSet(UserID)
<1>1. UserID = Username \X HashPrefix
  BY DEF UserID, createUserID
<1> QED BY <1>1, NamesFinite, FS_Product

(* SetToSeq lists the members of a finite set.                              *)
LEMMA Listing ==
  ASSUME NEW U \in SUBSET UserID
  PROVE  /\ Cardinality(U) \in Nat
         /\ SetToSeq(U) \in [1..Cardinality(U) -> U]
<1>1. IsFiniteSet(U)
  BY UserIDFinite, FS_Subset
<1>2. Cardinality(U) \in Nat /\ ExistsBijection(1..Cardinality(U), U)
  BY <1>1, FS_CardinalityType
<1>3. \E f \in [1..Cardinality(U) -> U] : IsInjective(f)
  BY <1>2 DEF ExistsBijection, Bijection, Injection
<1> QED BY <1>2, <1>3 DEF SetToSeq

LEMMA FramesForGood ==
  ASSUME NEW U \in SUBSET UserID, NEW type \in MessageType, type # "AUTH_SUCCESS",
         NEW g \in Group \cup {NoGroup}, ThisMessage \in Nat
  PROVE  /\ FramesFor(U, type, g) \in Seq(Frame)
         /\ Addressed(FramesFor(U, type, g))
         /\ \A i \in 1..Len(FramesFor(U, type, g)) : FramesFor(U, type, g)[i].to \in U
         /\ U = {} => FramesFor(U, type, g) = <<>>
<1> DEFINE fs == FramesFor(U, type, g)
           n == Cardinality(U)
           l == SetToSeq(U)
<1>1. n \in Nat /\ l \in [1..n -> U]
  BY Listing
<1>2. fs = [i \in 1..n |-> [type |-> type, group |-> g, to |-> l[i], n |-> ThisMessage]]
  BY DEF FramesFor, Message
<1> HIDE DEF fs, n, l
<1>3. fs \in [1..n -> Frame]
  BY <1>1, <1>2 DEF Frame
<1>4. fs \in Seq(Frame) /\ Len(fs) = n
  BY <1>1, <1>3
<1>5. \A i \in 1..n : fs[i].to \in U /\ fs[i].type # "AUTH_SUCCESS"
  BY <1>1, <1>2
<1>6. U = {} => fs = <<>>
  BY <1>1, <1>4 DEF n
<1> QED BY <1>4, <1>5, <1>6 DEF fs, Addressed

LEMMA SendNothing ==
  ASSUME NEW ss \in SessionState
  PROVE  sendAll(ss, <<>>) = ss
<1>1. ss.writeQueue \o <<>> = ss.writeQueue
  BY ConcatEmptySeq DEF SessionState
<1> QED BY <1>1 DEF sendAll, SessionState

(* A message goes into the queues of the sessions registered for its users. *)
LEMMA SendToGood ==
  ASSUME NEW c, NEW A, CoreInv(c, A), ~c.hung, NEW T \in SUBSET UserID,
         NEW type \in MessageType, type # "AUTH_SUCCESS",
         NEW g \in Group \cup {NoGroup}, ThisMessage \in Nat
  PROVE  LET e == SendTo(c, T, type, g) IN
         CoreInv(e, A) /\ e.clients = c.clients /\ e.hung = c.hung
<1> DEFINE U(s) == {u \in T : c.clients[u] = s}
           fs(s) == FramesFor(U(s), type, g)
           e == SendTo(c, T, type, g)
<1>1. c \in CoreState /\ \A s \in Session : GoodSession(c.session[s])
  BY DEF CoreInv, GoodCore
<1>2. ASSUME NEW s \in Session
      PROVE  /\ GoodSession(sendAll(c.session[s], fs(s)))
             /\ \A u : Told(c.session[s], u) => Told(sendAll(c.session[s], fs(s)), u)
             /\ sendAll(c.session[s], fs(s)).userID = c.session[s].userID
             /\ sendAll(c.session[s], fs(s)).authenticated = c.session[s].authenticated
             /\ U(s) = {} => sendAll(c.session[s], fs(s)) = c.session[s]
  <2>1. /\ fs(s) \in Seq(Frame) /\ Addressed(fs(s))
        /\ \A i \in 1..Len(fs(s)) : fs(s)[i].to \in U(s)
        /\ U(s) = {} => fs(s) = <<>>
    <3>1. U(s) \in SUBSET UserID
      OBVIOUS
    <3> HIDE DEF U
    <3> QED BY <3>1, FramesForGood
  <2>2. \A u \in U(s) : Told(c.session[s], u)
    BY NoSessionAssumption DEF CoreInv, EntriesTold
  <2>3. c.session[s] \in SessionState /\ GoodSession(c.session[s])
    BY <1>1 DEF CoreState
  <2> HIDE DEF fs, U
  <2> QED BY <2>1, <2>2, <2>3, SendAllGood, SendNothing
<1>3. /\ e = [c EXCEPT !.session = [s \in Session |-> sendAll(c.session[s], fs(s))]]
  BY DEF SendTo
<1> HIDE DEF fs, e
<1>4. /\ \A s \in Session : e.session[s] = sendAll(c.session[s], fs(s))
      /\ e.clients = c.clients /\ e.hung = c.hung
  BY <1>1, <1>3 DEF CoreState
<1>5. e \in CoreState
  <2>1. [s \in Session |-> sendAll(c.session[s], fs(s))] \in [Session -> SessionState]
    BY <1>2 DEF GoodSession
  <2> QED BY <1>1, <1>3, <2>1 DEF CoreState
<1>6. \A u \in UserID : c.clients[u] \in Session \cup {NoSession}
  BY <1>1 DEF CoreState
<1>7. GoodCore(e) /\ EntriesTold(e) /\ SignedIn(e, A)
  BY <1>2, <1>4, <1>5, <1>6 DEF CoreInv, GoodCore, EntriesTold, SignedIn
<1>8. NoLeak(e, Session)
  <2> SUFFICES ASSUME NEW s \in Session, e.session[s] # Blank PROVE Held(e, s)
    BY DEF NoLeak
  <2>1. CASE U(s) = {}
    BY <1>2, <1>4, <2>1 DEF CoreInv, NoLeak, Held
  <2>2. CASE U(s) # {}
    BY <1>4, <2>2 DEF Held
  <2> QED BY <2>1, <2>2
<1> QED BY <1>4, <1>7, <1>8 DEF CoreInv, e

-----------------------------------------------------------------------------
(* Parts of handlers.  A stands for the users with accounts. *)

LEMMA CoreBecomesCore ==
  ASSUME NEW c \in CoreState, CoreBecomes(c)
  PROVE  Core' = c
  BY DEF CoreState, CoreBecomes, Core

LEMMA FinishGood ==
  ASSUME NEW c, NEW A, CoreInv(c, A), NEW s \in Session, Finish(c, s)
  PROVE  CoreInv(Core', A) /\ clients' = c.clients /\ hung' = c.hung
<1>1. c \in CoreState /\ c.session[s] \in SessionState
  BY DEF CoreInv, GoodCore, CoreState
<1>2. CASE c.hung
  BY <1>1, <1>2, CoreBecomesCore DEF Finish, CoreBecomes
<1>3. CASE ~c.hung
  <2> DEFINE e == SetSession(c, s, NextRead(c.session[s]))
  <2>1. CoreInv(e, A) /\ e.clients = c.clients /\ e.hung = c.hung
    BY ReadOnGood
  <2>2. [c EXCEPT !.session[s] = NextRead(@)] = e
    BY <1>1 DEF SetSession, CoreState
  <2>3. CoreBecomes(e)
    BY <1>3, <2>2 DEF Finish
  <2> HIDE DEF e
  <2>4. Core' = e
    BY <2>1, <2>3, CoreBecomesCore DEF CoreInv, GoodCore
  <2> QED BY <2>1, <2>3, <2>4 DEF CoreBecomes
<1> QED BY <1>2, <1>3

(* A session that is reading signs in as u.  If that did not hang, every     *)
(* entry but the new one leads to a session that was told its user.         *)
LEMMA SignInGood ==
  ASSUME NEW A, CoreInv(Core, A), ~hung, NEW s \in Session, session[s].reading = "pending",
         NEW u \in UserID
  PROVE  /\ GoodCore(SignIn(s, u))
         /\ NoLeak(SignIn(s, u), Session)
         /\ SignedIn(SignIn(s, u), A \cup {u})
         /\ SignIn(s, u).clients = [clients EXCEPT ![u] = s]
         /\ SignIn(s, u).session[s].reading = "pending"
         /\ ~SignIn(s, u).hung =>
              \A v \in UserID : v # u /\ clients[v] # NoSession =>
                Told(SignIn(s, u).session[clients[v]], v)
<1> DEFINE tt == [session[s] EXCEPT !.userID = u, !.authenticated = TRUE]
           c == SetSession(Core, s, tt)
           e == SignIn(s, u)
<1>1. /\ Core \in CoreState /\ Core.clients = clients /\ Core.session = session
      /\ Core.hung = hung
      /\ GoodSession(session[s]) /\ session[s] \in SessionState
      /\ clients \in [UserID -> Session \cup {NoSession}]
      /\ \A v \in UserID : clients[v] # NoSession => Told(session[clients[v]], v)
      /\ SignedIn(Core, A)
  BY DEF CoreInv, GoodCore, CoreState, Core, EntriesTold
<1>2. /\ tt \in SessionState /\ tt.userID = u /\ tt.authenticated
      /\ tt.reading = "pending" /\ tt.writeQueue = session[s].writeQueue
      /\ tt.acked = session[s].acked /\ tt.written = session[s].written
      /\ tt.writing = session[s].writing /\ tt.open = session[s].open
  BY <1>1 DEF SessionState
<1> HIDE DEF tt
<1>3. GoodSession(tt) /\ \A v : Told(session[s], v) => Told(tt, v)
  BY <1>1, <1>2, SameTold DEF GoodSession, WriterOK
<1>4. u # NoUser /\ OwnedByOperation(tt)
  BY <1>2, NamesFinite DEF OwnedByOperation, UserID, createUserID
<1>5. CoreInv(Core, A \cup {u})
  BY DEF CoreInv, SignedIn
<1>6. CoreInv(c, A \cup {u})
  BY <1>1, <1>2, <1>3, <1>4, <1>5, UpdateGood
<1>7. /\ c \in CoreState /\ c.clients = clients /\ c.hung = hung /\ c.session[s] = tt
      /\ \A t \in Session : t # s => c.session[t] = session[t]
  BY <1>1, <1>2, SetSessionFields
<1>8. e = ReplaceEntry(c, u, s)
  <2>1. [Core EXCEPT !.session[s] = [@ EXCEPT !.userID = u, !.authenticated = TRUE]] = c
    BY <1>1 DEF SetSession, tt, CoreState
  <2> QED BY <2>1 DEF SignIn, registerClient
<1> HIDE DEF c, e
<1>9. /\ GoodCore(e) /\ NoLeak(e, Session) /\ OnlyDestroys(c, e)
      /\ e.clients = [clients EXCEPT ![u] = s]
  BY <1>2, <1>4, <1>6, <1>7, <1>8, ReplaceEntryGood DEF CoreInv
<1>10. e.session[s] = tt
  BY <1>4, <1>7, <1>9 DEF OnlyDestroys
<1>11. SignedIn(e, A \cup {u})
  BY <1>6, <1>9, BlankIsIdle DEF CoreInv, SignedIn, OnlyDestroys
<1>12. ASSUME NEW v \in UserID, v # u, clients[v] # NoSession
       PROVE  Told(e.session[clients[v]], v)
  <2>1. e.clients[v] = clients[v] /\ clients[v] \in Session
    BY <1>1, <1>9, <1>12
  <2>2. e.session[clients[v]] = c.session[clients[v]]
    BY <1>9, <2>1 DEF OnlyDestroys
  <2>3. Told(c.session[clients[v]], v)
    BY <1>1, <1>3, <1>7, <1>12, <2>1
  <2> QED BY <2>2, <2>3
<1> QED BY <1>2, <1>9, <1>10, <1>11, <1>12 DEF e

(* The AUTH_SUCCESS joins the queue: now every entry is told.               *)
LEMMA AcknowledgeGood ==
  ASSUME NEW c, NEW B, GoodCore(c), NoLeak(c, Session), SignedIn(c, B), ~c.hung,
         NEW s \in Session, c.session[s].reading = "pending", NEW u \in UserID,
         \A v \in UserID : v # u /\ c.clients[v] # NoSession => Told(c.session[c.clients[v]], v),
         c.clients[u] = s
  PROVE  /\ CoreInv(Acknowledge(c, s, u), B)
         /\ Acknowledge(c, s, u).clients = c.clients
         /\ ~Acknowledge(c, s, u).hung
         /\ Acknowledge(c, s, u).session[s].reading = "pending"
         /\ Told(Acknowledge(c, s, u).session[s], u)
<1> DEFINE ss == c.session[s]
           fs == <<AuthSuccess(u)>>
           tt == sendAll(ss, fs)
           d == SetSession(c, s, tt)
<1>1. c \in CoreState /\ ss \in SessionState /\ GoodSession(ss)
  BY DEF GoodCore, CoreState
<1>2. /\ fs \in Seq(Frame) /\ Addressed(fs) /\ Len(fs) = 1 /\ fs[1] = AuthSuccess(u)
      /\ \A i \in 1..Len(fs) : ~(fs[i].n > 0)
  <2>1. AuthSuccess(u) \in Frame /\ AuthSuccess(u).to = u /\ AuthSuccess(u).n = 0
    BY DEF AuthSuccess, Frame, MessageType
  <2> QED BY <2>1 DEF Addressed
<1> HIDE DEF fs
<1>3. /\ GoodSession(tt) /\ tt.userID = ss.userID /\ tt.reading = ss.reading
      /\ tt.authenticated = ss.authenticated
      /\ \A v : Told(ss, v) => Told(tt, v)
      /\ Told(tt, u)
  <2>1. 1 \in 1..Len(fs) /\ fs[1] = AuthSuccess(u)
    BY <1>2
  <2> HIDE DEF ss
  <2> QED BY <1>1, <1>2, <2>1, SendAllGood
<1>4. Acknowledge(c, s, u) = d
  BY <1>1 DEF Acknowledge, sendMessage, SetSession, CoreState, fs
<1> HIDE DEF tt
<1>5. /\ d \in CoreState /\ d.clients = c.clients /\ d.hung = c.hung /\ d.session[s] = tt
      /\ \A t \in Session : t # s => d.session[t] = c.session[t]
  BY <1>1, <1>3, SetSessionFields DEF GoodSession
<1> HIDE DEF d
<1>6. OwnedByOperation(tt)
  BY <1>3 DEF OwnedByOperation
<1>7. \A v \in UserID : c.clients[v] \in Session \cup {NoSession}
  BY <1>1 DEF CoreState
<1>8. GoodCore(d) /\ SignedIn(d, B)
  BY <1>3, <1>5, <1>7 DEF GoodCore, SignedIn
<1>9. NoLeak(d, Session)
  BY <1>5, <1>6 DEF NoLeak, Held
<1>10. EntriesTold(d)
  BY <1>3, <1>5, <1>7 DEF EntriesTold
<1> QED BY <1>3, <1>4, <1>5, <1>8, <1>9, <1>10 DEF CoreInv

-----------------------------------------------------------------------------
(* The inductive invariant.  What is stored for a user was routed to that   *)
(* user; only users with accounts sign in or are members.  A new account    *)
(* takes no other user's ID, and all mail it finds was routed before: that  *)
(* is what the registration, which delivers nothing, leaves waiting.        *)

Answers == {"AUTH_SUCCESS", "REPLY"}

StoredMail ==
  \A u \in UserID : \A i \in 1..Len(offline[u]) :
    /\ offline[u][i].n > 0 /\ offline[u][i].n <= Len(audience)
    /\ offline[u][i].to = u /\ offline[u][i].type \notin Answers

MembersKnown == \A g \in Group : getGroupMembers(g) \subseteq Accounts

SinceKnown ==
  \A u \in UserID : since[u] <= Len(audience) /\ (u \notin Accounts => since[u] = 0)

ServerInv ==
  /\ AuthInv
  /\ GroupTypeOK /\ NonEmptyGroups
  /\ RouterTypeOK
  /\ CoreInv(Core, Accounts)
  /\ StoredMail /\ MembersKnown /\ SinceKnown
  /\ MailWaitsForAbsentOnly

LEMMA ServerInitially == Init => ServerInv
<1> SUFFICES ASSUME Init PROVE ServerInv
  OBVIOUS
<1> USE DEF Init, AuthInit, GroupInit, CoreInit, RouterInit
<1>1. AuthInv
  BY AuthInitially
<1>2. GroupTypeOK /\ NonEmptyGroups
  BY DEF GroupTypeOK, NonEmptyGroups, groupExists
<1>3. RouterTypeOK
  BY EmptySeq DEF RouterTypeOK
<1>4. CoreInv(Core, Accounts)
  <2>1. /\ Core \in CoreState /\ Core.clients = [u \in UserID |-> NoSession]
        /\ Core.session = [s \in Session |-> Blank]
    BY BlankType DEF Core, CoreState
  <2>2. GoodCore(Core)
    BY <2>1, BlankGood DEF GoodCore
  <2>3. NoLeak(Core, Session) /\ EntriesTold(Core)
    BY <2>1 DEF NoLeak, EntriesTold
  <2>4. SignedIn(Core, Accounts)
    BY <2>1, BlankIsIdle DEF SignedIn
  <2> QED BY <2>2, <2>3, <2>4 DEF CoreInv
<1>5. StoredMail /\ MembersKnown /\ SinceKnown
  <2>1. StoredMail /\ SinceKnown
    BY DEF StoredMail, SinceKnown
  <2>2. MembersKnown
    BY DEF MembersKnown, getGroupMembers, groupExists
  <2> QED BY <2>1, <2>2
<1>6. MailWaitsForAbsentOnly
  BY DEF MailWaitsForAbsentOnly, Online
<1> QED BY <1>1, <1>2, <1>3, <1>4, <1>5, <1>6 DEF ServerInv

LEMMA AccountsAreUsers ==
  ASSUME AuthInv
  PROVE  Accounts \in SUBSET UserID
  BY DEF AuthInv, AuthTypeOK, Accounts, Registered, Account

(* A step that leaves the mail alone: who gets an entry in the registry      *)
(* leaves only mail waiting that was routed before.                         *)
LEMMA StepKeeps ==
  ASSUME ServerInv, ~hung, UNCHANGED <<offline, handed, audience>>,
         since' \in [UserID -> Nat], SinceKnown',
         AuthInv', Accounts \subseteq Accounts', GroupTypeOK', NonEmptyGroups',
         \A g \in Group : getGroupMembers(g)' \subseteq Accounts',
         CoreInv(Core', Accounts'),
         \A u \in UserID :
           \/ clients'[u] = NoSession
           \/ clients'[u] = clients[u] /\ since'[u] = since[u]
           \/ \A i \in 1..Len(offline[u]) : offline[u][i].n <= since'[u]
  PROVE  ServerInv'
<1>1. RouterTypeOK' /\ StoredMail' /\ MembersKnown'
  BY DEF ServerInv, RouterTypeOK, StoredMail, MembersKnown
<1>2. MailWaitsForAbsentOnly'
  <2> SUFFICES ASSUME NEW u \in UserID, clients'[u] # NoSession, NEW i \in DOMAIN offline[u]
               PROVE  offline[u][i].n <= since'[u]
    BY DEF MailWaitsForAbsentOnly, Online
  <2>1. i \in 1..Len(offline[u])
    BY DEF ServerInv, RouterTypeOK
  <2> QED BY <2>1 DEF ServerInv, MailWaitsForAbsentOnly, Online
<1> QED BY <1>1, <1>2 DEF ServerInv

(* A step that leaves accounts and groups alone keeps what is known of them. *)
LEMMA StoresStay ==
  ASSUME ServerInv, UNCHANGED <<users, userIDMap, groups>>
  PROVE  Accounts' = Accounts /\ AuthInv' /\ GroupTypeOK' /\ NonEmptyGroups' /\ MembersKnown'
<1>1. Accounts' = Accounts
  BY DEF Accounts, Registered
<1>2. AuthInv'
  BY DEF ServerInv, AuthInv, AuthTypeOK, MapsAgree, OwnID, Registered, isUserIDValid
<1>3. GroupTypeOK' /\ NonEmptyGroups' /\ MembersKnown'
  BY <1>1 DEF ServerInv, GroupTypeOK, NonEmptyGroups, MembersKnown, getGroupMembers, groupExists
<1> QED BY <1>1, <1>2, <1>3

(* A step of the sessions and the registry alone, that registers nobody.    *)
LEMMA QuietStepKeeps ==
  ASSUME ServerInv, ~hung, UNCHANGED <<users, userIDMap, groups, offline, handed, audience, since>>,
         CoreInv(Core', Accounts),
         \A u \in UserID : clients'[u] = clients[u] \/ clients'[u] = NoSession
  PROVE  ServerInv'
<1>2. since' \in [UserID -> Nat] /\ SinceKnown'
  BY StoresStay DEF ServerInv, RouterTypeOK, SinceKnown
<1>1. /\ Accounts' = Accounts /\ AuthInv' /\ GroupTypeOK' /\ NonEmptyGroups'
      /\ \A g \in Group : getGroupMembers(g)' \subseteq Accounts'
  BY StoresStay DEF MembersKnown
<1> QED BY <1>1, <1>2, StepKeeps

(* The handler of session s puts an answer into the queue of s.             *)
LEMMA AnsweredGood ==
  ASSUME ServerInv, NEW s \in Session, Arrived(s)
  PROVE  /\ CoreInv(Answered(s, Reply), Accounts)
         /\ Answered(s, Reply).clients = clients
         /\ Answered(s, Reply).hung = FALSE
<1> DEFINE fs == <<Reply>>
           c == SetSession(Core, s, sendAll(Core.session[s], fs))
<1>1. /\ Core \in CoreState /\ Core.clients = clients /\ Core.hung = FALSE
      /\ Core.session = session /\ Core.session[s].reading # "none"
      /\ hung = FALSE
  BY DEF ServerInv, CoreInv, GoodCore, CoreState, Core, Arrived
<1>2. /\ fs \in Seq(Frame) /\ Addressed(fs)
      /\ \A i \in 1..Len(fs) : fs[i].n > 0 => Told(Core.session[s], fs[i].to)
  <2>1. Reply \in Frame /\ Reply.n = 0 /\ Reply.type = "REPLY"
    BY DEF Reply, Frame, MessageType
  <2> QED BY <2>1 DEF Addressed
<1>3. Answered(s, Reply) = c
  BY <1>1 DEF Answered, sendMessage, SetSession, CoreState
<1> HIDE DEF fs
<1>4. CoreInv(c, Accounts) /\ c.clients = Core.clients /\ c.hung = Core.hung
  BY <1>1, <1>2, QueueGood DEF ServerInv
<1> QED BY <1>1, <1>3, <1>4

LEMMA AnswerOnlyKeeps ==
  ASSUME ServerInv, NEW s \in Session, Arrived(s), AnswerOnly(s)
  PROVE  ServerInv'
<1>1. CoreInv(Core', Accounts) /\ clients' = clients
  BY AnsweredGood, FinishGood DEF AnswerOnly
<1> QED BY <1>1, QuietStepKeeps DEF AnswerOnly, Arrived

-----------------------------------------------------------------------------
(* Connections. *)

LEMMA AcceptKeeps ==
  ASSUME ServerInv, NEW s \in Session, Accept(s)
  PROVE  ServerInv'
<1> DEFINE c == SetSession(Core, s, Fresh)
<1>1. /\ Core \in CoreState /\ Core.clients = clients /\ Core.hung = FALSE
      /\ Core.session = session /\ session[s] = Blank /\ ~hung /\ hung = FALSE
  BY DEF ServerInv, CoreInv, GoodCore, CoreState, Core, Accept
<1>2. GoodSession(Fresh) /\ OwnedByOperation(Fresh) /\ ~Fresh.authenticated
  BY BlankGood, BlankIsIdle DEF Fresh, OwnedByOperation, SessionState
<1>3. CoreInv(c, Accounts)
  BY <1>1, <1>2, BlankIsIdle, UpdateGood DEF ServerInv
<1>4. Core' = c
  BY <1>1 DEF Accept, Core, SetSession
<1> QED BY <1>1, <1>3, <1>4, QuietStepKeeps DEF Accept

LEMMA CompletionKeeps ==
  ASSUME ServerInv, ~hung, NEW s \in Session, NEW ss, GoodSession(ss),
         ss.userID = session[s].userID, ss.authenticated = session[s].authenticated,
         \A u : Told(session[s], u) => Told(ss, u),
         Completion(s, ss)
  PROVE  ServerInv'
<1> DEFINE c == ReleaseSession(SetSession(Core, s, ss), s)
<1>1. /\ Core \in CoreState /\ Core.clients = clients /\ Core.session = session
      /\ Accounts \in SUBSET UserID
  BY AccountsAreUsers DEF ServerInv, CoreInv, GoodCore, CoreState, Core
<1>2. CoreBecomes(c)
  BY DEF Completion, SetSession
<1>3. CoreInv(c, Accounts) /\ OnlyUnregisters(Core, c)
  BY <1>1, CompletionGood DEF ServerInv
<1> HIDE DEF c
<1>4. Core' = c /\ clients' = c.clients
  BY <1>2, <1>3, CoreBecomesCore DEF CoreInv, GoodCore, CoreBecomes
<1> QED BY <1>1, <1>3, <1>4, QuietStepKeeps DEF Completion, OnlyUnregisters

LEMMA SessionsAreGood ==
  ASSUME ServerInv, NEW s \in Session
  PROVE  GoodSession(session[s]) /\ session[s] \in SessionState
  BY DEF ServerInv, CoreInv, GoodCore, Core, GoodSession

LEMMA ConnectionKeeps ==
  ASSUME ServerInv, NEW s \in Session, Connection(s)
  PROVE  ServerInv'
<1> DEFINE ss == session[s]
<1>1. GoodSession(ss) /\ ss \in SessionState
  BY SessionsAreGood
<1>2. CASE Accept(s)
  BY <1>2, AcceptKeeps
<1>3. CASE ReadFails(s)
  <2>1. GoodSession(ReadFailed(ss)) /\ \A u : Told(ReadFailed(ss), u)
    <3> HIDE DEF ss
    <3> QED BY <1>1, ReadFailedGood
  <2>2. /\ ReadFailed(ss).userID = ss.userID
        /\ ReadFailed(ss).authenticated = ss.authenticated
    BY <1>1 DEF ReadFailed, stop, SessionState
  <2> QED BY <1>3, <2>1, <2>2, CompletionKeeps DEF ReadFails
<1>4. CASE WriteCompletes(s)
  <2>1. /\ GoodSession(WriteCompleted(ss))
        /\ \A u : Told(ss, u) => Told(WriteCompleted(ss), u)
        /\ WriteCompleted(ss).userID = ss.userID
        /\ WriteCompleted(ss).authenticated = ss.authenticated
    <3>1. ss.writing = "pending"
      BY <1>4 DEF WriteCompletes
    <3> HIDE DEF ss
    <3> QED BY <1>1, <3>1, WriteCompletedGood
  <2> QED BY <1>4, <2>1, CompletionKeeps DEF WriteCompletes
<1>5. CASE WriteFails(s)
  <2>1. GoodSession(WriteFailed(ss)) /\ \A u : Told(WriteFailed(ss), u)
    <3>1. ss.writing # "idle"
      BY <1>5 DEF WriteFails
    <3> HIDE DEF ss
    <3> QED BY <1>1, <3>1, WriteFailedGood
  <2>2. /\ WriteFailed(ss).userID = ss.userID
        /\ WriteFailed(ss).authenticated = ss.authenticated
    BY <1>1 DEF WriteFailed, stop, SessionState
  <2> QED BY <1>5, <2>1, <2>2, CompletionKeeps DEF WriteFails
<1> QED BY <1>2, <1>3, <1>4, <1>5 DEF Connection

-----------------------------------------------------------------------------
(* Accounts. *)

LEMMA RegisterAddsAccount ==
  ASSUME AuthInv, NEW name \in Username, NEW password \in Password,
         NEW prefix \in HashPrefix, registerUser(name, password, prefix)
  PROVE  LET u == createUserID(name, prefix) IN
         u \in UserID /\ u \notin Accounts /\ Accounts' = Accounts \cup {u}
<1> DEFINE u == createUserID(name, prefix)
           account == [password |-> password, userID |-> u]
<1>1. u \in UserID /\ account \in Account /\ account # NoAccount
  BY IDsOfNames, CredentialsAssumption DEF Account
<1>2. name \notin Registered /\ users' = [users EXCEPT ![name] = account]
  BY DEF registerUser, CanRegister
<1>3. /\ Registered' = Registered \cup {name} /\ users'[name] = account
      /\ \A n \in Registered : users'[n] = users[n]
  BY <1>1, <1>2 DEF Registered, AuthInv, AuthTypeOK
<1>4. u \notin Accounts
  <2> SUFFICES ASSUME NEW n \in Registered, users[n].userID = u PROVE FALSE
    BY DEF Accounts
  <2>1. n \in Username /\ n # name
    BY <1>2 DEF Registered
  <2>2. PICK p \in HashPrefix : users[n].userID = createUserID(n, p)
    BY DEF AuthInv, OwnID
  <2> QED BY <2>1, <2>2, IDsAreInjective
<1>5. account.userID = u
  OBVIOUS
<1> HIDE DEF u, account
<1>6. Accounts' = Accounts \cup {u}
  BY <1>3, <1>5 DEF Accounts
<1> QED BY <1>1, <1>4, <1>6 DEF u

LEMMA handleAuthRegisterKeeps ==
  ASSUME ServerInv, NEW s \in Session, NEW name \in Username, NEW password \in Password,
         NEW prefix \in HashPrefix, handleAuthRegister(s, name, password, prefix)
  PROVE  ServerInv'
<1> DEFINE u == createUserID(name, prefix)
           c == SignIn(s, u)
           d == Acknowledge(c, s, u)
<1>1. /\ ~hung /\ session[s].reading = "pending"
      /\ registerUser(name, password, prefix)
      /\ Finish(IF c.hung THEN c ELSE d, s)
      /\ since' = [since EXCEPT ![u] = IF offline[u] = <<>> THEN 0 ELSE Len(audience)]
      /\ UNCHANGED <<groups, offline, handed, audience>>
  BY DEF handleAuthRegister, FrameArrived, Arrived
<1>2. u \in UserID /\ u \notin Accounts /\ Accounts' = Accounts \cup {u}
  BY <1>1, RegisterAddsAccount DEF ServerInv
<1> HIDE DEF u, c, d
<1>3. /\ GoodCore(c) /\ NoLeak(c, Session) /\ SignedIn(c, Accounts')
      /\ c.clients = [clients EXCEPT ![u] = s]
      /\ c.session[s].reading = "pending"
      /\ ~c.hung => \A v \in UserID : v # u /\ clients[v] # NoSession =>
                      Told(c.session[clients[v]], v)
  BY <1>1, <1>2, SignInGood DEF ServerInv, c
<1>4. clients \in [UserID -> Session \cup {NoSession}]
  BY DEF ServerInv, CoreInv, GoodCore, CoreState, Core
<1>5. /\ CoreInv(IF c.hung THEN c ELSE d, Accounts')
      /\ (IF c.hung THEN c ELSE d).clients = c.clients
  <2>1. CASE c.hung
    BY <1>3, <2>1 DEF CoreInv, EntriesTold
  <2>2. CASE ~c.hung
    <3>1. /\ c.clients[u] = s
          /\ \A v \in UserID : v # u /\ c.clients[v] # NoSession => Told(c.session[c.clients[v]], v)
      BY <1>2, <1>3, <1>4, <2>2
    <3> QED BY <1>2, <1>3, <2>2, <3>1, AcknowledgeGood DEF d
  <2> QED BY <2>1, <2>2
<1>6. CoreInv(Core', Accounts') /\ clients' = [clients EXCEPT ![u] = s]
  BY <1>1, <1>3, <1>5, FinishGood
<1>7. AuthInv'
  BY <1>1, RegisterKeeps DEF ServerInv
<1>8. GroupTypeOK' /\ NonEmptyGroups' /\ \A g \in Group : getGroupMembers(g)' \subseteq Accounts'
  BY <1>1, <1>2 DEF ServerInv, GroupTypeOK, NonEmptyGroups, MembersKnown, getGroupMembers, groupExists
<1>9. /\ since \in [UserID -> Nat] /\ Len(audience) \in Nat
      /\ offline[u] \in Seq(Frame) /\ SinceKnown
      /\ \A i \in 1..Len(offline[u]) : offline[u][i].n <= Len(audience)
  BY <1>2 DEF ServerInv, RouterTypeOK, StoredMail
<1>10. since' \in [UserID -> Nat] /\ SinceKnown'
  BY <1>1, <1>2, <1>9 DEF SinceKnown
<1>11. ASSUME NEW v \in UserID
       PROVE  \/ clients'[v] = clients[v] /\ since'[v] = since[v]
              \/ \A i \in 1..Len(offline[v]) : offline[v][i].n <= since'[v]
  <2>1. CASE v # u
    BY <1>1, <1>4, <1>6, <1>9, <2>1
  <2>2. CASE v = u /\ offline[u] = <<>>
    BY <2>2
  <2>3. CASE v = u /\ offline[u] # <<>>
    BY <1>1, <1>2, <1>9, <2>3
  <2> QED BY <2>1, <2>2, <2>3
<1> QED BY <1>1, <1>2, <1>6, <1>7, <1>8, <1>10, <1>11, StepKeeps

(* The stored messages of u join the queue of the session that has u's entry. *)
LEMMA DeliverOfflineGood ==
  ASSUME ServerInv, NEW d, NEW B, CoreInv(d, B), NEW s \in Session, NEW u \in UserID,
         d.clients[u] = s, d.session[s].reading = "pending", Told(d.session[s], u)
  PROVE  /\ CoreInv(DeliverOffline(d, u), B)
         /\ DeliverOffline(d, u).clients = d.clients
         /\ DeliverOffline(d, u).hung = d.hung
<1> DEFINE e == SetSession(d, s, sendAll(d.session[s], offline[u]))
<1>1. /\ offline[u] \in Seq(Frame) /\ Addressed(offline[u])
      /\ \A i \in 1..Len(offline[u]) : offline[u][i].n > 0 => Told(d.session[s], offline[u][i].to)
  BY DEF ServerInv, RouterTypeOK, StoredMail, Addressed, Answers
<1>2. CoreInv(e, B) /\ e.clients = d.clients /\ e.hung = d.hung
  BY <1>1, QueueGood
<1>3. DeliverOffline(d, u) = e
  BY NoSessionAssumption DEF DeliverOffline, SetSession, CoreInv, GoodCore, CoreState
<1> QED BY <1>2, <1>3

(* Delivering hands over the whole store of u, and touches no other.        *)
LEMMA deliverOfflineMessagesKeeps ==
  ASSUME ServerInv, NEW d, NEW u \in UserID, d.clients[u] # NoSession,
         deliverOfflineMessages(d, u), UNCHANGED <<audience, since>>
  PROVE  /\ RouterTypeOK' /\ StoredMail'
         /\ offline'[u] = <<>>
         /\ \A v \in UserID : v # u => offline'[v] = offline[v]
<1>1. /\ offline \in [UserID -> Seq(Frame)] /\ handed \in [UserID -> Seq(Nat \ {0})]
      /\ audience \in Seq(SUBSET UserID) /\ since \in [UserID -> Nat]
      /\ offline' = [offline EXCEPT ![u] = <<>>]
      /\ handed' = [handed EXCEPT ![u] = @ \o Numbers(offline[u])]
  BY DEF ServerInv, RouterTypeOK, deliverOfflineMessages
<1>2. Numbers(offline[u]) \in Seq(Nat \ {0})
  <2> DEFINE q == offline[u]
             m == Len(q)
             ns == [i \in 1..m |-> q[i].n]
  <2>1. q \in Seq(Frame) /\ m \in Nat /\ \A i \in 1..m : q[i].n > 0 /\ q[i] \in Frame
    <3>1. q \in Seq(Frame)
      BY <1>1
    <3>2. \A i \in 1..m : q[i].n > 0
      BY DEF ServerInv, StoredMail
    <3> HIDE DEF q
    <3> QED BY <3>1, <3>2, ElementOfSeq
  <2>2. \A i \in 1..m : q[i].n \in Nat \ {0}
    BY <2>1 DEF Frame
  <2> HIDE DEF q, m
  <2>3. ns \in [1..m -> Nat \ {0}]
    BY <2>2
  <2>4. ns \in Seq(Nat \ {0})
    BY <2>1, <2>3
  <2> QED BY <2>4 DEF Numbers, q, m
<1>3. handed[u] \o Numbers(offline[u]) \in Seq(Nat \ {0})
  BY <1>1, <1>2, ConcatProperties
<1>4. handed' \in [UserID -> Seq(Nat \ {0})]
  BY <1>1, <1>3
<1>5. offline' \in [UserID -> Seq(Frame)] /\ offline'[u] = <<>>
      /\ \A v \in UserID : v # u => offline'[v] = offline[v]
  BY <1>1
<1>6. RouterTypeOK'
  BY <1>1, <1>4, <1>5 DEF RouterTypeOK
<1>7. StoredMail'
  <2> SUFFICES ASSUME NEW v \in UserID, NEW i \in 1..Len(offline'[v])
               PROVE  /\ offline'[v][i].n > 0 /\ offline'[v][i].to = v
                      /\ offline'[v][i].n <= Len(audience)
                      /\ offline'[v][i].type \notin Answers
    BY DEF StoredMail
  <2>1. v # u
    BY <1>5
  <2> QED BY <1>5, <2>1 DEF ServerInv, StoredMail
<1> QED BY <1>5, <1>6, <1>7

LEMMA handleAuthLoginKeeps ==
  ASSUME ServerInv, NEW s \in Session, NEW name \in Username, NEW password \in Password,
         handleAuthLogin(s, name, password)
  PROVE  ServerInv'
<1> DEFINE u == users[name].userID
           c == SignIn(s, u)
           d == Acknowledge(c, s, u)
           e == DeliverOffline(d, u)
<1>1. /\ ~hung /\ session[s].reading = "pending" /\ name \in Registered
      /\ UNCHANGED <<users, userIDMap, groups, audience, since>>
      /\ IF c.hung THEN CoreBecomes(c) /\ UNCHANGED <<offline, handed>>
         ELSE Finish(e, s) /\ deliverOfflineMessages(d, u)
  BY DEF handleAuthLogin, FrameArrived, Arrived, authenticateUser
<1>2. u \in Accounts /\ u \in UserID
  BY <1>1, AccountsAreUsers DEF ServerInv, Accounts
<1>3. Accounts \cup {u} = Accounts
  BY <1>2
<1>4. UNCHANGED <<users, userIDMap, groups>>
  BY <1>1
<1>5. Accounts' = Accounts /\ AuthInv' /\ GroupTypeOK' /\ NonEmptyGroups' /\ MembersKnown'
  BY <1>4, StoresStay
<1> HIDE DEF u, c, d, e
<1>6. /\ GoodCore(c) /\ NoLeak(c, Session) /\ SignedIn(c, Accounts)
      /\ c.clients = [clients EXCEPT ![u] = s]
      /\ c.session[s].reading = "pending"
      /\ ~c.hung => \A v \in UserID : v # u /\ clients[v] # NoSession =>
                      Told(c.session[clients[v]], v)
  <2>1. CoreInv(Core, Accounts) /\ ~hung /\ session[s].reading = "pending"
    BY <1>1 DEF ServerInv
  <2>2. /\ GoodCore(SignIn(s, u)) /\ NoLeak(SignIn(s, u), Session)
        /\ SignedIn(SignIn(s, u), Accounts \cup {u})
        /\ SignIn(s, u).clients = [clients EXCEPT ![u] = s]
        /\ SignIn(s, u).session[s].reading = "pending"
        /\ ~SignIn(s, u).hung =>
             \A v \in UserID : v # u /\ clients[v] # NoSession =>
               Told(SignIn(s, u).session[clients[v]], v)
    BY ONLY <1>2, <2>1, s \in Session, SignInGood
  <2> QED BY <1>3, <2>2 DEF c
<1>7. clients \in [UserID -> Session \cup {NoSession}]
  BY DEF ServerInv, CoreInv, GoodCore, CoreState, Core
<1>8. CASE c.hung
  <2>1. CoreInv(c, Accounts)
    BY <1>6, <1>8 DEF CoreInv, EntriesTold
  <2>2. Core' = c /\ hung'
    BY <1>1, <1>8, <2>1, CoreBecomesCore DEF CoreInv, GoodCore, CoreBecomes
  <2>3. RouterTypeOK' /\ StoredMail' /\ SinceKnown' /\ MailWaitsForAbsentOnly'
    BY <1>1, <1>5, <1>8, <2>2
       DEF ServerInv, RouterTypeOK, StoredMail, SinceKnown, MailWaitsForAbsentOnly
  <2> QED BY <1>5, <2>1, <2>2, <2>3 DEF ServerInv
<1>9. CASE ~c.hung
  <2>1. /\ c.clients[u] = s
        /\ \A v \in UserID : v # u /\ c.clients[v] # NoSession => Told(c.session[c.clients[v]], v)
    BY <1>2, <1>6, <1>7, <1>9
  <2>2. /\ CoreInv(d, Accounts) /\ d.clients = c.clients /\ ~d.hung
        /\ d.session[s].reading = "pending" /\ Told(d.session[s], u)
    <3>1. /\ GoodCore(c) /\ NoLeak(c, Session) /\ SignedIn(c, Accounts) /\ ~c.hung
          /\ c.session[s].reading = "pending" /\ c.clients[u] = s /\ u \in UserID
      BY <1>2, <1>6, <1>9, <2>1
    <3>2. /\ CoreInv(Acknowledge(c, s, u), Accounts)
          /\ Acknowledge(c, s, u).clients = c.clients
          /\ ~Acknowledge(c, s, u).hung
          /\ Acknowledge(c, s, u).session[s].reading = "pending"
          /\ Told(Acknowledge(c, s, u).session[s], u)
      BY <2>1, <3>1, AcknowledgeGood
    <3> QED BY <3>2 DEF d
  <2>3. CoreInv(e, Accounts) /\ e.clients = d.clients /\ e.hung = d.hung
    BY <1>2, <2>1, <2>2, DeliverOfflineGood DEF e
  <2>4. CoreInv(Core', Accounts) /\ clients' = [clients EXCEPT ![u] = s]
    BY <1>1, <1>6, <1>9, <2>2, <2>3, FinishGood
  <2>5. /\ RouterTypeOK' /\ StoredMail' /\ offline'[u] = <<>>
        /\ \A v \in UserID : v # u => offline'[v] = offline[v]
    <3>1. d.clients[u] # NoSession
      BY <2>1, <2>2, NoSessionAssumption
    <3> QED BY <1>1, <1>2, <1>9, <3>1, deliverOfflineMessagesKeeps
  <2>6. SinceKnown'
    BY <1>1, <1>5 DEF ServerInv, SinceKnown
  <2>7. MailWaitsForAbsentOnly'
    BY <1>1, <1>7, <2>4, <2>5 DEF ServerInv, MailWaitsForAbsentOnly, Online
  <2> QED BY <1>5, <2>4, <2>5, <2>6, <2>7 DEF ServerInv
<1> QED BY <1>8, <1>9

LEMMA handleAuthLogoutKeeps ==
  ASSUME ServerInv, NEW s \in Session, handleAuthLogout(s)
  PROVE  ServerInv'
<1> DEFINE ss == session[s]
           c == IF ss.authenticated THEN unregisterClient(Core, ss.userID) ELSE Core
           t == c.session[s]
           tt == stop([t EXCEPT !.authenticated = FALSE])
           d == IF c.hung THEN c ELSE [c EXCEPT !.session[s] = stop([@ EXCEPT !.authenticated = FALSE])]
<1>1. /\ ~hung /\ ss.reading = "pending" /\ Finish(d, s)
      /\ UNCHANGED <<users, userIDMap, groups, offline, handed, audience, since>>
  BY DEF handleAuthLogout, Arrived
<1>2. /\ Core \in CoreState /\ Core.clients = clients /\ Core.session = session
      /\ CoreInv(Core, Accounts) /\ Accounts \in SUBSET UserID
      /\ GoodSession(ss) /\ ss \in SessionState
  BY AccountsAreUsers, SessionsAreGood DEF ServerInv, CoreInv, GoodCore, CoreState, Core
<1>3. /\ CoreInv(c, Accounts) /\ OnlyUnregisters(Core, c) /\ t = ss
  <2>1. CASE ~ss.authenticated
    BY <1>2, <2>1 DEF OnlyUnregisters
  <2>2. CASE ss.authenticated
    <3>1. ss.userID \in UserID
      BY <1>2, <2>2 DEF CoreInv, SignedIn
    <3>2. c = ReplaceEntry(Core, ss.userID, NoSession)
      BY <2>2 DEF unregisterClient
    <3>3. GoodCore(Core) /\ NoLeak(Core, Session)
      BY <1>2 DEF CoreInv
    <3> HIDE DEF c, ss
    <3>4. /\ GoodCore(c) /\ NoLeak(c, Session) /\ OnlyDestroys(Core, c)
          /\ c.clients = [Core.clients EXCEPT ![ss.userID] = NoSession]
          /\ Core.hung => c.hung
      BY <3>1, <3>2, <3>3, ReplaceEntryGood
    <3>5. OnlyUnregisters(Core, c)
      BY <1>2, <3>1, <3>4 DEF OnlyUnregisters, CoreState
    <3>6. EntriesTold(c) /\ SignedIn(c, Accounts)
      BY <1>2, <3>4, <3>5, DestroyKeeps DEF CoreInv, GoodCore
    <3>7. OwnedByOperation(ss)
      BY <1>1 DEF OwnedByOperation
    <3>8. t = ss
      BY <1>2, <3>4, <3>7 DEF OnlyDestroys, ss
    <3> QED BY <3>4, <3>5, <3>6, <3>8 DEF CoreInv
  <2> QED BY <2>1, <2>2
<1>4. /\ GoodSession(tt) /\ ~tt.authenticated /\ tt.userID = t.userID
      /\ OwnedByOperation(tt) /\ \A u : Told(t, u) => Told(tt, u)
  <2> DEFINE r == [t EXCEPT !.authenticated = FALSE]
  <2>1. /\ r \in SessionState /\ ~r.authenticated /\ r.userID = t.userID
        /\ r.reading = "pending" /\ r.writeQueue = t.writeQueue /\ r.acked = t.acked
        /\ r.written = t.written /\ r.writing = t.writing /\ r.open = t.open
    <3> HIDE DEF c
    <3> QED BY <1>1, <1>2, <1>3 DEF SessionState
  <2> HIDE DEF r, ss, t
  <2>2. GoodSession(r) /\ \A u : Told(t, u) <=> Told(r, u)
    BY <1>2, <1>3, <2>1, SameTold DEF GoodSession, WriterOK
  <2>3. GoodSession(stop(r)) /\ \A u : Told(stop(r), u)
    BY <2>2, StopGood
  <2>4. /\ ~stop(r).authenticated /\ stop(r).userID = t.userID /\ stop(r).reading = "pending"
    BY <2>1 DEF stop, SessionState
  <2>5. tt = stop(r)
    BY DEF r
  <2> HIDE DEF tt
  <2> QED BY <2>2, <2>3, <2>4, <2>5 DEF OwnedByOperation
<1>5. CoreInv(d, Accounts) /\ d.clients = c.clients
  <2>1. CASE c.hung
    BY <1>3, <2>1
  <2>2. CASE ~c.hung
    <3>1. c \in CoreState
      BY <1>3 DEF CoreInv, GoodCore
    <3>2. d = SetSession(c, s, tt)
      <4> HIDE DEF c
      <4> QED BY <2>2, <3>1 DEF SetSession, CoreState
    <3> HIDE DEF c, d, tt
    <3>3. CoreInv(SetSession(c, s, tt), Accounts)
      BY <1>3, <1>4, UpdateGood
    <3>4. tt \in SessionState
      BY <1>4 DEF GoodSession
    <3> QED BY <3>1, <3>2, <3>3, <3>4, SetSessionFields
  <2> QED BY <2>1, <2>2
<1> HIDE DEF c, d
<1>6. CoreInv(Core', Accounts) /\ clients' = c.clients
  BY <1>1, <1>5, FinishGood
<1> QED BY <1>1, <1>2, <1>3, <1>6, QuietStepKeeps DEF OnlyUnregisters

-----------------------------------------------------------------------------
(* Messages and files. *)

(* A message meant for T: sent to those who have an entry, the others' copy  *)
(* stored or dropped, and the next frame read.                              *)
LEMMA RouteKeeps ==
  ASSUME ServerInv, ~hung, NEW s \in Session, NEW T \in SUBSET UserID,
         NEW X \in SUBSET UserID, NEW type \in {"MSG_PRIVATE", "MSG_GROUP", "FILE"},
         NEW g \in Group \cup {NoGroup},
         HandedTo(T \cap Online),
         storeOfflineMessage(T \ Online, type) \/ UNCHANGED offline,
         Finish(SendTo(Core, T \cap Online, type, g), s),
         audience' = Append(audience, X),
         UNCHANGED <<users, userIDMap, groups, since>>
  PROVE  ServerInv'
<1> DEFINE n == ThisMessage
           U == T \cap Online
           W == T \ Online
           c == SendTo(Core, U, type, g)
<1>1. /\ offline \in [UserID -> Seq(Frame)] /\ handed \in [UserID -> Seq(Nat \ {0})]
      /\ audience \in Seq(SUBSET UserID) /\ since \in [UserID -> Nat]
  BY DEF ServerInv, RouterTypeOK
<1>2. /\ n \in Nat \ {0} /\ audience' \in Seq(SUBSET UserID)
      /\ Len(audience) \in Nat /\ Len(audience') = n /\ n = Len(audience) + 1
  BY <1>1 DEF ThisMessage
<1>3. U \in SUBSET UserID /\ W \in SUBSET UserID
  BY <1>1
<1>4. /\ type \in MessageType /\ type # "AUTH_SUCCESS"
      /\ \A u \in UserID : Message(type, NoGroup, u, n) \in Frame
  BY <1>2 DEF MessageType, Message, Frame
<1>5. CoreInv(Core', Accounts) /\ clients' = clients /\ ~hung'
  <2>1. CoreInv(Core, Accounts) /\ Core.clients = clients /\ Core.hung = hung
    BY DEF ServerInv, Core
  <2> HIDE DEF U
  <2>2. CoreInv(c, Accounts) /\ c.clients = Core.clients /\ c.hung = Core.hung
    BY <1>2, <1>3, <1>4, <2>1, SendToGood
  <2>3. Finish(c, s)
    BY DEF U
  <2> HIDE DEF c
  <2> QED BY <2>1, <2>2, <2>3, FinishGood
<1>6. Accounts' = Accounts /\ AuthInv' /\ GroupTypeOK' /\ NonEmptyGroups' /\ MembersKnown'
  BY StoresStay
<1>7. handed' \in [UserID -> Seq(Nat \ {0})]
  <2>1. \A u \in UserID : Append(handed[u], n) \in Seq(Nat \ {0})
    BY <1>1, <1>2
  <2> HIDE DEF n
  <2> QED BY <1>1, <2>1 DEF HandedTo, n
<1>8. \A u \in UserID :
        \/ offline'[u] = offline[u]
        \/ u \in W /\ offline'[u] = Append(offline[u], Message(type, NoGroup, u, n))
  BY DEF storeOfflineMessage
<1>9. offline' \in [UserID -> Seq(Frame)]
  <2>1. \A u \in UserID : Append(offline[u], Message(type, NoGroup, u, n)) \in Seq(Frame)
    BY <1>1, <1>4
  <2> HIDE DEF n
  <2> QED BY <1>1, <2>1 DEF storeOfflineMessage, n
<1> HIDE DEF n, U, c
<1>10. RouterTypeOK'
  BY <1>1, <1>2, <1>7, <1>9 DEF RouterTypeOK
<1>11. StoredMail'
  <2> SUFFICES ASSUME NEW u \in UserID, NEW i \in 1..Len(offline'[u])
               PROVE  /\ offline'[u][i].n > 0 /\ offline'[u][i].to = u
                      /\ offline'[u][i].n <= n
                      /\ offline'[u][i].type \notin Answers
    BY <1>2 DEF StoredMail
  <2> DEFINE q == offline[u]
             f == Message(type, NoGroup, u, n)
  <2>0. \A k \in 1..Len(q) : /\ q[k].n > 0 /\ q[k].to = u /\ q[k].type \notin Answers
                              /\ q[k].n <= n
    <3>1. q \in Seq(Frame)
      BY <1>1
    <3>2. \A k \in 1..Len(q) : /\ q[k].n > 0 /\ q[k].to = u /\ q[k].type \notin Answers
                                /\ q[k].n <= Len(audience)
      BY DEF ServerInv, StoredMail
    <3> HIDE DEF q
    <3>3. \A k \in 1..Len(q) : q[k] \in Frame
      BY <3>1, ElementOfSeq
    <3> QED BY <1>2, <3>2, <3>3 DEF Frame
  <2>1. CASE offline'[u] = q
    BY <2>0, <2>1
  <2>2. CASE offline'[u] = Append(q, f)
    <3>1. q \in Seq(Frame) /\ f.n = n /\ f.to = u /\ f.type \notin Answers
      BY <1>1, <1>4 DEF Message, Answers
    <3>3. offline'[u][i] = IF i = Len(q) + 1 THEN f ELSE q[i]
      <4> HIDE DEF q, f
      <4> QED BY <2>2, <3>1
    <3>4. i = Len(q) + 1 \/ i \in 1..Len(q)
      <4> HIDE DEF q, f
      <4> QED BY <2>2, <3>1
    <3> HIDE DEF q, f
    <3> QED BY <1>2, <2>0, <3>1, <3>3, <3>4
  <2> QED BY <1>8, <2>1, <2>2
<1>12. SinceKnown'
  BY <1>1, <1>2, <1>6 DEF ServerInv, SinceKnown
<1>13. MailWaitsForAbsentOnly'
  <2> SUFFICES ASSUME NEW u \in UserID, clients[u] # NoSession
               PROVE  \A i \in DOMAIN offline'[u] : offline'[u][i].n <= since[u]
    BY <1>5 DEF MailWaitsForAbsentOnly, Online
  <2>1. u \notin W /\ \A i \in DOMAIN offline[u] : offline[u][i].n <= since[u]
    BY DEF ServerInv, MailWaitsForAbsentOnly, Online
  <2> QED BY <1>8, <2>1
<1> QED BY <1>5, <1>6, <1>10, <1>11, <1>12, <1>13 DEF ServerInv

(* Who is signed in has an account; the members a message goes to have one. *)
LEMMA SendersKnown ==
  ASSUME ServerInv
  PROVE  /\ \A s \in Session : session[s].authenticated => session[s].userID \in Accounts
         /\ Accounts \in SUBSET UserID
         /\ \A g \in Group, u \in UserID : GroupTargets(u, g) \in SUBSET UserID
  BY AccountsAreUsers
     DEF ServerInv, CoreInv, SignedIn, Core, MembersKnown, GroupTargets

LEMMA MessageFrameKeeps ==
  ASSUME ServerInv, NEW s \in Session, MessageFrame(s)
  PROVE  ServerInv'
<1>1. ASSUME NEW to \in UserID, handlePrivateMessage(s, to) PROVE ServerInv'
  <2> DEFINE T == {to}
  <2>1. /\ ~hung /\ T \in SUBSET UserID
        /\ HandedTo(T \cap Online) /\ storeOfflineMessage(T \ Online, "MSG_PRIVATE")
        /\ Finish(SendTo(Core, T \cap Online, "MSG_PRIVATE", NoGroup), s)
        /\ audience' = Append(audience, T)
        /\ UNCHANGED <<users, userIDMap, groups, since>>
    BY <1>1 DEF handlePrivateMessage, Authenticated, Arrived, RouteChat
  <2> HIDE DEF T
  <2> QED BY <2>1, RouteKeeps
<1>2. ASSUME NEW to \in UserID, handlePrivateFile(s, to) PROVE ServerInv'
  <2> DEFINE T == {to}
             X == {u \in T : clients[u] # NoSession}
  <2>1. /\ ~hung /\ T \in SUBSET UserID /\ X \in SUBSET UserID
        /\ HandedTo(T \cap Online) /\ UNCHANGED offline
        /\ Finish(SendTo(Core, T \cap Online, "FILE", NoGroup), s)
        /\ audience' = Append(audience, X)
        /\ UNCHANGED <<users, userIDMap, groups, since>>
    BY <1>2 DEF handlePrivateFile, Authenticated, Arrived, RelayFile
  <2> HIDE DEF T, X
  <2> QED BY <2>1, RouteKeeps
<1>3. ASSUME NEW g \in Group, handleGroupMessage(s, g) PROVE ServerInv'
  <2> DEFINE from == session[s].userID
             T == GroupTargets(from, g)
             X == groups[g].members \ {from}
  <2>1. /\ ~hung /\ session[s].authenticated /\ isMember(g, from)
        /\ HandedTo(T \cap Online) /\ storeOfflineMessage(T \ Online, "MSG_GROUP")
        /\ Finish(SendTo(Core, T \cap Online, "MSG_GROUP", g), s)
        /\ audience' = Append(audience, X)
        /\ UNCHANGED <<users, userIDMap, groups, since>>
    BY <1>3 DEF handleGroupMessage, Authenticated, Arrived, RouteChat
  <2>2. T \in SUBSET UserID
    BY <2>1, SendersKnown
  <2>3. X = T
    BY <2>1 DEF isMember, getGroupMembers, GroupTargets
  <2> HIDE DEF T, X
  <2> QED BY <2>1, <2>2, <2>3, RouteKeeps
<1>4. ASSUME NEW g \in Group, handleGroupFile(s, g) PROVE ServerInv'
  <2> DEFINE T == GroupTargets(session[s].userID, g)
             X == {u \in T : clients[u] # NoSession}
  <2>1. /\ ~hung /\ session[s].authenticated
        /\ HandedTo(T \cap Online) /\ UNCHANGED offline
        /\ Finish(SendTo(Core, T \cap Online, "FILE", NoGroup), s)
        /\ audience' = Append(audience, X)
        /\ UNCHANGED <<users, userIDMap, groups, since>>
    BY <1>4 DEF handleGroupFile, Authenticated, Arrived, RelayFile
  <2>2. T \in SUBSET UserID
    BY <2>1, SendersKnown
  <2>3. X \in SUBSET UserID
    BY <2>2
  <2> HIDE DEF T, X
  <2> QED BY <2>1, <2>2, <2>3, RouteKeeps
<1>5. ASSUME NEW g \in Group, handleGroupMessageRefused(s, g) PROVE ServerInv'
  BY <1>5, AnswerOnlyKeeps DEF handleGroupMessageRefused, FrameArrived
<1> QED BY <1>1, <1>2, <1>3, <1>4, <1>5 DEF MessageFrame

-----------------------------------------------------------------------------
(* Groups and the rest. *)

LEMMA GroupHandlerKeeps ==
  ASSUME ServerInv, NEW s \in Session, Authenticated(s), NEW g \in Group,
         GroupStep(g, session[s].userID), GroupAnswer(s)
  PROVE  ServerInv'
<1> DEFINE u == session[s].userID
<1>1. u \in Accounts /\ u \in UserID
  BY SendersKnown DEF Authenticated
<1>2. /\ ~hung /\ Arrived(s)
      /\ Finish(Answered(s, Reply), s)
      /\ UNCHANGED <<users, userIDMap, offline, handed, audience, since>>
  BY DEF Authenticated, Arrived, GroupAnswer
<1>3. CoreInv(Core', Accounts) /\ clients' = clients
  BY <1>2, AnsweredGood, FinishGood
<1>7. since' \in [UserID -> Nat] /\ (Accounts' = Accounts => SinceKnown')
  BY <1>2 DEF ServerInv, RouterTypeOK, SinceKnown
<1>4. Accounts' = Accounts /\ AuthInv'
  BY <1>2 DEF Accounts, ServerInv, AuthInv, AuthTypeOK, MapsAgree, OwnID, Registered, isUserIDValid
<1>5. /\ GroupTypeOK' /\ NonEmptyGroups'
      /\ \A h \in Group : getGroupMembers(h)' \subseteq getGroupMembers(h) \cup {u}
  BY <1>1, GroupStepKeeps DEF ServerInv
<1>6. \A h \in Group : getGroupMembers(h)' \subseteq Accounts'
  BY <1>1, <1>4, <1>5 DEF ServerInv, MembersKnown
<1> QED BY <1>2, <1>3, <1>4, <1>5, <1>6, <1>7, StepKeeps

LEMMA GroupFrameKeeps ==
  ASSUME ServerInv, NEW s \in Session, GroupFrame(s)
  PROVE  ServerInv'
<1> DEFINE u == session[s].userID
<1>1. ASSUME NEW g \in Group, NEW code \in JoinCode, handleGroupCreate(s, g, code)
      PROVE  ServerInv'
  BY <1>1, GroupHandlerKeeps DEF handleGroupCreate, GroupStep
<1>2. ASSUME NEW g \in Group, NEW code \in JoinCode, handleGroupJoin(s, g, code)
      PROVE  ServerInv'
  BY <1>2, GroupHandlerKeeps DEF handleGroupJoin, GroupStep
<1>3. ASSUME NEW g \in Group, handleGroupLeave(s, g) PROVE ServerInv'
  BY <1>3, GroupHandlerKeeps DEF handleGroupLeave, GroupStep
<1>4. ASSUME NEW g \in Group, NEW code \in JoinCode, handleGroupJoinRefused(s, g, code)
      PROVE  ServerInv'
  BY <1>4, AnswerOnlyKeeps DEF handleGroupJoinRefused, FrameArrived
<1>5. ASSUME NEW g \in Group, handleGroupCreateRefused(s, g) PROVE ServerInv'
  BY <1>5, AnswerOnlyKeeps DEF handleGroupCreateRefused, FrameArrived
<1>6. ASSUME NEW g \in Group, handleGroupLeaveRefused(s, g) PROVE ServerInv'
  BY <1>6, AnswerOnlyKeeps DEF handleGroupLeaveRefused, FrameArrived
<1> QED BY <1>1, <1>2, <1>3, <1>4, <1>5, <1>6 DEF GroupFrame

LEMMA OtherFrameKeeps ==
  ASSUME ServerInv, NEW s \in Session, OtherFrame(s)
  PROVE  ServerInv'
<1>1. CASE UnknownType(s)
  <2>1. CoreInv(Core, Accounts) /\ Core.clients = clients
    BY DEF ServerInv, Core
  <2>2. CoreInv(Core', Accounts) /\ clients' = clients
    BY <1>1, <2>1, FinishGood DEF UnknownType
  <2> QED BY <1>1, <2>2, QuietStepKeeps DEF UnknownType, Arrived
<1>2. CASE ~UnknownType(s)
  BY <1>2, AnswerOnlyKeeps
     DEF OtherFrame, RefuseUnauthenticated, handleUserListRequest, handlePing,
         AnswerInvalidFormat, FrameArrived
<1> QED BY <1>1, <1>2

LEMMA AccountFrameKeeps ==
  ASSUME ServerInv, NEW s \in Session, AccountFrame(s)
  PROVE  ServerInv'
<1>1. ASSUME NEW name \in Username, NEW password \in Password,
             \/ handleAuthRegisterRefused(s, name, password)
             \/ handleAuthLoginRefused(s, name, password)
      PROVE  ServerInv'
  BY <1>1, AnswerOnlyKeeps
     DEF handleAuthRegisterRefused, handleAuthLoginRefused, FrameArrived
<1> QED BY <1>1, handleAuthRegisterKeeps, handleAuthLoginKeeps, handleAuthLogoutKeeps
           DEF AccountFrame

-----------------------------------------------------------------------------
(* The theorems. *)

LEMMA ServerInvariant == Spec => []ServerInv
<1>1. ServerInv /\ [Next]_vars => ServerInv'
  <2>1. ASSUME ServerInv, Next PROVE ServerInv'
    BY <2>1, ConnectionKeeps, AccountFrameKeeps, MessageFrameKeeps, GroupFrameKeeps,
       OtherFrameKeeps DEF Next
  <2>2. ASSUME ServerInv, UNCHANGED vars PROVE ServerInv'
    <3>1. /\ UNCHANGED <<users, userIDMap, groups>> /\ Core' = Core
          /\ UNCHANGED <<clients, hung, offline, handed, audience, since>>
      BY <2>2 DEF vars, Core
    <3>2. Accounts' = Accounts /\ AuthInv' /\ GroupTypeOK' /\ NonEmptyGroups' /\ MembersKnown'
      BY <2>2, <3>1, StoresStay
    <3>3. RouterTypeOK' /\ StoredMail' /\ SinceKnown' /\ MailWaitsForAbsentOnly'
      BY <2>2, <3>1, <3>2
         DEF ServerInv, RouterTypeOK, StoredMail, SinceKnown, MailWaitsForAbsentOnly, Online
    <3> QED BY <2>2, <3>1, <3>2, <3>3 DEF ServerInv
  <2> QED BY <2>1, <2>2
<1> QED BY <1>1, ServerInitially, PTL DEF Spec

(* Accounts, groups, sessions, stores and histories have their types in     *)
(* every reachable state of the server.                                     *)
THEOREM ServerTyping == Spec => []TypeOK
<1>1. ServerInv => TypeOK
  BY DEF ServerInv, TypeOK, AuthInv, CoreInv, GoodCore, CoreState, Core, CoreTypeOK
<1> QED BY <1>1, ServerInvariant, PTL

(* Nothing is stored for a user who is online but mail from before there    *)
(* was such an account: the store fills only while the user has no entry in *)
(* clients_, and the login that makes the entry empties it in the same      *)
(* handler; the registration leaves it full, and says so by since.          *)
THEOREM MailWaits == Spec => []MailWaitsForAbsentOnly
<1>1. ServerInv => MailWaitsForAbsentOnly
  BY DEF ServerInv
<1> QED BY <1>1, ServerInvariant, PTL

(* The write chain of an open connection runs exactly while its queue is    *)
(* filled: no frame is left behind by sendMessage and the completion        *)
(* handler, which share writing_.                                           *)
THEOREM WriterNeverSleeps == Spec => []WriterAwake
<1>1. ServerInv => WriterAwake
  BY SessionsAreGood DEF WriterAwake, GoodSession, WriterOK
<1> QED BY <1>1, ServerInvariant, PTL

(* Ahead of every message for a user, on the wire or in the queue, goes the *)
(* AUTH_SUCCESS for that user.                                              *)
THEOREM ToldBeforeMail == Spec => []AuthSuccessFirst
<1>1. ServerInv => AuthSuccessFirst
  BY SessionsAreGood DEF AuthSuccessFirst, GoodSession, ToldFirst
<1> QED BY <1>1, ServerInvariant, PTL

(* The registry leads to no destroyed session, and a session without an     *)
(* owner was destroyed.                                                     *)
THEOREM RegistryIsSound == Spec => []NoDanglingNoLeak
<1>1. ASSUME ServerInv PROVE NoDanglingNoLeak
  <2>1. \A u \in Online : session[clients[u]] # Blank
    BY <1>1, BlankIsIdle DEF ServerInv, CoreInv, GoodCore, Core, Online
  <2>2. ~hung => \A s \in Session : session[s] # Blank => Held(Core, s)
    BY <1>1 DEF ServerInv, CoreInv, NoLeak, Core
  <2> QED BY <2>1, <2>2 DEF NoDanglingNoLeak
<1> QED BY <1>1, ServerInvariant, PTL

=============================================================================
