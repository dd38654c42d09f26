-------------------------- MODULE ServerMailProofs --------------------------
(***************************************************************************)
(* Proofs about the messages of the server, for any users, groups,         *)
(* sessions and numbers of messages: they reach every inbox once and in    *)
(* order, they go out on each connection in that order, and the server     *)
(* implements Mailbox.  LanShareServerProofs says what a step does to the  *)
(* sessions and the registry; here is what it does to the mail.            *)
(***************************************************************************)
EXTENDS LanShareServerProofs

-----------------------------------------------------------------------------
(* Numbers in sequences. *)

\* In the mail of u message n may come behind q and ahead of r.
MayJoin(u, q, n, r) ==
  /\ \A m \in Range(q) : InTurn(u, m, n)
  /\ \A m \in Range(r) : InTurn(u, n, m)

(* A number may join an ordered sequence of two parts between the parts.    *)
LEMMA InsertOrdered ==
  ASSUME NEW u, NEW q \in Seq(Nat), NEW r \in Seq(Nat), Ordered(u, q \o r), NEW n \in Nat,
         MayJoin(u, q, n, r)
  PROVE  /\ Ordered(u, Append(q, n) \o r)
         /\ Range(Append(q, n) \o r) = Range(q \o r) \cup {n}
<1> DEFINE t == q \o r
           v == Append(q, n) \o r
           k == Len(q)
           Old(i) == IF i <= k THEN i ELSE i - 1
<1>1. /\ t \in Seq(Nat) /\ v \in Seq(Nat) /\ k \in Nat
      /\ Len(t) = k + Len(r) /\ Len(v) = k + 1 + Len(r) /\ Len(r) \in Nat
      /\ DOMAIN t = 1..Len(t) /\ DOMAIN v = 1..Len(v)
      /\ v[k+1] = n
      /\ \A i \in 1..Len(v) : i # k+1 => Old(i) \in 1..Len(t) /\ v[i] = t[Old(i)]
      /\ \A i \in 1..k : t[i] = q[i] /\ i \in DOMAIN q
      /\ \A i \in 1..Len(t) : i > k => t[i] = r[i-k] /\ i-k \in DOMAIN r
      /\ k+1 \in 1..Len(v)
  <2> DEFINE a == Append(q, n)
  <2>1. /\ a \in Seq(Nat) /\ k \in Nat /\ Len(r) \in Nat /\ Len(a) = k + 1 /\ a[k+1] = n
        /\ \A i \in 1..k : a[i] = q[i]
        /\ DOMAIN q = 1..k /\ DOMAIN r = 1..Len(r)
    OBVIOUS
  <2> HIDE DEF a
  <2>2. /\ v \in Seq(Nat) /\ Len(v) = k + 1 + Len(r) /\ DOMAIN v = 1..Len(v)
        /\ \A i \in 1..(k+1) : v[i] = a[i]
        /\ \A i \in 1..Len(v) : i > k+1 => v[i] = r[i-(k+1)]
    BY <2>1 DEF a
  <2>3. /\ t \in Seq(Nat) /\ Len(t) = k + Len(r) /\ DOMAIN t = 1..Len(t)
        /\ \A i \in 1..k : t[i] = q[i]
        /\ \A i \in 1..Len(t) : i > k => t[i] = r[i-k]
    OBVIOUS
  <2> HIDE DEF t, v, k
  <2>4. ASSUME NEW i \in 1..Len(v), i # k+1 PROVE Old(i) \in 1..Len(t) /\ v[i] = t[Old(i)]
    <3>1. CASE i <= k
      BY <2>1, <2>2, <2>3, <3>1
    <3>2. CASE i > k+1
      <4>1. i-1 \in 1..Len(t) /\ i-1 > k /\ (i-1)-k = i-(k+1) /\ Old(i) = i-1
        BY <2>1, <2>2, <2>3, <3>2
      <4> QED BY <2>2, <2>3, <3>2, <4>1
    <3> QED BY <2>1, <2>2, <2>4, <3>1, <3>2
  <2> HIDE DEF Old
  <2> QED BY <2>1, <2>2, <2>3, <2>4
<1>2. Ordered(u, t)
  OBVIOUS
<1>3. /\ \A i \in 1..k : InTurn(u, t[i], n)
      /\ \A i \in 1..Len(t) : i > k => InTurn(u, n, t[i])
  <2>1. MayJoin(u, q, n, r)
    OBVIOUS
  <2> HIDE DEF t
  <2> QED BY <1>1, <2>1 DEF Range, MayJoin
<1> HIDE DEF t, v, k
<1>4. ASSUME NEW i \in 1..Len(v), NEW j \in 1..Len(v), i < j PROVE InTurn(u, v[i], v[j])
  <2>1. CASE i # k+1 /\ j # k+1
    <3>1. Old(i) \in 1..Len(t) /\ Old(j) \in 1..Len(t) /\ v[i] = t[Old(i)] /\ v[j] = t[Old(j)]
      <4> HIDE DEF Old
      <4> QED BY <1>1, <2>1
    <3>2. k \in Nat /\ i \in Nat /\ j \in Nat
      BY <1>1
    <3>3. Old(i) < Old(j)
      BY <1>4, <2>1, <3>2
    <3> HIDE DEF Old
    <3> QED BY <1>2, <3>1, <3>3 DEF Ordered
  <2>2. CASE i = k+1
    <3>1. j # k+1 /\ Old(j) \in 1..Len(t) /\ Old(j) > k
      BY <1>1, <1>4, <2>2
    <3> QED BY <1>1, <1>3, <2>2, <3>1
  <2>3. CASE j = k+1
    <3>1. i # k+1 /\ Old(i) \in 1..k
      BY <1>1, <1>4, <2>3
    <3> QED BY <1>1, <1>3, <2>3, <3>1
  <2> QED BY <2>1, <2>2, <2>3
<1>5. Range(v) \subseteq Range(t) \cup {n}
  <2>1. \A i \in 1..Len(v) : v[i] = n \/ \E j \in 1..Len(t) : v[i] = t[j]
    <3> HIDE DEF Old
    <3> QED BY <1>1
  <2>2. DOMAIN t = 1..Len(t) /\ DOMAIN v = 1..Len(v)
    BY <1>1
  <2> QED BY <2>1, <2>2 DEF Range
<1>6. Range(t) \cup {n} \subseteq Range(v)
  <2>1. ASSUME NEW i \in 1..Len(t) PROVE \E j \in 1..Len(v) : v[j] = t[i]
    <3>1. CASE i <= k
      <4>1. i \in 1..Len(v) /\ i # k+1 /\ Old(i) = i
        BY <1>1, <3>1
      <4> QED BY <1>1, <4>1
    <3>2. CASE i > k
      <4>1. i+1 \in 1..Len(v) /\ i+1 # k+1 /\ Old(i+1) = i
        BY <1>1, <3>2
      <4>2. v[i+1] = t[Old(i+1)]
        BY <1>1, <4>1
      <4> QED BY <4>1, <4>2
    <3> QED BY <1>1, <3>1, <3>2
  <2>2. /\ DOMAIN t = 1..Len(t) /\ DOMAIN v = 1..Len(v)
        /\ \E j \in 1..Len(v) : v[j] = n
    BY <1>1
  <2> QED BY <2>1, <2>2 DEF Range
<1> QED BY <1>4, <1>5, <1>6 DEF Ordered, t, v

(* Of an ordered sequence of two parts, the second is ordered and may       *)
(* follow the first.                                                        *)
LEMMA OrderedParts ==
  ASSUME NEW u, NEW q \in Seq(Nat), NEW r \in Seq(Nat), Ordered(u, q \o r)
  PROVE  /\ Ordered(u, r)
         /\ \A m \in Range(q) : \A i \in 1..Len(r) : InTurn(u, m, r[i])
         /\ Range(q) \subseteq Range(q \o r)
         /\ Range(r) \subseteq Range(q \o r)
         /\ Range(q \o r) = Range(q) \cup Range(r)
<1> DEFINE t == q \o r
<1>1. /\ t \in Seq(Nat) /\ Len(t) = Len(q) + Len(r) /\ Len(q) \in Nat /\ Len(r) \in Nat
      /\ \A i \in 1..Len(q) : t[i] = q[i]
      /\ \A i \in 1..Len(r) : t[Len(q) + i] = r[i]
      /\ \A i \in 1..Len(t) : i \in 1..Len(q) \/ (i - Len(q) \in 1..Len(r) /\ t[i] = r[i - Len(q)])
      /\ DOMAIN q = 1..Len(q) /\ DOMAIN r = 1..Len(r) /\ DOMAIN t = 1..Len(t)
  OBVIOUS
<1>2. Ordered(u, t)
  OBVIOUS
<1> HIDE DEF t
<1>3. /\ \A i \in 1..Len(q) : i \in 1..Len(t)
      /\ \A i \in 1..Len(r) : Len(q) + i \in 1..Len(t)
  BY <1>1
<1>4. ASSUME NEW i \in 1..Len(r), NEW j \in 1..Len(r), i < j PROVE InTurn(u, r[i], r[j])
  <2>1. Len(q) + i < Len(q) + j
    BY <1>1, <1>4
  <2> QED BY <1>1, <1>2, <1>3, <2>1 DEF Ordered
<1>5. ASSUME NEW i \in 1..Len(q), NEW j \in 1..Len(r) PROVE InTurn(u, q[i], r[j])
  <2>1. i < Len(q) + j
    BY <1>1
  <2> QED BY <1>1, <1>2, <1>3, <2>1 DEF Ordered
<1>6. Range(q) \subseteq Range(t) /\ Range(r) \subseteq Range(t)
  <2>1. /\ \A i \in 1..Len(q) : \E j \in 1..Len(t) : t[j] = q[i]
        /\ \A i \in 1..Len(r) : \E j \in 1..Len(t) : t[j] = r[i]
    BY <1>1, <1>3
  <2>2. DOMAIN q = 1..Len(q) /\ DOMAIN r = 1..Len(r) /\ DOMAIN t = 1..Len(t)
    BY <1>1
  <2>3. Range(q) \subseteq Range(t)
    BY ONLY <2>1, <2>2, Zenon DEF Range
  <2>4. Range(r) \subseteq Range(t)
    BY ONLY <2>1, <2>2, Zenon DEF Range
  <2> QED BY <2>3, <2>4
<1>7. \A m \in Range(q) : \E i \in 1..Len(q) : m = q[i]
  BY <1>1 DEF Range
<1>8. Range(t) \subseteq Range(q) \cup Range(r)
  BY <1>1 DEF Range
<1> QED BY <1>4, <1>5, <1>6, <1>7, <1>8 DEF Ordered, t

(* The numbers of frames. *)
LEMMA NumbersType ==
  ASSUME NEW q \in Seq(Frame)
  PROVE  /\ Numbers(q) \in Seq(Nat) /\ Len(Numbers(q)) = Len(q)
         /\ \A i \in 1..Len(q) : Numbers(q)[i] = q[i].n
<1> DEFINE m == Len(q)
           ns == [i \in 1..m |-> q[i].n]
<1>1. m \in Nat /\ \A i \in 1..m : q[i] \in Frame
  <2> QED BY ElementOfSeq, LenProperties
<1>2. \A i \in 1..m : q[i].n \in Nat
  BY <1>1 DEF Frame
<1> HIDE DEF m
<1>3. ns \in [1..m -> Nat] /\ \A i \in 1..m : ns[i] = q[i].n
  BY <1>2
<1>4. ns \in Seq(Nat) /\ Len(ns) = m
  BY <1>1, <1>3
<1> QED BY <1>3, <1>4 DEF Numbers, m

LEMMA NumbersAppend ==
  ASSUME NEW q \in Seq(Frame), NEW f \in Frame
  PROVE  Numbers(Append(q, f)) = Append(Numbers(q), f.n)
<1> DEFINE r == Append(q, f)
           a == Numbers(r)
           b == Append(Numbers(q), f.n)
<1>1. /\ r \in Seq(Frame) /\ Len(r) = Len(q) + 1 /\ Len(q) \in Nat
      /\ r[Len(q) + 1] = f /\ \A i \in 1..Len(q) : r[i] = q[i]
  OBVIOUS
<1> HIDE DEF r
<1>2. /\ a \in Seq(Nat) /\ Len(a) = Len(r) /\ \A i \in 1..Len(r) : a[i] = r[i].n
  BY <1>1, NumbersType
<1>3. /\ Numbers(q) \in Seq(Nat) /\ Len(Numbers(q)) = Len(q)
      /\ \A i \in 1..Len(q) : Numbers(q)[i] = q[i].n
  BY NumbersType
<1>4. f.n \in Nat
  BY DEF Frame
<1>5. /\ b \in Seq(Nat) /\ Len(b) = Len(q) + 1 /\ b[Len(q) + 1] = f.n
      /\ \A i \in 1..Len(q) : b[i] = q[i].n
  BY <1>1, <1>3, <1>4
<1> HIDE DEF a, b
<1>6. ASSUME NEW i \in 1..Len(r) PROVE a[i] = b[i]
  <2>1. i = Len(q) + 1 \/ i \in 1..Len(q)
    BY <1>1
  <2> QED BY <1>1, <1>2, <1>5, <2>1
<1>7. a = b
  BY <1>1, <1>2, <1>5, <1>6, SeqEqual
<1> QED BY <1>7 DEF a, b, r

LEMMA NumbersOfNone == Numbers(<<>>) = <<>>
  BY DEF Numbers

(* Each user is listed, and once. *)
LEMMA ListedOnce ==
  ASSUME NEW U \in SUBSET UserID
  PROVE  /\ \A i, j \in 1..Cardinality(U) : SetToSeq(U)[i] = SetToSeq(U)[j] => i = j
         /\ \A u \in U : \E i \in 1..Cardinality(U) : SetToSeq(U)[i] = u
<1> DEFINE n == Cardinality(U)
<1>1. IsFiniteSet(U)
  BY UserIDFinite, FS_Subset
<1>2. ExistsBijection(1..n, U)
  BY <1>1, FS_CardinalityType
<1>3. \E f \in [1..n -> U] : IsInjective(f)
  BY <1>2 DEF ExistsBijection, Bijection, Injection, IsInjective
<1>4. SetToSeq(U) \in [1..n -> U] /\ IsInjective(SetToSeq(U))
  BY <1>3 DEF SetToSeq
<1> DEFINE f == SetToSeq(U)
<1>5. f \in Injection(1..n, U) /\ \A i, j \in 1..n : f[i] = f[j] => i = j
  BY <1>4 DEF IsInjective, Injection
<1>6. n \in Nat /\ Cardinality(1..n) = n
  BY <1>1, FS_CardinalityType, FS_Interval
<1> HIDE DEF f
<1>7. f \in Surjection(1..n, U)
  BY <1>1, <1>5, <1>6, FS_Injection
<1>8. \A u \in U : \E i \in 1..n : f[i] = u
  BY <1>7 DEF Surjection
<1> QED BY <1>5, <1>8 DEF f

-----------------------------------------------------------------------------
(* What a step does to the mail: nothing, or a message for the users X is   *)
(* handed to those of them who are online and stored for the others, or     *)
(* what is stored for u is handed to u.                                     *)

MailStays == UNCHANGED <<offline, handed, audience, since>>

Posted(X) ==
  /\ audience' = Append(audience, X)
  /\ handed' = [u \in UserID |-> IF u \in X \cap Online THEN Append(handed[u], ThisMessage)
                                  ELSE handed[u]]
  /\ \A u \in UserID :
       Waiting(u)' = IF u \in X \ Online THEN Append(Waiting(u), ThisMessage) ELSE Waiting(u)
  /\ UNCHANGED since

Collected(u) ==
  /\ handed' = [handed EXCEPT ![u] = Inbox(u)]
  /\ offline' = [offline EXCEPT ![u] = <<>>]
  /\ UNCHANGED <<audience, since>>

LEMMA MailTypes ==
  ASSUME ServerInv
  PROVE  /\ offline \in [UserID -> Seq(Frame)]
         /\ handed \in [UserID -> Seq(Nat \ {0})] /\ handed \in [UserID -> Seq(Nat)]
         /\ audience \in Seq(SUBSET UserID) /\ since \in [UserID -> Nat]
         /\ ThisMessage \in Nat \ {0}
         /\ \A u \in UserID : /\ Waiting(u) \in Seq(Nat) /\ Inbox(u) \in Seq(Nat)
                              /\ Len(Waiting(u)) = Len(offline[u])
                              /\ \A i \in 1..Len(offline[u]) : Waiting(u)[i] = offline[u][i].n
<1>1. /\ offline \in [UserID -> Seq(Frame)] /\ handed \in [UserID -> Seq(Nat \ {0})]
      /\ audience \in Seq(SUBSET UserID) /\ since \in [UserID -> Nat]
  BY DEF ServerInv, RouterTypeOK
<1>2. ThisMessage \in Nat \ {0}
  BY <1>1 DEF ThisMessage
<1>3. \A u \in UserID : handed[u] \in Seq(Nat)
  <2> TAKE u \in UserID
  <2>1. handed[u] \in Seq(Nat \ {0})
    BY <1>1
  <2> QED BY <2>1
<1>4. handed \in [UserID -> Seq(Nat)]
  BY <1>1, <1>3
<1>5. \A u \in UserID : /\ Waiting(u) \in Seq(Nat) /\ Len(Waiting(u)) = Len(offline[u])
                        /\ \A i \in 1..Len(offline[u]) : Waiting(u)[i] = offline[u][i].n
  BY <1>1, NumbersType DEF Waiting
<1>6. \A u \in UserID : Inbox(u) \in Seq(Nat)
  BY <1>3, <1>5, ConcatProperties DEF Inbox
<1> QED BY <1>1, <1>2, <1>4, <1>5, <1>6

(* Routing posts the message: a chat message to everybody it is meant for,  *)
(* a file to those who are online.                                          *)
LEMMA RoutingPosts ==
  ASSUME ServerInv, NEW T \in SUBSET UserID, NEW X,
         NEW type \in {"MSG_PRIVATE", "MSG_GROUP", "FILE"},
         HandedTo(T \cap Online), audience' = Append(audience, X), UNCHANGED since,
         \/ X = T /\ storeOfflineMessage(T \ Online, type)
         \/ X = T \cap Online /\ UNCHANGED offline
  PROVE  Posted(X)
<1> DEFINE n == ThisMessage
<1>1. X \cap Online = T \cap Online
  OBVIOUS
<1>2. n \in Nat \ {0} /\ offline \in [UserID -> Seq(Frame)]
  BY MailTypes
<1>3. \A u \in UserID : Message(type, NoGroup, u, n) \in Frame /\ Message(type, NoGroup, u, n).n = n
  BY <1>2 DEF Message, Frame, MessageType
<1>4. ASSUME NEW u \in UserID
      PROVE  Waiting(u)' = IF u \in X \ Online THEN Append(Waiting(u), n) ELSE Waiting(u)
  <2>1. Waiting(u)' = Numbers(offline'[u])
    BY DEF Waiting
  <2>2. CASE u \in X \ Online
    <3>1. offline'[u] = Append(offline[u], Message(type, NoGroup, u, n))
      BY <2>2 DEF storeOfflineMessage, n
    <3> HIDE DEF n
    <3> QED BY <1>2, <1>3, <2>1, <2>2, <3>1, NumbersAppend DEF Waiting
  <2>3. CASE u \notin X \ Online
    <3>1. offline'[u] = offline[u]
      BY <2>3 DEF storeOfflineMessage
    <3> QED BY <2>1, <2>3, <3>1 DEF Waiting
  <2> QED BY <2>2, <2>3
<1> QED BY <1>1, <1>4 DEF Posted, HandedTo

(* Being online is an entry in the registry. *)
LEMMA LoginCollects ==
  ASSUME NEW d, NEW u \in UserID, d.clients[u] # NoSession,
         deliverOfflineMessages(d, u), UNCHANGED <<audience, since>>, ServerInv
  PROVE  Collected(u)
  BY DEF deliverOfflineMessages, Collected, Inbox, Waiting, ServerInv, RouterTypeOK


-----------------------------------------------------------------------------
(* What a step does to a session: it begins or ends, it completes a write,  *)
(* or new frames join its queue.                                            *)

Renewed(s) ==
  \/ session'[s] = Blank
  \/ session[s] = Blank /\ session'[s] = Fresh /\ handed' = handed

Wrote(s) ==
  /\ handed' = handed
  /\ session[s].writing = "pending"
  /\ session'[s].writeQueue = Tail(session[s].writeQueue)
  /\ session'[s].written = Record(session[s], Head(session[s].writeQueue)).written

\* From session state ss to tt the frames fs join the queue, no frame leaves
\* it, and the connection may have been closed.
Joined(ss, tt, fs) ==
  tt.writeQueue = ss.writeQueue \o fs /\ tt.written \in {ss.written, NoneWritten}

\* The messages among the frames fs may follow all that was handed over for
\* their users before, and are in order.
NewFrames(fs) ==
  /\ fs \in Seq(Frame)
  /\ \A i \in 1..Len(fs) : fs[i].n > 0 =>
       /\ fs[i].type \notin Answers /\ fs[i].to \in UserID
       /\ fs[i].n \in Range(handed'[fs[i].to])
       /\ \A m \in Range(handed[fs[i].to]) : InTurn(fs[i].to, m, fs[i].n)
       /\ \A j \in 1..(i-1) : fs[j].to = fs[i].to => InTurn(fs[i].to, fs[j].n, fs[i].n)

\* The numbers of the messages for u among the frames fs.
MessagesIn(fs, u) == {fs[i].n : i \in {j \in 1..Len(fs) : fs[j].to = u /\ fs[j].n > 0}}

\* The frames fs for session s are just what is handed over to its users.
Delivers(s, fs) ==
  \A u \in UserID :
    MessagesIn(fs, u) = IF clients'[u] = s THEN Range(handed'[u]) \ Range(handed[u]) ELSE {}

Queues(s) ==
  \E fs : NewFrames(fs) /\ Delivers(s, fs) /\ Joined(session[s], session'[s], fs)

Effect(s) == Renewed(s) \/ Wrote(s) \/ Queues(s)

LEMMA NothingJoins ==
  ASSUME NEW ss \in SessionState, NEW tt, tt.writeQueue = ss.writeQueue,
         tt.written \in {ss.written, NoneWritten}
  PROVE  Joined(ss, tt, <<>>)
<1>1. ss.writeQueue \o <<>> = ss.writeQueue
  BY ConcatEmptySeq DEF SessionState
<1> QED BY <1>1 DEF Joined

LEMMA JoinedTwice ==
  ASSUME NEW ss \in SessionState, NEW tt, NEW vv, NEW fs \in Seq(Frame), NEW gs \in Seq(Frame),
         Joined(ss, tt, fs), Joined(tt, vv, gs)
  PROVE  Joined(ss, vv, fs \o gs)
<1>1. (ss.writeQueue \o fs) \o gs = ss.writeQueue \o (fs \o gs)
  <2> DEFINE q == ss.writeQueue
  <2>1. q \in Seq(Frame)
    BY DEF SessionState
  <2> HIDE DEF q
  <2>2. (q \o fs) \o gs = q \o (fs \o gs)
    BY <2>1, ConcatAssociative
  <2> QED BY <2>2 DEF q
<1>2. vv.writeQueue = (ss.writeQueue \o fs) \o gs
  BY DEF Joined
<1>3. vv.written \in {ss.written, NoneWritten}
  BY DEF Joined
<1> QED BY <1>1, <1>2, <1>3 DEF Joined

LEMMA SendAllJoins ==
  ASSUME NEW ss \in SessionState, NEW fs \in Seq(Frame)
  PROVE  Joined(ss, sendAll(ss, fs), fs) /\ sendAll(ss, fs) \in SessionState
<1>1. sendAll(ss, fs).writeQueue = ss.writeQueue \o fs /\ sendAll(ss, fs).written = ss.written
  BY DEF sendAll, SessionState
<1>2. ss.writeQueue \o fs \in Seq(Frame)
  BY ConcatProperties DEF SessionState
<1>3. Launch(ss) \in Writing
  BY DEF Launch, Writing
<1>4. sendAll(ss, fs) \in SessionState
  BY <1>2, <1>3 DEF sendAll, SessionState
<1> QED BY <1>1, <1>4 DEF Joined

(* An answer is no message: it is new whatever was handed over, and may go  *)
(* ahead of new frames.                                                     *)
LEMMA AnswerIsNew ==
  ASSUME NEW f \in Frame, f.n = 0
  PROVE  NewFrames(<<f>>) /\ NewFrames(<<>>)
<1>1. <<f>> \in Seq(Frame) /\ Len(<<f>>) = 1 /\ <<f>>[1] = f
  OBVIOUS
<1>2. <<>> \in Seq(Frame) /\ Len(<<>>) = 0
  OBVIOUS
<1> QED BY <1>1, <1>2 DEF NewFrames

LEMMA AnswerAhead ==
  ASSUME NEW f \in Frame, f.n = 0, NEW fs, NewFrames(fs)
  PROVE  NewFrames(<<f>> \o fs)
<1> DEFINE gs == <<f>> \o fs
<1>1. fs \in Seq(Frame)
  BY DEF NewFrames
<1>2. /\ gs \in Seq(Frame) /\ Len(gs) = Len(fs) + 1 /\ Len(fs) \in Nat
      /\ gs[1] = f /\ \A i \in 1..Len(gs) : i # 1 => i-1 \in 1..Len(fs) /\ gs[i] = fs[i-1]
  BY <1>1
<1> HIDE DEF gs
<1>3. ASSUME NEW i \in 1..Len(gs), gs[i].n > 0
      PROVE  /\ gs[i].type \notin Answers /\ gs[i].to \in UserID
             /\ gs[i].n \in Range(handed'[gs[i].to])
             /\ \A m \in Range(handed[gs[i].to]) : InTurn(gs[i].to, m, gs[i].n)
             /\ \A j \in 1..(i-1) : gs[j].to = gs[i].to => InTurn(gs[i].to, gs[j].n, gs[i].n)
  <2>1. i # 1
    BY <1>2, <1>3
  <2>2. i-1 \in 1..Len(fs) /\ gs[i] = fs[i-1]
    BY <1>2, <2>1
  <2>3. ASSUME NEW j \in 1..(i-1), gs[j].to = gs[i].to
        PROVE  InTurn(gs[i].to, gs[j].n, gs[i].n)
    <3>1. CASE j = 1
      BY <1>2, <1>3, <3>1 DEF InTurn
    <3>2. CASE j # 1
      <4>1. j \in 1..Len(gs) /\ j-1 \in 1..((i-1)-1)
        BY <1>2, <2>2, <3>2
      <4>2. gs[j] = fs[j-1]
        BY <1>2, <3>2, <4>1
      <4> QED BY <1>3, <2>2, <2>3, <4>1, <4>2 DEF NewFrames
    <3> QED BY <3>1, <3>2
  <2> QED BY <1>3, <2>2, <2>3 DEF NewFrames
<1> QED BY <1>2, <1>3 DEF NewFrames, gs

(* Answers deliver nothing, nor does no frame at all. *)
LEMMA AnswerDelivers ==
  ASSUME NEW f \in Frame, f.n = 0, NEW s \in Session,
         \A u \in UserID : clients'[u] = s => handed'[u] = handed[u]
  PROVE  Delivers(s, <<f>>) /\ Delivers(s, <<>>)
<1>1. Len(<<f>>) = 1 /\ <<f>>[1] = f /\ Len(<<>>) = 0
  OBVIOUS
<1>2. \A u \in UserID : MessagesIn(<<f>>, u) = {} /\ MessagesIn(<<>>, u) = {}
  BY <1>1 DEF MessagesIn
<1>3. \A u \in UserID : clients'[u] = s => Range(handed'[u]) \ Range(handed[u]) = {}
  OBVIOUS
<1> QED BY <1>2, <1>3 DEF Delivers

(* Nothing is said of an answer by what is handed over.                     *)
LEMMA NothingDelivers ==
  ASSUME NEW s \in Session, \A u \in UserID : clients'[u] = s => handed'[u] = handed[u]
  PROVE  NewFrames(<<>>) /\ Delivers(s, <<>>)
<1>1. Reply \in Frame /\ Reply.n = 0
  BY DEF Reply, Frame, MessageType
<1> QED BY <1>1, AnswerIsNew, AnswerDelivers

(* An answer ahead of messages delivers nothing.                            *)
LEMMA AheadDelivers ==
  ASSUME NEW f \in Frame, f.n = 0, NEW fs \in Seq(Frame), NEW u
  PROVE  MessagesIn(<<f>> \o fs, u) = MessagesIn(fs, u)
<1> DEFINE gs == <<f>> \o fs
           G == {j \in 1..Len(gs) : gs[j].to = u /\ gs[j].n > 0}
           F == {j \in 1..Len(fs) : fs[j].to = u /\ fs[j].n > 0}
<1>1. /\ gs \in Seq(Frame) /\ Len(gs) = Len(fs) + 1 /\ Len(fs) \in Nat
      /\ gs[1] = f
      /\ \A i \in 1..Len(gs) : i # 1 => i-1 \in 1..Len(fs) /\ gs[i] = fs[i-1]
      /\ \A i \in 1..Len(fs) : i+1 \in 1..Len(gs) /\ gs[i+1] = fs[i]
  OBVIOUS
<1> HIDE DEF gs
<1>2. \A i \in G : i # 1
  BY <1>1
<1>3. \A i \in G : i-1 \in F /\ gs[i] = fs[i-1]
  BY <1>1, <1>2
<1>4. \A i \in F : i+1 \in G /\ gs[i+1] = fs[i]
  BY <1>1
<1>5. {gs[i].n : i \in G} = {fs[i].n : i \in F}
  BY <1>3, <1>4
<1> QED BY <1>5 DEF MessagesIn, gs

-----------------------------------------------------------------------------
(* The messages in a session are in order, h being what was handed over.    *)
InOrder(ss, h) ==
  /\ \A u \in UserID : ss.written[u] > 0 => ss.written[u] \in Range(h[u])
  /\ \A i \in 1..Len(ss.writeQueue) : ss.writeQueue[i].n > 0 =>
       LET f == ss.writeQueue[i] IN
       /\ f.type \notin Answers /\ f.to \in UserID /\ f.n \in Range(h[f.to])
       /\ InTurn(f.to, ss.written[f.to], f.n)
       /\ \A j \in 1..(i-1) :
            ss.writeQueue[j].to = f.to => InTurn(f.to, ss.writeQueue[j].n, f.n)

HandedGrows == \A u \in UserID : Range(handed[u]) \subseteq Range(handed'[u])

\* A message that may follow another still may after the step.
TurnsStay ==
  \A u \in UserID : \A m, n \in Nat : n > 0 /\ InTurn(u, m, n) => InTurn(u, m, n)'

LEMMA NewFramesInOrder ==
  ASSUME NEW ss \in SessionState, InOrder(ss, handed), HandedGrows, NEW tt, NEW fs,
         NewFrames(fs), Joined(ss, tt, fs)
  PROVE  InOrder(tt, handed')
<1> DEFINE q == ss.writeQueue
           r == tt.writeQueue
           l == Len(q)
<1>1. q \in Seq(Frame) /\ fs \in Seq(Frame) /\ ss.written \in [UserID -> Nat]
  BY DEF NewFrames, SessionState
<1>2. /\ r = q \o fs
      /\ \A u \in UserID : tt.written[u] \in {ss.written[u], 0}
  BY DEF Joined, NoneWritten
<1>3. /\ r \in Seq(Frame) /\ l \in Nat /\ Len(fs) \in Nat
      /\ \A i \in 1..Len(r) : (i \in 1..l /\ r[i] = q[i])
                              \/ (i > l /\ i-l \in 1..Len(fs) /\ r[i] = fs[i-l])
  <2> HIDE DEF q, r
  <2> QED BY <1>1, <1>2 DEF l
<1> HIDE DEF q, r, l
<1>4. \A i \in 1..Len(r) : r[i].n \in Nat
  <2>1. \A i \in 1..Len(r) : r[i] \in Frame
    BY <1>3, ElementOfSeq
  <2> QED BY <2>1 DEF Frame
<1>5. \A u \in UserID : tt.written[u] > 0 => tt.written[u] \in Range(handed'[u])
  <2> SUFFICES ASSUME NEW u \in UserID, tt.written[u] > 0
               PROVE  tt.written[u] \in Range(handed'[u])
    OBVIOUS
  <2>1. tt.written[u] = ss.written[u]
    BY <1>2
  <2> QED BY <2>1 DEF InOrder, HandedGrows
<1>6. ASSUME NEW i \in 1..Len(r), r[i].n > 0
      PROVE  /\ r[i].type \notin Answers /\ r[i].to \in UserID
             /\ r[i].n \in Range(handed'[r[i].to])
             /\ InTurn(r[i].to, tt.written[r[i].to], r[i].n)
             /\ \A j \in 1..(i-1) : r[j].to = r[i].to => InTurn(r[i].to, r[j].n, r[i].n)
  <2>1. CASE i \in 1..l /\ r[i] = q[i]
    <3>1. \A j \in 1..(i-1) : r[j] = q[j]
      BY <1>3, <2>1
    <3>2. /\ r[i].to \in UserID /\ InTurn(r[i].to, ss.written[r[i].to], r[i].n)
          /\ r[i].type \notin Answers /\ r[i].n \in Range(handed'[r[i].to])
          /\ \A j \in 1..(i-1) : r[j].to = r[i].to => InTurn(r[i].to, r[j].n, r[i].n)
      BY <1>6, <2>1, <3>1 DEF InOrder, HandedGrows, q, l
    <3>3. InTurn(r[i].to, tt.written[r[i].to], r[i].n)
      BY <1>2, <1>6, <3>2 DEF InTurn
    <3> QED BY <3>2, <3>3
  <2>2. CASE i > l /\ i-l \in 1..Len(fs) /\ r[i] = fs[i-l]
    <3> DEFINE f == fs[i-l]
    <3>1. /\ f.type \notin Answers /\ f.to \in UserID /\ f.n \in Range(handed'[f.to])
          /\ \A m \in Range(handed[f.to]) : InTurn(f.to, m, f.n)
          /\ \A j \in 1..((i-l)-1) : fs[j].to = f.to => InTurn(f.to, fs[j].n, f.n)
      BY <1>6, <2>2 DEF NewFrames
    <3>2. InTurn(f.to, tt.written[f.to], f.n)
      <4>1. ss.written[f.to] > 0 => ss.written[f.to] \in Range(handed[f.to])
        BY <3>1 DEF InOrder
      <4>2. /\ ss.written[f.to] \in Nat /\ f.n > 0
            /\ tt.written[f.to] \in {ss.written[f.to], 0}
        BY <1>1, <1>2, <1>6, <2>2, <3>1
      <4> QED BY <3>1, <4>1, <4>2 DEF InTurn
    <3>3. ASSUME NEW j \in 1..(i-1), r[j].to = f.to PROVE InTurn(f.to, r[j].n, f.n)
      <4>1. j \in 1..Len(r)
        BY <1>3
      <4>2. CASE j \in 1..l /\ r[j] = q[j]
        <5>1. r[j].n > 0 => r[j].n \in Range(handed[f.to])
          BY <3>3, <4>2 DEF InOrder, q, l
        <5>2. r[j].n \in Nat /\ f.n > 0
          BY <1>4, <1>6, <2>2, <4>1
        <5> QED BY <3>1, <5>1, <5>2 DEF InTurn
      <4>3. CASE j > l /\ j-l \in 1..Len(fs) /\ r[j] = fs[j-l]
        <5>1. j-l \in 1..((i-l)-1)
          BY <1>3, <4>3
        <5> QED BY <3>1, <3>3, <4>3, <5>1
      <4> QED BY <1>3, <4>1, <4>2, <4>3
    <3> QED BY <2>2, <3>1, <3>2, <3>3
  <2> QED BY <1>3, <2>1, <2>2
<1> QED BY <1>5, <1>6 DEF InOrder, r


(* The head of the queue goes to the wire: it was the earliest for its user, *)
(* and a message that is written changes what was written last.             *)
LEMMA WroteInOrder ==
  ASSUME ServerInv, NEW ss \in SessionState, InOrder(ss, handed), HandedGrows,
         ss.writeQueue # <<>>, NEW tt,
         tt.writeQueue = Tail(ss.writeQueue),
         tt.written = Record(ss, Head(ss.writeQueue)).written
  PROVE  /\ InOrder(tt, handed')
         /\ Head(ss.writeQueue).n = 0 \/ tt.written # ss.written
<1> DEFINE q == ss.writeQueue
           f == Head(q)
           r == tt.writeQueue
<1>1. q \in Seq(Frame) /\ ss.written \in [UserID -> Nat]
  BY DEF SessionState
<1>2. /\ f = q[1] /\ f \in Frame /\ 1 \in 1..Len(q) /\ Len(r) = Len(q) - 1 /\ Len(q) \in Nat
      /\ \A i \in 1..Len(r) : r[i] = q[i+1] /\ i+1 \in 1..Len(q)
  <2>1. r = Tail(q) /\ q # <<>>
    OBVIOUS
  <2> HIDE DEF q, r
  <2> QED BY <1>1, <2>1
<1>3. f.n \in Nat
  BY <1>2 DEF Frame
<1>4. tt.written = IF f.type \in Answers THEN ss.written ELSE [ss.written EXCEPT ![f.to] = f.n]
  BY DEF Record, Answers, SessionState
<1> HIDE DEF q, f, r
<1>5. f.n > 0 =>
        /\ f.type \notin Answers /\ f.to \in UserID /\ f.n \in Range(handed[f.to])
        /\ ss.written[f.to] # f.n
  <2> SUFFICES ASSUME f.n > 0
               PROVE  /\ f.type \notin Answers /\ f.to \in UserID /\ f.n \in Range(handed[f.to])
                      /\ ss.written[f.to] # f.n
    OBVIOUS
  <2>1. /\ f.type \notin Answers /\ f.to \in UserID /\ f.n \in Range(handed[f.to])
        /\ InTurn(f.to, ss.written[f.to], f.n)
    BY <1>2 DEF InOrder, q
  <2>2. since[f.to] \in Nat
    BY <2>1, MailTypes
  <2> QED BY <1>3, <2>1, <2>2 DEF InTurn
<1>6. f.n = 0 \/ tt.written # ss.written
  <2> SUFFICES ASSUME f.n > 0 PROVE tt.written[f.to] # ss.written[f.to]
    BY <1>3
  <2>1. tt.written[f.to] = f.n
    BY <1>1, <1>4, <1>5
  <2> QED BY <1>1, <1>3, <1>5, <2>1
<1>7. \A u \in UserID : tt.written[u] = ss.written[u] \/ (u = f.to /\ tt.written[u] = f.n)
  BY <1>1, <1>4
<1>8. ASSUME NEW u \in UserID, tt.written[u] > 0 PROVE tt.written[u] \in Range(handed'[u])
  <2>1. CASE tt.written[u] = ss.written[u]
    BY <1>8, <2>1 DEF InOrder, HandedGrows
  <2>2. CASE u = f.to /\ tt.written[u] = f.n
    BY <1>5, <1>8, <2>2 DEF HandedGrows
  <2> QED BY <1>7, <2>1, <2>2
<1>9. ASSUME NEW i \in 1..Len(r), r[i].n > 0
      PROVE  /\ r[i].type \notin Answers /\ r[i].to \in UserID
             /\ r[i].n \in Range(handed'[r[i].to])
             /\ InTurn(r[i].to, tt.written[r[i].to], r[i].n)
             /\ \A j \in 1..(i-1) : r[j].to = r[i].to => InTurn(r[i].to, r[j].n, r[i].n)
  <2> DEFINE g == r[i]
  <2>1. /\ g = q[i+1] /\ i+1 \in 1..Len(q)
        /\ g.type \notin Answers /\ g.to \in UserID /\ g.n \in Range(handed[g.to])
        /\ InTurn(g.to, ss.written[g.to], g.n)
        /\ \A j \in 1..i : q[j].to = g.to => InTurn(g.to, q[j].n, g.n)
    BY <1>2, <1>9 DEF InOrder, q
  <2>2. \A j \in 1..(i-1) : r[j] = q[j+1] /\ j+1 \in 1..i
    BY <1>2
  <2>3. InTurn(g.to, tt.written[g.to], g.n)
    <3>1. CASE tt.written[g.to] = ss.written[g.to]
      BY <2>1, <3>1
    <3>2. CASE g.to = f.to /\ tt.written[g.to] = f.n
      BY <1>2, <2>1, <3>2
    <3> QED BY <1>7, <2>1, <3>1, <3>2
  <2> QED BY <2>1, <2>2, <2>3 DEF HandedGrows
<1> QED BY <1>6, <1>8, <1>9 DEF InOrder, q, f, r

(* Every message that reaches an inbox was routed before this one.          *)
LEMMA HandedBefore ==
  ASSUME ServerInv, OnceInOrder, NEW u \in UserID
  PROVE  /\ \A m \in Range(Inbox(u)) : m \in Nat /\ m < ThisMessage
         /\ \A m \in Range(handed[u]) : m \in Nat /\ m < ThisMessage
<1>1. audience \in Seq(SUBSET UserID) /\ handed[u] \in Seq(Nat) /\ Waiting(u) \in Seq(Nat)
  BY MailTypes
<1>2. \A m \in DOMAIN audience : m \in Nat /\ m < Len(audience) + 1
  BY <1>1
<1>3. Range(Inbox(u)) \subseteq DOMAIN audience
  BY DEF OnceInOrder
<1>4. Range(handed[u]) \subseteq Range(Inbox(u))
  BY <1>1, OrderedParts DEF OnceInOrder, Inbox
<1> QED BY <1>2, <1>3, <1>4 DEF ThisMessage

(* The frames of the message being posted are new in every session, and     *)
(* deliver it to the users the session is registered for.                   *)
LEMMA PostedIsNew ==
  ASSUME ServerInv, OnceInOrder, NEW X, Posted(X), clients' = clients, NEW s \in Session,
         NEW U \in SUBSET UserID, U = {u \in X \cap Online : clients[u] = s},
         NEW type \in MessageType \ Answers, NEW g \in Group \cup {NoGroup}
  PROVE  NewFrames(FramesFor(U, type, g)) /\ Delivers(s, FramesFor(U, type, g))
<1> DEFINE fs == FramesFor(U, type, g)
           l == SetToSeq(U)
           n == ThisMessage
           k == Cardinality(U)
<1>1. fs \in Seq(Frame)
  BY MailTypes, FramesForGood DEF Answers
<1>2. /\ k \in Nat /\ l \in [1..k -> U] /\ \A i, j \in 1..k : l[i] = l[j] => i = j
      /\ \A u \in U : \E i \in 1..k : l[i] = u
  BY Listing, ListedOnce
<1>3. fs = [i \in 1..k |-> [type |-> type, group |-> g, to |-> l[i], n |-> n]]
  BY DEF FramesFor, Message
<1> HIDE DEF fs, l, k
<1> HIDE DEF n
<1>4. Len(fs) = k
  BY <1>1, <1>2, <1>3
<1>5. \A i \in 1..k : fs[i].type = type /\ fs[i].to = l[i] /\ l[i] \in U /\ fs[i].n = n
  BY <1>2, <1>3
<1>6. ASSUME NEW u \in U
      PROVE  /\ n \in Range(handed'[u])
             /\ \A m \in Range(handed[u]) : m < n
             /\ Range(handed'[u]) \ Range(handed[u]) = {n}
  <2>1. handed'[u] = Append(handed[u], n) /\ handed[u] \in Seq(Nat) /\ n \in Nat
    BY MailTypes DEF Posted, n
  <2>2. Range(Append(handed[u], n)) = Range(handed[u]) \cup {n}
    <3> DEFINE h == handed[u]
    <3>1. /\ h \in Seq(Nat) /\ DOMAIN Append(h, n) = DOMAIN h \cup {Len(h) + 1}
          /\ Append(h, n)[Len(h) + 1] = n /\ \A i \in DOMAIN h : Append(h, n)[i] = h[i]
      <4> HIDE DEF h
      <4>1. h \in Seq(Nat)
        BY <2>1 DEF h
      <4> QED BY <2>1, <4>1
    <3> HIDE DEF h
    <3>2. Range(Append(h, n)) = Range(h) \cup {n}
      BY <3>1 DEF Range
    <3> QED BY <3>2 DEF h
  <2>3. \A m \in Range(handed[u]) : m \in Nat /\ m < n
    BY HandedBefore DEF n
  <2>4. n \notin Range(handed[u])
    BY <2>1, <2>3
  <2> QED BY <2>1, <2>2, <2>3, <2>4
<1>7. ASSUME NEW i \in 1..Len(fs), NEW j \in 1..(i-1) PROVE fs[j].to # fs[i].to
  <2>1. i \in 1..k /\ j \in 1..k /\ j # i
    BY <1>2, <1>4
  <2> QED BY <1>2, <1>5, <2>1
<1>8. NewFrames(fs)
  <2> SUFFICES ASSUME NEW i \in 1..Len(fs)
               PROVE  /\ fs[i].type \notin Answers /\ fs[i].to \in UserID
                      /\ fs[i].n \in Range(handed'[fs[i].to])
                      /\ \A m \in Range(handed[fs[i].to]) : InTurn(fs[i].to, m, fs[i].n)
                      /\ \A j \in 1..(i-1) : fs[j].to # fs[i].to
    BY <1>1 DEF NewFrames
  <2>1. fs[i].type = type /\ fs[i].to \in U /\ fs[i].n = n
    BY <1>4, <1>5
  <2>2. \A m \in Range(handed[fs[i].to]) : InTurn(fs[i].to, m, fs[i].n)
    BY <1>6, <2>1 DEF InTurn
  <2> QED BY <1>6, <1>7, <2>1, <2>2
<1>9. n > 0
  BY MailTypes DEF n
<1>10. ASSUME NEW u \in UserID
       PROVE  MessagesIn(fs, u) = IF clients'[u] = s THEN Range(handed'[u]) \ Range(handed[u])
                                  ELSE {}
  <2>1. CASE u \in U
    <3>1. \E i \in 1..Len(fs) : fs[i].to = u
      BY <1>2, <1>4, <1>5, <2>1
    <3>2. MessagesIn(fs, u) = {n}
      BY <1>4, <1>5, <1>9, <3>1 DEF MessagesIn
    <3> QED BY <1>6, <2>1, <3>2
  <2>2. CASE u \notin U
    <3>1. MessagesIn(fs, u) = {}
      BY <1>4, <1>5, <2>2 DEF MessagesIn
    <3>2. clients'[u] = s => handed'[u] = handed[u]
      BY <2>2 DEF Posted
    <3> QED BY <3>1, <3>2
  <2> QED BY <2>1, <2>2
<1> QED BY <1>8, <1>10 DEF Delivers, fs

(* The stored messages are new in the session they are delivered to, and    *)
(* are what is handed over.                                                 *)
LEMMA StoredIsNew ==
  ASSUME ServerInv, OnceInOrder, NEW u \in UserID, Collected(u)
  PROVE  /\ NewFrames(offline[u])
         /\ \A v \in UserID : MessagesIn(offline[u], v) = Range(handed'[v]) \ Range(handed[v])
<1> DEFINE q == offline[u]
           w == Waiting(u)
           h == handed[u]
<1>1. /\ q \in Seq(Frame) /\ w \in Seq(Nat) /\ h \in Seq(Nat) /\ Len(w) = Len(q)
      /\ \A i \in 1..Len(q) : w[i] = q[i].n
  BY MailTypes
<1>2. \A i \in 1..Len(q) : q[i].type \notin Answers /\ q[i].to = u /\ q[i].n > 0
  BY DEF ServerInv, StoredMail
<1>3. Inbox(u) = h \o w /\ Ordered(u, h \o w)
  BY DEF Inbox, OnceInOrder
<1>4. handed'[u] = h \o w /\ \A v \in UserID : v # u => handed'[v] = handed[v]
  BY <1>3, MailTypes DEF Collected
<1> HIDE DEF q, w, h
<1>5. /\ Ordered(u, w) /\ \A m \in Range(h) : \A i \in 1..Len(w) : InTurn(u, m, w[i])
      /\ Range(w) \subseteq Range(h \o w)
      /\ Range(h \o w) = Range(h) \cup Range(w)
  BY <1>1, <1>3, OrderedParts
<1>6. \A i \in 1..Len(q) : w[i] \in Range(w)
  BY <1>1 DEF Range
<1>7. \A i \in 1..Len(q) : \A j \in 1..(i-1) : InTurn(u, w[j], w[i]) /\ w[j] = q[j].n
  BY <1>1, <1>5 DEF Ordered
<1>8. NewFrames(q)
  BY <1>1, <1>2, <1>4, <1>5, <1>6, <1>7 DEF NewFrames, h
<1>9. \A m \in Range(w) : \E i \in 1..Len(w) : m = w[i]
  BY <1>1 DEF Range
<1>10. \A i \in 1..Len(w) : w[i] \in Nat /\ ~InTurn(u, w[i], w[i])
  <2>1. since[u] \in Nat
    BY MailTypes
  <2> QED BY <1>1, <2>1 DEF InTurn
<1>11. Range(handed'[u]) \ Range(h) = Range(w)
  BY <1>4, <1>5, <1>9, <1>10
<1>12. MessagesIn(q, u) = Range(w)
  <2>1. MessagesIn(q, u) = {q[i].n : i \in 1..Len(q)}
    <3>1. {j \in 1..Len(q) : q[j].to = u /\ q[j].n > 0} = 1..Len(q)
      BY <1>2
    <3> QED BY <3>1 DEF MessagesIn
  <2>2. \A i \in 1..Len(q) : q[i].n \in Range(w)
    BY <1>1, <1>6
  <2>3. \A m \in Range(w) : \E i \in 1..Len(q) : m = q[i].n
    BY <1>1, <1>9
  <2> QED BY <2>1, <2>2, <2>3
<1>13. \A v \in UserID : v # u => MessagesIn(q, v) = {}
  BY <1>2 DEF MessagesIn
<1> QED BY <1>4, <1>8, <1>11, <1>12, <1>13 DEF q, h

-----------------------------------------------------------------------------
(* The registry and the queues, method by method.                           *)

(* No method of the registry touches a queue but by destroying its session. *)
LEMMA ReplaceEntryQueues ==
  ASSUME NEW c \in CoreState, NEW u \in UserID, NEW new \in Session \cup {NoSession}
  PROVE  LET e == ReplaceEntry(c, u, new) IN
         /\ e \in CoreState
         /\ e.clients = [c.clients EXCEPT ![u] = new]
         /\ \A t \in Session : e.session[t] = c.session[t] \/ e.session[t] = Blank
<1> DEFINE old == c.clients[u]
           d == [c EXCEPT !.clients[u] = new]
           e == ReplaceEntry(c, u, new)
           Good(x) ==
             /\ x \in CoreState /\ x.clients = [c.clients EXCEPT ![u] = new]
             /\ \A t \in Session : x.session[t] = c.session[t] \/ x.session[t] = Blank
<1>1. /\ d \in CoreState /\ d.clients = [c.clients EXCEPT ![u] = new]
      /\ d.session = c.session /\ old \in Session \cup {NoSession}
  BY DEF CoreState
<1>2. e = d \/ e = [d EXCEPT !.hung = TRUE] \/ (old # NoSession /\ e = [d EXCEPT !.session[old] = Blank])
  BY DEF ReplaceEntry
<1> HIDE DEF d, e, old
<1>3. ASSUME e = d PROVE Good(e)
  BY <1>1, <1>3
<1>4. ASSUME e = [d EXCEPT !.hung = TRUE] PROVE Good(e)
  BY <1>1, <1>4 DEF CoreState
<1>5. ASSUME old # NoSession, e = [d EXCEPT !.session[old] = Blank] PROVE Good(e)
  <2>1. e = [d EXCEPT !.session = [d.session EXCEPT ![old] = Blank]]
    BY <1>1, <1>5 DEF CoreState
  <2>2. [d.session EXCEPT ![old] = Blank] \in [Session -> SessionState]
    BY <1>1, BlankType DEF CoreState
  <2> DEFINE b == [d.session EXCEPT ![old] = Blank]
  <2>3. \A t \in Session : b[t] = c.session[t] \/ b[t] = Blank
    BY <1>1 DEF CoreState
  <2> HIDE DEF b
  <2>4. e \in CoreState /\ e.clients = d.clients /\ e.session = b
    BY <1>1, <2>1, <2>2 DEF CoreState, b
  <2> QED BY <1>1, <2>3, <2>4
<1> QED BY <1>2, <1>3, <1>4, <1>5 DEF e

LEMMA UnregisterQueues ==
  ASSUME NEW c \in CoreState, NEW u \in UserID
  PROVE  LET e == unregisterClient(c, u) IN
         /\ e \in CoreState
         /\ e.clients = [c.clients EXCEPT ![u] = NoSession]
         /\ \A t \in Session : e.session[t] = c.session[t] \/ e.session[t] = Blank
<1> DEFINE new == NoSession
<1>1. new \in Session \cup {NoSession}
  OBVIOUS
<1> HIDE DEF new
<1>2. LET e == ReplaceEntry(c, u, new) IN
      /\ e \in CoreState
      /\ e.clients = [c.clients EXCEPT ![u] = new]
      /\ \A t \in Session : e.session[t] = c.session[t] \/ e.session[t] = Blank
  BY <1>1, ReplaceEntryQueues
<1> QED BY <1>2 DEF unregisterClient, new

\* One user at most loses its entry.
Leaves(c, e) ==
  e.clients = c.clients \/ \E u \in UserID : e.clients = [c.clients EXCEPT ![u] = NoSession]

LEMMA ReleaseSessionQueues ==
  ASSUME NEW c \in CoreState, NEW s \in Session, SignedIn(c, UserID)
  PROVE  LET e == ReleaseSession(c, s) IN
         /\ e \in CoreState /\ Leaves(c, e)
         /\ \A t \in Session : e.session[t] = c.session[t] \/ e.session[t] = Blank
<1> DEFINE u == c.session[s].userID
           d == [c EXCEPT !.session[s] = Blank]
           e == ReleaseSession(c, s)
           Good(x) ==
             /\ x \in CoreState /\ Leaves(c, x)
             /\ \A t \in Session : x.session[t] = c.session[t] \/ x.session[t] = Blank
<1>1. /\ d \in CoreState /\ d.clients = c.clients
      /\ \A t \in Session : d.session[t] = c.session[t] \/ d.session[t] = Blank
  BY BlankType DEF CoreState
<1>2. e = c \/ e = d \/ (c.session[s].authenticated /\ e = unregisterClient(d, u))
  BY DEF ReleaseSession
<1>3. c.session[s].authenticated => u \in UserID
  BY DEF SignedIn
<1> HIDE DEF d, e, u
<1>4. ASSUME e = c \/ e = d PROVE Good(e)
  BY <1>1, <1>4 DEF Leaves
<1>5. ASSUME c.session[s].authenticated, e = unregisterClient(d, u) PROVE Good(e)
  <2>1. u \in UserID /\ d \in CoreState
    BY <1>1, <1>3, <1>5
  <2>2. /\ e \in CoreState /\ e.clients = [d.clients EXCEPT ![u] = NoSession]
        /\ \A t \in Session : e.session[t] = d.session[t] \/ e.session[t] = Blank
    BY <1>5, <2>1, UnregisterQueues
  <2> QED BY <1>1, <2>1, <2>2 DEF Leaves
<1> QED BY <1>2, <1>4, <1>5 DEF e

\* The queues are those of core c, and sessions other than s are as there.
EndsIn(c, s) ==
  /\ clients' = c.clients /\ hung' = c.hung
  /\ \A t \in Session : /\ session'[t].writeQueue = c.session[t].writeQueue
                        /\ session'[t].written = c.session[t].written
                        /\ t # s => session'[t] = c.session[t]

(* A handler that finishes with core c leaves the queues as they are there. *)
LEMMA FinishQueues ==
  ASSUME NEW c \in CoreState, NEW s \in Session, Finish(c, s)
  PROVE  EndsIn(c, s)
<1> USE DEF EndsIn
<1>1. CASE c.hung
  BY <1>1 DEF Finish, CoreBecomes
<1>2. CASE ~c.hung
  <2> DEFINE ss == c.session[s]
             tt == NextRead(ss)
  <2>1. session' = [c.session EXCEPT ![s] = tt] /\ clients' = c.clients /\ hung' = c.hung
    BY <1>2 DEF Finish, CoreBecomes, CoreState
  <2>2. tt.writeQueue = ss.writeQueue /\ tt.written = ss.written
    BY DEF NextRead, CoreState, SessionState
  <2> HIDE DEF tt
  <2> QED BY <2>1, <2>2 DEF CoreState
<1> QED BY <1>1, <1>2

(* The registry and the sessions as one value. *)
LEMMA CoreNow ==
  ASSUME ServerInv
  PROVE  /\ Core \in CoreState /\ Core.clients = clients /\ Core.session = session
         /\ Core.hung = hung
         /\ session \in [Session -> SessionState] /\ clients \in [UserID -> Session \cup {NoSession}]
         /\ CoreInv(Core, Accounts) /\ SignedIn(Core, UserID)
  BY AccountsAreUsers DEF ServerInv, CoreInv, GoodCore, CoreState, Core, SignedIn

\* What handlers of one connection do to the sessions: frames fs join the
\* queue of s, other sessions keep theirs or are destroyed.
Sends(s, fs) ==
  \A t \in Session :
    IF t = s THEN Joined(session[s], session'[s], fs)
    ELSE Joined(session[t], session'[t], <<>>) \/ session'[t] = Blank

LEMMA FinishSends ==
  ASSUME ServerInv, NEW c \in CoreState, NEW s \in Session, Finish(c, s), NEW fs,
         Joined(session[s], c.session[s], fs),
         \A t \in Session : t # s => c.session[t] = session[t] \/ c.session[t] = Blank
  PROVE  Sends(s, fs)
<1>1. EndsIn(c, s)
  BY FinishQueues
<1>2. Joined(session[s], session'[s], fs)
  BY <1>1 DEF EndsIn, Joined
<1>3. ASSUME NEW t \in Session, t # s, c.session[t] # Blank
      PROVE  Joined(session[t], session'[t], <<>>)
  <2>1. session'[t] = session[t] /\ session[t] \in SessionState
    BY <1>1, <1>3, CoreNow DEF EndsIn
  <2> QED BY <2>1, NothingJoins
<1> QED BY <1>1, <1>2, <1>3 DEF Sends, EndsIn

LEMMA SendsEffect ==
  ASSUME NEW s \in Session, NEW fs, NewFrames(fs), Delivers(s, fs), Sends(s, fs),
         \A u \in UserID : clients'[u] # s => handed'[u] = handed[u]
  PROVE  \A t \in Session : Effect(t)
<1>1. ASSUME NEW t \in Session, t # s PROVE NewFrames(<<>>) /\ Delivers(t, <<>>)
  BY <1>1, NothingDelivers
<1> QED BY <1>1 DEF Sends, Effect, Queues, Renewed

(* One session changes. *)
LEMMA UpdateQueues ==
  ASSUME ServerInv, NEW s \in Session, NEW tt \in SessionState
  PROVE  LET d == SetSession(Core, s, tt) IN
         /\ d \in CoreState /\ d.clients = clients /\ d.hung = hung /\ d.session[s] = tt
         /\ \A t \in Session : t # s => d.session[t] = session[t]
<1>1. Core \in CoreState /\ Core.clients = clients /\ Core.hung = hung /\ Core.session = session
  BY CoreNow
<1> HIDE DEF Core
<1> QED BY <1>1, SetSessionFields

(* An answer joins the queue of the session that asked.                     *)
LEMMA AnswerSends ==
  ASSUME ServerInv, NEW s \in Session, Finish(Answered(s, Reply), s), handed' = handed
  PROVE  clients' = clients /\ \A t \in Session : Effect(t)
<1> DEFINE fs == <<Reply>>
           tt == sendAll(session[s], fs)
           c == Answered(s, Reply)
<1>1. Reply \in Frame /\ Reply.n = 0 /\ fs \in Seq(Frame)
  BY DEF Reply, Frame, MessageType
<1>2. NewFrames(fs) /\ Delivers(s, fs)
  BY <1>1, AnswerIsNew, AnswerDelivers
<1>3. session[s] \in SessionState /\ Core \in CoreState
  BY CoreNow
<1>4. c = SetSession(Core, s, tt)
  BY CoreNow DEF Answered, sendMessage, SetSession, CoreState
<1> HIDE DEF fs
<1>5. Joined(session[s], tt, fs) /\ tt \in SessionState
  BY <1>1, <1>3, SendAllJoins
<1> HIDE DEF tt
<1>6. /\ c \in CoreState /\ c.clients = clients /\ c.session[s] = tt
      /\ \A t \in Session : t # s => c.session[t] = session[t]
  BY <1>4, <1>5, UpdateQueues
<1>7. Finish(c, s)
  OBVIOUS
<1> HIDE DEF c
<1>8. EndsIn(c, s)
  BY <1>6, <1>7, FinishQueues
<1>9. Sends(s, fs) /\ clients' = clients
  <2>1. \A t \in Session : t # s => Joined(session[t], session'[t], <<>>)
    BY <1>6, <1>8, CoreNow, NothingJoins DEF EndsIn
  <2>2. Joined(session[s], session'[s], fs)
    BY <1>5, <1>6, <1>8 DEF Joined, EndsIn
  <2> QED BY <1>6, <1>8, <2>1, <2>2 DEF Sends, EndsIn
<1> QED BY <1>2, <1>9, SendsEffect

LEMMA QuietEffect ==
  ASSUME ServerInv, NEW c \in CoreState, NEW s \in Session, Finish(c, s), handed' = handed,
         \A t \in Session :
           \/ /\ c.session[t].writeQueue = session[t].writeQueue
              /\ c.session[t].written \in {session[t].written, NoneWritten}
           \/ t # s /\ c.session[t] = Blank
  PROVE  \A t \in Session : Effect(t)
<1>1. NewFrames(<<>>) /\ Delivers(s, <<>>)
  BY NothingDelivers
<1>2. EndsIn(c, s)
  BY FinishQueues
<1>3. Sends(s, <<>>)
  <2> SUFFICES ASSUME NEW t \in Session, c.session[t] # Blank \/ t = s
               PROVE  Joined(session[t], session'[t], <<>>)
    BY <1>2 DEF Sends, EndsIn
  <2>1. /\ session'[t].writeQueue = session[t].writeQueue
        /\ session'[t].written \in {session[t].written, NoneWritten}
    BY <1>2 DEF EndsIn
  <2> QED BY <2>1, CoreNow, NothingJoins
<1> QED BY <1>1, <1>3, SendsEffect


-----------------------------------------------------------------------------
(* The actions.  A step moves the mail and the registry in one of four      *)
(* ways: the mail stays and at most one user leaves; a user with an account *)
(* gets an entry and collects its mail, or had an entry when the handler    *)
(* hung; an account is made; or a message is posted.                        *)
StayOrLeave == MailStays /\ Leaves(Core, Core') /\ Accounts' = Accounts

SignsIn(u, s) ==
  /\ Collected(u) \/ (MailStays /\ u \in Online)
  /\ clients' = [clients EXCEPT ![u] = s]
  /\ Accounts' = Accounts

Enrolled(u, s) ==
  /\ u \notin Accounts
  /\ Accounts' = Accounts \cup {u}
  /\ clients' = [clients EXCEPT ![u] = s]
  /\ since' = [since EXCEPT ![u] = since'[u]]
  /\ UNCHANGED <<offline, handed, audience>>

Routed(X) == Posted(X) /\ clients' = clients /\ ~hung' /\ Accounts' = Accounts

Moves ==
  \/ StayOrLeave
  \/ \E u \in Accounts, s \in Session : SignsIn(u, s)
  \/ \E u \in UserID, s \in Session : Enrolled(u, s)
  \/ \E X \in SUBSET UserID : Routed(X)

LEMMA StaysPut ==
  ASSUME MailStays, clients' = clients, UNCHANGED users
  PROVE  Moves
  BY DEF Moves, StayOrLeave, Leaves, Core, Accounts, Registered

LEMMA AnswerOnlyMoves ==
  ASSUME ServerInv, NEW s \in Session, AnswerOnly(s)
  PROVE  Moves /\ \A t \in Session : Effect(t)
  BY AnswerSends, StaysPut DEF AnswerOnly, MailStays

LEMMA CompletionMoves ==
  ASSUME ServerInv, NEW s \in Session, NEW ss \in SessionState, Completion(s, ss),
         ss.userID = session[s].userID, ss.authenticated = session[s].authenticated
  PROVE  /\ Moves
         /\ session'[s] = ss \/ session'[s] = Blank
         /\ \A t \in Session : t # s => Effect(t)
<1> DEFINE d == SetSession(Core, s, ss)
           e == ReleaseSession(d, s)
<1>1. /\ d \in CoreState /\ d.clients = clients /\ d.session[s] = ss
      /\ \A t \in Session : t # s => d.session[t] = session[t]
  BY UpdateQueues
<1>2. CoreBecomes(e)
  BY CoreNow DEF Completion, SetSession
<1>3. SignedIn(d, UserID)
  BY <1>1, CoreNow DEF SignedIn
<1> HIDE DEF d
<1>4. /\ e \in CoreState /\ Leaves(d, e)
      /\ \A t \in Session : e.session[t] = d.session[t] \/ e.session[t] = Blank
  BY <1>1, <1>3, ReleaseSessionQueues
<1> HIDE DEF e
<1>5. Moves
  <2>1. MailStays /\ UNCHANGED users
    BY DEF Completion, MailStays
  <2>2. Accounts' = Accounts
    BY <2>1 DEF Accounts, Registered
  <2> QED BY <1>1, <1>2, <1>4, <2>1, <2>2 DEF Moves, StayOrLeave, Leaves, Core, CoreBecomes
<1>6. \A t \in Session : NewFrames(<<>>) /\ Delivers(t, <<>>)
  BY NothingDelivers DEF Completion
<1>7. \A t \in Session : t # s => Effect(t)
  BY <1>1, <1>2, <1>4, <1>6, CoreNow, NothingJoins DEF CoreBecomes, Effect, Queues, Renewed
<1> QED BY <1>1, <1>2, <1>4, <1>5, <1>7 DEF CoreBecomes

LEMMA ConnectionMoves ==
  ASSUME ServerInv, NEW s \in Session, Connection(s)
  PROVE  Moves /\ \A t \in Session : Effect(t)
<1> DEFINE ss == session[s]
<1>1. ss \in SessionState /\ GoodSession(ss)
  BY SessionsAreGood
<1>2. handed' = handed /\ \A t \in Session : NewFrames(<<>>) /\ Delivers(t, <<>>)
  <2>1. handed' = handed
    BY DEF Connection, Accept, ReadFails, WriteCompletes, WriteFails, Completion
  <2> QED BY <2>1, NothingDelivers
<1>3. CASE Accept(s)
  <2>1. \A t \in Session : t # s => session'[t] = session[t]
    BY <1>3, CoreNow DEF Accept
  <2>2. \A t \in Session : t # s => Effect(t)
    BY <1>2, <2>1, CoreNow, NothingJoins DEF Effect, Queues
  <2>3. Effect(s)
    BY <1>2, <1>3, CoreNow DEF Accept, Effect, Renewed
  <2> QED BY <1>3, <2>2, <2>3, StaysPut DEF Accept, MailStays
<1>4. CASE ReadFails(s)
  <2> DEFINE tt == ReadFailed(ss)
  <2>1. /\ tt \in SessionState /\ tt.userID = ss.userID
        /\ tt.authenticated = ss.authenticated
        /\ tt.writeQueue = ss.writeQueue /\ tt.written = NoneWritten
    BY <1>1 DEF ReadFailed, stop, NoneWritten, SessionState, Reading
  <2>2. Completion(s, tt)
    BY <1>4 DEF ReadFails
  <2> HIDE DEF tt
  <2>3. /\ Moves /\ (session'[s] = tt \/ session'[s] = Blank)
        /\ \A t \in Session : t # s => Effect(t)
    BY <2>1, <2>2, CompletionMoves
  <2>4. Effect(s)
    BY <1>1, <1>2, <2>1, <2>3, NothingJoins DEF Effect, Queues, Renewed
  <2> QED BY <2>3, <2>4
<1>5. CASE WriteCompletes(s)
  <2> DEFINE tt == WriteCompleted(ss)
             f == Head(ss.writeQueue)
             rr == Record(ss, f)
  <2>1. ss.writing = "pending"
    BY <1>5 DEF WriteCompletes
  <2>2. /\ tt \in SessionState /\ tt.userID = ss.userID
        /\ tt.authenticated = ss.authenticated
    <3> HIDE DEF ss
    <3> QED BY <1>1, <2>1, WriteCompletedGood DEF GoodSession
  <2>3. rr.writeQueue = ss.writeQueue
    BY <1>1 DEF Record, SessionState
  <2>4. tt.writeQueue = Tail(ss.writeQueue) /\ tt.written = rr.written
    <3>1. DOMAIN rr = DOMAIN ss
      BY <1>1 DEF Record, SessionState
    <3> HIDE DEF rr
    <3>2. tt = writeNext([rr EXCEPT !.writeQueue = Tail(@)])
      BY DEF WriteCompleted, rr
    <3>3. "writeQueue" \in DOMAIN rr /\ "writing" \in DOMAIN rr
      BY <1>1, <3>1 DEF SessionState
    <3> QED BY <2>3, <3>2, <3>3 DEF writeNext
  <2>5. Completion(s, tt)
    BY <1>5 DEF WriteCompletes
  <2> HIDE DEF tt
  <2>6. /\ Moves /\ (session'[s] = tt \/ session'[s] = Blank)
        /\ \A t \in Session : t # s => Effect(t)
    BY <2>2, <2>5, CompletionMoves
  <2>7. Effect(s)
    BY <1>2, <2>1, <2>4, <2>6 DEF Effect, Wrote, Renewed
  <2> QED BY <2>6, <2>7
<1>6. CASE WriteFails(s)
  <2> DEFINE tt == WriteFailed(ss)
  <2>1. /\ tt \in SessionState /\ tt.userID = ss.userID
        /\ tt.authenticated = ss.authenticated
        /\ tt.writeQueue = ss.writeQueue /\ tt.written = NoneWritten
    BY <1>1 DEF WriteFailed, stop, NoneWritten, SessionState, Writing
  <2>2. Completion(s, tt)
    BY <1>6 DEF WriteFails
  <2> HIDE DEF tt
  <2>3. /\ Moves /\ (session'[s] = tt \/ session'[s] = Blank)
        /\ \A t \in Session : t # s => Effect(t)
    BY <2>1, <2>2, CompletionMoves
  <2>4. Effect(s)
    BY <1>1, <1>2, <2>1, <2>3, NothingJoins DEF Effect, Queues, Renewed
  <2> QED BY <2>3, <2>4
<1> QED BY <1>3, <1>4, <1>5, <1>6 DEF Connection


(* Signing in gives u an entry and leaves the queues alone. *)
LEMMA SignInQueues ==
  ASSUME ServerInv, ~hung, NEW s \in Session, session[s].reading = "pending", NEW u \in UserID
  PROVE  LET c == SignIn(s, u) IN
         /\ c \in CoreState /\ c.clients = [clients EXCEPT ![u] = s]
         /\ c.session[s].writeQueue = session[s].writeQueue
         /\ c.session[s].written = session[s].written
         /\ \A t \in Session : t # s => c.session[t] = session[t] \/ c.session[t] = Blank
         /\ c.hung => u \in Online
<1> DEFINE tt == [session[s] EXCEPT !.userID = u, !.authenticated = TRUE]
           b == SetSession(Core, s, tt)
           c == SignIn(s, u)
<1>1. /\ tt \in SessionState /\ tt.writeQueue = session[s].writeQueue
      /\ tt.written = session[s].written
  BY CoreNow DEF SessionState
<1>2. c = ReplaceEntry(b, u, s)
  BY CoreNow DEF SignIn, registerClient, SetSession, CoreState
<1> HIDE DEF tt
<1>3. /\ b \in CoreState /\ b.clients = clients /\ b.session[s] = tt
      /\ \A t \in Session : t # s => b.session[t] = session[t]
  BY <1>1, UpdateQueues
<1>4. c.session[s].reading = "pending"
  BY SignInGood DEF ServerInv
<1> HIDE DEF b, c
<1>5. /\ c \in CoreState /\ c.clients = [clients EXCEPT ![u] = s]
      /\ \A t \in Session : c.session[t] = b.session[t] \/ c.session[t] = Blank
  BY <1>2, <1>3, ReplaceEntryQueues
<1>6. c.session[s] = tt
  BY <1>3, <1>4, <1>5 DEF Blank
<1>7. c.hung => u \in Online
  <2>1. b.hung = hung
    BY <1>1, UpdateQueues DEF b
  <2> QED BY <1>2, <1>3, <2>1 DEF ReplaceEntry, Online, CoreState
<1> QED BY <1>1, <1>3, <1>5, <1>6, <1>7 DEF c

LEMMA AcknowledgeQueues ==
  ASSUME NEW c \in CoreState, NEW s \in Session, NEW u \in UserID
  PROVE  LET d == Acknowledge(c, s, u) IN
         /\ d \in CoreState /\ d.clients = c.clients
         /\ Joined(c.session[s], d.session[s], <<AuthSuccess(u)>>)
         /\ \A t \in Session : t # s => d.session[t] = c.session[t]
         /\ AuthSuccess(u) \in Frame /\ AuthSuccess(u).n = 0
<1> DEFINE fs == <<AuthSuccess(u)>>
           tt == sendAll(c.session[s], fs)
           d == Acknowledge(c, s, u)
<1>1. AuthSuccess(u) \in Frame /\ AuthSuccess(u).n = 0 /\ fs \in Seq(Frame)
  BY DEF AuthSuccess, Frame, MessageType
<1>2. d = SetSession(c, s, tt)
  BY DEF Acknowledge, sendMessage, SetSession, CoreState
<1> HIDE DEF fs
<1>3. Joined(c.session[s], tt, fs) /\ tt \in SessionState
  BY <1>1, SendAllJoins DEF CoreState
<1> HIDE DEF tt, d
<1> QED BY <1>1, <1>2, <1>3, SetSessionFields DEF fs, d

LEMMA handleAuthRegisterMoves ==
  ASSUME ServerInv, NEW s \in Session, NEW name \in Username, NEW password \in Password,
         NEW prefix \in HashPrefix, handleAuthRegister(s, name, password, prefix)
  PROVE  Moves /\ \A t \in Session : Effect(t)
<1> DEFINE u == createUserID(name, prefix)
           c == SignIn(s, u)
           d == Acknowledge(c, s, u)
           fs == <<AuthSuccess(u)>>
<1>1. /\ ~hung /\ session[s].reading = "pending"
      /\ Finish(IF c.hung THEN c ELSE d, s)
      /\ registerUser(name, password, prefix)
      /\ since' = [since EXCEPT ![u] = IF offline[u] = <<>> THEN 0 ELSE Len(audience)]
      /\ UNCHANGED <<offline, handed, audience>>
  BY DEF handleAuthRegister, FrameArrived, Arrived
<1>2. u \in UserID /\ u \notin Accounts /\ Accounts' = Accounts \cup {u}
  BY <1>1, RegisterAddsAccount DEF ServerInv
<1> HIDE DEF u
<1>3. /\ c \in CoreState /\ c.clients = [clients EXCEPT ![u] = s]
      /\ c.session[s].writeQueue = session[s].writeQueue
      /\ c.session[s].written = session[s].written
      /\ \A t \in Session : t # s => c.session[t] = session[t] \/ c.session[t] = Blank
  BY <1>1, <1>2, SignInQueues
<1> HIDE DEF c
<1>4. /\ d \in CoreState /\ d.clients = c.clients /\ Joined(c.session[s], d.session[s], fs)
      /\ \A t \in Session : t # s => d.session[t] = c.session[t]
      /\ NewFrames(fs) /\ Delivers(s, fs)
  BY <1>1, <1>2, <1>3, AcknowledgeQueues, AnswerIsNew, AnswerDelivers
<1> HIDE DEF d, fs
<1>5. clients' = c.clients
  BY <1>1, <1>3, <1>4, FinishQueues DEF EndsIn
<1>6. \A t \in Session : Effect(t)
  <2>1. CASE c.hung
    <3>1. Finish(c, s)
      BY <1>1, <2>1
    <3> QED BY <1>1, <1>3, <3>1, QuietEffect
  <2>2. CASE ~c.hung
    <3>1. Finish(d, s)
      BY <1>1, <2>2
    <3>2. Joined(session[s], d.session[s], fs)
      BY <1>3, <1>4 DEF Joined
    <3>3. Sends(s, fs)
      BY <1>3, <1>4, <3>1, <3>2, FinishSends
    <3> QED BY <1>1, <1>4, <3>3, SendsEffect
  <2> QED BY <2>1, <2>2
<1>7. Enrolled(u, s)
  <2>1. since' = [since EXCEPT ![u] = since'[u]]
    BY <1>1, <1>2, MailTypes
  <2> QED BY <1>1, <1>2, <1>3, <1>5, <2>1 DEF Enrolled
<1> QED BY <1>2, <1>6, <1>7 DEF Moves

LEMMA handleAuthLoginMoves ==
  ASSUME ServerInv, OnceInOrder, NEW s \in Session, NEW name \in Username,
         NEW password \in Password, handleAuthLogin(s, name, password)
  PROVE  Moves /\ \A t \in Session : Effect(t)
<1> DEFINE u == users[name].userID
           c == SignIn(s, u)
           d == Acknowledge(c, s, u)
           e == DeliverOffline(d, u)
           fs == <<AuthSuccess(u)>>
           gs == offline[u]
<1>1. /\ ~hung /\ session[s].reading = "pending" /\ name \in Registered
      /\ UNCHANGED <<users, audience, since>>
      /\ IF c.hung THEN CoreBecomes(c) /\ UNCHANGED <<offline, handed>>
         ELSE Finish(e, s) /\ deliverOfflineMessages(d, u)
  BY DEF handleAuthLogin, FrameArrived, Arrived, authenticateUser
<1>2. u \in UserID /\ u \in Accounts /\ Accounts' = Accounts
  <2>1. u \in Accounts /\ Accounts' = Accounts
    BY <1>1 DEF Accounts, Registered
  <2> QED BY <2>1, AccountsAreUsers DEF ServerInv
<1> HIDE DEF u
<1>3. /\ c \in CoreState /\ c.clients = [clients EXCEPT ![u] = s]
      /\ c.session[s].writeQueue = session[s].writeQueue
      /\ c.session[s].written = session[s].written
      /\ \A t \in Session : t # s => c.session[t] = session[t] \/ c.session[t] = Blank
      /\ c.hung => u \in Online
  BY <1>1, <1>2, SignInQueues
<1> HIDE DEF c
<1>4. /\ d \in CoreState /\ d.clients = c.clients /\ Joined(c.session[s], d.session[s], fs)
      /\ \A t \in Session : t # s => d.session[t] = c.session[t]
      /\ AuthSuccess(u) \in Frame /\ AuthSuccess(u).n = 0
  BY <1>2, <1>3, AcknowledgeQueues
<1> HIDE DEF d
<1>5. CASE c.hung
  <2>1. Finish(c, s) /\ MailStays /\ clients' = c.clients
    BY <1>1, <1>5 DEF Finish, CoreBecomes, MailStays
  <2>2. \A t \in Session : Effect(t)
    BY <1>1, <1>3, <1>5, <2>1, QuietEffect
  <2>3. SignsIn(u, s)
    BY <1>2, <1>3, <1>5, <2>1 DEF SignsIn
  <2> QED BY <1>2, <2>2, <2>3 DEF Moves
<1>6. CASE ~c.hung
  <2>1. d.clients[u] = s /\ d.clients[u] # NoSession
    BY <1>2, <1>3, <1>4, CoreNow, NoSessionAssumption
  <2>2. Collected(u)
    BY <1>1, <1>2, <1>6, <2>1, LoginCollects
  <2>3. /\ NewFrames(gs) /\ gs \in Seq(Frame)
        /\ \A v \in UserID : MessagesIn(gs, v) = Range(handed'[v]) \ Range(handed[v])
    BY <1>2, <2>2, StoredIsNew, MailTypes
  <2>4. NewFrames(fs \o gs) /\ fs \in Seq(Frame)
    BY <1>4, <2>3, AnswerAhead
  <2> DEFINE tt == sendAll(d.session[s], gs)
  <2>5. e = SetSession(d, s, tt)
    BY <1>4, <2>1 DEF DeliverOffline, SetSession, CoreState
  <2>6. Joined(d.session[s], tt, gs) /\ tt \in SessionState
    BY <1>4, <2>3, SendAllJoins DEF CoreState
  <2> HIDE DEF tt, e
  <2>7. /\ e \in CoreState /\ e.clients = d.clients /\ e.session[s] = tt
        /\ \A t \in Session : t # s => e.session[t] = d.session[t]
    BY <1>4, <2>5, <2>6, SetSessionFields
  <2>8. Finish(e, s)
    BY <1>1, <1>6
  <2>9. Joined(session[s], e.session[s], fs \o gs)
    <3>1. Joined(session[s], d.session[s], fs)
      BY <1>3, <1>4 DEF Joined
    <3>2. session[s] \in SessionState
      BY CoreNow
    <3> HIDE DEF fs, gs
    <3> QED BY <2>3, <2>4, <2>6, <2>7, <3>1, <3>2, JoinedTwice
  <2> HIDE DEF fs, gs
  <2> DEFINE hs == fs \o gs
  <2>10. Joined(session[s], e.session[s], hs) /\ NewFrames(hs)
    BY <2>4, <2>9
  <2> HIDE DEF hs
  <2>11. Sends(s, hs)
    BY <1>3, <1>4, <2>7, <2>8, <2>10, FinishSends
  <2>12. clients' = c.clients
    BY <1>4, <2>7, <2>8, FinishQueues DEF EndsIn
  <2>13. \A v \in UserID : clients'[v] # s => handed'[v] = handed[v]
    <3>1. \A v \in UserID : v # u => handed'[v] = handed[v]
      BY <2>2, MailTypes DEF Collected
    <3> QED BY <1>2, <1>3, <2>12, <3>1, CoreNow
  <2>14. Delivers(s, hs)
    <3>1. \A v \in UserID : MessagesIn(hs, v) = MessagesIn(gs, v)
      BY <1>4, <2>3, AheadDelivers DEF hs, fs
    <3> QED BY <2>3, <2>13, <3>1 DEF Delivers
  <2>15. \A t \in Session : Effect(t)
    BY <2>10, <2>11, <2>13, <2>14, SendsEffect
  <2>16. SignsIn(u, s)
    BY <1>2, <1>3, <2>2, <2>12 DEF SignsIn
  <2> QED BY <1>2, <2>15, <2>16 DEF Moves
<1> QED BY <1>5, <1>6

LEMMA handleAuthLogoutMoves ==
  ASSUME ServerInv, NEW s \in Session, handleAuthLogout(s)
  PROVE  Moves /\ \A t \in Session : Effect(t)
<1> DEFINE ss == session[s]
           u == ss.userID
           c == IF ss.authenticated THEN unregisterClient(Core, u) ELSE Core
           tt == stop([c.session[s] EXCEPT !.authenticated = FALSE])
           d == IF c.hung THEN c
                ELSE [c EXCEPT !.session[s] = stop([@ EXCEPT !.authenticated = FALSE])]
<1>1. Finish(d, s) /\ MailStays /\ ss.reading = "pending" /\ ~hung /\ UNCHANGED users
  BY DEF handleAuthLogout, Arrived, MailStays
<1>2. ss.authenticated => u \in UserID
  BY CoreNow DEF SignedIn
<1>3. /\ c \in CoreState
      /\ Leaves(Core, c)
      /\ \A t \in Session : c.session[t] = session[t] \/ c.session[t] = Blank
      /\ c.session[s] = ss
  <2>1. CASE ~ss.authenticated
    BY <2>1, CoreNow DEF Leaves
  <2>2. CASE ss.authenticated
    <3>1. c = ReplaceEntry(Core, u, NoSession)
      BY <2>2 DEF unregisterClient
    <3>2. u \in UserID /\ GoodCore(Core) /\ NoLeak(Core, Session) /\ OwnedByOperation(ss)
      BY <1>1, <1>2, <2>2, CoreNow DEF CoreInv, OwnedByOperation
    <3> HIDE DEF c, u, ss
    <3>3. OnlyDestroys(Core, c)
      BY <3>1, <3>2, ReplaceEntryGood
    <3>4. /\ c \in CoreState /\ c.clients = [Core.clients EXCEPT ![u] = NoSession]
          /\ \A t \in Session : c.session[t] = Core.session[t] \/ c.session[t] = Blank
      <4>1. c = unregisterClient(Core, u) /\ Core \in CoreState
        BY <3>1, CoreNow DEF unregisterClient
      <4> QED BY <3>2, <4>1, UnregisterQueues
    <3>5. c.session[s] = ss
      BY <3>2, <3>3, CoreNow DEF OnlyDestroys, ss
    <3> QED BY <3>2, <3>4, <3>5, CoreNow DEF Leaves
  <2> QED BY <2>1, <2>2
<1>4. /\ tt \in SessionState /\ tt.writeQueue = ss.writeQueue /\ tt.written = NoneWritten
  <2> HIDE DEF c
  <2> QED BY <1>3, CoreNow DEF stop, NoneWritten, SessionState
<1> HIDE DEF c
<1>5. d = c \/ d = SetSession(c, s, tt)
  BY <1>3 DEF SetSession, CoreState
<1> HIDE DEF d, tt
<1>6. /\ d \in CoreState /\ d.clients = c.clients
      /\ \A t \in Session : t # s => d.session[t] = c.session[t]
      /\ d.session[s].writeQueue = ss.writeQueue
      /\ d.session[s].written \in {ss.written, NoneWritten}
  BY <1>3, <1>4, <1>5, SetSessionFields
<1>7. \A t \in Session : Effect(t)
  BY <1>1, <1>3, <1>6, QuietEffect DEF MailStays
<1>8. clients' = c.clients
  BY <1>1, <1>6, FinishQueues DEF EndsIn
<1>9. Accounts' = Accounts
  BY <1>1 DEF Accounts, Registered
<1> QED BY <1>1, <1>3, <1>7, <1>8, <1>9 DEF Moves, StayOrLeave, Leaves, Core


(* A message that was posted joins the queue of every session that answers  *)
(* for one of its users.                                                    *)
LEMMA RouteMoves ==
  ASSUME ServerInv, OnceInOrder, ~hung, NEW s \in Session, NEW T \in SUBSET UserID,
         NEW X \in SUBSET UserID, NEW type \in {"MSG_PRIVATE", "MSG_GROUP", "FILE"},
         NEW g \in Group \cup {NoGroup},
         HandedTo(T \cap Online), audience' = Append(audience, X), UNCHANGED <<users, since>>,
         \/ X = T /\ storeOfflineMessage(T \ Online, type)
         \/ X = T \cap Online /\ UNCHANGED offline,
         Finish(SendTo(Core, T \cap Online, type, g), s)
  PROVE  Moves /\ \A t \in Session : Effect(t)
<1> DEFINE V == T \cap Online
           U(t) == {u \in V : clients[u] = t}
           fs(t) == FramesFor(U(t), type, g)
           tt(t) == sendAll(session[t], fs(t))
           c == SendTo(Core, V, type, g)
<1>1. Posted(X)
  BY RoutingPosts
<1>2. ASSUME NEW t \in Session PROVE fs(t) \in Seq(Frame)
  <2>1. U(t) \in SUBSET UserID
    OBVIOUS
  <2>2. type \in MessageType /\ ThisMessage \in Nat \ {0}
    BY MailTypes DEF MessageType
  <2> HIDE DEF U, V
  <2> QED BY <2>1, <2>2, FramesForGood
<1>3. c = [Core EXCEPT !.session = [t \in Session |-> tt(t)]]
  BY CoreNow DEF SendTo
<1> HIDE DEF V, U, fs
<1>4. ASSUME NEW t \in Session
      PROVE  Joined(session[t], tt(t), fs(t)) /\ tt(t) \in SessionState
  BY <1>2, SendAllJoins, CoreNow
<1> HIDE DEF tt
<1>5. /\ c \in CoreState /\ c.clients = clients /\ c.hung = hung
      /\ \A t \in Session : c.session[t] = tt(t)
  <2>1. [t \in Session |-> tt(t)] \in [Session -> SessionState]
    BY <1>4
  <2> QED BY <1>3, <2>1, CoreNow DEF CoreState
<1>6. Finish(c, s)
  BY DEF V
<1> HIDE DEF c
<1>7. EndsIn(c, s)
  BY <1>5, <1>6, FinishQueues
<1>8. \A t \in Session : Joined(session[t], session'[t], fs(t))
  BY <1>4, <1>5, <1>7 DEF Joined, EndsIn
<1>9. clients' = clients /\ ~hung'
  BY <1>5, <1>7 DEF EndsIn
<1>10. ASSUME NEW t \in Session PROVE NewFrames(fs(t)) /\ Delivers(t, fs(t))
  <2>1. U(t) \in SUBSET UserID /\ U(t) = {u \in X \cap Online : clients[u] = t}
    BY DEF U, V
  <2>2. type \in MessageType \ Answers
    BY DEF MessageType, Answers
  <2> QED BY <1>1, <1>9, <2>1, <2>2, PostedIsNew DEF fs
<1>11. Accounts' = Accounts
  BY DEF Accounts, Registered
<1> QED BY <1>1, <1>8, <1>9, <1>10, <1>11 DEF Moves, Routed, Effect, Queues

LEMMA MessageFrameMoves ==
  ASSUME ServerInv, OnceInOrder, NEW s \in Session, MessageFrame(s)
  PROVE  Moves /\ \A t \in Session : Effect(t)
<1> DEFINE Result == Moves /\ \A t \in Session : Effect(t)
<1>1. ASSUME NEW to \in UserID, handlePrivateMessage(s, to) PROVE Result
  <2> DEFINE T == {to}
  <2>1. /\ ~hung /\ T \in SUBSET UserID
        /\ HandedTo(T \cap Online) /\ storeOfflineMessage(T \ Online, "MSG_PRIVATE")
        /\ Finish(SendTo(Core, T \cap Online, "MSG_PRIVATE", NoGroup), s)
        /\ audience' = Append(audience, T) /\ UNCHANGED <<users, since>>
    BY <1>1 DEF handlePrivateMessage, Authenticated, Arrived, RouteChat
  <2> HIDE DEF T
  <2> QED BY <2>1, RouteMoves
<1>2. ASSUME NEW to \in UserID, handlePrivateFile(s, to) PROVE Result
  <2> DEFINE T == {to}
             X == {u \in T : clients[u] # NoSession}
  <2>1. /\ ~hung /\ T \in SUBSET UserID /\ X \in SUBSET UserID /\ X = T \cap Online
        /\ HandedTo(T \cap Online) /\ UNCHANGED offline
        /\ Finish(SendTo(Core, T \cap Online, "FILE", NoGroup), s)
        /\ audience' = Append(audience, X) /\ UNCHANGED <<users, since>>
    BY <1>2 DEF handlePrivateFile, Authenticated, Arrived, RelayFile, Online
  <2> HIDE DEF T, X
  <2> QED BY <2>1, RouteMoves
<1>3. ASSUME NEW g \in Group, handleGroupMessage(s, g) PROVE Result
  <2> DEFINE from == session[s].userID
             T == GroupTargets(from, g)
             X == groups[g].members \ {from}
  <2>1. /\ ~hung /\ session[s].authenticated /\ isMember(g, from)
        /\ HandedTo(T \cap Online) /\ storeOfflineMessage(T \ Online, "MSG_GROUP")
        /\ Finish(SendTo(Core, T \cap Online, "MSG_GROUP", g), s)
        /\ audience' = Append(audience, X) /\ UNCHANGED <<users, since>>
    BY <1>3 DEF handleGroupMessage, Authenticated, Arrived, RouteChat
  <2>2. T \in SUBSET UserID
    BY <2>1, SendersKnown
  <2>3. X = T
    BY <2>1 DEF isMember, getGroupMembers, GroupTargets
  <2> HIDE DEF T, X
  <2> QED BY <2>1, <2>2, <2>3, RouteMoves
<1>4. ASSUME NEW g \in Group, handleGroupFile(s, g) PROVE Result
  <2> DEFINE T == GroupTargets(session[s].userID, g)
             X == {u \in T : clients[u] # NoSession}
  <2>1. /\ ~hung /\ session[s].authenticated
        /\ HandedTo(T \cap Online) /\ UNCHANGED offline
        /\ Finish(SendTo(Core, T \cap Online, "FILE", NoGroup), s)
        /\ audience' = Append(audience, X) /\ UNCHANGED <<users, since>>
    BY <1>4 DEF handleGroupFile, Authenticated, Arrived, RelayFile
  <2>2. T \in SUBSET UserID
    BY <2>1, SendersKnown
  <2>3. X \in SUBSET UserID /\ X = T \cap Online
    BY <2>2 DEF Online
  <2> HIDE DEF T, X
  <2> QED BY <2>1, <2>2, <2>3, RouteMoves
<1>5. ASSUME NEW g \in Group, handleGroupMessageRefused(s, g) PROVE Result
  BY <1>5, AnswerOnlyMoves DEF handleGroupMessageRefused
<1> QED BY <1>1, <1>2, <1>3, <1>4, <1>5 DEF MessageFrame

LEMMA OtherFramesMove ==
  ASSUME ServerInv, NEW s \in Session, GroupFrame(s) \/ OtherFrame(s)
  PROVE  Moves /\ \A t \in Session : Effect(t)
<1>1. CASE UnknownType(s)
  <2>1. Finish(Core, s) /\ MailStays /\ handed' = handed /\ UNCHANGED users
    BY <1>1 DEF UnknownType, MailStays
  <2>2. clients' = clients
    BY <2>1, CoreNow, FinishQueues DEF EndsIn
  <2>3. \A t \in Session : Effect(t)
    BY <2>1, CoreNow, QuietEffect
  <2> QED BY <2>1, <2>2, <2>3, StaysPut
<1>2. CASE GroupAnswer(s)
  BY <1>2, AnswerSends, StaysPut DEF GroupAnswer, MailStays
<1>3. UnknownType(s) \/ GroupAnswer(s) \/ AnswerOnly(s)
  BY DEF GroupFrame, handleGroupCreate, handleGroupJoin, handleGroupLeave,
         handleGroupCreateRefused, handleGroupJoinRefused, handleGroupLeaveRefused,
         OtherFrame, RefuseUnauthenticated, handleUserListRequest, handlePing,
         AnswerInvalidFormat
<1> QED BY <1>1, <1>2, <1>3, AnswerOnlyMoves

LEMMA AccountFrameMoves ==
  ASSUME ServerInv, OnceInOrder, NEW s \in Session, AccountFrame(s)
  PROVE  Moves /\ \A t \in Session : Effect(t)
<1>1. ASSUME NEW name \in Username, NEW password \in Password,
             \/ handleAuthRegisterRefused(s, name, password)
             \/ handleAuthLoginRefused(s, name, password)
      PROVE  Moves /\ \A t \in Session : Effect(t)
  BY <1>1, AnswerOnlyMoves DEF handleAuthRegisterRefused, handleAuthLoginRefused
<1> QED BY <1>1, handleAuthRegisterMoves, handleAuthLoginMoves, handleAuthLogoutMoves
           DEF AccountFrame

(* Every step of the server moves the mail and the queues as described.     *)
LEMMA StepMoves ==
  ASSUME ServerInv, OnceInOrder, Next
  PROVE  Moves /\ \A t \in Session : Effect(t)
  BY ConnectionMoves, AccountFrameMoves, MessageFrameMoves, OtherFramesMove DEF Next

-----------------------------------------------------------------------------
(* The inductive invariant of the messages: with ServerInv, that they reach *)
(* the inboxes once and in order, and that what a session has written or    *)
(* has still queued is part of what its user was handed, in order.          *)

OnWire == \A s \in Session : InOrder(session[s], handed)

MailInv == ServerInv /\ OnceInOrder /\ OnWire

LEMMA MailInitially == Init => MailInv
<1> SUFFICES ASSUME Init PROVE MailInv
  OBVIOUS
<1>1. ServerInv
  BY ServerInitially
<1>2. /\ audience = <<>> /\ \A u \in UserID : handed[u] = <<>> /\ offline[u] = <<>>
      /\ \A s \in Session : session[s] = Blank
  BY DEF Init, RouterInit, CoreInit
<1>3. OnceInOrder
  <2> SUFFICES ASSUME NEW u \in UserID
               PROVE  Ordered(u, Inbox(u)) /\ Range(Inbox(u)) = {n \in DOMAIN audience : u \in audience[n]}
    BY DEF OnceInOrder
  <2>1. Inbox(u) = <<>>
    BY <1>2, NumbersOfNone, EmptySeq, ConcatEmptySeq DEF Inbox, Waiting
  <2>2. Ordered(u, <<>>) /\ Range(<<>>) = {}
    BY DEF Ordered, Range
  <2> QED BY <1>2, <2>1, <2>2
<1>4. OnWire
  BY <1>2 DEF OnWire, InOrder, Blank, NoneWritten
<1> QED BY <1>1, <1>3, <1>4 DEF MailInv

(* A message that is posted joins the inboxes of its users: behind all that *)
(* was handed over, and for who is offline behind all that waits.           *)
LEMMA PostedInbox ==
  ASSUME ServerInv, OnceInOrder, ~hung, NEW X \in SUBSET UserID, Posted(X), NEW u \in UserID
  PROVE  /\ Ordered(u, Inbox(u)')
         /\ Range(Inbox(u)') = IF u \in X THEN Range(Inbox(u)) \cup {ThisMessage} ELSE Range(Inbox(u))
<1> DEFINE n == ThisMessage
           h == handed[u]
           w == Waiting(u)
           q == h \o w
<1>1. /\ n \in Nat /\ h \in Seq(Nat) /\ w \in Seq(Nat) /\ q \in Seq(Nat) /\ Ordered(u, q)
      /\ Inbox(u) = q /\ since[u] \in Nat
  BY MailTypes DEF OnceInOrder, Inbox
<1>2. /\ handed'[u] = IF u \in X \cap Online THEN Append(h, n) ELSE h
      /\ Waiting(u)' = IF u \in X \ Online THEN Append(w, n) ELSE w
      /\ Inbox(u)' = handed'[u] \o Waiting(u)'
  BY DEF Posted, Inbox
<1>3. /\ \A m \in Range(h) : m \in Nat /\ m < n
      /\ \A m \in Range(q) : m \in Nat /\ m < n
  BY <1>1, HandedBefore
<1>4. u \in Online => \A m \in Range(w) : m <= since[u]
  <2> SUFFICES ASSUME u \in Online, NEW i \in 1..Len(w) PROVE w[i] <= since[u]
    <3> HIDE DEF w
    <3>1. DOMAIN w = 1..Len(w)
      BY <1>1
    <3> QED BY <3>1 DEF Range
  <2>1. i \in DOMAIN offline[u] /\ w[i] = offline[u][i].n
    BY MailTypes
  <2> QED BY <2>1 DEF ServerInv, MailWaitsForAbsentOnly
<1>5. since[u] < n
  BY <1>1, MailTypes DEF ServerInv, SinceKnown, ThisMessage
<1> HIDE DEF n, h, w
<1>6. CASE u \in X \cap Online
  <2>1. MayJoin(u, h, n, w)
    BY <1>3, <1>4, <1>5, <1>6 DEF InTurn, MayJoin
  <2>2. Ordered(u, Append(h, n) \o w) /\ Range(Append(h, n) \o w) = Range(q) \cup {n}
    <3>1. Ordered(u, h \o w)
      BY <1>1
    <3> HIDE DEF q
    <3>2. Ordered(u, Append(h, n) \o w) /\ Range(Append(h, n) \o w) = Range(h \o w) \cup {n}
      BY <1>1, <2>1, <3>1, InsertOrdered
    <3> QED BY <3>2 DEF q
  <2> QED BY <1>1, <1>2, <1>6, <2>2 DEF n
<1>7. CASE u \in X \ Online
  <2> DEFINE e == <<>>
  <2>1. e \in Seq(Nat) /\ q \o e = q /\ Append(q, n) \o e = Append(q, n) /\ Range(e) = {}
    <3>1. Append(q, n) \in Seq(Nat)
      BY <1>1
    <3> QED BY <1>1, <3>1, ConcatEmptySeq DEF Range
  <2>2. MayJoin(u, q, n, e)
    BY <1>3, <2>1 DEF InTurn, MayJoin
  <2>3. h \o Append(w, n) = Append(q, n)
    BY <1>1
  <2> HIDE DEF e, q
  <2>4. Ordered(u, Append(q, n) \o e) /\ Range(Append(q, n) \o e) = Range(q \o e) \cup {n}
    <3>1. q \in Seq(Nat) /\ e \in Seq(Nat) /\ n \in Nat /\ Ordered(u, q \o e)
      BY <1>1, <2>1
    <3> QED BY <2>2, <3>1, InsertOrdered
  <2> QED BY <1>1, <1>2, <1>7, <2>1, <2>3, <2>4 DEF n
<1>8. CASE u \notin X
  BY <1>1, <1>2, <1>8
<1> QED BY <1>6, <1>7, <1>8

LEMMA PostKeepsOrder ==
  ASSUME ServerInv, OnceInOrder, ~hung, NEW X \in SUBSET UserID, Posted(X)
  PROVE  OnceInOrder'
<1> DEFINE n == ThisMessage
<1>1. audience \in Seq(SUBSET UserID) /\ n \in Nat \ {0} /\ audience' = Append(audience, X)
      /\ n = Len(audience) + 1
  BY MailTypes DEF Posted, ThisMessage
<1>2. /\ DOMAIN audience' = DOMAIN audience \cup {n} /\ n \notin DOMAIN audience
      /\ audience'[n] = X
      /\ \A m \in DOMAIN audience : audience'[m] = audience[m]
  <2> HIDE DEF n
  <2>1. DOMAIN audience = 1..Len(audience) /\ DOMAIN audience' = 1..(Len(audience) + 1)
    BY <1>1
  <2> QED BY <1>1, <2>1
<1>3. ASSUME NEW u \in UserID
      PROVE  /\ Ordered(u, Inbox(u))'
             /\ Range(Inbox(u)') = {m \in DOMAIN audience' : u \in audience'[m]}
  <2>1. /\ Ordered(u, Inbox(u)')
        /\ Range(Inbox(u)') = IF u \in X THEN Range(Inbox(u)) \cup {n} ELSE Range(Inbox(u))
    BY PostedInbox
  <2>2. Range(Inbox(u)) = {m \in DOMAIN audience : u \in audience[m]}
    BY DEF OnceInOrder
  <2> HIDE DEF n
  <2>3. Range(Inbox(u)') = {m \in DOMAIN audience' : u \in audience'[m]}
    BY <1>2, <2>1, <2>2
  <2>4. Ordered(u, Inbox(u))'
    BY <2>1 DEF Ordered, InTurn, Posted
  <2> QED BY <2>3, <2>4
<1> QED BY <1>3 DEF OnceInOrder

(* No message that may follow another loses its turn: an account is made    *)
(* once, and what was in line before is in the order of routing.            *)
LEMMA TurnsAreKept ==
  ASSUME ServerInv, Moves
  PROVE  TurnsStay
<1>1. ASSUME since' = since PROVE TurnsStay
  BY <1>1 DEF TurnsStay, InTurn
<1>2. ASSUME NEW u \in UserID, NEW s \in Session, Enrolled(u, s) PROVE TurnsStay
  <2>1. since[u] = 0 /\ \A v \in UserID : v # u => since'[v] = since[v]
    BY <1>2, MailTypes DEF ServerInv, SinceKnown, Enrolled
  <2>2. ASSUME NEW v \in UserID, NEW m \in Nat, NEW n \in Nat, n > 0, InTurn(v, m, n)
        PROVE  InTurn(v, m, n)'
    BY <2>1, <2>2 DEF InTurn
  <2> QED BY <2>2 DEF TurnsStay
<1> QED BY <1>1, <1>2 DEF Moves, StayOrLeave, SignsIn, Routed, MailStays, Collected, Posted

(* Where mail does not move, inboxes stay in order.                         *)
LEMMA SameInboxes ==
  ASSUME ServerInv, OnceInOrder, TurnsStay, audience' = audience,
         \A u \in UserID : Inbox(u)' = Inbox(u)
  PROVE  OnceInOrder'
<1> SUFFICES ASSUME NEW u \in UserID, NEW i \in 1..Len(Inbox(u)), NEW j \in 1..Len(Inbox(u)), i < j
             PROVE  InTurn(u, Inbox(u)[i], Inbox(u)[j])'
  BY DEF OnceInOrder, Ordered
<1>1. Inbox(u) \in Seq(Nat) /\ InTurn(u, Inbox(u)[i], Inbox(u)[j])
  BY MailTypes DEF OnceInOrder, Ordered
<1>2. Inbox(u)[i] \in Nat /\ Inbox(u)[j] \in Nat /\ Inbox(u)[j] \in Range(Inbox(u))
  BY <1>1 DEF Range
<1>3. Inbox(u)[j] > 0
  <2>1. Inbox(u)[j] \in DOMAIN audience
    BY <1>2 DEF OnceInOrder
  <2>2. audience \in Seq(SUBSET UserID)
    BY MailTypes
  <2> QED BY <2>1, <2>2
<1> DEFINE a == Inbox(u)[i]
           b == Inbox(u)[j]
<1>4. PICK x, y : x = Inbox(u)[i] /\ y = Inbox(u)[j]
  OBVIOUS
<1>5. InTurn(u, x, y)'
  BY <1>1, <1>2, <1>3, <1>4 DEF TurnsStay
<1>6. x = Inbox(u)'[i] /\ y = Inbox(u)'[j]
  BY <1>4
<1> QED BY <1>5, <1>6 DEF InTurn

(* Collecting moves messages within an inbox.                               *)
LEMMA CollectedInbox ==
  ASSUME ServerInv, NEW u \in UserID, Collected(u)
  PROVE  \A v \in UserID : Inbox(v)' = Inbox(v)
<1> SUFFICES ASSUME NEW v \in UserID PROVE Inbox(v)' = Inbox(v)
  OBVIOUS
<1>1. CASE v = u
  <2>1. handed'[u] = Inbox(u) /\ offline'[u] = <<>> /\ Inbox(u) \in Seq(Nat)
    BY MailTypes DEF Collected
  <2>2. Inbox(u)' = handed'[u] \o Numbers(offline'[u])
    BY DEF Inbox, Waiting
  <2>3. Inbox(u) \o <<>> = Inbox(u)
    BY <2>1, ConcatEmptySeq
  <2> QED BY <1>1, <2>1, <2>2, <2>3, NumbersOfNone
<1>2. CASE v # u
  BY <1>2, MailTypes DEF Collected, Inbox, Waiting
<1> QED BY <1>1, <1>2

(* What was handed over stays handed over.                                  *)
LEMMA HandedOnlyGrows ==
  ASSUME ServerInv, OnceInOrder, Moves
  PROVE  HandedGrows
<1>1. CASE MailStays
  BY <1>1 DEF MailStays, HandedGrows
<1>4. ASSUME NEW u \in UserID, NEW s \in Session, Enrolled(u, s) PROVE HandedGrows
  BY <1>4 DEF Enrolled, HandedGrows
<1>2. ASSUME NEW u \in UserID, Collected(u) PROVE HandedGrows
  <2>1. Range(handed[u]) \subseteq Range(Inbox(u))
    BY MailTypes, OrderedParts DEF OnceInOrder, Inbox
  <2> QED BY <1>2, <2>1, MailTypes DEF HandedGrows, Collected
<1>3. ASSUME NEW X \in SUBSET UserID, Posted(X) PROVE HandedGrows
  <2> SUFFICES ASSUME NEW u \in UserID PROVE Range(handed[u]) \subseteq Range(handed'[u])
    BY DEF HandedGrows
  <2> DEFINE h == handed[u]
             n == ThisMessage
  <2>1. h \in Seq(Nat) /\ n \in Nat /\ handed'[u] \in {h, Append(h, n)}
    BY <1>3, MailTypes DEF Posted
  <2> HIDE DEF h, n
  <2>2. \A i \in DOMAIN h : i \in DOMAIN Append(h, n) /\ Append(h, n)[i] = h[i]
    BY <2>1
  <2>3. Range(h) \subseteq Range(Append(h, n))
    BY <2>2 DEF Range
  <2> QED BY <2>1, <2>3 DEF h
<1>5. Accounts \in SUBSET UserID
  BY AccountsAreUsers DEF ServerInv
<1> QED BY <1>1, <1>2, <1>3, <1>4, <1>5 DEF Moves, StayOrLeave, SignsIn, Routed

(* Every handler begins on a thread that is not stuck.                      *)
LEMMA StepRuns == Next => ~hung
<1>1. ASSUME NEW s \in Session, Connection(s) PROVE ~hung
  BY <1>1 DEF Connection, Accept, ReadFails, WriteCompletes, WriteFails
<1>2. ASSUME NEW s \in Session, AccountFrame(s) PROVE ~hung
  BY <1>2 DEF AccountFrame, handleAuthRegister, handleAuthRegisterRefused,
              handleAuthLogin, handleAuthLoginRefused, handleAuthLogout, Arrived, FrameArrived
<1>3. ASSUME NEW s \in Session, MessageFrame(s) PROVE ~hung
  BY <1>3 DEF MessageFrame, handlePrivateMessage, handlePrivateFile, handleGroupMessage,
              handleGroupMessageRefused, handleGroupFile, FrameArrived, Authenticated, Arrived
<1>4. ASSUME NEW s \in Session, GroupFrame(s) PROVE ~hung
  BY <1>4 DEF GroupFrame, handleGroupCreate, handleGroupJoin, handleGroupJoinRefused,
              handleGroupCreateRefused, handleGroupLeave, handleGroupLeaveRefused,
              FrameArrived, Arrived
<1>5. ASSUME NEW s \in Session, OtherFrame(s) PROVE ~hung
  BY <1>5 DEF OtherFrame, RefuseUnauthenticated, handleUserListRequest, handlePing,
              AnswerInvalidFormat, UnknownType, FrameArrived, Arrived
<1> QED BY <1>1, <1>2, <1>3, <1>4, <1>5 DEF Next

(* What was in order in a session stays in order. *)
LEMMA TurnsKeepSessions ==
  ASSUME TurnsStay, NEW CONSTANT ss \in SessionState, NEW CONSTANT h, InOrder(ss, h)
  PROVE  InOrder(ss, h)'
<1> DEFINE q == ss.writeQueue
<1>1. q \in Seq(Frame) /\ ss.written \in [UserID -> Nat]
  BY DEF SessionState
<1>2. Len(q) \in Nat /\ \A i \in 1..Len(q) : q[i].n \in Nat
  <2> HIDE DEF q
  <2>1. \A i \in 1..Len(q) : q[i] \in Frame
    BY <1>1, ElementOfSeq
  <2> QED BY <1>1, <2>1, LenProperties DEF Frame
<1>3. ASSUME NEW i \in 1..Len(q), q[i].n > 0
      PROVE  /\ InTurn(q[i].to, ss.written[q[i].to], q[i].n)'
             /\ \A j \in 1..(i-1) : q[j].to = q[i].to => InTurn(q[i].to, q[j].n, q[i].n)'
  <2>1. /\ q[i].to \in UserID
        /\ InTurn(q[i].to, ss.written[q[i].to], q[i].n)
        /\ \A j \in 1..(i-1) : q[j].to = q[i].to => InTurn(q[i].to, q[j].n, q[i].n)
    BY <1>3 DEF InOrder
  <2>2. \A j \in 1..(i-1) : q[j].n \in Nat
    BY <1>2
  <2> QED BY <1>1, <1>2, <1>3, <2>1, <2>2 DEF TurnsStay
<1> QED BY <1>3 DEF InOrder

LEMMA MailStep ==
  ASSUME MailInv, Next, ServerInv'
  PROVE  OnceInOrder' /\ OnWire'
<1>1. ServerInv /\ OnceInOrder /\ OnWire
  BY DEF MailInv
<1>2. Moves /\ \A t \in Session : Effect(t)
  BY <1>1, StepMoves
<1>6. TurnsStay /\ ~hung /\ Accounts \in SUBSET UserID
  BY <1>1, <1>2, TurnsAreKept, StepRuns, AccountsAreUsers DEF ServerInv
<1>3. OnceInOrder'
  <2>1. ASSUME UNCHANGED <<offline, handed, audience>> PROVE OnceInOrder'
    <3>1. audience' = audience /\ \A u \in UserID : Inbox(u)' = Inbox(u)
      BY <2>1 DEF Inbox, Waiting
    <3> QED BY <1>1, <1>6, <3>1, SameInboxes
  <2>2. ASSUME NEW u \in UserID, Collected(u) PROVE OnceInOrder'
    <3>1. audience' = audience /\ \A v \in UserID : Inbox(v)' = Inbox(v)
      BY <1>1, <2>2, CollectedInbox DEF Collected
    <3> QED BY <1>1, <1>6, <3>1, SameInboxes
  <2>3. ASSUME NEW X \in SUBSET UserID, Posted(X) PROVE OnceInOrder'
    BY <1>1, <1>6, <2>3, PostKeepsOrder
  <2> QED BY <1>2, <1>6, <2>1, <2>2, <2>3
          DEF Moves, StayOrLeave, SignsIn, Enrolled, Routed, MailStays
<1>4. HandedGrows
  BY <1>1, <1>2, HandedOnlyGrows
<1>5. ASSUME NEW s \in Session PROVE InOrder(session'[s], handed')
  <2>1. session[s] \in SessionState /\ InOrder(session[s], handed) /\ GoodSession(session[s])
    BY <1>1, SessionsAreGood DEF OnWire
  <2>2. CASE Renewed(s)
    <3>1. /\ Blank.writeQueue = <<>> /\ Fresh.writeQueue = <<>>
          /\ Blank.written = NoneWritten /\ Fresh.written = NoneWritten
      BY DEF Blank, Fresh
    <3>2. session'[s].writeQueue = <<>> /\ session'[s].written = NoneWritten
      BY <2>2, <3>1 DEF Renewed
    <3> QED BY <3>2 DEF InOrder, NoneWritten
  <2>3. CASE Wrote(s)
    <3>1. session[s].writeQueue # <<>>
      BY <2>1, <2>3 DEF Wrote, GoodSession, WriterOK
    <3> QED BY <1>1, <1>4, <2>1, <2>3, <3>1, WroteInOrder DEF Wrote
  <2>4. CASE Queues(s)
    BY <1>4, <2>1, <2>4, NewFramesInOrder DEF Queues
  <2> QED BY <1>2, <2>2, <2>3, <2>4 DEF Effect
<1>7. ASSUME NEW s \in Session PROVE InOrder(session[s], handed)'
  <2>1. PICK ss, h : ss = session'[s] /\ h = handed'
    OBVIOUS
  <2>2. ss \in SessionState /\ InOrder(ss, h)
    BY <1>5, <2>1 DEF ServerInv, CoreInv, GoodCore, Core, GoodSession
  <2>3. InOrder(ss, h)'
    BY <1>6, <2>2, TurnsKeepSessions
  <2> QED BY <2>1, <2>3 DEF InOrder, InTurn
<1> QED BY <1>3, <1>7 DEF OnWire

LEMMA MailInvariant == Spec => []MailInv
<1>1. ServerInv /\ MailInv /\ [Next]_vars /\ ServerInv' => MailInv'
  <2>1. ASSUME MailInv, Next, ServerInv' PROVE MailInv'
    BY <2>1, MailStep DEF MailInv
  <2>2. ASSUME MailInv, UNCHANGED vars, ServerInv' PROVE MailInv'
    <3>1. OnceInOrder'
      BY <2>2 DEF MailInv, vars, OnceInOrder, Ordered, InTurn, Inbox, Waiting
    <3>2. session' = session /\ handed' = handed /\ since' = since
      BY <2>2 DEF vars
    <3>3. OnWire'
      BY <2>2, <3>2 DEF MailInv, OnWire, InOrder, InTurn
    <3> QED BY <2>2, <3>1, <3>3 DEF MailInv
  <2> QED BY <2>1, <2>2
<1> QED BY <1>1, MailInitially, ServerInvariant, PTL DEF Spec

-----------------------------------------------------------------------------
(* Being handed to a session, stored, handed over at a login, or a change   *)
(* of session in between neither drops, repeats, reorders nor misdirects a  *)
(* routed message: every inbox holds just what was meant for it, in order.  *)
THEOREM EveryInboxOnceInOrder == Spec => []OnceInOrder
<1>1. MailInv => OnceInOrder
  BY DEF MailInv
<1> QED BY <1>1, MailInvariant, PTL

(* On one connection the messages for a user go out in the order they were  *)
(* routed, across the login that hands over the stored ones and whatever    *)
(* other users the connection signed in as.                                 *)
THEOREM WrittenInOrder == Spec => []WireOrder
<1>1. MailInv => WireOrder
  BY DEF MailInv, OnWire, InOrder, WireOrder
<1> QED BY <1>1, MailInvariant, PTL

(* The buffer given to async_write stays where it is until the write ends:  *)
(* no handler takes the head off the queue while a write is under way, and  *)
(* none puts a frame ahead of it.                                           *)
THEOREM BufferStaysPut == Spec => BufferStable
<1> DEFINE Stable(s) ==
             LET q == session[s].writeQueue
                 r == session'[s].writeQueue
             IN  session[s].writing \in {"pending", "failing"} /\ session'[s] # Blank =>
                   \/ IsPrefix(q, r)
                   \/ r = Tail(q) /\ session'[s].written # session[s].written
                   \/ r = Tail(q) /\ Head(q).n = 0
<1>1. ASSUME NEW q \in Seq(Frame), NEW p \in Seq(Frame) PROVE IsPrefix(q, q \o p)
  BY DEF IsPrefix
<1>2. ASSUME MailInv, Next, NEW s \in Session PROVE Stable(s)
  <2>1. ServerInv /\ session[s] \in SessionState /\ InOrder(session[s], handed)
        /\ GoodSession(session[s])
    BY <1>2, SessionsAreGood DEF MailInv, OnWire
  <2>2. Moves /\ Effect(s)
    BY <1>2, StepMoves DEF MailInv
  <2>3. HandedGrows
    BY <1>2, <2>2, HandedOnlyGrows DEF MailInv
  <2>4. CASE Renewed(s)
    BY <2>4 DEF Renewed, Blank
  <2>5. CASE Wrote(s)
    <3>1. session[s].writeQueue # <<>>
      BY <2>1, <2>5 DEF Wrote, GoodSession, WriterOK
    <3>2. \/ Head(session[s].writeQueue).n = 0
          \/ session'[s].written # session[s].written
      BY <2>1, <2>3, <2>5, <3>1, WroteInOrder DEF Wrote
    <3> QED BY <2>5, <3>2 DEF Wrote
  <2>6. CASE Queues(s)
    <3>1. PICK fs : NewFrames(fs) /\ Joined(session[s], session'[s], fs)
      BY <2>6 DEF Queues
    <3> QED BY <1>1, <2>1, <3>1 DEF NewFrames, Joined, SessionState
  <2> QED BY <2>2, <2>4, <2>5, <2>6 DEF Effect
<1>3. ASSUME MailInv, UNCHANGED vars, NEW s \in Session PROVE Stable(s)
  <2>1. session' = session /\ session[s].writeQueue \in Seq(Frame)
    BY <1>3, SessionsAreGood DEF MailInv, vars, SessionState
  <2> QED BY <2>1 DEF IsPrefix
<1>4. MailInv /\ [Next]_vars => [\A s \in Session : Stable(s)]_vars
  BY <1>2, <1>3
<1> QED BY <1>4, MailInvariant, PTL DEF Spec, BufferStable

-----------------------------------------------------------------------------
(* The server implements Mailbox. *)

\* The state of the Mailbox that the server implements.
Boxes == <<Len(audience), [u \in UserID |-> Waiting(u)], handed, Online, Accounts>>

(* Whoever loses the entry in clients_ leaves; the mail stays where it is.  *)
LEMMA LeavingLeaves ==
  ASSUME ServerInv, StayOrLeave
  PROVE  UNCHANGED Boxes \/ \E u \in UserID : MB!Leave(u)
<1>1. MailStays /\ Accounts' = Accounts /\ Leaves(Core, Core')
  BY DEF StayOrLeave
<1>2. [u \in UserID |-> Waiting(u)]' = [u \in UserID |-> Waiting(u)]
  BY <1>1 DEF MailStays, Waiting
<1>3. CASE clients' = clients
  BY <1>1, <1>2, <1>3 DEF MailStays, Boxes, Online
<1>4. ASSUME NEW u \in UserID, clients' = [clients EXCEPT ![u] = NoSession]
      PROVE  MB!Leave(u)
  <2>1. Online' = Online \ {u}
    BY <1>4, CoreNow DEF Online
  <2> QED BY <1>1, <1>2, <2>1 DEF MailStays, MB!Leave
<1> QED BY <1>1, <1>3, <1>4 DEF Leaves, Core

(* Whoever logs in arrives and collects what was stored.                    *)
LEMMA SigningInArrives ==
  ASSUME ServerInv, NEW u \in Accounts, NEW s \in Session, SignsIn(u, s)
  PROVE  UNCHANGED Boxes \/ MB!Arrive(u)
<1>1. u \in UserID
  BY AccountsAreUsers DEF ServerInv
<1>2. Online' = Online \cup {u} /\ Accounts' = Accounts
  BY <1>1, CoreNow, NoSessionAssumption DEF Online, SignsIn
<1>3. CASE Collected(u)
  <2>1. /\ handed' = [handed EXCEPT ![u] = handed[u] \o Waiting(u)]
        /\ offline' = [offline EXCEPT ![u] = <<>>] /\ UNCHANGED audience
    BY <1>3 DEF Collected, Inbox
  <2>2. [v \in UserID |-> Waiting(v)]' = [[v \in UserID |-> Waiting(v)] EXCEPT ![u] = <<>>]
    BY <1>1, <2>1, MailTypes, NumbersOfNone DEF Waiting
  <2> QED BY <1>1, <1>2, <2>1, <2>2 DEF MB!Arrive
<1>4. CASE MailStays /\ u \in Online
  BY <1>2, <1>4 DEF MailStays, Boxes, Waiting
<1> QED BY <1>3, <1>4 DEF SignsIn

(* Whoever registers enrolls; what was stored for the name before stays.    *)
LEMMA RegisteringEnrolls ==
  ASSUME ServerInv, NEW u \in UserID, NEW s \in Session, Enrolled(u, s)
  PROVE  MB!Enroll(u)
<1>1. Online' = Online \cup {u}
  BY CoreNow, NoSessionAssumption DEF Online, Enrolled
<1>2. [v \in UserID |-> Waiting(v)]' = [v \in UserID |-> Waiting(v)]
  BY DEF Enrolled, Waiting
<1> QED BY <1>1, <1>2 DEF Enrolled, MB!Enroll

(* Routing a message posts it, and those who are present collect it.        *)
LEMMA RoutingIsPost ==
  ASSUME ServerInv, NEW X \in SUBSET UserID, Routed(X)
  PROVE  MB!Post(X)
<1>1. Posted(X) /\ Online' = Online /\ Accounts' = Accounts
  BY DEF Routed, Online
<1>2. Len(audience') = Len(audience) + 1 /\ ThisMessage = Len(audience) + 1
  BY <1>1, MailTypes DEF Posted, ThisMessage
<1>3. [u \in UserID |-> Waiting(u)]' = MB!Put([u \in UserID |-> Waiting(u)], X \ Online)
  BY <1>1, <1>2 DEF Posted, MB!Put
<1>4. handed' = MB!Put(handed, X \cap Online)
  BY <1>1, <1>2 DEF Posted, MB!Put
<1> QED BY <1>1, <1>2, <1>3, <1>4 DEF MB!Post

(* The server implements Mailbox: whatever its clients do, and in whatever  *)
(* order their connections come, send and go, to the users it is a row of   *)
(* mailboxes from which nothing is lost, taken twice or taken out of turn.  *)
THEOREM ServerImplementsMailbox == Spec => ImplementsMailbox
<1>1. Init => MB!Init
  <2> SUFFICES ASSUME Init PROVE MB!Init
    OBVIOUS
  <2>1. audience = <<>> /\ \A u \in UserID : handed[u] = <<>> /\ Waiting(u) = <<>>
    BY NumbersOfNone DEF Init, RouterInit, Waiting
  <2>2. handed = [u \in UserID |-> <<>>] /\ Online = {} /\ Accounts = {}
    BY DEF Init, RouterInit, CoreInit, AuthInit, Online, Accounts, Registered
  <2> QED BY <2>1, <2>2 DEF MB!Init
<1>2. MailInv /\ [Next]_vars => [MB!Next]_Boxes
  <2>1. ASSUME MailInv, Next PROVE MB!Next \/ UNCHANGED Boxes
    <3>1. ServerInv /\ Moves /\ Accounts \in SUBSET UserID
      BY <2>1, StepMoves, AccountsAreUsers DEF MailInv, ServerInv
    <3>2. CASE StayOrLeave
      BY <3>1, <3>2, LeavingLeaves DEF MB!Next
    <3>3. ASSUME NEW u \in Accounts, NEW s \in Session, SignsIn(u, s)
          PROVE  MB!Next \/ UNCHANGED Boxes
      BY <3>1, <3>3, SigningInArrives DEF MB!Next
    <3>4. ASSUME NEW u \in UserID, NEW s \in Session, Enrolled(u, s) PROVE MB!Next
      BY <3>1, <3>4, RegisteringEnrolls DEF MB!Next
    <3>5. ASSUME NEW X \in SUBSET UserID, Routed(X) PROVE MB!Next
      BY <3>1, <3>5, RoutingIsPost DEF MB!Next
    <3> QED BY <3>1, <3>2, <3>3, <3>4, <3>5 DEF Moves
  <2>2. ASSUME UNCHANGED vars PROVE UNCHANGED Boxes
    BY <2>2 DEF vars, Boxes, Waiting, Online, Accounts, Registered
  <2> QED BY <2>1, <2>2
<1> QED BY <1>1, <1>2, MailInvariant, PTL DEF Spec, ImplementsMailbox, MB!Spec, Boxes

-----------------------------------------------------------------------------
(* What is handed over is what joins the queues. *)

\* The messages for u that join the queue of s in a step.
JoinedFor(s, u) ==
  LET q == session[s].writeQueue
      r == session'[s].writeQueue
  IN  {r[i].n : i \in {j \in (Len(q)+1)..Len(r) : r[j].to = u /\ r[j].n > 0}}

LEMMA JoinedAreDelivered ==
  ASSUME ServerInv, ServerInv', NEW s \in Session, Effect(s), NEW u \in UserID,
         clients'[u] = NoSession => handed'[u] = handed[u]
  PROVE  JoinedFor(s, u) = IF clients'[u] = s THEN Range(handed'[u]) \ Range(handed[u]) ELSE {}
<1> DEFINE q == session[s].writeQueue
           r == session'[s].writeQueue
           G == {j \in (Len(q)+1)..Len(r) : r[j].to = u /\ r[j].n > 0}
<1>1. q \in Seq(Frame) /\ GoodSession(session[s])
  BY SessionsAreGood DEF SessionState
<1>2. JoinedFor(s, u) = {r[i].n : i \in G}
  BY DEF JoinedFor
<1> HIDE DEF q, r
<1>3. ASSUME Len(r) \in Nat, Len(r) <= Len(q) PROVE JoinedFor(s, u) = {}
  <2>1. G = {}
    BY <1>1, <1>3
  <2> QED BY <1>2, <2>1
<1>4. CASE Renewed(s)
  <2>1. r = <<>>
    <3>1. Blank.writeQueue = <<>> /\ Fresh.writeQueue = <<>>
      BY DEF Blank, Fresh
    <3> QED BY <1>4, <3>1 DEF Renewed, r
  <2>2. JoinedFor(s, u) = {}
    BY <1>1, <1>3, <2>1
  <2>3. CASE session'[s] = Blank
    <3>1. clients'[u] # s
      <4>1. clients'[u] # NoSession => session'[clients'[u]].userID # NoUser
        BY DEF ServerInv, CoreInv, GoodCore, Core
      <4>2. Blank.userID = NoUser
        BY DEF Blank
      <4> QED BY <2>3, <4>1, <4>2, NoSessionAssumption
    <3> QED BY <2>2, <3>1
  <2>4. CASE handed' = handed
    BY <2>2, <2>4
  <2> QED BY <1>4, <2>3, <2>4 DEF Renewed
<1>5. CASE Wrote(s)
  <2>1. q # <<>> /\ r = Tail(q) /\ handed' = handed
    BY <1>1, <1>5 DEF Wrote, GoodSession, WriterOK, q, r
  <2>2. Len(r) \in Nat /\ Len(r) <= Len(q)
    BY <1>1, <2>1
  <2> QED BY <1>3, <2>1, <2>2
<1>6. CASE Queues(s)
  <2>1. PICK fs : NewFrames(fs) /\ Delivers(s, fs) /\ Joined(session[s], session'[s], fs)
    BY <1>6 DEF Queues
  <2> DEFINE F == {j \in 1..Len(fs) : fs[j].to = u /\ fs[j].n > 0}
  <2>2. fs \in Seq(Frame) /\ r = q \o fs
    BY <2>1 DEF NewFrames, Joined, q, r
  <2>3. /\ Len(q) \in Nat /\ Len(fs) \in Nat /\ Len(r) = Len(q) + Len(fs)
        /\ \A i \in (Len(q)+1)..Len(r) : i - Len(q) \in 1..Len(fs) /\ r[i] = fs[i - Len(q)]
        /\ \A i \in 1..Len(fs) : i + Len(q) \in (Len(q)+1)..Len(r) /\ r[i + Len(q)] = fs[i]
    BY <1>1, <2>2
  <2>4. \A i \in G : i - Len(q) \in F /\ r[i] = fs[i - Len(q)]
    BY <2>3
  <2>5. \A i \in F : i + Len(q) \in G /\ r[i + Len(q)] = fs[i]
    BY <2>3
  <2>6. {r[i].n : i \in G} = {fs[i].n : i \in F}
    <3> HIDE DEF F, G
    <3> QED BY <2>4, <2>5
  <2>7. MessagesIn(fs, u) = {fs[i].n : i \in F}
    BY DEF MessagesIn
  <2> QED BY <1>2, <2>1, <2>6, <2>7 DEF Delivers
<1> QED BY <1>4, <1>5, <1>6 DEF Effect

(* A message counts as handed over when it has joined the queue of the      *)
(* session that is registered for its user, and no other queue gets it: the *)
(* store is not emptied for more or less than the loop sends, and nobody is *)
(* chosen whom the next loop passes over.                                   *)
THEOREM HandedOverIsQueued == Spec => HandedIsQueued
<1> DEFINE Queued(u) ==
             /\ clients'[u] = NoSession => handed'[u] = handed[u]
             /\ \A s \in Session :
                  JoinedFor(s, u) = IF clients'[u] = s THEN Range(handed'[u]) \ Range(handed[u])
                                    ELSE {}
<1>1. ASSUME MailInv, ServerInv', Next, NEW u \in UserID PROVE Queued(u)
  <2>1. ServerInv /\ Moves /\ \A s \in Session : Effect(s)
    BY <1>1, StepMoves DEF MailInv
  <2>2. clients'[u] = NoSession => handed'[u] = handed[u]
    <3> SUFFICES ASSUME clients'[u] = NoSession PROVE handed'[u] = handed[u]
      OBVIOUS
    <3>1. ASSUME NEW v \in Accounts, NEW s \in Session, SignsIn(v, s) PROVE handed'[u] = handed[u]
      <4>1. v # u
        BY <2>1, <3>1, CoreNow, NoSessionAssumption DEF SignsIn
      <4> QED BY <2>1, <3>1, <4>1, MailTypes DEF SignsIn, Collected, MailStays
    <3>2. ASSUME NEW X \in SUBSET UserID, Routed(X) PROVE handed'[u] = handed[u]
      BY <3>2 DEF Routed, Posted, Online
    <3> QED BY <2>1, <3>1, <3>2 DEF Moves, StayOrLeave, MailStays, Enrolled
  <2>3. \A s \in Session :
          JoinedFor(s, u) = IF clients'[u] = s THEN Range(handed'[u]) \ Range(handed[u]) ELSE {}
    BY <1>1, <2>1, <2>2, JoinedAreDelivered
  <2> QED BY <2>2, <2>3
<1>2. ASSUME MailInv, UNCHANGED vars, NEW u \in UserID PROVE Queued(u)
  <2>1. ASSUME NEW s \in Session PROVE JoinedFor(s, u) = {}
    <3> DEFINE l == Len(session[s].writeQueue)
    <3>1. l \in Nat /\ session'[s] = session[s]
      BY <1>2, SessionsAreGood, LenProperties DEF MailInv, vars, SessionState
    <3>2. (l+1)..l = {}
      BY <3>1
    <3> QED BY <3>1, <3>2 DEF JoinedFor
  <2> QED BY <1>2, <2>1 DEF vars
<1>3. MailInv /\ ServerInv' /\ [Next]_vars => [\A u \in UserID : Queued(u)]_vars
  BY <1>1, <1>2
<1> QED BY <1>3, MailInvariant, ServerInvariant, PTL DEF Spec, HandedIsQueued, JoinedFor

=============================================================================
