------------------------- MODULE FileTransferProofs -------------------------
(***************************************************************************)
(* Proofs about the sending of files, for any users, groups, threads,      *)
(* files and sizes, and any number of connections that end: an undisturbed *)
(* transfer advances by one frame at a time through the two queues on its  *)
(* way, and the receiver's entry for the sender is what the frames taken   *)
(* so far have made of it.                                                 *)
(***************************************************************************)
EXTENDS FileTransfer, FiniteSetTheorems, WellFoundedInduction, TLAPS

-----------------------------------------------------------------------------
(* The frames of a transfer. *)

\* The frame that the thread t of a file of z chunks sends after k others.
Nth(t, z, k) ==
  [type |-> IF k = 0 THEN "META" ELSE IF k <= z THEN "CHUNK" ELSE "COMPLETE",
   thread |-> t, index |-> IF k \in 1..z THEN k - 1 ELSE 0]

LEMMA NthFrames ==
  ASSUME NEW t \in Thread, NEW z \in Size, NEW k \in 0..(z + 1)
  PROVE  Nth(t, z, k) \in Frame /\ Nth(t, z, k).thread = t
  BY FileAssumption DEF Nth, Frame

LEMMA NthDiffer ==
  ASSUME NEW t, NEW z \in Nat, NEW k \in 0..(z + 1), NEW l \in 0..(z + 1),
         Nth(t, z, k) = Nth(t, z, l)
  PROVE  k = l
  BY DEF Nth

-----------------------------------------------------------------------------
(* The threads with a frame in a queue. *)

LEMMA InFlightQueues ==
  ASSUME NEW q \in Seq(Frame), NEW f \in Frame
  PROVE  /\ InFlight(<<>>) = {}
         /\ InFlight(Append(q, f)) = InFlight(q) \cup {f.thread}
         /\ q # <<>> => /\ InFlight(q) = InFlight(Tail(q)) \cup {Head(q).thread}
                        /\ Head(q) \in Frame /\ Tail(q) \in Seq(Frame)
<1>1. InFlight(<<>>) = {}
  BY DEF InFlight
<1>2. InFlight(Append(q, f)) = InFlight(q) \cup {f.thread}
  <2> DEFINE r == Append(q, f)
  <2>1. /\ DOMAIN q = 1..Len(q) /\ DOMAIN r = 1..(Len(q) + 1) /\ Len(q) \in Nat
        /\ r[Len(q) + 1] = f /\ \A i \in 1..Len(q) : r[i] = q[i]
    OBVIOUS
  <2> HIDE DEF r
  <2>2. \A i \in DOMAIN r : i \in DOMAIN q \/ i = Len(q) + 1
    BY <2>1
  <2>3. \A x \in InFlight(r) : x \in InFlight(q) \cup {f.thread}
    BY <2>1, <2>2 DEF InFlight
  <2>4. \A i \in DOMAIN q : i \in DOMAIN r /\ r[i] = q[i]
    BY <2>1
  <2>5. Len(q) + 1 \in DOMAIN r
    BY <2>1
  <2>6. \A x \in InFlight(q) \cup {f.thread} : x \in InFlight(r)
    BY <2>1, <2>4, <2>5 DEF InFlight
  <2> QED BY <2>3, <2>6 DEF r
<1>3. ASSUME q # <<>>
      PROVE  /\ InFlight(q) = InFlight(Tail(q)) \cup {Head(q).thread}
             /\ Head(q) \in Frame /\ Tail(q) \in Seq(Frame)
  <2> DEFINE r == Tail(q)
  <2>1. /\ DOMAIN q = 1..Len(q) /\ DOMAIN r = 1..(Len(q) - 1) /\ Len(q) \in Nat \ {0}
        /\ Head(q) = q[1] /\ \A i \in 1..(Len(q) - 1) : r[i] = q[i + 1]
        /\ Head(q) \in Frame /\ r \in Seq(Frame)
    BY <1>3
  <2> HIDE DEF r
  <2>2. \A i \in DOMAIN q : i = 1 \/ (i - 1 \in DOMAIN r /\ r[i - 1] = q[i])
    BY <2>1
  <2>3. \A x \in InFlight(q) : x \in InFlight(r) \cup {Head(q).thread}
    BY <2>1, <2>2 DEF InFlight
  <2>4. \A i \in DOMAIN r : i + 1 \in DOMAIN q /\ r[i] = q[i + 1]
    BY <2>1
  <2>5. 1 \in DOMAIN q
    BY <2>1
  <2>6. \A x \in InFlight(r) \cup {Head(q).thread} : x \in InFlight(q)
    BY <2>1, <2>4, <2>5 DEF InFlight
  <2> QED BY <2>1, <2>3, <2>6 DEF r
<1> QED BY <1>1, <1>2, <1>3

-----------------------------------------------------------------------------
(* What a queue holds of one transfer. *)

\* Of the thread t, whose file has z chunks, q holds the frames m to n-1, each
\* once and in order.
Carries(q, t, z, m, n) ==
  /\ \A i \in DOMAIN q : q[i].thread = t => \E k \in m..(n - 1) : q[i] = Nth(t, z, k)
  /\ \A k \in m..(n - 1) : \E i \in DOMAIN q : q[i] = Nth(t, z, k)
  /\ \A i, j \in DOMAIN q, k, l \in m..(n - 1) :
       i < j /\ q[i] = Nth(t, z, k) /\ q[j] = Nth(t, z, l) => k < l

LEMMA CarriesNone ==
  ASSUME NEW q \in Seq(Frame), NEW t, NEW z, NEW n \in Nat, t \notin InFlight(q)
  PROVE  Carries(q, t, z, n, n)
  BY DEF Carries, InFlight

LEMMA NoneCarried ==
  ASSUME NEW q \in Seq(Frame), NEW t \in Thread, NEW z \in Size,
         NEW m \in 0..(z + 2), NEW n \in 0..(z + 2), m <= n,
         Carries(q, t, z, m, n), t \notin InFlight(q)
  PROVE  m = n
<1> SUFFICES ASSUME m < n PROVE FALSE
  BY FileAssumption
<1>1. m \in m..(n - 1) /\ m \in 0..(z + 1)
  BY FileAssumption
<1>2. PICK i \in DOMAIN q : q[i] = Nth(t, z, m)
  BY <1>1 DEF Carries
<1> QED BY <1>1, <1>2, NthFrames DEF InFlight

LEMMA CarriesOther ==
  ASSUME NEW q \in Seq(Frame), NEW t \in Thread, NEW z \in Size,
         NEW m \in 0..(z + 2), NEW n \in 0..(z + 2), Carries(q, t, z, m, n),
         NEW f \in Frame, f.thread # t
  PROVE  Carries(Append(q, f), t, z, m, n)
<1> DEFINE r == Append(q, f)
<1>1. /\ DOMAIN q = 1..Len(q) /\ DOMAIN r = 1..(Len(q) + 1) /\ Len(q) \in Nat
      /\ r[Len(q) + 1] = f /\ \A i \in 1..Len(q) : r[i] = q[i]
  OBVIOUS
<1> HIDE DEF r
<1>2. \A i \in DOMAIN r : i \in DOMAIN q \/ i = Len(q) + 1
  BY <1>1
<1>3. \A i \in DOMAIN q : i \in DOMAIN r /\ r[i] = q[i]
  BY <1>1
<1>4. \A k \in m..(n - 1) : Nth(t, z, k) # f
  BY FileAssumption, NthFrames
<1>5. \A i \in DOMAIN r : r[i].thread = t => \E k \in m..(n - 1) : r[i] = Nth(t, z, k)
  BY <1>1, <1>2 DEF Carries
<1>6. \A k \in m..(n - 1) : \E i \in DOMAIN r : r[i] = Nth(t, z, k)
  BY <1>3 DEF Carries
<1>7. ASSUME NEW i \in DOMAIN r, NEW j \in DOMAIN r, NEW k \in m..(n - 1), NEW l \in m..(n - 1),
             i < j, r[i] = Nth(t, z, k), r[j] = Nth(t, z, l)
      PROVE  k < l
  <2>1. i \in DOMAIN q /\ j \in DOMAIN q
    BY <1>1, <1>2, <1>4, <1>7
  <2> QED BY <1>3, <1>7, <2>1 DEF Carries
<1> QED BY <1>5, <1>6, <1>7 DEF Carries, r

LEMMA CarriesNext ==
  ASSUME NEW q \in Seq(Frame), NEW t \in Thread, NEW z \in Size,
         NEW m \in 0..(z + 2), NEW n \in 0..(z + 1), m <= n, Carries(q, t, z, m, n)
  PROVE  Carries(Append(q, Nth(t, z, n)), t, z, m, n + 1)
<1> DEFINE f == Nth(t, z, n)
           r == Append(q, f)
<1>0. z \in Nat /\ f \in Frame
  BY FileAssumption, NthFrames
<1>1. /\ DOMAIN q = 1..Len(q) /\ DOMAIN r = 1..(Len(q) + 1) /\ Len(q) \in Nat
      /\ r[Len(q) + 1] = f /\ \A i \in 1..Len(q) : r[i] = q[i]
  BY <1>0
<1> HIDE DEF r
<1>2. \A i \in DOMAIN r : i \in DOMAIN q \/ i = Len(q) + 1
  BY <1>1
<1>3. \A i \in DOMAIN q : i \in DOMAIN r /\ r[i] = q[i] /\ q[i] \in Frame
  BY <1>1
<1>4. /\ n \in m..((n + 1) - 1)
      /\ \A k \in m..((n + 1) - 1) : k \in m..(n - 1) \/ k = n
      /\ \A k \in m..(n - 1) : k \in m..((n + 1) - 1) /\ k < n
      /\ \A k \in m..((n + 1) - 1) : k \in 0..(z + 1)
  BY <1>0
<1>5. \A i \in DOMAIN r : r[i].thread = t =>
        \E k \in m..((n + 1) - 1) : r[i] = Nth(t, z, k)
  BY <1>1, <1>2, <1>3, <1>4 DEF Carries
<1>6. ASSUME NEW k \in m..((n + 1) - 1) PROVE \E i \in DOMAIN r : r[i] = Nth(t, z, k)
  <2>1. CASE k = n
    <3>1. Len(q) + 1 \in DOMAIN r
      BY <1>1
    <3> QED BY <1>1, <2>1, <3>1
  <2>2. CASE k \in m..(n - 1)
    BY <1>3, <2>2 DEF Carries
  <2> QED BY <1>4, <2>1, <2>2
<1>7. ASSUME NEW i \in DOMAIN r, NEW j \in DOMAIN r,
             NEW k \in m..((n + 1) - 1), NEW l \in m..((n + 1) - 1),
             i < j, r[i] = Nth(t, z, k), r[j] = Nth(t, z, l)
      PROVE  k < l
  <2>1. i \in DOMAIN q
    BY <1>1, <1>2, <1>7
  <2>2. k \in m..(n - 1)
    <3>1. q[i] = Nth(t, z, k) /\ q[i].thread = t
      BY <1>3, <1>4, <1>7, <2>1, NthFrames
    <3>2. PICK h \in m..(n - 1) : q[i] = Nth(t, z, h)
      BY <2>1, <3>1 DEF Carries
    <3>3. h = k
      BY <1>0, <1>4, <3>1, <3>2, NthDiffer
    <3> QED BY <3>3
  <2>3. CASE j = Len(q) + 1
    <3>1. l = n
      BY <1>0, <1>1, <1>4, <1>7, <2>3, NthDiffer
    <3> QED BY <1>4, <2>2, <3>1
  <2>4. CASE j \in DOMAIN q
    <3>1. l = n \/ l \in m..(n - 1)
      BY <1>4
    <3> QED BY <1>3, <1>4, <1>7, <2>1, <2>2, <2>4, <3>1 DEF Carries
  <2> QED BY <1>2, <2>3, <2>4
<1> QED BY <1>5, <1>6, <1>7 DEF Carries, r

LEMMA CarriesRest ==
  ASSUME NEW q \in Seq(Frame), NEW t \in Thread, NEW z \in Size,
         NEW m \in 0..(z + 2), NEW n \in 0..(z + 2), Carries(q, t, z, m, n), q # <<>>
  PROVE  /\ Head(q).thread # t => Carries(Tail(q), t, z, m, n)
         /\ Head(q).thread = t => /\ m < n /\ Head(q) = Nth(t, z, m)
                                  /\ Carries(Tail(q), t, z, m + 1, n)
<1> DEFINE r == Tail(q)
<1>0. z \in Nat
  BY FileAssumption
<1>1. /\ DOMAIN q = 1..Len(q) /\ DOMAIN r = 1..(Len(q) - 1) /\ Len(q) \in Nat \ {0}
      /\ Head(q) = q[1] /\ \A i \in 1..(Len(q) - 1) : r[i] = q[i + 1]
      /\ \A i \in 1..Len(q) : q[i] \in Frame
  OBVIOUS
<1> HIDE DEF r
<1>2. \A i \in DOMAIN q : i = 1 \/ (i - 1 \in DOMAIN r /\ r[i - 1] = q[i])
  BY <1>1
<1>3. /\ \A i \in DOMAIN r : i + 1 \in DOMAIN q /\ r[i] = q[i + 1]
      /\ 1 \in DOMAIN q
      /\ \A i, j \in DOMAIN r : i < j => i + 1 < j + 1 /\ 1 < j + 1
      /\ \A i \in DOMAIN r : 1 < i + 1
  BY <1>1
<1>4. ASSUME NEW i \in DOMAIN r, NEW j \in DOMAIN r, NEW k \in m..(n - 1), NEW l \in m..(n - 1),
             i < j, r[i] = Nth(t, z, k), r[j] = Nth(t, z, l)
      PROVE  k < l
  BY <1>3, <1>4 DEF Carries
<1>5. \A i \in DOMAIN r : r[i].thread = t => \E k \in m..(n - 1) : r[i] = Nth(t, z, k)
  BY <1>3 DEF Carries
<1>6. \A k \in m..(n - 1) : k \in 0..(z + 1)
  BY <1>0
<1>7. CASE Head(q).thread # t
  <2>1. ASSUME NEW k \in m..(n - 1) PROVE \E i \in DOMAIN r : r[i] = Nth(t, z, k)
    <3>1. PICK i \in DOMAIN q : q[i] = Nth(t, z, k)
      BY DEF Carries
    <3>2. i # 1
      BY <1>1, <1>6, <1>7, <3>1, NthFrames
    <3> QED BY <1>2, <3>1, <3>2
  <2> QED BY <1>4, <1>5, <1>7, <2>1 DEF Carries, r
<1>8. CASE Head(q).thread = t
  <2>1. PICK h \in m..(n - 1) : Head(q) = Nth(t, z, h)
    BY <1>1, <1>3, <1>8 DEF Carries
  <2>2. m < n /\ m \in m..(n - 1)
    BY <1>0, <2>1
  <2>3. h = m
    <3>1. PICK i \in DOMAIN q : q[i] = Nth(t, z, m)
      BY <2>2 DEF Carries
    <3>2. i # 1 => 1 < i
      BY <1>1
    <3>3. i # 1 => h < m
      BY <1>1, <1>3, <2>1, <2>2, <3>1, <3>2 DEF Carries
    <3>4. i = 1 => h = m
      BY <1>0, <1>1, <1>6, <2>1, <2>2, <3>1, NthDiffer
    <3> QED BY <1>0, <2>1, <3>3, <3>4
  <2>4. \A k \in (m + 1)..(n - 1) : k \in m..(n - 1) /\ k # m
    BY <1>0
  <2>5. \A k \in m..(n - 1) : k = m \/ k \in (m + 1)..(n - 1)
    BY <1>0
  <2>6. ASSUME NEW i \in DOMAIN r, r[i].thread = t
        PROVE  \E k \in (m + 1)..(n - 1) : r[i] = Nth(t, z, k)
    <3>1. PICK k \in m..(n - 1) : r[i] = Nth(t, z, k)
      BY <1>5, <2>6
    <3>2. m < k
      BY <1>1, <1>3, <2>1, <2>3, <3>1 DEF Carries
    <3> QED BY <2>5, <3>1, <3>2
  <2>7. ASSUME NEW k \in (m + 1)..(n - 1) PROVE \E i \in DOMAIN r : r[i] = Nth(t, z, k)
    <3>1. PICK i \in DOMAIN q : q[i] = Nth(t, z, k)
      BY <2>4 DEF Carries
    <3>2. i # 1
      BY <1>0, <1>1, <1>6, <2>1, <2>2, <2>3, <2>4, <3>1, NthDiffer
    <3> QED BY <1>2, <3>1, <3>2
  <2>8. \A i, j \in DOMAIN r, k, l \in (m + 1)..(n - 1) :
          i < j /\ r[i] = Nth(t, z, k) /\ r[j] = Nth(t, z, l) => k < l
    BY <1>4, <2>4
  <2>9. Carries(r, t, z, m + 1, n)
    BY <2>6, <2>7, <2>8 DEF Carries
  <2> QED BY <1>8, <2>1, <2>2, <2>3, <2>9 DEF r
<1> QED BY <1>7, <1>8

-----------------------------------------------------------------------------
(* Two transfers on the same way: p is the queue to the receiver, q the one *)
(* from the sender to the server.                                           *)

OnlyBefore(q, o, t) == \A i, j \in DOMAIN q : q[i].thread = t /\ q[j].thread = o => j < i

\* What is on the way of the thread o is ahead of what is on the way of t.
Ahead(p, q, o, t) ==
  /\ OnlyBefore(p, o, t) /\ OnlyBefore(q, o, t)
  /\ t \in InFlight(p) => o \notin InFlight(q)

LEMMA AheadOfNone ==
  ASSUME NEW p \in Seq(Frame), NEW q \in Seq(Frame), NEW o, NEW t,
         \/ t \notin InFlight(p) /\ t \notin InFlight(q)
         \/ o \notin InFlight(p) /\ o \notin InFlight(q)
  PROVE  Ahead(p, q, o, t)
  BY DEF Ahead, OnlyBefore, InFlight

LEMMA BeforeAppend ==
  ASSUME NEW q \in Seq(Frame), NEW f \in Frame, NEW o, NEW t, o # t, OnlyBefore(q, o, t),
         f.thread # o \/ t \notin InFlight(q)
  PROVE  OnlyBefore(Append(q, f), o, t)
<1> DEFINE r == Append(q, f)
<1>1. /\ DOMAIN q = 1..Len(q) /\ DOMAIN r = 1..(Len(q) + 1) /\ Len(q) \in Nat
      /\ r[Len(q) + 1] = f /\ \A i \in 1..Len(q) : r[i] = q[i]
  OBVIOUS
<1> HIDE DEF r
<1>2. \A i \in DOMAIN r : (i \in DOMAIN q /\ r[i] = q[i]) \/ i = Len(q) + 1
  BY <1>1
<1>3. \A i \in DOMAIN q : i < Len(q) + 1
  BY <1>1
<1> SUFFICES ASSUME NEW i \in DOMAIN r, NEW j \in DOMAIN r, r[i].thread = t, r[j].thread = o
             PROVE  j < i
  BY DEF OnlyBefore, r
<1>4. CASE i \in DOMAIN q
  <2>1. r[i] = q[i] /\ t \in InFlight(q)
    BY <1>1, <1>4 DEF InFlight
  <2>2. j \in DOMAIN q /\ r[j] = q[j]
    BY <1>1, <1>2, <2>1
  <2> QED BY <1>4, <2>1, <2>2 DEF OnlyBefore
<1>5. CASE i = Len(q) + 1
  BY <1>1, <1>2, <1>3, <1>5
<1> QED BY <1>2, <1>4, <1>5

LEMMA BeforeRest ==
  ASSUME NEW q \in Seq(Frame), q # <<>>, NEW o, NEW t, OnlyBefore(q, o, t)
  PROVE  /\ OnlyBefore(Tail(q), o, t)
         /\ Head(q).thread = t /\ o # t => o \notin InFlight(q)
<1> DEFINE r == Tail(q)
<1>1. /\ DOMAIN q = 1..Len(q) /\ DOMAIN r = 1..(Len(q) - 1) /\ Len(q) \in Nat \ {0}
      /\ Head(q) = q[1] /\ \A i \in 1..(Len(q) - 1) : r[i] = q[i + 1]
  OBVIOUS
<1> HIDE DEF r
<1>2. \A i \in DOMAIN r : i \in Int /\ i + 1 \in DOMAIN q /\ r[i] = q[i + 1]
  BY <1>1
<1>3. OnlyBefore(r, o, t)
  <2> SUFFICES ASSUME NEW i \in DOMAIN r, NEW j \in DOMAIN r, r[i].thread = t, r[j].thread = o
               PROVE  j < i
    BY DEF OnlyBefore
  <2>1. j + 1 < i + 1
    BY <1>2 DEF OnlyBefore
  <2> QED BY <1>2, <2>1
<1>4. ASSUME Head(q).thread = t, o # t, o \in InFlight(q) PROVE FALSE
  <2>1. PICK j \in DOMAIN q : q[j].thread = o
    BY <1>4 DEF InFlight
  <2>2. 1 \in DOMAIN q /\ ~(j < 1)
    BY <1>1
  <2> QED BY <1>1, <1>4, <2>1, <2>2 DEF OnlyBefore
<1> QED BY <1>3, <1>4 DEF r

(* A frame that is sent goes behind what is ahead.                          *)
LEMMA AheadOfSent ==
  ASSUME NEW p \in Seq(Frame), NEW q \in Seq(Frame), NEW f \in Frame, NEW o, NEW t, o # t,
         Ahead(p, q, o, t), f.thread # o
  PROVE  Ahead(p, Append(q, f), o, t)
  BY BeforeAppend, InFlightQueues DEF Ahead

(* The server passes a frame on, or drops it.                               *)
LEMMA AheadWhenRouted ==
  ASSUME NEW p \in Seq(Frame), NEW q \in Seq(Frame), q # <<>>, NEW o, NEW t, o # t,
         Ahead(p, q, o, t)
  PROVE  Ahead(Append(p, Head(q)), Tail(q), o, t) /\ Ahead(p, Tail(q), o, t)
<1> DEFINE f == Head(q)
<1>1. f \in Frame /\ Tail(q) \in Seq(Frame) /\ InFlight(q) = InFlight(Tail(q)) \cup {f.thread}
  BY InFlightQueues
<1>2. OnlyBefore(Tail(q), o, t) /\ (f.thread = t => o \notin InFlight(q))
  BY BeforeRest DEF Ahead
<1>3. InFlight(Append(p, f)) = InFlight(p) \cup {f.thread}
  BY <1>1, InFlightQueues
<1> HIDE DEF f
<1>4. OnlyBefore(Append(p, f), o, t)
  BY <1>1, BeforeAppend DEF Ahead
<1> QED BY <1>1, <1>2, <1>3, <1>4 DEF Ahead, f

(* A frame of somebody else joins the queue to the receiver.                *)
LEMMA AheadOfOthers ==
  ASSUME NEW p \in Seq(Frame), NEW q \in Seq(Frame), NEW f \in Frame, NEW o, NEW t, o # t,
         Ahead(p, q, o, t), f.thread # o, f.thread # t
  PROVE  Ahead(Append(p, f), q, o, t)
  BY BeforeAppend, InFlightQueues DEF Ahead

(* The receiver takes a frame.                                              *)
LEMMA AheadWhenTaken ==
  ASSUME NEW p \in Seq(Frame), NEW q \in Seq(Frame), p # <<>>, NEW o, NEW t,
         Ahead(p, q, o, t)
  PROVE  Ahead(Tail(p), q, o, t)
<1>1. p[1] \in Frame /\ InFlight(Tail(p)) \subseteq InFlight(p)
  BY InFlightQueues
<1> QED BY <1>1, BeforeRest DEF Ahead

(* A queue is lost with its connection.                                     *)
LEMMA AheadWhenLost ==
  ASSUME NEW p, NEW q, NEW o, NEW t, Ahead(p, q, o, t),
         NEW p1 \in {p, <<>>}, NEW q1 \in {q, <<>>}
  PROVE  Ahead(p1, q1, o, t)
<1>1. OnlyBefore(<<>>, o, t) /\ InFlight(<<>>) = {}
  BY DEF OnlyBefore, InFlight
<1> QED BY <1>1 DEF Ahead

-----------------------------------------------------------------------------
(* What is saved of the chunks. *)

LEMMA LeastNumber ==
  ASSUME NEW S \in SUBSET Nat, S # {}
  PROVE  \E m \in S : \A n \in S : m <= n
<1> DEFINE R == OpToRel(<, Nat)
<1>1. PICK m \in S : \A n \in S : ~(<<n, m>> \in R)
  BY NatLessThanWellFounded, WFMin
<1>2. \A n \in S : ~(n < m)
  BY <1>1 DEF OpToRel
<1> QED BY <1>2

\* How many members of the set S of numbers are below n.
Below(S, n) == Cardinality({j \in S : j < n})

(* In a finite set of numbers every rank is taken.                          *)
LEMMA RanksTaken ==
  ASSUME NEW n \in Nat, NEW S \in SUBSET (0..n - 1), NEW k \in Nat, k < Cardinality(S)
  PROVE  \E i \in S : Below(S, i) = k
<1> DEFINE T == {m \in Nat : Below(S, m) > k}
<1>0. IsFiniteSet(S) /\ \A j \in S : j \in Nat /\ j < n
  <2>1. IsFiniteSet(0..n - 1)
    BY FS_Interval, n - 1 \in Int
  <2>2. S \subseteq 0..n - 1
    OBVIOUS
  <2>3. \A j \in 0..n - 1 : j \in Nat /\ j < n
    OBVIOUS
  <2> QED BY <2>1, <2>2, <2>3, FS_Subset
<1>1. \A m \in Nat : IsFiniteSet({j \in S : j < m}) /\ Below(S, m) \in Nat
  BY <1>0, FS_Subset, FS_CardinalityType DEF Below
<1>2. {j \in S : j < n} = S
  BY <1>0
<1>3. T \in SUBSET Nat /\ n \in T
  BY <1>2 DEF Below
<1>4. PICK m \in T : \A h \in T : m <= h
  BY <1>3, LeastNumber
<1>5. {j \in S : j < 0} = {}
  <2>1. \A j \in S : ~(j < 0)
    BY <1>0
  <2> QED BY <2>1
<1>6. Below(S, 0) = 0
  BY <1>5, FS_EmptySet DEF Below
<1>7. m # 0
  BY <1>4, <1>6
<1> DEFINE h == m - 1
<1>8. h \in Nat /\ m \in Nat /\ m = h + 1
  BY <1>3, <1>4, <1>7
<1>9. Below(S, h) <= k /\ Below(S, m) > k /\ Below(S, h) \in Nat /\ Below(S, m) \in Nat
  <2>1. h \notin T
    BY <1>4, <1>8
  <2>2. m \in Nat /\ Below(S, m) > k
    BY <1>4 DEF T
  <2>3. Below(S, h) \in Nat /\ Below(S, m) \in Nat
    BY <1>1, <1>8
  <2>4. ~(Below(S, h) > k)
    BY <1>8, <2>1 DEF T
  <2> QED BY <2>2, <2>3, <2>4
<1> HIDE DEF T, h
<1>10. h \in S
  <2> SUFFICES ASSUME h \notin S PROVE FALSE
    OBVIOUS
  <2>1. \A j \in S : j < m <=> j < h
    BY <1>0, <1>8
  <2>2. {j \in S : j < m} = {j \in S : j < h}
    BY <2>1
  <2> QED BY <1>9, <2>2 DEF Below
<1>11. {j \in S : j < m} = {j \in S : j < h} \cup {h} /\ h \notin {j \in S : j < h}
  <2>1. \A j \in S : j < m <=> j < h \/ j = h
    BY <1>0, <1>8
  <2>2. ~(h < h)
    BY <1>8
  <2>3. {j \in S : j < m} = {j \in S : j < h} \cup {h}
    BY <1>10, <2>1
  <2> QED BY <2>2, <2>3
<1>12. Below(S, m) = Below(S, h) + 1
  BY <1>1, <1>8, <1>11, FS_AddElement DEF Below
<1> QED BY <1>9, <1>10, <1>12

(* What is saved is a sequence of chunks.                                   *)
LEMMA SavedType ==
  ASSUME NEW chunks \in [0..MaxChunks - 1 -> Chunk \cup {NotYet}]
  PROVE  Saved(chunks) \in Seq(Chunk)
<1> DEFINE had == {i \in DOMAIN chunks : chunks[i] # NotYet}
           n == Cardinality(had)
           there == {i \in 0..n - 1 : chunks[i] # NotYet}
           Rank(i) == Cardinality({j \in there : j < i})
           At(k) == CHOOSE i \in there : Rank(i) = k - 1
<1>1. had \subseteq 0..MaxChunks - 1 /\ MaxChunks \in Nat
  BY FileAssumption
<1>2. n \in Nat /\ n <= MaxChunks
  <2>1. IsFiniteSet(0..MaxChunks - 1) /\ Cardinality(0..MaxChunks - 1) <= MaxChunks
    BY <1>1, FS_Interval
  <2>2. IsFiniteSet(had) /\ Cardinality(had) <= Cardinality(0..MaxChunks - 1)
    BY <1>1, <2>1, FS_Subset
  <2> QED BY <1>1, <2>1, <2>2, FS_CardinalityType
<1> HIDE DEF had, n
<1>3. there \in SUBSET (0..n - 1) /\ \A i \in there : chunks[i] \in Chunk
  BY <1>1, <1>2
<1>4. Cardinality(there) \in Nat
  <2>1. IsFiniteSet(0..n - 1)
    BY <1>2, FS_Interval, n - 1 \in Int
  <2> QED BY <1>3, <2>1, FS_Subset, FS_CardinalityType
<1>5. ASSUME NEW k \in 1..Cardinality(there) PROVE chunks[At(k)] \in Chunk
  <2>1. k - 1 \in Nat /\ k - 1 < Cardinality(there)
    BY <1>4
  <2>2. \E i \in there : Rank(i) = k - 1
    BY <1>2, <1>3, <2>1, RanksTaken DEF Below
  <2> QED BY <1>3, <2>2
<1>6. Saved(chunks) = [k \in 1..Cardinality(there) |-> chunks[At(k)]]
  BY DEF Saved, n, had
<1> HIDE DEF there
<1>7. [k \in 1..Cardinality(there) |-> chunks[At(k)]] \in [1..Cardinality(there) -> Chunk]
  BY <1>5
<1>8. ASSUME NEW N \in Nat, NEW f \in [1..N -> Chunk] PROVE f \in Seq(Chunk)
  OBVIOUS
<1> QED BY <1>4, <1>6, <1>7, <1>8

\* The first n chunks of thread t have come and no other.
FirstChunks(t, n) ==
  [i \in 0..MaxChunks - 1 |-> IF i < n THEN [thread |-> t, index |-> i] ELSE NotYet]

(* If all the chunks have come, the whole file is saved.                    *)
LEMMA SavedWhole ==
  ASSUME NEW t \in Thread, NEW z \in Size
  PROVE  Saved(FirstChunks(t, z)) = [k \in 1..z |-> [thread |-> t, index |-> k - 1]]
<1> DEFINE chunks == FirstChunks(t, z)
           had == {i \in DOMAIN chunks : chunks[i] # NotYet}
           n == Cardinality(had)
           there == {i \in 0..n - 1 : chunks[i] # NotYet}
           Rank(i) == Cardinality({j \in there : j < i})
           At(k) == CHOOSE i \in there : Rank(i) = k - 1
<1>0. z \in Nat /\ MaxChunks \in Nat /\ z <= MaxChunks
  BY FileAssumption
<1>1. \A i \in 0..z - 1 : chunks[i] = [thread |-> t, index |-> i] /\ chunks[i] # NotYet
                          /\ i \in DOMAIN chunks
  BY <1>0, FillerAssumption DEF FirstChunks, Chunk
<1>2. had = 0..z - 1
  BY <1>0, <1>1 DEF FirstChunks
<1> HIDE DEF chunks
<1>3. Cardinality(0..z - 1) = z
  <2>1. 0 \in Int /\ z - 1 \in Int
    BY <1>0
  <2>2. Cardinality(0..z - 1) = IF 0 > z - 1 THEN 0 ELSE (z - 1) - 0 + 1
    BY <2>1, FS_Interval
  <2> QED BY <1>0, <2>2
<1>4. n = z
  BY <1>2, <1>3
<1>5. there = 0..z - 1 /\ Cardinality(there) = z
  BY <1>0, <1>1, <1>4, <1>3
<1> HIDE DEF had, n, there
<1>6. \A i \in 0..z - 1 : Rank(i) = i
  <2> TAKE i \in 0..z - 1
  <2>1. {j \in there : j < i} = 0..i - 1
    BY <1>0, <1>5
  <2>2. 0 \in Int /\ i - 1 \in Int /\ i \in Nat
    BY <1>0
  <2>3. Cardinality(0..i - 1) = IF 0 > i - 1 THEN 0 ELSE (i - 1) - 0 + 1
    BY <2>2, FS_Interval
  <2>4. Cardinality(0..i - 1) = i
    BY <2>2, <2>3
  <2> QED BY <2>1, <2>4
<1>7. ASSUME NEW k \in 1..z PROVE chunks[At(k)] = [thread |-> t, index |-> k - 1]
  <2>1. k - 1 \in there /\ Rank(k - 1) = k - 1
    BY <1>0, <1>5, <1>6
  <2>2. At(k) \in there /\ Rank(At(k)) = k - 1
    BY <2>1
  <2>3. At(k) = k - 1
    BY <1>5, <1>6, <2>2
  <2> QED BY <1>1, <1>5, <2>1, <2>3
<1>8. Saved(chunks) = [k \in 1..Cardinality(there) |-> chunks[At(k)]]
  BY DEF Saved, n, had, there
<1> QED BY <1>5, <1>7, <1>8 DEF chunks

-----------------------------------------------------------------------------
(* The inductive invariant. *)

\* What u has made of the first a frames of the thread t.
Got(t, u, a) ==
  LET tr == sending[t]
      f == incomingFiles[u][tr.from]
  IN /\ a <= tr.size + 1 => written[t][u] = NotYet
     /\ a \in 1..(tr.size + 1) => /\ f # NoFile /\ f.file = tr.file
                                  /\ tr.to = u => f.chunks = FirstChunks(t, a - 1)
     /\ a = tr.size + 2 => /\ written[t][u] # NotYet
                           /\ tr.to = u /\ u \in CanSave =>
                                written[t][u] = [file |-> tr.file, chunks |-> WholeFile(t)]

\* Another transfer of the same sender to u.
Rival(t, o, u) ==
  /\ o # t /\ sending[o] # Idle /\ sending[o].from = sending[t].from
  /\ u \in Recipients(sending[o])

\* Of a transfer t, of which u has taken a frames, and a rival o, one is all
\* sent and ahead of the other: there is nothing left of o when t has begun to
\* arrive, or all of t is ahead of all of o.
Apart(t, o, u, a) ==
  \/ /\ ~Sends(o) /\ Ahead(inbox[u], outbox[sending[t].from], o, t)
     /\ a > 0 => ~OnTheWay(o, u)
  \/ ~Sends(t) /\ Ahead(inbox[u], outbox[sending[t].from], t, o)

\* Of the frames of t, u has taken the first a, the next up to b are in the
\* queue to u, and the rest of those sent in the queue to the server.
Advances(t, u, a, b) ==
  /\ Carries(inbox[u], t, sending[t].size, a, b)
  /\ Carries(outbox[sending[t].from], t, sending[t].size, b, sending[t].sent)
  /\ Got(t, u, a)
  /\ \A o \in Thread : Rival(t, o, u) => Apart(t, o, u, a)

Steady(t, u) == \E a, b \in 0..sending[t].sent : a <= b /\ Advances(t, u, a, b)

TransfersOK ==
  \A t \in Thread : IF sending[t] = Idle THEN \A u \in User : written[t][u] = NotYet
                    ELSE sending[t].sent <= sending[t].size + 2

QueuesOK ==
  \A u \in User :
    /\ \A t \in InFlight(outbox[u]) : sending[t] # Idle /\ sending[t].from = u
    /\ \A t \in InFlight(inbox[u]) : sending[t] # Idle /\ u \in Recipients(sending[t])

Sound == FileTypeOK /\ TransfersOK /\ QueuesOK

AllSteady ==
  \A t \in Thread : sending[t] # Idle =>
    \A u \in Recipients(sending[t]) : Undisturbed(t, u) => Steady(t, u)

FileInv == Sound /\ ShownIsIncoming /\ AllSteady

-----------------------------------------------------------------------------
LEMMA TransferFacts ==
  ASSUME Sound, NEW t \in Thread, sending[t] # Idle
  PROVE  LET tr == sending[t] IN
         /\ tr \in Transfer /\ tr.from \in User /\ tr.to \in User \cup Group
         /\ tr.file \in File /\ tr.size \in Size /\ tr.size \in Nat /\ tr.sent \in Nat
         /\ tr.sent <= tr.size + 2 /\ tr.size <= MaxChunks /\ MaxChunks \in Nat \ {0}
         /\ Recipients(tr) \subseteq User
         /\ outbox[tr.from] \in Seq(Frame)
<1>1. sending[t] \in Transfer /\ sending[t].sent <= sending[t].size + 2
  BY DEF Sound, FileTypeOK, TransfersOK
<1>2. sending[t].from \in User /\ sending[t].to \in User \cup Group
      /\ sending[t].file \in File /\ sending[t].size \in Size
      /\ sending[t].sent \in 0..MaxChunks + 2
  BY <1>1 DEF Transfer
<1>3. Recipients(sending[t]) \subseteq User
  BY <1>2 DEF Recipients
<1>4. outbox[sending[t].from] \in Seq(Frame)
  BY <1>2 DEF Sound, FileTypeOK
<1>5. MaxChunks \in Nat \ {0} /\ Size \subseteq 0..MaxChunks
  BY FileAssumption
<1>6. sending[t].size \in Nat /\ sending[t].size <= MaxChunks /\ sending[t].sent \in Nat
  <2>1. \A n \in 0..MaxChunks : n \in Nat /\ n <= MaxChunks
    BY <1>5
  <2>2. \A n \in 0..MaxChunks + 2 : n \in Nat
    BY <1>5
  <2> QED BY <1>2, <1>5, <2>1, <2>2
<1> QED BY <1>1, <1>2, <1>3, <1>4, <1>5, <1>6

\* The step leaves alone what the thread t sends to whom.
SameTransfer(t) ==
  /\ sending'[t] # Idle
  /\ sending'[t].from = sending[t].from /\ sending'[t].to = sending[t].to
  /\ sending'[t].file = sending[t].file /\ sending'[t].size = sending[t].size
  /\ Recipients(sending'[t]) = Recipients(sending[t])

LEMMA GotStays ==
  ASSUME Sound, NEW t \in Thread, sending[t] # Idle, NEW u, NEW a \in Nat, Got(t, u, a),
         SameTransfer(t), written'[t][u] = written[t][u],
         \/ a = 0 \/ a = sending[t].size + 2
         \/ incomingFiles'[u][sending[t].from] = incomingFiles[u][sending[t].from]
  PROVE  Got(t, u, a)'
<1>1. sending[t].size \in Nat
  BY TransferFacts
<1>2. WholeFile(t)' = WholeFile(t)
  BY DEF WholeFile, SameTransfer
<1> QED BY <1>1, <1>2 DEF Got, SameTransfer

(* Nothing is on the way of a thread that has not begun.                    *)
LEMMA NothingBefore ==
  ASSUME Sound, NEW x \in Thread, sending[x] = Idle, NEW u \in User
  PROVE  x \notin InFlight(outbox[u]) /\ x \notin InFlight(inbox[u])
  BY DEF Sound, QueuesOK

(* A new transfer, and what it is to the others.                            *)
LEMMA StartKeepsSteady ==
  ASSUME Sound, AllSteady, NEW x \in Thread, sendFile(x),
         NEW t \in Thread, sending'[t] # Idle, NEW u \in Recipients(sending'[t]),
         Undisturbed(t, u)'
  PROVE  Steady(t, u)'
<1>1. PICK from \in User, to \in User \cup Group, file \in File, size \in Size :
        LET tr == [from |-> from, to |-> to, file |-> file, size |-> size, sent |-> 0]
            others == {o \in Thread : /\ Sends(o) /\ sending[o].from = from
                                      /\ Recipients(sending[o]) \cap Recipients(tr) # {}}
        IN /\ sending[x] = Idle /\ to # from
           /\ sending' = [sending EXCEPT ![x] = tr]
           /\ mixed' = IF others = {} THEN mixed ELSE mixed \cup others \cup {x}
           /\ UNCHANGED <<outbox, inbox, up, incomingFiles, fileTransfers, written, lost, leaves>>
  BY DEF sendFile
<1> DEFINE tr == [from |-> from, to |-> to, file |-> file, size |-> size, sent |-> 0]
           others == {o \in Thread : /\ Sends(o) /\ sending[o].from = from
                                     /\ Recipients(sending[o]) \cap Recipients(tr) # {}}
<1>2. /\ sending'[x] = tr /\ \A o \in Thread : o # x => sending'[o] = sending[o]
      /\ sending[x] = Idle
  BY <1>1 DEF Sound, FileTypeOK
<1>3. tr.from \in User /\ Recipients(tr) \subseteq User /\ tr.sent = 0 /\ tr.size \in Nat
  BY FileAssumption DEF Recipients
<1>4. /\ inbox' = inbox /\ outbox' = outbox /\ incomingFiles' = incomingFiles
      /\ written' = written /\ lost' = lost
  BY <1>1
<1>5. \A v \in User : inbox[v] \in Seq(Frame) /\ outbox[v] \in Seq(Frame)
  BY DEF Sound, FileTypeOK
<1>6. \A o \in Thread : o # x => (Sends(o)' <=> Sends(o))
  BY <1>2 DEF Sends
<1>7. mixed' = IF others = {} THEN mixed ELSE mixed \cup others \cup {x}
  BY <1>1
<1> HIDE DEF tr
<1>8. CASE t = x
  <2>1. others = {}
    BY <1>7, <1>8 DEF Undisturbed
  <2>2. u \in User /\ u \in Recipients(tr)
    BY <1>2, <1>3, <1>8
  <2>3. x \notin InFlight(inbox[u]) /\ x \notin InFlight(outbox[tr.from])
    BY <1>2, <1>3, <2>2, NothingBefore
  <2>4. Carries(inbox[u], x, tr.size, 0, 0) /\ Carries(outbox[tr.from], x, tr.size, 0, 0)
    BY <1>3, <1>5, <2>2, <2>3, CarriesNone
  <2>5. Got(t, u, 0)'
    <3>1. written[x][u] = NotYet
      BY <1>2, <2>2 DEF Sound, TransfersOK
    <3> QED BY <1>2, <1>3, <1>4, <1>8, <3>1 DEF Got
  <2>6. ASSUME NEW o \in Thread, Rival(t, o, u)' PROVE Apart(t, o, u, 0)'
    <3>1. o # x /\ sending[o] # Idle /\ sending[o].from = tr.from /\ u \in Recipients(sending[o])
      BY <1>2, <1>8, <2>6 DEF Rival
    <3>2. ~Sends(o)
      <4>1. tr.from = from
        BY DEF tr
      <4> QED BY <2>1, <2>2, <3>1, <4>1
    <3>3. Ahead(inbox[u], outbox[tr.from], o, t)
      BY <1>3, <1>5, <1>8, <2>2, <2>3, AheadOfNone
    <3> QED BY <1>2, <1>4, <1>6, <1>8, <3>1, <3>2, <3>3 DEF Apart
  <2>7. Advances(t, u, 0, 0)'
    BY <1>2, <1>3, <1>4, <1>8, <2>4, <2>5, <2>6 DEF Advances
  <2> QED BY <1>2, <1>3, <1>8, <2>7 DEF Steady
<1>9. CASE t # x
  <2>1. sending'[t] = sending[t] /\ sending[t] # Idle /\ Recipients(sending'[t]) = Recipients(sending[t])
    BY <1>2, <1>9
  <2>2. t \notin others /\ Undisturbed(t, u)
    BY <1>4, <1>7 DEF Undisturbed
  <2>3. PICK a \in 0..sending[t].sent, b \in 0..sending[t].sent : a <= b /\ Advances(t, u, a, b)
    BY <2>1, <2>2 DEF AllSteady, Steady
  <2>4. sending[t].from \in User /\ u \in User /\ sending[t].sent \in Nat
    BY <2>1, TransferFacts
  <2>5. Got(t, u, a)'
    BY <1>4, <2>1, <2>3, <2>4, GotStays DEF Advances, SameTransfer
  <2>6. ASSUME NEW o \in Thread, Rival(t, o, u)' PROVE Apart(t, o, u, a)'
    <3>1. CASE o = x
      <4>1. tr.from = sending[t].from /\ u \in Recipients(tr) /\ tr.from = from
        BY <1>2, <2>1, <2>6, <3>1 DEF Rival, tr
      <4>2. ~Sends(t)
        BY <2>1, <2>2, <4>1
      <4>3. x \notin InFlight(inbox[u]) /\ x \notin InFlight(outbox[sending[t].from])
        BY <1>2, <2>4, NothingBefore
      <4>4. Ahead(inbox[u], outbox[sending[t].from], t, o)
        BY <1>5, <2>4, <3>1, <4>3, AheadOfNone
      <4> QED BY <1>4, <1>6, <1>9, <2>1, <4>2, <4>4 DEF Apart
    <3>2. CASE o # x
      <4>1. Rival(t, o, u) /\ sending'[o] = sending[o]
        BY <1>2, <2>1, <2>6, <3>2 DEF Rival
      <4>2. Apart(t, o, u, a)
        BY <2>3, <4>1 DEF Advances
      <4> QED BY <1>4, <1>6, <1>9, <2>1, <3>2, <4>1, <4>2 DEF Apart, OnTheWay
    <3> QED BY <3>1, <3>2
  <2>7. Advances(t, u, a, b)'
    BY <1>4, <2>1, <2>3, <2>5, <2>6 DEF Advances
  <2> QED BY <2>1, <2>3, <2>7 DEF Steady
<1> QED BY <1>8, <1>9

\* The next frame of the thread x leaves its sender.
SendsNext(x) ==
  LET tr == sending[x]
      f == Nth(x, tr.size, tr.sent)
  IN /\ Sends(x)
     /\ sending' = [sending EXCEPT ![x].sent = @ + 1]
     /\ IF tr.from \in up
        THEN outbox' = [outbox EXCEPT ![tr.from] = Append(@, f)] /\ lost' = lost
        ELSE lost' = lost \cup ({x} \X Recipients(tr)) /\ outbox' = outbox
     /\ UNCHANGED <<inbox, up, incomingFiles, written, mixed, leaves>>

LEMMA ProceedsSends ==
  ASSUME Sound, NEW x \in Thread, Proceeds(x)
  PROVE  SendsNext(x)
<1>1. sending[x].size \in Nat /\ sending[x].sent \in Nat
  BY TransferFacts DEF Proceeds, SendMeta, SendChunk, SendComplete, Sends
<1>2. CASE SendMeta(x)
  BY <1>1, <1>2 DEF SendMeta, SendFrame, SendsNext, Nth
<1>3. CASE SendChunk(x)
  BY <1>1, <1>3 DEF SendChunk, SendFrame, SendsNext, Nth
<1>4. CASE SendComplete(x)
  BY <1>1, <1>4 DEF SendComplete, SendFrame, SendsNext, Nth
<1> QED BY <1>2, <1>3, <1>4 DEF Proceeds

(* What a step of the thread x does to what the threads send.               *)
LEMMA SentTransfers ==
  ASSUME Sound, NEW x \in Thread, SendsNext(x)
  PROVE  /\ \A o \in Thread : o # x => sending'[o] = sending[o]
         /\ \A o \in Thread : sending[o] # Idle => SameTransfer(o)
         /\ \A o \in Thread : sending'[o] # Idle => sending[o] # Idle
         /\ sending'[x] \in Transfer /\ sending'[x].sent = sending[x].sent + 1
         /\ sending[x].sent \in 0..sending[x].size + 1
<1> DEFINE tr == sending[x]
           new == [tr EXCEPT !.sent = @ + 1]
<1>1. sending[x] # Idle /\ tr.sent < tr.size + 2
  BY DEF SendsNext, Sends
<1>2. /\ tr \in Transfer /\ tr.size \in Nat /\ tr.sent \in Nat /\ tr.size <= MaxChunks
      /\ MaxChunks \in Nat
  BY <1>1, TransferFacts
<1>3. tr.sent + 1 \in 0..MaxChunks + 2 /\ tr.sent \in 0..tr.size + 1
  BY <1>1, <1>2
<1>4. new \in Transfer /\ new.sent = tr.sent + 1
  BY <1>2, <1>3 DEF Transfer
<1>5. /\ new.from = tr.from /\ new.to = tr.to /\ new.file = tr.file /\ new.size = tr.size
      /\ new # Idle
  BY <1>2, <1>4, FillerAssumption DEF Transfer
<1>6. sending'[x] = new /\ \A o \in Thread : o # x => sending'[o] = sending[o]
  BY DEF SendsNext, Sound, FileTypeOK
<1> HIDE DEF new
<1>7. Recipients(new) = Recipients(tr)
  BY <1>5 DEF Recipients
<1> QED BY <1>1, <1>3, <1>4, <1>5, <1>6, <1>7 DEF SameTransfer

(* A frame that is sent is the next of its transfer; to the others it is    *)
(* behind all of theirs, or ahead of none.                                  *)
LEMMA SendKeepsSteady ==
  ASSUME Sound, AllSteady, NEW x \in Thread, SendsNext(x),
         NEW t \in Thread, sending'[t] # Idle, NEW u \in Recipients(sending'[t]),
         Undisturbed(t, u)'
  PROVE  Steady(t, u)'
<1> DEFINE z == sending[t].size
           p == inbox[u]
           q == outbox[sending[t].from]
           f == Nth(x, sending[x].size, sending[x].sent)
<1>1. /\ \A o \in Thread : o # x => sending'[o] = sending[o]
      /\ \A o \in Thread : sending[o] # Idle => SameTransfer(o)
      /\ \A o \in Thread : sending'[o] # Idle => sending[o] # Idle
      /\ sending'[x].sent = sending[x].sent + 1 /\ sending[x].sent \in 0..sending[x].size + 1
      /\ sending[x] # Idle
  BY SentTransfers DEF SendsNext, Sends
<1>2. sending[t] # Idle /\ u \in Recipients(sending[t]) /\ SameTransfer(t)
  BY <1>1 DEF SameTransfer
<1>3. /\ z \in Size /\ z \in Nat /\ sending[t].sent \in Nat /\ sending[t].sent <= z + 2
      /\ sending[t].from \in User /\ u \in User
  BY <1>2, TransferFacts
<1>4. sending[x].from \in User /\ sending[x].size \in Size /\ sending[x].size \in Nat
  BY <1>1, TransferFacts
<1>5. p \in Seq(Frame) /\ q \in Seq(Frame)
  BY <1>3 DEF Sound, FileTypeOK
<1>6. f \in Frame /\ f.thread = x
  BY <1>1, <1>4, NthFrames
<1>7. /\ inbox' = inbox /\ incomingFiles' = incomingFiles /\ written' = written
      /\ mixed' = mixed /\ lost \subseteq lost' /\ Sends(x)
  BY DEF SendsNext
<1>8. Undisturbed(t, u)
  BY <1>7 DEF Undisturbed
<1>9. PICK a \in 0..sending[t].sent, b \in 0..sending[t].sent : a <= b /\ Advances(t, u, a, b)
  BY <1>2, <1>8 DEF AllSteady, Steady
<1>10. /\ outbox'[sending[t].from] \in {q, Append(q, f)}
       /\ x = t => outbox'[sending[t].from] = Append(q, f)
  <2>1. x = t => sending[x].from \in up
    BY <1>2, <1>7 DEF SendsNext, Undisturbed
  <2> QED BY <1>3, <1>4, <2>1 DEF SendsNext, Sound, FileTypeOK
<1> DEFINE r == outbox'[sending[t].from]
<1>11. Got(t, u, a)'
  BY <1>2, <1>7, <1>9, GotStays DEF Advances
<1>12. Carries(r, t, z, b, sending'[t].sent)
  <2>1. Carries(q, t, z, b, sending[t].sent) /\ b \in 0..z + 2 /\ b <= sending[t].sent
    BY <1>3, <1>9 DEF Advances
  <2>2. CASE x = t
    <3>1. Carries(Append(q, Nth(t, z, sending[t].sent)), t, z, b, sending[t].sent + 1)
      BY <1>1, <1>3, <1>5, <2>1, <2>2, CarriesNext
    <3> QED BY <1>1, <1>10, <2>2, <3>1
  <2>3. CASE x # t
    <3>1. Carries(Append(q, f), t, z, b, sending[t].sent)
      BY <1>3, <1>5, <1>6, <2>1, <2>3, CarriesOther
    <3> QED BY <1>1, <1>10, <2>1, <2>3, <3>1
  <2> QED BY <2>2, <2>3
<1>13. ASSUME NEW o \in Thread, Rival(t, o, u)' PROVE Apart(t, o, u, a)'
  <2>1. /\ o # t /\ sending[o] # Idle /\ SameTransfer(o) /\ Rival(t, o, u)
        /\ sending[o].from = sending[t].from
    BY <1>1, <1>2, <1>13 DEF Rival, SameTransfer
  <2>2. Apart(t, o, u, a)
    BY <1>9, <2>1 DEF Advances
  <2>3. /\ sending'[t].from = sending[t].from /\ sending'[o].from = sending[t].from
        /\ inbox'[u] = p
    BY <1>2, <1>7, <2>1 DEF SameTransfer
  <2>4. \A i \in Thread : ~Sends(i) => i # x /\ ~Sends(i)'
    BY <1>1, <1>7 DEF Sends
  <2>5. CASE ~Sends(o) /\ Ahead(p, q, o, t) /\ (a > 0 => ~OnTheWay(o, u))
    <3>1. o # x /\ ~Sends(o)'
      BY <2>4, <2>5
    <3>2. Ahead(p, Append(q, f), o, t)
      BY <1>5, <1>6, <2>1, <2>5, <3>1, AheadOfSent
    <3>3. Ahead(p, r, o, t)
      BY <1>10, <2>5, <3>2
    <3>4. o \in InFlight(r) => o \in InFlight(q)
      <4>1. InFlight(Append(q, f)) = InFlight(q) \cup {x}
        BY <1>5, <1>6, InFlightQueues
      <4> QED BY <1>10, <3>1, <4>1
    <3>5. a > 0 => ~OnTheWay(o, u)'
      BY <2>1, <2>3, <2>5, <3>4 DEF OnTheWay
    <3> QED BY <2>3, <3>1, <3>3, <3>5 DEF Apart
  <2>6. CASE ~Sends(t) /\ Ahead(p, q, t, o)
    <3>1. t # x /\ ~Sends(t)'
      BY <2>4, <2>6
    <3>2. Ahead(p, Append(q, f), t, o)
      BY <1>5, <1>6, <2>1, <2>6, <3>1, AheadOfSent
    <3>3. Ahead(p, r, t, o)
      BY <1>10, <2>6, <3>2
    <3> QED BY <2>3, <3>1, <3>3 DEF Apart
  <2> QED BY <2>2, <2>5, <2>6 DEF Apart
<1>14. Advances(t, u, a, b)'
  BY <1>2, <1>7, <1>9, <1>11, <1>12, <1>13 DEF Advances, SameTransfer
<1>15. a \in 0..sending'[t].sent /\ b \in 0..sending'[t].sent
  BY <1>1, <1>3, <1>9
<1> QED BY <1>9, <1>14, <1>15 DEF Steady

LEMMA WayTypes ==
  ASSUME Sound, NEW t \in Thread, sending[t] # Idle, NEW u \in Recipients(sending[t])
  PROVE  /\ u \in User /\ sending[t].from \in User
         /\ inbox[u] \in Seq(Frame) /\ outbox[sending[t].from] \in Seq(Frame)
         /\ sending[t].size \in Size /\ sending[t].size \in Nat
         /\ sending[t].sent \in 0..sending[t].size + 2
<1>1. /\ u \in User /\ sending[t].from \in User
      /\ sending[t].size \in Size /\ sending[t].size \in Nat
      /\ sending[t].sent \in Nat /\ sending[t].sent <= sending[t].size + 2
  BY TransferFacts
<1> QED BY <1>1 DEF Sound, FileTypeOK

(* The server takes a frame and passes it on; an undisturbed transfer loses *)
(* none there, and no two transfers change places.                          *)
LEMMA RouteKeepsSteady ==
  ASSUME Sound, AllSteady, NEW w \in User, Route(w),
         NEW t \in Thread, sending'[t] # Idle, NEW u \in Recipients(sending'[t]),
         Undisturbed(t, u)'
  PROVE  Steady(t, u)'
<1> DEFINE z == sending[t].size
           from == sending[t].from
           sent == sending[t].sent
           p == inbox[u]
           q == outbox[from]
           f == Head(outbox[w])
           x == f.thread
           p1 == inbox'[u]
           q1 == outbox'[from]
<1>1. /\ sending' = sending /\ incomingFiles' = incomingFiles /\ written' = written
      /\ mixed' = mixed /\ outbox[w] # <<>>
      /\ lost' = lost \cup ({x} \X (Recipients(sending[x]) \ up))
      /\ inbox' = [v \in User |-> IF v \in Recipients(sending[x]) \cap up
                                  THEN Append(inbox[v], f) ELSE inbox[v]]
      /\ outbox' = [outbox EXCEPT ![w] = Tail(@)]
  BY DEF Route
<1>2. sending[t] # Idle /\ u \in Recipients(sending[t]) /\ Undisturbed(t, u)
  BY <1>1 DEF Undisturbed
<1>3. /\ u \in User /\ from \in User /\ p \in Seq(Frame) /\ q \in Seq(Frame)
      /\ z \in Size /\ z \in Nat /\ sent \in 0..z + 2
  BY <1>2, WayTypes
<1>4. PICK a \in 0..sent, b \in 0..sent : a <= b /\ Advances(t, u, a, b)
  BY <1>2 DEF AllSteady, Steady
<1>5. a \in 0..z + 2 /\ b \in 0..z + 2
  BY <1>3
<1>6. outbox[w] \in Seq(Frame) /\ f \in Frame /\ x \in InFlight(outbox[w])
  <2>1. outbox[w] \in Seq(Frame)
    BY DEF Sound, FileTypeOK
  <2> QED BY <1>1, <2>1, InFlightQueues
<1>7. sending[x] # Idle /\ sending[x].from = w
  BY <1>6 DEF Sound, QueuesOK
<1>8. /\ p1 = IF u \in Recipients(sending[x]) \cap up THEN Append(p, f) ELSE p
      /\ q1 = IF w = from THEN Tail(q) ELSE q
  BY <1>1, <1>3 DEF Sound, FileTypeOK
<1>9. Carries(p, t, z, a, b) /\ Carries(q, t, z, b, sent)
  BY <1>4 DEF Advances
<1> DEFINE Placed(c) == c \in b..sent /\ Carries(p1, t, z, a, c) /\ Carries(q1, t, z, c, sent)
<1>10. \E c \in Nat : Placed(c)
  <2>1. CASE x = t
    <3>1. w = from /\ u \in up
      BY <1>1, <1>2, <1>7, <2>1 DEF Undisturbed
    <3>2. b < sent /\ f = Nth(t, z, b) /\ Carries(Tail(q), t, z, b + 1, sent)
      BY <1>1, <1>3, <1>5, <1>9, <2>1, <3>1, CarriesRest
    <3>3. b \in 0..z + 1 /\ b + 1 \in b..sent /\ b + 1 \in Nat
      BY <1>3, <1>5, <3>2
    <3>4. Carries(Append(p, f), t, z, a, b + 1)
      BY <1>3, <1>4, <1>5, <1>9, <3>2, <3>3, CarriesNext
    <3> QED BY <1>2, <1>8, <2>1, <3>1, <3>2, <3>3, <3>4
  <2>2. CASE x # t
    <3>1. Carries(Append(p, f), t, z, a, b)
      BY <1>3, <1>5, <1>6, <1>9, <2>2, CarriesOther
    <3>2. w = from => Carries(Tail(q), t, z, b, sent)
      BY <1>1, <1>3, <1>5, <1>9, <2>2, CarriesRest
    <3>3. b \in Nat /\ b \in b..sent
      BY <1>3
    <3> QED BY <1>8, <1>9, <3>1, <3>2, <3>3
  <2> QED BY <2>1, <2>2
<1>11. PICK c \in Nat : Placed(c)
  BY <1>10
<1>12. Got(t, u, a)'
  BY <1>1, <1>2, <1>4, GotStays DEF Advances, SameTransfer
<1>13. ASSUME NEW o \in Thread, Rival(t, o, u) PROVE Apart(t, o, u, a)'
  <2>1. o # t /\ sending[o].from = from
    BY <1>13 DEF Rival
  <2>2. w # from => x # o /\ x # t
    BY <1>7, <2>1
  <2>3. ASSUME NEW i, NEW j, i # j, {i, j} = {o, t}, Ahead(p, q, i, j) PROVE Ahead(p1, q1, i, j)
    <3>1. CASE w = from
      BY <1>1, <1>3, <1>8, <2>3, <3>1, AheadWhenRouted
    <3>2. CASE w # from
      <4>1. x # i /\ x # j
        BY <2>2, <2>3, <3>2
      <4>2. Ahead(Append(p, f), q, i, j)
        BY <1>3, <1>6, <2>3, <4>1, AheadOfOthers
      <4> QED BY <1>8, <2>3, <3>2, <4>2
    <3> QED BY <3>1, <3>2
  <2>4. OnTheWay(o, u)' => OnTheWay(o, u)
    <3>1. InFlight(Append(p, f)) = InFlight(p) \cup {x}
      BY <1>3, <1>6, InFlightQueues
    <3>2. InFlight(q1) \subseteq InFlight(q)
      BY <1>1, <1>3, <1>6, <1>8, InFlightQueues
    <3>3. o \in InFlight(p1) => o \in InFlight(p) \/ o \in InFlight(q)
      BY <1>6, <1>8, <2>2, <3>1
    <3> QED BY <1>1, <2>1, <3>2, <3>3 DEF OnTheWay
  <2>5. Apart(t, o, u, a) /\ (Sends(o)' <=> Sends(o)) /\ (Sends(t)' <=> Sends(t))
    BY <1>1, <1>4, <1>13 DEF Advances, Sends
  <2> QED BY <1>1, <2>1, <2>3, <2>4, <2>5 DEF Apart
<1>14. Advances(t, u, a, c)'
  BY <1>1, <1>11, <1>12, <1>13 DEF Advances, Rival
<1>15. c \in 0..sent /\ a <= c
  BY <1>3, <1>4, <1>11
<1> QED BY <1>1, <1>14, <1>15 DEF Steady

(* With a connection go the frames in its queues; an undisturbed transfer   *)
(* had none there.                                                          *)
LEMMA LeaveKeepsSteady ==
  ASSUME Sound, AllSteady, NEW w \in User, Leaves(w),
         NEW t \in Thread, sending'[t] # Idle, NEW u \in Recipients(sending'[t]),
         Undisturbed(t, u)'
  PROVE  Steady(t, u)'
<1> DEFINE z == sending[t].size
           from == sending[t].from
           sent == sending[t].sent
           p == inbox[u]
           q == outbox[from]
           p1 == inbox'[u]
           q1 == outbox'[from]
<1>1. /\ sending' = sending /\ incomingFiles' = incomingFiles /\ written' = written
      /\ mixed' = mixed
      /\ outbox' = [outbox EXCEPT ![w] = <<>>] /\ inbox' = [inbox EXCEPT ![w] = <<>>]
      /\ lost' = lost \cup (InFlight(inbox[w]) \X {w})
                   \cup UNION {{i} \X Recipients(sending[i]) : i \in InFlight(outbox[w])}
  BY DEF Leaves
<1>2. sending[t] # Idle /\ u \in Recipients(sending[t]) /\ Undisturbed(t, u)
  BY <1>1 DEF Undisturbed
<1>3. /\ u \in User /\ from \in User /\ p \in Seq(Frame) /\ q \in Seq(Frame)
      /\ z \in Size /\ z \in Nat /\ sent \in 0..z + 2
  BY <1>2, WayTypes
<1>4. PICK a \in 0..sent, b \in 0..sent : a <= b /\ Advances(t, u, a, b)
  BY <1>2 DEF AllSteady, Steady
<1>5. a \in 0..z + 2 /\ b \in 0..z + 2 /\ b <= sent
  BY <1>3
<1>6. /\ p1 = IF u = w THEN <<>> ELSE p
      /\ q1 = IF from = w THEN <<>> ELSE q
  BY <1>1, <1>3 DEF Sound, FileTypeOK
<1>7. (u = w => t \notin InFlight(p)) /\ (from = w => t \notin InFlight(q))
  BY <1>1, <1>2 DEF Undisturbed
<1>8. /\ <<>> \in Seq(Frame) /\ InFlight(<<>>) = {}
      /\ \A n \in Nat : Carries(<<>>, t, z, n, n)
  <2>1. <<>> \in Seq(Frame) /\ InFlight(<<>>) = {}
    BY DEF InFlight
  <2> QED BY <2>1, CarriesNone
<1>9. Carries(p1, t, z, a, b)
  BY <1>3, <1>4, <1>5, <1>6, <1>7, <1>8, NoneCarried DEF Advances
<1>10. Carries(q1, t, z, b, sent)
  BY <1>3, <1>4, <1>5, <1>6, <1>7, <1>8, NoneCarried DEF Advances
<1>11. Got(t, u, a)'
  BY <1>1, <1>2, <1>4, GotStays DEF Advances, SameTransfer
<1>12. ASSUME NEW o \in Thread, Rival(t, o, u) PROVE Apart(t, o, u, a)'
  <2>1. o # t /\ sending[o].from = from
    BY <1>12 DEF Rival
  <2>2. \A i, j : Ahead(p, q, i, j) => Ahead(p1, q1, i, j)
    BY <1>6, AheadWhenLost
  <2>3. OnTheWay(o, u)' => OnTheWay(o, u)
    BY <1>1, <1>6, <1>8, <2>1 DEF OnTheWay
  <2>4. Apart(t, o, u, a) /\ (Sends(o)' <=> Sends(o)) /\ (Sends(t)' <=> Sends(t))
    BY <1>1, <1>4, <1>12 DEF Advances, Sends
  <2> QED BY <1>1, <2>1, <2>2, <2>3, <2>4 DEF Apart
<1>13. Advances(t, u, a, b)'
  BY <1>1, <1>9, <1>10, <1>11, <1>12 DEF Advances, Rival
<1> QED BY <1>1, <1>4, <1>13 DEF Steady

-----------------------------------------------------------------------------
(* The receiver. *)

\* u takes a frame of the thread x: what may change by it.
TakesOf(u, x) ==
  /\ inbox[u] # <<>> /\ Head(inbox[u]).thread = x
  /\ inbox' = [inbox EXCEPT ![u] = Tail(@)]
  /\ UNCHANGED <<sending, outbox, up, lost, mixed, leaves>>
  /\ \A v \in User, s \in User :
       v # u \/ s # sending[x].from => incomingFiles'[v][s] = incomingFiles[v][s]
  /\ \A t \in Thread, v \in User : t # x \/ v # u => written'[t][v] = written[t][v]

LEMMA ReceiveTakes ==
  ASSUME Sound, NEW u \in User, Receive(u)
  PROVE  /\ TakesOf(u, Head(inbox[u]).thread)
         /\ Head(inbox[u]).thread \in Thread /\ Head(inbox[u]) \in Frame
         /\ sending[Head(inbox[u]).thread] # Idle
         /\ u \in Recipients(sending[Head(inbox[u]).thread])
<1> DEFINE h == Head(inbox[u])
           x == h.thread
<1>1. inbox[u] # <<>>
  BY DEF Receive, handleFileMetadata, handleFileChunk, handleFileComplete, Takes
<1>2. h \in Frame /\ x \in Thread /\ x \in InFlight(inbox[u])
  <2>1. inbox[u] \in Seq(Frame)
    BY DEF Sound, FileTypeOK
  <2>2. h \in Frame /\ x \in InFlight(inbox[u])
    BY <1>1, <2>1, InFlightQueues
  <2> QED BY <2>2 DEF Frame
<1>3. sending[x] # Idle /\ u \in Recipients(sending[x])
  BY <1>2 DEF Sound, QueuesOK
<1>4. /\ incomingFiles \in [User -> [User -> IncomingFile \cup {NoFile}]]
      /\ written \in [Thread -> [User -> Saving \cup {NotYet}]]
  BY DEF Sound, FileTypeOK
<1>5. sending[x].from \in User
  BY <1>2, <1>3, TransferFacts
<1> HIDE DEF h
<1>6. ASSUME \/ incomingFiles' = incomingFiles
             \/ \E f : incomingFiles' = [incomingFiles EXCEPT ![u][sending[x].from] = f]
      PROVE  \A v \in User, s \in User :
               v # u \/ s # sending[x].from => incomingFiles'[v][s] = incomingFiles[v][s]
  BY <1>4, <1>5, <1>6
<1>7. ASSUME written' = written \/ \E f : written' = [written EXCEPT ![x][u] = f]
      PROVE  \A t \in Thread, v \in User : t # x \/ v # u => written'[t][v] = written[t][v]
  <2>1. CASE written' = written
    BY <2>1
  <2>2. ASSUME NEW f, written' = [written EXCEPT ![x][u] = f]
        PROVE  \A t \in Thread, v \in User : t # x \/ v # u => written'[t][v] = written[t][v]
    <3>1. \A t \in Thread : /\ t # x => written'[t] = written[t]
                            /\ t = x => written'[t] = [written[x] EXCEPT ![u] = f]
      BY <1>4, <2>2
    <3>2. written[x] \in [User -> Saving \cup {NotYet}]
      BY <1>2, <1>4
    <3> QED BY <3>1, <3>2
  <2> QED BY <1>7, <2>1, <2>2
<1>8. /\ inbox' = [inbox EXCEPT ![u] = Tail(@)]
      /\ UNCHANGED <<sending, outbox, up, lost, mixed, leaves>>
  BY DEF Receive, handleFileMetadata, handleFileChunk, handleFileComplete, Takes
<1>9. \/ incomingFiles' = incomingFiles
      \/ \E f : incomingFiles' = [incomingFiles EXCEPT ![u][sending[x].from] = f]
  <2>1. CASE handleFileMetadata(u)
    BY <2>1 DEF handleFileMetadata, Announced, h
  <2>2. CASE handleFileChunk(u)
    BY <2>2 DEF handleFileChunk, Announced, h
  <2>3. CASE handleFileComplete(u)
    BY <2>3 DEF handleFileComplete, Announced, h
  <2> QED BY <2>1, <2>2, <2>3 DEF Receive
<1>10. written' = written \/ \E f : written' = [written EXCEPT ![x][u] = f]
  <2>1. CASE handleFileMetadata(u) \/ handleFileChunk(u)
    BY <2>1 DEF handleFileMetadata, handleFileChunk
  <2>2. CASE handleFileComplete(u)
    BY <2>2 DEF handleFileComplete, Writes, h
  <2> QED BY <2>1, <2>2 DEF Receive
<1>11. TakesOf(u, x)
  BY <1>1, <1>6, <1>7, <1>8, <1>9, <1>10 DEF TakesOf, h
<1> QED BY <1>2, <1>3, <1>11 DEF h

(* The next frame of a transfer makes the next step of its reassembly.      *)
LEMMA NextFrameTaken ==
  ASSUME Sound, NEW u \in User, Receive(u), NEW t \in Thread, sending[t] # Idle,
         NEW a \in 0..(sending[t].size + 1), Got(t, u, a),
         Head(inbox[u]) = Nth(t, sending[t].size, a)
  PROVE  Got(t, u, a + 1)'
<1> DEFINE tr == sending[t]
           z == tr.size
           f == incomingFiles[u][tr.from]
           g == incomingFiles'[u][tr.from]
           h == Head(inbox[u])
<1>1. /\ tr \in Transfer /\ tr.from \in User /\ tr.file \in File /\ z \in Size /\ z \in Nat
      /\ z <= MaxChunks /\ MaxChunks \in Nat \ {0}
  BY TransferFacts
<1>2. /\ incomingFiles \in [User -> [User -> IncomingFile \cup {NoFile}]]
      /\ written \in [Thread -> [User -> Saving \cup {NotYet}]]
  BY DEF Sound, FileTypeOK
<1>3. sending' = sending /\ h.thread = t /\ WholeFile(t)' = WholeFile(t)
  BY ReceiveTakes DEF TakesOf, Nth, WholeFile
<1>4. a \in Nat /\ a <= z + 1 /\ written[t][u] = NotYet
  BY <1>1 DEF Got
<1>5. CASE a = 0
  <2>1. h.type = "META"
    BY <1>5 DEF Nth
  <2>2. handleFileMetadata(u)
    BY <2>1 DEF Receive, handleFileChunk, handleFileComplete, Takes
  <2> DEFINE new == [file |-> tr.file, size |-> z, received |-> 0, chunks |-> Nothing]
  <2>3. incomingFiles' = [incomingFiles EXCEPT ![u][tr.from] = new] /\ written' = written
    BY <1>3, <2>2 DEF handleFileMetadata, Announced
  <2>4. g = new
    BY <1>1, <1>2, <2>3
  <2>5. new \in IncomingFile /\ new.file = tr.file /\ new.chunks = Nothing
    BY <1>1 DEF IncomingFile, Nothing
  <2>6. Nothing = FirstChunks(t, 0)
    BY <1>1 DEF Nothing, FirstChunks
  <2>7. g # NoFile /\ g.file = tr.file /\ g.chunks = FirstChunks(t, 0)
    BY <2>4, <2>5, <2>6, FillerAssumption
  <2> QED BY <1>1, <1>3, <1>4, <1>5, <2>3, <2>7 DEF Got
<1>6. CASE a \in 1..z
  <2>1. h.type = "CHUNK" /\ h.index = a - 1
    BY <1>1, <1>6 DEF Nth
  <2>2. handleFileChunk(u)
    BY <2>1 DEF Receive, handleFileMetadata, handleFileComplete, Takes
  <2>3. f # NoFile /\ f.file = tr.file /\ (tr.to = u => f.chunks = FirstChunks(t, a - 1))
    BY <1>1, <1>6 DEF Got
  <2>4. f \in IncomingFile
    BY <1>1, <1>2, <2>3
  <2> DEFINE chunk == [thread |-> t, index |-> a - 1]
             new == [f EXCEPT !.received = @ + 1, !.chunks[a - 1] = chunk]
  <2>5. /\ written' = written
        /\ IF SenderKey(tr) = ReceiverKey(u, tr)
           THEN incomingFiles' = [incomingFiles EXCEPT ![u][tr.from] = new]
           ELSE incomingFiles' = incomingFiles
    BY <1>3, <2>1, <2>2, <2>3 DEF handleFileChunk, Announced
  <2>6. g = IF SenderKey(tr) = ReceiverKey(u, tr) THEN new ELSE f
    BY <1>1, <1>2, <2>5
  <2>7. /\ new.file = f.file /\ new.chunks = [f.chunks EXCEPT ![a - 1] = chunk]
        /\ new \in [file : File, size : Size, received : {f.received + 1}, chunks : {new.chunks}]
    BY <2>4 DEF IncomingFile
  <2>8. a - 1 \in 0..MaxChunks - 1 /\ chunk \in Chunk
    BY <1>1, <1>6 DEF Chunk
  <2>9. new.chunks \in [0..MaxChunks - 1 -> Chunk \cup {NotYet}] /\ f.received + 1 \in Nat
    <3>1. /\ f.chunks \in [0..MaxChunks - 1 -> Chunk \cup {NotYet}] /\ f.received \in Nat
      BY <2>4 DEF IncomingFile
    <3>2. [f.chunks EXCEPT ![a - 1] = chunk] \in [0..MaxChunks - 1 -> Chunk \cup {NotYet}]
      BY <2>8, <3>1
    <3> HIDE DEF new, f, chunk
    <3> QED BY <2>7, <3>1, <3>2
  <2>10. new \in IncomingFile
    BY <2>7, <2>9 DEF IncomingFile
  <2>11. ASSUME tr.to = u PROVE g.chunks = FirstChunks(t, a)
    <3>1. SenderKey(tr) = ReceiverKey(u, tr)
      BY <2>11 DEF SenderKey, ReceiverKey
    <3>2. [FirstChunks(t, a - 1) EXCEPT ![a - 1] = chunk] = FirstChunks(t, a)
      <4>1. a \in Nat /\ a # 0
        BY <1>6
      <4>2. \A i \in 0..MaxChunks - 1 : i < a <=> (i < a - 1 \/ i = a - 1)
        BY <4>1
      <4>3. \A i \in 0..MaxChunks - 1 :
              [FirstChunks(t, a - 1) EXCEPT ![a - 1] = chunk][i] = FirstChunks(t, a)[i]
        BY <4>1, <4>2 DEF FirstChunks
      <4> QED BY <4>3 DEF FirstChunks
    <3> QED BY <2>3, <2>6, <2>7, <2>11, <3>1, <3>2
  <2> HIDE DEF new
  <2>12. g # NoFile /\ g.file = tr.file
    BY <2>3, <2>6, <2>7, <2>10, FillerAssumption
  <2>13. a + 1 # z + 2 /\ a + 1 - 1 = a
    BY <1>1, <1>6
  <2> QED BY <1>1, <1>3, <1>4, <2>5, <2>11, <2>12, <2>13 DEF Got
<1>7. CASE a = z + 1
  <2>1. h.type = "COMPLETE"
    BY <1>1, <1>7 DEF Nth
  <2>2. handleFileComplete(u)
    BY <2>1 DEF Receive, handleFileMetadata, handleFileChunk, Takes
  <2>3. f # NoFile /\ f.file = tr.file /\ (tr.to = u => f.chunks = FirstChunks(t, z))
    BY <1>1, <1>7 DEF Got
  <2>4. f \in IncomingFile
    BY <1>1, <1>2, <2>3
  <2> DEFINE new == IF u \in CanSave THEN [file |-> f.file, chunks |-> Saved(f.chunks)]
                    ELSE [file |-> NoFile, chunks |-> <<>>]
  <2>5. written' = [written EXCEPT ![t][u] = new]
    BY <1>3, <2>2, <2>3 DEF handleFileComplete, Announced, Writes
  <2>6. written'[t][u] = new
    BY <1>2, <2>5
  <2>7. new # NotYet
    <3>1. Saved(f.chunks) \in Seq(Chunk) /\ f.file \in File
      BY <2>4, SavedType DEF IncomingFile
    <3>2. new \in Saving
      BY <3>1 DEF Saving
    <3> QED BY <3>2, FillerAssumption
  <2>8. tr.to = u /\ u \in CanSave => new = [file |-> tr.file, chunks |-> WholeFile(t)]
    BY <1>1, <2>3, SavedWhole DEF WholeFile
  <2> HIDE DEF new
  <2>9. a + 1 = z + 2 /\ ~(a + 1 <= z + 1)
    BY <1>1, <1>7
  <2> QED BY <1>1, <1>3, <2>6, <2>7, <2>8, <2>9 DEF Got
<1> QED BY <1>1, <1>4, <1>5, <1>6, <1>7

LEMMA ReceiveKeepsSteady ==
  ASSUME Sound, AllSteady, NEW w \in User, Receive(w),
         NEW t \in Thread, sending'[t] # Idle, NEW u \in Recipients(sending'[t]),
         Undisturbed(t, u)'
  PROVE  Steady(t, u)'
<1> DEFINE z == sending[t].size
           from == sending[t].from
           sent == sending[t].sent
           p == inbox[u]
           q == outbox[from]
           h == Head(inbox[w])
           x == h.thread
<1>1. TakesOf(w, x) /\ x \in Thread /\ sending[x] # Idle /\ w \in Recipients(sending[x])
  BY ReceiveTakes
<1>2. /\ sending' = sending /\ outbox' = outbox /\ mixed' = mixed /\ lost' = lost
      /\ inbox' = [inbox EXCEPT ![w] = Tail(@)] /\ inbox[w] # <<>>
  BY <1>1 DEF TakesOf
<1>3. sending[t] # Idle /\ u \in Recipients(sending[t]) /\ Undisturbed(t, u)
  BY <1>2 DEF Undisturbed
<1>4. /\ u \in User /\ from \in User /\ p \in Seq(Frame) /\ q \in Seq(Frame)
      /\ z \in Size /\ z \in Nat /\ sent \in 0..z + 2
  BY <1>3, WayTypes
<1>5. PICK a \in 0..sent, b \in 0..sent : a <= b /\ Advances(t, u, a, b)
  BY <1>3 DEF AllSteady, Steady
<1>6. /\ a \in 0..z + 2 /\ b \in 0..z + 2 /\ a \in Nat
      /\ Carries(p, t, z, a, b) /\ Got(t, u, a)
      /\ Carries(q, t, z, b, sent)
  BY <1>4, <1>5 DEF Advances
<1>7. \A i \in Thread : Sends(i)' <=> Sends(i)
  BY <1>2 DEF Sends
<1>8. CASE w # u
  <2>1. inbox'[u] = p /\ outbox'[from] = q
    BY <1>2, <1>4, <1>8 DEF Sound, FileTypeOK
  <2>2. Got(t, u, a)'
    BY <1>1, <1>2, <1>3, <1>4, <1>6, <1>8, GotStays DEF TakesOf, SameTransfer
  <2>3. ASSUME NEW o \in Thread, Rival(t, o, u) PROVE Apart(t, o, u, a)'
    BY <1>2, <1>5, <1>7, <2>1, <2>3 DEF Advances, Apart, OnTheWay
  <2>4. Advances(t, u, a, b)'
    BY <1>2, <1>6, <2>1, <2>2, <2>3 DEF Advances, Rival
  <2> QED BY <1>2, <1>5, <2>4 DEF Steady
<1>9. CASE w = u
  <2>1. inbox'[u] = Tail(p) /\ outbox'[from] = q /\ p # <<>> /\ h = Head(p)
    BY <1>2, <1>4, <1>9 DEF Sound, FileTypeOK
  <2>2. /\ Tail(p) \in Seq(Frame) /\ InFlight(p) = InFlight(Tail(p)) \cup {x}
    BY <1>4, <2>1, InFlightQueues
  <2>3. \A i, j : Ahead(p, q, i, j) => Ahead(Tail(p), q, i, j)
    BY <1>4, <2>1, AheadWhenTaken
  <2>4. \A o \in Thread : OnTheWay(o, u)' => OnTheWay(o, u)
    BY <1>2, <2>1, <2>2 DEF OnTheWay
  <2>5. CASE x = t
    <3>1. a < b /\ h = Nth(t, z, a) /\ Carries(Tail(p), t, z, a + 1, b)
      BY <1>4, <1>6, <2>1, <2>5, CarriesRest
    <3>2. a \in 0..z + 1 /\ a + 1 \in 0..sent /\ a + 1 <= b /\ a + 1 \in Nat
      BY <1>4, <1>5, <3>1
    <3>3. Got(t, u, a + 1)'
      BY <1>3, <1>4, <1>6, <1>9, <2>1, <3>1, <3>2, NextFrameTaken
    <3>4. ASSUME NEW o \in Thread, Rival(t, o, u) PROVE Apart(t, o, u, a + 1)'
      <4>1. Apart(t, o, u, a) /\ o # t /\ sending[o].from = from
        BY <1>5, <3>4 DEF Advances, Rival
      <4>2. CASE ~Sends(o) /\ Ahead(p, q, o, t)
        <5>1. o \notin InFlight(p) /\ o \notin InFlight(q)
          BY <1>4, <2>1, <2>2, <2>5, <4>1, <4>2, BeforeRest DEF Ahead
        <5>2. ~OnTheWay(o, u)'
          BY <2>4, <4>1, <5>1 DEF OnTheWay
        <5> QED BY <1>2, <1>7, <2>1, <2>3, <4>2, <5>2 DEF Apart
      <4>3. CASE ~Sends(t) /\ Ahead(p, q, t, o)
        BY <1>2, <1>7, <2>1, <2>3, <4>3 DEF Apart
      <4> QED BY <4>1, <4>2, <4>3 DEF Apart
    <3>5. Advances(t, u, a + 1, b)'
      BY <1>2, <1>6, <2>1, <3>1, <3>3, <3>4 DEF Advances, Rival
    <3> QED BY <1>2, <1>5, <3>2, <3>5 DEF Steady
  <2>6. CASE x # t
    <3>1. Carries(Tail(p), t, z, a, b)
      BY <1>4, <1>6, <2>1, <2>6, CarriesRest
    <3>2. sending[x].from = from => a = 0 \/ a = z + 2
      <4> SUFFICES ASSUME sending[x].from = from, a # 0 PROVE a = z + 2
        OBVIOUS
      <4>1. Apart(t, x, u, a) /\ x \in InFlight(p)
        BY <1>1, <1>5, <1>9, <2>2, <2>6 DEF Advances, Rival
      <4>2. ~Sends(t) /\ Ahead(p, q, t, x)
        BY <1>6, <4>1 DEF Apart, OnTheWay
      <4>3. t \notin InFlight(p) /\ t \notin InFlight(q)
        BY <1>4, <2>1, <2>6, <4>1, <4>2, BeforeRest DEF Ahead
      <4>4. a = b /\ b = sent
        BY <1>4, <1>5, <1>6, <4>3, NoneCarried
      <4>5. sent = z + 2
        BY <1>3, <1>4, <4>2 DEF Sends
      <4> QED BY <4>4, <4>5
    <3>3. Got(t, u, a)'
      BY <1>1, <1>2, <1>3, <1>4, <1>6, <1>9, <2>6, <3>2, GotStays DEF TakesOf, SameTransfer
    <3>4. ASSUME NEW o \in Thread, Rival(t, o, u) PROVE Apart(t, o, u, a)'
      <4>1. Apart(t, o, u, a)
        BY <1>5, <3>4 DEF Advances
      <4> QED BY <1>2, <1>7, <2>1, <2>3, <2>4, <4>1 DEF Apart
    <3>5. Advances(t, u, a, b)'
      BY <1>2, <1>6, <2>1, <3>1, <3>3, <3>4 DEF Advances, Rival
    <3> QED BY <1>2, <1>5, <3>5 DEF Steady
  <2> QED BY <2>5, <2>6
<1> QED BY <1>8, <1>9

(* Coming back changes nothing of a transfer, nor does a stutter.           *)
LEMMA UntouchedStaysSteady ==
  ASSUME AllSteady,
         UNCHANGED <<sending, outbox, inbox, incomingFiles, written, lost, mixed>>,
         NEW t \in Thread, sending'[t] # Idle, NEW u \in Recipients(sending'[t]),
         Undisturbed(t, u)'
  PROVE  Steady(t, u)'
<1>1. /\ sending' = sending /\ outbox' = outbox /\ inbox' = inbox
      /\ incomingFiles' = incomingFiles /\ written' = written /\ lost' = lost /\ mixed' = mixed
  OBVIOUS
<1>2. Steady(t, u)
  BY <1>1 DEF AllSteady, Undisturbed
<1>3. PICK a \in 0..sending[t].sent, b \in 0..sending[t].sent : a <= b /\ Advances(t, u, a, b)
  BY <1>2 DEF Steady
<1>4. Got(t, u, a)'
  BY <1>1, <1>3 DEF Advances, Got, WholeFile
<1>5. \A o \in Thread : Rival(t, o, u)' => Apart(t, o, u, a)'
  BY <1>1, <1>3 DEF Advances, Rival, Apart, Sends, OnTheWay
<1>6. Advances(t, u, a, b)'
  BY <1>1, <1>3, <1>4, <1>5 DEF Advances
<1> QED BY <1>1, <1>3, <1>6 DEF Steady

-----------------------------------------------------------------------------
(* The tables. *)

LEMMA CellSet ==
  ASSUME NEW A, NEW B, NEW C, NEW f \in [A -> [B -> C]], NEW a \in A, NEW b \in B, NEW c
  PROVE  /\ c \in C => [f EXCEPT ![a][b] = c] \in [A -> [B -> C]]
         /\ [f EXCEPT ![a][b] = c][a][b] = c
         /\ \A v \in A, s \in B : v # a \/ s # b => [f EXCEPT ![a][b] = c][v][s] = f[v][s]
<1> DEFINE g == [f EXCEPT ![a][b] = c]
<1>1. f[a] \in [B -> C]
  OBVIOUS
<1>2. g[a] = [f[a] EXCEPT ![b] = c] /\ \A v \in A : v # a => g[v] = f[v]
  OBVIOUS
<1>3. g[a][b] = c /\ \A s \in B : s # b => g[a][s] = f[a][s]
  BY <1>1, <1>2
<1>4. ASSUME c \in C PROVE g \in [A -> [B -> C]]
  <2>1. [f[a] EXCEPT ![b] = c] \in [B -> C]
    BY <1>1, <1>4
  <2> QED BY <2>1
<1> QED BY <1>2, <1>3, <1>4

\* What the browser shows of an entry of incomingFiles_.
ShowsOf(f) == IF f = NoFile THEN NoFile ELSE [file |-> f.file, done |-> f.received]

ShownTable == [User -> [User \cup Group -> Shown \cup {NoFile}]]

\* Of the browser's table of u no cell but that of the key has changed.
OnlyCell(table, u, key) ==
  /\ table \in ShownTable
  /\ \A v \in User, k \in User \cup Group : v # u \/ k # key => table[v][k] = fileTransfers[v][k]

(* A message of the bridge changes the cell of its key alone.               *)
LEMMA BrowserCells ==
  ASSUME Sound, NEW u \in User, NEW key \in User \cup Group
  PROVE  /\ \A file \in File :
              /\ OnlyCell(fileStart(u, key, file), u, key)
              /\ OnlyCell(fileComplete(u, key, file), u, key)
              /\ Parses(file) => fileStart(u, key, file)[u][key] = [file |-> file, done |-> 0]
         /\ \A n \in Nat :
              /\ OnlyCell(fileProgress(u, key, n), u, key)
              /\ fileTransfers[u][key] # NoFile =>
                   fileProgress(u, key, n)[u][key] = [file |-> fileTransfers[u][key].file, done |-> n]
<1> DEFINE was == fileTransfers[u][key]
<1>1. fileTransfers \in [User -> [User \cup Group -> Shown \cup {NoFile}]]
  BY DEF Sound, FileTypeOK
<1>2. OnlyCell(fileTransfers, u, key)
  BY <1>1 DEF OnlyCell, ShownTable
<1>3. ASSUME NEW c \in Shown \cup {NoFile}
      PROVE  /\ OnlyCell([fileTransfers EXCEPT ![u][key] = c], u, key)
             /\ [fileTransfers EXCEPT ![u][key] = c][u][key] = c
  <2> DEFINE new == [fileTransfers EXCEPT ![u][key] = c]
             Keys == User \cup Group
             Cells == Shown \cup {NoFile}
  <2>1. fileTransfers \in [User -> [Keys -> Cells]] /\ key \in Keys /\ c \in Cells
    BY <1>1
  <2> HIDE DEF Keys, Cells
  <2>2. /\ new \in [User -> [Keys -> Cells]] /\ new[u][key] = c
        /\ \A v \in User, k \in Keys : v # u \/ k # key => new[v][k] = fileTransfers[v][k]
    BY <2>1, CellSet
  <2> HIDE DEF new
  <2> QED BY <2>2 DEF new, Keys, Cells, OnlyCell, ShownTable
<1>4. ASSUME NEW file \in File
      PROVE  /\ OnlyCell(fileStart(u, key, file), u, key)
             /\ OnlyCell(fileComplete(u, key, file), u, key)
             /\ Parses(file) => fileStart(u, key, file)[u][key] = [file |-> file, done |-> 0]
  <2>1. [file |-> file, done |-> 0] \in Shown
    BY DEF Shown
  <2> QED BY <1>2, <1>3, <2>1 DEF fileStart, fileComplete
<1>5. ASSUME NEW n \in Nat
      PROVE  /\ OnlyCell(fileProgress(u, key, n), u, key)
             /\ was # NoFile =>
                  fileProgress(u, key, n)[u][key] = [file |-> was.file, done |-> n]
  <2> DEFINE now == [file |-> IF was = NoFile THEN NoFile ELSE was.file, done |-> n]
  <2>1. was \in Shown \cup {NoFile}
    BY <1>1
  <2>2. was # NoFile => was.file \in File \cup {NoFile}
    BY <2>1 DEF Shown
  <2>3. now \in Shown
    BY <2>2 DEF Shown
  <2>4. fileProgress(u, key, n) = [fileTransfers EXCEPT ![u][key] = now]
    BY <1>1 DEF fileProgress
  <2>5. was # NoFile => now = [file |-> was.file, done |-> n]
    OBVIOUS
  <2> HIDE DEF now, was
  <2> QED BY <1>3, <2>3, <2>4, <2>5
<1> QED BY <1>4, <1>5

(* A frame changes the receiver's entry for the sender, and the browser     *)
(* keeps showing what the entry says, of a name that JSON.parse accepts.    *)
LEMMA ReceiveCells ==
  ASSUME Sound, NEW u \in User, Receive(u)
  PROVE  LET tr == sending[Head(inbox[u]).thread]
             f == incomingFiles[u][tr.from]
         IN /\ incomingFiles' \in [User -> [User -> IncomingFile \cup {NoFile}]]
            /\ fileTransfers' \in ShownTable
            /\ written' \in [Thread -> [User -> Saving \cup {NotYet}]]
            /\ \A v, s \in User : v # u \/ s # tr.from =>
                 /\ incomingFiles'[v][s] = incomingFiles[v][s]
                 /\ fileTransfers'[v][s] = fileTransfers[v][s]
            /\ Parses(tr.file) /\ fileTransfers[u][tr.from] = ShowsOf(f) =>
                 fileTransfers'[u][tr.from] = ShowsOf(incomingFiles'[u][tr.from])
<1> DEFINE h == Head(inbox[u])
           x == h.thread
           tr == sending[x]
           s0 == tr.from
           f == incomingFiles[u][s0]
           Files == [User -> [User -> IncomingFile \cup {NoFile}]]
           Saves == [Thread -> [User -> Saving \cup {NotYet}]]
           Cell(g) == incomingFiles' = [incomingFiles EXCEPT ![u][s0] = g]
<1>1. x \in Thread /\ h \in Frame /\ tr # Idle /\ h.index \in 0..MaxChunks - 1
  BY ReceiveTakes DEF Frame
<1>2. /\ s0 \in User /\ s0 \in User \cup Group /\ tr.file \in File /\ tr.size \in Size
      /\ MaxChunks \in Nat \ {0}
  BY <1>1, TransferFacts
<1>3. incomingFiles \in Files /\ written \in Saves /\ fileTransfers \in ShownTable
  BY DEF Sound, FileTypeOK, ShownTable
<1>4. f \in IncomingFile \cup {NoFile}
  BY <1>2, <1>3
<1>5. f # NoFile => /\ f.file \in File /\ f.size \in Size /\ f.received \in Nat
                    /\ f.chunks \in [0..MaxChunks - 1 -> Chunk \cup {NotYet}]
  BY <1>4 DEF IncomingFile
<1>6. NoFile \notin Shown /\ NoFile \notin IncomingFile
  BY FillerAssumption
<1> HIDE DEF h, f, tr, Saves
<1>7. ASSUME NEW g \in IncomingFile \cup {NoFile}, Cell(g)
      PROVE  /\ incomingFiles' \in Files /\ incomingFiles'[u][s0] = g
             /\ \A v, s \in User : v # u \/ s # s0 => incomingFiles'[v][s] = incomingFiles[v][s]
  BY <1>2, <1>3, <1>7, CellSet
<1> HIDE DEF Files
<1>8. CASE handleFileMetadata(u)
  <2> DEFINE g == [file |-> tr.file, size |-> tr.size, received |-> 0, chunks |-> Nothing]
  <2>1. Cell(g) /\ fileTransfers' = fileStart(u, s0, tr.file) /\ written' = written
    BY <1>8 DEF handleFileMetadata, Announced, h, tr
  <2>2. g \in IncomingFile /\ ShowsOf(g) = [file |-> tr.file, done |-> 0]
    <3>1. g \in IncomingFile
      BY <1>2 DEF IncomingFile, Nothing
    <3> QED BY <1>6, <3>1 DEF ShowsOf
  <2> HIDE DEF g
  <2>3. /\ incomingFiles' \in Files /\ incomingFiles'[u][s0] = g
        /\ \A v, s \in User : v # u \/ s # s0 => incomingFiles'[v][s] = incomingFiles[v][s]
    BY <1>7, <2>1, <2>2
  <2>4. /\ OnlyCell(fileTransfers', u, s0)
        /\ Parses(tr.file) => fileTransfers'[u][s0] = [file |-> tr.file, done |-> 0]
    BY <1>2, <2>1, BrowserCells
  <2>5. written' \in Saves /\ (Parses(tr.file) => fileTransfers'[u][s0] = ShowsOf(incomingFiles'[u][s0]))
    BY <1>3, <2>1, <2>2, <2>3, <2>4
  <2> QED BY <2>3, <2>4, <2>5 DEF h, f, tr, Files, Saves, OnlyCell
<1>9. CASE handleFileChunk(u)
  <2> DEFINE chunk == [thread |-> x, index |-> h.index]
             g == [f EXCEPT !.received = @ + 1, !.chunks[h.index] = chunk]
  <2>1. written' = written
    BY <1>9 DEF handleFileChunk
  <2>2. CASE SenderKey(tr) = ReceiverKey(u, tr) /\ f # NoFile
    <3>1. Cell(g) /\ fileTransfers' = fileProgress(u, s0, f.received + 1)
      BY <1>9, <2>2 DEF handleFileChunk, Announced, h, tr, f
    <3>2. /\ g.file = f.file /\ g.received = f.received + 1
          /\ g.chunks = [f.chunks EXCEPT ![h.index] = chunk]
          /\ g \in [file : File, size : Size, received : {f.received + 1}, chunks : {g.chunks}]
      BY <1>4, <2>2 DEF IncomingFile
    <3>3. chunk \in Chunk
      BY <1>1 DEF Chunk
    <3>4. f.received + 1 \in Nat
      BY <1>5, <2>2
    <3> HIDE DEF chunk, g
    <3>5. g.chunks \in [0..MaxChunks - 1 -> Chunk \cup {NotYet}]
      BY <1>1, <1>5, <2>2, <3>2, <3>3
    <3>6. g \in IncomingFile
      BY <3>2, <3>4, <3>5 DEF IncomingFile
    <3>7. ShowsOf(g) = [file |-> f.file, done |-> f.received + 1]
      BY <1>6, <3>2, <3>6 DEF ShowsOf
    <3>8. /\ incomingFiles' \in Files /\ incomingFiles'[u][s0] = g
          /\ \A v, s \in User : v # u \/ s # s0 => incomingFiles'[v][s] = incomingFiles[v][s]
      BY <1>7, <3>1, <3>6
    <3>9. /\ OnlyCell(fileTransfers', u, s0)
          /\ fileTransfers[u][s0] # NoFile =>
               fileTransfers'[u][s0] = [file |-> fileTransfers[u][s0].file, done |-> f.received + 1]
      BY <1>2, <3>1, <3>4, BrowserCells
    <3>10. ShowsOf(f) # NoFile /\ ShowsOf(f).file = f.file
      <4>1. [file |-> f.file, done |-> f.received] \in Shown
        BY <1>5, <2>2 DEF Shown
      <4> QED BY <1>6, <2>2, <4>1 DEF ShowsOf
    <3> QED BY <1>3, <2>1, <3>7, <3>8, <3>9, <3>10 DEF h, f, tr, Files, Saves, OnlyCell
  <2>3. CASE ~(SenderKey(tr) = ReceiverKey(u, tr) /\ f # NoFile)
    <3>1. incomingFiles' = incomingFiles /\ fileTransfers' = fileTransfers
      BY <1>9, <2>3 DEF handleFileChunk, Announced, h, tr, f
    <3> QED BY <1>3, <2>1, <3>1 DEF h, f, tr, Files, Saves
  <2> QED BY <2>2, <2>3
<1>10. CASE handleFileComplete(u)
  <2>1. CASE f = NoFile
    <3>1. incomingFiles' = incomingFiles /\ fileTransfers' = fileTransfers /\ written' = written
      BY <1>10, <2>1 DEF handleFileComplete, Announced, h, tr, f
    <3> QED BY <1>3, <3>1 DEF h, f, tr, Files, Saves
  <2>2. CASE f # NoFile
    <3>1. /\ Cell(NoFile) /\ fileTransfers' = fileComplete(u, s0, tr.file)
          /\ Writes(x, u, f)
      BY <1>10, <2>2 DEF handleFileComplete, Announced, h, tr, f
    <3>2. written' \in Saves
      <4> DEFINE new == IF u \in CanSave THEN [file |-> f.file, chunks |-> Saved(f.chunks)]
                        ELSE [file |-> NoFile, chunks |-> <<>>]
      <4>1. Saved(f.chunks) \in Seq(Chunk)
        BY <1>5, <2>2, SavedType
      <4>2. new \in Saving \cup {NotYet}
        BY <1>5, <2>2, <4>1 DEF Saving
      <4>3. written' = [written EXCEPT ![x][u] = new]
        BY <3>1 DEF Writes
      <4> HIDE DEF new
      <4>4. [written EXCEPT ![x][u] = new] \in [Thread -> [User -> Saving \cup {NotYet}]]
        BY <1>1, <1>3, <4>2, CellSet DEF Saves
      <4> QED BY <4>3, <4>4 DEF Saves
    <3>3. /\ incomingFiles' \in Files /\ incomingFiles'[u][s0] = NoFile
          /\ \A v, s \in User : v # u \/ s # s0 => incomingFiles'[v][s] = incomingFiles[v][s]
      BY <1>7, <3>1
    <3>4. /\ OnlyCell(fileTransfers', u, s0)
          /\ Parses(tr.file) => fileTransfers'[u][s0] = NoFile
      <4>1. fileTransfers' = fileComplete(u, s0, tr.file)
        BY <3>1
      <4>2. OnlyCell(fileComplete(u, s0, tr.file), u, s0)
        BY <1>2, BrowserCells
      <4>3. Parses(tr.file) => fileComplete(u, s0, tr.file)[u][s0] = NoFile
        <5>1. [fileTransfers EXCEPT ![u][s0] = NoFile][u][s0] = NoFile
          BY <1>2, <1>3 DEF ShownTable
        <5> QED BY <5>1 DEF fileComplete
      <4> QED BY <4>1, <4>2, <4>3
    <3>5. ShowsOf(NoFile) = NoFile
      BY DEF ShowsOf
    <3> QED BY <3>2, <3>3, <3>4, <3>5 DEF h, f, tr, Files, Saves, OnlyCell
  <2> QED BY <2>1, <2>2
<1> QED BY <1>8, <1>9, <1>10 DEF Receive

-----------------------------------------------------------------------------
(* Every step keeps the types, and the queues to threads that have begun.   *)

LEMMA ThreadsOfQueues ==
  ASSUME NEW q \in Seq(Frame)
  PROVE  InFlight(q) \subseteq Thread
<1>1. \A i \in DOMAIN q : q[i] \in Frame
  OBVIOUS
<1> QED BY <1>1 DEF InFlight, Frame

LEMMA StartKeepsSound ==
  ASSUME Sound, NEW x \in Thread, sendFile(x)
  PROVE  Sound' /\ \A o \in Thread : sending[o] # Idle => sending'[o] = sending[o]
<1>1. PICK from \in User, to \in User \cup Group, file \in File, size \in Size :
        LET tr == [from |-> from, to |-> to, file |-> file, size |-> size, sent |-> 0]
            others == {o \in Thread : /\ Sends(o) /\ sending[o].from = from
                                      /\ Recipients(sending[o]) \cap Recipients(tr) # {}}
        IN /\ sending[x] = Idle /\ to # from
           /\ sending' = [sending EXCEPT ![x] = tr]
           /\ mixed' = IF others = {} THEN mixed ELSE mixed \cup others \cup {x}
           /\ UNCHANGED <<outbox, inbox, up, incomingFiles, fileTransfers, written, lost, leaves>>
  BY DEF sendFile
<1> DEFINE tr == [from |-> from, to |-> to, file |-> file, size |-> size, sent |-> 0]
<1>2. tr \in Transfer /\ tr.sent = 0 /\ tr.size \in Nat
  <2>1. MaxChunks \in Nat /\ 0 \in 0..MaxChunks + 2 /\ size \in Nat
    BY FileAssumption
  <2> QED BY <2>1 DEF Transfer
<1>3. /\ sending' = [sending EXCEPT ![x] = tr] /\ sending[x] = Idle
      /\ UNCHANGED <<outbox, inbox, up, incomingFiles, fileTransfers, written, lost, leaves>>
  BY <1>1
<1>4. mixed' \subseteq Thread
  BY <1>1 DEF Sound, FileTypeOK
<1> HIDE DEF tr
<1>5. /\ sending'[x] = tr /\ \A o \in Thread : o # x => sending'[o] = sending[o]
      /\ sending' \in [Thread -> Transfer \cup {Idle}]
  BY <1>2, <1>3 DEF Sound, FileTypeOK
<1>6. FileTypeOK'
  BY <1>3, <1>4, <1>5 DEF Sound, FileTypeOK
<1>7. TransfersOK'
  <2>1. \A o \in Thread : o # x => sending'[o] = sending[o] /\ written'[o] = written[o]
    BY <1>3, <1>5
  <2>2. tr # Idle /\ tr.sent <= tr.size + 2
    BY <1>2, FillerAssumption
  <2> QED BY <1>5, <2>1, <2>2 DEF Sound, TransfersOK
<1>8. QueuesOK'
  <2>1. \A u \in User : InFlight(outbox'[u]) = InFlight(outbox[u])
                        /\ InFlight(inbox'[u]) = InFlight(inbox[u])
    BY <1>3
  <2>2. ASSUME NEW u \in User, NEW t \in InFlight(outbox[u]) \cup InFlight(inbox[u])
        PROVE  t \in Thread /\ sending'[t] = sending[t]
    <3>1. outbox[u] \in Seq(Frame) /\ inbox[u] \in Seq(Frame)
      BY DEF Sound, FileTypeOK
    <3>2. t \in Thread
      BY <2>2, <3>1, ThreadsOfQueues
    <3> QED BY <1>3, <1>5, <2>2, <3>2, NothingBefore
  <2> QED BY <2>1, <2>2 DEF Sound, QueuesOK
<1> QED BY <1>3, <1>5, <1>6, <1>7, <1>8 DEF Sound

LEMMA SendKeepsSound ==
  ASSUME Sound, NEW x \in Thread, Proceeds(x)
  PROVE  Sound'
<1> DEFINE tr == sending[x]
           f == Nth(x, tr.size, tr.sent)
<1>1. SendsNext(x)
  BY ProceedsSends
<1>2. /\ \A o \in Thread : o # x => sending'[o] = sending[o]
      /\ \A o \in Thread : sending[o] # Idle => SameTransfer(o)
      /\ \A o \in Thread : sending'[o] # Idle => sending[o] # Idle
      /\ sending'[x] \in Transfer /\ sending'[x].sent = sending[x].sent + 1
      /\ sending[x].sent \in 0..sending[x].size + 1
  BY <1>1, SentTransfers
<1>3. /\ tr # Idle /\ tr \in Transfer /\ tr.from \in User /\ tr.to \in User \cup Group
      /\ tr.size \in Size /\ tr.size \in Nat /\ tr.sent \in Nat /\ Recipients(tr) \subseteq User
  BY <1>1, TransferFacts DEF SendsNext, Sends
<1>4. f \in Frame /\ f.thread = x
  BY <1>2, <1>3, NthFrames
<1>5. /\ outbox' = outbox \/ outbox' = [outbox EXCEPT ![tr.from] = Append(@, f)]
      /\ lost' = lost \/ lost' = lost \cup ({x} \X Recipients(tr))
      /\ UNCHANGED <<inbox, up, incomingFiles, written, mixed, leaves>>
  BY <1>1 DEF SendsNext
<1> HIDE DEF f
<1>6. sending' \in [Thread -> Transfer \cup {Idle}]
  <2>1. DOMAIN sending' = Thread /\ sending' = [o \in Thread |-> sending'[o]]
    BY <1>1 DEF SendsNext, Sound, FileTypeOK
  <2>2. \A o \in Thread : sending'[o] \in Transfer \cup {Idle}
    BY <1>2 DEF Sound, FileTypeOK
  <2> QED BY <2>1, <2>2
<1>7. fileTransfers' \in ShownTable
  <2>1. CASE UNCHANGED fileTransfers
    BY <2>1 DEF Sound, FileTypeOK, ShownTable
  <2>2. CASE fileTransfers' = fileProgress(tr.from, tr.to, tr.sent)
    BY <1>3, <2>2, BrowserCells DEF OnlyCell
  <2> QED BY <2>1, <2>2 DEF Proceeds, SendMeta, SendChunk, SendComplete
<1>8. outbox' \in [User -> Seq(Frame)] /\ lost' \subseteq Thread \X User
  <2>1. outbox \in [User -> Seq(Frame)] /\ lost \subseteq Thread \X User
    BY DEF Sound, FileTypeOK
  <2>2. Append(outbox[tr.from], f) \in Seq(Frame)
    BY <1>3, <1>4, <2>1
  <2> QED BY <1>3, <1>5, <2>1, <2>2
<1>9. FileTypeOK'
  BY <1>5, <1>6, <1>7, <1>8 DEF Sound, FileTypeOK, ShownTable
<1>10. TransfersOK'
  <2>1. \A o \in Thread : sending[o] = Idle <=> sending'[o] = Idle
    BY <1>2 DEF SameTransfer
  <2>2. sending'[x].sent <= sending'[x].size + 2
    <3>1. sending'[x].size = tr.size
      BY <1>2, <1>3 DEF SameTransfer
    <3> QED BY <1>2, <1>3, <3>1
  <2> QED BY <1>2, <1>3, <1>5, <2>1, <2>2 DEF Sound, TransfersOK
<1>11. QueuesOK'
  <2>1. ASSUME NEW u \in User
        PROVE  /\ \A t \in InFlight(outbox[u]) : t \in Thread
               /\ \A t \in InFlight(inbox[u]) : t \in Thread
    <3>1. outbox[u] \in Seq(Frame) /\ inbox[u] \in Seq(Frame)
      BY DEF Sound, FileTypeOK
    <3> QED BY <3>1, ThreadsOfQueues
  <2>2. \A u \in User : InFlight(outbox'[u]) \subseteq
                          InFlight(outbox[u]) \cup (IF u = tr.from THEN {x} ELSE {})
    <3> TAKE u \in User
    <3>1. outbox \in [User -> Seq(Frame)]
      BY DEF Sound, FileTypeOK
    <3>2. outbox'[u] = outbox[u] \/ (u = tr.from /\ outbox'[u] = Append(outbox[u], f))
      BY <1>3, <1>5, <3>1
    <3>3. InFlight(Append(outbox[u], f)) = InFlight(outbox[u]) \cup {x}
      BY <1>4, <3>1, InFlightQueues
    <3> QED BY <3>2, <3>3
  <2>3. \A t \in Thread : sending[t] # Idle => /\ sending'[t] # Idle
                                               /\ sending'[t].from = sending[t].from
                                               /\ Recipients(sending'[t]) = Recipients(sending[t])
    BY <1>2 DEF SameTransfer
  <2>4. ASSUME NEW u \in User, NEW t \in InFlight(outbox'[u])
        PROVE  sending'[t] # Idle /\ sending'[t].from = u
    BY <1>3, <2>1, <2>2, <2>3 DEF Sound, QueuesOK
  <2>5. ASSUME NEW u \in User, NEW t \in InFlight(inbox'[u])
        PROVE  sending'[t] # Idle /\ u \in Recipients(sending'[t])
    BY <1>5, <2>1, <2>3 DEF Sound, QueuesOK
  <2> QED BY <2>4, <2>5 DEF QueuesOK
<1> QED BY <1>9, <1>10, <1>11 DEF Sound

LEMMA RouteKeepsSound ==
  ASSUME Sound, NEW w \in User, Route(w)
  PROVE  Sound'
<1> DEFINE f == Head(outbox[w])
           x == f.thread
           targets == Recipients(sending[x])
<1>1. /\ outbox[w] # <<>> /\ outbox' = [outbox EXCEPT ![w] = Tail(@)]
      /\ inbox' = [v \in User |-> IF v \in targets \cap up THEN Append(inbox[v], f) ELSE inbox[v]]
      /\ lost' = lost \cup ({x} \X (targets \ up))
      /\ UNCHANGED <<sending, up, incomingFiles, fileTransfers, written, mixed, leaves>>
  BY DEF Route
<1>2. /\ outbox \in [User -> Seq(Frame)] /\ inbox \in [User -> Seq(Frame)]
      /\ lost \subseteq Thread \X User
  BY DEF Sound, FileTypeOK
<1>3. /\ f \in Frame /\ x \in InFlight(outbox[w]) /\ Tail(outbox[w]) \in Seq(Frame)
      /\ InFlight(Tail(outbox[w])) \subseteq InFlight(outbox[w])
  BY <1>1, <1>2, InFlightQueues
<1>4. x \in Thread /\ sending[x] # Idle /\ targets \subseteq User
  <2>1. x \in Thread
    BY <1>3 DEF Frame
  <2>2. sending[x] # Idle
    BY <1>3 DEF Sound, QueuesOK
  <2> QED BY <2>1, <2>2, TransferFacts
<1> HIDE DEF f, targets
<1>5. /\ outbox' \in [User -> Seq(Frame)] /\ inbox' \in [User -> Seq(Frame)]
      /\ lost' \subseteq Thread \X User
  BY <1>1, <1>2, <1>3, <1>4
<1>6. FileTypeOK'
  BY <1>1, <1>5 DEF Sound, FileTypeOK
<1>7. TransfersOK'
  BY <1>1 DEF Sound, TransfersOK
<1>8. ASSUME NEW u \in User
      PROVE  /\ InFlight(outbox'[u]) \subseteq InFlight(outbox[u])
             /\ \A t \in InFlight(inbox'[u]) : t \in InFlight(inbox[u]) \/ (t = x /\ u \in targets)
  <2>1. outbox'[u] = IF u = w THEN Tail(outbox[w]) ELSE outbox[u]
    BY <1>1, <1>2
  <2>2. inbox'[u] = IF u \in targets \cap up THEN Append(inbox[u], f) ELSE inbox[u]
    BY <1>1
  <2>3. InFlight(Append(inbox[u], f)) = InFlight(inbox[u]) \cup {x}
    BY <1>2, <1>3, InFlightQueues
  <2> QED BY <1>3, <2>1, <2>2, <2>3
<1>9. QueuesOK'
  BY <1>1, <1>4, <1>8 DEF Sound, QueuesOK, targets
<1> QED BY <1>6, <1>7, <1>9 DEF Sound

LEMMA LeaveKeepsSound ==
  ASSUME Sound, NEW w \in User, Leaves(w)
  PROVE  Sound'
<1>1. /\ up' = up \ {w} /\ leaves < MaxLeaves /\ leaves' = leaves + 1
      /\ outbox' = [outbox EXCEPT ![w] = <<>>] /\ inbox' = [inbox EXCEPT ![w] = <<>>]
      /\ lost' = lost \cup (InFlight(inbox[w]) \X {w})
                   \cup UNION {{t} \X Recipients(sending[t]) : t \in InFlight(outbox[w])}
      /\ UNCHANGED <<sending, incomingFiles, fileTransfers, written, mixed>>
  BY DEF Leaves
<1>2. /\ outbox \in [User -> Seq(Frame)] /\ inbox \in [User -> Seq(Frame)]
      /\ lost \subseteq Thread \X User /\ up \subseteq User /\ leaves \in 0..MaxLeaves
  BY DEF Sound, FileTypeOK
<1>3. /\ \A t \in InFlight(outbox[w]) : t \in Thread /\ Recipients(sending[t]) \subseteq User
      /\ \A t \in InFlight(inbox[w]) : t \in Thread
  <2>1. /\ \A t \in InFlight(outbox[w]) : t \in Thread
        /\ \A t \in InFlight(inbox[w]) : t \in Thread
    BY <1>2, ThreadsOfQueues
  <2>2. \A t \in InFlight(outbox[w]) : sending[t] # Idle
    BY DEF Sound, QueuesOK
  <2> QED BY <2>1, <2>2, TransferFacts
<1>4. lost' \subseteq Thread \X User
  BY <1>1, <1>2, <1>3
<1>5. leaves' \in 0..MaxLeaves
  BY <1>1, <1>2, FileAssumption
<1>6. outbox' \in [User -> Seq(Frame)] /\ inbox' \in [User -> Seq(Frame)] /\ up' \subseteq User
  BY <1>1, <1>2
<1>7. FileTypeOK'
  BY <1>1, <1>4, <1>5, <1>6 DEF Sound, FileTypeOK
<1>8. TransfersOK'
  BY <1>1 DEF Sound, TransfersOK
<1>9. \A u \in User : /\ InFlight(outbox'[u]) \subseteq InFlight(outbox[u])
                      /\ InFlight(inbox'[u]) \subseteq InFlight(inbox[u])
  <2>1. InFlight(<<>>) = {}
    BY DEF InFlight
  <2>2. \A u \in User : /\ outbox'[u] = outbox[u] \/ outbox'[u] = <<>>
                        /\ inbox'[u] = inbox[u] \/ inbox'[u] = <<>>
    BY <1>1, <1>2
  <2> QED BY <2>1, <2>2
<1>10. QueuesOK'
  BY <1>1, <1>9 DEF Sound, QueuesOK
<1> QED BY <1>7, <1>8, <1>10 DEF Sound

LEMMA ReceiveKeepsSound ==
  ASSUME Sound, NEW w \in User, Receive(w)
  PROVE  Sound'
<1> DEFINE x == Head(inbox[w]).thread
<1>1. TakesOf(w, x) /\ x \in Thread /\ sending[x] # Idle
  BY ReceiveTakes
<1>2. /\ inbox[w] # <<>> /\ inbox' = [inbox EXCEPT ![w] = Tail(@)]
      /\ UNCHANGED <<sending, outbox, up, lost, mixed, leaves>>
      /\ \A t \in Thread, v \in User : t # x \/ v # w => written'[t][v] = written[t][v]
  BY <1>1 DEF TakesOf
<1>3. /\ incomingFiles' \in [User -> [User -> IncomingFile \cup {NoFile}]]
      /\ fileTransfers' \in ShownTable
      /\ written' \in [Thread -> [User -> Saving \cup {NotYet}]]
  BY ReceiveCells
<1>4. inbox \in [User -> Seq(Frame)]
  BY DEF Sound, FileTypeOK
<1>5. Tail(inbox[w]) \in Seq(Frame) /\ InFlight(Tail(inbox[w])) \subseteq InFlight(inbox[w])
  <2>1. Head(inbox[w]) \in Frame
    BY <1>2, <1>4
  <2> QED BY <1>2, <1>4, <2>1, InFlightQueues
<1>6. inbox' \in [User -> Seq(Frame)]
      /\ \A u \in User : InFlight(inbox'[u]) \subseteq InFlight(inbox[u])
  BY <1>2, <1>4, <1>5
<1>7. FileTypeOK'
  BY <1>2, <1>3, <1>6 DEF Sound, FileTypeOK, ShownTable
<1>8. TransfersOK'
  BY <1>1, <1>2 DEF Sound, TransfersOK
<1>9. QueuesOK'
  BY <1>2, <1>6 DEF Sound, QueuesOK
<1> QED BY <1>7, <1>8, <1>9 DEF Sound

-----------------------------------------------------------------------------
(* What the browsers show. *)

LEMMA ShownIsKept ==
  ASSUME Sound, ShownIsIncoming, NEW u \in User, NEW s \in User,
         \A o \in Thread : sending[o] # Idle =>
           /\ sending'[o] # Idle /\ sending'[o].from = sending[o].from
           /\ sending'[o].to = sending[o].to /\ sending'[o].file = sending[o].file,
         ~SentTo(u, s)', ~Garbled(s)'
  PROVE  ~SentTo(u, s) /\ ~Garbled(s) /\ fileTransfers[u][s] = ShowsOf(incomingFiles[u][s])
<1>1. ~SentTo(u, s)
  BY DEF SentTo
<1>2. ~Garbled(s)
  BY DEF Garbled, Parses
<1> QED BY <1>1, <1>2 DEF ShownIsIncoming, ShowsOf

LEMMA StepKeepsShown ==
  ASSUME Sound, ShownIsIncoming, Next
  PROVE  ShownIsIncoming'
<1> SUFFICES ASSUME NEW u \in User, NEW s \in User, ~SentTo(u, s)', ~Garbled(s)'
             PROVE  fileTransfers'[u][s] = ShowsOf(incomingFiles'[u][s])
  BY DEF ShownIsIncoming, ShowsOf
<1> DEFINE Same == \A o \in Thread : sending[o] # Idle =>
                     /\ sending'[o] # Idle /\ sending'[o].from = sending[o].from
                     /\ sending'[o].to = sending[o].to /\ sending'[o].file = sending[o].file
           Was == ~SentTo(u, s) /\ ~Garbled(s) /\ fileTransfers[u][s] = ShowsOf(incomingFiles[u][s])
<1>1. Same => Was
  BY ShownIsKept
<1> HIDE DEF Same, Was
<1>2. CASE sending' = sending /\ UNCHANGED <<incomingFiles, fileTransfers>>
  <2>1. Same
    BY <1>2 DEF Same
  <2> QED BY <1>1, <1>2, <2>1 DEF Was
<1>3. ASSUME NEW x \in Thread, sendFile(x)
      PROVE  fileTransfers'[u][s] = ShowsOf(incomingFiles'[u][s])
  <2>1. Same
    BY <1>3, StartKeepsSound DEF Same
  <2>2. UNCHANGED <<incomingFiles, fileTransfers>>
    BY <1>3 DEF sendFile
  <2> QED BY <1>1, <2>1, <2>2 DEF Was
<1>4. ASSUME NEW x \in Thread, Proceeds(x)
      PROVE  fileTransfers'[u][s] = ShowsOf(incomingFiles'[u][s])
  <2>1. SendsNext(x)
    BY <1>4, ProceedsSends
  <2>2. Same
    BY <2>1, SentTransfers DEF SameTransfer, Same
  <2>3. /\ sending[x] # Idle /\ sending[x].from \in User /\ sending[x].to \in User \cup Group
        /\ sending[x].sent \in Nat
    BY <2>1, TransferFacts DEF SendsNext, Sends
  <2>4. incomingFiles' = incomingFiles
    BY <2>1 DEF SendsNext
  <2>5. ~(sending[x].from = u /\ sending[x].to = s)
    BY <1>1, <2>2, <2>3 DEF Was, SentTo
  <2>6. fileTransfers'[u][s] = fileTransfers[u][s]
    <3>1. CASE UNCHANGED fileTransfers
      BY <3>1
    <3>2. CASE fileTransfers' = fileProgress(sending[x].from, sending[x].to, sending[x].sent)
      <4>1. OnlyCell(fileTransfers', sending[x].from, sending[x].to)
        BY <2>3, <3>2, BrowserCells
      <4> QED BY <2>5, <4>1 DEF OnlyCell
    <3> QED BY <1>4, <3>1, <3>2 DEF Proceeds, SendMeta, SendChunk, SendComplete
  <2> QED BY <1>1, <2>2, <2>4, <2>6 DEF Was
<1>5. ASSUME NEW w \in User, Receive(w)
      PROVE  fileTransfers'[u][s] = ShowsOf(incomingFiles'[u][s])
  <2> DEFINE x == Head(inbox[w]).thread
             from == sending[x].from
  <2>1. x \in Thread /\ sending[x] # Idle /\ sending' = sending
    BY <1>5, ReceiveTakes DEF TakesOf
  <2>2. Was
    BY <1>1, <2>1 DEF Same
  <2>3. /\ u # w \/ s # from => /\ incomingFiles'[u][s] = incomingFiles[u][s]
                                /\ fileTransfers'[u][s] = fileTransfers[u][s]
        /\ Parses(sending[x].file) /\ fileTransfers[w][from] = ShowsOf(incomingFiles[w][from]) =>
             fileTransfers'[w][from] = ShowsOf(incomingFiles'[w][from])
    BY <1>5, ReceiveCells
  <2>4. s = from => Parses(sending[x].file)
    BY <2>1, <2>2 DEF Was, Garbled
  <2> QED BY <2>2, <2>3, <2>4 DEF Was
<1>6. ASSUME NEW w \in User, Route(w) \/ Leaves(w) \/ Returns(w)
      PROVE  fileTransfers'[u][s] = ShowsOf(incomingFiles'[u][s])
  BY <1>2, <1>6 DEF Route, Leaves, Returns
<1> QED BY <1>3, <1>4, <1>5, <1>6 DEF Next

-----------------------------------------------------------------------------
(* The invariant holds at first and after every step. *)

LEMMA FileInitially ==
  ASSUME Init
  PROVE  FileInv
<1>1. /\ <<>> \in Seq(Frame) /\ InFlight(<<>>) = {}
      /\ 0 \in 0..MaxLeaves
  BY FileAssumption DEF InFlight
<1>2. FileTypeOK
  BY <1>1 DEF Init, FileTypeOK
<1>3. TransfersOK
  BY DEF Init, TransfersOK
<1>4. QueuesOK
  <2>1. \A u \in User : InFlight(outbox[u]) = {} /\ InFlight(inbox[u]) = {}
    BY <1>1 DEF Init
  <2> QED BY <2>1 DEF QueuesOK
<1>5. ShownIsIncoming
  BY DEF Init, ShownIsIncoming
<1>6. AllSteady
  BY DEF Init, AllSteady
<1> QED BY <1>2, <1>3, <1>4, <1>5, <1>6 DEF FileInv, Sound

LEMMA FileStep ==
  ASSUME FileInv, Next
  PROVE  FileInv'
<1>1. Sound /\ ShownIsIncoming /\ AllSteady
  BY DEF FileInv
<1>2. ShownIsIncoming'
  BY <1>1, StepKeepsShown
<1> DEFINE Kept == Sound' /\ \A t \in Thread : sending'[t] # Idle =>
                     \A u \in Recipients(sending'[t]) : Undisturbed(t, u)' => Steady(t, u)'
<1>3. ASSUME NEW x \in Thread, sendFile(x) PROVE Kept
  BY <1>1, <1>3, StartKeepsSound, StartKeepsSteady
<1>4. ASSUME NEW x \in Thread, Proceeds(x) PROVE Kept
  <2>1. SendsNext(x)
    BY <1>1, <1>4, ProceedsSends
  <2> QED BY <1>1, <1>4, <2>1, SendKeepsSound, SendKeepsSteady
<1>5. ASSUME NEW w \in User, Route(w) PROVE Kept
  BY <1>1, <1>5, RouteKeepsSound, RouteKeepsSteady
<1>6. ASSUME NEW w \in User, Receive(w) PROVE Kept
  BY <1>1, <1>6, ReceiveKeepsSound, ReceiveKeepsSteady
<1>7. ASSUME NEW w \in User, Leaves(w) PROVE Kept
  BY <1>1, <1>7, LeaveKeepsSound, LeaveKeepsSteady
<1>8. ASSUME NEW w \in User, Returns(w) PROVE Kept
  <2>1. Sound'
    BY <1>1, <1>8 DEF Returns, Sound, FileTypeOK, TransfersOK, QueuesOK
  <2>2. UNCHANGED <<sending, outbox, inbox, incomingFiles, written, lost, mixed>>
    BY <1>8 DEF Returns
  <2> QED BY <1>1, <2>1, <2>2, UntouchedStaysSteady
<1>9. Kept
  BY <1>3, <1>4, <1>5, <1>6, <1>7, <1>8 DEF Next
<1> QED BY <1>2, <1>9 DEF FileInv, AllSteady

LEMMA FileStutter ==
  ASSUME FileInv, UNCHANGED vars
  PROVE  FileInv'
<1>1. Sound'
  BY DEF FileInv, vars, Sound, FileTypeOK, TransfersOK, QueuesOK
<1>2. ShownIsIncoming'
  BY DEF FileInv, vars, ShownIsIncoming, SentTo, Garbled
<1>3. AllSteady'
  <2>1. AllSteady /\ UNCHANGED <<sending, outbox, inbox, incomingFiles, written, lost, mixed>>
    BY DEF FileInv, vars
  <2>2. ASSUME NEW t \in Thread, sending'[t] # Idle, NEW u \in Recipients(sending'[t]),
               Undisturbed(t, u)'
        PROVE  Steady(t, u)'
    BY <2>1, <2>2, UntouchedStaysSteady
  <2> QED BY <2>2 DEF AllSteady
<1> QED BY <1>1, <1>2, <1>3 DEF FileInv

THEOREM FileInvariant == Spec => []FileInv
<1>1. Init => FileInv
  BY FileInitially
<1>2. FileInv /\ [Next]_vars => FileInv'
  BY FileStep, FileStutter
<1> QED BY <1>1, <1>2, PTL DEF Spec

-----------------------------------------------------------------------------
(* The theorems. *)

(* The threads of sendFile, the queues, incomingFiles_ of every client and  *)
(* the browsers' tables always hold what they are declared to: in           *)
(* particular an entry keeps a place for every chunk, and what is saved is  *)
(* a sequence of chunks, whatever came and in whatever order.               *)
(* (ClientCore.cpp:108-203, 218-360; chatStore.js:147-178.)                 *)
THEOREM FileTyping == Spec => []FileTypeOK
<1>1. FileInv => FileTypeOK
  BY DEF FileInv, Sound
<1> QED BY <1>1, FileInvariant, PTL

(* A file sent to one user is saved under its name and whole, each chunk    *)
(* once and in order, if its frames all arrived and the sender sent that    *)
(* user no other file meanwhile: of any size, after any number of           *)
(* connections that ended and of files that mixed or broke off, also from   *)
(* the same sender.  (ClientCore.cpp:108-203, 218-360.)                     *)
THEOREM UndisturbedFilesAreWhole == Spec => []WholeUnlessDisturbed
<1>1. FileInv => WholeUnlessDisturbed
  <2> SUFFICES ASSUME FileInv, NEW t \in Thread, NEW u \in CanSave,
                      written[t][u] # NotYet, sending[t].to = u, Undisturbed(t, u)
               PROVE  written[t][u] = [file |-> sending[t].file, chunks |-> WholeFile(t)]
    BY DEF WholeUnlessDisturbed
  <2>1. Sound /\ AllSteady /\ u \in User
    BY FileAssumption DEF FileInv
  <2>2. sending[t] # Idle
    BY <2>1 DEF Sound, TransfersOK
  <2>3. u \in Recipients(sending[t])
    <3>1. u \notin Group
      BY <2>1, FileAssumption
    <3> QED BY <3>1 DEF Recipients
  <2>4. PICK a \in 0..sending[t].sent, b \in 0..sending[t].sent : a <= b /\ Advances(t, u, a, b)
    BY <2>1, <2>2, <2>3 DEF AllSteady, Steady
  <2>5. sending[t].sent \in Nat /\ sending[t].size \in Nat /\ sending[t].sent <= sending[t].size + 2
    BY <2>1, <2>2, TransferFacts
  <2>6. Got(t, u, a) /\ a \in Nat /\ a <= sending[t].size + 2
    BY <2>4, <2>5 DEF Advances
  <2>7. a = sending[t].size + 2
    BY <2>5, <2>6 DEF Got
  <2> QED BY <2>6, <2>7 DEF Got
<1> QED BY <1>1, FileInvariant, PTL

(* Of a sender to whom a user sends nothing, its browser shows exactly the  *)
(* file that is being received, by its name and the chunks that have come,  *)
(* over any number of lost and mixed transfers, unless the sender has used  *)
(* a name makeJson garbles.  (chatStore.js:147-178.)                        *)
THEOREM BrowsersShowWhatComes == Spec => []ShownIsIncoming
<1>1. FileInv => ShownIsIncoming
  BY DEF FileInv
<1> QED BY <1>1, FileInvariant, PTL

(* When the sender is through and none of its frames is on the way to a     *)
(* recipient, the recipient has completed the file, unless it was           *)
(* disturbed: no undisturbed file is dropped at FILE_COMPLETE for want of   *)
(* an entry, empty ones and those of groups included.  (sendFile,           *)
(* ClientCore.cpp:183-192, routeFileRaw, handleFileComplete.)               *)
THEOREM UndisturbedFilesArrive == Spec => []ArrivedWhenQuiet
<1>1. FileInv => ArrivedWhenQuiet
  <2> SUFFICES ASSUME FileInv, NEW t \in Thread, sending[t] # Idle, ~Sends(t),
                      NEW u \in Recipients(sending[t]), ~OnTheWay(t, u), Undisturbed(t, u)
               PROVE  written[t][u] # NotYet
    BY DEF ArrivedWhenQuiet
  <2> DEFINE z == sending[t].size
             sent == sending[t].sent
  <2>1. Sound /\ AllSteady
    BY DEF FileInv
  <2>2. /\ inbox[u] \in Seq(Frame) /\ outbox[sending[t].from] \in Seq(Frame)
        /\ z \in Size /\ z \in Nat /\ sent \in 0..z + 2
    BY <2>1, WayTypes
  <2>3. sent = z + 2
    BY <2>2 DEF Sends
  <2>4. PICK a \in 0..sent, b \in 0..sent : a <= b /\ Advances(t, u, a, b)
    BY <2>1 DEF AllSteady, Steady
  <2>5. /\ Carries(inbox[u], t, z, a, b) /\ Carries(outbox[sending[t].from], t, z, b, sent)
        /\ Got(t, u, a)
    BY <2>4 DEF Advances
  <2>6. t \notin InFlight(inbox[u]) /\ t \notin InFlight(outbox[sending[t].from])
    BY DEF OnTheWay
  <2>7. a \in 0..z + 2 /\ b \in 0..z + 2 /\ sent \in 0..z + 2 /\ b <= sent
    BY <2>2, <2>3
  <2>8. a = b
    BY <2>2, <2>4, <2>5, <2>6, <2>7, NoneCarried
  <2>9. b = sent
    BY <2>2, <2>5, <2>6, <2>7, NoneCarried
  <2> QED BY <2>3, <2>5, <2>8, <2>9 DEF Got
<1> QED BY <1>1, FileInvariant, PTL

=============================================================================
