--------------------------- MODULE ChatStoreProofs ---------------------------
(***************************************************************************)
(* Proofs about the chat page, for any users, groups and messages, and any *)
(* number of messages, clicks, reports and loads of the page.  What the    *)
(* conversions of the bridge make of a text stays closed, but for the      *)
(* hypothesis ConversionsFaithful of the last theorem.                     *)
(***************************************************************************)
EXTENDS ChatProperties, FiniteSetTheorems, TLAPS

-----------------------------------------------------------------------------
(* The inductive invariant. *)

\* x names a message, with the sender and the conversation it is of.
Names(x) ==
  x.n \in DOMAIN mail /\ mail[x.n].in = x.in /\ mail[x.n].from = x.from

\* The events and the commands that refer to a message as they should.
GoodEvent(x) ==
  /\ x.type = "message" => x.n \in DOMAIN mail
  /\ x.type = "decrypted" =>
       Names(x) /\ x.text \in Decrypted[mail[x.n], SendersKey(mail[x.n])]

GoodCommand(x) == x.type = "decrypt" => Names(x)

\* Whatever refers to a message refers to one the client core has reported.
GotNumbered == \A i \in DOMAIN got : got[i] \in DOMAIN mail

StoreNumbered ==
  \A c \in Contact : \A i \in Theirs(page, c) :
    LET e == page.messages[c][i]
    IN e.n \in DOMAIN mail /\ mail[e.n].in = c /\ mail[e.n].from = e.from

EventsNumbered == \A i \in DOMAIN events : GoodEvent(events[i])

CommandsNumbered ==
  \A k \in DOMAIN commands : \A i \in DOMAIN commands[k] : GoodCommand(commands[k][i])

Numbered == GotNumbered /\ StoreNumbered /\ EventsNumbered /\ CommandsNumbered

\* The contact in view has nothing unread.
InView == \A c \in Contact : page.currentContact = c => page.unreadCounts[c] = 0

\* Where the next answer about the sender f goes in the conversation q: the
\* last message from f that is not decrypted.
IsNext(q, f, i) ==
  /\ i \in DOMAIN q /\ q[i].from = f /\ q[i].decrypted = {}
  /\ \A j \in DOMAIN q : j > i => q[j].from # f \/ q[j].decrypted # {}

\* A request to decrypt a message from f in c, or its answer.
Asks(x, c, f) == x.type \in {"decrypt", "decrypted"} /\ x.in = c /\ x.from = f

\* Of the requests about f in c there is at most one, and it is for message n.
OnlyFor(queues, answers, c, f, n) ==
  /\ \A k \in DOMAIN queues : \A i \in DOMAIN queues[k] :
       Asks(queues[k][i], c, f) =>
         /\ queues[k][i].n = n
         /\ \A l \in DOMAIN queues : \A j \in DOMAIN queues[l] :
              Asks(queues[l][j], c, f) => k = l /\ i = j
         /\ \A j \in DOMAIN answers : ~Asks(answers[j], c, f)
  /\ \A i \in DOMAIN answers :
       Asks(answers[i], c, f) =>
         /\ answers[i].n = n
         /\ \A j \in DOMAIN answers : Asks(answers[j], c, f) => i = j

\* A user who was not hasty has asked at most for the message that the next
\* answer goes to.
Aimed ==
  \A c \in Contact, f \in Peer : <<c, f>> \notin hasty =>
    \A i \in DOMAIN page.messages[c] : IsNext(page.messages[c], f, i) =>
      OnlyFor(commands, events, c, f, page.messages[c][i].n)

ChatInv == ChatTypeOK /\ Numbered /\ InView /\ ConversationsComplete /\ Aimed

-----------------------------------------------------------------------------
(* Sequences. *)

LEMMA Appended ==
  ASSUME NEW S, NEW q \in Seq(S), NEW x, NEW r, r = Append(q, x)
  PROVE  /\ Len(q) \in Nat /\ DOMAIN q = 1..Len(q) /\ DOMAIN r = 1..(Len(q) + 1)
         /\ r[Len(q) + 1] = x /\ Len(q) + 1 \in DOMAIN r
         /\ \A i \in DOMAIN q : i \in DOMAIN r /\ r[i] = q[i] /\ i < Len(q) + 1
         /\ \A i \in DOMAIN r : i \in DOMAIN q \/ i = Len(q) + 1
  OBVIOUS

LEMMA Shortened ==
  ASSUME NEW S, NEW q \in Seq(S), q # <<>>, NEW r, r = Tail(q)
  PROVE  /\ r \in Seq(S) /\ Head(q) \in S /\ Head(q) = q[1] /\ 1 \in DOMAIN q
         /\ DOMAIN q \subseteq Nat /\ DOMAIN r \subseteq Nat \ {0}
         /\ \A i \in DOMAIN r : i + 1 \in DOMAIN q /\ r[i] = q[i + 1]
         /\ \A i \in DOMAIN q : i = 1 \/ (i - 1 \in DOMAIN r /\ r[i - 1] = q[i])
  OBVIOUS

LEMMA InPrefixes ==
  ASSUME NEW S, NEW q \in Seq(S), NEW r \in Prefixes(q)
  PROVE  /\ r \in Seq(S) /\ DOMAIN r \subseteq DOMAIN q
         /\ \A i \in DOMAIN r : r[i] = q[i]
<1>1. PICK l \in 0..Len(q) : r = SubSeq(q, 1, l)
  BY DEF Prefixes
<1>2. Len(r) = l /\ \A i \in 1..l : r[i] = q[i] /\ q[i] \in S
  BY <1>1
<1>3. r \in Seq(S)
  BY <1>1, <1>2
<1> QED BY <1>2, <1>3

LEMMA OfSequence ==
  ASSUME NEW S, NEW q \in Seq(S), NEW i \in DOMAIN q
  PROVE  q[i] \in S /\ i \in Nat \ {0}
  OBVIOUS

(* A non-empty set of natural numbers has a least element. *)
LEMMA LeastOf ==
  ASSUME NEW T, T \subseteq Nat, T # {}
  PROVE  \E x \in T : \A y \in T : x <= y
<1> DEFINE R == OpToRel(<, Nat)
<1>1. PICK x \in T : \A y \in T : ~(<<y, x>> \in R)
  BY NatLessThanWellFounded, WFMin
<1>2. \A y \in T : ~(y < x)
  BY <1>1 DEF OpToRel
<1> QED BY <1>2

(* A non-empty set of positions has a last one. *)
LEMMA MaxOfPositions ==
  ASSUME NEW L \in Nat, NEW I, I \subseteq 1..L, I # {}
  PROVE  Max(I) \in I /\ \A i \in I : Max(I) >= i
<1> DEFINE T == {k \in Nat : L - k \in I}
<1>1. PICK i \in I : TRUE
  OBVIOUS
<1>2. L - i \in T
  BY <1>1
<1>3. PICK x \in T : \A y \in T : x <= y
  BY <1>2, LeastOf
<1>4. L - x \in I /\ x \in Nat
  BY <1>3
<1>5. ASSUME NEW j \in I PROVE L - x >= j
  <2>1. L - j \in T /\ j \in Nat
    BY <1>5
  <2>2. x <= L - j
    BY <1>3, <2>1
  <2> HIDE DEF T
  <2> QED BY <1>4, <2>1, <2>2
<1>6. \E m \in I : \A j \in I : m >= j
  BY <1>4, <1>5
<1> QED BY <1>6 DEF Max

-----------------------------------------------------------------------------
(* What an event makes of the page. *)

(* The next answer about f goes where the code looks for it. *)
LEMMA NextIsLast ==
  ASSUME NEW q \in Seq(Entry), NEW f, NEW i,
         i = SelectLastInSeq(q, LAMBDA e : e.from = f /\ e.decrypted = {})
  PROVE  /\ i # 0 => IsNext(q, f, i)
         /\ \A j : IsNext(q, f, j) => i = j
<1> DEFINE I == {j \in 1..Len(q) : q[j].from = f /\ q[j].decrypted = {}}
<1>1. i = IF I # {} THEN Max(I) ELSE 0
  BY DEF SelectLastInSeq
<1>2. Len(q) \in Nat /\ DOMAIN q = 1..Len(q)
  OBVIOUS
<1>3. I # {} => Max(I) \in I /\ \A j \in I : Max(I) >= j
  BY <1>2, MaxOfPositions
<1>4. ASSUME i # 0 PROVE IsNext(q, f, i)
  <2>1. i \in I /\ \A j \in I : i >= j
    BY <1>1, <1>3, <1>4
  <2>2. ASSUME NEW j \in DOMAIN q, j > i PROVE j \notin I
    <3>1. i \in Nat /\ j \in Nat
      BY <1>2, <2>1
    <3>2. ~(i >= j)
      BY <2>2, <3>1
    <3> QED BY <2>1, <3>2
  <2> QED BY <1>2, <2>1, <2>2 DEF IsNext
<1>5. ASSUME NEW j, IsNext(q, f, j) PROVE i = j
  <2>1. j \in I
    BY <1>2, <1>5 DEF IsNext
  <2>2. i \in I /\ i >= j
    BY <1>1, <1>3, <2>1
  <2>3. ~(i > j)
    BY <1>2, <1>5, <2>2 DEF IsNext
  <2> QED BY <1>2, <2>1, <2>2, <2>3
<1> QED BY <1>4, <1>5

\* The contact in view, the load and the WebSocket of p are those of r.
SameView(p, r) ==
  r.currentContact = p.currentContact /\ r.load = p.load /\ r.ws = p.ws

SameStore(p, r) == r.messages = p.messages /\ r.unreadCounts = p.unreadCounts

LEMMA MailTyping ==
  ASSUME ChatTypeOK, NEW n \in DOMAIN mail
  PROVE  /\ mail[n] \in Sent /\ mail[n].from \in Peer /\ mail[n].in \in Contact
         /\ n \in 1..MaxMail
<1>1. mail[n] \in Sent /\ n \in 1..MaxMail
  BY ChatAssumption DEF ChatTypeOK
<1>2. mail[n] \in Mail
  BY <1>1, ChatAssumption
<1>3. mail[n].from \in Peer /\ mail[n].in \in {mail[n].from} \cup Group
  BY <1>2 DEF Mail
<1> QED BY <1>1, <1>3 DEF Contact

LEMMA OtherEvents ==
  ASSUME ChatTypeOK, NEW event \in Event, event.type \notin {"message", "decrypted"},
         NEW r, r = handleServerMessage(page, event)
  PROVE  r \in Page /\ SameView(page, r) /\ SameStore(page, r)
<1>1. page \in Page
  BY DEF ChatTypeOK
<1>2. CASE event.type = "auth"
  <2>1. event.success \in BOOLEAN
    BY <1>2 DEF Event
  <2>2. r = [page EXCEPT !.isAuthenticated = event.success]
    BY <1>2 DEF handleServerMessage, auth
  <2> QED BY <1>1, <2>1, <2>2 DEF Page, SameView, SameStore
<1>3. CASE event.type = "connection"
  <2>1. r = [page EXCEPT !.isAuthenticated = FALSE, !.groups = <<>>]
    BY <1>3 DEF handleServerMessage, connection
  <2>2. <<>> \in Seq(Group)
    OBVIOUS
  <2> QED BY <1>1, <2>1, <2>2 DEF Page, SameView, SameStore
<1>4. CASE event.type = "groupCode"
  <2>1. event.in \in Group
    BY <1>4 DEF Event
  <2>2. r = [page EXCEPT !.groups = Append(@, event.in)]
    BY <1>4 DEF handleServerMessage, groupCode
  <2>3. Append(page.groups, event.in) \in Seq(Group)
    BY <1>1, <2>1 DEF Page
  <2> QED BY <1>1, <2>2, <2>3 DEF Page, SameView, SameStore
<1>5. CASE event.type = "decryptError"
  <2>1. r = page
    BY <1>5 DEF handleServerMessage
  <2> QED BY <1>1, <2>1 DEF SameView, SameStore
<1> QED BY <1>2, <1>3, <1>4, <1>5 DEF Event

\* The conversation c of p gets one more message e.
Gains(p, r, c, e) == r.messages = [p.messages EXCEPT ![c] = Append(p.messages[c], e)]

LEMMA MessageEvents ==
  ASSUME ChatTypeOK, NEW event, event.type = "message", event.n \in DOMAIN mail,
         NEW r, r = handleServerMessage(page, event)
  PROVE  LET m == mail[event.n]
         IN /\ r \in Page /\ SameView(page, r)
            /\ Gains(page, r, m.in, [n |-> event.n, from |-> m.from, decrypted |-> {}])
            /\ r.unreadCounts =
                 [page.unreadCounts EXCEPT ![m.in] =
                    IF page.currentContact = m.in THEN 0 ELSE page.unreadCounts[m.in] + 1]
<1> DEFINE m == mail[event.n]
           e == [n |-> event.n, from |-> m.from, decrypted |-> {}]
           q == Append(page.messages[m.in], e)
           k == IF page.currentContact = m.in THEN 0 ELSE page.unreadCounts[m.in] + 1
<1>1. m.from \in Peer /\ m.in \in Contact /\ event.n \in 0..MaxMail
  BY MailTyping, ChatAssumption
<1>2. e \in Entry
  BY <1>1 DEF Entry, Shown
<1>3. page \in Page
  BY DEF ChatTypeOK
<1>4. q \in Seq(Entry) /\ k \in Nat
  BY <1>1, <1>2, <1>3 DEF Page
<1>5. r = [page EXCEPT !.messages[m.in] = Append(@, e),
                       !.unreadCounts[m.in] = IF page.currentContact = m.in THEN 0 ELSE @ + 1]
  BY DEF handleServerMessage, message
<1> HIDE DEF e, m
<1>6. r.messages = [page.messages EXCEPT ![m.in] = q]
  BY <1>3, <1>5 DEF Page
<1>7. r.unreadCounts = [page.unreadCounts EXCEPT ![m.in] = k]
  BY <1>3, <1>5 DEF Page
<1>8. r = [page EXCEPT !.messages = r.messages, !.unreadCounts = r.unreadCounts]
  BY <1>3, <1>5, <1>6, <1>7 DEF Page
<1> HIDE DEF q, k
<1>9. r.messages \in [Contact -> Seq(Entry)] /\ r.unreadCounts \in [Contact -> Nat]
  BY <1>1, <1>3, <1>4, <1>6, <1>7 DEF Page
<1>10. r \in Page /\ SameView(page, r)
  BY <1>3, <1>8, <1>9 DEF Page, SameView
<1> QED BY <1>6, <1>7, <1>10 DEF Gains, q, k, e, m

LEMMA DecryptedEvents ==
  ASSUME ChatTypeOK, NEW event \in Event, event.type = "decrypted",
         NEW r, r = handleServerMessage(page, event)
  PROVE  LET c == event.in
             q == page.messages[c]
             value == Parsed[event.text]
         IN \/ r = page /\ \A i : ~IsNext(q, event.from, i)
            \/ \E i \in DOMAIN q :
                 /\ IsNext(q, event.from, i) /\ r \in Page /\ SameView(page, r)
                 /\ \A j : IsNext(q, event.from, j) => j = i
                 /\ r.unreadCounts = page.unreadCounts
                 /\ r.messages = [page.messages EXCEPT ![c] =
                                    [q EXCEPT ![i] = [q[i] EXCEPT !.decrypted = value]]]
<1> DEFINE c == event.in
           q == page.messages[c]
           value == Parsed[event.text]
           i == SelectLastInSeq(q, LAMBDA e : e.from = event.from /\ e.decrypted = {})
           s == [q EXCEPT ![i] = [q[i] EXCEPT !.decrypted = value]]
<1>1. c \in Contact /\ event.text \in Answered
  BY DEF Event, Contact
<1>2. page \in Page
  BY DEF ChatTypeOK
<1>3. q \in Seq(Entry)
  BY <1>1, <1>2 DEF Page
<1>4. /\ i # 0 => IsNext(q, event.from, i)
      /\ \A j : IsNext(q, event.from, j) => i = j
  <2> HIDE DEF q
  <2> QED BY <1>3, NextIsLast
<1>5. r = IF i = 0 THEN page ELSE [page EXCEPT !.messages[c][i].decrypted = value]
  BY DEF handleServerMessage, decrypted
<1>6. value \in Shown
  BY <1>1 DEF Shown
<1> HIDE DEF i, value
<1>7. CASE i = 0
  <2>1. \A j : ~IsNext(q, event.from, j)
    <3>1. \A j \in DOMAIN q : j # 0
      BY <1>3
    <3> QED BY <1>4, <1>7, <3>1 DEF IsNext
  <2> QED BY <1>5, <1>7, <2>1
<1>8. CASE i # 0
  <2>1. IsNext(q, event.from, i) /\ i \in DOMAIN q
    BY <1>4, <1>8 DEF IsNext
  <2>2. r.messages = [page.messages EXCEPT ![c] = s]
    BY <1>2, <1>5, <1>8 DEF Page
  <2>3. r = [page EXCEPT !.messages = r.messages]
    BY <1>2, <1>5, <1>8, <2>2 DEF Page
  <2>4. [q[i] EXCEPT !.decrypted = value] \in Entry
    <3>1. q[i] \in Entry
      BY <1>3, <2>1
    <3> QED BY <1>6, <3>1 DEF Entry
  <2>5. s \in Seq(Entry)
    BY <1>3, <2>1, <2>4
  <2> HIDE DEF s
  <2>6. r.messages \in [Contact -> Seq(Entry)]
    BY <1>1, <1>2, <2>2, <2>5 DEF Page
  <2>7. r \in Page /\ SameView(page, r) /\ r.unreadCounts = page.unreadCounts
    BY <1>2, <2>3, <2>6 DEF Page, SameView
  <2> QED BY <1>4, <2>1, <2>2, <2>7 DEF s, value
<1> QED BY <1>7, <1>8

-----------------------------------------------------------------------------
(* The messages of others in a conversation. *)

LEMMA TheirsIsFinite ==
  ASSUME NEW p \in Page, NEW c \in Contact
  PROVE  /\ IsFiniteSet(Theirs(p, c)) /\ Cardinality(Theirs(p, c)) \in Nat
         /\ p.messages[c] \in Seq(Entry) /\ p.unreadCounts[c] \in Nat
<1>1. p.messages[c] \in Seq(Entry) /\ p.unreadCounts[c] \in Nat
  BY DEF Page
<1>2. Len(p.messages[c]) \in Nat /\ DOMAIN p.messages[c] = 1..Len(p.messages[c])
  BY <1>1
<1>3. IsFiniteSet(DOMAIN p.messages[c])
  BY <1>2, FS_Interval, 1 \in Int, Len(p.messages[c]) \in Int
<1>4. Theirs(p, c) \subseteq DOMAIN p.messages[c]
  BY DEF Theirs
<1>5. IsFiniteSet(Theirs(p, c))
  BY <1>3, <1>4, FS_Subset
<1> QED BY <1>1, <1>5, FS_CardinalityType

(* A message of somebody else is one more; the user's own is none. *)
LEMMA TheirsGains ==
  ASSUME NEW p \in Page, NEW r, NEW c \in Contact, NEW e, Gains(p, r, c, e)
  PROVE  /\ \A d \in Contact \ {c} :
              r.messages[d] = p.messages[d] /\ Theirs(r, d) = Theirs(p, d)
         /\ LET k == Len(p.messages[c]) + 1
            IN /\ r.messages[c] = Append(p.messages[c], e)
               /\ r.messages[c][k] = e /\ k \in DOMAIN r.messages[c] /\ k \in Nat
               /\ \A i \in DOMAIN p.messages[c] :
                    /\ i \in DOMAIN r.messages[c] /\ i < k /\ i \in Nat
                    /\ r.messages[c][i] = p.messages[c][i]
               /\ \A i \in DOMAIN r.messages[c] : i \in DOMAIN p.messages[c] \/ i = k
               /\ e.from = Me => Theirs(r, c) = Theirs(p, c)
               /\ e.from # Me =>
                    /\ Theirs(r, c) = Theirs(p, c) \cup {k} /\ k \notin Theirs(p, c)
                    /\ Cardinality(Theirs(r, c)) = Cardinality(Theirs(p, c)) + 1
<1> DEFINE q == p.messages[c]
           s == r.messages[c]
           k == Len(q) + 1
<1>1. p.messages \in [Contact -> Seq(Entry)] /\ q \in Seq(Entry)
  BY DEF Page
<1>2. s = Append(q, e) /\ \A d \in Contact \ {c} : r.messages[d] = p.messages[d]
  BY <1>1 DEF Gains
<1>3. \A d \in Contact \ {c} : Theirs(r, d) = Theirs(p, d)
  BY <1>2 DEF Theirs
<1>4. /\ Len(q) \in Nat /\ DOMAIN q = 1..Len(q) /\ DOMAIN s = 1..(Len(q) + 1)
      /\ s[k] = e /\ k \in DOMAIN s
      /\ \A i \in DOMAIN q : i \in DOMAIN s /\ s[i] = q[i] /\ i < k
      /\ \A i \in DOMAIN s : i \in DOMAIN q \/ i = k
  <2> HIDE DEF q, s
  <2> QED BY <1>1, <1>2, Appended
<1>5. Theirs(p, c) = {i \in DOMAIN q : q[i].from # Me}
      /\ Theirs(r, c) = {i \in DOMAIN s : s[i].from # Me}
  BY DEF Theirs
<1>6. IsFiniteSet(Theirs(p, c)) /\ Cardinality(Theirs(p, c)) \in Nat
  BY TheirsIsFinite
<1> HIDE DEF q, s
<1>7. k \in Nat /\ k \notin DOMAIN q /\ \A i \in DOMAIN q : i \in Nat
  BY <1>4
<1> HIDE DEF k
<1>8. ASSUME e.from = Me PROVE Theirs(r, c) = Theirs(p, c)
  BY <1>4, <1>5, <1>8
<1>9. ASSUME e.from # Me
      PROVE  Theirs(r, c) = Theirs(p, c) \cup {k} /\ k \notin Theirs(p, c)
  BY <1>4, <1>5, <1>7, <1>9
<1>10. ASSUME e.from # Me
       PROVE  Cardinality(Theirs(r, c)) = Cardinality(Theirs(p, c)) + 1
  BY <1>6, <1>9, <1>10, FS_AddElement
<1> QED BY <1>2, <1>3, <1>4, <1>7, <1>8, <1>9, <1>10 DEF q, s, k

\* A step that neither adds nor removes a message of somebody else.
SameHad ==
  \A c \in Contact :
    /\ Theirs(page, c)' = Theirs(page, c)
    /\ \A i \in Theirs(page, c) :
         /\ page'.messages[c][i].n = page.messages[c][i].n
         /\ page'.messages[c][i].from = page.messages[c][i].from

LEMMA HadStays ==
  ASSUME SameHad, NEW c \in Contact
  PROVE  Had(c)' = Had(c)
<1>1. Had(c)' = {page'.messages[c][i].n : i \in Theirs(page, c)'}
  BY DEF Had
<1>2. Theirs(page, c)' = Theirs(page, c)
      /\ \A i \in Theirs(page, c) : page'.messages[c][i].n = page.messages[c][i].n
  BY DEF SameHad
<1> QED BY <1>1, <1>2 DEF Had

LEMMA SameStoreHad ==
  ASSUME page'.messages = page.messages
  PROVE  SameHad
  BY DEF SameHad, Theirs

LEMMA OwnHad ==
  ASSUME page \in Page, NEW c \in Contact, NEW e, e.from = Me, Gains(page, page', c, e)
  PROVE  SameHad
<1>1. \A d \in Contact \ {c} :
        page'.messages[d] = page.messages[d] /\ Theirs(page', d) = Theirs(page, d)
  BY TheirsGains
<1>2. /\ Theirs(page', c) = Theirs(page, c)
      /\ \A i \in DOMAIN page.messages[c] : page'.messages[c][i] = page.messages[c][i]
  BY TheirsGains
<1>3. Theirs(page, c) \subseteq DOMAIN page.messages[c]
  BY DEF Theirs
<1>4. \A d : Theirs(page, d)' = Theirs(page', d)
  BY DEF Theirs
<1> QED BY <1>1, <1>2, <1>3, <1>4 DEF SameHad

\* All that changes is what the message at i in c shows.
OnlyShows(c, i, value) ==
  /\ \A d \in Contact :
       /\ DOMAIN page'.messages[d] = DOMAIN page.messages[d]
       /\ \A j \in DOMAIN page.messages[d] :
            /\ d # c \/ j # i => page'.messages[d][j] = page.messages[d][j]
            /\ page'.messages[d][j].n = page.messages[d][j].n
            /\ page'.messages[d][j].from = page.messages[d][j].from
  /\ page'.messages[c][i].decrypted = value

LEMMA DecryptedHad ==
  ASSUME page \in Page, NEW c \in Contact, NEW i \in DOMAIN page.messages[c], NEW value,
         page'.messages = [page.messages EXCEPT ![c] =
                             [page.messages[c] EXCEPT ![i] =
                                [page.messages[c][i] EXCEPT !.decrypted = value]]]
  PROVE  SameHad /\ OnlyShows(c, i, value)
<1> DEFINE q == page.messages[c]
           e == [q[i] EXCEPT !.decrypted = value]
           s == [q EXCEPT ![i] = e]
<1>1. page.messages \in [Contact -> Seq(Entry)] /\ q \in Seq(Entry) /\ i \in DOMAIN q
  BY DEF Page
<1>2. q[i] \in Entry
  <2> HIDE DEF q
  <2> QED BY <1>1, OfSequence
<1>3. e.n = q[i].n /\ e.from = q[i].from /\ e.decrypted = value
  BY <1>2 DEF Entry
<1> HIDE DEF e
<1>4. DOMAIN s = DOMAIN q /\ s[i] = e /\ \A j \in DOMAIN q \ {i} : s[j] = q[j]
  BY <1>1
<1>5. page'.messages[c] = s /\ \A d \in Contact \ {c} : page'.messages[d] = page.messages[d]
  BY <1>1 DEF e
<1> HIDE DEF s
<1>6. \A d \in Contact :
        /\ DOMAIN page'.messages[d] = DOMAIN page.messages[d]
        /\ \A j \in DOMAIN page.messages[d] :
             /\ d # c \/ j # i => page'.messages[d][j] = page.messages[d][j]
             /\ page'.messages[d][j].n = page.messages[d][j].n
             /\ page'.messages[d][j].from = page.messages[d][j].from
  BY <1>3, <1>4, <1>5
<1>7. \A d \in Contact : Theirs(page', d) = Theirs(page, d)
  BY <1>6 DEF Theirs
<1>8. \A d : Theirs(page, d)' = Theirs(page', d)
  BY DEF Theirs
<1>9. \A d \in Contact : Theirs(page, d) \subseteq DOMAIN page.messages[d]
  BY DEF Theirs
<1>10. SameHad
  BY <1>6, <1>7, <1>8, <1>9 DEF SameHad
<1> QED BY <1>3, <1>4, <1>5, <1>6, <1>10 DEF OnlyShows

-----------------------------------------------------------------------------
(* What is on its way to the page. *)

\* A step that gives the page at most messages that were on their way.
FewerMessages ==
  \E k \in {0, 1} : \A i \in DOMAIN events' :
    Comes(i)' => i + k \in DOMAIN events /\ events[i + k] = events'[i]

LEMMA OrderStays ==
  ASSUME ChatTypeOK, InOrder, SameHad, FewerMessages, events' \in Seq(Event)
  PROVE  InOrder'
<1>1. PICK k \in {0, 1} : \A i \in DOMAIN events' :
        Comes(i)' => i + k \in DOMAIN events /\ events[i + k] = events'[i]
  BY DEF FewerMessages
<1>2. \A i \in DOMAIN events' : i \in Nat
  OBVIOUS
<1>3. \A i \in DOMAIN events' : Comes(i)' => Comes(i + k)
  BY <1>1 DEF Comes
<1> SUFFICES ASSUME NEW c \in Contact
             PROVE  /\ \A i, j \in Theirs(page, c)' :
                         i < j => page'.messages[c][i].n < page'.messages[c][j].n
                    /\ \A i, j \in DOMAIN events' :
                         Comes(i)' /\ Comes(j)' /\ i < j => events'[i].n < events'[j].n
                    /\ \A n \in Had(c)', i \in DOMAIN events' :
                         Comes(i)' => n < events'[i].n
  BY DEF InOrder
<1>4. ASSUME NEW i \in Theirs(page, c)', NEW j \in Theirs(page, c)', i < j
      PROVE  page'.messages[c][i].n < page'.messages[c][j].n
  <2>1. i \in Theirs(page, c) /\ j \in Theirs(page, c)
        /\ page'.messages[c][i].n = page.messages[c][i].n
        /\ page'.messages[c][j].n = page.messages[c][j].n
    BY DEF SameHad
  <2> QED BY <1>4, <2>1 DEF InOrder
<1>5. ASSUME NEW i \in DOMAIN events', NEW j \in DOMAIN events', Comes(i)', Comes(j)', i < j
      PROVE  events'[i].n < events'[j].n
  <2>1. i + k < j + k
    BY <1>2, <1>5
  <2>2. events[i + k].n < events[j + k].n
    BY <1>1, <1>3, <1>5, <2>1 DEF InOrder
  <2> QED BY <1>1, <1>5, <2>2
<1>6. ASSUME NEW n \in Had(c)', NEW i \in DOMAIN events', Comes(i)'
      PROVE  n < events'[i].n
  <2>1. n \in Had(c)
    BY HadStays
  <2> QED BY <1>1, <1>3, <1>6, <2>1 DEF InOrder
<1> QED BY <1>4, <1>5, <1>6

LEMMA ShortenedFewer ==
  ASSUME ChatTypeOK, events # <<>>, events' = Tail(events)
  PROVE  /\ FewerMessages /\ events' \in Seq(Event)
         /\ Head(events) \in Event /\ Head(events) = events[1] /\ 1 \in DOMAIN events
<1> DEFINE q == events
           r == events'
<1>1. q \in Seq(Event) /\ q # <<>> /\ r = Tail(q)
  BY DEF ChatTypeOK
<1> HIDE DEF q, r
<1>2. /\ r \in Seq(Event) /\ Head(q) \in Event /\ Head(q) = q[1] /\ 1 \in DOMAIN q
      /\ \A i \in DOMAIN r : i + 1 \in DOMAIN q /\ q[i + 1] = r[i]
  BY <1>1, Shortened
<1>3. FewerMessages
  BY <1>2 DEF FewerMessages, q, r
<1> QED BY <1>2, <1>3 DEF q, r

LEMMA ClearedFewer ==
  ASSUME events' = <<>>
  PROVE  FewerMessages /\ events' \in Seq(Event) /\ \A c : Coming(c)' = {}
  BY DEF FewerMessages, Coming

LEMMA SameFewer ==
  ASSUME ChatTypeOK, UNCHANGED events
  PROVE  FewerMessages /\ events' \in Seq(Event)
<1>1. \A i \in DOMAIN events' : i + 0 = i
  BY DEF ChatTypeOK
<1> QED BY <1>1 DEF FewerMessages, ChatTypeOK

LEMMA AppendedFewer ==
  ASSUME ChatTypeOK, NEW event \in Event, event.type # "message",
         events' = Append(events, event)
  PROVE  FewerMessages /\ events' \in Seq(Event)
<1> DEFINE q == events
           r == events'
<1>1. q \in Seq(Event) /\ r = Append(q, event)
  BY DEF ChatTypeOK
<1>2. r \in Seq(Event)
  BY <1>1
<1> HIDE DEF q, r
<1>3. /\ r[Len(q) + 1] = event /\ \A i \in DOMAIN q : r[i] = q[i]
      /\ \A i \in DOMAIN r : i \in DOMAIN q \/ i = Len(q) + 1
      /\ \A i \in DOMAIN q : i + 0 = i
  BY <1>1, Appended
<1>4. \A i \in DOMAIN r : r[i].type = "message" => i + 0 \in DOMAIN q /\ q[i + 0] = r[i]
  BY <1>3
<1>5. FewerMessages
  BY <1>4 DEF FewerMessages, Comes, q, r
<1> QED BY <1>2, <1>5 DEF r

(* The reported messages keep their numbers. *)
LEMMA MailGrows ==
  ASSUME ChatTypeOK, NEW m, mail' = Append(mail, m)
  PROVE  /\ Len(mail) \in Nat /\ DOMAIN mail = 1..Len(mail)
         /\ DOMAIN mail' = 1..(Len(mail) + 1) /\ mail'[Len(mail) + 1] = m
         /\ \A n \in DOMAIN mail :
              /\ n \in DOMAIN mail' /\ mail'[n] = mail[n] /\ n < Len(mail) + 1
              /\ \A c : In(c, n)' <=> In(c, n)
<1>1. mail \in Seq(Sent)
  BY DEF ChatTypeOK
<1>2. /\ Len(mail) \in Nat /\ DOMAIN mail = 1..Len(mail)
      /\ DOMAIN mail' = 1..(Len(mail) + 1) /\ mail'[Len(mail) + 1] = m
      /\ \A n \in DOMAIN mail : n \in DOMAIN mail' /\ mail'[n] = mail[n] /\ n < Len(mail) + 1
  BY <1>1
<1> QED BY <1>2 DEF In

LEMMA ComingStays ==
  ASSUME UNCHANGED <<events, mail>>
  PROVE  \A c : Coming(c)' = Coming(c)
  BY DEF Coming, Comes, In

(* An event that is no message changes nothing of what is coming. *)
LEMMA ComingAppended ==
  ASSUME ChatTypeOK, NEW event, events' = Append(events, event), UNCHANGED mail,
         NEW c \in Contact
  PROVE  Coming(c)' = Coming(c) \cup {n \in {event.n} : event.type = "message" /\ In(c, n)}
<1> DEFINE q == events
           r == events'
           k == Len(q) + 1
<1>1. q \in Seq(Event) /\ r = Append(q, event)
  BY DEF ChatTypeOK
<1> HIDE DEF q, r
<1>2. /\ r[k] = event /\ k \in DOMAIN r
      /\ \A i \in DOMAIN q : i \in DOMAIN r /\ r[i] = q[i]
      /\ \A i \in DOMAIN r : i \in DOMAIN q \/ i = k
  BY <1>1, Appended
<1> HIDE DEF k
<1>3. /\ Coming(c) = {q[i].n : i \in {j \in DOMAIN q : q[j].type = "message" /\ In(c, q[j].n)}}
      /\ Coming(c)' = {r[i].n : i \in {j \in DOMAIN r : r[j].type = "message" /\ In(c, r[j].n)}}
  BY DEF Coming, Comes, In, q, r
<1> QED BY <1>2, <1>3

LEMMA ComingShortened ==
  ASSUME ChatTypeOK, events # <<>>, events' = Tail(events), UNCHANGED mail,
         NEW c \in Contact, NEW event, event = Head(events)
  PROVE  Coming(c) = Coming(c)' \cup {n \in {event.n} : event.type = "message" /\ In(c, n)}
<1> DEFINE q == events
           r == events'
<1>1. q \in Seq(Event) /\ q # <<>> /\ r = Tail(q) /\ event = Head(q)
  BY DEF ChatTypeOK
<1> HIDE DEF q, r
<1>2. /\ q[1] = event /\ 1 \in DOMAIN q
      /\ \A i \in DOMAIN r : i + 1 \in DOMAIN q /\ r[i] = q[i + 1]
      /\ \A i \in DOMAIN q : i = 1 \/ (i - 1 \in DOMAIN r /\ r[i - 1] = q[i])
  BY <1>1, Shortened
<1>3. /\ Coming(c) = {q[i].n : i \in {j \in DOMAIN q : q[j].type = "message" /\ In(c, q[j].n)}}
      /\ Coming(c)' = {r[i].n : i \in {j \in DOMAIN r : r[j].type = "message" /\ In(c, r[j].n)}}
  BY DEF Coming, Comes, In, q, r
<1>4. \A n \in Coming(c) : n \in Coming(c)' \/ (n = event.n /\ event.type = "message" /\ In(c, n))
  BY <1>2, <1>3
<1>5. \A n \in Coming(c)' : n \in Coming(c)
  BY <1>2, <1>3
<1>6. event.type = "message" /\ In(c, event.n) => event.n \in Coming(c)
  BY <1>2, <1>3
<1> QED BY <1>4, <1>5, <1>6

-----------------------------------------------------------------------------
(* What refers to messages. *)

\* The messages reported so far keep their numbers.
MailKept == \A n \in DOMAIN mail : n \in DOMAIN mail' /\ mail'[n] = mail[n]

LEMMA MailIsKept ==
  ASSUME ChatTypeOK, UNCHANGED mail \/ \E m : mail' = Append(mail, m)
  PROVE  MailKept
<1>1. CASE UNCHANGED mail
  BY <1>1 DEF MailKept
<1>2. ASSUME NEW m, mail' = Append(mail, m) PROVE MailKept
  BY <1>2, MailGrows DEF MailKept
<1> QED BY <1>1, <1>2

LEMMA GoodStays ==
  ASSUME MailKept, NEW x
  PROVE  /\ Names(x) => Names(x)'
         /\ GoodEvent(x) => GoodEvent(x)'
         /\ GoodCommand(x) => GoodCommand(x)'
<1>1. Names(x) => Names(x)' /\ mail'[x.n] = mail[x.n]
  BY DEF MailKept, Names
<1>2. x.n \in DOMAIN mail => x.n \in DOMAIN mail'
  BY DEF MailKept
<1>3. GoodEvent(x) => GoodEvent(x)'
  BY <1>1, <1>2 DEF GoodEvent
<1>4. GoodCommand(x) => GoodCommand(x)'
  BY <1>1 DEF GoodCommand
<1> QED BY <1>1, <1>3, <1>4

LEMMA GotStays ==
  ASSUME GotNumbered, MailKept, UNCHANGED got
  PROVE  GotNumbered'
  BY DEF GotNumbered, MailKept

LEMMA StoreStays ==
  ASSUME StoreNumbered, MailKept, SameHad
  PROVE  StoreNumbered'
<1> SUFFICES ASSUME NEW c \in Contact, NEW i \in Theirs(page, c)'
             PROVE  LET e == page'.messages[c][i]
                    IN e.n \in DOMAIN mail' /\ mail'[e.n].in = c /\ mail'[e.n].from = e.from
  BY DEF StoreNumbered
<1>1. /\ i \in Theirs(page, c)
      /\ page'.messages[c][i].n = page.messages[c][i].n
      /\ page'.messages[c][i].from = page.messages[c][i].from
  BY DEF SameHad
<1>2. LET e == page.messages[c][i]
      IN e.n \in DOMAIN mail /\ mail[e.n].in = c /\ mail[e.n].from = e.from
  BY <1>1 DEF StoreNumbered
<1> QED BY <1>1, <1>2 DEF MailKept

LEMMA EventsStay ==
  ASSUME ChatTypeOK, EventsNumbered, MailKept,
         \/ UNCHANGED events \/ events' = <<>>
         \/ events # <<>> /\ events' = Tail(events)
         \/ \E x : GoodEvent(x)' /\ events' = Append(events, x)
  PROVE  EventsNumbered'
<1> SUFFICES ASSUME NEW i \in DOMAIN events', NEW y, y = events'[i]
             PROVE  GoodEvent(y)'
  BY DEF EventsNumbered, GoodEvent, Names
<1>1. events \in Seq(Event)
  BY DEF ChatTypeOK
<1>2. \A j \in DOMAIN events : events[j] = y => GoodEvent(y)
  BY DEF EventsNumbered
<1>3. (\E j \in DOMAIN events : events[j] = y) => GoodEvent(y)'
  BY <1>2, GoodStays
<1>4. CASE events # <<>> /\ events' = Tail(events)
  BY <1>1, <1>3, <1>4, Shortened
<1>5. ASSUME NEW x, GoodEvent(x)', events' = Append(events, x) PROVE GoodEvent(y)'
  <2>1. (i \in DOMAIN events /\ events'[i] = events[i]) \/ events'[i] = x
    BY <1>1, <1>5, Appended
  <2>2. CASE y = x
    BY <1>5, <2>2
  <2> QED BY <1>3, <2>1, <2>2
<1> QED BY <1>3, <1>4, <1>5

LEMMA CommandsStay ==
  ASSUME ChatTypeOK, CommandsNumbered, MailKept, UNCHANGED commands
  PROVE  CommandsNumbered'
<1>1. \A x : GoodCommand(x) => GoodCommand(x)'
  BY GoodStays
<1> QED BY <1>1 DEF CommandsNumbered

-----------------------------------------------------------------------------
(* The requests that are on their way. *)

Queues == [1..MaxLoads -> Seq(Command)]

\* Nobody asks about f in c.
Unasked(queues, answers, c, f) ==
  /\ \A k \in DOMAIN queues : \A i \in DOMAIN queues[k] : ~Asks(queues[k][i], c, f)
  /\ \A i \in DOMAIN answers : ~Asks(answers[i], c, f)

LEMMA OutstandingAsks ==
  ASSUME NEW c, NEW f
  PROVE  ~Outstanding(c, f) <=> Unasked(commands, events, c, f)
  BY DEF Outstanding, Unasked, Asks

LEMMA UnaskedOnly ==
  ASSUME NEW queues, NEW answers, NEW c, NEW f, NEW n, Unasked(queues, answers, c, f)
  PROVE  OnlyFor(queues, answers, c, f, n)
  BY DEF Unasked, OnlyFor

(* An event that is no answer about f in c. *)
LEMMA OnlyReported ==
  ASSUME NEW queues \in Queues, NEW answers \in Seq(Event), NEW x, NEW c, NEW f, NEW n,
         ~Asks(x, c, f), OnlyFor(queues, answers, c, f, n)
  PROVE  OnlyFor(queues, Append(answers, x), c, f, n)
<1> DEFINE r == Append(answers, x)
<1>1. \A i \in DOMAIN r : Asks(r[i], c, f) => i \in DOMAIN answers /\ r[i] = answers[i]
  <2>1. /\ r[Len(answers) + 1] = x
        /\ \A i \in DOMAIN answers : r[i] = answers[i]
        /\ \A i \in DOMAIN r : i \in DOMAIN answers \/ i = Len(answers) + 1
    BY Appended
  <2> QED BY <2>1
<1> HIDE DEF r
<1>2. OnlyFor(queues, r, c, f, n)
  BY <1>1 DEF OnlyFor
<1> QED BY <1>2 DEF r

(* The next event is taken; after the only answer, nobody asks. *)
LEMMA OnlyTaken ==
  ASSUME NEW queues \in Queues, NEW answers \in Seq(Event), answers # <<>>,
         NEW c, NEW f, NEW n, OnlyFor(queues, answers, c, f, n)
  PROVE  /\ OnlyFor(queues, Tail(answers), c, f, n)
         /\ Asks(Head(answers), c, f) =>
              Head(answers).n = n /\ Unasked(queues, Tail(answers), c, f)
<1> DEFINE r == Tail(answers)
<1>1. /\ Head(answers) = answers[1] /\ 1 \in DOMAIN answers /\ DOMAIN r \subseteq Nat \ {0}
      /\ \A i \in DOMAIN r : i + 1 \in DOMAIN answers /\ r[i] = answers[i + 1]
  BY Shortened
<1> HIDE DEF r
<1>2. \A i, j \in DOMAIN r : i + 1 = j + 1 => i = j
  BY <1>1
<1>3. \A i \in DOMAIN r : 1 # i + 1
  BY <1>1
<1>4. OnlyFor(queues, r, c, f, n)
  BY <1>1, <1>2 DEF OnlyFor
<1>5. ASSUME Asks(Head(answers), c, f)
      PROVE  Head(answers).n = n /\ Unasked(queues, r, c, f)
  <2>1. answers[1].n = n /\ \A j \in DOMAIN answers : Asks(answers[j], c, f) => 1 = j
    BY <1>1, <1>5 DEF OnlyFor
  <2>2. \A i \in DOMAIN r : ~Asks(r[i], c, f)
    BY <1>1, <1>3, <2>1
  <2>3. \A k \in DOMAIN queues : \A i \in DOMAIN queues[k] : ~Asks(queues[k][i], c, f)
    BY <1>1, <1>5 DEF OnlyFor
  <2> QED BY <1>1, <2>1, <2>2, <2>3 DEF Unasked
<1> QED BY <1>4, <1>5 DEF r

LEMMA UnaskedTaken ==
  ASSUME NEW queues \in Queues, NEW answers \in Seq(Event), answers # <<>>,
         NEW c, NEW f, Unasked(queues, answers, c, f)
  PROVE  Unasked(queues, Tail(answers), c, f)
<1>1. \A i \in DOMAIN Tail(answers) :
        i + 1 \in DOMAIN answers /\ Tail(answers)[i] = answers[i + 1]
  BY Shortened
<1> QED BY <1>1 DEF Unasked

(* The end of a queue of commands and all events are lost. *)
LEMMA OnlyCut ==
  ASSUME NEW queues \in Queues, NEW answers, NEW load \in 1..MaxLoads,
         NEW sent \in Prefixes(queues[load]), NEW c, NEW f, NEW n,
         OnlyFor(queues, answers, c, f, n)
  PROVE  OnlyFor([queues EXCEPT ![load] = sent], <<>>, c, f, n)
<1> DEFINE r == [queues EXCEPT ![load] = sent]
<1>1. queues[load] \in Seq(Command)
  BY DEF Queues
<1>2. DOMAIN sent \subseteq DOMAIN queues[load] /\ \A i \in DOMAIN sent : sent[i] = queues[load][i]
  BY <1>1, InPrefixes
<1>3. /\ DOMAIN r = DOMAIN queues
      /\ \A k \in DOMAIN r : \A i \in DOMAIN r[k] : i \in DOMAIN queues[k] /\ r[k][i] = queues[k][i]
  BY <1>2 DEF Queues
<1> HIDE DEF r
<1>4. OnlyFor(r, <<>>, c, f, n)
  BY <1>3 DEF OnlyFor
<1> QED BY <1>4 DEF r

\* What is left of the requests about f in c when x has been taken.
LeavesOnly(queues, answers, x, c, f, n) ==
  /\ OnlyFor(queues, answers, c, f, n)
  /\ Asks(x, c, f) => x.n = n /\ Unasked(queues, answers, c, f)

(* A command is handled, with no answer about f in c ... *)
LEMMA OnlyHandled ==
  ASSUME NEW queues \in Queues, NEW answers \in Seq(Event), NEW k \in 1..MaxLoads,
         queues[k] # <<>>, NEW c, NEW f, NEW n, OnlyFor(queues, answers, c, f, n),
         NEW r, r = [queues EXCEPT ![k] = Tail(queues[k])],
         NEW x, x = Head(queues[k])
  PROVE  LeavesOnly(r, answers, x, c, f, n)
<1> DEFINE q == queues[k]
           t == Tail(q)
<1>1. q \in Seq(Command) /\ q # <<>> /\ k \in DOMAIN queues
  BY DEF Queues
<1> HIDE DEF q
<1>2. /\ Head(q) = q[1] /\ 1 \in DOMAIN q /\ DOMAIN t \subseteq Nat \ {0}
      /\ \A i \in DOMAIN t : i + 1 \in DOMAIN q /\ t[i] = q[i + 1]
  BY <1>1, Shortened
<1> HIDE DEF t
<1>3. /\ DOMAIN r = DOMAIN queues /\ r[k] = t
      /\ \A l \in DOMAIN r \ {k} : r[l] = queues[l]
  BY <1>1 DEF Queues, q, t
<1> DEFINE old(l, i) == IF l = k THEN i + 1 ELSE i
<1>4. \A l \in DOMAIN r : \A i \in DOMAIN r[l] :
        /\ l \in DOMAIN queues /\ old(l, i) \in DOMAIN queues[l]
        /\ r[l][i] = queues[l][old(l, i)]
        /\ l = k => 1 # old(l, i)
  BY <1>2, <1>3 DEF q
<1>5. \A l \in DOMAIN r : \A i, j \in DOMAIN r[l] : old(l, i) = old(l, j) => i = j
  BY <1>2, <1>3
<1> HIDE DEF old
<1>6. OnlyFor(r, answers, c, f, n)
  <2>1. ASSUME NEW l \in DOMAIN r, NEW i \in DOMAIN r[l], Asks(r[l][i], c, f)
        PROVE  /\ r[l][i].n = n
               /\ \A h \in DOMAIN r : \A j \in DOMAIN r[h] :
                    Asks(r[h][j], c, f) => l = h /\ i = j
               /\ \A j \in DOMAIN answers : ~Asks(answers[j], c, f)
    <3>1. Asks(queues[l][old(l, i)], c, f) /\ old(l, i) \in DOMAIN queues[l] /\ l \in DOMAIN queues
      BY <1>4, <2>1
    <3>2. queues[l][old(l, i)].n = n /\ \A j \in DOMAIN answers : ~Asks(answers[j], c, f)
      BY <3>1 DEF OnlyFor
    <3>3. ASSUME NEW h \in DOMAIN r, NEW j \in DOMAIN r[h], Asks(r[h][j], c, f)
          PROVE  l = h /\ i = j
      <4>1. l = h /\ old(l, i) = old(h, j)
        BY <1>4, <3>1, <3>3 DEF OnlyFor
      <4> QED BY <1>5, <2>1, <3>3, <4>1
    <3> QED BY <1>4, <2>1, <3>2, <3>3
  <2> QED BY <2>1 DEF OnlyFor
<1>7. ASSUME Asks(Head(q), c, f) PROVE Head(q).n = n /\ Unasked(r, answers, c, f)
  <2>1. Asks(queues[k][1], c, f) /\ k \in DOMAIN queues /\ 1 \in DOMAIN queues[k]
    BY <1>1, <1>2, <1>7 DEF q
  <2>2. /\ queues[k][1].n = n /\ \A j \in DOMAIN answers : ~Asks(answers[j], c, f)
        /\ \A l \in DOMAIN queues : \A j \in DOMAIN queues[l] :
             Asks(queues[l][j], c, f) => k = l /\ 1 = j
    BY <2>1 DEF OnlyFor
  <2>3. \A l \in DOMAIN r : \A i \in DOMAIN r[l] : ~Asks(r[l][i], c, f)
    BY <1>4, <2>2
  <2> QED BY <1>2, <2>2, <2>3 DEF Unasked, q
<1> QED BY <1>6, <1>7 DEF q, LeavesOnly

(* ... or with the answer to the only request. *)
LEMMA OnlyAnswered ==
  ASSUME NEW queues \in Queues, NEW answers \in Seq(Event), NEW x, NEW c, NEW f, NEW n,
         Unasked(queues, answers, c, f), x.n = n
  PROVE  OnlyFor(queues, Append(answers, x), c, f, n)
<1> DEFINE r == Append(answers, x)
           k == Len(answers) + 1
<1>1. /\ r[k] = x
      /\ \A i \in DOMAIN r : (i \in DOMAIN answers /\ r[i] = answers[i]) \/ i = k
  BY Appended
<1> HIDE DEF r, k
<1>2. \A i \in DOMAIN r : Asks(r[i], c, f) => i = k
  BY <1>1 DEF Unasked
<1>3. OnlyFor(queues, r, c, f, n)
  BY <1>1, <1>2 DEF OnlyFor, Unasked
<1> QED BY <1>3 DEF r

(* A command is added: about somebody else, or the first request about f.   *)
LEMMA OnlyAsked ==
  ASSUME NEW queues \in Queues, NEW answers, NEW k \in 1..MaxLoads, NEW x,
         NEW c, NEW f, NEW n,
         \/ ~Asks(x, c, f) /\ OnlyFor(queues, answers, c, f, n)
         \/ Unasked(queues, answers, c, f) /\ x.n = n
  PROVE  OnlyFor([queues EXCEPT ![k] = Append(queues[k], x)], answers, c, f, n)
<1> DEFINE q == queues[k]
           t == Append(q, x)
           r == [queues EXCEPT ![k] = t]
           m == Len(q) + 1
<1>1. q \in Seq(Command) /\ k \in DOMAIN queues
  BY DEF Queues
<1> HIDE DEF q
<1>2. /\ t[m] = x
      /\ \A i \in DOMAIN t : (i \in DOMAIN q /\ t[i] = q[i]) \/ i = m
  BY <1>1, Appended
<1> HIDE DEF t, m
<1>3. /\ DOMAIN r = DOMAIN queues /\ r[k] = t
      /\ \A l \in DOMAIN r \ {k} : r[l] = queues[l]
  BY <1>1 DEF Queues
<1> HIDE DEF r
<1>4. \A l \in DOMAIN r : \A i \in DOMAIN r[l] :
        \/ l \in DOMAIN queues /\ i \in DOMAIN queues[l] /\ r[l][i] = queues[l][i]
        \/ l = k /\ i = m /\ r[l][i] = x
  BY <1>2, <1>3 DEF q
<1>5. CASE ~Asks(x, c, f) /\ OnlyFor(queues, answers, c, f, n)
  <2>1. \A l \in DOMAIN r : \A i \in DOMAIN r[l] : Asks(r[l][i], c, f) =>
          l \in DOMAIN queues /\ i \in DOMAIN queues[l] /\ r[l][i] = queues[l][i]
    BY <1>4, <1>5
  <2>2. OnlyFor(r, answers, c, f, n)
    BY <1>5, <2>1 DEF OnlyFor
  <2> QED BY <2>2 DEF r, t, q
<1>6. CASE Unasked(queues, answers, c, f) /\ x.n = n
  <2>1. \A l \in DOMAIN r : \A i \in DOMAIN r[l] : Asks(r[l][i], c, f) =>
          l = k /\ i = m /\ r[l][i] = x
    BY <1>4, <1>6 DEF Unasked
  <2>2. OnlyFor(r, answers, c, f, n)
    BY <1>6, <2>1 DEF OnlyFor, Unasked
  <2> QED BY <2>2 DEF r, t, q
<1> QED BY <1>5, <1>6

-----------------------------------------------------------------------------
(* What the steps of the bridge keep true. *)

\* The conversations and their counts, while no message is reported.
LEMMA ConversationsStay ==
  ASSUME ChatTypeOK, ConversationsComplete, SameHad, FewerMessages, events' \in Seq(Event),
         UNCHANGED <<mail, got>>,
         page'.ws # "closed" =>
           page.ws # "closed" /\ \A c \in Contact : Coming(c)' = Coming(c),
         \A c \in Contact : page'.unreadCounts[c] = Cardinality(Theirs(page, c)) - viewed'[c]
  PROVE  ConversationsComplete'
<1>1. InOrder'
  BY OrderStays DEF ConversationsComplete
<1>2. ASSUME NEW c \in Contact, page'.ws # "closed"
      PROVE  Had(c)' \cup Coming(c)' = {n \in ToSet(got)' : In(c, n)'}
  <2>1. Had(c) \cup Coming(c) = {n \in ToSet(got) : In(c, n)}
    BY <1>2 DEF ConversationsComplete
  <2>2. Had(c)' = Had(c) /\ Coming(c)' = Coming(c)
    BY <1>2, HadStays
  <2>3. ToSet(got)' = ToSet(got) /\ \A n : In(c, n)' <=> In(c, n)
    BY DEF ToSet, In
  <2> QED BY <2>1, <2>2, <2>3
<1>3. \A c \in Contact : page'.unreadCounts[c] = Cardinality(Theirs(page, c))' - viewed'[c]
  BY DEF SameHad
<1> QED BY <1>1, <1>2, <1>3 DEF ConversationsComplete

LEMMA KeptEvents ==
  ASSUME ChatTypeOK, NEW event \in Event, Kept(event)
  PROVE  /\ events' \in Seq(Event)
         /\ \/ page.ws # "closed" /\ events' = Append(events, event) /\ events' # events
            \/ page.ws # "open" /\ UNCHANGED events
<1>1. events \in Seq(Event)
  BY DEF ChatTypeOK
<1>2. CASE page.ws # "closed" /\ events' = Append(events, event)
  <2>1. Len(events') = Len(events) + 1 /\ Len(events) \in Nat
    BY <1>1, <1>2
  <2> QED BY <1>1, <1>2, <2>1
<1>3. CASE page.ws # "open" /\ UNCHANGED events
  BY <1>1, <1>3
<1> QED BY <1>2, <1>3 DEF Kept

(* An event that is no message, or none, goes to the page. *)
LEMMA EventConversations ==
  ASSUME ChatTypeOK, ConversationsComplete, NEW event \in Event, event.type # "message",
         Kept(event) \/ UNCHANGED events, UNCHANGED <<page, mail, got, viewed>>
  PROVE  ConversationsComplete'
<1>1. FewerMessages /\ events' \in Seq(Event)
  BY KeptEvents, SameFewer, AppendedFewer
<1>2. SameHad
  BY SameStoreHad
<1>3. \A c \in Contact : Coming(c)' = Coming(c)
  BY KeptEvents, ComingStays, ComingAppended
<1>4. \A c \in Contact :
        page'.unreadCounts[c] = Cardinality(Theirs(page, c)) - viewed'[c]
  BY DEF ConversationsComplete
<1> QED BY <1>1, <1>2, <1>3, <1>4, ConversationsStay

LEMMA EventNumbered ==
  ASSUME ChatTypeOK, Numbered, NEW event \in Event, GoodEvent(event),
         Kept(event) \/ UNCHANGED events, UNCHANGED <<page, mail, got>>
  PROVE  GotNumbered' /\ StoreNumbered' /\ EventsNumbered'
<1>1. MailKept /\ SameHad
  BY MailIsKept, SameStoreHad
<1>2. GoodEvent(event)'
  BY <1>1, GoodStays
<1>3. GotNumbered' /\ StoreNumbered'
  BY <1>1, GotStays, StoreStays DEF Numbered
<1>4. EventsNumbered'
  BY <1>1, <1>2, KeptEvents, EventsStay DEF Numbered
<1> QED BY <1>3, <1>4

LEMMA EventAimed ==
  ASSUME ChatTypeOK, Aimed, NEW event \in Event, event.type # "decrypted",
         event.type # "decrypt",
         Kept(event) \/ UNCHANGED events, UNCHANGED <<page, commands, hasty>>
  PROVE  Aimed'
<1> SUFFICES ASSUME NEW c \in Contact, NEW f \in Peer, <<c, f>> \notin hasty,
                    NEW i \in DOMAIN page.messages[c], IsNext(page.messages[c], f, i)
             PROVE  OnlyFor(commands, events', c, f, page.messages[c][i].n)
  BY DEF Aimed
<1>1. OnlyFor(commands, events, c, f, page.messages[c][i].n)
  BY DEF Aimed
<1>2. commands \in Queues /\ events \in Seq(Event) /\ ~Asks(event, c, f)
  BY DEF ChatTypeOK, Queues, Asks
<1> QED BY <1>1, <1>2, KeptEvents, OnlyReported

(* StatusChanges and GroupCreated. *)
LEMMA ReportKeeps ==
  ASSUME ChatInv, NEW event \in Event, Reports(event),
         event.type \notin {"message", "decrypted", "decrypt"},
         requested' \subseteq Group, signedIn' \in BOOLEAN, status' \in 0..MaxStatus,
         UNCHANGED <<commands, mail, got>>
  PROVE  ChatInv'
<1> USE DEF ChatInv
<1>1. Kept(event) /\ UNCHANGED <<page, viewed, hasty, clicks>>
  BY DEF Reports
<1>2. GoodEvent(event)
  BY DEF GoodEvent
<1>3. ChatTypeOK'
  BY <1>1, KeptEvents DEF ChatTypeOK
<1>4. Numbered'
  BY <1>1, <1>2, EventNumbered, CommandsStay, MailIsKept DEF Numbered
<1>5. InView'
  BY <1>1 DEF InView
<1>6. ConversationsComplete'
  BY <1>1, EventConversations
<1>7. Aimed'
  BY <1>1, EventAimed
<1> QED BY <1>3, <1>4, <1>5, <1>6, <1>7

LEMMA StatusKeeps ==
  ASSUME ChatInv, StatusChanges
  PROVE  ChatInv'
<1>1. status' \in 0..MaxStatus /\ requested' \subseteq Group /\ UNCHANGED <<commands, mail, got>>
  BY ChatAssumption DEF StatusChanges, ChatInv, ChatTypeOK
<1>2. ASSUME NEW success \in BOOLEAN, Reports([type |-> "auth", success |-> success]),
             signedIn' = (signedIn \/ success)
      PROVE  ChatInv'
  <2> DEFINE event == [type |-> "auth", success |-> success]
  <2>1. event \in Event /\ event.type = "auth"
    BY DEF Event
  <2>2. signedIn' \in BOOLEAN
    BY <1>2 DEF ChatInv, ChatTypeOK
  <2> HIDE DEF event
  <2> QED BY <1>1, <1>2, <2>1, <2>2, ReportKeeps DEF event
<1>3. ASSUME Reports([type |-> "connection"]), UNCHANGED signedIn
      PROVE  ChatInv'
  <2> DEFINE event == [type |-> "connection"]
  <2>1. event \in Event /\ event.type = "connection"
    BY DEF Event
  <2>2. signedIn' \in BOOLEAN
    BY <1>3 DEF ChatInv, ChatTypeOK
  <2> HIDE DEF event
  <2> QED BY <1>1, <1>3, <2>1, <2>2, ReportKeeps DEF event
<1> QED BY <1>2, <1>3 DEF StatusChanges

LEMMA GroupCreatedKeeps ==
  ASSUME ChatInv, NEW group \in Group, GroupCreated(group)
  PROVE  ChatInv'
<1> DEFINE event == [type |-> "groupCode", in |-> group]
<1>1. event \in Event /\ event.type = "groupCode"
  BY DEF Event
<1>2. Reports(event)
  BY DEF GroupCreated
<1>3. /\ requested' \subseteq Group /\ signedIn' \in BOOLEAN /\ status' \in 0..MaxStatus
      /\ UNCHANGED <<commands, mail, got>>
  BY DEF GroupCreated, ChatInv, ChatTypeOK
<1> HIDE DEF event
<1> QED BY <1>1, <1>2, <1>3, ReportKeeps

(* A message that the client core reports is the last of all. *)
LEMMA ArrivesConversations ==
  ASSUME ChatInv, NEW m \in Sent, MessageArrives(m)
  PROVE  ConversationsComplete'
<1> PICK k : k = Len(mail) + 1
  OBVIOUS
<1> PICK event : event = [type |-> "message", n |-> k]
  OBVIOUS
<1> USE DEF ChatInv
<1>1. /\ mail' = Append(mail, m) /\ Kept(event) /\ UNCHANGED <<page, viewed>>
      /\ got' = IF events' = events THEN got ELSE Append(got, k)
      /\ Len(mail) < MaxMail
  BY DEF MessageArrives, Reports
<1>2. /\ Len(mail) \in Nat /\ DOMAIN mail = 1..Len(mail)
      /\ \A n \in DOMAIN mail : n < k /\ \A c : In(c, n)' <=> In(c, n)
  BY <1>1, MailGrows
<1>3. event \in Event /\ event.type = "message" /\ event.n = k
  BY <1>1, <1>2, ChatAssumption DEF Event
<1>4. events' = events \/ (page.ws # "closed" /\ events' = Append(events, event) /\ events' # events)
  BY <1>1, <1>3, KeptEvents
<1>5. events \in Seq(Event) /\ got \in Seq(1..MaxMail)
  BY DEF ChatTypeOK
<1>6. /\ \A i \in DOMAIN events : Comes(i) => events[i].n \in DOMAIN mail
      /\ \A i \in DOMAIN got : got[i] \in DOMAIN mail
      /\ \A c \in Contact : \A n \in Had(c) : n \in DOMAIN mail
  BY DEF Numbered, EventsNumbered, GotNumbered, StoreNumbered, GoodEvent, Comes, Had
<1>7. SameHad
  BY <1>1, SameStoreHad
<1>8. CASE events' = events
  <2>1. \A c \in Contact : Had(c)' = Had(c)
    BY <1>7, HadStays
  <2>2. InOrder'
    BY <1>8, <1>5, <1>7, SameFewer, OrderStays DEF ConversationsComplete
  <2>3. \A c : Coming(c)' = Coming(c)
    BY <1>2, <1>6, <1>8 DEF Coming, Comes
  <2>4. \A c \in Contact : {n \in ToSet(got)' : In(c, n)'} = {n \in ToSet(got) : In(c, n)}
    BY <1>1, <1>2, <1>6, <1>8 DEF ToSet
  <2> QED BY <1>1, <2>1, <2>2, <2>3, <2>4 DEF ConversationsComplete, Theirs
<1>9. CASE page.ws # "closed" /\ events' = Append(events, event) /\ events' # events
  <2> PICK l : l = Len(events) + 1
    OBVIOUS
  <2>1. /\ events'[l] = event /\ l \in DOMAIN events' /\ l \in Nat
        /\ \A i \in DOMAIN events : i \in DOMAIN events' /\ events'[i] = events[i] /\ i < l
        /\ \A i \in DOMAIN events' : i \in DOMAIN events \/ i = l
        /\ \A i \in DOMAIN events : i \in Nat
    BY <1>5, <1>9, Appended
  <2>2. \A i \in DOMAIN events : Comes(i)' <=> Comes(i)
    BY <2>1 DEF Comes
  <2>3. \A c \in Contact : Had(c)' = Had(c)
    BY <1>7, HadStays
  <2>4. InOrder'
    <3> SUFFICES ASSUME NEW c \in Contact
                 PROVE  /\ \A i, j \in Theirs(page, c)' :
                             i < j => page'.messages[c][i].n < page'.messages[c][j].n
                        /\ \A i, j \in DOMAIN events' :
                             Comes(i)' /\ Comes(j)' /\ i < j => events'[i].n < events'[j].n
                        /\ \A n \in Had(c)', i \in DOMAIN events' :
                             Comes(i)' => n < events'[i].n
      BY DEF InOrder
    <3>1. \A i, j \in Theirs(page, c)' :
            i < j => page'.messages[c][i].n < page'.messages[c][j].n
      BY <1>1 DEF ConversationsComplete, InOrder, Theirs
    <3>2. ASSUME NEW i \in DOMAIN events', NEW j \in DOMAIN events', Comes(i)', Comes(j)', i < j
          PROVE  events'[i].n < events'[j].n
      <4>1. i \in DOMAIN events /\ events'[i] = events[i] /\ Comes(i)
        BY <2>1, <2>2, <3>2
      <4>2. CASE j = l
        <5>1. events[i].n < k
          BY <1>2, <1>6, <4>1
        <5> QED BY <1>3, <2>1, <4>1, <4>2, <5>1
      <4>3. CASE j \in DOMAIN events
        BY <2>1, <2>2, <3>2, <4>1, <4>3 DEF ConversationsComplete, InOrder
      <4> QED BY <2>1, <4>2, <4>3
    <3>3. ASSUME NEW n \in Had(c)', NEW i \in DOMAIN events', Comes(i)'
          PROVE  n < events'[i].n
      <4>1. n \in Had(c) /\ n < k
        BY <1>2, <1>6, <2>3
      <4>2. CASE i = l
        BY <1>3, <2>1, <4>1, <4>2
      <4>3. CASE i \in DOMAIN events
        BY <2>1, <2>2, <3>3, <4>1, <4>3 DEF ConversationsComplete, InOrder
      <4> QED BY <2>1, <4>2, <4>3
    <3> QED BY <3>1, <3>2, <3>3
  <2>5. \A c \in Contact : Coming(c)' = Coming(c) \cup {n \in {k} : In(c, n)'}
    <3> DEFINE Next(c, n) ==
          mail'[n].in = c /\ ~BeginsWithDigit(Encrypted[mail'[n]]) /\ c \notin Unquoted
    <3>0. \A c, n : In(c, n)' <=> Next(c, n)
      BY DEF In
    <3>1. \A c : Coming(c)' = {events'[i].n : i \in {j \in DOMAIN events' : Comes(j)' /\ Next(c, events'[j].n)}}
      BY DEF Coming, In
    <3> HIDE DEF Next
    <3>2. Comes(l)' /\ events'[l].n = k
      BY <1>3, <2>1 DEF Comes
    <3>3. \A i \in DOMAIN events : Comes(i) => \A c : Next(c, events'[i].n) <=> In(c, events[i].n)
      BY <1>2, <1>6, <2>1, <3>0
    <3>4. ASSUME NEW c, NEW n \in Coming(c) PROVE n \in Coming(c)'
      <4>1. PICK i \in DOMAIN events : Comes(i) /\ In(c, events[i].n) /\ n = events[i].n
        BY DEF Coming
      <4>2. i \in DOMAIN events' /\ Comes(i)' /\ Next(c, events'[i].n) /\ n = events'[i].n
        BY <2>1, <2>2, <3>3, <4>1
      <4> QED BY <3>1, <4>2
    <3>5. ASSUME NEW c, NEW n \in Coming(c)' PROVE n \in Coming(c) \/ (n = k /\ Next(c, n))
      <4>1. PICK i \in DOMAIN events' : Comes(i)' /\ Next(c, events'[i].n) /\ n = events'[i].n
        BY <3>1
      <4>2. CASE i = l
        BY <3>2, <4>1, <4>2
      <4>3. CASE i \in DOMAIN events
        <5>1. Comes(i) /\ In(c, events[i].n) /\ n = events[i].n
          BY <2>1, <2>2, <3>3, <4>1, <4>3
        <5> QED BY <4>3, <5>1 DEF Coming
      <4> QED BY <2>1, <4>1, <4>2, <4>3
    <3>6. \A c : Next(c, k) => k \in Coming(c)'
      BY <2>1, <3>1, <3>2
    <3> QED BY <3>0, <3>4, <3>5, <3>6
  <2>6. \A c \in Contact :
          {n \in ToSet(got)' : In(c, n)'} = {n \in ToSet(got) : In(c, n)} \cup {n \in {k} : In(c, n)'}
    <3>1. got' = Append(got, k)
      BY <1>1, <1>9
    <3>2. ToSet(got') = ToSet(got) \cup {k}
      <4>1. /\ \A i \in DOMAIN got : i \in DOMAIN got' /\ got'[i] = got[i]
            /\ \A i \in DOMAIN got' : i \in DOMAIN got \/ i = Len(got) + 1
            /\ got'[Len(got) + 1] = k /\ Len(got) + 1 \in DOMAIN got'
        BY <1>5, <3>1, Appended
      <4> QED BY <4>1 DEF ToSet
    <3>3. \A n \in ToSet(got) : \A c : In(c, n)' <=> In(c, n)
      BY <1>2, <1>6 DEF ToSet
    <3> QED BY <3>2, <3>3 DEF ToSet
  <2> QED BY <1>1, <1>9, <2>3, <2>4, <2>5, <2>6 DEF ConversationsComplete, Theirs
<1> QED BY <1>4, <1>8, <1>9

LEMMA ArrivesKeeps ==
  ASSUME ChatInv, NEW m \in Sent, MessageArrives(m)
  PROVE  ChatInv'
<1> PICK k : k = Len(mail) + 1
  OBVIOUS
<1> PICK event : event = [type |-> "message", n |-> k]
  OBVIOUS
<1> USE DEF ChatInv
<1>1. /\ mail' = Append(mail, m) /\ Kept(event) /\ UNCHANGED <<page, viewed, hasty, clicks>>
      /\ got' = IF events' = events THEN got ELSE Append(got, k)
      /\ Len(mail) < MaxMail /\ UNCHANGED <<commands, requested, signedIn, status>>
  BY DEF MessageArrives, Reports
<1>2. /\ Len(mail) \in Nat /\ DOMAIN mail = 1..Len(mail) /\ DOMAIN mail' = 1..k
      /\ k \in 1..MaxMail
  BY <1>1, MailGrows, ChatAssumption
<1>3. event \in Event /\ event.type = "message" /\ event.n = k
  BY <1>2 DEF Event
<1>4. k \in DOMAIN mail'
  BY <1>2
<1>5. GoodEvent(event)'
  BY <1>3, <1>4 DEF GoodEvent
<1>6. events' \in Seq(Event) /\ (UNCHANGED events \/ events' = Append(events, event))
  BY <1>1, <1>3, KeptEvents
<1>7. got \in Seq(1..MaxMail) /\ got' \in Seq(1..MaxMail)
  <2>1. got \in Seq(1..MaxMail) /\ Append(got, k) \in Seq(1..MaxMail)
    BY <1>2 DEF ChatTypeOK
  <2> QED BY <1>1, <2>1
<1>8. mail' \in Seq(Sent) /\ Len(mail') <= MaxMail
  BY <1>1, <1>2, ChatAssumption DEF ChatTypeOK
<1>9. ChatTypeOK'
  BY <1>1, <1>6, <1>7, <1>8 DEF ChatTypeOK
<1>10. MailKept /\ SameHad
  BY <1>1, MailIsKept, SameStoreHad
<1>11. GotNumbered'
  <2>1. \A i \in DOMAIN got' : (i \in DOMAIN got /\ got'[i] = got[i]) \/ got'[i] = k
    BY <1>1, <1>7, Appended
  <2> QED BY <1>4, <1>10, <2>1 DEF Numbered, GotNumbered, MailKept
<1>12. StoreNumbered' /\ EventsNumbered' /\ CommandsNumbered'
  BY <1>1, <1>5, <1>6, <1>10, StoreStays, EventsStay, CommandsStay DEF Numbered
<1>13. InView' /\ Aimed'
  <2>1. Aimed'
    BY <1>1, <1>3, EventAimed
  <2> QED BY <1>1, <2>1 DEF InView
<1> QED BY <1>9, <1>11, <1>12, <1>13, ArrivesConversations DEF Numbered

(* The bridge decrypts a message with the key it was encrypted with, and    *)
(* answers about the message it was asked for.                              *)
LEMMA AnswersAreGood ==
  ASSUME ChatTypeOK, NEW command \in Command, command.type = "decrypt", Names(command),
         NEW event, event = Answer(command)
  PROVE  /\ event \in Event /\ GoodEvent(event)
         /\ \/ event.type = "decryptError"
            \/ /\ event.type = "decrypted"
               /\ event.n = command.n /\ event.from = command.from /\ event.in = command.in
<1> DEFINE m == mail[command.n]
           key == ReceiversKey(command)
           texts == Decrypted[m, key]
<1>1. /\ m \in Sent /\ m.in = command.in /\ m.from = command.from /\ command.n \in 1..MaxMail
      /\ m.from \in Peer /\ m.in \in Contact
  BY MailTyping DEF Names
<1>2. key = SendersKey(m)
  BY <1>1 DEF ReceiversKey, SendersKey, PrivateKey
<1>3. key \in Key
  <2>1. m.in \in Group => key = GroupKey(m.in)
    BY <1>1 DEF ReceiversKey
  <2>2. m.in \notin Group => key = PrivateKey(Me, m.from)
    BY <1>1 DEF ReceiversKey
  <2> QED BY <1>1, <2>1, <2>2 DEF Key
<1>4. \A text \in texts : text \in Answered
  <2>1. <<m, key>> \in Sent \X Key
    BY <1>1, <1>3
  <2> QED BY <2>1 DEF Answered
<1>5. CASE texts = {}
  <2>1. event = [type |-> "decryptError"]
    BY <1>5 DEF Answer
  <2> QED BY <2>1 DEF Event, GoodEvent
<1>6. CASE texts # {}
  <2>1. PICK text : text = CHOOSE t \in texts : TRUE
    OBVIOUS
  <2>2. text \in texts
    BY <1>6, <2>1
  <2>3. event = [type |-> "decrypted", n |-> command.n, from |-> command.from,
                 in |-> command.in, text |-> text]
    BY <1>6, <2>1 DEF Answer
  <2>4. text \in Answered /\ text \in Decrypted[m, SendersKey(m)]
    BY <1>2, <1>4, <2>2
  <2>5. /\ event.type = "decrypted" /\ event.text = text
        /\ event.n = command.n /\ event.from = command.from /\ event.in = command.in
    BY <2>3
  <2>6. event \in Event
    <3>1. command.n \in 1..MaxMail /\ command.from \in Peer /\ command.in \in Contact
      BY <1>1
    <3>2. event \in [type : {"decrypted"}, n : 1..MaxMail, from : Peer, in : Contact, text : Answered]
      BY ONLY <2>3, <2>4, <3>1
    <3> QED BY <3>2 DEF Event
  <2>7. GoodEvent(event)
    BY <1>1, <2>4, <2>5 DEF GoodEvent, Names
  <2> QED BY <2>5, <2>6, <2>7
<1> QED BY <1>5, <1>6

LEMMA CommandKeeps ==
  ASSUME ChatInv, NEW k \in 1..MaxLoads, handleCommand(k)
  PROVE  ChatInv'
<1> USE DEF ChatInv
<1> PICK command : command = Head(commands[k])
  OBVIOUS
<1>1. /\ commands[k] # <<>> /\ commands' = [commands EXCEPT ![k] = Tail(commands[k])]
      /\ IF command.type = "decrypt" THEN Kept(Answer(command)) ELSE UNCHANGED events
      /\ requested' = IF command.type = "createGroup" THEN requested \cup {command.in}
                      ELSE requested
      /\ UNCHANGED <<page, signedIn, mail, got, viewed, hasty, clicks, status>>
  BY DEF handleCommand
<1>2. commands \in Queues /\ events \in Seq(Event) /\ commands[k] \in Seq(Command)
      /\ k \in DOMAIN commands
  BY DEF ChatTypeOK, Queues
<1>3. /\ command \in Command /\ 1 \in DOMAIN commands[k] /\ command = commands[k][1]
      /\ Tail(commands[k]) \in Seq(Command)
      /\ \A i \in DOMAIN Tail(commands[k]) :
           i + 1 \in DOMAIN commands[k] /\ Tail(commands[k])[i] = commands[k][i + 1]
  BY <1>1, <1>2, Shortened
<1>4. GoodCommand(command)
  BY <1>2, <1>3 DEF Numbered, CommandsNumbered
<1>5. PICK event : event = IF command.type = "decrypt" THEN Answer(command)
                           ELSE [type |-> "connection"]
  OBVIOUS
<1>6. /\ event \in Event /\ GoodEvent(event)
      /\ \/ event.type \in {"decryptError", "connection"}
         \/ /\ event.type = "decrypted" /\ command.type = "decrypt"
            /\ event.n = command.n /\ event.from = command.from /\ event.in = command.in
  <2>1. CASE command.type = "decrypt"
    BY <1>3, <1>4, <1>5, <2>1, AnswersAreGood DEF GoodCommand
  <2>2. CASE command.type # "decrypt"
    BY <1>5, <2>2 DEF Event, GoodEvent
  <2> QED BY <2>1, <2>2
<1>7. Kept(event) \/ UNCHANGED events
  BY <1>1, <1>5
<1>8. events' \in Seq(Event) /\ (UNCHANGED events \/ events' = Append(events, event))
  BY <1>2, <1>6, <1>7, KeptEvents
<1>9. ChatTypeOK'
  <2>1. commands' \in Queues
    BY <1>1, <1>2, <1>3 DEF Queues
  <2>2. requested' \subseteq Group
    <3>1. command.type = "createGroup" => command.in \in Group
      BY <1>3 DEF Command
    <3> QED BY <1>1, <3>1 DEF ChatTypeOK
  <2> QED BY <1>1, <1>8, <2>1, <2>2 DEF ChatTypeOK, Queues
<1>10. Numbered'
  <2>1. GotNumbered' /\ StoreNumbered' /\ EventsNumbered'
    BY <1>1, <1>6, <1>7, EventNumbered
  <2>2. \A l \in DOMAIN commands' : \A i \in DOMAIN commands'[l] : GoodCommand(commands'[l][i])
    <3>1. DOMAIN commands' = DOMAIN commands /\ commands'[k] = Tail(commands[k])
          /\ \A l \in DOMAIN commands \ {k} : commands'[l] = commands[l]
      BY <1>1, <1>2 DEF Queues
    <3> QED BY <1>2, <1>3, <3>1 DEF Numbered, CommandsNumbered
  <2>3. CommandsNumbered'
    <3>1. \A x : GoodCommand(x)' <=> GoodCommand(x)
      BY <1>1 DEF GoodCommand, Names
    <3> QED BY <2>2, <3>1 DEF CommandsNumbered
  <2> QED BY <2>1, <2>3 DEF Numbered
<1>11. ConversationsComplete'
  BY <1>1, <1>6, <1>7, EventConversations
<1>12. Aimed'
  <2> SUFFICES ASSUME NEW c \in Contact, NEW f \in Peer, <<c, f>> \notin hasty,
                      NEW i \in DOMAIN page.messages[c], IsNext(page.messages[c], f, i),
                      NEW n, n = page.messages[c][i].n
               PROVE  OnlyFor(commands', events', c, f, n)
    BY <1>1 DEF Aimed
  <2> PICK queues : queues = [commands EXCEPT ![k] = Tail(commands[k])]
    OBVIOUS
  <2>1. OnlyFor(commands, events, c, f, n)
    BY DEF Aimed
  <2>2. queues \in Queues /\ commands' = queues
    BY <1>1, <1>2, <1>3 DEF Queues
  <2>3. LeavesOnly(queues, events, command, c, f, n)
    <3>1. /\ commands \in Queues /\ events \in Seq(Event) /\ commands[k] # <<>>
          /\ queues = [commands EXCEPT ![k] = Tail(commands[k])]
          /\ command = Head(commands[k]) /\ OnlyFor(commands, events, c, f, n)
      BY <1>1, <1>2, <2>1
    <3> QED BY ONLY <3>1, OnlyHandled
  <2>4. CASE UNCHANGED events
    BY <2>2, <2>3, <2>4 DEF LeavesOnly
  <2>5. CASE events' = Append(events, event)
    <3>1. CASE ~Asks(event, c, f)
      BY <1>2, <2>2, <2>3, <2>5, <3>1, OnlyReported DEF LeavesOnly
    <3>2. CASE Asks(event, c, f)
      <4>1. Asks(command, c, f) /\ event.n = n
        BY <1>6, <2>3, <3>2 DEF Asks, LeavesOnly
      <4>2. Unasked(queues, events, c, f)
        BY <2>3, <4>1 DEF LeavesOnly
      <4> QED BY <1>2, <2>2, <2>5, <4>1, <4>2, OnlyAnswered
    <3> QED BY <3>1, <3>2
  <2> QED BY <1>8, <2>4, <2>5
<1> QED BY <1>1, <1>9, <1>10, <1>11, <1>12 DEF InView

-----------------------------------------------------------------------------
(* What onmessage keeps true. *)

LEMMA NextEvent ==
  ASSUME ChatTypeOK, Numbered, events # <<>>, events' = Tail(events), UNCHANGED mail
  PROVE  /\ FewerMessages /\ events' \in Seq(Event) /\ EventsNumbered'
         /\ Head(events) \in Event /\ GoodEvent(Head(events))
<1>1. /\ FewerMessages /\ events' \in Seq(Event)
      /\ Head(events) \in Event /\ Head(events) = events[1] /\ 1 \in DOMAIN events
  BY ShortenedFewer
<1>2. EventsNumbered'
  BY MailIsKept, EventsStay DEF Numbered
<1> QED BY <1>1, <1>2 DEF Numbered, EventsNumbered

\* Where the next answer about f in c goes is where it went before, or the
\* event that is taken was that answer.
LEMMA TakenAimed ==
  ASSUME ChatTypeOK, Aimed, events # <<>>, UNCHANGED commands, events' = Tail(events),
         NEW c \in Contact, NEW f \in Peer, <<c, f>> \notin hasty,
         NEW i \in DOMAIN page.messages[c], IsNext(page.messages[c], f, i), NEW n,
         page.messages[c][i].n = n \/ Asks(Head(events), c, f)
  PROVE  OnlyFor(commands', events', c, f, n)
<1>1. commands \in Queues /\ events \in Seq(Event)
  BY DEF ChatTypeOK, Queues
<1> PICK k : k = page.messages[c][i].n
  OBVIOUS
<1>2. OnlyFor(commands, events, c, f, k)
  BY DEF Aimed
<1>3. /\ OnlyFor(commands, Tail(events), c, f, k)
      /\ Asks(Head(events), c, f) => Unasked(commands, Tail(events), c, f)
  BY <1>1, <1>2, OnlyTaken
<1> QED BY <1>3, UnaskedOnly

(* An event that leaves the conversations alone. *)
LEMMA TakenKeeps ==
  ASSUME ChatInv, events # <<>>, events' = Tail(events),
         UNCHANGED <<hasty, viewed, commands, requested, signedIn, mail, got, clicks, status>>,
         page' \in Page, SameView(page, page'), SameStore(page, page'),
         Head(events).type = "message" => ~Parses(Head(events))
  PROVE  ChatInv'
<1> USE DEF ChatInv
<1>1. /\ FewerMessages /\ events' \in Seq(Event) /\ EventsNumbered'
      /\ Head(events) \in Event /\ GoodEvent(Head(events))
  BY NextEvent
<1>2. SameHad /\ MailKept
  BY SameStoreHad, MailIsKept DEF SameStore
<1>3. ChatTypeOK'
  BY <1>1 DEF ChatTypeOK
<1>4. Numbered'
  BY <1>1, <1>2, GotStays, StoreStays, CommandsStay DEF Numbered
<1>5. InView'
  BY DEF InView, SameView, SameStore
<1>6. ConversationsComplete'
  <2>1. ASSUME NEW c \in Contact PROVE Coming(c)' = Coming(c)
    <3>1. Head(events).type = "message" => ~In(c, Head(events).n)
      BY DEF Parses, In
    <3> QED BY <3>1, ComingShortened
  <2>2. \A c \in Contact : page'.unreadCounts[c] = Cardinality(Theirs(page, c)) - viewed'[c]
    BY DEF ConversationsComplete, SameStore
  <2>3. page'.ws = page.ws
    BY DEF SameView
  <2> QED BY <1>1, <1>2, <2>1, <2>2, <2>3, ConversationsStay
<1>7. Aimed'
  <2> SUFFICES ASSUME NEW c \in Contact, NEW f \in Peer, <<c, f>> \notin hasty,
                      NEW i \in DOMAIN page.messages[c], IsNext(page.messages[c], f, i)
               PROVE  OnlyFor(commands', events', c, f, page.messages[c][i].n)
    BY DEF Aimed, SameStore
  <2> QED BY TakenAimed
<1> QED BY <1>3, <1>4, <1>5, <1>6, <1>7

LEMMA TakenDecrypted ==
  ASSUME ChatInv, events # <<>>, events' = Tail(events),
         UNCHANGED <<hasty, viewed, commands, requested, signedIn, mail, got, clicks, status>>,
         Head(events).type = "decrypted", page' = handleServerMessage(page, Head(events))
  PROVE  ChatInv'
<1> USE DEF ChatInv
<1>1. /\ FewerMessages /\ events' \in Seq(Event) /\ EventsNumbered'
      /\ Head(events) \in Event /\ GoodEvent(Head(events))
  BY NextEvent
<1> PICK event : event = Head(events)
  OBVIOUS
<1>2. event.in \in Contact /\ event.from \in Peer
  BY <1>1 DEF Event
<1>3. page \in Page
  BY DEF ChatTypeOK
<1>4. CASE page' = page
  BY <1>3, <1>4, TakenKeeps DEF SameView, SameStore
<1>5. ASSUME NEW i \in DOMAIN page.messages[event.in],
             IsNext(page.messages[event.in], event.from, i),
             page' \in Page, SameView(page, page'), page'.unreadCounts = page.unreadCounts,
             page'.messages = [page.messages EXCEPT ![event.in] =
                                 [page.messages[event.in] EXCEPT ![i] =
                                    [page.messages[event.in][i] EXCEPT
                                       !.decrypted = Parsed[event.text]]]]
      PROVE  ChatInv'
  <2>1. SameHad /\ OnlyShows(event.in, i, Parsed[event.text])
    BY ONLY <1>2, <1>3, <1>5, DecryptedHad
  <2>2. MailKept
    BY MailIsKept
  <2>3. ChatTypeOK'
    BY <1>1, <1>5 DEF ChatTypeOK
  <2>4. Numbered'
    BY <1>1, <2>1, <2>2, GotStays, StoreStays, CommandsStay DEF Numbered
  <2>5. InView'
    BY <1>5 DEF InView, SameView
  <2>6. ConversationsComplete'
    <3>1. \A c \in Contact : Coming(c)' = Coming(c)
      BY ComingShortened
    <3>2. \A c \in Contact : page'.unreadCounts[c] = Cardinality(Theirs(page, c)) - viewed'[c]
      BY <1>5 DEF ConversationsComplete
    <3>3. page'.ws = page.ws
      BY <1>5 DEF SameView
    <3> QED BY <1>1, <2>1, <3>1, <3>2, <3>3, ConversationsStay
  <2>7. Aimed'
    <3> SUFFICES ASSUME NEW c \in Contact, NEW f \in Peer, <<c, f>> \notin hasty,
                        NEW j \in DOMAIN page'.messages[c], IsNext(page'.messages[c], f, j),
                        NEW n, n = page'.messages[c][j].n
                 PROVE  OnlyFor(commands', events', c, f, n)
      BY DEF Aimed
    <3>1. j \in DOMAIN page.messages[c] /\ page.messages[c][j].n = n
      BY <2>1 DEF OnlyShows
    <3>2. CASE c = event.in /\ f = event.from
      <4>1. Asks(Head(events), c, f)
        BY <3>2 DEF Asks
      <4> QED BY <1>5, <3>2, <4>1, TakenAimed
    <3>3. CASE ~(c = event.in /\ f = event.from)
      <4>1. c = event.in => page.messages[c][i].from # f
        BY <1>5, <3>3 DEF IsNext
      <4>2. c # event.in \/ j # i
        BY <2>1, <3>1, <4>1 DEF IsNext, OnlyShows
      <4>3. IsNext(page.messages[c], f, j)
        BY <2>1, <3>1, <4>1, <4>2 DEF IsNext, OnlyShows
      <4> QED BY <3>1, <4>3, TakenAimed
    <3> QED BY <3>2, <3>3
  <2> QED BY <2>3, <2>4, <2>5, <2>6, <2>7
<1> QED BY <1>1, <1>4, <1>5, DecryptedEvents

\* A message m, of number n, is taken, and the page is as it makes it.
Receives(n, m) ==
  /\ events # <<>> /\ events' = Tail(events) /\ UNCHANGED <<mail, got>>
  /\ Head(events).type = "message" /\ Head(events).n = n
  /\ n \in DOMAIN mail /\ m = mail[n] /\ In(m.in, n)
  /\ page' \in Page /\ SameView(page, page')
  /\ Gains(page, page', m.in, [n |-> n, from |-> m.from, decrypted |-> {}])
  /\ page'.unreadCounts = [page.unreadCounts EXCEPT ![m.in] =
       IF page.currentContact = m.in THEN 0 ELSE page.unreadCounts[m.in] + 1]
  /\ viewed' = IF page.currentContact = m.in
               THEN [viewed EXCEPT ![m.in] = viewed[m.in] + 1] ELSE viewed

\* The message is one more of its conversation, after all that were there.
LastOf(n, m, k) ==
  /\ \A d \in Contact \ {m.in} :
       page'.messages[d] = page.messages[d] /\ Theirs(page, d)' = Theirs(page, d)
  /\ \A i \in DOMAIN page.messages[m.in] :
       i \in Nat /\ i < k /\ page'.messages[m.in][i] = page.messages[m.in][i]
  /\ \A i \in DOMAIN page'.messages[m.in] : i \in DOMAIN page.messages[m.in] \/ i = k
  /\ page'.messages[m.in][k] = [n |-> n, from |-> m.from, decrypted |-> {}]
  /\ k \in Nat /\ Theirs(page, m.in)' = Theirs(page, m.in) \cup {k}
  /\ Cardinality(Theirs(page, m.in)') = Cardinality(Theirs(page, m.in)) + 1

LEMMA ReceivedLast ==
  ASSUME ChatTypeOK, NEW n, NEW m, Receives(n, m)
  PROVE  /\ \E k : LastOf(n, m, k)
         /\ m \in Sent /\ m.from \in Peer /\ m.from # Me /\ m.in \in Contact
<1> DEFINE c == m.in
           e == [n |-> n, from |-> m.from, decrypted |-> {}]
           k == Len(page.messages[c]) + 1
<1>1. page \in Page /\ n \in DOMAIN mail /\ m = mail[n] /\ Gains(page, page', c, e)
  BY DEF ChatTypeOK, Receives
<1>2. m \in Sent /\ m.from \in Peer /\ c \in Contact
  BY <1>1, MailTyping
<1>3. e.from = m.from /\ m.from # Me
  BY <1>2, ChatAssumption DEF Contact
<1> HIDE DEF e, c
<1>4. /\ \A d \in Contact \ {c} :
           page'.messages[d] = page.messages[d] /\ Theirs(page', d) = Theirs(page, d)
      /\ page'.messages[c][k] = e /\ k \in Nat
      /\ \A i \in DOMAIN page.messages[c] :
           i < k /\ i \in Nat /\ page'.messages[c][i] = page.messages[c][i]
      /\ \A i \in DOMAIN page'.messages[c] : i \in DOMAIN page.messages[c] \/ i = k
      /\ Theirs(page', c) = Theirs(page, c) \cup {k}
      /\ Cardinality(Theirs(page', c)) = Cardinality(Theirs(page, c)) + 1
  BY <1>1, <1>2, <1>3, TheirsGains
<1>5. \A d : Theirs(page, d)' = Theirs(page', d)
  BY DEF Theirs
<1> HIDE DEF k
<1>6. LastOf(n, m, k)
  BY <1>4, <1>5 DEF LastOf, c, e
<1> QED BY <1>2, <1>3, <1>6 DEF c

LEMMA ReceivedHad ==
  ASSUME ChatTypeOK, NEW n, NEW m, NEW k, Receives(n, m), LastOf(n, m, k), m.in \in Contact
  PROVE  /\ Had(m.in)' = Had(m.in) \cup {n}
         /\ \A d \in Contact \ {m.in} : Had(d)' = Had(d)
<1>1. \A d : Had(d)' = {page'.messages[d][i].n : i \in Theirs(page, d)'}
             /\ Had(d) = {page.messages[d][i].n : i \in Theirs(page, d)}
  BY DEF Had
<1>2. page'.messages[m.in][k].n = n
  BY DEF LastOf
<1>3. \A i \in Theirs(page, m.in) : i \in DOMAIN page.messages[m.in]
  BY DEF Theirs
<1>4. Had(m.in)' = Had(m.in) \cup {n}
  <2>1. Theirs(page, m.in)' = Theirs(page, m.in) \cup {k}
        /\ \A i \in Theirs(page, m.in) : page'.messages[m.in][i] = page.messages[m.in][i]
    BY <1>3 DEF LastOf
  <2> QED BY <1>1, <1>2, <2>1
<1>5. ASSUME NEW d \in Contact \ {m.in} PROVE Had(d)' = Had(d)
  <2>1. page'.messages[d] = page.messages[d] /\ Theirs(page, d)' = Theirs(page, d)
    BY DEF LastOf
  <2>2. Had(d)' = {page'.messages[d][i].n : i \in Theirs(page, d)'}
    BY <1>1
  <2>3. Had(d)' = {page.messages[d][i].n : i \in Theirs(page, d)}
    BY <2>1, <2>2
  <2> QED BY <1>1, <2>3
<1> QED BY <1>4, <1>5

LEMMA ReceivedOrder ==
  ASSUME ChatTypeOK, InOrder, NEW n, NEW m, NEW k, Receives(n, m), LastOf(n, m, k),
         m.in \in Contact
  PROVE  InOrder'
<1>1. events \in Seq(Event) /\ events # <<>> /\ events' = Tail(events)
  BY DEF ChatTypeOK, Receives
<1>2. /\ Head(events) = events[1] /\ 1 \in DOMAIN events
      /\ DOMAIN events' \subseteq Nat \ {0}
      /\ \A i \in DOMAIN events' : i + 1 \in DOMAIN events /\ events'[i] = events[i + 1]
  BY <1>1, Shortened
<1>3. Comes(1) /\ events[1].n = n /\ \A i \in DOMAIN events' : Comes(i)' => Comes(i + 1)
  BY <1>2 DEF Comes, Receives
<1> SUFFICES ASSUME NEW c \in Contact
             PROVE  /\ \A i, j \in Theirs(page, c)' :
                         i < j => page'.messages[c][i].n < page'.messages[c][j].n
                    /\ \A i, j \in DOMAIN events' :
                         Comes(i)' /\ Comes(j)' /\ i < j => events'[i].n < events'[j].n
                    /\ \A l \in Had(c)', i \in DOMAIN events' :
                         Comes(i)' => l < events'[i].n
  BY DEF InOrder
<1>4. ASSUME NEW i \in Theirs(page, c)', NEW j \in Theirs(page, c)', i < j
      PROVE  page'.messages[c][i].n < page'.messages[c][j].n
  <2>1. CASE c # m.in
    BY <1>4, <2>1 DEF LastOf, InOrder
  <2>2. CASE c = m.in
    <3>1. \A l \in Theirs(page, c) :
            /\ l \in Nat /\ l < k /\ page'.messages[c][l] = page.messages[c][l]
            /\ page.messages[c][l].n \in Had(c)
      BY <2>2 DEF LastOf, Theirs, Had
    <3>2. i \in Theirs(page, c) /\ k \in Nat /\ (j \in Theirs(page, c) \/ j = k)
      BY <1>4, <2>2, <3>1 DEF LastOf
    <3>3. CASE j = k
      <4>1. page'.messages[c][k].n = n
        BY <2>2 DEF LastOf
      <4>2. page.messages[c][i].n < events[1].n
        BY <1>2, <1>3, <3>1, <3>2 DEF InOrder
      <4> QED BY <1>3, <3>1, <3>2, <3>3, <4>1, <4>2
    <3>4. CASE j \in Theirs(page, c)
      BY <1>4, <3>1, <3>2, <3>4 DEF InOrder
    <3> QED BY <3>2, <3>3, <3>4
  <2> QED BY <2>1, <2>2
<1>5. ASSUME NEW i \in DOMAIN events', NEW j \in DOMAIN events', Comes(i)', Comes(j)', i < j
      PROVE  events'[i].n < events'[j].n
  <2>1. i + 1 < j + 1
    BY <1>2, <1>5
  <2> QED BY <1>2, <1>3, <1>5, <2>1 DEF InOrder
<1>6. ASSUME NEW l \in Had(c)', NEW i \in DOMAIN events', Comes(i)'
      PROVE  l < events'[i].n
  <2>1. l \in Had(c) \/ l = n
    BY ReceivedHad
  <2>2. 1 < i + 1
    BY <1>2, <1>6
  <2>3. CASE l = n
    BY <1>2, <1>3, <1>6, <2>2, <2>3 DEF InOrder
  <2>4. CASE l \in Had(c)
    BY <1>2, <1>3, <1>6, <2>4 DEF InOrder
  <2> QED BY <2>1, <2>3, <2>4
<1> QED BY <1>4, <1>5, <1>6

LEMMA ReceivedConversations ==
  ASSUME ChatTypeOK, InView, ConversationsComplete, NEW n, NEW m, Receives(n, m)
  PROVE  ConversationsComplete'
<1>1. m \in Sent /\ m.from \in Peer /\ m.in \in Contact
  BY ReceivedLast
<1>2. PICK k : LastOf(n, m, k)
  BY ReceivedLast
<1>3. InOrder'
  BY <1>1, <1>2, ReceivedOrder DEF ConversationsComplete
<1>4. /\ Had(m.in)' = Had(m.in) \cup {n}
      /\ \A d \in Contact \ {m.in} : Had(d)' = Had(d)
  BY <1>1, <1>2, ReceivedHad
<1>5. \A d : In(d, n) => d = m.in
  BY DEF Receives, In
<1>6. ASSUME NEW c \in Contact
      PROVE  Coming(c) = Coming(c)' \cup {l \in {n} : In(c, l)}
  <2>1. /\ events # <<>> /\ events' = Tail(events) /\ UNCHANGED mail
        /\ Head(events).type = "message" /\ Head(events).n = n
    BY DEF Receives
  <2> QED BY <2>1, ComingShortened
<1>7. ASSUME NEW c \in Contact, page'.ws # "closed"
      PROVE  Had(c)' \cup Coming(c)' = {l \in ToSet(got)' : In(c, l)'}
  <2>1. Had(c) \cup Coming(c) = {l \in ToSet(got) : In(c, l)}
    BY <1>7 DEF ConversationsComplete, Receives, SameView
  <2>2. ToSet(got)' = ToSet(got) /\ \A l : In(c, l)' <=> In(c, l)
    BY DEF ToSet, In, Receives
  <2>3. In(m.in, n)
    BY DEF Receives
  <2>4. Had(c)' \cup Coming(c)' = Had(c) \cup Coming(c)
    BY <1>4, <1>5, <1>6, <2>3
  <2> QED BY <2>1, <2>2, <2>4
<1>8. ASSUME NEW c \in Contact
      PROVE  page'.unreadCounts[c] = Cardinality(Theirs(page, c))' - viewed'[c]
  <2>1. /\ page.unreadCounts[c] = Cardinality(Theirs(page, c)) - viewed[c]
        /\ page.currentContact = c => page.unreadCounts[c] = 0
    BY DEF ConversationsComplete, InView
  <2>2. /\ Cardinality(Theirs(page, c)) \in Nat /\ page.unreadCounts[c] \in Nat
        /\ viewed \in [Contact -> Nat] /\ page.unreadCounts \in [Contact -> Nat]
    BY TheirsIsFinite DEF ChatTypeOK, Page
  <2>3. CASE c # m.in
    <3>1. Theirs(page, c)' = Theirs(page, c)
      BY <1>2, <2>3 DEF LastOf
    <3>2. page'.unreadCounts[c] = page.unreadCounts[c] /\ viewed'[c] = viewed[c]
      BY <1>1, <2>2, <2>3 DEF Receives
    <3> QED BY <2>1, <3>1, <3>2
  <2>4. CASE c = m.in
    <3>1. Cardinality(Theirs(page, c)') = Cardinality(Theirs(page, c)) + 1
      BY <1>2, <2>4 DEF LastOf
    <3>2. CASE page.currentContact = c
      <4>1. page'.unreadCounts[c] = 0 /\ viewed'[c] = viewed[c] + 1
        BY <2>2, <2>4, <3>2 DEF Receives
      <4> QED BY <2>1, <2>2, <3>1, <3>2, <4>1
    <3>3. CASE page.currentContact # c
      <4>1. page'.unreadCounts[c] = page.unreadCounts[c] + 1 /\ viewed'[c] = viewed[c]
        BY <2>2, <2>4, <3>3 DEF Receives
      <4> QED BY <2>1, <2>2, <3>1, <4>1
    <3> QED BY <3>2, <3>3
  <2> QED BY <2>3, <2>4
<1> QED BY <1>3, <1>7, <1>8 DEF ConversationsComplete

LEMMA TakenMessage ==
  ASSUME ChatInv, NEW n, NEW m, Receives(n, m),
         hasty' = IF Outstanding(m.in, m.from) THEN hasty \cup {<<m.in, m.from>>} ELSE hasty,
         UNCHANGED <<commands, requested, signedIn, clicks, status>>
  PROVE  ChatInv'
<1> USE DEF ChatInv
<1>1. m \in Sent /\ m.from \in Peer /\ m.from # Me /\ m.in \in Contact
  BY ReceivedLast
<1>2. PICK k : LastOf(n, m, k)
  BY ReceivedLast
<1>3. events # <<>> /\ events' = Tail(events) /\ UNCHANGED <<mail, got>> /\ page' \in Page
  BY DEF Receives
<1>4. /\ events' \in Seq(Event) /\ EventsNumbered'
      /\ Head(events) \in Event /\ GoodEvent(Head(events))
  BY <1>3, NextEvent
<1>5. MailKept
  BY <1>3, MailIsKept
<1>6. ChatTypeOK'
  <2>1. viewed' \in [Contact -> Nat]
    <3>1. viewed \in [Contact -> Nat] /\ viewed[m.in] + 1 \in Nat
      BY <1>1 DEF ChatTypeOK
    <3> QED BY <1>1, <3>1 DEF Receives
  <2>2. hasty' \subseteq Contact \X Peer
    BY <1>1 DEF ChatTypeOK
  <2> QED BY <1>3, <1>4, <2>1, <2>2 DEF ChatTypeOK
<1>7. StoreNumbered'
  <2> SUFFICES ASSUME NEW c \in Contact, NEW i \in Theirs(page, c)'
               PROVE  LET e == page'.messages[c][i]
                      IN e.n \in DOMAIN mail /\ mail[e.n].in = c /\ mail[e.n].from = e.from
    BY <1>3 DEF StoreNumbered
  <2>1. CASE c # m.in
    BY <1>2, <2>1 DEF LastOf, Numbered, StoreNumbered
  <2>2. CASE c = m.in /\ i = k
    <3>1. page'.messages[c][i] = [n |-> n, from |-> m.from, decrypted |-> {}]
      BY <1>2, <2>2 DEF LastOf
    <3>2. n \in DOMAIN mail /\ m = mail[n]
      BY DEF Receives
    <3> QED BY <2>2, <3>1, <3>2
  <2>3. CASE c = m.in /\ i # k
    <3>1. i \in Theirs(page, c)
      BY <1>2, <2>3 DEF LastOf
    <3>2. page'.messages[c][i] = page.messages[c][i]
      BY <1>2, <2>3, <3>1 DEF LastOf, Theirs
    <3> QED BY <3>1, <3>2 DEF Numbered, StoreNumbered
  <2> QED BY <2>1, <2>2, <2>3
<1>8. Numbered'
  BY <1>3, <1>4, <1>5, <1>7, GotStays, CommandsStay DEF Numbered
<1>9. InView'
  <2>1. page.unreadCounts \in [Contact -> Nat]
    BY DEF ChatTypeOK, Page
  <2> QED BY <1>1, <2>1 DEF InView, Receives, SameView
<1>10. ConversationsComplete'
  BY ReceivedConversations
<1>11. Aimed'
  <2> SUFFICES ASSUME NEW c \in Contact, NEW f \in Peer, <<c, f>> \notin hasty',
                      NEW i \in DOMAIN page'.messages[c], IsNext(page'.messages[c], f, i),
                      NEW l, l = page'.messages[c][i].n
               PROVE  OnlyFor(commands', events', c, f, l)
    BY DEF Aimed
  <2>1. <<c, f>> \notin hasty
    OBVIOUS
  <2>2. CASE c # m.in
    <3>1. page'.messages[c] = page.messages[c]
      BY <1>2, <2>2 DEF LastOf
    <3> QED BY <1>3, <2>1, <3>1, TakenAimed
  <2>3. CASE c = m.in /\ f # m.from
    <3>1. page'.messages[c][k].from = m.from
      BY <1>2, <2>3 DEF LastOf
    <3>2. i \in DOMAIN page.messages[c] /\ page'.messages[c][i] = page.messages[c][i]
      BY <1>2, <2>3, <3>1 DEF LastOf, IsNext
    <3>3. \A j \in DOMAIN page.messages[c] :
            j \in DOMAIN page'.messages[c] /\ page'.messages[c][j] = page.messages[c][j]
      <4>1. page \in Page /\ Gains(page, page', m.in, [n |-> n, from |-> m.from, decrypted |-> {}])
        BY DEF Receives, ChatTypeOK
      <4>2. \A j \in DOMAIN page.messages[m.in] :
              /\ j \in DOMAIN page'.messages[m.in]
              /\ page'.messages[m.in][j] = page.messages[m.in][j]
        BY <1>1, <4>1, TheirsGains
      <4> QED BY <2>3, <4>2
    <3>4. IsNext(page.messages[c], f, i)
      BY <3>2, <3>3 DEF IsNext
    <3> QED BY <1>3, <2>1, <3>2, <3>4, TakenAimed
  <2>4. CASE c = m.in /\ f = m.from
    <3>1. ~Outstanding(c, f)
      BY <2>4
    <3>2. Unasked(commands, events, c, f)
      BY <3>1, OutstandingAsks
    <3>3. commands \in Queues /\ events \in Seq(Event)
      BY DEF ChatTypeOK, Queues
    <3>4. Unasked(commands, Tail(events), c, f)
      BY <1>3, <3>2, <3>3, UnaskedTaken
    <3> QED BY <1>3, <3>4, UnaskedOnly
  <2> QED BY <2>2, <2>3, <2>4
<1> QED BY <1>6, <1>8, <1>9, <1>10, <1>11

LEMMA EventKeeps ==
  ASSUME ChatInv, onmessage
  PROVE  ChatInv'
<1> PICK event : event = Head(events)
  OBVIOUS
<1>1. /\ events # <<>> /\ events' = Tail(events)
      /\ page' = IF Parses(event) THEN handleServerMessage(page, event) ELSE page
      /\ event.type = "message" /\ Parses(event) =>
           LET m == mail[event.n]
           IN /\ hasty' = IF Outstanding(m.in, m.from) THEN hasty \cup {<<m.in, m.from>>}
                          ELSE hasty
              /\ viewed' = IF page.currentContact = m.in
                           THEN [viewed EXCEPT ![m.in] = @ + 1] ELSE viewed
      /\ ~(event.type = "message" /\ Parses(event)) => UNCHANGED <<hasty, viewed>>
      /\ UNCHANGED <<commands, requested, signedIn, mail, got, clicks, status>>
  BY DEF onmessage
<1>2. event \in Event /\ GoodEvent(event) /\ page \in Page
  BY <1>1, NextEvent DEF ChatInv, ChatTypeOK
<1>3. CASE event.type = "message" /\ Parses(event)
  <2> PICK n : n = event.n
    OBVIOUS
  <2> PICK m : m = mail[n]
    OBVIOUS
  <2>1. n \in DOMAIN mail
    BY <1>2, <1>3 DEF GoodEvent
  <2>2. /\ page' \in Page /\ SameView(page, page')
        /\ Gains(page, page', m.in, [n |-> n, from |-> m.from, decrypted |-> {}])
        /\ page'.unreadCounts =
             [page.unreadCounts EXCEPT ![m.in] =
                IF page.currentContact = m.in THEN 0 ELSE page.unreadCounts[m.in] + 1]
    <3>1. /\ ChatTypeOK /\ event.type = "message" /\ event.n \in DOMAIN mail
          /\ page' = handleServerMessage(page, event) /\ n = event.n /\ m = mail[n]
      BY <1>1, <1>3, <2>1 DEF ChatInv
    <3> QED BY ONLY <3>1, MessageEvents
  <2>3. In(m.in, n)
    BY <1>3 DEF Parses, In
  <2>4. /\ viewed' = IF page.currentContact = m.in
                     THEN [viewed EXCEPT ![m.in] = viewed[m.in] + 1] ELSE viewed
        /\ hasty' = IF Outstanding(m.in, m.from) THEN hasty \cup {<<m.in, m.from>>} ELSE hasty
    BY <1>1, <1>3
  <2>5. Receives(n, m)
    BY <1>1, <1>3, <2>1, <2>2, <2>3, <2>4 DEF Receives
  <2> QED BY <1>1, <2>4, <2>5, TakenMessage
<1>4. CASE event.type = "decrypted" /\ Parses(event)
  BY <1>1, <1>4, TakenDecrypted
<1>5. CASE event.type \notin {"message", "decrypted"} /\ Parses(event)
  BY <1>1, <1>2, <1>5, OtherEvents, TakenKeeps DEF ChatInv
<1>6. CASE ~Parses(event)
  BY <1>1, <1>2, <1>6, TakenKeeps DEF SameView, SameStore
<1> QED BY <1>3, <1>4, <1>5, <1>6

-----------------------------------------------------------------------------
(* What the user keeps true. *)

(* A step of the user that changes no conversation and sends the command x, *)
(* or none.  Aimed is left to show where the command is a request.          *)
LEMMA UserKeeps ==
  ASSUME ChatInv, SameHad, page' \in Page, page'.ws = page.ws,
         UNCHANGED <<events, requested, signedIn, mail, got, status>>,
         clicks' \in 0..MaxClicks, viewed' \in [Contact -> Nat],
         commands' \in Queues, CommandsNumbered', hasty' \subseteq Contact \X Peer,
         \A c \in Contact :
           /\ page'.unreadCounts[c] = Cardinality(Theirs(page, c)) - viewed'[c]
           /\ page'.currentContact = c => page'.unreadCounts[c] = 0
  PROVE  ChatTypeOK' /\ Numbered' /\ InView' /\ ConversationsComplete'
<1> USE DEF ChatInv
<1>1. ChatTypeOK'
  BY DEF ChatTypeOK, Queues
<1>2. MailKept /\ FewerMessages /\ events' \in Seq(Event)
  BY MailIsKept, SameFewer
<1>3. Numbered'
  BY <1>2, GotStays, StoreStays, EventsStay DEF Numbered
<1>4. InView'
  BY DEF InView
<1>5. ConversationsComplete'
  BY <1>2, ComingStays, ConversationsStay
<1> QED BY <1>1, <1>3, <1>4, <1>5

(* What a click sends, the page's queue gets at its end, or nobody. *)
LEMMA SentCommands ==
  ASSUME ChatInv, NEW x \in Command, GoodCommand(x), UNCHANGED mail, send(x)
  PROVE  /\ commands' \in Queues /\ CommandsNumbered'
         /\ page.load \in 1..MaxLoads /\ commands \in Queues
         /\ \/ UNCHANGED commands
            \/ commands' = [commands EXCEPT ![page.load] = Append(commands[page.load], x)]
<1> USE DEF ChatInv
<1>1. commands \in Queues /\ page.load \in 1..MaxLoads
  BY DEF ChatTypeOK, Queues, Page
<1>2. \A y : GoodCommand(y)' <=> GoodCommand(y)
  BY DEF GoodCommand, Names
<1>3. CASE UNCHANGED commands
  BY <1>1, <1>2, <1>3 DEF Numbered, CommandsNumbered
<1>4. CASE commands' = [commands EXCEPT ![page.load] = Append(commands[page.load], x)]
  <2> PICK k : k = page.load
    OBVIOUS
  <2> PICK q : q = commands[k]
    OBVIOUS
  <2> PICK r : r = Append(q, x)
    OBVIOUS
  <2>1. q \in Seq(Command) /\ r \in Seq(Command) /\ k \in DOMAIN commands
    BY <1>1 DEF Queues
  <2>2. commands' \in Queues
    BY <1>1, <1>4, <2>1 DEF Queues
  <2>3. /\ DOMAIN commands' = DOMAIN commands /\ commands'[k] = r
        /\ \A l \in DOMAIN commands \ {k} : commands'[l] = commands[l]
    BY <1>1, <1>4 DEF Queues
  <2>4. \A i \in DOMAIN r : (i \in DOMAIN q /\ r[i] = q[i]) \/ r[i] = x
    BY <2>1, Appended
  <2>5. \A l \in DOMAIN commands' : \A i \in DOMAIN commands'[l] : GoodCommand(commands'[l][i])
    BY <2>1, <2>3, <2>4 DEF Numbered, CommandsNumbered
  <2>6. CommandsNumbered'
    BY <1>2, <2>5 DEF CommandsNumbered
  <2> QED BY <1>1, <1>4, <2>2, <2>6
<1> QED BY <1>1, <1>3, <1>4 DEF send

LEMMA CommandsUnchanged ==
  ASSUME ChatInv, UNCHANGED <<mail, commands>>
  PROVE  commands' \in Queues /\ CommandsNumbered'
  BY MailIsKept, CommandsStay DEF ChatInv, Numbered, ChatTypeOK, Queues

LEMMA Counted ==
  ASSUME ChatInv, NEW c \in Contact
  PROVE  /\ page \in Page /\ viewed \in [Contact -> Nat]
         /\ page.unreadCounts[c] = Cardinality(Theirs(page, c)) - viewed[c]
         /\ page.currentContact = c => page.unreadCounts[c] = 0
  BY DEF ChatInv, ChatTypeOK, ConversationsComplete, InView

LEMMA ClickCount ==
  ASSUME ChatInv, NEW p, Clicks(p)
  PROVE  /\ clicks' \in 0..MaxClicks /\ page' = p
         /\ UNCHANGED <<events, requested, signedIn, mail, got, status>>
  BY ChatAssumption DEF ChatInv, ChatTypeOK, Clicks

LEMMA SelectKeeps ==
  ASSUME ChatInv, NEW c \in Contact, selectContact(c)
  PROVE  ChatInv'
<1>1. /\ page' = [page EXCEPT !.currentContact = c, !.unreadCounts[c] = 0]
      /\ clicks' \in 0..MaxClicks
      /\ viewed' = [viewed EXCEPT ![c] = Cardinality(Theirs(page, c))]
      /\ UNCHANGED <<events, requested, signedIn, mail, got, status, commands, hasty>>
  BY ClickCount DEF selectContact
<1>2. page \in Page /\ viewed \in [Contact -> Nat]
  BY Counted
<1>3. /\ page'.messages = page.messages /\ page'.ws = page.ws /\ page'.currentContact = c
      /\ page'.unreadCounts = [page.unreadCounts EXCEPT ![c] = 0]
  BY <1>1, <1>2 DEF Page
<1>4. page' \in Page
  <2>1. [page.unreadCounts EXCEPT ![c] = 0] \in [Contact -> Nat]
    BY <1>2 DEF Page
  <2>2. page' = [page EXCEPT !.currentContact = c, !.unreadCounts = page'.unreadCounts]
    BY <1>1, <1>2, <1>3 DEF Page
  <2> QED BY <1>2, <1>3, <2>1, <2>2 DEF Page
<1>5. SameHad
  BY <1>3, SameStoreHad
<1>6. Cardinality(Theirs(page, c)) \in Nat
  BY <1>2, TheirsIsFinite
<1>7. viewed' \in [Contact -> Nat]
  BY <1>1, <1>2, <1>6
<1>8. ASSUME NEW d \in Contact
      PROVE  /\ page'.unreadCounts[d] = Cardinality(Theirs(page, d)) - viewed'[d]
             /\ page'.currentContact = d => page'.unreadCounts[d] = 0
  <2>1. page.unreadCounts[d] = Cardinality(Theirs(page, d)) - viewed[d]
    BY Counted
  <2>2. page.unreadCounts \in [Contact -> Nat]
    BY <1>2 DEF Page
  <2>3. CASE d = c
    BY <1>1, <1>2, <1>3, <1>6, <2>2, <2>3
  <2>4. CASE d # c
    BY <1>1, <1>2, <1>3, <2>1, <2>2, <2>4
  <2> QED BY <2>3, <2>4
<1>9. commands' \in Queues /\ CommandsNumbered'
  BY <1>1, CommandsUnchanged
<1>10. hasty' \subseteq Contact \X Peer
  BY <1>1 DEF ChatInv, ChatTypeOK
<1>11. Aimed'
  BY <1>1, <1>3 DEF ChatInv, Aimed
<1> QED BY <1>1, <1>3, <1>4, <1>5, <1>7, <1>8, <1>9, <1>10, <1>11, UserKeeps DEF ChatInv

LEMMA SendKeeps ==
  ASSUME ChatInv, handleSend
  PROVE  ChatInv'
<1> PICK c : c = page.currentContact
  OBVIOUS
<1>1. PICK text \in Text :
        Clicks([page EXCEPT !.messages[c] =
                  Append(@, [n |-> 0, from |-> Me, decrypted |-> Own(text)])])
  BY DEF handleSend
<1> PICK e : e = [n |-> 0, from |-> Me, decrypted |-> Own(text)]
  OBVIOUS
<1>2. page \in Page /\ viewed \in [Contact -> Nat] /\ c \in Contact
  BY DEF handleSend, ChatInv, ChatTypeOK, Page
<1>3. /\ page' = [page EXCEPT !.messages[c] = Append(@, e)]
      /\ clicks' \in 0..MaxClicks
      /\ UNCHANGED <<events, requested, signedIn, mail, got, status, commands, viewed, hasty>>
  BY <1>1, ClickCount DEF handleSend
<1>4. e \in Entry /\ e.from = Me
  <2>1. Own(text) \in Shown
    BY DEF Shown
  <2> QED BY <2>1, ChatAssumption DEF Entry
<1>5. page'.messages = [page.messages EXCEPT ![c] = Append(page.messages[c], e)]
  BY <1>2, <1>3 DEF Page
<1>6. page' = [page EXCEPT !.messages = page'.messages]
  BY <1>2, <1>3, <1>5 DEF Page
<1>7. page'.messages \in [Contact -> Seq(Entry)]
  <2>1. page.messages \in [Contact -> Seq(Entry)]
    BY <1>2 DEF Page
  <2>2. Append(page.messages[c], e) \in Seq(Entry)
    BY <1>2, <1>4, <2>1
  <2> QED BY <1>5, <2>1, <2>2
<1>8. page' \in Page /\ SameView(page, page') /\ page'.unreadCounts = page.unreadCounts
  BY <1>2, <1>6, <1>7 DEF Page, SameView
<1>9. Gains(page, page', c, e)
  BY <1>5 DEF Gains
<1>10. SameHad
  BY <1>2, <1>4, <1>9, OwnHad
<1>11. \A d \in Contact :
         /\ page'.unreadCounts[d] = Cardinality(Theirs(page, d)) - viewed'[d]
         /\ page'.currentContact = d => page'.unreadCounts[d] = 0
  BY <1>3, <1>8, Counted DEF SameView
<1>12. commands' \in Queues /\ CommandsNumbered' /\ hasty' \subseteq Contact \X Peer
       /\ viewed' \in [Contact -> Nat]
  BY <1>2, <1>3, CommandsUnchanged DEF ChatInv, ChatTypeOK
<1>13. Aimed'
  <2> SUFFICES ASSUME NEW d \in Contact, NEW f \in Peer, <<d, f>> \notin hasty,
                      NEW i \in DOMAIN page'.messages[d], IsNext(page'.messages[d], f, i)
               PROVE  OnlyFor(commands, events, d, f, page'.messages[d][i].n)
    BY <1>3 DEF Aimed
  <2>1. CASE d # c
    <3>1. page'.messages[d] = page.messages[d]
      BY <1>2, <1>5, <2>1 DEF Page
    <3> QED BY <3>1 DEF ChatInv, Aimed
  <2>2. CASE d = c
    <3> PICK k : k = Len(page.messages[c]) + 1
      OBVIOUS
    <3>1. /\ page'.messages[c][k] = e
          /\ \A j \in DOMAIN page.messages[c] :
               /\ j \in DOMAIN page'.messages[c]
               /\ page'.messages[c][j] = page.messages[c][j]
          /\ \A j \in DOMAIN page'.messages[c] : j \in DOMAIN page.messages[c] \/ j = k
      BY <1>2, <1>9, TheirsGains
    <3>2. f # Me
      BY ChatAssumption DEF Contact
    <3>3. i \in DOMAIN page.messages[c] /\ page'.messages[c][i] = page.messages[c][i]
      BY <1>4, <2>2, <3>1, <3>2 DEF IsNext
    <3>4. IsNext(page.messages[c], f, i)
      BY <2>2, <3>1, <3>3 DEF IsNext
    <3> QED BY <2>2, <3>3, <3>4 DEF ChatInv, Aimed
  <2> QED BY <2>1, <2>2
<1> QED BY <1>3, <1>8, <1>10, <1>11, <1>12, <1>13, UserKeeps DEF ChatInv, SameView

(* The user asks for a message: patiently, it is where the next answer goes *)
(* and nobody has asked before; or hastily, which is remembered.            *)
LEMMA DecryptKeeps ==
  ASSUME ChatInv, NEW i, handleDecrypt(i)
  PROVE  ChatInv'
<1> PICK c : c = page.currentContact
  OBVIOUS
<1> PICK e : e = page.messages[c][i]
  OBVIOUS
<1> DEFINE patient ==
      /\ ~Outstanding(c, e.from) /\ e.decrypted = {}
      /\ \A j \in DOMAIN page.messages[c] :
           j > i => page.messages[c][j].from # e.from \/ page.messages[c][j].decrypted # {}
<1> PICK x : x = [type |-> "decrypt", n |-> e.n, from |-> e.from, in |-> c]
  OBVIOUS
<1>1. /\ c \in Contact /\ i \in DOMAIN page.messages[c] /\ Hidden(e)
      /\ page' = page /\ clicks' \in 0..MaxClicks /\ send(x)
      /\ hasty' = IF patient THEN hasty ELSE hasty \cup {<<c, e.from>>}
      /\ UNCHANGED <<events, requested, signedIn, mail, got, status, viewed>>
  BY ClickCount DEF handleDecrypt, ChatInv, ChatTypeOK, Page
<1>2. page \in Page /\ e \in Entry /\ e.from \in Peer
  <2>1. page \in Page
    BY DEF ChatInv, ChatTypeOK
  <2>2. page.messages[c] \in Seq(Entry)
    BY <1>1, <2>1, TheirsIsFinite
  <2>3. e \in Entry
    BY <1>1, <2>2, OfSequence
  <2> QED BY <1>1, <2>1, <2>3 DEF Hidden, Entry
<1>3. e.n \in DOMAIN mail /\ mail[e.n].in = c /\ mail[e.n].from = e.from
  <2>1. i \in Theirs(page, c)
    BY <1>1 DEF Hidden, Theirs
  <2> QED BY <1>1, <2>1 DEF ChatInv, Numbered, StoreNumbered
<1>4. x \in Command /\ GoodCommand(x)
  <2>1. e.n \in 1..MaxMail
    BY <1>3, MailTyping DEF ChatInv
  <2> QED BY <1>1, <1>2, <1>3, <2>1 DEF Command, GoodCommand, Names
<1>5. /\ commands' \in Queues /\ CommandsNumbered'
      /\ page.load \in 1..MaxLoads /\ commands \in Queues
      /\ \/ UNCHANGED commands
         \/ commands' = [commands EXCEPT ![page.load] = Append(commands[page.load], x)]
  BY <1>1, <1>4, SentCommands
<1>6. Aimed'
  <2> SUFFICES ASSUME NEW d \in Contact, NEW f \in Peer, <<d, f>> \notin hasty',
                      NEW j \in DOMAIN page.messages[d], IsNext(page.messages[d], f, j),
                      NEW n, n = page.messages[d][j].n
               PROVE  OnlyFor(commands', events, d, f, n)
    BY <1>1 DEF Aimed
  <2>1. <<d, f>> \notin hasty
    BY <1>1
  <2>2. OnlyFor(commands, events, d, f, n)
    BY <2>1 DEF ChatInv, Aimed
  <2>3. CASE UNCHANGED commands
    BY <2>2, <2>3
  <2>4. CASE commands' = [commands EXCEPT ![page.load] = Append(commands[page.load], x)]
    <3>1. CASE ~Asks(x, d, f)
      BY <1>5, <2>2, <2>4, <3>1, OnlyAsked
    <3>2. CASE Asks(x, d, f)
      <4>1. d = c /\ f = e.from
        BY <3>2 DEF Asks
      <4>2. patient
        BY <1>1, <4>1
      <4>3. Unasked(commands, events, d, f)
        BY <4>1, <4>2, OutstandingAsks
      <4>4. i = j
        <5>1. page.messages[c] \in Seq(Entry)
          BY <1>1, <1>2, TheirsIsFinite
        <5>2. i \in Nat /\ j \in Nat
          BY <1>1, <4>1, <5>1, OfSequence
        <5>3. ~(i > j)
          BY <1>1, <4>1, <4>2 DEF IsNext
        <5>4. ~(j > i)
          BY <4>1, <4>2 DEF IsNext
        <5> QED BY <5>2, <5>3, <5>4
      <4>5. x.n = n
        BY <4>1, <4>4
      <4> QED BY <1>5, <2>4, <4>3, <4>5, OnlyAsked
    <3> QED BY <3>1, <3>2
  <2> QED BY <1>5, <2>3, <2>4
<1>7. hasty' \subseteq Contact \X Peer /\ viewed' \in [Contact -> Nat]
  <2>1. hasty \subseteq Contact \X Peer /\ viewed \in [Contact -> Nat]
    BY DEF ChatInv, ChatTypeOK
  <2> HIDE DEF patient
  <2> QED BY <1>1, <1>2, <2>1
<1>8. SameHad
  BY <1>1, SameStoreHad
<1>9. \A d \in Contact :
        /\ page'.unreadCounts[d] = Cardinality(Theirs(page, d)) - viewed'[d]
        /\ page'.currentContact = d => page'.unreadCounts[d] = 0
  BY <1>1, Counted
<1> QED BY <1>1, <1>2, <1>5, <1>6, <1>7, <1>8, <1>9, UserKeeps DEF ChatInv

LEMMA CreateGroupKeeps ==
  ASSUME ChatInv, NEW group \in Group, handleCreateGroup(group)
  PROVE  ChatInv'
<1> PICK x : x = [type |-> "createGroup", in |-> group]
  OBVIOUS
<1>1. /\ page' = page /\ clicks' \in 0..MaxClicks /\ send(x)
      /\ UNCHANGED <<events, requested, signedIn, mail, got, status, viewed, hasty>>
  BY ClickCount DEF handleCreateGroup
<1>2. x \in Command /\ GoodCommand(x) /\ \A c, f : ~Asks(x, c, f)
  BY DEF Command, GoodCommand, Asks
<1>3. /\ commands' \in Queues /\ CommandsNumbered'
      /\ page.load \in 1..MaxLoads /\ commands \in Queues
      /\ \/ UNCHANGED commands
         \/ commands' = [commands EXCEPT ![page.load] = Append(commands[page.load], x)]
  BY <1>1, <1>2, SentCommands
<1>4. Aimed'
  <2> SUFFICES ASSUME NEW d \in Contact, NEW f \in Peer, <<d, f>> \notin hasty,
                      NEW j \in DOMAIN page.messages[d], IsNext(page.messages[d], f, j),
                      NEW n, n = page.messages[d][j].n
               PROVE  OnlyFor(commands', events, d, f, n)
    BY <1>1 DEF Aimed
  <2>1. OnlyFor(commands, events, d, f, n)
    BY DEF ChatInv, Aimed
  <2>2. ~Asks(x, d, f)
    BY <1>2
  <2>3. CASE commands' = [commands EXCEPT ![page.load] = Append(commands[page.load], x)]
    BY <1>3, <2>1, <2>2, <2>3, OnlyAsked
  <2> QED BY <1>3, <2>1, <2>3
<1>5. page \in Page /\ hasty' \subseteq Contact \X Peer /\ viewed' \in [Contact -> Nat]
  BY <1>1 DEF ChatInv, ChatTypeOK
<1>6. SameHad
  BY <1>1, SameStoreHad
<1>7. \A d \in Contact :
        /\ page'.unreadCounts[d] = Cardinality(Theirs(page, d)) - viewed'[d]
        /\ page'.currentContact = d => page'.unreadCounts[d] = 0
  BY <1>1, Counted
<1> QED BY <1>1, <1>3, <1>4, <1>5, <1>6, <1>7, UserKeeps DEF ChatInv

LEMMA JoinGroupKeeps ==
  ASSUME ChatInv, NEW group \in Group, handleJoinGroup(group)
  PROVE  ChatInv'
<1> PICK gs : gs = IF group \in ToSet(page.groups) THEN page.groups ELSE Append(page.groups, group)
  OBVIOUS
<1>1. /\ page' = [page EXCEPT !.groups = gs] /\ clicks' \in 0..MaxClicks
      /\ UNCHANGED <<events, requested, signedIn, mail, got, status, commands, viewed, hasty>>
  BY ClickCount DEF handleJoinGroup
<1>2. page \in Page /\ hasty' \subseteq Contact \X Peer /\ viewed' \in [Contact -> Nat]
  BY <1>1 DEF ChatInv, ChatTypeOK
<1>3. gs \in Seq(Group)
  <2>1. page.groups \in Seq(Group)
    BY <1>2 DEF Page
  <2> QED BY <2>1
<1>4. page' \in Page /\ SameView(page, page') /\ SameStore(page, page')
  BY <1>1, <1>2, <1>3 DEF Page, SameView, SameStore
<1>5. SameHad
  BY <1>4, SameStoreHad DEF SameStore
<1>6. Aimed'
  BY <1>1, <1>4 DEF ChatInv, Aimed, SameStore
<1>7. \A d \in Contact :
        /\ page'.unreadCounts[d] = Cardinality(Theirs(page, d)) - viewed'[d]
        /\ page'.currentContact = d => page'.unreadCounts[d] = 0
  BY <1>1, <1>4, Counted DEF SameView, SameStore
<1>8. commands' \in Queues /\ CommandsNumbered'
  BY <1>1, CommandsUnchanged
<1> QED BY <1>1, <1>2, <1>4, <1>5, <1>6, <1>7, <1>8, UserKeeps DEF ChatInv, SameView

-----------------------------------------------------------------------------
(* What the WebSocket and the page keep true. *)

LEMMA OpenKeeps ==
  ASSUME ChatInv, onopen
  PROVE  ChatInv'
<1> USE DEF ChatInv
<1>1. /\ page.ws = "connecting" /\ page' = [page EXCEPT !.ws = "open"]
      /\ UNCHANGED <<commands, events, requested, signedIn, mail, got, viewed, hasty,
                     clicks, status>>
  BY DEF onopen
<1>2. page \in Page
  BY DEF ChatTypeOK
<1>3. /\ page' \in Page /\ SameStore(page, page')
      /\ page'.currentContact = page.currentContact
  BY <1>1, <1>2 DEF Page, SameStore
<1>4. SameHad /\ MailKept /\ FewerMessages /\ events' \in Seq(Event)
  BY <1>1, <1>3, SameStoreHad, MailIsKept, SameFewer DEF SameStore
<1>5. ChatTypeOK'
  BY <1>1, <1>3 DEF ChatTypeOK
<1>6. Numbered'
  BY <1>1, <1>4, GotStays, StoreStays, EventsStay, CommandsStay DEF Numbered
<1>7. InView'
  BY <1>3 DEF InView, SameStore
<1>8. ConversationsComplete'
  <2>1. \A c \in Contact : page'.unreadCounts[c] = Cardinality(Theirs(page, c)) - viewed'[c]
    BY <1>1, <1>3, Counted DEF SameStore
  <2> QED BY <1>1, <1>4, <2>1, ComingStays, ConversationsStay
<1>9. Aimed'
  BY <1>1, <1>3 DEF Aimed, SameStore
<1> QED BY <1>5, <1>6, <1>7, <1>8, <1>9

(* The commands that are left are some of those there were. *)
LEMMA CutCommands ==
  ASSUME ChatInv, CommandsLost, UNCHANGED mail
  PROVE  /\ commands' \in Queues /\ CommandsNumbered'
         /\ commands \in Queues /\ page.load \in 1..MaxLoads
         /\ \E sent \in Prefixes(commands[page.load]) :
              commands' = [commands EXCEPT ![page.load] = sent]
<1> USE DEF ChatInv
<1>1. commands \in Queues /\ page.load \in 1..MaxLoads
  BY DEF ChatTypeOK, Queues, Page
<1>2. PICK sent \in Prefixes(commands[page.load]) :
        commands' = [commands EXCEPT ![page.load] = sent]
  BY DEF CommandsLost
<1> PICK k : k = page.load
  OBVIOUS
<1>3. k \in DOMAIN commands /\ commands[k] \in Seq(Command)
  BY <1>1 DEF Queues
<1>4. /\ sent \in Seq(Command)
      /\ \A i \in DOMAIN sent : i \in DOMAIN commands[k] /\ sent[i] = commands[k][i]
  BY <1>2, <1>3, InPrefixes
<1>5. commands' \in Queues
  BY <1>1, <1>2, <1>4 DEF Queues
<1>6. /\ DOMAIN commands' = DOMAIN commands /\ commands'[k] = sent
      /\ \A l \in DOMAIN commands \ {k} : commands'[l] = commands[l]
  BY <1>1, <1>2 DEF Queues
<1>7. \A l \in DOMAIN commands' : \A i \in DOMAIN commands'[l] : GoodCommand(commands'[l][i])
  BY <1>3, <1>4, <1>6 DEF Numbered, CommandsNumbered
<1>8. \A y : GoodCommand(y)' <=> GoodCommand(y)
  BY DEF GoodCommand, Names
<1>9. CommandsNumbered'
  BY <1>7, <1>8 DEF CommandsNumbered
<1> QED BY <1>1, <1>2, <1>5, <1>9

LEMMA CloseKeeps ==
  ASSUME ChatInv, onclose
  PROVE  ChatInv'
<1> USE DEF ChatInv
<1>1. /\ page' = [page EXCEPT !.ws = "closed"] /\ CommandsLost /\ events' = <<>>
      /\ UNCHANGED <<requested, signedIn, mail, got, viewed, hasty, clicks, status>>
  BY DEF onclose
<1>2. page \in Page
  BY DEF ChatTypeOK
<1>3. /\ page' \in Page /\ SameStore(page, page') /\ page'.ws = "closed"
      /\ page'.currentContact = page.currentContact
  BY <1>1, <1>2 DEF Page, SameStore
<1>4. SameHad /\ MailKept /\ FewerMessages /\ events' \in Seq(Event)
  BY <1>1, <1>3, SameStoreHad, MailIsKept, ClearedFewer DEF SameStore
<1>5. /\ commands' \in Queues /\ CommandsNumbered'
      /\ commands \in Queues /\ page.load \in 1..MaxLoads
      /\ \E sent \in Prefixes(commands[page.load]) :
           commands' = [commands EXCEPT ![page.load] = sent]
  BY <1>1, CutCommands
<1>6. ChatTypeOK'
  BY <1>1, <1>3, <1>4, <1>5 DEF ChatTypeOK, Queues
<1>7. Numbered'
  BY <1>1, <1>4, <1>5, GotStays, StoreStays, EventsStay DEF Numbered
<1>8. InView'
  BY <1>3 DEF InView, SameStore
<1>9. ConversationsComplete'
  <2>1. \A c \in Contact : page'.unreadCounts[c] = Cardinality(Theirs(page, c)) - viewed'[c]
    BY <1>1, <1>3, Counted DEF SameStore
  <2> QED BY <1>1, <1>3, <1>4, <2>1, ConversationsStay
<1>10. Aimed'
  <2> SUFFICES ASSUME NEW c \in Contact, NEW f \in Peer, <<c, f>> \notin hasty,
                      NEW i \in DOMAIN page.messages[c], IsNext(page.messages[c], f, i),
                      NEW n, n = page.messages[c][i].n
               PROVE  OnlyFor(commands', <<>>, c, f, n)
    BY <1>1, <1>3 DEF Aimed, SameStore
  <2>1. OnlyFor(commands, events, c, f, n)
    BY DEF Aimed
  <2>2. PICK sent \in Prefixes(commands[page.load]) :
          commands' = [commands EXCEPT ![page.load] = sent]
    BY <1>5
  <2> QED BY ONLY <1>5, <2>1, <2>2, OnlyCut
<1> QED BY <1>6, <1>7, <1>8, <1>9, <1>10

LEMMA NewPages ==
  ASSUME NEW load \in 1..MaxLoads
  PROVE  /\ NewPage(load) \in Page /\ NewPage(load).ws = "connecting"
         /\ \A c \in Contact :
              /\ NewPage(load).messages[c] = <<>> /\ NewPage(load).unreadCounts[c] = 0
              /\ Theirs(NewPage(load), c) = {}
  BY DEF NewPage, Page, Theirs

\* A new page has nothing, and nothing is on its way.
LEMMA NothingYet ==
  ASSUME page' = NewPage(page'.load), page'.load \in 1..MaxLoads,
         events' = <<>>, got' = <<>>, viewed' = [c \in Contact |-> 0]
  PROVE  /\ GotNumbered' /\ StoreNumbered' /\ EventsNumbered' /\ InView'
         /\ ConversationsComplete' /\ Aimed'
<1> PICK load : load = page'.load
  OBVIOUS
<1>1. /\ page' = NewPage(load) /\ load \in 1..MaxLoads
      /\ \A c \in Contact :
           /\ page'.messages[c] = <<>> /\ page'.unreadCounts[c] = 0
           /\ Theirs(page', c) = {}
  BY NewPages
<1>2. \A c \in Contact : Theirs(page, c)' = {} /\ Had(c)' = {} /\ Coming(c)' = {}
  BY <1>1 DEF Theirs, Had, Coming
<1>3. GotNumbered' /\ StoreNumbered' /\ EventsNumbered'
  BY <1>2 DEF GotNumbered, StoreNumbered, EventsNumbered
<1>4. InView'
  BY <1>1 DEF InView
<1>5. InOrder'
  BY <1>2 DEF InOrder
<1>6. ASSUME NEW c \in Contact
      PROVE  page'.unreadCounts[c] = Cardinality(Theirs(page, c)') - viewed'[c]
  <2>1. Theirs(page, c)' = {} /\ page'.unreadCounts[c] = 0 /\ viewed'[c] = 0
    BY <1>1, <1>2
  <2>2. Cardinality({}) = 0
    BY FS_EmptySet
  <2> QED BY <2>1, <2>2
<1>7. ConversationsComplete'
  BY <1>2, <1>5, <1>6 DEF ConversationsComplete, ToSet
<1>8. Aimed'
  BY <1>1 DEF Aimed
<1> QED BY <1>3, <1>4, <1>7, <1>8

LEMMA ReloadKeeps ==
  ASSUME ChatInv, Reload
  PROVE  ChatInv'
<1> USE DEF ChatInv
<1>1. /\ page.load < MaxLoads /\ page' = NewPage(page.load + 1) /\ CommandsLost
      /\ events' = <<>> /\ got' = <<>>
      /\ viewed' = [c \in Contact |-> 0] /\ hasty' = {}
      /\ UNCHANGED <<requested, signedIn, mail, clicks, status>>
  BY DEF Reload
<1>2. page.load + 1 \in 1..MaxLoads
  BY <1>1, ChatAssumption DEF ChatTypeOK, Page
<1>3. page'.load = page.load + 1
  BY <1>1 DEF NewPage
<1>4. page' \in Page
  BY <1>1, <1>2, NewPages
<1>5. commands' \in Queues /\ CommandsNumbered'
  BY <1>1, CutCommands
<1>6. ChatTypeOK'
  BY <1>1, <1>4, <1>5 DEF ChatTypeOK, Queues
<1> QED BY <1>1, <1>2, <1>3, <1>5, <1>6, NothingYet DEF Numbered

-----------------------------------------------------------------------------
LEMMA ChatInitially ==
  ASSUME ChatInit
  PROVE  ChatInv
<1>1. /\ page = NewPage(1) /\ commands = [k \in 1..MaxLoads |-> <<>>]
      /\ events = <<>> /\ requested = {} /\ signedIn = FALSE
      /\ mail = <<>> /\ got = <<>> /\ viewed = [c \in Contact |-> 0] /\ hasty = {}
      /\ clicks = 0 /\ status = 0
  BY DEF ChatInit
<1>2. page \in Page
  BY <1>1, NewPages, ChatAssumption
<1>3. commands \in [1..MaxLoads -> Seq(Command)]
  BY <1>1
<1>4. ChatTypeOK
  <2>1. MaxMail \in Nat /\ MaxClicks \in Nat /\ MaxStatus \in Nat
    BY ChatAssumption
  <2>2. events \in Seq(Event) /\ mail \in Seq(Sent) /\ Len(mail) <= MaxMail
        /\ got \in Seq(1..MaxMail)
    BY <1>1, <2>1
  <2>3. viewed \in [Contact -> Nat] /\ clicks \in 0..MaxClicks /\ status \in 0..MaxStatus
    BY <1>1, <2>1
  <2> QED BY <1>1, <1>2, <1>3, <2>2, <2>3 DEF ChatTypeOK
<1>5. \A c \in Contact :
        /\ page.messages[c] = <<>> /\ page.unreadCounts[c] = 0
        /\ Theirs(page, c) = {} /\ Had(c) = {} /\ Coming(c) = {}
  BY <1>1, NewPages, ChatAssumption DEF Had, Coming, Theirs
<1>6. Numbered /\ InView
  BY <1>1, <1>5 DEF Numbered, GotNumbered, StoreNumbered, EventsNumbered, CommandsNumbered, InView
<1>7. InOrder
  BY <1>1, <1>5 DEF InOrder
<1>8. ASSUME NEW c \in Contact
      PROVE  page.unreadCounts[c] = Cardinality(Theirs(page, c)) - viewed[c]
  <2>1. Cardinality(Theirs(page, c)) = 0 /\ viewed[c] = 0
    BY <1>1, <1>5, FS_EmptySet
  <2> QED BY <1>5, <2>1
<1>9. ConversationsComplete
  BY <1>1, <1>5, <1>7, <1>8 DEF ConversationsComplete, ToSet
<1>10. Aimed
  BY <1>5 DEF Aimed
<1> QED BY <1>4, <1>6, <1>9, <1>10 DEF ChatInv

LEMMA ChatStep ==
  ASSUME ChatInv, [ChatNext]_vars
  PROVE  ChatInv'
<1>1. CASE UNCHANGED vars
  <2>1. ChatTypeOK'
    BY <1>1 DEF vars, ChatInv, ChatTypeOK
  <2>2. Numbered'
    <3>1. UNCHANGED <<page, commands, events, mail, got>>
      BY <1>1 DEF vars
    <3> QED BY <3>1, MailIsKept, SameStoreHad, GotStays, StoreStays, EventsStay, CommandsStay
            DEF ChatInv, Numbered
  <2>3. InView' /\ Aimed'
    BY <1>1 DEF vars, ChatInv, InView, Aimed
  <2>4. ConversationsComplete'
    BY <1>1 DEF vars, ChatInv, ConversationsComplete, InOrder, Had, Coming, Comes, In, Theirs
  <2> QED BY <2>1, <2>2, <2>3, <2>4 DEF ChatInv
<1>2. CASE User
  <2>1. ASSUME NEW group \in Group, handleCreateGroup(group) \/ handleJoinGroup(group)
        PROVE  ChatInv'
    BY <2>1, CreateGroupKeeps, JoinGroupKeeps
  <2> QED BY <1>2, <2>1, SelectKeeps, SendKeeps, DecryptKeeps DEF User
<1>3. CASE Bridge
  BY <1>3, StatusKeeps, ArrivesKeeps, GroupCreatedKeeps, CommandKeeps DEF Bridge
<1> QED BY <1>1, <1>2, <1>3, EventKeeps, OpenKeeps, CloseKeeps, ReloadKeeps DEF ChatNext

LEMMA ChatInvariant == ChatSpec => []ChatInv
  BY ChatInitially, ChatStep, PTL DEF ChatSpec

(* The page, its queues and the histories of it keep their types.           *)
THEOREM ChatTyping == ChatSpec => []ChatTypeOK
  BY ChatInvariant, PTL DEF ChatInv

(* A conversation holds what was sent to the page, in order and each once,  *)
(* but for what is on its way or was not parsed, over every sign-out; and   *)
(* the unread count is of what came since the contact was in view.          *)
THEOREM ConversationsAreComplete == ChatSpec => []ConversationsComplete
  BY ChatInvariant, PTL DEF ChatInv

-----------------------------------------------------------------------------
(* What decrypted messages show. *)

\* ShownRightly for the message e in c.
Rightly(e, c) ==
  e.from # Me /\ e.decrypted # {} =>
    /\ \E n \in DOMAIN mail :
         mail[n].from = e.from /\ mail[n].in = c /\ e.decrypted = ToBeShown(mail[n].text)
    /\ <<c, e.from>> \notin hasty => e.decrypted = ToBeShown(mail[e.n].text)

ShownInv == ChatInv /\ ConversionsFaithful /\ ShownRightly

LEMMA ShownEach ==
  ShownRightly <=> \A c \in Contact : \A i \in DOMAIN page.messages[c] :
                     Rightly(page.messages[c][i], c)
<1>1. ASSUME ShownRightly, NEW c \in Contact, NEW i \in DOMAIN page.messages[c]
      PROVE  Rightly(page.messages[c][i], c)
  <2> PICK x : x = <<c, i>>
    OBVIOUS
  <2>1. x \in Entries /\ x[1] = c /\ x[2] = i
    BY DEF Entries
  <2> QED BY <1>1, <2>1 DEF ShownRightly, Rightly
<1>2. ASSUME \A c \in Contact : \A i \in DOMAIN page.messages[c] :
               Rightly(page.messages[c][i], c),
             NEW x \in Entries
      PROVE  x[1] \in Contact /\ Rightly(page.messages[x[1]][x[2]], x[1])
  BY <1>2 DEF Entries
<1> QED BY <1>1, <1>2 DEF ShownRightly, Rightly

LEMMA RightlyStays ==
  ASSUME MailKept, hasty \subseteq hasty', NEW e, NEW c,
         e.from # Me => e.n \in DOMAIN mail, Rightly(e, c)
  PROVE  Rightly(e, c)'
<1> SUFFICES ASSUME e.from # Me, e.decrypted # {}
             PROVE  /\ \E n \in DOMAIN mail' :
                         /\ mail'[n].from = e.from /\ mail'[n].in = c
                         /\ e.decrypted = ToBeShown(mail'[n].text)
                    /\ <<c, e.from>> \notin hasty' => e.decrypted = ToBeShown(mail'[e.n].text)
  BY DEF Rightly
<1>1. PICK n \in DOMAIN mail :
        mail[n].from = e.from /\ mail[n].in = c /\ e.decrypted = ToBeShown(mail[n].text)
  BY DEF Rightly
<1>2. n \in DOMAIN mail' /\ mail'[n] = mail[n] /\ mail'[e.n] = mail[e.n]
  BY DEF MailKept
<1>3. <<c, e.from>> \notin hasty => e.decrypted = ToBeShown(mail[e.n].text)
  BY DEF Rightly
<1> QED BY <1>1, <1>2, <1>3

(* A step that adds only messages that show nothing, or that the user sent. *)
LEMMA ShownStays ==
  ASSUME ShownInv, MailKept, hasty \subseteq hasty',
         \A c \in Contact : \A i \in DOMAIN page'.messages[c] :
           LET e == page'.messages[c][i]
           IN \/ i \in DOMAIN page.messages[c] /\ e = page.messages[c][i]
              \/ e.from = Me \/ e.decrypted = {} \/ \A y : y = e => Rightly(y, c)'
  PROVE  ShownRightly'
<1>1. ASSUME NEW c \in Contact, NEW i \in DOMAIN page'.messages[c],
             NEW e, e = page'.messages[c][i]
      PROVE  Rightly(e, c)'
  <2>1. CASE i \in DOMAIN page.messages[c] /\ e = page.messages[c][i]
    <3>1. Rightly(e, c)
      BY <2>1, ShownEach DEF ShownInv
    <3>2. e.from # Me => e.n \in DOMAIN mail
      BY <2>1 DEF ShownInv, ChatInv, Numbered, StoreNumbered, Theirs
    <3> QED BY <3>1, <3>2, RightlyStays
  <2>2. CASE e.from = Me \/ e.decrypted = {}
    BY <2>2 DEF Rightly
  <2>3. CASE \A y : y = e => Rightly(y, c)'
    BY <2>3
  <2> QED BY <1>1, <2>1, <2>2, <2>3
<1>2. ASSUME NEW x \in Entries'
      PROVE  x[1] \in Contact /\ x[2] \in DOMAIN page'.messages[x[1]]
  BY DEF Entries
<1>3. ASSUME NEW x \in Entries', NEW e, e = page'.messages[x[1]][x[2]]
      PROVE  Rightly(e, x[1])'
  BY <1>1, <1>2, <1>3
<1>4. ASSUME NEW x \in Entries', NEW e, e = page'.messages[x[1]][x[2]],
             e.from # Me, e.decrypted # {}
      PROVE  /\ \E n \in DOMAIN mail' :
                  /\ mail'[n].from = e.from /\ mail'[n].in = x[1]
                  /\ e.decrypted = ToBeShown(mail'[n].text)
             /\ <<x[1], e.from>> \notin hasty' => e.decrypted = ToBeShown(mail'[e.n].text)
  BY <1>3, <1>4 DEF Rightly
<1> QED BY <1>4 DEF ShownRightly

LEMMA SameMessages ==
  ASSUME ShownInv, MailKept, hasty \subseteq hasty', page'.messages = page.messages
  PROVE  ShownRightly'
  BY ShownStays

(* The answer is the message's own unless the user was hasty.               *)
LEMMA DecryptedShown ==
  ASSUME ShownInv, events # <<>>, UNCHANGED <<mail, hasty>>,
         Head(events).type = "decrypted", page' = handleServerMessage(page, Head(events))
  PROVE  ShownRightly'
<1> PICK event : event = Head(events)
  OBVIOUS
<1>1. events \in Seq(Event) /\ page \in Page /\ ChatTypeOK
  BY DEF ShownInv, ChatInv, ChatTypeOK
<1>2. event \in Event /\ event = events[1] /\ 1 \in DOMAIN events
  BY <1>1, Shortened
<1> PICK c : c = event.in
  OBVIOUS
<1> PICK f : f = event.from
  OBVIOUS
<1> PICK value : value = Parsed[event.text]
  OBVIOUS
<1>3. c \in Contact /\ f \in Peer
  BY <1>2 DEF Event
<1>4. GoodEvent(event)
  BY <1>2 DEF ShownInv, ChatInv, Numbered, EventsNumbered
<1>5. /\ event.n \in DOMAIN mail /\ mail[event.n].in = c /\ mail[event.n].from = f
      /\ value = ToBeShown(mail[event.n].text)
  <2>1. /\ Names(event)
        /\ event.text \in Decrypted[mail[event.n], SendersKey(mail[event.n])]
    BY <1>4 DEF GoodEvent
  <2>2. mail[event.n] \in Sent
    BY <1>1, <2>1, MailTyping DEF Names
  <2> QED BY <2>1, <2>2 DEF ShownInv, ConversionsFaithful, Names
<1>6. MailKept
  BY <1>1, MailIsKept
<1>7. CASE page' = page
  BY <1>6, <1>7, SameMessages
<1>8. ASSUME NEW i \in DOMAIN page.messages[c], IsNext(page.messages[c], f, i),
             page'.messages = [page.messages EXCEPT ![c] =
                                 [page.messages[c] EXCEPT ![i] =
                                    [page.messages[c][i] EXCEPT !.decrypted = value]]]
      PROVE  ShownRightly'
  <2>1. OnlyShows(c, i, value)
    BY <1>1, <1>3, <1>8, DecryptedHad
  <2> PICK e : e = page'.messages[c][i]
    OBVIOUS
  <2>2. e.from = f /\ e.n = page.messages[c][i].n /\ e.decrypted = value
    BY <1>3, <1>8, <2>1 DEF OnlyShows, IsNext
  <2>3. ASSUME <<c, f>> \notin hasty PROVE e.n = event.n
    <3>1. OnlyFor(commands, events, c, f, page.messages[c][i].n)
      BY <1>3, <1>8, <2>3 DEF ShownInv, ChatInv, Aimed
    <3>2. Asks(events[1], c, f)
      BY <1>2 DEF Asks
    <3> QED BY <1>2, <2>2, <3>1, <3>2 DEF OnlyFor
  <2>4. Rightly(e, c)'
    BY <1>5, <2>2, <2>3 DEF Rightly
  <2>5. ASSUME NEW d \in Contact, NEW j \in DOMAIN page'.messages[d]
        PROVE  \/ j \in DOMAIN page.messages[d] /\ page'.messages[d][j] = page.messages[d][j]
               \/ \A y : y = page'.messages[d][j] => Rightly(y, d)'
    BY <2>1, <2>4 DEF OnlyShows
  <2> QED BY <1>6, <2>5, ShownStays
<1> QED BY <1>1, <1>2, <1>7, <1>8, DecryptedEvents

LEMMA EventShown ==
  ASSUME ShownInv, onmessage
  PROVE  ShownRightly'
<1> PICK event : event = Head(events)
  OBVIOUS
<1>1. /\ events # <<>> /\ events' = Tail(events) /\ UNCHANGED mail
      /\ page' = IF Parses(event) THEN handleServerMessage(page, event) ELSE page
      /\ hasty \subseteq hasty'
      /\ event.type # "message" => UNCHANGED hasty
  BY DEF onmessage
<1>2. ChatTypeOK /\ Numbered
  BY DEF ShownInv, ChatInv
<1>3. event \in Event /\ GoodEvent(event) /\ MailKept
  BY <1>1, <1>2, NextEvent, MailIsKept
<1>4. CASE event.type = "message" /\ Parses(event)
  <2> PICK m : m = mail[event.n]
    OBVIOUS
  <2> PICK e : e = [n |-> event.n, from |-> m.from, decrypted |-> {}]
    OBVIOUS
  <2>1. event.n \in DOMAIN mail /\ page' = handleServerMessage(page, event)
    BY <1>1, <1>3, <1>4 DEF GoodEvent
  <2>2. Gains(page, page', m.in, e)
    BY ONLY <1>2, <1>4, <2>1, MessageEvents, m = mail[event.n],
       e = [n |-> event.n, from |-> m.from, decrypted |-> {}]
  <2>3. page \in Page /\ m.in \in Contact
    BY <1>2, <2>1, MailTyping DEF ChatTypeOK
  <2>4. /\ \A d \in Contact \ {m.in} : page'.messages[d] = page.messages[d]
        /\ \A i \in DOMAIN page.messages[m.in] :
             page'.messages[m.in][i] = page.messages[m.in][i]
        /\ \A i \in DOMAIN page'.messages[m.in] :
             i \in DOMAIN page.messages[m.in] \/ page'.messages[m.in][i] = e
    <3> PICK r : r = page'
      OBVIOUS
    <3>1. Gains(page, r, m.in, e)
      BY ONLY <2>2, r = page' DEF Gains
    <3>2. /\ \A d \in Contact \ {m.in} : r.messages[d] = page.messages[d]
          /\ \A i \in DOMAIN page.messages[m.in] :
               r.messages[m.in][i] = page.messages[m.in][i]
          /\ \A i \in DOMAIN r.messages[m.in] :
               \/ i \in DOMAIN page.messages[m.in]
               \/ r.messages[m.in][i] = e
      BY ONLY <2>3, <3>1, TheirsGains
    <3> QED BY ONLY <3>2, r = page'
  <2>5. e.decrypted = {}
    OBVIOUS
  <2> QED BY <1>1, <1>3, <2>4, <2>5, ShownStays
<1>5. CASE event.type = "decrypted" /\ Parses(event)
  BY <1>1, <1>5, DecryptedShown
<1>6. CASE event.type \notin {"message", "decrypted"} /\ Parses(event)
  <2>1. page'.messages = page.messages
    BY <1>1, <1>2, <1>3, <1>6, OtherEvents DEF SameStore
  <2> QED BY <1>1, <1>3, <2>1, SameMessages
<1>7. CASE ~Parses(event)
  BY <1>1, <1>3, <1>7, SameMessages
<1> QED BY <1>4, <1>5, <1>6, <1>7

LEMMA SendShown ==
  ASSUME ShownInv, handleSend
  PROVE  ShownRightly'
<1> PICK c : c = page.currentContact
  OBVIOUS
<1>1. PICK text \in Text :
        page' = [page EXCEPT !.messages[c] =
                   Append(@, [n |-> 0, from |-> Me, decrypted |-> Own(text)])]
  BY DEF handleSend, Clicks
<1> PICK e : e = [n |-> 0, from |-> Me, decrypted |-> Own(text)]
  OBVIOUS
<1>2. page \in Page /\ c \in Contact /\ UNCHANGED <<mail, hasty>> /\ ChatTypeOK
  BY DEF handleSend, Clicks, ShownInv, ChatInv, ChatTypeOK, Page
<1>3. Gains(page, page', c, e)
  BY <1>1, <1>2 DEF Gains, Page
<1>4. /\ \A d \in Contact \ {c} : page'.messages[d] = page.messages[d]
      /\ \A i \in DOMAIN page.messages[c] : page'.messages[c][i] = page.messages[c][i]
      /\ \A i \in DOMAIN page'.messages[c] :
           i \in DOMAIN page.messages[c] \/ page'.messages[c][i] = e
  BY <1>2, <1>3, TheirsGains
<1>5. e.from = Me /\ MailKept
  BY <1>2, MailIsKept
<1> QED BY <1>2, <1>4, <1>5, ShownStays

LEMMA ShownStep ==
  ASSUME ShownInv, [ChatNext]_vars
  PROVE  ShownInv'
<1>1. ChatInv'
  BY ChatStep DEF ShownInv
<1>2. ConversionsFaithful'
  BY DEF ShownInv, ConversionsFaithful
<1>3. ShownRightly'
  <2>1. ASSUME UNCHANGED page, hasty \subseteq hasty', MailKept PROVE ShownRightly'
    BY <2>1, SameMessages
  <2>2. ChatTypeOK /\ page \in Page
    BY DEF ShownInv, ChatInv, ChatTypeOK
  <2>3. CASE UNCHANGED vars
    BY <2>1, <2>2, <2>3, MailIsKept DEF vars
  <2>4. CASE Bridge
    <3>1. UNCHANGED <<page, hasty>>
      BY <2>4 DEF Bridge, StatusChanges, MessageArrives, GroupCreated, handleCommand, Reports
    <3>2. UNCHANGED mail \/ \E m : mail' = Append(mail, m)
      BY <2>4 DEF Bridge, StatusChanges, MessageArrives, GroupCreated, handleCommand
    <3> QED BY <2>1, <2>2, <3>1, <3>2, MailIsKept
  <2>5. ASSUME NEW c \in Contact, selectContact(c) PROVE ShownRightly'
    <3>1. page'.messages = page.messages /\ UNCHANGED <<mail, hasty>>
      BY <2>2, <2>5 DEF selectContact, Clicks, Page
    <3> QED BY <2>2, <3>1, SameMessages, MailIsKept
  <2>6. ASSUME NEW i, handleDecrypt(i) PROVE ShownRightly'
    <3>1. UNCHANGED <<page, mail>> /\ hasty \subseteq hasty'
      BY <2>6 DEF handleDecrypt, Clicks
    <3> QED BY <2>1, <2>2, <3>1, MailIsKept
  <2>7. ASSUME NEW group \in Group, handleCreateGroup(group) \/ handleJoinGroup(group)
        PROVE  ShownRightly'
    <3>1. page'.messages = page.messages /\ UNCHANGED <<mail, hasty>>
      BY <2>2, <2>7 DEF handleCreateGroup, handleJoinGroup, Clicks, Page
    <3> QED BY <2>2, <3>1, SameMessages, MailIsKept
  <2>8. CASE onopen \/ onclose
    <3>1. page'.messages = page.messages /\ UNCHANGED <<mail, hasty>>
      BY <2>2, <2>8 DEF onopen, onclose, Page
    <3> QED BY <2>2, <3>1, SameMessages, MailIsKept
  <2>9. CASE Reload
    <3>1. page' = NewPage(page.load + 1)
      BY <2>9 DEF Reload
    <3>2. \A c \in Contact : DOMAIN page'.messages[c] = {}
      BY <3>1 DEF NewPage
    <3>3. Entries' = {}
      BY <3>2 DEF Entries
    <3> QED BY <3>3 DEF ShownRightly
  <2> QED BY <2>3, <2>4, <2>5, <2>6, <2>7, <2>8, <2>9, EventShown, SendShown
          DEF ChatNext, User
<1> QED BY <1>1, <1>2, <1>3 DEF ShownInv

(* Where the conversions are faithful, a decrypted message shows a text of  *)
(* its sender in its conversation, and its own unless the user was hasty.   *)
THEOREM TextsAreShownRightly == ChatSpec /\ ConversionsFaithful => []ShownRightly
<1>1. ChatInit /\ ConversionsFaithful => ShownInv
  <2> SUFFICES ASSUME ChatInit PROVE ChatInv /\ ShownRightly
    BY DEF ShownInv
  <2>1. \A c \in Contact : DOMAIN page.messages[c] = {}
    BY DEF ChatInit, NewPage
  <2>2. Entries = {}
    BY <2>1 DEF Entries
  <2> QED BY <2>2, ChatInitially DEF ShownRightly
<1>2. ShownInv /\ [ChatNext]_vars => ShownInv'
  BY ShownStep
<1>3. ShownInv => ShownRightly
  BY DEF ShownInv
<1> QED BY <1>1, <1>2, <1>3, PTL DEF ChatSpec

=============================================================================
