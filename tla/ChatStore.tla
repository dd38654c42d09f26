------------------------------ MODULE ChatStore ------------------------------
(***************************************************************************)
(* The chat page (store/chatStore.js, hooks/useWebSocket.js and the        *)
(* handlers of ChatArea.jsx and Sidebar.jsx) and what the bridge does with *)
(* its commands (bridge/MessageHandler.cpp).  Commands of a page and       *)
(* events for the page that is open go in order: BrowserLink shows that.   *)
(* When the client core signs in or loses the server is left open here     *)
(* (Bridge has it), and so is what peers and the server send.              *)
(***************************************************************************)
EXTENDS BridgeCodec, FiniteSets

CONSTANTS
  Me, Peer, Group,
  Unquoted,    \* names of groups that begin like a number ("2024-team")
  Text,        \* what this user types
  Sent,        \* the messages that peers send
  Nobody,      \* no contact is selected
  MaxMail,     \* bound: messages that the client core reports
  MaxClicks,   \* bound: what the user does
  MaxStatus,   \* bound: reports about the connection and the login
  MaxLoads     \* bound: times the page is loaded

Contact == Peer \cup Group

\* A message from a peer, to this user or to a group.
Mail ==
  {m \in [from : Peer, in : Contact, text : Seq(Byte) \ {<<>>}, nonce : [1..NonceSize -> Byte]] :
     m.in \in {m.from} \cup Group}

\* The keys that handleCommand derives are those of two users or of a group.
PrivateKey(a, b) == {a, b}
GroupKey(group) == {group}
Key == {PrivateKey(Me, u) : u \in Peer} \cup {GroupKey(group) : group \in Group}

ASSUME ChatAssumption ==
  /\ Peer \cap Group = {} /\ Me \notin Contact /\ Nobody \notin Contact
  /\ Unquoted \subseteq Group
  /\ Text \subseteq Seq(Byte) \ {<<>>} /\ Sent \subseteq Mail
  /\ TagOf \in [Key -> [1..TagSize -> Byte]]
  /\ \A k1, k2 \in Key : TagOf[k1] = TagOf[k2] => k1 = k2
  /\ MaxMail \in Nat /\ MaxClicks \in Nat /\ MaxStatus \in Nat /\ MaxLoads \in Nat \ {0}

VARIABLES
  page,       \* the page that is open, with its store
  commands,   \* the commands each page has sent, until the bridge handles them
  events,     \* the events on their way to the page that is open
  requested,  \* the groups the server has been asked to create
  signedIn,   \* whether the client core has ever signed in
  mail,       \* history: the messages that the client core has reported
  got,        \* history: those of them that were sent to the page that is open
  viewed,     \* history: how many of a contact's messages it has had in view
  hasty,      \* history: conversations with a sender where the user was hasty
  clicks, status

vars == <<page, commands, events, requested, signedIn, mail, got, viewed, hasty, clicks, status>>

\* What the sender's bridge makes of a message, and this one reports.
SendersKey(m) == IF m.in \in Group THEN GroupKey(m.in) ELSE PrivateKey(m.from, Me)

Encrypted ==
  [m \in Sent |->
     toBase64(serialize(encrypt(extract(stringify(m.text)), SendersKey(m), m.nonce)))]

\* The texts a message can be decrypted to with a key; none is an exception.
Decrypted ==
  [m \in Sent, key \in Key |->
     UNION {decrypt(enc, key) : enc \in deserialize(fromBase64(Encrypted[m]))}]

Answered == UNION {Decrypted[x] : x \in Sent \X Key}

\* What the browser's JSON.parse makes of them.
Parsed == [text \in Answered |-> parse(text)]

\* What a message can show: nothing yet (null), a parsed answer, or what the
\* user has typed.
Own(text) == {[shown |-> text, falsy |-> FALSE]}
Shown == {{}} \cup {Parsed[text] : text \in Answered} \cup {Own(text) : text \in Text}

\* A message in the store; n is its number in mail, 0 for the user's own.
Entry == [n : 0..MaxMail, from : Peer \cup {Me}, decrypted : Shown]

Page ==
  [load : 1..MaxLoads, ws : {"connecting", "open", "closed"},
   isAuthenticated : BOOLEAN, groups : Seq(Group),
   currentContact : Contact \cup {Nobody},
   messages : [Contact -> Seq(Entry)], unreadCounts : [Contact -> Nat]]

\* The other commands only make the client core send a frame (Bridge).
Command ==
  [type : {"createGroup"}, in : Group] \cup
  [type : {"decrypt"}, n : 1..MaxMail, from : Peer, in : Contact]

Event ==
  [type : {"auth"}, success : BOOLEAN] \cup
  [type : {"connection"}] \cup
  [type : {"message"}, n : 1..MaxMail] \cup
  [type : {"decrypted"}, n : 1..MaxMail, from : Peer, in : Contact, text : Answered] \cup
  [type : {"decryptError"}] \cup
  [type : {"groupCode"}, in : Group]

ChatTypeOK ==
  /\ page \in Page
  /\ commands \in [1..MaxLoads -> Seq(Command)]
  /\ events \in Seq(Event)
  /\ requested \subseteq Group /\ signedIn \in BOOLEAN
  /\ mail \in Seq(Sent) /\ Len(mail) <= MaxMail
  /\ got \in Seq(1..MaxMail)
  /\ viewed \in [Contact -> Nat]
  /\ hasty \subseteq Contact \X Peer
  /\ clicks \in 0..MaxClicks /\ status \in 0..MaxStatus

NewPage(load) ==
  [load |-> load, ws |-> "connecting", isAuthenticated |-> FALSE,
   groups |-> <<>>, currentContact |-> Nobody,
   messages |-> [c \in Contact |-> <<>>], unreadCounts |-> [c \in Contact |-> 0]]

ChatInit ==
  /\ page = NewPage(1)
  /\ commands = [k \in 1..MaxLoads |-> <<>>]
  /\ events = <<>> /\ requested = {} /\ signedIn = FALSE
  /\ mail = <<>> /\ got = <<>>
  /\ viewed = [c \in Contact |-> 0] /\ hasty = {}
  /\ clicks = 0 /\ status = 0

-----------------------------------------------------------------------------
\* The bridge.

\* broadcast: what is sent before the WebSocket is open may be lost, but
\* nothing after something that is not.
Kept(event) ==
  \/ page.ws # "closed" /\ events' = Append(events, event)
  \/ page.ws # "open" /\ events = <<>> /\ UNCHANGED events

Reports(event) == Kept(event) /\ UNCHANGED <<page, viewed, hasty, clicks>>

\* onAuth, and onConnection when there is none.
StatusChanges ==
  /\ status < MaxStatus
  /\ status' = status + 1
  /\ \/ \E success \in BOOLEAN :
          /\ Reports([type |-> "auth", success |-> success])
          /\ signedIn' = (signedIn \/ success)
     \/ Reports([type |-> "connection"]) /\ UNCHANGED signedIn
  /\ UNCHANGED <<commands, requested, mail, got>>

\* onMessage and onGroupMessage.
MessageArrives(m) ==
  /\ signedIn /\ Len(mail) < MaxMail
  /\ mail' = Append(mail, m)
  /\ Reports([type |-> "message", n |-> Len(mail) + 1])
  /\ got' = IF events' = events THEN got ELSE Append(got, Len(mail) + 1)
  /\ UNCHANGED <<commands, requested, signedIn, status>>

\* onGroupCode.
GroupCreated(group) ==
  /\ group \in requested
  /\ requested' = requested \ {group}
  /\ Reports([type |-> "groupCode", in |-> group])
  /\ UNCHANGED <<commands, signedIn, mail, got, status>>

\* Mutant: the key is always that of the two users.
ReceiversKeyForTwo(command) == PrivateKey(Me, command.from)

ReceiversKey(command) ==
  IF command.in \in Group THEN GroupKey(command.in) ELSE PrivateKey(Me, command.from)

\* The answer to "decrypt".
Answer(command) ==
  LET texts == Decrypted[mail[command.n], ReceiversKey(command)]
  IN IF texts = {} THEN [type |-> "decryptError"]
     ELSE [type |-> "decrypted", n |-> command.n, from |-> command.from,
           in |-> command.in, text |-> CHOOSE text \in texts : TRUE]

\* handleCommand, for the next command of a page.
handleCommand(k) ==
  LET command == Head(commands[k])
  IN /\ commands[k] # <<>>
     /\ commands' = [commands EXCEPT ![k] = Tail(@)]
     /\ IF command.type = "decrypt" THEN Kept(Answer(command)) ELSE UNCHANGED events
     /\ requested' = IF command.type = "createGroup" THEN requested \cup {command.in}
                     ELSE requested
     /\ UNCHANGED <<page, signedIn, mail, got, viewed, hasty, clicks, status>>

-----------------------------------------------------------------------------
\* The store: what an event makes of a page p.

auth(p, event) == [p EXCEPT !.isAuthenticated = event.success]

\* Mutant: the conversations go with the login.
connectionForgets(p) ==
  [p EXCEPT !.isAuthenticated = FALSE, !.groups = <<>>,
            !.messages = [c \in Contact |-> <<>>]]

\* There is no connection: what is kept are the messages and their counts.
connection(p) == [p EXCEPT !.isAuthenticated = FALSE, !.groups = <<>>]

message(p, event) ==
  LET m == mail[event.n]
  IN [p EXCEPT !.messages[m.in] =
                 Append(@, [n |-> event.n, from |-> m.from, decrypted |-> {}]),
               !.unreadCounts[m.in] = IF p.currentContact = m.in THEN 0 ELSE @ + 1]

\* Mutant: the last message that is not decrypted gets the text.
decryptedOfAnybody(p, event) ==
  LET i == SelectLastInSeq(p.messages[event.in], LAMBDA e : e.decrypted = {})
  IN IF i = 0 THEN p
     ELSE [p EXCEPT !.messages[event.in][i].decrypted = Parsed[event.text]]

\* The last message from this sender that is not decrypted yet gets the text.
decrypted(p, event) ==
  LET i == SelectLastInSeq(p.messages[event.in],
             LAMBDA e : e.from = event.from /\ e.decrypted = {})
  IN IF i = 0 THEN p
     ELSE [p EXCEPT !.messages[event.in][i].decrypted = Parsed[event.text]]

\* Mutant: the event is listed in place of the name it carries.
groupCodeWhole(p, event) == [p EXCEPT !.groups = Append(@, event)]

groupCode(p, event) == [p EXCEPT !.groups = Append(@, event.in)]

handleServerMessage(p, event) ==
  CASE event.type = "auth" -> auth(p, event)
    [] event.type = "connection" -> connection(p)
    [] event.type = "message" -> message(p, event)
    [] event.type = "decrypted" -> decrypted(p, event)
    [] event.type = "groupCode" -> groupCode(p, event)
    [] OTHER -> p

\* Whether JSON.parse takes the whole event.
Parses(event) ==
  CASE event.type = "message" ->
         /\ ~BeginsWithDigit(Encrypted[mail[event.n]])
         /\ mail[event.n].in \notin Unquoted
    [] event.type = "decrypted" -> Parsed[event.text] # {} /\ event.in \notin Unquoted
    [] event.type = "groupCode" -> event.in \notin Unquoted
    [] OTHER -> TRUE

-----------------------------------------------------------------------------
\* Requests of the user to decrypt a message from f in c that are on their way,
\* or their answers.
Outstanding(c, f) ==
  LET Asks(x) == x.type \in {"decrypt", "decrypted"} /\ x.in = c /\ x.from = f
  IN \/ \E k \in DOMAIN commands : \E i \in DOMAIN commands[k] : Asks(commands[k][i])
     \/ \E i \in DOMAIN events : Asks(events[i])

\* Where a conversation has messages of others.
Theirs(p, c) == {i \in DOMAIN p.messages[c] : p.messages[c][i].from # Me}

\* The page takes an event.  The user was hasty to ask for a message of a
\* sender who then sends another before the answer is there.
onmessage ==
  LET event == Head(events)
  IN /\ page.ws = "open" /\ events # <<>>
     /\ events' = Tail(events)
     /\ page' = IF Parses(event) THEN handleServerMessage(page, event) ELSE page
     /\ IF event.type = "message" /\ Parses(event)
        THEN LET m == mail[event.n]
             IN /\ hasty' = IF Outstanding(m.in, m.from) THEN hasty \cup {<<m.in, m.from>>}
                            ELSE hasty
                /\ viewed' = IF page.currentContact = m.in
                             THEN [viewed EXCEPT ![m.in] = @ + 1] ELSE viewed
        ELSE UNCHANGED <<hasty, viewed>>
     /\ UNCHANGED <<commands, requested, signedIn, mail, got, clicks, status>>

-----------------------------------------------------------------------------
\* The user.  The chat is shown while isAuthenticated is set.

Clicks(p) ==
  /\ page.isAuthenticated /\ clicks < MaxClicks
  /\ clicks' = clicks + 1
  /\ page' = p
  /\ UNCHANGED <<events, requested, signedIn, mail, got, status>>

send(command) ==
  commands' = IF page.ws = "open"
              THEN [commands EXCEPT ![page.load] = Append(@, command)] ELSE commands

\* setCurrentContact and clearUnread.
selectContact(c) ==
  /\ c \in Peer \cup ToSet(page.groups)
  /\ Clicks([page EXCEPT !.currentContact = c, !.unreadCounts[c] = 0])
  /\ viewed' = [viewed EXCEPT ![c] = Cardinality(Theirs(page, c))]
  /\ UNCHANGED <<commands, hasty>>

\* A message is sent and added to the conversation by addOwnMessage, whether
\* or not the WebSocket is open.
handleSend ==
  LET c == page.currentContact
  IN /\ c # Nobody
     /\ \E text \in Text :
          Clicks([page EXCEPT !.messages[c] =
            Append(@, [n |-> 0, from |-> Me, decrypted |-> Own(text)])])
     /\ UNCHANGED <<commands, viewed, hasty>>

\* The button of a message that is not shown: its text is null, or one that
\* JavaScript takes for false.  The user is hasty not to begin with the last
\* message of a sender, or to ask twice.
Hidden(e) == e.from # Me /\ \A value \in e.decrypted : value.falsy

handleDecrypt(i) ==
  LET c == page.currentContact
      e == page.messages[c][i]
      patient ==
        /\ ~Outstanding(c, e.from) /\ e.decrypted = {}
        /\ \A j \in DOMAIN page.messages[c] :
             j > i => page.messages[c][j].from # e.from \/ page.messages[c][j].decrypted # {}
  IN /\ c # Nobody /\ i \in DOMAIN page.messages[c] /\ Hidden(e)
     /\ Clicks(page)
     /\ send([type |-> "decrypt", n |-> e.n, from |-> e.from, in |-> c])
     /\ hasty' = IF patient THEN hasty ELSE hasty \cup {<<c, e.from>>}
     /\ UNCHANGED viewed

handleCreateGroup(group) ==
  /\ Clicks(page)
  /\ send([type |-> "createGroup", in |-> group])
  /\ UNCHANGED <<viewed, hasty>>

\* addGroup: the group is listed before the server has answered.
handleJoinGroup(group) ==
  /\ Clicks([page EXCEPT !.groups = IF group \in ToSet(@) THEN @ ELSE Append(@, group)])
  /\ UNCHANGED <<commands, viewed, hasty>>

-----------------------------------------------------------------------------
\* The WebSocket and the page.

onopen ==
  /\ page.ws = "connecting"
  /\ page' = [page EXCEPT !.ws = "open"]
  /\ UNCHANGED <<commands, events, requested, signedIn, mail, got, viewed, hasty, clicks, status>>

\* Of what a page has sent, the end may be lost with its WebSocket.
CommandsLost ==
  \E sent \in Prefixes(commands[page.load]) :
    commands' = [commands EXCEPT ![page.load] = sent]

\* Nothing connects again: setTimeout(connect, 3000) is commented out.
onclose ==
  /\ page.ws # "closed"
  /\ page' = [page EXCEPT !.ws = "closed"]
  /\ CommandsLost
  /\ events' = <<>>
  /\ UNCHANGED <<requested, signedIn, mail, got, viewed, hasty, clicks, status>>

Reload ==
  /\ page.load < MaxLoads
  /\ page' = NewPage(page.load + 1)
  /\ CommandsLost
  /\ events' = <<>> /\ got' = <<>>
  /\ viewed' = [c \in Contact |-> 0] /\ hasty' = {}
  /\ UNCHANGED <<requested, signedIn, mail, clicks, status>>

-----------------------------------------------------------------------------
User ==
  \/ \E c \in Contact : selectContact(c)
  \/ handleSend
  \/ \E i \in 1..(MaxMail + MaxClicks) : handleDecrypt(i)
  \/ \E group \in Group : handleCreateGroup(group) \/ handleJoinGroup(group)

Bridge ==
  \/ StatusChanges
  \/ \E m \in Sent : MessageArrives(m)
  \/ \E group \in Group : GroupCreated(group)
  \/ \E k \in 1..MaxLoads : handleCommand(k)

ChatNext == User \/ Bridge \/ onmessage \/ onopen \/ onclose \/ Reload

ChatSpec == ChatInit /\ [][ChatNext]_vars

\* The bridge reads the commands of every page, and a page takes its events.
FairChatSpec ==
  /\ ChatSpec
  /\ WF_vars(onmessage)
  /\ \A k \in 1..MaxLoads : WF_vars(handleCommand(k))

=============================================================================
