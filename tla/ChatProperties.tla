---------------------------- MODULE ChatProperties ----------------------------
(***************************************************************************)
(* What the chat page must get right.                                      *)
(***************************************************************************)
EXTENDS ChatStore

Entries == UNION {{<<c, i>> : i \in DOMAIN page.messages[c]} : c \in Contact}

\* What is to be shown of a text: nothing if it has a quote, which the bridge
\* cuts it at; a number as JavaScript prints it; of "true" and "false" nothing;
\* any other text as it was typed.
ToBeShown(text) ==
  IF Quote \in ToSet(text) THEN {}
  ELSE IF ~IsRaw(text) THEN {[shown |-> text, falsy |-> FALSE]}
  ELSE IF text \in {True, False} THEN {[shown |-> <<>>, falsy |-> text = False]}
  ELSE IF IsNumber(text) THEN {[shown |-> Printed(text), falsy |-> Printed(text) = <<Zero>>]}
  ELSE {}

\* The conversions of the two bridges and the browsers carry every message to
\* what is to be shown of it.  (MessageHandler.cpp:216-223,
\* 274-310, 339-385; useWebSocket.js:20-24.)
ConversionsFaithful ==
  \A m \in Sent : \A text \in Decrypted[m, SendersKey(m)] : Parsed[text] = ToBeShown(m.text)

\* A decrypted message shows a text of its sender in its conversation, and its
\* own unless the user was hasty, however requests, answers, further messages
\* and reloads of the page interleave; and the text is the one that was typed.
\* (chatStore.js:118-134, which looks for the message by its sender.)
ShownRightly ==
  \A x \in Entries :
    LET e == page.messages[x[1]][x[2]]
        Shows(n) == e.decrypted = ToBeShown(mail[n].text)
    IN e.from # Me /\ e.decrypted # {} =>
         /\ \E n \in DOMAIN mail : mail[n].from = e.from /\ mail[n].in = x[1] /\ Shows(n)
         /\ <<x[1], e.from>> \notin hasty => Shows(e.n)

\* What was sent of conversation c and can be read by the page, what the page has
\* of it, and what is on its way.
In(c, n) == mail[n].in = c /\ ~BeginsWithDigit(Encrypted[mail[n]]) /\ c \notin Unquoted

Had(c) == {page.messages[c][i].n : i \in Theirs(page, c)}
Comes(i) == events[i].type = "message"
Coming(c) == {events[i].n : i \in {j \in DOMAIN events : Comes(j) /\ In(c, events[j].n)}}

\* The messages arrive, and are kept, in the order they were sent.
InOrder ==
  \A c \in Contact :
    /\ \A i, j \in Theirs(page, c) : i < j => page.messages[c][i].n < page.messages[c][j].n
    /\ \A i, j \in DOMAIN events : Comes(i) /\ Comes(j) /\ i < j => events[i].n < events[j].n
    /\ \A n \in Had(c), i \in DOMAIN events : Comes(i) => n < events[i].n

\* A conversation holds what was sent to this page, in order and each once, but
\* for what is on its way or was not parsed, over every sign-out; and the
\* unread count is of those that came since the contact was in view.
\* (chatStore.js:49-114, Sidebar.jsx:11-15.)
ConversationsComplete ==
  /\ InOrder
  /\ \A c \in Contact :
       /\ page.ws # "closed" => Had(c) \cup Coming(c) = {n \in ToSet(got) : In(c, n)}
       /\ page.unreadCounts[c] = Cardinality(Theirs(page, c)) - viewed[c]

\* A message the user asked to see is shown, if the user is not hasty and its
\* text can be parsed, while the WebSocket is open.  (MessageHandler.cpp:274-310
\* and chatStore.js:118-134.)
Asked(n) ==
  \E i \in DOMAIN commands[page.load] :
    LET x == commands[page.load][i]
    IN x.type = "decrypt" /\ x.n = n /\ ToBeShown(mail[n].text) # {}

Settled(n) ==
  \/ page.ws # "open"
  \/ \E x \in Entries :
       LET e == page.messages[x[1]][x[2]]
       IN e.n = n /\ (e.decrypted # {} \/ <<x[1], e.from>> \in hasty)

AnswersCome == \A n \in 1..MaxMail : Asked(n) ~> Settled(n)

-----------------------------------------------------------------------------
\* "if value is a raw bool or number — no quotes" (MessageHandler.cpp:345):
\* every message that is sent to the page can be read by it.  The code does not
\* keep this: it takes any value that begins with a digit for a number.
MessagesAreParsed ==
  \A i \in DOMAIN events : events[i].type = "message" => Parses(events[i])

=============================================================================
