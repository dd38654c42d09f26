-------------------------- MODULE BridgeProperties --------------------------
(***************************************************************************)
(* What the client's connection must get right.                            *)
(***************************************************************************)
EXTENDS Bridge

\* Those who are about to write: threads that owe a post, posted calls of
\* writeNext, and outstanding writes.
Starting == {t \in Thread : thread[t] \in {"post", "postLogout"}}
Writers == Cardinality(Starting) + client.posted + Cardinality(client.writes)

\* Writes to the socket never overlap, whichever threads call sendMessage
\* while the handlers run: writing_ is held by one writer at a time, and it is
\* free only if the queue is empty.  (sendMessage, ClientCore.cpp:563-578, and
\* writeNext, 584-612.)
OneWriter ==
  /\ Writers <= 1
  /\ Writers = 1 => client.writing
  /\ client.writing \/ client.writeQueue = <<>>

\* Every frame that sendMessage accepted goes out once, in the order of the
\* calls, over all connections together, or is still in the queue; a frame
\* that is written and whose handler has not run is in both.
InOrderOnce ==
  LET left == IF \E op \in client.writes : op.status = "ok"
              THEN Tail(client.writeQueue) ELSE client.writeQueue
  IN wire \o [i \in DOMAIN left |-> left[i].n] = [i \in 1..issued |-> i]

\* A client that takes itself for connected has a read outstanding, so the end
\* of the connection reaches it, however connect() and the handlers of earlier
\* connections interleave.  (readHeader and handleError, ClientCore.cpp:452-472,
\* 614-619.)
ReaderAlive ==
  client.connected => \E st \in ReadStatus : client.reads[st] > 0

\* Every "connect" command is answered on the browser's side with a success
\* or a failure, also if another attempt or the end of the old connection
\* takes the socket from it.  (connect, ClientCore.cpp:28-56.)
ConnectsAreReported ==
  \A k \in 1..MaxConnects : attempts >= k ~> reported >= k

-----------------------------------------------------------------------------
\* "Store hostname for auto-login after connection"
\* (MessageHandler.cpp:233): a client that is connected and has something to
\* send has somebody who sends it.  The code does not keep this.
ConnectedCanSend ==
  client.connected /\ client.writeQueue # <<>> => Writers > 0

=============================================================================
