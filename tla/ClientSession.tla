--------------------------- MODULE ClientSession ---------------------------
(***************************************************************************)
(* One connection as the server sees it (server/ClientSession.{h,cpp}):    *)
(* its socket, its one outstanding read, its queue of frames and the chain *)
(* of asynchronous writes that empties the queue.  A session is a record;  *)
(* the operators here are the methods that touch nothing else.             *)
(***************************************************************************)
EXTENDS Protocol, Sequences

\* The outstanding async_read: there is one, it was started on a closed
\* socket (and can only fail), or reading has ended.
Reading == {"pending", "failing", "none"}

\* The outstanding async_write; "stuck" is writing_ = TRUE with no operation
\* left to clear it.  The flag writing_ is writing # "idle".
Writing == {"idle", "pending", "failing", "stuck"}

\* The last two fields record the history of an open connection: the users
\* whose AUTH_SUCCESS has been written to the socket, and the last message
\* written for each user.
SessionState ==
  [open : BOOLEAN, reading : Reading, writing : Writing,
   writeQueue : Seq(Frame), userID : UserID \cup {NoUser},
   authenticated : BOOLEAN, acked : SUBSET UserID, written : [UserID -> Nat]]

NoneWritten == [u \in UserID |-> 0]

\* No object at all: never made, or destroyed.
Blank == [open |-> FALSE, reading |-> "none", writing |-> "idle",
          writeQueue |-> <<>>, userID |-> NoUser, authenticated |-> FALSE,
          acked |-> {}, written |-> NoneWritten]

\* A session just accepted: its constructor and start().
Fresh == [Blank EXCEPT !.open = TRUE, !.reading = "pending"]

-----------------------------------------------------------------------------
\* An operation started on a closed socket completes with an error.
Launch(ss) == IF ss.open THEN "pending" ELSE "failing"

\* The socket is closed, and the history of the connection ends.
stop(ss) == [ss EXCEPT !.open = FALSE, !.acked = {}, !.written = NoneWritten]

\* Mutant: the newest frame goes first.
sendAllFront(ss, fs) ==
  [ss EXCEPT !.writeQueue = fs \o @,
             !.writing = IF @ = "idle" /\ fs # <<>> THEN Launch(ss) ELSE @]

\* Mutant: a full queue makes room by dropping its oldest frame.
sendAllDropOldest(ss, fs) ==
  [ss EXCEPT !.writeQueue = (IF @ # <<>> /\ fs # <<>> THEN Tail(@) ELSE @) \o fs,
             !.writing = IF @ = "idle" /\ fs # <<>> THEN Launch(ss) ELSE @]

\* sendMessage, once for each frame of fs: only the first finds the writer idle.
sendAll(ss, fs) ==
  [ss EXCEPT !.writeQueue = @ \o fs,
             !.writing = IF @ = "idle" /\ fs # <<>> THEN Launch(ss) ELSE @]

sendMessage(ss, f) == sendAll(ss, <<f>>)

\* Mutant: one frame is written for each start of the writer.
writeNextStops(ss) == [ss EXCEPT !.writing = "idle"]

writeNext(ss) ==
  [ss EXCEPT !.writing = IF ss.writeQueue = <<>> THEN "idle" ELSE Launch(ss)]

\* What the peer has been sent, once f is on the wire.
Record(ss, f) ==
  IF f.type = "AUTH_SUCCESS" THEN [ss EXCEPT !.acked = @ \cup {f.to}]
  ELSE IF f.type = "REPLY" THEN ss
  ELSE [ss EXCEPT !.written[f.to] = f.n]

\* The completion handler of async_write, without and with an error.
WriteCompleted(ss) ==
  writeNext([Record(ss, Head(ss.writeQueue)) EXCEPT !.writeQueue = Tail(@)])

\* Mutant: a failed write is tried again.
WriteFailedRetries(ss) == [stop(ss) EXCEPT !.writing = Launch(stop(ss))]

WriteFailed(ss) == [stop(ss) EXCEPT !.writing = "stuck"]

\* The frame was read and handled: readHeader() again.
NextRead(ss) == [ss EXCEPT !.reading = Launch(ss)]

\* The read failed, or announced more than MAX_MESSAGE_SIZE bytes.
ReadFailed(ss) == [stop(ss) EXCEPT !.reading = "none"]

\* The completion handlers own the session (the captured shared_ptr "self").
OwnedByOperation(ss) ==
  ss.reading # "none" \/ ss.writing \in {"pending", "failing"}

=============================================================================
