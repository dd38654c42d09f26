---------------------------- MODULE FileTransfer ----------------------------
(***************************************************************************)
(* Sending files (client/ClientCore.cpp: sendFile and the three handlers   *)
(* of incoming file frames; the browser's table of transfers in            *)
(* store/chatStore.js).  Every sendFile has a thread, which sends FILE_META,*)
(* the chunks and FILE_COMPLETE; the receiver reassembles by sender.       *)
(*                                                                         *)
(* A connection keeps the order of its frames and the server relays them   *)
(* one by one: that is what Bridge and LanShareServer establish.  A user   *)
(* is "up" while its session is registered; all frames of a connection     *)
(* that ends, in either direction, are lost.  The bridge and its browser   *)
(* never lose theirs.                                                      *)
(***************************************************************************)
EXTENDS Integers, FiniteSets, SequencesExt

CONSTANTS
  User, Group,   \* every user is a member of every group
  Thread,        \* the calls of sendFile
  File,          \* names of files
  Unquoted,      \* the names makeJson takes for a number ("2024-plan.pdf")
  CanSave,       \* the users whose Downloads folder can be written
  NoFile, Idle, NotYet,
  Size,          \* bound: the sizes of files, in chunks
  MaxChunks,     \* bound: the greatest of them
  MaxLeaves      \* bound: connections that end

ASSUME FileAssumption ==
  /\ User \cap Group = {}
  /\ Unquoted \subseteq File /\ CanSave \subseteq User
  /\ MaxChunks \in Nat \ {0} /\ Size \subseteq 0..MaxChunks
  /\ MaxLeaves \in Nat

VARIABLES
  sending,        \* what each thread sends, and how many frames it has sent
  outbox,         \* the frames on the way from each user to the server
  inbox,          \* the frames on the way from the server to each user
  up,             \* who is logged in
  incomingFiles,  \* incomingFiles_ of each user, by sender
  fileTransfers,  \* fileTransfers of each user's browser, by the key used
  written,        \* history: what each user wrote when a thread's file completed
  lost,           \* history: the threads with a frame that did not reach a user
  mixed,          \* history: the threads that sent to a user at the same time
  leaves          \* history: connections that ended

vars == <<sending, outbox, inbox, up, incomingFiles, fileTransfers, written,
          lost, mixed, leaves>>

\* The n-th frame of a transfer: FILE_META, the chunks, FILE_COMPLETE.
Transfer == [from : User, to : User \cup Group, file : File,
             size : Size, sent : 0..MaxChunks + 2]
Frame == [type : {"META", "CHUNK", "COMPLETE"}, thread : Thread,
          index : 0..MaxChunks - 1]

\* A chunk is known by the transfer it belongs to and its place in the file.
Chunk == [thread : Thread, index : 0..MaxChunks - 1]

IncomingFile ==
  [file : File, size : Size, received : Nat,
   chunks : [0..MaxChunks - 1 -> Chunk \cup {NotYet}]]

Shown == [file : File \cup {NoFile}, done : Nat]

Saving == [file : File \cup {NoFile}, chunks : Seq(Chunk)]

ASSUME FillerAssumption ==
  /\ Idle \notin Transfer
  /\ NoFile \notin File \cup IncomingFile \cup Shown
  /\ NotYet \notin Chunk \cup Saving

Nothing == [i \in 0..MaxChunks - 1 |-> NotYet]

FileTypeOK ==
  /\ sending \in [Thread -> Transfer \cup {Idle}]
  /\ outbox \in [User -> Seq(Frame)] /\ inbox \in [User -> Seq(Frame)]
  /\ up \subseteq User
  /\ incomingFiles \in [User -> [User -> IncomingFile \cup {NoFile}]]
  /\ fileTransfers \in [User -> [User \cup Group -> Shown \cup {NoFile}]]
  /\ written \in [Thread -> [User -> Saving \cup {NotYet}]]
  /\ lost \subseteq Thread \X User /\ mixed \subseteq Thread
  /\ leaves \in 0..MaxLeaves

Init ==
  /\ sending = [t \in Thread |-> Idle]
  /\ outbox = [u \in User |-> <<>>] /\ inbox = [u \in User |-> <<>>]
  /\ up = User
  /\ incomingFiles = [u \in User |-> [s \in User |-> NoFile]]
  /\ fileTransfers = [u \in User |-> [k \in User \cup Group |-> NoFile]]
  /\ written = [t \in Thread |-> [u \in User |-> NotYet]]
  /\ lost = {} /\ mixed = {} /\ leaves = 0

-----------------------------------------------------------------------------
\* routeFileRaw and routeFileRawGroup: whom a transfer is for.
Recipients(tr) == IF tr.to \in Group THEN User \ {tr.from} ELSE {tr.to}

Sends(t) == sending[t] # Idle /\ sending[t].sent < sending[t].size + 2

\* The keys both sides derive, each from its own ID and the one it sees: the
\* sender sees a group's name where the receiver sees the sender.
SenderKey(tr) == {tr.from, tr.to}
ReceiverKey(u, tr) == {u, tr.from}

\* makeJson leaves out the quotes of a value that begins like a number, and
\* the browser drops what JSON.parse refuses.
Parses(file) == file \notin Unquoted

\* The browser's table after a message of the bridge.
fileStart(u, key, file) ==
  IF Parses(file) THEN [fileTransfers EXCEPT ![u][key] = [file |-> file, done |-> 0]]
  ELSE fileTransfers

fileProgress(u, key, n) ==
  [fileTransfers EXCEPT ![u][key] =
     [file |-> IF @ = NoFile THEN NoFile ELSE @.file, done |-> n]]

fileComplete(u, key, file) ==
  IF Parses(file) THEN [fileTransfers EXCEPT ![u][key] = NoFile] ELSE fileTransfers

\* What handleFileComplete writes: as many chunks as there are, by index from
\* zero, without the ones that are missing.
Saved(chunks) ==
  LET n == Cardinality({i \in DOMAIN chunks : chunks[i] # NotYet})
      there == {i \in 0..n - 1 : chunks[i] # NotYet}
      Rank(i) == Cardinality({j \in there : j < i})
  IN [k \in 1..Cardinality(there) |-> chunks[CHOOSE i \in there : Rank(i) = k - 1]]

-----------------------------------------------------------------------------
\* The sender.

\* sendFile: the thread starts and opens the file.
sendFile(t) ==
  \E from \in User, to \in User \cup Group, file \in File, size \in Size :
    LET tr == [from |-> from, to |-> to, file |-> file, size |-> size, sent |-> 0]
        others == {o \in Thread : /\ Sends(o) /\ sending[o].from = from
                                  /\ Recipients(sending[o]) \cap Recipients(tr) # {}}
    IN /\ sending[t] = Idle /\ to # from
       /\ sending' = [sending EXCEPT ![t] = tr]
       /\ mixed' = IF others = {} THEN mixed ELSE mixed \cup others \cup {t}
       /\ UNCHANGED <<outbox, inbox, up, incomingFiles, fileTransfers, written, lost, leaves>>

\* sendMessage of a file frame.  The server refuses what reaches it from a
\* session that has not logged in.
SendFrame(t, type, index) ==
  LET u == sending[t].from
      frame == [type |-> type, thread |-> t, index |-> index]
  IN /\ sending' = [sending EXCEPT ![t].sent = @ + 1]
     /\ IF u \in up
        THEN outbox' = [outbox EXCEPT ![u] = Append(@, frame)] /\ UNCHANGED lost
        ELSE lost' = lost \cup ({t} \X Recipients(sending[t])) /\ UNCHANGED outbox
     /\ UNCHANGED <<inbox, up, incomingFiles, written, mixed, leaves>>

SendMeta(t) ==
  /\ Sends(t) /\ sending[t].sent = 0
  /\ SendFrame(t, "META", 0)
  /\ UNCHANGED fileTransfers

\* Mutant: the index is advanced before it is sent.
SendChunkFromOne(t) ==
  /\ Sends(t) /\ sending[t].sent \in 1..sending[t].size
  /\ SendFrame(t, "CHUNK", sending[t].sent)
  /\ UNCHANGED fileTransfers

\* A chunk, and the progress callback, which comes 10 ms later: the sender's
\* own browser shows it under the recipient's name.
SendChunk(t) ==
  LET tr == sending[t]
  IN /\ Sends(t) /\ tr.sent \in 1..tr.size
     /\ SendFrame(t, "CHUNK", tr.sent - 1)
     /\ fileTransfers' = fileProgress(tr.from, tr.to, tr.sent)

SendComplete(t) ==
  /\ Sends(t) /\ sending[t].sent = sending[t].size + 1
  /\ SendFrame(t, "COMPLETE", 0)
  /\ UNCHANGED fileTransfers

-----------------------------------------------------------------------------
\* The server takes the next frame of u and queues it for those who are there.
Route(u) ==
  LET frame == Head(outbox[u])
      targets == Recipients(sending[frame.thread])
  IN /\ outbox[u] # <<>>
     /\ outbox' = [outbox EXCEPT ![u] = Tail(@)]
     /\ inbox' = [v \in User |-> IF v \in targets \cap up THEN Append(inbox[v], frame)
                                 ELSE inbox[v]]
     /\ lost' = lost \cup ({frame.thread} \X (targets \ up))
     /\ UNCHANGED <<sending, up, incomingFiles, fileTransfers, written, mixed, leaves>>

\* The threads with a frame in q.
InFlight(q) == {q[i].thread : i \in DOMAIN q}

\* The connection of u ends; the tables and the threads stay.
Leaves(u) ==
  /\ u \in up /\ leaves < MaxLeaves
  /\ up' = up \ {u}
  /\ leaves' = leaves + 1
  /\ outbox' = [outbox EXCEPT ![u] = <<>>] /\ inbox' = [inbox EXCEPT ![u] = <<>>]
  /\ lost' = lost \cup (InFlight(inbox[u]) \X {u})
               \cup UNION {{t} \X Recipients(sending[t]) : t \in InFlight(outbox[u])}
  /\ UNCHANGED <<sending, incomingFiles, fileTransfers, written, mixed>>

Returns(u) ==
  /\ u \notin up
  /\ up' = up \cup {u}
  /\ UNCHANGED <<sending, outbox, inbox, incomingFiles, fileTransfers, written, lost, mixed, leaves>>

-----------------------------------------------------------------------------
\* The receiver.

\* The io thread of u takes a frame; tr is what its payload says.
Takes(u, type) ==
  /\ inbox[u] # <<>> /\ Head(inbox[u]).type = type
  /\ inbox' = [inbox EXCEPT ![u] = Tail(@)]
  /\ UNCHANGED <<sending, outbox, up, lost, mixed, leaves>>

Announced(u) == sending[Head(inbox[u]).thread]

\* Mutant: the entry of an earlier file is not erased and keeps its chunks.
handleFileMetadataKeeps(u) ==
  LET tr == Announced(u)
      old == incomingFiles[u][tr.from]
  IN /\ Takes(u, "META")
     /\ incomingFiles' = [incomingFiles EXCEPT ![u][tr.from] =
          [file |-> tr.file, size |-> tr.size, received |-> 0,
           chunks |-> IF old = NoFile THEN Nothing ELSE old.chunks]]
     /\ fileTransfers' = fileStart(u, tr.from, tr.file)
     /\ UNCHANGED written

handleFileMetadata(u) ==
  LET tr == Announced(u)
  IN /\ Takes(u, "META")
     /\ incomingFiles' = [incomingFiles EXCEPT ![u][tr.from] =
          [file |-> tr.file, size |-> tr.size, received |-> 0, chunks |-> Nothing]]
     /\ fileTransfers' = fileStart(u, tr.from, tr.file)
     /\ UNCHANGED written

\* A chunk that cannot be decrypted or that nothing announced is dropped.
handleFileChunk(u) ==
  LET chunk == [thread |-> Head(inbox[u]).thread, index |-> Head(inbox[u]).index]
      tr == Announced(u)
      f == incomingFiles[u][tr.from]
  IN /\ Takes(u, "CHUNK")
     /\ IF SenderKey(tr) = ReceiverKey(u, tr) /\ f # NoFile
        THEN /\ incomingFiles' = [incomingFiles EXCEPT ![u][tr.from] =
                  [f EXCEPT !.received = @ + 1, !.chunks[chunk.index] = chunk]]
             /\ fileTransfers' = fileProgress(u, tr.from, f.received + 1)
        ELSE UNCHANGED <<incomingFiles, fileTransfers>>
     /\ UNCHANGED written

\* What the COMPLETE of thread t leaves on the disk of u; the browser is told
\* of a file that could not be written as of any other.
Writes(t, u, f) ==
  written' = [written EXCEPT ![t][u] =
    IF u \in CanSave THEN [file |-> f.file, chunks |-> Saved(f.chunks)]
    ELSE [file |-> NoFile, chunks |-> <<>>]]

\* Mutant: the entry is kept for the next file.
handleFileCompleteKeeps(u) ==
  LET tr == Announced(u)
      f == incomingFiles[u][tr.from]
  IN /\ Takes(u, "COMPLETE")
     /\ IF f = NoFile THEN UNCHANGED <<fileTransfers, written>>
        ELSE /\ Writes(Head(inbox[u]).thread, u, f)
             /\ fileTransfers' = fileComplete(u, tr.from, tr.file)
     /\ UNCHANGED incomingFiles

\* Mutant: a file of which nothing came is not written.
handleFileCompleteUnlessEmpty(u) ==
  LET tr == Announced(u)
      f == incomingFiles[u][tr.from]
  IN /\ Takes(u, "COMPLETE")
     /\ IF f = NoFile \/ Saved(f.chunks) = <<>>
        THEN UNCHANGED <<incomingFiles, fileTransfers, written>>
        ELSE /\ Writes(Head(inbox[u]).thread, u, f)
             /\ incomingFiles' = [incomingFiles EXCEPT ![u][tr.from] = NoFile]
             /\ fileTransfers' = fileComplete(u, tr.from, tr.file)

handleFileComplete(u) ==
  LET tr == Announced(u)
      f == incomingFiles[u][tr.from]
  IN /\ Takes(u, "COMPLETE")
     /\ IF f = NoFile THEN UNCHANGED <<incomingFiles, fileTransfers, written>>
        ELSE /\ Writes(Head(inbox[u]).thread, u, f)
             /\ incomingFiles' = [incomingFiles EXCEPT ![u][tr.from] = NoFile]
             /\ fileTransfers' = fileComplete(u, tr.from, tr.file)

Receive(u) == handleFileMetadata(u) \/ handleFileChunk(u) \/ handleFileComplete(u)

-----------------------------------------------------------------------------
Proceeds(t) == SendMeta(t) \/ SendChunk(t) \/ SendComplete(t)

Next ==
  \/ \E t \in Thread : sendFile(t) \/ Proceeds(t)
  \/ \E u \in User : Route(u) \/ Receive(u) \/ Leaves(u) \/ Returns(u)

Spec == Init /\ [][Next]_vars

-----------------------------------------------------------------------------
WholeFile(t) == [k \in 1..sending[t].size |-> [thread |-> t, index |-> k - 1]]

Undisturbed(t, u) == t \notin mixed /\ <<t, u>> \notin lost

\* A file sent to one user is saved under its name and whole, each chunk once
\* and in order, if all of its frames arrived and the sender sent that user no
\* other file meanwhile: whatever broken transfers from the same sender left
\* behind in incomingFiles_.  (ClientCore.cpp:108-203, 218-360.)
WholeUnlessDisturbed ==
  \A t \in Thread, u \in CanSave :
    written[t][u] # NotYet /\ sending[t].to = u /\ Undisturbed(t, u)
      => written[t][u] = [file |-> sending[t].file, chunks |-> WholeFile(t)]

\* Of a sender to whom a user sends nothing, its browser shows exactly the file
\* that is being received, over any number of lost and mixed transfers, unless
\* the sender has used a name makeJson garbles.  (chatStore.js:147-178.)
SentTo(u, key) == \E t \in Thread : sending[t] # Idle /\ sending[t].from = u /\ sending[t].to = key
Garbled(s) == \E t \in Thread : sending[t] # Idle /\ sending[t].from = s /\ ~Parses(sending[t].file)

ShownIsIncoming ==
  \A u, s \in User :
    ~SentTo(u, s) /\ ~Garbled(s) =>
      LET f == incomingFiles[u][s]
      IN fileTransfers[u][s] = IF f = NoFile THEN NoFile
                               ELSE [file |-> f.file, done |-> f.received]

\* Every file arrives at each of its recipients, unless it was disturbed: when
\* the sender is through and no frame is on the way any more, the receiver has
\* completed it, empty files and files of groups included.  (sendFile,
\* ClientCore.cpp:183-192, routeFileRaw, and handleFileComplete.)
OnTheWay(t, u) == t \in InFlight(outbox[sending[t].from]) \cup InFlight(inbox[u])

ArrivedWhenQuiet ==
  \A t \in Thread :
    sending[t] # Idle /\ ~Sends(t) =>
      \A u \in Recipients(sending[t]) :
        OnTheWay(t, u) \/ written[t][u] # NotYet \/ ~Undisturbed(t, u)

=============================================================================
