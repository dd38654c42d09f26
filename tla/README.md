# LanShare: specification, model checking and proofs

LanShare is a chat and file sharing system for a local network: one server
(`src/backend/server`), a client library (`src/backend/client`), a bridge that
puts the client library behind a WebSocket (`src/backend/bridge`), and a React
user interface inside an Electron shell (`src/frontend`). This directory holds
TLA+ modules translated from that source, TLC configurations that check them on
small instances, and TLAPS proofs for every instance.

## 1. The system

### Components

| component | state | operations | talks to |
|---|---|---|---|
| Client session of the server (`ClientSession`) | socket, one outstanding read, `writeQueue_`, `writing_`, `userID_`, `authenticated_` | one handler per frame type; `sendMessage`/`writeNext` chain; `handleError`; destructor | everything below, by direct calls |
| Registry (`ServerCore`) | `clients_` (user ID → `shared_ptr` of a session), `clientsMutex_`, the acceptor | `registerClient`, `unregisterClient`, `getClient`, `getOnlineUsers`, accept loop, `start`, `stop` | owns sessions and the three stores |
| Account store (`AuthManager`) | `users_` (name → account), `userIDMap_` (ID → name), `users.db` | register, authenticate, change password, save, load | nobody |
| Group store (`GroupManager`) | `groups_` (name → creator, code, members) | create, join, leave, delete | nobody |
| Router (`MessageRouter`) | `offlineMessages_` (user ID → stored messages) | route private/group, relay files, store, deliver at login | registry, groups, sessions |
| Server process (`server/main.cpp`) | the process, its one thread, two signals | start, signal handler → `stop()` → save | accounts on disk |
| Client core (`ClientCore`) | socket, `connected_`, `authenticated_`, `userID_`, write queue, `incomingFiles_` | connect, login, send, file transfer in both directions, callbacks | server (TCP), bridge (callbacks) |
| Bridge (`MessageHandler`, `WebSocketServer`) | `pendingHostname_`, browser sessions and their write queues | commands from the browser, broadcasts of what the client core reports, JSON and base64 | client core (calls on one thread, callbacks on another), browser |
| Chat store (`chatStore.js`, `useWebSocket.js`) | current user, conversations, groups, file transfers | one case per message of the bridge | bridge |
| Desktop shell (`electron.js`) | three processes | start, kill | everything |

The server runs every completion handler on one thread, so a handler is atomic;
what interleaves are handlers of different connections and, on one connection,
its reads, writes and end. Signals interrupt that thread anywhere. The client
core has an io thread, the thread that calls it, and one detached thread per
file that is sent.

### What is hard about it

* **Ownership of sessions.** A session lives by the `shared_ptr`s in its
  outstanding operations and in `clients_`. Its destructor unregisters its user
  and takes the mutex under which `clients_` drops entries.
* **Registration, acknowledgement, offline mail** have to happen in an order that
  never strands a message and never hands one to a client that does not know
  its ID yet; sessions may sign in twice, as different users, on displaced
  entries, while frames are still in flight.
* **The writer.** One flag, `writing_`, is set by `sendMessage` and cleared by the
  completion handler; `async_write` refers into the queue.
* **Accounts on disk.** They are written only by `stop()`, over a truncated file,
  from a signal handler.
* **Client side**: a flag shared by two threads, sockets that are replaced under
  an outstanding read, transfers keyed by their sender only, and a UI that
  correlates answers by sender.

PROJECT.json lists each of these at its line, with the properties that cover it.

### What makes each part correct

* Sessions: nothing queued is skipped, reordered or left behind; the buffer of a
  running write is stable; closed sessions disappear.
* Registry: entries never dangle and sessions never leak; users who are listed
  can be reached.
* Accounts: the two maps agree; an ID, once handed out, is final; accounts
  survive restarts, and what the file garbles harms no other.
* Groups: a group has members; creator and code stay while it lives.
* Router: every message reaches each user it was meant for once, in order, and
  nobody else; mail waits only for users who are away, but for what is older than the account.
* Client core: one write at a time and none forgotten, a reconnect works; a file
  is reported complete only if it is.
* Bridge and UI: an answer is shown at what was asked; what is shown as done was
  done.

## 2. Modules

| module | models | needs |
|---|---|---|
| `Protocol` | user IDs, frames (`Protocol.h`) | |
| `AuthManager`, `GroupManager` | the two stores, one action per method, with their own `AuthSpec`, `GroupSpec` | `Protocol` |
| `Stores` | the two stores side by side with every operation, those without a frame included | both |
| `ClientSession` | a session as a record; the methods that touch nothing else, as operators on it | `Protocol` |
| `ServerCore` | `clients_`, ownership and destruction of sessions, `clientsMutex_` | `ClientSession` |
| `MessageRouter` | routing and the offline store | `ServerCore`, `GroupManager` |
| `LanShareServer` | the server: one action per handler, whole (`Next`, `Spec`, `FairSpec`) | all of the above |
| `ServerProperties` | what the server must get right, and the refinement mapping | `LanShareServer`, `Mailbox` |
| `Mailbox` | abstract specification: what the server promises about messages | |
| `AccountFile` | the text of `users.db`: the line of an account, and how a text is split into accounts | |
| `ServerLifecycle` | start, registration, signals at every point, save, crash, over that text | `AccountFile` |
| `MCLifecycle` | names for TLC, three of them with separators | `ServerLifecycle` |
| `ClientCore` | the client library's socket, outstanding operations, flags and queue as a record; its methods as operators on it | |
| `Bridge` | the bridge process: the browser's thread, threads that send files, the io thread, the network (`Spec`, `FairSpec`) | `ClientCore` |
| `BridgeProperties` | what the client's connection must get right | `Bridge` |
| `FileTransfer` | files from the thread that sends them over the server to the receiver's disk, and the browser's table of transfers | |
| `BrowserLink` | the WebSocket server of the bridge: a session per browser, its reads and writes, broadcasts from several threads | |
| `BridgeCodec` | how the bridge writes and reads fields, base64 and encrypted blobs, with the browser's JSON at the other end | |
| `ChatStore` | the chat page and its WebSocket, and what the bridge does with its commands (`ChatSpec`, `FairChatSpec`) | `BridgeCodec` |
| `ChatProperties` | what the chat page must get right | `ChatStore` |
| `MCChat` | an instance of the chat page, and the conversions over all short texts and blobs | `ChatProperties` |
| `MCLanShareServer` | symmetry for TLC | `ServerProperties` |
| `AuthManagerProofs` | theorems about the account store | `AuthManager` |
| `LanShareServerProofs` | lemmas about sessions and the registry, theorems about the group store and the server | `AuthManagerProofs`, `ServerProperties` |
| `ServerMailProofs` | theorems about what becomes of a message, and that the server implements `Mailbox` | `LanShareServerProofs` |
| `ServerLifecycleProofs` | theorems about accounts over restarts and the text they are kept in | `ServerLifecycle` |
| `FileTransferProofs` | theorems about files | `FileTransfer` |
| `BridgeProofs` | theorems about the client's connection | `BridgeProperties` |
| `BrowserLinkProofs` | theorems about the WebSocket server of the bridge | `BrowserLink` |
| `ChatStoreProofs` | theorems about the chat page | `ChatProperties` |

### How state and actions correspond to the code

* A **session** is a record: `open` (the socket), `reading` and `writing` (the
  outstanding operation and whether it was started on a closed socket),
  `writeQueue`, `userID`, `authenticated`. `writing_` is `writing # "idle"`;
  `"stuck"` is the flag left set by a failed write. `Blank` is no object at all.
  `acked` and `written` are history: what an open connection has been sent. They end
  with it, as nothing is sent on a closed one.
* **Registry and sessions together** are handled as one value, `Core`, because
  methods call each other in mid-change: an operator takes such a value and
  returns it changed (`registerClient(c, u, s)`), and an action assigns the last
  one (`CoreBecomes`). `ReplaceEntry` is what an assignment to or erasure from
  `clients_` does under the mutex: the old session is destroyed there if that was
  its last owner; if it is still authenticated its destructor locks the same
  mutex and the thread never returns (`hung`). `ReleaseSession` is the end of a
  completion handler, which drops its `self`.
* A **handler** is one action: reads the frame, makes its calls, ends in
  `readHeader()` (`Finish`). Refusals that differ in the text of the answer only
  are one `REPLY`; the nine "Not authenticated" early returns are
  `RefuseUnauthenticated`.
* **Routing** loops over members and sends or stores user by user; nothing
  interrupts the loop, so `RouteChat`/`SendTo` do it for all of them at once.
  The order in which a session that answers for several recipients gets its
  frames is the arbitrary one of `SetToSeq`; the frames are those of one message.
* **History**: `handed` (what was put into session queues, per user), `audience`
  (whom each routed message was meant for) and `since` (how much had been routed when a
  user for whom mail was stored already registered). No guard reads them but the bound
  on the length of `audience`. That `handed` is not a record kept beside the queues is a
  property of its own, `HandedIsQueued`.
* **Recipients** of private messages and file frames are any IDs: the server takes whatever
  string the client sends (`MessageRouter.cpp:35-41`), and stores mail for an ID that
  nobody has registered. An ID is a name and four digits of a hash, so it may be registered
  later. The registration makes the entry in `clients_` and delivers nothing (`ClientSession.cpp:105-117`): that
  mail waits for a login, and may come after, and be written after, messages that
  were routed later. The properties about order say what is left of order then (`InTurn`).
* **Accounts on disk** (`AccountFile`). A text is a sequence of symbols; what the format
  cannot split (a hash, a time, "LS-") is one symbol, names are sequences that may hold
  '|' and newline. `Line` is what `saveToFile` writes for an account, and `RecordAt` what
  `loadFromFile` reads from a line, fields that are missing included; of lines that give the
  same name, or the same ID, the last one wins (`LoadedUsers`, `LoadedIDs`). `users_` and
  `userIDMap_` are functions on what was loaded or registered, so a name that was garbled
  by one restart is an account like any other to the next. While the process saves,
  lines leave it one by one; if it is cut short, any beginning of a line may be on
  disk (`CutShort`). Times, and therefore logins, are all the same symbol.
* The **client** is a record too. `writes` are the outstanding `async_write`s;
  `reads` and `connects` count operations by how they stand, because `connect()`
  may be called while operations of the last connection are outstanding.
  `posted` counts the calls of `writeNext` that wait for the io thread.
* **Threads of the bridge process.** A thread is somewhere in a call where others
  can get between: after the close in `connect()`, between the unlock and the
  post in `sendMessage`, between sending and clearing the flag in `logout()`
  (`Place`). Handlers run on the io thread, each to its end, in any order: asio
  promises none among those that are ready. Only that other threads find the
  flags, the socket and `pendingHostname_` unguarded (data races) is left out:
  each access is one step.
* **Frames of the client** carry their kind and the number of the call of
  `sendMessage`. `writeNext` gives `async_write` buffers of a local variable; a
  write that does not finish at once continues from whatever is there then
  (`WriteGoes`, either intact or not).
* **The browser's commands.** The user interface sends "connect" and commands for
  frames; what they contain is left out, and `Command` says which kinds are sent.
  The user interface at this commit sends no registration, login or logout by
  itself, but the bridge accepts them.
* **Files.** `FileTransfer` stands on what the other two models establish: a
  connection keeps the order of its frames and the server relays frame by frame.
  So each user has an `outbox` and an `inbox`; ending a connection empties both.
  A frame sent while the sender is not logged in is lost: the writer is stuck, or
  the server refuses it. A chunk is known by its thread and index; `chunks` is the
  map by index, `received` counts chunks for bytes. `fileTransfers` is keyed as the
  bridge keys it, by sender or by recipient. Keys are the pair of IDs they are
  derived from. That a file cannot be opened by its sender starts no transfer and
  is left out. `written`, `lost` and `mixed` are history: what each completion
  wrote, which transfers lost a frame for whom, and which overlapped.
* **Browsers** (`BrowserLink`). A session has one operation (`async_accept`, then one
  `async_read` after the other) and a write queue; its object is destroyed when
  `sessions_`, its operations and the running handler have let go of it. The thread of the handlers
  (`ws`) is somewhere between two handlers, or in one, where other threads can get
  between: before it takes `sessionsMutex_`, in a command, in a broadcast, or in the
  handler of a write with `writeMutex_` taken. `broadcast` is the call that holds
  `sessionsMutex_`; it sends to one session after the other, in any order, and waits
  for a session whose `writeMutex_` is taken. `doWrite` gives `async_write` a buffer
  of a local copy, so what is written later may be damaged (`WriteGoes`), and a
  stream that is not open fails the write. That one thread writes to a Beast stream while the other
  reads from it is left out (each start of an operation is one step).
* **The chat page** (`ChatStore`). `page` is the store with the page's WebSocket;
  each case of `handleServerMessage` is an operator on it, and `onmessage` applies
  the one for the next event, or nothing if `JSON.parse` would refuse it (`Parses`). A
  click is one action: command and change of the store together, as in one JavaScript
  task. `commands` holds what each load of the page has sent, `events` what is on its
  way to the page that is open; both are in order and without gaps, which
  `BrowserLink` shows, until the WebSocket breaks. Nothing opens it again (the reconnect is commented
  out, `useWebSocket.js:36`), except loading the page.
  When the client core signs in or loses the server is open
  (`StatusChanges`): `Bridge` has it. `Kept` lets what is broadcast before the WebSocket is
  open be lost.
* **Texts** are sequences of bytes (`BridgeCodec`). The way of a message is `JSON.stringify`,
  the bridge's `extract`, encryption, base64, and back. `Value` is what the page can
  show of a parsed value: the bridge turns texts into numbers and booleans.
  AES-GCM is modelled by its promise: `decrypt` with another key fails. `Encrypted` and
  `Decrypted` tabulate it for the messages of an instance.
* **Encryption** is end to end; the server copies bytes. In the server's modules a
  message is its number.

### Environment

Clients may connect, send any well-formed frame at any time, stop reading, or
vanish. The recipient of a private frame is any string of the form of an ID. Assumed: file frames
have their separators. In `FileTransfer` every user is a member of every group, and the
browser takes what the bridge sends at once and without loss. In `ChatStore` peers send
any of a set of messages to this user or to a group, at any time after a sign-in;
the user clicks anything the page shows, and signs in under one name. The server answers registrations and logins of a client in their
order; if two reads are outstanding on one socket, what they make of the frame
they share is `"OTHER"`. A private transfer that finds its recipient offline is dropped by
the code, and in `audience` nobody was meant to get it.

## 3. Runs

| run | instance | shows |
|---|---|---|
| `server_messages` | 2 users, 2 session slots, 2 messages to any ID | types; mail waits for the absent only, but for mail from before an account; once and in order; order on the wire; AUTH_SUCCESS before mail; no dangling entry, no leaked session; the writer |
| `server_groups` | the same with 1 group, 1 message | who gets group traffic, present or absent; what counts as handed over is in the right queue; the server implements `Mailbox` |
| `server_endings` | 1 user, 2 slots, 2 messages, `FairSpec` | the frame being written stays at the head of the queue; a closed session goes away unless the registry keeps it |
| `stores` | 3 names (1 refused), 3 passwords (1 refused), 2 prefixes, 1 group, 2 codes | maps agree, IDs final, groups non-empty, no takeover, under every operation |
| `lifecycle` | 5 names (3 with separators), 1 prefix, 2 accounts, 1 run that ends abruptly | orderly restarts keep the accounts that no name with a separator spells; whatever is loaded, the two maps hang together |
| `client_core` | the browser's thread and one that sends a file, 2 connects, 3 calls, `FairSpec` | one write at a time; every frame once and in order over two connections; a connected client reads; every "connect" is answered |
| `file_transfer` | 2 users and their group, 2 files of 0 or 2 chunks, one connection that ends | a file is whole unless it was disturbed; the browser shows what is being received; every undisturbed file arrives |
| `relogin_hangs` | violated | logging in after a broken connection hangs the server |
| `browser_link` | 2 session slots, 2 threads that broadcast besides that of the handlers, 2 broadcasts, `FairLinkSpec` | one write at a time on a stream; a filled queue is being written; every browser receives an unbroken run of the broadcasts; who is in the list is watched; every broadcast ends |
| `chat` | 2 peers, 1 group, 6 different messages of which 2 come, 3 clicks, 2 loads of the page, `FairChatSpec` | a text is shown at the message it belongs to; conversations and unread counts; what the user asks for is shown. Before it starts, TLC evaluates `BlobsSurvive`, `TextsSurvive` and `MessagesSurvive` |
| `client_reconnect` | violated | after a failed write a connected client sends nothing, for ever |
| `messages_dropped` | violated | about one message in six is dropped by the browser |

**Bounds.** `MaxMessages` caps routed messages, `MaxQueue` how many answers a
client lets pile up before it sends a request whose answer joins the same queue
(routed messages are not capped by it: the queue of another user's session grows
as far as `MaxMessages` lets it). Two slots are what displacement, a dead session
under an entry, and a reconnection need; a destroyed slot is used again, so the
number of connections over time is unbounded. Two messages are needed for
reordering and for a store that holds more than one, and also for one that is stored
before its recipient registers and one that overtakes it. `server_groups` has one message
(with two it is out of TLC's reach): it says who gets what, and not in which order; the
order of posting in `OnceInOrder` and `ImplementsMailbox` over group traffic, and the
refinement over several messages, rest on the theorems, which hold for any number. Two
users are needed for a session that signs in as one after the other. One
password and one prefix suffice in the server runs because the credentials only
decide which answer is sent; `stores` varies them. On the client side
`MaxConnects` = 2 lets a second `connect()` come before, during and after the
first connection; `MaxCalls` = 3 bounds what threads send (the frames of handlers
are not bounded by it: there are finitely many connections and answers), so that
a queue holds frames of both threads and of a handler. In `file_transfer`
two threads are needed for transfers that overlap and for one after a broken one;
`MaxLeaves` = 1 breaks either side of a transfer at any point; files of 2 chunks
can have a hole and files of 0 have none; one user cannot save, one name is of
those the bridge garbles. In `browser_link` two slots let one browser break or be refused while
the other is served, and are used again; two threads that broadcast, besides the answers
of the handlers' thread, contend for `sessionsMutex_`; two broadcasts leave one in the
queue behind one that is being written (a third makes the graph too large for the check of
liveness; the theorems hold for any number). In `chat` two messages are needed for an answer that finds
another message, and three clicks to select a contact, ask, and ask again or elsewhere;
two loads let answers for one page reach the next; the messages are a letter, a zero,
one with a quote, and one whose base64 begins with a digit, from two senders, in private
and to a group. Groups whose names begin with a digit (`Unquoted`) are in the model
and not in this instance. In `lifecycle` the names are two plain ones, one that is read back as
one of them, one that is read back as both, and one whose pieces spell the user ID of
another account; there is one prefix, so a name has one ID (two IDs of one name, in two runs,
are left to the theorems); two accounts are needed for one to overwrite another, and one abrupt end for a line cut short.

**Symmetry** on sessions and names is used in the server's runs for safety; none of the
operators distinguishes them except the immaterial order of `SetToSeq`.
`server_endings`, which checks liveness, has none.

**Deadlock** is not checked in the server runs: the server really stops for ever
when it hangs (run `relogin_hangs` shows how). It is not checked in the client
runs either, where the program rests when it was asked for nothing more (in
`file_transfer`, after both files), nor in `browser_link` and `chat`. In `stores` and `lifecycle` it is.

**Fairness** (`FairSpec`): an operation outstanding on a *closed* socket completes
with an error. That is asio's contract for `close()`; nothing is assumed of open
sockets, because the code has no timeouts and a silent peer may stay silent. On the client
side: a thread in `connect()` goes on, TCP settles a connection attempt, and the
io thread gets to every handler of `async_connect` that is ready. No frame is
assumed to arrive and no write to finish. In `browser_link` a thread that is in a
broadcast, or in the handler of a write, goes on when it can; a mutex that is asked
for again and again by others is not assumed to be fair. In `chat` the bridge handles the commands it has received
and the page takes the events that are there; neither the user nor the peers have to do anything.

**Refinement.** `Mailbox` is what users rely on: one mailbox each, filled in
posting order, collected completely by whoever arrives. Who enrolls is present at once, and
collects what waited for the name before only at an arrival after that. `ServerProperties`
maps posting to `audience`, what waits to what is stored, what was collected to what was handed
over, enrolling to having an account and presence to having an entry. `ImplementsMailbox`
is checked for every step of the server.

Each property of a passing run is paired with a *mutant*: a definition of the
model changed the way a plausible bug would change the code (marked `Mutant:` in
the modules), under which TLC finds the property violated.

## 4. What the violated runs found

1. **Hang on re-login** (`ServerCore.cpp:84`). When a connection breaks,
   `handleError` (`ClientSession.cpp:239`) closes the socket but the registry's
   `shared_ptr` keeps the session; the destructor that would unregister the user
   never runs, and messages for the user go to a dead queue. The login that replaces such an
   entry destroys the old session inside `clientsMutex_`, and its destructor
   locks that mutex. (glibc blocks; the MSVC library ends the process.)
2. **Nothing is sent after a reconnect** (`ClientCore.cpp:609`). A failed write
   leaves `writing_` set and its frame in the queue. The next connection's
   automatic registration joins that queue, and nobody writes it: the client shows
   as connected and sends nothing until the process ends. The same flag is left
   set if a thread queues a frame while there is no connection.
3. **Messages are dropped by the browser** (`MessageHandler.cpp:346`). `makeJson` writes
   a value that begins with a digit or a minus sign without quotes. An encrypted
   message begins with a random nonce; if its first byte is one of 208 to 247, the
   first character of its base64 is a digit, the event is no JSON, and the page only logs it.

Seen while modelling, and modelled as they are without a run of their own: chunks
of a file sent to a group cannot be decrypted by its members, who get an empty
file (`ClientCore.cpp:156`, `269`, in `SenderKey` and `ReceiverKey`); two files sent
at once to the same user are confused (`ClientCore.cpp:240`, in
`handleFileMetadata`); a file with missing chunks, or one that could not be opened,
is reported as saved (`ClientCore.cpp:341-359`, in `Writes`); a file name that begins
with a digit is not shown by the browser (`MessageHandler.cpp:346`, in `Parses`); the
end of a displaced session unregisters the session that displaced it
(`ClientSession.cpp:20`, in `ReleaseSession`); stored group messages keep no
group and are delivered in the format of private ones (`MessageRouter.cpp:72`, in
`storeOfflineMessage`); mail that was stored for an ID before it is registered waits, while
its recipient is online, for a second login, and comes after later messages
(`ClientSession.cpp:105-117`, in `handleAuthRegister`); "accounts persist across restarts" (`ServerCore.cpp:25`) holds
for runs that ended by an undisturbed signal only, since `users.db` is written by
`stop()` alone (`Crash`, `SecondSignal` and `SignalInRegister` of `ServerLifecycle`), and
not for names with a '|' or a newline, which registration accepts and `saveToFile` writes as they are
(`AuthManager.cpp:57`, `191`, in `Line`): such an account comes back under a piece of its
name, with another piece for its password, and may overwrite the account of that name (`Garbled`); the copy that
is to keep a frame alive during `async_write` (`ClientCore.cpp:591-596`) is not the one
the buffers refer to, so a frame that is not written in one call is continued from
freed memory, and the same is done for the browser's events
(`WebSocketServer.cpp:53-57`; `WriteGoes` of `Bridge` and of `BrowserLink`); and `leaveGroup` reports success to
a user who is no member (`GroupManager.cpp:91`, in `LeaveSucceeds`). On the chat page: a text
with a quote cannot be shown at all, since the bridge cuts it after the backslash and
what is left is no JSON string (`MessageHandler.cpp:221`, in `extract` and `parse`); "0" and "false" keep
the button that decrypts, and asking again puts the answer on an older message; "true" shows
nothing; a number loses the zeros at its end, and one that begins with zeros is refused (`IsNumber`,
`Printed`); an answer goes to the last message of its sender that is not decrypted, so asking for an
older one, or a message that comes before the answer, puts texts on the wrong messages
(`chatStore.js:125`, in `decrypted`); a group whose name begins with a digit is
never listed (`Parses`); a group that was joined and then created is listed twice
(`groupCode`); one's own message is shown whether or not it could be sent (`handleSend`).

## 5. Proofs

The theorems about the server and its stores hold for any sets of names, passwords,
groups, codes and sessions and any bounds, from the assumptions `NamesFinite`, `CredentialsAssumption`,
`NoInfoAssumption`, `NoSessionAssumption` and `BoundsAssumption`: names and hash
prefixes are finite sets, and the placeholders for "none" are none of the values
they stand in for.

**Stores** (`AuthManagerProofs`, and a section of
`LanShareServerProofs`). `MapsAgree` is inductive together with `OwnID` (an ID is made from the
name of its account; two names never give the same ID): `MapsAlwaysAgree`,
`UserIDsAreFinal`. `GroupStepKeeps` is the step lemma for groups
(`GroupsNeverEmpty`, `GroupsKeepTheirCode`), which the server's proof uses again.

**Server** (`LanShareServerProofs`). The inductive invariant is

    ServerInv == AuthInv /\ GroupTypeOK /\ NonEmptyGroups /\ RouterTypeOK
                 /\ CoreInv(Core, Accounts)
                 /\ StoredMail /\ MembersKnown /\ SinceKnown
                 /\ MailWaitsForAbsentOnly

Why its parts are needed:

* *MailWaitsForAbsentOnly* alone is not inductive: a registration makes an entry
  in `clients_` and delivers nothing. What it leaves waiting was routed before it, so
  that `since` separates it from what the user gets afterwards: stored messages have been
  routed (`StoredMail`), only account holders sign in (`SignedIn`) and are members of groups (`MembersKnown`),
  and a registration makes a new ID (`RegisterAddsAccount`, from `OwnID`), for which `since` was
  not set yet (`SinceKnown`). Any later entry is made by a login, which empties the store.
* *AuthSuccessFirst* needs `EntriesTold`: every entry leads to a session
  that is closed, or was told, or has in its queue, the AUTH_SUCCESS for that user. In the
  middle of a login this is false for the new entry; `SignInGood` states what
  holds there, and `AcknowledgeGood` restores it. Stored frames must be addressed
  to the user they are stored for (`StoredMail`).
* *WriterAwake* follows from `WriterOK`, which every method of a session keeps.
* *NoDanglingNoLeak* needs that a session with an entry has a user ID (so that it
  is not `Blank`), and that destruction touches only sessions nobody holds
  (`OnlyDestroys`), through both ways a session dies: in an entry's replacement
  (`ReplaceEntryGood`) and at the end of a handler (`ReleaseSessionGood`).

`LanShareServerProofs` has first one lemma per method of a session and per change of the
registry, and then one per handler; handlers that only
answer share `AnswerOnlyKeeps`, the four that route share `RouteKeeps`.

**Messages** (`ServerMailProofs`), from the same assumptions. The invariant is

    MailInv == ServerInv /\ OnceInOrder /\ OnWire

* *OnceInOrder* says that what a user was handed, followed by what is stored for it, is
  just what was meant for it, each once and in turn. A new message is later than all (`ThisMessage`)
  and is either handed to a user or stored. That handing over keeps the turn
  needs `MailWaitsForAbsentOnly` of `ServerInv`: for a user who has an entry nothing is stored
  that may not be overtaken (`InsertOrdered`: a message goes in front of mail from before the
  account). A step that sets `since` must not put in turn what was out of it, or the
  reverse (`TurnsAreKept`).
* *WireOrder* is not inductive: to queue a message, or the stored mail at a login, behind what a
  session still has to write, one has to know that all of that goes ahead of it. `OnWire` adds that
  what was last written and what is queued for a user is among what it was handed; by
  `OnceInOrder` that goes ahead of what is stored, and is earlier than a new message.

`StepMoves` says of every step what it does to the mail (`Moves`: nothing, one message
posted, or one user's mail collected) and to each session (`Effect`: a frame was written,
frames have joined the queue, or the object is a new one). The theorems are read off it, and so
are `BufferStaysPut` and the refinement: `ServerImplementsMailbox` has one lemma for each
way in which the users see the server move (`RoutingIsPost`: the code sends or stores user by user,
which is one `Post`; `RegisteringEnrolls`; `SigningInArrives`; `LeavingLeaves`).
`HandedOverIsQueued` is read off the same effects (`JoinedAreDelivered`): the history that the
other theorems speak of is what the queues got.

**Lifecycle** (`ServerLifecycleProofs`). `OrderlyRestartsKeepAccounts` speaks of a server that is
up; to carry it over a restart, `Kept` says where the accounts are otherwise: in the file
while the process is down, and while it saves, in the file or among those still to be
written (`OnDisk`), in a text of whole lines (`Whole`). What is loaded is in the text, so the first
half is about the text alone, from `FileAssumption` (the separators are two symbols of their own):
where fields end (`EndIsUnique`), that a line added to whole lines adds its own accounts and changes no
other (`RecordsOfBoth`), that the line of a plain account is read back as that account
(`PlainLine`) and any line as lines of fields without separators (`RecordsArePlain`), so that what one
restart garbled the next one does not garble further. `Known` says that nothing else comes up: every account was
registered or is what such a line is read as; with it, no later line overwrites an unharmed
account, and IDs of different accounts differ (`IDsDiffer`) unless a garbled one spells the ID.
`LoadedMapsLinked` holds of any text and any registration after it (`StartLinks`). `Requested` says that a registration that
a signal interrupts goes on with its own arguments.

**Files** (`FileTransferProofs`), from `FileAssumption` and `FillerAssumption` (placeholders are no
values), for any users, threads, files and sizes and any number of connections that end.
The invariant says of each transfer and each recipient that are undisturbed (`Steady`): there are a
and b so that the recipient has taken the first a of its frames, the next up to b are in the
queue from the server and the rest of those sent in the queue to the server, each once and in
order (`Carries`); and the recipient's entry for the sender is what the first a frames make of it
(`Got`). That is not inductive by itself, because the entry is shared by all transfers of the
sender to that user: of two such transfers, one is all sent and ahead of the other in both
queues (`Apart`), so that frames of a second one come only before the first has begun
to arrive, or after it has been completed. Transfers that overlap are `mixed`, and nothing is said
of them, except that their leftovers are gone with the next FILE_META. `SavedWhole` and `SavedType` are about the
loop that writes the chunks (`Saved`). What one would show by induction over a queue or a number is
shown here by quantifying over positions, and where a least number is needed, from the
well-foundedness of `<` (`LeastNumber`).

**Client** (`BridgeProofs`), from `BridgeAssumption` (the browser's thread is one
of finitely many threads, the bounds are natural numbers). The invariant is

    BridgeInv == Rest /\ ClientInv(Starting, client, wire, issued)

with `ClientInv` made of: `WriterAt` (nobody writes, or exactly one of: a thread
that owes a post, a posted `writeNext`, a write of the front frame);
`Numbered` (the wire holds 1, 2, ... and the queue ends with the last number
issued; the front is in both while its handler has not run); `Alive` (a connected
client has a read outstanding); `Attempting` (a socket that is connecting has a
pending `async_connect`). `OneWriter` is not inductive: when a write ends or a
thread posts, it has to be known that no other writer exists and that the flag
belongs to this one, and `InOrderOnce` needs that the frame being written is the
front. There is one lemma per method of `ClientCore` (`EnqueueKeeps`,
`WriteNextKeeps`, ...), and the steps are put together from them
(`CallerInv`, the three lemmas on handlers, `NetworkInv`).

**Browsers** (`BrowserLinkProofs`), from `LinkAssumption` (the handlers' thread is none
of those of the client core, `NoOne` is nothing else, the bound is a natural number), for
any number of sessions, threads and broadcasts. The invariant `LinkInv` says of every session:

* `WriterOK`: one write is outstanding, or its handler has it, or there is none, and
  `writing_` says which. This is `OneWritePerBrowser`.
* `QueueOK`: if the session is in the list, its queue holds the last broadcasts that were sent
  to it, and what is being written is the one before them. In the middle of a broadcast some
  sessions have it and some do not (`LastSent`).
* `ReceivedOK`: what was received is an unbroken run that ends before that, or before
  what is still pending. `UnbrokenRun` alone is not inductive: to know that the next
  event continues the run one has to know where the run ends. A write that
  failed on an open stream (it was started before the handshake) is why a run may begin
  late; it happens only while nothing has been received.
* `EarlyOK`: such writes exist only if an event was sent early, which gives `NothingWaits`.
* `OperationOK`: who is in the list has an operation or a handler, and who is not is new or
  has lost its connection (`BrowsersAreWatched`). Without it a session outside the list could be
  open and would miss broadcasts.

`DoWriteKeeps` and `SendKeeps` show that `doWrite` and `send` keep these, `RunGrows` that the run
goes on; what an action leaves of the other sessions is `OthersKeep`, and handlers that
only give a session another operation share `PlainHandlerKeeps`.

**Chat page** (`ChatStoreProofs`), from `ChatAssumption` (names of peers, of groups, of the user and
of nobody are all different, keys have different tags, the page is loaded at least once), for any
users, groups, messages and bounds. The invariant is

    ChatInv == ChatTypeOK /\ Numbered /\ InView /\ ConversationsComplete /\ Aimed

* `Numbered`: whatever refers to a message (an entry of the store, an event, a command of any page,
  open or gone) refers to one that was reported, with its own sender and conversation. A
  decrypted answer carries a text that its message gives with the sender's key: without this
  one could not tell what an answer shows.
* *ConversationsComplete* needs `InView` (the selected contact has nothing unread), or the
  count would not start again from what was had in view; and its part `InOrder`, because
  what arrives is new to the page only if it is later than all the page has.
* `Aimed` is what makes the code's search by sender (`chatStore.js:125`) work for a user who is not
  hasty: about a sender in a conversation there is at most one request or answer on its
  way, from whichever page, and if an answer came now, it would go to the message the
  request was for. A further message of that sender moves the aim, so it makes the user
  hasty (`onmessage`); a reload leaves commands of the old page behind, whose answers the new page
  gets, but no message they could go to until another one comes, which `onmessage` counts as haste too. *ShownRightly* is then
  inductive together with `ChatInv`.

*ShownRightly* is proved for conversions that are faithful (`ConversionsFaithful`): each message
that is sent decrypts, with its sender's key, to texts of which the browser's parser makes
what is to be shown. That is a statement about constants, one message at a time, and not
about the page; it is evaluated by TLC in `MCChat` for the messages of the run (`MessagesSurvive`)
and, for its two halves, for all short blobs and texts (`BlobsSurvive`, `TextsSurvive`).

## 6. What is only model-checked, and what is not modelled

Only model-checked: liveness (`ClosedSessionsEnd`, `ConnectsAreReported`, `BroadcastsEnd`,
`AnswersCome`), which is out of the prover's reach; every other property of a passing run is
stated by a theorem. The conversions of `BridgeCodec` go through
texts and blobs byte by byte; what they compute for every input needs induction over data, which the
provers cannot do, so they are evaluated over bounded inputs (`ConversionsFaithful` in §5).

Not modelled:

* *Server*: the texts of answers; frames cut in the middle (a failed payload
  read is a failed read); writes to `users.db` that the disk refuses; times in `users.db`; the signal handler
  finding other locks than `AuthManager::mutex_`; saving and loading of groups, which
  nothing calls.
* *Cryptography* below its promise: OpenSSL, the strength of keys and nonces. A
  nonce is only assumed to be arbitrary.
* *Command line client* (`client/main.cpp`): a loop of prompts over the same
  `ClientCore`, which the build files leave out.
* *Bridge*: the port of a "connect" command, on which `std::stoi` may throw; the list of
  users; the fairness of `std::mutex`, which the standard does not promise.
* *User interface*: rendering, the lamp for the connection, alerts, the list of users, a
  second sign-in under another name on the same page, the second WebSocket that
  React's StrictMode opens in development, and texts that are numbers with exponents or
  more digits than a double keeps.
* *Stored group messages on the client*: they arrive as a group message whose group is the sender's
  ID and whose sender is a piece of the ciphertext, if that has a zero byte, and are dropped
  otherwise (`ClientCore.cpp:521-533`). The server's modules have them up to the wire; `Mail` of
  `ChatStore` has the messages that arrive in their own format only, so nothing is said
  of what the page makes of these.
* The components marked so in PROJECT.json.

## 7. Plan

In order of importance; all are done.

1. Server: sessions, registry, stores, router, handlers, `Mailbox`.
2. Process life and accounts on disk.
3. Proofs of the stores and of the server's invariants.
4. `ClientCore` and `Bridge`: the connection, over the caller's threads and the io
   thread, with its proofs.
5. `FileTransfer`: sender thread, relay, receiver, the browser's table of transfers.
6. The bridge's broadcasts with the browser: `BrowserLink` with its proofs, `BridgeCodec`,
   `ChatStore`.
7. Proofs about messages (`OnceInOrder`, `WireOrder`, `BufferStable`, the refinement of
   `Mailbox`), the lifecycle, and files.
8. Proofs about the chat page: its types, `ConversationsComplete`, and `ShownRightly` for
   conversions that are faithful.

What could come next: the list of users and the lamp for the connection in `ChatStore`, and
a theorem that joins `BrowserLink` and `ChatStore`, whose queues between bridge and browser rest on
`UnbrokenRun`.
