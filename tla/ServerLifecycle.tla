-------------------------- MODULE ServerLifecycle --------------------------
(***************************************************************************)
(* The life of the server process and of its accounts on disk              *)
(* (server/main.cpp, the constructor and stop() of ServerCore, saveToFile  *)
(* and loadFromFile of AuthManager).  Accounts are read from users.db when *)
(* the process starts and written there only by stop(), which only the     *)
(* signal handler calls.  The handler interrupts the process's one thread  *)
(* wherever it is, also inside registerUser, and a signal of the other     *)
(* kind interrupts the handler.                                            *)
(***************************************************************************)
EXTENDS AccountFile, FiniteSets

CONSTANTS
  MaxMade,       \* bound: the different accounts ever registered
  MaxAbrupt      \* bound: the runs that end otherwise than by saving to the end

ASSUME LifeAssumption == MaxMade \in Nat /\ MaxAbrupt \in Nat

VARIABLES
  users,         \* users_: the account of each name
  userIDMap,     \* userIDMap_: the name behind each user ID
  db,            \* users.db: the text on disk
  phase,         \* where the process is
  unwritten,     \* while saving: the names not yet written out
  request,       \* while in registerUser: the account it makes
  made,          \* history: every account ever registered
  abrupt         \* history: how many runs ended otherwise than by saving to the end

lifeVars == <<users, userIDMap, db, phase, unwritten, request, made, abrupt>>

\* "registering" is the inside of registerUser, with mutex_ locked; "hung" is
\* the signal handler waiting for the mutex_ that the code under it holds.
Phase == {"down", "running", "registering", "saving", "hung"}

\* Every run so far ended by saving to the end.
Orderly == abrupt = 0

NoRequest == <<>>

NoEntries == [key \in {} |-> <<>>]

Put(map, key, value) ==
  [k \in DOMAIN map \cup {key} |-> IF k = key THEN value ELSE map[k]]

Accounts == {Account(name, hash, prefix) :
               name \in Name, hash \in Hash, prefix \in HashPrefix}

LifeTypeOK ==
  /\ users = [name \in DOMAIN users |-> users[name]]
  /\ \A name \in DOMAIN users : name \in Text /\ users[name] \in Record
  /\ userIDMap = [u \in DOMAIN userIDMap |-> userIDMap[u]]
  /\ \A u \in DOMAIN userIDMap : u \in Text /\ userIDMap[u] \in Text
  /\ db \in Text
  /\ phase \in Phase
  /\ unwritten \subseteq DOMAIN users
  /\ request \in Accounts \cup {NoRequest}
  /\ made \subseteq Accounts
  /\ abrupt \in 0..MaxAbrupt

LifeInit ==
  /\ users = NoEntries
  /\ userIDMap = NoEntries
  /\ db = <<>>
  /\ phase = "down"
  /\ unwritten = {}
  /\ request = NoRequest
  /\ made = {}
  /\ abrupt = 0

-----------------------------------------------------------------------------
\* Mutant: the second map is not rebuilt.
StartWithoutMap ==
  /\ phase = "down"
  /\ phase' = "running"
  /\ users' = LoadedUsers(db)
  /\ UNCHANGED <<userIDMap, db, unwritten, request, made, abrupt>>

\* main: the constructor clears both maps and fills them from users.db.
Start ==
  /\ phase = "down"
  /\ phase' = "running"
  /\ users' = LoadedUsers(db)
  /\ userIDMap' = LoadedIDs(db)
  /\ UNCHANGED <<db, unwritten, request, made, abrupt>>

\* registerUser finds the name free and makes the account.  The names and
\* passwords it turns down are left to Stores.
BeginRegister(name, hash, prefix) ==
  /\ phase = "running"
  /\ name \notin DOMAIN users
  /\ Cardinality(made \cup {Account(name, hash, prefix)}) <= MaxMade
  /\ phase' = "registering"
  /\ request' = Account(name, hash, prefix)
  /\ UNCHANGED <<users, userIDMap, db, unwritten, made, abrupt>>

\* Mutant: the account is made with the name where the ID belongs.
EndRegisterNameAsID ==
  LET account == [request EXCEPT !.userID = request.name]
  IN  /\ phase = "registering"
      /\ users' = Put(users, request.name, account)
      /\ userIDMap' = Put(userIDMap, request.userID, request.name)
      /\ made' = made \cup {account}
      /\ phase' = "running"
      /\ request' = NoRequest
      /\ UNCHANGED <<db, unwritten, abrupt>>

\* It stores the account, and the client is told its ID.
EndRegister ==
  /\ phase = "registering"
  /\ users' = Put(users, request.name, request)
  /\ userIDMap' = Put(userIDMap, request.userID, request.name)
  /\ made' = made \cup {request}
  /\ phase' = "running"
  /\ request' = NoRequest
  /\ UNCHANGED <<db, unwritten, abrupt>>

-----------------------------------------------------------------------------
\* The process is gone, and with it all it had in memory.
Gone ==
  /\ phase' = "down"
  /\ users' = NoEntries
  /\ userIDMap' = NoEntries
  /\ unwritten' = {}
  /\ request' = NoRequest
  /\ UNCHANGED made

GoneAbruptly ==
  /\ Gone
  /\ abrupt < MaxAbrupt
  /\ abrupt' = abrupt + 1

\* SIGINT or SIGTERM between two handlers: stop() opens users.db, which
\* empties the file, and begins to write.
SignalWhenIdle ==
  /\ phase = "running"
  /\ phase' = "saving"
  /\ db' = <<>>
  /\ unwritten' = DOMAIN users
  /\ UNCHANGED <<users, userIDMap, request, made, abrupt>>

\* The same when users.db cannot be opened: stop() reports it and goes on.
SignalAndNoFile ==
  /\ phase = "running"
  /\ GoneAbruptly
  /\ UNCHANGED db

\* The signal finds mutex_ locked by the thread it interrupted.  A process
\* that hangs can only end abruptly, so the bound is for it too.
SignalInRegister ==
  /\ phase = "registering"
  /\ abrupt < MaxAbrupt
  /\ phase' = "hung"
  /\ UNCHANGED <<users, userIDMap, db, unwritten, request, made, abrupt>>

\* The next line of the file, in whatever order the hash table has them.
WriteLine(name) ==
  /\ phase = "saving"
  /\ name \in unwritten
  /\ db' = db \o Line(users[name])
  /\ unwritten' = unwritten \ {name}
  /\ UNCHANGED <<users, userIDMap, phase, request, made, abrupt>>

\* What of the text has left the buffer of the stream when the process goes:
\* lines, and the beginning of the next one.
CutShort ==
  \/ UNCHANGED db
  \/ \E name \in unwritten : \E n \in 1..Len(Line(users[name])) :
       db' = db \o SubSeq(Line(users[name]), 1, n)

\* Mutant: the process ends before the stream is flushed.
SaveEndsEarly ==
  /\ phase = "saving"
  /\ Gone
  /\ UNCHANGED <<db, abrupt>>

\* The file is closed, and exit() ends the process.
SaveEnds ==
  /\ phase = "saving"
  /\ unwritten = {}
  /\ Gone
  /\ UNCHANGED <<db, abrupt>>

\* A signal of the other kind while the first is handled: running_ is FALSE,
\* stop() returns at once and exit() ends the process as it is.
SecondSignal ==
  /\ phase \in {"saving", "hung"}
  /\ GoneAbruptly
  /\ CutShort

\* The process is killed, or the machine stops.
Crash ==
  /\ phase # "down"
  /\ GoneAbruptly
  /\ CutShort

LifeNext ==
  \/ Start
  \/ \E name \in Name, hash \in Hash, prefix \in HashPrefix :
       BeginRegister(name, hash, prefix)
  \/ EndRegister
  \/ \E name \in unwritten : WriteLine(name)
  \/ SignalWhenIdle \/ SignalAndNoFile \/ SignalInRegister
  \/ SaveEnds \/ SecondSignal \/ Crash

LifeSpec == LifeInit /\ [][LifeNext]_lifeVars

-----------------------------------------------------------------------------
\* The lines that an account with a separator in its name is read back as.
Garbled == UNION {Records(Line(r)) : r \in {m \in made : ~ Plain(m.name)}}

Unharmed(name) == Plain(name) /\ \A x \in Garbled : x.name # name

(* As long as every run ended by a signal that found the thread outside     *)
(* registerUser and a file it could write, and was left to finish, the      *)
(* running server has every account that was ever registered, in whichever  *)
(* run, with the password and the ID it was given, and finds it by that ID  *)
(* too.  It is not so for a name that holds '|' or a newline, nor for one   *)
(* that a piece of such a name spells: saveToFile escapes nothing.          *)
OrderlyRestartsKeepAccounts ==
  Orderly /\ phase = "running" =>
    \A r \in made : Unharmed(r.name) =>
      /\ r.name \in DOMAIN users /\ users[r.name] = r
      /\ (\A x \in Garbled : x.userID # r.userID) =>
           r.userID \in DOMAIN userIDMap /\ userIDMap[r.userID] = r.name

(* Whatever the file held when the process started, lines cut short and     *)
(* names with separators included, the two maps hang together: an account   *)
(* is kept under its own name, its ID is known, and a known ID leads to an  *)
(* account.  It need not be the account that carries the ID.                *)
LoadedMapsLinked ==
  phase # "down" =>
    /\ \A name \in DOMAIN users : /\ users[name].name = name
                                  /\ users[name].userID \in DOMAIN userIDMap
    /\ \A u \in DOMAIN userIDMap : userIDMap[u] \in DOMAIN users

=============================================================================
