---------------------------- MODULE AccountFile ----------------------------
(***************************************************************************)
(* The text of users.db (saveToFile and loadFromFile of                    *)
(* server/AuthManager.cpp).  A text is a sequence of symbols; what the     *)
(* file's format cannot split is one symbol: the "LS-" of a user ID, the   *)
(* "-" and four digits that end it, a salted hash, a time.  Nothing is     *)
(* escaped, so the name of a user can hold the two separators.             *)
(***************************************************************************)
EXTENDS Integers, Sequences

CONSTANTS
  Char,          \* the symbols of texts
  Bar, Newline,  \* '|' and '\n'
  Mark,          \* "LS-"
  Time,          \* a time
  Hash,          \* the salted hashes of passwords
  HashPrefix,    \* "-" and the first digits of a hash
  Name           \* the names registerUser accepts

Separator == {Bar, Newline}

ASSUME FileAssumption ==
  /\ Bar # Newline
  /\ Separator \cup {Mark, Time} \cup Hash \cup HashPrefix \subseteq Char
  /\ ({Mark, Time} \cup Hash \cup HashPrefix) \cap Separator = {}
  /\ Name \subseteq Seq(Char)

Text == Seq(Char)

\* What memory holds of an account (UserCredentials).
Record == [name : Text, password : Text, userID : Text]

Plain(text) == \A i \in 1..Len(text) : text[i] \notin Separator

createUserID(name, prefix) == <<Mark>> \o name \o <<prefix>>

\* The account that registerUser makes.
Account(name, hash, prefix) ==
  [name |-> name, password |-> <<hash>>, userID |-> createUserID(name, prefix)]

\* The line saveToFile writes for an account.
Line(r) ==
  r.name \o <<Bar>> \o r.password \o <<Bar>> \o r.userID \o <<Bar, Time, Bar, Time, Newline>>

-----------------------------------------------------------------------------
(* How loadFromFile reads a text f: line by line, and in a line field by    *)
(* field.  A field that is missing is empty.                                *)

Starts(f) == {i \in 1..Len(f) : i = 1 \/ f[i - 1] = Newline}

\* Where the field that begins at i ends: at a separator or behind the text.
End(f, i) ==
  CHOOSE j \in i..(Len(f) + 1) :
    /\ j = Len(f) + 1 \/ f[j] \in Separator
    /\ \A k \in i..(j - 1) : f[k] \notin Separator

FieldAt(f, i) == SubSeq(f, i, End(f, i) - 1)

\* Only '|' leads to another field of the line.
NextField(f, i) ==
  LET j == End(f, i) IN IF j <= Len(f) /\ f[j] = Bar THEN j + 1 ELSE j

RecordAt(f, i) ==
  [name     |-> FieldAt(f, i),
   password |-> FieldAt(f, NextField(f, i)),
   userID   |-> FieldAt(f, NextField(f, NextField(f, i)))]

\* The accounts a text is read as.
Records(f) == {RecordAt(f, i) : i \in Starts(f)}

\* The lines that give an account this name, or this ID.
Named(f, name) == {i \in Starts(f) : RecordAt(f, i).name = name}

WithID(f, u) == {i \in Starts(f) : RecordAt(f, i).userID = u}

Last(lines) == CHOOSE i \in lines : \A j \in lines : j <= i

\* A later line overwrites an earlier one, in each map by that map's key.
LoadedUsers(f) ==
  [name \in {r.name : r \in Records(f)} |-> RecordAt(f, Last(Named(f, name)))]

LoadedIDs(f) ==
  [u \in {r.userID : r \in Records(f)} |-> RecordAt(f, Last(WithID(f, u))).name]

=============================================================================
