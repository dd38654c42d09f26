---------------------------- MODULE AuthManager ----------------------------
(***************************************************************************)
(* The account store of the server (server/AuthManager.cpp).  Every method *)
(* holds mutex_ from its first line to its last, so each is one step.      *)
(* SHA-256 with a fresh salt is modelled by what it does: a password       *)
(* matches the stored hash exactly when it is the one that was hashed, and *)
(* the first digits of a new hash can be anything.                         *)
(***************************************************************************)
EXTENDS Protocol

CONSTANTS
  Password,      \* the passwords users type
  WeakPassword,  \* those shorter than four characters
  BadName,       \* the names that are empty or longer than 32 characters
  NoAccount,     \* in place of an account: none
  NoName         \* in place of a user name: none

ASSUME CredentialsAssumption ==
  /\ WeakPassword \subseteq Password
  /\ BadName \subseteq Username
  /\ NoName \notin Username
  /\ NoAccount \notin [password : Password, userID : UserID]

VARIABLES
  users,         \* users_: the account of each name
  userIDMap      \* userIDMap_: the name behind each user ID

authVars == <<users, userIDMap>>

Account == [password : Password, userID : UserID]

AuthTypeOK ==
  /\ users \in [Username -> Account \cup {NoAccount}]
  /\ userIDMap \in [UserID -> Username \cup {NoName}]

AuthInit ==
  /\ users = [name \in Username |-> NoAccount]
  /\ userIDMap = [u \in UserID |-> NoName]

Registered == {name \in Username : users[name] # NoAccount}

\* The IDs of the accounts.
Accounts == {users[name].userID : name \in Registered}

-----------------------------------------------------------------------------
\* Mutant: an existing account is not looked for.
CanRegisterAgain(name, password) ==
  name \notin BadName /\ password \notin WeakPassword

\* The three early returns of registerUser.
CanRegister(name, password) ==
  /\ name \notin Registered
  /\ name \notin BadName
  /\ password \notin WeakPassword

\* Mutant: the user's name is stored for the ID (both are strings).
registerUserNameAsID(name, password, prefix) ==
  LET id == createUserID(name, prefix)
  IN  /\ CanRegister(name, password)
      /\ users' = [users EXCEPT ![name] = [password |-> password, userID |-> name]]
      /\ userIDMap' = [userIDMap EXCEPT ![id] = name]

registerUser(name, password, prefix) ==
  LET id == createUserID(name, prefix)
  IN  /\ CanRegister(name, password)
      /\ users' = [users EXCEPT ![name] = [password |-> password, userID |-> id]]
      /\ userIDMap' = [userIDMap EXCEPT ![id] = name]

\* What authenticateUser returns; it changes lastLoginTime only.
authenticateUser(name, password) ==
  name \in Registered /\ users[name].password = password

isUserIDValid(u) == userIDMap[u] # NoName

\* Mutant: the account gets the ID of the new hash, the second map does not.
changePasswordAndID(u, old, new) ==
  LET name == userIDMap[u]
  IN  /\ isUserIDValid(u)
      /\ authenticateUser(name, old)
      /\ \E prefix \in HashPrefix :
           users' = [users EXCEPT ![name] = [password |-> new,
                                             userID |-> createUserID(name, prefix)]]
      /\ UNCHANGED userIDMap

\* The user ID keeps the prefix of the password the account was made with,
\* and the new password is not checked for length.  Nothing calls it yet.
changePassword(u, old, new) ==
  LET name == userIDMap[u]
  IN  /\ isUserIDValid(u)
      /\ authenticateUser(name, old)
      /\ users' = [users EXCEPT ![name].password = new]
      /\ UNCHANGED userIDMap

AuthNext ==
  \/ \E name \in Username, password \in Password, prefix \in HashPrefix :
       registerUser(name, password, prefix)
  \/ \E u \in UserID, old \in Password, new \in Password :
       changePassword(u, old, new)

AuthSpec == AuthInit /\ [][AuthNext]_authVars

-----------------------------------------------------------------------------
(* The two maps of the store describe the same accounts: every account is   *)
(* found through the ID that was handed to its owner, and an ID that leads   *)
(* anywhere leads to the account that carries it (registerUser writes the   *)
(* two maps one after the other, changePassword goes through both).         *)
MapsAgree ==
  /\ \A name \in Registered : userIDMap[users[name].userID] = name
  /\ \A u \in UserID : isUserIDValid(u) =>
       userIDMap[u] \in Registered /\ users[userIDMap[u]].userID = u

(* Once an account exists its user ID is final, whatever happens to its     *)
(* password: peers address messages, groups and file keys by that ID.       *)
IDsAreFinal ==
  [][\A name \in Registered :
       users'[name] # NoAccount /\ users'[name].userID = users[name].userID]_authVars

=============================================================================
