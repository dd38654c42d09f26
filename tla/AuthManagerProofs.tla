-------------------------- MODULE AuthManagerProofs --------------------------
(***************************************************************************)
(* Proofs about the account store, for any names, passwords and prefixes.  *)
(***************************************************************************)
EXTENDS AuthManager, TLAPS

(* A user ID determines the name in it. *)
LEMMA IDsAreInjective ==
  ASSUME NEW n1 \in Username, NEW p1 \in HashPrefix,
         NEW n2 \in Username, NEW p2 \in HashPrefix,
         createUserID(n1, p1) = createUserID(n2, p2)
  PROVE  n1 = n2
  BY DEF createUserID

LEMMA IDsOfNames ==
  ASSUME NEW name \in Username, NEW prefix \in HashPrefix
  PROVE  createUserID(name, prefix) \in UserID
  BY DEF UserID

(* The part of the inductive invariant that MapsAgree leaves out: the ID of *)
(* an account was made from the name of the account.  Without it, a new     *)
(* account could take over the ID of another.                               *)
OwnID == \A name \in Registered :
           \E prefix \in HashPrefix : users[name].userID = createUserID(name, prefix)

AuthInv == AuthTypeOK /\ MapsAgree /\ OwnID

LEMMA AuthInitially == AuthInit => AuthInv
  BY CredentialsAssumption
     DEF AuthInit, AuthInv, AuthTypeOK, MapsAgree, OwnID, Registered, isUserIDValid

(* A new account: its name and its ID were in neither map. *)
LEMMA RegisterKeeps ==
  ASSUME AuthInv, NEW name \in Username, NEW password \in Password,
         NEW prefix \in HashPrefix, registerUser(name, password, prefix)
  PROVE  AuthInv' /\ \A n \in Registered : users'[n] = users[n]
<1> DEFINE id == createUserID(name, prefix)
           account == [password |-> password, userID |-> id]
<1>1. id \in UserID /\ account \in Account /\ account # NoAccount
  BY IDsOfNames, CredentialsAssumption DEF Account
<1>2. users[name] = NoAccount /\ name \notin Registered
  BY DEF registerUser, CanRegister, Registered
<1>3. users' = [users EXCEPT ![name] = account]
      /\ userIDMap' = [userIDMap EXCEPT ![id] = name]
  BY DEF registerUser
<1>4. AuthTypeOK'
  BY <1>1, <1>3 DEF AuthInv, AuthTypeOK
<1>5. Registered' = Registered \cup {name}
  BY <1>1, <1>3 DEF Registered, AuthInv, AuthTypeOK
<1>6. \A n \in Registered : users'[n] = users[n] /\ users[n].userID # id
  <2> SUFFICES ASSUME NEW n \in Registered
               PROVE  users'[n] = users[n] /\ users[n].userID # id
    OBVIOUS
  <2>1. n \in Username /\ n # name
    BY <1>2 DEF Registered
  <2>2. PICK p \in HashPrefix : users[n].userID = createUserID(n, p)
    BY DEF AuthInv, OwnID
  <2> QED BY <1>3, <2>1, <2>2, IDsAreInjective DEF AuthInv, AuthTypeOK
<1>7. users'[name] = account /\ userIDMap'[id] = name
  BY <1>1, <1>3 DEF AuthInv, AuthTypeOK
<1>8. MapsAgree'
  <2>1. ASSUME NEW n \in Registered' PROVE userIDMap'[users'[n].userID] = n
    <3>1. CASE n = name
      BY <1>7, <3>1
    <3>2. CASE n \in Registered
      <4>1. users[n] \in Account
        BY <3>2 DEF AuthInv, AuthTypeOK, Registered
      <4>2. users[n].userID \in UserID /\ userIDMap[users[n].userID] = n
        BY <3>2, <4>1 DEF AuthInv, MapsAgree, Account
      <4> QED BY <1>3, <1>6, <3>2, <4>2 DEF AuthInv, AuthTypeOK
    <3> QED BY <1>5, <2>1, <3>1, <3>2
  <2>2. ASSUME NEW u \in UserID, isUserIDValid(u)'
        PROVE  userIDMap'[u] \in Registered' /\ users'[userIDMap'[u]].userID = u
    <3>1. CASE u = id
      BY <1>5, <1>7, <3>1
    <3>2. CASE u # id
      <4>1. userIDMap'[u] = userIDMap[u]
        BY <1>3, <3>2 DEF AuthInv, AuthTypeOK
      <4>2. userIDMap[u] \in Registered /\ users[userIDMap[u]].userID = u
        BY <2>2, <4>1 DEF isUserIDValid, AuthInv, MapsAgree
      <4> QED BY <1>5, <1>6, <4>1, <4>2
    <3> QED BY <3>1, <3>2
  <2> QED BY <2>1, <2>2 DEF MapsAgree
<1>9. OwnID'
  <2> SUFFICES ASSUME NEW n \in Registered'
               PROVE  \E p \in HashPrefix : users'[n].userID = createUserID(n, p)
    BY DEF OwnID
  <2>1. CASE n = name
    BY <1>7, <2>1
  <2>2. CASE n \in Registered
    BY <1>6, <2>2 DEF AuthInv, OwnID
  <2> QED BY <1>5, <2>1, <2>2
<1> QED BY <1>4, <1>6, <1>8, <1>9 DEF AuthInv

(* A password change leaves the ID of every account alone. *)
LEMMA ChangePasswordKeeps ==
  ASSUME AuthInv, NEW u \in UserID, NEW old \in Password, NEW new \in Password,
         changePassword(u, old, new)
  PROVE  /\ AuthInv'
         /\ \A n \in Registered : users'[n] \in Account
                                  /\ users'[n].userID = users[n].userID
<1> DEFINE name == userIDMap[u]
           account == [users[name] EXCEPT !.password = new]
<1>1. name \in Registered /\ name \in Username /\ users[name] \in Account
  BY DEF changePassword, AuthInv, MapsAgree, AuthTypeOK, Registered
<1>2. users' = [users EXCEPT ![name] = account] /\ userIDMap' = userIDMap
  BY DEF changePassword
<1>3. account \in Account /\ account.userID = users[name].userID
      /\ account # NoAccount
  BY <1>1, CredentialsAssumption DEF Account
<1>4. AuthTypeOK'
  BY <1>2, <1>3 DEF AuthInv, AuthTypeOK
<1>5. Registered' = Registered
  BY <1>1, <1>2, <1>3 DEF Registered, AuthInv, AuthTypeOK
<1>6. \A n \in Registered : users'[n] \in Account /\ users'[n].userID = users[n].userID
  BY <1>1, <1>2, <1>3 DEF Registered, AuthInv, AuthTypeOK
<1>7. MapsAgree'
  BY <1>2, <1>5, <1>6 DEF AuthInv, MapsAgree, isUserIDValid
<1>8. OwnID'
  BY <1>5, <1>6 DEF AuthInv, OwnID
<1> QED BY <1>4, <1>6, <1>7, <1>8 DEF AuthInv

LEMMA AuthInvariant == AuthSpec => []AuthInv
<1>1. AuthInv /\ [AuthNext]_authVars => AuthInv'
  <2> SUFFICES ASSUME AuthInv, [AuthNext]_authVars PROVE AuthInv'
    OBVIOUS
  <2>1. CASE UNCHANGED authVars
    BY <2>1 DEF authVars, AuthInv, AuthTypeOK, MapsAgree, OwnID, Registered, isUserIDValid
  <2> QED BY <2>1, RegisterKeeps, ChangePasswordKeeps DEF AuthNext
<1> QED BY <1>1, AuthInitially, PTL DEF AuthSpec

(* Both maps of the account store keep their types. *)
THEOREM AuthTyping == AuthSpec => []AuthTypeOK
  BY AuthInvariant, PTL DEF AuthInv

(* The two maps of the account store always describe the same accounts. *)
THEOREM MapsAlwaysAgree == AuthSpec => []MapsAgree
  BY AuthInvariant, PTL DEF AuthInv

(* The user ID of an account never changes, not even with its password. *)
THEOREM UserIDsAreFinal == AuthSpec => IDsAreFinal
<1> DEFINE Final == \A name \in Registered :
                      users'[name] # NoAccount /\ users'[name].userID = users[name].userID
<1>1. AuthInv /\ [AuthNext]_authVars => [Final]_authVars
  <2> SUFFICES ASSUME AuthInv, AuthNext PROVE Final
    OBVIOUS
  <2>1. ASSUME NEW name \in Username, NEW password \in Password,
               NEW prefix \in HashPrefix, registerUser(name, password, prefix)
        PROVE  Final
    BY <2>1, RegisterKeeps DEF Registered
  <2>2. ASSUME NEW u \in UserID, NEW old \in Password, NEW new \in Password,
               changePassword(u, old, new)
        PROVE  Final
    BY <2>2, ChangePasswordKeeps, CredentialsAssumption DEF Account
  <2> QED BY <2>1, <2>2 DEF AuthNext
<1> QED BY <1>1, AuthInvariant, PTL DEF AuthSpec, IDsAreFinal

=============================================================================
