---------------------------- MODULE GroupManager ----------------------------
(***************************************************************************)
(* The groups of the server (server/GroupManager.cpp): who made a group,   *)
(* its join code and its members.  Every method holds mutex_ throughout.   *)
(* Groups live in memory only: saveToFile and loadFromFile have no caller, *)
(* and ServerCore removes groups.db when it starts.                        *)
(***************************************************************************)
EXTENDS Protocol

CONSTANTS
  JoinCode,      \* the codes generateCode can return, e.g. SHARK-42
  NoInfo         \* in place of a GroupInfo: there is no such group

GroupInfo == [creatorUserID : UserID, joinCode : JoinCode,
              members : SUBSET UserID]

ASSUME NoInfoAssumption == NoInfo \notin GroupInfo

VARIABLE groups  \* groups_: the GroupInfo of each group name

GroupTypeOK == groups \in [Group -> GroupInfo \cup {NoInfo}]

GroupInit == groups = [g \in Group |-> NoInfo]

groupExists(g) == groups[g] # NoInfo

getGroupMembers(g) == IF groupExists(g) THEN groups[g].members ELSE {}

isMember(g, u) == u \in getGroupMembers(g)

-----------------------------------------------------------------------------
\* Mutant: the creator is not recorded.
createGroupOfNobody(g, u, code) ==
  /\ ~groupExists(g)
  /\ groups' = [groups EXCEPT ![g] = [creatorUserID |-> NoUser, joinCode |-> code,
                                      members |-> {u}]]

\* Mutant: a taken name is taken again.
createGroupAnew(g, u, code) ==
  groups' = [groups EXCEPT ![g] = [creatorUserID |-> u, joinCode |-> code,
                                   members |-> {u}]]

\* The code is drawn by generateCode; two groups can draw the same one.
createGroup(g, u, code) ==
  /\ ~groupExists(g)
  /\ groups' = [groups EXCEPT ![g] = [creatorUserID |-> u, joinCode |-> code,
                                      members |-> {u}]]

\* Nothing calls it yet.
deleteGroup(g, u) ==
  /\ groupExists(g)
  /\ groups[g].creatorUserID = u
  /\ groups' = [groups EXCEPT ![g] = NoInfo]

CanJoin(g, code) == groupExists(g) /\ groups[g].joinCode = code

joinGroup(g, u, code) ==
  /\ CanJoin(g, code)
  /\ groups' = [groups EXCEPT ![g].members = @ \cup {u}]

\* What leaveGroup returns.
LeaveSucceeds(g, u) == groupExists(g)

\* Mutant: the group outlives its last member.
leaveGroupEmpty(g, u) ==
  /\ LeaveSucceeds(g, u)
  /\ groups' = [groups EXCEPT ![g].members = @ \ {u}]

\* The group ends with its last member.
leaveGroup(g, u) ==
  LET rest == groups[g].members \ {u}
  IN  /\ LeaveSucceeds(g, u)
      /\ groups' = [groups EXCEPT ![g] =
                      IF rest = {} THEN NoInfo ELSE [@ EXCEPT !.members = rest]]

GroupNext ==
  \E g \in Group, u \in UserID :
    \/ \E code \in JoinCode : createGroup(g, u, code)
    \/ \E code \in JoinCode : joinGroup(g, u, code)
    \/ leaveGroup(g, u)
    \/ deleteGroup(g, u)

GroupSpec == GroupInit /\ [][GroupNext]_groups

-----------------------------------------------------------------------------
(* A group that exists has a member.  A memberless group could never be     *)
(* left, its name could never be taken again (createGroup refuses it), and  *)
(* routeGroupMessage would take it for a missing one.                       *)
NonEmptyGroups == \A g \in Group : groupExists(g) => groups[g].members # {}

(* A name changes hands only through the end of the group: as long as the   *)
(* group lives, its creator and its join code are the first ones, so a code *)
(* read out to a colleague stays good and nobody takes over a live group.   *)
NoTakeover ==
  [][\A g \in Group : groupExists(g) /\ groupExists(g)' =>
       /\ groups'[g].joinCode = groups[g].joinCode
       /\ groups'[g].creatorUserID = groups[g].creatorUserID]_groups

=============================================================================
