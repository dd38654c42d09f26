------------------------------- MODULE Stores -------------------------------
(***************************************************************************)
(* The two stores of the server side by side, as ServerCore owns them      *)
(* (authManager_ and groupManager_), with every operation they offer, the  *)
(* two for which the server has no frame included (changePassword and      *)
(* deleteGroup).  Each has a mutex of its own and none calls the other, so *)
(* a step is a step of one of them.                                        *)
(***************************************************************************)
EXTENDS AuthManager, GroupManager

StoresInit == AuthInit /\ GroupInit

StoresNext ==
  \/ AuthNext /\ UNCHANGED groups
  \/ GroupNext /\ UNCHANGED authVars

StoresSpec == StoresInit /\ [][StoresNext]_<<users, userIDMap, groups>>

=============================================================================
