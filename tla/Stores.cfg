SPECIFICATION StoresSpec
CONSTANTS
  Username = {ann, bob, nobody}
  HashPrefix = {h1, h2}
  Password = {pw1, pw2, short}
  WeakPassword = {short}
  BadName = {nobody}
  Group = {g}
  JoinCode = {code1, code2}
  NoUser = NoUser
  NoGroup = NoGroup
  NoAccount = NoAccount
  NoName = NoName
  NoInfo = NoInfo
INVARIANTS
  AuthTypeOK
  MapsAgree
  GroupTypeOK
  NonEmptyGroups
PROPERTIES
  IDsAreFinal
  NoTakeover
