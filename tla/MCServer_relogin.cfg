SPECIFICATION Spec
CONSTANTS
  Username = {ann, bob}
  HashPrefix = {h}
  Password = {pw}
  WeakPassword = {}
  BadName = {}
  Group = {}
  JoinCode = {code}
  Session = {s1, s2}
  NoUser = NoUser
  NoGroup = NoGroup
  NoAccount = NoAccount
  NoName = NoName
  NoInfo = NoInfo
  NoSession = NoSession
  MaxQueue = 1
  MaxMessages = 0
SYMMETRY Symmetry
CHECK_DEADLOCK FALSE
INVARIANT
  NeverHung
