SPECIFICATION FairSpec
CONSTANTS
  Username = {ann}
  HashPrefix = {h}
  Password = {pw}
  WeakPassword = {}
  BadName = {}
  Group = {}
  JoinCode = {code}
  Session = {s1, s2}
  NoUser = NoUser
  NoGroup = NoGroup
  NoAccount = NoAccount
  NoName = NoName
  NoInfo = NoInfo
  NoSession = NoSession
  MaxQueue = 1
  MaxMessages = 2
CHECK_DEADLOCK FALSE
PROPERTIES
  BufferStable
  ClosedSessionsEnd
