SPECIFICATION LifeSpec
CONSTANTS
  a = a
  b = b
  c = c
  p = p
  h = h
  Bar = Bar
  Newline = Newline
  Mark = Mark
  Time = Time
  Hash = {h}
  HashPrefix = {p}
  Char <- MCChar
  Name <- MCName
  MaxAbrupt = 1
  MaxMade = 2
INVARIANTS
  LifeTypeOK
  OrderlyRestartsKeepAccounts
  LoadedMapsLinked
