SPECIFICATION Spec
CONSTANTS
  Thread = {browser}
  Browser = browser
  Command = {}
  MaxConnects = 2
  MaxCalls = 0
INVARIANT ConnectedCanSend
CHECK_DEADLOCK FALSE
