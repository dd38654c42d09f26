SPECIFICATION FairSpec
CONSTANTS
  Thread = {browser, file}
  Browser = browser
  Command = {"LOGIN", "LOGOUT", "DATA"}
  MaxConnects = 2
  MaxCalls = 3
INVARIANTS BridgeTypeOK OneWriter InOrderOnce ReaderAlive
PROPERTIES ConnectsAreReported
CHECK_DEADLOCK FALSE
