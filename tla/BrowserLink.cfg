SPECIFICATION FairLinkSpec
CONSTANTS
  Session = {s1, s2}
  Caller = {io, f}
  Ws = ws
  NoOne = NoOne
  MaxBroadcasts = 2
INVARIANTS LinkTypeOK OneWritePerBrowser NothingWaits UnbrokenRun BrowsersAreWatched
PROPERTIES BroadcastsEnd
CHECK_DEADLOCK FALSE
