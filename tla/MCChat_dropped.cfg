SPECIFICATION ChatSpec
CONSTANTS
  me = me
  p = p
  q = q
  g = g
  Me <- MCMe
  Peer = {p, q}
  Group = {g}
  Unquoted = {}
  Nobody = Nobody
  NonceSize = 1
  TagSize = 1
  TagOf <- MCTagOf
  Text <- MCText
  Sent <- MCSent
  MaxMail = 2
  MaxClicks = 3
  MaxStatus = 2
  MaxLoads = 2
INVARIANT MessagesAreParsed
CHECK_DEADLOCK FALSE
