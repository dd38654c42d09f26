SPECIFICATION Spec
CONSTANTS
  User = {ann, bob}
  Group = {team}
  Thread = {t1, t2}
  File = {plan, digits}
  Unquoted = {digits}
  CanSave = {bob}
  NoFile = NoFile
  Idle = Idle
  NotYet = NotYet
  Size = {0, 2}
  MaxChunks = 2
  MaxLeaves = 1
CHECK_DEADLOCK FALSE
INVARIANTS FileTypeOK WholeUnlessDisturbed ShownIsIncoming ArrivedWhenQuiet
