SPECIFICATION PlatformSpec
CONSTANTS
  Proc = {i1, i2}
  Polls = 2
  None = None
  User = {t1, t2}
  Stored = 2
  NoUser = NoUser
INVARIANTS SuccessIsReal
PROPERTIES CallsReturn NoEmptyCopy
