SPECIFICATION Spec
CONSTANTS
  Process = {"api"}
  Thread = {"t1", "t2"}
  Home <- ApiHome
  NoThread = NoThread
  Interval = 1
  Second = 4
  Retries = 0
  MaxRedirects = 0
  Window = 4
INVARIANTS
  CeilingKept
