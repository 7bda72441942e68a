SPECIFICATION FairSpec
CONSTANTS
  Process = {"api"}
  Thread = {"t1", "t2"}
  Home <- ApiHome
  NoThread = NoThread
  Interval = 2
  Second = 2
  Retries = 2
  MaxRedirects = 1
  Window = 4
INVARIANTS
  IndInv
  BurstBound
PROPERTIES
  StampsSpaced
  GetReturns
