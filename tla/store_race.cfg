SPECIFICATION HSpec
CONSTANTS
  t1 = t1  t2 = t2  t3 = t3  shoes = shoes  dot = dot  long = long  x = x  y = y
  Free = Free  NotNumber = NotNumber  Here = dot
  Threads <- ThreeThreads
  Entities = {shoes}
  Ids = {1}
  TooLong = {}
  IntMax = 2
  Bytes = {x}
  Bodies <- OneByteBodies
  Methods <- Changers
  Uris <- PlainUris
  LeftOver = {}
  DiskMayFill = TRUE
  MaxRequests = 4
SYMMETRY Symmetry
INVARIANTS ExclusionUnlessStray ChosenIdIsFresh StoredUnlessDeleted
           AcknowledgedIsKept
