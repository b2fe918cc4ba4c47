SPECIFICATION FairSpec
CONSTANTS
  t1 = t1  t2 = t2  t3 = t3  shoes = shoes  dot = dot  long = long  x = x  y = y
  Free = Free  NotNumber = NotNumber  Here = dot
  Threads <- TwoThreads
  Entities = {shoes, dot, long}
  Ids = {3, 5, 7}
  TooLong = {long, 7}
  IntMax = 3
  Bytes = {x}
  Bodies <- OneByteBodies
  Methods <- AllMethods
  Uris <- OddUris
  LeftOver <- SomeLeftOver
  DiskMayFill = TRUE
  MaxRequests = 2
INVARIANTS TypeOK CrashNeedsCause
PROPERTY Answered
