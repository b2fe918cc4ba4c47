SPECIFICATION FakeSpec
CONSTANTS
  t1 = t1  t2 = t2  t3 = t3  shoes = shoes  dot = dot  long = long  x = x  y = y
  Free = Free  NotNumber = NotNumber  Here = dot
  Threads <- OneThread
  Entities = {shoes, long}
  Ids = {1, 3}
  TooLong = {long}
  IntMax = 2
  Bytes = {x, y}
  Bodies <- TwoBodies
  Methods <- AllMethods
  Uris <- SoloUris
  LeftOver <- AnyLeftOver
  DiskMayFill = FALSE
  MaxRequests = 4
INVARIANT FakeAnswersAlike
PROPERTY ImplementsApiStore
