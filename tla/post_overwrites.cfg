SPECIFICATION Spec
CONSTANTS
  t1 = t1  t2 = t2  t3 = t3  shoes = shoes  dot = dot  long = long  x = x  y = y
  Free = Free  NotNumber = NotNumber  Here = dot
  Threads <- TwoThreads
  Entities = {shoes}
  Ids = {1}
  TooLong = {}
  IntMax = 9
  Bytes = {x}
  Bodies <- OneByteBodies
  Methods <- Posts
  Uris <- PlainUris
  LeftOver <- OneLeftOver
  DiskMayFill = FALSE
  MaxRequests = 4
PROPERTY PostCreatesNewFile
