SPECIFICATION ServiceSpec
CONSTANTS
  MaxLength = 4
  Requests <- SomeRequests
  MaxSent = 3
  Api <- TheApi
  server = server
  Entities = {"shoes"}
  Here = "."
  Ids = {1}
  NotNumber = 0
  TooLong = {}
  IntMax = 9
  Free = "free"
INVARIANTS TypeOK WholeReadHandledAsSent ReadBackAsSent
