SPECIFICATION FairSpec
CONSTANTS
  t1 = t1  t2 = t2  quick = quick  other = other  sleep = sleep
  Idle = Idle
  Threads <- TwoThreads
  Conns <- TwoConns
  Slow <- SlowOnes
  MaxAsked = 2
INVARIANTS TypeOK OneThingUnderWay AcceptUnderWay
PROPERTIES QuickAnswered SessionsFreed
