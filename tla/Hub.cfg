SPECIFICATION FairSpec
CONSTANTS
  w1 = w1
  w2 = w2
  b1 = b1
  Clients = {w1, w2}
  Broadcasts = {1, 2, 3}
  Readers = {3}
  Book <- OneBook
INVARIANTS TypeOK ReachesTheLiving
PROPERTIES EventsInOrder EveryBroadcastEnds DeadClientsForgotten
