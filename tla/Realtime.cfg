\* Two clients of one producer: either stalls, overflows its queue, reads on or
\* vanishes while the other goes on.  (For any number of producers: the proofs.)
SPECIFICATION FairSpec
CONSTANTS
  Conns = {c1, c2}
  Names = {n1}
  NoEvent = NoEvent
  QMax = 2
  Methods = {"GET", "HEAD"}
  MaxVersion = 2
INVARIANTS
  TypeOK
  NothingMissed
PROPERTIES
  ImplementsFeed
  GoneIsRemoved
  CatchesUp
