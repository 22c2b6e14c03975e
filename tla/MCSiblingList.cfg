SPECIFICATION FairSpec
CONSTANTS
  Threads = {t1, t2}
  NumEdges = 3
  Nodes = {n1, n2, n3, n4}
  NoNode = NoNode
  First = First
INVARIANT ListIntact
PROPERTY ImplementsChildMap
PROPERTY SpawnReturns
