SPECIFICATION HandoverFairSpec
CONSTANTS
  NoThread = NoThread
  NoClient = NoClient
  Main = main
  Workers = {w1, w2}
  Clients = {c1, c2, c3, c4}
  Length = 3
  N = 3
  MainLoop = main_loop
  NoLoop = null
  MaxConnections = 5
  DescriptorLimit = 4
  MaxFailures = 2
INVARIANTS
  LoopsReady
PROPERTIES
  Refinement
  EveryClientServed
  EveryConnectionServed
CHECK_DEADLOCK FALSE
