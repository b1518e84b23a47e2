SPECIFICATION FairSpec
CONSTANTS
  MaxClients = 2
  MaxBytes = 4
  BufSize = 2
  Conns = {k1, k2, k3}
  Listen = server_fd
  Parent = parent
  KeepAliveTime = 10
  KeepAliveInterval = 3
  ProbeTimes = 3
  SleepingTimes = {0, 2, 5}
  MaxWaiting = 2
  Hosts = {c1, c2}
  NoHost = none
  MaxQuestions = 2
  MaxDuplicates = 1
  Runs = {r1, r2, r3}
  NoSet = none
  Peers = {p1, p2}
  NoPeer = none
  FdInitSize = 3
  MaxLine = 2
  MaxSaid = 2
  LineLength = 2
  Callers = {a1, a2}
  ServerFd = listen_fd
  MaxEvents = 2
  ReadSize = 1
  MaxCalled = 2
  Guests = {g1, g2, g3}
  NoGuest = none
  InitSize = 3
  MaxPolled = 1
  PollReadSize = 1
  FieldSize = 2
  BufferSize = 3
  Lengths = {1, 2}
  MaxMessages = 2
  BulkSize = 3
  MessageSize = 5
  Capacity = 6
  MaxLines = 3
  N = 2
  MaxComing = 3
  NoClient = none
  FdLimit = 3
  MaxText = 4
  Room = 3
  Senders = {s1, s2}
  MsgLength = 4
  TypedLengths = {2, 3, 4}
  MaxPosts = 1
  MaxTries = 5
  MaxReads = 7
  Instances = {i1, i2, i3}
  NoInstance = none
INVARIANTS
  TypeOK
  LinesComeBack
  ClosedWithChild
  DeadMeansSilent
  AnswersFit
  OnePermit
  EchoInOrder
  NothingForgotten
  ReadsOnlyReady
  PiecesWhole
  AnswersComeBack
  KeptApart
  LinesSplit
  MessagesWhole
  SegmentsGo
  EchoedSoon
  PidTrue
PROPERTIES
  EveryChildReaped
  GoneIsNoticed
  EveryWaitEnds
  ComeAndGo
CHECK_DEADLOCK FALSE
