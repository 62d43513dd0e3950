SPECIFICATION Spec
CONSTANTS
  Threads <- AllThreads
  SocketUsers <- MediaThreads
  Sockets <- Calls
  Calls = {1, 2}
  Duplex = {1}
  Scenarios <- SteadyScenarios
  Codecs = {"speex", "gsm"}
  StaticCodecs = {}
  Fds = {1, 2}
  MaxQueue = 1
  MaxSilence = 1
  MaxToggles = 1
INVARIANTS
  TypeOK
  OpenMeansOwn
  SteadyUseIsMade
PROPERTIES
  MediaEnds
CHECK_DEADLOCK FALSE
