SPECIFICATION Spec
CONSTANTS
  Threads <- AllThreads
  SocketUsers <- MediaThreads
  Sockets <- Calls
  Calls = {1}
  Duplex = {1}
  Scenarios <- ChangingScenarios
  Codecs = {"speex", "gsm"}
  StaticCodecs = {}
  Fds = {1, 2}
  MaxQueue = 1
  MaxSilence = 1
  MaxToggles = 0
INVARIANTS
  FreedAfterUse
CHECK_DEADLOCK FALSE
