SPECIFICATION ProgramsSpec
CONSTANTS
  c1 = c1
  c2 = c2
  c3 = c3
  Conns = {c1, c2, c3}
  Scripts <- ClientScripts
  Goals = {"none", "http", "https"}
  Chunks = {1, 2}
  MaxProgram = 2
  ConfiguresFirst = FALSE
  Handles = {h1}
  Targets = {a, b}
  Policies = {0, 1}
  MqttRequests = {"publish1", "subscribe"}
  MaxMqttCalls = 3
  MaxPackets = 3
  MaxPacketId = 2
  Codes = {1001}
  MaxSessions = 2
  MaxFrames = 2
  Lengths = {0, 2}
  Transports <- Versions
  MaxCalls = 4
  MaxRequests = 2
SYMMETRY Symmetry
INVARIANTS
  BytesInOrder
  PreparedMatchesPolicy
  StreamIsCurrent
  TrueMeansAcknowledged
  AcknowledgedIsKept
  OneCarrier
  FramesExactly
  TunnelFaithful
  TunnelEndsBoth
  WholeBody
  AnswerIsLatest
CHECK_DEADLOCK FALSE
