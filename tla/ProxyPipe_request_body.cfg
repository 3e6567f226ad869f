SPECIFICATION PipeSpec
CONSTANTS
  Streams = {"d", "x"}
  Kind <- KindOf
  MaxBytes = 2
  Chunks = {2}
  MaxCalls = 1
INVARIANT RequestCarriesBody
CHECK_DEADLOCK FALSE
