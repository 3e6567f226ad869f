SPECIFICATION TransportSpec
CONSTANTS
  Conns = {c1, c2}
  Scripts <- HelloOnly
  Goals = {"none"}
  Chunks = {1}
  MaxProgram = 2
  ConfiguresFirst = TRUE
SYMMETRY Symmetry
INVARIANT RestoredIsNoOp
CHECK_DEADLOCK FALSE
