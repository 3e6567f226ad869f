SPECIFICATION ExchangeSpec
CONSTANTS
  Lengths = {0, 2}
  Transports <- Http1Only
  MaxCalls = 4
  MaxRequests = 2
INVARIANT AppliedIsAnswered
CHECK_DEADLOCK FALSE
