CONSTANTS
  h1 = h1  h2 = h2
  Handler = {h1, h2}
SPECIFICATION ProcessFairSpec
INVARIANTS
  DbOutlivesListener
PROPERTY SignalEndsProcess
CHECK_DEADLOCK FALSE
