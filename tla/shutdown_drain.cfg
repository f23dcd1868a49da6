CONSTANTS
  h1 = h1  h2 = h2
  Handler = {h1, h2}
SPECIFICATION ProcessFairSpec
INVARIANT DrainedBeforeDbCloses
CHECK_DEADLOCK FALSE
