SPECIFICATION FairSpec
CONSTANTS
  Limit = 3
  Excerpt = 2
  Capacity = 2
  Chunk = 2
  MaxWritten = 4
INVARIANTS RunTypeOK CodeIsOwn KeptIsPrefix OneStreamSafe
PROPERTIES Ends
CHECK_DEADLOCK FALSE
