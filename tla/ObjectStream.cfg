SPECIFICATION Spec
CONSTANTS
  Script = {"mission", "garage", "watch"}
  streams <- TheStreams
  rows <- TheRows
  MaxFailures = 2
INVARIANTS StreamsKeepApart
