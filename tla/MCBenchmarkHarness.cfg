CONSTANTS
  N <- MCN
  TraceLen <- MCTraceLen

SPECIFICATION Spec

INVARIANTS
  TypeOK
  WorkAfterAllArrived
  LatencyWindow
  OpsAddUp
