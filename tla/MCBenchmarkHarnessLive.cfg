CONSTANTS
  N <- MCN
  TraceLen <- MCTraceLen

SPECIFICATION Spec

PROPERTY RunReturns
