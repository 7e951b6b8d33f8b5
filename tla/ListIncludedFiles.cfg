\* Concurrent searches that share their counters.
SPECIFICATION Spec
CONSTANTS
  Vertex <- MCVertex
  Inputs <- MCInputs
INVARIANT Counted
INVARIANT ResultRight
PROPERTY Termination
