\* A header includes another header of the same name.
SPECIFICATION HeadersSpec
CONSTANTS
  Size = 4
  Null = Null
  Vertex <- MCVertex
  Inputs <- OneSource
  Precompiled <- NonePrecompiled
  Projects <- IncludedHeaders
INVARIANT NoAssertionFails
