\* The cost of a project, and what moving includes out of headers saves.
SPECIFICATION HeadersSpec
CONSTANTS
  Size = 4
  Null = Null
  Vertex <- MCVertex
  Inputs <- MCInputs
  Precompiled <- SomePrecompiled
  Projects <- MCProjects
INVARIANT TypeOK
INVARIANT NothingLost
INVARIANT ResultRight
PROPERTY FindsExpensiveHeaders
