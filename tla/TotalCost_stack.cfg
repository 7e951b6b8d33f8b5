\* A walk of a DAG on five vertices leaves the iterator's array.
SPECIFICATION Spec
CONSTANTS
  Size = 5
  Null = Null
  Vertex <- MCVertex
  Inputs <- DagInputs
  Precompiled <- NonePrecompiled
INVARIANT StackFits
