\* The files that the topological order lists.
SPECIFICATION Spec
CONSTANTS
  Top = Top
  Left = Left
  Right = Right
  None = None
  UnsignedWidth = 16
  Vertex <- MCVertex
  Dir <- MCDir
  Projects <- OneExternal
INVARIANT AllListed
