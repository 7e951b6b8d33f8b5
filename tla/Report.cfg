\* The whole tool, from its options to the topological order.
SPECIFICATION Spec
CONSTANTS
  Top = Top
  Left = Left
  Right = Right
  None = None
  UnsignedWidth = 16
  Vertex <- MCVertex
  Dir <- MCDir
  Projects <- MCProjects
INVARIANT TypeOK
INVARIANT EverySourceAnalysed
INVARIANT IncludesRight
INVARIANT SearchesApart
INVARIANT MarkedRight
 
INVARIANT NoneMissed
INVARIANT LevelsRight
INVARIANT ComponentsTogether
PROPERTY FindsUnused
PROPERTY FindsUnnecessary
PROPERTY Termination
