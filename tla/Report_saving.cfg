\* The saving of the files that are recommended to be precompiled.
SPECIFICATION Spec
CONSTANTS
  Top = Top
  Left = Left
  Right = Right
  None = None
  UnsignedWidth = 16
  Vertex <- MCVertex
  Dir <- MCDir
  Projects <- External
INVARIANT SavingRight
