\* What holds of every program, also of those that stop on an assertion.
SPECIFICATION Spec
CONSTANTS
  s1 = s1
  s2 = s2
  a = a
  b = b
  c = c
  M = M
  NoFile = NoFile
  File <- MCFile
  Stem <- MCStem
  Macro = {M}
  Programs <- WildPrograms
INVARIANT TypeOK
INVARIANT StackInSync
INVARIANT VerticesIdentified
INVARIANT IncomingCounted
INVARIANT ReplacedIsKnown
INVARIANT AssertionsExplained
 
PROPERTY OnlyGrows
