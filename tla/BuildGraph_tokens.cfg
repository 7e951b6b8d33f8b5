\* Line 478: all lexed tokens belong to the file that is left by an inclusion.
SPECIFICATION Spec
CONSTANTS
  s1 = s1
  s2 = s2
  a = a
  b = b
  c = c
  M = M
  NoFile = NoFile
  File <- MCFile
  Stem <- MCStem
  Macro = {M}
  Programs <- PlainPrograms
INVARIANT TokensComplete
