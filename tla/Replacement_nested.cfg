\* A macro defined by a header that the replaced header includes.
SPECIFICATION SpecBoth
CONSTANTS
  s1 = s1
  s2 = s2
  a = a
  b = b
  c = c
  M = M
  NoFile = NoFile
  File <- MCFile
  Stem <- MCStem
  Macro = {M}
  Programs <- NestedMacros
INVARIANT SameResult
