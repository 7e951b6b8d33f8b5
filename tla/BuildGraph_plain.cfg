\* Every assertion of the scanner and the result, on programs whose headers
\* define the macros they test themselves, and the optimization unobservable.
SPECIFICATION SpecBoth
CONSTANTS
  s1 = s1
  s2 = s2
  a = a
  b = b
  c = c
  M = M
  NoFile = NoFile
  File <- MCFile
  Stem <- MCStem
  Macro = {M}
  Programs <- PlainAndOwnMacros
INVARIANT NoAssertionFails
INVARIANT GuardedOrReported
INVARIANT FileSizesComplete
INVARIANT TokensNotCountedTwice
INVARIANT ComponentsPaired
INVARIANT SameResult
PROPERTY GuardedCostIsFinal
PROPERTY PromiseKept
