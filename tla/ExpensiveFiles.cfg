\* The matrix of every graph with up to two successors for each file, and the
\* files that are reported with it.
SPECIFICATION FilesSpec
CONSTANTS
  None = None
  Vertex <- MCVertex
  Graphs <- MCGraphs
  Inputs <- MCInputs
INVARIANT SearchInvariant
INVARIANT Sound
INVARIANT Complete
PROPERTY FindsExpensive
PROPERTY FilesTermination
