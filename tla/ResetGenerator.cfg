\* Two runs over nine source trees of two directories.
SPECIFICATION Spec
CONSTANTS
  Roots <- MCRoots
  Exprs <- MCExprs
  Dirs = {1, 2}
  NoFile = NoFile
  MaxDepth = 26
  MaxRuns = 2
INVARIANTS TypeOK FilesReset EndlessIffSelfReferring
\* The last run ends.
CHECK_DEADLOCK FALSE
