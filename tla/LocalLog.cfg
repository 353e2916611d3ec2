SPECIFICATION Spec
CONSTANTS
  Threads = {t1, t2, t3}
  ArchiveCount = 2
  MaximumFileBytes = 2
  LongestLine = 2
  MaxLines = 6
SYMMETRY ThreadSymmetry
INVARIANTS
  LinesStayInOrder
  FilesStayBounded
CHECK_DEADLOCK FALSE
