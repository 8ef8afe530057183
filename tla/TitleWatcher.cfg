CONSTANTS
  Sid = {s1, s2}
  Window = 1
  MaxTitle = 2
  MaxLines = 2
  MaxStarts = 1
SPECIFICATION Spec
INVARIANTS TypeOK
PROPERTIES RenamesSeen TitlesFound TitleNeverGoesBack
CHECK_DEADLOCK FALSE
