SPECIFICATION Spec
CONSTANTS
  LINE_MAX_LENGTH = 8
  Files <- MCFiles
INVARIANTS TypeOK WellFormedIsParsed StaysInside LastLineWins
CHECK_DEADLOCK FALSE
