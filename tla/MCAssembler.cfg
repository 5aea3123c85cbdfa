SPECIFICATION Spec
CONSTANTS
  Names <- McNames
  Sources <- McSources
INVARIANTS
  TypeOK
  WordsAreWhatWasAsked
  StopsAtFirstBadLine
CHECK_DEADLOCK FALSE
