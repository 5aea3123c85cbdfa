SPECIFICATION LruSpec
CONSTANTS
  LogAssoc = 3
INVARIANTS
  RecentlyUsedSurvive
  FillsSweepTheLine
