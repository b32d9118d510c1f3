SPECIFICATION Spec
CONSTANTS
  SegmentSize = 2
  MaxWALFiles = 1
  MaxSnapFiles = 2
  MaxIndex = 3
  MaxBallot = 2
  MaxSaves = 3
  MaxCrashes = 2
CONSTRAINT FewerSaves
ACTION_CONSTRAINTS OneUnderWay EntiIsKnown PurgedAtOnce
INVARIANTS  MadeIsCommitted ReadIsExact
PROPERTY NothingForgotten
CHECK_DEADLOCK FALSE
