SPECIFICATION Spec
CONSTANTS
  SegmentSize = 2
  MaxWALFiles = 1
  MaxSnapFiles = 2
  MaxIndex = 3
  MaxBallot = 2
  MaxSaves = 3
  MaxCrashes = 1
ACTION_CONSTRAINTS OneUnderWay EntiIsKnown PurgedAtOnce
INVARIANT OverwrittenDiscarded
CHECK_DEADLOCK FALSE
