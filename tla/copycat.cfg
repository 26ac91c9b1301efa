SPECIFICATION FairSpec
CONSTANTS
  CommandLines <- MCCommandLines
  Atoi <- MCAtoi
  Contents <- MCContents
  StackRoom = 8192
  MaxLen = 12
INVARIANT CopiedInOrder
PROPERTY CopyEnds
CHECK_DEADLOCK FALSE
