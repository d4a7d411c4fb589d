SPECIFICATION TimelineSpec
CONSTANTS
  Playlist <- OneLongTwoShort
  NoItem = NoItem
  Duration <- LongAndShort
  Edited = {"a"}
  MaxElapsed = 3
PROPERTIES
  RecoveryKeepsPhase
  SequentialNeverRaises
  NoTrackTwiceInARow
  RoundIsAPermutation
