SPECIFICATION FairSpec
CONSTANTS
  MaxLines = 3
  Cap = 2
INVARIANTS
  TypeOK
  NoSendOnClosed
  ErrsNeverBlock
  EndMeansAll
PROPERTIES
  FeedKept
  Reaped
