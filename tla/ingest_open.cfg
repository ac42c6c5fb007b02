SPECIFICATION FairSpec
CONSTANTS
  MaxSent = 4
  Invalid <- SecondInvalid
  Single = Single
  SingleValid = TRUE
  BatchSize = 2
  NoReply = NoReply
  MaxFaults = 1
INVARIANTS TypeOK PublishedIsSaved Accounted InOrderWhileOpen ReplyIsBacked ReplyCoversStream
PROPERTIES BatchIsFlushed StreamEnds
\* The stream is closed, the goroutines are gone and the unary call returned.
CHECK_DEADLOCK FALSE
