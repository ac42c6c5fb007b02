SPECIFICATION Spec
CONSTANTS
  MaxSent = 3
  Invalid <- NoneInvalid
  Single = Single
  SingleValid = FALSE
  BatchSize = 2
  NoReply = NoReply
  MaxFaults = 0
INVARIANTS ReplyAddsUp
\* The stream is closed, the goroutines are gone and the unary call returned.
CHECK_DEADLOCK FALSE
