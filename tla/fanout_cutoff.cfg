SPECIFICATION Spec
CONSTANTS
  s1 = s1
  s2 = s2
  s3 = s3
  s4 = s4
  Readers = {}
  a = a
  b = b
  z1 = z1
  EmptyId = EmptyId
  NoZone = NoZone
  NoStream = NoStream
  Zones = {z1}
  Streams = {s1, s2, s3}
  SubscriberIds = {a}
  Request <- SharedIds
  BufferSize = 1
  MaxEvents = 2
INVARIANT NoStreamIsCutOff
\* A process that panicked, and one whose calls and broadcasts are used up, stop.
CHECK_DEADLOCK FALSE
