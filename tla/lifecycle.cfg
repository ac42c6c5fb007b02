SPECIFICATION Spec
CONSTANTS
  unary = unary  stream = stream
  Services <- AllMains
  Calls = {unary, stream}
  Streams = {stream}
INVARIANTS ExitIsHonest HealthOutlivesCalls
PROPERTIES StopsOnceClientsLeave HalfDeadForever
CHECK_DEADLOCK FALSE
