SPECIFICATION FairSpec
CONSTANTS
  r1 = r1
  r2 = r2
  t1 = t1
  t2 = t2
  z1 = z1
  z2 = z2
  u1 = u1
  u2 = u2
  AllZones = AllZones
  Nobody = Nobody
  NoReading = NoReading
  Readings = {r1, r2}
  Reading <- LoudAndMalformed
  Thresholds = {t1}
  Threshold <- GlobalAndLocal
  Users = {u1}
  MaxDeliver = 2
  MaxFaults = 1
INVARIANTS BroadcastIsStored AckedIsEvaluated OneAlertPerDelivery
PROPERTIES EveryReadingIsAcked CacheFollowsTable AcknowledgedStays
\* Everything published and processed, and no fault left: nothing happens any more.
CHECK_DEADLOCK FALSE
