SPECIFICATION Spec
CONSTANTS
  r1 = r1
  r2 = r2
  t1 = t1
  t2 = t2
  z1 = z1
  z2 = z2
  u1 = u1
  u2 = u2
  AllZones = AllZones
  Nobody = Nobody
  NoReading = NoReading
  Readings = {r1}
  Reading <- AroundTheLimit
  Thresholds = {t1, t2}
  Threshold <- GlobalAndLocal
  Users = {}
  MaxDeliver = 2
  MaxFaults = 0
INVARIANT OneAlertPerReading
\* Everything published and processed, and no fault left: nothing happens any more.
CHECK_DEADLOCK FALSE
