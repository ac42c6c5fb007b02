SPECIFICATION Spec
CONSTANTS
  c1 = c1
  c2 = c2
  Day = 24
  NoEntry = NoEntry
  Cells = {c1, c2}
  Calls = {1}
  Requests <- LoudestAndEach
  Ranges = {24, 1}
  MaxLevel = 2
  Rows <- DayAndHour
  Expiry = 1
  FillTimeout = 1
  ReadTimeout = 1
  MaxFills = 2
INVARIANTS EntriesConverge
PROPERTIES SteadyCellIsRight LimitKeepsLoudest
SYMMETRY TwoCells
