SPECIFICATION FairSpec
CONSTANTS
  i1 = i1
  i2 = i2
  i3 = i3
  i4 = i4
  Items = {i1, i2}
  Configurations <- MCJsonThenCsv
  Unencodable = {}
  Rows = {}
  NoItem = NoItem
PROPERTIES
  ChansCloseAfterExports
\* a failed exporter blocks the distributing goroutine
CHECK_DEADLOCK FALSE
