SPECIFICATION FairSpec
CONSTANTS
  i1 = i1
  i2 = i2
  i3 = i3
  i4 = i4
  Items = {i1, i2, i3, i4}
  Configurations <- MCConfigurations
  Unencodable = {i3}
  Rows = {i1, i3, i4}
  NoItem = NoItem
INVARIANTS
  ExportTypeOK
  OutputHasNoGap
  KillLosesFew
  AllExported
PROPERTIES
  ExportsEnd
  EverySendEnds
  ImplementsBroadcast
\* the crawl ends, and a failed exporter blocks the distributing goroutine
CHECK_DEADLOCK FALSE
