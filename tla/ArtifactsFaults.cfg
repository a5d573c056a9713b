CONSTANTS
  red = red
  blue = blue
  x = x
  y = y
  z = z
  f1 = f1
  f2 = f2
  PluginID = {red, blue}
  Extension = {x, y, z}
  UniqueName <- OwnName
  Root = "plugins"
  FileName = {f1, f2}
  Request <- Lists
  Leftover <- OldFiles
  Fault <- AllFaults
  MaxFaults = 3
  SidecarsEntry = SidecarsEntry
  IndexEntry = IndexEntry
  NotDownloaded = NotDownloaded
  Absent = Absent
  Partial = Partial
SPECIFICATION Spec
INVARIANTS TypeOK IndexSound RequestedAvailable CacheInv
PROPERTY ImplementsCache
