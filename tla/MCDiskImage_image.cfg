\* Images of seven volumes are built, attributed, taken apart and converted.
CONSTANTS
  Volumes <- SomeVolumes
  Zero <- Nul
  Driver <- Code
  Noise <- OneNoise
  Garbage <- Bad
  Sentinel <- TwoSectors
  Patches <- SomePatches
  RunSectors = 16
  RawSlack = 15
  WordSectors = 64
  MaxCommands = 3
SPECIFICATION Spec
INVARIANTS TypeOK SumsDescribeImage TablesTile HoldsInput AttributedIsRebuilt
CHECK_DEADLOCK FALSE
