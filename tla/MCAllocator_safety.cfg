\* A six-block volume that may grow, at last beyond the reach of a 32-bit offset;
\* two files and a B-tree compete for it.
CONSTANTS
  DataFiles = {f1, f2}
  NoFile = NoFile
  Zero = Zero
  InlineMax = 2
  BlockUnits = 2
  MapBits = 3
  Reach = 9
  FirstTotal = 6
  GrowTotals = {8, 9, 12}
  FirstNext = {2}
  Sizes <- SomeSizes
  Writes <- SomeWrites
  Clump = 4
CONSTRAINT SoughtOnly
SPECIFICATION FairSpec
INVARIANTS TypeOK SpaceAccounting CrashKeepsFiles
PROPERTIES ImplementsFileStore AllocateReturns
