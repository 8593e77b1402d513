\* Three workers, up to four runs, every kind of input, calls that may fail;
\* no symmetry, since a liveness property is checked.
CONSTANTS
  Threads = {t1, t2, t3}
  NoThread = NoThread
  SectorUnits = 2
  RunSectors = 3
  RawSlack = 2
  CompressedSizes = {1, 3}
  OutStart = 5
  SentinelLen = 2
  Jobs <- AllJobs
  MayFail = TRUE
SPECIFICATION FairSpec
INVARIANTS FullInv RunTableFits RoundTrip AttributionSplit SentinelStaysRaw
PROPERTIES ImplementsSequentialImage Terminates
