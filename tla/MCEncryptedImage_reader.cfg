\* Four images, each plain, encrypted and used directly.
CONSTANTS
  SectorSize = 2
  ChunkSize = 3
  WordBytes = 12
  MaxRead = 10
  Zero = o
  Garbage = g
  Images <- CImages
  Unpacked <- CUnpacked
  DDM <- CDDM
  Entry <- CEntry
  a = a  b = b  o = o  d2 = d2  d4 = d4
  eMap = eMap  eHFS = eHFS  eWide = eWide  eVol = eVol  eNone = eNone
  zMap = zMap  zHead = zHead  zBody = zBody  zBad = zBad
SPECIFICATION ImageSpec
INVARIANTS VaultTypeOK CacheCoherent ReadsVolume WildOnlyUncovered
PROPERTIES VaultIsByteFile CoveredReadReturns
CHECK_DEADLOCK FALSE
