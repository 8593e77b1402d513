\* Files of up to four bytes; the head of the pipe is two.
CONSTANTS
  Byte = {a, o}
  Zero = o
  Junk = j
  MaxLen = 4
  PipeBuffer = 2
  FirstRoom = 2
SPECIFICATION Spec
INVARIANTS TypeOK ShortReadMeansEOF TroubleOnlyPastHead
PROPERTIES ImplementsByteFile
CHECK_DEADLOCK FALSE
