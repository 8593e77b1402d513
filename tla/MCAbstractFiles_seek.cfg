\* A pipe that is to go forward past its head.
CONSTANTS
  Byte = {a, o}
  Zero = o
  Junk = j
  MaxLen = 4
  PipeBuffer = 2
  FirstRoom = 2
SPECIFICATION Spec
INVARIANT SeekForwardReads
CHECK_DEADLOCK FALSE
