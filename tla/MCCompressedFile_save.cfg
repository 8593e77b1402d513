\* Files of up to four bytes in blocks of two; a block of noise does not go
\* inline.
CONSTANTS
  Block = 2
  InlineRoom = 2
  calm = calm
  noisy = noisy
  Byte = {calm, noisy}
  Noise = {noisy}
  Junk = j
  Files <- CFiles
  Data <- CData
  MaxSize = 4
  MaxWrites = 2
SPECIFICATION Spec
INVARIANTS TypeOK SavedIsReadBack WildOnlyOutgrown
PROPERTIES ImplementsByteFile CallReturns
CHECK_DEADLOCK FALSE
