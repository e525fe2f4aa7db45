\* A message of up to 26 words into buffers of 24, in at most 3 pieces.
CONSTANTS
  BufWords = 24
  Wrap = 32
  MaxPieces = 3
  Commands <- MCCommands
  Names <- MCNames
  Contents <- MCContents
SPECIFICATION Spec
INVARIANTS TypeOK RoundTrip FitsIsSafe
PROPERTY TransferEnds
CHECK_DEADLOCK FALSE
