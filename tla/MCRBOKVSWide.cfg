SPECIFICATION Spec
CONSTANTS
  mN = 1
  mSize = 11
  mW = 9
  ByteBits = 8
  WordBits = 8
  RawBands <- MCWideBands
  Atoms = {a}
  numThreads = 1
  NoBlock = NoBlock
INVARIANT
  DecodeCorrect
CHECK_DEADLOCK FALSE
