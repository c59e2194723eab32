SPECIFICATION FairSpec
CONSTANTS
  mN = 3
  mSize = 5
  mW = 3
  ByteBits = 2
  WordBits = 2
  RawBands <- MCRawBands
  Atoms = {a}
  numThreads = 2
  NoBlock = NoBlock
INVARIANTS
  TypeOK
  EchelonForm
  BandInBounds
  SameSolutions
  DecodeCorrect
  FailIsGenuine
PROPERTIES
  CollisionAdvances
  DecodeOnce
  Terminates
CHECK_DEADLOCK FALSE
