SPECIFICATION DecodingSpec
CONSTANTS
  None = None
  Null = Null
  Junk = Junk
  Required = Required
  Error = Error
  ChainID = 5
  Width <- MCWidth
INVARIANTS HonestDecodes ValuesKept FitsAbi
