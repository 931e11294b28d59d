SPECIFICATION Spec
CONSTANTS
  MaxAnchorOffset = 2
  TimeOffset = 2
  ForkTime = 1
  AnchorGas = 1
  MinGas = 4
  MaxGas = 6
  GenesisGas = {3, 8}
  MaxChange = 1
  Denominator = 4
  MaxBlocks = 2
  Word = 16
  Undecodable = Undecodable
  None = None
  Manifests <- MCManifests
  Timestamps = {1, 3}
  Origins = {1, 2, 3, 4}
  MaxSources = 2
  MaxHead = 2
INVARIANTS TypeOK DerivedWellFormed DerivationTotal CheckpointsOnL1
PROPERTY HeadAdvances
