SPECIFICATION Spec
CONSTANTS
  Garbage = Garbage
  Short = Short
  Malformed = Malformed
  Absent = Absent
  Default = Default
  Manifests <- MCManifests
  Stream <- MCStream
  Usable = {"small", "large", "crowded"}
  BlockCount <- MCBlockCount
  MaxBlocks = 2
  shastaMaxManifestOffset = 5
  Word32 = 8
  Word64 = 16
  OddSources <- MCOddSources
  MaxSources = 2
INVARIANTS ReadAsCommitted PublishedIsDerived HonestDataAccepted
