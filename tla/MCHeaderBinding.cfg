SPECIFICATION Spec
CONSTANTS
  ForkTime = 1
  UnzenTime = 3
  Times = {0, 1, 2, 3, 4}
  MaxBlocks = 2
  MaxNumber = 4
  None = None
  ZkGas <- MCZkGas
  Upstreams <- MCUpstreams
INVARIANTS TypeOK CanonicalChain HonestAccepted ReliesOnChain
