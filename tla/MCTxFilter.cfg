SPECIFICATION Spec
CONSTANTS
  Txs <- MCTxs
  Anchors <- MCAnchors
  Senders = {"golden", "alice", "bob"}
  PreNonce <- MCPreNonce
  GasLimit = 6
  ZkLimit = 5
  MaxManifest = 3
INVARIANTS TypeOK ReplayAgrees
PROPERTY BuildsCanonicalBlock
