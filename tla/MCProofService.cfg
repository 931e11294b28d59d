SPECIFICATION Spec
CONSTANTS
  MaxU48 = 3
  Handlers = {h1}
  Blocks <- MCBlocks
  Parent <- MCParent
  Number <- MCNumber
  Root <- MCRoot
  Executes <- MCExecutes
  AnchorAt <- MCAnchorAt
  ProposalOf <- MCProposalOf
  Derivation <- MCDerivation
  ProveRequests <- MCProveRequests
  CarryInputs <- MCCarryInputs
  SupportedChains = {167}
  TeeKeys = {t1, t2}
  NativeKey = native
  PublicKeys = {native, client}
  InstanceIds = {1}
  None = None
  MaxProofs = 2
  MaxSigs = 3
SYMMETRY Symmetry
INVARIANTS TypeOK SubproofSound AggregateSound
