--------------------------- MODULE ProofServiceProofs ---------------------------
(* Proofs about ProofService, for every chain, request set and key set.        *)
EXTENDS ProofService, TLAPS

\* u48Word changes nothing in a number that fits.
LEMMA U48Fits == ASSUME NEW v \in Nat, v <= MaxU48 PROVE u48(v) = v
  BY MaxU48Nat DEF u48

\* The subproof hash identifies a carry, as long as its numbers fit uint48:
\* two such carries with one hash are the same carry.
LEMMA SubproofHashInjective ==
  ASSUME NEW c \in CarryInputs \cup RequestCarries,
         NEW d \in CarryInputs \cup RequestCarries,
         carryFitsShastaWidths(c), carryFitsShastaWidths(d),
         hashShastaSubproofCarry(c) = hashShastaSubproofCarry(d)
  PROVE  c = d
<1>1. /\ c = [f \in CarryFields |-> c[f]] /\ d = [f \in CarryFields |-> d[f]]
      /\ c.number \in Nat /\ d.number \in Nat
      /\ c.timestamp \in Nat /\ d.timestamp \in Nat
  BY CarriesTyped DEF RequestCarries
<1>2. /\ u48(c.number) = c.number /\ u48(d.number) = d.number
      /\ u48(c.timestamp) = c.timestamp /\ u48(d.timestamp) = d.timestamp
  BY <1>1, U48Fits DEF carryFitsShastaWidths
<1>3. /\ c.chain = d.chain /\ c.verifier = d.verifier
      /\ hashShastaTransitionInput(c) = hashShastaTransitionInput(d)
  BY DEF hashShastaSubproofCarry
<1>4. /\ c.proposalId = d.proposalId /\ c.proposalHash = d.proposalHash
      /\ c.parentProposalHash = d.parentProposalHash
      /\ c.parentBlockHash = d.parentBlockHash
      /\ c.actualProver = d.actualProver /\ c.proposer = d.proposer
      /\ u48(c.timestamp) = u48(d.timestamp) /\ u48(c.number) = u48(d.number)
      /\ c.blockHash = d.blockHash /\ c.stateRoot = d.stateRoot
  BY <1>3 DEF hashShastaTransitionInput
<1>5. \A f \in CarryFields : c[f] = d[f]
  BY <1>2, <1>3, <1>4 DEF CarryFields
<1>6. [f \in CarryFields |-> c[f]] = [f \in CarryFields |-> d[f]]
  BY <1>5
<1> QED
  BY <1>1, <1>6

\* A subproof and an aggregation are never taken for each other.
LEMMA HashKinds ==
  /\ \A k, c : IsSubproof([key |-> k, hash |-> hashShastaSubproofCarry(c)])
  /\ \A k, cs, a : ~IsSubproof([key |-> k, hash |-> hashShastaAggregationCarries(cs, a)])
  BY DEF IsSubproof, hashShastaSubproofCarry, hashShastaAggregationCarries

-----------------------------------------------------------------------------

\* What validation returns has the type of a ValidatedRequest.
LEMMA ValidatedType ==
  ASSUME NEW r \in ProveRequests
  PROVE  Validated(r) \in ValidatedRequests
  BY DEF Validated, ValidatedRequests, RequestCarries, RequestBlocks

\* The block lists of a ValidatedRequest are sequences of blocks.
LEMMA ValidatedBlocks ==
  ASSUME NEW v \in ValidatedRequests
  PROVE  v.blocks \in Seq(Blocks) /\ Len(v.blocks) \in Nat
  BY RequestsTyped DEF ValidatedRequests, RequestBlocks

\* The end of a request keeps the types of the handler variables.
LEMMA EndRequestType ==
  ASSUME TypeOK, NEW h \in Handlers, EndRequest(h), UNCHANGED serviceVars
  PROVE  TypeOK'
<1> USE DEF TypeOK, EndRequest, serviceVars
<1>1. /\ hpc' \in [Handlers -> {"idle", "validated", "replaying"}]
      /\ hreq' \in [Handlers -> ValidatedRequests \cup {None}]
      /\ hsealed' \in [Handlers -> ValidatedRequests \cup {None}]
      /\ hindex' \in [Handlers -> Nat]
      /\ hanchor' \in [Handlers -> Nat]
  OBVIOUS
<1>2. ASSUME NEW g \in Handlers, hpc'[g] # "idle"
      PROVE  key' # None /\ hreq'[g] \in ValidatedRequests /\ hsealed'[g] \in ValidatedRequests
  BY <1>2
<1>3. ASSUME NEW g \in Handlers
      PROVE  hindex'[g] \in 0..(IF hpc'[g] = "replaying" THEN Len(hreq'[g].blocks) ELSE 0)
  <2>1. CASE g = h
    BY <2>1
  <2>2. CASE g # h
    BY <2>2
  <2> QED
    BY <2>1, <2>2
<1>4. ASSUME NEW g \in Handlers, hpc'[g] = "replaying" PROVE hreq'[g] = hsealed'[g]
  BY <1>4
<1> QED
  BY <1>1, <1>2, <1>3, <1>4

\* Every step keeps the types.
LEMMA TypeStep == TypeOK /\ [Next]_vars => TypeOK'
<1> SUFFICES ASSUME TypeOK, [Next]_vars PROVE TypeOK'
  OBVIOUS
<1> USE DEF TypeOK, serviceVars, handlerVars
<1>1. ASSUME NEW dev \in BOOLEAN, NEW id \in InstanceIds, StartNative(dev, id)
      PROVE  TypeOK'
  BY <1>1 DEF StartNative
<1>2. ASSUME NEW k \in TeeKeys, NEW id \in InstanceIds, StartTEE(k, id)
      PROVE  TypeOK'
  BY <1>2 DEF StartTEE
<1>3. ASSUME Stop PROVE TypeOK'
  <2>1. \A h \in Handlers : hpc'[h] = "idle" /\ hindex'[h] = 0
    BY <1>3 DEF Stop, All
  <2>2. /\ hreq' \in [Handlers -> ValidatedRequests \cup {None}]
        /\ hsealed' \in [Handlers -> ValidatedRequests \cup {None}]
        /\ hpc' \in [Handlers -> {"idle", "validated", "replaying"}]
        /\ hindex' \in [Handlers -> Nat] /\ hanchor' \in [Handlers -> Nat]
    BY <1>3 DEF Stop, All
  <2>3. /\ key' \in TeeKeys \cup {NativeKey, None}
        /\ instance' \in InstanceIds \cup {None}
        /\ aggregateEnabled' \in BOOLEAN /\ devUsed' \in BOOLEAN
    BY <1>3 DEF Stop
  <2> QED
    BY <2>1, <2>2, <2>3
<1>4. ASSUME NEW h \in Handlers, NEW r \in ProveRequests, ReceiveProve(h, r)
      PROVE  TypeOK'
  BY <1>4, ValidatedType DEF ReceiveProve
<1>5. ASSUME NEW h \in Handlers, NEW r \in ProveRequests, Rewrite(h, r)
      PROVE  TypeOK'
  <2>1. hsealed[h] \in ValidatedRequests /\ Validated(r) \in ValidatedRequests
    BY <1>5, ValidatedType DEF Rewrite
  <2>2. PICK changed \in {"carry", "proposal", "lastAnchor", "blocks", "views"} :
          hreq' = [hreq EXCEPT ![h] = WithFieldOf(hsealed[h], Validated(r), changed)]
    BY <1>5 DEF Rewrite
  <2>3. WithFieldOf(hsealed[h], Validated(r), changed) \in ValidatedRequests
    BY <2>1 DEF ValidatedRequests, WithFieldOf
  <2> QED
    BY <1>5, <2>2, <2>3 DEF Rewrite
<1>6. ASSUME NEW h \in Handlers, StartProve(h) PROVE TypeOK'
  <2>1. CASE EndRequest(h)
    BY <1>6, <2>1, EndRequestType DEF StartProve
  <2>2. CASE /\ hpc' = [hpc EXCEPT ![h] = "replaying"]
             /\ UNCHANGED <<hreq, hsealed, hindex, hanchor>>
             /\ hreq[h] = hsealed[h]
    <3>1. Len(hreq[h].blocks) \in Nat /\ hindex[h] = 0 /\ hpc[h] = "validated"
      <4>1. hpc[h] = "validated"
        BY <1>6 DEF StartProve
      <4>2. hreq[h] \in ValidatedRequests
        BY <4>1
      <4>3. hindex[h] \in 0..0
        BY <4>1
      <4> QED
        BY <4>1, <4>2, <4>3, ValidatedBlocks
    <3>2. UNCHANGED serviceVars
      BY <1>6 DEF StartProve
    <3> QED
      BY <2>2, <3>1, <3>2
  <2> QED
    BY <1>6, <2>1, <2>2 DEF StartProve, validateRequestSigningBinding
<1>7. ASSUME NEW h \in Handlers, ReplayBlock(h) PROVE TypeOK'
  <2>1. CASE EndRequest(h)
    BY <1>7, <2>1, EndRequestType DEF ReplayBlock
  <2>2. CASE /\ hindex' = [hindex EXCEPT ![h] = @ + 1]
             /\ hanchor' = [hanchor EXCEPT ![h] = AnchorAt[hreq[h].blocks[hindex[h] + 1]]]
             /\ UNCHANGED <<hpc, hreq, hsealed>>
    <3>1. hreq[h].blocks \in Seq(Blocks) /\ Len(hreq[h].blocks) \in Nat
      BY <1>7, ValidatedBlocks DEF ReplayBlock
    <3>2. hreq[h].blocks[hindex[h] + 1] \in Blocks
      BY <1>7, <3>1 DEF ReplayBlock
    <3>3. hanchor' \in [Handlers -> Nat] /\ hindex' \in [Handlers -> Nat]
      BY <2>2, <3>2, AnchorsTyped
    <3>4. UNCHANGED serviceVars /\ hpc[h] = "replaying" /\ hindex[h] < Len(hreq[h].blocks)
      BY <1>7 DEF ReplayBlock
    <3> QED
      BY <2>2, <3>1, <3>3, <3>4
  <2> QED
    BY <1>7, <2>1, <2>2 DEF ReplayBlock
<1>8. ASSUME NEW h \in Handlers, SignSubproof(h) PROVE TypeOK'
  BY <1>8, EndRequestType DEF SignSubproof
<1>9. ASSUME NEW h \in Handlers, AbortProve(h) PROVE TypeOK'
  BY <1>9, EndRequestType DEF AbortProve
<1>10. ASSUME NEW cs \in CarryVecs, Aggregate(cs) PROVE TypeOK'
  BY <1>10 DEF Aggregate
<1>11. CASE UNCHANGED vars
  BY <1>11 DEF vars
<1> QED
  BY <1>1, <1>2, <1>3, <1>4, <1>5, <1>6, <1>7, <1>8, <1>9, <1>10, <1>11 DEF Next

-----------------------------------------------------------------------------

\* A handler that ends its request has nothing left to hold.
LEMMA EndRequestHandlers ==
  ASSUME TypeOK, HandlerInv, NEW h \in Handlers, EndRequest(h)
  PROVE  HandlerInv'
<1> SUFFICES ASSUME NEW g \in Handlers, hpc'[g] # "idle"
             PROVE  /\ SealedValid(g)'
                    /\ hpc'[g] = "replaying" =>
                         /\ hreq'[g].carry.chain \in SupportedChains
                         /\ \A i \in 1..hindex'[g] : hreq'[g].blocks[i] \in Executes
                         /\ hindex'[g] > 0 =>
                              AnchorAt[Parent[hreq'[g].blocks[1]]] = hreq'[g].lastAnchor
  BY DEF HandlerInv
<1>1. g # h
  BY DEF EndRequest, TypeOK
<1>2. /\ hpc'[g] = hpc[g] /\ hreq'[g] = hreq[g]
      /\ hsealed'[g] = hsealed[g] /\ hindex'[g] = hindex[g]
  BY <1>1 DEF EndRequest, TypeOK
<1> QED
  BY <1>2 DEF HandlerInv, SealedValid

\* A step that leaves the handlers alone keeps what holds of them.
LEMMA SameHandlers ==
  ASSUME HandlerInv, UNCHANGED handlerVars PROVE HandlerInv'
  BY DEF HandlerInv, SealedValid, handlerVars

\* Every step keeps what a handler has established.
LEMMA HandlerStep == TypeOK /\ HandlerInv /\ [Next]_vars => HandlerInv'
<1> SUFFICES ASSUME TypeOK, HandlerInv, [Next]_vars PROVE HandlerInv'
  OBVIOUS
<1>1. ASSUME NEW dev \in BOOLEAN, NEW id \in InstanceIds, StartNative(dev, id)
      PROVE  HandlerInv'
  BY <1>1, SameHandlers DEF StartNative
<1>2. ASSUME NEW k \in TeeKeys, NEW id \in InstanceIds, StartTEE(k, id)
      PROVE  HandlerInv'
  BY <1>2, SameHandlers DEF StartTEE
<1>3. ASSUME Stop PROVE HandlerInv'
  <2>1. \A h \in Handlers : hpc'[h] = "idle"
    BY <1>3 DEF Stop, All
  <2> QED
    BY <2>1 DEF HandlerInv
<1>4. ASSUME NEW h \in Handlers, NEW r \in ProveRequests, ReceiveProve(h, r)
      PROVE  HandlerInv'
  <2>1. ASSUME NEW g \in Handlers, g # h
        PROVE  /\ hpc'[g] = hpc[g] /\ hreq'[g] = hreq[g]
               /\ hsealed'[g] = hsealed[g] /\ hindex'[g] = hindex[g]
    BY <1>4, <2>1 DEF ReceiveProve, TypeOK
  <2>2. /\ hpc'[h] = "validated" /\ hsealed'[h] = Validated(r)
        /\ validateGuestInputRequest(r)
    BY <1>4 DEF ReceiveProve, TypeOK
  <2> QED
    BY <2>1, <2>2 DEF HandlerInv, SealedValid
<1>5. ASSUME NEW h \in Handlers, NEW r \in ProveRequests, Rewrite(h, r)
      PROVE  HandlerInv'
  <2>1. ASSUME NEW g \in Handlers
        PROVE  /\ hpc'[g] = hpc[g] /\ hsealed'[g] = hsealed[g] /\ hindex'[g] = hindex[g]
               /\ hpc[g] = "replaying" => hreq'[g] = hreq[g]
    <3>1. hpc[h] = "validated" /\ UNCHANGED <<hpc, hsealed, hindex>>
      BY <1>5 DEF Rewrite
    <3>2. PICK v : hreq' = [hreq EXCEPT ![h] = v]
      BY <1>5 DEF Rewrite
    <3> QED
      BY <3>1, <3>2 DEF TypeOK
  <2> QED
    BY <2>1 DEF HandlerInv, SealedValid
<1>6. ASSUME NEW h \in Handlers, StartProve(h) PROVE HandlerInv'
  <2>1. CASE EndRequest(h)
    BY <2>1, EndRequestHandlers
  <2>2. CASE /\ validateRequestSigningBinding(h)
             /\ hreq[h].carry.chain \in SupportedChains
             /\ hpc' = [hpc EXCEPT ![h] = "replaying"]
             /\ UNCHANGED <<hreq, hsealed, hindex, hanchor>>
    <3>1. hpc[h] = "validated" /\ hreq[h] = hsealed[h]
      BY <1>6, <2>2 DEF StartProve, validateRequestSigningBinding
    <3>2. hindex[h] = 0 /\ \A g \in Handlers : g # h => hpc'[g] = hpc[g]
      <4>1. hindex[h] \in 0..(IF hpc[h] = "replaying" THEN Len(hreq[h].blocks) ELSE 0)
        BY DEF TypeOK
      <4>2. hindex[h] = 0
        BY <3>1, <4>1
      <4>3. hpc \in [Handlers -> {"idle", "validated", "replaying"}]
        BY DEF TypeOK
      <4> QED
        BY <2>2, <4>2, <4>3
    <3> QED
      BY <2>2, <3>1, <3>2 DEF HandlerInv, SealedValid
  <2> QED
    BY <1>6, <2>1, <2>2 DEF StartProve
<1>7. ASSUME NEW h \in Handlers, ReplayBlock(h) PROVE HandlerInv'
  <2>1. CASE EndRequest(h)
    BY <2>1, EndRequestHandlers
  <2>2. CASE /\ hreq[h].blocks[hindex[h] + 1] \in Executes
             /\ ReplayAnchor(h, hreq[h].blocks[hindex[h] + 1])
             /\ hindex' = [hindex EXCEPT ![h] = @ + 1]
             /\ UNCHANGED <<hpc, hreq, hsealed>>
    <3>1. hpc[h] = "replaying" /\ hindex[h] \in Nat /\ hindex'[h] = hindex[h] + 1
      BY <1>7, <2>2 DEF ReplayBlock, TypeOK
    <3>2. \A i \in 1..hindex'[h] : hreq[h].blocks[i] \in Executes
      BY <2>2, <3>1 DEF HandlerInv
    <3>3. AnchorAt[Parent[hreq[h].blocks[1]]] = hreq[h].lastAnchor
      <4>1. CASE hindex[h] = 0
        BY <2>2, <4>1 DEF ReplayAnchor
      <4>2. CASE hindex[h] > 0
        BY <3>1, <4>2 DEF HandlerInv
      <4> QED
        BY <3>1, <4>1, <4>2
    <3>4. \A g \in Handlers : g # h => hindex'[g] = hindex[g]
      BY <2>2 DEF TypeOK
    <3> QED
      BY <2>2, <3>1, <3>2, <3>3, <3>4 DEF HandlerInv, SealedValid
  <2> QED
    BY <1>7, <2>1, <2>2 DEF ReplayBlock
<1>8. ASSUME NEW h \in Handlers, SignSubproof(h) PROVE HandlerInv'
  BY <1>8, EndRequestHandlers DEF SignSubproof
<1>9. ASSUME NEW h \in Handlers, AbortProve(h) PROVE HandlerInv'
  BY <1>9, EndRequestHandlers DEF AbortProve
<1>10. ASSUME NEW cs \in CarryVecs, Aggregate(cs) PROVE HandlerInv'
  BY <1>10, SameHandlers DEF Aggregate
<1>11. CASE UNCHANGED vars
  BY <1>11, SameHandlers DEF vars
<1> QED
  BY <1>1, <1>2, <1>3, <1>4, <1>5, <1>6, <1>7, <1>8, <1>9, <1>10, <1>11 DEF Next

-----------------------------------------------------------------------------

\* A request that was validated, is of a supported chain, and whose blocks have
\* all replayed from the claimed last anchor, carries a sound carry.
LEMMA ReplayedIsSound ==
  ASSUME NEW r \in ProveRequests,
         validateGuestInputRequest(r),
         r.carry.chain \in SupportedChains,
         \A i \in 1..Len(r.blocks) : r.blocks[i] \in Executes,
         AnchorAt[Parent[r.blocks[1]]] = r.lastAnchor
  PROVE  SoundCarry(r.carry)
<1> DEFINE d == [proposal |-> r.proposal, lastAnchor |-> r.lastAnchor, blocks |-> r.blocks]
<1>1. d \in Derivation
  BY DEF validateGuestInputRequest, ManifestBinding
<1>2. /\ Len(r.blocks) > 0
      /\ r.carry.proposalHash = r.proposal
      /\ r.carry.parentBlockHash = Parent[r.blocks[1]]
      /\ r.carry.proposalId = ProposalOf[r.proposal].id
      /\ r.carry.parentProposalHash = ProposalOf[r.proposal].parent
      /\ r.carry.proposer = ProposalOf[r.proposal].proposer
      /\ r.carry.timestamp = ProposalOf[r.proposal].timestamp
  BY DEF validateGuestInputRequest, ValidateGuestInputCarry
<1>3. r.proposal \in DOMAIN ProposalOf
  BY RequestsTyped
<1>4. ReplayedPath(r.blocks, r.carry)
  BY <1>2 DEF ReplayedPath, validateGuestInputRequest, validateBlockViews
<1>5. \E e \in Derivation :
        /\ e.proposal = r.carry.proposalHash
        /\ e.lastAnchor = AnchorAt[r.carry.parentBlockHash]
        /\ ReplayedPath(e.blocks, r.carry)
  <2>1. /\ d.proposal = r.carry.proposalHash
        /\ d.lastAnchor = AnchorAt[r.carry.parentBlockHash]
        /\ d.blocks = r.blocks
    BY <1>2
  <2> HIDE DEF d
  <2> QED
    BY <1>1, <1>4, <2>1
<1> QED
  BY <1>2, <1>3, <1>5 DEF SoundCarry

\* Every signature a step adds over a carry is over a sound one.
LEMMA SubproofStep ==
  TypeOK /\ HandlerInv /\ SubproofInv /\ [Next]_vars => SubproofInv'
<1> SUFFICES ASSUME TypeOK, HandlerInv, SubproofInv, [Next]_vars PROVE SubproofInv'
  OBVIOUS
<1>1. ASSUME NEW h \in Handlers, SignSubproof(h) PROVE SubproofInv'
  <2>1. hpc[h] = "replaying" /\ hindex[h] = Len(hreq[h].blocks)
    BY <1>1 DEF SignSubproof
  <2>2. PICK r \in ProveRequests : validateGuestInputRequest(r) /\ hsealed[h] = Validated(r)
    BY <2>1 DEF HandlerInv, SealedValid
  <2>3. /\ hreq[h] = Validated(r)
        /\ hreq[h].carry.chain \in SupportedChains
        /\ \A i \in 1..hindex[h] : hreq[h].blocks[i] \in Executes
        /\ hindex[h] > 0 => AnchorAt[Parent[hreq[h].blocks[1]]] = hreq[h].lastAnchor
    <3>1. hreq[h] = hsealed[h]
      BY <2>1 DEF TypeOK
    <3> QED
      BY <2>1, <2>2, <3>1 DEF HandlerInv
  <2>4. hreq[h].carry = r.carry /\ hreq[h].blocks = r.blocks /\ hreq[h].lastAnchor = r.lastAnchor
    BY <2>3 DEF Validated
  <2>5. Len(r.blocks) > 0 /\ carryFitsShastaWidths(r.carry)
    BY <2>2 DEF validateGuestInputRequest, ValidateGuestInputCarry
  <2>6. SoundCarry(r.carry)
    BY <2>1, <2>2, <2>3, <2>4, <2>5, ReplayedIsSound
  <2>7. r.carry \in RequestCarries
    BY DEF RequestCarries
  <2>8. ASSUME NEW s \in sigs', IsSubproof(s)
        PROVE  \E c \in RequestCarries : /\ s.hash = hashShastaSubproofCarry(c)
                                         /\ SoundCarry(c)
                                         /\ carryFitsShastaWidths(c)
    <3>1. CASE s \in sigs
      BY <2>8, <3>1 DEF SubproofInv
    <3>2. CASE s = [key |-> key, hash |-> hashShastaSubproofCarry(r.carry)]
      <4>1. s.hash = hashShastaSubproofCarry(r.carry)
        BY <3>2
      <4> QED
        BY <2>5, <2>6, <2>7, <4>1
    <3> QED
      BY <1>1, <2>4, <3>1, <3>2 DEF SignSubproof
  <2> QED
    BY <2>8 DEF SubproofInv
<1>2. ASSUME NEW cs \in CarryVecs, Aggregate(cs) PROVE SubproofInv'
  <2>1. sigs' = sigs \cup {[key |-> key, hash |-> hashShastaAggregationCarries(cs, key)]}
    BY <1>2 DEF Aggregate
  <2>2. ~IsSubproof([key |-> key, hash |-> hashShastaAggregationCarries(cs, key)])
    BY HashKinds
  <2> QED
    BY <2>1, <2>2 DEF SubproofInv
<1>3. CASE UNCHANGED sigs
  BY <1>3 DEF SubproofInv
<1> QED
  BY <1>1, <1>2, <1>3 DEF Next, vars, StartNative, StartTEE, Stop, ReceiveProve,
     Rewrite, StartProve, ReplayBlock, AbortProve

\* The aggregate endpoint is open to an enclave key or in dev mode only.
LEMMA ModeStep == ModeInv /\ [Next]_vars => ModeInv'
<1> SUFFICES ASSUME ModeInv, [Next]_vars PROVE ModeInv'
  OBVIOUS
<1>1. CASE UNCHANGED serviceVars
  BY <1>1 DEF ModeInv, serviceVars
<1>2. ASSUME NEW dev \in BOOLEAN, NEW id \in InstanceIds, StartNative(dev, id)
      PROVE  ModeInv'
  BY <1>2 DEF StartNative, ModeInv
<1>3. ASSUME NEW k \in TeeKeys, NEW id \in InstanceIds, StartTEE(k, id) PROVE ModeInv'
  BY <1>3 DEF StartTEE, ModeInv
<1>4. ASSUME Stop PROVE ModeInv'
  BY <1>4 DEF Stop, ModeInv
<1> QED
  BY <1>1, <1>2, <1>3, <1>4 DEF Next, vars, ReceiveProve, Rewrite, StartProve,
     ReplayBlock, SignSubproof, AbortProve, Aggregate

-----------------------------------------------------------------------------

\* A vector that passes the checks is a continuous one.
LEMMA ValidVecContinuous ==
  ASSUME NEW cs \in CarryVecs, validateShastaProofCarryDataVec(cs)
  PROVE  Continuous(cs)
<1>1. PICK n \in 1..MaxProofs : cs \in [1..n -> CarryInputs]
  BY DEF CarryVecs
<1>2. cs \in Seq(CarryInputs) /\ Len(cs) \in Nat
  BY <1>1, BoundsNat
<1> SUFFICES ASSUME NEW i \in 2..Len(cs)
             PROVE  /\ cs[i].proposalId = cs[i - 1].proposalId + 1
                    /\ cs[i].parentProposalHash = cs[i - 1].proposalHash
                    /\ cs[i].parentBlockHash = cs[i - 1].blockHash
                    /\ cs[i].actualProver = cs[i - 1].actualProver
                    /\ cs[i].verifier = cs[i - 1].verifier
                    /\ cs[i].chain = cs[i - 1].chain
  BY DEF Continuous
<1>3. CarryFollows(cs[i - 1], cs[i])
  BY DEF validateShastaProofCarryDataVec
<1>4. cs[i].actualProver = cs[1].actualProver /\ cs[i - 1].actualProver = cs[1].actualProver
  BY <1>2 DEF validateShastaProofCarryDataVec
<1> QED
  BY <1>3, <1>4 DEF CarryFollows, IsNextProposalId

\* An enclave key aggregates sound carries only: nobody else can have signed
\* them, and the hash it signed before identifies each of them.
LEMMA AggregatedAreSound ==
  ASSUME SubproofInv, NEW cs \in CarryVecs, Aggregate(cs), key \in TeeKeys
  PROVE  \A i \in 1..Len(cs) : SoundCarry(cs[i])
<1>1. PICK n \in 1..MaxProofs : cs \in [1..n -> CarryInputs]
  BY DEF CarryVecs
<1>2. cs \in Seq(CarryInputs)
  BY <1>1, BoundsNat
<1> SUFFICES ASSUME NEW i \in 1..Len(cs) PROVE SoundCarry(cs[i])
  OBVIOUS
<1>3. cs[i] \in CarryInputs
  BY <1>2
<1>4. carryFitsShastaWidths(cs[i])
  BY DEF Aggregate, validateShastaProofCarryDataVec
<1>5. PICK signer \in AllKeys : CanPresent(signer, cs[i]) /\ SubproofSignedHere(signer)
  BY DEF Aggregate
<1>6. key \notin PublicKeys
  BY KeysDistinct
<1>7. [key |-> key, hash |-> hashShastaSubproofCarry(cs[i])] \in sigs
  BY <1>5, <1>6 DEF CanPresent, SubproofSignedHere
<1>8. PICK c \in RequestCarries :
        /\ hashShastaSubproofCarry(cs[i]) = hashShastaSubproofCarry(c)
        /\ SoundCarry(c)
        /\ carryFitsShastaWidths(c)
  <2> DEFINE s == [key |-> key, hash |-> hashShastaSubproofCarry(cs[i])]
  <2>1. IsSubproof(s) /\ s.hash = hashShastaSubproofCarry(cs[i])
    BY HashKinds
  <2> HIDE DEF s
  <2>2. s \in sigs
    BY <1>7 DEF s
  <2> QED
    BY <2>1, <2>2 DEF SubproofInv
<1>9. cs[i] = c
  BY <1>3, <1>4, <1>8, SubproofHashInjective
<1> QED
  BY <1>8, <1>9

\* Every aggregation a step adds is sound, unless dev mode was on.
LEMMA AggregateStep == IInv /\ [Next]_vars => AggregateSound'
<1> SUFFICES ASSUME IInv, [Next]_vars PROVE AggregateSound'
  OBVIOUS
<1> USE DEF IInv
<1>1. devUsed => devUsed'
  BY DEF Next, vars, serviceVars, StartNative, StartTEE, Stop, ReceiveProve, Rewrite,
     StartProve, ReplayBlock, SignSubproof, AbortProve, Aggregate
<1>2. ASSUME NEW s \in sigs, ~IsSubproof(s), s.key \in TeeKeys \/ ~devUsed'
      PROVE  \E cs \in CarryVecs :
               /\ s.hash = hashShastaAggregationCarries(cs, s.key)
               /\ \A i \in 1..Len(cs) : SoundCarry(cs[i])
               /\ Continuous(cs)
  BY <1>1, <1>2 DEF AggregateSound
<1>3. CASE UNCHANGED sigs
  BY <1>2, <1>3 DEF AggregateSound
<1>4. ASSUME NEW h \in Handlers, SignSubproof(h) PROVE AggregateSound'
  <2>1. \A s \in sigs' : s \in sigs \/ IsSubproof(s)
    BY <1>4, HashKinds DEF SignSubproof
  <2> QED
    BY <1>2, <2>1 DEF AggregateSound
<1>5. ASSUME NEW cs \in CarryVecs, Aggregate(cs) PROVE AggregateSound'
  <2>1. sigs' = sigs \cup {[key |-> key, hash |-> hashShastaAggregationCarries(cs, key)]}
    BY <1>5 DEF Aggregate
  <2>2. key \in TeeKeys \/ devUsed'
    BY <1>1, <1>5 DEF Aggregate, ModeInv
  <2>3. CASE key \in TeeKeys
    <3>1. \A i \in 1..Len(cs) : SoundCarry(cs[i])
      BY <1>5, <2>3, AggregatedAreSound
    <3>2. Continuous(cs)
      BY <1>5, ValidVecContinuous DEF Aggregate
    <3> QED
      BY <1>2, <2>1, <3>1, <3>2 DEF AggregateSound
  <2>4. CASE key \notin TeeKeys
    BY <1>2, <2>1, <2>2, <2>4 DEF AggregateSound
  <2> QED
    BY <2>3, <2>4
<1> QED
  BY <1>3, <1>4, <1>5 DEF Next, vars, StartNative, StartTEE, Stop, ReceiveProve,
     Rewrite, StartProve, ReplayBlock, AbortProve

-----------------------------------------------------------------------------

\* The inductive invariant of the proving service.
THEOREM Invariance == Spec => []IInv
<1>1. Init => IInv
  <2> SUFFICES ASSUME Init PROVE IInv
    OBVIOUS
  <2>1. TypeOK
    <3>1. /\ key \in TeeKeys \cup {NativeKey, None} /\ instance \in InstanceIds \cup {None}
          /\ aggregateEnabled \in BOOLEAN /\ devUsed \in BOOLEAN
      BY DEF Init
    <3>2. /\ hpc \in [Handlers -> {"idle", "validated", "replaying"}]
          /\ hreq \in [Handlers -> ValidatedRequests \cup {None}]
          /\ hsealed \in [Handlers -> ValidatedRequests \cup {None}]
          /\ hindex \in [Handlers -> Nat] /\ hanchor \in [Handlers -> Nat]
          /\ \A h \in Handlers : hpc[h] = "idle" /\ hindex[h] = 0
      BY DEF Init, All
    <3> QED
      BY <3>1, <3>2 DEF TypeOK
  <2>2. HandlerInv
    BY DEF Init, All, HandlerInv
  <2>3. SubproofInv /\ AggregateSound
    BY DEF Init, SubproofInv, AggregateSound
  <2>4. ModeInv
    BY DEF Init, ModeInv
  <2> QED
    BY <2>1, <2>2, <2>3, <2>4 DEF IInv
<1>2. IInv /\ [Next]_vars => IInv'
  BY TypeStep, HandlerStep, SubproofStep, ModeStep, AggregateStep DEF IInv
<1> QED
  BY <1>1, <1>2, PTL DEF Spec

\* The types hold in every state of the service; a handler replays only the sealed copy
\* of what it validated, and never past its block list (ReplayService.Prove).
THEOREM TypeCorrect == Spec => []TypeOK
<1>1. IInv => TypeOK
  BY DEF IInv
<1> QED
  BY <1>1, Invariance, PTL

\* A subproof is only ever signed over a carry whose blocks were replayed from
\* the anchor really stored in the parent block.
THEOREM SubproofsAreSound == Spec => []SubproofSound
<1>1. IInv => SubproofSound
  BY DEF IInv, SubproofInv, SubproofSound
<1> QED
  BY <1>1, Invariance, PTL

\* An aggregation by an enclave key commits to a continuous run of such carries,
\* although Aggregate replays nothing.
THEOREM AggregatesAreSound == Spec => []AggregateSound
<1>1. IInv => AggregateSound
  BY DEF IInv
<1> QED
  BY <1>1, Invariance, PTL

=============================================================================
