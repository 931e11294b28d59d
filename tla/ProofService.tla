------------------------------- MODULE ProofService -------------------------------
(***************************************************************************)
(* The proving service: the /prove/shasta and /prove/shasta-aggregate      *)
(* handlers, the ReplayService behind them and its signer, across restarts *)
(* in native or TEE mode.                                                  *)
(*                                                                         *)
(* The chain itself is given by constants: a block is identified by its    *)
(* hash, Executes holds the blocks whose replay on their parent's state    *)
(* yields the header's state and receipt roots, AnchorAt is the anchor     *)
(* number the L2 contract stores after a block, and Derivation holds what  *)
(* the blob and manifest checks accept (they trust the last anchor number  *)
(* the request claims).  A proposal is identified by its hash.             *)
(*                                                                         *)
(* The environment owns every signature the service ever returned and can  *)
(* sign with PublicKeys itself; the native key is published, so it is one  *)
(* of them.                                                                *)
(***************************************************************************)
EXTENDS ShastaCarry, FiniteSets

CONSTANTS
  Handlers,         \* request goroutines
  Blocks,           \* block hashes
  Parent, Number, Root, \* header fields, functions on Blocks
  Executes,         \* the blocks that replay to their header
  AnchorAt,         \* block hash |-> anchor number stored after that block
  ProposalOf,       \* proposal hash |-> [id, parent, proposer, timestamp]
  Derivation,       \* set of [proposal, lastAnchor, blocks]
  ProveRequests,    \* the guest inputs clients send
  CarryInputs,      \* the carries clients put into aggregation requests
  SupportedChains, TeeKeys, NativeKey, PublicKeys, InstanceIds,
  None,
  MaxProofs,        \* bound on the proofs of one aggregation request
  MaxSigs           \* bound on the signatures of a behaviour

ASSUME KeysDistinct == NativeKey \notin TeeKeys /\ TeeKeys \cap PublicKeys = {}
ASSUME BoundsNat == MaxProofs \in Nat /\ MaxSigs \in Nat

\* A carry is a CarryView: exactly these fields, the numbers unsigned.
ASSUME CarriesTyped ==
  \A c \in CarryInputs \cup {r.carry : r \in ProveRequests} :
    /\ c = [f \in CarryFields |-> c[f]]
    /\ c.number \in Nat /\ c.timestamp \in Nat /\ c.proposalId \in Nat

\* A request holds a list of blocks and a proposal of its own.
ASSUME RequestsTyped ==
  \A r \in ProveRequests : /\ r.blocks \in Seq(Blocks)
                           /\ r.proposal \in DOMAIN ProposalOf

ASSUME AnchorsTyped == \A b \in Blocks : AnchorAt[b] \in Nat

VARIABLES
  key,       \* the signer's key, loaded once at startup; None: not running
  instance,  \* the signer's instance id
  aggregateEnabled,
  hpc,       \* [Handlers -> "idle" | "validated" | "replaying"]
  hreq,      \* [Handlers -> the ValidatedRequest's exported fields]
  hsealed,   \* [Handlers -> the copies sealValidatedRequest keeps]
  hindex,    \* [Handlers -> blocks replayed]
  hanchor,   \* [Handlers -> previousAnchor]
  sigs,      \* every signature the service has returned
  devUsed    \* history: the service has run in native mode with GAIKO2_DEV_MODE

serviceVars == <<key, instance, aggregateEnabled, devUsed>>
handlerVars == <<hpc, hreq, hsealed, hindex, hanchor>>
vars == <<serviceVars, handlerVars, sigs>>

AllKeys == TeeKeys \cup {NativeKey} \cup PublicKeys

CarryVecs == UNION {[1..n -> CarryInputs] : n \in 1..MaxProofs}

\* v for every handler.
All(v) == [h \in Handlers |-> v]

Init ==
  /\ key = None /\ instance = None
  /\ aggregateEnabled = FALSE /\ devUsed = FALSE
  /\ hpc = All("idle")
  /\ hreq = All(None) /\ hsealed = All(None)
  /\ hindex = All(0) /\ hanchor = All(0)
  /\ sigs = {}

-----------------------------------------------------------------------------
(* Startup and shutdown *)

\* ServiceConfigFromEnv and NewConfiguredReplayService, native mode.  The key is
\* compiled in; the aggregate endpoint needs dev mode.
StartNative(dev, id) ==
  /\ key = None
  /\ key' = NativeKey /\ instance' = id
  /\ aggregateEnabled' = dev
  /\ devUsed' = (devUsed \/ dev)
  /\ UNCHANGED <<handlerVars, sigs>>

\* TEE mode: the sealed key is read once, here; which one it is may have changed
\* since the last start.  Without a configured instance id there is no service.
StartTEE(k, id) ==
  /\ key = None
  /\ key' = k /\ instance' = id
  /\ aggregateEnabled' = TRUE
  /\ UNCHANGED <<devUsed, handlerVars, sigs>>

\* The process ends, by shutdown or by a crash; requests in flight are lost.
Stop ==
  /\ key # None
  /\ key' = None /\ instance' = None /\ aggregateEnabled' = FALSE
  /\ hpc' = All("idle")
  /\ hreq' = All(None) /\ hsealed' = All(None)
  /\ hindex' = All(0) /\ hanchor' = All(0)
  /\ UNCHANGED <<devUsed, sigs>>

-----------------------------------------------------------------------------
(* Validation of a prove request *)

\* ValidateGuestInputCarry: the carry says of the proposal, of the prover and of
\* the first and last block what the guest input says.
ValidateGuestInputCarry(r) ==
  LET c == r.carry
      p == ProposalOf[r.proposal]
      n == Len(r.blocks)
  IN  /\ n > 0
      /\ r.chain # 0 /\ r.chain = c.chain
      /\ c.proposalId = r.taikoId /\ r.taikoId = r.eventId /\ r.eventId = p.id
      /\ c.proposalHash = r.proposal
      /\ c.parentProposalHash = p.parent
      /\ c.parentBlockHash = Parent[r.blocks[1]]
      /\ c.actualProver = r.prover
      /\ c.proposer = p.proposer
      /\ c.timestamp = p.timestamp
      /\ c.number = Number[r.blocks[n]]
      /\ c.blockHash = r.blocks[n]
      /\ c.stateRoot = Root[r.blocks[n]]

\* Blob sources and manifest: the blocks are the ones the proposal derives, given
\* the last anchor number that the request claims.
ManifestBinding(r) ==
  [proposal |-> r.proposal, lastAnchor |-> r.lastAnchor, blocks |-> r.blocks]
    \in Derivation

validateBlockViews(bs, c) ==
  LET n == Len(bs)
  IN  /\ \A i \in 2..n : /\ Number[bs[i]] = Number[bs[i - 1]] + 1
                         /\ Parent[bs[i]] = bs[i - 1]
      /\ Parent[bs[1]] = c.parentBlockHash
      /\ Number[bs[n]] = c.number
      /\ bs[n] = c.blockHash
      /\ Root[bs[n]] = c.stateRoot

validateGuestInputRequest(r) ==
  /\ carryFitsShastaWidths(r.carry)
  /\ ValidateGuestInputCarry(r)
  /\ ManifestBinding(r)
  /\ validateBlockViews(r.blocks, r.carry)

\* The exported fields of a ValidatedRequest.
Validated(r) ==
  [carry |-> r.carry, proposal |-> r.proposal, lastAnchor |-> r.lastAnchor,
   blocks |-> r.blocks, views |-> r.blocks]

-----------------------------------------------------------------------------
(* Prove *)

\* The handler returns, with a proof or an error.
EndRequest(h) ==
  /\ hpc' = [hpc EXCEPT ![h] = "idle"]
  /\ hreq' = [hreq EXCEPT ![h] = None]
  /\ hsealed' = [hsealed EXCEPT ![h] = None]
  /\ hindex' = [hindex EXCEPT ![h] = 0]
  /\ hanchor' = [hanchor EXCEPT ![h] = 0]

\* The handler up to ValidateRequestWithContext.  A request that does not
\* validate is answered 400 and changes nothing.
ReceiveProve(h, r) ==
  /\ key # None /\ hpc[h] = "idle"
  /\ validateGuestInputRequest(r)
  /\ hpc' = [hpc EXCEPT ![h] = "validated"]
  /\ hreq' = [hreq EXCEPT ![h] = Validated(r)]
  /\ hsealed' = [hsealed EXCEPT ![h] = Validated(r)]
  /\ UNCHANGED <<serviceVars, hindex, hanchor, sigs>>

\* v with the field changed taken from w.
WithFieldOf(v, w, changed) == [f \in DOMAIN v |-> IF f = changed THEN w[f] ELSE v[f]]

\* The fields of a ValidatedRequest are exported and its slices shared: whoever
\* holds it between validation and Prove can put another request's carry, blocks
\* or guest input into it (one field per request, as a bound).  The handler of
\* this repository does not.
Rewrite(h, r) ==
  /\ hpc[h] = "validated" /\ hreq[h] = hsealed[h]
  /\ \E changed \in {"carry", "proposal", "lastAnchor", "blocks", "views"} :
       hreq' = [hreq EXCEPT ![h] = WithFieldOf(hsealed[h], Validated(r), changed)]
  /\ UNCHANGED <<serviceVars, hpc, hsealed, hindex, hanchor, sigs>>

\* Mutation: only the carry, which is what gets signed, is compared.
validateRequestSigningBindingCarry(h) == hreq[h].carry = hsealed[h].carry

\* validateRequestSigningBinding: carry, block views, raw blocks and the taiko
\* guest input are what was validated.
validateRequestSigningBinding(h) == hreq[h] = hsealed[h]

\* Prove before its loop.
StartProve(h) ==
  /\ hpc[h] = "validated"
  /\ IF /\ validateRequestSigningBinding(h)
        /\ Len(hreq[h].views) > 0
        /\ Len(hreq[h].blocks) = Len(hreq[h].views)
        /\ hreq[h].carry.chain \in SupportedChains
     THEN /\ hpc' = [hpc EXCEPT ![h] = "replaying"]
          /\ UNCHANGED <<hreq, hsealed, hindex, hanchor>>
     ELSE EndRequest(h)
  /\ UNCHANGED <<serviceVars, sigs>>

\* Mutation: the first block's previous anchor is not compared with the claim.
ReplayAnchorUnclaimed(h, b) ==
  \/ hindex[h] = 0
  \/ AnchorAt[Parent[b]] = hanchor[h]

\* The Anchored event of a replayed block names the anchor stored in its parent's
\* state; it must be the claimed one, then the previous block's.
ReplayAnchor(h, b) ==
  AnchorAt[Parent[b]] = IF hindex[h] = 0 THEN hreq[h].lastAnchor ELSE hanchor[h]

\* One turn of Prove's loop; any failure ends the request.
ReplayBlock(h) ==
  /\ hpc[h] = "replaying" /\ hindex[h] < Len(hreq[h].blocks)
  /\ LET b == hreq[h].blocks[hindex[h] + 1]
     IN  IF /\ b = hreq[h].views[hindex[h] + 1]
            /\ b \in Executes
            /\ ReplayAnchor(h, b)
         THEN /\ hindex' = [hindex EXCEPT ![h] = @ + 1]
              /\ hanchor' = [hanchor EXCEPT ![h] = AnchorAt[b]]
              /\ UNCHANGED <<hpc, hreq, hsealed>>
         ELSE EndRequest(h)
  /\ UNCHANGED <<serviceVars, sigs>>

\* Prove after its loop: the views are checked again, then the carry is signed.
SignSubproof(h) ==
  /\ hpc[h] = "replaying" /\ hindex[h] = Len(hreq[h].blocks)
  /\ Cardinality(sigs) < MaxSigs
  /\ EndRequest(h)
  /\ sigs' = IF validateBlockViews(hreq[h].views, hreq[h].carry)
             THEN sigs \cup {[key |-> key, hash |-> hashShastaSubproofCarry(hreq[h].carry)]}
             ELSE sigs
  /\ UNCHANGED serviceVars

\* The client goes away or the replay fails for want of a good witness.
AbortProve(h) ==
  /\ hpc[h] # "idle"
  /\ EndRequest(h)
  /\ UNCHANGED <<serviceVars, sigs>>

-----------------------------------------------------------------------------
(* Aggregate *)

\* A client has k's signature over carry c: it was returned to it, or it can
\* make it.
CanPresent(k, c) ==
  \/ k \in PublicKeys
  \/ [key |-> k, hash |-> hashShastaSubproofCarry(c)] \in sigs

\* Mutation: the recovered signer is not compared with the signer's own address.
SubproofSignedByAnyone(signer) == signer \in AllKeys

\* validateAggregateProofSignatures: the subproof was signed by this service.
SubproofSignedHere(signer) == signer = key

\* ValidateAggregateRequest and Aggregate, for proofs over the carries cs.  The
\* bytes of every proof claim an instance id and address, and the signature in
\* them is by signer.  Nothing is read that another request could change, so the
\* handler is one step.
Aggregate(cs) ==
  /\ key # None
  /\ Cardinality(sigs) < MaxSigs
  /\ validateShastaProofCarryDataVec(cs)
  /\ cs[1].chain \in SupportedChains
  /\ aggregateEnabled
  /\ \A i \in 1..Len(cs) :
       \E id \in InstanceIds, addr \in AllKeys, signer \in AllKeys :
         /\ id = instance /\ addr = key
         /\ CanPresent(signer, cs[i])
         /\ SubproofSignedHere(signer)
  /\ sigs' = sigs \cup {[key |-> key, hash |-> hashShastaAggregationCarries(cs, key)]}
  /\ UNCHANGED <<serviceVars, handlerVars>>

Next ==
  \/ \E dev \in BOOLEAN, id \in InstanceIds : StartNative(dev, id)
  \/ \E k \in TeeKeys, id \in InstanceIds : StartTEE(k, id)
  \/ Stop
  \/ \E h \in Handlers, r \in ProveRequests : ReceiveProve(h, r) \/ Rewrite(h, r)
  \/ \E h \in Handlers : StartProve(h) \/ ReplayBlock(h) \/ SignSubproof(h) \/ AbortProve(h)
  \/ \E cs \in CarryVecs : Aggregate(cs)

Spec == Init /\ [][Next]_vars

-----------------------------------------------------------------------------
(* Properties *)

RequestCarries == {r.carry : r \in ProveRequests}
RequestBlocks == {r.blocks : r \in ProveRequests}

ValidatedRequests ==
  [carry : RequestCarries, proposal : {r.proposal : r \in ProveRequests},
   lastAnchor : {r.lastAnchor : r \in ProveRequests},
   blocks : RequestBlocks, views : RequestBlocks]

\* The types.  A handler at work belongs to a running service; one that replays
\* works on what was sealed when it was validated and has not run past its block
\* list, and no other has replayed anything.
TypeOK ==
  /\ key \in TeeKeys \cup {NativeKey, None}
  /\ instance \in InstanceIds \cup {None}
  /\ aggregateEnabled \in BOOLEAN /\ devUsed \in BOOLEAN
  /\ hpc \in [Handlers -> {"idle", "validated", "replaying"}]
  /\ \A h \in Handlers :
       hpc[h] # "idle" => /\ key # None
                          /\ hreq[h] \in ValidatedRequests
                          /\ hsealed[h] \in ValidatedRequests
  /\ \A h \in Handlers : hpc[h] = "replaying" => hreq[h] = hsealed[h]
  /\ hreq \in [Handlers -> ValidatedRequests \cup {None}]
  /\ hsealed \in [Handlers -> ValidatedRequests \cup {None}]
  /\ hindex \in [Handlers -> Nat]
  /\ hanchor \in [Handlers -> Nat]
  /\ \A h \in Handlers :
       hindex[h] \in 0..(IF hpc[h] = "replaying" THEN Len(hreq[h].blocks) ELSE 0)

\* bs are blocks from the carry's parent block to its checkpoint, each the next
\* one's parent and each replayed to its header.
ReplayedPath(bs, c) ==
  LET n == Len(bs)
  IN  /\ n > 0
      /\ \A i \in 1..n : bs[i] \in Executes
      /\ \A i \in 2..n : Parent[bs[i]] = bs[i - 1]
      /\ Parent[bs[1]] = c.parentBlockHash
      /\ bs[n] = c.blockHash /\ Number[bs[n]] = c.number /\ Root[bs[n]] = c.stateRoot

\* What a signature over a carry should stand for: the proposal it names derives,
\* from the anchor number really stored in its parent block, blocks that replay
\* from that parent to the checkpoint.
SoundCarry(c) ==
  /\ c.chain \in SupportedChains
  /\ c.proposalHash \in DOMAIN ProposalOf
  /\ LET p == ProposalOf[c.proposalHash]
     IN  /\ c.proposalId = p.id /\ c.parentProposalHash = p.parent
         /\ c.proposer = p.proposer /\ c.timestamp = p.timestamp
  /\ \E d \in Derivation :
       /\ d.proposal = c.proposalHash
       /\ d.lastAnchor = AnchorAt[c.parentBlockHash]
       /\ ReplayedPath(d.blocks, c)

IsSubproof(s) == Len(s.hash) = 4

\* Every subproof the service signs, in any mode, is over a sound carry: the
\* manifest checks ran on a last anchor number that only the replay could
\* confirm, and the request could be rewritten after it was validated.
SubproofSound ==
  \A s \in sigs : IsSubproof(s) =>
    \E c \in RequestCarries :
      /\ s.hash = hashShastaSubproofCarry(c)
      /\ SoundCarry(c)

\* The carries continue each other: proposals by id and hash, blocks by hash and
\* number, for one prover, verifier and chain.
Continuous(cs) ==
  \A i \in 2..Len(cs) :
    /\ cs[i].proposalId = cs[i - 1].proposalId + 1
    /\ cs[i].parentProposalHash = cs[i - 1].proposalHash
    /\ cs[i].parentBlockHash = cs[i - 1].blockHash
    /\ cs[i].actualProver = cs[i - 1].actualProver
    /\ cs[i].verifier = cs[i - 1].verifier
    /\ cs[i].chain = cs[i - 1].chain

\* Every aggregation signed by an enclave key, and every aggregation at all as
\* long as dev mode was never on, commits to a continuous run of sound carries,
\* although Aggregate replays nothing: it trusts only its own signatures, over
\* hashes that keep 48 bits of numbers the commitment has in full.
AggregateSound ==
  \A s \in sigs : ~IsSubproof(s) /\ (s.key \in TeeKeys \/ ~devUsed) =>
    \E cs \in CarryVecs :
      /\ s.hash = hashShastaAggregationCarries(cs, s.key)
      /\ \A i \in 1..Len(cs) : SoundCarry(cs[i])
      /\ Continuous(cs)

-----------------------------------------------------------------------------
(* The inductive invariant behind the two soundness properties *)

\* What a handler's sealed copy stems from.
SealedValid(h) ==
  \E r \in ProveRequests : validateGuestInputRequest(r) /\ hsealed[h] = Validated(r)

\* A handler at work holds the sealed copy of a valid request; once it replays, the
\* chain is a supported one, every block up to hindex has executed and the first one has confirmed the claimed last anchor.
HandlerInv ==
  \A h \in Handlers :
    /\ hpc[h] # "idle" => SealedValid(h)
    /\ hpc[h] = "replaying" =>
         /\ hreq[h].carry.chain \in SupportedChains
         /\ \A i \in 1..hindex[h] : hreq[h].blocks[i] \in Executes
         /\ hindex[h] > 0 =>
              AnchorAt[Parent[hreq[h].blocks[1]]] = hreq[h].lastAnchor

\* SubproofSound, for carries whose numbers the hash keeps in full.
SubproofInv ==
  \A s \in sigs : IsSubproof(s) =>
    \E c \in RequestCarries :
      /\ s.hash = hashShastaSubproofCarry(c)
      /\ SoundCarry(c)
      /\ carryFitsShastaWidths(c)

\* Only dev mode opens the aggregate endpoint to the native key.
ModeInv == aggregateEnabled => key \in TeeKeys \/ devUsed

IInv == TypeOK /\ HandlerInv /\ SubproofInv /\ ModeInv /\ AggregateSound

=============================================================================
