------------------------------- MODULE ShastaCarry -------------------------------
(***************************************************************************)
(* Proof carry data: the public input of a Shasta proof, the hashes that   *)
(* are signed over it, and the checks on a vector of carries that is       *)
(* aggregated.                                                             *)
(*                                                                         *)
(* Keccak is injective here: a hash is the tuple of the words that are     *)
(* hashed.  A subproof and an aggregation both start with VERIFY_PROOF;    *)
(* they differ in what follows.                                            *)
(***************************************************************************)
EXTENDS Naturals, Sequences

CONSTANT MaxU48   \* the largest uint48, 2^48 - 1 in the code

ASSUME MaxU48Nat == MaxU48 \in Nat

\* CarryView, with TransitionInput, Transition and Checkpoint flattened.
CarryFields == {"chain", "verifier", "proposalId", "proposalHash", "parentProposalHash",
                "parentBlockHash", "actualProver", "proposer", "timestamp",
                "number", "blockHash", "stateRoot"}

\* u48Word keeps the low 48 bits.
u48(v) == v % (MaxU48 + 1)

-----------------------------------------------------------------------------
(* Hashes *)

hashCheckpoint(c) == <<u48(c.number), c.blockHash, c.stateRoot>>

hashShastaTransitionInput(c) ==
  <<c.proposalId, c.proposalHash, c.parentProposalHash, c.parentBlockHash,
    c.actualProver, c.proposer, u48(c.timestamp), hashCheckpoint(c),
    u48(c.number), c.blockHash, c.stateRoot>>

hashShastaSubproofCarry(c) ==
  <<"VERIFY_PROOF", c.chain, c.verifier, hashShastaTransitionInput(c)>>

\* buildShastaCommitmentFromProofCarryDataVec.  Unlike the subproof hash it
\* keeps the block number and the timestamps at their full width.
buildShastaCommitment(cs) ==
  [firstProposalId |-> cs[1].proposalId,
   firstParentBlockHash |-> cs[1].parentBlockHash,
   lastProposalHash |-> cs[Len(cs)].proposalHash,
   actualProver |-> cs[1].actualProver,
   endBlockNumber |-> cs[Len(cs)].number,
   endStateRoot |-> cs[Len(cs)].stateRoot,
   transitions |-> [i \in 1..Len(cs) |->
     [proposer |-> cs[i].proposer, timestamp |-> cs[i].timestamp,
      blockHash |-> cs[i].blockHash]]]

hashShastaAggregationCarries(cs, instance) ==
  <<"VERIFY_PROOF", cs[1].chain, cs[1].verifier, buildShastaCommitment(cs), instance>>

-----------------------------------------------------------------------------
(* Checks *)

\* requireUint48 of decodeCarryStrict, and carryFitsShastaWidths again.
carryFitsShastaWidths(c) ==
  /\ c.proposalId <= MaxU48
  /\ c.timestamp <= MaxU48
  /\ c.number <= MaxU48

\* checkedIncrementProposalID: the increment that never leaves uint48.
IsNextProposalId(prev, next) == prev < MaxU48 /\ next = prev + 1

CarryFollows(prev, next) ==
  /\ IsNextProposalId(prev.proposalId, next.proposalId)
  /\ prev.proposalHash = next.parentProposalHash
  /\ prev.chain = next.chain
  /\ prev.verifier = next.verifier
  /\ prev.blockHash = next.parentBlockHash

validateShastaProofCarryDataVec(cs) ==
  /\ Len(cs) > 0
  /\ \A i \in 1..Len(cs) : carryFitsShastaWidths(cs[i])
                           /\ cs[i].actualProver = cs[1].actualProver
  /\ \A i \in 2..Len(cs) : CarryFollows(cs[i - 1], cs[i])

=============================================================================
