----------------------------- MODULE MCProofService -----------------------------
(***************************************************************************)
(* Proposal P1 derives b1 from g, and P2 derives b2, b3 from b1; on a fork *)
(* f <- d1 the same P2 derives d2.  c2 is what P2 derives from b1 under a  *)
(* false last anchor number, x2 a block with a wrong state root, and b1,   *)
(* b3 a list with a hole.  P2's id is the largest uint48.                  *)
(***************************************************************************)
EXTENDS ProofService, TLC

MCBlocks == {"b1", "b2", "b3", "c2", "x2", "d1", "d2"}
MCParent == [b1 |-> "g", b2 |-> "b1", b3 |-> "b2", c2 |-> "b1", x2 |-> "b1",
             d1 |-> "f", d2 |-> "d1"]
MCNumber == [b1 |-> 1, b2 |-> 2, b3 |-> 3, c2 |-> 2, x2 |-> 2, d1 |-> 1, d2 |-> 2]
MCRoot == [b \in MCBlocks |-> <<"root", b>>]
MCExecutes == MCBlocks \ {"x2"}
MCAnchorAt == [g |-> 0, b1 |-> 1, b2 |-> 1, b3 |-> 2, c2 |-> 2, x2 |-> 1,
               f |-> 0, d1 |-> 1, d2 |-> 1]

MCProposalOf == [P1 |-> [id |-> 2, parent |-> "P0", proposer |-> "alice", timestamp |-> 1],
                 P2 |-> [id |-> 3, parent |-> "P1", proposer |-> "alice", timestamp |-> 2]]

Derived(p, a, bs) == [proposal |-> p, lastAnchor |-> a, blocks |-> bs]
MCDerivation == {Derived("P1", 0, <<"b1">>),
                 Derived("P1", 0, <<"b1", "b3">>),
                 Derived("P2", 1, <<"b2", "b3">>), Derived("P2", 1, <<"d2">>),
                 Derived("P2", 0, <<"c2">>), Derived("P2", 1, <<"x2">>)}

\* The carry that fits a derivation.
CarryOf(d) ==
  LET p == MCProposalOf[d.proposal]
      last == d.blocks[Len(d.blocks)]
  IN  [chain |-> 167, verifier |-> "V", proposalId |-> p.id, proposalHash |-> d.proposal,
       parentProposalHash |-> p.parent, parentBlockHash |-> MCParent[d.blocks[1]],
       actualProver |-> "bob", proposer |-> p.proposer, timestamp |-> p.timestamp,
       number |-> MCNumber[last], blockHash |-> last, stateRoot |-> MCRoot[last]]

RequestOf(d) ==
  [carry |-> CarryOf(d), proposal |-> d.proposal, lastAnchor |-> d.lastAnchor,
   blocks |-> d.blocks, chain |-> 167, prover |-> "bob",
   taikoId |-> MCProposalOf[d.proposal].id, eventId |-> MCProposalOf[d.proposal].id]

\* Every derivation, and requests that are wrong in one place.
MCProveRequests ==
  LET r == RequestOf(Derived("P1", 0, <<"b1">>))
  IN  {RequestOf(d) : d \in MCDerivation}
      \cup {[r EXCEPT !.carry.number = @ + MaxU48 + 1],
            [r EXCEPT !.carry.chain = 99, !.chain = 99],
            [r EXCEPT !.carry.proposalId = 1, !.taikoId = 1]}

\* Carries for aggregation: sound and unsound ones, one of them over-wide.
MCCarryInputs ==
  {r.carry : r \in {RequestOf(d) : d \in MCDerivation}}
  \cup {[CarryOf(Derived("P2", 1, <<"b2", "b3">>)) EXCEPT !.number = @ + MaxU48 + 1],
        [CarryOf(Derived("P1", 0, <<"b1">>)) EXCEPT !.actualProver = "carol"]}

Symmetry == Permutations(TeeKeys)

=============================================================================
