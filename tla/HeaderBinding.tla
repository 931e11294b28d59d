---------------------------- MODULE HeaderBinding ----------------------------
(***************************************************************************)
(* How the headers of a proposal's blocks are tied to the L2 chain before  *)
(* a proof is signed: the parent and grandparent that the client supplies, *)
(* the header rules of the fork that each block falls in, the rolling of   *)
(* parent and grandparent from block to block, and the replay that checks  *)
(* what only execution can tell.                                           *)
(*                                                                         *)
(* Clients are free to send any header, on the chain or not.  A proof is   *)
(* signed for any parent; L1 settles the ones that build on the head.      *)
(*                                                                         *)
(* A hash is modelled by the header it is the hash of, so that different   *)
(* headers have different hashes.  A base fee is modelled by the parent    *)
(* block time it was computed from: its other inputs are fields of the     *)
(* parent header.  A state root is "good" when it is the result of         *)
(* executing the derived blocks with the rules of their forks, and a       *)
(* transactions root "derived" when it is that of the manifest's           *)
(* transactions, filtered on the state that the parent leaves.  What may   *)
(* be missing, a grandparent or the full header of an ancestor, is a       *)
(* sequence of at most one element.                                        *)
(*                                                                         *)
(* A witness is the list of headers in the document of a block.  The       *)
(* filter reads it when the block is bound, the storage read and the       *)
(* replay read it again later; only the replay checks all of its headers.  *)
(***************************************************************************)
EXTENDS Integers, Sequences, SequencesExt

CONSTANTS
  ForkTime,      \* ShastaTime of the chain
  UnzenTime,     \* its Unzen time, as gaiko2 has it
  Upstreams,     \* chain configs that taiko-geth may come with: a time or None by fork
  Times,         \* timestamps of derived blocks
  ZkGas,         \* ZkGas[n]: zk gas that block number n uses
  MaxBlocks,     \* bound on the blocks of a proposal
  MaxNumber,     \* bound on the number of a block
  None

\* Unzen and the EVM forks it bundles.
ForkNames == {"Unzen", "Cancun", "Prague", "Osaka"}

ASSUME TimeAssumption ==
  /\ ForkTime \in Nat /\ UnzenTime \in Nat /\ Times \subseteq Nat
  /\ None \notin Nat /\ Upstreams \subseteq [ForkNames -> Nat \cup {None}]
ASSUME BoundsAssumption ==
  /\ MaxBlocks \in Nat \ {0} /\ MaxNumber \in Nat /\ ZkGas \in [0..MaxNumber -> Nat]

VARIABLES
  chain,      \* the headers of the L2 chain, from genesis to the head
  upstream,   \* fork times in taiko-geth's chain config, by fork
  phase,      \* "idle", "binding", "replay", "proved" or "rejected"
  parent0,    \* carry.transition_input.parent_block_hash
  derived,    \* the timestamps of the derived blocks
  canonicalParent,
  canonicalGrandparent, \* its compact form, if there is one
  bound,      \* the headers of the blocks that are bound to the derivation
  witnesses,  \* the witnesses that came with them
  replayed,   \* how many of them are replayed
  relied,     \* headers of witnesses that a check or the EVM has read from
  honest      \* the client has sent what an honest one would (history)

requestVars == <<parent0, derived, canonicalParent, canonicalGrandparent, bound,
                 witnesses, replayed, relied, honest>>
vars == <<chain, upstream, phase, requestVars>>

L2Head == chain[Len(chain)]

Elements(s) == {s[i] : i \in DOMAIN s}

-----------------------------------------------------------------------------
(* Chain configuration *)

\* pinForkTime: a time that is preset has to be the expected one.
pinForkTime(fork) == upstream[fork] \in {None, UnzenTime}

\* chainConfigFor, enableUnzenForksFrom
ConfigAvailable == \A fork \in ForkNames : pinForkTime(fork)

ActivationTime(fork) == IF upstream[fork] = None THEN UnzenTime ELSE upstream[fork]

IsShasta(time) == time >= ForkTime
IsActive(fork, time) == time >= ActivationTime(fork)
IsUnzen(time) == IsActive("Unzen", time)

-----------------------------------------------------------------------------
(* Headers *)

\* forkFields: "absent": no blob gas, beacon root or requests hash; "empty": all
\* present with the value of an empty block; "other" also when a static field is off
\* (nonce, ommers, withdrawals, slot number) or the block has no transaction.
\* rest: what the derivation fixes and is compared last (coinbase, gas limit, extra
\* data, anchor transaction).
ForkFieldValues == {"absent", "empty", "other"}
DerivedValues == {"derived", "other"}
RootValues == {"good", "other"}

Header(number, parent, time, baseFee, difficulty, mix, forkFields, txRoot, rest, root) ==
  [number |-> number, parent |-> parent, time |-> time, baseFee |-> baseFee,
   difficulty |-> difficulty, mix |-> mix, forkFields |-> forkFields,
   txRoot |-> txRoot, rest |-> rest, root |-> root]

Genesis == Header(0, None, 0, None, 0, None, "absent", "derived", "derived", "good")

compactAncestorFromHeader(h) == [number |-> h.number, hash |-> h, timestamp |-> h.time]

shastaManifestMixHash(difficulty, number) == <<difficulty, number>>

\* The block that the network's producer builds at a time on a parent whose own
\* parent has a timestamp.
Produced(par, grandparentTime, time) ==
  Header(par.number + 1, par, time,
         IF par.number = 0 THEN 0 ELSE par.time - grandparentTime,
         IF time >= UnzenTime THEN ZkGas[par.number + 1] ELSE 0,
         shastaManifestMixHash(par.difficulty, par.number + 1),
         IF time >= UnzenTime THEN "empty" ELSE "absent", "derived", "derived", "good")

\* A block from before the fork, at genesis time.
EarlyBlock ==
  Header(1, Genesis, 0, 0, 0, shastaManifestMixHash(0, 1), "absent", "derived", "derived", "good")

-----------------------------------------------------------------------------
(* Witnesses *)

\* decodeWitness: there is a header, and none of them is compact.
DecodesWitness(raws) == raws # <<>> /\ \A i \in DOMAIN raws : raws[i] # None

\* decodeWitnessHeaders: the oldest comes first in the document, the parent first here.
decodeWitnessHeaders(raws) == Reverse(raws)

\* Mutation: only the parent in the witness is compared by hash.
validateReplayWitnessByNumber(h, headers) ==
  /\ headers # <<>>
  /\ h.number # 0
  /\ headers[1].number + 1 = h.number
  /\ headers[1] = h.parent
  /\ \A i \in 2..Len(headers) : headers[i - 1].number = headers[i].number + 1

\* The witness holds the parent and then older and older ancestors.
validateReplayWitness(h, headers) ==
  /\ headers # <<>>
  /\ h.number # 0
  /\ headers[1].number + 1 = h.number
  /\ headers[1] = h.parent
  /\ \A i \in 2..Len(headers) :
       /\ headers[i - 1].number = headers[i].number + 1
       /\ headers[i - 1].parent = headers[i]

\* The headers are those of the chain that the block names as its own: its parent,
\* after older and older ancestors.
HonestWitness(h, raws) ==
  /\ DecodesWitness(raws)
  /\ \A i \in DOMAIN raws : raws[i] = IF i = Len(raws) THEN h.parent ELSE raws[i + 1].parent

-----------------------------------------------------------------------------
(* The headers of one block and its ancestors; par is the canonical parent, gp the
   canonical grandparent if there is one. *)

\* Mutation: a parent with the right number will do.
validateManifestHeaderAncestryByNumber(h, par, gp) ==
  /\ h.number = par.number + 1
  /\ par.number # 0 => /\ gp # <<>>
                       /\ gp[1].number + 1 = par.number
                       /\ gp[1].hash = par.parent

validateManifestHeaderAncestry(h, par, gp) ==
  /\ h.number = par.number + 1
  /\ h.parent = par
  /\ par.number # 0 => /\ gp # <<>>
                       /\ gp[1].number + 1 = par.number
                       /\ gp[1].hash = par.parent

manifestParentBlockTime(par, gp) ==
  IF par.number = 0 THEN 0 ELSE par.time - gp[1].timestamp

\* The base fee and the ancestry are checked from the Shasta fork on.
validateManifestHeaderBaseFee(h, par, gp) ==
  IsShasta(h.time) =>
    /\ h.baseFee # None
    /\ validateManifestHeaderAncestry(h, par, gp)
    /\ par.number # 0 => par.baseFee # None /\ par.time >= gp[1].timestamp
    /\ h.baseFee = manifestParentBlockTime(par, gp)

\* The difficulty of an Unzen block is left to the replay.
validateManifestHeaderDifficulty(h) == ~IsUnzen(h.time) => h.difficulty = 0

\* validateManifestHeaderForkFields, validateManifestHeaderStaticFields
validateManifestHeaderForkFields(h) ==
  h.forkFields = IF IsUnzen(h.time) THEN "empty" ELSE "absent"

\* The part of validateManifestBlockBinding before the filter runs.
validateManifestHeader(h, par, gp) ==
  /\ ConfigAvailable
  /\ validateManifestHeaderBaseFee(h, par, gp)
  /\ validateManifestHeaderDifficulty(h)
  /\ validateManifestHeaderForkFields(h)

\* What filterManifestTransactions may leave of the manifest's transactions.  It runs
\* them on the state and the block hashes of the witness, whose headers nothing has
\* tied to the parent yet: unless they happen to be the true ones, any selection may
\* come out.  It fails when the witness lacks a node of the state.
filterManifestTransactions(h, raws) ==
  {"derived", "failed"}
  \cup (IF HonestWitness(h, raws) /\ h.parent.root = "good" THEN {} ELSE {"other"})

validateManifestTransactionRoot(h, filtered) == h.txRoot = filtered

validateManifestBlockBinding(h, filtered, time, par, gp) ==
  /\ validateManifestHeader(h, par, gp)
  /\ validateManifestTransactionRoot(h, filtered)
  /\ h.time = time
  /\ h.rest = "derived"
  /\ h.mix = shastaManifestMixHash(par.difficulty, h.number)

-----------------------------------------------------------------------------
(* The proposal's ancestors.  An entry is a full header, or a compact one whose
   number and time are not bound to its hash. *)

Full(h) == [header |-> <<h>>, compact |-> compactAncestorFromHeader(h)]
Compact(number, hash, timestamp) ==
  [header |-> <<>>,
   compact |-> [number |-> number, hash |-> hash, timestamp |-> timestamp]]

\* Mutation: a compact entry will do for the grandparent.
decodeProposalAncestorHeaderContextCompact(entries) ==
  /\ entries # <<>>
  /\ entries[Len(entries)].header # <<>>

\* decodeProposalAncestorHeaderContext: the last entry is the parent and the one
\* before it the grandparent; both have to be full.
decodeProposalAncestorHeaderContext(entries) ==
  /\ entries # <<>>
  /\ entries[Len(entries)].header # <<>>
  /\ Len(entries) > 1 => entries[Len(entries) - 1].header # <<>>

GrandparentOf(entries) ==
  IF Len(entries) > 1 THEN <<entries[Len(entries) - 1].compact>> ELSE <<>>

\* What an honest client sends for the head: no grandparent for genesis.
HonestAncestors ==
  IF Len(chain) = 1 THEN <<Full(L2Head)>> ELSE <<Full(chain[Len(chain) - 1]), Full(L2Head)>>

-----------------------------------------------------------------------------
(* Steps *)

Reset ==
  /\ parent0' = None /\ derived' = <<>>
  /\ canonicalParent' = None /\ canonicalGrandparent' = <<>>
  /\ bound' = <<>> /\ witnesses' = <<>>
  /\ replayed' = 0 /\ relied' = {} /\ honest' = TRUE

\* A chain that starts with Shasta, or one with a block from before it.
Init ==
  /\ chain \in {<<Genesis>>, <<Genesis, EarlyBlock>>}
  /\ upstream \in Upstreams
  /\ phase = "idle"
  /\ parent0 = None /\ derived = <<>>
  /\ canonicalParent = None /\ canonicalGrandparent = <<>>
  /\ bound = <<>> /\ witnesses = <<>>
  /\ replayed = 0 /\ relied = {} /\ honest = TRUE

\* Derivation gives every block a later time than its parent's.
Derivable(times, par) ==
  \A i \in DOMAIN times :
    /\ times[i] >= ForkTime
    /\ times[i] > (IF i = 1 THEN par.time ELSE times[i - 1])

\* A guest input arrives: the parent hash of its carry, the ancestors and the
\* derived blocks.
Submit(par, entries, times) ==
  /\ phase = "idle"
  /\ par.number + Len(times) <= MaxNumber
  /\ Derivable(times, par)
  /\ parent0' = par /\ derived' = times
  /\ honest' = (par = L2Head /\ entries = HonestAncestors)
  /\ IF /\ ConfigAvailable
        /\ decodeProposalAncestorHeaderContext(entries)
        /\ entries[Len(entries)].header = <<par>>
     THEN /\ phase' = "binding"
          /\ canonicalParent' = par
          /\ canonicalGrandparent' = GrandparentOf(entries)
     ELSE phase' = "rejected" /\ UNCHANGED <<canonicalParent, canonicalGrandparent>>
  /\ UNCHANGED <<chain, upstream, bound, witnesses, replayed, relied>>

\* A guest input that does not decode, is for an unsupported chain, whose carry or
\* sources fail the checks before the headers are looked at, or that has not as many
\* witnesses as there are derived blocks.
SubmitMalformed ==
  /\ phase = "idle"
  /\ phase' = "rejected" /\ honest' = FALSE
  /\ UNCHANGED <<chain, upstream, parent0, derived, canonicalParent, canonicalGrandparent,
                 bound, witnesses, replayed, relied>>

\* The next block of an honest client.
HonestBlock ==
  Produced(canonicalParent,
           IF canonicalGrandparent = <<>> THEN 0 ELSE canonicalGrandparent[1].timestamp,
           derived[Len(bound) + 1])

\* Mutation: the grandparent of the first block is used for all of them.
RollForwardParentOnly(h) ==
  /\ canonicalParent' = h /\ UNCHANGED canonicalGrandparent

RollForward(h) ==
  /\ canonicalParent' = h
  /\ canonicalGrandparent' = <<compactAncestorFromHeader(canonicalParent)>>

\* One turn of the loop over the derived blocks.  The filter has read the whole witness
\* once the checks before it have passed.
BindBlock(h, raws, filtered) ==
  /\ phase = "binding" /\ Len(bound) < Len(derived)
  /\ filtered \in filterManifestTransactions(h, raws)
  /\ honest' = (honest /\ h = HonestBlock /\ HonestWitness(h, raws) /\ filtered # "failed")
  /\ relied' = IF /\ DecodesWitness(raws)
                  /\ validateManifestHeader(h, canonicalParent, canonicalGrandparent)
               THEN relied \cup Elements(raws) ELSE relied
  /\ IF /\ DecodesWitness(raws)
        /\ validateManifestBlockBinding(h, filtered, derived[Len(bound) + 1],
                                        canonicalParent, canonicalGrandparent)
     THEN /\ bound' = Append(bound, h) /\ witnesses' = Append(witnesses, raws)
          /\ RollForward(h) /\ phase' = phase
     ELSE /\ phase' = "rejected"
          /\ UNCHANGED <<bound, witnesses, canonicalParent, canonicalGrandparent>>
  /\ UNCHANGED <<chain, upstream, parent0, derived, replayed>>

\* readParentL2Storage, for the checkpoints of forced and stalled blocks: the state
\* is read under the root of the parent header in the first witness.  The nodes of the
\* state are complete or not.
ReadParentL2Storage(complete) ==
  /\ phase = "binding" /\ Len(bound) = Len(derived)
  /\ honest' = (honest /\ complete)
  /\ IF decodeWitnessHeaders(witnesses[1])[1] = parent0 /\ complete
     THEN relied' = relied \cup {parent0} /\ phase' = phase
     ELSE phase' = "rejected" /\ UNCHANGED relied
  /\ UNCHANGED <<chain, upstream, parent0, derived, canonicalParent,
                 canonicalGrandparent, bound, witnesses, replayed>>

\* The checks of carry and blocks that have no binding of their own.
FinishBinding ==
  /\ phase = "binding" /\ Len(bound) = Len(derived)
  /\ phase' = "replay"
  /\ UNCHANGED <<chain, upstream, requestVars>>

\* The state root that the EVM computes from the state under the parent's root, with
\* the forks of this build.
ExecutedRoot(h, par) ==
  IF /\ par.root = "good" /\ h.txRoot = "derived"
     /\ \A fork \in ForkNames : IsActive(fork, h.time) <=> h.time >= UnzenTime
  THEN "good" ELSE "other"

\* replayExecutionBlock and the comparison at the end of processUnzenReplayBlock
ZkGasDifficulty(h) == IsUnzen(h.time) => h.difficulty = ZkGas[h.number]

\* validateReplayRequestsHash: from Prague on the execution has a list of requests,
\* an empty one.  The hash of no list is that of an empty list.
RequestsHash(h) ==
  \/ h.forkFields = "absent" /\ ~IsActive("Prague", h.time)
  \/ h.forkFields = "empty"

ReplayAccepts(h, headers) ==
  /\ validateReplayWitness(h, headers)
  /\ ZkGasDifficulty(h)
  /\ RequestsHash(h)
  /\ h.root = ExecutedRoot(h, headers[1])

\* The document of the block is decoded again and replayed; the nodes of the state are
\* complete or not.
ReplayBlock(complete) ==
  /\ phase = "replay" /\ replayed < Len(bound)
  /\ honest' = (honest /\ complete)
  /\ LET raws == witnesses[replayed + 1]
     IN  IF ReplayAccepts(bound[replayed + 1], decodeWitnessHeaders(raws)) /\ complete
         THEN /\ replayed' = replayed + 1 /\ phase' = phase
              /\ relied' = relied \cup Elements(raws)
         ELSE phase' = "rejected" /\ UNCHANGED <<replayed, relied>>
  /\ UNCHANGED <<chain, upstream, parent0, derived, canonicalParent,
                 canonicalGrandparent, bound, witnesses>>

\* The proof is signed.
Sign ==
  /\ phase = "replay" /\ replayed = Len(bound)
  /\ phase' = "proved"
  /\ UNCHANGED <<chain, upstream, requestVars>>

\* L1 settles a proof that builds on the head.
Settle ==
  /\ phase = "proved" /\ parent0 = L2Head
  /\ chain' = chain \o bound
  /\ phase' = "idle" /\ Reset
  /\ UNCHANGED upstream

\* The request is answered and nothing is settled.
EndRequest ==
  /\ phase # "idle"
  /\ phase' = "idle" /\ Reset
  /\ UNCHANGED <<chain, upstream>>

-----------------------------------------------------------------------------
(* What clients may send *)

\* Headers that differ from a genuine one and keep its number.
Forged(h) == {[h EXCEPT !.time = @ + 1], [h EXCEPT !.root = "other"]}

\* Ancestor lists for a parent: full and compact grandparents, true and forged.
AncestorLists(par) ==
  LET true == IF par.parent = None THEN {} ELSE {par.parent}
      grandparents == true \cup UNION {Forged(h) : h \in true \cup {par}}
      compacts == {Compact(h.number, h, t) : h \in true, t \in Times}
  IN  {<<>>, <<Full(par)>>, <<Compact(par.number, par, par.time)>>}
      \cup {<<Full(h), Full(par)>> : h \in grandparents}
      \cup {<<c, Full(par)>> : c \in compacts}
      \cup {<<Full(h)>> : h \in Forged(par)}

OfTime(h, time, difficulty, forkFields, root) ==
  [h EXCEPT !.time = time, !.difficulty = difficulty, !.forkFields = forkFields, !.root = root]

OfAncestors(h, baseFee, mix, root) ==
  [h EXCEPT !.baseFee = baseFee, !.mix = <<mix, @[2]>>, !.root = root]

OfWitness(h, txRoot, root) == [h EXCEPT !.txRoot = txRoot, !.root = root]

\* Headers for the next block that the rules of its fork and its ancestors tell apart.
VariedBlocks ==
  {OfTime(HonestBlock, t, d, k, r) :
     t \in Times, d \in 0..1, k \in ForkFieldValues, r \in RootValues}
  \cup {OfAncestors(HonestBlock, f, m, r) :
          f \in Times \cup {None}, m \in 0..1, r \in RootValues}

\* Headers that are off the chain or off the derivation.
StrayBlocks ==
  {[HonestBlock EXCEPT !.number = @ + 1], [HonestBlock EXCEPT !.rest = "other"]}
  \cup {[HonestBlock EXCEPT !.parent = p] : p \in Forged(canonicalParent)}

\* Headers for the next block that only a reading of the witness tells apart.
FilteredBlocks ==
  {OfWitness(HonestBlock, x, r) : x \in DerivedValues, r \in RootValues}

\* Witnesses for a block on top of p: up to two headers, true and forged, in both
\* orders, and a compact one.
WitnessHeaders(p) ==
  LET g == p.parent
  IN  {<<>>, <<None, p>>, <<p>>} \cup {<<q>> : q \in Forged(p)}
      \cup IF g = None THEN {} ELSE {<<g, p>>, <<p, g>>} \cup {<<q, p>> : q \in Forged(g)}

DerivedTimes == UNION {[1..n -> Times] : n \in 1..MaxBlocks}

Next ==
  \/ \E par \in {L2Head} \cup Forged(L2Head) :
       \E entries \in AncestorLists(par), times \in DerivedTimes : Submit(par, entries, times)
  \/ SubmitMalformed
  \/ /\ phase = "binding" /\ Len(bound) < Len(derived)
     /\ \/ \E h \in VariedBlocks \cup StrayBlocks :
             BindBlock(h, <<canonicalParent>>, "derived")
        \/ \E h \in FilteredBlocks, raws \in WitnessHeaders(canonicalParent),
              filtered \in DerivedValues \cup {"failed"} :
             BindBlock(h, raws, filtered)
  \/ \E complete \in BOOLEAN : ReadParentL2Storage(complete)
  \/ FinishBinding
  \/ \E complete \in BOOLEAN : ReplayBlock(complete)
  \/ Sign
  \/ Settle
  \/ EndRequest

Spec == Init /\ [][Next]_vars

-----------------------------------------------------------------------------
(* Properties *)

\* The state of a request is complete at every step of its checks: a block is bound
\* together with its witness, the blocks bound are a chain that starts on the parent of
\* the carry, and no block is left out of the replay or of the proof.
TypeOK ==
  /\ phase \in {"idle", "binding", "replay", "proved", "rejected"}
  /\ upstream \in Upstreams
  /\ Len(bound) <= Len(derived) /\ replayed <= Len(bound)
  /\ Len(witnesses) = Len(bound)
  /\ \A i \in DOMAIN bound : bound[i].parent = IF i = 1 THEN parent0 ELSE bound[i - 1]
  /\ phase = "idle" => bound = <<>> /\ witnesses = <<>> /\ relied = {} /\ parent0 = None
  /\ phase \in {"replay", "proved"} => Len(bound) = Len(derived)
  /\ phase = "proved" => replayed = Len(bound)
  /\ honest \in BOOLEAN

\* Every settled header is the one that the network's producer builds on the block
\* before it: base fee from the true parent and grandparent times, also across
\* proposals and after genesis, difficulty and mix hash through the fork, fork
\* fields by its own time, and the root of an execution with the right forks.
\* Whatever ancestors and headers clients send, no other header gets in.
CanonicalChain ==
  \A i \in 2..Len(chain) :
    \/ i = 2 /\ chain[2] = EarlyBlock
    \/ chain[i] = Produced(chain[i - 1], IF i = 2 THEN 0 ELSE chain[i - 2].time, chain[i].time)

\* The other direction: on the producer's chain nothing that an honest client sends
\* is rejected, at genesis, at the first Shasta block or across the Unzen fork,
\* unless taiko-geth's fork times disagree.
HonestAccepted == phase = "rejected" => ~honest \/ ~ConfigAvailable

\* Of a request on the head that is proved, everything that was read from a witness
\* (the state and block hashes of the filter, the state for checkpoints, the roots that
\* executions start from) was read from the chain or from the blocks bound before.  The
\* filter reads a witness before anything has tied its headers to the parent; it is the
\* replay, after the blocks are bound, that keeps a request with others from its proof.
ReliesOnChain ==
  phase = "proved" /\ parent0 = L2Head => relied \subseteq Elements(chain) \cup Elements(bound)

=============================================================================
