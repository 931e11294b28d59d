--------------------------- MODULE ManifestDerivation ---------------------------
(***************************************************************************)
(* The derivation of L2 blocks from the sources of a proposal, and the     *)
(* binding of their anchors to L1, along a chain of proposals.             *)
(*                                                                         *)
(* Clients submit guest inputs for the proposal that follows the L2 head;  *)
(* one that is accepted (and whose claimed last anchor the replay then     *)
(* confirms) moves the head.  Coinbase and transactions are left out: they *)
(* are copied or, in an inherited block, replaced along with the rest.     *)
(*                                                                         *)
(* An L1 header is its number and whether it is the block of the canonical *)
(* L1 chain or a forged one; an anchor checkpoint is the header it names.  *)
(***************************************************************************)
EXTENDS Integers, Sequences

CONSTANTS
  MaxAnchorOffset,  \* how far an anchor may lie behind the origin block
  TimeOffset,       \* 12 seconds for each of them
  ForkTime,         \* of the Shasta fork
  AnchorGas, MinGas, MaxGas, MaxChange, Denominator,
  MaxBlocks,        \* of one source
  Word,             \* 2^64
  Undecodable,      \* a source whose blobs hold no manifest
  None,
  Manifests,        \* what sources may hold
  GenesisGas,       \* gas limits that the first parent may have
  Timestamps, Origins, \* of proposals
  MaxSources,       \* bound on the sources of a proposal
  MaxHead           \* bound on the number of the L2 head

ASSUME GasConstants ==
  /\ AnchorGas \in Nat /\ MinGas \in Nat /\ MaxGas \in Nat /\ MinGas <= MaxGas
  /\ GenesisGas \subseteq Nat
  /\ MaxChange \in Nat /\ Denominator \in Nat \ {0} /\ MaxChange <= Denominator
ASSUME TimeConstants ==
  /\ MaxAnchorOffset \in Nat /\ TimeOffset \in Nat /\ ForkTime \in Nat
  /\ Timestamps \subseteq Nat /\ Origins \subseteq Nat
ASSUME WordBounds == Word \in Nat /\ \A o \in Origins : o < Word
ASSUME SourceBounds == MaxBlocks \in Nat \ {0} /\ MaxSources \in Nat /\ MaxHead \in Nat

\* A block of a manifest, before it is executed.
BlockType == [timestamp : Nat, anchor : Nat, gas : Nat]

ASSUME ManifestsTyped ==
  Manifests \subseteq Seq(BlockType) /\ Undecodable \notin Manifests

Header == [number : Nat, canonical : BOOLEAN]

ASSUME NoneAssumption == None \notin Header

VARIABLES
  head,     \* the L2 head: number, time, header gas limit and anchor number
  store,    \* the checkpoints in the head's CheckpointStore
  last,     \* the last proposal that was accepted: timestamp, origin
  phase,    \* "idle", "sources", "derived", "linkage", "linked", "underivable"
  prop,     \* the proposal whose guest input is validated
  claim,    \* its prover_data.last_anchor_block_number
  spans,    \* sourceSpans: [forced, count] of every source so far
  derived,  \* the blocks derived so far
  pending,  \* the checkpoints that are not yet found in the L1 headers
  checkpoints, \* the checkpoints of the witness blocks
  ancestor  \* the last L1 ancestor header read, or None

requestVars == <<prop, claim, spans, derived, pending, checkpoints, ancestor>>
vars == <<head, store, last, phase, requestVars>>

-----------------------------------------------------------------------------
(* Metadata of one block *)

AtLeast(v, bound) == IF v < bound THEN bound ELSE v
AtMost(v, bound) == IF v > bound THEN bound ELSE v

manifestTimestampLowerBound(parentTime, timestamp) ==
  AtLeast(IF timestamp > TimeOffset THEN AtLeast(parentTime + 1, timestamp - TimeOffset)
                                    ELSE parentTime + 1,
          ForkTime)

\* Every block but genesis has the anchor transaction's gas on top.
effectiveManifestParentGasLimit(number, gas) ==
  IF number = 0 THEN gas ELSE IF gas < AnchorGas THEN 0 ELSE gas - AnchorGas

GasUpper(gas) == AtMost((gas * (Denominator + MaxChange)) \div Denominator, MaxGas)

\* manifestGasLimitBounds; the lower bound never lies above the upper one.
GasLower(gas) ==
  AtMost(AtLeast((gas * (Denominator - MaxChange)) \div Denominator, MinGas), GasUpper(gas))

-----------------------------------------------------------------------------
(* The manifest of one source.  par is the block it builds on. *)

defaultSourceManifest == <<[timestamp |-> 0, anchor |-> 0, gas |-> 0]>>

\* decodeBlobBackedSourceManifest: what cannot be decoded counts as empty.
decodeSourceManifest(content) ==
  IF content = Undecodable THEN defaultSourceManifest
  ELSE IF Len(content) > MaxBlocks THEN defaultSourceManifest ELSE content

\* A default manifest with applyInheritedManifestMetadata.  It is only ever
\* applied to one block.
InheritedManifest(par, p) ==
  <<[timestamp |-> manifestTimestampLowerBound(par.time, p.timestamp),
     anchor |-> par.anchor,
     gas |-> effectiveManifestParentGasLimit(par.number, par.gas)]>>

validateManifestTimestamps(m, par, p) ==
  \A i \in 1..Len(m) :
    LET parentTime == IF i = 1 THEN par.time ELSE m[i - 1].timestamp
    IN  /\ manifestTimestampLowerBound(parentTime, p.timestamp) <= m[i].timestamp
        /\ m[i].timestamp <= p.timestamp

\* Mutation: the anchors of a source need not follow the last anchor.
validateManifestAnchorRange(m, lastAnchor, origin) ==
  \A i \in 1..Len(m) :
    /\ origin <= m[i].anchor + MaxAnchorOffset
    /\ m[i].anchor <= origin
    /\ i > 1 => m[i - 1].anchor <= m[i].anchor

\* The blocks' anchors never regress and lie within the offset of the origin.
validateManifestAnchorProgression(m, lastAnchor, origin) ==
  \A i \in 1..Len(m) :
    /\ lastAnchor <= m[i].anchor
    /\ origin <= m[i].anchor + MaxAnchorOffset
    /\ m[i].anchor <= origin
    /\ i > 1 => m[i - 1].anchor <= m[i].anchor

\* A forced source stays at the anchor, a normal one has to move it.
validateManifestAnchorNumbers(m, par, p, forced) ==
  IF forced
  THEN \A i \in 1..Len(m) : m[i].anchor = par.anchor
  ELSE /\ validateManifestAnchorProgression(m, par.anchor, p.origin)
       /\ \E i \in 1..Len(m) : m[i].anchor > par.anchor

\* Mutation: every block is compared with the bounds of the first one's parent.
validateManifestGasLimitUpper(m, par) ==
  \A i \in 1..Len(m) :
    m[i].gas <= GasUpper(effectiveManifestParentGasLimit(par.number, par.gas))

validateManifestGasLimit(m, par) ==
  \A i \in 1..Len(m) :
    LET parentGas == IF i = 1 THEN effectiveManifestParentGasLimit(par.number, par.gas)
                              ELSE m[i - 1].gas
    IN  GasLower(parentGas) <= m[i].gas /\ m[i].gas <= GasUpper(parentGas)

validateSourceManifest(m, par, p, forced) ==
  /\ Len(m) > 0
  /\ validateManifestTimestamps(m, par, p)
  /\ validateManifestAnchorNumbers(m, par, p, forced)
  /\ validateManifestGasLimit(m, par)

\* A forced source has one block, with inherited metadata; a source that does not
\* validate is replaced by one empty block.  No source can fail.
prepareSourceManifest(content, forced, par, p) ==
  LET m == decodeSourceManifest(content)
      filled == IF forced \/ m = defaultSourceManifest THEN InheritedManifest(par, p) ELSE m
  IN  IF validateSourceManifest(filled, par, p, forced) THEN filled
      ELSE InheritedManifest(par, p)

-----------------------------------------------------------------------------
(* The chain *)

\* Every request starts with empty lists.
Idle ==
  /\ prop' = None /\ claim' = 0 /\ spans' = <<>> /\ derived' = <<>>
  /\ pending' = <<>> /\ checkpoints' = <<>> /\ ancestor' = None

\* The anchor of the first head has a checkpoint; its gas limit may come from an
\* earlier fork with other bounds.
Init ==
  /\ \E g \in GenesisGas : head = [number |-> 0, time |-> 0, gas |-> g, anchor |-> 0]
  /\ store = {[number |-> 0, canonical |-> TRUE]}
  /\ last = [timestamp |-> 0, origin |-> 0]
  /\ phase = "idle"
  /\ prop = None /\ claim = 0 /\ spans = <<>> /\ derived = <<>>
  /\ pending = <<>> /\ checkpoints = <<>> /\ ancestor = None

\* A guest input for the next proposal arrives; its last anchor is a claim.
\* Proposals follow the L1 chain, in time and in origin block.
Submit(timestamp, origin, lastAnchor) ==
  /\ phase = "idle"
  /\ last.timestamp <= timestamp /\ last.origin <= origin
  /\ phase' = "sources"
  /\ prop' = [timestamp |-> timestamp, origin |-> origin]
  /\ claim' = lastAnchor
  /\ UNCHANGED <<head, store, last, spans, derived, pending, checkpoints, ancestor>>

\* The parent context of the next source.
ParentContext ==
  IF derived = <<>>
  THEN [number |-> head.number, time |-> head.time, gas |-> head.gas, anchor |-> claim]
  ELSE [number |-> head.number + Len(derived),
        time |-> derived[Len(derived)].timestamp,
        gas |-> derived[Len(derived)].gas + AnchorGas,
        anchor |-> derived[Len(derived)].anchor]

\* Mutation: the span counts the blocks that the source holds, also when they were
\* replaced.
PrepareSourceCountsHeld(content, forced) ==
  /\ phase = "sources" /\ Len(spans) < MaxSources
  /\ LET m == prepareSourceManifest(content, forced, ParentContext, prop)
     IN  /\ derived' = derived \o m
         /\ spans' = Append(spans, [forced |-> forced,
                                   count |-> Len(decodeSourceManifest(content))])
  /\ UNCHANGED <<head, store, last, phase, prop, claim, pending, checkpoints, ancestor>>

\* One turn of the loop over the proposal's sources.
PrepareSource(content, forced) ==
  /\ phase = "sources" /\ Len(spans) < MaxSources
  /\ LET m == prepareSourceManifest(content, forced, ParentContext, prop)
     IN  /\ derived' = derived \o m
         /\ spans' = Append(spans, [forced |-> forced, count |-> Len(m)])
  /\ UNCHANGED <<head, store, last, phase, prop, claim, pending, checkpoints, ancestor>>

\* The blocks before the last source's.
ForcedPrefix == Len(derived) - spans[Len(spans)].count

\* Mutation: the origin has to be ahead of the anchor for a stall.
StalledBelowOrigin(anchors) ==
  /\ anchors # <<>>
  /\ anchors[1] = claim
  /\ prop.origin > anchors[1] + MaxAnchorOffset + 1
  /\ \A i \in 1..Len(anchors) : anchors[i] = anchors[1]

\* Every anchor stays at the last one, which is too old for the origin; the
\* difference is a uint64.
shouldBypassStalledAnchorLinkage(anchors) ==
  /\ anchors # <<>>
  /\ anchors[1] = claim
  /\ (prop.origin - anchors[1]) % Word > MaxAnchorOffset
  /\ \A i \in 1..Len(anchors) : anchors[i] = anchors[1]

Anchors == [i \in 1..Len(derived) |-> derived[i].anchor]

\* Only the last source is normal.
LegalLayout ==
  /\ ~spans[Len(spans)].forced
  /\ \A i \in 1..(Len(spans) - 1) : spans[i].forced

validateSourceAwareManifestAnchors ==
  /\ LegalLayout
  /\ \A i \in 1..Len(spans) : spans[i].count > 0
  /\ \A i \in 1..ForcedPrefix : derived[i].anchor = claim
  /\ \/ shouldBypassStalledAnchorLinkage(Anchors)
     \/ validateManifestAnchorProgression(
          SubSeq(derived, ForcedPrefix + 1, Len(derived)), claim, prop.origin)

\* The sources are done.
FinishSources ==
  /\ phase = "sources" /\ spans # <<>>
  /\ phase' = IF validateSourceAwareManifestAnchors THEN "derived" ELSE "underivable"
  /\ UNCHANGED <<head, store, last, requestVars>>

\* verifiedParentShastaCheckpoint: the parent state holds this checkpoint for the
\* claimed anchor.
IsParentCheckpoint(c) == c \in store /\ c.number = claim

\* validateManifestAnchorTransaction: the checkpoint of block i has the derived
\* number; whether its hashes are genuine is not known yet.
AnchorCheckpoint(i, genuine) == [number |-> derived[i].anchor, canonical |-> genuine[i]]

\* The witness blocks have the derived metadata and one anchor transaction each.
BoundCheckpoints(genuine) == [i \in 1..Len(derived) |-> AnchorCheckpoint(i, genuine)]

\* Mutation: forced blocks may name any checkpoint.
BindBlocksUnchecked(genuine) ==
  /\ phase = "derived"
  /\ LET cs == BoundCheckpoints(genuine)
     IN  /\ checkpoints' = cs
         /\ IF shouldBypassStalledAnchorLinkage(Anchors)
            THEN /\ \A i \in 1..Len(cs) : IsParentCheckpoint(cs[i])
                 /\ phase' = "linked" /\ pending' = <<>>
            ELSE /\ phase' = "linkage" /\ pending' = SubSeq(cs, ForcedPrefix + 1, Len(cs))
  /\ UNCHANGED <<head, store, last, prop, claim, spans, derived, ancestor>>

\* The checkpoints of a stall and of forced blocks are compared with the parent
\* state, the others are left to the L1 headers.
BindBlocks(genuine) ==
  /\ phase = "derived"
  /\ LET cs == BoundCheckpoints(genuine)
     IN  /\ checkpoints' = cs
         /\ IF shouldBypassStalledAnchorLinkage(Anchors)
            THEN /\ \A i \in 1..Len(cs) : IsParentCheckpoint(cs[i])
                 /\ phase' = "linked" /\ pending' = <<>>
            ELSE /\ \A i \in 1..ForcedPrefix : IsParentCheckpoint(cs[i])
                 /\ phase' = "linkage" /\ pending' = SubSeq(cs, ForcedPrefix + 1, Len(cs))
  /\ UNCHANGED <<head, store, last, prop, claim, spans, derived, ancestor>>

\* h continues the L1 headers read so far.  A forged header can name any parent;
\* the parent hash of a canonical one fits only a canonical header.
Continues(h) ==
  ancestor # None =>
    /\ h.number = ancestor.number + 1
    /\ h.canonical => ancestor.canonical

\* The next of taiko.l1_ancestor_headers: the n pending checkpoints with its number
\* have to be this header.
ReadAncestor(h, n) ==
  /\ phase = "linkage"
  /\ h.number <= prop.origin \* later ones cannot end in the origin block
  /\ Continues(h)
  /\ n <= Len(pending)
  /\ \A i \in 1..n : pending[i] = h
  /\ n < Len(pending) => pending[n + 1].number # h.number
  /\ pending' = SubSeq(pending, n + 1, Len(pending))
  /\ ancestor' = h
  /\ UNCHANGED <<head, store, last, phase, prop, claim, spans, derived, checkpoints>>

\* The last header is the origin block itself, by hash.
FinishLinkage ==
  /\ phase = "linkage" /\ pending = <<>>
  /\ ancestor # None
  /\ ancestor = [number |-> prop.origin, canonical |-> TRUE]
  /\ phase' = "linked"
  /\ UNCHANGED <<head, store, last, requestVars>>

\* The replay confirms the claimed anchor and the proof is signed: the proposal's
\* blocks, with their checkpoints, are the chain that the next one builds on.
Advance ==
  /\ phase = "linked" /\ claim = head.anchor
  /\ head.number < MaxHead
  /\ head' = [number |-> head.number + Len(derived),
              time |-> derived[Len(derived)].timestamp,
              gas |-> derived[Len(derived)].gas + AnchorGas,
              anchor |-> derived[Len(derived)].anchor]
  /\ store' = store \cup {checkpoints[i] : i \in 1..Len(checkpoints)}
  /\ last' = prop
  /\ phase' = "idle" /\ Idle

\* The request fails: a check above, missing data, or the replay.
Drop ==
  /\ phase # "idle"
  /\ phase' = "idle" /\ Idle
  /\ UNCHANGED <<head, store, last>>

Next ==
  \/ \E t \in Timestamps, o \in Origins : \E a \in Origins \cup {0} : Submit(t, o, a)
  \/ \E content \in Manifests \cup {Undecodable}, forced \in BOOLEAN :
       PrepareSource(content, forced)
  \/ FinishSources
  \/ \E genuine \in [1..Len(derived) -> BOOLEAN] : BindBlocks(genuine)
  \/ \E number \in Origins \cup {0}, canonical \in BOOLEAN, n \in 0..Len(pending) :
       ReadAncestor([number |-> number, canonical |-> canonical], n)
  \/ FinishLinkage
  \/ Advance
  \/ Drop

Spec == Init /\ [][Next]_vars

-----------------------------------------------------------------------------
(* Properties *)

\* The types; a request leaves nothing behind, every derived block that is bound has
\* one checkpoint, and the span of the last source lies within the derived blocks
\* (the prefix before it is what a slice is cut at).
TypeOK ==
  /\ head \in [number : Nat, time : Nat, gas : Nat, anchor : Nat]
  /\ store \subseteq Header
  /\ last \in [timestamp : Nat, origin : Nat]
  /\ phase \in {"idle", "sources", "derived", "linkage", "linked", "underivable"}
  /\ IF phase = "idle" THEN prop = None /\ spans = <<>> /\ derived = <<>>
                       ELSE prop \in [timestamp : Timestamps, origin : Origins]
  /\ phase \in {"linkage", "linked"} => Len(checkpoints) = Len(derived)
  /\ claim \in Nat
  /\ spans \in Seq([forced : BOOLEAN, count : Nat])
  /\ derived \in Seq(BlockType)
  /\ spans # <<>> => spans[Len(spans)].count <= Len(derived)
  /\ pending \in Seq(Header) /\ checkpoints \in Seq(Header)
  /\ ancestor \in Header \cup {None}

\* Whatever the sources hold, each derived block is later than its parent and not
\* before the fork, and its gas limit is never further outside the absolute bounds
\* than the parent's was: once inside, the limit never leaves them, however forced,
\* replaced and decoded sources alternate.
DerivedWellFormed ==
  \A i \in 1..Len(derived) :
    LET parentGas == IF i = 1 THEN effectiveManifestParentGasLimit(head.number, head.gas)
                              ELSE derived[i - 1].gas
    IN  /\ derived[i].timestamp > (IF i = 1 THEN head.time ELSE derived[i - 1].timestamp)
        /\ derived[i].timestamp >= ForkTime
        /\ derived[i].gas >= MinGas \/ derived[i].gas >= parentGas
        /\ derived[i].gas <= MaxGas \/ derived[i].gas <= parentGas

\* Every proposal that L1 accepts can be derived: if only the last source is normal
\* and the client names the real last anchor, the derivation never ends in an
\* error, also when every source is garbage and the anchor has long been stalled.
DerivationTotal ==
  phase = "underivable" => ~LegalLayout \/ claim # head.anchor

\* Every checkpoint that gets into L2 state is a canonical L1 block, no later than
\* the origin of a proposal: forged headers and unverified checkpoints are
\* never accepted, whether by stall, by forced inclusion or by linkage.
CheckpointsOnL1 ==
  \A c \in store : c.canonical /\ c.number <= last.origin

\* A proposal moves the head forward in time; the anchors of its blocks never move
\* back, and each one either stays at the head's or lies in the window before the
\* origin block.
HeadAdvances ==
  [][head' # head =>
       /\ head'.number > head.number /\ head'.time > head.time
       /\ \A i \in 1..Len(derived) :
            LET anchor == derived[i].anchor
            IN  /\ anchor >= (IF i = 1 THEN head.anchor ELSE derived[i - 1].anchor)
                /\ \/ anchor = head.anchor
                   \/ last'.origin - MaxAnchorOffset <= anchor /\ anchor <= last'.origin]_vars

=============================================================================
