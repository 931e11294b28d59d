------------------------ MODULE ManifestDerivationProofs ------------------------
(***************************************************************************)
(* Proofs about ManifestDerivation, for every set of manifests, proposals  *)
(* and first gas limits, any offsets and bounds, any number of sources and *)
(* chains of any length.                                                   *)
(***************************************************************************)
EXTENDS ManifestDerivation, WellFoundedInduction, TLAPS

\* The sources done so far account for the blocks derived so far.
SpansFit ==
  /\ spans = <<>> => derived = <<>>
  /\ \A i \in 1..Len(spans) : spans[i].count > 0
  /\ spans # <<>> => spans[Len(spans)].count <= Len(derived)

\* Every derived block is later than the head.
TimesAhead == \A i \in 1..Len(derived) : derived[i].timestamp > head.time

AllForced(n) == \A i \in 1..n : spans[i].forced = TRUE
Stays(i) == derived[i].anchor = claim

\* Block i of the last source is in the window of the origin and does not go back.
Progresses(i) ==
  /\ claim <= derived[i].anchor
  /\ prop.origin <= derived[i].anchor + MaxAnchorOffset
  /\ derived[i].anchor <= prop.origin
  /\ i > ForcedPrefix + 1 => derived[i - 1].anchor <= derived[i].anchor

\* Forced sources stay at the claimed anchor; a normal source after them stays
\* there as a whole or progresses.
AnchorsFit ==
  /\ AllForced(Len(spans)) => \A i \in 1..Len(derived) : Stays(i)
  /\ spans # <<>> /\ AllForced(Len(spans) - 1) =>
       /\ \A i \in 1..ForcedPrefix : Stays(i)
       /\ \/ \A i \in 1..Len(derived) : Stays(i)
          \/ \A i \in (ForcedPrefix + 1)..Len(derived) : Progresses(i)

\* The head's anchor lies behind every origin that is still to come.
OriginsAhead ==
  /\ head.anchor <= last.origin
  /\ phase # "idle" => last.origin <= prop.origin

\* What the checks of a request that goes on have established.
ChecksPassed ==
  phase \in {"derived", "linkage", "linked"} =>
    spans # <<>> /\ validateSourceAwareManifestAnchors

\* The checkpoints that are no longer pending are in the parent state, or were read
\* from headers that lead to the last one.
LinkageFits ==
  phase = "linkage" =>
    /\ Len(pending) <= Len(checkpoints)
    /\ \A i \in 1..Len(pending) :
         pending[i] = checkpoints[Len(checkpoints) - Len(pending) + i]
    /\ \A i \in 1..(Len(checkpoints) - Len(pending)) :
         \/ checkpoints[i] \in store
         \/ /\ ancestor # None
            /\ ancestor.canonical = TRUE => checkpoints[i].canonical = TRUE
            /\ checkpoints[i].number <= prop.origin

LinkedFits ==
  phase = "linked" =>
    \A i \in 1..Len(checkpoints) :
      checkpoints[i].canonical = TRUE /\ checkpoints[i].number <= prop.origin

Inv ==
  /\ TypeOK /\ DerivedWellFormed /\ DerivationTotal /\ CheckpointsOnL1
  /\ SpansFit /\ TimesAhead /\ AnchorsFit /\ OriginsAhead
  /\ ChecksPassed /\ LinkageFits /\ LinkedFits

-----------------------------------------------------------------------------
(* Numbers *)

Less == {p \in Nat \X Nat : p[1] < p[2]}

\* Every set of naturals that is not empty has a least element.
LEMMA LeastElement ==
  ASSUME NEW S \in SUBSET Nat, S # {}
  PROVE  \E x \in S : \A y \in S : x <= y
<1>1. IsWellFoundedOn(Less, Nat)
  BY NatLessThanWellFounded, Zenon DEF OpToRel, Less
<1>2. PICK x \in S : \A y \in S : <<y, x>> \notin Less
  BY <1>1, WFMin, Zenon
<1>3. \A y \in S : ~(y < x)
  BY <1>2 DEF Less
<1> QED
  BY <1>3

\* The blocks of a list that starts after t, and in which each follows the one
\* before it, all follow t.
LEMMA IncreasingFromStart ==
  ASSUME NEW m \in Seq(BlockType), NEW t \in Nat,
         \A i \in 1..Len(m) : m[i].timestamp > (IF i = 1 THEN t ELSE m[i - 1].timestamp)
  PROVE  \A i \in 1..Len(m) : m[i].timestamp > t
<1> DEFINE Late == {i \in 1..Len(m) : ~(m[i].timestamp > t)}
<1> SUFFICES ASSUME Late # {} PROVE FALSE
  OBVIOUS
<1>1. PICK i \in Late : \A j \in Late : i <= j
  BY LeastElement, Late \in SUBSET Nat
<1>2. i # 1
  BY <1>1
<1>3. i - 1 \in 1..Len(m) /\ i - 1 \notin Late
  BY <1>1, <1>2
<1>4. m[i - 1].timestamp > t /\ m[i].timestamp > m[i - 1].timestamp
  BY <1>1, <1>2, <1>3
<1>5. m[i].timestamp \in Nat /\ m[i - 1].timestamp \in Nat
  <2>1. i \in 1..Len(m)
    BY <1>1
  <2>2. m[i] \in BlockType /\ m[i - 1] \in BlockType
    BY <1>3, <2>1
  <2> QED
    BY <2>2 DEF BlockType
<1> QED
  BY <1>1, <1>4, <1>5

\* Growing by a fraction does not shrink a gas limit.
LEMMA GrownGas ==
  ASSUME NEW g \in Nat
  PROVE  /\ (g * (Denominator + MaxChange)) \div Denominator \in Int
         /\ (g * (Denominator + MaxChange)) \div Denominator >= g
<1> DEFINE a == g * (Denominator + MaxChange)
           q == a \div Denominator
<1>1. Denominator \in Nat \ {0} /\ MaxChange \in Nat
  BY GasConstants
<1>2. a \in Nat /\ q \in Int
  BY <1>1
<1>3. a = Denominator * q + (a % Denominator) /\ a % Denominator < Denominator
      /\ a % Denominator \in Nat
  BY <1>1, <1>2
<1>4. a = Denominator * g + g * MaxChange /\ g * MaxChange >= 0
  BY <1>1
<1>5. ASSUME q < g PROVE FALSE
  <2>1. Denominator * q <= Denominator * (g - 1)
    BY <1>1, <1>2, <1>5
  <2> HIDE DEF a, q
  <2> QED
    BY <1>1, <1>2, <1>3, <1>4, <2>1
<1> QED
  BY <1>2, <1>5

\* manifestGasLimitBounds: a limit within the bounds is not further outside the
\* absolute bounds than the parent's.
LEMMA GasWithinBounds ==
  ASSUME NEW g \in Nat, NEW parentGas \in Nat,
         GasLower(parentGas) <= g, g <= GasUpper(parentGas)
  PROVE  (g >= MinGas \/ g >= parentGas) /\ (g <= MaxGas \/ g <= parentGas)
<1> DEFINE up == (parentGas * (Denominator + MaxChange)) \div Denominator
           down == (parentGas * (Denominator - MaxChange)) \div Denominator
<1>1. up \in Int /\ up >= parentGas
  BY GrownGas
<1>2. down \in Int
  BY GasConstants
<1>3. MinGas \in Nat /\ MaxGas \in Nat /\ MinGas <= MaxGas
  BY GasConstants
<1>4. GasUpper(parentGas) = AtMost(up, MaxGas)
      /\ GasLower(parentGas) = AtMost(AtLeast(down, MinGas), AtMost(up, MaxGas))
  BY DEF GasUpper, GasLower
<1> HIDE DEF up, down
<1> QED
  BY <1>1, <1>2, <1>3, <1>4 DEF AtMost, AtLeast

\* A derived block is later than its parent and not before the fork.
LEMMA TimestampBound ==
  ASSUME NEW t \in Nat, NEW timestamp \in Nat
  PROVE  /\ manifestTimestampLowerBound(t, timestamp) \in Nat
         /\ manifestTimestampLowerBound(t, timestamp) > t
         /\ manifestTimestampLowerBound(t, timestamp) >= ForkTime
BY TimeConstants DEF manifestTimestampLowerBound, AtLeast

LEMMA ParentGasType ==
  ASSUME NEW number \in Nat, NEW gas \in Nat
  PROVE  effectiveManifestParentGasLimit(number, gas) \in Nat
BY GasConstants DEF effectiveManifestParentGasLimit

-----------------------------------------------------------------------------
(* What one source is turned into *)

Parent == [number : Nat, time : Nat, gas : Nat, anchor : Nat]
Proposal == [timestamp : Timestamps, origin : Origins]

LEMMA ProposalType ==
  ASSUME NEW p \in Proposal
  PROVE  p.timestamp \in Nat /\ p.origin \in Nat /\ p.origin < Word
BY TimeConstants, WordBounds DEF Proposal

LEMMA InheritedType ==
  ASSUME NEW par \in Parent, NEW p \in Proposal
  PROVE  /\ InheritedManifest(par, p) \in Seq(BlockType)
         /\ Len(InheritedManifest(par, p)) = 1
         /\ InheritedManifest(par, p)[1].timestamp =
              manifestTimestampLowerBound(par.time, p.timestamp)
         /\ InheritedManifest(par, p)[1].anchor = par.anchor
         /\ InheritedManifest(par, p)[1].gas =
              effectiveManifestParentGasLimit(par.number, par.gas)
<1> DEFINE b == [timestamp |-> manifestTimestampLowerBound(par.time, p.timestamp),
                 anchor |-> par.anchor,
                 gas |-> effectiveManifestParentGasLimit(par.number, par.gas)]
<1>1. p.timestamp \in Nat
  BY ProposalType
<1>2. par.number \in Nat /\ par.time \in Nat /\ par.gas \in Nat /\ par.anchor \in Nat
  BY DEF Parent
<1>3. b \in BlockType
  BY <1>1, <1>2, TimestampBound, ParentGasType DEF BlockType
<1>4. InheritedManifest(par, p) = <<b>>
  BY DEF InheritedManifest
<1> HIDE DEF b
<1>5. <<b>> \in Seq(BlockType) /\ Len(<<b>>) = 1 /\ <<b>>[1] = b
  BY <1>3
<1>6. /\ b.timestamp = manifestTimestampLowerBound(par.time, p.timestamp)
      /\ b.anchor = par.anchor
      /\ b.gas = effectiveManifestParentGasLimit(par.number, par.gas)
  BY DEF b
<1> QED
  BY <1>4, <1>5, <1>6

LEMMA DecodedType ==
  ASSUME NEW content \in Manifests \cup {Undecodable}
  PROVE  decodeSourceManifest(content) \in Seq(BlockType)
<1>1. defaultSourceManifest \in Seq(BlockType)
  BY DEF defaultSourceManifest, BlockType
<1> QED
  BY <1>1, ManifestsTyped DEF decodeSourceManifest

\* A source becomes a manifest that validates, or an inherited one; a forced source
\* always the latter.
LEMMA PreparedCases ==
  ASSUME NEW content \in Manifests \cup {Undecodable}, NEW forced \in BOOLEAN,
         NEW par \in Parent, NEW p \in Proposal
  PROVE  LET m == prepareSourceManifest(content, forced, par, p)
         IN  \/ m = InheritedManifest(par, p)
             \/ /\ ~forced /\ m \in Seq(BlockType)
                /\ validateSourceManifest(m, par, p, FALSE)
<1> DEFINE d == decodeSourceManifest(content)
<1>1. d \in Seq(BlockType)
  BY DecodedType
<1>2. CASE forced \/ d = defaultSourceManifest
  BY <1>2 DEF prepareSourceManifest
<1>3. CASE ~forced /\ d # defaultSourceManifest
  BY <1>1, <1>3 DEF prepareSourceManifest
<1> QED
  BY <1>2, <1>3

\* The blocks that follow a parent, as DerivedWellFormed says it of all of them.
FollowWell(m, parentTime, parentGas) ==
  \A i \in 1..Len(m) :
    LET gas == IF i = 1 THEN parentGas ELSE m[i - 1].gas
    IN  /\ m[i].timestamp > (IF i = 1 THEN parentTime ELSE m[i - 1].timestamp)
        /\ m[i].timestamp >= ForkTime
        /\ m[i].gas >= MinGas \/ m[i].gas >= gas
        /\ m[i].gas <= MaxGas \/ m[i].gas <= gas

LEMMA ValidatedFollow ==
  ASSUME NEW m \in Seq(BlockType), NEW par \in Parent, NEW p \in Proposal,
         validateManifestTimestamps(m, par, p), validateManifestGasLimit(m, par)
  PROVE  FollowWell(m, par.time, effectiveManifestParentGasLimit(par.number, par.gas))
<1> DEFINE first == effectiveManifestParentGasLimit(par.number, par.gas)
<1>1. par.time \in Nat /\ first \in Nat /\ p.timestamp \in Nat
  BY ProposalType, ParentGasType DEF Parent
<1>2. ASSUME NEW i \in 1..Len(m)
      PROVE  /\ m[i].timestamp \in Nat /\ m[i].gas \in Nat
             /\ i # 1 => m[i - 1].timestamp \in Nat /\ m[i - 1].gas \in Nat
  <2>1. m[i] \in BlockType /\ (i # 1 => m[i - 1] \in BlockType)
    BY <1>2
  <2> QED
    BY <2>1 DEF BlockType
<1>3. ASSUME NEW i \in 1..Len(m)
      PROVE  LET t == IF i = 1 THEN par.time ELSE m[i - 1].timestamp
             IN  m[i].timestamp > t /\ m[i].timestamp >= ForkTime
  <2> DEFINE t == IF i = 1 THEN par.time ELSE m[i - 1].timestamp
  <2>1. t \in Nat
    BY <1>1, <1>2
  <2>2. manifestTimestampLowerBound(t, p.timestamp) <= m[i].timestamp
    BY DEF validateManifestTimestamps
  <2> HIDE DEF t
  <2>3. /\ manifestTimestampLowerBound(t, p.timestamp) \in Nat
        /\ manifestTimestampLowerBound(t, p.timestamp) > t
        /\ manifestTimestampLowerBound(t, p.timestamp) >= ForkTime
    BY <1>1, <2>1, TimestampBound
  <2>4. m[i].timestamp > t /\ m[i].timestamp >= ForkTime
    BY <1>2, <2>1, <2>2, <2>3, TimeConstants
  <2> QED
    BY <2>4 DEF t
<1>4. ASSUME NEW i \in 1..Len(m)
      PROVE  LET gas == IF i = 1 THEN first ELSE m[i - 1].gas
             IN  /\ m[i].gas >= MinGas \/ m[i].gas >= gas
                 /\ m[i].gas <= MaxGas \/ m[i].gas <= gas
  <2> DEFINE gas == IF i = 1 THEN first ELSE m[i - 1].gas
  <2>1. gas \in Nat
    BY <1>1, <1>2
  <2>2. GasLower(gas) <= m[i].gas /\ m[i].gas <= GasUpper(gas)
    BY DEF validateManifestGasLimit
  <2> HIDE DEF gas
  <2>3. /\ m[i].gas >= MinGas \/ m[i].gas >= gas
        /\ m[i].gas <= MaxGas \/ m[i].gas <= gas
    BY <1>2, <2>1, <2>2, GasWithinBounds
  <2> QED
    BY <2>3 DEF gas
<1> QED
  BY <1>3, <1>4 DEF FollowWell

LEMMA InheritedFollow ==
  ASSUME NEW par \in Parent, NEW p \in Proposal
  PROVE  FollowWell(InheritedManifest(par, p), par.time,
                    effectiveManifestParentGasLimit(par.number, par.gas))
<1> DEFINE m == InheritedManifest(par, p)
           first == effectiveManifestParentGasLimit(par.number, par.gas)
<1>1. par.time \in Nat /\ first \in Nat /\ p.timestamp \in Nat
  BY ProposalType, ParentGasType DEF Parent
<1>2. /\ Len(m) = 1 /\ m[1].gas = first
      /\ m[1].timestamp = manifestTimestampLowerBound(par.time, p.timestamp)
  BY InheritedType
<1>3. m[1].timestamp > par.time /\ m[1].timestamp >= ForkTime
  BY <1>1, <1>2, TimestampBound
<1> HIDE DEF m, first
<1>4. FollowWell(m, par.time, first)
  BY <1>1, <1>2, <1>3 DEF FollowWell
<1> QED
  BY <1>4 DEF m, first

\* prepareSourceManifest, whatever the source holds: at least one block, each one
\* after its parent and within the bounds of its gas limit; all at the parent's
\* anchor or, in a normal source only, in the window of the origin.
LEMMA PreparedSource ==
  ASSUME NEW content \in Manifests \cup {Undecodable}, NEW forced \in BOOLEAN,
         NEW par \in Parent, NEW p \in Proposal,
         NEW m, m = prepareSourceManifest(content, forced, par, p)
  PROVE  /\ m \in Seq(BlockType) /\ Len(m) > 0
         /\ FollowWell(m, par.time, effectiveManifestParentGasLimit(par.number, par.gas))
         /\ \A i \in 1..Len(m) : m[i].timestamp > par.time
         /\ \/ \A i \in 1..Len(m) : m[i].anchor = par.anchor
            \/ ~forced /\ validateManifestAnchorProgression(m, par.anchor, p.origin)
<1> DEFINE first == effectiveManifestParentGasLimit(par.number, par.gas)
<1>1. CASE m = InheritedManifest(par, p)
  <2>1. m \in Seq(BlockType) /\ Len(m) = 1 /\ m[1].anchor = par.anchor
    BY <1>1, InheritedType
  <2>2. FollowWell(m, par.time, first)
    BY <1>1, InheritedFollow
  <2>3. m[1].timestamp > par.time
    BY <2>1, <2>2 DEF FollowWell
  <2> QED
    BY <2>1, <2>2, <2>3
<1>2. CASE ~forced /\ m \in Seq(BlockType) /\ validateSourceManifest(m, par, p, FALSE)
  <2>1. /\ Len(m) > 0 /\ validateManifestTimestamps(m, par, p)
        /\ validateManifestGasLimit(m, par)
        /\ validateManifestAnchorProgression(m, par.anchor, p.origin)
    BY <1>2 DEF validateSourceManifest, validateManifestAnchorNumbers
  <2>2. FollowWell(m, par.time, first)
    BY <1>2, <2>1, ValidatedFollow
  <2>3. \A i \in 1..Len(m) : m[i].timestamp > par.time
    <3>1. par.time \in Nat
      BY DEF Parent
    <3>2. \A i \in 1..Len(m) :
            m[i].timestamp > (IF i = 1 THEN par.time ELSE m[i - 1].timestamp)
      BY <2>2 DEF FollowWell
    <3> QED
      BY <1>2, <3>1, <3>2, IncreasingFromStart
  <2> QED
    BY <1>2, <2>1, <2>2, <2>3
<1> QED
  BY <1>1, <1>2, PreparedCases

-----------------------------------------------------------------------------
(* The steps *)

LEMMA InitInv == Init => Inv
<1> SUFFICES ASSUME Init PROVE Inv
  OBVIOUS
<1>1. PICK g \in GenesisGas : head = [number |-> 0, time |-> 0, gas |-> g, anchor |-> 0]
  BY DEF Init
<1>2. g \in Nat
  BY GasConstants
<1>3. TypeOK
  BY <1>1, <1>2 DEF Init, TypeOK, Header
<1>4. DerivedWellFormed /\ DerivationTotal /\ SpansFit /\ TimesAhead
  BY DEF Init, DerivedWellFormed, DerivationTotal, SpansFit, TimesAhead
<1>5. CheckpointsOnL1 /\ OriginsAhead
  BY <1>1 DEF Init, CheckpointsOnL1, OriginsAhead
<1>6. AnchorsFit /\ ChecksPassed /\ LinkageFits /\ LinkedFits
  BY DEF Init, AnchorsFit, ChecksPassed, LinkageFits, LinkedFits
<1> QED
  BY <1>3, <1>4, <1>5, <1>6 DEF Inv

LEMMA SubmitKeepsInv ==
  ASSUME Inv, NEW t \in Timestamps, NEW o \in Origins, NEW a \in Origins \cup {0},
         Submit(t, o, a)
  PROVE  Inv'
<1>1. TypeOK'
  BY TimeConstants DEF Inv, TypeOK, Submit
<1>2. derived = <<>> /\ spans = <<>>
  BY DEF Inv, TypeOK, Submit
<1>3. DerivedWellFormed' /\ SpansFit' /\ TimesAhead' /\ AnchorsFit'
  BY <1>2 DEF Submit, DerivedWellFormed, SpansFit, TimesAhead, AnchorsFit
<1>4. CheckpointsOnL1' /\ DerivationTotal'
  BY DEF Inv, CheckpointsOnL1, DerivationTotal, Submit
<1>5. OriginsAhead'
  BY DEF Inv, OriginsAhead, Submit
<1>6. ChecksPassed' /\ LinkageFits' /\ LinkedFits'
  BY DEF ChecksPassed, LinkageFits, LinkedFits, Submit
<1> QED
  BY <1>1, <1>3, <1>4, <1>5, <1>6 DEF Inv

\* The parent context of the next source.
LEMMA ContextType ==
  ASSUME TypeOK
  PROVE  /\ ParentContext \in Parent
         /\ derived = <<>> =>
              /\ ParentContext.time = head.time /\ ParentContext.anchor = claim
              /\ effectiveManifestParentGasLimit(ParentContext.number, ParentContext.gas)
                   = effectiveManifestParentGasLimit(head.number, head.gas)
         /\ derived # <<>> =>
              /\ ParentContext.time = derived[Len(derived)].timestamp
              /\ ParentContext.anchor = derived[Len(derived)].anchor
              /\ effectiveManifestParentGasLimit(ParentContext.number, ParentContext.gas)
                   = derived[Len(derived)].gas
<1>1. /\ head.number \in Nat /\ head.time \in Nat /\ head.gas \in Nat /\ claim \in Nat
      /\ derived \in Seq(BlockType)
  BY DEF TypeOK
<1>2. CASE derived = <<>>
  BY <1>1, <1>2 DEF ParentContext, Parent
<1>3. CASE derived # <<>>
  <2> DEFINE b == derived[Len(derived)]
  <2>1. Len(derived) \in Nat /\ Len(derived) > 0
    BY <1>1, <1>3
  <2>2. b \in BlockType
    BY <1>1, <2>1
  <2>3. b.timestamp \in Nat /\ b.gas \in Nat /\ b.anchor \in Nat
    BY <2>2 DEF BlockType
  <2>4. ParentContext = [number |-> head.number + Len(derived), time |-> b.timestamp,
                         gas |-> b.gas + AnchorGas, anchor |-> b.anchor]
    BY <1>3 DEF ParentContext
  <2> HIDE DEF b
  <2>5. ParentContext \in Parent
    BY <1>1, <2>1, <2>3, <2>4, GasConstants DEF Parent
  <2>6. effectiveManifestParentGasLimit(head.number + Len(derived), b.gas + AnchorGas) = b.gas
    BY <1>1, <2>1, <2>3, GasConstants DEF effectiveManifestParentGasLimit
  <2> QED
    BY <1>3, <2>4, <2>5, <2>6 DEF b
<1> QED
  BY <1>2, <1>3

\* The list of derived blocks after a source: the old ones, then the source's.
LEMMA Extended ==
  ASSUME NEW d \in Seq(BlockType), NEW m \in Seq(BlockType)
  PROVE  /\ d \o m \in Seq(BlockType) /\ Len(d \o m) = Len(d) + Len(m)
         /\ \A i \in 1..Len(d) : (d \o m)[i] = d[i]
         /\ \A i \in (Len(d) + 1)..(Len(d) + Len(m)) :
              i - Len(d) \in 1..Len(m) /\ (d \o m)[i] = m[i - Len(d)]
OBVIOUS

LEMMA PrepareSourceKeepsInv ==
  ASSUME Inv, NEW content \in Manifests \cup {Undecodable}, NEW forced \in BOOLEAN,
         PrepareSource(content, forced)
  PROVE  Inv'
<1> DEFINE par == ParentContext
           m == prepareSourceManifest(content, forced, par, prop)
           n == Len(derived)
           gas == effectiveManifestParentGasLimit(par.number, par.gas)
<1>1. /\ phase = "sources" /\ phase' = "sources" /\ derived' = derived \o m
      /\ spans' = Append(spans, [forced |-> forced, count |-> Len(m)])
      /\ UNCHANGED <<head, store, last, prop, claim, pending, checkpoints, ancestor>>
  BY DEF PrepareSource
<1>2. /\ derived \in Seq(BlockType) /\ n \in Nat /\ claim \in Nat
      /\ spans \in Seq([forced : BOOLEAN, count : Nat])
      /\ prop \in Proposal /\ par \in Parent
  BY <1>1, ContextType DEF Inv, TypeOK, Proposal
<1>3. /\ m \in Seq(BlockType) /\ Len(m) > 0
      /\ FollowWell(m, par.time, gas)
      /\ \A i \in 1..Len(m) : m[i].timestamp > par.time
      /\ \/ \A i \in 1..Len(m) : m[i].anchor = par.anchor
         \/ ~forced /\ validateManifestAnchorProgression(m, par.anchor, prop.origin)
  BY <1>2, PreparedSource
<1>4. /\ n = 0 => par.time = head.time /\ par.anchor = claim
                  /\ gas = effectiveManifestParentGasLimit(head.number, head.gas)
      /\ n > 0 => par.time = derived[n].timestamp /\ par.anchor = derived[n].anchor
                  /\ gas = derived[n].gas
  BY <1>2, ContextType DEF Inv
<1> HIDE DEF m, par, gas
<1>5. /\ derived' \in Seq(BlockType) /\ Len(derived') = n + Len(m) /\ Len(m) \in Nat
      /\ \A i \in 1..n : derived'[i] = derived[i]
      /\ \A i \in (n + 1)..(n + Len(m)) : i - n \in 1..Len(m) /\ derived'[i] = m[i - n]
  BY <1>1, <1>2, <1>3, Extended
<1>6. /\ spans' \in Seq([forced : BOOLEAN, count : Nat]) /\ Len(spans') = Len(spans) + 1
      /\ Len(spans) \in Nat /\ spans' # <<>>
      /\ \A i \in 1..Len(spans) : spans'[i] = spans[i]
      /\ spans'[Len(spans) + 1].forced = forced /\ spans'[Len(spans) + 1].count = Len(m)
  <2> DEFINE S == [forced : BOOLEAN, count : Nat]
             e == [forced |-> forced, count |-> Len(m)]
  <2>1. e \in S /\ e.forced = forced /\ e.count = Len(m)
    BY <1>5
  <2>2. spans \in Seq(S) /\ spans' = Append(spans, e)
    BY <1>1, <1>2
  <2> HIDE DEF S, e
  <2>3. /\ spans' \in Seq(S) /\ Len(spans') = Len(spans) + 1
        /\ Len(spans) \in Nat /\ spans' # <<>>
        /\ \A i \in 1..Len(spans) : spans'[i] = spans[i]
        /\ spans'[Len(spans) + 1] = e
    BY <2>1, <2>2
  <2> QED
    BY <2>1, <2>3 DEF S
<1>7. TypeOK'
  BY <1>1, <1>5, <1>6 DEF Inv, TypeOK
<1>8. DerivedWellFormed'
  <2> SUFFICES ASSUME NEW i \in 1..(n + Len(m))
               PROVE  LET parentGas == IF i = 1
                            THEN effectiveManifestParentGasLimit(head.number, head.gas)
                            ELSE derived'[i - 1].gas
                      IN  /\ derived'[i].timestamp >
                               (IF i = 1 THEN head.time ELSE derived'[i - 1].timestamp)
                          /\ derived'[i].timestamp >= ForkTime
                          /\ derived'[i].gas >= MinGas \/ derived'[i].gas >= parentGas
                          /\ derived'[i].gas <= MaxGas \/ derived'[i].gas <= parentGas
    BY <1>1, <1>5 DEF DerivedWellFormed
  <2>1. CASE i <= n
    <3>1. derived'[i] = derived[i] /\ (i # 1 => derived'[i - 1] = derived[i - 1])
      <4>1. i \in 1..n /\ (i # 1 => i - 1 \in 1..n)
        BY <1>2, <1>5, <2>1
      <4> QED
        BY <1>5, <4>1
    <3>2. i \in 1..Len(derived)
      BY <1>2, <2>1
    <3> QED
      BY <3>1, <3>2 DEF Inv, DerivedWellFormed
  <2>2. CASE i = n + 1
    <3>1. derived'[i] = m[1] /\ (n > 0 => derived'[i - 1] = derived[n])
      BY <1>2, <1>3, <1>5, <2>2
    <3>2. /\ m[1].timestamp > par.time /\ m[1].timestamp >= ForkTime
          /\ m[1].gas >= MinGas \/ m[1].gas >= gas
          /\ m[1].gas <= MaxGas \/ m[1].gas <= gas
      BY <1>3, <1>5 DEF FollowWell
    <3>3. CASE n = 0
      BY <1>4, <2>2, <3>1, <3>2, <3>3
    <3>4. CASE n > 0
      BY <1>4, <2>2, <3>1, <3>2, <3>4
    <3> QED
      BY <1>2, <3>3, <3>4
  <2>3. CASE i > n + 1
    <3> DEFINE j == i - n
    <3>1. j \in 1..Len(m) /\ j # 1 /\ i # 1
      BY <1>2, <1>5, <2>3
    <3>2. derived'[i] = m[j] /\ derived'[i - 1] = m[j - 1]
      <4>1. i \in (n + 1)..(n + Len(m)) /\ i - 1 \in (n + 1)..(n + Len(m))
        BY <1>2, <1>5, <2>3
      <4>2. (i - 1) - n = j - 1
        BY <1>2
      <4> QED
        BY <1>5, <4>1, <4>2
    <3> HIDE DEF j
    <3>3. /\ m[j].timestamp > m[j - 1].timestamp /\ m[j].timestamp >= ForkTime
          /\ m[j].gas >= MinGas \/ m[j].gas >= m[j - 1].gas
          /\ m[j].gas <= MaxGas \/ m[j].gas <= m[j - 1].gas
      BY <1>3, <3>1 DEF FollowWell
    <3> QED
      BY <3>1, <3>2, <3>3
  <2> QED
    BY <1>2, <1>5, <2>1, <2>2, <2>3
<1>9. TimesAhead'
  <2>1. head.time \in Nat /\ head' = head
    BY <1>1 DEF Inv, TypeOK
  <2>2. par.time \in Nat /\ par.time >= head.time
    BY <1>2, <1>4, <2>1 DEF Inv, TimesAhead, Parent
  <2>3. ASSUME NEW i \in 1..Len(m) PROVE m[i].timestamp > head.time
    <3>1. m[i] \in BlockType
      BY <1>3
    <3>2. m[i].timestamp \in Nat
      BY <3>1 DEF BlockType
    <3> QED
      BY <1>3, <2>1, <2>2, <3>2
  <2> SUFFICES ASSUME NEW i \in 1..(n + Len(m)) PROVE derived'[i].timestamp > head.time
    BY <1>5, <2>1 DEF TimesAhead
  <2>4. CASE i <= n
    <3>1. i \in 1..Len(derived) /\ derived'[i] = derived[i]
      BY <1>2, <1>5, <2>4
    <3> QED
      BY <3>1 DEF Inv, TimesAhead
  <2>5. CASE i > n
    <3>1. i \in (n + 1)..(n + Len(m))
      BY <1>2, <1>5, <2>5
    <3> QED
      BY <1>5, <2>3, <3>1
  <2> QED
    BY <1>2, <1>5, <2>4, <2>5
<1>10. SpansFit'
  <2>1. ASSUME NEW i \in 1..(Len(spans) + 1) PROVE spans'[i].count > 0
    <3>1. CASE i \in 1..Len(spans)
      BY <1>6, <3>1 DEF Inv, SpansFit
    <3>2. CASE i = Len(spans) + 1
      BY <1>3, <1>6, <3>2
    <3> QED
      BY <1>6, <3>1, <3>2
  <2> QED
    BY <1>2, <1>5, <1>6, <2>1 DEF SpansFit
<1>11. AnchorsFit'
  <2>1. ForcedPrefix' = n
    BY <1>2, <1>5, <1>6 DEF ForcedPrefix
  <2>2. ASSUME AllForced(Len(spans))'
        PROVE  AllForced(Len(spans) - 1)' /\ forced = TRUE
    BY <1>6, <2>2 DEF AllForced
  <2>3. ASSUME AllForced(Len(spans) - 1)'
        PROVE  \A i \in 1..n : Stays(i)
    <3>1. AllForced(Len(spans))
      BY <1>6, <2>3 DEF AllForced
    <3> QED
      BY <3>1 DEF Inv, AnchorsFit
  <2>4. ASSUME AllForced(Len(spans) - 1)'
        PROVE  par.anchor = claim
    BY <1>2, <1>4, <2>3, <2>4 DEF Stays
  <2>5. ASSUME AllForced(Len(spans) - 1)'
        PROVE  \A i \in 1..n : Stays(i)'
    BY <1>1, <1>5, <2>3, <2>5 DEF Stays
  <2>6. ASSUME AllForced(Len(spans) - 1)', \A i \in 1..Len(m) : m[i].anchor = par.anchor
        PROVE  \A i \in 1..Len(derived') : Stays(i)'
    BY <1>1, <1>2, <1>5, <2>4, <2>5, <2>6 DEF Stays
  <2>7. ASSUME AllForced(Len(spans) - 1)',
               validateManifestAnchorProgression(m, par.anchor, prop.origin)
        PROVE  \A i \in (n + 1)..Len(derived') : Progresses(i)'
    <3> SUFFICES ASSUME NEW i \in (n + 1)..Len(derived') PROVE Progresses(i)'
      OBVIOUS
    <3>1. i - n \in 1..Len(m) /\ derived'[i] = m[i - n]
      BY <1>5
    <3>2. i > n + 1 => derived'[i - 1] = m[(i - n) - 1] /\ i - n > 1
      <4> SUFFICES ASSUME i > n + 1 PROVE derived'[i - 1] = m[(i - n) - 1] /\ i - n > 1
        OBVIOUS
      <4>1. i - 1 \in (n + 1)..(n + Len(m)) /\ (i - 1) - n = (i - n) - 1
        BY <1>2, <1>5
      <4> QED
        BY <1>2, <1>5, <4>1
    <3> QED
      BY <1>1, <2>1, <2>4, <2>7, <3>1, <3>2 DEF Progresses, validateManifestAnchorProgression
  <2>8. AllForced(Len(spans))' => \A i \in 1..Len(derived') : Stays(i)'
    <3> SUFFICES ASSUME AllForced(Len(spans))' PROVE \A i \in 1..Len(derived') : Stays(i)'
      OBVIOUS
    <3> QED
      BY <1>3, <2>2, <2>6
  <2>9. AllForced(Len(spans) - 1)' =>
          /\ \A i \in 1..ForcedPrefix' : Stays(i)'
          /\ \/ \A i \in 1..Len(derived') : Stays(i)'
             \/ \A i \in (ForcedPrefix' + 1)..Len(derived') : Progresses(i)'
    BY <1>3, <2>1, <2>5, <2>6, <2>7
  <2> QED
    BY <2>8, <2>9 DEF AnchorsFit
<1>12. CheckpointsOnL1' /\ DerivationTotal' /\ OriginsAhead'
  BY <1>1 DEF Inv, CheckpointsOnL1, DerivationTotal, OriginsAhead
<1>13. ChecksPassed' /\ LinkageFits' /\ LinkedFits'
  BY <1>1 DEF ChecksPassed, LinkageFits, LinkedFits
<1> QED
  BY <1>7, <1>8, <1>9, <1>10, <1>11, <1>12, <1>13 DEF Inv

LEMMA SpanType ==
  ASSUME TypeOK, NEW i \in 1..Len(spans)
  PROVE  spans[i].count \in Nat /\ spans[i].forced \in BOOLEAN
<1> DEFINE S == [forced : BOOLEAN, count : Nat]
<1>1. spans \in Seq(S)
  BY DEF TypeOK
<1> HIDE DEF S
<1>2. spans[i] \in S
  BY <1>1
<1> QED
  BY <1>2 DEF S

\* The last source begins within the derived blocks.
LEMMA PrefixType ==
  ASSUME Inv, spans # <<>>
  PROVE  /\ ForcedPrefix \in Nat /\ ForcedPrefix < Len(derived) /\ Len(derived) \in Nat
         /\ Len(spans) \in Nat /\ Len(spans) > 0
<1>1. Len(spans) \in Nat /\ Len(spans) > 0 /\ Len(derived) \in Nat
  BY DEF Inv, TypeOK
<1>2. spans[Len(spans)].count \in Nat
  BY <1>1, SpanType DEF Inv
<1>3. spans[Len(spans)].count > 0 /\ spans[Len(spans)].count <= Len(derived)
  BY <1>1 DEF Inv, SpansFit
<1> QED
  BY <1>1, <1>2, <1>3 DEF ForcedPrefix

LEMMA DerivedType ==
  ASSUME TypeOK, NEW i \in 1..Len(derived)
  PROVE  derived[i].timestamp \in Nat /\ derived[i].anchor \in Nat /\ derived[i].gas \in Nat
<1>1. derived[i] \in BlockType
  BY DEF TypeOK
<1> QED
  BY <1>1 DEF BlockType

\* The progression of the last source, block by block.
LEMMA ProgressionPointwise ==
  ASSUME Inv, spans # <<>>
  PROVE  validateManifestAnchorProgression(
           SubSeq(derived, ForcedPrefix + 1, Len(derived)), claim, prop.origin)
         <=> \A i \in (ForcedPrefix + 1)..Len(derived) : Progresses(i)
<1> DEFINE f == ForcedPrefix
           n == Len(derived)
           m == SubSeq(derived, f + 1, n)
<1>1. f \in Nat /\ f < n /\ n \in Nat /\ derived \in Seq(BlockType)
  BY PrefixType DEF Inv, TypeOK
<1>2. Len(m) = n - f /\ \A i \in 1..(n - f) : m[i] = derived[f + i]
  <2> HIDE DEF f
  <2>1. Len(m) = n - f
    BY <1>1
  <2>2. ASSUME NEW i \in 1..(n - f) PROVE m[i] = derived[f + i]
    <3>1. m[i] = derived[(f + 1) + i - 1]
      BY <1>1
    <3> QED
      BY <1>1, <3>1
  <2> QED
    BY <2>1, <2>2
<1> HIDE DEF m
<1>3. ASSUME validateManifestAnchorProgression(m, claim, prop.origin),
             NEW i \in (f + 1)..n
      PROVE  Progresses(i)
  <2>1. i - f \in 1..(n - f) /\ f + (i - f) = i
    BY <1>1
  <2>2. m[i - f] = derived[i]
    BY <1>2, <2>1
  <2>3. i > f + 1 => i - f > 1 /\ m[(i - f) - 1] = derived[i - 1]
    <3> SUFFICES ASSUME i > f + 1 PROVE i - f > 1 /\ m[(i - f) - 1] = derived[i - 1]
      OBVIOUS
    <3>1. (i - f) - 1 \in 1..(n - f) /\ f + ((i - f) - 1) = i - 1
      BY <1>1
    <3> QED
      BY <1>1, <1>2, <3>1
  <2> QED
    BY <1>2, <1>3, <2>1, <2>2, <2>3 DEF validateManifestAnchorProgression, Progresses
<1>4. ASSUME \A i \in (f + 1)..n : Progresses(i), NEW i \in 1..(n - f)
      PROVE  /\ claim <= m[i].anchor
             /\ prop.origin <= m[i].anchor + MaxAnchorOffset
             /\ m[i].anchor <= prop.origin
             /\ i > 1 => m[i - 1].anchor <= m[i].anchor
  <2>1. f + i \in (f + 1)..n
    BY <1>1
  <2>2. m[i] = derived[f + i] /\ Progresses(f + i)
    BY <1>2, <1>4, <2>1
  <2>3. i > 1 => f + i > f + 1 /\ m[i - 1] = derived[(f + i) - 1]
    <3> SUFFICES ASSUME i > 1 PROVE f + i > f + 1 /\ m[i - 1] = derived[(f + i) - 1]
      OBVIOUS
    <3>1. i - 1 \in 1..(n - f) /\ f + (i - 1) = (f + i) - 1
      BY <1>1
    <3> QED
      BY <1>1, <1>2, <3>1
  <2> QED
    BY <2>2, <2>3 DEF Progresses
<1>5. (\A i \in (f + 1)..n : Progresses(i)) =>
        validateManifestAnchorProgression(m, claim, prop.origin)
  BY <1>2, <1>4 DEF validateManifestAnchorProgression
<1> QED
  BY <1>3, <1>5 DEF m

LEMMA LayoutForced ==
  ASSUME Inv, spans # <<>>, LegalLayout
  PROVE  AllForced(Len(spans) - 1)
<1> SUFFICES ASSUME NEW i \in 1..(Len(spans) - 1) PROVE spans[i].forced = TRUE
  BY DEF AllForced
<1>1. i \in 1..Len(spans)
  BY PrefixType
<1>2. spans[i].forced \in BOOLEAN
  BY <1>1, SpanType DEF Inv
<1>3. spans[i].forced
  BY Zenon DEF LegalLayout
<1> QED
  BY <1>2, <1>3, Zenon

\* The anchors as shouldBypassStalledAnchorLinkage sees them.
LEMMA AnchorsList ==
  ASSUME Inv
  PROVE  /\ Len(Anchors) = Len(derived) /\ Len(derived) \in Nat
         /\ \A i \in 1..Len(derived) : Anchors[i] = derived[i].anchor
         /\ derived # <<>> => Anchors # <<>>
<1>1. Len(derived) \in Nat
  BY DEF Inv, TypeOK
<1>2. Anchors \in Seq(Nat) /\ Len(Anchors) = Len(derived)
  <2>1. \A i \in 1..Len(derived) : derived[i].anchor \in Nat
    BY DerivedType DEF Inv
  <2> QED
    BY <1>1, <2>1 DEF Anchors
<1>3. derived # <<>> => Len(derived) > 0
  BY DEF Inv, TypeOK
<1> QED
  BY <1>1, <1>2, <1>3 DEF Anchors

\* A proposal whose layout is legal passes the check of its anchors when the client
\* names the real last anchor: the anchors stay where they are, too far behind the
\* origin or not, or they progress.
LEMMA HonestPasses ==
  ASSUME Inv, phase # "idle", spans # <<>>, LegalLayout, claim = head.anchor
  PROVE  validateSourceAwareManifestAnchors
<1>1. /\ ForcedPrefix \in Nat /\ ForcedPrefix < Len(derived) /\ Len(derived) \in Nat
  BY PrefixType
<1>2. claim \in Nat /\ prop.origin \in Nat /\ prop.origin < Word /\ Word \in Nat
      /\ MaxAnchorOffset \in Nat
  <2>1. prop \in Proposal
    BY DEF Inv, TypeOK, Proposal
  <2> QED
    BY <2>1, ProposalType, TimeConstants, WordBounds DEF Inv, TypeOK
<1>3. claim <= prop.origin
  <2>1. head.anchor \in Nat /\ last.origin \in Nat
    BY DEF Inv, TypeOK
  <2> QED
    BY <1>2, <2>1 DEF Inv, OriginsAhead
<1>4. AllForced(Len(spans) - 1)
  BY LayoutForced
<1>5. \A i \in 1..ForcedPrefix : Stays(i)
  BY <1>4 DEF Inv, AnchorsFit
<1>6. ASSUME \A i \in 1..Len(derived) : Stays(i)
      PROVE  \/ shouldBypassStalledAnchorLinkage(Anchors)
             \/ \A i \in (ForcedPrefix + 1)..Len(derived) : Progresses(i)
  <2>1. CASE prop.origin - claim <= MaxAnchorOffset
    <3> SUFFICES ASSUME NEW i \in (ForcedPrefix + 1)..Len(derived) PROVE Progresses(i)
      OBVIOUS
    <3>1. derived[i].anchor = claim
      BY <1>1, <1>6 DEF Stays
    <3>2. i > ForcedPrefix + 1 => derived[i - 1].anchor = claim
      BY <1>1, <1>6 DEF Stays
    <3> QED
      BY <1>2, <1>3, <2>1, <3>1, <3>2 DEF Progresses
  <2>2. CASE prop.origin - claim > MaxAnchorOffset
    <3>1. (prop.origin - claim) % Word = prop.origin - claim
      BY <1>2, <1>3
    <3>2. \A i \in 1..Len(Anchors) : Anchors[i] = claim
      BY <1>6, AnchorsList DEF Stays
    <3>3. 1 \in 1..Len(Anchors) /\ Anchors # <<>>
      BY <1>1, AnchorsList
    <3> QED
      BY <2>2, <3>1, <3>2, <3>3 DEF shouldBypassStalledAnchorLinkage
  <2> QED
    BY <1>2, <2>1, <2>2
<1>7. \/ shouldBypassStalledAnchorLinkage(Anchors)
      \/ \A i \in (ForcedPrefix + 1)..Len(derived) : Progresses(i)
  BY <1>4, <1>6 DEF Inv, AnchorsFit
<1> QED
  BY <1>5, <1>7, ProgressionPointwise
  DEF validateSourceAwareManifestAnchors, Inv, SpansFit, Stays

\* The anchor checks read the claim, the origin, the layout and the blocks.
LEMMA ChecksKept ==
  ASSUME UNCHANGED <<prop, claim, spans, derived>>, validateSourceAwareManifestAnchors
  PROVE  validateSourceAwareManifestAnchors'
<1>1. prop' = prop /\ claim' = claim /\ spans' = spans /\ derived' = derived
  OBVIOUS
<1>2. ForcedPrefix' = ForcedPrefix /\ Anchors' = Anchors /\ LegalLayout' = LegalLayout
  BY <1>1, Zenon DEF ForcedPrefix, Anchors, LegalLayout
<1>3. shouldBypassStalledAnchorLinkage(Anchors)' = shouldBypassStalledAnchorLinkage(Anchors)
  BY <1>1, <1>2, Zenon DEF shouldBypassStalledAnchorLinkage
<1> QED
  BY <1>1, <1>2, <1>3, Zenon DEF validateSourceAwareManifestAnchors

LEMMA FinishSourcesKeepsInv ==
  ASSUME Inv, FinishSources
  PROVE  Inv'
<1>1. /\ phase = "sources" /\ spans # <<>>
      /\ UNCHANGED <<head, store, last, requestVars>>
  BY DEF FinishSources
<1> USE <1>1 DEF requestVars
<1>2. TypeOK'
  BY DEF Inv, TypeOK, FinishSources
<1>3. DerivedWellFormed' /\ SpansFit' /\ TimesAhead'
  BY DEF Inv, DerivedWellFormed, SpansFit, TimesAhead
<1>4. AnchorsFit'
  BY DEF Inv, AnchorsFit, AllForced, Stays, Progresses, ForcedPrefix
<1>5. CheckpointsOnL1'
  BY DEF Inv, CheckpointsOnL1
<1>6. OriginsAhead'
  BY DEF Inv, OriginsAhead
<1>7. DerivationTotal'
  <2> SUFFICES ASSUME phase' = "underivable", LegalLayout', claim' = head'.anchor
               PROVE  FALSE
    BY DEF DerivationTotal
  <2>1. LegalLayout /\ claim = head.anchor
    BY DEF LegalLayout
  <2>2. validateSourceAwareManifestAnchors
    BY <2>1, HonestPasses
  <2> QED
    BY <2>2 DEF FinishSources
<1>8. ChecksPassed'
  <2> SUFFICES ASSUME phase' \in {"derived", "linkage", "linked"}
               PROVE  validateSourceAwareManifestAnchors'
    BY DEF ChecksPassed
  <2>1. validateSourceAwareManifestAnchors /\ UNCHANGED <<prop, claim, spans, derived>>
    BY DEF FinishSources
  <2> QED
    BY <2>1, ChecksKept
<1>9. LinkageFits' /\ LinkedFits'
  BY DEF LinkageFits, LinkedFits, FinishSources
<1> QED
  BY <1>2, <1>3, <1>4, <1>5, <1>6, <1>7, <1>8, <1>9 DEF Inv

\* A step that leaves the head and the derivation alone keeps what is said of them.
LEMMA DerivationKept ==
  ASSUME Inv, UNCHANGED <<head, last, prop, claim, spans, derived>>,
         phase # "idle", phase' # "idle"
  PROVE  /\ DerivedWellFormed' /\ SpansFit' /\ TimesAhead' /\ AnchorsFit' /\ OriginsAhead'
         /\ validateSourceAwareManifestAnchors => validateSourceAwareManifestAnchors'
<1>1. DerivedWellFormed' /\ SpansFit' /\ TimesAhead'
  BY DEF Inv, DerivedWellFormed, SpansFit, TimesAhead
<1>2. AnchorsFit' /\ OriginsAhead'
  BY DEF Inv, AnchorsFit, AllForced, Stays, Progresses, ForcedPrefix, OriginsAhead
<1>3. validateSourceAwareManifestAnchors => validateSourceAwareManifestAnchors'
  BY ChecksKept
<1> QED
  BY <1>1, <1>2, <1>3

\* What is in the parent state is canonical and lies behind the origin.
LEMMA StoreFits ==
  ASSUME Inv, phase # "idle", NEW c \in store
  PROVE  c \in Header /\ c.canonical = TRUE /\ c.number <= prop.origin
<1>1. c \in Header /\ last.origin \in Nat /\ prop.origin \in Nat
  <2>1. prop \in Proposal
    BY DEF Inv, TypeOK, Proposal
  <2> QED
    BY <2>1, ProposalType DEF Inv, TypeOK
<1>2. c.number \in Nat /\ c.canonical \in BOOLEAN
  BY <1>1 DEF Header
<1>3. c.canonical = TRUE
  BY <1>2, Zenon DEF Inv, CheckpointsOnL1
<1>4. c.number <= last.origin /\ last.origin <= prop.origin
  BY DEF Inv, CheckpointsOnL1, OriginsAhead
<1> QED
  BY <1>1, <1>2, <1>3, <1>4

LEMMA BindBlocksKeepsInv ==
  ASSUME Inv, NEW genuine \in [1..Len(derived) -> BOOLEAN], BindBlocks(genuine)
  PROVE  Inv'
<1> DEFINE cs == BoundCheckpoints(genuine)
           n == Len(derived)
           f == ForcedPrefix
<1>1. /\ phase = "derived" /\ checkpoints' = cs
      /\ UNCHANGED <<head, store, last, prop, claim, spans, derived, ancestor>>
  BY DEF BindBlocks
<1>2. /\ spans # <<>> /\ validateSourceAwareManifestAnchors
      /\ f \in Nat /\ f < n /\ n \in Nat
  BY <1>1, PrefixType DEF Inv, ChecksPassed
<1>3. cs \in Seq(Header) /\ Len(cs) = n
  <2>1. ASSUME NEW i \in 1..n PROVE AnchorCheckpoint(i, genuine) \in Header
    BY DerivedType DEF Inv, AnchorCheckpoint, Header
  <2> QED
    BY <1>2, <2>1 DEF BoundCheckpoints
<1> HIDE DEF cs, f
<1>4. \/ /\ \A i \in 1..Len(cs) : IsParentCheckpoint(cs[i])
         /\ phase' = "linked" /\ pending' = <<>>
      \/ /\ \A i \in 1..f : IsParentCheckpoint(cs[i])
         /\ phase' = "linkage" /\ pending' = SubSeq(cs, f + 1, Len(cs))
  BY DEF BindBlocks, cs, f
<1>5. /\ pending' \in Seq(Header)
      /\ phase' = "linkage" =>
           /\ Len(pending') = n - f
           /\ \A i \in 1..(n - f) : pending'[i] = cs[f + i]
  <2>1. CASE phase' = "linked" /\ pending' = <<>>
    BY <2>1
  <2>2. CASE phase' = "linkage" /\ pending' = SubSeq(cs, f + 1, n)
    <3>1. pending' \in Seq(Header) /\ Len(pending') = n - f
      BY <1>2, <1>3, <2>2
    <3>2. ASSUME NEW i \in 1..(n - f) PROVE pending'[i] = cs[f + i]
      <4>1. pending'[i] = cs[(f + 1) + i - 1]
        BY <1>2, <1>3, <2>2
      <4> QED
        BY <1>2, <4>1
    <3> QED
      BY <3>1, <3>2
  <2> QED
    BY <1>3, <1>4, <2>1, <2>2
<1>6. TypeOK'
  BY <1>1, <1>3, <1>4, <1>5 DEF Inv, TypeOK
<1>7. /\ DerivedWellFormed' /\ SpansFit' /\ TimesAhead' /\ AnchorsFit' /\ OriginsAhead'
      /\ validateSourceAwareManifestAnchors'
  BY <1>1, <1>2, <1>4, DerivationKept
<1>8. CheckpointsOnL1' /\ DerivationTotal' /\ ChecksPassed'
  BY <1>1, <1>2, <1>4, <1>7 DEF Inv, CheckpointsOnL1, DerivationTotal, ChecksPassed
<1>9. LinkageFits'
  <2> SUFFICES ASSUME phase' = "linkage"
               PROVE  /\ Len(pending') <= Len(cs)
                      /\ \A i \in 1..Len(pending') :
                           pending'[i] = cs[Len(cs) - Len(pending') + i]
                      /\ \A i \in 1..(Len(cs) - Len(pending')) : cs[i] \in store
    BY <1>1 DEF LinkageFits
  <2>1. Len(pending') = n - f /\ Len(cs) - Len(pending') = f
    BY <1>2, <1>3, <1>5
  <2>2. \A i \in 1..f : cs[i] \in store
    BY <1>4 DEF IsParentCheckpoint
  <2>3. Len(cs) = n
    BY <1>3
  <2>4. \A i \in 1..(n - f) : pending'[i] = cs[f + i]
    BY <1>5
  <2>5. n - f <= n
    BY <1>2
  <2> QED
    BY <2>1, <2>2, <2>3, <2>4, <2>5
<1>10. LinkedFits'
  <2> SUFFICES ASSUME phase' = "linked", NEW i \in 1..Len(cs)
               PROVE  cs[i].canonical = TRUE /\ cs[i].number <= prop.origin
    BY <1>1 DEF LinkedFits
  <2>1. cs[i] \in store
    BY <1>4 DEF IsParentCheckpoint
  <2> QED
    BY <1>1, <2>1, StoreFits
<1> QED
  BY <1>6, <1>7, <1>8, <1>9, <1>10 DEF Inv

LEMMA ReadAncestorKeepsInv ==
  ASSUME Inv, NEW h \in Header, NEW k \in 0..Len(pending), ReadAncestor(h, k)
  PROVE  Inv'
<1> DEFINE c == Len(checkpoints)
           p == Len(pending)
<1>1. /\ phase = "linkage" /\ h.number <= prop.origin /\ Continues(h)
      /\ \A i \in 1..k : pending[i] = h
      /\ pending' = SubSeq(pending, k + 1, p) /\ ancestor' = h
      /\ UNCHANGED <<head, store, last, phase, prop, claim, spans, derived, checkpoints>>
  BY DEF ReadAncestor
<1>2. /\ pending \in Seq(Header) /\ p \in Nat /\ c \in Nat /\ p <= c
      /\ \A i \in 1..p : pending[i] = checkpoints[c - p + i]
  BY <1>1 DEF Inv, TypeOK, LinkageFits
<1>3. /\ pending' \in Seq(Header) /\ Len(pending') = p - k
      /\ \A i \in 1..(p - k) : pending'[i] = pending[k + i]
  <2>1. pending' \in Seq(Header) /\ Len(pending') = p - k
    BY <1>1, <1>2
  <2>2. ASSUME NEW i \in 1..(p - k) PROVE pending'[i] = pending[k + i]
    <3>1. pending'[i] = pending[(k + 1) + i - 1]
      BY <1>1, <1>2
    <3> QED
      BY <3>1
  <2> QED
    BY <2>1, <2>2
<1>4. TypeOK'
  BY <1>1, <1>3 DEF Inv, TypeOK
<1>5. /\ DerivedWellFormed' /\ SpansFit' /\ TimesAhead' /\ AnchorsFit' /\ OriginsAhead'
      /\ validateSourceAwareManifestAnchors => validateSourceAwareManifestAnchors'
  BY <1>1, DerivationKept
<1>6. CheckpointsOnL1' /\ DerivationTotal' /\ ChecksPassed' /\ LinkedFits'
  BY <1>1, <1>5 DEF Inv, CheckpointsOnL1, DerivationTotal, ChecksPassed, LinkedFits
<1>7. LinkageFits'
  <2>1. ASSUME NEW i \in 1..(p - k)
        PROVE  pending'[i] = checkpoints[c - (p - k) + i]
    <3>1. k + i \in 1..p /\ c - p + (k + i) = c - (p - k) + i
      BY <1>2
    <3> QED
      BY <1>2, <1>3, <3>1
  <2>2. ASSUME NEW i \in 1..(c - (p - k))
        PROVE  \/ checkpoints[i] \in store
               \/ /\ h # None
                  /\ h.canonical = TRUE => checkpoints[i].canonical = TRUE
                  /\ checkpoints[i].number <= prop.origin
    <3>1. h # None
      BY NoneAssumption
    <3>2. CASE i <= c - p
      <4>1. i \in 1..(c - p)
        BY <1>2, <3>2
      <4>2. \/ checkpoints[i] \in store
            \/ /\ ancestor # None
               /\ ancestor.canonical = TRUE => checkpoints[i].canonical = TRUE
               /\ checkpoints[i].number <= prop.origin
        BY <1>1, <4>1 DEF Inv, LinkageFits
      <4>3. ASSUME ancestor # None, h.canonical = TRUE PROVE ancestor.canonical = TRUE
        <5>1. ancestor \in Header
          BY <4>3 DEF Inv, TypeOK
        <5>2. ancestor.canonical \in BOOLEAN
          BY <5>1 DEF Header
        <5>3. h.canonical => ancestor.canonical
          BY <1>1, <4>3, Zenon DEF Continues
        <5> QED
          BY <4>3, <5>2, <5>3, Zenon
      <4> QED
        BY <3>1, <4>2, <4>3
    <3>3. CASE i > c - p
      <4>1. i - (c - p) \in 1..k /\ i - (c - p) \in 1..p /\ c - p + (i - (c - p)) = i
        BY <1>2, <3>3
      <4>2. checkpoints[i] = h
        BY <1>1, <1>2, <4>1
      <4> QED
        BY <1>1, <3>1, <4>2
    <3>4. i <= c - p \/ i > c - p
      BY <1>2
    <3> QED
      BY <3>2, <3>3, <3>4, Zenon
  <2>3. p - k <= c
    BY <1>2
  <2>4. Len(pending') = p - k /\ checkpoints' = checkpoints /\ Len(checkpoints) = c
        /\ ancestor' = h /\ store' = store /\ prop' = prop
    BY <1>1, <1>3
  <2> HIDE DEF c, p
  <2> QED
    BY <2>1, <2>2, <2>3, <2>4 DEF LinkageFits
<1> QED
  BY <1>4, <1>5, <1>6, <1>7 DEF Inv

LEMMA FinishLinkageKeepsInv ==
  ASSUME Inv, FinishLinkage
  PROVE  Inv'
<1>1. /\ phase = "linkage" /\ pending = <<>> /\ phase' = "linked"
      /\ ancestor = [number |-> prop.origin, canonical |-> TRUE]
      /\ UNCHANGED <<head, store, last, prop, claim, spans, derived,
                     pending, checkpoints, ancestor>>
  BY DEF FinishLinkage, requestVars
<1>2. TypeOK'
  BY <1>1 DEF Inv, TypeOK
<1>3. /\ DerivedWellFormed' /\ SpansFit' /\ TimesAhead' /\ AnchorsFit' /\ OriginsAhead'
      /\ validateSourceAwareManifestAnchors => validateSourceAwareManifestAnchors'
  BY <1>1, DerivationKept
<1>4. CheckpointsOnL1' /\ DerivationTotal' /\ ChecksPassed' /\ LinkageFits'
  BY <1>1, <1>3 DEF Inv, CheckpointsOnL1, DerivationTotal, ChecksPassed, LinkageFits
<1>5. LinkedFits'
  <2> SUFFICES ASSUME NEW i \in 1..Len(checkpoints)
               PROVE  checkpoints[i].canonical = TRUE /\ checkpoints[i].number <= prop.origin
    BY <1>1 DEF LinkedFits
  <2>1. i \in 1..(Len(checkpoints) - Len(pending)) /\ ancestor.canonical = TRUE
    BY <1>1 DEF Inv, TypeOK
  <2>2. CASE checkpoints[i] \in store
    BY <1>1, <2>2, StoreFits
  <2>3. CASE checkpoints[i] \notin store
    BY <1>1, <2>1, <2>3 DEF Inv, LinkageFits
  <2> QED
    BY <2>2, <2>3
<1> QED
  BY <1>2, <1>3, <1>4, <1>5 DEF Inv

\* A request that has passed its checks: the blocks that stay, then those of the
\* last source, which stay as well or progress.
LEMMA PassedAnchors ==
  ASSUME Inv, phase = "linked"
  PROVE  /\ Len(derived) \in Nat /\ Len(derived) > 0
         /\ ForcedPrefix \in Nat /\ ForcedPrefix < Len(derived)
         /\ \A i \in 1..ForcedPrefix : Stays(i)
         /\ \/ \A i \in 1..Len(derived) : Stays(i)
            \/ \A i \in (ForcedPrefix + 1)..Len(derived) : Progresses(i)
<1>1. spans # <<>> /\ validateSourceAwareManifestAnchors
  BY DEF Inv, ChecksPassed
<1>2. /\ Len(derived) \in Nat /\ Len(derived) > 0
      /\ ForcedPrefix \in Nat /\ ForcedPrefix < Len(derived)
  BY <1>1, PrefixType
<1>3. \A i \in 1..ForcedPrefix : Stays(i)
  BY <1>1 DEF validateSourceAwareManifestAnchors, Stays
<1>4. CASE shouldBypassStalledAnchorLinkage(Anchors)
  <2>1. Anchors[1] = claim /\ \A i \in 1..Len(Anchors) : Anchors[i] = Anchors[1]
    BY <1>4 DEF shouldBypassStalledAnchorLinkage
  <2>2. \A i \in 1..Len(derived) : Stays(i)
    BY <2>1, AnchorsList DEF Stays
  <2> QED
    BY <1>2, <1>3, <2>2
<1>5. CASE ~shouldBypassStalledAnchorLinkage(Anchors)
  <2>1. \A i \in (ForcedPrefix + 1)..Len(derived) : Progresses(i)
    BY <1>1, <1>5, ProgressionPointwise DEF validateSourceAwareManifestAnchors
  <2> QED
    BY <1>2, <1>3, <2>1
<1> QED
  BY <1>4, <1>5

\* The end of a request keeps the invariant when the head's anchor and the store
\* still lie behind the last origin.
LEMMA IdleKeepsInv ==
  ASSUME Idle, phase' = "idle",
         head' \in [number : Nat, time : Nat, gas : Nat, anchor : Nat],
         store' \subseteq Header, last' \in [timestamp : Nat, origin : Nat],
         CheckpointsOnL1', head'.anchor <= last'.origin
  PROVE  Inv'
<1>1. TypeOK'
  BY DEF TypeOK, Idle
<1>2. DerivedWellFormed' /\ DerivationTotal' /\ SpansFit' /\ TimesAhead'
  BY DEF Idle, DerivedWellFormed, DerivationTotal, SpansFit, TimesAhead
<1>3. AnchorsFit' /\ OriginsAhead' /\ ChecksPassed' /\ LinkageFits' /\ LinkedFits'
  BY DEF Idle, AnchorsFit, OriginsAhead, ChecksPassed, LinkageFits, LinkedFits
<1> QED
  BY <1>1, <1>2, <1>3 DEF Inv

LEMMA AdvanceKeepsInv ==
  ASSUME Inv, Advance
  PROVE  Inv'
<1> DEFINE b == derived[Len(derived)]
<1>1. /\ phase = "linked" /\ claim = head.anchor /\ phase' = "idle" /\ Idle
      /\ last' = prop /\ store' = store \cup {checkpoints[i] : i \in 1..Len(checkpoints)}
      /\ head' = [number |-> head.number + Len(derived), time |-> b.timestamp,
                  gas |-> b.gas + AnchorGas, anchor |-> b.anchor]
  BY DEF Advance
<1>2. /\ Len(derived) \in Nat /\ Len(derived) > 0
      /\ ForcedPrefix \in Nat /\ ForcedPrefix < Len(derived)
      /\ \/ \A i \in 1..Len(derived) : Stays(i)
         \/ \A i \in (ForcedPrefix + 1)..Len(derived) : Progresses(i)
  BY <1>1, PassedAnchors
<1>3. b.timestamp \in Nat /\ b.anchor \in Nat /\ b.gas \in Nat
  BY <1>2, DerivedType DEF Inv
<1>4. prop \in [timestamp : Nat, origin : Nat] /\ prop.origin \in Nat
  <2>1. prop \in Proposal
    BY <1>1 DEF Inv, TypeOK, Proposal
  <2> QED
    BY <2>1, ProposalType, TimeConstants DEF Proposal
<1>5. b.anchor <= prop.origin
  <2>1. claim \in Nat /\ claim <= prop.origin
    <3>1. head.anchor \in Nat /\ last.origin \in Nat
      BY DEF Inv, TypeOK
    <3> QED
      BY <1>1, <1>4, <3>1 DEF Inv, OriginsAhead
  <2>2. CASE \A i \in 1..Len(derived) : Stays(i)
    BY <1>2, <2>1, <2>2 DEF Stays
  <2>3. CASE \A i \in (ForcedPrefix + 1)..Len(derived) : Progresses(i)
    <3>1. Progresses(Len(derived))
      BY <1>2, <2>3
    <3> QED
      BY <3>1 DEF Progresses
  <2> QED
    BY <1>2, <2>2, <2>3
<1> HIDE DEF b
<1>6. head' \in [number : Nat, time : Nat, gas : Nat, anchor : Nat]
      /\ head'.anchor <= last'.origin
  <2>1. head.number \in Nat
    BY DEF Inv, TypeOK
  <2>2. AnchorGas \in Nat
    BY GasConstants
  <2>3. /\ head.number + Len(derived) \in Nat
        /\ b.gas + AnchorGas \in Nat
    BY <1>2, <1>3, <2>1, <2>2
  <2> QED
    BY <1>1, <1>3, <1>4, <1>5, <2>3
<1>7. \A i \in 1..Len(checkpoints) : checkpoints[i] \in Header
  BY DEF Inv, TypeOK
<1>8. store' \subseteq Header
  BY <1>1, <1>7 DEF Inv, TypeOK
<1>9. CheckpointsOnL1'
  <2> SUFFICES ASSUME NEW c \in store' PROVE c.canonical /\ c.number <= prop.origin
    BY <1>1 DEF CheckpointsOnL1
  <2>1. c.canonical = TRUE /\ c.number <= prop.origin
    <3>1. CASE c \in store
      BY <1>1, <3>1, StoreFits
    <3>2. CASE c \notin store
      <4>1. PICK i \in 1..Len(checkpoints) : c = checkpoints[i]
        BY <1>1, <3>2
      <4> QED
        BY <1>1, <4>1 DEF Inv, LinkedFits
    <3> QED
      BY <3>1, <3>2
  <2> QED
    BY <2>1, Zenon
<1> QED
  BY <1>1, <1>4, <1>6, <1>8, <1>9, IdleKeepsInv

LEMMA DropKeepsInv ==
  ASSUME Inv, Drop
  PROVE  Inv'
<1>1. Idle /\ phase' = "idle" /\ UNCHANGED <<head, store, last>>
  BY DEF Drop
<1>2. CheckpointsOnL1'
  BY <1>1 DEF Inv, CheckpointsOnL1
<1> QED
  BY <1>1, <1>2, IdleKeepsInv DEF Inv, TypeOK, OriginsAhead

LEMMA StutterKeepsInv ==
  ASSUME Inv, UNCHANGED vars
  PROVE  Inv'
<1>1. UNCHANGED <<head, store, last, phase, prop, claim, spans, derived, pending,
                  checkpoints, ancestor>>
  BY DEF vars, requestVars
<1> USE <1>1
<1>2. TypeOK'
  BY DEF Inv, TypeOK
<1>3. DerivedWellFormed' /\ SpansFit' /\ TimesAhead' /\ CheckpointsOnL1' /\ OriginsAhead'
  BY DEF Inv, DerivedWellFormed, SpansFit, TimesAhead, CheckpointsOnL1, OriginsAhead
<1>4. AnchorsFit'
  BY DEF Inv, AnchorsFit, AllForced, Stays, Progresses, ForcedPrefix
<1>5. DerivationTotal'
  BY DEF Inv, DerivationTotal, LegalLayout
<1>6. ChecksPassed'
  BY DEF Inv, ChecksPassed, validateSourceAwareManifestAnchors, LegalLayout, ForcedPrefix,
    shouldBypassStalledAnchorLinkage, Anchors, validateManifestAnchorProgression
<1>7. LinkageFits' /\ LinkedFits'
  BY DEF Inv, LinkageFits, LinkedFits
<1> QED
  BY <1>2, <1>3, <1>4, <1>5, <1>6, <1>7 DEF Inv

LEMMA InvInductive == Inv /\ [Next]_vars => Inv'
<1> SUFFICES ASSUME Inv, [Next]_vars PROVE Inv'
  OBVIOUS
<1>1. CASE \E t \in Timestamps, o \in Origins : \E a \in Origins \cup {0} : Submit(t, o, a)
  BY <1>1, SubmitKeepsInv
<1>2. CASE \E content \in Manifests \cup {Undecodable}, forced \in BOOLEAN :
             PrepareSource(content, forced)
  BY <1>2, PrepareSourceKeepsInv
<1>3. CASE FinishSources
  BY <1>3, FinishSourcesKeepsInv
<1>4. CASE \E genuine \in [1..Len(derived) -> BOOLEAN] : BindBlocks(genuine)
  BY <1>4, BindBlocksKeepsInv
<1>5. CASE \E number \in Origins \cup {0}, canonical \in BOOLEAN, k \in 0..Len(pending) :
             ReadAncestor([number |-> number, canonical |-> canonical], k)
  <2>1. PICK number \in Origins \cup {0}, canonical \in BOOLEAN, k \in 0..Len(pending) :
          ReadAncestor([number |-> number, canonical |-> canonical], k)
    BY <1>5
  <2>2. [number |-> number, canonical |-> canonical] \in Header
    BY TimeConstants DEF Header
  <2> QED
    BY <2>1, <2>2, ReadAncestorKeepsInv
<1>6. CASE FinishLinkage
  BY <1>6, FinishLinkageKeepsInv
<1>7. CASE Advance
  BY <1>7, AdvanceKeepsInv
<1>8. CASE Drop
  BY <1>8, DropKeepsInv
<1>9. CASE UNCHANGED vars
  BY <1>9, StutterKeepsInv
<1> QED
  BY <1>1, <1>2, <1>3, <1>4, <1>5, <1>6, <1>7, <1>8, <1>9 DEF Next

LEMMA Invariance == Spec => []Inv
  BY InitInv, InvInductive, PTL DEF Spec

-----------------------------------------------------------------------------
(* Results *)

\* The state of the derivation has its types, along every chain of proposals, and no
\* span counts blocks that were not derived.
THEOREM TypeCorrect == Spec => []TypeOK
<1>1. Inv => TypeOK
  BY DEF Inv
<1> QED
  BY <1>1, Invariance, PTL

\* Whatever the sources hold, prepareSourceManifest derives blocks that are later
\* than their parents and within the bounds of the gas limit.
THEOREM BlocksWellFormed == Spec => []DerivedWellFormed
<1>1. Inv => DerivedWellFormed
  BY DEF Inv
<1> QED
  BY <1>1, Invariance, PTL

\* validateSourceAwareManifestAnchors refuses no proposal of legal layout whose
\* client names the real last anchor.
THEOREM EveryProposalDerivable == Spec => []DerivationTotal
<1>1. Inv => DerivationTotal
  BY DEF Inv
<1> QED
  BY <1>1, Invariance, PTL

\* No checkpoint that is not on L1 gets into L2 state, by stall, forced inclusion or
\* linkage.
THEOREM CheckpointsCanonical == Spec => []CheckpointsOnL1
<1>1. Inv => CheckpointsOnL1
  BY DEF Inv
<1> QED
  BY <1>1, Invariance, PTL

\* Every accepted proposal moves the head forward, with anchors that never go back
\* and that stay or lie in the window of the origin block.
THEOREM HeadOnlyAdvances == Spec => HeadAdvances
<1> DEFINE Ahead ==
      head' # head =>
        /\ head'.number > head.number /\ head'.time > head.time
        /\ \A i \in 1..Len(derived) :
             LET anchor == derived[i].anchor
             IN  /\ anchor >= (IF i = 1 THEN head.anchor ELSE derived[i - 1].anchor)
                 /\ \/ anchor = head.anchor
                    \/ last'.origin - MaxAnchorOffset <= anchor /\ anchor <= last'.origin
<1>1. Inv /\ [Next]_vars => [Ahead]_vars
  <2> SUFFICES ASSUME Inv, [Next]_vars, head' # head PROVE Ahead
    BY DEF vars
  <2>1. Advance
    BY DEF Next, Submit, PrepareSource, FinishSources, BindBlocks, ReadAncestor,
      FinishLinkage, Drop, vars
  <2>2. /\ phase = "linked" /\ claim = head.anchor /\ last' = prop
        /\ head'.number = head.number + Len(derived)
        /\ head'.time = derived[Len(derived)].timestamp
    BY <2>1 DEF Advance
  <2>3. /\ Len(derived) \in Nat /\ Len(derived) > 0
        /\ ForcedPrefix \in Nat /\ ForcedPrefix < Len(derived)
        /\ \A i \in 1..ForcedPrefix : Stays(i)
        /\ \/ \A i \in 1..Len(derived) : Stays(i)
           \/ \A i \in (ForcedPrefix + 1)..Len(derived) : Progresses(i)
    BY <2>2, PassedAnchors
  <2>4. head.number \in Nat /\ head.anchor \in Nat
    BY DEF Inv, TypeOK
  <2>5. head'.number > head.number /\ head'.time > head.time
    BY <2>2, <2>3, <2>4 DEF Inv, TimesAhead
  <2>6. prop.origin \in Nat /\ MaxAnchorOffset \in Nat
    <3>1. prop \in Proposal
      BY <2>2 DEF Inv, TypeOK, Proposal
    <3> QED
      BY <3>1, ProposalType, TimeConstants
  <2>7. ASSUME NEW i \in 1..Len(derived)
        PROVE  LET anchor == derived[i].anchor
               IN  /\ anchor >= (IF i = 1 THEN head.anchor ELSE derived[i - 1].anchor)
                   /\ \/ anchor = head.anchor
                      \/ prop.origin - MaxAnchorOffset <= anchor /\ anchor <= prop.origin
    <3>1. derived[i].anchor \in Nat /\ (i # 1 => derived[i - 1].anchor \in Nat)
      <4>1. i # 1 => i - 1 \in 1..Len(derived)
        BY <2>3
      <4> QED
        BY <4>1, DerivedType DEF Inv
    <3>2. CASE Stays(i)
      <4>1. i # 1 => Stays(i - 1)
        <5> SUFFICES ASSUME i # 1, ~Stays(i - 1) PROVE FALSE
          OBVIOUS
        <5>1. i - 1 \in 1..Len(derived) /\ ~(i - 1 \in 1..ForcedPrefix)
          BY <2>3
        <5>2. i - 1 \in (ForcedPrefix + 1)..Len(derived) /\ i \in (ForcedPrefix + 1)..Len(derived)
              /\ i > ForcedPrefix + 1
          BY <2>3, <5>1
        <5>3. Progresses(i - 1) /\ Progresses(i)
          BY <2>3, <5>1, <5>2
        <5> QED
          BY <2>2, <2>4, <3>1, <3>2, <5>2, <5>3 DEF Progresses, Stays
      <4> QED
        BY <2>2, <2>4, <3>1, <3>2, <4>1 DEF Stays
    <3>3. CASE ~Stays(i)
      <4>1. i \in (ForcedPrefix + 1)..Len(derived) /\ Progresses(i)
        BY <2>3, <3>3
      <4>2. i # 1 => derived[i - 1].anchor <= derived[i].anchor
        <5>1. CASE i > ForcedPrefix + 1
          BY <4>1, <5>1 DEF Progresses
        <5>2. CASE i = ForcedPrefix + 1 /\ i # 1
          <6>1. i - 1 \in 1..ForcedPrefix
            BY <2>3, <5>2
          <6> QED
            BY <2>3, <4>1, <6>1 DEF Progresses, Stays
        <5> QED
          BY <2>3, <4>1, <5>1, <5>2
      <4> QED
        BY <2>2, <2>4, <2>6, <3>1, <4>1, <4>2 DEF Progresses
    <3> QED
      BY <3>2, <3>3
  <2> QED
    BY <2>2, <2>5, <2>7
<1> QED
  BY <1>1, Invariance, PTL DEF Spec, HeadAdvances

===============================================================================
