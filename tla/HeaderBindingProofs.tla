------------------------- MODULE HeaderBindingProofs -------------------------
(***************************************************************************)
(* Proofs about HeaderBinding, for any fork times, block times, zk gas and *)
(* bounds, and for any chain config that taiko-geth may come with.         *)
(*                                                                         *)
(* The properties speak of the chain; the invariant that makes them        *)
(* inductive speaks of the request in flight: every bound header is linked *)
(* to the one before it, its base fee is that of its own parent and        *)
(* grandparent, the grandparent that is rolled along is the hash preimage  *)
(* that it claims to be, and what is replayed has the root of an execution *)
(* on its parent's root.  A request on the head extends the chain by its   *)
(* bound headers (Extended), which is what L1 settles.                     *)
(*                                                                         *)
(* What the filter made of a witness that nothing had checked is carried   *)
(* along as an implication: if the witness is genuine and the parent's     *)
(* root good, then the transactions are the derived ones.  The replay      *)
(* supplies the hypotheses, block by block.                                *)
(***************************************************************************)
EXTENDS HeaderBinding, WellFoundedInduction, TLAPS

-----------------------------------------------------------------------------
(* The inductive invariant *)

IsSequence(s) == s \in Seq(Elements(s))

IsHeader(h) ==
  /\ h = Header(h.number, h.parent, h.time, h.baseFee, h.difficulty, h.mix, h.forkFields,
                h.txRoot, h.rest, h.root)
  /\ h.number \in Nat /\ h.time \in Nat

Live == phase \in {"binding", "replay", "proved"}

\* The parent of the i-th block of the request.
ParentOf(i) == IF i = 1 THEN parent0 ELSE bound[i - 1]

Shapes ==
  /\ TypeOK
  /\ IsSequence(chain) /\ Len(chain) > 0
  /\ IsSequence(bound) /\ derived \in Seq(Times) /\ replayed \in Nat

\* The blocks of a chain have their numbers, parents and times in order, and a base
\* fee from the second on.
Linked(s) ==
  /\ s[1] = Genesis
  /\ \A i \in 1..Len(s) : IsHeader(s[i]) /\ s[i].number = i - 1
  /\ \A i \in 2..Len(s) :
       s[i].parent = s[i - 1] /\ s[i - 1].time <= s[i].time /\ s[i].baseFee \in Nat

Executed(s) == \A i \in 1..Len(s) : s[i].root = "good"

ChainLinked == Linked(chain) /\ Executed(chain)

RequestFits ==
  Live => /\ ConfigAvailable
          /\ IsHeader(parent0)
          /\ Derivable(derived, parent0) /\ Len(derived) > 0

\* What the manifest checks leave of a header.
Bound(h, par, time) ==
  /\ IsHeader(h)
  /\ h.number = par.number + 1 /\ h.parent = par /\ h.time = time /\ h.rest = "derived"
  /\ h.baseFee = IF par.number = 0 THEN 0 ELSE par.time - par.parent.time
  /\ h.baseFee # None
  /\ par.number # 0 => par.time >= par.parent.time
  /\ h.mix = shastaManifestMixHash(par.difficulty, h.number)
  /\ h.forkFields = IF h.time >= UnzenTime THEN "empty" ELSE "absent"
  /\ h.time < UnzenTime => h.difficulty = 0

BlocksBound == Live => \A i \in 1..Len(bound) : Bound(bound[i], ParentOf(i), derived[i])

Numbered == Live => \A i \in 1..Len(bound) : bound[i].number = parent0.number + i

\* The ancestors of the next block; the grandparent is a header's own compact form.
AncestorsRolled ==
  phase = "binding" =>
    /\ canonicalParent = ParentOf(Len(bound) + 1)
    /\ canonicalGrandparent # <<>> =>
         canonicalGrandparent = <<compactAncestorFromHeader(canonicalGrandparent[1].hash)>>
    /\ replayed = 0

\* What is read before the replay is read from witnesses that decode, or is the parent.
WitnessesRead ==
  Live => /\ IsSequence(witnesses)
          /\ \A i \in 1..Len(bound) : IsSequence(witnesses[i]) /\ DecodesWitness(witnesses[i])
          /\ \A x \in relied :
               x = parent0 \/ \E i \in 1..Len(bound) : x \in Elements(witnesses[i])

\* What the filter is worth: on a genuine witness and a good root, it has left the
\* derived transactions.
BlocksFiltered ==
  Live => \A i \in 1..Len(bound) :
    HonestWitness(bound[i], witnesses[i]) /\ ParentOf(i).root = "good" =>
      bound[i].txRoot = "derived"

\* What the replay adds.
BlocksReplayed ==
  Live => \A i \in 1..replayed :
    /\ HonestWitness(bound[i], witnesses[i])
    /\ bound[i].time >= UnzenTime => bound[i].difficulty = ZkGas[bound[i].number]
    /\ parent0.root = "good" => bound[i].root = "good" /\ bound[i].txRoot = "derived"

\* An honest client's blocks are the producer's.
HonestBound ==
  Live /\ honest =>
    /\ parent0 = L2Head
    /\ \A i \in 1..Len(bound) :
         /\ bound[i].root = "good" /\ bound[i].txRoot = "derived"
         /\ HonestWitness(bound[i], witnesses[i])
         /\ bound[i].time >= UnzenTime => bound[i].difficulty = ZkGas[bound[i].number]
    /\ phase = "binding" =>
         canonicalGrandparent = IF canonicalParent.number = 0 THEN <<>>
                                ELSE <<compactAncestorFromHeader(canonicalParent.parent)>>

Inv ==
  /\ Shapes
  /\ CanonicalChain /\ ChainLinked
  /\ RequestFits /\ BlocksBound /\ Numbered
  /\ AncestorsRolled /\ WitnessesRead /\ BlocksFiltered /\ BlocksReplayed
  /\ ReliesOnChain
  /\ HonestBound /\ HonestAccepted

-----------------------------------------------------------------------------
(* Sequences of anything *)

LEMMA SequenceFacts ==
  ASSUME NEW s, IsSequence(s)
  PROVE  Len(s) \in Nat /\ DOMAIN s = 1..Len(s) /\ s = [i \in 1..Len(s) |-> s[i]]
BY DEF IsSequence

LEMMA SequenceOf ==
  ASSUME NEW n \in Nat, NEW s, DOMAIN s = 1..n, s = [i \in 1..n |-> s[i]]
  PROVE  IsSequence(s) /\ Len(s) = n
<1>1. \A i \in 1..n : s[i] \in Elements(s)
  BY DEF Elements
<1>2. s \in [1..n -> Elements(s)]
  BY <1>1
<1> QED
  BY <1>2 DEF IsSequence

LEMMA TypedSequence ==
  ASSUME NEW S, NEW s \in Seq(S)
  PROVE  IsSequence(s)
BY SequenceOf

LEMMA EmptySequence == IsSequence(<<>>) /\ Len(<<>>) = 0
<1>1. <<>> \in Seq(Elements(<<>>))
  OBVIOUS
<1> QED
  BY <1>1 DEF IsSequence

LEMMA AppendSequence ==
  ASSUME NEW s, IsSequence(s), NEW h
  PROVE  /\ IsSequence(Append(s, h))
         /\ Len(Append(s, h)) = Len(s) + 1
         /\ Append(s, h)[Len(s) + 1] = h
         /\ \A i \in 1..Len(s) : Append(s, h)[i] = s[i]
<1> DEFINE S == Elements(s) \cup {h}
           t == Append(s, h)
<1>1. s \in Seq(S)
  BY DEF IsSequence
<1>2. h \in S
  OBVIOUS
<1> HIDE DEF S
<1>3. t \in Seq(S) /\ Len(t) = Len(s) + 1 /\ Len(s) \in Nat
      /\ t[Len(s) + 1] = h /\ \A i \in 1..Len(s) : t[i] = s[i]
  BY <1>1, <1>2
<1> HIDE DEF t
<1>4. DOMAIN t = 1..Len(t) /\ t = [i \in 1..Len(t) |-> t[i]] /\ Len(t) \in Nat
  BY <1>3
<1>5. IsSequence(t)
  BY <1>4, SequenceOf
<1> QED
  BY <1>3, <1>5 DEF t

LEMMA ConcatSequence ==
  ASSUME NEW s, IsSequence(s), NEW t, IsSequence(t)
  PROVE  /\ IsSequence(s \o t)
         /\ Len(s \o t) = Len(s) + Len(t)
         /\ \A i \in 1..Len(s) : (s \o t)[i] = s[i]
         /\ \A i \in (Len(s) + 1)..(Len(s) + Len(t)) : (s \o t)[i] = t[i - Len(s)]
<1> DEFINE S == Elements(s) \cup Elements(t)
           u == s \o t
<1>1. s \in Seq(S) /\ t \in Seq(S)
  BY DEF IsSequence
<1> HIDE DEF S
<1>2. /\ u \in Seq(S) /\ Len(u) = Len(s) + Len(t) /\ Len(s) \in Nat /\ Len(t) \in Nat
      /\ \A i \in 1..Len(s) : u[i] = s[i]
      /\ \A i \in (Len(s) + 1)..(Len(s) + Len(t)) : u[i] = t[i - Len(s)]
  BY <1>1
<1> HIDE DEF u
<1>3. DOMAIN u = 1..Len(u) /\ u = [i \in 1..Len(u) |-> u[i]] /\ Len(u) \in Nat
  BY <1>2
<1>4. IsSequence(u)
  BY <1>3, SequenceOf
<1> QED
  BY <1>2, <1>4 DEF u

\* Every set of naturals that has an element has a least one.
Less == {p \in Nat \X Nat : p[1] < p[2]}

LEMMA LeastElement ==
  ASSUME NEW S \in SUBSET Nat, NEW x \in S
  PROVE  \E y \in S : \A z \in Nat : z < y => z \notin S
<1>1. IsWellFoundedOn(Less, Nat)
  BY NatLessThanWellFounded, Zenon DEF OpToRel, Less
<1>2. PICK y \in S : \A z \in S : <<z, y>> \notin Less
  BY <1>1, WFMin, Zenon
<1>3. ASSUME NEW z \in Nat, z < y PROVE z \notin S
  BY <1>2, <1>3 DEF Less
<1> QED
  BY <1>2, <1>3

-----------------------------------------------------------------------------
(* Chain configuration and headers *)

\* When no fork time of taiko-geth disagrees, all forks start with Unzen.
LEMMA ForksAgree ==
  ASSUME ConfigAvailable, NEW fork \in ForkNames, NEW time
  PROVE  IsActive(fork, time) <=> time >= UnzenTime
BY DEF ConfigAvailable, pinForkTime, IsActive, ActivationTime

LEMMA UnzenAgrees ==
  ASSUME ConfigAvailable, NEW time
  PROVE  IsUnzen(time) <=> time >= UnzenTime
BY ForksAgree DEF IsUnzen, ForkNames

LEMMA GenesisIsHeader == IsHeader(Genesis) /\ IsHeader(EarlyBlock)
BY DEF Genesis, EarlyBlock, IsHeader, Header

\* Headers that differ in one field have the shape of headers.
LEMMA ForgedIsHeader ==
  ASSUME NEW h, IsHeader(h), NEW g \in Forged(h)
  PROVE  IsHeader(g) /\ g.number = h.number
<1>1. CASE g = [h EXCEPT !.root = "other"]
  BY <1>1 DEF IsHeader, Header
<1>2. CASE g = [h EXCEPT !.time = @ + 1]
  BY <1>2 DEF IsHeader, Header
<1> QED
  BY <1>1, <1>2 DEF Forged

LEMMA FullHeader ==
  ASSUME NEW h
  PROVE  Full(h).header = <<h>> /\ Full(h).compact = compactAncestorFromHeader(h)
BY DEF Full

\* What passes the checks of a block is bound to the derivation and to its ancestors.
LEMMA CheckedIsBound ==
  ASSUME ConfigAvailable, NEW h, NEW filtered, NEW par, NEW gp, NEW time \in Nat,
         time >= ForkTime, IsHeader(par),
         h = Header(h.number, h.parent, h.time, h.baseFee, h.difficulty, h.mix, h.forkFields,
                    h.txRoot, h.rest, h.root),
         gp # <<>> => gp = <<compactAncestorFromHeader(gp[1].hash)>>,
         validateManifestBlockBinding(h, filtered, time, par, gp)
  PROVE  Bound(h, par, time)
<1>1. h.time = time /\ h.rest = "derived" /\ h.mix = shastaManifestMixHash(par.difficulty, h.number)
  BY DEF validateManifestBlockBinding
<1>2. /\ h.baseFee # None
      /\ validateManifestHeaderAncestry(h, par, gp)
      /\ par.number # 0 => par.time >= gp[1].timestamp
      /\ h.baseFee = manifestParentBlockTime(par, gp)
  BY <1>1 DEF validateManifestBlockBinding, validateManifestHeader,
     validateManifestHeaderBaseFee, IsShasta
<1>3. h.number = par.number + 1 /\ h.parent = par
  BY <1>2 DEF validateManifestHeaderAncestry
<1>4. par.number # 0 => gp[1].timestamp = par.parent.time
  BY <1>2 DEF validateManifestHeaderAncestry, compactAncestorFromHeader
<1>5. h.baseFee = IF par.number = 0 THEN 0 ELSE par.time - par.parent.time
  BY <1>2, <1>4 DEF manifestParentBlockTime
<1>6. /\ h.forkFields = IF h.time >= UnzenTime THEN "empty" ELSE "absent"
      /\ ~(h.time >= UnzenTime) => h.difficulty = 0
  BY UnzenAgrees DEF validateManifestBlockBinding, validateManifestHeader,
     validateManifestHeaderDifficulty, validateManifestHeaderForkFields
<1>7. h.time < UnzenTime => ~(h.time >= UnzenTime)
  BY <1>1, TimeAssumption
<1>8. IsHeader(h)
  BY <1>1, <1>3 DEF IsHeader
<1> QED
  BY <1>1, <1>2, <1>3, <1>4, <1>5, <1>6, <1>7, <1>8 DEF Bound

\* Such a header, with what the replay and the parent add, is the producer's.
LEMMA BoundIsProduced ==
  ASSUME NEW h, NEW par, NEW time, Bound(h, par, time), IsHeader(par),
         h.root = "good", h.txRoot = "derived",
         h.time >= UnzenTime => h.difficulty = ZkGas[h.number],
         NEW grandparentTime, par.number # 0 => grandparentTime = par.parent.time
  PROVE  h = Produced(par, grandparentTime, h.time)
<1>1. h.difficulty = IF h.time >= UnzenTime THEN ZkGas[par.number + 1] ELSE 0
  <2>1. h.time \in Nat /\ UnzenTime \in Nat
    BY TimeAssumption DEF Bound, IsHeader
  <2> QED
    BY <2>1 DEF Bound
<1>2. h.baseFee = IF par.number = 0 THEN 0 ELSE par.time - grandparentTime
  BY DEF Bound
<1>3. /\ h.number = par.number + 1
      /\ h.parent = par
      /\ h.rest = "derived"
      /\ h.forkFields = (IF h.time >= UnzenTime THEN "empty" ELSE "absent")
  BY DEF Bound
<1>4. h.mix = shastaManifestMixHash(par.difficulty, par.number + 1)
  BY DEF Bound
<1>5. h = Header(h.number, h.parent, h.time, h.baseFee, h.difficulty, h.mix, h.forkFields,
                 h.txRoot, h.rest, h.root)
  <2>1. IsHeader(h)
    BY DEF Bound
  <2> QED
    BY <2>1, Zenon DEF IsHeader
<1> DEFINE fee == IF par.number = 0 THEN 0 ELSE par.time - grandparentTime
           dif == IF h.time >= UnzenTime THEN ZkGas[par.number + 1] ELSE 0
           fields == IF h.time >= UnzenTime THEN "empty" ELSE "absent"
           mix == shastaManifestMixHash(par.difficulty, par.number + 1)
<1>6. h = Header(par.number + 1, par, h.time, fee, dif, mix, fields, "derived", "derived", "good")
  <2>1. h.baseFee = fee /\ h.difficulty = dif /\ h.mix = mix /\ h.forkFields = fields
    BY <1>1, <1>2, <1>3, <1>4
  <2> HIDE DEF fee, dif, mix, fields
  <2> QED
    BY <1>3, <1>5, <2>1
<1> QED
  BY <1>6 DEF Produced

-----------------------------------------------------------------------------
(* The chain with the blocks of a request on its head *)

Extended == chain \o bound

LEMMA ExtendedIndices ==
  ASSUME Shapes
  PROVE  /\ IsSequence(chain) /\ IsSequence(bound) /\ IsSequence(Extended)
         /\ Len(chain) \in Nat /\ Len(bound) \in Nat /\ Len(chain) > 0
         /\ Len(Extended) = Len(chain) + Len(bound)
         /\ \A k \in 1..Len(chain) : Extended[k] = chain[k]
         /\ \A i \in 1..Len(bound) : Extended[Len(chain) + i] = bound[i]
<1>1. IsSequence(chain) /\ IsSequence(bound) /\ Len(chain) > 0
  BY DEF Shapes
<1>2. Len(chain) \in Nat /\ Len(bound) \in Nat
  BY <1>1, SequenceFacts
<1>3. /\ IsSequence(Extended)
      /\ Len(Extended) = Len(chain) + Len(bound)
      /\ \A k \in 1..Len(chain) : Extended[k] = chain[k]
      /\ \A k \in (Len(chain) + 1)..(Len(chain) + Len(bound)) : Extended[k] = bound[k - Len(chain)]
  BY <1>1, ConcatSequence DEF Extended
<1>4. ASSUME NEW i \in 1..Len(bound)
      PROVE  Extended[Len(chain) + i] = bound[i]
  BY <1>2, <1>3
<1> QED
  BY <1>1, <1>2, <1>3, <1>4

\* The parent of a block is the element before it.
LEMMA ExtendedParents ==
  ASSUME Shapes, parent0 = L2Head, NEW i \in 1..(Len(bound) + 1)
  PROVE  ParentOf(i) = Extended[Len(chain) + i - 1]
<1>1. Len(chain) \in Nat /\ Len(bound) \in Nat /\ Len(chain) > 0 /\ i \in Nat /\ i > 0
  BY ExtendedIndices
<1>2. CASE i = 1
  BY <1>1, <1>2, ExtendedIndices DEF ParentOf, L2Head
<1>3. CASE i > 1
  <2>1. i - 1 \in 1..Len(bound) /\ Len(chain) + (i - 1) = Len(chain) + i - 1
    BY <1>1, <1>3
  <2>2. Extended[Len(chain) + (i - 1)] = bound[i - 1]
    BY <2>1, ExtendedIndices
  <2> QED
    BY <1>3, <2>1, <2>2 DEF ParentOf
<1> QED
  BY <1>1, <1>2, <1>3

LEMMA DerivedTimesRise ==
  ASSUME Shapes, RequestFits, BlocksBound, Live, NEW i \in 1..Len(bound)
  PROVE  /\ bound[i].time = derived[i] /\ derived[i] \in Nat /\ derived[i] >= ForkTime
         /\ IsHeader(ParentOf(i)) /\ ParentOf(i).time <= bound[i].time
<1>1. /\ Len(bound) \in Nat /\ Len(derived) \in Nat /\ Len(bound) <= Len(derived)
      /\ derived \in Seq(Times) /\ DOMAIN derived = 1..Len(derived)
  BY ExtendedIndices DEF Shapes, TypeOK
<1>2. i \in DOMAIN derived /\ derived[i] \in Nat /\ i \in Nat /\ i > 0
  <2>1. i \in 1..Len(derived) /\ i \in Nat /\ i > 0
    BY <1>1
  <2>2. derived[i] \in Times
    BY <1>1, <2>1
  <2> QED
    BY <1>1, <2>1, <2>2, TimeAssumption
<1>3. derived[i] >= ForkTime /\ derived[i] > (IF i = 1 THEN parent0.time ELSE derived[i - 1])
  BY <1>2 DEF RequestFits, Derivable
<1>4. Bound(bound[i], ParentOf(i), derived[i])
  BY DEF BlocksBound
<1>5. bound[i].time = derived[i]
  BY <1>4 DEF Bound
<1>6. CASE i = 1
  <2>1. IsHeader(parent0) /\ parent0.time \in Nat
    BY DEF RequestFits, IsHeader
  <2> QED
    BY <1>2, <1>3, <1>5, <1>6, <2>1 DEF ParentOf
<1>7. CASE i # 1
  <2>1. i - 1 \in 1..Len(bound) /\ i - 1 \in 1..Len(derived)
    BY <1>1, <1>2, <1>7
  <2>2. Bound(bound[i - 1], ParentOf(i - 1), derived[i - 1])
    BY <2>1 DEF BlocksBound
  <2>3. IsHeader(bound[i - 1]) /\ bound[i - 1].time = derived[i - 1] /\ derived[i - 1] \in Nat
    BY <2>2 DEF Bound, IsHeader
  <2> QED
    BY <1>2, <1>3, <1>5, <1>7, <2>3 DEF ParentOf
<1> QED
  BY <1>2, <1>3, <1>5, <1>6, <1>7

LEMMA ExtendedLinked ==
  ASSUME Shapes, ChainLinked, RequestFits, BlocksBound, Numbered, Live, parent0 = L2Head
  PROVE  Linked(Extended)
<1>1. /\ Len(chain) \in Nat /\ Len(bound) \in Nat /\ Len(chain) > 0
      /\ Len(Extended) = Len(chain) + Len(bound)
      /\ \A k \in 1..Len(chain) : Extended[k] = chain[k]
      /\ \A i \in 1..Len(bound) : Extended[Len(chain) + i] = bound[i]
  BY ExtendedIndices
<1>2. Linked(chain)
  BY DEF ChainLinked
<1>3. Extended[1] = Genesis
  BY <1>1, <1>2 DEF Linked
<1>4. parent0.number = Len(chain) - 1
  BY <1>1, <1>2 DEF Linked, L2Head
<1>5. ASSUME NEW k \in 1..Len(Extended)
      PROVE  IsHeader(Extended[k]) /\ Extended[k].number = k - 1
  <2>1. CASE k \in 1..Len(chain)
    BY <1>1, <1>2, <2>1 DEF Linked
  <2>2. CASE k \notin 1..Len(chain)
    <3>1. PICK i \in 1..Len(bound) : k = Len(chain) + i
      <4>1. k - Len(chain) \in 1..Len(bound) /\ k = Len(chain) + (k - Len(chain))
        BY <1>1, <2>2
      <4> QED
        BY <4>1
    <3>2. Extended[k] = bound[i]
      BY <1>1, <3>1
    <3>3. IsHeader(bound[i]) /\ bound[i].number = parent0.number + i
      BY DEF BlocksBound, Bound, Numbered
    <3> QED
      BY <1>1, <1>4, <3>1, <3>2, <3>3
  <2> QED
    BY <2>1, <2>2
<1>6. ASSUME NEW k \in 2..Len(Extended)
      PROVE  Extended[k].parent = Extended[k - 1] /\ Extended[k - 1].time <= Extended[k].time
  <2>1. CASE k \in 1..Len(chain)
    <3>1. k \in 2..Len(chain) /\ k - 1 \in 1..Len(chain)
      BY <1>1, <2>1
    <3> QED
      BY <1>1, <1>2, <3>1 DEF Linked
  <2>2. CASE k \notin 1..Len(chain)
    <3>1. PICK i \in 1..Len(bound) : k = Len(chain) + i
      <4>1. k - Len(chain) \in 1..Len(bound) /\ k = Len(chain) + (k - Len(chain))
        BY <1>1, <2>2
      <4> QED
        BY <4>1
    <3>2. Extended[k] = bound[i] /\ Extended[k - 1] = ParentOf(i)
      <4>1. i \in 1..(Len(bound) + 1) /\ k - 1 = Len(chain) + i - 1
        BY <1>1, <3>1
      <4>2. ParentOf(i) = Extended[Len(chain) + i - 1]
        BY <4>1, ExtendedParents
      <4>3. Extended[k] = bound[i]
        BY <1>1, <3>1
      <4> QED
        BY <4>1, <4>2, <4>3
    <3>3. Bound(bound[i], ParentOf(i), derived[i])
      BY DEF BlocksBound
    <3> QED
      BY <3>2, <3>3, DerivedTimesRise DEF Bound
  <2> QED
    BY <2>1, <2>2
<1>7. ASSUME NEW k \in 2..Len(Extended)
      PROVE  Extended[k].baseFee \in Nat
  <2>1. CASE k \in 1..Len(chain)
    <3>1. k \in 2..Len(chain)
      BY <1>1, <2>1
    <3> QED
      BY <1>1, <1>2, <3>1 DEF Linked
  <2>2. CASE k \notin 1..Len(chain)
    <3>1. PICK i \in 1..Len(bound) : k = Len(chain) + i
      <4>1. k - Len(chain) \in 1..Len(bound) /\ k = Len(chain) + (k - Len(chain))
        BY <1>1, <2>2
      <4> QED
        BY <4>1
    <3> DEFINE par == Extended[k - 1]
    <3>2. Extended[k] = bound[i] /\ par = ParentOf(i)
      <4>1. i \in 1..(Len(bound) + 1) /\ k - 1 = Len(chain) + i - 1
        BY <1>1, <3>1
      <4>2. ParentOf(i) = Extended[Len(chain) + i - 1]
        BY <4>1, ExtendedParents
      <4>3. Extended[k] = bound[i]
        BY <1>1, <3>1
      <4> QED
        BY <4>1, <4>2, <4>3
    <3>3. bound[i].baseFee = IF par.number = 0 THEN 0 ELSE par.time - par.parent.time
      BY <3>2 DEF BlocksBound, Bound
    <3>4. par.number = k - 2 /\ par.time \in Nat
      <4>1. k - 1 \in 1..Len(Extended)
        BY <1>1
      <4>2. IsHeader(par) /\ par.number = (k - 1) - 1
        BY <1>5, <4>1
      <4> QED
        BY <1>1, <4>2 DEF IsHeader
    <3>5. CASE k = 2
      BY <3>2, <3>3, <3>4, <3>5
    <3>6. CASE k # 2
      <4>1. k - 1 \in 2..Len(Extended) /\ (k - 1) - 1 \in 1..Len(Extended)
        BY <1>1, <3>6
      <4>2. par.parent = Extended[(k - 1) - 1] /\ par.parent.time <= par.time
        BY <1>6, <4>1
      <4>3. par.parent.time \in Nat
        BY <1>5, <4>1, <4>2 DEF IsHeader
      <4> HIDE DEF par
      <4>4. par.number # 0
        BY <1>1, <3>4, <3>6
      <4> QED
        BY <3>2, <3>3, <3>4, <4>2, <4>3, <4>4
    <3> QED
      BY <3>5, <3>6
  <2> QED
    BY <2>1, <2>2
<1> QED
  BY <1>3, <1>5, <1>6, <1>7 DEF Linked

LEMMA ExtendedElements ==
  ASSUME Shapes
  PROVE  Elements(Extended) = Elements(chain) \cup Elements(bound)
<1>1. /\ IsSequence(chain) /\ IsSequence(bound) /\ IsSequence(Extended)
      /\ Len(chain) \in Nat /\ Len(bound) \in Nat
      /\ Len(Extended) = Len(chain) + Len(bound)
      /\ \A k \in 1..Len(chain) : Extended[k] = chain[k]
      /\ \A i \in 1..Len(bound) : Extended[Len(chain) + i] = bound[i]
  BY ExtendedIndices
<1>2. /\ DOMAIN chain = 1..Len(chain) /\ DOMAIN bound = 1..Len(bound)
      /\ DOMAIN Extended = 1..Len(Extended)
  BY <1>1, SequenceFacts
<1>3. ASSUME NEW k \in 1..Len(Extended)
      PROVE  Extended[k] \in Elements(chain) \cup Elements(bound)
  <2>1. CASE k \in 1..Len(chain)
    BY <1>1, <1>2, <2>1 DEF Elements
  <2>2. CASE k \notin 1..Len(chain)
    <3>1. k - Len(chain) \in 1..Len(bound) /\ k = Len(chain) + (k - Len(chain))
      BY <1>1, <2>2
    <3> QED
      BY <1>1, <1>2, <3>1 DEF Elements
  <2> QED
    BY <2>1, <2>2
<1>4. ASSUME NEW k \in 1..Len(chain) PROVE chain[k] \in Elements(Extended)
  BY <1>1, <1>2 DEF Elements
<1>5. ASSUME NEW i \in 1..Len(bound) PROVE bound[i] \in Elements(Extended)
  <2>1. Len(chain) + i \in 1..Len(Extended)
    BY <1>1
  <2> QED
    BY <1>1, <1>2, <2>1 DEF Elements
<1> QED
  BY <1>2, <1>3, <1>4, <1>5 DEF Elements

-----------------------------------------------------------------------------
(* Witnesses *)

\* Whoever follows parents from a block of a linked chain stays on it, and counts
\* down: this is what lets the replay rely on headers that are not bound themselves.
LEMMA AncestorsOnChain ==
  ASSUME NEW s, IsSequence(s), Linked(s), NEW w, IsSequence(w), w[1] \in Elements(s),
         \A i \in 1..Len(w) : w[i] # None,
         \A i \in 2..Len(w) : w[i - 1].parent = w[i]
  PROVE  /\ \A i \in 1..Len(w) : w[i] \in Elements(s)
         /\ \A i \in 2..Len(w) : w[i - 1].number = w[i].number + 1
<1>1. ASSUME NEW x \in Elements(s), x.parent # None
      PROVE  x.parent \in Elements(s) /\ x.number = x.parent.number + 1
  <2>1. DOMAIN s = 1..Len(s) /\ Len(s) \in Nat
    BY SequenceFacts
  <2>2. PICK k \in 1..Len(s) : x = s[k]
    BY <2>1 DEF Elements
  <2>3. k # 1
    BY <1>1, <2>2 DEF Linked, Genesis, Header
  <2>4. k \in 2..Len(s) /\ k - 1 \in 1..Len(s)
    BY <2>1, <2>3
  <2>5. x.parent = s[k - 1] /\ x.number = k - 1 /\ s[k - 1].number = (k - 1) - 1
    BY <2>2, <2>4 DEF Linked
  <2> QED
    BY <2>1, <2>4, <2>5 DEF Elements
<1>2. Len(w) \in Nat
  BY SequenceFacts
<1> DEFINE Off == {i \in 1..Len(w) : w[i] \notin Elements(s)}
<1>3. ASSUME NEW j \in 1..Len(w) PROVE w[j] \in Elements(s)
  <2> SUFFICES ASSUME j \in Off PROVE FALSE
    OBVIOUS
  <2>1. Off \in SUBSET Nat
    BY <1>2
  <2>2. PICK i \in Off : \A z \in Nat : z < i => z \notin Off
    BY <2>1, LeastElement
  <2>3. i # 1 /\ i \in 1..Len(w)
    BY <2>2
  <2>4. i - 1 \in 1..Len(w) /\ i \in 2..Len(w) /\ i - 1 \in Nat /\ i - 1 < i
    BY <1>2, <2>3
  <2>5. w[i - 1] \in Elements(s)
    BY <2>2, <2>4
  <2>6. w[i - 1].parent = w[i] /\ w[i] # None
    BY <2>4
  <2>7. w[i] \in Elements(s)
    BY <1>1, <2>5, <2>6
  <2> QED
    BY <2>2, <2>7
<1>4. ASSUME NEW i \in 2..Len(w) PROVE w[i - 1].number = w[i].number + 1
  <2>1. i - 1 \in 1..Len(w) /\ i \in 1..Len(w)
    BY <1>2
  <2> QED
    BY <1>1, <1>3, <2>1
<1> QED
  BY <1>3, <1>4

LEMMA WitnessReversed ==
  ASSUME NEW raws, IsSequence(raws), DecodesWitness(raws)
  PROVE  LET w == decodeWitnessHeaders(raws)
         IN  /\ IsSequence(w) /\ Len(w) = Len(raws) /\ Len(w) \in Nat /\ Len(w) > 0
             /\ \A i \in 1..Len(w) : w[i] = raws[Len(raws) - i + 1] /\ w[i] # None
             /\ Elements(w) = Elements(raws)
<1> DEFINE w == decodeWitnessHeaders(raws)
<1>1. Len(raws) \in Nat /\ DOMAIN raws = 1..Len(raws) /\ Len(raws) > 0
  BY SequenceFacts, EmptySequence DEF DecodesWitness, IsSequence
<1>2. DOMAIN w = 1..Len(raws) /\ w = [i \in 1..Len(raws) |-> w[i]]
      /\ \A i \in 1..Len(raws) : w[i] = raws[(Len(raws) - i) + 1]
  BY <1>1 DEF decodeWitnessHeaders, Reverse
<1>3. IsSequence(w) /\ Len(w) = Len(raws)
  BY <1>1, <1>2, SequenceOf
<1>4. ASSUME NEW i \in 1..Len(raws)
      PROVE  /\ (Len(raws) - i) + 1 \in 1..Len(raws)
             /\ (Len(raws) - ((Len(raws) - i) + 1)) + 1 = i
  BY <1>1
<1> HIDE DEF w
<1>5. \A i \in 1..Len(raws) : w[i] = raws[Len(raws) - i + 1] /\ w[i] # None
  BY <1>1, <1>2, <1>4 DEF DecodesWitness
<1>6. ASSUME NEW i \in 1..Len(raws)
      PROVE  w[i] \in Elements(raws) /\ raws[i] \in Elements(w)
  <2>1. w[i] = raws[(Len(raws) - i) + 1]
    BY <1>2
  <2>2. w[(Len(raws) - i) + 1] = raws[i]
    BY <1>2, <1>4
  <2> QED
    BY <1>1, <1>2, <1>4, <2>1, <2>2 DEF Elements
<1>7. Elements(w) = Elements(raws)
  BY <1>1, <1>2, <1>6 DEF Elements
<1> QED
  BY <1>1, <1>3, <1>5, <1>7 DEF w

\* A genuine witness, read from the parent on: each header is the parent of the one
\* before it.
LEMMA GenuineReversed ==
  ASSUME NEW h, NEW raws, IsSequence(raws), DecodesWitness(raws),
         NEW w, w = decodeWitnessHeaders(raws)
  PROVE  HonestWitness(h, raws) <=>
           w[1] = h.parent /\ \A j \in 2..Len(w) : w[j - 1].parent = w[j]
<1>1. /\ Len(w) = Len(raws) /\ Len(w) \in Nat /\ Len(w) > 0
      /\ \A j \in 1..Len(w) : w[j] = raws[Len(raws) - j + 1]
      /\ DOMAIN raws = 1..Len(raws)
  BY WitnessReversed, SequenceFacts
<1>2. Len(raws) \in DOMAIN raws /\ w[1] = raws[Len(raws)]
  <2>1. 1 \in 1..Len(w) /\ Len(raws) - 1 + 1 = Len(raws)
    BY <1>1
  <2> QED
    BY <1>1, <2>1
<1>3. ASSUME NEW j \in 2..Len(w)
      PROVE  /\ Len(raws) - j + 1 \in DOMAIN raws /\ Len(raws) - j + 1 # Len(raws)
             /\ w[j] = raws[Len(raws) - j + 1]
             /\ w[j - 1] = raws[(Len(raws) - j + 1) + 1]
  <2>1. /\ Len(raws) - j + 1 \in DOMAIN raws /\ Len(raws) - j + 1 # Len(raws)
        /\ Len(raws) - (j - 1) + 1 = (Len(raws) - j + 1) + 1
        /\ j - 1 \in 1..Len(w) /\ j \in 1..Len(w)
    BY <1>1
  <2>2. w[j - 1] = raws[Len(raws) - (j - 1) + 1]
    BY <1>1, <2>1
  <2>3. w[j] = raws[Len(raws) - j + 1]
    BY <1>1, <2>1
  <2> QED
    BY <2>1, <2>2, <2>3
<1>4. ASSUME HonestWitness(h, raws)
      PROVE  w[1] = h.parent /\ \A j \in 2..Len(w) : w[j - 1].parent = w[j]
  <2>1. w[1] = h.parent
    BY <1>2, <1>4 DEF HonestWitness
  <2>2. ASSUME NEW j \in 2..Len(w) PROVE w[j - 1].parent = w[j]
    <3>1. raws[Len(raws) - j + 1] = raws[(Len(raws) - j + 1) + 1].parent
      BY <1>3, <1>4 DEF HonestWitness
    <3> QED
      BY <1>3, <3>1
  <2> QED
    BY <2>1, <2>2
<1>5. ASSUME w[1] = h.parent, \A j \in 2..Len(w) : w[j - 1].parent = w[j]
      PROVE  HonestWitness(h, raws)
  <2> SUFFICES ASSUME NEW i \in DOMAIN raws
               PROVE  raws[i] = IF i = Len(raws) THEN h.parent ELSE raws[i + 1].parent
    BY DEF HonestWitness
  <2>1. CASE i = Len(raws)
    BY <1>2, <1>5, <2>1
  <2>2. CASE i # Len(raws)
    <3> DEFINE j == Len(raws) - i + 1
    <3>1. j \in 2..Len(w) /\ Len(raws) - j + 1 = i
      BY <1>1, <2>2
    <3> HIDE DEF j
    <3>2. w[j] = raws[i] /\ w[j - 1] = raws[i + 1]
      BY <1>3, <3>1
    <3> QED
      BY <1>5, <2>2, <3>1, <3>2
  <2> QED
    BY <2>1, <2>2
<1> QED
  BY <1>4, <1>5

LEMMA SingletonSequence ==
  ASSUME NEW x
  PROVE  IsSequence(<<x>>)
<1>1. <<x>> \in Seq({x})
  OBVIOUS
<1> QED
  BY <1>1, TypedSequence

LEMMA WitnessesAreSequences ==
  ASSUME NEW p, NEW raws \in WitnessHeaders(p)
  PROVE  IsSequence(raws)
<1>1. ASSUME NEW x PROVE IsSequence(<<x>>)
  BY SingletonSequence
<1>2. ASSUME NEW x, NEW y PROVE IsSequence(<<x, y>>)
  <2>1. <<x, y>> \in Seq({x, y})
    OBVIOUS
  <2> QED
    BY <2>1, TypedSequence
<1>3. \/ raws = <<>>
      \/ \E x : raws = <<x>>
      \/ \E x, y : raws = <<x, y>>
  BY DEF WitnessHeaders
<1> QED
  BY <1>1, <1>2, <1>3, EmptySequence

-----------------------------------------------------------------------------
(* Requests that come and go *)

\* A request has ended, and the chain is in order.
LEMMA IdleInv ==
  ASSUME upstream' \in Upstreams, phase' = "idle", parent0' = None, derived' = <<>>,
         bound' = <<>>, witnesses' = <<>>, replayed' = 0, relied' = {}, honest' = TRUE,
         IsSequence(chain'), Len(chain') > 0, CanonicalChain', ChainLinked'
  PROVE  Inv'
<1>1. Shapes'
  BY EmptySequence DEF Shapes, TypeOK
<1>2. ~Live'
  BY DEF Live
<1>3. RequestFits' /\ BlocksBound' /\ Numbered' /\ AncestorsRolled' /\ HonestBound'
  BY <1>2 DEF RequestFits, BlocksBound, Numbered, AncestorsRolled, HonestBound
<1>4. /\ WitnessesRead' /\ BlocksFiltered' /\ BlocksReplayed' /\ ReliesOnChain'
      /\ HonestAccepted'
  BY <1>2 DEF WitnessesRead, BlocksFiltered, BlocksReplayed, ReliesOnChain, HonestAccepted
<1> QED
  BY <1>1, <1>3, <1>4 DEF Inv

LEMMA InitInv == Init => Inv
<1> SUFFICES ASSUME Init PROVE Inv
  OBVIOUS
<1>1. chain = <<Genesis>> \/ chain = <<Genesis, EarlyBlock>>
  BY DEF Init
<1>2. IsSequence(chain) /\ Len(chain) \in {1, 2} /\ chain[1] = Genesis
      /\ (Len(chain) = 2 => chain[2] = EarlyBlock)
  <2>1. CASE chain = <<Genesis>>
    <3>1. chain \in Seq({Genesis}) /\ Len(chain) = 1 /\ chain[1] = Genesis
      BY <2>1
    <3> QED
      BY <3>1, TypedSequence
  <2>2. CASE chain = <<Genesis, EarlyBlock>>
    <3>1. /\ chain \in Seq({Genesis, EarlyBlock}) /\ Len(chain) = 2
          /\ chain[1] = Genesis /\ chain[2] = EarlyBlock
      BY <2>2
    <3> QED
      BY <3>1, TypedSequence
  <2> QED
    BY <1>1, <2>1, <2>2
<1>3. /\ Genesis.number = 0 /\ Genesis.root = "good" /\ Genesis.time = 0
      /\ EarlyBlock.number = 1 /\ EarlyBlock.root = "good" /\ EarlyBlock.time = 0
      /\ EarlyBlock.parent = Genesis /\ EarlyBlock.baseFee = 0
  BY DEF Genesis, EarlyBlock, Header
<1>4. CanonicalChain
  BY <1>2 DEF CanonicalChain
<1>5. ChainLinked
  BY <1>2, <1>3, GenesisIsHeader DEF ChainLinked, Linked, Executed
<1>6. Shapes
  BY <1>2, EmptySequence DEF Init, Shapes, TypeOK
<1>7. ~Live /\ phase = "idle" /\ parent0 = None
  BY DEF Init, Live
<1>8. RequestFits /\ BlocksBound /\ Numbered /\ AncestorsRolled /\ HonestBound
  BY <1>7 DEF RequestFits, BlocksBound, Numbered, AncestorsRolled, HonestBound
<1>9. WitnessesRead /\ BlocksFiltered /\ BlocksReplayed /\ ReliesOnChain /\ HonestAccepted
  BY <1>7 DEF WitnessesRead, BlocksFiltered, BlocksReplayed, ReliesOnChain, HonestAccepted
<1> QED
  BY <1>4, <1>5, <1>6, <1>8, <1>9 DEF Inv

LEMMA EndRequestKeepsInv ==
  ASSUME Inv, EndRequest
  PROVE  Inv'
<1>1. chain' = chain /\ upstream' = upstream
  BY DEF EndRequest
<1>2. CanonicalChain'
  BY <1>1 DEF Inv, CanonicalChain
<1>3. ChainLinked'
  BY <1>1 DEF Inv, ChainLinked, Linked, Executed
<1> QED
  BY <1>1, <1>2, <1>3, IdleInv DEF EndRequest, Reset, Inv, Shapes, TypeOK

\* L1 settles what is proved on the head: the chain becomes the extended one.
LEMMA SettleKeepsInv ==
  ASSUME Inv, Settle
  PROVE  Inv'
<1>1. phase = "proved" /\ parent0 = L2Head /\ Live /\ chain' = Extended /\ upstream' = upstream
  BY DEF Settle, Live, Extended
<1>2. Linked(Extended)
  BY <1>1, ExtendedLinked DEF Inv
<1>3. /\ IsSequence(Extended) /\ Len(chain) \in Nat /\ Len(bound) \in Nat /\ Len(chain) > 0
      /\ Len(Extended) = Len(chain) + Len(bound)
      /\ \A k \in 1..Len(chain) : Extended[k] = chain[k]
      /\ \A i \in 1..Len(bound) : Extended[Len(chain) + i] = bound[i]
  BY ExtendedIndices DEF Inv
<1>4. parent0.root = "good"
  BY <1>1, <1>3 DEF Inv, ChainLinked, Executed, L2Head
<1>5. ASSUME NEW i \in 1..Len(bound)
      PROVE  /\ bound[i].root = "good" /\ bound[i].txRoot = "derived"
             /\ bound[i].time >= UnzenTime => bound[i].difficulty = ZkGas[bound[i].number]
  BY <1>1, <1>4 DEF Inv, BlocksReplayed, Shapes, TypeOK
<1>6. ASSUME NEW k \in 1..Len(Extended), k \notin 1..Len(chain)
      PROVE  \E i \in 1..Len(bound) : k = Len(chain) + i
  <2>1. k - Len(chain) \in 1..Len(bound) /\ k = Len(chain) + (k - Len(chain))
    BY <1>3, <1>6
  <2> QED
    BY <2>1
<1>7. Executed(Extended)
  <2> SUFFICES ASSUME NEW k \in 1..Len(Extended) PROVE Extended[k].root = "good"
    BY DEF Executed
  <2>1. CASE k \in 1..Len(chain)
    BY <1>3, <2>1 DEF Inv, ChainLinked, Executed
  <2>2. CASE k \notin 1..Len(chain)
    <3>1. PICK i \in 1..Len(bound) : k = Len(chain) + i
      BY <1>6, <2>2
    <3>2. Extended[k] = bound[i]
      BY <1>3, <3>1
    <3> QED
      BY <1>5, <3>2
  <2> QED
    BY <2>1, <2>2
<1>8. ASSUME NEW k \in 2..Len(Extended)
      PROVE  \/ k = 2 /\ Extended[2] = EarlyBlock
             \/ Extended[k] = Produced(Extended[k - 1], IF k = 2 THEN 0 ELSE Extended[k - 2].time,
                                       Extended[k].time)
  <2>1. CASE k \in 1..Len(chain)
    <3>1. k \in 2..Len(chain) /\ k - 1 \in 1..Len(chain)
          /\ (k # 2 => k - 2 \in 1..Len(chain))
      BY <1>3, <2>1
    <3>2. Extended[k] = chain[k] /\ Extended[k - 1] = chain[k - 1]
          /\ (k # 2 => Extended[k - 2] = chain[k - 2])
      <4>1. Extended[k] = chain[k]
        BY <1>3, <2>1
      <4>2. Extended[k - 1] = chain[k - 1]
        BY <1>3, <3>1
      <4>3. k # 2 => Extended[k - 2] = chain[k - 2]
        BY <1>3, <3>1
      <4> QED
        BY <4>1, <4>2, <4>3
    <3>3. \/ k = 2 /\ chain[2] = EarlyBlock
          \/ chain[k] = Produced(chain[k - 1], IF k = 2 THEN 0 ELSE chain[k - 2].time, chain[k].time)
      BY <3>1 DEF Inv, CanonicalChain
    <3> QED
      BY <3>2, <3>3
  <2>2. CASE k \notin 1..Len(chain)
    <3>1. PICK i \in 1..Len(bound) : k = Len(chain) + i
      BY <1>6, <2>2
    <3> DEFINE par == Extended[k - 1]
               time == IF k = 2 THEN 0 ELSE Extended[k - 2].time
    <3>2. Extended[k] = bound[i] /\ par = ParentOf(i)
      <4>1. i \in 1..(Len(bound) + 1) /\ k - 1 = Len(chain) + i - 1
        BY <1>3, <3>1
      <4>2. ParentOf(i) = Extended[Len(chain) + i - 1]
        BY <1>1, <4>1, ExtendedParents DEF Inv
      <4>3. Extended[k] = bound[i]
        BY <1>3, <3>1
      <4> QED
        BY <4>1, <4>2, <4>3
    <3>3. Bound(bound[i], par, derived[i])
      BY <1>1, <3>2 DEF Inv, BlocksBound
    <3>4. k - 1 \in 1..Len(Extended) /\ (k - 1) - 1 = k - 2
      BY <1>3
    <3>5. IsHeader(par) /\ par.number = k - 2
      BY <1>2, <3>4 DEF Linked
    <3>6. par.number # 0 => time = par.parent.time
      <4> SUFFICES ASSUME k # 2 PROVE time = par.parent.time
        BY <1>3, <3>5
      <4>1. k - 1 \in 2..Len(Extended)
        BY <1>3
      <4> QED
        BY <1>2, <3>4, <4>1 DEF Linked
    <3> HIDE DEF par, time
    <3>7. bound[i] = Produced(par, time, bound[i].time)
      BY <1>5, <3>3, <3>5, <3>6, BoundIsProduced
    <3> QED
      BY <3>2, <3>7 DEF par, time
  <2> QED
    BY <2>1, <2>2
<1>9. CanonicalChain'
  BY <1>1, <1>8 DEF CanonicalChain
<1>10. ChainLinked'
  BY <1>1, <1>2, <1>7 DEF ChainLinked, Linked, Executed
<1>11. IsSequence(chain') /\ Len(chain') > 0
  BY <1>1, <1>3
<1> QED
  BY <1>1, <1>9, <1>10, <1>11, IdleInv DEF Settle, Reset, Inv, Shapes, TypeOK

LEMMA ChainKept ==
  ASSUME Inv, chain' = chain
  PROVE  CanonicalChain' /\ ChainLinked' /\ L2Head' = L2Head
BY DEF Inv, CanonicalChain, ChainLinked, Linked, Executed, L2Head

LEMMA HeadIsHeader ==
  ASSUME Inv
  PROVE  /\ IsHeader(L2Head) /\ L2Head.number = Len(chain) - 1
         /\ Len(chain) > 1 => L2Head.parent = chain[Len(chain) - 1]
<1>1. Len(chain) \in Nat /\ Len(chain) > 0
  BY ExtendedIndices DEF Inv
<1> QED
  BY <1>1 DEF Inv, ChainLinked, Linked, L2Head

\* A grandparent that is accepted is a full header, of which the compact form is taken.
LEMMA GrandparentIsGenuine ==
  ASSUME NEW par, NEW entries \in AncestorLists(par),
         decodeProposalAncestorHeaderContext(entries)
  PROVE  \/ GrandparentOf(entries) = <<>>
         \/ \E h : GrandparentOf(entries) = <<compactAncestorFromHeader(h)>>
<1>1. \/ \E x : entries = <<x>>
      \/ \E h : entries = <<Full(h), Full(par)>>
      \/ \E n, h, t : entries = <<Compact(n, h, t), Full(par)>>
      \/ entries = <<>>
  BY DEF AncestorLists
<1>2. CASE entries = <<>>
  BY <1>2 DEF decodeProposalAncestorHeaderContext
<1>3. ASSUME NEW x, entries = <<x>> PROVE GrandparentOf(entries) = <<>>
  BY <1>3 DEF GrandparentOf
<1>4. ASSUME NEW h, entries = <<Full(h), Full(par)>>
      PROVE  GrandparentOf(entries) = <<compactAncestorFromHeader(h)>>
  BY <1>4 DEF GrandparentOf, Full
<1>5. ASSUME NEW n, NEW h, NEW t, entries = <<Compact(n, h, t), Full(par)>>
      PROVE  FALSE
  BY <1>5 DEF decodeProposalAncestorHeaderContext, Compact
<1> QED
  BY <1>1, <1>2, <1>3, <1>4, <1>5

\* The ancestors of an honest client are accepted, with the true grandparent.
LEMMA HonestAncestorsAccepted ==
  ASSUME Inv
  PROVE  /\ decodeProposalAncestorHeaderContext(HonestAncestors)
         /\ HonestAncestors[Len(HonestAncestors)].header = <<L2Head>>
         /\ GrandparentOf(HonestAncestors) =
              IF L2Head.number = 0 THEN <<>> ELSE <<compactAncestorFromHeader(L2Head.parent)>>
<1>1. Len(chain) \in Nat /\ Len(chain) > 0
  BY ExtendedIndices DEF Inv
<1>2. CASE Len(chain) = 1
  <2>1. HonestAncestors = <<Full(L2Head)>> /\ L2Head.number = 0
    BY <1>2, HeadIsHeader DEF HonestAncestors
  <2>2. PICK f : f = Full(L2Head)
    OBVIOUS
  <2>3. f.header = <<L2Head>>
    BY <2>2, FullHeader
  <2>4. HonestAncestors = <<f>> /\ Len(<<f>>) = 1
    BY <2>1, <2>2
  <2> QED
    BY <2>1, <2>3, <2>4 DEF decodeProposalAncestorHeaderContext, GrandparentOf
<1>3. CASE Len(chain) # 1
  <2>1. HonestAncestors = <<Full(chain[Len(chain) - 1]), Full(L2Head)>>
    BY <1>3 DEF HonestAncestors
  <2>2. L2Head.number # 0 /\ L2Head.parent = chain[Len(chain) - 1]
    <3>1. Len(chain) > 1 /\ Len(chain) - 1 # 0
      <4>1. PICK n \in Nat : n = Len(chain)
        BY <1>1
      <4>2. n > 0 /\ n # 1
        BY <1>1, <1>3, <4>1
      <4>3. n > 1 /\ n - 1 # 0
        BY <4>2
      <4> QED
        BY <4>1, <4>3
    <3>2. L2Head.number = Len(chain) - 1
      BY HeadIsHeader
    <3> QED
      BY <3>1, <3>2, HeadIsHeader
  <2>3. PICK f, g : f = Full(L2Head.parent) /\ g = Full(L2Head)
    OBVIOUS
  <2>4. f.header = <<L2Head.parent>> /\ g.header = <<L2Head>>
        /\ f.compact = compactAncestorFromHeader(L2Head.parent)
    BY <2>3, FullHeader
  <2>5. HonestAncestors = <<f, g>>
    BY <2>1, <2>2, <2>3
  <2>6. PICK s : s = HonestAncestors
    OBVIOUS
  <2>7. s # <<>> /\ Len(s) = 2 /\ s[Len(s)] = g /\ s[Len(s) - 1] = f
    BY <2>5, <2>6
  <2>8. g.header # <<>> /\ f.header # <<>>
    BY <2>4
  <2>9. decodeProposalAncestorHeaderContext(s)
    BY <2>7, <2>8 DEF decodeProposalAncestorHeaderContext
  <2>10. GrandparentOf(s) = <<f.compact>>
    BY <2>7 DEF GrandparentOf
  <2> QED
    BY <2>2, <2>4, <2>6, <2>7, <2>9, <2>10
<1> QED
  BY <1>2, <1>3

LEMMA SubmitKeepsInv ==
  ASSUME Inv, NEW par \in {L2Head} \cup Forged(L2Head), NEW entries \in AncestorLists(par),
         NEW times \in DerivedTimes, Submit(par, entries, times)
  PROVE  Inv'
<1>1. /\ phase = "idle" /\ Derivable(times, par) /\ parent0' = par /\ derived' = times
      /\ honest' = (par = L2Head /\ entries = HonestAncestors)
      /\ chain' = chain /\ upstream' = upstream /\ bound' = bound /\ replayed' = replayed
      /\ witnesses' = witnesses /\ relied' = relied
  BY DEF Submit
<1>2. bound = <<>> /\ witnesses = <<>> /\ relied = {} /\ replayed = 0
  BY <1>1, EmptySequence DEF Inv, Shapes, TypeOK
<1>3. CanonicalChain' /\ ChainLinked' /\ L2Head' = L2Head
  BY <1>1, ChainKept
<1>4. times \in Seq(Times) /\ Len(times) > 0
  <2>1. PICK n \in 1..MaxBlocks : times \in [1..n -> Times]
    BY DEF DerivedTimes
  <2> QED
    BY <2>1, BoundsAssumption
<1>5. IsHeader(par)
  BY HeadIsHeader, ForgedIsHeader
<1>6. ConfigAvailable' = ConfigAvailable
  BY <1>1 DEF ConfigAvailable, pinForkTime
<1>7. phase' \in {"binding", "rejected"}
  BY DEF Submit
<1>8. ReliesOnChain'
  BY <1>7 DEF ReliesOnChain
<1>9. Shapes'
  <2>1. Len(times) \in Nat /\ Len(<<>>) = 0 /\ IsSequence(<<>>)
    BY <1>4, EmptySequence
  <2>2. honest' \in BOOLEAN
    BY <1>1, Zenon
  <2>3. TypeOK'
    BY <1>1, <1>2, <1>7, <2>1, <2>2 DEF TypeOK, Inv, Shapes
  <2> QED
    BY <1>1, <1>2, <1>4, <2>1, <2>3 DEF Inv, Shapes
<1>10. CASE /\ ConfigAvailable
            /\ decodeProposalAncestorHeaderContext(entries)
            /\ entries[Len(entries)].header = <<par>>
  <2>1. phase' = "binding" /\ canonicalParent' = par /\ canonicalGrandparent' = GrandparentOf(entries)
    BY <1>10 DEF Submit
  <2>2. Live' /\ RequestFits'
    BY <1>1, <1>4, <1>5, <1>6, <1>10, <2>1 DEF Live, RequestFits, Derivable
  <2>3. Len(bound') = 0 /\ replayed' = 0
    BY <1>1, <1>2, EmptySequence
  <2>4. BlocksBound' /\ Numbered' /\ WitnessesRead' /\ BlocksFiltered' /\ BlocksReplayed'
    BY <1>1, <1>2, <2>1, <2>3, EmptySequence
       DEF BlocksBound, Numbered, WitnessesRead, BlocksFiltered, BlocksReplayed
  <2>5. AncestorsRolled'
    <3>1. canonicalParent' = ParentOf(Len(bound) + 1)'
      BY <1>1, <2>1, <2>3 DEF ParentOf
    <3>2. CASE GrandparentOf(entries) = <<>>
      BY <2>1, <2>3, <3>1, <3>2 DEF AncestorsRolled
    <3>3. ASSUME NEW h, GrandparentOf(entries) = <<compactAncestorFromHeader(h)>>
          PROVE  AncestorsRolled'
      <4>1. canonicalGrandparent'[1].hash = h
        BY <2>1, <3>3 DEF compactAncestorFromHeader
      <4> QED
        BY <2>1, <2>3, <3>1, <3>3, <4>1 DEF AncestorsRolled
    <3> QED
      BY <1>10, <3>2, <3>3, GrandparentIsGenuine
  <2>6. HonestBound'
    <3> SUFFICES ASSUME honest'
                 PROVE  /\ par = L2Head
                        /\ GrandparentOf(entries) =
                             IF par.number = 0 THEN <<>>
                             ELSE <<compactAncestorFromHeader(par.parent)>>
      BY <1>1, <1>3, <2>1, <2>3 DEF HonestBound
    <3>1. par = L2Head /\ entries = HonestAncestors
      BY <1>1, Zenon
    <3> QED
      BY <3>1, HonestAncestorsAccepted
  <2>7. HonestAccepted'
    BY <2>1 DEF HonestAccepted
  <2> QED
    BY <1>3, <1>8, <1>9, <2>2, <2>4, <2>5, <2>6, <2>7 DEF Inv
<1>11. CASE ~/\ ConfigAvailable
             /\ decodeProposalAncestorHeaderContext(entries)
             /\ entries[Len(entries)].header = <<par>>
  <2>1. phase' = "rejected"
    BY <1>11 DEF Submit
  <2>2. ~Live'
    BY <2>1 DEF Live
  <2>3. RequestFits' /\ BlocksBound' /\ Numbered' /\ AncestorsRolled' /\ HonestBound'
        /\ WitnessesRead' /\ BlocksFiltered' /\ BlocksReplayed'
    BY <2>1, <2>2 DEF RequestFits, BlocksBound, Numbered, AncestorsRolled, HonestBound,
       WitnessesRead, BlocksFiltered, BlocksReplayed
  <2>4. HonestAccepted'
    <3> SUFFICES ASSUME honest', ConfigAvailable PROVE FALSE
      BY <1>6, Zenon DEF HonestAccepted
    <3>1. par = L2Head /\ entries = HonestAncestors
      BY <1>1, Zenon
    <3> QED
      BY <1>11, <3>1, HonestAncestorsAccepted
  <2> QED
    BY <1>3, <1>8, <1>9, <2>3, <2>4 DEF Inv
<1> QED
  BY <1>10, <1>11

\* A request that is rejected is not looked at any more.
LEMMA RejectedKeepsInv ==
  ASSUME Inv, phase' = "rejected", honest' \in BOOLEAN, honest' => ~ConfigAvailable,
         UNCHANGED <<chain, upstream, parent0, derived, bound, witnesses, replayed>>
  PROVE  Inv'
<1>1. CanonicalChain' /\ ChainLinked'
  BY ChainKept
<1>2. Shapes'
  BY DEF Inv, Shapes, TypeOK
<1>3. ~Live'
  BY DEF Live
<1>4. RequestFits' /\ BlocksBound' /\ Numbered' /\ AncestorsRolled' /\ HonestBound'
  BY <1>3 DEF RequestFits, BlocksBound, Numbered, AncestorsRolled, HonestBound
<1>5. WitnessesRead' /\ BlocksFiltered' /\ BlocksReplayed' /\ ReliesOnChain'
  BY <1>3 DEF WitnessesRead, BlocksFiltered, BlocksReplayed, ReliesOnChain
<1>6. HonestAccepted'
  BY DEF HonestAccepted, ConfigAvailable, pinForkTime
<1> QED
  BY <1>1, <1>2, <1>4, <1>5, <1>6 DEF Inv

LEMMA SubmitMalformedKeepsInv ==
  ASSUME Inv, SubmitMalformed
  PROVE  Inv'
BY RejectedKeepsInv DEF SubmitMalformed

-----------------------------------------------------------------------------
(* Binding *)

\* Headers that clients send have the shape of headers, whatever is in them.
LEMMA SentIsHeader ==
  ASSUME NEW h \in VariedBlocks \cup StrayBlocks \cup FilteredBlocks
  PROVE  /\ h = Header(h.number, h.parent, h.time, h.baseFee, h.difficulty, h.mix, h.forkFields,
                       h.txRoot, h.rest, h.root)
         /\ h.txRoot \in DerivedValues
<1>1. PICK n, p, t, f, d, m, k, s, r :
        HonestBlock = Header(n, p, t, f, d, m, k, "derived", s, r)
  BY DEF HonestBlock, Produced
<1>2. PICK b : b = HonestBlock
  OBVIOUS
<1>3. CASE h \in VariedBlocks
  <2>1. \/ \E t2, d2, k2, r2 : h = OfTime(HonestBlock, t2, d2, k2, r2)
        \/ \E f2, m2, r2 : h = OfAncestors(HonestBlock, f2, m2, r2)
    BY <1>3 DEF VariedBlocks
  <2> QED
    BY <1>1, <2>1 DEF Header, DerivedValues, OfTime, OfAncestors
<1>4. CASE h \in StrayBlocks
  <2>1. \/ h = [b EXCEPT !.number = @ + 1] \/ h = [b EXCEPT !.rest = "other"]
        \/ \E q : h = [b EXCEPT !.parent = q]
    BY <1>2, <1>4 DEF StrayBlocks
  <2> QED
    BY <1>1, <1>2, <2>1 DEF Header, DerivedValues
<1>5. CASE h \in FilteredBlocks
  <2>1. \E x2 \in DerivedValues, r2 \in RootValues :
          h = OfWitness(HonestBlock, x2, r2)
    BY <1>5 DEF FilteredBlocks
  <2> QED
    BY <1>1, <2>1 DEF Header, OfWitness
<1> QED
  BY <1>3, <1>4, <1>5

\* Where the next block goes.
LEMMA NextParent ==
  ASSUME Inv, phase = "binding"
  PROVE  /\ canonicalParent = ParentOf(Len(bound) + 1)
         /\ IsHeader(canonicalParent)
         /\ canonicalParent.number = parent0.number + Len(bound)
         /\ parent0.number \in Nat
<1>1. Live /\ Len(bound) \in Nat
  BY ExtendedIndices DEF Live, Inv
<1>2. canonicalParent = ParentOf(Len(bound) + 1)
  BY DEF Inv, AncestorsRolled
<1>3. IsHeader(parent0) /\ parent0.number \in Nat
  BY <1>1 DEF Inv, RequestFits, IsHeader
<1>4. CASE Len(bound) = 0
  BY <1>2, <1>3, <1>4 DEF ParentOf
<1>5. CASE Len(bound) # 0
  <2>1. Len(bound) \in 1..Len(bound) /\ Len(bound) + 1 # 1 /\ (Len(bound) + 1) - 1 = Len(bound)
    BY <1>1, <1>5
  <2>2. canonicalParent = bound[Len(bound)]
    BY <1>2, <2>1 DEF ParentOf
  <2>3. Bound(bound[Len(bound)], ParentOf(Len(bound)), derived[Len(bound)])
    BY <1>1, <2>1 DEF Inv, BlocksBound
  <2>4. bound[Len(bound)].number = parent0.number + Len(bound)
    BY <1>1, <2>1 DEF Inv, Numbered
  <2> QED
    BY <1>2, <1>3, <2>2, <2>3, <2>4 DEF Bound
<1> QED
  BY <1>2, <1>3, <1>4, <1>5

LEMMA NextTime ==
  ASSUME Inv, phase = "binding", Len(bound) < Len(derived)
  PROVE  derived[Len(bound) + 1] \in Nat /\ derived[Len(bound) + 1] >= ForkTime
<1>1. Live /\ Len(bound) \in Nat /\ derived \in Seq(Times) /\ Len(derived) \in Nat
  BY ExtendedIndices DEF Live, Inv, Shapes
<1>2. Len(bound) + 1 \in DOMAIN derived /\ derived[Len(bound) + 1] \in Times
  BY <1>1
<1> QED
  BY <1>1, <1>2, TimeAssumption DEF Inv, RequestFits, Derivable

LEMMA HonestParent ==
  ASSUME Inv, Live, honest, NEW i \in 1..(Len(bound) + 1)
  PROVE  ParentOf(i).root = "good"
<1>1. Len(chain) \in Nat /\ Len(chain) > 0 /\ Len(bound) \in Nat
  BY ExtendedIndices DEF Inv
<1>2. CASE i = 1
  <2>1. parent0 = L2Head
    BY DEF Inv, HonestBound
  <2> QED
    BY <1>1, <1>2, <2>1 DEF ParentOf, Inv, ChainLinked, Executed, L2Head
<1>3. CASE i # 1
  <2>1. i - 1 \in 1..Len(bound)
    BY <1>1, <1>3
  <2> QED
    BY <1>3, <2>1 DEF ParentOf, Inv, HonestBound
<1> QED
  BY <1>2, <1>3

\* The block of an honest client passes all checks, with the filter run on a genuine
\* and complete witness.
LEMMA HonestBlockPasses ==
  ASSUME Inv, phase = "binding", Len(bound) < Len(derived), honest,
         NEW raws, HonestWitness(HonestBlock, raws),
         NEW filtered \in filterManifestTransactions(HonestBlock, raws), filtered # "failed"
  PROVE  validateManifestBlockBinding(HonestBlock, filtered, derived[Len(bound) + 1],
                                      canonicalParent, canonicalGrandparent)
<1> DEFINE par == canonicalParent
           gp == canonicalGrandparent
           time == derived[Len(bound) + 1]
           last == Len(chain) + Len(bound)
<1>1. Live /\ ConfigAvailable /\ parent0 = L2Head
      /\ gp = IF par.number = 0 THEN <<>> ELSE <<compactAncestorFromHeader(par.parent)>>
  BY DEF Live, Inv, RequestFits, HonestBound
<1>2. Linked(Extended)
  BY <1>1, ExtendedLinked DEF Inv
<1>3. /\ Len(chain) \in Nat /\ Len(bound) \in Nat /\ Len(chain) > 0 /\ last \in Nat
      /\ Len(Extended) = last
  BY ExtendedIndices DEF Inv
<1>4. par = Extended[last] /\ last \in 1..Len(Extended)
  <2>1. Len(bound) + 1 \in 1..(Len(bound) + 1) /\ Len(chain) + (Len(bound) + 1) - 1 = last
    BY <1>3
  <2>2. par = ParentOf(Len(bound) + 1)
    BY NextParent
  <2>3. ParentOf(Len(bound) + 1) = Extended[Len(chain) + (Len(bound) + 1) - 1]
    BY <1>1, <2>1, ExtendedParents DEF Inv
  <2> QED
    BY <1>3, <2>1, <2>2, <2>3
<1>5. time \in Nat /\ time >= ForkTime
  BY NextTime
<1>root. par.root = "good"
  <2>1. Len(bound) + 1 \in 1..(Len(bound) + 1)
    BY <1>3
  <2> QED
    BY <1>1, <2>1, NextParent, HonestParent
<1> HIDE DEF par, gp, time, last
<1>6. IsHeader(par) /\ par.number = last - 1 /\ par.number \in Nat /\ par.time \in Nat
  BY <1>2, <1>4 DEF Linked, IsHeader
<1>7. ASSUME par.number # 0
      PROVE  /\ gp = <<compactAncestorFromHeader(par.parent)>>
             /\ par.baseFee \in Nat
             /\ par.parent.number + 1 = par.number
             /\ par.parent.time \in Nat /\ par.parent.time <= par.time
  <2>1. last \in 2..Len(Extended) /\ last - 1 \in 1..Len(Extended) /\ (last - 1) - 1 = last - 2
    BY <1>3, <1>4, <1>6, <1>7
  <2>2. par.parent = Extended[last - 1] /\ par.parent.time <= par.time /\ par.baseFee \in Nat
    BY <1>2, <1>4, <2>1 DEF Linked
  <2>3. IsHeader(par.parent) /\ par.parent.number = (last - 1) - 1
    BY <1>2, <2>1, <2>2 DEF Linked
  <2> QED
    BY <1>1, <1>3, <1>6, <1>7, <2>2, <2>3 DEF IsHeader
<1>8. ASSUME par.number # 0
      PROVE  /\ gp # <<>> /\ gp[1].number + 1 = par.number /\ gp[1].hash = par.parent
             /\ gp[1].timestamp = par.parent.time
  <2>1. PICK c : c = compactAncestorFromHeader(par.parent)
    OBVIOUS
  <2>2. c.number = par.parent.number /\ c.hash = par.parent /\ c.timestamp = par.parent.time
    BY <2>1 DEF compactAncestorFromHeader
  <2>3. gp = <<c>>
    BY <1>7, <1>8, <2>1
  <2>4. gp # <<>> /\ gp[1] = c
    BY <2>3
  <2> QED
    BY <1>7, <1>8, <2>2, <2>4
<1> DEFINE fee == IF par.number = 0 THEN 0
                  ELSE par.time - (IF gp = <<>> THEN 0 ELSE gp[1].timestamp)
           unzen == time >= UnzenTime
           h == Header(par.number + 1, par, time, fee, IF unzen THEN ZkGas[par.number + 1] ELSE 0,
                       shastaManifestMixHash(par.difficulty, par.number + 1),
                       IF unzen THEN "empty" ELSE "absent", "derived", "derived", "good")
<1>9. HonestBlock = h
  BY DEF HonestBlock, Produced, par, gp, time
<1>10. fee \in Nat /\ fee = manifestParentBlockTime(par, gp)
  <2>1. CASE par.number = 0
    BY <2>1 DEF manifestParentBlockTime
  <2>2. CASE par.number # 0
    <3>1. fee = par.time - par.parent.time /\ manifestParentBlockTime(par, gp) = par.time - par.parent.time
      BY <1>8, <2>2 DEF manifestParentBlockTime
    <3>2. par.time - par.parent.time \in Nat
      BY <1>6, <1>7, <2>2
    <3> QED
      BY <3>1, <3>2
  <2> QED
    BY <2>1, <2>2
<1> HIDE DEF fee
<1>11. /\ h.number = par.number + 1 /\ h.parent = par /\ h.time = time /\ h.baseFee = fee
       /\ h.difficulty = (IF unzen THEN ZkGas[par.number + 1] ELSE 0)
       /\ h.mix = shastaManifestMixHash(par.difficulty, par.number + 1)
       /\ h.forkFields = (IF unzen THEN "empty" ELSE "absent")
       /\ h.txRoot = "derived" /\ h.rest = "derived"
  BY DEF Header
<1> HIDE DEF h
<1>12. validateManifestHeaderAncestry(h, par, gp)
  BY <1>8, <1>11 DEF validateManifestHeaderAncestry
<1>13. validateManifestHeaderBaseFee(h, par, gp)
  <2>1. fee # None /\ (par.number # 0 => par.baseFee # None /\ par.time >= gp[1].timestamp)
    BY <1>6, <1>7, <1>8, <1>10, TimeAssumption
  <2> QED
    BY <1>10, <1>11, <1>12, <2>1 DEF validateManifestHeaderBaseFee
<1>14. validateManifestHeaderDifficulty(h) /\ validateManifestHeaderForkFields(h)
  BY <1>1, <1>11, UnzenAgrees DEF validateManifestHeaderDifficulty, validateManifestHeaderForkFields
<1>15. validateManifestTransactionRoot(h, filtered)
  BY <1>root, <1>9, <1>11 DEF filterManifestTransactions, validateManifestTransactionRoot
<1>16. validateManifestBlockBinding(h, filtered, time, par, gp)
  BY <1>1, <1>11, <1>13, <1>14, <1>15 DEF validateManifestBlockBinding, validateManifestHeader
<1> QED
  BY <1>9, <1>16 DEF par, gp, time

LEMMA BindBlockKeepsInv ==
  ASSUME Inv, NEW h \in VariedBlocks \cup StrayBlocks \cup FilteredBlocks,
         NEW raws, IsSequence(raws), NEW filtered, BindBlock(h, raws, filtered)
  PROVE  Inv'
<1>1. /\ phase = "binding" /\ Len(bound) < Len(derived)
      /\ filtered \in filterManifestTransactions(h, raws)
      /\ honest' = (honest /\ h = HonestBlock /\ HonestWitness(h, raws) /\ filtered # "failed")
      /\ chain' = chain /\ upstream' = upstream /\ parent0' = parent0 /\ derived' = derived
      /\ replayed' = replayed
  BY DEF BindBlock
<1>2. /\ Live /\ ConfigAvailable /\ replayed = 0
      /\ IsSequence(bound) /\ Len(bound) \in Nat /\ derived \in Seq(Times) /\ Len(derived) \in Nat
      /\ IsSequence(witnesses) /\ Len(witnesses) = Len(bound)
  BY <1>1, ExtendedIndices DEF Live, Inv, RequestFits, AncestorsRolled, WitnessesRead, Shapes, TypeOK
<1>3. CanonicalChain' /\ ChainLinked' /\ L2Head' = L2Head
  BY <1>1, ChainKept
<1>4. ConfigAvailable' = ConfigAvailable
  BY <1>1 DEF ConfigAvailable, pinForkTime
<1>5. honest' \in BOOLEAN
  BY <1>1, Zenon
<1> DEFINE time == derived[Len(bound) + 1]
           Checked == /\ DecodesWitness(raws)
                      /\ validateManifestBlockBinding(h, filtered, time, canonicalParent,
                                                      canonicalGrandparent)
<1>6. CASE Checked
  <2>1. /\ bound' = Append(bound, h) /\ phase' = "binding" /\ canonicalParent' = h
        /\ canonicalGrandparent' = <<compactAncestorFromHeader(canonicalParent)>>
        /\ witnesses' = Append(witnesses, raws)
    BY <1>1, <1>6 DEF BindBlock, RollForward
  <2>witnesses. /\ IsSequence(witnesses') /\ Len(witnesses') = Len(bound) + 1
        /\ witnesses'[Len(bound) + 1] = raws
        /\ \A i \in 1..Len(bound) : witnesses'[i] = witnesses[i]
    BY <1>2, <2>1, AppendSequence
  <2>2. /\ IsSequence(bound') /\ Len(bound') = Len(bound) + 1
        /\ bound'[Len(bound) + 1] = h
        /\ \A i \in 1..Len(bound) : bound'[i] = bound[i]
    BY <1>2, <2>1, AppendSequence
  <2>3. \A i \in 1..Len(bound') : i = Len(bound) + 1 \/ i \in 1..Len(bound)
    BY <1>2, <2>2
  <2>4. ASSUME NEW i \in 1..(Len(bound) + 1)
        PROVE  ParentOf(i)' = ParentOf(i)
    <3>1. CASE i = 1
      BY <1>1, <3>1 DEF ParentOf
    <3>2. CASE i # 1
      <4>1. i - 1 \in 1..Len(bound)
        BY <1>2, <3>2
      <4> QED
        BY <2>2, <3>2, <4>1 DEF ParentOf
    <3> QED
      BY <3>1, <3>2
  <2>5. /\ canonicalParent = ParentOf(Len(bound) + 1) /\ IsHeader(canonicalParent)
        /\ canonicalParent.number = parent0.number + Len(bound) /\ parent0.number \in Nat
    BY <1>1, NextParent
  <2>6. Bound(h, canonicalParent, time)
    <3>1. time \in Nat /\ time >= ForkTime
      BY <1>1, NextTime
    <3>2. canonicalGrandparent # <<>> =>
            canonicalGrandparent = <<compactAncestorFromHeader(canonicalGrandparent[1].hash)>>
      BY <1>1 DEF Inv, AncestorsRolled
    <3> HIDE DEF time
    <3> QED
      BY <1>2, <1>6, <2>5, <3>1, <3>2, SentIsHeader, CheckedIsBound
  <2>7. BlocksBound'
    <3> SUFFICES ASSUME NEW i \in 1..Len(bound')
                 PROVE  Bound(bound'[i], ParentOf(i)', derived[i])
      BY <1>1 DEF BlocksBound, Bound, IsHeader
    <3>1. CASE i = Len(bound) + 1
      <4>1. bound'[i] = h /\ ParentOf(i)' = canonicalParent /\ derived[i] = time
        BY <1>2, <2>2, <2>4, <2>5, <3>1
      <4> QED
        BY <2>6, <4>1
    <3>2. CASE i \in 1..Len(bound)
      <4>1. bound'[i] = bound[i] /\ ParentOf(i)' = ParentOf(i)
        BY <1>2, <2>2, <2>4, <3>2
      <4>2. Bound(bound[i], ParentOf(i), derived[i])
        BY <1>2, <3>2 DEF Inv, BlocksBound
      <4> QED
        BY <4>1, <4>2
    <3> QED
      BY <2>3, <3>1, <3>2
  <2>8. Numbered'
    <3>1. h.number = parent0.number + (Len(bound) + 1)
      BY <1>2, <2>5, <2>6 DEF Bound
    <3> SUFFICES ASSUME NEW i \in 1..Len(bound')
                 PROVE  bound'[i].number = parent0.number + i
      BY <1>1 DEF Numbered
    <3>2. CASE i = Len(bound) + 1
      BY <2>2, <3>1, <3>2
    <3>3. CASE i \in 1..Len(bound)
      BY <1>2, <2>2, <3>3 DEF Inv, Numbered
    <3> QED
      BY <2>3, <3>2, <3>3
  <2>9. Shapes'
    <3>1. \A i \in DOMAIN bound' : bound'[i].parent = IF i = 1 THEN parent0' ELSE bound'[i - 1]
      <4> SUFFICES ASSUME NEW i \in 1..Len(bound') PROVE bound'[i].parent = ParentOf(i)'
        BY <2>2, SequenceFacts DEF ParentOf
      <4>1. Live'
        BY <2>1 DEF Live
      <4> QED
        BY <2>7, <4>1 DEF BlocksBound, Bound
    <3>2. TypeOK'
      BY <1>1, <1>2, <1>5, <2>1, <2>witnesses, <2>2, <3>1 DEF Inv, Shapes, TypeOK
    <3> QED
      BY <1>1, <2>2, <3>2 DEF Inv, Shapes
  <2>10. RequestFits'
    BY <1>1, <1>2, <1>4 DEF Inv, RequestFits, Derivable
  <2>11. AncestorsRolled'
    <3>1. ParentOf(Len(bound) + 1)' = h
      <4>1. Len(bound') + 1 # 1 /\ (Len(bound') + 1) - 1 = Len(bound) + 1
        BY <1>2, <2>2
      <4> QED
        BY <2>2, <4>1 DEF ParentOf
    <3>2. canonicalGrandparent'[1].hash = canonicalParent
      BY <2>1 DEF compactAncestorFromHeader
    <3> QED
      BY <1>1, <1>2, <2>1, <3>1, <3>2 DEF AncestorsRolled
  <2>12. BlocksReplayed'
    BY <1>1, <1>2, <2>1 DEF BlocksReplayed
  <2>13. WitnessesRead' /\ ReliesOnChain'
    <3>1. relied' \subseteq relied \cup Elements(raws)
      BY DEF BindBlock
    <3>2. ASSUME NEW i \in 1..Len(bound')
          PROVE  IsSequence(witnesses'[i]) /\ DecodesWitness(witnesses'[i])
      <4>1. CASE i = Len(bound) + 1
        BY <1>6, <2>witnesses, <4>1
      <4>2. CASE i \in 1..Len(bound)
        BY <1>2, <2>witnesses, <4>2 DEF Inv, WitnessesRead
      <4> QED
        BY <2>3, <4>1, <4>2
    <3>3. ASSUME NEW x \in relied'
          PROVE  x = parent0 \/ \E i \in 1..Len(bound') : x \in Elements(witnesses'[i])
      <4>1. CASE x \in relied
        <5> SUFFICES ASSUME x # parent0
                     PROVE  \E i \in 1..Len(bound') : x \in Elements(witnesses'[i])
          OBVIOUS
        <5>1. PICK i \in 1..Len(bound) : x \in Elements(witnesses[i])
          BY <1>2, <4>1 DEF Inv, WitnessesRead
        <5>2. i \in 1..Len(bound') /\ witnesses'[i] = witnesses[i]
          BY <1>2, <2>witnesses, <2>2
        <5> QED
          BY <5>1, <5>2
      <4>2. CASE x \in Elements(raws)
        <5>1. Len(bound) + 1 \in 1..Len(bound')
          BY <1>2, <2>2
        <5> QED
          BY <2>witnesses, <4>2, <5>1
      <4> QED
        BY <3>1, <4>1, <4>2
    <3> QED
      BY <1>1, <2>1, <2>witnesses, <3>2, <3>3 DEF WitnessesRead, ReliesOnChain, DecodesWitness, Elements,
         IsSequence
  <2>filter. BlocksFiltered'
    <3> SUFFICES ASSUME NEW i \in 1..Len(bound'), HonestWitness(bound'[i], witnesses'[i]),
                        ParentOf(i)'.root = "good"
                 PROVE  bound'[i].txRoot = "derived"
      BY DEF BlocksFiltered, HonestWitness, DecodesWitness
    <3>1. CASE i = Len(bound) + 1
      <4>1. bound'[i] = h /\ witnesses'[i] = raws /\ ParentOf(i)' = h.parent
        BY <1>2, <2>witnesses, <2>2, <2>4, <2>5, <2>6, <3>1 DEF Bound
      <4>2. h.txRoot = filtered /\ h.txRoot # "failed"
        <5>1. h.txRoot = filtered
          BY <1>6 DEF validateManifestBlockBinding, validateManifestTransactionRoot
        <5>2. h.txRoot \in DerivedValues
          BY SentIsHeader
        <5> QED
          BY <5>1, <5>2 DEF DerivedValues
      <4> QED
        BY <1>1, <4>1, <4>2 DEF filterManifestTransactions
    <3>2. CASE i \in 1..Len(bound)
      <4>1. bound'[i] = bound[i] /\ witnesses'[i] = witnesses[i] /\ ParentOf(i)' = ParentOf(i)
        BY <1>2, <2>witnesses, <2>2, <2>4, <3>2
      <4> QED
        BY <1>2, <3>2, <4>1 DEF Inv, BlocksFiltered
    <3> QED
      BY <2>3, <3>1, <3>2
  <2>14. HonestBound'
    <3> SUFFICES ASSUME honest' PROVE HonestBound'
      BY Zenon DEF HonestBound
    <3>1. honest /\ h = HonestBlock /\ HonestWitness(h, raws)
      BY <1>1, Zenon
    <3>2. parent0 = L2Head
          /\ \A i \in 1..Len(bound) :
               /\ bound[i].root = "good" /\ bound[i].txRoot = "derived"
               /\ HonestWitness(bound[i], witnesses[i])
               /\ bound[i].time >= UnzenTime => bound[i].difficulty = ZkGas[bound[i].number]
      BY <1>2, <3>1, Zenon DEF Inv, HonestBound
    <3>3. /\ h.root = "good" /\ h.txRoot = "derived"
          /\ h.parent = canonicalParent /\ h.number = canonicalParent.number + 1
          /\ h.time >= UnzenTime => h.difficulty = ZkGas[h.number]
      BY <3>1 DEF HonestBlock, Produced, Header
    <3>4. ASSUME NEW i \in 1..Len(bound')
          PROVE  /\ bound'[i].root = "good" /\ bound'[i].txRoot = "derived"
                 /\ HonestWitness(bound'[i], witnesses'[i])
                 /\ bound'[i].time >= UnzenTime => bound'[i].difficulty = ZkGas[bound'[i].number]
      <4>1. CASE i = Len(bound) + 1
        BY <2>witnesses, <2>2, <3>1, <3>3, <4>1
      <4>2. CASE i \in 1..Len(bound)
        BY <2>witnesses, <2>2, <3>2, <4>2
      <4> QED
        BY <2>3, <4>1, <4>2
    <3>5. h.number # 0
      BY <2>5, <3>3 DEF IsHeader
    <3>6. canonicalGrandparent' = IF canonicalParent'.number = 0 THEN <<>>
                                  ELSE <<compactAncestorFromHeader(canonicalParent'.parent)>>
      BY <2>1, <3>3, <3>5
    <3> QED
      BY <1>1, <1>3, <3>2, <3>4, <3>6 DEF HonestBound, compactAncestorFromHeader, HonestWitness,
         DecodesWitness
  <2>15. HonestAccepted'
    BY <2>1 DEF HonestAccepted
  <2> QED
    BY <1>3, <2>7, <2>8, <2>9, <2>10, <2>11, <2>12, <2>13, <2>filter, <2>14, <2>15 DEF Inv
<1>7. CASE ~Checked
  <2>1. phase' = "rejected" /\ bound' = bound /\ witnesses' = witnesses
    BY <1>7 DEF BindBlock
  <2>2. ~honest'
    <3> SUFFICES ASSUME honest' PROVE FALSE
      OBVIOUS
    <3>1. honest /\ h = HonestBlock /\ HonestWitness(h, raws) /\ filtered # "failed"
      BY <1>1, Zenon
    <3>2. DecodesWitness(raws)
      BY <3>1 DEF HonestWitness
    <3> QED
      BY <1>1, <1>7, <3>1, <3>2, HonestBlockPasses
  <2> QED
    BY <1>1, <1>5, <2>1, <2>2, RejectedKeepsInv
<1> QED
  BY <1>6, <1>7

\* A step within a request that moves only to another phase or reads the parent.
LEMMA RequestKept ==
  ASSUME Inv, Live, phase' \in {"binding", "replay", "proved"},
         phase' = "binding" => phase = "binding",
         phase' # "binding" => Len(bound) = Len(derived),
         phase' = "proved" => replayed = Len(bound),
         UNCHANGED <<chain, upstream, parent0, derived, canonicalParent, canonicalGrandparent,
                     bound, witnesses, replayed, honest>>,
         relied' \subseteq relied \cup {parent0},
         ReliesOnChain'
  PROVE  Inv'
<1>1. CanonicalChain' /\ ChainLinked' /\ L2Head' = L2Head
  BY ChainKept
<1>2. Shapes'
  BY DEF Inv, Shapes, TypeOK, Live
<1>3. RequestFits'
  BY DEF Inv, RequestFits, ConfigAvailable, pinForkTime, Derivable
<1>4. BlocksBound' /\ Numbered'
  BY DEF Inv, BlocksBound, Numbered, Bound, ParentOf
<1>5. AncestorsRolled'
  BY DEF Inv, AncestorsRolled, ParentOf
<1>6. WitnessesRead'
  BY DEF Inv, WitnessesRead
<1>7. BlocksFiltered' /\ BlocksReplayed'
  BY DEF Inv, BlocksFiltered, BlocksReplayed, ParentOf
<1>8. HonestBound'
  BY <1>1 DEF Inv, HonestBound
<1>9. HonestAccepted'
  BY DEF HonestAccepted
<1> QED
  BY <1>1, <1>2, <1>3, <1>4, <1>5, <1>6, <1>7, <1>8, <1>9 DEF Inv

LEMMA FinishBindingKeepsInv ==
  ASSUME Inv, FinishBinding
  PROVE  Inv'
<1>1. /\ Live /\ phase' = "replay" /\ Len(bound) = Len(derived)
      /\ UNCHANGED <<chain, upstream, parent0, derived, canonicalParent, canonicalGrandparent,
                     bound, witnesses, replayed, relied, honest>>
  BY DEF FinishBinding, Live, requestVars
<1>2. ReliesOnChain'
  BY <1>1 DEF ReliesOnChain
<1> QED
  BY <1>1, <1>2, RequestKept

\* The witness that the client sent with the i-th block, as it is decoded.
LEMMA HonestWitnessLinked ==
  ASSUME Inv, Live, NEW i \in 1..Len(bound), HonestWitness(bound[i], witnesses[i]),
         NEW w, w = decodeWitnessHeaders(witnesses[i])
  PROVE  /\ IsSequence(witnesses[i]) /\ DecodesWitness(witnesses[i])
         /\ w[1] = bound[i].parent /\ bound[i].parent = ParentOf(i)
         /\ \A j \in 2..Len(w) : w[j - 1].parent = w[j]
<1>1. IsSequence(witnesses[i]) /\ DecodesWitness(witnesses[i])
  BY DEF Inv, WitnessesRead
<1>2. w[1] = bound[i].parent /\ \A j \in 2..Len(w) : w[j - 1].parent = w[j]
  BY <1>1, GenuineReversed
<1>3. bound[i].parent = ParentOf(i)
  BY DEF Inv, BlocksBound, Bound
<1> QED
  BY <1>1, <1>2, <1>3

LEMMA ReadKeepsInv ==
  ASSUME Inv, NEW complete \in BOOLEAN, ReadParentL2Storage(complete)
  PROVE  Inv'
<1>1. /\ phase = "binding" /\ Live /\ Len(bound) = Len(derived)
      /\ honest' = (honest /\ complete)
      /\ UNCHANGED <<chain, upstream, parent0, derived, canonicalParent, canonicalGrandparent,
                     bound, witnesses, replayed>>
  BY DEF ReadParentL2Storage, Live
<1>2. honest \in BOOLEAN /\ honest' \in BOOLEAN
  BY <1>1, Zenon DEF Inv, Shapes, TypeOK
<1>3. CASE decodeWitnessHeaders(witnesses[1])[1] = parent0 /\ complete
  <2>1. phase' = "binding" /\ relied' = relied \cup {parent0}
    BY <1>1, <1>3 DEF ReadParentL2Storage
  <2>2. honest' = honest
    BY <1>1, <1>2, <1>3, Zenon
  <2>3. ReliesOnChain'
    BY <2>1 DEF ReliesOnChain
  <2> QED
    BY <1>1, <2>1, <2>2, <2>3, RequestKept
<1>4. CASE ~(decodeWitnessHeaders(witnesses[1])[1] = parent0 /\ complete)
  <2>1. phase' = "rejected"
    BY <1>4 DEF ReadParentL2Storage
  <2>2. ~honest'
    <3> SUFFICES ASSUME honest' PROVE FALSE
      OBVIOUS
    <3>1. honest /\ complete
      BY <1>1, Zenon
    <3>2. 1 \in 1..Len(bound)
      <4>1. Len(bound) \in Nat /\ Len(derived) > 0
        BY <1>1, ExtendedIndices DEF Inv, RequestFits
      <4> QED
        BY <1>1, <4>1
    <3>3. HonestWitness(bound[1], witnesses[1])
      BY <1>1, <3>1, <3>2 DEF Inv, HonestBound
    <3>4. decodeWitnessHeaders(witnesses[1])[1] = ParentOf(1)
      BY <1>1, <3>2, <3>3, HonestWitnessLinked
    <3> QED
      BY <1>4, <3>1, <3>4 DEF ParentOf
  <2> QED
    BY <1>1, <1>2, <2>1, <2>2, RejectedKeepsInv
<1> QED
  BY <1>3, <1>4

-----------------------------------------------------------------------------
(* Replay *)

\* On the head, what follows the parents of a bound block is the chain.
LEMMA WitnessOnChain ==
  ASSUME Inv, Live, parent0 = L2Head, NEW i \in 1..Len(bound),
         NEW raws, IsSequence(raws), DecodesWitness(raws),
         NEW w, w = decodeWitnessHeaders(raws), w[1] = bound[i].parent,
         \A j \in 2..Len(w) : w[j - 1].parent = w[j]
  PROVE  /\ Elements(raws) \subseteq Elements(chain) \cup Elements(bound)
         /\ \A j \in 2..Len(w) : w[j - 1].number = w[j].number + 1
<1>1. /\ IsSequence(w) /\ Len(w) \in Nat /\ Elements(w) = Elements(raws)
      /\ \A j \in 1..Len(w) : w[j] # None
  BY WitnessReversed
<1>2. Linked(Extended) /\ IsSequence(Extended)
  BY ExtendedLinked, ExtendedIndices DEF Inv
<1>3. w[1] \in Elements(Extended)
  <2>1. /\ Len(chain) \in Nat /\ Len(bound) \in Nat /\ Len(chain) > 0
        /\ Len(Extended) = Len(chain) + Len(bound) /\ DOMAIN Extended = 1..Len(Extended)
    BY <1>2, ExtendedIndices, SequenceFacts DEF Inv
  <2>2. Len(chain) + i - 1 \in 1..Len(Extended) /\ i \in 1..(Len(bound) + 1)
    BY <2>1
  <2>3. bound[i].parent = ParentOf(i)
    BY DEF Inv, BlocksBound, Bound
  <2>4. ParentOf(i) = Extended[Len(chain) + i - 1]
    BY <2>2, ExtendedParents DEF Inv
  <2> QED
    BY <2>1, <2>2, <2>3, <2>4 DEF Elements
<1>4. /\ \A j \in 1..Len(w) : w[j] \in Elements(Extended)
      /\ \A j \in 2..Len(w) : w[j - 1].number = w[j].number + 1
  <2>1. PICK s : s = Extended
    OBVIOUS
  <2>2. IsSequence(s) /\ Linked(s) /\ w[1] \in Elements(s)
    BY <1>2, <1>3, <2>1
  <2>3. IsSequence(w) /\ \A j \in 1..Len(w) : w[j] # None
    BY <1>1
  <2>4. /\ \A j \in 1..Len(w) : w[j] \in Elements(s)
        /\ \A j \in 2..Len(w) : w[j - 1].number = w[j].number + 1
    BY ONLY <2>2, <2>3, \A j \in 2..Len(w) : w[j - 1].parent = w[j], AncestorsOnChain
  <2> QED
    BY <2>1, <2>4
<1>5. Elements(w) \subseteq Elements(Extended)
  <2>1. DOMAIN w = 1..Len(w)
    BY <1>1, SequenceFacts
  <2> QED
    BY <1>4, <2>1 DEF Elements
<1> QED
  BY <1>1, <1>4, <1>5, ExtendedElements DEF Inv

\* The block that is replayed next and its parent.
LEMMA NextReplayed ==
  ASSUME Inv, Live, replayed < Len(bound)
  PROVE  /\ replayed + 1 \in 1..Len(bound)
         /\ Bound(bound[replayed + 1], ParentOf(replayed + 1), derived[replayed + 1])
         /\ IsHeader(ParentOf(replayed + 1))
         /\ replayed \in Nat /\ Len(bound) \in Nat
<1>1. replayed \in Nat /\ Len(bound) \in Nat /\ replayed + 1 \in 1..Len(bound)
  <2>1. replayed \in Nat /\ Len(bound) \in Nat
    BY ExtendedIndices DEF Inv, Shapes
  <2> QED
    BY <2>1
<1>2. Bound(bound[replayed + 1], ParentOf(replayed + 1), derived[replayed + 1])
  BY <1>1 DEF Inv, BlocksBound
<1>3. IsHeader(ParentOf(replayed + 1))
  BY <1>1, DerivedTimesRise DEF Inv
<1> QED
  BY <1>1, <1>2, <1>3

\* The replay accepts an honest client's block.
LEMMA HonestReplayAccepted ==
  ASSUME Inv, Live, honest, replayed < Len(bound)
  PROVE  ReplayAccepts(bound[replayed + 1], decodeWitnessHeaders(witnesses[replayed + 1]))
<1> DEFINE i == replayed + 1
           h == bound[i]
           raws == witnesses[i]
           w == decodeWitnessHeaders(raws)
<1>1. /\ i \in 1..Len(bound) /\ Bound(h, ParentOf(i), derived[i]) /\ IsHeader(ParentOf(i))
  BY NextReplayed
<1>2. /\ ConfigAvailable /\ parent0 = L2Head /\ h.root = "good" /\ h.txRoot = "derived"
      /\ h.time >= UnzenTime => h.difficulty = ZkGas[h.number]
      /\ HonestWitness(h, raws)
  BY <1>1 DEF Inv, RequestFits, HonestBound
<1>3. /\ IsSequence(raws) /\ DecodesWitness(raws) /\ w[1] = h.parent
      /\ \A j \in 2..Len(w) : w[j - 1].parent = w[j]
  BY <1>1, <1>2, HonestWitnessLinked
<1>4. Len(w) > 0
  BY <1>3, WitnessReversed
<1> HIDE DEF i, h, w, raws
<1>5. \A j \in 2..Len(w) : w[j - 1].number = w[j].number + 1
  BY <1>1, <1>2, <1>3, WitnessOnChain DEF h, w
<1>6. h.parent = ParentOf(i) /\ h.number = ParentOf(i).number + 1 /\ h.number # 0
  BY <1>1 DEF Bound, IsHeader
<1>7. validateReplayWitness(h, w)
  <2>1. w # <<>>
    BY <1>4, EmptySequence
  <2> QED
    BY <1>3, <1>5, <1>6, <2>1 DEF validateReplayWitness
<1>8. ZkGasDifficulty(h) /\ RequestsHash(h)
  <2>1. /\ IsUnzen(h.time) <=> h.time >= UnzenTime
        /\ IsActive("Prague", h.time) <=> h.time >= UnzenTime
    BY <1>2, UnzenAgrees, ForksAgree DEF ForkNames
  <2>2. h.forkFields = IF h.time >= UnzenTime THEN "empty" ELSE "absent"
    BY <1>1 DEF Bound
  <2> QED
    BY <1>2, <2>1, <2>2 DEF ZkGasDifficulty, RequestsHash
<1>9. h.root = ExecutedRoot(h, w[1])
  <2>1. ParentOf(i).root = "good"
    <3>1. i \in 1..(Len(bound) + 1)
      BY <1>1, NextReplayed
    <3> QED
      BY <3>1, HonestParent
  <2>2. \A fork \in ForkNames : IsActive(fork, h.time) <=> h.time >= UnzenTime
    BY <1>2, ForksAgree
  <2> QED
    BY <1>2, <1>3, <1>6, <2>1, <2>2 DEF ExecutedRoot
<1>10. ReplayAccepts(h, w)
  BY <1>7, <1>8, <1>9 DEF ReplayAccepts
<1> QED
  BY <1>10 DEF h, i, w, raws

LEMMA ReplayKeepsInv ==
  ASSUME Inv, NEW complete \in BOOLEAN, ReplayBlock(complete)
  PROVE  Inv'
<1> DEFINE h == bound[replayed + 1]
           par == ParentOf(replayed + 1)
           raws == witnesses[replayed + 1]
           w == decodeWitnessHeaders(raws)
<1>1. /\ phase = "replay" /\ Live /\ replayed < Len(bound)
      /\ honest' = (honest /\ complete)
      /\ UNCHANGED <<chain, upstream, parent0, derived, canonicalParent, canonicalGrandparent,
                     bound, witnesses>>
  BY DEF ReplayBlock, Live
<1>2. /\ replayed + 1 \in 1..Len(bound) /\ Bound(h, par, derived[replayed + 1]) /\ IsHeader(par)
      /\ replayed \in Nat /\ Len(bound) \in Nat
  BY <1>1, NextReplayed
<1>3. IsSequence(raws) /\ DecodesWitness(raws)
  BY <1>1, <1>2 DEF Inv, WitnessesRead
<1>4. CanonicalChain' /\ ChainLinked' /\ L2Head' = L2Head
  BY <1>1, ChainKept
<1>5. honest \in BOOLEAN /\ honest' \in BOOLEAN
  BY <1>1, Zenon DEF Inv, Shapes, TypeOK
<1>6. CASE ReplayAccepts(h, w) /\ complete
  <2>1. replayed' = replayed + 1 /\ phase' = phase /\ relied' = relied \cup Elements(raws)
    BY <1>6 DEF ReplayBlock
  <2>2. honest' = honest
    BY <1>1, <1>5, <1>6, Zenon
  <2>3. validateReplayWitness(h, w) /\ ZkGasDifficulty(h) /\ h.root = ExecutedRoot(h, w[1])
    BY <1>6 DEF ReplayAccepts
  <2>4. w[1] = h.parent /\ \A j \in 2..Len(w) : w[j - 1].parent = w[j]
    BY <2>3 DEF validateReplayWitness
  <2>5. w[1] = par
    BY <1>2, <2>4 DEF Bound
  <2>6. ConfigAvailable
    BY <1>1 DEF Inv, RequestFits
  <2>7. HonestWitness(h, raws)
    <3> HIDE DEF raws, h
    <3> QED
      BY <1>3, <2>4, GenuineReversed
  <2>8. h.time >= UnzenTime => h.difficulty = ZkGas[h.number]
    BY <2>3, <2>6, UnzenAgrees DEF ZkGasDifficulty
  <2>9. parent0.root = "good" => h.root = "good" /\ h.txRoot = "derived"
    <3> SUFFICES ASSUME parent0.root = "good" PROVE h.root = "good" /\ h.txRoot = "derived"
      OBVIOUS
    <3>1. par.root = "good"
      <4>1. CASE replayed = 0
        BY <4>1 DEF ParentOf
      <4>2. CASE replayed # 0
        <5>1. replayed \in 1..replayed /\ replayed + 1 # 1 /\ (replayed + 1) - 1 = replayed
          BY <1>2, <4>2
        <5> QED
          BY <1>1, <5>1 DEF ParentOf, Inv, BlocksReplayed
      <4> QED
        BY <4>1, <4>2
    <3>2. h.txRoot = "derived"
      BY <1>1, <1>2, <2>7, <3>1 DEF Inv, BlocksFiltered
    <3>3. \A fork \in ForkNames : IsActive(fork, h.time) <=> h.time >= UnzenTime
      BY <2>6, ForksAgree
    <3> QED
      BY <2>3, <2>5, <3>1, <3>2, <3>3 DEF ExecutedRoot
  <2>10. BlocksReplayed'
    <3> SUFFICES ASSUME NEW i \in 1..(replayed + 1)
                 PROVE  /\ HonestWitness(bound[i], witnesses[i])
                        /\ bound[i].time >= UnzenTime => bound[i].difficulty = ZkGas[bound[i].number]
                        /\ parent0.root = "good" =>
                             bound[i].root = "good" /\ bound[i].txRoot = "derived"
      BY <1>1, <2>1 DEF BlocksReplayed, HonestWitness, DecodesWitness
    <3>1. CASE i = replayed + 1
      BY <2>7, <2>8, <2>9, <3>1
    <3>2. CASE i # replayed + 1
      <4>1. i \in 1..replayed
        BY <1>2, <3>2
      <4> QED
        BY <1>1, <4>1 DEF Inv, BlocksReplayed
    <3> QED
      BY <3>1, <3>2
  <2>11. Shapes'
    <3>1. TypeOK'
      BY <1>1, <1>2, <1>5, <2>1, <2>2 DEF Inv, Shapes, TypeOK
    <3> QED
      BY <1>1, <1>2, <2>1, <3>1 DEF Inv, Shapes
  <2>12. RequestFits'
    BY <1>1, <2>1 DEF Inv, RequestFits, ConfigAvailable, pinForkTime, Derivable
  <2>13. BlocksBound' /\ Numbered' /\ BlocksFiltered'
    BY <1>1, <2>1 DEF Inv, BlocksBound, Numbered, BlocksFiltered, Bound, ParentOf
  <2>14. AncestorsRolled' /\ HonestAccepted' /\ ReliesOnChain'
    BY <1>1, <2>1 DEF AncestorsRolled, HonestAccepted, ReliesOnChain
  <2>15. HonestBound'
    BY <1>1, <1>4, <2>1, <2>2 DEF Inv, HonestBound
  <2>16. WitnessesRead'
    BY <1>1, <1>2, <2>1 DEF Inv, WitnessesRead
  <2> QED
    BY <1>4, <2>10, <2>11, <2>12, <2>13, <2>14, <2>15, <2>16 DEF Inv
<1>7. CASE ~(ReplayAccepts(h, w) /\ complete)
  <2>1. phase' = "rejected" /\ replayed' = replayed
    BY <1>7 DEF ReplayBlock
  <2>2. ~honest'
    <3> SUFFICES ASSUME honest' PROVE FALSE
      OBVIOUS
    <3>1. honest /\ complete
      BY <1>1, Zenon
    <3> QED
      BY <1>1, <1>7, <3>1, HonestReplayAccepted
  <2> QED
    BY <1>1, <1>5, <2>1, <2>2, RejectedKeepsInv
<1> QED
  BY <1>6, <1>7

\* Once all blocks are replayed, all that was read from their witnesses is on the chain,
\* whenever it was read.
LEMMA SignKeepsInv ==
  ASSUME Inv, Sign
  PROVE  Inv'
<1>1. /\ phase = "replay" /\ Live /\ phase' = "proved" /\ replayed = Len(bound)
      /\ UNCHANGED <<chain, upstream, parent0, derived, canonicalParent, canonicalGrandparent,
                     bound, witnesses, replayed, relied, honest>>
  BY DEF Sign, Live, requestVars
<1>2. Len(bound) = Len(derived)
  BY <1>1 DEF Inv, Shapes, TypeOK
<1>3. ASSUME parent0 = L2Head, NEW x \in relied
      PROVE  x \in Elements(chain) \cup Elements(bound)
  <2>1. CASE x = parent0
    <3>1. Len(chain) \in Nat /\ Len(chain) > 0 /\ DOMAIN chain = 1..Len(chain)
      BY ExtendedIndices, SequenceFacts DEF Inv
    <3> QED
      BY <1>3, <2>1, <3>1 DEF L2Head, Elements
  <2>2. CASE x # parent0
    <3>1. PICK i \in 1..Len(bound) : x \in Elements(witnesses[i])
      BY <1>1, <2>2 DEF Inv, WitnessesRead
    <3>2. HonestWitness(bound[i], witnesses[i])
      BY <1>1 DEF Inv, BlocksReplayed
    <3>3. PICK w : w = decodeWitnessHeaders(witnesses[i])
      OBVIOUS
    <3>4. /\ IsSequence(witnesses[i]) /\ DecodesWitness(witnesses[i]) /\ w[1] = bound[i].parent
          /\ \A j \in 2..Len(w) : w[j - 1].parent = w[j]
      BY <1>1, <3>2, <3>3, HonestWitnessLinked
    <3>5. Elements(witnesses[i]) \subseteq Elements(chain) \cup Elements(bound)
      BY <1>1, <1>3, <3>3, <3>4, WitnessOnChain
    <3> QED
      BY <3>1, <3>5
  <2> QED
    BY <2>1, <2>2
<1>4. ReliesOnChain'
  <2>1. L2Head' = L2Head /\ Elements(chain)' = Elements(chain) /\ Elements(bound)' = Elements(bound)
    BY <1>1 DEF L2Head, Elements
  <2> QED
    BY <1>1, <1>3, <2>1 DEF ReliesOnChain
<1> QED
  BY <1>1, <1>2, <1>4, RequestKept

-----------------------------------------------------------------------------
(* The theorems *)

LEMMA StepKeepsInv ==
  ASSUME Inv, [Next]_vars
  PROVE  Inv'
<1>1. CASE UNCHANGED vars
  <2>1. /\ UNCHANGED <<chain, upstream, phase, parent0, derived, canonicalParent,
                       canonicalGrandparent, bound, witnesses, replayed, relied, honest>>
    BY <1>1 DEF vars, requestVars
  <2>2. CanonicalChain' /\ ChainLinked' /\ Shapes'
    BY <2>1, ChainKept DEF Inv, Shapes, TypeOK
  <2>3. RequestFits' /\ BlocksBound' /\ Numbered'
    BY <2>1 DEF Inv, Live, RequestFits, ConfigAvailable, pinForkTime, Derivable, BlocksBound, Bound,
       ParentOf, Numbered
  <2>4. AncestorsRolled' /\ WitnessesRead' /\ BlocksFiltered' /\ BlocksReplayed'
    BY <2>1 DEF Inv, Live, AncestorsRolled, ParentOf, WitnessesRead, BlocksFiltered, BlocksReplayed
  <2>5. ReliesOnChain' /\ HonestBound' /\ HonestAccepted'
    BY <2>1 DEF Inv, Live, ReliesOnChain, HonestBound, HonestAccepted, L2Head, ConfigAvailable,
       pinForkTime
  <2> QED
    BY <2>2, <2>3, <2>4, <2>5 DEF Inv
<1>2. ASSUME NEW par \in {L2Head} \cup Forged(L2Head), NEW entries \in AncestorLists(par),
             NEW times \in DerivedTimes, Submit(par, entries, times)
      PROVE  Inv'
  BY <1>2, SubmitKeepsInv
<1>3. CASE SubmitMalformed
  BY <1>3, SubmitMalformedKeepsInv
<1>4. ASSUME NEW h \in VariedBlocks \cup StrayBlocks,
             BindBlock(h, <<canonicalParent>>, "derived")
      PROVE  Inv'
  BY <1>4, SingletonSequence, BindBlockKeepsInv
<1>5. ASSUME NEW h \in FilteredBlocks, NEW raws \in WitnessHeaders(canonicalParent),
             NEW filtered, BindBlock(h, raws, filtered)
      PROVE  Inv'
  BY <1>5, WitnessesAreSequences, BindBlockKeepsInv
<1>6. ASSUME NEW complete \in BOOLEAN, ReadParentL2Storage(complete)
      PROVE  Inv'
  BY <1>6, ReadKeepsInv
<1>7. ASSUME NEW complete \in BOOLEAN, ReplayBlock(complete)
      PROVE  Inv'
  BY <1>7, ReplayKeepsInv
<1>8. CASE FinishBinding
  BY <1>8, FinishBindingKeepsInv
<1>9. CASE Sign
  BY <1>9, SignKeepsInv
<1>10. CASE Settle
  BY <1>10, SettleKeepsInv
<1>11. CASE EndRequest
  BY <1>11, EndRequestKeepsInv
<1> QED
  BY <1>1, <1>2, <1>3, <1>4, <1>5, <1>6, <1>7, <1>8, <1>9, <1>10, <1>11 DEF Next

LEMMA Invariance == Spec => []Inv
<1>1. Inv /\ [Next]_vars => Inv'
  BY StepKeepsInv
<1> QED
  BY InitInv, <1>1, PTL DEF Spec

\* The state of a request is complete at every step of its checks: blocks are bound with
\* their witnesses, as a chain on the carry's parent, and none is left out of the proof.
THEOREM TypeCorrect == Spec => []TypeOK
<1>1. Inv => TypeOK
  BY DEF Inv, Shapes
<1> QED
  BY Invariance, <1>1, PTL

\* Whatever ancestors, headers and witnesses clients send and whatever fork times
\* taiko-geth has: only the headers that the network's producer builds are settled.
THEOREM OnlyCanonicalSettles == Spec => []CanonicalChain
<1>1. Inv => CanonicalChain
  BY DEF Inv
<1> QED
  BY Invariance, <1>1, PTL

\* Nothing that an honest client sends is rejected while the fork times agree.
THEOREM HonestNeverRejected == Spec => []HonestAccepted
<1>1. Inv => HonestAccepted
  BY DEF Inv
<1> QED
  BY Invariance, <1>1, PTL

\* Whatever the filter, a check or the EVM has read from the witnesses of a request on
\* the head is, when the request is proved, of the chain or of its bound blocks, though
\* the filter reads them before anything has tied their headers to the parent.
THEOREM WitnessesOnChain == Spec => []ReliesOnChain
<1>1. Inv => ReliesOnChain
  BY DEF Inv
<1> QED
  BY Invariance, <1>1, PTL

=============================================================================
