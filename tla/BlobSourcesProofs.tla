-------------------------- MODULE BlobSourcesProofs --------------------------
(***************************************************************************)
(* Proofs about BlobSources, for any manifests, streams and limits, any    *)
(* number of sources and any sources that hold no manifest.                *)
(*                                                                         *)
(* The first half is about bytes: where FlattenSeq puts the elements of a  *)
(* list, and what decodeManifestPayload then finds at their offsets.  The  *)
(* second is the invariant of a request in flight: a source behind the     *)
(* index has the blobs that its hashes commit to, and what has been        *)
(* derived is what the sources read so far commit to.                      *)
(*                                                                         *)
(* The last part is about the encoding below that, BlobCodec: positions    *)
(* in a blob and in its data determine each other, the bits of the headers *)
(* are the bytes they were taken from, and so the decoder and the encoder  *)
(* undo each other, for any size of elements and any number of rounds.     *)
(***************************************************************************)
EXTENDS BlobSources, BlobCodec, SequenceTheorems, WellFoundedInduction, TLAPS

-----------------------------------------------------------------------------
(* Sequences that are joined *)

\* Every set of naturals that has an element has a least one.
Less == {p \in Nat \X Nat : p[1] < p[2]}

LEMMA LeastElement ==
  ASSUME NEW S \in SUBSET Nat, NEW x \in S
  PROVE  \E y \in S : \A z \in Nat : z < y => z \notin S
<1>1. IsWellFoundedOn(Less, Nat)
  BY NatLessThanWellFounded, Zenon DEF OpToRel, Less
<1>2. PICK y \in S : \A z \in S : <<z, y>> \notin Less
  BY <1>1, WFMin, Zenon
<1>3. ASSUME NEW z \in Nat, z < y PROVE z \notin S
  BY <1>2, <1>3 DEF Less
<1> QED
  BY <1>2, <1>3

\* f joins the first n elements of a list, one after the other.
Joins(f, s, n) == f = [i \in 1..n |-> IF i = 1 THEN s[i] ELSE f[i - 1] \o s[i]]

\* Such a function exists: the shortest list without one would be joined by one more
\* step from the list before it.
LEMMA JoinExists ==
  ASSUME NEW s, NEW n \in Nat
  PROVE  \E f : Joins(f, s, n)
<1> DEFINE Bad == {m \in Nat : ~\E f : Joins(f, s, m)}
<1> SUFFICES ASSUME n \in Bad PROVE FALSE
  OBVIOUS
<1>1. PICK m \in Bad : \A z \in Nat : z < m => z \notin Bad
  BY LeastElement
<1>2. CASE m = 0
  <2>1. Joins([i \in 1..0 |-> 0], s, 0)
    BY DEF Joins
  <2> QED
    BY <1>1, <1>2, <2>1
<1>3. CASE m # 0
  <2>1. m - 1 \in Nat /\ m - 1 < m /\ m \in Nat
    BY <1>1, <1>3
  <2>2. PICK f : Joins(f, s, m - 1)
    BY <1>1, <2>1
  <2> DEFINE g == [i \in 1..m |-> IF i = m THEN (IF m = 1 THEN s[m] ELSE f[m - 1] \o s[m]) ELSE f[i]]
  <2>3. ASSUME NEW i \in 1..m
        PROVE  g[i] = IF i = 1 THEN s[i] ELSE g[i - 1] \o s[i]
    <3>1. CASE i = m
      <4>1. CASE m = 1
        BY <3>1, <4>1
      <4>2. CASE m # 1
        <5>1. m - 1 \in 1..m /\ m - 1 # m
          BY <2>1, <4>2
        <5>2. g[m - 1] = f[m - 1]
          BY <5>1
        <5> QED
          BY <2>1, <3>1, <4>2, <5>2
      <4> QED
        BY <4>1, <4>2
    <3>2. CASE i # m
      <4>1. i \in 1..(m - 1) /\ g[i] = f[i]
        BY <2>1, <3>2
      <4>2. f[i] = IF i = 1 THEN s[i] ELSE f[i - 1] \o s[i]
        BY <2>2, <4>1 DEF Joins
      <4>3. i # 1 => i - 1 \in 1..m /\ i - 1 # m
        BY <2>1, <4>1
      <4>4. i # 1 => g[i - 1] = f[i - 1]
        BY <4>3
      <4> QED
        BY <4>1, <4>2, <4>4
    <3> QED
      BY <3>1, <3>2
  <2>4. Joins(g, s, m)
    <3>1. g = [i \in 1..m |-> g[i]]
      OBVIOUS
    <3> HIDE DEF g
    <3> QED
      BY <2>3, <3>1 DEF Joins
  <2> QED
    BY <1>1, <2>4
<1> QED
  BY <1>2, <1>3

\* FlattenSeq is the last value of such a function.
LEMMA FlattenJoins ==
  ASSUME NEW s, Len(s) \in Nat, Len(s) # 0
  PROVE  \E f : Joins(f, s, Len(s)) /\ FlattenSeq(s) = f[Len(s)]
<1> DEFINE f == CHOOSE f : f = [i \in 1..Len(s) |-> IF i = 1 THEN s[i] ELSE f[i - 1] \o s[i]]
<1>1. FlattenSeq(s) = f[Len(s)]
  BY DEF FlattenSeq
<1>2. Joins(f, s, Len(s))
  BY JoinExists DEF Joins
<1> QED
  BY <1>1, <1>2

\* Its first value and its steps.
LEMMA JoinSteps ==
  ASSUME NEW f, NEW s, NEW n \in Nat, Joins(f, s, n)
  PROVE  /\ n > 0 => f[1] = s[1]
         /\ \A i \in 2..n : f[i] = f[i - 1] \o s[i]
<1>1. \A i \in 1..n : f[i] = IF i = 1 THEN s[i] ELSE f[i - 1] \o s[i]
  BY DEF Joins
<1>2. n > 0 => f[1] = s[1]
  BY <1>1
<1>3. ASSUME NEW i \in 2..n PROVE f[i] = f[i - 1] \o s[i]
  <2>1. i \in 1..n /\ i # 1
    OBVIOUS
  <2> QED
    BY <1>1, <2>1
<1> QED
  BY <1>2, <1>3

Lists(s, n, T) == \A i \in 1..n : s[i] \in Seq(T)

LEMMA JoinStep ==
  ASSUME NEW f, NEW s, NEW n \in Nat, Joins(f, s, n), NEW i \in 2..n
  PROVE  f[i] = f[i - 1] \o s[i]
BY JoinSteps, Zenon

\* Joined lists of T are lists of T.
LEMMA JoinTyped ==
  ASSUME NEW T, NEW s, NEW n \in Nat, Lists(s, n, T), NEW f, Joins(f, s, n)
  PROVE  \A i \in 1..n : f[i] \in Seq(T)
<1> DEFINE Bad == {i \in 1..n : f[i] \notin Seq(T)}
<1> SUFFICES ASSUME NEW j \in Bad PROVE FALSE
  OBVIOUS
<1>1. Bad \in SUBSET Nat
  OBVIOUS
<1>2. PICK i \in Bad : \A z \in Nat : z < i => z \notin Bad
  BY <1>1, LeastElement
<1>3. CASE i = 1
  <2>1. n > 0 /\ s[1] \in Seq(T)
    BY <1>2, <1>3 DEF Lists
  <2>2. f[1] = s[1]
    BY <2>1, JoinSteps
  <2> QED
    BY <1>2, <1>3, <2>1, <2>2
<1>4. CASE i # 1
  <2>1. i \in 2..n /\ i - 1 \in 1..n /\ i - 1 \in Nat /\ i - 1 < i /\ i \in 1..n
    BY <1>2, <1>4
  <2>2. f[i - 1] \in Seq(T)
    BY <1>2, <2>1
  <2>3. f[i] = f[i - 1] \o s[i] /\ s[i] \in Seq(T)
    BY <2>1, JoinSteps DEF Lists
  <2>4. f[i] \in Seq(T)
    BY <2>2, <2>3
  <2> QED
    BY <1>2, <2>4
<1> QED
  BY <1>3, <1>4

Alike(s, t, k) == \A i \in 1..k : s[i] = t[i]

\* Lists that begin in the same way are joined in the same way.
LEMMA JoinUnique ==
  ASSUME NEW s, NEW t, NEW n \in Nat, NEW k \in Nat, k <= n, Alike(s, t, k),
         NEW f, Joins(f, s, n), NEW g, Joins(g, t, k)
  PROVE  Alike(f, g, k)
<1>1. (n > 0 => f[1] = s[1]) /\ \A i \in 2..n : f[i] = f[i - 1] \o s[i]
  BY JoinSteps
<1>2. (k > 0 => g[1] = t[1]) /\ \A i \in 2..k : g[i] = g[i - 1] \o t[i]
  BY JoinSteps
<1> DEFINE Bad == {i \in 1..k : f[i] # g[i]}
<1> SUFFICES ASSUME NEW j \in Bad PROVE FALSE
  BY DEF Alike
<1>3. Bad \in SUBSET Nat
  OBVIOUS
<1>4. PICK i \in Bad : \A z \in Nat : z < i => z \notin Bad
  BY <1>3, LeastElement
<1>5. CASE i = 1
  BY <1>1, <1>2, <1>4, <1>5 DEF Alike
<1>6. CASE i # 1
  <2>1. i \in 2..n /\ i \in 2..k /\ i - 1 \in 1..k /\ i - 1 \in Nat /\ i - 1 < i /\ i \in 1..k
    BY <1>4, <1>6
  <2>2. f[i - 1] = g[i - 1]
    BY <1>4, <2>1
  <2>3. f[i] = f[i - 1] \o s[i] /\ g[i] = g[i - 1] \o t[i] /\ s[i] = t[i]
    BY <1>1, <1>2, <2>1 DEF Alike
  <2> QED
    BY <1>4, <2>2, <2>3
<1> QED
  BY <1>5, <1>6

\* What is joined first is at the beginning.
LEMMA JoinPrefix ==
  ASSUME NEW T, NEW s, NEW n \in Nat, Lists(s, n, T), NEW f, Joins(f, s, n), NEW k \in 1..n
  PROVE  \A i \in k..n : /\ Len(f[k]) <= Len(f[i])
                         /\ \A x \in 1..Len(f[k]) : f[i][x] = f[k][x]
<1> DEFINE Good(i) == /\ Len(f[k]) <= Len(f[i])
                      /\ \A x \in 1..Len(f[k]) : f[i][x] = f[k][x]
           Bad == {i \in k..n : ~Good(i)}
<1> SUFFICES ASSUME NEW j \in Bad PROVE FALSE
  OBVIOUS
<1>1. Bad \in SUBSET Nat
  OBVIOUS
<1>2. PICK i \in Bad : \A z \in Nat : z < i => z \notin Bad
  BY <1>1, LeastElement
<1>3. f[k] \in Seq(T) /\ Len(f[k]) \in Nat
  BY JoinTyped
<1>4. CASE i = k
  BY <1>2, <1>3, <1>4
<1>5. CASE i # k
  <2>1. i \in 2..n /\ i - 1 \in k..n /\ i - 1 \in 1..n /\ i - 1 \in Nat /\ i - 1 < i /\ i \in 1..n
    BY <1>2, <1>5
  <2>2. Good(i - 1)
    BY <1>2, <2>1
  <2>3. f[i] = f[i - 1] \o s[i] /\ s[i] \in Seq(T) /\ f[i - 1] \in Seq(T)
    <3>1. f[i] = f[i - 1] \o s[i]
      BY <2>1, JoinStep
    <3>2. \A x \in 1..n : f[x] \in Seq(T)
      BY JoinTyped
    <3>3. s[i] \in Seq(T)
      BY <2>1 DEF Lists
    <3> QED
      BY <2>1, <3>1, <3>2, <3>3
  <2>4. /\ Len(f[i]) = Len(f[i - 1]) + Len(s[i]) /\ Len(s[i]) \in Nat /\ Len(f[i - 1]) \in Nat
        /\ \A x \in 1..Len(f[i - 1]) : f[i][x] = f[i - 1][x]
    <3>1. PICK a, b, c : a = f[i - 1] /\ b = s[i] /\ c = f[i]
      OBVIOUS
    <3>2. a \in Seq(T) /\ b \in Seq(T) /\ c = a \o b
      BY <2>3, <3>1
    <3>3. /\ Len(c) = Len(a) + Len(b) /\ Len(b) \in Nat /\ Len(a) \in Nat
          /\ \A x \in 1..Len(a) : c[x] = a[x]
      BY <3>2
    <3> QED
      BY <3>1, <3>3
  <2>5. Good(i)
    <3>1. PICK a, b, c, d : a = Len(f[k]) /\ b = Len(f[i - 1]) /\ c = Len(f[i]) /\ d = Len(s[i])
      OBVIOUS
    <3>2. a \in Nat /\ b \in Nat /\ d \in Nat /\ a <= b /\ c = b + d /\ a <= c
      <4>1. a <= b
        BY <2>2, <3>1, Zenon
      <4>2. a \in Nat /\ b \in Nat /\ d \in Nat /\ c = b + d
        BY <1>3, <2>4, <3>1, Zenon
      <4> QED
        BY <4>1, <4>2
    <3>3. \A x \in 1..a : f[i - 1][x] = f[k][x] /\ x \in 1..b
      BY <2>2, <3>1, <3>2
    <3>4. \A x \in 1..b : f[i][x] = f[i - 1][x]
      BY <2>4, <3>1
    <3>5. \A x \in 1..a : f[i][x] = f[k][x]
      BY <3>3, <3>4
    <3> QED
      BY <3>1, <3>2, <3>5
  <2> QED
    BY <1>2, <2>5
<1> QED
  BY <1>4, <1>5

-----------------------------------------------------------------------------
(* FlattenSeq *)

\* So is what FlattenSeq returns.
LEMMA FlattenTyped ==
  ASSUME NEW T, NEW n \in Nat, NEW s, Len(s) = n, Lists(s, n, T), n = 0 => s = <<>>
  PROVE  FlattenSeq(s) \in Seq(T)
<1>1. CASE n = 0
  BY <1>1 DEF FlattenSeq
<1>2. CASE n # 0
  <2>1. PICK f : Joins(f, s, n) /\ FlattenSeq(s) = f[n]
    BY <1>2, FlattenJoins
  <2> QED
    BY <1>2, <2>1, JoinTyped
<1> QED
  BY <1>1, <1>2

\* One blob is the whole payload.
LEMMA FlattenOne ==
  ASSUME NEW a
  PROVE  FlattenSeq(<<a>>) = a
<1>1. PICK s, n : s = <<a>> /\ n = 1
  OBVIOUS
<1>2. Len(s) = n /\ s[1] = a /\ n \in Nat /\ n # 0 /\ n > 0
  BY <1>1
<1>3. PICK f : Joins(f, s, n) /\ FlattenSeq(s) = f[n]
  BY <1>2, FlattenJoins, Zenon
<1>4. f[1] = s[1]
  BY <1>2, <1>3, JoinSteps
<1> QED
  BY <1>1, <1>2, <1>3, <1>4

\* Two blobs are the payload one after the other.
LEMMA FlattenTwo ==
  ASSUME NEW a, NEW b
  PROVE  FlattenSeq(<<a, b>>) = a \o b
<1>1. PICK s, n : s = <<a, b>> /\ n = 2
  OBVIOUS
<1>2. Len(s) = n /\ s[1] = a /\ s[2] = b /\ n \in Nat /\ n # 0 /\ n > 0 /\ 2 \in 2..n
  BY <1>1
<1>3. PICK f : Joins(f, s, n) /\ FlattenSeq(s) = f[n]
  BY <1>2, FlattenJoins, Zenon
<1>4. f[1] = s[1] /\ \A i \in 2..n : f[i] = f[i - 1] \o s[i]
  <2>1. n > 0 => f[1] = s[1]
    BY <1>2, <1>3, JoinSteps
  <2>2. ASSUME NEW i \in 2..n PROVE f[i] = f[i - 1] \o s[i]
    BY <1>2, <1>3, JoinStep
  <2> QED
    BY <1>2, <2>1, <2>2
<1>5. f[2] = f[2 - 1] \o s[2]
  BY <1>2, <1>4, Zenon
<1>6. f[2 - 1] = f[1]
  OBVIOUS
<1> QED
  BY <1>1, <1>2, <1>3, <1>4, <1>5, <1>6

LiesAt(part, whole, off) ==
  /\ off \in Nat /\ off + Len(part) <= Len(whole)
  /\ \A x \in 1..Len(part) : whole[off + x] = part[x]

\* The i-th element of a list starts where the elements before it end.
LEMMA FlattenLocates ==
  ASSUME NEW T, NEW n \in Nat, NEW s, Len(s) = n, Lists(s, n, T),
         NEW i \in 1..n, NEW t, Len(t) = i - 1, Alike(t, s, i - 1), i = 1 => t = <<>>
  PROVE  LiesAt(s[i], FlattenSeq(s), Len(FlattenSeq(t)))
<1> DEFINE off == Len(FlattenSeq(t))
<1>1. PICK f : Joins(f, s, n) /\ FlattenSeq(s) = f[n]
  BY FlattenJoins
<1>2. /\ f[n] \in Seq(T) /\ f[i] \in Seq(T) /\ s[i] \in Seq(T)
      /\ Len(f[i]) \in Nat /\ Len(s[i]) \in Nat
  <2>1. f[n] \in Seq(T) /\ f[i] \in Seq(T)
    BY <1>1, JoinTyped
  <2>2. s[i] \in Seq(T)
    BY DEF Lists
  <2> QED
    BY <2>1, <2>2
<1>3. Len(f[i]) <= Len(f[n]) /\ \A x \in 1..Len(f[i]) : f[n][x] = f[i][x]
  BY <1>1, JoinPrefix
<1>4. /\ off \in Nat /\ Len(f[i]) = off + Len(s[i])
      /\ \A x \in 1..Len(s[i]) : f[i][off + x] = s[i][x]
  <2>1. CASE i = 1
    <3>1. FlattenSeq(t) = <<>> /\ off = 0
      BY <2>1 DEF FlattenSeq
    <3>2. f[1] = s[1]
      <4>1. n > 0
        OBVIOUS
      <4> QED
        BY <1>1, <4>1, JoinSteps
    <3> QED
      BY <1>2, <2>1, <3>1, <3>2
  <2>2. CASE i # 1
    <3>1. i - 1 \in Nat /\ i - 1 # 0 /\ i - 1 <= n /\ i \in 2..n /\ i - 1 \in 1..n
      BY <2>2
    <3>2. PICK g : Joins(g, t, i - 1) /\ FlattenSeq(t) = g[i - 1]
      BY <3>1, FlattenJoins
    <3>3. f[i - 1] = g[i - 1]
      <4>1. PICK m \in Nat : m = i - 1
        BY <3>1
      <4>2. m <= n /\ Joins(g, t, m) /\ Alike(s, t, m)
        BY <3>1, <3>2, <4>1 DEF Alike
      <4>3. Alike(f, g, m)
        BY <1>1, <4>2, JoinUnique
      <4> QED
        BY <3>1, <4>1, <4>3 DEF Alike
    <3>4. f[i] = f[i - 1] \o s[i] /\ f[i - 1] \in Seq(T)
      BY <1>1, <3>1, JoinSteps, JoinTyped
    <3>5. off = Len(f[i - 1])
      BY <3>2, <3>3
    <3> HIDE DEF off
    <3> QED
      BY <1>2, <3>4, <3>5, SMTT(30)
  <2> QED
    BY <2>1, <2>2
<1> HIDE DEF off
<1>5. off + Len(s[i]) <= Len(FlattenSeq(s))
  BY <1>1, <1>3, <1>4
<1>6. ASSUME NEW x \in 1..Len(s[i]) PROVE FlattenSeq(s)[off + x] = s[i][x]
  <2>1. off + x \in 1..Len(f[i])
    BY <1>2, <1>4
  <2> QED
    BY <1>1, <1>3, <1>4, <2>1
<1> QED
  BY <1>4, <1>5, <1>6 DEF off, LiesAt

-----------------------------------------------------------------------------
(* The invariant *)

\* A field of byte slices, and a data source, as a client may send them.
ByteList == {Absent, Malformed} \cup Seq(Content \cup {Short, Malformed})
Data == {Malformed} \cup [blobs : ByteList, unused : {Absent, Malformed}, commitments : ByteList]

Types ==
  /\ l1 \in Seq(Source)
  /\ request \in [claim : Seq(Source), hash : Seq(Source), data : Seq(Data)]
  /\ phase \in {"idle", "carry", "blobs", "derive", "accepted", "rejected", "cancelled"}
  /\ index \in Nat \ {0}

\* Requests are made once the proposal is on L1.
RequestMade == phase # "idle" => l1 # <<>>

\* A request starts with its first source and with nothing derived.
Fresh ==
  /\ phase \in {"idle", "carry"} => index = 1
  /\ phase \in {"idle", "carry", "blobs"} => derived = <<>>

\* After the carry is checked the proposal is the one whose hash is signed, and
\* each of its sources has data.
CarryChecked ==
  phase \in {"blobs", "derive", "accepted"} =>
    request.hash = request.claim /\ Len(request.data) = Len(request.claim)

\* The blobs of this source are the ones its hashes commit to.
Matched(i) ==
  \/ request.claim[i].blobHashes = <<>>
  \/ TxDataFromBlob(request.data[i]) = request.claim[i].blobHashes

BlobsChecked ==
  /\ phase = "blobs" => \A i \in 1..Len(request.claim) : i < index => Matched(i)
  /\ phase \in {"derive", "accepted"} => \A i \in 1..Len(request.claim) : Matched(i)

\* The manifest that a source commits to.
Committed(source) ==
  IF IsBlobless(source) THEN Default ELSE ManifestOf(source.blobHashes, source.offset)

\* The sources before this one have been read, each as it was committed to.
DerivedSoFar ==
  phase = "derive" =>
    /\ index <= Len(request.claim) + 1
    /\ derived = [i \in 1..(index - 1) |-> Committed(request.claim[i])]

\* What a proposer writes for these manifests.
Bytes(ms) == FlattenSeq([i \in 1..Len(ms) |-> Payload(ms[i])])

\* What is on L1 is what the proposer has published.
Publication ==
  published # Absent =>
    \E n \in 1..MaxSources :
      /\ published \in [1..n -> Manifests]
      /\ \E cut \in 0..Len(Bytes(published)) :
           cut < Len(Bytes(published)) /\ l1 = PublishedSources(published, cut)

Inv ==
  /\ Types /\ RequestMade /\ Fresh /\ CarryChecked /\ BlobsChecked /\ DerivedSoFar
  /\ ReadAsCommitted /\ HonestDataAccepted /\ Publication

-----------------------------------------------------------------------------
(* What proposers and clients send has its type *)

\* A function on 1..n is a sequence of length n.
LEMMA FunctionIsSequence ==
  ASSUME NEW T, NEW n \in Nat, NEW s \in [1..n -> T]
  PROVE  s \in Seq(T) /\ Len(s) = n
OBVIOUS

\* A reversed list has the elements of the list.
LEMMA ReverseTyped ==
  ASSUME NEW T, NEW s \in Seq(T)
  PROVE  Reverse(s) \in Seq(T)
<1>1. PICK n \in Nat : n = Len(s)
  OBVIOUS
<1>2. Reverse(s) = [i \in 1..n |-> s[(n - i) + 1]]
  BY <1>1 DEF Reverse
<1>3. ASSUME NEW i \in 1..n PROVE s[(n - i) + 1] \in T
  <2>1. (n - i) + 1 \in 1..Len(s)
    BY <1>1
  <2> QED
    BY <2>1
<1>4. Reverse(s) \in [1..n -> T]
  BY <1>2, <1>3
<1> QED
  BY <1>4, FunctionIsSequence

\* The data source of an honest client is a data source.
LEMMA HonestSourceTyped ==
  ASSUME NEW source \in Source, NEW w \in BOOLEAN
  PROVE  HonestSource(source, w) \in Data
<1>1. source.blobHashes \in ByteList /\ Absent \in ByteList
  <2>1. source.blobHashes \in Seq(Content)
    BY DEF Source
  <2>2. source.blobHashes \in Seq(Content \cup {Short, Malformed})
    BY <2>1
  <2> QED
    BY <2>2 DEF ByteList
<1> QED
  BY <1>1 DEF HonestSource, Data

\* Honest data has one data source for each source.
LEMMA HonestTyped ==
  ASSUME NEW sources \in Seq(Source), NEW data \in HonestData(sources)
  PROVE  data \in Seq(Data) /\ Len(data) = Len(sources)
<1>1. PICK n \in Nat : n = Len(sources)
  OBVIOUS
<1>2. PICK w \in BOOLEAN : data = [i \in 1..n |-> HonestSource(sources[i], w)]
  BY <1>1 DEF HonestData
<1>3. \A i \in 1..n : sources[i] \in Source
  BY <1>1
<1>4. data \in [1..n -> Data]
  BY <1>2, <1>3, HonestSourceTyped
<1> QED
  BY <1>1, <1>4, FunctionIsSequence

\* So is whatever else a client may send for one source,
LEMMA AnySourceTyped ==
  ASSUME NEW source \in Source
  PROVE  AnySource(source) \subseteq Data
<1> DEFINE Item == Content \cup {Short, Malformed}
           hashes == source.blobHashes
<1>1. hashes \in Seq(Item) /\ hashes \in Seq(Content)
  BY DEF Source
<1>2. ByteLists(source) \subseteq ByteList
  <2>1. Range(hashes) \cup {Short, Malformed} \subseteq Item
    BY <1>1 DEF Range
  <2>2. ASSUME NEW x \in BoundedSeq(Range(hashes) \cup {Short, Malformed}, 2) PROVE x \in Seq(Item)
    <3> HIDE DEF Item, hashes
    <3>1. PICK m \in 0..2 : x \in [1..m -> Range(hashes) \cup {Short, Malformed}]
      BY <2>2 DEF BoundedSeq, SeqOf
    <3>2. m \in Nat /\ x \in [1..m -> Item]
      BY <2>1, <3>1
    <3> QED
      BY <3>2, FunctionIsSequence
  <2> QED
    BY <2>2 DEF ByteLists, ByteList
<1>3. Commitments(source) \subseteq ByteList
  <2>1. Reverse(hashes) \in Seq(Item)
    BY <1>1, ReverseTyped
  <2>2. <<>> \in Seq(Item) /\ <<Malformed>> \in Seq(Item) /\ <<Short>> \in Seq(Item)
    OBVIOUS
  <2> HIDE DEF Item
  <2> QED
    BY <1>1, <2>1, <2>2 DEF Commitments, ByteList, Item
<1>4. [HonestSource(source, TRUE) EXCEPT !.unused = Malformed] \in Data
  <2>1. hashes \in ByteList
    BY <1>1 DEF ByteList
  <2> HIDE DEF hashes
  <2>2. HonestSource(source, TRUE) = [blobs |-> hashes, unused |-> Absent, commitments |-> hashes]
    BY DEF HonestSource, hashes
  <2>3. [HonestSource(source, TRUE) EXCEPT !.unused = Malformed]
          = [blobs |-> hashes, unused |-> Malformed, commitments |-> hashes]
    <3>1. PICK r : r = [blobs |-> hashes, unused |-> Absent, commitments |-> hashes]
      OBVIOUS
    <3>2. [r EXCEPT !.unused = Malformed]
            = [blobs |-> hashes, unused |-> Malformed, commitments |-> hashes]
      BY <3>1
    <3> QED
      BY <2>2, <3>1, <3>2
  <2> QED
    BY <2>1, <2>3 DEF Data
<1> QED
  BY <1>2, <1>3, <1>4 DEF AnySource, Data

\* and for the sources of a proposal.
LEMMA AnyTyped ==
  ASSUME NEW sources \in Seq(Source), sources # <<>>, NEW data \in AnyData(sources)
  PROVE  data \in Seq(Data)
<1> DEFINE honest == [i \in 1..Len(sources) |-> HonestSource(sources[i], FALSE)]
<1>1. PICK n \in Nat : n = Len(sources) /\ n # 0
  OBVIOUS
<1>2. honest \in Seq(Data) /\ Len(honest) = n
  <2>1. honest \in HonestData(sources)
    BY DEF HonestData
  <2> HIDE DEF honest
  <2> QED
    BY <1>1, <2>1, HonestTyped
<1>3. CASE \E i \in 1..n : \E d \in AnySource(sources[i]) : data = [honest EXCEPT ![i] = d]
  <2>1. PICK i \in 1..n : \E d \in AnySource(sources[i]) : data = [honest EXCEPT ![i] = d]
    BY <1>3
  <2>2. PICK d \in AnySource(sources[i]) : data = [honest EXCEPT ![i] = d]
    BY <2>1
  <2>3. sources[i] \in Source
    BY <1>1
  <2>4. d \in Data
    BY <2>3, AnySourceTyped
  <2> HIDE DEF honest
  <2> QED
    BY <1>2, <2>2, <2>4
<1>4. CASE data = SubSeq(honest, 1, Len(honest) - 1)
  <2> HIDE DEF honest
  <2>1. \A i \in 1..(n - 1) : honest[i] \in Data
    BY <1>1, <1>2
  <2>2. n - 1 \in Int /\ data = SubSeq(honest, 1, n - 1)
    BY <1>1, <1>2, <1>4
  <2> QED
    BY <2>1, <2>2, SubSeqProperties
<1>5. data \in UNION {{[honest EXCEPT ![i] = d] : d \in AnySource(sources[i])} : i \in 1..n}
        \/ data = SubSeq(honest, 1, Len(honest) - 1)
  BY <1>1 DEF AnyData
<1> HIDE DEF honest
<1> QED
  BY <1>3, <1>4, <1>5

\* A claim that is nearly the proposal is a proposal.
LEMMA NearTyped ==
  ASSUME l1 \in Seq(Source), l1 # <<>>, NEW claim \in NearClaims
  PROVE  claim \in Seq(Source)
<1>1. PICK n \in Nat : n = Len(l1) /\ n # 0
  OBVIOUS
<1>2. CASE claim = SubSeq(l1, 1, Len(l1) - 1)
  <2>1. \A i \in 1..(n - 1) : l1[i] \in Source
    BY <1>1
  <2>2. n - 1 \in Int /\ claim = SubSeq(l1, 1, n - 1)
    BY <1>1, <1>2
  <2> QED
    BY <2>1, <2>2, SubSeqProperties
<1>3. ASSUME NEW i \in 1..n, claim = [l1 EXCEPT ![i].offset = 0] PROVE claim \in Seq(Source)
  <2>1. l1[i] \in Source
    BY <1>1
  <2>2. [l1[i] EXCEPT !.offset = 0] \in Source
    BY <2>1 DEF Source
  <2> QED
    BY <1>1, <1>3, <2>2
<1>4. ASSUME NEW i \in 1..n, claim = [l1 EXCEPT ![i].blobHashes = Reverse(@)]
      PROVE  claim \in Seq(Source)
  <2>1. l1[i] \in Source
    BY <1>1
  <2>2. Reverse(l1[i].blobHashes) \in Seq(Content)
    BY <2>1, ReverseTyped DEF Source
  <2>3. [l1[i] EXCEPT !.blobHashes = Reverse(l1[i].blobHashes)] \in Source
    BY <2>1, <2>2 DEF Source
  <2> QED
    BY <1>1, <1>4, <2>3
<1> QED
  BY <1>1, <1>2, <1>3, <1>4 DEF NearClaims

\* A payload is its version, the size of the stream and the stream.
LEMMA PayloadTyped ==
  ASSUME NEW m \in Manifests
  PROVE  /\ Stream[m] \in Seq(Nat) /\ Len(Stream[m]) \in Nat
         /\ Payload(m) \in Seq(Nat) /\ Len(Payload(m)) = Len(Stream[m]) + 2
         /\ Payload(m)[1] = 1 /\ Payload(m)[2] = Len(Stream[m])
         /\ \A x \in 1..Len(Stream[m]) : Payload(m)[x + 2] = Stream[m][x]
<1>1. Stream[m] \in Seq(Nat) /\ Len(Stream[m]) \in Nat
  BY StreamAssumption
<1>2. PICK k \in Nat, s \in Seq(Nat) : k = Len(Stream[m]) /\ s = Stream[m] /\ Len(s) = k
  BY <1>1
<1>3. Payload(m) = <<1, k>> \o s
  BY <1>2 DEF Payload, PayloadVersion
<1>4. <<1, k>> \in Seq(Nat) /\ Len(<<1, k>>) = 2
  OBVIOUS
<1>5. /\ Payload(m) \in Seq(Nat) /\ Len(Payload(m)) = k + 2
      /\ Payload(m)[1] = 1 /\ Payload(m)[2] = k
      /\ \A x \in 1..k : Payload(m)[x + 2] = s[x]
  BY <1>2, <1>3, <1>4
<1> QED
  BY <1>1, <1>2, <1>5

\* The manifests are found where the sources say, all of them within the bytes.
LEMMA BytesLocate ==
  ASSUME NEW n \in Nat, NEW ms \in [1..n -> Manifests], NEW i \in 1..n
  PROVE  Bytes(ms) \in Seq(Nat) /\ LiesAt(Payload(ms[i]), Bytes(ms), StartOf(ms, i))
<1> DEFINE s == [j \in 1..n |-> Payload(ms[j])]
           t == [j \in 1..(i - 1) |-> Payload(ms[j])]
<1>1. Len(ms) = n
  OBVIOUS
<1>2. \A j \in 1..n : ms[j] \in Manifests
  OBVIOUS
<1>3. \A j \in 1..n : s[j] \in Seq(Nat) /\ s[j] = Payload(ms[j])
  BY <1>2, PayloadTyped
<1>4. Bytes(ms) = FlattenSeq(s) /\ StartOf(ms, i) = Len(FlattenSeq(t))
  BY <1>1 DEF Bytes, StartOf
<1>5. Len(s) = n
  OBVIOUS
<1>6. Len(t) = i - 1 /\ \A j \in 1..(i - 1) : t[j] = s[j]
  OBVIOUS
<1>7. i = 1 => t = <<>>
  OBVIOUS
<1>8. n # 0
  OBVIOUS
<1> HIDE DEF s, t
<1>9. FlattenSeq(s) \in Seq(Nat)
  BY <1>3, <1>5, <1>8, FlattenTyped DEF Lists
<1>10. LiesAt(s[i], FlattenSeq(s), Len(FlattenSeq(t)))
  <2>1. Lists(s, n, Nat) /\ Alike(t, s, i - 1) /\ Len(t) = i - 1
    BY <1>3, <1>6 DEF Lists, Alike
  <2> QED
    BY <1>5, <1>7, <2>1, FlattenLocates
<1>11. s[i] = Payload(ms[i])
  BY <1>3
<1> QED
  BY <1>4, <1>9, <1>10, <1>11

\* However the bytes are cut, the blobs that a proposer publishes hold them.
Blobs(ms, cut) ==
  IF cut = 0 THEN <<Bytes(ms)>>
  ELSE <<SubSeq(Bytes(ms), 1, cut), SubSeq(Bytes(ms), cut + 1, Len(Bytes(ms)))>>

\* Joined again, they are the bytes, and none of them is garbage.
LEMMA BlobsHoldBytes ==
  ASSUME NEW n \in Nat, NEW ms \in [1..n -> Manifests], n # 0,
         NEW cut \in 0..Len(Bytes(ms)), cut < Len(Bytes(ms))
  PROVE  /\ Blobs(ms, cut) \in Seq(Seq(Nat)) /\ Blobs(ms, cut) # <<>>
         /\ FlattenSeq(Blobs(ms, cut)) = Bytes(ms)
<1>1. 1 \in 1..n
  OBVIOUS
<1>2. Bytes(ms) \in Seq(Nat)
  BY <1>1, BytesLocate
<1>3. PICK b \in Seq(Nat), k \in Nat : b = Bytes(ms) /\ k = Len(b)
  BY <1>2
<1>4. CASE cut = 0
  BY <1>3, <1>4, FlattenOne DEF Blobs
<1>5. CASE cut # 0
  <2>1. PICK p, q : p = SubSeq(b, 1, cut) /\ q = SubSeq(b, cut + 1, k)
    OBVIOUS
  <2>2. \A x \in 1..k : b[x] \in Nat
    BY <1>3
  <2>3. p \in Seq(Nat) /\ Len(p) = cut /\ \A x \in 1..cut : p[x] = b[x]
    BY <1>3, <1>5, <2>1, <2>2
  <2>4. q \in Seq(Nat) /\ Len(q) = k - cut /\ \A x \in 1..(k - cut) : q[x] = b[cut + x]
    BY <1>3, <1>5, <2>1, <2>2
  <2>5. p \o q = b
    <3>1. PICK r \in Nat : r = k - cut /\ cut \in Nat /\ k = cut + r
      <4>1. cut \in Nat /\ cut < k
        <5>1. k = Len(Bytes(ms))
          BY <1>3
        <5> HIDE <1>3
        <5> QED
          BY <5>1
      <4> QED
        BY <4>1
    <3>2. Len(q) = r /\ \A x \in 1..r : q[x] = b[cut + x]
      BY <2>4, <3>1
    <3>3. PICK c : c = p \o q
      OBVIOUS
    <3> p \in Seq(Nat) /\ q \in Seq(Nat) /\ Len(p) = cut /\ Len(q) = r
      BY <2>3, <2>4, <3>2
    <3>4. c \in Seq(Nat) /\ Len(c) = cut + r
      <4>1. c \in Seq(Nat) /\ Len(c) = Len(p) + Len(q)
        BY <3>3, ConcatProperties, Zenon
      <4> QED
        BY <4>1
    <3>5. \A x \in 1..cut : c[x] = p[x]
      BY <3>1, <3>3
    <3>6. \A x \in 1..r : c[cut + x] = q[x]
      BY <3>1, <3>3
    <3>7. ASSUME NEW x \in 1..k PROVE c[x] = b[x]
      <4>1. CASE x <= cut
        BY <2>3, <3>1, <3>5, <4>1
      <4>2. CASE x > cut
        <5>1. PICK y \in 1..r : x = cut + y
          BY <3>1, <4>2
        <5> QED
          BY <3>2, <3>6, <5>1
      <4> QED
        BY <3>1, <4>1, <4>2
    <3> QED
      BY <1>3, <3>1, <3>3, <3>4, <3>7, SeqEqual
  <2>6. Blobs(ms, cut) = <<p, q>>
    BY <1>3, <1>5, <2>1 DEF Blobs
  <2>7. <<p, q>> \in Seq(Seq(Nat)) /\ <<p, q>> # <<>>
    BY <2>3, <2>4
  <2> QED
    BY <1>3, <2>5, <2>6, <2>7, FlattenTwo
<1> QED
  BY <1>4, <1>5

\* The published sources are sources of a proposal.
LEMMA PublishedShape ==
  ASSUME NEW n \in Nat, NEW ms \in [1..n -> Manifests], n # 0,
         NEW cut \in 0..Len(Bytes(ms)), cut < Len(Bytes(ms))
  PROVE  /\ PublishedSources(ms, cut)
              = [i \in 1..n |-> [blobHashes |-> Blobs(ms, cut), offset |-> StartOf(ms, i)]]
         /\ PublishedSources(ms, cut) \in Seq(Source) /\ Len(PublishedSources(ms, cut)) = n
<1>1. Len(ms) = n
  OBVIOUS
<1>2. PublishedSources(ms, cut)
        = [i \in 1..n |-> [blobHashes |-> Blobs(ms, cut), offset |-> StartOf(ms, i)]]
  BY <1>1 DEF PublishedSources, Blobs, Bytes
<1>3. Blobs(ms, cut) \in Seq(Content)
  BY BlobsHoldBytes DEF Content
<1>4. \A i \in 1..n : StartOf(ms, i) \in Nat
  BY BytesLocate DEF LiesAt
<1>5. PublishedSources(ms, cut) \in [1..n -> Source]
  BY <1>2, <1>3, <1>4 DEF Source
<1> QED
  BY <1>2, <1>5, FunctionIsSequence

-----------------------------------------------------------------------------
(* What is decoded from published bytes *)

\* A stream begins with itself, and with no other.
LEMMA OneStream ==
  ASSUME NEW m \in Manifests
  PROVE  Inflated(Stream[m]) = {m} \cap Usable
<1>1. IsPrefix(Stream[m], Stream[m])
  BY PayloadTyped DEF IsPrefix
<1>2. \A k \in Usable : IsPrefix(Stream[k], Stream[m]) <=> k = m
  BY <1>1, StreamAssumption, ManifestAssumption
<1> QED
  BY <1>2 DEF Inflated

\* A value that fits the word is kept.
LEMMA SmallRemainder ==
  ASSUME NEW a \in Nat, NEW b \in Nat, a < b
  PROVE  a % b = a
BY SMTT(30)

\* decodeManifestPayload finds the manifest whose payload lies at the offset, and no
\* other, whatever lies before and after it.
LEMMA PayloadDecodes ==
  ASSUME NEW m \in Manifests, NEW whole \in Seq(Nat), NEW off, LiesAt(Payload(m), whole, off)
  PROVE  decodeManifestPayload(whole, off)
           = {k \in {m} \cap Usable : BlockCount[k] <= MaxBlocks}
<1>1. PICK s \in Seq(Nat), z \in Nat, w \in Nat : s = Stream[m] /\ z = Len(s) /\ w = Len(whole)
  <2>1. Stream[m] \in Seq(Nat) /\ Len(Stream[m]) \in Nat
    BY PayloadTyped
  <2>2. Len(whole) \in Nat
    OBVIOUS
  <2> QED
    BY <2>1, <2>2, Zenon
<1>2. /\ Len(Payload(m)) = z + 2 /\ Payload(m)[1] = 1 /\ Payload(m)[2] = z
      /\ \A x \in 1..z : Payload(m)[x + 2] = s[x]
  BY <1>1, PayloadTyped
<1>3. off \in Nat /\ off + (z + 2) <= w
  BY <1>1, <1>2 DEF LiesAt
<1>4. \A x \in 1..(z + 2) : whole[off + x] = Payload(m)[x]
  BY <1>1, <1>2 DEF LiesAt
<1>5. whole[off + 1] = 1 /\ whole[off + 2] = z
  <2>1. 1 \in 1..(z + 2) /\ 2 \in 1..(z + 2)
    OBVIOUS
  <2> QED
    BY <1>2, <1>4, <2>1, Zenon
<1>6. SizeAt(whole, off) = z
  <2>1. z < Word64 /\ Word64 \in Nat
    BY <1>1, StreamAssumption, WordAssumption
  <2>2. z % Word64 = z
    BY <2>1, SmallRemainder
  <2> QED
    BY <1>5, <2>2 DEF SizeAt
<1>7. ~(whole[off + 1] >= Word64) /\ whole[off + 1] % Word32 = PayloadVersion
  <2>1. Word32 \in Nat /\ Word64 \in Nat /\ 1 < Word32 /\ 1 < Word64
    BY WordAssumption DEF PayloadVersion
  <2>2. ~(1 >= Word64) /\ 1 % Word32 = 1
    BY <2>1, SmallRemainder
  <2> QED
    BY <1>5, <2>2 DEF PayloadVersion
<1>8. SizeFits(whole, off) /\ ~(off + HeaderSize > Len(whole))
  BY <1>1, <1>3, <1>6 DEF SizeFits, HeaderSize
<1>9. SubSeq(whole, off + HeaderSize + 1, off + HeaderSize + SizeAt(whole, off)) = Stream[m]
  <2>1. PICK a \in Nat, e \in Nat : a = off + 3 /\ e = off + 2 + z
    BY <1>3
  <2>2. PICK c : c = SubSeq(whole, a, e)
    OBVIOUS
  <2>3. \A x \in a..e : whole[x] \in Nat
    <3>1. \A x \in a..e : x \in 1..w
      BY <1>3, <2>1
    <3> QED
      BY <1>1, <3>1
  <2>4. /\ c \in Seq(Nat) /\ Len(c) = IF a <= e THEN e - a + 1 ELSE 0
        /\ \A x \in 1..(e - a + 1) : c[x] = whole[a + x - 1]
    BY <2>2, <2>3, SubSeqProperties
  <2>5. Len(c) = z /\ e - a + 1 = z
    <3>1. e - a + 1 = z /\ (a <= e <=> z # 0)
      BY <1>3, <2>1
    <3> QED
      BY <2>4, <3>1
  <2>6. ASSUME NEW x \in 1..z PROVE c[x] = s[x]
    <3>1. c[x] = whole[a + x - 1]
      BY <2>4, <2>5
    <3>2. a + x - 1 = off + (x + 2) /\ x + 2 \in 1..(z + 2)
      BY <1>3, <2>1
    <3>3. whole[off + (x + 2)] = Payload(m)[x + 2]
      BY <1>4, <3>2
    <3> QED
      BY <1>2, <3>1, <3>2, <3>3
  <2>7. c = s
    BY <1>1, <2>4, <2>5, <2>6, SeqEqual
  <2>8. off + HeaderSize + 1 = a /\ off + HeaderSize + SizeAt(whole, off) = e
    BY <1>3, <1>6, <2>1 DEF HeaderSize
  <2> QED
    BY <1>1, <2>2, <2>7, <2>8
<1>10. decodeManifestPayload(whole, off)
         = {k \in Inflated(Stream[m]) : BlockCount[k] <= MaxBlocks}
  BY <1>7, <1>8, <1>9 DEF decodeManifestPayload
<1> QED
  BY <1>10, OneStream

\* What a proposer publishes is read from each of its sources.
LEMMA PublishedReads ==
  ASSUME NEW n \in Nat, NEW ms \in [1..n -> Manifests], n # 0,
         NEW cut \in 0..Len(Bytes(ms)), cut < Len(Bytes(ms)), NEW i \in 1..n
  PROVE  Committed(PublishedSources(ms, cut)[i]) = Reading(ms, i)
<1> DEFINE blobs == Blobs(ms, cut)
           off == StartOf(ms, i)
<1>1. PublishedSources(ms, cut)[i] = [blobHashes |-> blobs, offset |-> off]
  BY PublishedShape
<1>2. blobs \in Seq(Seq(Nat)) /\ blobs # <<>> /\ FlattenSeq(blobs) = Bytes(ms)
  BY BlobsHoldBytes
<1>3. Bytes(ms) \in Seq(Nat) /\ LiesAt(Payload(ms[i]), Bytes(ms), off) /\ ms[i] \in Manifests
  BY BytesLocate
<1>4. off \in Nat
  BY <1>3 DEF LiesAt
<1> HIDE DEF blobs, off
<1>5. Garbage \notin Range(blobs)
  BY <1>2, MarkerAssumption DEF Range
<1>6. decodeManifestPayload(FlattenSeq(blobs), off)
        = {k \in {ms[i]} \cap Usable : BlockCount[k] <= MaxBlocks}
  BY <1>2, <1>3, PayloadDecodes
<1>7. ManifestOf(blobs, off)
        = IF ms[i] \in Usable /\ BlockCount[ms[i]] <= MaxBlocks THEN ms[i] ELSE Default
  BY <1>5, <1>6 DEF ManifestOf
<1>8. Committed([blobHashes |-> blobs, offset |-> off])
        = IF off > shastaMaxManifestOffset THEN Default ELSE ManifestOf(blobs, off)
  BY <1>2 DEF Committed, IsBlobless
<1>9. Reading(ms, i) = IF /\ ms[i] \in Usable /\ BlockCount[ms[i]] <= MaxBlocks
                          /\ off <= shastaMaxManifestOffset
                         THEN ms[i] ELSE Default
  BY DEF Reading, off
<1>10. off > shastaMaxManifestOffset <=> ~(off <= shastaMaxManifestOffset)
  BY <1>4, WordAssumption
<1> QED
  BY <1>1, <1>7, <1>8, <1>9, <1>10

-----------------------------------------------------------------------------
(* What is checked of a data source *)

\* A source that passes has the blobs that its hashes commit to: all of them, in
\* their order, although commitments and calldata may be missing.
LEMMA CheckMatches ==
  ASSUME NEW source \in Source, NEW data \in Data, decodeBlobSourceData(data),
         BlobsMatch(source, data)
  PROVE  TxDataFromBlob(data) = source.blobHashes
<1>1. data.blobs \in ByteList /\ data.blobs # Malformed
  BY DEF decodeBlobSourceData, IsByteSlices, Data
<1>2. source.blobHashes \in Seq(Content)
  BY DEF Source
<1>3. PICK b, h : b = TxDataFromBlob(data) /\ h = source.blobHashes
  OBVIOUS
<1>4. b \in Seq(Content \cup {Short, Malformed})
  BY <1>1, <1>3 DEF TxDataFromBlob, ByteList
<1>5. h \in Seq(Content \cup {Short, Malformed})
  BY <1>2, <1>3
<1>6. Len(b) = Len(h) /\ \A i \in 1..Len(b) : b[i] = h[i]
  BY <1>3 DEF BlobsMatch
<1>7. b = h
  BY <1>4, <1>5, <1>6, SeqEqual
<1> QED
  BY <1>3, <1>7

\* The blobs of the source itself pass.
LEMMA HonestChecks ==
  ASSUME NEW source \in Source, NEW w \in BOOLEAN, NEW data, data = HonestSource(source, w)
  PROVE  /\ decodeBlobSourceData(data) /\ BlobsMatch(source, data)
         /\ TxDataFromBlob(data) = source.blobHashes
         /\ Short \notin Range(source.blobHashes)
<1>1. PICK h : h = source.blobHashes
  OBVIOUS
<1>2. h \in Seq(Content) /\ \A i \in 1..Len(h) : h[i] \in Content
  BY <1>1 DEF Source
<1>3. h # Absent /\ h # Malformed /\ Absent # Malformed
  BY <1>2, MarkerAssumption
<1>4. Malformed \notin Range(h) /\ Short \notin Range(h)
  BY <1>2, MarkerAssumption DEF Range
<1>5. data = [blobs |-> h, unused |-> Absent, commitments |-> IF w THEN h ELSE Absent]
  BY <1>1 DEF HonestSource
<1>6. data.blobs = h /\ data.unused = Absent /\ data.commitments = (IF w THEN h ELSE Absent)
  BY <1>5
<1>7. data \in [blobs : Seq(Content), unused : {Absent}, commitments : {Absent} \cup Seq(Content)]
  BY <1>2, <1>5
<1>8. data # Malformed
  BY <1>7, MarkerAssumption
<1>9. decodeBlobSourceData(data)
  BY <1>3, <1>4, <1>6, <1>8 DEF decodeBlobSourceData, IsByteSlices
<1>10. TxDataFromBlob(data) = h
  BY <1>3, <1>6 DEF TxDataFromBlob
<1>11. \A i \in 1..Len(h) : h[i] # Short
  BY <1>2, MarkerAssumption
<1>12. BlobsMatch(source, data)
  BY <1>1, <1>6, <1>10, <1>11 DEF BlobsMatch
<1> QED
  BY <1>1, <1>4, <1>9, <1>10, <1>12

-----------------------------------------------------------------------------
(* The invariant holds *)

LEMMA InitInv == Init => Inv
<1> SUFFICES ASSUME Init PROVE Inv
  OBVIOUS
<1>1. /\ l1 = <<>> /\ published = Absent /\ phase = "idle" /\ index = 1 /\ derived = <<>>
      /\ request = [claim |-> <<>>, hash |-> <<>>, data |-> <<>>]
  BY DEF Init, NoRequest
<1>2. Types
  BY <1>1 DEF Types
<1>3. RequestMade /\ Fresh /\ CarryChecked /\ BlobsChecked /\ DerivedSoFar
  BY <1>1 DEF RequestMade, Fresh, CarryChecked, BlobsChecked, DerivedSoFar
<1>4. ReadAsCommitted /\ HonestDataAccepted /\ Publication
  BY <1>1 DEF ReadAsCommitted, HonestDataAccepted, Publication
<1> QED
  BY <1>2, <1>3, <1>4 DEF Inv

LEMMA StutterInv == Inv /\ UNCHANGED vars => Inv'
BY DEF Inv, Types, RequestMade, Fresh, CarryChecked, BlobsChecked, Matched, DerivedSoFar,
       ReadAsCommitted, HonestDataAccepted, Publication, vars, requestVars

\* What only speaks of a request that has got somewhere holds of an idle prover.
LEMMA ProposeInv == Inv /\ ProposeAny => Inv'
<1> SUFFICES ASSUME Inv, ProposeAny PROVE Inv'
  OBVIOUS
<1>1. phase = "idle" /\ phase' = "idle" /\ UNCHANGED <<request, index, derived>>
  BY DEF ProposeAny, Publish, ProposeOdd, requestVars
<1>2. l1' \in Seq(Source) /\ Publication'
  <2>1. PICK n \in 1..MaxSources :
          \/ \E ms \in [1..n -> Manifests] : \E cut \in 0..Len(Payload(ms[1])) : Publish(ms, cut)
          \/ \E sources \in [1..n -> OddSources] : ProposeOdd(sources)
    BY DEF ProposeAny
  <2>2. n \in Nat /\ n # 0
    BY WordAssumption
  <2>3. CASE \E ms \in [1..n -> Manifests] : \E cut \in 0..Len(Payload(ms[1])) : Publish(ms, cut)
    <3>1. PICK ms \in [1..n -> Manifests] : \E cut \in 0..Len(Payload(ms[1])) : Publish(ms, cut)
      BY <2>3
    <3>2. PICK cut \in 0..Len(Payload(ms[1])) : Publish(ms, cut)
      BY <3>1
    <3>3. cut < Len(Bytes(ms)) /\ l1' = PublishedSources(ms, cut) /\ published' = ms
      BY <3>2 DEF Publish, Bytes
    <3>4. cut \in 0..Len(Bytes(ms))
      <4>1. 1 \in 1..n
        BY <2>2
      <4>2. Bytes(ms) \in Seq(Nat) /\ ms[1] \in Manifests
        BY <2>2, <4>1, BytesLocate
      <4>3. PICK k \in Nat, l \in Nat : k = Len(Bytes(ms)) /\ l = Len(Payload(ms[1]))
        BY <4>2, PayloadTyped
      <4>4. cut \in 0..l /\ cut < k
        BY <3>2, <3>3, <4>3
      <4> QED
        BY <4>3, <4>4
    <3>5. l1' \in Seq(Source)
      BY <2>2, <3>3, <3>4, PublishedShape
    <3>6. Publication'
      BY <3>3, <3>4 DEF Publication, Bytes, PublishedSources, StartOf
    <3> QED
      BY <3>5, <3>6
  <2>4. CASE \E sources \in [1..n -> OddSources] : ProposeOdd(sources)
    <3>1. PICK sources \in [1..n -> OddSources] : ProposeOdd(sources)
      BY <2>4
    <3>2. l1' = sources /\ published' = Absent
      BY <3>1 DEF ProposeOdd
    <3>3. sources \in [1..n -> Source]
      BY SourceAssumption
    <3>4. l1' \in Seq(Source)
      BY <2>2, <3>2, <3>3, FunctionIsSequence
    <3> QED
      BY <3>2, <3>4 DEF Publication
  <2> QED
    BY <2>1, <2>3, <2>4
<1>3. Types'
  BY <1>1, <1>2 DEF Inv, Types
<1>4. RequestMade' /\ Fresh' /\ CarryChecked' /\ BlobsChecked' /\ DerivedSoFar'
  BY <1>1 DEF Inv, RequestMade, Fresh, CarryChecked, BlobsChecked, DerivedSoFar
<1>5. ReadAsCommitted' /\ HonestDataAccepted'
  BY <1>1 DEF ReadAsCommitted, HonestDataAccepted
<1> QED
  BY <1>2, <1>3, <1>4, <1>5 DEF Inv

LEMMA SubmitInv == Inv /\ SubmitAny => Inv'
<1> SUFFICES ASSUME Inv, SubmitAny PROVE Inv'
  OBVIOUS
<1>1. phase = "idle" /\ l1 # <<>> /\ l1 \in Seq(Source)
  BY DEF SubmitAny, Inv, Types
<1>2. \E claim, hash \in Seq(Source) : \E data \in Seq(Data) : Submit(claim, hash, data)
  <2>1. CASE \E data \in HonestData(l1) \cup AnyData(l1) : Submit(l1, l1, data)
    <3>1. PICK data \in HonestData(l1) \cup AnyData(l1) : Submit(l1, l1, data)
      BY <2>1
    <3>2. data \in Seq(Data)
      BY <1>1, HonestTyped, AnyTyped
    <3> QED
      BY <1>1, <3>1, <3>2
  <2>2. CASE \E claim \in NearClaims, hash \in {l1} \cup NearClaims :
               \E data \in HonestData(l1) \cup HonestData(claim) : Submit(claim, hash, data)
    <3>1. PICK claim \in NearClaims, hash \in {l1} \cup NearClaims :
                 \E data \in HonestData(l1) \cup HonestData(claim) : Submit(claim, hash, data)
      BY <2>2
    <3>2. PICK data \in HonestData(l1) \cup HonestData(claim) : Submit(claim, hash, data)
      BY <3>1
    <3>3. claim \in Seq(Source) /\ hash \in Seq(Source)
      BY <1>1, NearTyped
    <3>4. data \in Seq(Data)
      BY <1>1, <3>3, HonestTyped
    <3> QED
      BY <3>2, <3>3, <3>4
  <2> QED
    BY <2>1, <2>2 DEF SubmitAny
<1>3. PICK claim \in Seq(Source), hash \in Seq(Source), data \in Seq(Data) : Submit(claim, hash, data)
  BY <1>2
<1>4. /\ request' = [claim |-> claim, hash |-> hash, data |-> data] /\ phase' = "carry"
      /\ UNCHANGED <<l1, published, index, derived>>
  BY <1>3 DEF Submit
<1>5. Types'
  BY <1>4 DEF Inv, Types
<1>6. RequestMade' /\ Fresh' /\ CarryChecked' /\ BlobsChecked' /\ DerivedSoFar'
  BY <1>1, <1>4 DEF Inv, RequestMade, Fresh, CarryChecked, BlobsChecked, DerivedSoFar
<1>7. ReadAsCommitted' /\ HonestDataAccepted' /\ Publication'
  BY <1>4 DEF Inv, ReadAsCommitted, HonestDataAccepted, Publication
<1> QED
  BY <1>5, <1>6, <1>7 DEF Inv

LEMMA CheckCarryInv == Inv /\ CheckCarry => Inv'
<1> SUFFICES ASSUME Inv, CheckCarry PROVE Inv'
  OBVIOUS
<1>1. /\ phase = "carry" /\ UNCHANGED <<l1, published, request, index, derived>>
      /\ phase' = IF request.hash = request.claim /\ Len(request.data) = Len(request.claim)
                  THEN "blobs" ELSE "rejected"
  BY DEF CheckCarry, requestVars
<1>2. Types' /\ RequestMade' /\ Fresh' /\ CarryChecked' /\ Publication'
  BY <1>1 DEF Inv, Types, RequestMade, Fresh, CarryChecked, Publication
<1>3. index = 1 /\ request.claim \in Seq(Source)
  BY <1>1 DEF Inv, Fresh, Types
<1>4. BlobsChecked'
  <2>1. \A i \in 1..Len(request.claim) : ~(i < 1)
    BY <1>3
  <2> QED
    BY <1>1, <1>3, <2>1 DEF BlobsChecked
<1>5. DerivedSoFar' /\ ReadAsCommitted'
  BY <1>1 DEF DerivedSoFar, ReadAsCommitted
<1>6. HonestDataAccepted'
  <2> SUFFICES ASSUME request.claim = l1, request.hash = l1, request.data \in HonestData(l1)
               PROVE  phase' # "rejected"
    BY <1>1 DEF HonestDataAccepted
  <2>1. Len(request.data) = Len(l1)
    BY HonestTyped DEF Inv, Types
  <2> QED
    BY <1>1, <2>1
<1> QED
  BY <1>2, <1>4, <1>5, <1>6 DEF Inv

LEMMA CheckSourceInv == Inv /\ CheckSource => Inv'
<1> SUFFICES ASSUME Inv, CheckSource PROVE Inv'
  OBVIOUS
<1>1. /\ phase = "blobs" /\ index <= Len(request.claim)
      /\ UNCHANGED <<l1, published, request, derived>>
  BY DEF CheckSource
<1>2. /\ request.claim \in Seq(Source) /\ request.data \in Seq(Data) /\ index \in Nat \ {0}
      /\ Len(request.data) = Len(request.claim)
  BY <1>1 DEF Inv, Types, CarryChecked
<1>3. PICK n \in Nat : n = Len(request.claim) /\ n = Len(request.data) /\ index \in 1..n
  BY <1>1, <1>2
<1> DEFINE source == request.claim[index]
           data == request.data[index]
           passes == /\ decodeBlobSourceData(data)
                     /\ source.blobHashes = <<>> \/ BlobsMatch(source, data)
<1>4. source \in Source /\ data \in Data
  BY <1>2, <1>3
<1>5. IF passes THEN index' = index + 1 /\ UNCHANGED phase
                ELSE phase' = "rejected" /\ UNCHANGED index
  BY DEF CheckSource
<1>6. passes => Matched(index)
  BY <1>4, CheckMatches DEF Matched
<1> HIDE DEF passes, source, data
<1>7. Types' /\ RequestMade' /\ Fresh' /\ CarryChecked' /\ Publication'
  <2>1. index' \in Nat \ {0} /\ phase' \in {phase, "rejected"}
    BY <1>2, <1>5
  <2>2. Types'
    BY <1>1, <2>1 DEF Inv, Types
  <2>3. RequestMade' /\ Publication'
    BY <1>1, <2>1 DEF Inv, RequestMade, Publication
  <2>4. Fresh' /\ CarryChecked'
    BY <1>1, <2>1 DEF Inv, Fresh, CarryChecked
  <2> QED
    BY <2>2, <2>3, <2>4
<1>8. BlobsChecked'
  <2>1. CASE passes
    <3>1. \A i \in 1..n : i < index => Matched(i)
      BY <1>1, <1>3 DEF Inv, BlobsChecked
    <3>2. \A i \in 1..n : i < index + 1 => Matched(i)
      BY <1>2, <1>6, <2>1, <3>1
    <3>3. \A i \in 1..n : i < index' => Matched(i)'
      BY <1>1, <1>5, <2>1, <3>2 DEF Matched
    <3> QED
      BY <1>1, <1>3, <1>5, <2>1, <3>3 DEF BlobsChecked
  <2>2. CASE ~passes
    BY <1>5, <2>2 DEF BlobsChecked
  <2> QED
    BY <2>1, <2>2
<1>9. DerivedSoFar' /\ ReadAsCommitted'
  BY <1>1, <1>5 DEF DerivedSoFar, ReadAsCommitted
<1>10. HonestDataAccepted'
  <2> SUFFICES ASSUME request.claim = l1, request.hash = l1, request.data \in HonestData(l1)
               PROVE  phase' # "rejected"
    BY <1>1 DEF HonestDataAccepted
  <2>1. PICK w \in BOOLEAN : request.data = [i \in 1..n |-> HonestSource(request.claim[i], w)]
    BY <1>3 DEF HonestData
  <2>2. data = HonestSource(source, w)
    BY <1>3, <2>1 DEF data, source
  <2>3. passes
    BY <1>4, <2>2, HonestChecks DEF passes
  <2> QED
    BY <1>1, <1>5, <2>3
<1> QED
  BY <1>7, <1>8, <1>9, <1>10 DEF Inv

LEMMA StartDerivationInv == Inv /\ StartDerivation => Inv'
<1> SUFFICES ASSUME Inv, StartDerivation PROVE Inv'
  OBVIOUS
<1>1. /\ phase = "blobs" /\ index > Len(request.claim) /\ index' = 1
      /\ phase' = IF request.claim = <<>> THEN "rejected" ELSE "derive"
      /\ UNCHANGED <<l1, published, request, derived>>
  BY DEF StartDerivation
<1>2. PICK n \in Nat : n = Len(request.claim) /\ index \in Nat /\ index > n
  BY <1>1 DEF Inv, Types
<1>3. Types' /\ RequestMade' /\ Fresh' /\ CarryChecked' /\ Publication'
  BY <1>1 DEF Inv, Types, RequestMade, Fresh, CarryChecked, Publication
<1>4. BlobsChecked'
  <2>1. \A i \in 1..n : i < index
    BY <1>2
  <2>2. \A i \in 1..n : Matched(i)
    BY <1>1, <1>2, <2>1 DEF Inv, BlobsChecked
  <2> QED
    BY <1>1, <1>2, <2>2 DEF BlobsChecked, Matched
<1>5. DerivedSoFar'
  <2>1. derived = <<>> /\ 1 <= n + 1
    BY <1>1, <1>2 DEF Inv, Fresh
  <2>2. derived = [i \in 1..(1 - 1) |-> Committed(request.claim[i])]
    BY <2>1
  <2> QED
    BY <1>1, <1>2, <2>1, <2>2 DEF DerivedSoFar
<1>6. ReadAsCommitted'
  BY <1>1 DEF ReadAsCommitted
<1>7. HonestDataAccepted'
  BY <1>1 DEF HonestDataAccepted, Inv, RequestMade
<1> QED
  BY <1>3, <1>4, <1>5, <1>6, <1>7 DEF Inv

LEMMA PrepareSourceInv == Inv /\ PrepareSource => Inv'
<1> SUFFICES ASSUME Inv, PrepareSource PROVE Inv'
  OBVIOUS
<1>1. /\ phase = "derive" /\ index <= Len(request.claim)
      /\ UNCHANGED <<l1, published, request>>
  BY DEF PrepareSource
<1>2. PICK n \in Nat : /\ n = Len(request.claim) /\ n = Len(request.data)
                       /\ index \in Nat \ {0} /\ index \in 1..n
  BY <1>1 DEF Inv, Types, CarryChecked
<1> DEFINE source == request.claim[index]
           blobs == TxDataFromBlob(request.data[index])
           fails == ~IsBlobless(source) /\ BlobError(blobs)
           manifest == IF IsBlobless(source) THEN Default ELSE ManifestOf(blobs, source.offset)
<1>3. IF fails THEN phase' = "rejected" /\ UNCHANGED <<index, derived>>
      ELSE derived' = Append(derived, manifest) /\ index' = index + 1 /\ UNCHANGED phase
  BY DEF PrepareSource
<1>4. source \in Source
  <2>1. PICK c \in Seq(Source) : c = request.claim
    BY DEF Inv, Types
  <2>2. index \in 1..Len(c)
    BY <1>2, <2>1
  <2>3. c[index] \in Source
    BY <2>2
  <2> QED
    BY <2>1, <2>3
<1>5. source.blobHashes = <<>> \/ blobs = source.blobHashes
  BY <1>1, <1>2 DEF Inv, BlobsChecked, Matched
<1>6. manifest = Committed(source)
  BY <1>5 DEF Committed, IsBlobless
<1>7. HonestDataAccepted'
  <2> SUFFICES ASSUME request.claim = l1, request.hash = l1, request.data \in HonestData(l1)
               PROVE  phase' # "rejected"
    BY <1>1 DEF HonestDataAccepted
  <2>1. PICK w \in BOOLEAN : request.data = [i \in 1..n |-> HonestSource(request.claim[i], w)]
    BY <1>2 DEF HonestData
  <2>2. request.data[index] = HonestSource(source, w)
    BY <1>2, <2>1
  <2>3. blobs = source.blobHashes /\ Short \notin Range(source.blobHashes)
    BY <1>4, <2>2, HonestChecks
  <2>4. ~fails
    BY <2>3 DEF IsBlobless, BlobError
  <2> HIDE DEF fails
  <2> QED
    BY <1>1, <1>3, <2>4
<1> HIDE DEF source, blobs, fails, manifest
<1>8. Types' /\ RequestMade' /\ Fresh' /\ CarryChecked' /\ Publication'
  BY <1>1, <1>2, <1>3 DEF Inv, Types, RequestMade, Fresh, CarryChecked, Publication
<1>9. BlobsChecked'
  BY <1>1, <1>3 DEF Inv, BlobsChecked, Matched
<1>10. DerivedSoFar'
  <2>1. CASE fails
    BY <1>3, <2>1 DEF DerivedSoFar
  <2>2. CASE ~fails
    <3>1. derived = [i \in 1..(index - 1) |-> Committed(request.claim[i])]
      BY <1>1 DEF Inv, DerivedSoFar
    <3>2. PICK k \in Nat : k = index - 1 /\ index = k + 1
      BY <1>2
    <3>3. derived' = Append([i \in 1..k |-> Committed(request.claim[i])], Committed(request.claim[k + 1]))
      BY <1>3, <1>6, <2>2, <3>1, <3>2 DEF source
    <3>4. derived' = [i \in 1..(k + 1) |-> Committed(request.claim[i])]
      BY <3>2, <3>3
    <3>5. index' - 1 = k + 1 /\ index' <= n + 1
      BY <1>2, <1>3, <2>2, <3>2
    <3> QED
      BY <1>1, <1>2, <3>4, <3>5 DEF DerivedSoFar
  <2> QED
    BY <2>1, <2>2
<1>11. ReadAsCommitted'
  BY <1>1, <1>3 DEF ReadAsCommitted
<1> QED
  BY <1>7, <1>8, <1>9, <1>10, <1>11 DEF Inv

LEMMA AcceptInv == Inv /\ Accept => Inv'
<1> SUFFICES ASSUME Inv, Accept PROVE Inv'
  OBVIOUS
<1>1. /\ phase = "derive" /\ index > Len(request.claim) /\ phase' = "accepted"
      /\ UNCHANGED <<l1, published, request, index, derived>>
  BY DEF Accept, requestVars
<1>2. PICK n \in Nat : n = Len(request.claim) /\ index \in Nat
  BY DEF Inv, Types
<1>3. Types' /\ RequestMade' /\ Fresh' /\ CarryChecked' /\ Publication'
  BY <1>1 DEF Inv, Types, RequestMade, Fresh, CarryChecked, Publication
<1>4. BlobsChecked' /\ DerivedSoFar' /\ HonestDataAccepted'
  BY <1>1 DEF Inv, BlobsChecked, Matched, DerivedSoFar, HonestDataAccepted
<1>5. ReadAsCommitted'
  <2>1. index - 1 = n /\ request.hash = request.claim
    BY <1>1, <1>2 DEF Inv, DerivedSoFar, CarryChecked
  <2>2. derived = [i \in 1..n |-> Committed(request.hash[i])]
    BY <1>1, <2>1 DEF Inv, DerivedSoFar
  <2> QED
    BY <1>1, <1>2, <2>1, <2>2 DEF ReadAsCommitted, Committed
<1> QED
  BY <1>3, <1>4, <1>5 DEF Inv

LEMMA CancelInv == Inv /\ Cancel => Inv'
<1> SUFFICES ASSUME Inv, Cancel PROVE Inv'
  OBVIOUS
<1>1. /\ phase = "derive" /\ phase' = "cancelled"
      /\ UNCHANGED <<l1, published, request, index, derived>>
  BY DEF Cancel, requestVars
<1>2. Types' /\ RequestMade' /\ Fresh' /\ CarryChecked' /\ Publication'
  BY <1>1 DEF Inv, Types, RequestMade, Fresh, CarryChecked, Publication
<1>3. BlobsChecked' /\ DerivedSoFar' /\ ReadAsCommitted' /\ HonestDataAccepted'
  BY <1>1 DEF BlobsChecked, DerivedSoFar, ReadAsCommitted, HonestDataAccepted
<1> QED
  BY <1>2, <1>3 DEF Inv

LEMMA EndRequestInv == Inv /\ EndRequest => Inv'
<1> SUFFICES ASSUME Inv, EndRequest PROVE Inv'
  OBVIOUS
<1>1. /\ phase' = "idle" /\ index' = 1 /\ derived' = <<>> /\ UNCHANGED <<l1, published>>
      /\ request' = [claim |-> <<>>, hash |-> <<>>, data |-> <<>>]
  BY DEF EndRequest, NoRequest
<1>2. Types'
  BY <1>1 DEF Inv, Types
<1>3. RequestMade' /\ Fresh' /\ CarryChecked' /\ BlobsChecked' /\ DerivedSoFar'
  BY <1>1 DEF RequestMade, Fresh, CarryChecked, BlobsChecked, DerivedSoFar
<1>4. ReadAsCommitted' /\ HonestDataAccepted' /\ Publication'
  BY <1>1 DEF Inv, ReadAsCommitted, HonestDataAccepted, Publication
<1> QED
  BY <1>2, <1>3, <1>4 DEF Inv

LEMMA NextInv == Inv /\ [Next]_vars => Inv'
BY StutterInv, ProposeInv, SubmitInv, CheckCarryInv, CheckSourceInv, StartDerivationInv,
   PrepareSourceInv, CancelInv, AcceptInv, EndRequestInv DEF Next

LEMMA Invariance == Spec => []Inv
<1>1. Init => Inv
  BY InitInv
<1>2. Inv /\ [Next]_vars => Inv'
  BY NextInv
<1> QED
  BY <1>1, <1>2, PTL DEF Spec

-----------------------------------------------------------------------------
(* Theorems *)

\* Whatever data sources a client sends with whatever proposal: the manifests that an
\* accepted request derives are the ones that the signed proposal hash commits to
\* (ValidateGuestInputBlobSources and ValidateGuestInputManifestBinding).
THEOREM DerivedAsCommitted == Spec => []ReadAsCommitted
BY Invariance, PTL DEF Inv

\* The blobs of the proposal on L1, with or without their commitments, are refused by
\* neither of the two validations, whatever they hold.
THEOREM HonestDataNeverRefused == Spec => []HonestDataAccepted
BY Invariance, PTL DEF Inv

\* What a proposer writes into its blobs is what an accepted request derives its blocks
\* from, for any number of manifests of any length, however the bytes are cut into two
\* blobs: decodeManifestPayload finds each at its offset and reads nothing else.
THEOREM PublishedManifestsDerived == Spec => []PublishedIsDerived
<1>1. Inv => PublishedIsDerived
  <2> SUFFICES ASSUME Inv, phase = "accepted", request.hash = l1, published # Absent
               PROVE  derived = [i \in 1..Len(published) |-> Reading(published, i)]
    BY DEF PublishedIsDerived
  <2>1. PICK n \in 1..MaxSources :
          /\ published \in [1..n -> Manifests]
          /\ \E cut \in 0..Len(Bytes(published)) :
               cut < Len(Bytes(published)) /\ l1 = PublishedSources(published, cut)
    BY DEF Inv, Publication
  <2>2. PICK cut \in 0..Len(Bytes(published)) :
          cut < Len(Bytes(published)) /\ l1 = PublishedSources(published, cut)
    BY <2>1
  <2>3. n \in Nat /\ n # 0 /\ Len(published) = n
    BY <2>1, WordAssumption
  <2>4. Len(l1) = n
    BY <2>1, <2>2, <2>3, PublishedShape
  <2>5. \A i \in 1..n : Committed(l1[i]) = Reading(published, i)
    BY <2>1, <2>2, <2>3, PublishedReads
  <2>6. derived = [i \in 1..n |-> Committed(l1[i])]
    BY <2>4 DEF Inv, ReadAsCommitted, Committed
  <2> QED
    BY <2>3, <2>5, <2>6
<1> QED
  BY <1>1, Invariance, PTL

-----------------------------------------------------------------------------
(* The blob encoding: products, quotients and positions *)

\* Products keep an order.
LEMMA ProductOrder ==
  ASSUME NEW a \in Int, NEW b \in Int, NEW c \in Nat, a <= b
  PROVE  a * c <= b * c
OBVIOUS

\* Quotient and remainder, and the only pair that there is.
LEMMA Division ==
  ASSUME NEW n \in Nat, NEW b \in Nat, b > 0
  PROVE  /\ n \div b \in Nat /\ n % b \in 0..(b - 1)
         /\ n = (n \div b) * b + (n % b)
OBVIOUS

LEMMA Divided ==
  ASSUME NEW n \in Nat, NEW b \in Nat, b > 0
  PROVE  \E q \in Nat, r \in 0..(b - 1) : n = q * b + r
<1>1. /\ n \div b \in Nat /\ n % b \in 0..(b - 1)
      /\ n = (n \div b) * b + (n % b)
  BY Division
<1> QED BY <1>1, Zenon

LEMMA DivisionUnique ==
  ASSUME NEW b \in Nat, b > 0, NEW q \in Nat, NEW r \in 0..(b - 1), NEW n \in Nat, n = q * b + r
  PROVE  n \div b = q /\ n % b = r
<1>1. PICK x \in Nat, y \in 0..(b - 1) : x = n \div b /\ y = n % b /\ n = x * b + y
  BY Division
<1>2. CASE x < q
  <2>1. (x + 1) * b <= q * b
    BY <1>2, ProductOrder
  <2>2. (x + 1) * b = x * b + b
    OBVIOUS
  <2> QED BY <1>1, <2>1, <2>2
<1>3. CASE q < x
  <2>1. (q + 1) * b <= x * b
    BY <1>3, ProductOrder
  <2>2. (q + 1) * b = q * b + b
    OBVIOUS
  <2> QED BY <1>1, <2>1, <2>2
<1>4. CASE x = q
  BY <1>1, <1>4
<1> QED BY <1>2, <1>3, <1>4

-----------------------------------------------------------------------------
\* The sizes of blob_coder.go: elements, rounds, blob and data.
LEMMA Sizes ==
  /\ FE \in Nat /\ FE > 4 /\ Rounds \in Nat /\ Rounds > 0
  /\ Span \in Nat /\ Span = 4 * (FE + 1) - 1 /\ Span > 0
  /\ shastaBytesPerBlob \in Nat /\ shastaBytesPerBlob = Rounds * (4 * (FE + 1))
  /\ Span * Rounds \in Nat /\ shastaBlobMaxDataSize = Span * Rounds - 4
<1>1. FE \in Nat /\ FE > 4 /\ Rounds \in Nat /\ Rounds > 0
  BY SizeAssumption
<1>2. Span \in Nat /\ Span = 4 * (FE + 1) - 1 /\ Span > 0
  BY <1>1 DEF Span
<1>3. PICK w \in Nat : w = 4 * (FE + 1)
  BY <1>1
<1>4. w * Rounds \in Nat /\ w * Rounds = Rounds * w
  BY <1>1
<1> QED
  BY <1>1, <1>2, <1>3, <1>4 DEF shastaBytesPerBlob, shastaBlobMaxDataSize

\* Byte b of element i in round r, and where its position leads back to.
At(r, i, b) == (4 * r + i) * (FE + 1) + b

\* Encode's reading of position n.
Reads(n, r, i, b) ==
  n \div (4 * (FE + 1)) = r /\ (n \div (FE + 1)) % 4 = i /\ n % (FE + 1) = b

\* Each byte of the blob has one element and one round, and it lies in the first m
\* rounds when its position does.
LEMMA BlobIndex ==
  ASSUME NEW r \in Nat, NEW i \in 0..3, NEW b \in 0..FE
  PROVE  /\ At(r, i, b) \in Nat /\ Reads(At(r, i, b), r, i, b)
         /\ \A m \in Nat : r < m <=> At(r, i, b) < m * (4 * (FE + 1))
<1>1. PICK w \in Nat : w = FE + 1 /\ w > 0
  BY Sizes
<1>2. PICK n : n = At(r, i, b)
  OBVIOUS
<1>3. b \in 0..(w - 1) /\ b \in Nat /\ i \in Nat /\ 4 * r + i \in Nat
  BY <1>1, Sizes
<1>4. n = (4 * r + i) * w + b /\ (4 * r + i) * w \in Nat /\ n \in Nat
  BY <1>1, <1>2, <1>3 DEF At
<1>5. n \div w = 4 * r + i /\ n % w = b
  <2>1. PICK e \in Nat : e = 4 * r + i
    BY <1>3
  <2>2. n = e * w + b
    BY <1>4, <2>1
  <2>3. n \in Nat /\ b \in 0..(w - 1) /\ w > 0
    BY <1>1, <1>3, <1>4
  <2>4. n \div w = e /\ n % w = b
    BY <2>2, <2>3, DivisionUnique, ZenonT(30)
  <2> QED BY <2>1, <2>4
<1>6. (4 * r + i) % 4 = i
  OBVIOUS
<1>7. PICK v \in Nat, k \in Nat : v = 4 * w /\ k = i * w + b
  BY <1>1, <1>3
<1>8. (4 * r + i) * w = r * (4 * w) + i * w
  BY <1>1, <1>3
<1>9. i * w <= 3 * w /\ i * w \in Nat
  BY <1>1, <1>3, ProductOrder
<1>10. k \in 0..(v - 1) /\ v > 0
  BY <1>1, <1>3, <1>7, <1>9
<1>11. n = r * v + k /\ r * v \in Nat
  BY <1>4, <1>7, <1>8, <1>9
<1>12. n \div v = r
  BY <1>7, <1>10, <1>11, DivisionUnique
<1>13. ASSUME NEW m \in Nat PROVE r < m <=> n < m * v
  <2>1. CASE r < m
    <3>1. (r + 1) * v <= m * v
      BY <2>1, <1>7, ProductOrder
    <3>2. (r + 1) * v = r * v + v /\ m * v \in Nat
      BY <1>7
    <3> QED BY <1>10, <1>11, <2>1, <3>1, <3>2
  <2>2. CASE ~(r < m)
    <3>1. m * v <= r * v /\ m * v \in Nat
      BY <2>2, <1>7, ProductOrder
    <3> QED BY <1>10, <1>11, <2>2, <3>1
  <2> QED BY <2>1, <2>2
<1>14. v = 4 * (FE + 1)
  BY <1>1, <1>7
<1> QED
  BY <1>1, <1>2, <1>4, <1>5, <1>6, <1>12, <1>13, <1>14 DEF Reads

LEMMA RoundOfByte ==
  ASSUME NEW r \in Nat, NEW i \in 0..3, NEW b \in 0..FE, NEW m \in Nat
  PROVE  r < m <=> At(r, i, b) < m * (4 * (FE + 1))
BY BlobIndex

\* There are no other positions.
LEMMA BlobIndices ==
  ASSUME NEW n \in Nat
  PROVE  \E r \in Nat, i \in 0..3, b \in 0..FE : n = At(r, i, b)
<1>1. PICK w \in Nat : w = FE + 1 /\ w > 0
  BY Sizes
<1>2. PICK e \in Nat, b \in 0..(w - 1) : n = e * w + b
  BY <1>1, Divided, Zenon
<1>3. PICK r \in Nat, i \in 0..3 : e = 4 * r + i
  <2>1. e \div 4 \in Nat /\ e % 4 \in 0..3 /\ e = 4 * (e \div 4) + (e % 4)
    OBVIOUS
  <2> QED BY <2>1
<1>4. b \in 0..FE
  BY <1>1, Sizes
<1> QED
  BY <1>1, <1>2, <1>3, <1>4 DEF At

\* The place of byte j of element i of round r in the data, with the preamble; the
\* byte from the headers comes last in the first three elements.
Place(r, i, j) == Span * r + (FE + 1) * i + j

\* OutputByte's reading of place q.
Places(q, r, i, j) ==
  q \div Span = r /\ (q % Span) \div (FE + 1) = i /\ (q % Span) % (FE + 1) = j

\* The same for the data: a round has Span bytes of it.
LEMMA DataIndex ==
  ASSUME NEW r \in Nat, NEW i \in 0..3, NEW j \in 0..FE, i = 3 => j < FE
  PROVE  /\ Place(r, i, j) \in Nat /\ Places(Place(r, i, j), r, i, j)
         /\ \A m \in Nat : r < m <=> Place(r, i, j) < m * Span
<1>1. PICK w \in Nat : w = FE + 1 /\ w > 0
  BY Sizes
<1>2. PICK v \in Nat : v = Span /\ v > 0 /\ v = 4 * w - 1
  BY <1>1, Sizes
<1>3. PICK q, k : q = Place(r, i, j) /\ k = i * w + j
  OBVIOUS
<1>4. /\ j \in 0..(w - 1) /\ j \in Nat /\ i \in Nat
      /\ i * w \in Nat /\ w * i = i * w /\ k \in Nat
  BY <1>1, <1>3, Sizes
<1>5. k \in 0..(v - 1)
  <2>1. CASE i = 3
    BY <1>1, <1>2, <1>3, <1>4, <2>1, Sizes
  <2>2. CASE i # 3
    <3>1. i * w <= 2 * w
      BY <1>1, <1>4, <2>2, ProductOrder
    <3> QED BY <1>2, <1>3, <1>4, <3>1
  <2> QED BY <2>1, <2>2
<1>6. v * r \in Nat /\ v * r = r * v
  BY <1>2
<1>7. q = r * v + k /\ q \in Nat
  <2>1. q = v * r + w * i + j
    BY <1>1, <1>2, <1>3 DEF Place
  <2>2. PICK x \in Nat, y \in Nat : x = r * v /\ y = i * w
    BY <1>4, <1>6
  <2> QED BY <1>3, <1>4, <1>6, <2>1, <2>2
<1>8. q \div v = r /\ q % v = k
  BY <1>2, <1>5, <1>7, DivisionUnique
<1>9. k \div w = i /\ k % w = j
  BY <1>1, <1>3, <1>4, DivisionUnique, ZenonT(30)
<1>10. ASSUME NEW m \in Nat PROVE r < m <=> q < m * v
  <2>1. CASE r < m
    <3>1. (r + 1) * v <= m * v
      BY <2>1, <1>2, ProductOrder
    <3>2. (r + 1) * v = r * v + v /\ m * v \in Nat
      BY <1>2
    <3> QED BY <1>5, <1>6, <1>7, <2>1, <3>1, <3>2
  <2>2. CASE ~(r < m)
    <3>1. m * v <= r * v /\ m * v \in Nat
      BY <2>2, <1>2, ProductOrder
    <3> QED BY <1>5, <1>6, <1>7, <2>2, <3>1
  <2> QED BY <2>1, <2>2
<1> QED
  BY <1>1, <1>2, <1>3, <1>7, <1>8, <1>9, <1>10 DEF Places

LEMMA RoundOfPlace ==
  ASSUME NEW r \in Nat, NEW i \in 0..3, NEW j \in 0..FE, i = 3 => j < FE, NEW m \in Nat
  PROVE  r < m <=> Place(r, i, j) < m * Span
BY DataIndex

LEMMA DataIndices ==
  ASSUME NEW q \in Nat
  PROVE  \E r \in Nat, i \in 0..3, j \in 0..FE :
           q = Place(r, i, j) /\ (i = 3 => j < FE)
<1>1. PICK w \in Nat : w = FE + 1 /\ w > 0
  BY Sizes
<1>2. PICK v \in Nat : v = Span /\ v > 0 /\ v = 4 * w - 1
  BY <1>1, Sizes
<1>3. PICK r \in Nat, k \in 0..(v - 1) : q = r * v + k
  BY <1>2, Divided, Zenon
<1>4. PICK i \in Nat, j \in 0..(w - 1) : k = i * w + j
  <2>1. k \in Nat
    BY <1>2
  <2> QED BY <1>1, <2>1, Divided, Zenon
<1>5. i \in 0..3 /\ (i = 3 => j < FE)
  <2>1. CASE i <= 3
    BY <1>1, <1>2, <1>4, <2>1, Sizes
  <2>2. CASE i > 3
    <3>1. 4 * w <= i * w
      BY <1>1, <2>2, ProductOrder
    <3> QED BY <1>1, <1>2, <1>4, <3>1
  <2> QED BY <2>1, <2>2
<1>6. q = Span * r + (FE + 1) * i + j
  <2>1. v * r = r * v /\ w * i = i * w /\ v * r \in Nat /\ w * i \in Nat
    BY <1>1, <1>2
  <2> QED BY <1>1, <1>2, <1>3, <1>4, <2>1
<1>7. j \in 0..FE
  BY <1>1, Sizes
<1> QED
  BY <1>5, <1>6, <1>7 DEF Place

-----------------------------------------------------------------------------
(* The bits of the headers *)

\* The encoder's headers of x, y and z, and the decoder's x, y and z from headers.
Packed(e0, e1, e2, e3, x, y, z) ==
  /\ e0 = x % 64 /\ e1 = (x \div 64) * 16 + (y % 16)
  /\ e2 = z % 64 /\ e3 = (z \div 64) * 16 + y \div 16

Unpacked(x, y, z, e0, e1, e2, e3) ==
  /\ x = (e0 % 64) + ((e1 \div 16) % 4) * 64
  /\ y = (e1 % 16) + (e3 % 16) * 16
  /\ z = (e2 % 64) + ((e3 \div 16) % 4) * 64

\* Headers that three bytes were put into hold them.
LEMMA HeaderBits ==
  ASSUME NEW x \in Byte, NEW y \in Byte, NEW z \in Byte,
         NEW e0, NEW e1, NEW e2, NEW e3, Packed(e0, e1, e2, e3, x, y, z)
  PROVE  /\ e0 \in 0..63 /\ e1 \in 0..63 /\ e2 \in 0..63 /\ e3 \in 0..63
         /\ Unpacked(x, y, z, e0, e1, e2, e3)
<1>1. PICK a \in 0..3, s \in 0..63 : x = 64 * a + s /\ a = x \div 64 /\ s = x % 64
  BY DEF Byte
<1>2. PICK b \in 0..15, t \in 0..15 : y = 16 * b + t /\ b = y \div 16 /\ t = y % 16
  BY DEF Byte
<1>3. PICK c \in 0..3, u \in 0..63 : z = 64 * c + u /\ c = z \div 64 /\ u = z % 64
  BY DEF Byte
<1>4. e0 = s /\ e1 = a * 16 + t /\ e2 = u /\ e3 = c * 16 + b
  BY <1>1, <1>2, <1>3 DEF Packed
<1>5. e0 \in 0..63 /\ e1 \in 0..63 /\ e2 \in 0..63 /\ e3 \in 0..63
  BY <1>4
<1>6. e0 % 64 = s /\ e2 % 64 = u
  BY <1>4
<1>7. (e1 \div 16) % 4 = a /\ e1 % 16 = t
  BY <1>4
<1>8. (e3 \div 16) % 4 = c /\ e3 % 16 = b
  BY <1>4
<1> QED BY <1>1, <1>2, <1>3, <1>5, <1>6, <1>7, <1>8 DEF Unpacked

\* Bytes that were put together from headers give them back, but for the upper bits
\* of the first one.
LEMMA BitHeaders ==
  ASSUME NEW e0 \in Byte, NEW e1 \in 0..63, NEW e2 \in 0..63, NEW e3 \in 0..63,
         NEW x, NEW y, NEW z, Unpacked(x, y, z, e0, e1, e2, e3)
  PROVE  Packed(e0 % 64, e1, e2, e3, x, y, z)
<1>1. PICK s \in 0..63 : s = e0 % 64
  BY DEF Byte
<1>2. PICK a \in 0..3, t \in 0..15 : e1 = 16 * a + t /\ a = (e1 \div 16) % 4 /\ t = e1 % 16
  OBVIOUS
<1>3. PICK c \in 0..3, b \in 0..15 : e3 = 16 * c + b /\ c = (e3 \div 16) % 4 /\ b = e3 % 16
  OBVIOUS
<1>4. e2 % 64 = e2
  OBVIOUS
<1>5. x = s + a * 64 /\ y = t + b * 16 /\ z = e2 + c * 64
  BY <1>1, <1>2, <1>3, <1>4 DEF Unpacked
<1>7. x % 64 = s /\ x \div 64 = a
  BY <1>5
<1>8. y % 16 = t /\ y \div 16 = b
  BY <1>5
<1>9. z % 64 = e2 /\ z \div 64 = c
  BY <1>5
<1> QED BY <1>1, <1>2, <1>3, <1>7, <1>8, <1>9 DEF Packed

-----------------------------------------------------------------------------
(* The encoder and the decoder by element *)

\* The byte of the data and of the preamble before it.
Framed(d, q) == IF q < 4 THEN Preamble(d)[q + 1] ELSE DataByte(d, q - 4)

\* What the encoder puts into byte b of an element.
LEMMA EncodeAt ==
  ASSUME NEW d, NEW r \in Nat, r < Rounds, NEW i \in 0..3, NEW b \in 0..FE
  PROVE  /\ At(r, i, b) \in 0..(shastaBytesPerBlob - 1)
         /\ Encode(d)[At(r, i, b)] = IF b = 0 THEN HeaderByte(d, r, i)
                                     ELSE Framed(d, Place(r, i, b - 1))
<1>1. PICK n \in Nat : n = At(r, i, b)
  BY BlobIndex
<1>2. /\ n \div (4 * (FE + 1)) = r /\ (n \div (FE + 1)) % 4 = i /\ n % (FE + 1) = b
  <2>1. Reads(At(r, i, b), r, i, b)
    BY BlobIndex
  <2> QED BY <1>1, <2>1 DEF Reads
<1>3. n < Rounds * (4 * (FE + 1))
  BY <1>1, BlobIndex, Sizes
<1>4. n \in 0..(shastaBytesPerBlob - 1)
  BY <1>3, Sizes
<1>5. PICK p : /\ p = Span * r + (FE + 1) * i + (b - 1) - 4
               /\ Encode(d)[n] = IF b = 0 THEN HeaderByte(d, r, i)
                                 ELSE IF p < 0 THEN Preamble(d)[p + 5] ELSE DataByte(d, p)
  BY <1>2, <1>4, Zenon DEF Encode
<1>6. CASE b = 0
  BY <1>1, <1>4, <1>5, <1>6
<1>7. CASE b # 0
  <2>1. PICK q \in Nat : q = Place(r, i, b - 1)
    <3>1. b - 1 \in 0..FE /\ b - 1 < FE
      BY <1>7, Sizes
    <3> QED BY <3>1, DataIndex
  <2>2. PICK x \in Nat, y \in Nat : x = Span * r /\ y = (FE + 1) * i
    BY Sizes
  <2>3. (q - 4) + 5 = q + 1 /\ (q - 4 < 0 <=> q < 4)
    OBVIOUS
  <2>4. p = q - 4
    BY <1>5, <2>1, <2>2 DEF Place
  <2>5. Encode(d)[n] = IF p < 0 THEN Preamble(d)[p + 5] ELSE DataByte(d, p)
    BY <1>5, <1>7
  <2>6. Encode(d)[n] = Framed(d, q)
    BY <2>3, <2>4, <2>5 DEF Framed
  <2> QED BY <1>1, <1>4, <1>7, <2>1, <2>6
<1> QED BY <1>6, <1>7

\* Where the decoder takes byte j of an element from.
LEMMA OutputAt ==
  ASSUME NEW blob, NEW r \in Nat, NEW i \in 0..3, NEW j \in 0..FE, i = 3 => j < FE,
         NEW p \in Nat, p + 4 = Place(r, i, j)
  PROVE  OutputByte(blob, p) = IF j < FE THEN blob[At(r, i, j + 1)] ELSE reassemble(blob, r, i)
<1>1. /\ (p + 4) \div Span = r /\ ((p + 4) % Span) \div (FE + 1) = i
      /\ ((p + 4) % Span) % (FE + 1) = j
  <2>1. Places(Place(r, i, j), r, i, j)
    BY DataIndex
  <2> QED BY <2>1 DEF Places
<1>2. OutputByte(blob, p) =
        IF j < FE THEN blob[(4 * r + i) * (FE + 1) + 1 + j] ELSE reassemble(blob, r, i)
  BY <1>1, Zenon DEF OutputByte
<1>3. (4 * r + i) * (FE + 1) + 1 + j = At(r, i, j + 1)
  <2>1. PICK w \in Nat : w = (4 * r + i) * (FE + 1)
    BY Sizes
  <2> QED BY <2>1 DEF At
<1> QED BY <1>2, <1>3

LEMMA DataByteType ==
  ASSUME NEW d \in Seq(Byte), NEW p \in Nat
  PROVE  DataByte(d, p) \in Byte /\ (p >= Len(d) => DataByte(d, p) = 0)
<1>1. Len(d) \in Nat
  OBVIOUS
<1>2. CASE p < Len(d)
  <2>1. p + 1 \in 1..Len(d)
    BY <1>1, <1>2
  <2> QED BY <1>1, <1>2, <2>1 DEF DataByte
<1>3. CASE ~(p < Len(d))
  BY <1>1, <1>3 DEF DataByte, Byte
<1> QED BY <1>2, <1>3

LEMMA HeaderAt ==
  ASSUME NEW blob, NEW r \in Nat, NEW i \in 0..3
  PROVE  ElementHeader(blob, r, i) = blob[At(r, i, 0)]
<1>1. PICK w \in Nat : w = (4 * r + i) * (FE + 1)
  BY Sizes
<1> QED BY <1>1 DEF ElementHeader, At

\* The byte of the data that belongs into the headers of round r.
HeaderData(d, r, k) == DataByte(d, Place(r, k, FE) - 4)

LEMMA HeaderPlace ==
  ASSUME NEW r \in Nat, NEW k \in 0..2
  PROVE  Place(r, k, FE) \in Nat /\ Place(r, k, FE) >= 4
<1>1. PICK q \in Nat : q = Place(r, k, FE)
  <2>1. FE \in 0..FE /\ k \in 0..3 /\ k # 3
    BY Sizes
  <2> QED BY <2>1, DataIndex
<1>2. PICK x \in Nat, y \in Nat : x = Span * r /\ y = (FE + 1) * k
  BY Sizes
<1> QED BY <1>1, <1>2, Sizes DEF Place

\* The headers of an encoded round, as bits of three bytes of the data.
LEMMA HeaderByteAt ==
  ASSUME NEW d, NEW r \in Nat, NEW x, NEW y, NEW z,
         x = HeaderData(d, r, 0), y = HeaderData(d, r, 1), z = HeaderData(d, r, 2)
  PROVE  Packed(HeaderByte(d, r, 0), HeaderByte(d, r, 1), HeaderByte(d, r, 2),
                HeaderByte(d, r, 3), x, y, z)
<1>1. PICK s \in Nat : s = Span * r
  BY Sizes
<1>2. /\ Span * r + FE - 4 = Place(r, 0, FE) - 4
      /\ Span * r + 2 * FE - 3 = Place(r, 1, FE) - 4
      /\ Span * r + 3 * FE - 2 = Place(r, 2, FE) - 4
  BY <1>1, Sizes DEF Place
<1>3. /\ x = DataByte(d, Span * r + FE - 4)
      /\ y = DataByte(d, Span * r + 2 * FE - 3)
      /\ z = DataByte(d, Span * r + 3 * FE - 2)
  BY <1>2, Zenon DEF HeaderData
<1> QED BY <1>3 DEF HeaderByte, Packed

\* reassembleShastaBlobEncodedBytes, as bits of the headers.
LEMMA ReassembleAt ==
  ASSUME NEW blob, NEW r \in Nat, NEW e0, NEW e1, NEW e2, NEW e3,
         e0 = ElementHeader(blob, r, 0), e1 = ElementHeader(blob, r, 1),
         e2 = ElementHeader(blob, r, 2), e3 = ElementHeader(blob, r, 3)
  PROVE  Unpacked(reassemble(blob, r, 0), reassemble(blob, r, 1), reassemble(blob, r, 2),
                  e0, e1, e2, e3)
<1>1. PICK e : e = [i \in 0..3 |-> ElementHeader(blob, r, i)]
  OBVIOUS
<1>2. e[0] = e0 /\ e[1] = e1 /\ e[2] = e2 /\ e[3] = e3
  BY <1>1
<1>3. /\ reassemble(blob, r, 0) = (e[0] % 64) + ((e[1] \div 16) % 4) * 64
      /\ reassemble(blob, r, 1) = (e[1] % 16) + (e[3] % 16) * 16
      /\ reassemble(blob, r, 2) = (e[2] % 64) + ((e[3] \div 16) % 4) * 64
  BY <1>1 DEF reassemble
<1> QED BY <1>2, <1>3 DEF Unpacked

LEMMA EncodedHeaders ==
  ASSUME NEW d \in Seq(Byte), NEW r \in Nat, r < Rounds
  PROVE  /\ \A i \in 0..3 : ElementHeader(Encode(d), r, i) \in 0..63
         /\ \A k \in 0..2 : reassemble(Encode(d), r, k) = HeaderData(d, r, k)
<1>1. PICK x, y, z : /\ x = HeaderData(d, r, 0) /\ y = HeaderData(d, r, 1)
                     /\ z = HeaderData(d, r, 2)
  OBVIOUS
<1>2. x \in Byte /\ y \in Byte /\ z \in Byte
  <2>1. ASSUME NEW k \in 0..2 PROVE HeaderData(d, r, k) \in Byte
    <3>1. PICK q \in Nat : q = Place(r, k, FE) /\ q >= 4
      BY HeaderPlace
    <3>2. q - 4 \in Nat
      BY <3>1
    <3> QED BY <3>1, <3>2, DataByteType DEF HeaderData
  <2> QED BY <1>1, <2>1
<1>3. ASSUME NEW i \in 0..3 PROVE ElementHeader(Encode(d), r, i) = HeaderByte(d, r, i)
  <2>1. 0 \in 0..FE
    BY Sizes
  <2> QED BY <2>1, HeaderAt, EncodeAt
<1>4. PICK e0, e1, e2, e3 : /\ e0 = ElementHeader(Encode(d), r, 0)
                            /\ e1 = ElementHeader(Encode(d), r, 1)
                            /\ e2 = ElementHeader(Encode(d), r, 2)
                            /\ e3 = ElementHeader(Encode(d), r, 3)
  OBVIOUS
<1>5. /\ e0 = HeaderByte(d, r, 0) /\ e1 = HeaderByte(d, r, 1)
      /\ e2 = HeaderByte(d, r, 2) /\ e3 = HeaderByte(d, r, 3)
  BY <1>3, <1>4
<1>6. Packed(e0, e1, e2, e3, x, y, z)
  BY <1>1, <1>5, HeaderByteAt
<1>7. /\ e0 \in 0..63 /\ e1 \in 0..63 /\ e2 \in 0..63 /\ e3 \in 0..63
      /\ Unpacked(x, y, z, e0, e1, e2, e3)
  BY <1>2, <1>6, HeaderBits
<1>8. /\ reassemble(Encode(d), r, 0) = x /\ reassemble(Encode(d), r, 1) = y
      /\ reassemble(Encode(d), r, 2) = z
  <2>1. Unpacked(reassemble(Encode(d), r, 0), reassemble(Encode(d), r, 1),
                 reassemble(Encode(d), r, 2), e0, e1, e2, e3)
    BY <1>4, ReassembleAt
  <2> QED BY <1>7, <2>1 DEF Unpacked
<1> QED BY <1>1, <1>4, <1>7, <1>8

\* The decoder finds every byte of the data where the encoder has put it.
LEMMA EncodedOutput ==
  ASSUME NEW d \in Seq(Byte), NEW p \in Nat, p + 4 < Rounds * Span
  PROVE  OutputByte(Encode(d), p) = DataByte(d, p)
<1>1. PICK r \in Nat, i \in 0..3, j \in 0..FE : p + 4 = Place(r, i, j) /\ (i = 3 => j < FE)
  BY DataIndices
<1>2. r < Rounds
  <2>1. Rounds \in Nat
    BY Sizes
  <2>2. r < Rounds <=> Place(r, i, j) < Rounds * Span
    BY <1>1, <2>1, RoundOfPlace
  <2> QED BY <1>1, <2>2
<1>3. OutputByte(Encode(d), p) =
        IF j < FE THEN Encode(d)[At(r, i, j + 1)] ELSE reassemble(Encode(d), r, i)
  BY <1>1, OutputAt
<1>4. CASE j < FE
  <2>1. j + 1 \in 0..FE /\ j + 1 # 0 /\ (j + 1) - 1 = j
    BY <1>4, Sizes
  <2>2. Encode(d)[At(r, i, j + 1)] = Framed(d, Place(r, i, (j + 1) - 1))
    BY <1>2, <2>1, EncodeAt
  <2>3. Framed(d, p + 4) = DataByte(d, p)
    BY DEF Framed
  <2> QED BY <1>1, <1>3, <1>4, <2>1, <2>2, <2>3
<1>5. CASE ~(j < FE)
  <2>1. j = FE /\ i \in 0..2
    BY <1>1, <1>5, Sizes
  <2>2. reassemble(Encode(d), r, i) = DataByte(d, Place(r, i, FE) - 4)
    BY <1>2, <2>1, EncodedHeaders DEF HeaderData
  <2>3. Place(r, i, FE) - 4 = p
    BY <1>1, <2>1
  <2> QED BY <1>3, <1>5, <2>2, <2>3
<1> QED BY <1>4, <1>5

LEMMA EncodedPreamble ==
  ASSUME NEW d, Len(d) \in Nat
  PROVE  Encode(d)[1] = 0 /\ DeclaredLength(Encode(d)) = Len(d)
<1>1. ASSUME NEW b \in 1..4 PROVE Encode(d)[b] = Preamble(d)[b]
  <2>1. b \in 0..FE /\ b # 0
    BY Sizes
  <2>2. At(0, 0, b) = b /\ Place(0, 0, b - 1) = b - 1
    BY Sizes DEF At, Place
  <2>3. Encode(d)[At(0, 0, b)] = Framed(d, Place(0, 0, b - 1))
    <3>1. PICK r \in Nat, i \in 0..3 : r = 0 /\ i = 0 /\ r < Rounds
      BY Sizes
    <3>2. Encode(d)[At(r, i, b)] = Framed(d, Place(r, i, b - 1))
      BY <2>1, <3>1, EncodeAt
    <3> QED BY <3>1, <3>2
  <2>4. b - 1 < 4 /\ (b - 1) + 1 = b
    OBVIOUS
  <2> QED BY <2>2, <2>3, <2>4 DEF Framed
<1>2. /\ Encode(d)[1] = 0 /\ Encode(d)[2] = Len(d) \div 65536
      /\ Encode(d)[3] = (Len(d) \div 256) % 256 /\ Encode(d)[4] = Len(d) % 256
  BY <1>1 DEF Preamble
<1>3. PICK l \in Nat : l = Len(d)
  OBVIOUS
<1>4. (l \div 65536) * 65536 + ((l \div 256) % 256) * 256 + (l % 256) = l
  OBVIOUS
<1> QED BY <1>2, <1>3, <1>4 DEF DeclaredLength

LEMMA RoundsOf ==
  ASSUME NEW l \in Nat, l <= shastaBlobMaxDataSize, NEW m, m = RoundsDecoded(l)
  PROVE  m \in Nat /\ m > 0 /\ m <= Rounds /\ l + 4 <= m * Span /\ m * Span \in Nat
<1>1. PICK v \in Nat : v = Span /\ v > 22
  BY Sizes
<1>2. PICK a \in Nat : a = l + 4 + v - 1
  BY <1>1
<1>3. m = a \div v
  BY <1>1, <1>2 DEF RoundsDecoded
<1>4. m \in Nat /\ a % v \in 0..(v - 1) /\ a = m * v + (a % v)
  BY <1>1, <1>3, Division
<1>5. m * v \in Nat
  BY <1>4
<1>6. l + 4 <= m * v
  BY <1>1, <1>2, <1>4, <1>5
<1>7. m > 0
  <2>1. m # 0
    <3> SUFFICES ASSUME m = 0 PROVE FALSE
      OBVIOUS
    <3>1. 0 * v = 0
      BY <1>1
    <3> QED BY <1>6, <3>1
  <2> QED BY <1>4, <2>1
<1>8. m <= Rounds
  <2> SUFFICES ASSUME Rounds < m PROVE FALSE
    BY <1>4, Sizes
  <2>1. (Rounds + 1) * v <= m * v
    BY <1>1, <1>4, Sizes, ProductOrder
  <2>2. (Rounds + 1) * v = Rounds * v + v /\ Rounds * v \in Nat /\ v * Rounds = Rounds * v
    BY <1>1, Sizes
  <2>3. l + 4 <= Rounds * v
    BY <1>1, <2>2, Sizes
  <2>4. m * v <= l + 4 + v - 1
    BY <1>1, <1>2, <1>4, <1>5
  <2> QED BY <1>1, <1>5, <2>1, <2>2, <2>3, <2>4
<1> QED BY <1>1, <1>4, <1>5, <1>6, <1>7, <1>8

-----------------------------------------------------------------------------
(* An encoding decodes to its data *)

\* The encoding is zero after the last round of the data.
LEMMA EncodedTail ==
  ASSUME NEW d \in Seq(Byte), NEW m \in Nat, Len(d) + 4 <= m * Span, m * Span \in Nat,
         NEW r \in Nat, m <= r, r < Rounds, NEW i \in 0..3, NEW b \in 0..FE
  PROVE  Encode(d)[At(r, i, b)] = 0
<1>1. PICK l \in Nat : l = Len(d) /\ l + 4 <= m * Span
  OBVIOUS
<1>2. Encode(d)[At(r, i, b)] =
         IF b = 0 THEN HeaderByte(d, r, i) ELSE Framed(d, Place(r, i, b - 1))
  BY EncodeAt
<1>3. ASSUME NEW k \in 0..3, NEW j \in 0..FE, k = 3 => j < FE
      PROVE  Place(r, k, j) - 4 \in Nat /\ DataByte(d, Place(r, k, j) - 4) = 0
  <2>1. PICK q \in Nat : q = Place(r, k, j)
    BY <1>3, DataIndex
  <2>2. r < m <=> q < m * Span
    BY <1>3, <2>1, RoundOfPlace
  <2>3. q >= l + 4
    BY <1>1, <2>2
  <2>4. q - 4 \in Nat /\ q - 4 >= Len(d)
    BY <1>1, <2>3
  <2> QED BY <2>1, <2>4, DataByteType
<1>4. CASE b = 0
  <2>1. HeaderData(d, r, 0) = 0 /\ HeaderData(d, r, 1) = 0 /\ HeaderData(d, r, 2) = 0
    <3>1. FE \in 0..FE
      BY Sizes
    <3> QED BY <1>3, <3>1 DEF HeaderData
  <2>2. PICK z \in Nat : z = 0
    OBVIOUS
  <2>3. Packed(HeaderByte(d, r, 0), HeaderByte(d, r, 1), HeaderByte(d, r, 2),
               HeaderByte(d, r, 3), z, z, z)
    BY <2>1, <2>2, HeaderByteAt
  <2>4. HeaderByte(d, r, i) = 0
    BY <2>2, <2>3 DEF Packed
  <2> QED BY <1>2, <1>4, <2>4
<1>5. CASE b # 0
  <2>1. b - 1 \in 0..FE /\ b - 1 < FE
    BY <1>5, Sizes
  <2>2. Place(r, i, b - 1) - 4 \in Nat /\ DataByte(d, Place(r, i, b - 1) - 4) = 0
    BY <1>3, <2>1
  <2>3. PICK q \in Nat : q = Place(r, i, b - 1)
    BY <2>1, DataIndex
  <2>4. ~(q < 4)
    BY <2>2, <2>3
  <2> QED BY <1>2, <1>5, <2>2, <2>3, <2>4 DEF Framed
<1> QED BY <1>4, <1>5

\* What the encoder makes decodes to its data.
LEMMA EncodingDecodes ==
  ASSUME NEW d \in Seq(Byte), Len(d) <= shastaBlobMaxDataSize
  PROVE  Decodes(Encode(d)) /\ decodeShastaBlob(Encode(d)) = d
<1>1. PICK l \in Nat : l = Len(d)
  OBVIOUS
<1>2. PICK blob : blob = Encode(d)
  OBVIOUS
<1>3. blob[1] = 0 /\ DeclaredLength(blob) = l
  BY <1>1, <1>2, EncodedPreamble
<1>4. PICK m \in Nat : /\ m = RoundsDecoded(l) /\ m > 0 /\ m <= Rounds
                       /\ l + 4 <= m * Span /\ m * Span \in Nat
  BY <1>1, RoundsOf
<1>5. m * Span <= Rounds * Span /\ Rounds * Span \in Nat /\ Rounds * Span = Span * Rounds
      /\ m * Span = Span * m
  BY <1>4, Sizes, ProductOrder
<1>6. ASSUME NEW e \in 1..(4 * m - 1) PROVE ElementHeader(blob, e \div 4, e % 4) < 64
  <2>1. PICK r \in Nat, i \in 0..3 : r = e \div 4 /\ i = e % 4 /\ e = 4 * r + i
    OBVIOUS
  <2>2. r < Rounds
    BY <1>4, <2>1, Sizes, SMTT(30)
  <2>3. PICK h \in 0..63 : h = ElementHeader(blob, r, i)
    BY <1>2, <2>2, EncodedHeaders
  <2>4. ElementHeader(blob, e \div 4, e % 4) = h
    BY <2>1, <2>3, Zenon
  <2> QED BY <2>4
<1>7. ASSUME NEW p \in Nat, p + 4 < Rounds * Span PROVE OutputByte(blob, p) = DataByte(d, p)
  BY <1>2, <1>7, EncodedOutput
<1>8. ASSUME NEW p \in l..(Span * m - 5) PROVE OutputByte(blob, p) = 0
  <2>1. p \in Nat /\ p + 4 < Rounds * Span /\ p >= Len(d)
    BY <1>1, <1>4, <1>5
  <2>2. DataByte(d, p) = 0
    BY <2>1, DataByteType
  <2> QED BY <1>7, <2>1, <2>2
<1>9. ASSUME NEW n \in (4 * (FE + 1) * m)..(shastaBytesPerBlob - 1) PROVE blob[n] = 0
  <2>1. PICK w \in Nat : w = m * (4 * (FE + 1)) /\ w = 4 * (FE + 1) * m
    BY <1>4, Sizes
  <2>2. n \in Nat /\ n >= w /\ n < Rounds * (4 * (FE + 1))
    BY <2>1, Sizes
  <2>3. PICK r \in Nat, i \in 0..3, b \in 0..FE : n = At(r, i, b)
    BY <2>2, BlobIndices
  <2>4. (r < m <=> n < m * (4 * (FE + 1))) /\ (r < Rounds <=> n < Rounds * (4 * (FE + 1)))
    BY <2>3, RoundOfByte, Sizes
  <2>5. r >= m /\ r < Rounds
    BY <1>4, <2>1, <2>2, <2>4, Sizes
  <2> QED BY <1>1, <1>2, <1>4, <2>3, <2>5, EncodedTail
<1>10. Decodes(blob)
  <2>1. TailIsZero(blob, l, m)
    BY <1>8, <1>9 DEF TailIsZero
  <2> QED BY <1>1, <1>3, <1>4, <1>6, <2>1 DEF Decodes
<1>11. decodeShastaBlob(blob) = d
  <2>1. decodeShastaBlob(blob) = [p \in 1..l |-> OutputByte(blob, p - 1)]
    BY <1>3 DEF decodeShastaBlob
  <2>2. ASSUME NEW p \in 1..l PROVE OutputByte(blob, p - 1) = d[p]
    <3>1. p - 1 \in Nat /\ (p - 1) + 4 < Rounds * Span /\ p - 1 < Len(d) /\ (p - 1) + 1 = p
      BY <1>1, <1>4, <1>5
    <3> QED BY <1>7, <3>1 DEF DataByte
  <2>3. d = [p \in 1..l |-> d[p]]
    BY <1>1
  <2> QED BY <2>1, <2>2, <2>3
<1> QED BY <1>2, <1>10, <1>11

-----------------------------------------------------------------------------
(* What decodes is the encoding of its data *)

RawBlobs == [0..(shastaBytesPerBlob - 1) -> Byte]

LEMMA ByteAt ==
  ASSUME NEW blob \in RawBlobs, NEW r \in Nat, r < Rounds, NEW i \in 0..3, NEW b \in 0..FE
  PROVE  blob[At(r, i, b)] \in Byte
BY EncodeAt DEF RawBlobs

LEMMA OutputType ==
  ASSUME NEW blob \in RawBlobs, NEW p \in Nat, p + 4 < Rounds * Span
  PROVE  OutputByte(blob, p) \in Byte
<1>1. PICK r \in Nat, i \in 0..3, j \in 0..FE : p + 4 = Place(r, i, j) /\ (i = 3 => j < FE)
  BY DataIndices
<1>2. r < Rounds
  <2>1. Rounds \in Nat
    BY Sizes
  <2>2. r < Rounds <=> Place(r, i, j) < Rounds * Span
    BY <1>1, <2>1, RoundOfPlace
  <2> QED BY <1>1, <2>2
<1>3. OutputByte(blob, p) = IF j < FE THEN blob[At(r, i, j + 1)] ELSE reassemble(blob, r, i)
  BY <1>1, OutputAt
<1>4. CASE j < FE
  <2>1. j + 1 \in 0..FE
    BY <1>4, Sizes
  <2> QED BY <1>2, <1>3, <1>4, <2>1, ByteAt
<1>5. CASE ~(j < FE)
  <2>1. i \in 0..2
    BY <1>1, <1>5, Sizes
  <2>2. ASSUME NEW k \in 0..3 PROVE ElementHeader(blob, r, k) \in Byte
    <3>1. 0 \in 0..FE
      BY Sizes
    <3> QED BY <1>2, <3>1, HeaderAt, ByteAt
  <2>3. PICK e0 \in Byte, e1 \in Byte, e2 \in Byte, e3 \in Byte :
          /\ e0 = ElementHeader(blob, r, 0) /\ e1 = ElementHeader(blob, r, 1)
          /\ e2 = ElementHeader(blob, r, 2) /\ e3 = ElementHeader(blob, r, 3)
    BY <2>2
  <2>4. Unpacked(reassemble(blob, r, 0), reassemble(blob, r, 1), reassemble(blob, r, 2),
                 e0, e1, e2, e3)
    BY <2>3, ReassembleAt
  <2>5. /\ reassemble(blob, r, 0) \in Byte /\ reassemble(blob, r, 1) \in Byte
        /\ reassemble(blob, r, 2) \in Byte
    <3>1. e0 % 64 \in 0..63 /\ e2 % 64 \in 0..63
      BY DEF Byte
    <3>2. e1 % 16 \in 0..15 /\ e3 % 16 \in 0..15
      BY DEF Byte
    <3>3. (e1 \div 16) % 4 \in 0..3 /\ (e3 \div 16) % 4 \in 0..3
      BY DEF Byte
    <3> QED BY <2>4, <3>1, <3>2, <3>3 DEF Unpacked, Byte
  <2> QED BY <1>3, <1>5, <2>1, <2>5
<1> QED BY <1>4, <1>5

\* A blob without an error is, byte by byte, the encoding of its data: the rounds
\* that are decoded give the bytes back, and what follows them is zero in both.
LEMMA DecodedIsEncoding ==
  ASSUME NEW blob \in RawBlobs, Decodes(blob), NEW d, d = decodeShastaBlob(blob)
  PROVE  /\ d \in Seq(Byte) /\ Len(d) <= shastaBlobMaxDataSize
         /\ blob[0] % 64 = Encode(d)[0]
         /\ \A n \in 1..(shastaBytesPerBlob - 1) : blob[n] = Encode(d)[n]
<1>1. \A b \in 0..4 : blob[b] \in Byte
  <2>1. PICK n \in Nat : n = shastaBytesPerBlob /\ n > 4
    <3>1. 1 * (4 * (FE + 1)) <= Rounds * (4 * (FE + 1))
      BY Sizes, ProductOrder
    <3> QED BY <3>1, Sizes
  <2> QED BY <2>1 DEF RawBlobs
<1>2. PICK l \in Nat : l = DeclaredLength(blob) /\ l <= shastaBlobMaxDataSize
  <2>1. PICK x \in Byte, y \in Byte, z \in Byte : x = blob[2] /\ y = blob[3] /\ z = blob[4]
    BY <1>1
  <2>2. x * 65536 + y * 256 + z \in Nat
    BY DEF Byte
  <2> QED BY <2>1, <2>2 DEF DeclaredLength, Decodes
<1>3. PICK m \in Nat : /\ m = RoundsDecoded(l) /\ m > 0 /\ m <= Rounds
                       /\ l + 4 <= m * Span /\ m * Span \in Nat
  BY <1>2, RoundsOf
<1>4. /\ m * Span <= Rounds * Span /\ Rounds * Span \in Nat /\ m * Span = Span * m
  BY <1>3, Sizes, ProductOrder
<1>5. /\ \A e \in 1..(4 * m - 1) : ElementHeader(blob, e \div 4, e % 4) < 64
      /\ \A p \in l..(Span * m - 5) : OutputByte(blob, p) = 0
      /\ \A n \in (4 * (FE + 1) * m)..(shastaBytesPerBlob - 1) : blob[n] = 0
  BY <1>2, <1>3 DEF Decodes, TailIsZero
<1>6. d \in Seq(Byte) /\ Len(d) = l /\ \A p \in 1..l : d[p] = OutputByte(blob, p - 1)
  <2>1. d = [p \in 1..l |-> OutputByte(blob, p - 1)]
    BY <1>2 DEF decodeShastaBlob
  <2>2. ASSUME NEW p \in 1..l PROVE OutputByte(blob, p - 1) \in Byte
    <3>1. p - 1 \in Nat /\ (p - 1) + 4 < Rounds * Span
      BY <1>3, <1>4
    <3> QED BY <3>1, OutputType
  <2> QED BY <2>1, <2>2
<1>7. ASSUME NEW p \in Nat, p + 4 < m * Span PROVE DataByte(d, p) = OutputByte(blob, p)
  <2>1. CASE p < l
    <3>1. p + 1 \in 1..l /\ (p + 1) - 1 = p
      BY <2>1
    <3> QED BY <1>6, <2>1, <3>1 DEF DataByte
  <2>2. CASE ~(p < l)
    <3>1. p \in l..(Span * m - 5)
      BY <1>3, <1>4, <1>7, <2>2
    <3>2. DataByte(d, p) = 0
      BY <1>6, <2>2 DEF DataByte
    <3> QED BY <1>5, <3>1, <3>2
  <2> QED BY <2>1, <2>2
<1>8. blob[1] = 0 /\ \A b \in 1..4 : Preamble(d)[b] = blob[b]
  <2>1. PICK x \in Byte, y \in Byte, z \in Byte : x = blob[2] /\ y = blob[3] /\ z = blob[4]
    BY <1>1
  <2>2. l = x * 65536 + y * 256 + z
    BY <1>2, <2>1 DEF DeclaredLength
  <2>3. l \div 65536 = x
    BY <2>2 DEF Byte
  <2>4. l \div 256 = x * 256 + y
    BY <2>2 DEF Byte
  <2>5. (x * 256 + y) % 256 = y
    BY DEF Byte
  <2>6. l % 256 = z
    BY <2>2 DEF Byte
  <2>7. blob[1] = 0
    BY DEF Decodes
  <2>8. Preamble(d) = <<blob[1], blob[2], blob[3], blob[4]>>
    BY <1>6, <2>1, <2>3, <2>4, <2>5, <2>6, <2>7 DEF Preamble
  <2> QED BY <2>7, <2>8
\* The headers of a round that is decoded.
<1>9. ASSUME NEW r \in Nat, r < m, NEW i \in 0..3
      PROVE  /\ i # 0 \/ r # 0 => blob[At(r, i, 0)] = HeaderByte(d, r, i)
             /\ blob[At(r, i, 0)] % 64 = HeaderByte(d, r, i) % 64
  <2>1. r < Rounds
    BY <1>3, <1>9, Sizes
  <2>2. ASSUME NEW k \in 0..3 PROVE ElementHeader(blob, r, k) \in Byte
    <3>1. 0 \in 0..FE
      BY Sizes
    <3> QED BY <2>1, <3>1, HeaderAt, ByteAt
  <2>3. ASSUME NEW k \in 0..3, k # 0 \/ r # 0 PROVE ElementHeader(blob, r, k) \in 0..63
    <3>1. PICK e \in 1..(4 * m - 1) : e = 4 * r + k
      BY <1>3, <1>9, <2>3
    <3>2. e \div 4 = r /\ e % 4 = k
      BY <3>1
    <3>3. ElementHeader(blob, e \div 4, e % 4) < 64
      BY <1>5
    <3>4. PICK h \in Byte : h = ElementHeader(blob, r, k)
      BY <2>2
    <3>5. h < 64
      BY <3>2, <3>3, <3>4, Zenon
    <3> QED BY <3>4, <3>5 DEF Byte
  <2>4. PICK e0 \in Byte, e1 \in 0..63, e2 \in 0..63, e3 \in 0..63 :
          /\ e0 = ElementHeader(blob, r, 0) /\ e1 = ElementHeader(blob, r, 1)
          /\ e2 = ElementHeader(blob, r, 2) /\ e3 = ElementHeader(blob, r, 3)
    <3>1. ElementHeader(blob, r, 0) \in Byte
      BY <2>2
    <3>2. /\ ElementHeader(blob, r, 1) \in 0..63 /\ ElementHeader(blob, r, 2) \in 0..63
          /\ ElementHeader(blob, r, 3) \in 0..63
      BY <2>3
    <3> QED BY <3>1, <3>2
  <2>5. ASSUME NEW k \in 0..2 PROVE HeaderData(d, r, k) = reassemble(blob, r, k)
    <3>1. PICK q \in Nat : q = Place(r, k, FE) /\ q >= 4
      BY HeaderPlace
    <3>2. FE \in 0..FE /\ k \in 0..3 /\ k # 3 /\ ~(FE < FE)
      BY Sizes
    <3>3. r < m <=> q < m * Span
      BY <3>1, <3>2, RoundOfPlace
    <3>4. PICK p \in Nat : p = q - 4 /\ p + 4 = q
      BY <3>1
    <3>5. OutputByte(blob, p) = reassemble(blob, r, k)
      BY <3>1, <3>2, <3>4, OutputAt
    <3> QED BY <1>7, <1>9, <3>1, <3>3, <3>4, <3>5 DEF HeaderData
  <2>6. PICK x, y, z : /\ x = HeaderData(d, r, 0) /\ y = HeaderData(d, r, 1)
                       /\ z = HeaderData(d, r, 2)
    OBVIOUS
  <2>7. Unpacked(x, y, z, e0, e1, e2, e3)
    <3>1. x = reassemble(blob, r, 0) /\ y = reassemble(blob, r, 1) /\ z = reassemble(blob, r, 2)
      BY <2>5, <2>6
    <3> QED BY <2>4, <3>1, ReassembleAt
  <2>8. Packed(e0 % 64, e1, e2, e3, x, y, z)
    BY <2>7, BitHeaders
  <2>9. Packed(HeaderByte(d, r, 0), HeaderByte(d, r, 1), HeaderByte(d, r, 2),
               HeaderByte(d, r, 3), x, y, z)
    BY <2>6, HeaderByteAt
  <2>10. /\ HeaderByte(d, r, 0) = e0 % 64 /\ HeaderByte(d, r, 1) = e1
         /\ HeaderByte(d, r, 2) = e2 /\ HeaderByte(d, r, 3) = e3
    BY <2>8, <2>9 DEF Packed
  <2>11. r # 0 => e0 % 64 = e0
    <3>1. r # 0 => e0 \in 0..63
      BY <2>3, <2>4
    <3> QED BY <3>1
  <2>12. (e0 % 64) % 64 = e0 % 64
    BY DEF Byte
  <2> QED BY <2>4, <2>10, <2>11, <2>12, HeaderAt

\* The other bytes of a round that is decoded.
<1>10. ASSUME NEW r \in Nat, r < m, NEW i \in 0..3, NEW b \in 0..FE, b # 0
       PROVE  blob[At(r, i, b)] = Framed(d, Place(r, i, b - 1))
  <2>1. b - 1 \in 0..FE /\ b - 1 < FE /\ (b - 1) + 1 = b
    BY <1>10, Sizes
  <2>2. PICK q \in Nat : q = Place(r, i, b - 1)
    BY <2>1, DataIndex
  <2>3. CASE q < 4
    <3>1. PICK x \in Nat, y \in Nat : x = Span * r /\ y = (FE + 1) * i
      BY Sizes
    <3>2. x + y + (b - 1) < 4
      BY <2>2, <2>3, <3>1 DEF Place
    <3>3. x = 0 /\ y = 0
      <4>1. r # 0 => Span * 1 <= x
        <5>1. r # 0 => 1 * Span <= r * Span
          BY Sizes, ProductOrder
        <5> QED BY <3>1, <5>1, Sizes
      <4>2. i # 0 => (FE + 1) * 1 <= y
        <5>1. i # 0 => 1 * (FE + 1) <= i * (FE + 1)
          BY Sizes, ProductOrder
        <5> QED BY <3>1, <5>1, Sizes
      <4>3. r = 0 => x = 0
        BY <3>1, Sizes
      <4>4. i = 0 => y = 0
        BY <3>1, Sizes
      <4> QED BY <3>2, <4>1, <4>2, <4>3, <4>4, Sizes
    <3>4. r = 0 /\ i = 0
      <4>1. r # 0 => 1 * Span <= r * Span
        BY Sizes, ProductOrder
      <4>2. i # 0 => 1 * (FE + 1) <= i * (FE + 1)
        BY Sizes, ProductOrder
      <4> QED BY <3>1, <3>3, <4>1, <4>2, Sizes
    <3>5. At(r, i, b) = b /\ q = b - 1
      <4>1. (4 * 0 + 0) * (FE + 1) = 0
        BY Sizes
      <4> QED BY <2>2, <3>1, <3>3, <3>4, <4>1 DEF At, Place
    <3>6. b \in 1..4 /\ q + 1 = b
      BY <1>10, <2>3, <3>5
    <3> QED BY <1>8, <2>2, <2>3, <3>5, <3>6 DEF Framed
  <2>4. CASE ~(q < 4)
    <3>1. PICK p \in Nat : p = q - 4 /\ p + 4 = q
      BY <2>4
    <3>2. r < m <=> q < m * Span
      BY <2>1, <2>2, RoundOfPlace
    <3>3. OutputByte(blob, p) = blob[At(r, i, b)]
      <4>1. PICK j \in 0..FE : j = b - 1 /\ j < FE /\ j + 1 = b
        BY <2>1
      <4>2. p + 4 = Place(r, i, j) /\ (i = 3 => j < FE)
        BY <2>2, <3>1, <4>1
      <4>3. OutputByte(blob, p) =
              IF j < FE THEN blob[At(r, i, j + 1)] ELSE reassemble(blob, r, i)
        BY <4>2, OutputAt, ZenonT(30)
      <4> QED BY <4>1, <4>3
    <3>4. DataByte(d, p) = OutputByte(blob, p)
      BY <1>7, <1>10, <3>1, <3>2
    <3> QED BY <2>2, <2>4, <3>1, <3>3, <3>4 DEF Framed
  <2> QED BY <2>3, <2>4
<1>11. ASSUME NEW n \in 1..(shastaBytesPerBlob - 1)
       PROVE  blob[n] = Encode(d)[n]
  <2>1. n \in Nat /\ n < Rounds * (4 * (FE + 1))
    BY Sizes
  <2>2. PICK r \in Nat, i \in 0..3, b \in 0..FE : n = At(r, i, b)
    BY <2>1, BlobIndices
  <2>3. (r < m <=> n < m * (4 * (FE + 1))) /\ (r < Rounds <=> n < Rounds * (4 * (FE + 1)))
    BY <2>2, RoundOfByte, Sizes
  <2>4. r < Rounds
    BY <2>1, <2>3
  <2>5. Encode(d)[n] = IF b = 0 THEN HeaderByte(d, r, i) ELSE Framed(d, Place(r, i, b - 1))
    BY <2>2, <2>4, EncodeAt
  <2>6. CASE r < m /\ b = 0
    <3>1. i # 0 \/ r # 0
      <4>1. (4 * 0 + 0) * (FE + 1) + 0 = 0
        BY Sizes
      <4> QED BY <2>2, <2>6, <4>1 DEF At
    <3> QED BY <1>9, <2>2, <2>5, <2>6, <3>1
  <2>7. CASE r < m /\ b # 0
    BY <1>10, <2>2, <2>5, <2>7
  <2>8. CASE ~(r < m)
    <3>1. Encode(d)[n] = 0
      BY <1>3, <1>6, <2>2, <2>4, <2>8, EncodedTail
    <3>2. PICK w \in Nat : w = m * (4 * (FE + 1)) /\ w = 4 * (FE + 1) * m
      BY <1>3, Sizes
    <3>3. n \in (4 * (FE + 1) * m)..(shastaBytesPerBlob - 1)
      BY <2>3, <2>8, <3>2, Sizes
    <3> QED BY <1>5, <3>1, <3>3
  <2> QED BY <2>6, <2>7, <2>8
<1>12. blob[0] % 64 = Encode(d)[0]
  <2>1. PICK r \in Nat, i \in 0..3, b \in 0..FE : r = 0 /\ i = 0 /\ b = 0
    BY Sizes
  <2>2. At(r, i, b) = 0
    <3>1. (4 * 0 + 0) * (FE + 1) + 0 = 0
      BY Sizes
    <3> QED BY <2>1, <3>1 DEF At
  <2>3. r < m /\ r < Rounds
    BY <1>3, <2>1, Sizes
  <2>4. Encode(d)[0] = HeaderByte(d, r, i)
    BY <2>1, <2>2, <2>3, EncodeAt
  <2>5. blob[0] % 64 = HeaderByte(d, r, i) % 64
    BY <1>9, <2>1, <2>2, <2>3
  <2>6. HeaderByte(d, r, i) % 64 = HeaderByte(d, r, i)
    <3>1. PICK x : x = HeaderData(d, r, 0)
      OBVIOUS
    <3>2. x \in Byte
      <4>1. PICK q \in Nat : q = Place(r, 0, FE) /\ q >= 4
        BY HeaderPlace
      <4>2. q - 4 \in Nat
        BY <4>1
      <4> QED BY <1>6, <3>1, <4>1, <4>2, DataByteType DEF HeaderData
    <3>3. HeaderByte(d, r, 0) = x % 64
      BY <3>1, HeaderByteAt DEF Packed
    <3>4. (x % 64) % 64 = x % 64
      BY <3>2 DEF Byte
    <3> QED BY <2>1, <3>3, <3>4
  <2> QED BY <2>4, <2>5, <2>6
<1> QED BY <1>2, <1>6, <1>11, <1>12

-----------------------------------------------------------------------------
(* Invariance *)

\* RawBlobs are bytes, and one that was not edited is what the proposer has made.
BlobInv ==
  /\ original \in Payloads /\ raw \in RawBlobs /\ edits \in 0..MaxEdits
  /\ edits = 0 => raw = Encode(original)

LEMMA PreambleType ==
  ASSUME NEW d \in Payloads
  PROVE  \A k \in 1..4 : Preamble(d)[k] \in Byte
<1>1. PICK l \in Nat : l = Len(d) /\ l < 256 * 65536
  <2>1. d \in Seq(Byte)
    BY PayloadAssumption, SMT
  <2>2. PICK l \in Nat, s \in Int : l = Len(d) /\ s = shastaBlobMaxDataSize
    BY <2>1, Sizes
  <2> QED BY <2>2, PayloadAssumption, SMT
<1>2. PICK x, y, z : x = l \div 65536 /\ y = (l \div 256) % 256 /\ z = l % 256
  BY SMT
<1>3. x \in 0..255
  <2>1. x \in Nat /\ x * 65536 <= l
    BY <1>2, SMT
  <2> QED BY <1>1, <2>1, SMT
<1>4. y \in 0..255 /\ z \in 0..255
  BY <1>2, SMT
<1>5. Preamble(d) = <<0, x, y, z>>
  BY <1>1, <1>2, SMT DEF Preamble
<1> QED BY <1>3, <1>4, <1>5, SMT DEF Byte

LEMMA EncodeType ==
  ASSUME NEW d \in Payloads
  PROVE  Encode(d) \in RawBlobs
<1>1. d \in Seq(Byte)
  BY PayloadAssumption, SMT
<1>2. ASSUME NEW n \in 0..(shastaBytesPerBlob - 1) PROVE Encode(d)[n] \in Byte
  <2>1. n \in Nat /\ n < Rounds * (4 * (FE + 1))
    BY Sizes
  <2>2. PICK r \in Nat, i \in 0..3, b \in 0..FE : n = At(r, i, b)
    BY <2>1, BlobIndices
  <2>3. r < Rounds <=> n < Rounds * (4 * (FE + 1))
    BY <2>2, RoundOfByte, Sizes
  <2>4. Encode(d)[n] = IF b = 0 THEN HeaderByte(d, r, i) ELSE Framed(d, Place(r, i, b - 1))
    BY <2>1, <2>2, <2>3, EncodeAt
  <2>5. CASE b = 0
    <3>1. ElementHeader(Encode(d), r, i) \in 0..63
      <4>1. r < Rounds
        BY <2>1, <2>3
      <4>2. PICK blob : blob = Encode(d)
        OBVIOUS
      <4>3. \A k \in 0..3 : ElementHeader(blob, r, k) \in 0..63
        BY <1>1, <4>1, <4>2, EncodedHeaders
      <4> QED BY <4>2, <4>3
    <3>2. ElementHeader(Encode(d), r, i) = Encode(d)[n]
      BY <2>2, <2>5, HeaderAt
    <3> QED BY <3>1, <3>2 DEF Byte
  <2>6. CASE b # 0
    <3>1. b - 1 \in 0..FE /\ b - 1 < FE
      BY <2>6, Sizes
    <3>2. PICK q \in Nat : q = Place(r, i, b - 1)
      BY <3>1, DataIndex
    <3>3. CASE q < 4
      <4>3. \A k \in 1..4 : Preamble(d)[k] \in Byte
        BY PreambleType
      <4>4. q + 1 \in 1..4
        BY <3>3
      <4> QED BY <2>4, <2>6, <3>2, <3>3, <4>3, <4>4 DEF Framed
    <3>4. CASE ~(q < 4)
      <4>1. q - 4 \in Nat
        BY <3>4
      <4> QED BY <1>1, <2>4, <2>6, <3>2, <3>4, <4>1, DataByteType DEF Framed
    <3> QED BY <3>3, <3>4
  <2> QED BY <2>5, <2>6
<1>3. Encode(d) = [n \in 0..(shastaBytesPerBlob - 1) |-> Encode(d)[n]]
  BY DEF Encode
<1> QED BY <1>2, <1>3 DEF RawBlobs

LEMMA BlobInvariance == CodecSpec => []BlobInv
<1>1. CodecInit => BlobInv
  BY EncodeType, PayloadAssumption DEF CodecInit, BlobInv
<1>2. BlobInv /\ [CodecNext]_codecVars => BlobInv'
  <2> SUFFICES ASSUME BlobInv, [CodecNext]_codecVars PROVE BlobInv'
    OBVIOUS
  <2>1. ASSUME NEW n \in 0..(shastaBytesPerBlob - 1), NEW value \in EditValues, Edit(n, value)
        PROVE  BlobInv'
    BY <2>1, PayloadAssumption DEF Edit, BlobInv, RawBlobs
  <2>2. CASE Restore
    BY <2>2, EncodeType, PayloadAssumption DEF Restore, BlobInv
  <2>3. CASE UNCHANGED codecVars
    BY <2>3 DEF codecVars, BlobInv
  <2> QED BY <2>1, <2>2, <2>3 DEF CodecNext
<1> QED BY <1>1, <1>2, PTL DEF CodecSpec

\* Every manifest that fits into a blob survives the encoding, for any size of field
\* elements and any number of rounds: decodeShastaBlob finds no error and returns it.
THEOREM EncodedBlobsDecode == CodecSpec => []RoundTrip
<1>1. BlobInv => RoundTrip
  BY EncodingDecodes, PayloadAssumption DEF BlobInv, RoundTrip
<1> QED BY <1>1, BlobInvariance, PTL

\* decodeShastaBlob accepts no blob but an encoding: whatever bytes a blob is made of,
\* when it decodes it is the encoding of the result, the upper bits of its first byte
\* excepted.
THEOREM EncodingIsUnique == CodecSpec => []OneEncoding
<1>1. BlobInv => OneEncoding
  BY DecodedIsEncoding DEF BlobInv, OneEncoding
<1> QED BY <1>1, BlobInvariance, PTL

\* Any data that fits has a blob that decodes to it, and any two such blobs differ at
\* most in the upper bits of their first byte: up to those, decodeShastaBlob relates
\* blobs and data one to one, and a blob hash fixes the data and the data the blob.
THEOREM OneBlobPerPayload ==
  /\ \A d \in Seq(Byte) :
       Len(d) <= shastaBlobMaxDataSize =>
         Decodes(Encode(d)) /\ decodeShastaBlob(Encode(d)) = d
  /\ \A one, other \in RawBlobs :
       Decodes(one) /\ Decodes(other) /\ decodeShastaBlob(one) = decodeShastaBlob(other) =>
         /\ one[0] % 64 = other[0] % 64
         /\ \A n \in 1..(shastaBytesPerBlob - 1) : one[n] = other[n]
<1>1. ASSUME NEW one \in RawBlobs, NEW other \in RawBlobs, Decodes(one), Decodes(other),
             decodeShastaBlob(one) = decodeShastaBlob(other)
      PROVE  /\ one[0] % 64 = other[0] % 64
             /\ \A n \in 1..(shastaBytesPerBlob - 1) : one[n] = other[n]
  <2>1. PICK d : d = decodeShastaBlob(one) /\ d = decodeShastaBlob(other)
    BY <1>1
  <2>2. /\ one[0] % 64 = Encode(d)[0]
        /\ \A n \in 1..(shastaBytesPerBlob - 1) : one[n] = Encode(d)[n]
    BY <1>1, <2>1, DecodedIsEncoding
  <2>3. /\ other[0] % 64 = Encode(d)[0]
        /\ \A n \in 1..(shastaBytesPerBlob - 1) : other[n] = Encode(d)[n]
    BY <1>1, <2>1, DecodedIsEncoding
  <2> QED BY <2>2, <2>3
<1> QED
  BY <1>1, EncodingDecodes

=============================================================================
