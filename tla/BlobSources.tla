----------------------------- MODULE BlobSources -----------------------------
(***************************************************************************)
(* How the sources of a proposal are read.  L1 commits to the blobs of a   *)
(* source by their hashes; the request brings the blobs themselves, and    *)
(* perhaps their KZG commitments, in data_sources.  They are checked       *)
(* against the proposal (blob_validate.go) and then decoded into the       *)
(* manifests from which blocks are derived (manifest_validate.go).         *)
(*                                                                         *)
(* A blob is what BlobCodec decodes it to, or Garbage.  Its hash and its   *)
(* commitment stand for the blob, and the hash of a proposal for the       *)
(* proposal.  The 64 bytes before a manifest are two units here, its       *)
(* version and its size; a manifest is compressed to Stream[m].            *)
(***************************************************************************)
EXTENDS Integers, Sequences, SequencesExt

CONSTANTS
  Garbage,       \* the content of a blob that decodeShastaBlob refuses
  Short,         \* raw bytes that are not as long as a blob
  Malformed,     \* JSON that is null or is not what its field takes
  Absent,        \* a field that is left out
  Default,       \* defaultSourceManifest
  Manifests,     \* what proposers publish
  Stream,        \* the compressed bytes of each of them
  Usable,        \* the manifests that decode, with transactions that can execute
  BlockCount,    \* how many blocks each has
  MaxBlocks,     \* of one source
  shastaMaxManifestOffset,
  Word32, Word64,  \* 2^32 and 2^64
  OddSources,    \* sources that no manifest was published in
  MaxSources     \* bound on the sources of a proposal

PayloadVersion == 1
HeaderSize == 2

ASSUME StreamAssumption ==
  /\ Stream \in [Manifests -> Seq(Nat) \ {<<>>}]
  /\ \A m, n \in Manifests : m # n => ~IsPrefix(Stream[m], Stream[n])
  /\ \A m \in Manifests : Len(Stream[m]) < Word64
ASSUME ManifestAssumption ==
  /\ Usable \subseteq Manifests /\ BlockCount \in [Manifests -> Nat] /\ MaxBlocks \in Nat
  /\ Default \notin Manifests
ASSUME WordAssumption ==
  /\ Word32 \in Nat /\ Word64 \in Nat /\ PayloadVersion < Word32 /\ Word32 < Word64
  /\ shastaMaxManifestOffset \in Nat /\ MaxSources \in Nat \ {0}

\* What a blob holds.
Content == {Garbage} \cup Seq(Nat)

\* A derivation source of a proposal: the hashes of its blobs and an offset.
Source == [blobHashes : Seq(Content), offset : Nat]

ASSUME SourceAssumption == OddSources \subseteq Source
ASSUME MarkerAssumption ==
  /\ Garbage \notin Seq(Nat) /\ Short \notin Content /\ Malformed \notin Content
  /\ Absent \notin Seq(Content) /\ Malformed \notin Seq(Content) /\ Absent # Malformed
  /\ Malformed \notin [blobs : Seq(Content), unused : {Absent},
                      commitments : {Absent} \cup Seq(Content)]

VARIABLES
  l1,         \* the sources of the proposal on L1
  published,  \* the manifests that its proposer has put into them, or Absent
  request,    \* the proposal the client claims, the hash it signs, and data_sources
  phase,      \* "idle", "carry", "blobs", "derive", "accepted", "rejected", "cancelled"
  index,      \* the source that is looked at next
  derived     \* the manifests decoded so far

requestVars == <<request, index, derived>>
vars == <<l1, published, phase, requestVars>>

-----------------------------------------------------------------------------
(* The data source of a request *)

\* optionalByteSlicesField: a list of bytes, written as hex or as an array.
IsByteSlices(field) == field # Malformed /\ (field = Absent \/ Malformed \notin Range(field))

\* The calldata and the blob proofs are parsed and never used.
decodeBlobSourceData(data) ==
  /\ data # Malformed
  /\ data.unused # Malformed
  /\ IsByteSlices(data.blobs) /\ IsByteSlices(data.commitments)

TxDataFromBlob(data) == IF data.blobs = Absent THEN <<>> ELSE data.blobs

\* Mutation: only the blobs that are there are compared.
BlobsMatchPresent(source, data) ==
  LET blobs == TxDataFromBlob(data)
  IN  /\ Len(blobs) <= Len(source.blobHashes)
      /\ data.commitments # Absent => Len(data.commitments) = Len(blobs)
      /\ \A i \in 1..Len(blobs) :
           /\ blobs[i] # Short /\ blobs[i] = source.blobHashes[i]
           /\ data.commitments # Absent => data.commitments[i] = blobs[i]

\* The blobs are those that the source's hashes commit to, and commitments that
\* are given are theirs.
BlobsMatch(source, data) ==
  LET blobs == TxDataFromBlob(data)
  IN  /\ Len(blobs) = Len(source.blobHashes)
      /\ data.commitments # Absent => Len(data.commitments) = Len(blobs)
      /\ \A i \in 1..Len(blobs) :
           /\ blobs[i] # Short /\ blobs[i] = source.blobHashes[i]
           /\ data.commitments # Absent => data.commitments[i] = blobs[i]

-----------------------------------------------------------------------------
(* The manifest of a source *)

\* What zlib and RLP make of some bytes: the manifests whose stream they begin with.
\* What follows the stream is not read.
Inflated(bytes) == {m \in Usable : IsPrefix(Stream[m], bytes)}

SizeAt(payload, offset) == payload[offset + 2] % Word64

\* Mutation: the manifest may not end where the payload does.
SizeFitsBelow(payload, offset) == SizeAt(payload, offset) < Len(payload) - offset - HeaderSize

SizeFits(payload, offset) == SizeAt(payload, offset) <= Len(payload) - offset - HeaderSize

\* decodeManifestPayload: one manifest, or none where it returns an error.  The
\* version is cut to 32 bits and the size to 64.
decodeManifestPayload(payload, offset) ==
  IF \/ offset + HeaderSize > Len(payload)
     \/ payload[offset + 1] >= Word64 \/ payload[offset + 1] % Word32 # PayloadVersion
     \/ ~SizeFits(payload, offset)
    THEN {}
    ELSE LET start == offset + HeaderSize
         IN  {m \in Inflated(SubSeq(payload, start + 1, start + SizeAt(payload, offset))) :
                BlockCount[m] <= MaxBlocks}

\* What the source holds when its blobs are these.
ManifestOf(blobs, offset) ==
  IF Garbage \in Range(blobs) THEN Default
  ELSE LET found == decodeManifestPayload(FlattenSeq(blobs), offset)
       IN  IF found = {} THEN Default ELSE CHOOSE m \in found : TRUE

\* The source is not read from blobs (prepareSourceManifest).
IsBlobless(source) ==
  source.blobHashes = <<>> \/ source.offset > shastaMaxManifestOffset

\* Mutation: a blob that cannot be decoded is an error.
BlobErrorStrict(blobs) ==
  blobs = <<>> \/ Short \in Range(blobs) \/ Garbage \in Range(blobs)

\* decodeBlobBackedSourceManifest returns an error.
BlobError(blobs) == blobs = <<>> \/ Short \in Range(blobs)

-----------------------------------------------------------------------------
(* Proposals *)

\* A manifest as a proposer writes it.
Payload(m) == <<PayloadVersion, Len(Stream[m])>> \o Stream[m]

\* Where the i-th manifest starts when they are written one after the other.
StartOf(ms, i) == Len(FlattenSeq([j \in 1..(i - 1) |-> Payload(ms[j])]))

\* The sources share one blob, or the two that all of it is cut into.
PublishedSources(ms, cut) ==
  LET bytes == FlattenSeq([i \in 1..Len(ms) |-> Payload(ms[i])])
      blobs == IF cut = 0 THEN <<bytes>>
               ELSE <<SubSeq(bytes, 1, cut), SubSeq(bytes, cut + 1, Len(bytes))>>
  IN  [i \in 1..Len(ms) |-> [blobHashes |-> blobs, offset |-> StartOf(ms, i)]]

\* What becomes of a published manifest.
Reading(ms, i) ==
  IF /\ ms[i] \in Usable /\ BlockCount[ms[i]] <= MaxBlocks
     /\ StartOf(ms, i) <= shastaMaxManifestOffset
    THEN ms[i] ELSE Default

NoRequest == [claim |-> <<>>, hash |-> <<>>, data |-> <<>>]

Init ==
  /\ l1 = <<>> /\ published = Absent
  /\ request = NoRequest
  /\ phase = "idle" /\ index = 1
  /\ derived = <<>>

Publish(ms, cut) ==
  /\ phase = "idle" /\ l1 = <<>>
  /\ cut < Len(FlattenSeq([i \in 1..Len(ms) |-> Payload(ms[i])]))
  /\ l1' = PublishedSources(ms, cut)
  /\ published' = ms
  /\ UNCHANGED <<requestVars, phase>>

ProposeOdd(sources) ==
  /\ phase = "idle" /\ l1 = <<>>
  /\ l1' = sources
  /\ published' = Absent
  /\ UNCHANGED <<requestVars, phase>>

-----------------------------------------------------------------------------
(* A request *)

HonestSource(source, withCommitments) ==
  [blobs |-> source.blobHashes, unused |-> Absent,
   commitments |-> IF withCommitments THEN source.blobHashes ELSE Absent]

HonestData(sources) ==
  {[i \in 1..Len(sources) |-> HonestSource(sources[i], w)] : w \in BOOLEAN}

\* Lists of up to two blobs of this source, of other bytes and of no bytes.
ByteLists(source) ==
  {Absent, Malformed} \cup BoundedSeq(Range(source.blobHashes) \cup {Short, Malformed}, 2)

Commitments(source) ==
  {Absent, Malformed, <<>>, <<Malformed>>, <<Short>>, source.blobHashes, Reverse(source.blobHashes)}

AnySource(source) ==
  {Malformed, [HonestSource(source, TRUE) EXCEPT !.unused = Malformed]}
    \cup [blobs : ByteLists(source), unused : {Absent}, commitments : Commitments(source)]

\* The data of an honest client, with one source replaced or the last one left out.
AnyData(sources) ==
  LET honest == [i \in 1..Len(sources) |-> HonestSource(sources[i], FALSE)]
  IN  (UNION {{[honest EXCEPT ![i] = d] : d \in AnySource(sources[i])} : i \in 1..Len(sources)})
        \cup {SubSeq(honest, 1, Len(honest) - 1)}

\* Proposals that are nearly the one on L1.
NearClaims ==
  {SubSeq(l1, 1, Len(l1) - 1)}
    \cup {[l1 EXCEPT ![i].offset = 0] : i \in 1..Len(l1)}
    \cup {[l1 EXCEPT ![i].blobHashes = Reverse(@)] : i \in 1..Len(l1)}

Submit(claim, hash, data) ==
  /\ phase = "idle" /\ l1 # <<>>
  /\ request' = [claim |-> claim, hash |-> hash, data |-> data]
  /\ phase' = "carry"
  /\ UNCHANGED <<l1, published, index, derived>>

\* ValidateGuestInputCarry: the carry holds the hash of the proposal.
CheckCarry ==
  /\ phase = "carry"
  /\ phase' = IF request.hash = request.claim /\ Len(request.data) = Len(request.claim)
              THEN "blobs" ELSE "rejected"
  /\ UNCHANGED <<l1, published, requestVars>>

\* One source in ValidateGuestInputBlobSources.
CheckSource ==
  /\ phase = "blobs" /\ index <= Len(request.claim)
  /\ LET source == request.claim[index]
         data == request.data[index]
     IN  IF /\ decodeBlobSourceData(data)
            /\ source.blobHashes = <<>> \/ BlobsMatch(source, data)
           THEN index' = index + 1 /\ UNCHANGED phase
           ELSE phase' = "rejected" /\ UNCHANGED index
  /\ UNCHANGED <<l1, published, request, derived>>

\* A proposal must have sources.
StartDerivation ==
  /\ phase = "blobs" /\ index > Len(request.claim)
  /\ phase' = IF request.claim = <<>> THEN "rejected" ELSE "derive"
  /\ index' = 1
  /\ UNCHANGED <<l1, published, request, derived>>

\* One source in ValidateGuestInputManifestBinding, as far as its manifest.
PrepareSource ==
  /\ phase = "derive" /\ index <= Len(request.claim)
  /\ LET source == request.claim[index]
         blobs == TxDataFromBlob(request.data[index])
     IN  IF ~IsBlobless(source) /\ BlobError(blobs)
           THEN phase' = "rejected" /\ UNCHANGED <<index, derived>>
           ELSE /\ derived' = Append(derived, IF IsBlobless(source) THEN Default
                                              ELSE ManifestOf(blobs, source.offset))
                /\ index' = index + 1
                /\ UNCHANGED phase
  /\ UNCHANGED <<l1, published, request>>

\* The caller goes away between two sources.
Cancel ==
  /\ phase = "derive"
  /\ phase' = "cancelled"
  /\ UNCHANGED <<l1, published, requestVars>>

Accept ==
  /\ phase = "derive" /\ index > Len(request.claim)
  /\ phase' = "accepted"
  /\ UNCHANGED <<l1, published, requestVars>>

EndRequest ==
  /\ phase \in {"accepted", "rejected", "cancelled"}
  /\ request' = NoRequest /\ index' = 1 /\ derived' = <<>>
  /\ phase' = "idle"
  /\ UNCHANGED <<l1, published>>

\* Clients send any data for the proposal, or claim another with the data of
\* either, under either hash.
SubmitAny ==
  /\ phase = "idle" /\ l1 # <<>>
  /\ \/ \E data \in HonestData(l1) \cup AnyData(l1) : Submit(l1, l1, data)
     \/ \E claim \in NearClaims, hash \in {l1} \cup NearClaims :
          \E data \in HonestData(l1) \cup HonestData(claim) : Submit(claim, hash, data)

ProposeAny ==
  /\ phase = "idle" /\ l1 = <<>>
  /\ \E n \in 1..MaxSources :
       \/ \E ms \in [1..n -> Manifests] : \E cut \in 0..Len(Payload(ms[1])) : Publish(ms, cut)
       \/ \E sources \in [1..n -> OddSources] : ProposeOdd(sources)

Next ==
  \/ ProposeAny \/ SubmitAny
  \/ CheckCarry \/ CheckSource \/ StartDerivation \/ PrepareSource \/ Cancel \/ Accept
  \/ EndRequest

Spec == Init /\ [][Next]_vars

-----------------------------------------------------------------------------
(* Properties *)

\* Blocks are derived from what the signed proposal hash commits to and from
\* nothing else, however the data sources were put together: a client can neither
\* empty a source nor fill one, by leaving out blobs, by sending shorter ones or
\* others, or by exchanging them.
ReadAsCommitted ==
  phase = "accepted" =>
    derived = [i \in 1..Len(request.hash) |->
                 IF IsBlobless(request.hash[i]) THEN Default
                 ELSE ManifestOf(request.hash[i].blobHashes, request.hash[i].offset)]

\* What a proposer has published is what blocks are derived from, wherever it lies
\* in the blobs, up to the last byte, alone or with the manifests of other sources.
PublishedIsDerived ==
  phase = "accepted" /\ request.hash = l1 /\ published # Absent =>
    derived = [i \in 1..Len(published) |-> Reading(published, i)]

\* The blobs of the proposal are never refused, whatever they hold: no proposal
\* keeps its successors from being proved.
HonestDataAccepted ==
  phase = "rejected" =>
    ~(request.claim = l1 /\ request.hash = l1 /\ request.data \in HonestData(l1))

=============================================================================
