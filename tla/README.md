# A TLA+ model of gaiko2

gaiko2 replays Taiko Shasta proposals inside (or outside) an SGX enclave and
signs what it replayed. The modules here model the parts of it whose correctness
is a matter of order, of crashes, or of checks that only hold together: the
bootstrap of the enclave key and its deployment, the HTTP server's life, the
decoding of requests and blobs, the proving service with its two endpoints, the
derivation of L2 blocks from a proposal and the binding of headers to it, and the
filter that decides which of a manifest's transactions are in a block. TLC checks
them on small instances; TLAPS proves every safety property for every instance.
Only the four liveness properties are left to TLC alone.

## 1. The system

| Component | State | Operations | Interacts with |
|---|---|---|---|
| Bootstrap command (`cmd/gaiko2/main.go`, `internal/tee`) | sealed key file in the secret directory, `bootstrap.gaiko2.json` in the config directory | generate or load a key, quote it, write key and metadata atomically, recover metadata | other runs of itself on the same directories; the server reads both files at startup |
| Service start (`prover/config.go`, `prover/signer.go`) | mode, key, instance id, aggregate switch; all fixed at startup | native start, TEE start | the key file |
| `/prove/shasta` (`api/server.go`, `prover/validate.go`, `guestinput_carry.go`, `replay.go`) | one `ValidatedRequest` per request, progress of the replay loop | decode, validate, seal, replay block by block, sign | manifest derivation, block execution, the signer |
| `/prove/shasta-aggregate` (`prover/aggregate*.go`) | none | validate the carries, recover the signers, sign the aggregation | signatures that clients bring back |
| Proof carry data (`prover/hash.go`, `types.go`) | none | subproof hash, commitment, aggregation hash | both endpoints |
| Manifest derivation (`prover/manifest_validate.go`, `l2_state.go`) | derived blocks and parent context of one request | decode or replace each source, check anchors, bind the witness blocks, link checkpoints to L1 | replay (which confirms the claimed last anchor), the L2 `CheckpointStore` |
| Transaction filter (`prover/manifest_tx_filter.go`) | EVM state, gas pool, zk gas meter | execute candidates with snapshot and revert | must agree with the replay of the block |
| Block execution (`prover/replay.go`) | EVM state from a witness | witness checks, execution, root comparison | go-ethereum |
| Header binding (`manifest_validate.go`, `replay.go`) | parent and grandparent that roll along the blocks of a request | tie each witness header to its ancestors, its fork and the derived block | derivation before it, replay after it |
| Blob sources (`blob_validate.go`, `blob_coder.go`) | none | compare blobs with the proposal's hashes, decode blobs and manifest payloads | carry checks before, derivation after |
| Request decoding (`decode.go`, `guestinput*.go`, `transaction_encoding.go`) | none | JSON to headers, transactions, proposals, carries | feeds all checks; must agree with the RLP of manifests |
| HTTP lifecycle (`main.go` `serveHTTP`, `docker/entrypoint.sh`) | listener, Serve goroutine, shutdown context, connections | serve, drain for a grace period, exit | the handlers; `docker compose stop` and its own timer |
| Deployment scripts (`scripts/deploy-tee.sh`, `compose.yaml`) | env file, key, bootstrap and registration files of each release, containers | init, register, up, logs, health, down | bootstrap, the L1 registry, server start |

What is hard here, and what each part has to get right:

* **Bootstrap.** Several runs may interleave at every system call, each call may
  fail, and a kill or a power loss may come between any two. No file may be seen
  torn; a key may be replaced only by `--force`; what a run reports must be what
  is stored, and stay stored; and a half-finished run must be repairable.
* **Proving.** Validation trusts a number (the last anchor) that only the replay
  can confirm, and passes a mutable structure on to the signer. Whatever is
  signed must be over blocks that were derived from the real state and replayed.
* **Aggregation.** Nothing is replayed: the service must rely only on its own
  signatures, although those cover truncated numbers and although the native key
  is public.
* **Derivation.** Proposals contain anything. A legal one must never be
  unprovable, and none may bring a forged L1 checkpoint into L2 state.
* **Filter and replay** must skip the same transactions, and leave no trace of a
  skipped one.
* **Headers** are the client's: a base fee depends on a grandparent's time, fields
  change with a fork in the middle of a proposal, and genesis has no grandparent.
  Only the network's own headers may be proved, and those always.
* **Blobs and documents** have one meaning: the data that L1 has committed to is
  derived from, nothing else; a transaction that goes through two decoders is the
  same one in both; no number is cut.
* **Shutdown** must end, also while requests are in flight, and must not give up on
  them early or lose them with a status that says all is well.
* **Deployment.** Operators run commands in any order, hooks fail half way, releases
  share names. A container must serve with an id that is registered for its key.

`PROJECT.json` lists the components, and under `hazards` the lines where these
things could go wrong.

## 2. Modules

| Module | Contents |
|---|---|
| `KeyStore` | abstract specification: what unforced bootstrap runs do to a key and its metadata |
| `TeeBootstrap` (instantiates `KeyStore`) | the bootstrap command: runs, files, disk |
| `MCTeeBootstrap`, `.cfg`, `Live.cfg` | three runs (safety), two runs (liveness) |
| `TeeBootstrapProofs` | its safety theorems |
| `ShastaCarry` | carries, their hashes and the checks on a vector of them (operators only) |
| `ProofService` (extends `ShastaCarry`) | prove, aggregate, start and stop |
| `MCProofService`, `.cfg` | a small chain with a fork and with bad requests |
| `ProofServiceProofs` | its safety theorems |
| `ManifestDerivation` | derivation, anchors and L1 linkage along a chain of proposals |
| `MCManifestDerivation`, `.cfg` | small clocks, gas limits and manifests |
| `ManifestDerivationProofs` | its safety theorems |
| `CanonicalBlock` | abstract specification: canonical block building on the complete state |
| `TxFilter` (instantiates `CanonicalBlock`) | the transaction filter and the replay of what it commits |
| `MCTxFilter`, `.cfg` | two users, an anchor and every kind of bad transaction |
| `TxFilterProofs` | the filter implements `CanonicalBlock`; the replay agrees with it |
| `HttpServer` | the process, `serveHTTP`, connections, signals and compose |
| `MCHttpServer`, `.cfg` | three connections |
| `HttpServerProofs` | the safety theorems of the outside of the server: `HttpServer` and `RequestDecoding` |
| `HeaderBinding` | headers of blocks and witnesses along a chain of proposals and through the Unzen fork |
| `MCHeaderBinding`, `.cfg` | times around two forks, chain configs that agree or not |
| `HeaderBindingProofs` | its safety theorems |
| `BlobCodec` | the blob decoder against a reference encoder |
| `MCBlobCodec`, `.cfg` | six-byte field elements, two rounds |
| `BlobSources` | data sources against a proposal's blob hashes; manifest payloads |
| `MCBlobSources`, `.cfg` | manifests in one or two sources, and sources without one |
| `BlobSourcesProofs` | the safety theorems of `BlobSources` and `BlobCodec`, and lemmas about joined sequences |
| `RequestDecoding` | the field tables of the JSON decoders |
| `MCRequestDecoding`, `.cfg` | scaled widths |
| `Deployment` (instantiates `KeyStore` for each release) | releases on one host: commands, files, registry, containers |
| `MCDeployment`, `.cfg`, `Live.cfg` | two releases of two forks |
| `DeploymentProofs` | its safety theorems |

Operators whose comment starts with "Mutation" are wrong variants of the
definition that follows them. Nothing uses them; substituting one must break the
property it is paired with in `PROJECT.json`.

### TeeBootstrap

A run is a process with a control state `pc`, its `--force` flag and the key it
holds. The actions are the calls of `Bootstrap`, `SavePrivateKey`,
`SaveBootstrapData` and `BootstrapDataForExistingKey` between which something can
happen: `Start` (the stat of the key file and, if there is none or with force,
the generation), `Quote`, `EnsureDirectory`, `WriteTemp`, `SyncTemp`, `Install`
(link or rename; a lost race goes over to the winner's key), `RemoveTemp`,
`SyncDirectory`, `LoadKey`, `LoadMeta`, `Attest`. Key and metadata go through the
same write steps; `file` says which one is being written. `CallFails`, `Kill` and
`MachineCrash` are the environment. The file system is POSIX: `entry` is what
readers see, `disk` is the set of contents a power loss may leave.

`calm` is a history variable. A forced run may replace the key under any run that
overlaps it, so nothing can be said of such a run when it ends; a run is calm
when it overlapped no forced run, nor a leftover of one. A run that recovered a
key made by another run does not itself sync that key's directory entry:
`ReportedKeyDurable` therefore claims the key's durability only for the run that
created it.

`KeyStore` is the command as its users see it: a key is made where there is none, and
metadata is written for the key that is there. `QuietRunsKeepStore` says that the two
files change only in this way, call by call, while no forced run is under way; which
unforced runs race, fail or are killed does not matter. The one exception is a power
loss, after which the files may be what they were earlier.

### ShastaCarry and ProofService

Keccak is injective, so a hash is the tuple of what is hashed, with the 48-bit
truncation that `u48Word` applies. A block is its hash; the constants `Parent`,
`Number`, `Root`, `Executes` and `AnchorAt` describe the chain, and `Derivation`
holds what the blob and manifest checks accept, for the last anchor that a
request *claims*. `ReceiveProve` is the handler up to a validated, sealed request;
`Rewrite` is what the exported fields of a `ValidatedRequest` allow between
validation and `Prove`; `StartProve`, `ReplayBlock`, `SignSubproof` are `Prove`
before, in and after its loop; `AbortProve` is every failure that depends on the
client or on the witness. `Aggregate` is the other endpoint, with proofs signed by
anyone who can sign. `StartNative`, `StartTEE` and `Stop` change the key and the
mode between lives of the process; `sigs` is everything ever signed.

### ManifestDerivation

One request at a time, for the proposal that follows the L2 head. `Submit` is the
prologue of `ValidateGuestInputManifestBindingWithContext`, `PrepareSource` a turn
of its loop over the sources, `FinishSources` the source-aware anchor check (phase
`underivable` is its error), `BindBlocks` the binding of the witness blocks and the
part of `validateAnchorL1Linkage` that reads the parent state, `ReadAncestor` a
turn of its loop over the L1 ancestor headers and `FinishLinkage` the checks after
that loop. `Advance` stands for the replay and the chain: it takes place only if
the claimed last anchor is the head's, which is what the replay checks
(`ReplayAnchor` in `ProofService`). `Drop` is every other error. An L1 header is a
number and whether it is canonical; the parent hash of a canonical header names a
canonical one, that of a forged one whatever the client likes. The unsigned
difference in `shouldBypassStalledAnchorLinkage` is taken modulo `Word`.

The first head has a stored checkpoint for its anchor. Without one, a proposal
with forced sources or a stall could not be bound to the parent state; this is a
condition on the deployed chain, not something the code establishes. Its gas limit
may be outside the bounds of this fork.

### TxFilter and CanonicalBlock

One block of a guest input. `SelectTx` is a turn of the loop of
`manifestCandidateTransactions`, which drops blob transactions and those without a
sender. In the loop of `commitFilteredManifestTransactions` the head of `candidates`
is tried and exactly one of `SkipMessage`, `SkipFailed`, `StopAtZkLimit` and
`CommitCandidate` happens, or the request ends with an error (`EndRequest`: a failing
anchor, a read beyond the witness, a fatal error, a cancelled context).
`StartReplay` is the comparison of transaction roots, `ReplayTx` a turn of the replay
loop (of `processUnzenReplayBlock`, or of go-ethereum's own processor before Unzen),
`FinishReplay` the rest of `GethRunner.Execute`. The phase `unreplayable` is an error of
the replay that is the transactions' own.

The EVM is external. `Apply` keeps what one transaction can do to the next: the
sender's nonce, the gas pool, the zk gas meter with its committed and its current
part, and the reads beyond the witness, which return zero and are never forgotten.
A transaction carries how it fails, if it does: when its message is built, late
(after it has bought gas), or fatally.

`CanonicalBlock` knows neither witness nor snapshot: a transaction is executed or it
is not there. The refinement maps `candidates` to what is left to do and
`committed` with the nonces, gas and committed zk gas of `filterState` to the block.
Selection and replay are stuttering steps. What the refinement excludes is that a
skipped transaction leaves something behind, that an incomplete witness turns a good
transaction into a skipped one, and that the zk gas limit ends the block too early
or too late.

### HttpServer

`proc` is where the main goroutine is (the entrypoint's shell, starting, in the
`select`, in `Shutdown`, at the last receive), `serve` where the Serve goroutine is, `conn`
the state of each connection as net/http knows it, with handlers that read a body, work,
or work for a client that has left. The two cases of the `select` are `ReceiveServeErr` and
`BeginShutdown`; the returns of `Shutdown` are `ShutdownReturns` and `GraceExpires`;
`JoinServe` is the receive after it. net/http, the socket's backlog and the kernel are
modelled from how `serveHTTP` uses them.

Time is a step of its own. It passes only while something is timed (a drain, a stop) and
when no step that takes next to no time is waiting (`Urgent`). `ShutdownGrace` stands for
the 30 s of `serverShutdownGrace`, `StopGrace` for the 35 s of `stop_grace_period`; the
module assumes only that the second is larger, which is what `FullGrace` needs. It has two
limits that the code really has: a stop that comes while the process is still starting may
leave less than the full grace, and one that comes while the entrypoint's shell runs is
lost until the timer kills it (the shell is process 1 and has no handler). `FullGrace`
therefore speaks of stops that reached a serving or draining process. An accept loop that
fails ends the process with its handlers; that exit has status 1, and
`CleanExitLosesNothing` says nothing about it.

### HeaderBinding

One request at a time, on an L2 chain that grows by settled proofs. `Submit` is the prologue of
`ValidateGuestInputManifestBindingWithContext` with the ancestors that the client sent,
`BindBlock` a turn of its loop over the derived blocks (`RollForward` is the assignment of parent
and grandparent at its end), `ReadParentL2Storage` the reads for checkpoints, `ReplayBlock` a turn
of the replay loop as far as headers are concerned, `Settle` the L1 contract, which takes a proof only
if it builds on the head.

A block comes with its witness, and the same document is read three times. `BindBlock` runs the
transaction filter in the middle of its checks (`validateManifestTransactionRoot`): the filter opens the
state under the witness's first root and takes block hashes from its headers, which nothing has
tied to the parent at that point, so that on a witness that is not genuine
`filterManifestTransactions` may leave any selection. `ReadParentL2Storage` reads the first witness
again and compares its parent by hash. Only `ReplayBlock` checks all headers of a witness
(`validateReplayWitness`). `relied` collects every header that has been read from, also by the filter
of a request that is rejected later; `ReliesOnChain` therefore speaks of proved requests, and
`CanonicalChain` says that no selection made on other headers is settled. Whether a witness has
all nodes of the state that a step needs is an input of the step.

A hash is the header it is the hash of. A base fee is the parent block
time it was computed from, because its other inputs are fields of the parent that the hash
covers. `forkFields` are the four fields that Unzen adds, together with the static fields that are
checked with them; `txRoot` is the transactions root that the filter's selection is compared with,
`rest` every field that is compared with a derived value and read by nothing else. `Produced` is the network's producer and the reference
for `CanonicalChain` and `HonestAccepted`. A value that may be missing (the grandparent, the header
behind a compact ancestor) is a sequence of at most one element. A pre-Shasta block can be the first parent, as on
the deployed chains.

### BlobCodec and BlobSources

`BlobCodec` takes the constants of `blob_coder.go` as parameters (`FE` is the size of a field element
without its header byte, `Rounds` their number in fours), gives an encoder written from the
format, and the decoder written from the code. `Edit` changes a byte of a blob. The two upper
bits of the very first byte are not checked by the decoder, unlike those of all other elements;
`OneEncoding` compares blobs up to those two bits.

`BlobSources` has the blobs' contents in place of the decoder: a blob hash is the content it commits
to, `Garbage` is content that does not decode. `CheckSource` is a turn of the loop of
`ValidateGuestInputBlobSources`, `PrepareSource` one of the derivation's. Payload bytes are numbers
in which the version and the size take one place each, with the cuts to 32 and 64 bits kept.
`BlobError` cannot happen after `CheckSource`: it is a second line of defence, and the
model keeps it. Bytes after the zlib stream, the upper bytes of the size word and of the version are not
looked at by the code; `ReadAsCommitted` compares with a reading that does the same, since all
provers of the network have to.

### RequestDecoding

Every decoder is a table of fields: names in the order of lookup, type, default. `DecodeField` is
what the `require...` and `optional...` helpers share. Integers keep the order of their widths; numbers,
decimal and hex strings are one form. A document is what some client writes for an object, in one
of the styles of names and with absent fields left out or null; then one entry may be changed or
removed. `ValidEncoding` and `IsCandidate` are the filters on the manifest's side, so that
`HonestDecodes` is about exactly the transactions that both decoders meet. Two consequences that
the tables make visible: blob transactions have no JSON decoder, but are never candidates; and a
legacy transaction with the explicit chain ID 0 would come back with another V, but is never a
candidate either.

### Deployment

A release has its own files, a compose project is shared by releases with the same slug. Each
command first writes the options into the env file (also `logs` and `health`), then does its work.
`Bootstrap` is the outcome of an unforced run of `TeeBootstrap`: a key that is there stays, and its
data are those of the key. `StoresKept` ties the two modules together: the key and the bootstrap data of
each release are a `KeyStore`, the one that `TeeBootstrap` is shown to implement. `cmd_register` may fail before the hook, between the hook's registration on L1
and its file, or not at all. A container's process reads the id (`LoadConfig`) and then the key
(`LoadKey`), with other commands in between; compose restarts it when it exits. Operators are
assumed to give and to write only ids that are registered for the key of the release:
nothing in the program could find out otherwise.

## 3. Runs

| Run | Instance | Checks |
|---|---|---|
| `bootstrap_safety` | 3 runs, 4 keys, 2 disturbances (forced starts, failed calls, kills, power losses); 245,552 states with symmetry | `TypeOK`, `NeverTorn`, `CalmRunDescribesKey`, `ReportedKeyDurable`, `NoSilentRotation`, `QuietRunsKeepStore` |
| `bootstrap_repair` | 2 runs, 3 keys, 2 disturbances, fair; 139,798 states | `EventuallyDescribed` |
| `proof_service` | 1 handler, 7 blocks on two forks, 2 enclave keys, up to 3 signatures and 2 proofs per aggregation; 444,447 states with symmetry | `TypeOK`, `SubproofSound`, `AggregateSound` |
| `manifest_derivation` | 2 sources per proposal, up to two accepted proposals and one more under validation, origin blocks 1..4, anchor offset 2, manifests of up to 2 blocks and one that is too long; 290,224 states | `TypeOK`, `DerivedWellFormed`, `DerivationTotal`, `CheckpointsOnL1`, `HeadAdvances` |
| `tx_filter` | an anchor and up to 3 of 14 candidate transactions, 3 accounts, every subset of them as witness, before and after Unzen; 209,009 states | `TypeOK`, `ReplayAgrees`, `BuildsCanonicalBlock` |
| `http_server` | 3 connections, `ShutdownGrace` 6, `StopGrace` 7, fair; 71,658 states | `TypeOK`, `CleanExitLosesNothing`, `FullGrace`, `NoAcceptInShutdown`, `ShutdownEnds`, `DeafServerEnds` |
| `header_binding` | times 0..4 with Shasta at 1 and Unzen at 3, up to 2 blocks per proposal and block number 4, four upstream configs, witnesses of up to two headers; 189,086 states | `TypeOK`, `CanonicalChain`, `HonestAccepted`, `ReliesOnChain` |
| `blob_codec` | 5+1 bytes per element, 2 rounds, 24 payloads, up to 2 changed bytes; 297,998 states | `RoundTrip`, `OneEncoding` |
| `blob_sources` | up to 2 sources, 4 manifests cut over blobs at every place, 12 odd sources; 209,809 states | `ReadAsCommitted`, `PublishedIsDerived`, `HonestDataAccepted` |
| `request_decoding` | 12 kinds of document, each field at its edges, 3 styles, one changed entry; 47,808 states | `HonestDecodes`, `ValuesKept`, `FitsAbi` |
| `deployment` | 2 releases on 2 projects or on 1, 2 images, 2 registrations, 1 crash; 357,042 states | `IdentityRegistered`, `StoresKept` |
| `deployment_recovery` | the same instance, fair; 357,042 states | `Recovers` |

Why the bounds are enough to be interesting:

* Three bootstrap runs are two that race and one that comes after; two
  disturbances are, for example, a forced run and a power loss during it. Runs and
  keys are interchangeable, so symmetry is sound. The liveness run has no symmetry.
* The chain of `MCProofService` has, for each check, a request that only this
  check stops: a wrong root, a false last anchor, a list with a hole, an over-wide
  number, a foreign chain, a wrong proposal id, a fork, another prover. One handler
  is enough for TLC because handlers share only the immutable signer; the proofs
  are for any set of them.
* In `MCManifestDerivation` the origin can be up to four blocks ahead of an anchor
  with an offset of two, so that anchors progress, stay within range, stay at
  the edge and stall; with the two gas limits of the first head the bounds cross on
  either side. `MaxHead` stops the chain in `Advance` once it has two blocks.
* In `MCTxFilter` the gas limit and the zk gas limit are each reached by two or three
  candidates, so that one can be skipped, and one that fits come after it; zk gas
  shows in the run or only at the commit. `MaxManifest` bounds the list in `SelectTx`.

* In `MCHttpServer` one connection can be queued, one idle and one working when the signal
  comes, which are the states `Shutdown` treats differently. The difference between the timers is one
  unit, the smallest that keeps their order; the proofs are for any values.
* In `MCHeaderBinding` two blocks on top of genesis, of an early block, or of blocks settled before
  reach the third rolled grandparent and both sides of both forks within one proposal and
  between two. Every block can come with a witness of forged, swapped or compact headers, and every
  selection of the filter on it is tried. `MaxBlocks` and `MaxNumber` are bounds of `Submit`.
* In `MCBlobCodec` the lengths are those before, at and after the end of the first element, of
  the first round and of the blob. The bit layout of four header bytes and three data bytes does not
  depend on the element size, which is why it may be small. `MaxEdits` bounds `Edit`: one changed byte
  can be noticed by one check, two can cancel out (a length and a tail byte).
* In `MCRequestDecoding` the widths are powers of two with room for both edges of each below the
  next. Fields are decoded independently of each other, except parity and chain of a legacy
  transaction, so that one changed entry at a time is enough.
* In `MCDeployment` two releases are enough for every pair of commands to meet on one project or on one
  port; `MaxIds` allows a key to be registered again after a hook that failed half way, and `up` with
  the one id and the other in turn. That replaces a container for ever, which is why `Recovers` has
  the operator's replacement as an exit. There is one port, so that two projects contend for it.

Deadlock is checked in every run.

**Fairness.** `http_server` assumes that the process and net/http take the steps that need
nobody else (weak fairness of `ProcessStep`), that time passes and that the runtime kills after its timer.
It assumes nothing of clients and handlers: they may stay for ever, which is the point.
`deployment_recovery` assumes that a started process loads its files or fails, and that docker
restarts what has exited (`restart: unless-stopped`); crashes are bounded by `MaxCrashes`.
`bootstrap_repair` assumes that an undisturbed run keeps running
(weak fairness of its steps, which are plain sequential code that never waits for
another run), and the operator runs the command again without `--force` after it
has ended. That is how the documentation tells operators to recover, and without
it nothing would ever repair a run that was killed. Disturbances are bounded by
`MaxDisturbances`, i.e. they stop eventually.

## 4. Proofs

TLAPS checks the eight `...Proofs` modules completely. The assumptions are those on the constants
in the modules: distinct sentinels; typed requests, carries, transactions, manifests and
sources; enclave keys that are not public; anchors of the type that
`validateManifestAnchorTransaction` demands; manifests whose streams are shorter than 2^64 bytes
and none the beginning of another; blobs whose size three bytes can hold; integer types of which
each is wider than the one before. TLC evaluates all of them on the runs' constants. Each
inductive invariant was also checked by TLC on the instance of its run before it was proved.

Facts about sequences of any length (a list of times that rises from block to block rises
from the first to the last, a concatenation of lists has each of them at its place) are
proved from the least counterexample: `LeastElement` takes it from the library's `WFMin`, since the
library's induction theorems themselves have an operator as parameter. In the same way
`JoinExists` shows that the recursive function inside `FlattenSeq` exists.

**TeeBootstrap.** `IInv` joins the type invariant and `NeverTorn` with

* `TempSynced`: only a synced temporary file is at the install step (otherwise an
  installation could make `Torn` a possible disk content);
* `OriginOK`: which steps a generated or a loaded key can be at;
* `CalmTogether`: a calm run overlaps only calm, unforced runs;
* `CalmFacts`: a calm run that has installed or read its key, its metadata, or has
  synced them, still finds them in place.

`CalmFacts` is what the reported properties follow from, and it needs
`CalmTogether`: another unforced run cannot replace the key (its link fails), and
when it has loaded the key it writes metadata for the same one. Proved from it:
`TypeCorrect`, `NoTornFile`, `CalmRunCorrect`, `ReportDurable`; `RotationForced` is
an action property, proved from the type invariant and the case distinction over
the actions. `StoreKept` is the step simulation of `KeyStore`: a link is its `Create`, the
rename of metadata its `Describe`, which by `CalmFacts` can only be for the installed key.

**ProofService.** `IInv` joins `TypeOK` with `HandlerInv` (what a handler's progress
has established: sealed copy of a valid request, blocks replayed so far execute,
the first has confirmed the claimed anchor), `SubproofInv` (`SubproofSound` plus
the width of the numbers), `ModeInv` (only dev mode opens aggregation to the
published native key) and `AggregateSound`. The width is needed because the subproof
hash is injective only on carries that fit (`SubproofHashInjective`): with it, the
signature an aggregation relies on is a signature over that very carry. Proved:
`TypeCorrect`, `SubproofsAreSound`, `AggregatesAreSound`, for any chain, requests,
handlers, keys and sizes.

**TxFilter.** `IInv` joins `TypeOK`, which says that the filter's state holds no read
beyond the witness, with `StartsFresh` (nothing is executed before the selection
ends; without a meter no zk gas is counted), which the refinement needs to map the
beginning of a block and the end of a request. Lemmas say what `Apply` returns when
it read nothing beyond the witness (`ApplySucceeds`, `ApplyFails`, `ApplyZk`) and what
reset, revert and commit leave alone. Proved: `TypeCorrect` and `FilterIsCanonical`,
the step simulation of `CanonicalBlock`, with one lemma per canonical step.

`ReplayNeverDisagrees` needs more, because what the replay does depends on states that the
filter left long ago. `RInv` adds `Executed`: there is a run through the committed
transactions alone, from the parent state, in which each of them fits (`Fits`) and which ends
in the filter's state; while the block is replayed, the replay's state is in that run
at the number of its receipts. `CommitEffect` extends the run by what the filter commits,
`ApplyFits` says that a transaction that fits one state fits every other with the same nonces,
gas and committed zk gas. `Follows` and `NoBlobs` say what is left to replay, and that none of it is
a blob transaction, which the replay of an Unzen block refuses. (The run is an existential;
for TLC it was given as a recursive operator.)

**ManifestDerivation.** For any manifests, proposals, offsets and gas constants, any number of
sources and chains of any length. `Inv` joins the four invariants of the run with

* `SpansFit`, `TimesAhead`: the spans of the sources account for the derived blocks, which are later
  than the head;
* `AnchorsFit`: forced sources stay at the claimed anchor, and a normal source after them stays
  as a whole or progresses within the window of the origin. This is what `DerivationTotal` follows from:
  the check after the loop finds nothing that the loop has not already arranged;
* `OriginsAhead`: the head's anchor lies behind every origin that is still to come. Without it a
  stalled proposal could be out of reach of its own window;
* `ChecksPassed`, `LinkageFits`, `LinkedFits`: of the checkpoints that are no longer pending, each is in
  the parent state or was read from headers that lead, hash by hash, to the last one. If that one is
  canonical, so are they all, and the origin hash decides that at the end (`FinishLinkage`).

Proved: `TypeCorrect`, `BlocksWellFormed`, `EveryProposalDerivable`, `CheckpointsCanonical`, and
the action property `HeadOnlyAdvances`.

**HeaderBinding.** For any fork times, zk gas and bounds and any chain config that taiko-geth may
come with. The properties speak of the chain, `Inv` of the request in flight: every bound header has
its parent, time, base fee, mix and fork fields (`BlocksBound`), the grandparent that is rolled along
is the compact form of the header whose hash it claims (`AncestorsRolled`, needed because the
base fee of the next block is computed from its time), and what is replayed has the root of an
execution on its parent's (`BlocksReplayed`). The filter's reading of an unchecked witness is kept as
an implication (`BlocksFiltered`): if the witness is genuine and the parent's root good, the
transactions are the derived ones. The replay supplies both, block by block; so for `ReliesOnChain`
it is enough to remember that all that was read is in some witness (`WitnessesRead`), and to settle
it when the last block is replayed (`SignKeepsInv`). `ChainLinked` says the same of the chain, so that a
request on the head extends it to a chain of the same kind. `HonestBound` is the part for honest
clients: their blocks are the producer's, their witnesses genuine and their grandparent is there. Proved: `TypeCorrect`,
`OnlyCanonicalSettles`, `HonestNeverRejected`, `WitnessesOnChain`.

**BlobSources.** For any manifests, streams, limits and sources. `Inv` says that the carry check ties
the claimed proposal to the signed hash (`CarryChecked`), that a source behind the index has the
blobs that its hashes commit to (`BlobsChecked`), that what is derived so far is what the sources so
far commit to (`DerivedSoFar`), and what the proposer has published (`Publication`). Proved:
`DerivedAsCommitted`, `HonestDataNeverRefused` and `PublishedManifestsDerived`. The last one rests on
lemmas about bytes: `FlattenLocates` (the i-th element of a list starts where those before it end),
`BlobsHoldBytes` (two blobs joined are what was cut) and `PayloadDecodes` (what
`decodeManifestPayload` finds at an offset where a payload lies).

**BlobCodec.** For any size of elements, number of rounds and payloads. The decoder is a map
between positions, so the proof is about positions first: round, element and byte determine the
position in the blob and in its data, and are determined by it (`DivisionUnique`, `BlobIndices`,
`DataIndices`). The 24 header bits of a round are finite arithmetic, in both directions (`HeaderBits`,
`BitHeaders`). From these, `EncodingDecodes` (the decoder undoes the encoder) and `DecodedIsEncoding`
(what decodes is the encoding of the result: the rounds that are decoded give their bytes back, and
the tail is zero in both). The invariant `BlobInv` only says that an unedited blob is the encoding of
its payload and that an edited one is still made of bytes. Proved: `EncodedBlobsDecode`,
`EncodingIsUnique`, and without reference to a behaviour `OneBlobPerPayload`.

**RequestDecoding.** For any widths in this order, and any chain ID. A table for each kind of
document (`TxOwner`, `HeaderOwner`, ...) says to which field a name belongs (`Tables`), from which `NamesApart` follows: no name is
looked up for two fields. So a written field is found again (`LookupFinds`), conversions keep what was
checked to fit (`ConvertedKeeps`), and a document decodes to what it was written for
(`DocumentDecodes`). Legacy transactions need the chain and the parity back from V (`LegacyVBack`),
which holds because `IsCandidate` excludes chain ID 0. `HonestObjectsDecode` is about every object, not
only the edges that the run enumerates; `HonestRequestsDecode` is its consequence for the run's
behaviours. `NothingIsCut` and `HashedAsDecoded` hold of every document. `DecodingInv` says where the
document comes from while it is unedited, and that a result is that of the document.
The attempt to prove it showed that the arms of a `CASE` in `Edges` overlapped for the V of legacy
transactions, which leaves its value open; TLC takes the first. `Edges` now asks for that field first.

**Deployment.** For any releases, images, ports and bounds. What makes the identity of a container
right is that the key of a release is never replaced (`KeysAreKept`, proved of every command), so
that everything ever derived from it still speaks of the key that is loaded now. `Inv` says so of every
place in which an id or a key is kept: bootstrap data (`BootstrapOfKey`), env files (`EnvNamed`), the
registered ids (`FilesNamed`), and the settings, the id and the key of containers
(`ContainersNamed`). Proved: `ServesAsRegistered`, `KeysAreKept`, and `DirectoriesAreStores`, the step
simulation of `KeyStore` for each release. With `StoreKept` it closes the gap between the two models: a
deployment relies on nothing about the bootstrap command that is not proved of its runs (power loss
on the host excepted, which `Deployment` does not have).

**HttpServer.** For any set of connections and any two grace periods of which the runtime's
is the longer. `Inv` joins `TypeOK` with

* `QuietStates`: a process has no connection before it serves or after its end, and only quiescent
  ones when it joins the Serve goroutine;
* `ServeFits`: before Shutdown the Serve goroutine never reports `ErrServerClosed`, in a drain it is
  never accepting with an open listener, and at the join it accepts nothing;
* `TimersAgree`: after a stop that reached a serving process, the stop timer never runs ahead of the
  drain it overlaps, so that the drain reaches its limit first;
* `EndsFit`: nothing is lost while a process runs, with `CleanExitLosesNothing` and `FullGrace`.

`FullGrace` is not inductive without `TimersAgree`, and the timers agree only because time does not
pass while the process has a step to take. Proved: `TypeCorrect`, `CleanExitsLoseNothing`,
`GraceIsFull`, and the action property `NothingAcceptedInShutdown`.

**Only model-checked:** `EventuallyDescribed`, `ShutdownEnds`, `DeafServerEnds` and `Recovers`:
liveness under fairness is out of the prover's reach.

## 5. Not modelled

* Cryptography: Keccak, ECDSA, KZG, quotes and sealing are perfect. So are zlib and RLP.
* In the decoding of requests: the spelling of numbers and hex, the null checks of the guest
  input's envelope (`DecodeGuestInput`), the lists in access lists and ommers, the length of a logs
  bloom (`BytesToBloom` pads a short one; a long one panics and ends the request). Each is a guard on
  one value with an error as its only effect; a request that does not parse changes nothing.
* The EVM itself: in `ProofService` the execution of a block is the constant
  `Executes`, in `TxFilter` that of a transaction is `Apply`, in `HeaderBinding` it is a root that
  is right or not. System calls, receipts and logs of a block.
* The formula of the base fee (EIP-4396) and of the mix hash: only what they depend on.
* The ABI encoding of the anchor transaction and of `Anchored` events.
* That the L1 contracts give proposals in order and with the last source as the only
  normal one; `DerivationTotal` is about such proposals, the others are dropped.
* The log metadata of requests, `version`, `check`, `metadata` and `status`, which only read.
* Build scripts and the registration hook.

## 6. What could come next

* An ideal signer as an abstract specification, which signs only sound carries and which
  `ProofService` would implement under the obvious mapping; today the same is said by its invariants.
* The envelope of the guest input (`DecodeGuestInput`), if its null checks ever become more than guards.
* Power loss in `Deployment`, for which `KeyStore` would need the durability of `ReportedKeyDurable`.
