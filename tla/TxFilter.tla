-------------------------------- MODULE TxFilter --------------------------------
(***************************************************************************)
(* One block of a guest input: the filter executes the transactions of the *)
(* manifest on the witness state and binds what it commits to the header's *)
(* transaction root; later the replay executes the block's body.  Both     *)
(* have to agree, and the filter has to do what canonical block building   *)
(* did on the complete state (CanonicalBlock).                             *)
(*                                                                         *)
(* The EVM is external.  ExecState is what an execution touches: nonces,   *)
(* gas pool, zk gas meter (committed and of the current transaction), and  *)
(* the accounts that were read although the witness does not cover them:   *)
(* such a read returns zero, and is the StateDB's deferred error for good. *)
(*                                                                         *)
(* Fields of the block are chosen where the code first compares them.      *)
(***************************************************************************)
EXTENDS Naturals, Sequences

CONSTANTS
  Txs,         \* [sender, nonce, gas, zk, fault, zkSeen, reverts, type, signed]
  Anchors,     \* the first transactions of blocks, part of Txs
  Senders,
  PreNonce,    \* [Senders -> Nat], in the parent state
  GasLimit, ZkLimit,
  MaxManifest  \* bound on the candidates after the anchor

ASSUME TxsTyped ==
  /\ Anchors \subseteq Txs
  /\ \A t \in Txs :
       /\ t.sender \in Senders /\ t.nonce \in Nat /\ t.gas \in Nat /\ t.zk \in Nat
       /\ t.fault \in {"none", "message", "late", "fatal"}
       /\ t.zkSeen \in {"run", "commit"} \* where too much zk gas shows
       /\ t.reverts \in BOOLEAN
  /\ \A a \in Anchors : a.type = "dynamic" \* validateManifestAnchorTransaction
ASSUME LimitsTyped ==
  PreNonce \in [Senders -> Nat] /\ GasLimit \in Nat /\ ZkLimit \in Nat /\ MaxManifest \in Nat

VARIABLES
  phase,       \* "idle", "select", "filter", "filtered", "replay", "proved", "unreplayable"
  unzen,       \* the block is an Unzen block
  witness,     \* the senders whose accounts the witness covers
  candidates,  \* the transactions the filter has not yet tried
  committed,   \* those it has committed
  filterState, \* the filter's ExecState
  body,        \* the transactions the replay has not yet executed
  receipts,    \* how many it has executed
  replayState  \* the replay's ExecState

vars == <<phase, unzen, witness, candidates, committed, filterState,
          body, receipts, replayState>>

ExecState == [nonce : [Senders -> Nat], gas : Nat, zk : Nat, zkTx : Nat, missing : SUBSET Senders]

\* state.New on the witness's root, a new gas pool and a new meter.
NewState == [nonce |-> PreNonce, gas |-> GasLimit, zk |-> 0, zkTx |-> 0, missing |-> {}]

Init ==
  /\ phase = "idle" /\ unzen = FALSE /\ witness = {}
  /\ candidates = <<>> /\ committed = <<>> /\ filterState = NewState
  /\ body = <<>> /\ receipts = 0 /\ replayState = NewState

-----------------------------------------------------------------------------
(* The EVM *)

ResetTransaction(s) == [s EXCEPT !.zkTx = 0]

\* The meter has seen more zk gas than the block may use.
ZkExceeded(s) == unzen /\ s.zk + s.zkTx > ZkLimit

\* ApplyTransactionWithEVM: what is left of s, and the error.  Gas is taken from
\* the pool before the late checks, the nonce goes up before the code runs.
Apply(s, t) ==
  LET nonce == IF t.sender \in witness THEN s.nonce[t.sender] ELSE 0
      left(nonces, gas, zkTx) ==
        [nonce |-> nonces, gas |-> gas, zk |-> s.zk, zkTx |-> zkTx,
         missing |-> s.missing \cup ({t.sender} \ witness)]
      read == left(s.nonce, s.gas, s.zkTx)
      bought == left(s.nonce, s.gas - t.gas, s.zkTx)
      run == left([s.nonce EXCEPT ![t.sender] = @ + 1], s.gas - t.gas,
                  IF unzen THEN s.zkTx + t.zk ELSE s.zkTx)
  IN  IF t.nonce # nonce \/ t.gas > s.gas THEN [state |-> read, err |-> "recoverable"]
      ELSE IF t.fault = "fatal" THEN [state |-> bought, err |-> "fatal"]
      ELSE IF t.fault = "late" THEN [state |-> bought, err |-> "recoverable"]
      ELSE IF ZkExceeded(run) /\ t.zkSeen = "run" THEN [state |-> run, err |-> "zk"]
      ELSE [state |-> run, err |-> "none"]

\* CommitTransaction, when it succeeds.
CommitZk(s) == IF unzen THEN [s EXCEPT !.zk = @ + s.zkTx] ELSE s

-----------------------------------------------------------------------------
(* The filter *)

StartFilter(anchor, isUnzen, covered) ==
  /\ phase = "idle" /\ phase' = "select"
  /\ unzen' = isUnzen /\ witness' = covered
  /\ candidates' = <<anchor>>
  /\ UNCHANGED <<committed, filterState, body, receipts, replayState>>

\* One turn of the loop in manifestCandidateTransactions, for the manifest's next
\* transaction t.  Blob transactions and those without a sender are never tried.
SelectTx(t) ==
  /\ phase = "select" /\ Len(candidates) <= MaxManifest
  /\ candidates' = IF t.type # "blob" /\ t.signed THEN Append(candidates, t) ELSE candidates
  /\ UNCHANGED <<phase, unzen, witness, committed, filterState, body, receipts, replayState>>

FinishSelect ==
  /\ phase = "select" /\ phase' = "filter"
  /\ UNCHANGED <<unzen, witness, candidates, committed, filterState,
                 body, receipts, replayState>>

Reset ==
  /\ phase' = "idle" /\ unzen' = FALSE /\ witness' = {}
  /\ candidates' = <<>> /\ committed' = <<>> /\ filterState' = NewState
  /\ body' = <<>> /\ receipts' = 0 /\ replayState' = NewState

\* Mutation: the gas that a skipped transaction bought is not given back.
revertStateOnly(snapshot, s) == [snapshot EXCEPT !.gas = s.gas, !.missing = s.missing]

\* State and gas pool go back to the snapshot.  The meter does not, nor does the
\* deferred error.
revertManifestCandidate(snapshot, s) ==
  [snapshot EXCEPT !.zkTx = s.zkTx, !.missing = s.missing]

\* Mutation: a read beyond the witness goes unnoticed.
witnessStateErrorIgnored(s) == s.missing = Senders /\ s.missing = {}

manifestWitnessStateError(s) == s.missing # {}

\* The errors for which canonical block building leaves a transaction out.
isRecoverableNonAnchorTxError(err) == err \in {"recoverable", "zk"}

\* The candidate is executed after a snapshot.
Snapshot == IF unzen THEN ResetTransaction(filterState) ELSE filterState
Tried == Apply(Snapshot, Head(candidates))

IsAnchor == committed = <<>>

Trying == phase = "filter" /\ candidates # <<>>

\* TransactionToMessage fails, before anything is executed.
SkipMessage ==
  /\ Trying /\ ~IsAnchor
  /\ Head(candidates).fault = "message"
  /\ candidates' = Tail(candidates)
  /\ UNCHANGED <<phase, unzen, witness, committed, filterState, body, receipts, replayState>>

\* The execution ends in an error that canonical block building skips.
SkipFailed ==
  /\ Trying /\ ~IsAnchor
  /\ Head(candidates).fault # "message"
  /\ ~manifestWitnessStateError(Tried.state)
  /\ isRecoverableNonAnchorTxError(Tried.err) /\ Tried.err # "zk"
  /\ filterState' = revertManifestCandidate(Snapshot, Tried.state)
  /\ candidates' = Tail(candidates)
  /\ UNCHANGED <<phase, unzen, witness, committed, body, receipts, replayState>>

\* Too much zk gas, in the run or when the meter commits it, ends the loop.
StopAtZkLimit ==
  /\ Trying /\ ~IsAnchor
  /\ Head(candidates).fault # "message"
  /\ ~manifestWitnessStateError(Tried.state)
  /\ Tried.err = "zk" \/ (Tried.err = "none" /\ ZkExceeded(Tried.state))
  /\ filterState' = ResetTransaction(revertManifestCandidate(Snapshot, Tried.state))
  /\ candidates' = <<>>
  /\ UNCHANGED <<phase, unzen, witness, committed, body, receipts, replayState>>

CommitCandidate ==
  /\ Trying
  /\ Head(candidates).fault # "message"
  /\ ~manifestWitnessStateError(Tried.state)
  /\ Tried.err = "none" /\ ~ZkExceeded(Tried.state)
  /\ IsAnchor => ~Head(candidates).reverts
  /\ filterState' = CommitZk(Tried.state)
  /\ committed' = Append(committed, Head(candidates))
  /\ candidates' = Tail(candidates)
  /\ UNCHANGED <<phase, unzen, witness, body, receipts, replayState>>

FinishFilter ==
  /\ phase = "filter" /\ candidates = <<>>
  /\ phase' = "filtered"
  /\ UNCHANGED <<unzen, witness, candidates, committed, filterState,
                 body, receipts, replayState>>

-----------------------------------------------------------------------------
(* The replay *)

\* The header's transaction root is that of the committed list, and so is the
\* body's: Execute starts.
StartReplay ==
  /\ phase = "filtered"
  /\ phase' = IF unzen /\ \E i \in 1..Len(committed) : committed[i].type = "blob"
              THEN "unreplayable" ELSE "replay"
  /\ body' = committed
  /\ UNCHANGED <<unzen, witness, candidates, committed, filterState, receipts, replayState>>

\* Mutation: the meter is not reset between transactions.
ReplayKeepsMeter == replayState

\* The meter starts every transaction at zero.
ReplayResets == IF unzen THEN ResetTransaction(replayState) ELSE replayState
Replayed == Apply(ReplayResets, Head(body))

\* One turn of the loop in processUnzenReplayBlock.  Too much zk gas after the
\* anchor ends the loop without an error, and the body is then longer than the
\* receipts; the anchor's own is not looked at when the meter refuses it.
ReplayTx ==
  /\ phase = "replay" /\ body # <<>>
  /\ IF \/ Head(body).fault = "message"
        \/ Replayed.err # "none"
        \/ receipts > 0 /\ ZkExceeded(Replayed.state)
     THEN /\ phase' = "unreplayable"
          /\ UNCHANGED <<body, receipts, replayState>>
     ELSE /\ replayState' = IF ZkExceeded(Replayed.state) THEN Replayed.state
                            ELSE CommitZk(Replayed.state)
          /\ receipts' = receipts + 1
          /\ body' = Tail(body)
          /\ UNCHANGED phase
  /\ UNCHANGED <<unzen, witness, candidates, committed, filterState>>

\* The deferred error is looked at once, at the end; the header has the right
\* difficulty (zk gas) and roots.
FinishReplay ==
  /\ phase = "replay" /\ body = <<>>
  /\ phase' = IF replayState.missing # {} THEN "unreplayable" ELSE "proved"
  /\ UNCHANGED <<unzen, witness, candidates, committed, filterState,
                 body, receipts, replayState>>

\* The request ends: an error of the anchor, a read beyond the witness, a fatal
\* error, a root or difficulty that differs, a cancelled context, or a proof.
EndRequest == phase # "idle" /\ Reset

Next ==
  \/ \E anchor \in Anchors, isUnzen \in BOOLEAN, covered \in SUBSET Senders :
       StartFilter(anchor, isUnzen, covered)
  \/ \E t \in Txs : SelectTx(t)
  \/ FinishSelect
  \/ SkipMessage \/ SkipFailed \/ StopAtZkLimit \/ CommitCandidate \/ FinishFilter
  \/ StartReplay \/ ReplayTx \/ FinishReplay
  \/ EndRequest

Spec == Init /\ [][Next]_vars

-----------------------------------------------------------------------------
(* Properties *)

\* The types.  The replay has executed what is no longer in its list, and an
\* execution that goes on has read nothing beyond the witness.
TypeOK ==
  /\ phase \in {"idle", "select", "filter", "filtered", "replay", "proved", "unreplayable"}
  /\ unzen \in BOOLEAN /\ witness \subseteq Senders
  /\ candidates \in Seq(Txs) /\ committed \in Seq(Txs) /\ body \in Seq(Txs)
  /\ receipts \in Nat
  /\ filterState \in ExecState /\ replayState \in ExecState
  /\ filterState.missing = {}
  /\ phase \in {"replay", "proved"} => receipts + Len(body) = Len(committed)

\* The filter builds the canonical block: each step is a step of CanonicalBlock
\* or changes nothing of it.  In particular a skipped transaction leaves no trace,
\* and no witness, however incomplete, turns a good transaction into a skipped one.
Canonical ==
  INSTANCE CanonicalBlock WITH
    stage <- IF phase \in {"idle", "select"} THEN "idle"
             ELSE IF phase = "filter" THEN "building" ELSE "built",
    zkMetered <- IF phase = "select" THEN FALSE ELSE unzen,
    todo <- IF phase = "select" THEN <<>> ELSE candidates,
    block <- [txs |-> committed, nonce |-> filterState.nonce,
              gas |-> filterState.gas, zk |-> filterState.zk]

BuildsCanonicalBlock == Canonical!Spec

\* A block that the filter has bound is never refused by the replay for its
\* transactions: each of them executes again, in the same order and without the
\* skipped ones between them, none exceeds the zk gas, and both end in the same
\* state.
ReplayAgrees ==
  /\ phase # "unreplayable"
  /\ phase = "proved" =>
       /\ receipts = Len(committed)
       /\ replayState.nonce = filterState.nonce
       /\ replayState.gas = filterState.gas
       /\ replayState.zk = filterState.zk

-----------------------------------------------------------------------------
(* The inductive invariant behind the refinement *)

\* Nothing is executed before the candidates are selected, nothing replayed before
\* the filter is done, and without a meter no zk gas is counted.
StartsFresh ==
  /\ phase = "idle" => ~unzen /\ candidates = <<>>
  /\ phase \in {"idle", "select"} => committed = <<>> /\ filterState = NewState
  /\ phase = "select" => candidates # <<>>
  /\ phase \in {"idle", "select", "filter", "filtered"} => receipts = 0
  /\ ~unzen => filterState.zk = 0

IInv == TypeOK /\ StartsFresh

=============================================================================
