----------------------------- MODULE TxFilterProofs -----------------------------
(***************************************************************************)
(* The filter implements canonical block building, for every set of        *)
(* transactions, limits, parent state and witness.                         *)
(***************************************************************************)
EXTENDS TxFilter, TLAPS

USE DEF ExecState

\* A new execution state is an execution state.
LEMMA NewStateType ==
  NewState \in ExecState /\ NewState.missing = {} /\ NewState.zk = 0
BY LimitsTyped DEF NewState

\* ApplyTransactionWithEVM returns an execution state, whatever the outcome.
LEMMA ApplyType ==
  ASSUME NEW s \in ExecState, NEW t \in Txs
  PROVE  Apply(s, t).state \in ExecState
<1>1. t.sender \in Senders /\ t.gas \in Nat /\ t.zk \in Nat BY TxsTyped
<1>2. /\ s.nonce \in [Senders -> Nat]
      /\ s.missing \cup ({t.sender} \ witness) \in SUBSET Senders
  BY <1>1
<1>3. [s.nonce EXCEPT ![t.sender] = @ + 1] \in [Senders -> Nat] BY <1>1, <1>2
<1>4. t.gas <= s.gas => s.gas - t.gas \in Nat BY <1>1
<1> QED BY <1>1, <1>2, <1>3, <1>4 DEF Apply

\* An execution that reads nothing beyond the witness and succeeds was executable
\* on the complete state, and has exactly its effects.
LEMMA ApplySucceeds ==
  ASSUME NEW s \in ExecState, NEW t \in Txs, t.fault # "message",
         Apply(s, t).state.missing = {}, Apply(s, t).err = "none"
  PROVE  /\ t.fault = "none" /\ t.nonce = s.nonce[t.sender] /\ t.gas <= s.gas
         /\ Apply(s, t).state.nonce = [s.nonce EXCEPT ![t.sender] = @ + 1]
         /\ Apply(s, t).state.gas = s.gas - t.gas
         /\ Apply(s, t).state.zk = s.zk
         /\ Apply(s, t).state.zkTx = IF unzen THEN s.zkTx + t.zk ELSE s.zkTx
BY TxsTyped DEF Apply

\* An execution that fails recoverably could not have been executed on the complete
\* state either.
LEMMA ApplyFails ==
  ASSUME NEW s \in ExecState, NEW t \in Txs, 
         Apply(s, t).state.missing = {}, Apply(s, t).err = "recoverable"
  PROVE  ~(t.fault = "none" /\ t.nonce = s.nonce[t.sender] /\ t.gas <= s.gas)
BY TxsTyped DEF Apply

\* An execution that runs out of zk gas was executable otherwise.
LEMMA ApplyZk ==
  ASSUME NEW s \in ExecState, NEW t \in Txs, t.fault # "message",
         Apply(s, t).state.missing = {}, Apply(s, t).err = "zk"
  PROVE  /\ t.fault = "none" /\ t.nonce = s.nonce[t.sender] /\ t.gas <= s.gas
         /\ unzen /\ s.zk + s.zkTx + t.zk > ZkLimit
BY TxsTyped, LimitsTyped DEF Apply, ZkExceeded

-----------------------------------------------------------------------------
(* What the filter does to an execution state *)

\* Resetting the meter's transaction changes nothing else.
LEMMA ResetFields ==
  ASSUME NEW s \in ExecState
  PROVE  /\ ResetTransaction(s) \in ExecState
         /\ ResetTransaction(s).nonce = s.nonce /\ ResetTransaction(s).gas = s.gas
         /\ ResetTransaction(s).zk = s.zk /\ ResetTransaction(s).zkTx = 0
         /\ ResetTransaction(s).missing = s.missing
BY DEF ResetTransaction

\* A revert restores what the block is built from and keeps the deferred error.
LEMMA RevertFields ==
  ASSUME NEW snapshot \in ExecState, NEW s \in ExecState
  PROVE  LET r == revertManifestCandidate(snapshot, s)
         IN  /\ r \in ExecState
             /\ r.nonce = snapshot.nonce /\ r.gas = snapshot.gas /\ r.zk = snapshot.zk
             /\ r.missing = s.missing
BY DEF revertManifestCandidate

\* Committing zk gas changes the meter only.
LEMMA CommitFields ==
  ASSUME NEW s \in ExecState
  PROVE  /\ CommitZk(s) \in ExecState
         /\ CommitZk(s).nonce = s.nonce /\ CommitZk(s).gas = s.gas
         /\ CommitZk(s).zk = IF unzen THEN s.zk + s.zkTx ELSE s.zk
         /\ CommitZk(s).missing = s.missing
<1>1. CASE unzen BY <1>1 DEF CommitZk
<1>2. CASE ~unzen BY <1>2 DEF CommitZk
<1> QED BY <1>1, <1>2

\* The candidate at the head of the list is tried on the filter's own state.
LEMMA TriedFields ==
  ASSUME IInv, Trying
  PROVE  /\ Head(candidates) \in Txs
         /\ candidates \in Seq(Txs) /\ Tail(candidates) \in Seq(Txs)
         /\ Snapshot \in ExecState /\ Tried.state \in ExecState
         /\ Snapshot.nonce = filterState.nonce /\ Snapshot.gas = filterState.gas
         /\ Snapshot.zk = filterState.zk
         /\ unzen => Snapshot.zkTx = 0
<1>1. /\ Head(candidates) \in Txs
      /\ candidates \in Seq(Txs) /\ Tail(candidates) \in Seq(Txs)
  BY DEF IInv, TypeOK, Trying
<1>2. filterState \in ExecState BY DEF IInv, TypeOK
<1>3. /\ Snapshot \in ExecState
      /\ Snapshot.nonce = filterState.nonce /\ Snapshot.gas = filterState.gas
      /\ Snapshot.zk = filterState.zk
      /\ unzen => Snapshot.zkTx = 0
  BY <1>2, ResetFields DEF Snapshot
<1>4. Tried.state \in ExecState BY <1>1, <1>3, ApplyType DEF Tried
<1> QED BY <1>1, <1>3, <1>4

\* A candidate that succeeds was executable on the complete state, with exactly
\* these effects.
LEMMA TriedSucceeds ==
  ASSUME IInv, Trying, Head(candidates).fault # "message",
         Tried.state.missing = {}, Tried.err = "none"
  PROVE  LET t == Head(candidates) IN
         /\ t.fault = "none" /\ t.nonce = filterState.nonce[t.sender] /\ t.gas <= filterState.gas
         /\ Tried.state.nonce = [filterState.nonce EXCEPT ![t.sender] = @ + 1]
         /\ Tried.state.gas = filterState.gas - t.gas
         /\ Tried.state.zk = filterState.zk
         /\ unzen => Tried.state.zkTx = t.zk
<1> DEFINE t == Head(candidates)
<1>1. t \in Txs /\ Snapshot \in ExecState BY TriedFields
<1>2. t.zk \in Nat BY <1>1, TxsTyped
<1> HIDE DEF t
<1>3. /\ Apply(Snapshot, t) = Tried /\ t.fault # "message" BY DEF Tried, t
<1>4. /\ t.fault = "none" /\ t.nonce = Snapshot.nonce[t.sender] /\ t.gas <= Snapshot.gas
      /\ Tried.state.nonce = [Snapshot.nonce EXCEPT ![t.sender] = @ + 1]
      /\ Tried.state.gas = Snapshot.gas - t.gas
      /\ Tried.state.zk = Snapshot.zk
      /\ Tried.state.zkTx = IF unzen THEN Snapshot.zkTx + t.zk ELSE Snapshot.zkTx
  BY <1>1, <1>3, ApplySucceeds
<1>5. /\ Snapshot.nonce = filterState.nonce /\ Snapshot.gas = filterState.gas
      /\ Snapshot.zk = filterState.zk
      /\ unzen => Snapshot.zkTx = 0
  BY TriedFields
<1>6. unzen => Tried.state.zkTx = t.zk BY <1>2, <1>4, <1>5
<1> QED BY <1>4, <1>5, <1>6 DEF t

HIDE DEF ExecState

-----------------------------------------------------------------------------
(* The inductive invariant *)

\* Init implies the invariant.
LEMMA InitInv == Init => IInv
<1> SUFFICES ASSUME Init PROVE IInv OBVIOUS
<1>1. <<>> \in Seq(Txs) /\ Len(<<>>) = 0 OBVIOUS
<1>2. unzen \in BOOLEAN /\ ~unzen BY Zenon DEF Init
<1>3. TypeOK BY <1>1, <1>2, NewStateType DEF Init, TypeOK
<1>4. StartsFresh BY <1>2, NewStateType DEF Init, StartsFresh
<1> QED BY <1>3, <1>4 DEF IInv

\* Starting, selecting and finishing the selection keep it.
LEMMA SelectInv ==
  ASSUME IInv,
         \/ \E anchor \in Anchors, isUnzen \in BOOLEAN, covered \in SUBSET Senders :
              StartFilter(anchor, isUnzen, covered)
         \/ \E t \in Txs : SelectTx(t)
         \/ FinishSelect
  PROVE  IInv'
<1> USE DEF IInv, TypeOK, StartsFresh
<1>1. ASSUME NEW anchor \in Anchors, NEW isUnzen \in BOOLEAN, NEW covered \in SUBSET Senders,
             StartFilter(anchor, isUnzen, covered)
      PROVE  IInv'
  <2>1. anchor \in Txs BY TxsTyped
  <2>2. <<anchor>> \in Seq(Txs) /\ <<anchor>> # <<>> BY <2>1
  <2> QED BY <1>1, <2>2, NewStateType DEF StartFilter
<1>2. ASSUME NEW t \in Txs, SelectTx(t)
      PROVE  IInv'
  <2>1. Append(candidates, t) \in Seq(Txs) /\ Append(candidates, t) # <<>> OBVIOUS
  <2>2. candidates' \in Seq(Txs) /\ candidates' # <<>> BY <1>2, <2>1 DEF SelectTx
  <2> QED BY <1>2, <2>2 DEF SelectTx
<1>3. CASE FinishSelect BY <1>3 DEF FinishSelect
<1> QED BY <1>1, <1>2, <1>3

\* Every way in which a candidate is tried keeps it: in particular the filter's
\* state never holds a read beyond the witness.
LEMMA FilterInv ==
  ASSUME IInv, SkipMessage \/ SkipFailed \/ StopAtZkLimit \/ CommitCandidate \/ FinishFilter
  PROVE  IInv'
<1>1. CASE SkipMessage
  BY <1>1, TriedFields DEF SkipMessage, Trying, IInv, TypeOK, StartsFresh
<1>2. CASE SkipFailed
  <2>1. Trying /\ Tried.state.missing = {} BY <1>2 DEF SkipFailed, manifestWitnessStateError
  <2>2. /\ filterState' \in ExecState /\ filterState'.missing = {}
        /\ filterState'.zk = filterState.zk
    BY <1>2, <2>1, TriedFields, RevertFields DEF SkipFailed
  <2>3. candidates' \in Seq(Txs) BY <1>2, <2>1, TriedFields DEF SkipFailed
  <2> QED BY <1>2, <2>2, <2>3 DEF SkipFailed, Trying, IInv, TypeOK, StartsFresh
<1>3. CASE StopAtZkLimit
  <2>1. Trying /\ Tried.state.missing = {} BY <1>3 DEF StopAtZkLimit, manifestWitnessStateError
  <2> DEFINE r == revertManifestCandidate(Snapshot, Tried.state)
  <2>2. r \in ExecState /\ r.missing = {} /\ r.zk = filterState.zk
    BY <2>1, TriedFields, RevertFields
  <2> HIDE DEF r
  <2>3. filterState' = ResetTransaction(r) BY <1>3 DEF StopAtZkLimit, r
  <2>4. /\ filterState' \in ExecState /\ filterState'.missing = {}
        /\ filterState'.zk = filterState.zk
    BY <2>2, <2>3, ResetFields
  <2> QED BY <1>3, <2>4 DEF StopAtZkLimit, Trying, IInv, TypeOK, StartsFresh
<1>4. CASE CommitCandidate
  <2>1. Trying /\ Tried.state.missing = {}
    BY <1>4 DEF CommitCandidate, manifestWitnessStateError
  <2>2. Head(candidates).fault # "message" /\ Tried.err = "none"
    BY <1>4 DEF CommitCandidate
  <2>3. Tried.state.zk = filterState.zk
    BY <2>1, <2>2, TriedFields, ApplySucceeds DEF Tried
  <2>4. /\ filterState' \in ExecState /\ filterState'.missing = {}
        /\ ~unzen => filterState'.zk = filterState.zk
    BY <1>4, <2>1, <2>3, TriedFields, CommitFields DEF CommitCandidate
  <2>5. candidates' \in Seq(Txs) /\ committed' \in Seq(Txs)
    BY <1>4, <2>1, TriedFields DEF CommitCandidate, IInv, TypeOK
  <2> QED BY <1>4, <2>4, <2>5 DEF CommitCandidate, Trying, IInv, TypeOK, StartsFresh
<1>5. CASE FinishFilter BY <1>5 DEF FinishFilter, IInv, TypeOK, StartsFresh
<1> QED BY <1>1, <1>2, <1>3, <1>4, <1>5

\* So does every step of the replay.
LEMMA ReplayInv ==
  ASSUME IInv, StartReplay \/ ReplayTx \/ FinishReplay
  PROVE  IInv'
<1>1. CASE StartReplay BY <1>1 DEF StartReplay, IInv, TypeOK, StartsFresh
<1>2. CASE ReplayTx
  <2>1. body \in Seq(Txs) /\ body # <<>> /\ replayState \in ExecState
    BY <1>2 DEF ReplayTx, IInv, TypeOK
  <2>2. Head(body) \in Txs /\ Tail(body) \in Seq(Txs) /\ Len(Tail(body)) = Len(body) - 1
        /\ Len(body) \in Nat
    BY <2>1
  <2>3. ReplayResets \in ExecState BY <2>1, ResetFields DEF ReplayResets
  <2>4. Replayed.state \in ExecState BY <2>2, <2>3, ApplyType DEF Replayed
  <2>5. CommitZk(Replayed.state) \in ExecState BY <2>4, CommitFields
  <2>6. replayState' \in ExecState BY <1>2, <2>1, <2>4, <2>5 DEF ReplayTx
  <2>7. receipts \in Nat /\ receipts + Len(body) = Len(committed)
    BY <1>2 DEF ReplayTx, IInv, TypeOK
  <2>8. /\ phase' \in {"replay", "unreplayable"}
        /\ UNCHANGED <<unzen, witness, candidates, committed, filterState>>
        /\ phase \notin {"idle", "select", "filter", "filtered"}
    BY <1>2 DEF ReplayTx
  <2>9. /\ body' \in Seq(Txs) /\ receipts' \in Nat
        /\ phase' = "replay" => receipts' + Len(body') = Len(committed)
    <3>1. CASE phase' = "unreplayable" /\ body' = body /\ receipts' = receipts
      BY <2>1, <2>7, <3>1
    <3>2. CASE body' = Tail(body) /\ receipts' = receipts + 1
      BY <2>2, <2>7, <3>2
    <3> QED BY <1>2, <3>1, <3>2 DEF ReplayTx
  <2> QED BY <2>6, <2>8, <2>9 DEF IInv, TypeOK, StartsFresh
<1>3. CASE FinishReplay BY <1>3 DEF FinishReplay, IInv, TypeOK, StartsFresh
<1> QED BY <1>1, <1>2, <1>3

\* Every step keeps the invariant.
LEMMA StepInv == IInv /\ [Next]_vars => IInv'
<1> SUFFICES ASSUME IInv, [Next]_vars PROVE IInv' OBVIOUS
<1>1. CASE EndRequest
  <2>1. <<>> \in Seq(Txs) OBVIOUS
  <2>2. unzen' \in BOOLEAN /\ ~unzen' BY <1>1, Zenon DEF EndRequest, Reset
  <2>3. TypeOK' BY <1>1, <2>1, <2>2, NewStateType DEF EndRequest, Reset, TypeOK
  <2>4. StartsFresh' BY <1>1, <2>2, NewStateType DEF EndRequest, Reset, StartsFresh
  <2> QED BY <2>3, <2>4 DEF IInv
<1>2. CASE UNCHANGED vars BY <1>2 DEF vars, IInv, TypeOK, StartsFresh
<1> QED BY <1>1, <1>2, SelectInv, FilterInv, ReplayInv DEF Next

\* The types hold, and the filter never goes on with a state that holds a read
\* beyond the witness (manifestWitnessStateError after every candidate).
THEOREM TypeCorrect == Spec => []TypeOK
<1>1. IInv => TypeOK BY DEF IInv
<1> QED BY InitInv, StepInv, <1>1, PTL DEF Spec

-----------------------------------------------------------------------------
(* The refinement *)

\* Before the first attempt nothing of the canonical block changes, then it begins.
LEMMA SelectRefines ==
  ASSUME IInv,
         \/ \E anchor \in Anchors, isUnzen \in BOOLEAN, covered \in SUBSET Senders :
              StartFilter(anchor, isUnzen, covered)
         \/ \E t \in Txs : SelectTx(t)
         \/ FinishSelect
  PROVE  [Canonical!Next]_(Canonical!vars)
<1>1. ASSUME NEW anchor \in Anchors, NEW isUnzen \in BOOLEAN, NEW covered \in SUBSET Senders,
             StartFilter(anchor, isUnzen, covered)
      PROVE  UNCHANGED Canonical!vars
  <2>1. unzen = FALSE BY <1>1, Zenon DEF StartFilter, IInv, TypeOK, StartsFresh
  <2> QED BY <1>1, <2>1 DEF StartFilter, Canonical!vars, IInv, StartsFresh
<1>2. ASSUME NEW t \in Txs, SelectTx(t)
      PROVE  UNCHANGED Canonical!vars
  BY <1>2 DEF SelectTx, Canonical!vars
<1>3. CASE FinishSelect
  <2>1. Canonical!Begin
    BY <1>3 DEF FinishSelect, Canonical!Begin, Canonical!Fresh, IInv, TypeOK, StartsFresh,
                NewState
  <2> QED BY <2>1 DEF Canonical!Next
<1> QED BY <1>1, <1>2, <1>3

\* After the filter, nothing of the canonical block changes.
LEMMA ReplayRefines ==
  ASSUME StartReplay \/ ReplayTx \/ FinishReplay
  PROVE  UNCHANGED Canonical!vars
BY DEF StartReplay, ReplayTx, FinishReplay, Canonical!vars

\* A skipped candidate could not have been executed on the complete state, and
\* leaves no trace in the block.
LEMMA SkipRefines ==
  ASSUME IInv, SkipMessage \/ SkipFailed
  PROVE  Canonical!Skip
<1>1. Trying /\ committed # <<>> BY DEF SkipMessage, SkipFailed, IsAnchor
<1>2. CASE SkipMessage
  BY <1>1, <1>2 DEF SkipMessage, Trying, Canonical!Skip, Canonical!Executable
<1>3. CASE SkipFailed
  <2>1. Tried.state.missing = {} /\ Tried.err = "recoverable"
    BY <1>3 DEF SkipFailed, manifestWitnessStateError, isRecoverableNonAnchorTxError
  <2>2. ~Canonical!Executable(Head(candidates))
    BY <1>1, <2>1, TriedFields, ApplyFails DEF Tried, Canonical!Executable
  <2>3. /\ filterState'.nonce = filterState.nonce /\ filterState'.gas = filterState.gas
        /\ filterState'.zk = filterState.zk
    BY <1>1, <1>3, TriedFields, RevertFields DEF SkipFailed
  <2> QED BY <1>1, <1>3, <2>2, <2>3 DEF SkipFailed, Trying, Canonical!Skip
<1> QED BY <1>2, <1>3

\* The block is ended only by a candidate that is good but for its zk gas.
LEMMA StopRefines ==
  ASSUME IInv, StopAtZkLimit
  PROVE  Canonical!Full
<1>1. /\ Trying /\ committed # <<>> /\ Head(candidates).fault # "message"
      /\ Tried.state.missing = {}
  BY DEF StopAtZkLimit, IsAnchor, manifestWitnessStateError
<1>2. /\ Canonical!Executable(Head(candidates))
      /\ unzen /\ filterState.zk + Head(candidates).zk > ZkLimit
  <2>1. filterState.zk \in Nat /\ Head(candidates).zk \in Nat
    BY <1>1, TriedFields, TxsTyped DEF IInv, TypeOK, ExecState
  <2>2. CASE Tried.err = "zk"
    BY <1>1, <2>1, <2>2, TriedFields, ApplyZk DEF Tried, Canonical!Executable
  <2>3. CASE Tried.err = "none" /\ ZkExceeded(Tried.state)
    BY <1>1, <2>1, <2>3, TriedSucceeds DEF ZkExceeded, Canonical!Executable
  <2> QED BY <2>2, <2>3 DEF StopAtZkLimit
<1>3. ~Canonical!FitsZk(Head(candidates))
  <2>1. filterState.zk \in Nat /\ Head(candidates).zk \in Nat
    BY <1>1, TriedFields, TxsTyped DEF IInv, TypeOK, ExecState
  <2> QED BY <1>1, <1>2, <2>1, LimitsTyped DEF Canonical!FitsZk, Trying
<1>4. /\ filterState'.nonce = filterState.nonce /\ filterState'.gas = filterState.gas
      /\ filterState'.zk = filterState.zk
  BY <1>1, TriedFields, RevertFields, ResetFields DEF StopAtZkLimit
<1> QED BY <1>1, <1>2, <1>3, <1>4 DEF StopAtZkLimit, Trying, Canonical!Full

\* A committed candidate has exactly its effects on the complete state.
LEMMA CommitRefines ==
  ASSUME IInv, CommitCandidate
  PROVE  Canonical!Commit
<1> DEFINE t == Head(candidates)
<1>1. /\ Trying /\ t.fault # "message" /\ Tried.err = "none"
      /\ Tried.state.missing = {} /\ ~ZkExceeded(Tried.state)
  BY DEF CommitCandidate, manifestWitnessStateError
<1>2. /\ t \in Txs /\ filterState.zk \in Nat /\ t.zk \in Nat /\ Snapshot \in ExecState
  BY <1>1, TriedFields, TxsTyped DEF IInv, TypeOK, ExecState
<1>3. /\ t.fault = "none" /\ t.nonce = filterState.nonce[t.sender] /\ t.gas <= filterState.gas
      /\ Tried.state.nonce = [filterState.nonce EXCEPT ![t.sender] = @ + 1]
      /\ Tried.state.gas = filterState.gas - t.gas
      /\ Tried.state.zk = filterState.zk
      /\ unzen => Tried.state.zkTx = t.zk
  BY <1>1, TriedSucceeds
<1> HIDE DEF t
<1>4. Canonical!Executable(t) BY <1>3 DEF Canonical!Executable
<1>5. Canonical!FitsZk(t)
  BY <1>1, <1>2, <1>3, LimitsTyped DEF Canonical!FitsZk, ZkExceeded, Trying
<1>6. /\ filterState'.nonce = Tried.state.nonce /\ filterState'.gas = Tried.state.gas
      /\ filterState'.zk = IF unzen THEN filterState.zk + t.zk ELSE 0
  <2>1. Tried.state \in ExecState BY <1>1, TriedFields
  <2>2. ~unzen => filterState.zk = 0 BY DEF IInv, StartsFresh
  <2> QED BY <1>3, <2>1, <2>2, CommitFields DEF CommitCandidate
<1>7. committed' = Append(committed, t) /\ candidates' = Tail(candidates)
  BY DEF CommitCandidate, t
<1> QED BY <1>1, <1>3, <1>4, <1>5, <1>6, <1>7
        DEF CommitCandidate, Trying, Canonical!Commit, t

\* Every step of the filter and the replay is a step of canonical block building
\* or changes nothing of it.
LEMMA StepRefines ==
  ASSUME IInv, [Next]_vars
  PROVE  [Canonical!Next]_(Canonical!vars)
<1>1. CASE FinishFilter
  BY <1>1 DEF FinishFilter, Canonical!Seal, Canonical!Next
<1>2. CASE EndRequest
  <2>1. CASE phase = "select"
    BY <1>2, <2>1 DEF EndRequest, Reset, IInv, StartsFresh, Canonical!vars
  <2>2. CASE phase # "select"
    <3>1. Canonical!Abandon
      BY <1>2, <2>2 DEF EndRequest, Reset, IInv, TypeOK, NewState, Canonical!Abandon,
                        Canonical!Fresh
    <3> QED BY <3>1 DEF Canonical!Next
  <2> QED BY <2>1, <2>2
<1>3. CASE UNCHANGED vars BY <1>3 DEF vars, Canonical!vars
<1>4. CASE SkipMessage \/ SkipFailed BY <1>4, SkipRefines DEF Canonical!Next
<1>5. CASE StopAtZkLimit BY <1>5, StopRefines DEF Canonical!Next
<1>6. CASE CommitCandidate BY <1>6, CommitRefines DEF Canonical!Next
<1> QED BY <1>1, <1>2, <1>3, <1>4, <1>5, <1>6, SelectRefines, ReplayRefines DEF Next

\* The filter implements canonical block building on the complete state, whatever
\* the manifest, the parent state and the witness (commitFilteredManifestTransactions).
THEOREM FilterIsCanonical == Spec => BuildsCanonicalBlock
<1>1. Init => Canonical!Init
  BY DEF Init, NewState, Canonical!Init, Canonical!Fresh
<1>2. IInv /\ [Next]_vars => [Canonical!Next]_(Canonical!vars) BY StepRefines
<1> QED BY <1>1, <1>2, InitInv, StepInv, PTL DEF Spec, BuildsCanonicalBlock, Canonical!Spec

-----------------------------------------------------------------------------
(* The replay *)

\* What the two executions have in common.
View(s) == [nonce |-> s.nonce, gas |-> s.gas, zk |-> s.zk]

\* The transaction executes there, within the witness and the zk gas of the block.
Fits(v, t) ==
  /\ t.sender \in witness /\ t.fault = "none"
  /\ t.nonce = v.nonce[t.sender] /\ t.gas <= v.gas
  /\ unzen => v.zk + t.zk <= ZkLimit

Effect(v, t) ==
  [nonce |-> [v.nonce EXCEPT ![t.sender] = @ + 1], gas |-> v.gas - t.gas,
   zk |-> IF unzen THEN v.zk + t.zk ELSE v.zk]

\* h goes from the parent state through the committed transactions, one by one.
Executes(h) ==
  /\ h[0] = View(NewState)
  /\ \A i \in 1..Len(committed) :
       Fits(h[i - 1], committed[i]) /\ h[i] = Effect(h[i - 1], committed[i])

\* The committed transactions can be executed without the skipped ones, which leads
\* to where the filter is; and the replay is on its way there.
Executed ==
  \E h : /\ Executes(h)
         /\ h[Len(committed)] = View(filterState)
         /\ phase \in {"replay", "proved"} => h[receipts] = View(replayState)

\* What the replay has still to execute is the rest of what the filter has committed.
Follows ==
  /\ replayState.missing = {}
  /\ phase \in {"idle", "select", "filter", "filtered"} => replayState = NewState
  /\ phase \in {"replay", "proved"} =>
       \A j \in 1..Len(body) : body[j] = committed[receipts + j]
  /\ phase = "proved" => body = <<>>

\* No transaction with blobs gets as far as the replay, which would refuse it.
NoBlobs ==
  /\ \A i \in 1..Len(candidates) : candidates[i].type # "blob"
  /\ \A i \in 1..Len(committed) : committed[i].type # "blob"

RInv == IInv /\ Executed /\ Follows /\ NoBlobs /\ phase # "unreplayable"

\* A transaction that executes on one state executes on every other with the same
\* nonces, gas and zk gas, and has the same effect.
LEMMA ApplyFits ==
  ASSUME NEW s \in ExecState, NEW t \in Txs, Fits(View(s), t), unzen => s.zkTx = 0
  PROVE  /\ Apply(s, t).err = "none" /\ ~ZkExceeded(Apply(s, t).state)
         /\ Apply(s, t).state.missing = s.missing
         /\ View(CommitZk(Apply(s, t).state)) = Effect(View(s), t)
<1>1. /\ t.sender \in witness /\ t.fault = "none"
      /\ t.nonce = s.nonce[t.sender] /\ t.gas <= s.gas
      /\ unzen => s.zk + t.zk <= ZkLimit
  BY DEF Fits, View
<1>2. s.zk \in Nat /\ t.zk \in Nat /\ t.gas \in Nat /\ s.gas \in Nat
  BY TxsTyped DEF ExecState
<1> DEFINE nonces == [s.nonce EXCEPT ![t.sender] = @ + 1]
           zkTx == IF unzen THEN s.zkTx + t.zk ELSE s.zkTx
           run == [nonce |-> nonces, gas |-> s.gas - t.gas, zk |-> s.zk, zkTx |-> zkTx,
                   missing |-> s.missing \cup ({t.sender} \ witness)]
<1>3. unzen => zkTx = t.zk
  BY <1>2
<1> HIDE DEF zkTx, nonces
<1>4. run.zk = s.zk /\ run.zkTx = zkTx
  OBVIOUS
<1>5. ~ZkExceeded(run)
  BY <1>1, <1>2, <1>3, <1>4, LimitsTyped DEF ZkExceeded
<1>6. Apply(s, t) = [state |-> run, err |-> "none"]
  <2>1. ~(t.nonce # s.nonce[t.sender] \/ t.gas > s.gas)
    BY <1>1, <1>2
  <2> HIDE DEF run
  <2> QED
    BY <1>1, <1>5, <2>1 DEF Apply, run, zkTx, nonces
<1>7. run.missing = s.missing
  BY <1>1
<1>8. View(CommitZk(run)) = Effect(View(s), t)
  <2>1. CommitZk(run) = [run EXCEPT !.zk = IF unzen THEN @ + run.zkTx ELSE @]
    BY DEF CommitZk
  <2>2. /\ CommitZk(run).nonce = nonces /\ CommitZk(run).gas = s.gas - t.gas
        /\ CommitZk(run).zk = IF unzen THEN s.zk + t.zk ELSE s.zk
    BY <1>3, <2>1
  <2> HIDE DEF run
  <2> QED
    BY <2>2 DEF View, Effect, nonces
<1> HIDE DEF run
<1> QED
  BY <1>5, <1>6, <1>7, <1>8

\* What the filter commits fits its state, whatever it has skipped before.
LEMMA CommitEffect ==
  ASSUME IInv, CommitCandidate
  PROVE  /\ Head(candidates) \in Txs
         /\ Fits(View(filterState), Head(candidates))
         /\ View(filterState') = Effect(View(filterState), Head(candidates))
<1> DEFINE t == Head(candidates)
<1>1. /\ Trying /\ t.fault # "message" /\ Tried.err = "none"
      /\ Tried.state.missing = {} /\ ~ZkExceeded(Tried.state)
      /\ filterState' = CommitZk(Tried.state)
  BY DEF CommitCandidate, manifestWitnessStateError
<1>2. /\ t \in Txs /\ Snapshot \in ExecState /\ Tried = Apply(Snapshot, t)
      /\ Snapshot.nonce = filterState.nonce /\ Snapshot.gas = filterState.gas
      /\ Snapshot.zk = filterState.zk /\ (unzen => Snapshot.zkTx = 0)
  BY <1>1, TriedFields DEF Tried
<1>3. /\ t.fault = "none" /\ t.nonce = filterState.nonce[t.sender] /\ t.gas <= filterState.gas
      /\ Tried.state.zk = filterState.zk /\ (unzen => Tried.state.zkTx = t.zk)
  BY <1>1, TriedSucceeds
<1> HIDE DEF t
<1>4. t.zk \in Nat /\ filterState.zk \in Nat
  BY <1>2, TxsTyped DEF IInv, TypeOK, ExecState
<1>5. unzen => filterState.zk + t.zk <= ZkLimit
  BY <1>1, <1>3, <1>4, LimitsTyped DEF ZkExceeded
<1>6. t.sender \in witness
  <2>1. Tried.state.missing = Snapshot.missing \cup ({t.sender} \ witness)
    BY <1>2 DEF Apply
  <2> QED
    BY <1>1, <2>1
<1>7. View(Snapshot) = View(filterState)
  BY <1>2 DEF View
<1>8. Fits(View(filterState), t)
  BY <1>3, <1>5, <1>6 DEF Fits, View
<1>9. View(CommitZk(Tried.state)) = Effect(View(filterState), t)
  BY <1>2, <1>7, <1>8, ApplyFits
<1> QED
  BY <1>1, <1>2, <1>8, <1>9 DEF t

LEMMA RInit == Init => RInv
<1> SUFFICES ASSUME Init PROVE RInv OBVIOUS
<1>1. /\ committed = <<>> /\ candidates = <<>> /\ filterState = NewState
      /\ replayState = NewState /\ phase = "idle"
  BY DEF Init
<1>2. Executed
  <2> DEFINE h == [i \in 0..0 |-> View(NewState)]
  <2>1. h[0] = View(NewState) OBVIOUS
  <2> HIDE DEF h
  <2>2. Executes(h) BY <1>1, <2>1 DEF Executes
  <2> QED BY <1>1, <2>1, <2>2 DEF Executed
<1>3. Follows /\ NoBlobs BY <1>1, NewStateType DEF Follows, NoBlobs
<1> QED BY <1>1, <1>2, <1>3, InitInv DEF RInv

\* Nothing is committed yet, or no longer.
LEMMA FreshR ==
  ASSUME RInv, IInv',
         committed' = <<>>, filterState' = NewState, replayState' = NewState,
         phase' \in {"idle", "select"},
         \A i \in 1..Len(candidates') : candidates'[i].type # "blob"
  PROVE  RInv'
<1>1. Executed'
  <2> DEFINE h == [i \in 0..0 |-> View(NewState)]
  <2>1. h[0] = View(NewState) OBVIOUS
  <2> HIDE DEF h
  <2>2. Executes(h)' BY <2>1 DEF Executes, NewState, View
  <2>3. h[Len(committed')] = View(filterState') BY <2>1
  <2> QED BY <2>2, <2>3 DEF Executed, View
<1>2. Follows' /\ NoBlobs' BY NewStateType DEF Follows, NoBlobs, NewState
<1> QED BY <1>1, <1>2 DEF RInv

\* A step of the filter that commits nothing.
LEMMA SkippedR ==
  ASSUME RInv, IInv', UNCHANGED <<unzen, witness, committed, body, receipts, replayState>>,
         View(filterState') = View(filterState),
         phase \in {"select", "filter"}, phase' \in {"filter", "filtered"},
         \A i \in 1..Len(candidates') : candidates'[i].type # "blob"
  PROVE  RInv'
<1>1. Executed'
  <2>1. PICK h : Executes(h) /\ h[Len(committed)] = View(filterState)
    BY DEF RInv, Executed
  <2>2. Executes(h)' BY <2>1 DEF Executes, Fits, Effect
  <2>3. h[Len(committed')] = View(filterState') BY <2>1
  <2> QED BY <2>2, <2>3 DEF Executed, View
<1>2. Follows' /\ NoBlobs' BY DEF RInv, Follows, NoBlobs
<1> QED BY <1>1, <1>2 DEF RInv

LEMMA CommitR ==
  ASSUME RInv, IInv', CommitCandidate
  PROVE  RInv'
<1> DEFINE t == Head(candidates)
<1>1. /\ phase = "filter" /\ phase' = "filter" /\ candidates # <<>>
      /\ UNCHANGED <<unzen, witness, body, receipts, replayState>>
      /\ committed' = Append(committed, t) /\ candidates' = Tail(candidates)
  BY DEF CommitCandidate, Trying
<1>2. /\ t \in Txs /\ Fits(View(filterState), t)
      /\ View(filterState') = Effect(View(filterState), t)
  BY CommitEffect DEF RInv
<1>3. candidates \in Seq(Txs) /\ committed \in Seq(Txs)
  BY DEF RInv, IInv, TypeOK
<1>4. /\ t = candidates[1] /\ 1 \in 1..Len(candidates)
      /\ \A i \in 1..Len(candidates') : /\ i + 1 \in 1..Len(candidates)
                                        /\ candidates'[i] = candidates[i + 1]
  BY <1>1, <1>3
<1> HIDE DEF t
<1>5. PICK n \in Nat : /\ n = Len(committed) /\ Len(committed') = n + 1
                       /\ committed'[n + 1] = t /\ \A i \in 1..n : committed'[i] = committed[i]
  BY <1>1, <1>2, <1>3
<1>6. NoBlobs'
  <2>1. \A i \in 1..Len(candidates') : candidates'[i].type # "blob"
    BY <1>4 DEF RInv, NoBlobs
  <2>2. t.type # "blob" BY <1>4 DEF RInv, NoBlobs
  <2>3. \A i \in 1..(n + 1) : committed'[i].type # "blob"
    BY <1>5, <2>2 DEF RInv, NoBlobs
  <2> QED BY <1>5, <2>1, <2>3 DEF NoBlobs
<1>7. Executed'
  <2>1. PICK h : Executes(h) /\ h[n] = View(filterState)
    BY <1>5 DEF RInv, Executed
  <2>2. PICK g : /\ \A i \in 0..n : g[i] = h[i]
                 /\ g[n + 1] = Effect(View(filterState), t)
    <3> DEFINE longer == [i \in 0..(n + 1) |-> IF i = n + 1 THEN Effect(View(filterState), t)
                                              ELSE h[i]]
    <3>1. /\ \A i \in 0..n : longer[i] = h[i]
          /\ longer[n + 1] = Effect(View(filterState), t)
      OBVIOUS
    <3> QED BY <3>1
  <2>3. ASSUME NEW i \in 1..(n + 1)
        PROVE  /\ Fits(g[i - 1], committed'[i]) /\ g[i] = Effect(g[i - 1], committed'[i])
    <3>1. CASE i = n + 1
      <4>1. i - 1 = n /\ n \in 0..n BY <3>1
      <4>2. g[i - 1] = View(filterState) BY <2>1, <2>2, <4>1
      <4> QED BY <1>2, <1>5, <2>2, <3>1, <4>2
    <3>2. CASE i # n + 1
      <4>1. i \in 1..n /\ i \in 0..n /\ i - 1 \in 0..n BY <3>2
      <4>2. Fits(h[i - 1], committed[i]) /\ h[i] = Effect(h[i - 1], committed[i])
        BY <1>5, <2>1, <4>1 DEF Executes
      <4>3. committed'[i] = committed[i] /\ g[i] = h[i] /\ g[i - 1] = h[i - 1]
        BY <1>5, <2>2, <4>1
      <4> QED BY <4>2, <4>3
    <3> QED BY <3>1, <3>2
  <2>4. g[0] = View(NewState)
    BY <2>1, <2>2 DEF Executes
  <2>5. Executes(g)'
    <3>1. \A i \in 1..(n + 1) : /\ Fits(g[i - 1], committed[i])'
                                /\ g[i] = Effect(g[i - 1], committed[i])'
      BY <1>1, <2>3 DEF Fits, Effect
    <3>2. g[0] = View(NewState)' BY <2>4 DEF View, NewState
    <3> QED BY <1>5, <3>1, <3>2 DEF Executes
  <2>6. g[Len(committed')] = View(filterState')
    BY <1>2, <1>5, <2>2
  <2> QED BY <1>1, <2>5, <2>6 DEF Executed, View
<1>8. Follows' BY <1>1 DEF RInv, Follows
<1> QED BY <1>1, <1>6, <1>7, <1>8 DEF RInv

LEMMA StartReplayR ==
  ASSUME RInv, IInv', StartReplay
  PROVE  RInv'
<1>1. /\ phase = "filtered" /\ body' = committed
      /\ UNCHANGED <<unzen, witness, candidates, committed, filterState, receipts, replayState>>
  BY DEF StartReplay
<1>2. phase' = "replay" BY DEF StartReplay, RInv, NoBlobs
<1>3. receipts = 0 /\ replayState = NewState
  BY <1>1 DEF RInv, IInv, StartsFresh, Follows
<1>4. Executed'
  <2>1. PICK h : Executes(h) /\ h[Len(committed)] = View(filterState)
    BY DEF RInv, Executed
  <2>2. Executes(h)' BY <1>1, <2>1 DEF Executes, Fits, Effect
  <2>3. h[Len(committed')] = View(filterState') /\ h[receipts'] = View(replayState')
    BY <1>1, <1>3, <2>1 DEF Executes
  <2> QED BY <2>2, <2>3 DEF Executed, View
<1>5. Follows'
  <2>1. committed \in Seq(Txs) BY DEF RInv, IInv, TypeOK
  <2>2. \A j \in 1..Len(committed) : committed[j] = committed[0 + j]
    BY <2>1
  <2> QED BY <1>1, <1>2, <1>3, <2>2 DEF RInv, Follows
<1>6. NoBlobs' BY <1>1 DEF RInv, NoBlobs
<1> QED BY <1>2, <1>4, <1>5, <1>6 DEF RInv

LEMMA ReplayTxR ==
  ASSUME RInv, IInv', ReplayTx
  PROVE  RInv'
<1> DEFINE t == Head(body)
<1>1. /\ phase = "replay" /\ body # <<>>
      /\ UNCHANGED <<unzen, witness, candidates, committed, filterState>>
  BY DEF ReplayTx
<1>2. /\ body \in Seq(Txs) /\ receipts \in Nat /\ committed \in Seq(Txs)
      /\ replayState \in ExecState /\ receipts + Len(body) = Len(committed)
  BY <1>1 DEF RInv, IInv, TypeOK
<1>3. PICK n \in Nat : n = Len(committed) /\ receipts + 1 \in 1..n /\ Len(body) = n - receipts
  BY <1>1, <1>2
<1>4. t \in Txs /\ t = body[1] /\ 1 \in 1..Len(body) BY <1>1, <1>2
<1> HIDE DEF t
<1>5. t = committed[receipts + 1]
  BY <1>1, <1>4 DEF RInv, Follows
<1>6. PICK h : /\ Executes(h) /\ h[n] = View(filterState) /\ h[receipts] = View(replayState)
  BY <1>1, <1>3 DEF RInv, Executed
<1>7. /\ Fits(View(replayState), t)
      /\ h[receipts + 1] = Effect(View(replayState), t)
  <2>1. (receipts + 1) - 1 = receipts BY <1>2
  <2> QED BY <1>3, <1>5, <1>6, <2>1 DEF Executes
<1>8. /\ ReplayResets \in ExecState /\ View(ReplayResets) = View(replayState)
      /\ ReplayResets.missing = {} /\ (unzen => ReplayResets.zkTx = 0)
  <2>1. replayState.missing = {} BY DEF RInv, Follows
  <2> QED BY <1>2, <2>1, ResetFields DEF ReplayResets, View
<1>9. Replayed = Apply(ReplayResets, t) BY DEF Replayed, t
<1>10. /\ Replayed.err = "none" /\ ~ZkExceeded(Replayed.state)
       /\ Replayed.state.missing = {}
       /\ View(CommitZk(Replayed.state)) = Effect(View(replayState), t)
  BY <1>4, <1>7, <1>8, <1>9, ApplyFits
<1>11. t.fault = "none" BY <1>7 DEF Fits
<1>12. /\ phase' = "replay" /\ replayState' = CommitZk(Replayed.state)
       /\ receipts' = receipts + 1 /\ body' = Tail(body)
  BY <1>1, <1>10, <1>11 DEF ReplayTx, t
<1>13. Executed'
  <2>1. Executes(h)' BY <1>1, <1>6 DEF Executes, Fits, Effect
  <2>2. h[Len(committed')] = View(filterState') /\ h[receipts'] = View(replayState')
    BY <1>1, <1>3, <1>6, <1>7, <1>10, <1>12
  <2> QED BY <2>1, <2>2 DEF Executed, View
<1>14. Follows'
  <2>1. replayState'.missing = {}
    <3>1. Replayed.state \in ExecState BY <1>4, <1>8, <1>9, ApplyType
    <3> QED BY <1>10, <1>12, <3>1, CommitFields
  <2>2. \A j \in 1..Len(body') : body'[j] = committed[(receipts + 1) + j]
    <3>1. \A j \in 1..Len(body) : body[j] = committed[receipts + j]
      BY <1>1 DEF RInv, Follows
    <3>2. ASSUME NEW j \in 1..Len(body') PROVE body'[j] = committed[(receipts + 1) + j]
      <4>1. j \in Nat /\ j + 1 \in 1..Len(body) /\ body'[j] = body[j + 1]
        BY <1>1, <1>2, <1>12
      <4>2. receipts + (j + 1) = (receipts + 1) + j BY <1>2, <4>1
      <4> QED BY <3>1, <4>1, <4>2
    <3> QED BY <3>2
  <2> QED BY <1>1, <1>12, <2>1, <2>2 DEF Follows
<1>15. NoBlobs' BY <1>1 DEF RInv, NoBlobs
<1> QED BY <1>12, <1>13, <1>14, <1>15 DEF RInv

LEMMA FinishReplayR ==
  ASSUME RInv, IInv', FinishReplay
  PROVE  RInv'
<1>1. /\ phase = "replay" /\ body = <<>> /\ phase' = "proved"
      /\ UNCHANGED <<unzen, witness, candidates, committed, filterState,
                     body, receipts, replayState>>
  BY DEF FinishReplay, RInv, Follows
<1>2. Executed'
  <2>1. PICK h : /\ Executes(h) /\ h[Len(committed)] = View(filterState)
                 /\ h[receipts] = View(replayState)
    BY <1>1 DEF RInv, Executed
  <2>2. Executes(h)'
    BY <1>1, <2>1, Zenon DEF Executes, Fits, Effect
  <2>3. View(filterState)' = View(filterState) /\ View(replayState)' = View(replayState)
    BY <1>1 DEF View
  <2> QED BY <1>1, <2>1, <2>2, <2>3 DEF Executed
<1>3. Follows' /\ NoBlobs' BY <1>1 DEF RInv, Follows, NoBlobs
<1> QED BY <1>1, <1>2, <1>3 DEF RInv

LEMMA StepR == RInv /\ [Next]_vars => RInv'
<1> SUFFICES ASSUME RInv, [Next]_vars PROVE RInv' OBVIOUS
<1>1. IInv /\ IInv' BY StepInv DEF RInv
<1>2. ASSUME NEW anchor \in Anchors, NEW isUnzen \in BOOLEAN, NEW covered \in SUBSET Senders,
             StartFilter(anchor, isUnzen, covered)
      PROVE  RInv'
  <2>1. /\ phase = "idle" /\ phase' = "select" /\ candidates' = <<anchor>>
        /\ UNCHANGED <<committed, filterState, replayState>>
    BY <1>2 DEF StartFilter
  <2>2. committed = <<>> /\ filterState = NewState /\ replayState = NewState
    BY <1>1, <2>1 DEF IInv, StartsFresh, RInv, Follows
  <2>3. \A i \in 1..Len(candidates') : candidates'[i].type # "blob"
    BY <2>1, TxsTyped
  <2> QED BY <1>1, <2>1, <2>2, <2>3, FreshR
<1>3. ASSUME NEW t \in Txs, SelectTx(t) PROVE RInv'
  <2>1. phase = "select" /\ UNCHANGED <<phase, committed, filterState, replayState>>
    BY <1>3 DEF SelectTx
  <2>2. committed = <<>> /\ filterState = NewState /\ replayState = NewState
    BY <1>1, <2>1 DEF IInv, StartsFresh, RInv, Follows
  <2>3. \A i \in 1..Len(candidates') : candidates'[i].type # "blob"
    <3>1. candidates \in Seq(Txs) BY <1>1 DEF IInv, TypeOK
    <3>2. CASE candidates' = candidates BY <3>2 DEF RInv, NoBlobs
    <3>3. CASE t.type # "blob" /\ candidates' = Append(candidates, t)
      BY <3>1, <3>3 DEF RInv, NoBlobs
    <3> QED BY <1>3, <3>2, <3>3 DEF SelectTx
  <2> QED BY <1>1, <2>1, <2>2, <2>3, FreshR
<1>4. CASE FinishSelect \/ SkipMessage \/ SkipFailed \/ StopAtZkLimit \/ FinishFilter
  <2>1. /\ UNCHANGED <<unzen, witness, committed, body, receipts, replayState>>
        /\ phase \in {"select", "filter"} /\ phase' \in {"filter", "filtered"}
        /\ candidates' \in {candidates, Tail(candidates), <<>>}
        /\ candidates' = Tail(candidates) => candidates # <<>> \/ candidates' = candidates
    BY <1>4 DEF FinishSelect, SkipMessage, SkipFailed, StopAtZkLimit, FinishFilter, Trying
  <2>2. View(filterState') = View(filterState)
    <3>1. CASE FinishSelect \/ SkipMessage \/ FinishFilter
      BY <3>1 DEF FinishSelect, SkipMessage, FinishFilter
    <3>2. CASE SkipFailed
      BY <1>1, <3>2, TriedFields, RevertFields DEF SkipFailed, View
    <3>3. CASE StopAtZkLimit
      BY <1>1, <3>3, TriedFields, RevertFields, ResetFields DEF StopAtZkLimit, View
    <3> QED BY <1>4, <3>1, <3>2, <3>3
  <2>3. \A i \in 1..Len(candidates') : candidates'[i].type # "blob"
    <3>1. candidates \in Seq(Txs) /\ \A i \in 1..Len(candidates) : candidates[i].type # "blob"
      BY <1>1 DEF IInv, TypeOK, RInv, NoBlobs
    <3>2. CASE candidates' = candidates BY <3>1, <3>2
    <3>3. CASE candidates' = Tail(candidates) /\ candidates # <<>> BY <3>1, <3>3
    <3>4. CASE candidates' = <<>> BY <3>4
    <3> QED BY <2>1, <3>2, <3>3, <3>4
  <2> QED BY <1>1, <2>1, <2>2, <2>3, SkippedR
<1>5. CASE CommitCandidate BY <1>1, <1>5, CommitR
<1>6. CASE StartReplay \/ ReplayTx \/ FinishReplay
  BY <1>1, <1>6, StartReplayR, ReplayTxR, FinishReplayR
<1>7. CASE EndRequest BY <1>1, <1>7, FreshR DEF EndRequest, Reset
<1>8. CASE UNCHANGED vars
  <2>1. \A h : Executes(h) => Executes(h)'
    BY <1>8 DEF vars, Executes, Fits, Effect
  <2>2. Executed'
    BY <1>1, <1>8, <2>1 DEF vars, RInv, Executed, View
  <2>3. Follows' /\ NoBlobs'
    BY <1>1, <1>8 DEF vars, RInv, Follows, NoBlobs
  <2> QED BY <1>1, <1>8, <2>2, <2>3 DEF vars, RInv
<1> QED BY <1>2, <1>3, <1>4, <1>5, <1>6, <1>7, <1>8 DEF Next

\* The replay never refuses what the filter has bound, and both end in the same state,
\* whatever was tried and skipped between the committed transactions (Execute and
\* processUnzenReplayBlock after commitFilteredManifestTransactions).
THEOREM ReplayNeverDisagrees == Spec => []ReplayAgrees
<1>1. RInv => ReplayAgrees
  <2> SUFFICES ASSUME RInv, phase = "proved"
               PROVE  /\ receipts = Len(committed)
                      /\ View(replayState) = View(filterState)
    BY DEF ReplayAgrees, RInv, View
  <2>1. body = <<>> /\ receipts \in Nat /\ receipts + Len(body) = Len(committed)
    BY DEF RInv, Follows, IInv, TypeOK
  <2>2. receipts = Len(committed) BY <2>1
  <2> QED BY <2>2 DEF RInv, Executed
<1> QED BY <1>1, RInit, StepR, PTL DEF Spec

=============================================================================
