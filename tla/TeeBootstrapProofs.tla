--------------------------- MODULE TeeBootstrapProofs ---------------------------
(* Proofs about TeeBootstrap, for every set of runs and keys.                  *)
EXTENDS TeeBootstrap, TLAPS

USE SentinelsDistinct, MaxDisturbancesNat

\* Every step keeps the types, and a run that goes on to write holds a key.
LEMMA TypeStep == TypeOK /\ [Next]_vars => TypeOK'
<1> SUFFICES ASSUME TypeOK, [Next]_vars PROVE TypeOK'
  OBVIOUS
<1> USE DEF TypeOK, Files, Content, Origins, TempStates, Running, Ended, HoldsKey
<1>1. ASSUME NEW p \in Procs, NEW forced \in BOOLEAN, Start(p, forced) PROVE TypeOK'
  <2>1. disturbances' \in 0..MaxDisturbances
    BY <1>1 DEF Start, Disturb
  <2>2. calm' \in [Procs -> BOOLEAN]
    BY <1>1 DEF Start, StartCalm, Active
  <2>3. CASE ~forced /\ entry["key"] # Absent
    <3>1. /\ pc' = [pc EXCEPT ![p] = "loadKey"] /\ own' = [own EXCEPT ![p] = Absent]
          /\ origin' = [origin EXCEPT ![p] = "loaded"] /\ file' = [file EXCEPT ![p] = "key"]
          /\ force' = [force EXCEPT ![p] = forced] /\ UNCHANGED <<entry, disk, tmp>>
      BY <1>1, <2>3 DEF Start
    <3>2. \A q \in Procs : pc'[q] \in HoldsKey => own'[q] \in Keys
      BY <3>1
    <3> QED
      BY <2>1, <2>2, <3>1, <3>2
  <2>4. CASE forced \/ entry["key"] = Absent
    <3>1. PICK k \in FreshKeys : own' = [own EXCEPT ![p] = k]
      BY <1>1, <2>4 DEF Start
    <3>2. k \in Keys
      BY DEF FreshKeys
    <3> QED
      BY <1>1, <2>1, <2>2, <2>4, <3>1, <3>2 DEF Start
  <2> QED
    BY <2>3, <2>4
<1>2. ASSUME NEW p \in Procs, Quote(p) PROVE TypeOK'
  BY <1>2 DEF Quote
<1>3. ASSUME NEW p \in Procs, EnsureDirectory(p) PROVE TypeOK'
  BY <1>3 DEF EnsureDirectory, Synced
<1>4. ASSUME NEW p \in Procs, WriteTemp(p) PROVE TypeOK'
  BY <1>4 DEF WriteTemp
<1>5. ASSUME NEW p \in Procs, SyncTemp(p) PROVE TypeOK'
  BY <1>5 DEF SyncTemp
<1>6. ASSUME NEW p \in Procs, Install(p) PROVE TypeOK'
  <2>1. CASE InstallEntry(p)
    <3>1. own[p] \in Keys
      BY <1>6 DEF Install
    <3>2. /\ entry' \in [Files -> Content]
          /\ disk' \in [Files -> SUBSET Content]
      BY <2>1, <3>1 DEF InstallEntry
    <3> QED
      BY <1>6, <2>1, <3>1, <3>2 DEF Install, InstallEntry
  <2>2. CASE InstallFoundKey(p)
    BY <1>6, <2>2 DEF Install, InstallFoundKey
  <2> QED
    BY <1>6, <2>1, <2>2 DEF Install
<1>7. ASSUME NEW p \in Procs, RemoveTemp(p) PROVE TypeOK'
  BY <1>7 DEF RemoveTemp
<1>8. ASSUME NEW p \in Procs, SyncDirectory(p) PROVE TypeOK'
  BY <1>8 DEF SyncDirectory, Synced
<1>9. ASSUME NEW p \in Procs, LoadKey(p) PROVE TypeOK'
  BY <1>9 DEF LoadKey
<1>10. ASSUME NEW p \in Procs, LoadMeta(p) PROVE TypeOK'
  BY <1>10 DEF LoadMeta
<1>11. ASSUME NEW p \in Procs, Attest(p) PROVE TypeOK'
  BY <1>11 DEF Attest
<1>12. ASSUME NEW p \in Procs, CallFails(p) PROVE TypeOK'
  BY <1>12 DEF CallFails, Disturb
<1>13. ASSUME NEW p \in Procs, Kill(p) PROVE TypeOK'
  BY <1>13 DEF Kill, Disturb
<1>14. CASE MachineCrash
  BY <1>14 DEF MachineCrash, Disturb
<1>15. CASE UNCHANGED vars
  BY <1>15 DEF vars
<1> QED
  BY <1>1, <1>2, <1>3, <1>4, <1>5, <1>6, <1>7, <1>8, <1>9, <1>10, <1>11, <1>12,
     <1>13, <1>14, <1>15 DEF Next, Step

\* Only a synced temporary file is installed, so no content becomes torn.
LEMMA TornStep ==
  TypeOK /\ NeverTorn /\ TempSynced /\ [Next]_vars => NeverTorn' /\ TempSynced'
<1> SUFFICES ASSUME TypeOK, NeverTorn, TempSynced, [Next]_vars
             PROVE  NeverTorn' /\ TempSynced'
  OBVIOUS
<1> USE DEF TypeOK, NeverTorn, TempSynced, Files, Running, Ended
<1>1. ASSUME NEW p \in Procs, NEW forced \in BOOLEAN, Start(p, forced)
      PROVE  NeverTorn' /\ TempSynced'
  BY <1>1 DEF Start
<1>2. ASSUME NEW p \in Procs, Quote(p) PROVE NeverTorn' /\ TempSynced'
  BY <1>2 DEF Quote
<1>3. ASSUME NEW p \in Procs, EnsureDirectory(p) PROVE NeverTorn' /\ TempSynced'
  BY <1>3 DEF EnsureDirectory, Synced
<1>4. ASSUME NEW p \in Procs, WriteTemp(p) PROVE NeverTorn' /\ TempSynced'
  BY <1>4 DEF WriteTemp
<1>5. ASSUME NEW p \in Procs, SyncTemp(p) PROVE NeverTorn' /\ TempSynced'
  BY <1>5 DEF SyncTemp
<1>6. ASSUME NEW p \in Procs, Install(p) PROVE NeverTorn' /\ TempSynced'
  <2>1. CASE InstallEntry(p)
    <3>1. own[p] # Torn /\ tmp[p] = "synced"
      BY <1>6 DEF Install, HoldsKey
    <3>2. disk' = [disk EXCEPT ![file[p]] = @ \cup {own[p]}]
      BY <2>1, <3>1 DEF InstallEntry
    <3>3. NeverTorn'
      BY <2>1, <3>1, <3>2 DEF InstallEntry
    <3>4. TempSynced'
      BY <1>6, <2>1 DEF Install, InstallEntry, Overwrites
    <3> QED
      BY <3>3, <3>4
  <2>2. CASE InstallFoundKey(p)
    BY <1>6, <2>2 DEF Install, InstallFoundKey
  <2> QED
    BY <1>6, <2>1, <2>2 DEF Install
<1>7. ASSUME NEW p \in Procs, RemoveTemp(p) PROVE NeverTorn' /\ TempSynced'
  BY <1>7 DEF RemoveTemp
<1>8. ASSUME NEW p \in Procs, SyncDirectory(p) PROVE NeverTorn' /\ TempSynced'
  BY <1>8 DEF SyncDirectory, Synced
<1>9. ASSUME NEW p \in Procs, LoadKey(p) PROVE NeverTorn' /\ TempSynced'
  BY <1>9 DEF LoadKey
<1>10. ASSUME NEW p \in Procs, LoadMeta(p) PROVE NeverTorn' /\ TempSynced'
  BY <1>10 DEF LoadMeta
<1>11. ASSUME NEW p \in Procs, Attest(p) PROVE NeverTorn' /\ TempSynced'
  BY <1>11 DEF Attest
<1>12. ASSUME NEW p \in Procs, CallFails(p) PROVE NeverTorn' /\ TempSynced'
  BY <1>12 DEF CallFails
<1>13. ASSUME NEW p \in Procs, Kill(p) PROVE NeverTorn' /\ TempSynced'
  BY <1>13 DEF Kill
<1>14. CASE MachineCrash
  BY <1>14 DEF MachineCrash
<1>15. CASE UNCHANGED vars
  BY <1>15 DEF vars
<1> QED
  BY <1>1, <1>2, <1>3, <1>4, <1>5, <1>6, <1>7, <1>8, <1>9, <1>10, <1>11, <1>12,
     <1>13, <1>14, <1>15 DEF Next, Step

\* Where a run's key comes from agrees with where the run is.
LEMMA OriginStep == TypeOK /\ OriginOK /\ [Next]_vars => OriginOK'
<1> SUFFICES ASSUME TypeOK, OriginOK, [Next]_vars PROVE OriginOK'
  OBVIOUS
<1> USE DEF TypeOK, OriginOK, Running, Ended, Origins
<1>1. ASSUME NEW p \in Procs, NEW forced \in BOOLEAN, Start(p, forced) PROVE OriginOK'
  BY <1>1 DEF Start
<1>2. ASSUME NEW p \in Procs, Step(p) PROVE OriginOK'
  BY <1>2 DEF Step, Quote, EnsureDirectory, WriteTemp, SyncTemp, Install, InstallEntry,
              InstallFoundKey, RemoveTemp, SyncDirectory, LoadKey, LoadMeta, Attest
<1>3. ASSUME NEW p \in Procs, CallFails(p) \/ Kill(p) PROVE OriginOK'
  BY <1>3 DEF CallFails, Kill
<1>4. CASE MachineCrash
  BY <1>4 DEF MachineCrash
<1>5. CASE UNCHANGED vars
  BY <1>5 DEF vars
<1> QED
  BY <1>1, <1>2, <1>3, <1>4, <1>5 DEF Next

\* Calm runs stay among themselves.  Only Start makes a run active or calm.
LEMMA CalmTogetherStep == TypeOK /\ CalmTogether /\ [Next]_vars => CalmTogether'
<1> SUFFICES ASSUME TypeOK, CalmTogether, [Next]_vars PROVE CalmTogether'
  OBVIOUS
<1> USE DEF TypeOK, CalmTogether, Active, Running, Ended
<1>1. ASSUME NEW p \in Procs, NEW forced \in BOOLEAN, Start(p, forced)
      PROVE  CalmTogether'
  <2> DEFINE calmStart == \A q \in Active : calm[q] /\ ~force[q] /\ ~forced
  <2>1. /\ force' = [force EXCEPT ![p] = forced]
        /\ calm' = [q \in Procs |-> IF q = p THEN calmStart
                                    ELSE calm[q] /\ calmStart /\ ~forced]
        /\ \A q \in Procs : q # p => pc'[q] = pc[q]
    BY <1>1 DEF Start, StartCalm
  <2>2. SUFFICES ASSUME NEW q \in Procs, NEW r \in Procs, pc'[r] \in Running, calm'[q]
                 PROVE  calm'[r] /\ (q # r => ~force'[r])
    OBVIOUS
  <2>3. CASE q = p
    <3>1. CASE r = p
      BY <2>1, <2>2, <2>3, <3>1
    <3>2. CASE r # p
      BY <2>1, <2>2, <2>3, <3>2
    <3> QED
      BY <3>1, <3>2
  <2>4. CASE q # p
    <3>1. CASE r = p
      BY <2>1, <2>2, <2>4, <3>1
    <3>2. CASE r # p
      BY <2>1, <2>2, <2>4, <3>2
    <3> QED
      BY <3>1, <3>2
  <2> QED
    BY <2>3, <2>4
<1>2. ASSUME NEW p \in Procs, Step(p) PROVE CalmTogether'
  <2>1. calm' = calm /\ force' = force
    BY <1>2 DEF Step, Quote, EnsureDirectory, WriteTemp, SyncTemp, Install, RemoveTemp,
                SyncDirectory, LoadKey, LoadMeta, Attest
  <2>2. pc[p] \in Running /\ \A q \in Procs : q # p => pc'[q] = pc[q]
    BY <1>2 DEF Step, Quote, EnsureDirectory, WriteTemp, SyncTemp, Install, InstallEntry,
                InstallFoundKey, RemoveTemp, SyncDirectory, LoadKey, LoadMeta, Attest
  <2> QED
    BY <2>1, <2>2
<1>3. ASSUME NEW p \in Procs, CallFails(p) \/ Kill(p) PROVE CalmTogether'
  BY <1>3 DEF CallFails, Kill
<1>4. CASE MachineCrash
  BY <1>4 DEF MachineCrash
<1>5. CASE UNCHANGED vars
  BY <1>5 DEF vars
<1> QED
  BY <1>1, <1>2, <1>3, <1>4, <1>5 DEF Next

\* With no torn data around, syncing a directory leaves exactly what is visible.
LEMMA SyncedIsEntry ==
  ASSUME NeverTorn, NEW f \in Files PROVE Synced(f) = {entry[f]}
<1>1. Torn \notin disk[f]
  BY DEF NeverTorn
<1> QED
  BY <1>1 DEF Synced

\* What a calm run has done stays done.  The step that matters is another run's
\* installation: a key cannot be linked over the calm run's key nor renamed over
\* it by a forced run, and metadata can only be for the same key.
LEMMA CalmFactsStep == IInv /\ [Next]_vars => CalmFacts'
<1> SUFFICES ASSUME IInv, [Next]_vars, NEW c \in Procs, calm'[c]
             PROVE  /\ KeyInPlace(c)' => entry'["key"] = own'[c]
                    /\ MetaInPlace(c)' => entry'["bootstrap"] = own'[c]
                    /\ MetaSynced(c)' => disk'["bootstrap"] = {own'[c]}
                    /\ KeySynced(c)' => disk'["key"] = {own'[c]}
  BY DEF CalmFacts
<1> DEFINE Goal == /\ KeyInPlace(c)' => entry'["key"] = own'[c]
                   /\ MetaInPlace(c)' => entry'["bootstrap"] = own'[c]
                   /\ MetaSynced(c)' => disk'["bootstrap"] = {own'[c]}
                   /\ KeySynced(c)' => disk'["key"] = {own'[c]}
<1>a. TypeOK /\ NeverTorn /\ TempSynced /\ OriginOK /\ CalmTogether /\ CalmFacts
  BY DEF IInv
<1>b. TypeOK'
  BY <1>a, TypeStep
<1> USE DEF Files, KeyInPlace, MetaInPlace, MetaSynced, KeySynced
<1>1. ASSUME NEW p \in Procs, NEW forced \in BOOLEAN, Start(p, forced) PROVE Goal
  <2>1. CASE c = p
    BY <1>1, <1>a, <2>1 DEF Start, TypeOK
  <2>2. CASE c # p
    <3>1. calm[c]
      BY <1>1, <2>2 DEF Start, StartCalm
    <3> QED
      BY <1>1, <1>a, <2>2, <3>1 DEF Start, TypeOK, CalmFacts
  <2> QED
    BY <2>1, <2>2
<1>2. ASSUME NEW p \in Procs,
             Quote(p) \/ WriteTemp(p) \/ SyncTemp(p) \/ RemoveTemp(p) \/ LoadMeta(p)
      PROVE  Goal
  BY <1>2, <1>a DEF Quote, WriteTemp, SyncTemp, RemoveTemp, LoadMeta, TypeOK, CalmFacts,
                    TempSynced, OriginOK, Origins
<1>3. ASSUME NEW p \in Procs, LoadKey(p) PROVE Goal
  BY <1>3, <1>a DEF LoadKey, TypeOK, CalmFacts
<1>4. ASSUME NEW p \in Procs, Attest(p) PROVE Goal
  BY <1>4, <1>a DEF Attest, TypeOK, CalmFacts
<1>5. ASSUME NEW p \in Procs, EnsureDirectory(p) PROVE Goal
  <2>1. calm[c]
    BY <1>5 DEF EnsureDirectory
  <2>2. disk' = [disk EXCEPT ![file[p]] = {entry[file[p]]}]
    BY <1>5, <1>a, SyncedIsEntry DEF EnsureDirectory, TypeOK
  <2>3. MetaSynced(c) => entry["bootstrap"] = own[c] /\ disk["bootstrap"] = {own[c]}
    BY <2>1, <1>a DEF CalmFacts
  <2>4. KeySynced(c) => entry["key"] = own[c] /\ disk["key"] = {own[c]}
    BY <2>1, <1>a DEF CalmFacts
  <2> QED
    BY <1>5, <1>a, <2>1, <2>2, <2>3, <2>4 DEF EnsureDirectory, TypeOK, CalmFacts
<1>6. ASSUME NEW p \in Procs, SyncDirectory(p) PROVE Goal
  <2>1. calm[c]
    BY <1>6 DEF SyncDirectory
  <2>2. disk' = [disk EXCEPT ![file[p]] = {entry[file[p]]}]
    BY <1>6, <1>a, SyncedIsEntry DEF SyncDirectory, TypeOK
  <2>3. MetaSynced(c) => entry["bootstrap"] = own[c] /\ disk["bootstrap"] = {own[c]}
    BY <2>1, <1>a DEF CalmFacts
  <2>4. KeySynced(c) => entry["key"] = own[c] /\ disk["key"] = {own[c]}
    BY <2>1, <1>a DEF CalmFacts
  <2>5. CASE c # p
    BY <1>6, <1>a, <2>1, <2>2, <2>3, <2>4, <2>5 DEF SyncDirectory, TypeOK, CalmFacts
  <2>6. CASE c = p
    BY <1>6, <1>a, <2>1, <2>2, <2>3, <2>4, <2>6 DEF SyncDirectory, TypeOK, CalmFacts
  <2> QED
    BY <2>5, <2>6
<1>7. ASSUME NEW p \in Procs, Install(p) PROVE Goal
  <2>1. calm[c] /\ pc[p] = "install" /\ p \in Active
    BY <1>7 DEF Install, Active, Running
  <2>2. CASE InstallFoundKey(p)
    BY <1>7, <1>a, <2>1, <2>2 DEF Install, InstallFoundKey, TypeOK, CalmFacts
  <2>3. CASE InstallEntry(p)
    <3>1. /\ own' = own /\ file' = file /\ origin' = origin
          /\ entry' = [entry EXCEPT ![file[p]] = own[p]]
          /\ disk' = [disk EXCEPT ![file[p]] = @ \cup {own[p]}]
          /\ pc' \in {[pc EXCEPT ![p] = "syncdir"], [pc EXCEPT ![p] = "unlink"]}
          /\ pc'[p] = "unlink" => file[p] = "key"
      BY <1>7, <1>a, <2>1, <2>3 DEF Install, InstallEntry, TempSynced, TypeOK, Overwrites
    <3>2. own[p] \in Keys /\ own[p] # Absent
      BY <1>a, <2>1 DEF TypeOK, HoldsKey, Running
    <3>3. CASE c = p
      <4>1. CASE file[p] = "key"
        BY <1>a, <2>1, <3>1, <3>3, <4>1 DEF TypeOK, CalmFacts
      <4>2. CASE file[p] = "bootstrap"
        BY <1>a, <2>1, <3>1, <3>3, <4>2 DEF TypeOK, CalmFacts
      <4> QED
        BY <1>a, <4>1, <4>2 DEF TypeOK
    <3>4. CASE c # p
      <4>1. calm[p] /\ ~force[p]
        BY <1>a, <2>1, <3>4 DEF CalmTogether
      <4>2. CASE file[p] = "key"
        <5>1. entry["key"] = Absent
          BY <2>3, <4>1, <4>2 DEF InstallEntry, Overwrites
        <5>2. ~KeyInPlace(c)
          BY <1>a, <2>1, <5>1 DEF CalmFacts, TypeOK, HoldsKey, Running
        <5> QED
          BY <1>a, <2>1, <3>1, <3>4, <4>2, <5>2 DEF TypeOK, CalmFacts
      <4>3. CASE file[p] = "bootstrap"
        <5>1. entry["key"] = own[p]
          BY <1>a, <2>1, <4>1, <4>3 DEF CalmFacts
        <5>2. KeyInPlace(c) => own[c] = own[p]
          BY <1>a, <2>1, <5>1 DEF CalmFacts
        <5> QED
          BY <1>a, <2>1, <3>1, <3>4, <4>3, <5>1, <5>2 DEF TypeOK, CalmFacts
      <4> QED
        BY <1>a, <4>2, <4>3 DEF TypeOK
    <3> QED
      BY <3>3, <3>4
  <2> QED
    BY <1>7, <2>2, <2>3 DEF Install
<1>8. ASSUME NEW p \in Procs, CallFails(p) \/ Kill(p) PROVE Goal
  BY <1>8, <1>a DEF CallFails, Kill, TypeOK, CalmFacts
<1>9. CASE MachineCrash
  BY <1>9, <1>a DEF MachineCrash
<1>10. CASE UNCHANGED vars
  BY <1>10, <1>a DEF vars, CalmFacts
<1> QED
  BY <1>1, <1>2, <1>3, <1>4, <1>5, <1>6, <1>7, <1>8, <1>9, <1>10 DEF Next, Step

\* The inductive invariant holds in every reachable state.
THEOREM Invariance == Spec => []IInv
<1>1. Init => IInv
  BY DEF Init, IInv, TypeOK, NeverTorn, TempSynced, OriginOK, CalmTogether, CalmFacts,
         Files, Content, Origins, TempStates, Running, Ended, HoldsKey
<1>2. IInv /\ [Next]_vars => IInv'
  BY TypeStep, TornStep, OriginStep, CalmTogetherStep, CalmFactsStep DEF IInv
<1> QED
  BY <1>1, <1>2, PTL DEF Spec

\* Types, for every number of runs and keys.
THEOREM TypeCorrect == Spec => []TypeOK
BY Invariance, PTL DEF IInv

\* No schedule of runs, failures, kills and crashes leaves a torn key or torn
\* metadata (atomicWriteFile).
THEOREM NoTornFile == Spec => []NeverTorn
BY Invariance, PTL DEF IInv

\* A calm run that reports its key, or finds it described, is right about the
\* files (runBootstrapCommand's success and ErrPrivateKeyExists exits).
THEOREM CalmRunCorrect == Spec => []CalmRunDescribesKey
<1>1. IInv => CalmRunDescribesKey
  BY DEF IInv, CalmFacts, CalmRunDescribesKey, KeyInPlace, MetaInPlace
<1> QED
  BY <1>1, Invariance, PTL

\* What a calm run has reported survives a machine crash.
THEOREM ReportDurable == Spec => []ReportedKeyDurable
<1>1. IInv => ReportedKeyDurable
  BY DEF IInv, CalmFacts, ReportedKeyDurable, MetaSynced, KeySynced
<1> QED
  BY <1>1, Invariance, PTL

\* No unforced run replaces a key: the key that readers see changes only by a
\* forced run's rename or by a machine crash (SavePrivateKey's link).
THEOREM RotationForced == Spec => NoSilentRotation
<1> DEFINE Safe == entry["key"] \in Keys /\ entry'["key"] # entry["key"] => KeyReplacement
<1>1. IInv /\ [Next]_vars => [Safe]_vars
  <2> SUFFICES ASSUME TypeOK, [Next]_vars, ~Safe PROVE FALSE
    BY DEF IInv
  <2>1. ASSUME NEW p \in Procs, InstallEntry(p), Install(p) PROVE FALSE
    <3>1. file[p] = "key" /\ entry'["key"] = own[p]
      BY <2>1 DEF InstallEntry, TypeOK, Files
    <3>2. ~force[p]
      BY <2>1, <3>1 DEF Install, KeyReplacement
    <3> QED
      BY <2>1, <3>1, <3>2 DEF InstallEntry, Overwrites
  <2>2. CASE MachineCrash
    BY <2>2 DEF MachineCrash, KeyReplacement, Files
  <2>3. ASSUME entry' = entry PROVE FALSE
    BY <2>3
  <2> QED
    BY <2>1, <2>2, <2>3 DEF Next, Step, Start, Quote, EnsureDirectory, WriteTemp, SyncTemp,
       Install, InstallFoundKey, RemoveTemp, SyncDirectory, LoadKey, LoadMeta, Attest,
       CallFails, Kill, vars
<1> QED
  BY <1>1, Invariance, PTL DEF Spec, NoSilentRotation

\* Unforced runs keep a key store, whatever fails or is killed: each of the calls in
\* which SavePrivateKey and SaveBootstrapData show a file to readers is a step of it.
\* The metadata that a calm run installs is for the installed key by CalmFacts.
THEOREM StoreKept == Spec => QuietRunsKeepStore
<1> DEFINE Kept == Quiet /\ ~MachineCrash => [Store!Next]_(Store!store)
<1>1. IInv /\ [Next]_vars => [Kept]_vars
  <2> SUFFICES ASSUME IInv, [Next]_vars, Quiet, ~MachineCrash
               PROVE  Store!Next \/ UNCHANGED (Store!store)
    OBVIOUS
  <2>1. ASSUME NEW p \in Procs, InstallEntry(p), Install(p) PROVE Store!Next
    <3>1. pc[p] = "install" /\ calm[p] /\ ~force[p]
      BY <2>1 DEF Install, Quiet, Active, Running
    <3>2. own[p] \in Keys /\ file[p] \in Files /\ entry \in [Files -> Content]
      BY <3>1 DEF IInv, TypeOK, HoldsKey, Running
    <3>3. entry' = [entry EXCEPT ![file[p]] = own[p]]
      BY <2>1 DEF InstallEntry
    <3>4. CASE file[p] = "key"
      <4>1. entry["key"] = Absent
        BY <2>1, <3>1, <3>4 DEF InstallEntry, Overwrites
      <4>2. Store!Create
        BY <3>2, <3>3, <3>4, <4>1 DEF Store!Create, Files
      <4> QED BY <4>2 DEF Store!Next
    <3>5. CASE file[p] = "bootstrap"
      <4>1. entry["key"] = own[p]
        BY <3>1, <3>5 DEF IInv, CalmFacts, KeyInPlace
      <4>2. Store!Describe
        BY <3>2, <3>3, <3>5, <4>1 DEF Store!Describe, Files
      <4> QED BY <4>2 DEF Store!Next
    <3> QED
      BY <3>2, <3>4, <3>5 DEF Files
  <2>2. ASSUME entry' = entry PROVE UNCHANGED (Store!store)
    BY <2>2 DEF Store!store
  <2> QED
    BY <2>1, <2>2 DEF Next, Step, Start, Quote, EnsureDirectory, WriteTemp, SyncTemp,
       Install, InstallFoundKey, RemoveTemp, SyncDirectory, LoadKey, LoadMeta, Attest,
       CallFails, Kill, vars
<1>2. Init => Store!Init
  BY DEF Init, Store!Init, Files
<1> QED
  BY <1>1, <1>2, Invariance, PTL DEF Spec, QuietRunsKeepStore

=============================================================================
