------------------------------ MODULE TeeBootstrap ------------------------------
(***************************************************************************)
(* `gaiko2 bootstrap`: several runs of the command, possibly at once, that *)
(* share one secret directory (the sealed key) and one config directory    *)
(* (bootstrap.gaiko2.json, which describes the key and carries its quote). *)
(*                                                                         *)
(* A run is a process.  Every system call that another run, a kill or a    *)
(* machine crash could come between is a step of its own; both files are   *)
(* written by the same ensureDirectory + atomicWriteFile steps.            *)
(*                                                                         *)
(* The file system is POSIX: a directory entry that was linked or renamed  *)
(* is visible at once and durable only after the directory is synced; the  *)
(* data of a file is on the disk only after the file is synced.  disk[f]   *)
(* is the set of contents f may have after a machine crash.                *)
(*                                                                         *)
(* A sealed key, and the metadata that describes it, are both represented  *)
(* by the key itself: the quote is over the key's address, so which quote  *)
(* is stored makes no difference.                                          *)
(***************************************************************************)
EXTENDS Naturals, FiniteSets

CONSTANTS
  Procs,            \* runs of the command
  Keys,             \* private keys
  Absent,           \* content of a file that does not exist
  Torn,             \* content of a truncated or half-written file
  MaxDisturbances   \* bound on forced runs, failed calls, kills and crashes

ASSUME SentinelsDistinct ==
  /\ Absent \notin Keys
  /\ Torn \notin Keys
  /\ Absent # Torn

ASSUME MaxDisturbancesNat == MaxDisturbances \in Nat

VARIABLES
  entry,   \* [Files -> Content]: what a reader of the file sees now
  disk,    \* [Files -> SUBSET Content]: what it may see after a machine crash
  pc,      \* [Procs -> control state]
  force,   \* [Procs -> BOOLEAN]: the run was given --force
  own,     \* [Procs -> Keys or Absent]: the key the run generated or loaded
  origin,  \* [Procs -> Origins]: where own came from
  file,    \* [Procs -> Files]: the file the run is writing
  tmp,     \* [Procs -> TempStates]: its temporary file
  calm,    \* history: no forced run has overlapped this one (see Start)
  disturbances \* history: how many disturbances have happened

vars == <<entry, disk, pc, force, own, origin, file, tmp, calm, disturbances>>

Files == {"key", "bootstrap"}
Content == Keys \cup {Absent, Torn}
Origins == {"generated", "loaded", "matched"}
TempStates == {"none", "written", "synced"}

\* Control states in which the run exists, and those it ends in: "ok" is exit
\* status 0, "exists" the non-zero exit that reports a key already described by
\* its metadata, "failed" any other error.
Running == {"quote", "ensure", "write", "fsync", "install", "unlink",
            "syncdir", "loadKey", "loadMeta", "attest"}
Ended == {"idle", "ok", "exists", "failed"}

\* ... and those in which it works with a key it has generated or loaded.
HoldsKey == (Running \ {"loadKey"}) \cup {"ok", "exists"}

Active == {p \in Procs : pc[p] \in Running}

\* The types; in particular a run that goes on to write or to report has a key
\* in hand, also after it lost the race for the key file.
TypeOK ==
  /\ entry \in [Files -> Content]
  /\ disk \in [Files -> SUBSET Content]
  /\ pc \in [Procs -> Running \cup Ended]
  /\ force \in [Procs -> BOOLEAN]
  /\ own \in [Procs -> Keys \cup {Absent}]
  /\ origin \in [Procs -> Origins]
  /\ file \in [Procs -> Files]
  /\ tmp \in [Procs -> TempStates]
  /\ calm \in [Procs -> BOOLEAN]
  /\ disturbances \in 0..MaxDisturbances
  /\ \A p \in Procs : pc[p] \in HoldsKey => own[p] \in Keys

Init ==
  /\ entry = [f \in Files |-> Absent]
  /\ disk = [f \in Files |-> {Absent}]
  /\ pc = [p \in Procs |-> "idle"]
  /\ force = [p \in Procs |-> FALSE]
  /\ own = [p \in Procs |-> Absent]
  /\ origin = [p \in Procs |-> "loaded"]
  /\ file = [p \in Procs |-> "key"]
  /\ tmp = [p \in Procs |-> "none"]
  /\ calm = [p \in Procs |-> FALSE]
  /\ disturbances = 0

-----------------------------------------------------------------------------
(* Helpers *)

\* A generated key is none that anything still refers to.
FreshKeys ==
  Keys \ ((UNION {disk[f] \cup {entry[f]} : f \in Files}) \cup {own[p] : p \in Procs})

Disturb ==
  /\ disturbances < MaxDisturbances
  /\ disturbances' = disturbances + 1

\* Syncing a directory makes its entries durable; it does not write out the
\* data of a file that was never synced.
Synced(f) == {entry[f]} \cup (disk[f] \cap {Torn})

\* Mutation: the key is installed by rename with or without --force.
OverwritesAlways(p) == p \in Procs

\* Installation replaces an existing file: bootstrap data always, the key only
\* with --force.
Overwrites(p) == file[p] = "bootstrap" \/ force[p]

-----------------------------------------------------------------------------
(* The command *)

\* History: a run is calm as long as it shares its time with no forced run, nor
\* with a run left over from one.  A forced run is calm only alone.
StartCalm(p, forced) ==
  LET calmStart == \A q \in Active : calm[q] /\ ~force[q] /\ ~forced
  IN  calm' = [q \in Procs |-> IF q = p THEN calmStart
                               ELSE calm[q] /\ calmStart /\ ~forced]

\* Mutation: an existing key ends the run at once, whatever its metadata says.
StartExistsOnly(p, forced) ==
  /\ pc[p] \in Ended
  /\ IF forced THEN Disturb ELSE UNCHANGED disturbances
  /\ force' = [force EXCEPT ![p] = forced]
  /\ StartCalm(p, forced)
  /\ \/ /\ ~forced /\ entry["key"] # Absent
        /\ pc' = [pc EXCEPT ![p] = "failed"]
        /\ UNCHANGED <<own, origin>>
     \/ /\ forced \/ entry["key"] = Absent
        /\ pc' = [pc EXCEPT ![p] = "quote"]
        /\ \E k \in FreshKeys : own' = [own EXCEPT ![p] = k]
        /\ origin' = [origin EXCEPT ![p] = "generated"]
  /\ file' = [file EXCEPT ![p] = "key"]
  /\ UNCHANGED <<entry, disk, tmp>>

\* runBootstrapCommand up to Bootstrap's first decision.  Without --force an
\* existing key file, readable or not, leads to BootstrapDataForExistingKey;
\* otherwise a key is generated, in memory only.
Start(p, forced) ==
  /\ pc[p] \in Ended
  /\ IF forced THEN Disturb ELSE UNCHANGED disturbances
  /\ force' = [force EXCEPT ![p] = forced]
  /\ StartCalm(p, forced)
  /\ \/ /\ ~forced /\ entry["key"] # Absent
        /\ pc' = [pc EXCEPT ![p] = "loadKey"]
        /\ own' = [own EXCEPT ![p] = Absent]
        /\ origin' = [origin EXCEPT ![p] = "loaded"]
     \/ /\ forced \/ entry["key"] = Absent
        /\ pc' = [pc EXCEPT ![p] = "quote"]
        /\ \E k \in FreshKeys : own' = [own EXCEPT ![p] = k]
        /\ origin' = [origin EXCEPT ![p] = "generated"]
  /\ file' = [file EXCEPT ![p] = "key"]
  /\ UNCHANGED <<entry, disk, tmp>>

\* bootstrapData: the quote comes before anything is written.  A generated key
\* is saved next; a loaded one only needs its metadata.
Quote(p) ==
  /\ pc[p] = "quote"
  /\ file' = [file EXCEPT ![p] = IF origin[p] = "generated" THEN "key" ELSE "bootstrap"]
  /\ pc' = [pc EXCEPT ![p] = "ensure"]
  /\ UNCHANGED <<entry, disk, force, own, origin, tmp, calm, disturbances>>

\* ensureDirectory: besides creating it, syncs the directory and its ancestors,
\* which makes what another run installed there durable.
EnsureDirectory(p) ==
  /\ pc[p] = "ensure"
  /\ disk' = [disk EXCEPT ![file[p]] = Synced(file[p])]
  /\ pc' = [pc EXCEPT ![p] = "write"]
  /\ UNCHANGED <<entry, force, own, origin, file, tmp, calm, disturbances>>

\* Mutation: the temporary file is installed without having been synced.
WriteTempUnsynced(p) ==
  /\ pc[p] = "write"
  /\ tmp' = [tmp EXCEPT ![p] = "written"]
  /\ pc' = [pc EXCEPT ![p] = "install"]
  /\ UNCHANGED <<entry, disk, force, own, origin, file, calm, disturbances>>

\* atomicWriteFile: create and write the temporary file ...
WriteTemp(p) ==
  /\ pc[p] = "write"
  /\ tmp' = [tmp EXCEPT ![p] = "written"]
  /\ pc' = [pc EXCEPT ![p] = "fsync"]
  /\ UNCHANGED <<entry, disk, force, own, origin, file, calm, disturbances>>

\* ... sync and close it ...
SyncTemp(p) ==
  /\ pc[p] = "fsync"
  /\ tmp' = [tmp EXCEPT ![p] = "synced"]
  /\ pc' = [pc EXCEPT ![p] = "install"]
  /\ UNCHANGED <<entry, disk, force, own, origin, file, calm, disturbances>>

\* ... and install it, by rename or by link.  The new entry may or may not be on
\* the disk before the next directory sync; a file that was not synced may show
\* up torn.
InstallEntry(p) ==
  /\ Overwrites(p) \/ entry[file[p]] = Absent
  /\ entry' = [entry EXCEPT ![file[p]] = own[p]]
  /\ disk' = [disk EXCEPT ![file[p]] =
                @ \cup {own[p]} \cup (IF tmp[p] = "synced" THEN {} ELSE {Torn})]
  /\ IF Overwrites(p)
     THEN /\ tmp' = [tmp EXCEPT ![p] = "none"]
          /\ pc' = [pc EXCEPT ![p] = "syncdir"]
     ELSE /\ pc' = [pc EXCEPT ![p] = "unlink"]
          /\ UNCHANGED tmp
  /\ UNCHANGED own

\* Mutation: a lost race goes on to the metadata without loading the winner's key.
InstallFoundKeyUnloaded(p) ==
  /\ ~Overwrites(p) /\ entry[file[p]] # Absent
  /\ tmp' = [tmp EXCEPT ![p] = "none"]
  /\ own' = [own EXCEPT ![p] = Absent]
  /\ pc' = [pc EXCEPT ![p] = "loadMeta"]
  /\ UNCHANGED <<entry, disk>>

\* Mutation: a lost race counts as an installation of the run's own key.
InstallFoundKeyIgnored(p) ==
  /\ ~Overwrites(p) /\ entry[file[p]] # Absent
  /\ tmp' = [tmp EXCEPT ![p] = "none"]
  /\ pc' = [pc EXCEPT ![p] = "syncdir"]
  /\ UNCHANGED <<own, entry, disk>>

\* The link found a key: SavePrivateKey reports ErrPrivateKeyExists and the run
\* goes on with the key that is there.  Its own key is forgotten.
InstallFoundKey(p) ==
  /\ ~Overwrites(p) /\ entry[file[p]] # Absent
  /\ tmp' = [tmp EXCEPT ![p] = "none"]
  /\ own' = [own EXCEPT ![p] = Absent]
  /\ pc' = [pc EXCEPT ![p] = "loadKey"]
  /\ UNCHANGED <<entry, disk>>

Install(p) ==
  /\ pc[p] = "install"
  /\ InstallEntry(p) \/ InstallFoundKey(p)
  /\ UNCHANGED <<force, origin, file, calm, disturbances>>

\* After a link the temporary name is removed.
RemoveTemp(p) ==
  /\ pc[p] = "unlink"
  /\ tmp' = [tmp EXCEPT ![p] = "none"]
  /\ pc' = [pc EXCEPT ![p] = "syncdir"]
  /\ UNCHANGED <<entry, disk, force, own, origin, file, calm, disturbances>>

\* Mutation: the directory is not synced after the installation.
SyncDirectorySkipped(p) ==
  /\ pc[p] = "syncdir"
  /\ file' = [file EXCEPT ![p] = "bootstrap"]
  /\ pc' = [pc EXCEPT ![p] = IF file[p] = "key" THEN "ensure" ELSE "attest"]
  /\ UNCHANGED <<entry, disk, force, own, origin, tmp, calm, disturbances>>

\* The last call of atomicWriteFile.  After the key comes its metadata.
SyncDirectory(p) ==
  /\ pc[p] = "syncdir"
  /\ disk' = [disk EXCEPT ![file[p]] = Synced(file[p])]
  /\ file' = [file EXCEPT ![p] = "bootstrap"]
  /\ pc' = [pc EXCEPT ![p] = IF file[p] = "key" THEN "ensure" ELSE "attest"]
  /\ UNCHANGED <<entry, force, own, origin, tmp, calm, disturbances>>

\* BootstrapDataForExistingKey: LoadPrivateKey.  A key file that cannot be
\* unsealed ends the run; it is never replaced.
LoadKey(p) ==
  /\ pc[p] = "loadKey"
  /\ origin' = [origin EXCEPT ![p] = "loaded"]
  /\ \/ /\ entry["key"] \in Keys
        /\ own' = [own EXCEPT ![p] = entry["key"]]
        /\ pc' = [pc EXCEPT ![p] = "loadMeta"]
     \/ /\ entry["key"] \notin Keys
        /\ pc' = [pc EXCEPT ![p] = "failed"]
        /\ UNCHANGED own
  /\ UNCHANGED <<entry, disk, force, file, tmp, calm, disturbances>>

\* Mutation: any metadata that parses counts as a match.
LoadMetaAnyKey(p) ==
  /\ pc[p] = "loadMeta"
  /\ \/ /\ entry["bootstrap"] \in Keys
        /\ origin' = [origin EXCEPT ![p] = "matched"]
        /\ pc' = [pc EXCEPT ![p] = "attest"]
     \/ /\ entry["bootstrap"] \notin Keys
        /\ pc' = [pc EXCEPT ![p] = "quote"]
        /\ UNCHANGED origin
  /\ UNCHANGED <<entry, disk, force, own, file, tmp, calm, disturbances>>

\* Metadata that describes the key is kept as it is; missing, malformed or
\* foreign metadata is rebuilt with a new quote.
LoadMeta(p) ==
  /\ pc[p] = "loadMeta"
  /\ \/ /\ entry["bootstrap"] = own[p]
        /\ origin' = [origin EXCEPT ![p] = "matched"]
        /\ pc' = [pc EXCEPT ![p] = "attest"]
     \/ /\ entry["bootstrap"] # own[p]
        /\ pc' = [pc EXCEPT ![p] = "quote"]
        /\ UNCHANGED origin
  /\ UNCHANGED <<entry, disk, force, own, file, tmp, calm, disturbances>>

\* The attestation metadata names the enclave, not the key: only that the write
\* may fail matters here.  Then the command prints the data, or reports that the
\* key exists.
Attest(p) ==
  /\ pc[p] = "attest"
  /\ pc' = [pc EXCEPT ![p] = IF origin[p] = "matched" THEN "exists" ELSE "ok"]
  /\ UNCHANGED <<entry, disk, force, own, origin, file, tmp, calm, disturbances>>

Step(p) ==
  \/ Quote(p) \/ EnsureDirectory(p) \/ WriteTemp(p) \/ SyncTemp(p) \/ Install(p)
  \/ RemoveTemp(p) \/ SyncDirectory(p) \/ LoadKey(p) \/ LoadMeta(p) \/ Attest(p)

-----------------------------------------------------------------------------
(* What can go wrong around the command *)

\* The call the run is at fails (quote, write, sync, link, rename, remove,
\* unseal, attestation).  Deferred cleanup drops the temporary file; what was
\* installed earlier stays.
CallFails(p) ==
  /\ pc[p] \in Running
  /\ Disturb
  /\ tmp' = [tmp EXCEPT ![p] = "none"]
  /\ pc' = [pc EXCEPT ![p] = "failed"]
  /\ UNCHANGED <<entry, disk, force, own, origin, file, calm>>

\* The process is killed.  A temporary file that is left behind is never read.
Kill(p) ==
  /\ pc[p] \in Running
  /\ Disturb
  /\ tmp' = [tmp EXCEPT ![p] = "none"]
  /\ pc' = [pc EXCEPT ![p] = "idle"]
  /\ UNCHANGED <<entry, disk, force, own, origin, file, calm>>

\* Power loss: every file comes back as one of the contents the disk may hold.
MachineCrash ==
  /\ Disturb
  /\ entry' \in {e \in [Files -> Content] : \A f \in Files : e[f] \in disk[f]}
  /\ disk' = [f \in Files |-> {entry'[f]}]
  /\ pc' = [p \in Procs |-> "idle"]
  /\ tmp' = [p \in Procs |-> "none"]
  /\ own' = [p \in Procs |-> Absent]
  /\ UNCHANGED <<force, origin, file, calm>>

Next ==
  \/ \E p \in Procs, forced \in BOOLEAN : Start(p, forced)
  \/ \E p \in Procs : Step(p) \/ CallFails(p) \/ Kill(p)
  \/ MachineCrash

Spec == Init /\ [][Next]_vars

\* A run that is not disturbed keeps running, and the operator runs the command
\* again (without --force) when it has ended.
Fairness == \A p \in Procs : WF_vars(Step(p)) /\ WF_vars(Start(p, FALSE))

FairSpec == Spec /\ Fairness

-----------------------------------------------------------------------------
(* Properties *)

\* atomicWriteFile's promise: "a crash mid-write can never leave a truncated key
\* or torn JSON behind".  Neither file is ever seen torn, and no machine crash
\* can make it so, whatever runs, fails or is killed.
NeverTorn == \A f \in Files : entry[f] # Torn /\ Torn \notin disk[f]

\* The installed key changes under a reader only in a forced run's rename or in
\* a machine crash: "Re-running bootstrap without --force never rotates an
\* existing tee key".  It holds although an unforced run decides on a stat that
\* is long out of date when it installs its own key.
KeyReplacement ==
  \/ \E p \in Procs : pc[p] = "install" /\ force[p] /\ entry'["key"] = own[p]
  \/ /\ entry'["key"] \in disk["key"]
     /\ \A p \in Procs : pc'[p] = "idle"

NoSilentRotation ==
  [][entry["key"] \in Keys /\ entry'["key"] # entry["key"] => KeyReplacement]_vars

\* A run that reports success, or that reports the key as already described,
\* leaves metadata for exactly the installed key: true for every run, alone or
\* among other unforced ones, that overlapped no forced run nor a leftover of
\* one, whatever crashed or failed before it.
CalmRunDescribesKey ==
  \A p \in Procs :
    pc[p] \in {"ok", "exists"} /\ calm[p]
      => /\ entry["key"] = own[p]
         /\ entry["bootstrap"] = own[p]

\* Once such a run has reported success its metadata survives a machine crash,
\* and so does the key if this run created it: the operator may register the
\* address that was printed.
ReportedKeyDurable ==
  \A p \in Procs :
    pc[p] = "ok" /\ calm[p]
      => /\ disk["bootstrap"] = {own[p]}
         /\ origin[p] = "generated" => disk["key"] = {own[p]}

\* No forced run is under way, nor a run that overlapped one.
Quiet == \A p \in Active : calm[p] /\ ~force[p]

Store == INSTANCE KeyStore WITH key <- entry["key"], described <- entry["bootstrap"]

\* Among unforced runs, the two files are a key store, at every call of theirs and
\* whichever of them fails or is killed: a key appears only where there is none, and
\* metadata is never installed for any key but the one that is installed.  Only a
\* machine crash does anything else.
QuietRunsKeepStore ==
  /\ Store!Init
  /\ [][Quiet /\ ~MachineCrash => [Store!Next]_(Store!store)]_vars

\* If the disturbances stop, re-running the command without --force repairs
\* everything: from some point on there is a key and the metadata describes it,
\* however the earlier runs were interleaved, killed or crashed.
EventuallyDescribed ==
  <>[](entry["key"] \in Keys /\ entry["bootstrap"] = entry["key"])

-----------------------------------------------------------------------------
(* The inductive invariant behind the safety properties *)

\* The run has installed own[p], or has read it from the key file.
KeyInPlace(p) ==
  \/ pc[p] \in {"loadMeta", "attest", "ok", "exists"}
  \/ pc[p] = "quote" /\ origin[p] = "loaded"
  \/ pc[p] \in {"unlink", "syncdir"}
  \/ pc[p] \in {"ensure", "write", "fsync", "install"} /\ file[p] = "bootstrap"

\* The run has installed metadata for own[p], or has found it there.
MetaInPlace(p) ==
  \/ pc[p] \in {"attest", "ok", "exists"}
  \/ pc[p] = "syncdir" /\ file[p] = "bootstrap"

\* The run has synced the directory after installing its metadata, its key.
MetaSynced(p) == pc[p] = "ok" \/ (pc[p] = "attest" /\ origin[p] # "matched")
KeySynced(p) ==
  /\ origin[p] = "generated"
  /\ \/ pc[p] \in {"attest", "ok"}
     \/ pc[p] \in {"ensure", "write", "fsync", "install", "syncdir"} /\ file[p] = "bootstrap"

\* Only synced files are installed, and only the key is installed by a link.
TempSynced ==
  \A p \in Procs : /\ pc[p] = "install" => tmp[p] = "synced"
                   /\ pc[p] = "unlink" => file[p] = "key"

\* A quote is fetched for a generated or for a loaded key, metadata is compared
\* with a loaded one.
OriginOK ==
  \A p \in Procs :
    /\ pc[p] = "loadMeta" => origin[p] = "loaded"
    /\ pc[p] = "quote" => origin[p] \in {"generated", "loaded"}

\* A calm run shares its time with calm runs only, and with no forced one.
CalmTogether ==
  \A p \in Procs, q \in Active :
    calm[p] => calm[q] /\ (p # q => ~force[q])

\* What a calm run has done is still there.
CalmFacts ==
  \A p \in Procs :
    calm[p] =>
      /\ KeyInPlace(p) => entry["key"] = own[p]
      /\ MetaInPlace(p) => entry["bootstrap"] = own[p]
      /\ MetaSynced(p) => disk["bootstrap"] = {own[p]}
      /\ KeySynced(p) => disk["key"] = {own[p]}

IInv == TypeOK /\ NeverTorn /\ TempSynced /\ OriginOK /\ CalmTogether /\ CalmFacts

=============================================================================
