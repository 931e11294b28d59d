------------------------------ MODULE Deployment ------------------------------
(***************************************************************************)
(* Releases of the TEE service on one host (scripts/deploy-tee.sh,         *)
(* compose.yaml), from the bootstrap of a key to a container that serves   *)
(* with it, and what a container reads when it starts (config.go,          *)
(* signer.go).  Operators run the commands in any order and with any       *)
(* options; commands and hooks fail half way, processes end at any moment. *)
(*                                                                         *)
(* A release has a directory and an env file, named by fork and release as *)
(* they are; its compose project is named by their slugs, which two        *)
(* releases may share.  The bootstrap command is TeeBootstrap's: here it   *)
(* is what it leaves behind in a KeyStore.                                 *)
(***************************************************************************)
EXTENDS Integers, Sequences

CONSTANTS
  Releases,  \* fork and release
  ForkOf,    \* the fork of each
  Images,    \* GAIKO2_TEE_IMAGE: an enclave that unseals its own keys only
  Ports,     \* GAIKO2_TEE_PORT
  None,
  MaxIds,    \* bound on registrations
  MaxCrashes \* bound on processes that end

ASSUME DeploymentAssumption ==
  /\ ForkOf \in [Releases -> STRING]
  /\ Images # {} /\ Ports # {} /\ MaxIds \in Nat /\ MaxCrashes \in Nat

\* Every release makes its own keys; an image seals them.
Key == [release : Releases, count : Nat]
Sealed == [key : Key, sealedBy : Images]

ASSUME NoneAssumption == None \notin Sealed /\ None \notin Key

VARIABLES
  project,   \* the compose project of each release
  env,       \* its env file, or None
  secrets,   \* its sealed key and the image that sealed it, or None
  bootstrap, \* the key in its bootstrap.gaiko2.json, or None
  registered,\* its registered.gaiko2.json, from forks to ids, or None
  registry,  \* on L1: the key of each instance id
  containers,\* of each project: its settings and its process, or None
  crashes

files == <<env, secrets, bootstrap, registered>>
vars == <<project, files, registry, containers, crashes>>

Projects == {project[r] : r \in Releases}
Live == {"starting", "configured", "serving", "exited"}

-----------------------------------------------------------------------------
(* The env file *)

\* What .env.example holds, as far as it is not replaced at once.
Template ==
  [fork |-> "unzen", dir |-> None, image |-> CHOOSE i \in Images : TRUE,
   port |-> CHOOSE p \in Ports : TRUE, id |-> None]

Given(option, value) == IF option = None THEN value ELSE option

\* upsert_env for what a release determines and for every option on the command line.
Upserted(e, r, options) ==
  [fork |-> ForkOf[r], dir |-> r,
   image |-> Given(options.image, e.image), port |-> Given(options.port, e.port),
   id |-> Given(options.id, e.id)]

\* ensure_release_env creates the file, sync_existing_release_env does not.
SyncEnv(r, options) ==
  env' = [env EXCEPT ![r] = Upserted(IF @ = None THEN Template ELSE @, r, options)]

\* At most one option with a command.  Operators name an id only once it is
\* registered for the key of the release.
NoOptions == [image |-> None, port |-> None, id |-> None]
Options(r) ==
  {NoOptions} \cup {[NoOptions EXCEPT !.image = i] : i \in Images}
              \cup {[NoOptions EXCEPT !.port = p] : p \in Ports}
              \cup {[NoOptions EXCEPT !.id = i] :
                      i \in {i \in DOMAIN registry : secrets[r] # None /\ registry[i] = secrets[r].key}}

-----------------------------------------------------------------------------
(* Commands *)

Init ==
  /\ project \in {[r \in Releases |-> r], [r \in Releases |-> CHOOSE s \in Releases : TRUE]}
  /\ env = [r \in Releases |-> None]
  /\ secrets = [r \in Releases |-> None]
  /\ bootstrap = [r \in Releases |-> None]
  /\ registered = [r \in Releases |-> None]
  /\ registry = <<>>
  /\ containers = [r \in Releases |-> None]
  /\ crashes = 0

\* Every release has its own keys, in the order in which they were made.
FreshKey(r) == [release |-> r, count |-> IF secrets[r] = None THEN 1 ELSE secrets[r].key.count + 1]

\* Mutation: the init container replaces a key that it finds.
BootstrapForced(r, image) ==
  {<<secrets[r], bootstrap[r]>>} \cup
  {<<[key |-> FreshKey(r), sealedBy |-> image], b>> : b \in {bootstrap[r], FreshKey(r)}}

\* What gaiko2-tee-init leaves: a key that is there stays, and its bootstrap data
\* are recovered if the image can unseal it.  It may fail before each step.
Bootstrap(r, image) ==
  {<<secrets[r], bootstrap[r]>>} \cup
  IF secrets[r] = None
    THEN {<<[key |-> FreshKey(r), sealedBy |-> image], b>> : b \in {bootstrap[r], FreshKey(r)}}
    ELSE IF secrets[r].sealedBy = image THEN {<<secrets[r], secrets[r].key>>} ELSE {}

cmd_init(r, options) ==
  /\ SyncEnv(r, options)
  /\ \E left \in Bootstrap(r, env'[r].image) :
       secrets' = [secrets EXCEPT ![r] = left[1]] /\ bootstrap' = [bootstrap EXCEPT ![r] = left[2]]
  /\ UNCHANGED <<project, registered, registry, containers, crashes>>

\* The register hook registers the bootstrapped key and writes its id down, unless
\* it fails before, or between the two.  Without a hook only the env is synced.
cmd_register(r, options) ==
  /\ env[r] # None
  /\ SyncEnv(r, options)
  /\ \/ UNCHANGED <<registry, registered>>
     \/ /\ bootstrap[r] # None /\ Len(registry) < MaxIds
        /\ registry' = Append(registry, bootstrap[r])
        /\ registered' \in {registered,
             [registered EXCEPT ![r] = [f \in {ForkOf[r]} |-> Len(registry) + 1]]}
  /\ UNCHANGED <<project, secrets, bootstrap, containers, crashes>>

\* An operator writes an id that was registered, under the name of any fork.
WriteRegistered(r, fork, id) ==
  /\ secrets[r] # None /\ registry[id] = secrets[r].key
  /\ registered' = [registered EXCEPT ![r] = [f \in {fork} |-> id]]
  /\ UNCHANGED <<project, env, secrets, bootstrap, registry, containers, crashes>>

PortTaken(p, port) ==
  \E q \in Projects \ {p} : containers[q] # None /\ containers[q].phase \in Live
                            /\ containers[q].settings.port = port

\* compose up: a container whose settings are the same keeps running, any other is
\* made anew.  It is not started while another holds its port, which a container
\* keeps while its process is started again.
Composed(p, settings) ==
  IF containers[p] # None /\ containers[p].settings = settings /\ containers[p].phase \in Live
    THEN containers[p]
    ELSE [settings |-> settings, id |-> None, key |-> None,
          phase |-> IF PortTaken(p, settings.port) THEN "created" ELSE "starting"]

cmd_up(r, options) ==
  /\ env[r] # None
  /\ SyncEnv(r, options)
  /\ containers' = IF secrets[r] # None /\ (env'[r].id # None \/ registered[r] # None)
                   THEN [containers EXCEPT ![project[r]] = Composed(project[r], env'[r])]
                   ELSE containers
  /\ UNCHANGED <<project, secrets, bootstrap, registered, registry, crashes>>

cmd_down(r, options) ==
  /\ env[r] # None
  /\ SyncEnv(r, options)
  /\ containers' = [containers EXCEPT ![project[r]] = None]
  /\ UNCHANGED <<project, secrets, bootstrap, registered, registry, crashes>>

\* logs and health save the options as well.
cmd_logs(r, options) ==
  /\ env[r] # None
  /\ SyncEnv(r, options)
  /\ UNCHANGED <<project, secrets, bootstrap, registered, registry, containers, crashes>>

-----------------------------------------------------------------------------
(* The process in a container *)

InPhase(p, phase) == containers[p] # None /\ containers[p].phase = phase

\* ServiceConfigFromEnv: the id of the environment, or of the fork in the file.
Resolved(s) ==
  IF s.id # None THEN s.id
  ELSE IF registered[s.dir] = None \/ s.fork \notin DOMAIN registered[s.dir] THEN None
  ELSE registered[s.dir][s.fork]

LoadConfig(p) ==
  /\ InPhase(p, "starting")
  /\ LET id == Resolved(containers[p].settings)
     IN  containers' = [containers EXCEPT ![p].id = id,
                                          ![p].phase = IF id = None THEN "exited" ELSE "configured"]
  /\ UNCHANGED <<project, files, registry, crashes>>

Unsealed(s) == secrets[s.dir] # None /\ secrets[s.dir].sealedBy = s.image

\* NewConfiguredReplayService
LoadKey(p) ==
  /\ InPhase(p, "configured")
  /\ containers' =
       IF Unsealed(containers[p].settings)
         THEN [containers EXCEPT ![p].key = secrets[containers[p].settings.dir].key,
                                 ![p].phase = "serving"]
         ELSE [containers EXCEPT ![p].phase = "exited"]
  /\ UNCHANGED <<project, files, registry, crashes>>

Crash(p) ==
  /\ containers[p] # None /\ containers[p].phase \in Live \ {"exited"}
  /\ crashes < MaxCrashes
  /\ crashes' = crashes + 1
  /\ containers' = [containers EXCEPT ![p].phase = "exited"]
  /\ UNCHANGED <<project, files, registry>>

\* Mutation: a process that found nothing to serve with is not started again.
RestartOnlyConfigured(p) ==
  /\ InPhase(p, "exited") /\ containers[p].id # None
  /\ containers' = [containers EXCEPT ![p].phase = "starting", ![p].id = None, ![p].key = None]
  /\ UNCHANGED <<project, files, registry, crashes>>

\* restart: unless-stopped
Restart(p) ==
  /\ InPhase(p, "exited")
  /\ containers' = [containers EXCEPT ![p].phase = "starting", ![p].id = None, ![p].key = None]
  /\ UNCHANGED <<project, files, registry, crashes>>

ProcessStep(p) == LoadConfig(p) \/ LoadKey(p) \/ Restart(p)

Next ==
  \/ \E r \in Releases :
       \/ \E options \in Options(r) :
            \/ cmd_init(r, options) \/ cmd_register(r, options) \/ cmd_up(r, options)
            \/ cmd_down(r, options) \/ cmd_logs(r, options)
       \/ \E s \in Releases, id \in DOMAIN registry : WriteRegistered(r, ForkOf[s], id)
  \/ \E p \in Projects : ProcessStep(p) \/ Crash(p)

Spec == Init /\ [][Next]_vars

\* Docker starts what has ended, and a process that runs gets on.
FairSpec == Spec /\ \A r \in Releases : WF_vars(r \in Projects /\ ProcessStep(r))

-----------------------------------------------------------------------------
(* Properties *)

\* A container serves with an instance id and a key that were registered together
\* on L1, through every order of bootstraps, registrations and upgrades, with
\* processes that read the one before and the other after a command has run.
IdentityRegistered ==
  \A p \in Projects :
    InPhase(p, "serving") =>
      /\ containers[p].id \in DOMAIN registry
      /\ registry[containers[p].id] = containers[p].key

\* The directories of a release, as TeeBootstrap's runs see them.
Store(r) ==
  INSTANCE KeyStore WITH
    Absent <- None,
    key <- IF secrets[r] = None THEN None ELSE secrets[r].key,
    described <- bootstrap[r]

\* Whatever commands are run, in whatever order, the key and the bootstrap data of
\* each release change as those of a key store do.
StoresKept ==
  /\ \A r \in Releases : Store(r)!Init
  /\ [][\A r \in Releases : [Store(r)!Next]_(Store(r)!store)]_vars

\* The container's files let it serve.
CanServe(p) ==
  /\ containers[p] # None /\ containers[p].phase \in Live
  /\ Resolved(containers[p].settings) # None /\ Unsealed(containers[p].settings)

\* An operator's up makes the container of a project anew.  A live one with the same
\* settings is kept, so a new one has others.
Replaced(p) ==
  /\ containers[p] # None /\ containers'[p] # None
  /\ containers'[p].settings # containers[p].settings

\* A container whose key and id stay in place serves again and again, though its
\* process had failed before they were and though it may end again (restart:
\* unless-stopped), unless operators go on replacing it by one with other settings.
Recovers ==
  \A r \in Releases :
    <>[](r \in Projects /\ CanServe(r)) =>
      []<>InPhase(r, "serving") \/ []<><<Replaced(r)>>_vars

=============================================================================
