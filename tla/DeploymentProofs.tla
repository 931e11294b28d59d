-------------------------- MODULE DeploymentProofs --------------------------
(***************************************************************************)
(* Proofs about Deployment, for any releases, images, ports and bounds.    *)
(*                                                                         *)
(* What makes the identity of a serving container right is that the key of *)
(* a release is never replaced once it is there (Bootstrap), so that       *)
(* everything that was ever derived from it, the bootstrap data, the ids   *)
(* in the env files and in registered.gaiko2.json, and the settings that   *)
(* containers were made with long ago, still speaks of the key that is     *)
(* loaded now.  The inductive invariant says that of every place an id or  *)
(* a key is kept in.                                                       *)
(***************************************************************************)
EXTENDS Deployment, TLAPS

Settings ==
  [fork : STRING, dir : Releases, image : Images, port : Ports, id : Nat \cup {None}]

Container ==
  [settings : Settings, id : Nat \cup {None}, key : Key \cup {None},
   phase : {"created", "starting", "configured", "serving", "exited"}]

RegisteredFile == UNION {[{f} -> Nat] : f \in STRING}

Types ==
  /\ project \in [Releases -> Releases]
  /\ env \in [Releases -> Settings \cup {None}]
  /\ secrets \in [Releases -> Sealed \cup {None}]
  /\ bootstrap \in [Releases -> Key \cup {None}]
  /\ registered \in [Releases -> RegisteredFile \cup {None}]
  /\ registry \in Seq(Key)
  /\ containers \in [Releases -> Container \cup {None}]
  /\ crashes \in Nat

\* The id is registered on L1 for the key that release r has.
RegisteredFor(id, r) ==
  /\ secrets[r] # None
  /\ id \in DOMAIN registry
  /\ registry[id] = secrets[r].key

\* Bootstrap data are those of the key.
BootstrapOfKey ==
  \A r \in Releases :
    bootstrap[r] # None => secrets[r] # None /\ bootstrap[r] = secrets[r].key

\* Settings that name an id name one that is registered for their directory's key.
Named(s) == s.id # None => RegisteredFor(s.id, s.dir)

EnvNamed == \A r \in Releases : env[r] # None => Named(env[r]) /\ env[r].dir = r

FilesNamed ==
  \A r \in Releases :
    registered[r] # None => \A f \in DOMAIN registered[r] : RegisteredFor(registered[r][f], r)

\* What a container was made with, what its process has read, and what it has loaded.
ContainerNamed(c) ==
  /\ Named(c.settings)
  /\ c.phase \in {"configured", "serving"} => RegisteredFor(c.id, c.settings.dir)
  /\ c.phase = "serving" => c.key = secrets[c.settings.dir].key

ContainersNamed == \A p \in Releases : containers[p] # None => ContainerNamed(containers[p])

Inv ==
  /\ Types
  /\ BootstrapOfKey
  /\ EnvNamed
  /\ FilesNamed
  /\ ContainersNamed

-----------------------------------------------------------------------------
(* What every command keeps *)

\* A key that is there stays, and L1 forgets no registration.
Kept ==
  /\ \A r \in Releases : secrets[r] # None => secrets'[r] = secrets[r]
  /\ registry' = registry \/ \E k \in Key : registry' = Append(registry, k)

LEMMA RegistrationsKept ==
  ASSUME Types, Kept, NEW r \in Releases, NEW id, RegisteredFor(id, r)
  PROVE  RegisteredFor(id, r)'
<1>1. secrets'[r] = secrets[r]
  BY DEF Kept, RegisteredFor
<1>2. id \in DOMAIN registry' /\ registry'[id] = registry[id]
  <2>1. registry \in Seq(Key) /\ id \in 1..Len(registry)
    BY DEF RegisteredFor, Types
  <2>2. CASE registry' = registry
    BY <2>1, <2>2
  <2>3. CASE \E k \in Key : registry' = Append(registry, k)
    BY <2>1, <2>3
  <2> QED
    BY <2>2, <2>3 DEF Kept
<1> QED
  BY <1>1, <1>2 DEF RegisteredFor

LEMMA NamesKept ==
  ASSUME Types, Kept, NEW s \in Settings, Named(s)
  PROVE  Named(s)'
<1> SUFFICES ASSUME s.id # None
             PROVE  RegisteredFor(s.id, s.dir)'
  BY DEF Named
<1>1. s.dir \in Releases /\ RegisteredFor(s.id, s.dir)
  BY DEF Settings, Named
<1> QED
  BY <1>1, RegistrationsKept

LEMMA ContainerKept ==
  ASSUME Types, Kept, NEW c \in Container, ContainerNamed(c)
  PROVE  ContainerNamed(c)'
<1>1. c.settings \in Settings /\ c.settings.dir \in Releases
  BY DEF Container, Settings
<1>2. Named(c.settings)'
  BY <1>1, NamesKept DEF ContainerNamed
<1>3. ASSUME c.phase \in {"configured", "serving"}
      PROVE  /\ RegisteredFor(c.id, c.settings.dir)'
             /\ secrets'[c.settings.dir] = secrets[c.settings.dir]
  <2>1. RegisteredFor(c.id, c.settings.dir)
    BY <1>3 DEF ContainerNamed
  <2> QED
    BY <1>1, <2>1, RegistrationsKept DEF RegisteredFor, Kept
<1> QED
  BY <1>2, <1>3 DEF ContainerNamed

\* The options of a command are typed, and name an id only if it is registered.
LEMMA OptionsNamed ==
  ASSUME Types, NEW r \in Releases, NEW options \in Options(r)
  PROVE  /\ options.image \in Images \cup {None}
         /\ options.port \in Ports \cup {None}
         /\ options.id \in Nat \cup {None}
         /\ options.id # None => RegisteredFor(options.id, r)
<1>1. DOMAIN registry \subseteq Nat
  BY DEF Types
<1> QED
  BY <1>1 DEF Options, NoOptions, RegisteredFor

\* upsert_env leaves a typed env file of the release, whose id, new or old, is
\* registered for its key.
LEMMA SyncedEnv ==
  ASSUME Inv, NEW r \in Releases, NEW options \in Options(r), SyncEnv(r, options)
  PROVE  \E e \in Settings : env' = [env EXCEPT ![r] = e] /\ e.dir = r /\ Named(e)
<1> DEFINE old == IF env[r] = None THEN Template ELSE env[r]
           e == Upserted(old, r, options)
<1>1. env' = [env EXCEPT ![r] = e]
  BY DEF SyncEnv
<1>2. old.image \in Images /\ old.port \in Ports /\ old.id \in Nat \cup {None}
  <2>1. CASE env[r] = None
    BY <2>1, DeploymentAssumption DEF Template
  <2>2. CASE env[r] # None
    BY <2>2 DEF Inv, Types, Settings
  <2> QED
    BY <2>1, <2>2
<1>3. old.id # None => RegisteredFor(old.id, r)
  <2>1. CASE env[r] = None
    BY <2>1 DEF Template
  <2>2. CASE env[r] # None
    BY <2>2 DEF Inv, EnvNamed, Named
  <2> QED
    BY <2>1, <2>2
<1>4. /\ options.image \in Images \cup {None}
      /\ options.port \in Ports \cup {None}
      /\ options.id \in Nat \cup {None}
      /\ options.id # None => RegisteredFor(options.id, r)
  BY OptionsNamed DEF Inv
<1> HIDE DEF old
<1>5. e \in Settings /\ e.dir = r
  BY <1>2, <1>4, DeploymentAssumption DEF Upserted, Given, Settings
<1>6. Named(e)
  BY <1>3, <1>4 DEF Upserted, Given, Named
<1> QED
  BY <1>1, <1>5, <1>6

LEMMA EnvKept ==
  ASSUME Inv, Kept, NEW r \in Releases, NEW e \in Settings, e.dir = r, Named(e),
         env' = [env EXCEPT ![r] = e]
  PROVE  env' \in [Releases -> Settings \cup {None}] /\ EnvNamed'
<1>1. env \in [Releases -> Settings \cup {None}] /\ Types
  BY DEF Inv, Types
<1>2. ASSUME NEW q \in Releases, env'[q] # None
      PROVE  Named(env[q])' /\ env'[q].dir = q
  <2>1. PICK s : s = env'[q]
    OBVIOUS
  <2>2. s \in Settings /\ s.dir = q /\ Named(s)
    <3>1. CASE q = r
      BY <1>1, <2>1, <3>1
    <3>2. CASE q # r
      BY <1>1, <1>2, <2>1, <3>2 DEF Inv, EnvNamed
    <3> QED
      BY <3>1, <3>2
  <2>3. Named(s)'
    BY <1>1, <2>2, NamesKept
  <2> QED
    BY <2>1, <2>2, <2>3 DEF Named, RegisteredFor
<1> QED
  BY <1>1, <1>2 DEF EnvNamed

LEMMA FilesKept ==
  ASSUME Inv, Kept, registered' = registered
  PROVE  FilesNamed'
<1>1. ASSUME NEW r \in Releases, registered[r] # None, NEW f \in DOMAIN registered[r]
      PROVE  RegisteredFor(registered[r][f], r)'
  <2>1. PICK id : id = registered[r][f]
    OBVIOUS
  <2>2. RegisteredFor(id, r)
    BY <1>1, <2>1 DEF Inv, FilesNamed
  <2>3. RegisteredFor(id, r)'
    BY <2>2, RegistrationsKept DEF Inv
  <2> QED
    BY <2>1, <2>3 DEF RegisteredFor
<1> QED
  BY <1>1 DEF FilesNamed, RegisteredFor

\* Writing a registered id for the key of a release into its file.
LEMMA FileWritten ==
  ASSUME Inv, Kept, NEW r \in Releases, NEW fork, NEW id, RegisteredFor(id, r)',
         registered' = [registered EXCEPT ![r] = [f \in {fork} |-> id]]
  PROVE  FilesNamed'
<1>1. DOMAIN registered = Releases /\ registered = [q \in Releases |-> registered[q]]
  BY DEF Inv, Types
<1>2. ASSUME NEW q \in Releases, registered'[q] # None, NEW f \in DOMAIN registered'[q]
      PROVE  RegisteredFor(registered[q][f], q)'
  <2>1. PICK i : i = registered'[q][f]
    OBVIOUS
  <2>2. RegisteredFor(i, q)'
    <3>1. CASE q = r
      <4>1. registered'[q] = [g \in {fork} |-> id]
        BY <1>1, <3>1
      <4>2. i = id
        BY <1>2, <2>1, <4>1
      <4> QED
        BY <3>1, <4>2
    <3>2. CASE q # r
      <4>1. registered'[q] = registered[q]
        BY <1>1, <3>2
      <4>2. RegisteredFor(i, q)
        BY <1>2, <2>1, <4>1 DEF Inv, FilesNamed
      <4> QED
        BY <4>2, RegistrationsKept DEF Inv
    <3> QED
      BY <3>1, <3>2
  <2> QED
    BY <2>1, <2>2 DEF RegisteredFor
<1> QED
  BY <1>2 DEF FilesNamed, RegisteredFor

\* All containers but one are as they were, and that one is in order.
LEMMA ContainersKept ==
  ASSUME Inv, Kept, NEW p \in Releases, NEW c \in Container \cup {None},
         c # None => ContainerNamed(c),
         containers' = [containers EXCEPT ![p] = c] \/ containers' = containers
  PROVE  containers' \in [Releases -> Container \cup {None}] /\ ContainersNamed'
<1>1. containers \in [Releases -> Container \cup {None}] /\ Types
  BY DEF Inv, Types
<1>2. ASSUME NEW q \in Releases, containers'[q] # None
      PROVE  ContainerNamed(containers[q])'
  <2>1. PICK d : d = containers'[q]
    OBVIOUS
  <2>2. d \in Container /\ ContainerNamed(d)
    <3>1. CASE d = c
      BY <1>2, <2>1, <3>1
    <3>2. CASE d # c
      BY <1>1, <1>2, <2>1, <3>2 DEF Inv, ContainersNamed
    <3> QED
      BY <3>1, <3>2
  <2>3. ContainerNamed(d)'
    BY <1>1, <2>2, ContainerKept
  <2> QED
    BY <2>1, <2>3 DEF ContainerNamed, Named, RegisteredFor
<1> QED
  BY <1>1, <1>2 DEF ContainersNamed

-----------------------------------------------------------------------------
(* One lemma per command and per step of a process *)

LEMMA InitInv == Init => Inv
<1> SUFFICES ASSUME Init PROVE Inv
  OBVIOUS
<1>1. Types
  <2>1. project \in [Releases -> Releases]
    <3>1. \A r \in Releases : (CHOOSE s \in Releases : TRUE) \in Releases
      OBVIOUS
    <3> QED
      BY <3>1 DEF Init
  <2>2. registry \in Seq(Key) /\ crashes \in Nat
    BY DEF Init
  <2>3. /\ env \in [Releases -> Settings \cup {None}]
        /\ secrets \in [Releases -> Sealed \cup {None}]
        /\ bootstrap \in [Releases -> Key \cup {None}]
        /\ containers \in [Releases -> Container \cup {None}]
    BY DEF Init
  <2>4. registered \in [Releases -> RegisteredFile \cup {None}]
    BY DEF Init
  <2> QED
    BY <2>1, <2>2, <2>3, <2>4 DEF Types
<1>2. BootstrapOfKey /\ EnvNamed /\ FilesNamed /\ ContainersNamed
  BY DEF Init, BootstrapOfKey, EnvNamed, FilesNamed, ContainersNamed
<1> QED
  BY <1>1, <1>2 DEF Inv

\* Nothing that is kept anywhere is disturbed by a step without commands.
LEMMA NothingLost ==
  ASSUME secrets' = secrets, registry' = registry
  PROVE  Kept
BY DEF Kept

LEMMA InitKeepsInv ==
  ASSUME Inv, NEW r \in Releases, NEW options \in Options(r), cmd_init(r, options)
  PROVE  Inv' /\ Kept
<1>1. PICK e \in Settings : env' = [env EXCEPT ![r] = e] /\ e.dir = r /\ Named(e)
  BY SyncedEnv DEF cmd_init
<1>2. PICK left \in Bootstrap(r, e.image) :
        /\ secrets' = [secrets EXCEPT ![r] = left[1]]
        /\ bootstrap' = [bootstrap EXCEPT ![r] = left[2]]
  BY <1>1 DEF cmd_init, Inv, Types
<1>3. /\ secrets \in [Releases -> Sealed \cup {None}]
      /\ bootstrap \in [Releases -> Key \cup {None}]
      /\ e.image \in Images
  BY DEF Inv, Types, Settings
<1>4. bootstrap[r] # None => secrets[r] # None /\ bootstrap[r] = secrets[r].key
  BY DEF Inv, BootstrapOfKey
\* Of the three outcomes only the first key of a release changes its secrets.
<1>5. /\ left[1] \in Sealed \cup {None} /\ left[2] \in Key \cup {None}
      /\ secrets[r] # None => left[1] = secrets[r]
      /\ left[2] # None => left[1] # None /\ left[2] = left[1].key
  <2>1. CASE left = <<secrets[r], bootstrap[r]>>
    BY <1>3, <1>4, <2>1
  <2>2. CASE secrets[r] = None
    <3>1. FreshKey(r) \in Key
      BY <2>2 DEF FreshKey, Key
    <3>2. bootstrap[r] = None
      BY <1>4, <2>2
    <3>3. [key |-> FreshKey(r), sealedBy |-> e.image] \in Sealed
      BY <1>3, <3>1 DEF Sealed
    <3>4. \/ left = <<secrets[r], bootstrap[r]>>
          \/ left = <<[key |-> FreshKey(r), sealedBy |-> e.image], bootstrap[r]>>
          \/ left = <<[key |-> FreshKey(r), sealedBy |-> e.image], FreshKey(r)>>
      BY <1>2, <2>2 DEF Bootstrap
    <3> QED
      BY <2>2, <3>1, <3>2, <3>3, <3>4, NoneAssumption
  <2>3. CASE secrets[r] # None /\ left # <<secrets[r], bootstrap[r]>>
    <3>1. left = <<secrets[r], secrets[r].key>>
      BY <1>2, <2>3 DEF Bootstrap
    <3>2. secrets[r] \in Sealed
      BY <1>3, <2>3
    <3> QED
      BY <2>3, <3>1, <3>2 DEF Sealed
  <2> QED
    BY <2>1, <2>2, <2>3
<1>6. Kept
  BY <1>2, <1>3, <1>5 DEF cmd_init, Kept
<1>7. env' \in [Releases -> Settings \cup {None}] /\ EnvNamed'
  BY <1>1, <1>6, EnvKept
<1>8. FilesNamed'
  BY <1>6, FilesKept DEF cmd_init
<1>9. ContainersNamed'
  BY <1>6, ContainersKept DEF cmd_init
<1>10. Types'
  BY <1>2, <1>3, <1>5, <1>7 DEF cmd_init, Inv, Types
<1>11. BootstrapOfKey'
  BY <1>2, <1>3, <1>5 DEF Inv, BootstrapOfKey
<1> QED
  BY <1>6, <1>7, <1>8, <1>9, <1>10, <1>11 DEF Inv

LEMMA RegisterKeepsInv ==
  ASSUME Inv, NEW r \in Releases, NEW options \in Options(r), cmd_register(r, options)
  PROVE  Inv' /\ Kept
<1>1. PICK e \in Settings : env' = [env EXCEPT ![r] = e] /\ e.dir = r /\ Named(e)
  BY SyncedEnv DEF cmd_register
<1>2. /\ project' = project /\ secrets' = secrets /\ bootstrap' = bootstrap
      /\ containers' = containers /\ crashes' = crashes
  BY DEF cmd_register
<1>3. \/ registry' = registry /\ registered' = registered
      \/ /\ bootstrap[r] \in Key /\ bootstrap[r] # None
         /\ registry' = Append(registry, bootstrap[r])
         /\ \/ registered' = registered
            \/ registered' = [registered EXCEPT ![r] = [f \in {ForkOf[r]} |-> Len(registry) + 1]]
  BY DEF cmd_register, Inv, Types
<1>4. Kept
  BY <1>2, <1>3 DEF Kept
<1>5. env' \in [Releases -> Settings \cup {None}] /\ EnvNamed'
  BY <1>1, <1>4, EnvKept
<1>6. ContainersNamed'
  BY <1>2, <1>4, ContainersKept
<1>7. registered \in [Releases -> RegisteredFile \cup {None}]
  BY DEF Inv, Types
<1>8. registry \in Seq(Key) /\ registry' \in Seq(Key)
  <2>1. registry \in Seq(Key)
    BY DEF Inv, Types
  <2> QED
    BY <1>3, <2>1
<1>9. /\ registered' \in [Releases -> RegisteredFile \cup {None}]
      /\ FilesNamed'
  <2>1. CASE registered' = registered
    BY <1>4, <1>7, <2>1, FilesKept
  <2>2. CASE registered' # registered
    <3>1. PICK id : id = Len(registry) + 1
      OBVIOUS
    <3>2. PICK file : file = [f \in {ForkOf[r]} |-> id]
      OBVIOUS
    <3>3. /\ bootstrap[r] # None /\ registry' = Append(registry, bootstrap[r])
          /\ bootstrap[r] \in Key
          /\ registered' = [registered EXCEPT ![r] = file]
      BY <1>3, <2>2, <3>1, <3>2
    <3>4. file \in RegisteredFile
      <4>1. ForkOf[r] \in STRING /\ id \in Nat
        BY <1>8, <3>1, DeploymentAssumption
      <4>2. file \in [{ForkOf[r]} -> Nat]
        BY <3>2, <4>1
      <4> QED
        BY <4>1, <4>2 DEF RegisteredFile
    <3>5. RegisteredFor(id, r)'
      <4>1. registry'[id] = bootstrap[r] /\ id \in DOMAIN registry'
        BY <1>8, <3>1, <3>3
      <4>2. secrets[r] # None /\ bootstrap[r] = secrets[r].key
        BY <3>3 DEF Inv, BootstrapOfKey
      <4> QED
        BY <1>2, <4>1, <4>2 DEF RegisteredFor
    <3>6. FilesNamed'
      BY <1>4, <1>7, <3>2, <3>3, <3>5, FileWritten
    <3> QED
      BY <1>7, <3>3, <3>4, <3>6
  <2> QED
    BY <2>1, <2>2
<1>10. Types'
  BY <1>2, <1>5, <1>8, <1>9 DEF Inv, Types
<1>11. BootstrapOfKey'
  BY <1>2 DEF Inv, BootstrapOfKey
<1> QED
  BY <1>4, <1>5, <1>6, <1>9, <1>10, <1>11 DEF Inv

LEMMA WriteKeepsInv ==
  ASSUME Inv, NEW r \in Releases, NEW s \in Releases, NEW id \in DOMAIN registry,
         WriteRegistered(r, ForkOf[s], id)
  PROVE  Inv' /\ Kept
<1>1. PICK fork \in STRING : fork = ForkOf[s]
  BY DeploymentAssumption
<1>2. PICK file : file = [f \in {fork} |-> id]
  OBVIOUS
<1>3. /\ registered' = [registered EXCEPT ![r] = file]
      /\ project' = project /\ env' = env /\ secrets' = secrets /\ bootstrap' = bootstrap
      /\ registry' = registry /\ containers' = containers /\ crashes' = crashes
  BY <1>1, <1>2 DEF WriteRegistered
<1>4. Kept
  BY <1>3, NothingLost
<1>5. RegisteredFor(id, r)'
  BY <1>3 DEF WriteRegistered, RegisteredFor
<1>6. FilesNamed'
  BY <1>2, <1>3, <1>4, <1>5, FileWritten
<1>7. file \in RegisteredFile
  <2>1. id \in Nat
    BY DEF Inv, Types
  <2>2. file \in [{fork} -> Nat]
    BY <1>2, <2>1
  <2> QED
    BY <2>2 DEF RegisteredFile
<1>8. Types'
  <2>1. registered \in [Releases -> RegisteredFile \cup {None}]
    BY DEF Inv, Types
  <2>2. registered' \in [Releases -> RegisteredFile \cup {None}]
    BY <1>3, <1>7, <2>1
  <2> QED
    BY <1>3, <2>2 DEF Inv, Types
<1>9. BootstrapOfKey' /\ EnvNamed' /\ ContainersNamed'
  BY <1>3 DEF Inv, BootstrapOfKey, EnvNamed, ContainersNamed, ContainerNamed, Named,
     RegisteredFor
<1> QED
  BY <1>4, <1>6, <1>8, <1>9 DEF Inv

\* A command that saves its options and does something with one container.
LEMMA ContainerCommand ==
  ASSUME Inv, NEW r \in Releases, NEW options \in Options(r), SyncEnv(r, options),
         UNCHANGED <<project, secrets, bootstrap, registered, registry, crashes>>,
         NEW p \in Releases, NEW c \in Container \cup {None}, c # None => ContainerNamed(c),
         containers' = [containers EXCEPT ![p] = c] \/ containers' = containers
  PROVE  Inv' /\ Kept
<1>1. PICK e \in Settings : env' = [env EXCEPT ![r] = e] /\ e.dir = r /\ Named(e)
  BY SyncedEnv
<1>2. Kept
  BY NothingLost
<1>3. env' \in [Releases -> Settings \cup {None}] /\ EnvNamed'
  BY <1>1, <1>2, EnvKept
<1>4. FilesNamed'
  BY <1>2, FilesKept
<1>5. containers' \in [Releases -> Container \cup {None}] /\ ContainersNamed'
  BY <1>2, ContainersKept
<1>6. Types' /\ BootstrapOfKey'
  BY <1>3, <1>5 DEF Inv, Types, BootstrapOfKey
<1> QED
  BY <1>2, <1>3, <1>4, <1>5, <1>6 DEF Inv

LEMMA UpKeepsInv ==
  ASSUME Inv, NEW r \in Releases, NEW options \in Options(r), cmd_up(r, options)
  PROVE  Inv' /\ Kept
<1>1. PICK e \in Settings : env' = [env EXCEPT ![r] = e] /\ e.dir = r /\ Named(e)
  BY SyncedEnv DEF cmd_up
<1>2. env'[r] = e /\ project[r] \in Releases
  BY <1>1 DEF Inv, Types
<1>3. PICK p \in Releases : p = project[r]
  BY <1>2
<1>4. PICK c : c = Composed(p, e)
  OBVIOUS
<1>5. c \in Container /\ ContainerNamed(c)
  <2>1. CASE c = containers[p] /\ containers[p] # None
    BY <2>1 DEF Inv, Types, ContainersNamed
  <2>2. CASE c # containers[p] \/ containers[p] = None
    <3>1. PICK phase \in {"created", "starting"} :
            c = [settings |-> e, id |-> None, key |-> None, phase |-> phase]
      BY <1>4, <2>2 DEF Composed
    <3>2. c.settings = e /\ c.phase \notin {"configured", "serving"}
      BY <3>1
    <3>3. c \in Container
      BY <3>1 DEF Container
    <3> QED
      BY <1>1, <3>2, <3>3 DEF ContainerNamed
  <2> QED
    BY <2>1, <2>2
<1>6. containers' = [containers EXCEPT ![p] = c] \/ containers' = containers
  BY <1>2, <1>3, <1>4 DEF cmd_up
<1> QED
  BY <1>5, <1>6, ContainerCommand DEF cmd_up

LEMMA DownKeepsInv ==
  ASSUME Inv, NEW r \in Releases, NEW options \in Options(r), cmd_down(r, options)
  PROVE  Inv' /\ Kept
<1>1. PICK p \in Releases : p = project[r]
  BY DEF Inv, Types
<1> QED
  BY <1>1, ContainerCommand DEF cmd_down

LEMMA LogsKeepsInv ==
  ASSUME Inv, NEW r \in Releases, NEW options \in Options(r), cmd_logs(r, options)
  PROVE  Inv' /\ Kept
BY ContainerCommand DEF cmd_logs

\* A step of the process in a container.
LEMMA ProcessKeepsInv ==
  ASSUME Inv, NEW p \in Releases, NEW c \in Container, ContainerNamed(c),
         containers' = [containers EXCEPT ![p] = c], crashes' \in Nat,
         UNCHANGED <<project, files, registry>>
  PROVE  Inv' /\ Kept
<1>1. /\ project' = project /\ env' = env /\ secrets' = secrets /\ bootstrap' = bootstrap
      /\ registered' = registered /\ registry' = registry
  BY DEF files
<1>2. Kept
  BY <1>1, NothingLost
<1>3. containers' \in [Releases -> Container \cup {None}] /\ ContainersNamed'
  BY <1>2, ContainersKept
<1>4. FilesNamed'
  BY <1>1, <1>2, FilesKept
<1>5. Types' /\ BootstrapOfKey'
  BY <1>1, <1>3 DEF Inv, Types, BootstrapOfKey
<1>6. EnvNamed'
  BY <1>1 DEF Inv, EnvNamed, Named, RegisteredFor
<1> QED
  BY <1>2, <1>3, <1>4, <1>5, <1>6 DEF Inv

LEMMA LoadConfigKeepsInv ==
  ASSUME Inv, NEW p \in Releases, LoadConfig(p)
  PROVE  Inv' /\ Kept
<1>1. PICK d : d = containers[p]
  OBVIOUS
<1>2. d \in Container /\ ContainerNamed(d)
  BY <1>1 DEF LoadConfig, InPhase, Inv, Types, ContainersNamed
<1>3. PICK id : id = Resolved(d.settings)
  OBVIOUS
<1>4. d.settings \in Settings /\ d.settings.dir \in Releases
  BY <1>2 DEF Container, Settings
<1>5. id # None => RegisteredFor(id, d.settings.dir)
  <2>1. CASE d.settings.id # None
    BY <1>2, <1>3, <2>1 DEF Resolved, ContainerNamed, Named
  <2>2. CASE d.settings.id = None
    BY <1>3, <1>4, <2>2 DEF Resolved, Inv, FilesNamed
  <2> QED
    BY <2>1, <2>2
<1>6. id \in Nat \cup {None}
  <2>1. DOMAIN registry \subseteq Nat
    BY DEF Inv, Types
  <2> QED
    BY <1>5, <2>1 DEF RegisteredFor
<1>7. PICK c : c = [d EXCEPT !.id = id, !.phase = IF id = None THEN "exited" ELSE "configured"]
  OBVIOUS
<1>8. c \in Container /\ c.settings = d.settings /\ c.id = id
      /\ c.phase = IF id = None THEN "exited" ELSE "configured"
  BY <1>2, <1>6, <1>7 DEF Container
<1>9. ContainerNamed(c)
  BY <1>2, <1>5, <1>8 DEF ContainerNamed
<1>10. containers' = [containers EXCEPT ![p] = c]
  BY <1>1, <1>3, <1>7 DEF LoadConfig, Inv, Types
<1>11. crashes' \in Nat
  BY DEF LoadConfig, Inv, Types
<1> QED
  BY <1>8, <1>9, <1>10, <1>11, ProcessKeepsInv DEF LoadConfig

LEMMA LoadKeyKeepsInv ==
  ASSUME Inv, NEW p \in Releases, LoadKey(p)
  PROVE  Inv' /\ Kept
<1>1. PICK d : d = containers[p]
  OBVIOUS
<1>2. d \in Container /\ ContainerNamed(d) /\ d.phase = "configured"
  BY <1>1 DEF LoadKey, InPhase, Inv, Types, ContainersNamed
<1>3. d.settings \in Settings /\ d.settings.dir \in Releases
  BY <1>2 DEF Container, Settings
<1>4. crashes' \in Nat
  BY DEF LoadKey, Inv, Types
<1>5. CASE Unsealed(d.settings)
  <2>1. PICK k : k = secrets[d.settings.dir].key
    OBVIOUS
  <2>2. k \in Key
    BY <1>3, <1>5, <2>1 DEF Unsealed, Inv, Types, Sealed
  <2>3. PICK c : c = [d EXCEPT !.key = k, !.phase = "serving"]
    OBVIOUS
  <2>4. c \in Container /\ c.settings = d.settings /\ c.id = d.id /\ c.key = k
        /\ c.phase = "serving"
    BY <1>2, <2>2, <2>3 DEF Container
  <2>5. ContainerNamed(c)
    BY <1>2, <2>1, <2>4 DEF ContainerNamed
  <2>6. containers' = [containers EXCEPT ![p] = c]
    BY <1>1, <1>5, <2>1, <2>3 DEF LoadKey, Inv, Types
  <2> QED
    BY <1>4, <2>4, <2>5, <2>6, ProcessKeepsInv DEF LoadKey
<1>6. CASE ~Unsealed(d.settings)
  <2>1. PICK c : c = [d EXCEPT !.phase = "exited"]
    OBVIOUS
  <2>2. c \in Container /\ c.settings = d.settings /\ c.phase = "exited"
    BY <1>2, <2>1 DEF Container
  <2>3. ContainerNamed(c)
    BY <1>2, <2>2 DEF ContainerNamed
  <2>4. containers' = [containers EXCEPT ![p] = c]
    BY <1>1, <1>6, <2>1 DEF LoadKey, Inv, Types
  <2> QED
    BY <1>4, <2>2, <2>3, <2>4, ProcessKeepsInv DEF LoadKey
<1> QED
  BY <1>5, <1>6

LEMMA CrashKeepsInv ==
  ASSUME Inv, NEW p \in Releases, Crash(p)
  PROVE  Inv' /\ Kept
<1>1. PICK d : d = containers[p]
  OBVIOUS
<1>2. d \in Container /\ ContainerNamed(d)
  BY <1>1 DEF Crash, Inv, Types, ContainersNamed
<1>3. PICK c : c = [d EXCEPT !.phase = "exited"]
  OBVIOUS
<1>4. c \in Container /\ c.settings = d.settings /\ c.phase = "exited"
  BY <1>2, <1>3 DEF Container
<1>5. ContainerNamed(c)
  BY <1>2, <1>4 DEF ContainerNamed
<1>6. containers' = [containers EXCEPT ![p] = c] /\ crashes' \in Nat
  BY <1>1, <1>3 DEF Crash, Inv, Types
<1> QED
  BY <1>4, <1>5, <1>6, ProcessKeepsInv DEF Crash

LEMMA RestartKeepsInv ==
  ASSUME Inv, NEW p \in Releases, Restart(p)
  PROVE  Inv' /\ Kept
<1>1. PICK d : d = containers[p]
  OBVIOUS
<1>2. d \in Container /\ ContainerNamed(d)
  BY <1>1 DEF Restart, InPhase, Inv, Types, ContainersNamed
<1>3. PICK c : c = [d EXCEPT !.phase = "starting", !.id = None, !.key = None]
  OBVIOUS
<1>4. c \in Container /\ c.settings = d.settings /\ c.phase = "starting"
  BY <1>2, <1>3 DEF Container
<1>5. ContainerNamed(c)
  BY <1>2, <1>4 DEF ContainerNamed
<1>6. containers' = [containers EXCEPT ![p] = c] /\ crashes' \in Nat
  BY <1>1, <1>3 DEF Restart, Inv, Types
<1> QED
  BY <1>4, <1>5, <1>6, ProcessKeepsInv DEF Restart

-----------------------------------------------------------------------------
(* The theorems *)

LEMMA StepKeepsInv ==
  ASSUME Inv, [Next]_vars
  PROVE  Inv' /\ Kept
<1>1. CASE UNCHANGED vars
  BY <1>1 DEF vars, files, Inv, Types, BootstrapOfKey, EnvNamed, FilesNamed, ContainersNamed,
     ContainerNamed, Named, RegisteredFor, Kept
<1>2. ASSUME NEW r \in Releases, NEW options \in Options(r),
             \/ cmd_init(r, options) \/ cmd_register(r, options) \/ cmd_up(r, options)
             \/ cmd_down(r, options) \/ cmd_logs(r, options)
      PROVE  Inv' /\ Kept
  BY <1>2, InitKeepsInv, RegisterKeepsInv, UpKeepsInv, DownKeepsInv, LogsKeepsInv
<1>3. ASSUME NEW r \in Releases, NEW s \in Releases, NEW id \in DOMAIN registry,
             WriteRegistered(r, ForkOf[s], id)
      PROVE  Inv' /\ Kept
  BY <1>3, WriteKeepsInv
<1>4. Projects \subseteq Releases
  BY DEF Projects, Inv, Types
<1>5. ASSUME NEW p \in Projects, ProcessStep(p) \/ Crash(p)
      PROVE  Inv' /\ Kept
  BY <1>4, <1>5, LoadConfigKeepsInv, LoadKeyKeepsInv, RestartKeepsInv, CrashKeepsInv
     DEF ProcessStep
<1> QED
  BY <1>1, <1>2, <1>3, <1>5 DEF Next

LEMMA Invariance == Spec => []Inv
<1>1. Inv /\ [Next]_vars => Inv'
  BY StepKeepsInv
<1> QED
  BY InitInv, <1>1, PTL DEF Spec

\* Whatever was bootstrapped, registered, written, upgraded, started and ended in
\* whatever order, a container that serves does so with an id and a key that were
\* registered together.
THEOREM ServesAsRegistered == Spec => []IdentityRegistered
<1>1. Inv => IdentityRegistered
  <2> SUFFICES ASSUME Inv, NEW p \in Projects, InPhase(p, "serving")
               PROVE  /\ containers[p].id \in DOMAIN registry
                      /\ registry[containers[p].id] = containers[p].key
    BY DEF IdentityRegistered
  <2>1. p \in Releases
    BY DEF Projects, Inv, Types
  <2>2. ContainerNamed(containers[p]) /\ containers[p].phase = "serving"
    BY <2>1 DEF InPhase, Inv, ContainersNamed
  <2> QED
    BY <2>2 DEF ContainerNamed, RegisteredFor
<1> QED
  BY Invariance, <1>1, PTL

\* No command ever replaces the sealed key of a release, and the registrations on
\* L1 only grow: what was registered for a release stays registered for its key.
THEOREM KeysAreKept == Spec => [][Kept]_vars
<1>1. Inv /\ [Next]_vars => [Kept]_vars
  BY StepKeepsInv
<1> QED
  BY Invariance, <1>1, PTL DEF Spec

\* The init command is the only one that touches the key or the bootstrap data of a
\* release, and does to them what the bootstrap command of TeeBootstrap does.
LEMMA InitKeepsStore ==
  ASSUME Inv, NEW r \in Releases, NEW options \in Options(r), cmd_init(r, options)
  PROVE  Store(r)!Next \/ UNCHANGED (Store(r)!store)
<1>1. PICK e \in Settings : env' = [env EXCEPT ![r] = e]
  BY SyncedEnv DEF cmd_init
<1>2. PICK left \in Bootstrap(r, e.image) :
        /\ secrets' = [secrets EXCEPT ![r] = left[1]]
        /\ bootstrap' = [bootstrap EXCEPT ![r] = left[2]]
  BY <1>1 DEF cmd_init, Inv, Types
<1>3. secrets'[r] = left[1] /\ bootstrap'[r] = left[2]
  BY <1>2 DEF Inv, Types
<1>4. CASE left = <<secrets[r], bootstrap[r]>>
  BY <1>3, <1>4 DEF Store!store
<1>5. CASE secrets[r] = None /\ left # <<secrets[r], bootstrap[r]>>
  <2>1. PICK k : k = FreshKey(r)
    OBVIOUS
  <2>2. PICK b \in {bootstrap[r], k} : left = <<[key |-> k, sealedBy |-> e.image], b>>
    BY <1>2, <1>5, <2>1 DEF Bootstrap
  <2>3. k \in Key /\ e.image \in Images
    BY <1>5, <2>1 DEF FreshKey, Key, Settings
  <2>4. secrets'[r] # None /\ secrets'[r].key = k /\ bootstrap'[r] = b
    BY <1>3, <2>2, <2>3, NoneAssumption DEF Sealed
  <2>5. Store(r)!Create
    BY <1>5, <2>2, <2>3, <2>4, NoneAssumption DEF Store!Create
  <2> QED BY <2>5 DEF Store!Next
<1>6. CASE secrets[r] # None /\ left # <<secrets[r], bootstrap[r]>>
  <2>1. left = <<secrets[r], secrets[r].key>>
    BY <1>2, <1>6 DEF Bootstrap
  <2>2. secrets[r].key # None
    BY <1>6, NoneAssumption DEF Inv, Types, Sealed
  <2>3. Store(r)!Describe
    BY <1>3, <1>6, <2>1, <2>2 DEF Store!Describe
  <2> QED BY <2>3 DEF Store!Next
<1> QED
  BY <1>4, <1>5, <1>6

\* Every command and every step of a process leaves each release a key store: what
\* TeeBootstrap proves of the runs of the bootstrap command is all that a deployment
\* assumes of them.
THEOREM DirectoriesAreStores == Spec => StoresKept
<1> DEFINE AllKept == \A r \in Releases : [Store(r)!Next]_(Store(r)!store)
<1>1. Inv /\ [Next]_vars => [AllKept]_vars
  <2> SUFFICES ASSUME Inv, [Next]_vars, NEW s \in Releases
               PROVE  Store(s)!Next \/ UNCHANGED (Store(s)!store)
    OBVIOUS
  <2>1. ASSUME secrets'[s] = secrets[s], bootstrap'[s] = bootstrap[s]
        PROVE  UNCHANGED (Store(s)!store)
    BY <2>1 DEF Store!store
  <2>2. ASSUME NEW r \in Releases, NEW options \in Options(r), cmd_init(r, options)
        PROVE  Store(s)!Next \/ UNCHANGED (Store(s)!store)
    <3>1. CASE r = s
      BY <2>2, <3>1, InitKeepsStore
    <3>2. CASE r # s
      BY <2>1, <2>2, <3>2 DEF cmd_init, Inv, Types
    <3> QED BY <3>1, <3>2
  <2>3. CASE secrets' = secrets /\ bootstrap' = bootstrap
    BY <2>1, <2>3
  <2> QED
    BY <2>2, <2>3 DEF Next, cmd_register, cmd_up, cmd_down, cmd_logs, WriteRegistered,
       ProcessStep, LoadConfig, LoadKey, Restart, Crash, vars, files
<1>2. Init => \A r \in Releases : Store(r)!Init
  BY DEF Init, Store!Init
<1> QED
  BY Invariance, <1>1, <1>2, PTL DEF Spec, StoresKept

=============================================================================
