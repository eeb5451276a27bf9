------------------------------ MODULE PodMutate ------------------------------
(***************************************************************************)
(* The mutating webhook (pkg/webhook/mutate.go): the admission request for *)
(* a new pod, and one for an update of the pod that was admitted.          *)
(*                                                                         *)
(* Handle asks the informer cache, reference by reference, whether a name  *)
(* is that of a TSecret; the cache may change in between.  What is one is  *)
(* replaced by a memory volume and an init container that fills it.  Then  *)
(* the plans are applied in the random order of a Go map, and containers   *)
(* that export their environment are wrapped.                              *)
(***************************************************************************)
EXTENDS Naturals, Sequences

CONSTANTS
    Secrets,      \* the names pods refer to
    VolumeNames,  \* names of volumes
    AutoVolume,   \* AutoVolume[s]: tsecretVolumeName(s)
    AppOrder,     \* spec.containers, by name
    InitOrder,    \* spec.initContainers, by name
    Paths,        \* mount paths
    DefaultPath,  \* DefaultPath[s]: tsecretMountPath(s)
    Prefixes,     \* envFrom prefixes, NoPrefix included
    NoPrefix,
    None,         \* no volume, no mount
    Memory,       \* an emptyDir of medium Memory
    Requests,     \* the pods that are submitted
    MaxChanges    \* bound: changes of the cache during the request

Named(order) == {order[i] : i \in 1..Len(order)}
Apps == Named(AppOrder)
Inits == Named(InitOrder)
Containers == Apps \cup Inits

\* A reference by env or envFrom; a secretKeyRef has no prefix.
Ref == [secret : Secrets, prefix : Prefixes]

\* tsecretInjection, less its set of containers: an init container to be.
Injector == [secret : Secrets, volume : VolumeNames, path : Paths,
             prefix : Prefixes, export : BOOLEAN]

\* What a pod is to the webhook: its volumes, each a Secret's or not; the
\* mounts, env and envFrom of its containers; the annotations, resolved to
\* who exports (exportEnvEnabled) and whose entrypoint is known
\* (resolveEntrypoint); and what Handle adds: the init containers, in order,
\* after the pod's own, and the loaders that wrapped containers source.
Pod == [volumes : [VolumeNames -> Secrets \cup {None, Memory}],
        mounts : [Containers -> [VolumeNames -> Paths \cup {None}]],
        refs : [Containers -> SUBSET Ref],
        exports : SUBSET Containers,
        entrypoint : SUBSET Containers,
        injectors : Seq(Injector),
        sources : [Containers -> SUBSET Paths]]

ASSUME NamesAssumption ==
    /\ AutoVolume \in [Secrets -> VolumeNames]
    /\ \A s, t \in Secrets : AutoVolume[s] = AutoVolume[t] => s = t
    /\ DefaultPath \in [Secrets -> Paths]
    /\ AppOrder \in Seq(Apps) /\ InitOrder \in Seq(Inits)
    /\ Apps \cap Inits = {}
    /\ NoPrefix \in Prefixes
    /\ None \notin Secrets \cup Paths /\ Memory \notin Secrets \cup {None}
    /\ MaxChanges \in Nat

\* A submitted pod has nothing injected yet, and a volume of its own with an
\* automatic name is for the secret of that name.
ASSUME RequestsAssumption ==
    /\ Requests \subseteq Pod
    /\ \A pod \in Requests :
          /\ pod.injectors = <<>>
          /\ \A c \in Containers : pod.sources[c] = {}
          /\ \A s \in Secrets : pod.volumes[AutoVolume[s]] \in {None, s}
          /\ \A v \in VolumeNames, c \in Containers :
                pod.mounts[c][v] # None => pod.volumes[v] # None

VARIABLES
    request,  \* the pod as submitted
    pod,      \* the pod as Handle has it
    pc,       \* where Handle is
    updated,  \* whether the request is the update
    at,       \* the container whose environment it looks at
    todo,     \* volumes it has not looked at yet
    plans,    \* the plans still to be made or applied
    loaders,  \* loaders[c]: exportPlans, the paths whose load-env.sh c sources
    known,    \* the names in the informer cache of TSecrets
    changes   \* how often the cache has changed

vars == <<request, pod, pc, updated, at, todo, plans, loaders, known, changes>>

-----------------------------------------------------------------------------
(* Plans: a map from a volume and a secret to a plan.                      *)

\* A plan is an injector and the containers that use it.
Plan == [for : Injector, users : SUBSET Containers]

IsPlanOf(p, v, s) == p.for.volume = v /\ p.for.secret = s

\* getPlan of a key that is there: the first prefix that is not empty stays.
KeepPlan(p, prefix) ==
    [p EXCEPT !.for.prefix = IF @ = NoPrefix THEN prefix ELSE @]

\* getPlan, and the containers added to what it returns.
AddPlan(v, s, path, prefix, users) ==
    LET old == {p \in plans : IsPlanOf(p, v, s)}
        new == [for |-> [secret |-> s, volume |-> v, path |-> path,
                         prefix |-> prefix, export |-> FALSE],
                users |-> users]
    IN plans' = IF old = {}
                THEN plans \cup {new}
                ELSE (plans \ old) \cup {LET q == KeepPlan(p, prefix)
                                         IN [q EXCEPT !.users = @ \cup users] : p \in old}

-----------------------------------------------------------------------------

NoLoaders == [c \in Containers |-> {}]

Init ==
    /\ request \in Requests
    /\ pod = request /\ updated = FALSE
    /\ pc = "volumes" /\ at = 1
    /\ todo = VolumeNames
    /\ plans = {}
    /\ loaders = NoLoaders
    /\ known \in SUBSET Secrets
    /\ changes = 0

-----------------------------------------------------------------------------
(* collectInjections.                                                      *)

\* getTSecret errors, NotFound or any other, all mean: not a TSecret.
IsTSecret(s) == s \in known

Mounting(v) == {i \in 1..Len(AppOrder) : pod.mounts[AppOrder[i]][v] # None}

\* Mutant: only the first container is asked.
MountPathOfFirst(v, s) == pod.mounts[Head(AppOrder)][v]

\* The path of the last container that mounts the volume.
MountPath(v, s) ==
    IF Mounting(v) = {} THEN DefaultPath[s]
    ELSE LET last == CHOOSE i \in Mounting(v) : \A j \in Mounting(v) : j <= i
         IN pod.mounts[AppOrder[last]][v]

\* One iteration over pod.Spec.Volumes.
CollectVolume(v) ==
    /\ pc = "volumes" /\ v \in todo
    /\ todo' = todo \ {v}
    /\ LET s == pod.volumes[v]
       IN \/ /\ s \in Secrets /\ IsTSecret(s)
             /\ AddPlan(v, s, MountPath(v, s), NoPrefix, {AppOrder[i] : i \in Mounting(v)})
             /\ pod' = [pod EXCEPT !.volumes[v] = Memory]
          \/ /\ ~(s \in Secrets /\ IsTSecret(s))
             /\ UNCHANGED <<plans, pod>>
    /\ UNCHANGED <<request, pc, updated, at, loaders, known, changes>>

\* First the containers, then the pod's own init containers.
Order == AppOrder \o InitOrder

\* collectFromContainer begins with the container Order[n]; after the last,
\* the plans are complete.
Enter(n) ==
    /\ at' = n
    /\ todo' = IF n <= Len(Order) THEN pod.refs[Order[n]] ELSE {}
    /\ pc' = IF n <= Len(Order) THEN "env" ELSE "apply"

NextContainer ==
    /\ todo = {}
    /\ \/ pc = "volumes" /\ Enter(1)
       \/ pc = "env" /\ Enter(at + 1)
    /\ UNCHANGED <<request, pod, updated, plans, loaders, known, changes>>

\* Mutant: the first TSecret of a container ends the loop.
CollectFirstRef(ref) ==
    /\ pc = "env" /\ ref \in todo
    /\ \/ /\ IsTSecret(ref.secret) /\ todo' = {}
          /\ AddPlan(AutoVolume[ref.secret], ref.secret, DefaultPath[ref.secret],
                     ref.prefix, {Order[at]})
          /\ pod' = [pod EXCEPT !.refs[Order[at]] = @ \ {ref}]
       \/ /\ ~IsTSecret(ref.secret) /\ todo' = todo \ {ref}
          /\ UNCHANGED <<plans, pod>>
    /\ UNCHANGED <<request, pc, updated, at, loaders, known, changes>>

\* One iteration over container.EnvFrom or container.Env.
CollectRef(ref) ==
    /\ pc = "env" /\ ref \in todo
    /\ todo' = todo \ {ref}
    /\ \/ /\ IsTSecret(ref.secret)
          /\ AddPlan(AutoVolume[ref.secret], ref.secret, DefaultPath[ref.secret],
                     ref.prefix, {Order[at]})
          /\ pod' = [pod EXCEPT !.refs[Order[at]] = @ \ {ref}]
       \/ /\ ~IsTSecret(ref.secret)
          /\ UNCHANGED <<plans, pod>>
    /\ UNCHANGED <<request, pc, updated, at, loaders, known, changes>>

-----------------------------------------------------------------------------
(* The rest of Handle.                                                     *)

\* Mutant: a container is only given the mount if it has none at all.
MountForNone(p, c) ==
    [v \in VolumeNames |->
        IF v = p.for.volume /\ \A w \in VolumeNames : pod.mounts[c][w] = None
        THEN p.for.path ELSE pod.mounts[c][v]]

\* ensureVolumeMount: a mount of the volume that is there stays as it is.
MountFor(p, c) ==
    [v \in VolumeNames |->
        IF v = p.for.volume /\ pod.mounts[c][v] = None
        THEN p.for.path ELSE pod.mounts[c][v]]

\* Mutant: the flag is set after the init container has been made.
ExportsNever(p) == FALSE

\* exportEnvEnabled for one of the plan's containers.
Exports(p) == p.users \cap pod.exports # {}

\* Mutant: the init container is named for the TSecret alone.
AddInjectorBySecret(injectors, i) ==
    IF \E n \in 1..Len(injectors) : injectors[n].secret = i.secret
    THEN injectors ELSE Append(injectors, i)

\* ensureRuntimeInitContainer: none is added beside one of the same name.
AddInjector(injectors, i) ==
    IF \E n \in 1..Len(injectors) : injectors[n].volume = i.volume
    THEN injectors ELSE Append(injectors, i)

\* The loop over plans, one plan at a time: ensureMemoryVolume, the loaders,
\* the init container, the mounts.
ApplyPlan(p) ==
    /\ pc = "apply" /\ p \in plans
    /\ plans' = plans \ {p}
    /\ pod' = [pod EXCEPT
                 !.volumes[p.for.volume] = IF @ = None THEN Memory ELSE @,
                 !.injectors = AddInjector(@, [p.for EXCEPT !.export = Exports(p)]),
                 !.mounts = [c \in Containers |->
                                IF c \in p.users THEN MountFor(p, c) ELSE @[c]]]
    /\ loaders' = [c \in Containers |->
                      IF c \in p.users \cap pod.exports
                      THEN loaders[c] \cup {p.for.path} ELSE loaders[c]]
    /\ UNCHANGED <<request, pc, updated, at, todo, known, changes>>

\* alreadyWrapped: its arguments name a load-env.sh.
AlreadyWrapped(c) == pod.sources[c] # {}

\* The loop over exportPlans.  A container whose entrypoint nobody knows
\* denies the whole pod.
Wrap ==
    /\ pc = "apply" /\ plans = {}
    /\ LET exporting == {c \in Containers : loaders[c] # {}}
       IN \/ /\ exporting \subseteq pod.entrypoint
             /\ pod' = [pod EXCEPT !.sources =
                          [c \in Containers |->
                              IF AlreadyWrapped(c) THEN @[c] ELSE loaders[c]]]
             /\ pc' = "allowed"
          \/ /\ ~(exporting \subseteq pod.entrypoint)
             /\ pc' = "denied"
             /\ UNCHANGED pod
    /\ UNCHANGED <<request, updated, at, todo, plans, loaders, known, changes>>

-----------------------------------------------------------------------------
(* The informer cache of TSecrets, and an update of the pod.               *)

CacheChanges(s) ==
    /\ pc \in {"volumes", "env"} \/ (pc = "allowed" /\ ~updated)
    /\ changes < MaxChanges /\ changes' = changes + 1
    /\ known' = (known \cup {s}) \ (known \cap {s})
    /\ UNCHANGED <<request, pod, pc, updated, at, todo, plans, loaders>>

\* The webhook is registered for updates of pods too.  Somebody changes a
\* label, say: what Handle looks at is as it was admitted.
Update ==
    /\ pc = "allowed" /\ ~updated /\ updated' = TRUE
    /\ request' = pod
    /\ pc' = "volumes" /\ at' = 1 /\ todo' = VolumeNames
    /\ plans' = {} /\ loaders' = NoLoaders
    /\ UNCHANGED <<pod, known, changes>>

-----------------------------------------------------------------------------

Next ==
    \/ \E v \in VolumeNames : CollectVolume(v)
    \/ NextContainer
    \/ \E ref \in Ref : CollectRef(ref)
    \/ \E p \in plans : ApplyPlan(p)
    \/ Wrap
    \/ Update
    \/ \E s \in Secrets : CacheChanges(s)

Spec == Init /\ [][Next]_vars

-----------------------------------------------------------------------------
(* Properties.                                                             *)

\* The type invariant.
TypeOK ==
    /\ pod \in Pod /\ updated \in BOOLEAN
    /\ pc \in {"volumes", "env", "apply", "allowed", "denied"}
    /\ at \in 1..Len(Order) + 1
    /\ todo \subseteq VolumeNames \cup Ref
    /\ plans \subseteq Plan
    /\ loaders \in [Containers -> SUBSET Paths]
    /\ known \subseteq Secrets
    /\ changes \in 0..MaxChanges

Injectors == {pod.injectors[n] : n \in 1..Len(pod.injectors)}

\* A container finds the files of s on a memory volume that an init container
\* fills with s.
Provided(c, s) ==
    \E i \in Injectors : /\ i.secret = s
                         /\ pod.volumes[i.volume] = Memory
                         /\ pod.mounts[c][i.volume] # None

\* The TSecret became known between a volume with its automatic name and an
\* env reference: the volume stays the Secret's, and the init container is
\* given it (mutate.go:263-266).
Overtaken(s) == pod.volumes[AutoVolume[s]] = s

\* However the cache changes while Handle asks it, and in whatever order the
\* plans come, a reference is taken out of an admitted pod only if what it
\* stood for is provided; otherwise the pod still asks for a Secret of that
\* name, so that Kubernetes does not start it without (mutate.go:161-217).
NothingLost ==
    pc = "allowed" /\ ~updated =>
        /\ \A c \in Containers : \A ref \in request.refs[c] \ pod.refs[c] :
              Provided(c, ref.secret) \/ Overtaken(ref.secret)
        /\ \A v \in VolumeNames, c \in Apps :
              request.volumes[v] # pod.volumes[v] /\ request.mounts[c][v] # None
              => Provided(c, request.volumes[v])

\* The volume is filled where, and with a loader if, the container looks.
HasLoader(c, path) ==
    \E i \in Injectors : i.export /\ i.path = path /\ pod.mounts[c][i.volume] = path

\* No volume is mounted at two places, nor by init containers alone: the plan's
\* path is sought among the containers (mutate.go:174), or is the default.
OnePathEach ==
    \A v \in VolumeNames, c \in Containers :
        request.mounts[c][v] # None =>
            /\ \A d \in Containers :
                  request.mounts[d][v] # None => request.mounts[c][v] = request.mounts[d][v]
            /\ \E d \in Apps : request.mounts[d][v] # None

\* Then each container that is wrapped has, at every path it sources, a volume
\* with a load-env.sh, whichever containers share the plan and whichever of
\* them exports (mutate.go:75-105, 173-195).
LoadersFit ==
    pc = "allowed" /\ ~updated /\ OnePathEach /\ (\A s \in Secrets : ~Overtaken(s)) =>
        \A c \in Containers : \A path \in pod.sources[c] : HasLoader(c, path)

\* Every volume that Handle makes a memory volume is filled, by one init
\* container and no more, with the TSecret whose volume it was, also when
\* several references, prefixes and volumes share a plan or a TSecret; and
\* no init container fills another (mutate.go:161-217, 236-243, 293-345).
FilledOnce ==
    pc = "allowed" /\ ~updated =>
        /\ \A v \in VolumeNames : pod.volumes[v] # request.volumes[v] =>
              \E n \in 1..Len(pod.injectors) :
                 /\ pod.injectors[n].volume = v
                 /\ request.volumes[v] \in {None, pod.injectors[n].secret}
        /\ \A m, n \in 1..Len(pod.injectors) :
              pod.injectors[m].volume = pod.injectors[n].volume => m = n
        /\ \A i \in Injectors : pod.volumes[i.volume] \in {Memory, i.secret}

\* The spec of a pod cannot be changed: an update whose answer changes it is
\* refused.  While the cache stays as it was, the first answer has left nothing
\* for the second to do, whatever order the plans came in, and whoever exports
\* (mutate.go:69-71, 184, 216, 236, 243).  Once a TSecret appears with the name
\* of a Secret the pod refers to, no update of the pod gets through.
UpdateIsQuiet ==
    updated /\ changes = 0 => pod = request /\ pc # "denied"

\* The kubelet runs the pod's own init containers, then those appended to
\* them, then the containers.
Rank(c) == IF c \in Inits THEN 1 ELSE 3
InjectorRank == 2

\* README.md:593 says of env.valueFrom.secretKeyRef "Convertido para volume +
\* mount", as a supported reference of a pod: whoever refers to a TSecret
\* starts when the volume has been filled.
FilledFirst ==
    pc = "allowed" /\ ~updated =>
        \A c \in Containers : \A ref \in request.refs[c] \ pod.refs[c] :
            (\E i \in Injectors : i.secret = ref.secret) => InjectorRank < Rank(c)
=============================================================================
