--------------------------- MODULE PodMutateProofs ---------------------------
(***************************************************************************)
(* Theorems about PodMutate, for every set of pods, containers, volumes    *)
(* and secrets, and any number of changes of the cache.                    *)
(***************************************************************************)
EXTENDS PodMutate, WellFoundedInduction, TLAPS

-----------------------------------------------------------------------------
(* Containers and pods.                                                    *)

VolumeMap == [VolumeNames -> Secrets \cup {None, Memory}]
MountMap == [VolumeNames -> Paths \cup {None}]
LoaderMap == [Containers -> SUBSET Paths]

\* The order of containers names each of them, and nothing else.
LEMMA Orders ==
    /\ Len(AppOrder) \in Nat
    /\ \A i \in 1..Len(AppOrder) : AppOrder[i] \in Apps /\ AppOrder[i] \in Containers
    /\ \A c \in Apps : \E i \in 1..Len(AppOrder) : AppOrder[i] = c
    /\ Len(Order) \in Nat
    /\ \A n \in 1..Len(Order) : Order[n] \in Containers
    /\ \A c \in Containers : \E n \in 1..Len(Order) : Order[n] = c
<1>1. /\ AppOrder \in Seq(Apps) /\ InitOrder \in Seq(Inits)
      /\ Len(AppOrder) \in Nat /\ Len(InitOrder) \in Nat
  BY NamesAssumption
<1>2. \A i \in 1..Len(AppOrder) : AppOrder[i] \in Apps /\ AppOrder[i] \in Containers
  BY DEF Apps, Named, Containers
<1>3. \A i \in 1..Len(InitOrder) : InitOrder[i] \in Containers
  BY DEF Inits, Named, Containers
<1>4. \A c \in Apps : \E i \in 1..Len(AppOrder) : AppOrder[i] = c
  BY DEF Apps, Named
<1>5. \A c \in Inits : \E i \in 1..Len(InitOrder) : InitOrder[i] = c
  BY DEF Inits, Named
<1>6. /\ Len(Order) = Len(AppOrder) + Len(InitOrder)
      /\ \A n \in 1..Len(Order) :
            Order[n] = IF n <= Len(AppOrder) THEN AppOrder[n]
                                             ELSE InitOrder[n - Len(AppOrder)]
  <2>1. \A S, T : \A f \in Seq(S), g \in Seq(T) :
            /\ Len(f \o g) = Len(f) + Len(g)
            /\ \A n \in 1..Len(f \o g) :
                  (f \o g)[n] = IF n <= Len(f) THEN f[n] ELSE g[n - Len(f)]
    OBVIOUS
  <2>2. QED
    BY <1>1, <2>1 DEF Order
<1>7. \A n \in 1..Len(Order) : Order[n] \in Containers
  BY <1>1, <1>2, <1>3, <1>6
<1>8. ASSUME NEW c \in Containers PROVE \E n \in 1..Len(Order) : Order[n] = c
  <2>1. CASE c \in Apps
    <3>1. PICK i \in 1..Len(AppOrder) : AppOrder[i] = c
      BY <1>4, <2>1
    <3>2. i \in 1..Len(Order) /\ i <= Len(AppOrder)
      BY <1>1, <1>6
    <3>3. QED
      BY <1>6, <3>1, <3>2
  <2>2. CASE c \in Inits
    <3>1. PICK i \in 1..Len(InitOrder) : InitOrder[i] = c
      BY <1>5, <2>2
    <3>2. /\ Len(AppOrder) + i \in 1..Len(Order)
          /\ ~(Len(AppOrder) + i <= Len(AppOrder))
          /\ (Len(AppOrder) + i) - Len(AppOrder) = i
      BY <1>1, <1>6
    <3>3. QED
      BY <1>6, <3>1, <3>2
  <2>3. QED
    BY <2>1, <2>2 DEF Containers
<1>9. QED
  BY <1>1, <1>2, <1>4, <1>6, <1>7, <1>8

LEMMA PodFields ==
    ASSUME NEW p \in Pod
    PROVE  /\ p.volumes \in VolumeMap /\ p.mounts \in [Containers -> MountMap]
           /\ p.refs \in [Containers -> SUBSET Ref]
           /\ p.exports \subseteq Containers /\ p.entrypoint \subseteq Containers
           /\ p.injectors \in Seq(Injector) /\ p.sources \in LoaderMap
BY DEF Pod, VolumeMap, MountMap, LoaderMap

\* A pod with one volume replaced.
LEMMA VolumeReplaced ==
    ASSUME NEW p \in Pod, NEW v \in VolumeNames, NEW x \in Secrets \cup {None, Memory}
    PROVE  LET q == [p EXCEPT !.volumes[v] = x]
           IN /\ q \in Pod
              /\ q.volumes = [p.volumes EXCEPT ![v] = x]
              /\ q.mounts = p.mounts /\ q.refs = p.refs /\ q.exports = p.exports
              /\ q.entrypoint = p.entrypoint /\ q.injectors = p.injectors
              /\ q.sources = p.sources
<1>1. /\ p.volumes \in VolumeMap /\ [p.volumes EXCEPT ![v] = x] \in VolumeMap
  BY PodFields DEF VolumeMap
<1>2. QED
  BY <1>1 DEF Pod, VolumeMap

\* The loaders that Wrap leaves sourced.
LEMMA SourcesReplaced ==
    ASSUME NEW p \in Pod, NEW x \in LoaderMap
    PROVE  LET q == [p EXCEPT !.sources = x]
           IN /\ q \in Pod /\ q.sources = x
              /\ q.volumes = p.volumes /\ q.mounts = p.mounts /\ q.refs = p.refs
              /\ q.exports = p.exports /\ q.entrypoint = p.entrypoint
              /\ q.injectors = p.injectors
BY DEF Pod, LoaderMap

-----------------------------------------------------------------------------
(* Mount paths.                                                            *)

\* A set of positions has a last one.
LEMMA HasLast ==
    ASSUME NEW n \in Nat, NEW S, S \subseteq 1..n, S # {}
    PROVE  \E i \in S : \A j \in S : j <= i
<1> DEFINE T == {n - i : i \in S}
<1>1. T \subseteq Nat /\ T # {}
  <2>1. PICK i \in S : TRUE
    OBVIOUS
  <2>2. n - i \in T
    OBVIOUS
  <2>3. QED
    BY <2>2
<1>2. PICK x \in T : \A y \in T : <<y, x>> \notin OpToRel(<, Nat)
  BY <1>1, NatLessThanWellFounded, WFMin
<1>3. PICK i \in S : x = n - i
  OBVIOUS
<1>4. ASSUME NEW j \in S PROVE j <= i
  <2>1. n - j \in T /\ n - j \in Nat /\ x \in Nat
    BY <1>1
  <2>2. ~(n - j < x)
    BY <1>2, <2>1 DEF OpToRel
  <2>3. QED
    BY <1>3, <2>2
<1>5. QED
  BY <1>4

\* The plan's path is that of a container that mounts the volume, if any does.
LEMMA MountPaths ==
    ASSUME pod \in Pod, NEW v \in VolumeNames, NEW s \in Secrets
    PROVE  /\ MountPath(v, s) \in Paths
           /\ Mounting(v) # {} =>
                 \E c \in Apps : /\ pod.mounts[c][v] # None
                                /\ MountPath(v, s) = pod.mounts[c][v]
           /\ {AppOrder[i] : i \in Mounting(v)} = {c \in Apps : pod.mounts[c][v] # None}
<1>1. /\ pod.mounts \in [Containers -> MountMap]
      /\ \A c \in Containers : pod.mounts[c][v] \in Paths \cup {None}
  BY PodFields DEF MountMap
<1>2. {AppOrder[i] : i \in Mounting(v)} = {c \in Apps : pod.mounts[c][v] # None}
  BY Orders DEF Mounting
<1>3. CASE Mounting(v) = {}
  BY <1>2, <1>3, NamesAssumption DEF MountPath
<1>4. CASE Mounting(v) # {}
  <2> DEFINE last == CHOOSE i \in Mounting(v) : \A j \in Mounting(v) : j <= i
  <2>1. Mounting(v) \subseteq 1..Len(AppOrder)
    BY DEF Mounting
  <2>2. last \in Mounting(v)
    BY <1>4, <2>1, HasLast, Orders
  <2>3. MountPath(v, s) = pod.mounts[AppOrder[last]][v]
    BY <1>4 DEF MountPath
  <2> HIDE DEF last
  <2>4. pod.mounts[AppOrder[last]][v] # None /\ AppOrder[last] \in Apps
    BY <2>2, Orders DEF Mounting
  <2>5. QED
    BY <1>1, <1>2, <2>3, <2>4 DEF Containers
<1>5. QED
  BY <1>3, <1>4

-----------------------------------------------------------------------------
(* Plans.                                                                  *)

\* A plan that is there is kept, with more users.
Joined(p, prefix, users) ==
    [for |-> [secret |-> p.for.secret, volume |-> p.for.volume, path |-> p.for.path,
              prefix |-> IF p.for.prefix = NoPrefix THEN prefix ELSE p.for.prefix,
              export |-> p.for.export],
     users |-> p.users \cup users]

NewPlan(v, s, path, prefix, users) ==
    [for |-> [secret |-> s, volume |-> v, path |-> path, prefix |-> prefix,
              export |-> FALSE],
     users |-> users]

LEMMA PlanFields ==
    ASSUME NEW p \in Plan
    PROVE  /\ p.for \in Injector /\ p.users \subseteq Containers
           /\ p.for.volume \in VolumeNames /\ p.for.secret \in Secrets
           /\ p.for.path \in Paths /\ p.for.prefix \in Prefixes
           /\ p.for.export \in BOOLEAN
BY DEF Plan, Injector

LEMMA JoinedIs ==
    ASSUME NEW p \in Plan, NEW prefix \in Prefixes, NEW users \in SUBSET Containers
    PROVE  /\ LET q == KeepPlan(p, prefix)
              IN [q EXCEPT !.users = @ \cup users] = Joined(p, prefix, users)
           /\ Joined(p, prefix, users) \in Plan
<1>1. KeepPlan(p, prefix) =
         [for |-> [secret |-> p.for.secret, volume |-> p.for.volume, path |-> p.for.path,
                   prefix |-> IF p.for.prefix = NoPrefix THEN prefix ELSE p.for.prefix,
                   export |-> p.for.export],
          users |-> p.users]
  BY DEF KeepPlan, Plan, Injector
<1> DEFINE k == KeepPlan(p, prefix)
<1>2. /\ k.for = Joined(p, prefix, users).for /\ k.for \in Injector
      /\ k.users = p.users /\ k \in Plan
  BY <1>1, PlanFields DEF Joined, Plan, Injector
<1>3. Joined(p, prefix, users) = [for |-> k.for, users |-> p.users \cup users]
  BY <1>2 DEF Joined
<1> HIDE DEF k
<1>4. [k EXCEPT !.users = @ \cup users] = [for |-> k.for, users |-> k.users \cup users]
  BY <1>2 DEF Plan
<1>5. Joined(p, prefix, users) \in Plan
  BY <1>2, <1>3, PlanFields DEF Plan
<1>6. QED
  BY <1>2, <1>3, <1>4, <1>5 DEF k

\* What collecting a reference to s on volume v makes of the plans: each is an
\* old one of another key, an old one with more users, or the new one; each
\* old one lives on; and there is one for the reference.
AddsPlan(v, s, path, users) ==
    /\ plans' \subseteq Plan
    /\ \A q \in plans' :
          \/ q \in plans /\ ~IsPlanOf(q, v, s)
          \/ \E p \in plans : /\ IsPlanOf(p, v, s) /\ IsPlanOf(q, v, s)
                              /\ q.for.path = p.for.path
          \/ /\ \A p \in plans : ~IsPlanOf(p, v, s)
             /\ IsPlanOf(q, v, s) /\ q.for.path = path
    /\ \A p \in plans : \E q \in plans' :
          /\ q.for.volume = p.for.volume /\ q.for.secret = p.for.secret
          /\ p.users \subseteq q.users
    /\ \E q \in plans' : IsPlanOf(q, v, s) /\ users \subseteq q.users

LEMMA PlanAdded ==
    ASSUME plans \subseteq Plan, NEW v \in VolumeNames, NEW s \in Secrets,
           NEW path \in Paths, NEW prefix \in Prefixes, NEW users \in SUBSET Containers,
           AddPlan(v, s, path, prefix, users)
    PROVE  /\ AddsPlan(v, s, path, users)
           /\ (\A p, q \in plans : IsPlanOf(p, v, s) /\ IsPlanOf(q, v, s) => p = q)
              => \A p, q \in plans' : IsPlanOf(p, v, s) /\ IsPlanOf(q, v, s) => p = q
<1> DEFINE old == {p \in plans : IsPlanOf(p, v, s)}
           new == NewPlan(v, s, path, prefix, users)
<1>1. plans' = IF old = {} THEN plans \cup {new}
               ELSE (plans \ old) \cup {Joined(p, prefix, users) : p \in old}
  <2>1. \A p \in old : (LET q == KeepPlan(p, prefix) IN [q EXCEPT !.users = @ \cup users])
                         = Joined(p, prefix, users)
    BY JoinedIs
  <2>2. {LET q == KeepPlan(p, prefix) IN [q EXCEPT !.users = @ \cup users] : p \in old}
           = {Joined(p, prefix, users) : p \in old}
    BY <2>1
  <2>3. QED
    BY <2>2 DEF AddPlan, NewPlan
<1>2. /\ new \in Plan /\ IsPlanOf(new, v, s) /\ new.for.path = path /\ new.users = users
  BY DEF NewPlan, Plan, Injector, IsPlanOf
<1>3. \A p \in old :
         /\ p \in plans /\ p \in Plan /\ IsPlanOf(p, v, s)
         /\ Joined(p, prefix, users) \in Plan
         /\ IsPlanOf(Joined(p, prefix, users), v, s)
         /\ Joined(p, prefix, users).for.path = p.for.path
         /\ Joined(p, prefix, users).for.volume = p.for.volume
         /\ Joined(p, prefix, users).for.secret = p.for.secret
         /\ p.users \subseteq Joined(p, prefix, users).users
         /\ users \subseteq Joined(p, prefix, users).users
  BY JoinedIs DEF Joined, IsPlanOf
<1>4. \A p \in plans \ old : ~IsPlanOf(p, v, s) /\ p \in Plan
  OBVIOUS
<1> HIDE DEF new
<1>5. CASE old = {}
  <2>1. plans' = plans \cup {new}
    BY <1>1, <1>5
  <2>2. \A p \in plans : ~IsPlanOf(p, v, s)
    BY <1>5
  <2>3. QED
    BY <1>2, <2>1, <2>2 DEF AddsPlan
<1>6. CASE old # {}
  <2>1. plans' = (plans \ old) \cup {Joined(p, prefix, users) : p \in old}
    BY <1>1, <1>6
  <2> HIDE DEF old
  <2>2. plans' \subseteq Plan
    BY <1>3, <1>4, <2>1
  <2>3. \A q \in plans' :
           \/ q \in plans /\ ~IsPlanOf(q, v, s)
           \/ \E p \in plans : /\ IsPlanOf(p, v, s) /\ IsPlanOf(q, v, s)
                               /\ q.for.path = p.for.path
    BY <1>3, <1>4, <2>1
  <2>4. \A p \in plans : \E q \in plans' :
           /\ q.for.volume = p.for.volume /\ q.for.secret = p.for.secret
           /\ p.users \subseteq q.users
    <3>1. ASSUME NEW p \in plans, p \in old
          PROVE  /\ Joined(p, prefix, users) \in plans'
                 /\ Joined(p, prefix, users).for.volume = p.for.volume
                 /\ Joined(p, prefix, users).for.secret = p.for.secret
                 /\ p.users \subseteq Joined(p, prefix, users).users
      BY <1>3, <2>1, <3>1
    <3>2. \A p \in plans : p \notin old => p \in plans'
      BY <2>1
    <3>3. QED
      BY <3>1, <3>2
  <2>5. \E q \in plans' : IsPlanOf(q, v, s) /\ users \subseteq q.users
    BY <1>3, <1>6, <2>1
  <2>6. ASSUME \A p, q \in plans : IsPlanOf(p, v, s) /\ IsPlanOf(q, v, s) => p = q,
               NEW p \in plans', NEW q \in plans', IsPlanOf(p, v, s), IsPlanOf(q, v, s)
        PROVE  p = q
    <3>1. /\ \E x \in old : p = Joined(x, prefix, users)
          /\ \E x \in old : q = Joined(x, prefix, users)
      BY <1>4, <2>1, <2>6
    <3>2. QED
      BY <1>3, <2>6, <3>1
  <2>7. QED
    BY <2>2, <2>3, <2>4, <2>5, <2>6 DEF AddsPlan
<1>7. QED
  BY <1>5, <1>6

-----------------------------------------------------------------------------
(* Type correctness.                                                       *)

\* While Handle looks at the environment, it looks at that of a container.
AtContainer == pc = "env" => at \in 1..Len(Order)

Typed == TypeOK /\ request \in Pod /\ AtContainer

LEMMA InitTyped == Init => Typed
<1> SUFFICES ASSUME Init PROVE Typed
  OBVIOUS
<1>1. request \in Pod /\ pod = request /\ pc = "volumes" /\ at = 1 /\ changes = 0
  BY RequestsAssumption DEF Init
<1>2. 1 \in 1..Len(Order) + 1 /\ 0 \in 0..MaxChanges
  BY Orders, NamesAssumption
<1>3. QED
  BY <1>1, <1>2 DEF Init, NoLoaders, Typed, TypeOK, AtContainer

\* What a volume that is collected changes.
LEMMA VolumeCollected ==
    ASSUME Typed, NEW v \in VolumeNames, CollectVolume(v),
           pod.volumes[v] \in Secrets, IsTSecret(pod.volumes[v])
    PROVE  LET s == pod.volumes[v]
               users == {c \in Apps : pod.mounts[c][v] # None}
           IN /\ AddPlan(v, s, MountPath(v, s), NoPrefix, users)
              /\ MountPath(v, s) \in Paths /\ users \in SUBSET Containers
              /\ pod' \in Pod
              /\ pod'.volumes = [pod.volumes EXCEPT ![v] = Memory]
              /\ pod'.mounts = pod.mounts /\ pod'.refs = pod.refs
              /\ pod'.exports = pod.exports /\ pod'.entrypoint = pod.entrypoint
              /\ pod'.injectors = pod.injectors /\ pod'.sources = pod.sources
<1>1. pod \in Pod
  BY DEF Typed, TypeOK
<1>2. pod' = [pod EXCEPT !.volumes[v] = Memory]
  BY DEF CollectVolume
<1>3. AddPlan(v, pod.volumes[v], MountPath(v, pod.volumes[v]), NoPrefix,
              {AppOrder[i] : i \in Mounting(v)})
  BY DEF CollectVolume
<1> DEFINE s == pod.volumes[v]
           users == {c \in Apps : pod.mounts[c][v] # None}
<1>4. {AppOrder[i] : i \in Mounting(v)} = users /\ MountPath(v, s) \in Paths
  BY <1>1, MountPaths
<1>5. AddPlan(v, s, MountPath(v, s), NoPrefix, users)
  BY <1>3, <1>4
<1>6. users \in SUBSET Containers
  BY DEF Containers
<1>7. /\ pod' \in Pod /\ pod'.volumes = [pod.volumes EXCEPT ![v] = Memory]
      /\ pod'.mounts = pod.mounts /\ pod'.refs = pod.refs
      /\ pod'.exports = pod.exports /\ pod'.entrypoint = pod.entrypoint
      /\ pod'.injectors = pod.injectors /\ pod'.sources = pod.sources
  BY <1>1, <1>2, VolumeReplaced
<1>8. QED
  BY <1>4, <1>5, <1>6, <1>7

\* What a reference that is collected changes.
LEMMA RefCollected ==
    ASSUME Typed, NEW ref \in Ref, CollectRef(ref), IsTSecret(ref.secret)
    PROVE  LET s == ref.secret
               c == Order[at]
           IN /\ s \in Secrets /\ c \in Containers /\ ref \in todo
              /\ AutoVolume[s] \in VolumeNames /\ DefaultPath[s] \in Paths
              /\ AddPlan(AutoVolume[s], s, DefaultPath[s], ref.prefix, {c})
              /\ pod' \in Pod
              /\ pod'.refs = [pod.refs EXCEPT ![c] = @ \ {ref}]
              /\ pod'.volumes = pod.volumes /\ pod'.mounts = pod.mounts
              /\ pod'.exports = pod.exports /\ pod'.entrypoint = pod.entrypoint
              /\ pod'.injectors = pod.injectors /\ pod'.sources = pod.sources
<1>1. pod \in Pod /\ ref.secret \in Secrets /\ Order[at] \in Containers
  BY Orders DEF Typed, TypeOK, AtContainer, CollectRef, Ref
<1>2. /\ pod' = [pod EXCEPT !.refs[Order[at]] = @ \ {ref}] /\ ref \in todo
      /\ AddPlan(AutoVolume[ref.secret], ref.secret, DefaultPath[ref.secret],
                 ref.prefix, {Order[at]})
  BY DEF CollectRef
<1>3. /\ pod' \in Pod /\ pod'.refs = [pod.refs EXCEPT ![Order[at]] = @ \ {ref}]
      /\ pod'.volumes = pod.volumes /\ pod'.mounts = pod.mounts
      /\ pod'.exports = pod.exports /\ pod'.entrypoint = pod.entrypoint
      /\ pod'.injectors = pod.injectors /\ pod'.sources = pod.sources
  <2>1. [pod.refs EXCEPT ![Order[at]] = @ \ {ref}] \in [Containers -> SUBSET Ref]
    BY <1>1, PodFields
  <2>2. QED
    BY <1>1, <1>2, <2>1 DEF Pod
<1>4. AutoVolume[ref.secret] \in VolumeNames /\ DefaultPath[ref.secret] \in Paths
  BY <1>1, NamesAssumption
<1>5. QED
  BY <1>1, <1>2, <1>3, <1>4

\* The init container that ApplyPlan makes.
Made(p) == [secret |-> p.for.secret, volume |-> p.for.volume, path |-> p.for.path,
            prefix |-> p.for.prefix, export |-> Exports(p)]

\* What a plan that is applied changes.
Applied(p) ==
    /\ pod' \in Pod
    /\ pod'.volumes = [pod.volumes EXCEPT ![p.for.volume] = IF @ = None THEN Memory ELSE @]
    /\ \A c \in Containers, v \in VolumeNames :
          pod'.mounts[c][v] =
             IF c \in p.users /\ v = p.for.volume /\ pod.mounts[c][v] = None
             THEN p.for.path ELSE pod.mounts[c][v]
    /\ pod'.injectors = IF \E n \in 1..Len(pod.injectors) :
                               pod.injectors[n].volume = p.for.volume
                        THEN pod.injectors ELSE Append(pod.injectors, Made(p))
    /\ pod'.refs = pod.refs /\ pod'.exports = pod.exports
    /\ pod'.entrypoint = pod.entrypoint /\ pod'.sources = pod.sources

LEMMA PlanIsApplied ==
    ASSUME Typed, NEW p \in plans, ApplyPlan(p)
    PROVE  /\ Applied(p) /\ Made(p) \in Injector
           /\ loaders' = [c \in Containers |-> IF c \in p.users \cap pod.exports
                                              THEN loaders[c] \cup {p.for.path}
                                              ELSE loaders[c]]
           /\ loaders' \in LoaderMap
<1> DEFINE x == [pod.volumes EXCEPT ![p.for.volume] = IF @ = None THEN Memory ELSE @]
           is == AddInjector(pod.injectors, [p.for EXCEPT !.export = Exports(p)])
           m == [c \in Containers |-> IF c \in p.users THEN MountFor(p, c) ELSE pod.mounts[c]]
<1>1. pod \in Pod /\ p \in Plan
  BY DEF Typed, TypeOK
<1>2. x \in VolumeMap
  BY <1>1, PodFields DEF VolumeMap
<1>3. [p.for EXCEPT !.export = Exports(p)] = Made(p) /\ Made(p) \in Injector
  <2>1. p.for \in Injector
    BY <1>1, PlanFields
  <2>2. Exports(p) \in BOOLEAN
    BY DEF Exports
  <2>3. QED
    BY <2>1, <2>2 DEF Made, Injector
<1>4. /\ is \in Seq(Injector)
      /\ is = IF \E n \in 1..Len(pod.injectors) : pod.injectors[n].volume = p.for.volume
              THEN pod.injectors ELSE Append(pod.injectors, Made(p))
  <2>1. Made(p).volume = p.for.volume
    BY DEF Made
  <2>2. pod.injectors \in Seq(Injector)
    BY <1>1, PodFields
  <2>3. QED
    BY <1>3, <2>1, <2>2 DEF AddInjector
<1>5. \A c \in Containers : MountFor(p, c) \in MountMap /\ pod.mounts[c] \in MountMap
  BY <1>1, PodFields, PlanFields DEF MountFor, MountMap
<1>6. m \in [Containers -> MountMap]
  BY <1>5
<1>7. pod' = [pod EXCEPT !.volumes = x, !.injectors = is, !.mounts = m]
  BY DEF ApplyPlan
<1> HIDE DEF x, is
<1>8. /\ pod' \in Pod /\ pod'.volumes = x /\ pod'.injectors = is /\ pod'.mounts = m
      /\ pod'.refs = pod.refs /\ pod'.exports = pod.exports
      /\ pod'.entrypoint = pod.entrypoint /\ pod'.sources = pod.sources
  <2> HIDE DEF m
  <2>1. QED
    BY <1>1, <1>2, <1>4, <1>6, <1>7 DEF Pod, VolumeMap, MountMap
<1>9. \A c \in Containers, v \in VolumeNames :
         m[c][v] = IF c \in p.users /\ v = p.for.volume /\ pod.mounts[c][v] = None
                   THEN p.for.path ELSE pod.mounts[c][v]
  BY DEF MountFor
<1>10. Applied(p)
  <2> HIDE DEF m
  <2>1. QED
    BY <1>4, <1>8, <1>9 DEF Applied, x
<1>11. /\ loaders' = [c \in Containers |-> IF c \in p.users \cap pod.exports
                                         THEN loaders[c] \cup {p.for.path}
                                         ELSE loaders[c]]
       /\ loaders \in LoaderMap
  BY DEF ApplyPlan, Typed, TypeOK, LoaderMap
<1>12. loaders' \in LoaderMap
  BY <1>1, <1>11, PlanFields DEF LoaderMap
<1>13. QED
  BY <1>3, <1>10, <1>11, <1>12

\* What Wrap makes of the pod when it admits it.
LEMMA Wrapped ==
    ASSUME Typed, Wrap
    PROVE  \/ /\ pc' = "denied" /\ pod' = pod
              /\ \E c \in Containers : loaders[c] # {}
           \/ /\ pc' = "allowed" /\ pod' \in Pod
              /\ \A c \in Containers : pod'.sources[c] =
                    IF AlreadyWrapped(c) THEN pod.sources[c] ELSE loaders[c]
              /\ pod'.volumes = pod.volumes /\ pod'.mounts = pod.mounts
              /\ pod'.refs = pod.refs /\ pod'.exports = pod.exports
              /\ pod'.entrypoint = pod.entrypoint /\ pod'.injectors = pod.injectors
              /\ pod' = [pod EXCEPT !.sources = pod'.sources]
              /\ pod'.sources \in LoaderMap
<1> DEFINE x == [c \in Containers |->
                    IF AlreadyWrapped(c) THEN pod.sources[c] ELSE loaders[c]]
<1>1. pod \in Pod /\ loaders \in LoaderMap /\ x \in LoaderMap
  BY PodFields DEF Typed, TypeOK, LoaderMap
<1>2. CASE pc' = "denied"
  BY <1>2 DEF Wrap
<1>3. CASE pc' # "denied"
  <2>1. pc' = "allowed" /\ pod' = [pod EXCEPT !.sources = x]
    BY <1>3 DEF Wrap
  <2>2. \A c \in Containers : x[c] = IF AlreadyWrapped(c) THEN pod.sources[c] ELSE loaders[c]
    OBVIOUS
  <2> HIDE DEF x
  <2>3. QED
    BY <1>1, <2>1, <2>2, SourcesReplaced
<1>4. QED
  BY <1>2, <1>3

LEMMA NextTyped == Typed /\ [Next]_vars => Typed'
<1> SUFFICES ASSUME Typed, [Next]_vars PROVE Typed'
  OBVIOUS
<1>1. /\ pod \in Pod /\ updated \in BOOLEAN /\ request \in Pod
      /\ pc \in {"volumes", "env", "apply", "allowed", "denied"}
      /\ at \in 1..Len(Order) + 1 /\ todo \subseteq VolumeNames \cup Ref
      /\ plans \subseteq Plan /\ loaders \in LoaderMap
      /\ known \subseteq Secrets /\ changes \in 0..MaxChanges
      /\ Len(Order) \in Nat /\ MaxChanges \in Nat
  BY Orders, NamesAssumption DEF Typed, TypeOK, LoaderMap
<1>2. ASSUME NEW v \in VolumeNames, CollectVolume(v) PROVE Typed'
  <2>1. /\ todo' \subseteq VolumeNames \cup Ref
        /\ UNCHANGED <<request, pc, updated, at, loaders, known, changes>>
    BY <1>1, <1>2 DEF CollectVolume
  <2>2. pod' \in Pod /\ plans' \subseteq Plan
    <3>1. CASE pod.volumes[v] \in Secrets /\ IsTSecret(pod.volumes[v])
      <4>1. /\ AddPlan(v, pod.volumes[v], MountPath(v, pod.volumes[v]), NoPrefix,
                       {c \in Apps : pod.mounts[c][v] # None})
            /\ MountPath(v, pod.volumes[v]) \in Paths
            /\ {c \in Apps : pod.mounts[c][v] # None} \in SUBSET Containers
            /\ pod' \in Pod
        BY <1>2, <3>1, VolumeCollected
      <4>2. AddsPlan(v, pod.volumes[v], MountPath(v, pod.volumes[v]),
                     {c \in Apps : pod.mounts[c][v] # None})
        BY <1>1, <3>1, <4>1, PlanAdded, NamesAssumption
      <4>3. QED
        BY <4>1, <4>2 DEF AddsPlan
    <3>2. CASE ~(pod.volumes[v] \in Secrets /\ IsTSecret(pod.volumes[v]))
      BY <1>1, <1>2, <3>2 DEF CollectVolume
    <3>3. QED
      BY <3>1, <3>2
  <2>3. QED
    BY <1>1, <2>1, <2>2 DEF Typed, TypeOK, AtContainer, LoaderMap
<1>3. ASSUME NextContainer PROVE Typed'
  <2>1. /\ UNCHANGED <<request, pod, updated, plans, loaders, known, changes>>
        /\ \/ Enter(1)
           \/ pc = "env" /\ Enter(at + 1)
    BY <1>3 DEF NextContainer
  <2>2. ASSUME NEW n \in 1..Len(Order) + 1, Enter(n)
        PROVE  /\ at' \in 1..Len(Order) + 1 /\ todo' \subseteq VolumeNames \cup Ref
               /\ pc' \in {"env", "apply"} /\ (pc' = "env" => at' \in 1..Len(Order))
    <3>1. CASE n <= Len(Order)
      <4>1. pod.refs[Order[n]] \subseteq Ref
        BY <1>1, <3>1, Orders, PodFields
      <4>2. QED
        BY <1>1, <2>2, <3>1, <4>1 DEF Enter
    <3>2. CASE ~(n <= Len(Order))
      BY <1>1, <2>2, <3>2 DEF Enter
    <3>3. QED
      BY <3>1, <3>2
  <2>3. 1 \in 1..Len(Order) + 1 /\ (pc = "env" => at + 1 \in 1..Len(Order) + 1)
    BY <1>1 DEF Typed, AtContainer
  <2>4. /\ at' \in 1..Len(Order) + 1 /\ todo' \subseteq VolumeNames \cup Ref
        /\ pc' \in {"env", "apply"} /\ (pc' = "env" => at' \in 1..Len(Order))
    BY <2>1, <2>2, <2>3
  <2>5. QED
    BY <1>1, <2>1, <2>4 DEF Typed, TypeOK, AtContainer, LoaderMap
<1>4. ASSUME NEW ref \in Ref, CollectRef(ref) PROVE Typed'
  <2>1. /\ todo' \subseteq VolumeNames \cup Ref
        /\ UNCHANGED <<request, pc, updated, at, loaders, known, changes>>
    BY <1>1, <1>4 DEF CollectRef
  <2>2. pod' \in Pod /\ plans' \subseteq Plan
    <3>1. CASE IsTSecret(ref.secret)
      <4>1. /\ AddPlan(AutoVolume[ref.secret], ref.secret, DefaultPath[ref.secret],
                       ref.prefix, {Order[at]})
            /\ AutoVolume[ref.secret] \in VolumeNames /\ ref.secret \in Secrets
            /\ DefaultPath[ref.secret] \in Paths /\ {Order[at]} \in SUBSET Containers
            /\ pod' \in Pod
        BY <1>4, <3>1, RefCollected
      <4>2. ref.prefix \in Prefixes
        BY DEF Ref
      <4>3. AddsPlan(AutoVolume[ref.secret], ref.secret, DefaultPath[ref.secret], {Order[at]})
        BY <1>1, <4>1, <4>2, PlanAdded
      <4>4. QED
        BY <4>1, <4>3 DEF AddsPlan
    <3>2. CASE ~IsTSecret(ref.secret)
      BY <1>1, <1>4, <3>2 DEF CollectRef
    <3>3. QED
      BY <3>1, <3>2
  <2>3. QED
    BY <1>1, <2>1, <2>2 DEF Typed, TypeOK, AtContainer, LoaderMap
<1>5. ASSUME NEW p \in plans, ApplyPlan(p) PROVE Typed'
  <2>1. pod' \in Pod /\ loaders' \in LoaderMap
    BY <1>5, PlanIsApplied DEF Applied
  <2>2. /\ plans' \subseteq Plan
        /\ UNCHANGED <<request, pc, updated, at, todo, known, changes>>
    BY <1>1, <1>5 DEF ApplyPlan
  <2>3. QED
    BY <1>1, <2>1, <2>2 DEF Typed, TypeOK, AtContainer, LoaderMap
<1>6. ASSUME Wrap PROVE Typed'
  <2>1. pod' \in Pod /\ pc' \in {"allowed", "denied"}
    BY <1>1, <1>6, Wrapped
  <2>2. UNCHANGED <<request, updated, at, todo, plans, loaders, known, changes>>
    BY <1>6 DEF Wrap
  <2>3. QED
    BY <1>1, <2>1, <2>2 DEF Typed, TypeOK, AtContainer, LoaderMap
<1>7. ASSUME Update PROVE Typed'
  <2>1. NoLoaders \in LoaderMap /\ 1 \in 1..Len(Order) + 1
    BY <1>1 DEF NoLoaders, LoaderMap
  <2>2. QED
    BY <1>1, <1>7, <2>1 DEF Update, Typed, TypeOK, AtContainer, LoaderMap
<1>8. ASSUME NEW s \in Secrets, CacheChanges(s) PROVE Typed'
  BY <1>1, <1>8 DEF CacheChanges, Typed, TypeOK, AtContainer, LoaderMap
<1>9. CASE UNCHANGED vars
  BY <1>1, <1>9 DEF vars, Typed, TypeOK, AtContainer, LoaderMap
<1>10. QED
  BY <1>2, <1>3, <1>4, <1>5, <1>6, <1>7, <1>8, <1>9 DEF Next

\* Types: what Handle makes of a pod is a pod, and a plan always has a path,
\* whoever mounts its volume (mutate.go:173-181).
THEOREM TypeCorrect == Spec => []TypeOK
<1>1. Typed => TypeOK
  BY DEF Typed
<1>2. QED
  BY InitTyped, NextTyped, <1>1, PTL DEF Spec

-----------------------------------------------------------------------------
(* Updates.                                                                *)

\* While the cache has not changed: a volume that has been looked at, and a
\* reference that has, is of no TSecret; and the second request finds all so.
VolumesSettled ==
    \A v \in VolumeNames :
        (pc = "volumes" /\ v \in todo /\ ~updated) \/ pod.volumes[v] \notin known

Awaits(c, ref) ==
    /\ ~updated
    /\ \/ pc = "volumes"
       \/ /\ pc = "env"
          /\ \E n \in at..Len(Order) : Order[n] = c /\ (n = at => ref \in todo)

RefsSettled ==
    \A c \in Containers : \A ref \in pod.refs[c] : Awaits(c, ref) \/ ref.secret \notin known

SecondPass ==
    updated => /\ pod = request /\ plans = {} /\ loaders = NoLoaders /\ pc # "denied"
               /\ pc = "env" => todo \subseteq pod.refs[Order[at]]

Settled == changes = 0 => VolumesSettled /\ RefsSettled /\ SecondPass

LEMMA InitSettled == Init => Settled
BY DEF Init, Settled, VolumesSettled, RefsSettled, Awaits, SecondPass

LEMMA VolumeKeepsSettled ==
    ASSUME Typed, Settled, NEW v \in VolumeNames, CollectVolume(v)
    PROVE  Settled'
<1> SUFFICES ASSUME changes = 0 PROVE VolumesSettled' /\ RefsSettled' /\ SecondPass'
  BY DEF Settled, CollectVolume
<1>1. /\ pc = "volumes" /\ v \in todo /\ todo' = todo \ {v} /\ known \subseteq Secrets
      /\ UNCHANGED <<request, pc, updated, at, loaders, known, changes>>
      /\ VolumesSettled /\ RefsSettled /\ SecondPass
  BY DEF CollectVolume, Typed, TypeOK, Settled
<1>2. CASE pod.volumes[v] \in Secrets /\ IsTSecret(pod.volumes[v])
  <2>1. /\ pod'.volumes = [pod.volumes EXCEPT ![v] = Memory] /\ pod'.refs = pod.refs
        /\ pod.volumes \in VolumeMap
    BY <1>2, VolumeCollected, PodFields DEF Typed, TypeOK
  <2>2. ~updated
    BY <1>1, <1>2 DEF VolumesSettled, SecondPass, IsTSecret
  <2>3. Memory \notin known
    BY <1>1, NamesAssumption
  <2>4. VolumesSettled'
    BY <1>1, <2>1, <2>2, <2>3 DEF VolumesSettled, VolumeMap
  <2>5. RefsSettled'
    BY <1>1, <2>1, <2>2 DEF RefsSettled, Awaits
  <2>6. QED
    BY <1>1, <2>2, <2>4, <2>5 DEF SecondPass
<1>3. CASE ~(pod.volumes[v] \in Secrets /\ IsTSecret(pod.volumes[v]))
  <2>1. UNCHANGED <<plans, pod>> /\ pod.volumes[v] \notin known
    BY <1>1, <1>3 DEF CollectVolume, IsTSecret
  <2>2. VolumesSettled'
    BY <1>1, <2>1 DEF VolumesSettled
  <2>3. RefsSettled'
    BY <1>1, <2>1 DEF RefsSettled, Awaits
  <2>4. QED
    BY <1>1, <2>1, <2>2, <2>3 DEF SecondPass
<1>4. QED
  BY <1>2, <1>3

LEMMA NextContainerKeepsSettled ==
    ASSUME Typed, Settled, NextContainer
    PROVE  Settled'
<1> SUFFICES ASSUME changes = 0 PROVE VolumesSettled' /\ RefsSettled' /\ SecondPass'
  BY DEF Settled, NextContainer
<1>1. /\ todo = {} /\ pc \in {"volumes", "env"}
      /\ UNCHANGED <<request, pod, updated, plans, loaders, known, changes>>
      /\ VolumesSettled /\ RefsSettled /\ SecondPass
  BY DEF NextContainer, Settled
<1>2. PICK m \in 1..Len(Order) + 1 :
        /\ Enter(m)
        /\ pc = "volumes" => m = 1
        /\ pc = "env" => m = at + 1 /\ at \in 1..Len(Order)
  BY Orders DEF NextContainer, Typed, AtContainer
<1>3. /\ pc' \in {"env", "apply"} /\ at' = m
      /\ m <= Len(Order) => pc' = "env" /\ todo' = pod.refs[Order[m]]
      /\ ~(m <= Len(Order)) => pc' = "apply"
  BY <1>2 DEF Enter
<1>4. VolumesSettled'
  BY <1>1, <1>3 DEF VolumesSettled
<1>5. ASSUME NEW c \in Containers, NEW ref \in pod.refs[c], ref.secret \in known
      PROVE  Awaits(c, ref)'
  <2>1. Awaits(c, ref) /\ ~updated
    BY <1>1, <1>5 DEF RefsSettled, Awaits
  <2>2. \E n \in m..Len(Order) : Order[n] = c
    <3>1. CASE pc = "volumes"
      BY <1>2, <3>1, Orders
    <3>2. CASE pc = "env"
      <4>1. PICK n \in at..Len(Order) : Order[n] = c /\ n # at
        BY <1>1, <2>1, <3>2 DEF Awaits
      <4>2. n \in m..Len(Order)
        BY <1>2, <3>2, <4>1, Orders
      <4>3. QED
        BY <4>1, <4>2
    <3>3. QED
      BY <1>1, <3>1, <3>2
  <2>3. m <= Len(Order)
    BY <2>2, <1>2, Orders
  <2>4. QED
    BY <1>1, <1>3, <2>1, <2>2, <2>3 DEF Awaits
<1>6. RefsSettled'
  BY <1>1, <1>5 DEF RefsSettled
<1>7. SecondPass'
  BY <1>1, <1>3, <1>2 DEF SecondPass
<1>8. QED
  BY <1>4, <1>6, <1>7

LEMMA RefKeepsSettled ==
    ASSUME Typed, Settled, NEW ref \in Ref, CollectRef(ref)
    PROVE  Settled'
<1> SUFFICES ASSUME changes = 0 PROVE VolumesSettled' /\ RefsSettled' /\ SecondPass'
  BY DEF Settled, CollectRef
<1>1. /\ pc = "env" /\ ref \in todo /\ todo' = todo \ {ref}
      /\ UNCHANGED <<request, pc, updated, at, loaders, known, changes>>
      /\ VolumesSettled /\ RefsSettled /\ SecondPass
      /\ Order[at] \in Containers
  BY Orders DEF CollectRef, Settled, Typed, AtContainer
<1>2. CASE IsTSecret(ref.secret)
  <2>1. /\ pod'.volumes = pod.volumes
        /\ pod'.refs = [pod.refs EXCEPT ![Order[at]] = @ \ {ref}]
        /\ pod.refs \in [Containers -> SUBSET Ref]
    BY <1>2, RefCollected, PodFields DEF Typed, TypeOK
  <2>2. ~updated
    BY <1>1, <1>2 DEF RefsSettled, Awaits, SecondPass, IsTSecret
  <2>3. VolumesSettled'
    BY <1>1, <2>1, <2>2 DEF VolumesSettled
  <2>4. ASSUME NEW c \in Containers, NEW other \in pod'.refs[c], other.secret \in known
        PROVE  Awaits(c, other)'
    <3>1. other \in pod.refs[c] /\ (c = Order[at] => other # ref)
      BY <1>1, <2>1, <2>4
    <3>2. Awaits(c, other)
      BY <1>1, <2>4, <3>1 DEF RefsSettled
    <3>3. QED
      BY <1>1, <2>2, <3>1, <3>2 DEF Awaits
  <2>5. RefsSettled'
    BY <1>1, <2>4 DEF RefsSettled
  <2>6. QED
    BY <1>1, <2>2, <2>3, <2>5 DEF SecondPass
<1>3. CASE ~IsTSecret(ref.secret)
  <2>1. UNCHANGED <<plans, pod>> /\ ref.secret \notin known
    BY <1>3 DEF CollectRef, IsTSecret
  <2>2. VolumesSettled'
    BY <1>1, <2>1 DEF VolumesSettled
  <2>3. ASSUME NEW c \in Containers, NEW other \in pod.refs[c], other.secret \in known
        PROVE  Awaits(c, other)'
    <3>1. Awaits(c, other) /\ other # ref
      BY <1>1, <2>1, <2>3 DEF RefsSettled
    <3>2. QED
      BY <1>1, <3>1 DEF Awaits
  <2>4. RefsSettled'
    BY <1>1, <2>1, <2>3 DEF RefsSettled
  <2>5. SecondPass'
    BY <1>1, <2>1 DEF SecondPass
  <2>6. QED
    BY <2>2, <2>4, <2>5
<1>4. QED
  BY <1>2, <1>3

LEMMA RestKeepsSettled ==
    ASSUME Typed, Settled,
           \/ \E p \in plans : ApplyPlan(p)
           \/ Wrap \/ Update
           \/ \E s \in Secrets : CacheChanges(s)
           \/ UNCHANGED vars
    PROVE  Settled'
<1>1. /\ pod \in Pod /\ known \subseteq Secrets /\ changes \in Nat
      /\ pod.volumes \in VolumeMap /\ Memory \notin known
  BY NamesAssumption, PodFields DEF Typed, TypeOK
<1>2. ASSUME NEW p \in plans, ApplyPlan(p) PROVE Settled'
  <2> SUFFICES ASSUME changes = 0 PROVE VolumesSettled' /\ RefsSettled' /\ SecondPass'
    BY <1>2 DEF Settled, ApplyPlan
  <2>1. /\ pod'.refs = pod.refs /\ pc = "apply"
        /\ pod'.volumes = [pod.volumes EXCEPT ![p.for.volume] = IF @ = None THEN Memory ELSE @]
        /\ UNCHANGED <<request, pc, updated, at, todo, known, changes>>
        /\ VolumesSettled /\ RefsSettled /\ SecondPass
    BY <1>2, PlanIsApplied DEF ApplyPlan, Applied, Settled
  <2>2. VolumesSettled'
    BY <1>1, <2>1 DEF VolumesSettled, VolumeMap
  <2>3. RefsSettled'
    BY <2>1 DEF RefsSettled, Awaits
  <2>4. ~updated
    BY <2>1 DEF SecondPass
  <2>5. QED
    BY <2>1, <2>2, <2>3, <2>4 DEF SecondPass
<1>3. CASE Wrap
  <2> SUFFICES ASSUME changes = 0 PROVE VolumesSettled' /\ RefsSettled' /\ SecondPass'
    BY <1>3 DEF Settled, Wrap
  <2>1. /\ pod'.refs = pod.refs /\ pod'.volumes = pod.volumes /\ pc = "apply"
        /\ pc' \in {"allowed", "denied"}
        /\ UNCHANGED <<request, updated, at, todo, plans, loaders, known, changes>>
        /\ VolumesSettled /\ RefsSettled /\ SecondPass
    <3>1. /\ pod'.refs = pod.refs /\ pod'.volumes = pod.volumes
          /\ pc' \in {"allowed", "denied"}
      BY <1>3, Wrapped
    <3>2. QED
      BY <1>3, <3>1 DEF Wrap, Settled
  <2>2. VolumesSettled'
    BY <2>1 DEF VolumesSettled
  <2>3. RefsSettled'
    BY <2>1 DEF RefsSettled, Awaits
  <2>4. ASSUME updated PROVE pod' = pod /\ pc' # "denied"
    <3>1. \A c \in Containers : loaders[c] = {}
      BY <2>1, <2>4 DEF SecondPass, NoLoaders
    <3>2. /\ pc' = "allowed" /\ pod' = [pod EXCEPT !.sources = pod'.sources]
          /\ pod'.sources \in LoaderMap
          /\ \A c \in Containers : pod'.sources[c] =
                IF AlreadyWrapped(c) THEN pod.sources[c] ELSE loaders[c]
      BY <1>3, <3>1, Wrapped
    <3>3. \A c \in Containers : pod'.sources[c] = pod.sources[c]
      BY <3>1, <3>2 DEF AlreadyWrapped
    <3>4. pod'.sources = pod.sources
      BY <1>1, <3>2, <3>3, PodFields DEF LoaderMap
    <3>5. pod' = [pod EXCEPT !.sources = pod.sources]
      BY <3>2, <3>4
    <3>6. QED
      BY <1>1, <3>2, <3>5 DEF Pod
  <2>5. SecondPass'
    BY <2>1, <2>4 DEF SecondPass
  <2>6. QED
    BY <2>2, <2>3, <2>5
<1>4. CASE Update
  <2> SUFFICES ASSUME changes = 0 PROVE VolumesSettled' /\ RefsSettled' /\ SecondPass'
    BY <1>4 DEF Settled, Update
  <2>1. /\ pc = "allowed" /\ updated' /\ pc' = "volumes" /\ request' = pod
        /\ plans' = {} /\ loaders' = NoLoaders /\ UNCHANGED <<pod, known, changes>>
        /\ VolumesSettled /\ RefsSettled
    BY <1>4 DEF Update, Settled
  <2>2. VolumesSettled' /\ RefsSettled'
    BY <2>1 DEF VolumesSettled, RefsSettled, Awaits
  <2>3. SecondPass'
    BY <2>1 DEF SecondPass, NoLoaders
  <2>4. QED
    BY <2>2, <2>3
<1>5. ASSUME NEW s \in Secrets, CacheChanges(s) PROVE Settled'
  BY <1>1, <1>5 DEF CacheChanges, Settled
<1>6. CASE UNCHANGED vars
  BY <1>6 DEF vars, Settled, VolumesSettled, RefsSettled, Awaits, SecondPass
<1>7. QED
  BY <1>2, <1>3, <1>4, <1>5, <1>6

LEMMA NextSettled == Typed /\ Settled /\ [Next]_vars => Settled'
BY VolumeKeepsSettled, NextContainerKeepsSettled, RefKeepsSettled, RestKeepsSettled DEF Next

\* While the cache stays as it was, the update of a pod that was admitted is
\* admitted and changes nothing: Settled says that the first request leaves no
\* volume and no reference of a TSecret behind (mutate.go:69-71, 184, 216, 236).
THEOREM UpdateChangesNothing == Spec => []UpdateIsQuiet
<1>1. Settled => UpdateIsQuiet
  BY DEF Settled, SecondPass, UpdateIsQuiet
<1>2. QED
  BY InitTyped, NextTyped, InitSettled, NextSettled, <1>1, PTL DEF Spec

-----------------------------------------------------------------------------
(* The first request.                                                      *)

Collecting == pc \in {"volumes", "env"}

\* What Handle has done to volumes and mounts so far.
Basics ==
    /\ request \in Requests
    /\ \A v \in VolumeNames : pod.volumes[v] \in {request.volumes[v], Memory}
    /\ \A c \in Containers, v \in VolumeNames :
          request.mounts[c][v] # None => pod.mounts[c][v] = request.mounts[c][v]
    /\ Collecting => /\ pod.injectors = <<>> /\ loaders = NoLoaders
                     /\ pod.mounts = request.mounts
    /\ pc \in {"allowed", "denied"} => plans = {}
    /\ \A c \in Containers : pod.sources[c] \subseteq loaders[c]

\* Volume v is to hold s: it was the Secret s, or has the automatic name of s.
Fits(v, s) ==
    \/ request.volumes[v] = s /\ pod.volumes[v] = Memory
    \/ v = AutoVolume[s] /\ request.volumes[v] \in {None, s}

\* A volume has one plan at most, until it has its init container instead.
PlansFit ==
    /\ \A p \in plans : Fits(p.for.volume, p.for.secret)
    /\ \A n \in 1..Len(pod.injectors) :
          Fits(pod.injectors[n].volume, pod.injectors[n].secret)
    /\ \A p, q \in plans : p.for.volume = q.for.volume => p = q
    /\ \A p \in plans, n \in 1..Len(pod.injectors) :
          pod.injectors[n].volume # p.for.volume
    /\ \A p \in plans, c \in Containers :
          pod.mounts[c][p.for.volume] = request.mounts[c][p.for.volume]

\* The path of a plan is where its volume is mounted, if that is one place.
PathsFit ==
    /\ pc = "volumes" => \A p \in plans : p.for.volume \notin todo
    /\ Collecting => \A v \in VolumeNames :
          request.volumes[v] \in Secrets /\ pod.volumes[v] = Memory
          => \E p \in plans : p.for.volume = v
    /\ OnePathEach => \A p \in plans, c \in Containers :
          pod.volumes[p.for.volume] # p.for.secret /\ request.mounts[c][p.for.volume] # None
          => request.mounts[c][p.for.volume] = p.for.path

Injected(v, s) ==
    \E n \in 1..Len(pod.injectors) :
        pod.injectors[n].volume = v /\ pod.injectors[n].secret = s

\* A plan will give container c the files of s, or has given them.
Promised(c, v, s) ==
    \/ \E p \in plans : IsPlanOf(p, v, s) /\ c \in p.users
    \/ Injected(v, s) /\ pod.mounts[c][v] # None /\ pod.volumes[v] # None

Promises ==
    /\ \A c \in Containers : \A ref \in request.refs[c] \ pod.refs[c] :
          Promised(c, AutoVolume[ref.secret], ref.secret)
    /\ \A v \in VolumeNames, c \in Apps :
          request.volumes[v] # pod.volumes[v] /\ request.mounts[c][v] # None
          => Promised(c, v, request.volumes[v])

Written(c, path) ==
    \E n \in 1..Len(pod.injectors) :
        LET i == pod.injectors[n]
        IN /\ i.export /\ i.path = path
           /\ pod.mounts[c][i.volume] = path \/ pod.volumes[i.volume] = i.secret

LoadersWritten ==
    OnePathEach => \A c \in Containers : \A path \in loaders[c] : Written(c, path)

First == ~updated => Basics /\ PlansFit /\ PathsFit /\ Promises /\ LoadersWritten

LEMMA InitFirst == Init => First
<1> SUFFICES ASSUME Init PROVE Basics /\ PlansFit /\ PathsFit /\ Promises /\ LoadersWritten
  BY DEF First
<1>1. /\ request \in Requests /\ pod = request /\ pc = "volumes" /\ plans = {}
      /\ loaders = NoLoaders /\ pod.injectors = <<>> /\ Len(pod.injectors) = 0
      /\ \A c \in Containers : pod.sources[c] = {} /\ loaders[c] = {}
  BY RequestsAssumption DEF Init, NoLoaders
<1>2. Basics
  BY <1>1 DEF Basics
<1>3. PlansFit
  BY <1>1 DEF PlansFit
<1>4. PathsFit
  <2>1. \A v \in VolumeNames : ~(request.volumes[v] \in Secrets /\ pod.volumes[v] = Memory)
    BY <1>1, NamesAssumption
  <2>2. QED
    BY <1>1, <2>1 DEF PathsFit
<1>5. Promises /\ LoadersWritten
  BY <1>1 DEF Promises, LoadersWritten
<1>6. QED
  BY <1>2, <1>3, <1>4, <1>5

\* A submitted pod, field by field.
LEMMA Submitted ==
    ASSUME Typed, Basics
    PROVE  /\ \A s \in Secrets : request.volumes[AutoVolume[s]] \in {None, s}
           /\ \A v \in VolumeNames, c \in Containers :
                 request.mounts[c][v] # None => request.volumes[v] # None
           /\ pod \in Pod /\ plans \subseteq Plan
           /\ pod.volumes \in VolumeMap /\ pod.mounts \in [Containers -> MountMap]
           /\ pod.refs \in [Containers -> SUBSET Ref] /\ pod.injectors \in Seq(Injector)
           /\ Len(pod.injectors) \in Nat
BY RequestsAssumption, PodFields DEF Typed, TypeOK, Basics

\* A volume is for one secret.
LEMMA FitsOne ==
    ASSUME NEW v, NEW s \in Secrets, NEW t \in Secrets, Fits(v, s), Fits(v, t)
    PROVE  s = t
BY NamesAssumption DEF Fits

\* What is collected joins what was, and forgets no promise.
LEMMA PlansStayFit ==
    ASSUME Typed, Basics, PlansFit, Collecting,
           NEW v \in VolumeNames, NEW s \in Secrets, NEW path \in Paths,
           NEW prefix \in Prefixes, NEW users \in SUBSET Containers,
           AddPlan(v, s, path, prefix, users),
           pod'.mounts = pod.mounts, pod'.injectors = pod.injectors, request' = request,
           \A w \in VolumeNames : pod'.volumes[w] \in {pod.volumes[w], Memory},
           Fits(v, s)'
    PROVE  /\ AddsPlan(v, s, path, users) /\ PlansFit'
           /\ \A c \in Containers : \A w, t : Promised(c, w, t) => Promised(c, w, t)'
           /\ \A c \in users : Promised(c, v, s)'
<1>1. /\ plans \subseteq Plan /\ pod.injectors = <<>> /\ pod.mounts = request.mounts
      /\ Len(pod.injectors) = 0
  BY Submitted DEF Basics
<1>2. \A p \in plans : /\ p.for.volume \in VolumeNames /\ p.for.secret \in Secrets
                        /\ Fits(p.for.volume, p.for.secret)
  BY <1>1, PlanFields DEF PlansFit
<1>3. \A p, q \in plans : IsPlanOf(p, v, s) /\ IsPlanOf(q, v, s) => p = q
  BY DEF PlansFit, IsPlanOf
<1>4. /\ AddsPlan(v, s, path, users)
      /\ \A p, q \in plans' : IsPlanOf(p, v, s) /\ IsPlanOf(q, v, s) => p = q
  BY <1>1, <1>3, PlanAdded
<1>5. \A w \in VolumeNames, t \in Secrets : Fits(w, t) => Fits(w, t)'
  BY DEF Fits
<1>6. ASSUME NEW q \in plans'
      PROVE  /\ Fits(q.for.volume, q.for.secret)'
             /\ q.for.volume \in VolumeNames /\ q.for.secret \in Secrets
             /\ IsPlanOf(q, v, s) \/ (q \in plans /\ q.for.volume # v)
  <2>1. q.for.volume \in VolumeNames /\ q.for.secret \in Secrets
    BY <1>4, PlanFields DEF AddsPlan
  <2>2. CASE IsPlanOf(q, v, s)
    BY <2>1, <2>2 DEF IsPlanOf
  <2>3. CASE ~IsPlanOf(q, v, s)
    <3>1. q \in plans
      BY <1>4, <2>3 DEF AddsPlan
    <3>2. Fits(q.for.volume, q.for.secret)'
      BY <1>2, <1>5, <3>1
    <3>3. ASSUME q.for.volume = v PROVE FALSE
      <4>1. Fits(v, q.for.secret)'
        BY <3>2, <3>3
      <4>2. q.for.secret = s
        BY <2>1, <4>1, NamesAssumption DEF Fits
      <4>3. QED
        BY <2>3, <3>3, <4>2 DEF IsPlanOf
    <3>4. QED
      BY <2>1, <3>1, <3>2, <3>3
  <2>4. QED
    BY <2>2, <2>3
<1>7. ASSUME NEW p \in plans', NEW q \in plans', p.for.volume = q.for.volume PROVE p = q
  <2>1. CASE p.for.volume = v
    BY <1>4, <1>6, <1>7, <2>1
  <2>2. CASE p.for.volume # v
    <3>1. p \in plans /\ q \in plans
      BY <1>6, <1>7, <2>2 DEF IsPlanOf
    <3>2. QED
      BY <1>7, <3>1 DEF PlansFit
  <2>3. QED
    BY <2>1, <2>2
<1>8. PlansFit'
  BY <1>1, <1>6, <1>7 DEF PlansFit
<1>9. ASSUME NEW c \in Containers, NEW w, NEW t, Promised(c, w, t) PROVE Promised(c, w, t)'
  <2>1. PICK p \in plans : IsPlanOf(p, w, t) /\ c \in p.users
    BY <1>1, <1>9 DEF Promised, Injected
  <2>2. PICK q \in plans' : /\ q.for.volume = p.for.volume /\ q.for.secret = p.for.secret
                            /\ p.users \subseteq q.users
    BY <1>4 DEF AddsPlan
  <2>3. QED
    BY <2>1, <2>2 DEF Promised, IsPlanOf
<1>10. \A c \in users : Promised(c, v, s)'
  BY <1>4 DEF AddsPlan, Promised, IsPlanOf
<1>11. QED
  BY <1>4, <1>8, <1>9, <1>10

LEMMA VolumeKeepsFirst ==
    ASSUME Typed, First, NEW v \in VolumeNames, CollectVolume(v)
    PROVE  First'
<1> SUFFICES ASSUME ~updated
             PROVE  Basics' /\ PlansFit' /\ PathsFit' /\ Promises' /\ LoadersWritten'
  BY DEF First, CollectVolume
<1>1. /\ pc = "volumes" /\ v \in todo /\ todo' = todo \ {v} /\ Collecting /\ Collecting'
      /\ UNCHANGED <<request, pc, updated, at, loaders, known, changes>>
      /\ Basics /\ PlansFit /\ PathsFit /\ Promises /\ LoadersWritten
  BY DEF CollectVolume, First, Collecting
<1>2. CASE pod.volumes[v] \in Secrets /\ IsTSecret(pod.volumes[v])
  <2>0. PICK s, users : s = pod.volumes[v] /\ users = {c \in Apps : pod.mounts[c][v] # None}
    OBVIOUS
  <2>1. /\ AddPlan(v, s, MountPath(v, s), NoPrefix, users)
        /\ MountPath(v, s) \in Paths /\ users \in SUBSET Containers
        /\ pod'.volumes = [pod.volumes EXCEPT ![v] = Memory]
        /\ pod'.mounts = pod.mounts /\ pod'.refs = pod.refs
        /\ pod'.injectors = pod.injectors /\ pod'.sources = pod.sources
    BY <1>2, <2>0, VolumeCollected
  <2>2. /\ pod.volumes \in VolumeMap /\ s \in Secrets /\ request.volumes[v] = s
        /\ pod.mounts = request.mounts /\ pod.injectors = <<>> /\ loaders = NoLoaders
        /\ pod \in Pod
    BY <1>1, <1>2, <2>0, Submitted, NamesAssumption DEF Basics
  <2>3. /\ pod'.volumes[v] = Memory
        /\ \A w \in VolumeNames : w # v => pod'.volumes[w] = pod.volumes[w]
    BY <2>1, <2>2 DEF VolumeMap
  <2>4. Fits(v, s)'
    BY <1>1, <2>2, <2>3 DEF Fits
  <2>5. \A w \in VolumeNames : pod'.volumes[w] \in {pod.volumes[w], Memory}
    BY <2>3
  <2>6. /\ AddsPlan(v, s, MountPath(v, s), users) /\ PlansFit'
        /\ \A c \in Containers : \A w, t : Promised(c, w, t) => Promised(c, w, t)'
        /\ \A c \in users : Promised(c, v, s)'
    BY <1>1, <2>1, <2>2, <2>4, <2>5, PlansStayFit, NamesAssumption
  <2>7. Basics'
    BY <1>1, <2>1, <2>5 DEF Basics, Collecting
  <2>8. \A p \in plans : p.for.volume # v
    BY <1>1 DEF PathsFit
  <2>9. ASSUME OnePathEach, NEW c \in Containers, request.mounts[c][v] # None
        PROVE  request.mounts[c][v] = MountPath(v, s)
    <3>1. PICK d \in Apps : request.mounts[d][v] # None
      BY <2>9 DEF OnePathEach
    <3>2. Mounting(v) # {}
      BY <2>2, <3>1, MountPaths
    <3>3. PICK e \in Apps : pod.mounts[e][v] # None /\ MountPath(v, s) = pod.mounts[e][v]
      BY <2>2, <3>2, MountPaths
    <3>4. QED
      BY <2>2, <2>9, <3>3 DEF OnePathEach, Containers
  <2>10. PathsFit'
    <3>1. \A q \in plans' : IsPlanOf(q, v, s) \/ q \in plans
      BY <2>6 DEF AddsPlan
    <3>2. \A q \in plans' : q.for.volume \notin todo'
      BY <1>1, <3>1 DEF PathsFit, IsPlanOf
    <3>3. ASSUME NEW w \in VolumeNames, request.volumes[w] \in Secrets, pod'.volumes[w] = Memory
          PROVE  \E q \in plans' : q.for.volume = w
      <4>1. CASE w = v
        BY <2>6, <4>1 DEF AddsPlan, IsPlanOf
      <4>2. CASE w # v
        <5>1. PICK p \in plans : p.for.volume = w
          BY <1>1, <2>3, <3>3, <4>2 DEF PathsFit
        <5>2. QED
          BY <2>6, <5>1 DEF AddsPlan
      <4>3. QED
        BY <4>1, <4>2
    <3>4. ASSUME OnePathEach, NEW q \in plans', NEW c \in Containers,
                 pod'.volumes[q.for.volume] # q.for.secret,
                 request.mounts[c][q.for.volume] # None
          PROVE  request.mounts[c][q.for.volume] = q.for.path
      <4>1. CASE q \in plans
        <5>1. q.for.volume # v /\ q.for.volume \in VolumeNames
          BY <2>8, <4>1, PlanFields DEF Typed, TypeOK
        <5>2. QED
          BY <1>1, <2>3, <3>4, <4>1, <5>1 DEF PathsFit
      <4>2. CASE q \notin plans
        <5>1. q.for.volume = v /\ q.for.path = MountPath(v, s)
          BY <2>6, <2>8, <4>2 DEF AddsPlan, IsPlanOf
        <5>2. QED
          BY <2>9, <3>4, <5>1
      <4>3. QED
        BY <4>1, <4>2
    <3>5. QED
      BY <1>1, <3>2, <3>3, <3>4 DEF PathsFit, OnePathEach
  <2>11. Promises'
    <3>1. \A c \in Containers : \A ref \in request.refs[c] \ pod.refs[c] :
             Promised(c, AutoVolume[ref.secret], ref.secret)'
      BY <1>1, <2>6 DEF Promises
    <3>2. ASSUME NEW w \in VolumeNames, NEW c \in Apps,
                 request.volumes[w] # pod'.volumes[w], request.mounts[c][w] # None
          PROVE  Promised(c, w, request.volumes[w])'
      <4>1. CASE w = v
        <5>1. c \in users
          BY <2>0, <2>2, <3>2, <4>1
        <5>2. QED
          BY <1>1, <2>2, <2>6, <4>1, <5>1
      <4>2. CASE w # v
        <5>1. Promised(c, w, request.volumes[w]) /\ c \in Containers
          BY <1>1, <2>3, <3>2, <4>2 DEF Promises, Containers
        <5>2. QED
          BY <1>1, <2>6, <5>1
      <4>3. QED
        BY <4>1, <4>2
    <3>3. QED
      BY <1>1, <2>1, <3>1, <3>2 DEF Promises
  <2>12. LoadersWritten'
    BY <1>1, <2>2 DEF LoadersWritten, NoLoaders
  <2>13. QED
    BY <2>6, <2>7, <2>10, <2>11, <2>12
<1>3. CASE ~(pod.volumes[v] \in Secrets /\ IsTSecret(pod.volumes[v]))
  <2>1. UNCHANGED <<plans, pod>>
    BY <1>3 DEF CollectVolume
  <2>2. Basics' /\ PlansFit'
    BY <1>1, <2>1 DEF Basics, PlansFit, Fits, Collecting
  <2>3. PathsFit'
    BY <1>1, <2>1 DEF PathsFit, OnePathEach, Collecting
  <2>4. Promises'
    BY <1>1, <2>1 DEF Promises, Promised, Injected
  <2>5. LoadersWritten'
    BY <1>1, <2>1 DEF LoadersWritten, Written, OnePathEach
  <2>6. QED
    BY <2>2, <2>3, <2>4, <2>5
<1>4. QED
  BY <1>2, <1>3

LEMMA RefKeepsFirst ==
    ASSUME Typed, First, NEW ref \in Ref, CollectRef(ref)
    PROVE  First'
<1> SUFFICES ASSUME ~updated
             PROVE  Basics' /\ PlansFit' /\ PathsFit' /\ Promises' /\ LoadersWritten'
  BY DEF First, CollectRef
<1>1. /\ pc = "env" /\ Collecting
      /\ UNCHANGED <<request, pc, updated, at, loaders, known, changes>>
      /\ Basics /\ PlansFit /\ PathsFit /\ Promises /\ LoadersWritten
  BY DEF CollectRef, First, Collecting
<1>2. CASE IsTSecret(ref.secret)
  <2>0. PICK s, v, c0 : s = ref.secret /\ v = AutoVolume[s] /\ c0 = Order[at]
    OBVIOUS
  <2>1. /\ AddPlan(v, s, DefaultPath[s], ref.prefix, {c0})
        /\ s \in Secrets /\ v \in VolumeNames /\ DefaultPath[s] \in Paths
        /\ c0 \in Containers /\ ref.prefix \in Prefixes
        /\ pod'.refs = [pod.refs EXCEPT ![c0] = @ \ {ref}]
        /\ pod'.volumes = pod.volumes /\ pod'.mounts = pod.mounts
        /\ pod'.injectors = pod.injectors /\ pod'.sources = pod.sources
    BY <1>2, <2>0, RefCollected DEF Ref
  <2>2. /\ request.volumes[v] \in {None, s} /\ pod.refs \in [Containers -> SUBSET Ref]
        /\ loaders = NoLoaders /\ plans \subseteq Plan
        /\ \A c \in Containers : request.mounts[c][v] # None => request.volumes[v] # None
    BY <1>1, <2>0, <2>1, Submitted DEF Basics
  <2>3. Fits(v, s) /\ Fits(v, s)'
    BY <1>1, <2>0, <2>2 DEF Fits
  <2>4. /\ AddsPlan(v, s, DefaultPath[s], {c0}) /\ PlansFit'
        /\ \A c \in Containers : \A w, t : Promised(c, w, t) => Promised(c, w, t)'
        /\ Promised(c0, v, s)'
    BY <1>1, <2>1, <2>3, PlansStayFit
  <2>5. Basics'
    BY <1>1, <2>1 DEF Basics, Collecting
  <2>6. PathsFit'
    <3>1. \A w \in VolumeNames :
             request.volumes[w] \in Secrets /\ pod'.volumes[w] = Memory
             => \E q \in plans' : q.for.volume = w
      <4>1. \A p \in plans : \E q \in plans' : q.for.volume = p.for.volume
        BY <2>4 DEF AddsPlan
      <4>2. QED
        BY <1>1, <2>1, <4>1 DEF PathsFit
    <3>2. ASSUME OnePathEach, NEW q \in plans', NEW c \in Containers,
                 pod.volumes[q.for.volume] # q.for.secret,
                 request.mounts[c][q.for.volume] # None
          PROVE  request.mounts[c][q.for.volume] = q.for.path
      <4>1. CASE q \in plans
        BY <1>1, <3>2, <4>1 DEF PathsFit
      <4>2. CASE \E p \in plans : /\ IsPlanOf(p, v, s) /\ IsPlanOf(q, v, s)
                                 /\ q.for.path = p.for.path
        BY <1>1, <3>2, <4>2 DEF PathsFit, IsPlanOf
      <4>3. CASE (\A p \in plans : ~IsPlanOf(p, v, s)) /\ IsPlanOf(q, v, s)
        <5>1. request.volumes[v] = s /\ pod.volumes[v] = Memory
          BY <1>1, <2>1, <2>2, <3>2, <4>3 DEF Basics, IsPlanOf
        <5>2. PICK p \in plans : p.for.volume = v
          BY <1>1, <2>1, <5>1 DEF PathsFit
        <5>3. p.for.secret = s
          BY <1>1, <2>1, <2>2, <2>3, <5>2, FitsOne, PlanFields DEF PlansFit
        <5>4. QED
          BY <4>3, <5>2, <5>3 DEF IsPlanOf
      <4>4. QED
        BY <2>4, <4>1, <4>2, <4>3 DEF AddsPlan
    <3>3. QED
      BY <1>1, <2>1, <3>1, <3>2 DEF PathsFit, OnePathEach
  <2>7. Promises'
    <3>1. ASSUME NEW c \in Containers, NEW other \in request.refs[c] \ pod'.refs[c]
          PROVE  Promised(c, AutoVolume[other.secret], other.secret)'
      <4>1. CASE other \in pod.refs[c]
        <5>1. other = ref /\ c = c0
          BY <2>1, <2>2, <3>1, <4>1
        <5>2. QED
          BY <2>0, <2>4, <5>1
      <4>2. CASE other \notin pod.refs[c]
        BY <1>1, <2>4, <3>1, <4>2 DEF Promises
      <4>3. QED
        BY <4>1, <4>2
    <3>2. \A w \in VolumeNames, c \in Apps :
             request.volumes[w] # pod.volumes[w] /\ request.mounts[c][w] # None
             => Promised(c, w, request.volumes[w])'
      BY <1>1, <2>4 DEF Promises, Containers
    <3>3. QED
      BY <1>1, <2>1, <3>1, <3>2 DEF Promises
  <2>8. LoadersWritten'
    BY <1>1, <2>2 DEF LoadersWritten, NoLoaders
  <2>9. QED
    BY <2>4, <2>5, <2>6, <2>7, <2>8
<1>3. CASE ~IsTSecret(ref.secret)
  <2>1. UNCHANGED <<plans, pod>>
    BY <1>3 DEF CollectRef
  <2>2. Basics' /\ PlansFit'
    BY <1>1, <2>1 DEF Basics, PlansFit, Fits, Collecting
  <2>3. PathsFit'
    BY <1>1, <2>1 DEF PathsFit, OnePathEach, Collecting
  <2>4. Promises'
    BY <1>1, <2>1 DEF Promises, Promised, Injected
  <2>5. LoadersWritten'
    BY <1>1, <2>1 DEF LoadersWritten, Written, OnePathEach
  <2>6. QED
    BY <2>2, <2>3, <2>4, <2>5
<1>4. QED
  BY <1>2, <1>3

LEMMA ApplyKeepsFirst ==
    ASSUME Typed, First, NEW p \in plans, ApplyPlan(p)
    PROVE  First'
<1> SUFFICES ASSUME ~updated
             PROVE  Basics' /\ PlansFit' /\ PathsFit' /\ Promises' /\ LoadersWritten'
  BY DEF First, ApplyPlan
<1>1. /\ pc = "apply" /\ ~Collecting /\ ~Collecting' /\ plans' = plans \ {p}
      /\ UNCHANGED <<request, pc, updated, at, todo, known, changes>>
      /\ Basics /\ PlansFit /\ PathsFit /\ Promises /\ LoadersWritten
  BY DEF ApplyPlan, First, Collecting
<1>2. PICK v, s, path : v = p.for.volume /\ s = p.for.secret /\ path = p.for.path
  OBVIOUS
<1>3. /\ v \in VolumeNames /\ s \in Secrets /\ path \in Paths /\ path # None
      /\ p.users \subseteq Containers /\ plans \subseteq Plan
      /\ pod.volumes \in VolumeMap /\ pod.injectors \in Seq(Injector)
      /\ Len(pod.injectors) \in Nat /\ Memory # None
      /\ \A c \in Containers : request.mounts[c][v] # None => request.volumes[v] # None
  BY <1>1, <1>2, Submitted, PlanFields, NamesAssumption
\* The steps below speak of the pod before and after, part by part.
<1>4. PICK i, k : i = Made(p) /\ k = Len(pod.injectors) + 1
  OBVIOUS
<1>5. /\ i \in Injector /\ i.volume = v /\ i.secret = s /\ i.path = path
      /\ i.export = (p.users \cap pod.exports # {})
  BY <1>2, <1>4, PlanIsApplied DEF Made, Exports
<1>6. /\ pod'.volumes[v] = IF pod.volumes[v] = None THEN Memory ELSE pod.volumes[v]
      /\ \A w \in VolumeNames : w # v => pod'.volumes[w] = pod.volumes[w]
  BY <1>2, <1>3, PlanIsApplied DEF Applied, VolumeMap
<1>7. \A c \in Containers, w \in VolumeNames :
         pod'.mounts[c][w] = IF c \in p.users /\ w = v /\ pod.mounts[c][w] = None
                             THEN path ELSE pod.mounts[c][w]
  <2>1. \A c \in Containers, w \in VolumeNames :
           pod'.mounts[c][w] = IF c \in p.users /\ w = p.for.volume /\ pod.mounts[c][w] = None
                               THEN p.for.path ELSE pod.mounts[c][w]
    BY PlanIsApplied DEF Applied
  <2>2. QED
    BY <1>2, <2>1
<1>8. pod'.refs = pod.refs /\ pod'.sources = pod.sources
  BY PlanIsApplied DEF Applied
<1>9. \A n \in 1..Len(pod.injectors) : pod.injectors[n].volume # v /\ pod.injectors[n] \in Injector
  BY <1>1, <1>2, <1>3 DEF PlansFit
<1>10. /\ pod'.injectors = Append(pod.injectors, i) /\ Len(pod'.injectors) = k
       /\ pod'.injectors[k] = i /\ k \in 1..Len(pod'.injectors)
       /\ \A n \in 1..Len(pod.injectors) :
             n \in 1..Len(pod'.injectors) /\ pod'.injectors[n] = pod.injectors[n]
       /\ \A n \in 1..Len(pod'.injectors) : n = k \/ n \in 1..Len(pod.injectors)
  <2>1. pod'.injectors = Append(pod.injectors, i)
    BY <1>2, <1>4, <1>9, PlanIsApplied DEF Applied
  <2>2. QED
    BY <1>3, <1>4, <1>5, <2>1
<1>11. \A q \in plans' : q \in plans /\ q.for.volume # v /\ q.for.volume \in VolumeNames
  BY <1>1, <1>2, <1>3, PlanFields DEF PlansFit
<1>12. \A w \in VolumeNames : pod'.volumes[w] \in {request.volumes[w], Memory}
  BY <1>1, <1>6 DEF Basics
<1>13. Basics'
  <2>1. \A c \in Containers, w \in VolumeNames :
           request.mounts[c][w] # None => pod'.mounts[c][w] = request.mounts[c][w]
    BY <1>1, <1>7 DEF Basics
  <2>2. \A c \in Containers : loaders[c] \subseteq loaders'[c]
    BY PlanIsApplied
  <2>3. QED
    BY <1>1, <1>8, <1>12, <2>1, <2>2 DEF Basics
<1>14. \A w \in VolumeNames : \A t : Fits(w, t) => Fits(w, t)'
  BY <1>1, <1>3, <1>6 DEF Fits
<1>15. PlansFit'
  <2>1. \A q \in plans' : Fits(q.for.volume, q.for.secret)'
    BY <1>1, <1>11, <1>14 DEF PlansFit
  <2>2. ASSUME NEW n \in 1..Len(pod'.injectors)
        PROVE  Fits(pod.injectors[n].volume, pod.injectors[n].secret)'
    <3>1. CASE n = k
      <4>1. Fits(v, s)'
        BY <1>1, <1>2, <1>3, <1>14 DEF PlansFit
      <4>2. pod'.injectors[n].volume = v /\ pod'.injectors[n].secret = s
        BY <1>5, <1>10, <3>1
      <4>3. QED
        BY <4>1, <4>2 DEF Fits
    <3>2. CASE n \in 1..Len(pod.injectors)
      <4>1. PICK w, t : w = pod.injectors[n].volume /\ t = pod.injectors[n].secret
        OBVIOUS
      <4>2. Fits(w, t) /\ w \in VolumeNames
        BY <1>1, <1>9, <3>2, <4>1 DEF PlansFit, Injector
      <4>3. Fits(w, t)'
        BY <1>14, <4>2
      <4>4. pod'.injectors[n].volume = w /\ pod'.injectors[n].secret = t
        BY <1>10, <3>2, <4>1
      <4>5. QED
        BY <4>3, <4>4 DEF Fits
    <3>3. QED
      BY <1>10, <3>1, <3>2
  <2>3. \A q, r \in plans' : q.for.volume = r.for.volume => q = r
    BY <1>1, <1>11 DEF PlansFit
  <2>4. \A q \in plans', n \in 1..Len(pod'.injectors) :
           pod'.injectors[n].volume # q.for.volume
    BY <1>1, <1>5, <1>10, <1>11 DEF PlansFit
  <2>5. \A q \in plans', c \in Containers :
           pod'.mounts[c][q.for.volume] = request.mounts[c][q.for.volume]
    BY <1>1, <1>7, <1>11 DEF PlansFit
  <2>6. QED
    BY <1>1, <2>1, <2>2, <2>3, <2>4, <2>5 DEF PlansFit
<1>16. PathsFit'
  BY <1>1, <1>6, <1>11 DEF PathsFit, OnePathEach
<1>17. ASSUME NEW c \in Containers, NEW w \in VolumeNames, NEW t, Promised(c, w, t)
       PROVE  Promised(c, w, t)'
  <2>1. CASE Injected(w, t) /\ pod.mounts[c][w] # None /\ pod.volumes[w] # None
    <3>1. Injected(w, t)'
      BY <1>10, <2>1 DEF Injected
    <3>2. pod'.mounts[c][w] # None /\ pod'.volumes[w] # None
      BY <1>3, <1>6, <1>7, <2>1
    <3>3. QED
      BY <3>1, <3>2 DEF Promised
  <2>2. CASE \E q \in plans : IsPlanOf(q, w, t) /\ c \in q.users
    <3>1. PICK q \in plans : IsPlanOf(q, w, t) /\ c \in q.users
      BY <2>2
    <3>2. CASE q = p
      <4>1. w = v /\ t = s /\ c \in p.users
        BY <1>2, <3>1, <3>2 DEF IsPlanOf
      <4>2. Injected(w, t)'
        BY <1>5, <1>10, <4>1 DEF Injected
      <4>3. pod'.mounts[c][w] # None /\ pod'.volumes[w] # None
        BY <1>3, <1>6, <1>7, <4>1
      <4>4. QED
        BY <4>2, <4>3 DEF Promised
    <3>3. CASE q # p
      BY <1>1, <3>1, <3>3 DEF Promised, IsPlanOf
    <3>4. QED
      BY <3>2, <3>3
  <2>3. QED
    BY <1>17, <2>1, <2>2 DEF Promised
<1>18. Promises'
  <2>1. ASSUME NEW c \in Containers, NEW ref \in request.refs[c] \ pod.refs[c]
        PROVE  Promised(c, AutoVolume[ref.secret], ref.secret)'
    <3>1. ref.secret \in Secrets
      BY <2>1, PodFields DEF Typed, Ref
    <3>2. AutoVolume[ref.secret] \in VolumeNames
      BY <3>1, NamesAssumption
    <3>3. Promised(c, AutoVolume[ref.secret], ref.secret)
      BY <1>1, <2>1 DEF Promises
    <3>4. QED
      BY <1>17, <3>2, <3>3
  <2>2. ASSUME NEW w \in VolumeNames, NEW c \in Apps,
               request.volumes[w] # pod'.volumes[w], request.mounts[c][w] # None
        PROVE  Promised(c, w, request.volumes[w])'
    <3>1. c \in Containers
      BY DEF Containers
    <3>2. pod'.volumes[w] = pod.volumes[w]
      BY <1>1, <1>3, <1>6, <2>2, <3>1 DEF Basics
    <3>3. Promised(c, w, request.volumes[w])
      BY <1>1, <2>2, <3>2 DEF Promises
    <3>4. QED
      BY <1>1, <1>17, <3>1, <3>3
  <2>3. QED
    BY <1>1, <1>8, <2>1, <2>2 DEF Promises
<1>19. ASSUME OnePathEach, NEW c \in Containers, NEW x \in loaders'[c] PROVE Written(c, x)'
  <2>1. CASE x \in loaders[c]
    <3>1. PICK n \in 1..Len(pod.injectors) :
             /\ pod.injectors[n].export /\ pod.injectors[n].path = x
             /\ \/ pod.mounts[c][pod.injectors[n].volume] = x
                \/ pod.volumes[pod.injectors[n].volume] = pod.injectors[n].secret
      BY <1>1, <1>19, <2>1 DEF LoadersWritten, Written
    <3>2. PICK w : w = pod.injectors[n].volume
      OBVIOUS
    <3>3. w \in VolumeNames /\ w # v
      BY <1>9, <3>2 DEF Injector
    <3>4. pod'.mounts[c][w] = pod.mounts[c][w] /\ pod'.volumes[w] = pod.volumes[w]
      BY <1>6, <1>7, <3>3
    <3>5. n \in 1..Len(pod'.injectors) /\ pod'.injectors[n] = pod.injectors[n]
      BY <1>10
    <3>6. QED
      BY <3>1, <3>2, <3>4, <3>5 DEF Written
  <2>2. CASE x \notin loaders[c]
    <3>1. x = path /\ c \in p.users \cap pod.exports
      BY <1>2, <1>19, <2>2, PlanIsApplied
    <3>2. pod'.mounts[c][v] = path \/ pod'.volumes[v] = s
      <4>1. CASE pod.volumes[v] = s
        BY <1>3, <1>6, <4>1, NamesAssumption
      <4>2. CASE pod.volumes[v] # s /\ request.mounts[c][v] # None
        <5>1. request.mounts[c][v] = path
          BY <1>1, <1>2, <1>19, <4>2 DEF PathsFit
        <5>2. QED
          BY <1>1, <1>3, <1>7, <4>2, <5>1 DEF Basics
      <4>3. CASE request.mounts[c][v] = None
        BY <1>1, <1>2, <1>3, <1>7, <3>1, <4>3 DEF PlansFit
      <4>4. QED
        BY <4>1, <4>2, <4>3
    <3>3. i.export
      BY <1>5, <3>1
    <3>4. QED
      BY <1>5, <1>10, <3>1, <3>2, <3>3 DEF Written
  <2>3. QED
    BY <2>1, <2>2
<1>20. LoadersWritten'
  BY <1>1, <1>19 DEF LoadersWritten, OnePathEach
<1>21. QED
  BY <1>13, <1>15, <1>16, <1>18, <1>20

LEMMA RestKeepsFirst ==
    ASSUME Typed, First,
           \/ NextContainer \/ Wrap \/ Update
           \/ \E s \in Secrets : CacheChanges(s)
           \/ UNCHANGED vars
    PROVE  First'
<1>1. CASE Update
  BY <1>1 DEF Update, First
<1>2. CASE ~Update
  <2> SUFFICES ASSUME ~updated
               PROVE  Basics' /\ PlansFit' /\ PathsFit' /\ Promises' /\ LoadersWritten'
    BY <1>2 DEF First, NextContainer, Wrap, CacheChanges, vars
  <2>1. Basics /\ PlansFit /\ PathsFit /\ Promises /\ LoadersWritten
    BY DEF First
  <2>2. /\ UNCHANGED <<request, plans, loaders>>
        /\ pod'.volumes = pod.volumes /\ pod'.mounts = pod.mounts /\ pod'.refs = pod.refs
        /\ pod'.injectors = pod.injectors
        /\ Collecting' => Collecting
        /\ pc' = "volumes" => pc = "volumes" /\ todo' = todo
        /\ pc' \in {"allowed", "denied"} => plans = {}
        /\ \A c \in Containers : pod'.sources[c] \subseteq loaders[c]
    <3>1. CASE Wrap
      <4>1. /\ pod'.volumes = pod.volumes /\ pod'.mounts = pod.mounts
            /\ pod'.refs = pod.refs /\ pod'.injectors = pod.injectors
            /\ pc' \in {"allowed", "denied"}
            /\ \A c \in Containers : pod'.sources[c] \in {pod.sources[c], loaders[c]}
        BY <3>1, Wrapped
      <4>2. UNCHANGED <<request, plans, loaders>> /\ plans = {}
        BY <3>1 DEF Wrap
      <4>3. \A c \in Containers : pod'.sources[c] \subseteq loaders[c]
        BY <2>1, <4>1 DEF Basics
      <4>4. QED
        BY <4>1, <4>2, <4>3 DEF Collecting
    <3>2. CASE NextContainer
      BY <2>1, <3>2 DEF NextContainer, Enter, Collecting, Basics
    <3>3. CASE (\E s \in Secrets : CacheChanges(s)) \/ UNCHANGED vars
      BY <2>1, <3>3 DEF CacheChanges, vars, Collecting, Basics
    <3>4. QED
      BY <1>2, <3>1, <3>2, <3>3
  <2>3. Basics' /\ PlansFit'
    BY <2>1, <2>2 DEF Basics, PlansFit, Fits
  <2>4. PathsFit'
    BY <2>1, <2>2 DEF PathsFit, OnePathEach
  <2>5. Promises'
    BY <2>1, <2>2 DEF Promises, Promised, Injected
  <2>6. LoadersWritten'
    BY <2>1, <2>2 DEF LoadersWritten, Written, OnePathEach
  <2>7. QED
    BY <2>3, <2>4, <2>5, <2>6
<1>3. QED
  BY <1>1, <1>2

LEMMA NextFirst == Typed /\ First /\ [Next]_vars => First'
BY VolumeKeepsFirst, RefKeepsFirst, ApplyKeepsFirst, RestKeepsFirst DEF Next

IInv == Typed /\ First

LEMMA IInvHolds == Spec => []IInv
<1>1. Init => IInv
  BY InitTyped, InitFirst DEF IInv
<1>2. IInv /\ [Next]_vars => IInv'
  BY NextTyped, NextFirst DEF IInv
<1>3. QED
  BY <1>1, <1>2, PTL DEF Spec

\* An admitted pod has lost no reference: Promises carries each one from the
\* list it was taken from, over its plan, to the init container and the mount
\* that replace it (mutate.go:161-217, 75-107).
THEOREM ReferencesAreKept == Spec => []NothingLost
<1>1. ASSUME IInv, pc = "allowed", ~updated
      PROVE  /\ \A c \in Containers : \A ref \in request.refs[c] \ pod.refs[c] :
                    Provided(c, ref.secret) \/ Overtaken(ref.secret)
             /\ \A v \in VolumeNames, c \in Apps :
                    request.volumes[v] # pod.volumes[v] /\ request.mounts[c][v] # None
                    => Provided(c, request.volumes[v])
  <2>1. /\ Typed /\ Basics /\ PlansFit /\ Promises /\ plans = {}
    BY <1>1 DEF IInv, First, Basics
  <2>2. ASSUME NEW c \in Containers, NEW v, NEW s, Promised(c, v, s), pod.volumes[v] = Memory
        PROVE  Provided(c, s)
    BY <2>1, <2>2 DEF Promised, Injected, Provided, Injectors
  <2>3. ASSUME NEW c \in Containers, NEW ref \in request.refs[c] \ pod.refs[c]
        PROVE  Provided(c, ref.secret) \/ Overtaken(ref.secret)
    <3>1. PICK s, v : s = ref.secret /\ v = AutoVolume[s]
      OBVIOUS
    <3>2. s \in Secrets
      BY <2>1, <2>3, <3>1, PodFields DEF Typed, Ref
    <3>3. v \in VolumeNames
      BY <3>1, <3>2, NamesAssumption
    <3>4. Promised(c, v, s) /\ pod.volumes[v] # None
      BY <2>1, <2>3, <3>1 DEF Promises, Promised
    <3>5. pod.volumes[v] \in {s, Memory}
      BY <2>1, <3>1, <3>2, <3>3, <3>4, Submitted DEF Basics
    <3>6. QED
      BY <2>2, <3>1, <3>4, <3>5 DEF Overtaken
  <2>4. ASSUME NEW v \in VolumeNames, NEW c \in Apps,
               request.volumes[v] # pod.volumes[v], request.mounts[c][v] # None
        PROVE  Provided(c, request.volumes[v])
    <3>1. Promised(c, v, request.volumes[v]) /\ pod.volumes[v] = Memory /\ c \in Containers
      BY <2>1, <2>4 DEF Promises, Basics, Containers
    <3>2. QED
      BY <2>2, <3>1
  <2>5. QED
    BY <2>3, <2>4
<1>2. IInv => NothingLost
  BY <1>1 DEF NothingLost
<1>3. QED
  BY IInvHolds, <1>2, PTL

\* Each load-env.sh that a wrapped container sources is one that an init
\* container was told to write where that container mounts it: PathsFit says
\* that a plan has the path of the mounts that are there, LoadersWritten that
\* the init container was made with --export-env and that path
\* (mutate.go:75-105, 173-195).
THEOREM SourcedLoadersExist == Spec => []LoadersFit
<1>1. ASSUME IInv, pc = "allowed", ~updated, OnePathEach, \A s \in Secrets : ~Overtaken(s),
             NEW c \in Containers, NEW path \in pod.sources[c]
      PROVE  HasLoader(c, path)
  <2>1. /\ Typed /\ Basics /\ PlansFit /\ LoadersWritten /\ pod.injectors \in Seq(Injector)
    BY <1>1, Submitted DEF IInv, First
  <2>2. Written(c, path)
    BY <1>1, <2>1 DEF Basics, LoadersWritten
  <2>3. PICK n \in 1..Len(pod.injectors) :
           /\ pod.injectors[n].export /\ pod.injectors[n].path = path
           /\ \/ pod.mounts[c][pod.injectors[n].volume] = path
              \/ pod.volumes[pod.injectors[n].volume] = pod.injectors[n].secret
    BY <2>2 DEF Written
  <2>4. PICK v, s : v = pod.injectors[n].volume /\ s = pod.injectors[n].secret
    OBVIOUS
  <2>5. s \in Secrets /\ Fits(v, s)
    <3>1. pod.injectors[n] \in Injector
      BY <2>1
    <3>2. QED
      BY <2>1, <2>4, <3>1 DEF PlansFit, Injector
  <2>6. pod.volumes[v] # s
    BY <1>1, <2>5, NamesAssumption DEF Fits, Overtaken
  <2>7. QED
    BY <2>3, <2>4, <2>6 DEF HasLoader, Injectors
<1>2. IInv => LoadersFit
  BY <1>1 DEF LoadersFit
<1>3. QED
  BY IInvHolds, <1>2, PTL

-----------------------------------------------------------------------------
(* Each volume is filled, and by one init container.                       *)

\* A memory volume has a plan until it has its init container, no two init
\* containers have one volume, and what each is given is its secret's volume.
Filling ==
    /\ \A v \in VolumeNames : pod.volumes[v] # request.volumes[v] =>
          \/ \E p \in plans : p.for.volume = v
          \/ \E n \in 1..Len(pod.injectors) : pod.injectors[n].volume = v
    /\ \A m, n \in 1..Len(pod.injectors) :
          pod.injectors[m].volume = pod.injectors[n].volume => m = n
    /\ \A n \in 1..Len(pod.injectors) :
          pod.volumes[pod.injectors[n].volume] \in {Memory, pod.injectors[n].secret}

FirstFilling == ~updated => Filling

LEMMA InitFilling == Init => FirstFilling
<1> SUFFICES ASSUME Init PROVE Filling
  BY DEF FirstFilling
<1>1. pod = request /\ pod.injectors = <<>> /\ Len(pod.injectors) = 0
  BY RequestsAssumption DEF Init
<1>2. QED
  BY <1>1 DEF Filling

\* What is collected has a plan, and the plans that were there stay.
LEMMA CollectedFilling ==
    ASSUME Typed, Basics, Filling, Collecting,
           NEW v \in VolumeNames, NEW s \in Secrets, NEW path \in Paths,
           NEW prefix \in Prefixes, NEW users \in SUBSET Containers,
           AddPlan(v, s, path, prefix, users),
           pod'.injectors = pod.injectors, request' = request,
           \A w \in VolumeNames : w # v => pod'.volumes[w] = pod.volumes[w]
    PROVE  Filling'
<1>1. plans \subseteq Plan /\ pod.injectors = <<>> /\ Len(pod.injectors) = 0
  BY Submitted DEF Basics
<1>2. AddsPlan(v, s, path, users)
  BY <1>1, PlanAdded
<1>3. /\ \A p \in plans : \E q \in plans' : q.for.volume = p.for.volume
      /\ \E q \in plans' : q.for.volume = v
  BY <1>2 DEF AddsPlan, IsPlanOf
<1>4. ASSUME NEW w \in VolumeNames, pod'.volumes[w] # request.volumes[w]
      PROVE  \E q \in plans' : q.for.volume = w
  <2>1. CASE w = v
    BY <1>3, <2>1
  <2>2. CASE w # v
    <3>1. \E p \in plans : p.for.volume = w
      BY <1>1, <1>4, <2>2 DEF Filling
    <3>2. QED
      BY <1>3, <3>1
  <2>3. QED
    BY <2>1, <2>2
<1>5. QED
  BY <1>1, <1>4 DEF Filling

LEMMA VolumeKeepsFilling ==
    ASSUME Typed, First, FirstFilling, NEW v \in VolumeNames, CollectVolume(v)
    PROVE  FirstFilling'
<1> SUFFICES ASSUME ~updated PROVE Filling'
  BY DEF FirstFilling, CollectVolume
<1>1. UNCHANGED request /\ Collecting /\ Basics /\ Filling /\ pod \in Pod
  BY DEF CollectVolume, Collecting, First, FirstFilling, Typed, TypeOK
<1>2. CASE pod.volumes[v] \in Secrets /\ IsTSecret(pod.volumes[v])
  <2>0. PICK s, users : s = pod.volumes[v] /\ users = {c \in Apps : pod.mounts[c][v] # None}
    OBVIOUS
  <2>1. /\ AddPlan(v, s, MountPath(v, s), NoPrefix, users)
        /\ MountPath(v, s) \in Paths /\ users \in SUBSET Containers
        /\ pod'.volumes = [pod.volumes EXCEPT ![v] = Memory]
        /\ pod'.injectors = pod.injectors
    BY <1>2, <2>0, VolumeCollected
  <2>2. pod.volumes \in VolumeMap /\ NoPrefix \in Prefixes /\ s \in Secrets
    BY <1>1, <1>2, <2>0, PodFields, NamesAssumption
  <2>3. \A w \in VolumeNames : w # v => pod'.volumes[w] = pod.volumes[w]
    BY <2>1, <2>2 DEF VolumeMap
  <2>4. QED
    BY <1>1, <2>1, <2>2, <2>3, CollectedFilling
<1>3. CASE UNCHANGED <<plans, pod>>
  BY <1>1, <1>3 DEF Filling
<1>4. QED
  BY <1>2, <1>3 DEF CollectVolume

LEMMA RefKeepsFilling ==
    ASSUME Typed, First, FirstFilling, NEW ref \in Ref, CollectRef(ref)
    PROVE  FirstFilling'
<1> SUFFICES ASSUME ~updated PROVE Filling'
  BY DEF FirstFilling, CollectRef
<1>1. UNCHANGED request /\ Collecting /\ Basics /\ Filling
  BY DEF CollectRef, Collecting, First, FirstFilling
<1>2. CASE IsTSecret(ref.secret)
  <2>0. PICK s, v, c0 : s = ref.secret /\ v = AutoVolume[s] /\ c0 = Order[at]
    OBVIOUS
  <2>1. /\ AddPlan(v, s, DefaultPath[s], ref.prefix, {c0})
        /\ s \in Secrets /\ v \in VolumeNames /\ DefaultPath[s] \in Paths
        /\ c0 \in Containers /\ ref.prefix \in Prefixes
        /\ pod'.volumes = pod.volumes /\ pod'.injectors = pod.injectors
    BY <1>2, <2>0, RefCollected DEF Ref
  <2>2. {c0} \in SUBSET Containers
    BY <2>1
  <2>3. \A w \in VolumeNames : w # v => pod'.volumes[w] = pod.volumes[w]
    BY <2>1
  <2>4. QED
    BY <1>1, <2>1, <2>2, <2>3, CollectedFilling
<1>3. CASE UNCHANGED <<plans, pod>>
  BY <1>1, <1>3 DEF Filling
<1>4. QED
  BY <1>2, <1>3 DEF CollectRef

\* The plan of a volume turns into its init container: by PlansFit there was
\* none for it, and the volume is its secret's or holds memory.
LEMMA ApplyKeepsFilling ==
    ASSUME Typed, First, FirstFilling, NEW p \in plans, ApplyPlan(p)
    PROVE  FirstFilling'
<1> SUFFICES ASSUME ~updated PROVE Filling'
  BY DEF FirstFilling, ApplyPlan
<1>1. /\ plans' = plans \ {p} /\ UNCHANGED request
      /\ Basics /\ PlansFit /\ Filling
  BY DEF ApplyPlan, First, FirstFilling
<1>2. PICK v, s : v = p.for.volume /\ s = p.for.secret
  OBVIOUS
<1>3. /\ v \in VolumeNames /\ s \in Secrets /\ plans \subseteq Plan
      /\ pod.volumes \in VolumeMap /\ pod.injectors \in Seq(Injector)
      /\ Len(pod.injectors) \in Nat /\ Memory # None
  BY <1>1, <1>2, Submitted, PlanFields, NamesAssumption
<1>4. PICK i, k : i = Made(p) /\ k = Len(pod.injectors) + 1
  OBVIOUS
<1>5. i \in Injector /\ i.volume = v /\ i.secret = s
  BY <1>2, <1>4, PlanIsApplied DEF Made
<1>6. /\ pod'.volumes[v] = IF pod.volumes[v] = None THEN Memory ELSE pod.volumes[v]
      /\ \A w \in VolumeNames : w # v => pod'.volumes[w] = pod.volumes[w]
  <2>1. pod'.volumes = [pod.volumes EXCEPT ![p.for.volume] = IF @ = None THEN Memory ELSE @]
    BY PlanIsApplied DEF Applied
  <2>2. QED
    BY <1>2, <1>3, <2>1 DEF VolumeMap
<1>7. \A n \in 1..Len(pod.injectors) : pod.injectors[n].volume # v /\ pod.injectors[n] \in Injector
  BY <1>1, <1>2, <1>3 DEF PlansFit
<1>8. /\ pod'.injectors[k] = i /\ k \in 1..Len(pod'.injectors)
      /\ \A n \in 1..Len(pod.injectors) :
            n \in 1..Len(pod'.injectors) /\ pod'.injectors[n] = pod.injectors[n]
      /\ \A n \in 1..Len(pod'.injectors) : n = k \/ n \in 1..Len(pod.injectors)
  <2>1. pod'.injectors = Append(pod.injectors, i)
    BY <1>2, <1>4, <1>7, PlanIsApplied DEF Applied
  <2>2. QED
    BY <1>3, <1>4, <1>5, <2>1
<1>9. ASSUME NEW w \in VolumeNames, pod'.volumes[w] # request.volumes[w]
      PROVE  \/ \E q \in plans' : q.for.volume = w
             \/ \E n \in 1..Len(pod'.injectors) : pod'.injectors[n].volume = w
  <2>1. CASE w = v
    BY <1>5, <1>8, <2>1
  <2>2. CASE w # v
    <3>1. \/ \E q \in plans : q.for.volume = w
          \/ \E n \in 1..Len(pod.injectors) : pod.injectors[n].volume = w
      BY <1>1, <1>6, <1>9, <2>2 DEF Filling
    <3>2. QED
      BY <1>1, <1>2, <1>8, <2>2, <3>1
  <2>3. QED
    BY <2>1, <2>2
<1>10. ASSUME NEW m \in 1..Len(pod'.injectors), NEW n \in 1..Len(pod'.injectors),
             pod'.injectors[m].volume = pod'.injectors[n].volume
      PROVE  m = n
  <2>1. CASE m \in 1..Len(pod.injectors) /\ n \in 1..Len(pod.injectors)
    BY <1>1, <1>8, <1>10, <2>1 DEF Filling
  <2>2. CASE m = k \/ n = k
    BY <1>5, <1>7, <1>8, <1>10, <2>2
  <2>3. QED
    BY <1>8, <2>1, <2>2
<1>11. ASSUME NEW n \in 1..Len(pod'.injectors)
       PROVE  pod'.volumes[pod'.injectors[n].volume] \in {Memory, pod'.injectors[n].secret}
  <2>1. CASE n = k
    <3>1. Fits(v, s)
      BY <1>1, <1>2 DEF PlansFit
    <3>2. pod.volumes[v] \in {None, s, Memory}
      BY <1>1, <1>3, <3>1 DEF Fits, Basics
    <3>3. QED
      BY <1>5, <1>6, <1>8, <2>1, <3>2
  <2>2. CASE n \in 1..Len(pod.injectors)
    <3>1. PICK j : j = pod.injectors[n]
      OBVIOUS
    <3>2. j.volume # v /\ j.volume \in VolumeNames /\ pod'.injectors[n] = j
      BY <1>7, <1>8, <2>2, <3>1 DEF Injector
    <3>3. pod.volumes[j.volume] \in {Memory, j.secret}
      BY <1>1, <2>2, <3>1 DEF Filling
    <3>4. QED
      BY <1>6, <3>2, <3>3
  <2>3. QED
    BY <1>8, <2>1, <2>2
<1>12. QED
  BY <1>1, <1>9, <1>10, <1>11 DEF Filling

LEMMA RestKeepsFilling ==
    ASSUME Typed, FirstFilling,
           \/ NextContainer \/ Wrap \/ Update
           \/ \E s \in Secrets : CacheChanges(s)
           \/ UNCHANGED vars
    PROVE  FirstFilling'
<1>1. CASE Update
  BY <1>1 DEF Update, FirstFilling
<1>2. CASE ~Update
  <2>1. /\ UNCHANGED <<request, plans, updated>>
        /\ pod'.volumes = pod.volumes /\ pod'.injectors = pod.injectors
    <3>1. CASE Wrap
      <4>1. pod'.volumes = pod.volumes /\ pod'.injectors = pod.injectors
        BY <3>1, Wrapped
      <4>2. QED
        BY <3>1, <4>1 DEF Wrap
    <3>2. CASE NextContainer \/ (\E s \in Secrets : CacheChanges(s)) \/ UNCHANGED vars
      BY <3>2 DEF NextContainer, CacheChanges, vars
    <3>3. QED
      BY <1>2, <3>1, <3>2
  <2>2. QED
    BY <2>1 DEF FirstFilling, Filling
<1>3. QED
  BY <1>1, <1>2

LEMMA NextFilling == IInv /\ FirstFilling /\ [Next]_vars => FirstFilling'
BY VolumeKeepsFilling, RefKeepsFilling, ApplyKeepsFilling, RestKeepsFilling DEF IInv, Next

\* Every volume that Handle makes a memory volume is filled, by one init
\* container and no more, with the TSecret whose volume it was: when the plans
\* are gone, Filling leaves the init container, and PlansFit says for which
\* secret it is (mutate.go:161-217, 236-243, 293-345).
THEOREM VolumesAreFilledOnce == Spec => []FilledOnce
<1>1. ASSUME IInv, Filling, pc = "allowed", ~updated,
             NEW v \in VolumeNames, pod.volumes[v] # request.volumes[v]
      PROVE  \E n \in 1..Len(pod.injectors) :
                /\ pod.injectors[n].volume = v
                /\ request.volumes[v] \in {None, pod.injectors[n].secret}
  <2>1. /\ plans = {} /\ PlansFit
    BY <1>1 DEF IInv, First, Basics
  <2>2. PICK n \in 1..Len(pod.injectors) : pod.injectors[n].volume = v
    BY <1>1, <2>1 DEF Filling
  <2>3. Fits(v, pod.injectors[n].secret)
    BY <2>1, <2>2 DEF PlansFit
  <2>4. QED
    BY <2>2, <2>3 DEF Fits
<1>2. IInv /\ FirstFilling => FilledOnce
  <2> SUFFICES ASSUME IInv, FirstFilling, pc = "allowed", ~updated
               PROVE  /\ \A v \in VolumeNames : pod.volumes[v] # request.volumes[v] =>
                            \E n \in 1..Len(pod.injectors) :
                               /\ pod.injectors[n].volume = v
                               /\ request.volumes[v] \in {None, pod.injectors[n].secret}
                      /\ \A m, n \in 1..Len(pod.injectors) :
                            pod.injectors[m].volume = pod.injectors[n].volume => m = n
                      /\ \A i \in Injectors : pod.volumes[i.volume] \in {Memory, i.secret}
    BY DEF FilledOnce
  <2>1. Filling
    BY DEF FirstFilling
  <2>2. \A i \in Injectors : pod.volumes[i.volume] \in {Memory, i.secret}
    BY <2>1 DEF Filling, Injectors
  <2>3. \A m, n \in 1..Len(pod.injectors) :
           pod.injectors[m].volume = pod.injectors[n].volume => m = n
    BY <2>1 DEF Filling
  <2>4. QED
    BY <1>1, <2>1, <2>2, <2>3
<1>3. QED
  BY <1>2, IInvHolds, InitFilling, NextFilling, PTL DEF Spec
=============================================================================
