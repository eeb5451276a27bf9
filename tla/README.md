# TSecret in TLA+

TSecret keeps secrets in a Kubernetes cluster as ciphertext. A vault's secrets
are pulled and sealed into `TSecret` objects; a mutating webhook gives each pod
that refers to one a memory volume and an init container; the init container
decrypts the `TSecret` into files on that volume. This directory holds TLA+
modules of the parts where order, failure and concurrency decide, the TLC
configurations that check them on small instances, and proofs of the main
results for every value of the constants.

Paths are relative to `src/`. Run everything from this directory:

    tlc -workers 2 -config SyncLeader.cfg MCSyncController
    tlapm SyncControllerProofs.tla

## 1. Inventory

| Component | State it keeps | Operations |
|---|---|---|
| TSecretSync controller, `pkg/controller/sync_controller.go` | nothing of its own: the `TSecretSync` status and the target `TSecret` in the API server; informer caches, a workqueue and timers per process | `Reconcile`: read, resolve store, pull and seal each item, get target, create or update it, write status, requeue |
| TSecret controller, `pkg/controller/tsecret_controller.go` | condition `Ready` of each `TSecret` | `Reconcile`: validate every entry, write the status, requeue after 5 minutes |
| TSecretStore controller, `pkg/controller/store_controller.go` | `status.status` of each `TSecretStore` | `Reconcile`: make a provider, health check, write the status, requeue after 60 s |
| Key resolver, `pkg/webhook/keyresolver.go` | none | `ResolveKey`: from a Secret, or unwrapped by Vault Transit |
| Mutating webhook, `pkg/webhook/mutate.go` | none between requests | `Handle`: collect the references, plan, apply the plans, wrap containers |
| Inject init container, `cmd/inject`, `pkg/inject/writer.go` | the files on the pod's volume | `Write`, `WriteEnvLoader` |
| Webhook certificates, `pkg/certs/certs.go`, `config/deploy/bootstrap-webhook-certs.sh` | Secrets `tsecret-ca`, `tsecret-webhook-certs`; `caBundle` of the webhook configuration | `EnsureCerts`: `ensureCA`, `ensureServingCert`, `patchWebhookCABundle`; the script does the same from outside |
| Operator manager, `cmd/manager/main.go` | the lease, if `--leader-elect` | starts the controllers, the webhook server and `EnsureCerts` |
| Crypto, `pkg/crypto` | none | `Encrypt`, `Decrypt`, `IsValidEncryptedValue` |
| Providers, `pkg/providers` | none | `GetSecret`, `HealthCheck`, `TransitDecrypt` over HTTP |
| Encrypt CLI, `cmd/encrypt` | none | one-shot filter |

They never call each other across processes. Everything goes through objects in
the API server, which each process reads from caches that lag and writes with
optimistic concurrency; and, in the pod, through files on a volume.

What is hard, and what makes each part correct:

* **TSecretSync**: a reconcile is many remote calls on data that was read from
  a cache; it can be overtaken by an edit, a key rotation, another replica or a
  crash. Right is: the target is always the whole of one generation; the status
  claims only what was stored; neither goes back; both converge.
* **Inject**: a container that is killed leaves its files for the next run.
  Right is: exit 0 means complete, and the loader never names what is not there.
* **Certificates**: processes start together and each may create the CA. Right
  is: the API server's bundle verifies the serving certificate.
* **Webhook**: one request asks the cache many times and applies its plans in
  random order. Right is: no reference is taken away without a replacement.
* **Status of stores and TSecrets**: a verdict is reached from a cached object
  and a probe of up to 30 s, and its update may conflict. Right is: it is only
  stored beside the spec it is about; it comes to what the vault and the spec
  are; what is Ready stops the injector only by its key or by tampering; a usable
  store is not shut out.

`PROJECT.json` lists the hazards of the code one by one at their lines, with the
properties that cover them and why some have none yet.

## 2. Modules

| | Module | Models | State |
|---|---|---|---|
| 1 | `SyncController`, `SyncControllerProofs` | the TSecretSync controller in its cluster | done |
| 2 | `Inject`, `InjectProofs` | the init container of a pod | done |
| 3 | `CertManager`, `CertManagerProofs` | certificates at the start of the operator | done |
| 4 | `PodMutate`, `PodMutateProofs` | the admission of a new pod, and of an update of it | done |
| 5 | `SecretMirror`, `SyncLeaderProofs` | abstract: what a TSecretSync promises; `SyncController` implements it (`Mirror`, `ImplementsMirror`) | done |
| 6 | `Providers` | the five clients of external vaults, as functions | done |
| 7 | `SecretData` | key resolution, wire format, cipher, encrypt CLI, as functions | done |
| 8 | `SecretVolume` | abstract: what an injected volume promises its pod; `Inject` implements it (`Volume`, `ImplementsVolume`) | done |
| 9 | `TrustChain` | abstract: what the operator promises of the webhook's certificates; `CertManager` implements it (`Chain`, `ImplementsTrustChain`) | done |
| 10 | `ObjectStatus`, `ObjectStatusProofs` | the TSecretStore and TSecret controllers, and the sync or injector that uses what they judge; uses 6 and 7 | done |

What could be added: two `TSecretSync`s that share a target, and the composition
of one sync with the injector of a pod (each module has the other's effect as an
action of its surroundings: `WriteTSecret` and `RotateKey` in `Inject`).

`MC*` modules only give names and constant definitions to TLC.

### SyncController

One `TSecretSync`, its target, the vault, the keys, and `Replicas` processes.

| Code | Module |
|---|---|
| `r.Get` of the sync, `resolveStore`, `NewProvider`, `ConfigureVaultAuth` (34-61) | `BeginNotFound`, `Begin` |
| the loop over `spec.Data` (66-92), an iteration each | `SealItem` |
| `r.Get` of the target (101) | `GetTarget` |
| `r.Create` / `r.Update` (102-130) | `Write`, with `Accepts` for the API server's answer and `Store` for what it stores |
| any error, `setSyncStatus("SyncFailed")` | `Fail`, then `Report` |
| `setSyncStatus`, `RequeueAfter` (132-148, 185-207) | `Report`, `RequeueAfter` |
| `SetupWithManager` (209-214): events without a predicate | `CacheSync` |
| informers of `TSecret` and `Secret`, the delaying queue | `CacheTarget`, `CacheKey`, `TimerFires` |
| leader election, start, death of a process | `MayLead`, `Start`, `Crash` |
| users, the vault, the TSecret controller's status write | `EditSpec`, `DeleteSync`, `DeleteTarget`, `RemoteChange`, `RotateKey`, `TouchTarget` |

A resourceVersion is only ever compared for equality with the stored one, so it
is kept as the set of copies that still have it: `syncCopyFresh` are the
replicas whose reconcile began with the stored version, and so on; a write
empties the sets. A ciphertext is what it was made from. `persisted` is a
history variable.

Abstractions: an informer that catches up skips versions in between, which is
the same as delivering them before the next write, since nothing reads them; a
starting informer's list is current; a deleted `TSecretSync` is not created
again; `spec.target.name` does not change; a leader that loses its lease has no
request left on the wire when the next one starts (`LeaderElect = FALSE` is the
system without that, and the proofs of `SyncControllerProofs` cover it); the TSecret controller writes once
after each write of the spec (its repetition every 5 minutes only makes more
conflicts, which `Write` can also meet as faults); a status update that says the
same within the same second is stored as no change.

### SecretMirror

The promise without the means: a wish with a generation, a source, keys, and one
copy. `Copy` replaces it by the whole of one generation, made of nothing newer
than source and keys are; `Acknowledge` names a generation that was copied.
Where `Ordered`, the copy and its entries never go back and are never behind
what was acknowledged. `SyncController` maps its variables to it in `Mirror`:
the wish is the stored spec, the copy the stored target, what is acknowledged
`status.syncedGeneration`; queues, caches, reconciles in flight and faults map
to nothing. A reconcile of many remote calls is thus shown to look like one step
from outside, whatever is lost, repeated or overtaken.

### Inject

`run` is the container's process, `files` its volume. `GetTSecret`,
`ResolveKey`, `OpenFile`, `FillFile`, `Finish`, `OpenLoader` and `FillLoader`
are `writer.go:33-85` in order; `os.WriteFile` is two steps, the open that
creates an empty file and the write, because a kill can come in between. A file
that is there cannot be opened for writing, since its mode is 0400 or 0500 and
the container is neither root nor has capabilities (`mutate.go:315-322`).
`Start`, `Kill`, `SandboxLost` and `ReplacePod` are the kubelet's. `WriteTSecret`
lets entries of one `TSecret` be sealed under different versions of the key,
which `SyncController` shows to be possible.

The volume never fails by itself. Constants assume that keys have distinct files
and that none is called `load-env.sh`: `prefix + key` is injective, and a key
that would make the loader's own name is not modelled.

### SecretVolume

The promise without keys, errors and exit codes. An attempt takes one version of
the TSecret as a whole (`Take`), makes each of its files by an `Open` and a fill,
and the loader after all it names; the pod is let go with the loader, or without
one when it wants none. An attempt may be given up at any time (`GiveUp`) and
leaves what it wrote; a path where there is a file is never opened again, so what
is whole stays as it is until the pod is replaced. `Inject` maps to it `Secret`
(plaintexts, whichever key seals them), `Taken` (the version in the hands of a
run), `Writing` (what is open) and `run.pc = "done"`; failures and kills map to
`GiveUp`, rotations to nothing.

### CertManager

Every process runs `EnsureCerts` once, call by call: `EnsureCA`, `CreateCA`,
`EnsureServingCert`, `ReadServing`, `StoreServing`, `ReadConfig`,
`UpdateConfig`. Reads come from a cache that follows the history of writes
(`secrets`, `configs`) one event at a time. An error ends the process (`Exit`)
and Kubernetes starts it again. The script's steps are `ScriptBegins` to
`ScriptConfig`; it may be run before the operator and, as one of the losses,
again beside it. Time passes in ticks.

The module has no leader election: with it, the runs are some of those it has.
Left out: the start of the webhook server and the mount of its certificate files
(on a first Helm installation they appear later), the deletion of the serving
Secret, a configuration that is replaced or loses its bundle, the CA's own
expiry. The operator is taken to be allowed what it calls; only faults, which are
bounded, refuse it. For the webhook configuration that is so with the chart's role
(`charts/tsecret/templates/rbac.yaml:40-43`); `config/deploy/rbac.yaml` has no
rule for `admissionregistration.k8s.io`: an operator deployed with it gets no
further than that call. `EventuallyTrusted` is not about such an operator,
`ReadyMeansTrusted` says nothing of it, and the bundle is then up to the script.

### TrustChain

The stored CA, the CAs that were ever stored, the signer of the stored
certificate, the CA the API server trusts, and whether the CA was `taken` away
(deleted, or a second bootstrap begun). `Establish` stores a CA, only once unless
it was taken away; `Sign` and `Trust` use CAs that were stored and, while nothing
is taken, the one there is and the one that signed. Nothing clears a certificate
or a bundle. `CertManager` maps the last entries of its two histories to it in
`Chain`; caches, processes, the clock and faults map to nothing.

### PodMutate

`Handle` on one pod: `CollectVolume` is an iteration over the volumes,
`NextContainer` and `CollectRef` those over containers and their `envFrom` and
`env`, `ApplyPlan` one over the map of plans, `Wrap` the loop over
`exportPlans` and the response. `Update` is the second request: the webhook is
registered for updates of pods too, and what it sees is the pod it answered with,
`alreadyWrapped` containers and its own init containers included. The order of
volumes and of entries within a container is left open; that of containers, which decides prefixes and mount
paths, is the code's. `CacheChanges` changes the informer cache between any two
questions.

Left out: fsGroup, decoding errors, the quoting of the wrapped command, several
mounts of one volume in one container, and a submitted pod whose arguments name
a `load-env.sh` already. An update changes nothing that `Handle` looks at. A volume of the user's that has an automatic name (`tsecret-s`) is
for the Secret `s`.

### Providers and SecretData

Operators, no state. What a call returns is a function of its arguments and of a
record `w`, the world: what the vault's service answers and lets the operator's
token do, the cloud identity at hand, the secrets in the vault, the Kubernetes
Secrets and the stores (top of `Providers`). A result is `Ok(x)` or `Err`.

| Code | Operators |
|---|---|
| `providers/factory.go`, the constructors | `NewProvider` |
| `ConfigureVaultAuth`, `ensureToken` of Azure and GCP, signing of AWS and Oracle | `ConfigureVaultAuth`, `AzureEnsureToken`, `GCPEnsureToken`, `AWSSignRequest`, `OracleSignRequest` |
| `HealthCheck` and `GetSecret` of each | `VaultHealthCheck`, ..., `OracleGetSecret` |
| `keyresolver.go`, `TransitDecrypt` | `ResolveKey` and what it calls, `TransitRequest` |
| `crypto/encrypt.go` | `Encrypt`, `ParseEncryptedValue`, `IsValidEncryptedValue`, `Decrypt` |
| `cmd/encrypt/main.go` | `LoadKey`, `EncryptArgs` |

A ciphertext is a record of what the format's rules look at (how many parts,
whether each decodes, the algorithm it names, the length of the nonce) and of
what it was sealed from. A path is a sequence of segments. Left out: the text of
requests and bodies, base64, how a JSON number or object becomes text, and
`TransitEncrypt`, which only tests call. The services themselves (`Reply`,
`ReadReply`, `VaultHealthReply`) are modelled from how the clients read them.

### ObjectStatus

One object: a `TSecretStore`, a `ClusterTSecretStore` or a `TSecret`.

| Code | Module |
|---|---|
| `r.Get` (store_controller.go:28, tsecret_controller.go:28) | `BeginNotFound`, `Begin` |
| `NewProvider` and `HealthCheck` with its 30 s; validation of the entries | `Judge`, by `StoreVerdict`, `TSecretVerdict` |
| `setStoreStatus`, `setCondition`, `r.Status().Update`, the result | `Report`, with `StatusAccepted`, `RequeueAfter` |
| the watches, the delaying queue, a start, a crash | `CacheObject`, `TimerFires`, `Start`, `Crash` |
| `resolveStore` (sync_controller.go:151-183) | `ResolveStore`, `Open` |
| the pull of a sync (41-92); an injector's run (writer.go:33-53) | `ReadTSecret`, `Use`, by `Outcomes` |
| users and the world | `Edit`, `Delete`, `WorldChange` |

Specs and worlds have names, and `Specs`, `Worlds` say what each is; `Verdict`
and `Outcomes` are then tables, computed from `Providers` and `SecretData`. A
`ClusterTSecretStore` has a status and no controller (`Reconciled`), as in the
code, where `For` names `TSecretStore` only. The user of the object is one at a
time: a sync in the operator, which a crash ends, or an injector, which it does
not. `about` is a history variable. Names of specs are not "none".

Left out: the probe of one object at the same time by two leaders (what
`SyncController` has for the sync), the times written into a status, except that
an update may or may not change them, and a `TSecret` that a sync rewrites,
which is an `Edit` here.

## 3. Runs

All bounds are constants of the modules (`Max...`) and appear only in the guards
of edits, rotations, faults, ticks and cache changes.

| Run | Instance | What it shows |
|---|---|---|
| `sync_leader` | 2 replicas, leader election, 2 keys, 2 remote secrets, 2 generations that differ in items, order and key, 2 versions, 2 faults | `AllOrNothing`, `SyncedIsBacked`, `StatusMatchesTarget`, `NeverForgotten`, `TargetNeverRegresses`, `SyncedGenMonotone`; `ImplementsMirror`: it refines `SecretMirror` |
| `sync_live` | 1 replica, 1 item, 2 generations, 2 vault and 2 key versions, 1 fault, fairness | `TargetConverges`, `StatusConverges` |
| `sync_resync` | 1 replica, no fault | `NoEarlyResync` is violated (finding 1) |
| `inject` | 2 keys, 2 writes of the TSecret, 2 key versions, 3 faults, with and without `--export-env`, fairness | `DoneMeansComplete`, `LoaderIsLast`, `OnlyOldFilesWedge`; `ImplementsVolume`: it refines `SecretVolume` |
| `inject_retry` | the same, 1 fault | `WritesEachKey` is violated (finding 2) |
| `certs` | 2 processes and the script, a certificate that lasts one tick, 2 ticks, 2 faults, fairness | `BundleFitsServing`, `ReadyMeansTrusted`, `EventuallyTrusted` |
| `certs_loss` | 2 processes and the script, 1 fault, 1 loss | `OnlyStoredCAs`; `ImplementsTrustChain`: it refines `TrustChain`, with and without a loss |
| `certs_mismatch` | 1 process, 1 loss | `EnsuredIsTrusted` is violated (finding 3) |
| `certs_rotation` | 1 process, no fault, 1 tick, fairness | `RotatedInTime` is violated (finding 4) |
| `pod_mutate` | 2 containers, 1 init container, 2 names, a user's volume and one with an automatic name, 1 change of the cache, 1 update | `NothingLost`, `FilledOnce`, `LoadersFit`, `UpdateIsQuiet` |
| `pod_order` | the same, no change | `FilledFirst` is violated (finding 5) |
| `object_status` | 8 stores in 8 worlds, 3 cluster stores in 3, 8 `TSecret`s in 4; 1 edit or change of the world, 1 fault, fairness | `JudgedAsStored`, `ConditionForetellsUse`, `SealedStaysReadable`, `NeverForgotten`, `ProbeNeverShuts`, `VerdictConverges`, `GateOpens` |

`sync_leader`, `inject`, `certs`, `pod_mutate` and `object_status` check their module's `TypeOK`
too. A run without deadlock checking says in its `.cfg` why the system may stop.

Why the bounds are enough: two generations, versions and replicas give every
order of an old and a new one, on which the properties depend; two items are the
fewest that make a partial target possible, and the second generation both drops
a key and names one twice. Two faults allow a lost reply followed by a crash or a
deletion. Three in `inject` allow a kill, the loss of the sandbox and a
deletion. With three CAs each of two processes and the script can make one. A
change of the cache between two references is one step; two secrets and three
containers make plans that share containers and containers that share plans.
In `object_status` every spec and world is an initial one, so one change reaches
every pair of a before and an after; the stores are one of each provider and the
ways to configure Vault wrongly, the worlds one for each code and identity the
clients tell apart, and the `TSecret`s one for each rule of the format that can
be broken alone. The theorems of section 4 have no such bounds.

### Fairness

`SyncController`: the goroutine of a reconcile runs, watches deliver, timers
fire, and some replica is started whenever none may be running; all weak. No
user, vault or fault owes anything, and a failed call is a fault, so after the
last one calls succeed. `StatusConverges` has a premise on top: a requeue timer
does not for ever fall into the moment between a reconcile's status write and
the event of it. Without the premise TLC finds a run where each reconcile works
on a stale copy and its status is refused and only logged
(`sync_controller.go:204`); timers are at least 30 s apart, so no real run does.

`Inject`: the kubelet restarts a failed init container and a container that runs
takes its steps. `CertManager`: a process runs, is restarted, its watches
deliver, and the script, once begun, goes on. `PodMutate` has no liveness.

`ObjectStatus`: the goroutine of a reconcile runs, watches deliver, timers fire,
the operator is started again, and a sync tries again and again, since each of
its results has a `RequeueAfter`; all weak. No pod owes an injector's run.
`GateOpens` and `ProbeNeverShuts` have one exception, `MayNotList`: Azure and GCP are probed by listing
secrets, and an identity that may read but not list is shut out for good. TLC
finds that run when the exception is taken away. The sync's own queue and
timers are in `SyncController`, not here: fairness of `ResolveStore` stands for them.

## 4. What is proved

TLAPS checks these for every value of the constants that meets the named
assumptions, hence for any number of replicas, keys, items, generations and
faults.

`SyncControllerProofs`, from `BoundsAssumption`, `ItemsAssumption`,
`EncRefAssumption`:

* `TypeCorrect`: `Spec => []TypeOK`. Types alone are not inductive: that an item
  exists to be sealed needs the loop's index in range, and that needs to know
  what the map holds. `Typed` adds `LoopOK`: a reconcile in the loop holds what
  the items before its index make, one past it what all of them make.
* `TargetIsWhole`: `Spec => []AllOrNothing`. From `Typed`: whoever writes is past
  the loop.
* `StatusIsBacked`: `Spec => []SyncedIsBacked`. Strengthened by `ReportBacked`: a
  reconcile that is about to report success has stored its generation.
* `SyncedGenNeverGoesBack`: `Spec => SyncedGenMonotone`. From `CopiesCurrent`: a
  reconcile whose copy is fresh works for the stored generation, which
  `syncedGen` never exceeds, and only such a reconcile's status is accepted.
* `SyncIsNeverForgotten`: `Spec => []NeverForgotten`, the safety under the two
  liveness properties. It needs `ExistsCurrent` beside it: a request is dropped as
  NotFound, without a timer, and that is right only because a cache that is
  current has the existence of the object right.

`InjectProofs`, from `BoundsAssumption` and `NamesAssumption`, by one inductive
invariant, `IInv == TypeOK /\ Cursor /\ Written /\ OneWrite /\ LoaderIsLast`:

* `TypeCorrect`: `Spec => []TypeOK`.
* `ExitZeroIsComplete`: `Spec => []DoneMeansComplete`. `Written` says that a run
  has the whole file of each key it has ticked off; `Cursor` that none is left
  when the loop is over.
* `LoaderWrittenLast`: `Spec => []LoaderIsLast`. It is inductive only because no
  later run can open a file that exists, and because all entries of the version
  a run read come from one write (`OneWrite`).
* `InjectImplementsVolume`: `Spec => ImplementsVolume`. `Blank` is needed beside
  `IInv`: where there is no file nothing is left over of an earlier one. What the
  mapping is in each phase of a run is a lemma (`Phases`), and each action is
  then mapped by itself to one of the abstract steps or a stutter.

`SyncLeaderProofs`, from the same assumptions as `SyncControllerProofs`, by
`IInv == Typed /\ Backed /\ CopiesCurrent /\ Behind /\ (LeaderElect => Led)`:

* `StatusNeverAhead`: `Spec => []StatusMatchesTarget`; `TargetMovesForward`:
  `Spec => TargetNeverRegresses`. Neither is inductive, since what is about to be
  written is in a reconcile whose copies may be old. `Led` says why that does no
  harm under a leader: only one replica is up; the generation and the keys in its
  caches are at least as new as the target's and the status's; and what its
  reconcile has sealed so far is, entry by entry, no older than the target.
* `Implementation`: `Spec => ImplementsMirror`. The initial states map to the
  mirror's, and each action to one of its steps or a stutter; that a written map
  is the whole of its generation comes from `LoopOK`, that it is of nothing
  newer from `Behind`, and that it goes forward from `Led`. It holds with and
  without leader election (`Ordered` is `LeaderElect`).

`ObjectStatusProofs`, from `KindsAssumption` and `BoundsAssumption`, for any
specs and worlds, by `Inv == Typed /\ Fresh /\ Judged`:

* `TypeCorrect`: `Spec => []TypeOK`. `HasSpec` is needed beside the types: who
  judges or uses a spec has one, because it was read from an object that exists.
* `VerdictBesideItsSpec`: `Spec => JudgedAsStored`. `Fresh`: a reconcile with the
  stored resourceVersion works for the stored spec.
* `UseIsForetold`: `Spec => ConditionForetellsUse`. `Judged`: a `TSecret`'s stored
  condition is the verdict on the spec it was reached about; so a run of the
  injector that read that spec, however long ago, meets what the verdict says of
  it. `VerdictForetells` is the lemma for one spec and world, from `ValidOpens`
  (what is valid is decrypted, fails the authentication, or panics on its nonce),
  `DecryptedIsValid` (its converse) and `ResolvedKeySize` (a key that is resolved
  has 32 bytes, so it never stops the cipher).
* `SealedOpens`: `Spec => []SealedStaysReadable`, from `Judged` and `SealedIsValid`,
  which relates `Encrypt` to the validation and to `Decrypt`.
* `ObjectIsNeverForgotten`: `Spec => []NeverForgotten`. A fresh cache is the
  stored object, so a request is dropped as NotFound only when the object is gone.
* `ProbeIsGenerous`: `Spec => []ProbeNeverShuts`, that a store which can be pulled
  from is Available; not the converse, which is false (section 5). It is about the operators of
  `Providers` for any store and world. Provider by provider, a pull that ends in
  "ok" is shown to imply what the probe asks (`VaultProbe`, `AzureProbe`,
  `GCPProbe`, the last two by `ListsToo`, where `MayNotList` is needed); requests
  of AWS and Oracle leave unsigned and read nothing (`UnsignedReadsNothing`).

`CertManagerProofs`, from `BoundsAssumption` and `LifetimeAssumption`, for any
number of processes and CAs. Each step of a process is first shown to be of one
of five kinds (`Quiet`, `MakesCA`, `MakesCert`, `MakesBundle`, `Starts`):

* `TypeCorrect`: `Spec => []TypeOK`.
* `StoredCAsSign`: `Spec => []OnlyStoredCAs`. `Kept` adds that whoever is about
  to sign or to patch holds a CA that was stored.
* `BundleIsTheSigner`: `Spec => []BundleFitsServing`. `OneCA`, which holds while
  nothing is lost, adds that the whole history has one CA at most (caches may
  show any of it), that whoever is past `ensureCA` holds it and patches only when
  a certificate is stored, and that no process is up before the script is over.
* `ReadyIsTrusted`: `Spec => []ReadyMeansTrusted`. `Configured` says that a bundle
  is replaced and never cleared, so that a bundle seen in an old cache stands for
  one that is stored; `Grounded` that whoever is past `ensureCA` holds a CA, that
  what is about to be updated exists, and that a process that is done leaves a
  bundle. `OneCA` does the rest.
* `ManagerImplementsTrustChain`: `Spec => ImplementsTrustChain`, losses included.
  `MakesCA` maps to `Establish`, `MakesCert` to `Sign`, `MakesBundle` to `Trust`,
  the script's steps likewise, its second beginning and `LoseCA` to `TakeAway`;
  `Kept` gives that the CA in use was stored, `Grounded` that it is one, and, while
  nothing is lost, `OneCA` that it is the only one.

`PodMutateProofs`, from `NamesAssumption` and `RequestsAssumption`, for any pods,
any number of containers, volumes and secrets:

* `TypeCorrect`: `Spec => []TypeOK`. `AtContainer` is needed beside the types,
  and that a set of positions has a last one (`HasLast`, from the well-foundedness
  of `<`) gives each plan its path.
* `ReferencesAreKept`, `SourcedLoadersExist`: `Spec => []NothingLost` and
  `Spec => []LoadersFit`, by `IInv == Typed /\ First`. `Promises` follows each
  reference from the list it leaves, over the plan, to the init container and
  the mount; `PlansFit` says that a volume is for one secret (`Fits`) and has one
  plan or its init container, never both, so the random order of the map cannot
  matter; `PathsFit` and `LoadersWritten` do the same for the paths.
* `VolumesAreFilledOnce`: `Spec => []FilledOnce`. `Filling` follows a volume that
  became one of memory over its plan to its init container; that there is one
  plan, and for which secret, is `PlansFit` again.
* `UpdateChangesNothing`: `Spec => []UpdateIsQuiet`. `Settled`: as long as the
  cache stays as it was, a volume and a reference that have been looked at are of
  no TSecret, and the second request has nothing to plan.

Only model-checked: the findings of section 5, and all liveness, which under
fairness is beyond the prover, as is `ENABLED`: `TargetConverges`,
`StatusConverges`, `OnlyOldFilesWedge`, `EventuallyTrusted`, `VerdictConverges`
and `GateOpens`. Every invariant, action property and refinement that a passing
run checks is also a theorem. No module that is proved about has a `RECURSIVE` operator or needs
induction over data.

## 5. Findings

1. `sync_resync`: a status write with a new `LastSyncedAt` is an event that queues
   the next reconcile at once (`sync_controller.go:212`), so an object is synced
   again before `refreshInterval` (`types.go:334`) is over. This is no endless loop
   as a rule: times are stored in whole seconds, and a second reconcile that
   reports within the same second changes nothing, is no event, and leaves the
   next sync to the timer. It goes on while each reconcile reports in a later
   second than the one before, as slow vaults make it do.
2. `inject_retry`: files of mode 0400 (`writer.go:57`) cannot be written again by
   the same unprivileged uid; an init container that dies half-way fails on its
   own files until the pod is replaced. `OnlyOldFilesWedge` shows that nothing
   else wedges it.
3. `certs_mismatch`: a lost CA Secret is replaced, the serving certificate of the
   old CA is kept (`certs.go:203`), and the bundle is overwritten by the new CA.
   With `failurePolicy: Fail` pods in injected namespaces cannot be created.
4. `certs_rotation`: `EnsureCerts` runs once per process (`main.go:134`), while
   `certs.go:9` and `README.md:339` speak of rotation at run time.
5. `pod_order`: an init container of the pod that refers to a TSecret runs before
   the one that fills the volume (`mutate.go:303`).

Met while modelling, and not the subject of a run:

* `store_controller.go:17` says that the reconciler is for `TSecretStore` and
  `ClusterTSecretStore`, and `README.md:131-132` that a `ClusterTSecretStore` is
  the same as a `TSecretStore`, health check included; `SetupWithManager`
  (88-92) watches the first only, and no status of the second is ever written.
  `GateOpens` shows that its syncs work all the same.
* A health check asks less than a pull: the probe is made without the
  credentials of `ConfigureVaultAuth` (`store_controller.go:38`), a sealed Vault
  answers 200 to it (`vault.go:165`), and Azure, GCP and Oracle take a 500 for
  healthy (`azure.go:113`). `Available` is no promise that a pull succeeds, and
  nothing in the repository says it is.
* A ciphertext with a nonce of the wrong length is Ready, and the cipher panics
  on it before any authentication (`encrypt.go:95`): the injector dies of a
  `TSecret` that the controller reports as valid. `encrypt.go:103` says that
  `IsValidEncryptedValue` checks the "expected TSecret encrypted format", of which
  the nonce is a part. `ConditionForetellsUse` has this as its one exception
  (`~NoncesFit`), and `UseIsForetold` proves that there is no other: where the nonces
  fit, a Ready `TSecret` never panics and never fails by format, algorithm or key
  size. The specs `nonce` and `renamed` of the run are such ciphertexts; TLC finds
  the panic when the exception is taken away.
* `collectInjections` seeks the path of a volume among the containers only
  (`mutate.go:174`), and takes the last one's. An init container that mounts the
  volume of a TSecret elsewhere, refers to it by `env` and exports, sources a
  `load-env.sh` that is not there; so does a container, where two disagree.
  `OnePathEach` is the premise of `LoadersFit` that says so.
* When a TSecret appears with the name of a Secret that a running pod refers to,
  the answer to each later update of that pod changes its spec, which Kubernetes
  refuses. `UpdateIsQuiet` is therefore about a cache that stays as it was.
* Nothing reads `refreshInterval` of a store (`types.go:100`).

## 6. Not modelled

The Helm chart and manifests: configuration, whose two settings that matter
(replicas, leader election) are constants of `SyncController`. Generated deep
copies. The cipher, base64, JSON and HTTP, which are libraries: the modules have
what the code makes of their results. Flags, logging, metrics and probes of the
manager. Parts left out of modelled components are named with each module above.
