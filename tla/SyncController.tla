--------------------------- MODULE SyncController ---------------------------
(***************************************************************************)
(* The TSecretSync controller (pkg/controller/sync_controller.go): one     *)
(* TSecretSync object, the TSecret it targets, the remote vault, and the   *)
(* operator replicas that reconcile it.                                    *)
(*                                                                         *)
(* A reconcile is several steps, and the cluster moves between them: it    *)
(* reads the TSecretSync from an informer cache, pulls and encrypts each   *)
(* item, reads the target from the cache, writes it with the optimistic    *)
(* concurrency of the API server, and reports through the status           *)
(* subresource.  controller-runtime never reconciles one object twice at   *)
(* once in one process, so a replica has at most one reconcile in flight.  *)
(***************************************************************************)
EXTENDS Naturals, Sequences

CONSTANTS
    Replicas,       \* the operator processes
    LeaderElect,    \* the --leader-elect flag: at most one replica reconciles
    SecretKeys,     \* the keys of the target TSecret
    RemoteKeys,     \* the secrets in the vault
    KeyNames,       \* the encryption keys an EncryptionRef can name
    MaxGen,         \* bound: generations of the TSecretSync's spec
    MaxVersion,     \* bound: versions of a remote secret
    MaxKeyVersion,  \* bound: versions of an encryption key (rotations + 1)
    MaxFaults,      \* bound: crashes, failed calls, lost replies, deletions
    Items,          \* Items[g]: spec.data of generation g
    EncRef          \* EncRef[g]: the name in spec.encryptionRef of generation g

Item == [secretKey : SecretKeys, remote : RemoteKeys]

ASSUME BoundsAssumption ==
    /\ MaxGen \in Nat \ {0}
    /\ MaxVersion \in Nat \ {0}
    /\ MaxKeyVersion \in Nat \ {0}
    /\ MaxFaults \in Nat
    /\ LeaderElect \in BOOLEAN
ASSUME ItemsAssumption == Items \in [1..MaxGen -> Seq(Item)]
ASSUME EncRefAssumption == EncRef \in [1..MaxGen -> KeyNames]

VARIABLES
    sync,            \* the stored TSecretSync: spec generation and status
    target,          \* the stored target TSecret
    remote,          \* the version of each remote secret
    keyVer,          \* the version of the key held under each name
    work,            \* work[r]: the reconcile replica r has in flight
    queue,           \* queue[r]: why the request is in r's workqueue, {} if it is not
    timer,           \* timer[r]: a delayed re-queue (RequeueAfter) is pending
    seen,            \* seen[r]: r's informer caches
    syncCacheFresh,  \* replicas whose cached TSecretSync has the stored resourceVersion
    syncCopyFresh,   \* replicas whose reconcile's copy of it has
    tgtCacheFresh,   \* the same two for the target TSecret
    tgtCopyFresh,
    touchDue,        \* the TSecret controller still owes the target a status write
    faults,          \* how many faults have happened
    persisted        \* history: generations whose data was ever the target's

syncVars  == <<sync, syncCacheFresh, syncCopyFresh>>
tgtVars   == <<target, tgtCacheFresh, tgtCopyFresh, touchDue, persisted>>
worldVars == <<remote, keyVer>>
vars == <<syncVars, tgtVars, worldVars, work, queue, timer, seen, faults>>

-----------------------------------------------------------------------------
(* Data. *)

Gens == 1..MaxGen

\* v1alpha1.TSecretEntry.  The ciphertext is what it was made from: which
\* version of which remote secret, under which version of the key.
Entry == [remote : RemoteKeys, version : 1..MaxVersion,
          key : KeyNames, keyVersion : 1..MaxKeyVersion]

\* A Go map[string]TSecretEntry.
Maps == UNION {[S -> Entry] : S \in SUBSET SecretKeys}

EmptyMap == [k \in {} |-> k]

Put(m, k, e) == [x \in DOMAIN m \cup {k} |-> IF x = k THEN e ELSE m[x]]

\* A reconcile of generation g with nothing pulled yet.
Fresh(g, pc) == [pc |-> pc, gen |-> g, next |-> 1, data |-> EmptyMap,
                 found |-> FALSE, ok |-> FALSE]

\* No reconcile in flight; "down" instead of "idle" when the process is not running.
NoWork(pc) == Fresh(1, pc)

Up(r) == work[r].pc # "down"

\* The caches of a process that is not running.
NoCache == [exists |-> FALSE, gen |-> 1, target |-> FALSE, key |-> [k \in KeyNames |-> 1]]

NoTarget == [exists |-> FALSE, gen |-> 1, enc |-> EncRef[1], data |-> EmptyMap]

-----------------------------------------------------------------------------
(* The initial state: a TSecretSync was just created; nothing runs yet.    *)

Init ==
    /\ sync = [exists |-> TRUE, gen |-> 1, state |-> "None", syncedGen |-> 0]
    /\ target = NoTarget
    /\ remote = [x \in RemoteKeys |-> 1]
    /\ keyVer = [k \in KeyNames |-> 1]
    /\ work = [r \in Replicas |-> NoWork("down")]
    /\ queue = [r \in Replicas |-> {}]
    /\ timer = [r \in Replicas |-> FALSE]
    /\ seen = [r \in Replicas |-> NoCache]
    /\ syncCacheFresh = {} /\ syncCopyFresh = {}
    /\ tgtCacheFresh = {} /\ tgtCopyFresh = {}
    /\ touchDue = FALSE
    /\ faults = 0
    /\ persisted = {}

-----------------------------------------------------------------------------
(* What a write to an object does to the copies of it: every copy keeps    *)
(* the resourceVersion it was read with, so all of them are stale now.     *)

SyncWritten ==
    /\ syncCacheFresh' = {}
    /\ syncCopyFresh' = {}

TargetWritten ==
    /\ tgtCacheFresh' = {}
    /\ tgtCopyFresh' = {}

Fault ==
    /\ faults < MaxFaults
    /\ faults' = faults + 1

-----------------------------------------------------------------------------
(* Reconcile.                                                              *)

\* Mutant: the error of a failed call is dropped.
FailIgnored(r) == work' = [work EXCEPT ![r].pc = "report", ![r].ok = TRUE]

\* `if err != nil { r.setSyncStatus(ctx, sync, "SyncFailed", ...) }`: control
\* passes to the status write with nothing else done.
Fail(r) ==
    work' = [work EXCEPT ![r].pc = "report", ![r].ok = FALSE]

\* Mutant: the loop stops one item early.
LoopPcOffByOne(g, n) == IF n >= Len(Items[g]) THEN "get" ELSE "seal"

\* The loop over spec.Data is at its n-th item, or past the last one.
LoopPc(g, n) == IF n > Len(Items[g]) THEN "get" ELSE "seal"

\* The workqueue hands the request to a worker.  r.Get reads the cached
\* TSecretSync; NotFound ends the reconcile with nothing queued.
BeginNotFound(r) ==
    /\ work[r].pc = "idle" /\ queue[r] # {}
    /\ ~seen[r].exists
    /\ queue' = [queue EXCEPT ![r] = {}]
    /\ UNCHANGED <<syncVars, tgtVars, worldVars, work, timer, seen, faults>>

\* r.Get finds it.  resolveStore, NewProvider and ConfigureVaultAuth succeed,
\* or one of them fails.
Begin(r) ==
    /\ work[r].pc = "idle" /\ queue[r] # {}
    /\ seen[r].exists
    /\ queue' = [queue EXCEPT ![r] = {}]
    /\ syncCopyFresh' = IF r \in syncCacheFresh THEN syncCopyFresh \cup {r}
                                                ELSE syncCopyFresh \ {r}
    /\ LET g == seen[r].gen
       IN \/ /\ work' = [work EXCEPT ![r] = Fresh(g, LoopPc(g, 1))]
             /\ UNCHANGED faults
          \/ /\ Fault
             /\ work' = [work EXCEPT ![r] = Fresh(g, "report")]
    /\ UNCHANGED <<sync, syncCacheFresh, tgtVars, worldVars, timer, seen>>

\* One iteration of the loop: provider.GetSecret reads the vault itself,
\* KeyResolver.ResolveKey reads the key Secret from the cache, crypto.Encrypt
\* seals the value.  Any of the three can fail, and then `data` is dropped.
SealItem(r) ==
    /\ work[r].pc = "seal"
    /\ LET g    == work[r].gen
           n    == work[r].next
           item == Items[g][n]
           e    == [remote |-> item.remote, version |-> remote[item.remote],
                    key |-> EncRef[g], keyVersion |-> seen[r].key[EncRef[g]]]
       IN \/ /\ work' = [work EXCEPT ![r].data = Put(@, item.secretKey, e),
                                     ![r].next = n + 1,
                                     ![r].pc   = LoopPc(g, n + 1)]
             /\ UNCHANGED faults
          \/ Fault /\ Fail(r)
    /\ UNCHANGED <<syncVars, tgtVars, worldVars, queue, timer, seen>>

\* r.Get(ctx, targetKey, target), from the cache.
GetTarget(r) ==
    /\ work[r].pc = "get"
    /\ work' = [work EXCEPT ![r].found = seen[r].target, ![r].pc = "write"]
    /\ tgtCopyFresh' = IF r \in tgtCacheFresh THEN tgtCopyFresh \cup {r}
                                              ELSE tgtCopyFresh \ {r}
    /\ UNCHANGED <<syncVars, target, tgtCacheFresh, touchDue, persisted,
                   worldVars, queue, timer, seen, faults>>

\* The API server takes an Update only at the stored resourceVersion, and a
\* Create only of a name that is free.
Accepts(r) ==
    IF work[r].found THEN target.exists /\ r \in tgtCopyFresh ELSE ~target.exists

\* Mutant: an existing target keeps its encryptionRef.
StoreKeepsRef(r) ==
    /\ target' = [exists |-> TRUE, gen |-> work[r].gen,
                  enc |-> IF target.exists THEN target.enc ELSE EncRef[work[r].gen],
                  data |-> work[r].data]
    /\ TargetWritten
    /\ touchDue' = TRUE
    /\ persisted' = persisted \cup {work[r].gen}

\* What an accepted write stores: the whole spec is replaced.
Store(r) ==
    /\ target' = [exists |-> TRUE, gen |-> work[r].gen,
                  enc |-> EncRef[work[r].gen], data |-> work[r].data]
    /\ TargetWritten
    /\ touchDue' = TRUE
    /\ persisted' = persisted \cup {work[r].gen}

\* r.Create or r.Update of the target.
Write(r) ==
    /\ work[r].pc = "write"
    /\ \/ /\ Accepts(r)
          /\ Store(r)
          /\ work' = [work EXCEPT ![r].pc = "report", ![r].ok = TRUE]
          /\ UNCHANGED faults
       \/ \* AlreadyExists, NotFound or Conflict
          /\ ~Accepts(r)
          /\ Fail(r)
          /\ UNCHANGED <<tgtVars, faults>>
       \/ \* the request is lost
          /\ Fault /\ Fail(r)
          /\ UNCHANGED tgtVars
       \/ \* the request is applied and its reply is lost
          /\ Fault /\ Fail(r)
          /\ Accepts(r)
          /\ Store(r)
    /\ UNCHANGED <<syncVars, worldVars, queue, timer, seen>>

\* Mutant: SyncedGeneration counts the syncs instead of copying the generation.
ReportedCount(r) ==
    IF work[r].ok
    THEN [sync EXCEPT !.state = "Synced", !.syncedGen = @ + 1]
    ELSE [sync EXCEPT !.state = "SyncFailed"]

\* Mutant: a failure also resets SyncedGeneration.
ReportedReset(r) ==
    IF work[r].ok
    THEN [sync EXCEPT !.state = "Synced", !.syncedGen = work[r].gen]
    ELSE [sync EXCEPT !.state = "SyncFailed", !.syncedGen = 0]

\* The status this reconcile writes: SyncedGeneration moves only on success.
Reported(r) ==
    IF work[r].ok
    THEN [sync EXCEPT !.state = "Synced", !.syncedGen = work[r].gen]
    ELSE [sync EXCEPT !.state = "SyncFailed"]

\* r.Status().Update carries the resourceVersion the reconcile began with.
StatusAccepted(r) == sync.exists /\ r \in syncCopyFresh

\* Mutant: the result is the empty ctrl.Result.
RequeueNever(r) == UNCHANGED timer

\* Every path that read the TSecretSync returns a RequeueAfter.
RequeueAfter(r) == timer' = [timer EXCEPT ![r] = TRUE]

\* setSyncStatus and the return.  A conflict on the status update is only
\* logged.  An accepted update leaves the object as it was when it says the
\* same within the same second (times are stored in seconds).
Report(r) ==
    /\ work[r].pc = "report"
    /\ \/ /\ StatusAccepted(r)
          /\ sync' = Reported(r)
          /\ \/ SyncWritten
             \/ Reported(r) = sync /\ UNCHANGED <<syncCacheFresh, syncCopyFresh>>
          /\ UNCHANGED faults
       \/ /\ ~StatusAccepted(r)
          /\ UNCHANGED <<syncVars, faults>>
       \/ /\ Fault
          /\ UNCHANGED syncVars
    /\ work' = [work EXCEPT ![r] = NoWork("idle")]
    /\ RequeueAfter(r)
    /\ UNCHANGED <<tgtVars, worldVars, queue, seen>>

-----------------------------------------------------------------------------
(* controller-runtime around Reconcile: processes, watches, the workqueue. *)

\* Mutant: the controllers run on every replica.
MayLeadAlways == TRUE

\* The controllers of a replica run only while it holds the lease.
MayLead == LeaderElect => \A s \in Replicas : ~Up(s)

\* A replica starts (or wins the lease): its informers list, and the listed
\* TSecretSync is queued.
Start(r) ==
    /\ ~Up(r)
    /\ MayLead
    /\ work' = [work EXCEPT ![r] = NoWork("idle")]
    /\ seen' = [seen EXCEPT ![r] = [exists |-> sync.exists, gen |-> sync.gen,
                                    target |-> target.exists, key |-> keyVer]]
    /\ syncCacheFresh' = syncCacheFresh \cup {r}
    /\ tgtCacheFresh' = tgtCacheFresh \cup {r}
    /\ queue' = [queue EXCEPT ![r] = IF sync.exists THEN {"start"} ELSE {}]
    /\ UNCHANGED <<sync, syncCopyFresh, target, tgtCopyFresh, touchDue, persisted,
                   worldVars, timer, faults>>

\* The process dies (or loses the lease, which ends it too): its queue, its
\* timers, its caches and the reconcile in flight are gone.
Crash(r) ==
    /\ Up(r)
    /\ Fault
    /\ work' = [work EXCEPT ![r] = NoWork("down")]
    /\ queue' = [queue EXCEPT ![r] = {}]
    /\ timer' = [timer EXCEPT ![r] = FALSE]
    /\ syncCacheFresh' = syncCacheFresh \ {r}
    /\ syncCopyFresh' = syncCopyFresh \ {r}
    /\ tgtCacheFresh' = tgtCacheFresh \ {r}
    /\ tgtCopyFresh' = tgtCopyFresh \ {r}
    /\ seen' = [seen EXCEPT ![r] = NoCache]
    /\ UNCHANGED <<sync, target, touchDue, persisted, worldVars>>

\* The watch on TSecretSync catches up.  For() has no predicate: every event,
\* those of the controller's own status writes included, queues the request.
\* Versions in between are those delivered before the next write.
CacheSync(r) ==
    /\ Up(r) /\ r \notin syncCacheFresh
    /\ seen' = [seen EXCEPT ![r].exists = sync.exists, ![r].gen = sync.gen]
    /\ syncCacheFresh' = syncCacheFresh \cup {r}
    /\ queue' = [queue EXCEPT ![r] = @ \cup {"event"}]
    /\ UNCHANGED <<sync, syncCopyFresh, tgtVars, worldVars, work, timer, faults>>

\* The informer of TSecrets catches up.  Its events queue TSecrets, not the
\* TSecretSync (there is no Owns), so nothing is queued here.
CacheTarget(r) ==
    /\ Up(r) /\ r \notin tgtCacheFresh
    /\ seen' = [seen EXCEPT ![r].target = target.exists]
    /\ tgtCacheFresh' = tgtCacheFresh \cup {r}
    /\ UNCHANGED <<syncVars, target, tgtCopyFresh, touchDue, persisted,
                   worldVars, work, queue, timer, faults>>

\* The informer of Secrets catches up with the encryption keys.
CacheKey(r) ==
    /\ Up(r) /\ seen[r].key # keyVer
    /\ seen' = [seen EXCEPT ![r].key = keyVer]
    /\ UNCHANGED <<syncVars, tgtVars, worldVars, work, queue, timer, faults>>

\* The delaying queue adds the request when RequeueAfter is over.
TimerFires(r) ==
    /\ timer[r]
    /\ timer' = [timer EXCEPT ![r] = FALSE]
    /\ queue' = [queue EXCEPT ![r] = @ \cup {"timer"}]
    /\ UNCHANGED <<syncVars, tgtVars, worldVars, work, seen, faults>>

-----------------------------------------------------------------------------
(* The users, the vault and the TSecret controller.                        *)

EditSpec ==
    /\ sync.exists /\ sync.gen < MaxGen
    /\ sync' = [sync EXCEPT !.gen = @ + 1]
    /\ SyncWritten
    /\ UNCHANGED <<tgtVars, worldVars, work, queue, timer, seen, faults>>

DeleteSync ==
    /\ sync.exists
    /\ Fault
    /\ sync' = [sync EXCEPT !.exists = FALSE]
    /\ SyncWritten
    /\ UNCHANGED <<tgtVars, worldVars, work, queue, timer, seen>>

DeleteTarget ==
    /\ target.exists
    /\ Fault
    /\ target' = NoTarget
    /\ TargetWritten
    /\ touchDue' = FALSE
    /\ UNCHANGED <<syncVars, persisted, worldVars, work, queue, timer, seen>>

\* The TSecret controller's status write, once after each write of the spec.
TouchTarget ==
    /\ touchDue
    /\ touchDue' = FALSE
    /\ TargetWritten
    /\ UNCHANGED <<syncVars, target, persisted, worldVars, work, queue, timer,
                   seen, faults>>

RemoteChange(x) ==
    /\ remote[x] < MaxVersion
    /\ remote' = [remote EXCEPT ![x] = @ + 1]
    /\ UNCHANGED <<syncVars, tgtVars, keyVer, work, queue, timer, seen, faults>>

RotateKey(k) ==
    /\ keyVer[k] < MaxKeyVersion
    /\ keyVer' = [keyVer EXCEPT ![k] = @ + 1]
    /\ UNCHANGED <<syncVars, tgtVars, remote, work, queue, timer, seen, faults>>

-----------------------------------------------------------------------------

ReconcileStep(r) ==
    \/ BeginNotFound(r) \/ Begin(r) \/ SealItem(r) \/ GetTarget(r)
    \/ Write(r) \/ Report(r)

Next ==
    \/ \E r \in Replicas :
          \/ ReconcileStep(r)
          \/ Start(r) \/ Crash(r)
          \/ CacheSync(r) \/ CacheTarget(r) \/ CacheKey(r)
          \/ TimerFires(r)
    \/ EditSpec \/ DeleteSync \/ DeleteTarget \/ TouchTarget
    \/ \E x \in RemoteKeys : RemoteChange(x)
    \/ \E k \in KeyNames : RotateKey(k)

Spec == Init /\ [][Next]_vars

\* Goroutines are scheduled, watches are delivered, timers fire, and
\* Kubernetes restarts the process.  The users and the faults owe nothing.
Fairness ==
    /\ \A r \in Replicas :
          /\ WF_vars(ReconcileStep(r))
          /\ WF_vars(CacheSync(r))
          /\ WF_vars(CacheTarget(r))
          /\ WF_vars(CacheKey(r))
          /\ WF_vars(TimerFires(r))
    /\ WF_vars(\E r \in Replicas : Start(r))

FairSpec == Spec /\ Fairness

-----------------------------------------------------------------------------
(* Safety.                                                                 *)

\* The type invariant of every variable of the controller and its cluster.
TypeOK ==
    /\ sync \in [exists : BOOLEAN, gen : Gens,
                 state : {"None", "Synced", "SyncFailed"}, syncedGen : 0..MaxGen]
    /\ target \in [exists : BOOLEAN, gen : Gens, enc : KeyNames, data : Maps]
    /\ remote \in [RemoteKeys -> 1..MaxVersion]
    /\ keyVer \in [KeyNames -> 1..MaxKeyVersion]
    /\ work \in [Replicas ->
                    [pc : {"down", "idle", "seal", "get", "write", "report"},
                     gen : Gens, next : Nat \ {0}, data : Maps,
                     found : BOOLEAN, ok : BOOLEAN]]
    /\ queue \in [Replicas -> SUBSET {"start", "event", "timer"}]
    /\ timer \in [Replicas -> BOOLEAN]
    /\ seen \in [Replicas -> [exists : BOOLEAN, gen : Gens, target : BOOLEAN,
                              key : [KeyNames -> 1..MaxKeyVersion]]]
    /\ syncCacheFresh \subseteq Replicas /\ syncCopyFresh \subseteq Replicas
    /\ tgtCacheFresh \subseteq Replicas /\ tgtCopyFresh \subseteq Replicas
    /\ touchDue \in BOOLEAN
    /\ faults \in 0..MaxFaults
    /\ persisted \subseteq Gens

\* d is what the first n items of generation g's spec.Data make: exactly
\* their keys, each sealed under g's key from the remote secret of the last
\* item that names it (a later item overwrites an earlier one in the map).
MadeFrom(d, g, n) ==
    /\ DOMAIN d = {Items[g][j].secretKey : j \in 1..n}
    /\ \A k \in DOMAIN d :
          /\ d[k].key = EncRef[g]
          /\ \E j \in 1..n :
                /\ Items[g][j] = [secretKey |-> k, remote |-> d[k].remote]
                /\ \A m \in (j + 1)..n : Items[g][m].secretKey # k

\* README, "Sync all-or-nothing": however reconciles fail, crash, race or
\* are overtaken by an edit, the stored TSecret is the whole of one spec
\* generation, sealed under the key its own encryptionRef names: never a
\* part of it, nor a mixture of two (sync_controller.go:64-130).
AllOrNothing ==
    target.exists =>
        /\ MadeFrom(target.data, target.gen, Len(Items[target.gen]))
        /\ target.enc = EncRef[target.gen]

\* The status never claims a generation whose data was not stored first,
\* whatever replies are lost and whoever reports (sync_controller.go:132-137).
SyncedIsBacked == sync.syncedGen # 0 => sync.syncedGen \in persisted

\* With one leader at a time, a target is never older than what the status
\* says was synced: a failover does not let an old reconcile win.
StatusMatchesTarget ==
    LeaderElect /\ target.exists => target.gen >= sync.syncedGen

\* status.syncedGeneration never goes back, though conflicts on the status
\* update are swallowed (sync_controller.go:204) and a deposed or slow
\* reconcile may report late.
SyncedGenMonotone == [][sync'.syncedGen >= sync.syncedGen]_sync

\* With one leader at a time, a stored target is only replaced by one of the
\* same or a later generation whose entries come from the same or later
\* versions of the remote secrets and of the keys.
TargetNeverRegresses ==
    [][LeaderElect /\ target.exists /\ target'.exists =>
          /\ target'.gen >= target.gen
          /\ \A k \in DOMAIN target.data \cap DOMAIN target'.data :
                LET old == target.data[k]
                    new == target'.data[k]
                IN /\ new.remote = old.remote => new.version >= old.version
                   /\ new.key = old.key => new.keyVersion >= old.keyVersion]_target

\* Nobody forgets the TSecretSync: a running controller that is not at it, and
\* whose cache has it as it is stored, has it in its queue or has a timer for
\* it; whatever failed, conflicted or was swallowed before, and whichever
\* events came in between (sync_controller.go:35-148, 209-234).
NeverForgotten ==
    \A r \in Replicas :
        work[r].pc = "idle" /\ sync.exists /\ r \in syncCacheFresh
        => queue[r] # {} \/ timer[r]

-----------------------------------------------------------------------------
(* The abstract specification.                                             *)

Mirror == INSTANCE SecretMirror WITH
    Ordered <- LeaderElect,
    wanted  <- [exists |-> sync.exists, gen |-> sync.gen],
    source  <- remote,
    keys    <- keyVer,
    copy    <- target,
    copied  <- persisted,
    acked   <- sync.syncedGen

\* However reconciles fail, crash, race with edits or lose their replies, the
\* TSecret is a mirror of the vault as SecretMirror promises it: each of the
\* controller's steps is a step of the mirror, or changes nothing of it.
ImplementsMirror == Mirror!MirrorSpec

-----------------------------------------------------------------------------
(* Liveness.                                                               *)

\* The target holds the current generation, made from the current versions
\* of the remote secrets under the current key.
TargetCurrent ==
    /\ target.exists
    /\ target.gen = sync.gen
    /\ \A k \in DOMAIN target.data :
          LET e == target.data[k]
          IN e.version = remote[e.remote] /\ e.keyVersion = keyVer[e.key]

\* Once the faults and the changes stop, the target becomes current and stays
\* so, unless the TSecretSync is gone: even a deleted target or a rotated
\* key, which nothing watches, is put right by the requeue timer.
TargetConverges == <>[](~sync.exists \/ TargetCurrent)

CachesCaughtUp(r) ==
    /\ r \in syncCacheFresh
    /\ r \in tgtCacheFresh
    /\ seen[r].key = keyVer

\* From some time on, no requeue timer (at least 30s) falls into the moment
\* between another reconcile and the watch events it causes.
TimersEventuallyCalm ==
    <>[][\A r \in Replicas :
            timer[r] /\ ~timer'[r] => work[r].pc = "idle" /\ CachesCaughtUp(r)]_timer

\* The status reaches "Synced" at the current generation again and again: a
\* conflict on a target or status write never wedges the controller.  It
\* needs the timers' calm: one that always falls just after a reconcile's own
\* status write starts the next one on a stale copy, whose "Synced" is
\* refused and only logged (sync_controller.go:204).
StatusConverges ==
    TimersEventuallyCalm =>
        []<>(~sync.exists \/ (sync.state = "Synced" /\ sync.syncedGen = sync.gen))

-----------------------------------------------------------------------------
(* The documented refresh interval.                                        *)

\* types.go:334 says refreshInterval is "how often to sync ... Min: 30s".
\* So a generation that is synced is not synced again until a timer is due
\* or a process starts: no reconcile of it starts for another reason.
NoEarlyResync ==
    [][\A r \in Replicas :
          /\ work[r].pc = "idle" /\ work'[r].pc \in {"seal", "get"}
          /\ sync.state = "Synced" /\ sync.syncedGen = work'[r].gen
          => queue[r] \cap {"start", "timer"} # {}]_work
=============================================================================
