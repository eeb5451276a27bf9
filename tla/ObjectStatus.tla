----------------------------- MODULE ObjectStatus -----------------------------
(***************************************************************************)
(* The two controllers that only judge, and those who use what they judge. *)
(* The TSecretStore controller probes the vault of a store, and a          *)
(* TSecretSync pulls from the store unless its cached status is            *)
(* Unavailable; the TSecret controller validates ciphertexts, and the      *)
(* injector decrypts them.  One object is modelled: a TSecretStore, a      *)
(* ClusterTSecretStore (it has a status, but no controller) or a TSecret   *)
(* (store_controller.go, tsecret_controller.go, sync_controller.go:41-92   *)
(* and 151-183, inject/writer.go:33-53).                                   *)
(***************************************************************************)
EXTENDS SecretData

CONSTANTS
    ObjectKinds,  \* which kinds of object to consider
    Specs,        \* Specs[kind][s]: the spec named s of an object of that kind
    Worlds,       \* Worlds[kind][w]: the world named w, for that kind
    Namespace,    \* the namespace of the object and of the TSecretSync
    Wanted,       \* the remote references in the TSecretSync's spec.data
    MaxChanges,   \* bound: edits of the spec and changes of the world
    MaxFaults     \* bound: crashes, failed calls, deletions

ASSUME KindsAssumption ==
    ObjectKinds \subseteq {"TSecretStore", "ClusterTSecretStore", "TSecret"}
ASSUME BoundsAssumption == MaxChanges \in Nat /\ MaxFaults \in Nat

VARIABLES
    kind,        \* the kind of the object
    obj,         \* the stored object: the name of its spec, and its status
    about,       \* history: the spec its status was judged from, {} before
    world,       \* the name of the world: vault, credentials, Kubernetes Secrets
    work,        \* the reconcile in flight
    queued,      \* the request is in the workqueue
    timer,       \* a RequeueAfter or a back-off is pending
    seen,        \* the object in the operator's cache
    cacheFresh,  \* the cached object has the stored resourceVersion
    copyFresh,   \* the reconcile's copy of it has
    reader,      \* the TSecretSync, or the injector, that uses the object
    changes,     \* how many changes there were
    faults       \* how many faults there were

objVars == <<obj, about, cacheFresh, copyFresh>>
vars == <<kind, objVars, world, work, queued, timer, seen, reader, changes, faults>>

-----------------------------------------------------------------------------
(* Verdicts.  A TSecret's spec is [encryptionRef, data], where data[k] is  *)
(* [value, algorithm].                                                     *)

\* Mutant: the reason is written where the status belongs.
StoreVerdictReason(s, w) ==
    LET p == NewProvider(s)
    IN IF ~p.ok THEN "ProviderConfigError"
       ELSE IF HealthCheck(p.val, w) THEN "HealthCheckPassed" ELSE "HealthCheckFailed"

\* The probe is made without ConfigureVaultAuth.
StoreVerdict(s, w) ==
    LET p == NewProvider(s)
    IN IF ~p.ok THEN "Invalid"
       ELSE IF HealthCheck(p.val, w) THEN "Available" ELSE "Unavailable"

\* The condition Ready.  The declared algorithm is not compared with that of
\* the ciphertext, nor is the key looked at.
TSecretVerdict(s) ==
    IF \A k \in DOMAIN s.data :
          IsValidEncryptedValue(s.data[k].value) /\ IsSupported(s.data[k].algorithm)
    THEN "True" ELSE "False"

\* The verdict of the controller on each spec in each world.
Verdict ==
    [k \in ObjectKinds |-> [s \in DOMAIN Specs[k] |-> [w \in DOMAIN Worlds[k] |->
        IF k = "TSecret" THEN TSecretVerdict(Specs[k][s])
                         ELSE StoreVerdict(Specs[k][s], Worlds[k][w])]]]

\* status.status of a store, the condition Ready of a TSecret, "" before either.
Statuses == {"", "Available", "Unavailable", "Invalid", "True", "False"}

-----------------------------------------------------------------------------
(* Use.                                                                    *)

\* A TSecretSync's provider, ready to pull; only Vault's gets credentials here.
Connect(s, w) ==
    LET p == NewProvider(s)
    IN IF p.ok /\ "vault" \in DOMAIN s THEN ConfigureVaultAuth(p.val, w, Namespace) ELSE p

\* All items are pulled, or the sync fails.
Pull(s, w) ==
    LET p == Connect(s, w)
    IN IF p.ok /\ \A ref \in Wanted : GetSecret(p.val, w, ref).ok THEN "ok" ELSE "failed"

\* The first entry that does not decrypt ends the injector's run; entries
\* come in any order.
Inject(s, w) ==
    LET key == ResolveKey(w, s.encryptionRef, Namespace)
        bad == {Decrypt(s.data[k].value, key.val) : k \in DOMAIN s.data} \ {"plain"}
    IN IF ~key.ok THEN {"nokey"} ELSE IF bad = {} THEN {"ok"} ELSE bad

\* What can come of using each spec in each world.
Outcomes ==
    [k \in ObjectKinds |-> [s \in DOMAIN Specs[k] |-> [w \in DOMAIN Worlds[k] |->
        IF k = "TSecret" THEN Inject(Specs[k][s], Worlds[k][w])
                         ELSE {Pull(Specs[k][s], Worlds[k][w])}]]]

Results == {"none", "blocked", "ok", "failed", "nokey",
            "format", "cipher", "panic", "authentication"}

-----------------------------------------------------------------------------

SpecNames == DOMAIN Specs[kind]
WorldNames == DOMAIN Worlds[kind]

NoSpec == "none"

NoWork(pc) == [pc |-> pc, spec |-> NoSpec, verdict |-> ""]
NotSeen == [exists |-> FALSE, spec |-> NoSpec, status |-> ""]
Reading(pc, s, result) == [pc |-> pc, spec |-> s, result |-> result]

Init ==
    /\ kind \in ObjectKinds
    /\ obj \in [exists : {TRUE}, spec : SpecNames, status : {""}]
    /\ about = {}
    /\ world \in WorldNames
    /\ work = NoWork("down") /\ queued = FALSE /\ timer = FALSE
    /\ seen = NotSeen
    /\ cacheFresh = FALSE /\ copyFresh = FALSE
    /\ reader = Reading("idle", NoSpec, "none")
    /\ changes = 0 /\ faults = 0

Up == work.pc # "down"

Fault == faults < MaxFaults /\ faults' = faults + 1
Change == changes < MaxChanges /\ changes' = changes + 1

\* A write of the object makes every copy of it stale.
Written == cacheFresh' = FALSE /\ copyFresh' = FALSE

-----------------------------------------------------------------------------
(* Reconcile.                                                              *)

\* r.Get finds nothing in the cache: the reconcile ends with nothing queued.
BeginNotFound ==
    /\ work.pc = "idle" /\ queued /\ ~seen.exists
    /\ queued' = FALSE
    /\ UNCHANGED <<kind, objVars, world, work, timer, seen, reader, changes, faults>>

Begin ==
    /\ work.pc = "idle" /\ queued /\ seen.exists
    /\ queued' = FALSE
    /\ work' = [pc |-> "judge", spec |-> seen.spec, verdict |-> ""]
    /\ copyFresh' = cacheFresh
    /\ UNCHANGED <<kind, obj, about, cacheFresh, world, timer, seen, reader,
                   changes, faults>>

\* NewProvider and HealthCheck, which may also run out of its 30 seconds; or
\* the validation of each entry.
Judge ==
    /\ work.pc = "judge"
    /\ \/ /\ work' = [work EXCEPT !.pc = "write", !.verdict = Verdict[kind][work.spec][world]]
          /\ UNCHANGED faults
       \/ /\ kind # "TSecret" /\ Verdict[kind][work.spec][world] # "Invalid"
          /\ Fault
          /\ work' = [work EXCEPT !.pc = "write", !.verdict = "Unavailable"]
    /\ UNCHANGED <<kind, objVars, world, queued, timer, seen, reader, changes>>

\* Mutant: the status is patched without a resourceVersion.
StatusAcceptedBlindly == obj.exists

\* r.Status().Update carries the resourceVersion the reconcile began with.
StatusAccepted == obj.exists /\ copyFresh

\* Mutant: the result is the empty ctrl.Result.
RequeueNever == UNCHANGED timer

\* The store controller ignores the error of the update and returns its
\* RequeueAfter; the TSecret controller returns its own, or the error, for
\* which controller-runtime backs off.  A timer follows either way.
RequeueAfter == timer' = TRUE

\* setStoreStatus, or setCondition and the update.  An update that says the
\* same within the same second leaves the object as it was.
Report ==
    /\ work.pc = "write"
    /\ \/ /\ StatusAccepted
          /\ obj' = [obj EXCEPT !.status = work.verdict]
          /\ about' = {work.spec}
          /\ \/ Written
             \/ obj' = obj /\ UNCHANGED <<cacheFresh, copyFresh>>
          /\ UNCHANGED faults
       \/ ~StatusAccepted /\ UNCHANGED <<objVars, faults>>
       \/ Fault /\ UNCHANGED objVars
    /\ work' = NoWork("idle")
    /\ RequeueAfter
    /\ UNCHANGED <<kind, world, queued, seen, reader, changes>>

Reconcile == BeginNotFound \/ Begin \/ Judge \/ Report

-----------------------------------------------------------------------------
(* controller-runtime.                                                     *)

\* What the two controllers are For(): none is for ClusterTSecretStore.
Reconciled == {"TSecretStore", "TSecret"}

Start ==
    /\ ~Up
    /\ work' = NoWork("idle")
    /\ seen' = obj /\ cacheFresh' = TRUE
    /\ queued' = (obj.exists /\ kind \in Reconciled)
    /\ UNCHANGED <<kind, obj, about, copyFresh, world, timer, reader, changes, faults>>

\* The operator dies, and with it the reconcile of the TSecretSync; the
\* injector is a process of its own.
Crash ==
    /\ Up /\ Fault
    /\ work' = NoWork("down") /\ queued' = FALSE /\ timer' = FALSE
    /\ seen' = NotSeen /\ cacheFresh' = FALSE /\ copyFresh' = FALSE
    /\ reader' = IF kind = "TSecret" THEN reader
                 ELSE Reading("idle", NoSpec, reader.result)
    /\ UNCHANGED <<kind, obj, about, world, changes>>

CacheObject ==
    /\ Up /\ ~cacheFresh
    /\ seen' = obj /\ cacheFresh' = TRUE
    /\ queued' = (queued \/ kind \in Reconciled)
    /\ UNCHANGED <<kind, obj, about, copyFresh, world, work, timer, reader,
                   changes, faults>>

TimerFires ==
    /\ timer
    /\ timer' = FALSE /\ queued' = TRUE
    /\ UNCHANGED <<kind, objVars, world, work, seen, reader, changes, faults>>

-----------------------------------------------------------------------------
(* The TSecretSync, or the injector.                                       *)

\* Mutant: a store must have been found Available.
OpenIfAvailable(o) == o.status = "Available"

\* resolveStore: a store passes unless it is known to be Unavailable.
Open(o) == o.status # "Unavailable"

\* resolveStore reads the store from the operator's cache.
ResolveStore ==
    /\ kind # "TSecret" /\ Up /\ reader.pc = "idle"
    /\ reader' = IF seen.exists /\ Open(seen)
                 THEN Reading("use", seen.spec, reader.result)
                 ELSE Reading("idle", NoSpec, "blocked")
    /\ UNCHANGED <<kind, objVars, world, work, queued, timer, seen, changes, faults>>

\* The injector reads the TSecret from the API server, whatever its status.
ReadTSecret ==
    /\ kind = "TSecret" /\ obj.exists /\ reader.pc = "idle"
    /\ reader' = Reading("use", obj.spec, reader.result)
    /\ UNCHANGED <<kind, objVars, world, work, queued, timer, seen, changes, faults>>

Use ==
    /\ reader.pc = "use"
    /\ \E result \in Outcomes[kind][reader.spec][world] :
          reader' = Reading("idle", NoSpec, result)
    /\ UNCHANGED <<kind, objVars, world, work, queued, timer, seen, changes, faults>>

-----------------------------------------------------------------------------
(* Users and the world.                                                    *)

Edit ==
    /\ obj.exists /\ Change
    /\ \E s \in SpecNames \ {obj.spec} : obj' = [obj EXCEPT !.spec = s]
    /\ Written
    /\ UNCHANGED <<kind, about, world, work, queued, timer, seen, reader, faults>>

Delete ==
    /\ obj.exists /\ Fault
    /\ obj' = [obj EXCEPT !.exists = FALSE]
    /\ Written
    /\ UNCHANGED <<kind, about, world, work, queued, timer, seen, reader, changes>>

WorldChange ==
    /\ Change
    /\ \E w \in WorldNames \ {world} : world' = w
    /\ UNCHANGED <<kind, objVars, work, queued, timer, seen, reader, faults>>

-----------------------------------------------------------------------------

Next ==
    \/ Reconcile
    \/ Start \/ Crash \/ CacheObject \/ TimerFires
    \/ ResolveStore \/ ReadTSecret \/ Use
    \/ Edit \/ Delete \/ WorldChange

Spec == Init /\ [][Next]_vars

\* Goroutines are scheduled, watches are delivered, timers fire, Kubernetes
\* restarts the operator, and a TSecretSync is reconciled again and again
\* (each of its results has a RequeueAfter).  No pod owes an injector's run.
Fairness ==
    /\ WF_vars(Reconcile) /\ WF_vars(Start)
    /\ WF_vars(CacheObject) /\ WF_vars(TimerFires)
    /\ WF_vars(ResolveStore) /\ WF_vars(Use)

FairSpec == Spec /\ Fairness

-----------------------------------------------------------------------------
(* Safety.                                                                 *)

\* The type invariant of every variable of the two controllers.
TypeOK ==
    /\ kind \in ObjectKinds
    /\ obj \in [exists : BOOLEAN, spec : SpecNames, status : Statuses]
    /\ about \in SUBSET SpecNames
    /\ world \in WorldNames
    /\ work \in [pc : {"down", "idle", "judge", "write"},
                 spec : SpecNames \cup {NoSpec}, verdict : Statuses]
    /\ queued \in BOOLEAN /\ timer \in BOOLEAN
    /\ seen \in [exists : BOOLEAN, spec : SpecNames \cup {NoSpec}, status : Statuses]
    /\ cacheFresh \in BOOLEAN /\ copyFresh \in BOOLEAN
    /\ reader \in [pc : {"idle", "use"}, spec : SpecNames \cup {NoSpec}, result : Results]
    /\ changes \in 0..MaxChanges
    /\ faults \in 0..MaxFaults

\* A verdict is only ever stored beside the spec it was reached about: an
\* edit during the probe or the validation never gets the verdict of the
\* spec it replaced, although the update's conflict is swallowed
\* (store_controller.go:81-84, tsecret_controller.go:70-73).
JudgedAsStored == [][obj'.status # obj.status => obj.spec = work.spec]_obj

\* The nonces have the length that the cipher asks for, which nothing checks.
NoncesFit(s) ==
    \A k \in DOMAIN s.data : s.data[k].value.nonce = NonceSize(s.data[k].value.algorithm)

DeclaresSupported(s) == \A k \in DOMAIN s.data : IsSupported(s.data[k].algorithm)

\* An injector's run ends as the stored condition, where it is about the spec
\* that the run has read, gives to expect, whatever is edited, rotated or
\* deleted since.  Of a Ready TSecret only the key, or an entry that is not
\* authentic under it, stops the run; the one exception is a nonce of the
\* wrong length, which is valid to the controller and makes the cipher panic.
\* A TSecret that is not Ready is decrypted only when what it declares was
\* all that was wrong with it (tsecret_controller.go:39-48 against
\* writer.go:33-53, encrypt.go:84-111, keyresolver.go).
ConditionForetellsUse ==
    [][kind = "TSecret" /\ reader.pc = "use" /\ about = {reader.spec} =>
          /\ obj.status = "True" =>
                \/ reader'.result \in {"ok", "nokey", "authentication"}
                \/ reader'.result = "panic" /\ ~NoncesFit(Specs[kind][reader.spec])
          /\ obj.status = "False" /\ reader'.result = "ok" =>
                ~DeclaresSupported(Specs[kind][reader.spec])]_reader

\* A value as Encrypt returns it.
IsSealed(v) ==
    /\ v.body.is = "sealed"
    /\ Encrypt(v.body.plain, v.body.key, v.body.algorithm) = Ok(v)

\* What a TSecretSync or the command-line tool has sealed is never judged
\* invalid, and opens under the key that sealed it, for both algorithms
\* (encrypt.go:56-111, sync_controller.go:81-91).
SealedStaysReadable ==
    kind = "TSecret" =>
        LET data == Specs[kind][obj.spec].data
        IN (\A k \in DOMAIN data : IsSealed(data[k].value)) =>
              /\ about = {obj.spec} /\ obj.status = "False" =>
                    \E k \in DOMAIN data : ~IsSupported(data[k].algorithm)
              /\ \A k \in DOMAIN data :
                    Decrypt(data[k].value, data[k].value.body.key) = "plain"

\* Neither controller forgets its object: when it is not at it, and its cache
\* has it as it is stored, the request is queued or a timer is set, whichever
\* probe, update or watch event went wrong before (store_controller.go:27-56,
\* tsecret_controller.go:28-75).
NeverForgotten ==
    kind \in Reconciled /\ work.pc = "idle" /\ obj.exists /\ cacheFresh => queued \/ timer

\* Azure and GCP are probed by listing their secrets: an identity that may
\* read but not list is judged Unavailable (azure.go:100-117, gcp.go:111-130).
MayNotList(s, w) ==
    /\ NewProvider(s).val.kind \in {"azure", "gcp"}
    /\ "list" \notin w.grants

\* The probe asks the service something else than a pull does, on a provider
\* of its own and without the credentials of ConfigureVaultAuth; still it never
\* shuts a store that a TSecretSync could pull from in the same world, a Vault
\* on standby included.  It says nothing of AWS and Oracle, whose requests are
\* unsigned and pull nothing, and it does not say that an Available store can
\* be read: it need not be (store_controller.go:38-52 against
\* sync_controller.go:58-92, vault.go:165).
ProbeNeverShuts ==
    kind # "TSecret" /\ Outcomes[kind][obj.spec][world] = {"ok"} /\ Wanted # {} =>
        \/ Verdict[kind][obj.spec][world] = "Available"
        \/ MayNotList(Specs[kind][obj.spec], Worlds[kind][world])

-----------------------------------------------------------------------------
(* Liveness.                                                               *)

\* README, "Health check periodico do provider": once edits, changes of the
\* world and faults stop, the status of a TSecretStore or TSecret is that of
\* its spec in the world as it is, and stays so: lost probes, conflicts and
\* crashes are made up for (store_controller.go:48, 55; tsecret_controller.go:75).
VerdictConverges ==
    <>[](obj.exists /\ kind \in Reconciled => obj.status = Verdict[kind][obj.spec][world])

\* The stores and worlds where nothing but that may keep secrets back.
Pullable ==
    [k \in ObjectKinds \ {"TSecret"} |->
        {sw \in (DOMAIN Specs[k]) \X (DOMAIN Worlds[k]) :
            /\ Outcomes[k][sw[1]][sw[2]] = {"ok"}
            /\ ~MayNotList(Specs[k][sw[1]], Worlds[k][sw[2]])}]

\* A store whose secrets can be pulled does not stay shut: whatever it was
\* judged before, and whether or not a controller judges its kind, the
\* TSecretSync gets its secrets again, unless the identity may not list
\* (sync_controller.go:151-183 with store_controller.go:27-56).
GateOpens ==
    []<>(kind # "TSecret" /\ obj.exists /\ <<obj.spec, world>> \in Pullable[kind]
         => reader.result = "ok")
=============================================================================
