----------------------------- MODULE CertManager -----------------------------
(***************************************************************************)
(* The TLS certificates of the webhook: EnsureCerts (pkg/certs/certs.go),  *)
(* which every operator process runs once when its controllers start       *)
(* (cmd/manager/main.go:134-140), and the bootstrap script                 *)
(* (config/deploy/bootstrap-webhook-certs.sh), run before the operator.    *)
(*                                                                         *)
(* Get is answered by an informer cache, which may lag; Create and Update  *)
(* go to the API server.  An error of EnsureCerts ends the process, which  *)
(* Kubernetes starts again.  Processes may overlap: --leader-elect is off  *)
(* by default, and with it on their runs are some of those modelled here.  *)
(***************************************************************************)
EXTENDS Integers, Sequences

CONSTANTS
    Replicas,   \* the operator processes
    Lifetime,   \* ServingCertValidityDuration, in ticks
    Threshold,  \* RenewalThreshold, in ticks
    CAs,        \* the CA key pairs that can be generated
    NoCA,
    MaxTime,    \* bound: ticks of the clock
    MaxFaults,  \* bound: crashes, failed calls, lost replies
    MaxLosses   \* bound: CA Secrets deleted or replaced under the operator

ASSUME BoundsAssumption ==
    /\ MaxTime \in Nat /\ MaxFaults \in Nat /\ MaxLosses \in Nat
    /\ NoCA \notin CAs

\* A certificate just issued is not due.
ASSUME LifetimeAssumption ==
    /\ Lifetime \in Nat /\ Threshold \in Nat \ {0}
    /\ Lifetime >= Threshold

VARIABLES
    secrets,  \* the two Secrets, tsecret-ca and tsecret-webhook-certs, after each write
    configs,  \* the MutatingWebhookConfiguration after each write
    proc,     \* proc[r]: EnsureCerts in process r, and its informer caches
    script,   \* the bootstrap script
    now,      \* the clock
    faults,   \* how many faults have happened
    losses    \* how many CA Secrets were lost

vars == <<secrets, configs, proc, script, now, faults, losses>>

-----------------------------------------------------------------------------
(* Data. *)

\* tls.crt of tsecret-webhook-certs: the CA that signed it, its NotAfter, and
\* the write that stored it, which stands for the object's resourceVersion.
NoCert == [signer |-> NoCA, until |-> 0, at |-> 0]
Cert(c, until, at) == [signer |-> c, until |-> until, at |-> at]

\* The stored state is the last of the history.
Stored(history) == history[Len(history)]

StoredSecrets == Stored(secrets)
StoredConfig == Stored(configs)

\* What Get returns to r.
CachedSecrets(r) == secrets[proc[r].seenSecrets]
CachedConfig(r) == configs[proc[r].seenConfigs]

StoreCA(c) == secrets' = Append(secrets, [StoredSecrets EXCEPT !.ca = c])
StoreCert(c, until) ==
    secrets' = Append(secrets, [StoredSecrets EXCEPT !.serving = Cert(c, until, Len(secrets) + 1)])
StoreBundle(c) == configs' = Append(configs, [StoredConfig EXCEPT !.bundle = c])

\* The key pairs nobody has: freshly generated keys never collide.
Unused == CAs \ ({secrets[i].ca : i \in 1..Len(secrets)}
                 \cup {proc[r].ca : r \in Replicas} \cup {script.ca})
NewCA == CHOOSE c \in Unused : TRUE

\* A process that has not begun; seenSecrets and seenConfigs say how many of
\* the writes its caches have.
Down == [pc |-> "down", ca |-> NoCA, until |-> 0, copy |-> 0,
         seenSecrets |-> 1, seenConfigs |-> 1]

Up(r) == proc[r].pc # "down"
Running(r) == proc[r].pc \notin {"down", "ready"}

Fault ==
    /\ faults < MaxFaults
    /\ faults' = faults + 1

-----------------------------------------------------------------------------
(* Nothing is stored yet, except perhaps the webhook configuration.        *)

Init ==
    /\ secrets = <<[ca |-> NoCA, serving |-> NoCert]>>
    /\ configs \in {<<[exists |-> e, bundle |-> NoCA]>> : e \in BOOLEAN}
    /\ proc = [r \in Replicas |-> Down]
    /\ script = [pc |-> "waiting", ca |-> NoCA]
    /\ now = 0 /\ faults = 0 /\ losses = 0

-----------------------------------------------------------------------------
(* EnsureCerts.                                                            *)

\* Mutant: the runnable logs the error and returns nil.
ExitLogged(r) == proc' = [proc EXCEPT ![r] = [Down EXCEPT !.pc = "ready"]]

\* An error is returned through every caller: mgr.Start returns it and the
\* process exits.
Exit(r) == proc' = [proc EXCEPT ![r] = Down]

\* The next function of EnsureCerts begins.
Goto(r, pc) == proc' = [proc EXCEPT ![r].pc = pc, ![r].until = 0, ![r].copy = 0]

\* EnsureCerts returns nil; the runnable is over and the process stays up.
Return(r) == proc' = [proc EXCEPT ![r] = [Down EXCEPT !.pc = "ready"]]

\* ensureCA: the CA is read, or a new one is generated.
EnsureCA(r) ==
    /\ proc[r].pc = "ca"
    /\ LET ca == CachedSecrets(r).ca
       IN \/ ca # NoCA /\ proc' = [proc EXCEPT ![r].pc = "serving", ![r].ca = ca]
          \/ /\ ca = NoCA /\ Unused # {}
             /\ proc' = [proc EXCEPT ![r].pc = "create", ![r].ca = NewCA]
    /\ UNCHANGED <<secrets, configs, script, now, faults, losses>>

\* Mutant: AlreadyExists is taken for success.
AlreadyExistsIgnored(r) == Goto(r, "serving")

\* Create of a name that is taken fails with AlreadyExists.
AlreadyExists(r) == Exit(r)

\* Client.Create of tsecret-ca.
CreateCA(r) ==
    /\ proc[r].pc = "create"
    /\ \/ /\ StoredSecrets.ca = NoCA
          /\ StoreCA(proc[r].ca)
          /\ Goto(r, "serving")
          /\ UNCHANGED faults
       \/ /\ StoredSecrets.ca # NoCA
          /\ AlreadyExists(r)
          /\ UNCHANGED <<secrets, faults>>
       \/ \* the request is lost
          Fault /\ Exit(r) /\ UNCHANGED secrets
       \/ \* its reply is lost
          Fault /\ Exit(r) /\ StoredSecrets.ca = NoCA /\ StoreCA(proc[r].ca)
    /\ UNCHANGED <<configs, script, now, losses>>

\* Mutant: the validity is subtracted.
NotAfterBackwards == now - Lifetime

\* time.Now().Add(ServingCertValidityDuration)
NotAfter == now + Lifetime

\* remaining < RenewalThreshold
Due(cert) == cert = NoCert \/ cert.until - now < Threshold

\* ensureServingCert asks NeedsRenewal, and signs a new certificate if so.
EnsureServingCert(r) ==
    /\ proc[r].pc = "serving"
    /\ \/ /\ ~Due(CachedSecrets(r).serving)
          /\ Goto(r, "patch")
       \/ /\ Due(CachedSecrets(r).serving)
          /\ proc' = [proc EXCEPT ![r].pc = "read", ![r].until = NotAfter]
    /\ UNCHANGED <<secrets, configs, script, now, faults, losses>>

\* The second Get of tsecret-webhook-certs: what it returns is not looked at
\* again, only overwritten.
ReadServing(r) ==
    /\ proc[r].pc = "read"
    /\ proc' = [proc EXCEPT ![r].pc = "store", ![r].copy = CachedSecrets(r).serving.at]
    /\ UNCHANGED <<secrets, configs, script, now, faults, losses>>

\* Create if the Get said NotFound, else Update, which is accepted only at
\* the stored resourceVersion.
StoreServing(r) ==
    /\ proc[r].pc = "store"
    /\ LET accepted == StoredSecrets.serving.at = proc[r].copy
           Store == StoreCert(proc[r].ca, proc[r].until)
       IN \/ accepted /\ Store /\ Goto(r, "patch") /\ UNCHANGED faults
          \/ ~accepted /\ Exit(r) /\ UNCHANGED <<secrets, faults>>
          \/ Fault /\ Exit(r) /\ UNCHANGED secrets
          \/ Fault /\ Exit(r) /\ accepted /\ Store
    /\ UNCHANGED <<configs, script, now, losses>>

\* clientConfig.caBundle is not the CA this run ensured.
BundleDiffers(r) == CachedConfig(r).bundle # proc[r].ca

\* patchWebhookCABundle reads the configuration; if there is none, or it has
\* the bundle already, EnsureCerts is over.
ReadConfig(r) ==
    /\ proc[r].pc = "patch"
    /\ \/ /\ CachedConfig(r).exists /\ BundleDiffers(r)
          /\ proc' = [proc EXCEPT ![r].pc = "update", ![r].copy = proc[r].seenConfigs]
       \/ /\ ~(CachedConfig(r).exists /\ BundleDiffers(r))
          /\ Return(r)
    /\ UNCHANGED <<secrets, configs, script, now, faults, losses>>

\* Client.Update of the configuration.
UpdateConfig(r) ==
    /\ proc[r].pc = "update"
    /\ LET accepted == proc[r].copy = Len(configs)
       IN \/ accepted /\ StoreBundle(proc[r].ca) /\ Return(r) /\ UNCHANGED faults
          \/ ~accepted /\ Exit(r) /\ UNCHANGED <<configs, faults>>
          \/ Fault /\ Exit(r) /\ UNCHANGED configs
          \/ Fault /\ Exit(r) /\ accepted /\ StoreBundle(proc[r].ca)
    /\ UNCHANGED <<secrets, script, now, losses>>

-----------------------------------------------------------------------------
(* Processes and their caches.                                             *)

\* The deployment is applied when the script is over, or without it (Helm).
\* The informers list before the runnable starts.
Start(r) ==
    /\ ~Up(r)
    /\ script.pc \in {"waiting", "over"}
    /\ proc' = [proc EXCEPT ![r] = [Down EXCEPT !.pc = "ca", !.seenSecrets = Len(secrets),
                                               !.seenConfigs = Len(configs)]]
    /\ script' = [script EXCEPT !.pc = "over"]
    /\ UNCHANGED <<secrets, configs, now, faults, losses>>

Crash(r) ==
    /\ Up(r)
    /\ Fault
    /\ Exit(r)
    /\ UNCHANGED <<secrets, configs, script, now, losses>>

\* Events arrive one by one and in order; nothing here reads the caches when
\* EnsureCerts is over.
CacheSecrets(r) ==
    /\ Running(r) /\ proc[r].seenSecrets < Len(secrets)
    /\ proc' = [proc EXCEPT ![r].seenSecrets = @ + 1]
    /\ UNCHANGED <<secrets, configs, script, now, faults, losses>>

CacheConfig(r) ==
    /\ Running(r) /\ proc[r].seenConfigs < Len(configs)
    /\ proc' = [proc EXCEPT ![r].seenConfigs = @ + 1]
    /\ UNCHANGED <<secrets, configs, script, now, faults, losses>>

-----------------------------------------------------------------------------
(* The bootstrap script.  kubectl apply and the JSON patch overwrite       *)
(* whatever is there.                                                      *)

ScriptBegins ==
    /\ \/ script.pc = "waiting" /\ UNCHANGED losses
       \/ \* it is run again, beside the operator
          /\ script.pc = "over"
          /\ losses < MaxLosses /\ losses' = losses + 1
    /\ Unused # {}
    /\ script' = [pc |-> "ca", ca |-> NewCA]
    /\ UNCHANGED <<secrets, configs, proc, now, faults>>

ScriptCA ==
    /\ script.pc = "ca"
    /\ StoreCA(script.ca)
    /\ script' = [script EXCEPT !.pc = "serving"]
    /\ UNCHANGED <<configs, proc, now, faults, losses>>

ScriptServing ==
    /\ script.pc = "serving"
    /\ StoreCert(script.ca, now + Lifetime)
    /\ script' = [script EXCEPT !.pc = "config"]
    /\ UNCHANGED <<configs, proc, now, faults, losses>>

\* Without a configuration it exits 1, having stored both Secrets.
ScriptConfig ==
    /\ script.pc = "config"
    /\ \/ StoredConfig.exists /\ StoreBundle(script.ca)
       \/ ~StoredConfig.exists /\ UNCHANGED configs
    /\ script' = [pc |-> "over", ca |-> NoCA]
    /\ UNCHANGED <<secrets, proc, now, faults, losses>>

\* set -e: the first failure ends it.
ScriptDies ==
    /\ script.pc \in {"ca", "serving", "config"}
    /\ Fault
    /\ script' = [pc |-> "over", ca |-> NoCA]
    /\ UNCHANGED <<secrets, configs, proc, now, losses>>

-----------------------------------------------------------------------------
(* The cluster.                                                            *)

InstallConfig ==
    /\ ~StoredConfig.exists
    /\ configs' = Append(configs, [exists |-> TRUE, bundle |-> NoCA])
    /\ UNCHANGED <<secrets, proc, script, now, faults, losses>>

LoseCA ==
    /\ StoredSecrets.ca # NoCA
    /\ losses < MaxLosses /\ losses' = losses + 1
    /\ StoreCA(NoCA)
    /\ UNCHANGED <<configs, proc, script, now, faults>>

Tick ==
    /\ now < MaxTime
    /\ now' = now + 1
    /\ UNCHANGED <<secrets, configs, proc, script, faults, losses>>

-----------------------------------------------------------------------------

EnsureCerts(r) ==
    \/ EnsureCA(r) \/ CreateCA(r)
    \/ EnsureServingCert(r) \/ ReadServing(r) \/ StoreServing(r)
    \/ ReadConfig(r) \/ UpdateConfig(r)

Script == ScriptBegins \/ ScriptCA \/ ScriptServing \/ ScriptConfig \/ ScriptDies

Next ==
    \/ \E r \in Replicas :
          EnsureCerts(r) \/ Start(r) \/ Crash(r) \/ CacheSecrets(r) \/ CacheConfig(r)
    \/ Script
    \/ InstallConfig \/ LoseCA \/ Tick

Spec == Init /\ [][Next]_vars

\* A process runs, is started again after it exits, and its watches deliver;
\* the script, once begun, goes on.
Fairness ==
    /\ \A r \in Replicas : /\ WF_vars(EnsureCerts(r)) /\ WF_vars(Start(r))
                           /\ WF_vars(CacheSecrets(r)) /\ WF_vars(CacheConfig(r))
    /\ WF_vars(ScriptCA \/ ScriptServing \/ ScriptConfig)

FairSpec == Spec /\ Fairness

-----------------------------------------------------------------------------
(* Properties.                                                             *)

CertType == [signer : CAs \cup {NoCA}, until : Nat, at : Nat]

\* The type invariant.
TypeOK ==
    /\ secrets \in Seq([ca : CAs \cup {NoCA}, serving : CertType]) /\ secrets # <<>>
    /\ configs \in Seq([exists : BOOLEAN, bundle : CAs \cup {NoCA}]) /\ configs # <<>>
    /\ proc \in [Replicas ->
                    [pc : {"down", "ca", "create", "serving", "read", "store",
                           "patch", "update", "ready"},
                     ca : CAs \cup {NoCA}, until : Nat, copy : Nat,
                     seenSecrets : 1..Len(secrets), seenConfigs : 1..Len(configs)]]
    /\ script \in [pc : {"waiting", "ca", "serving", "config", "over"}, ca : CAs \cup {NoCA}]
    /\ now \in 0..MaxTime /\ faults \in 0..MaxFaults /\ losses \in 0..MaxLosses

\* The API server trusts the webhook: the stored bundle is the CA that signed
\* the stored certificate.
Trusted == StoredSecrets.serving # NoCert /\ StoredConfig.bundle = StoredSecrets.serving.signer

\* As long as nobody takes the CA Secret away, however processes race at
\* their start, crash, or read stale caches, and whoever renews, the bundle
\* and the certificate never come from two CAs (certs.go:61-84, 189, 271-290).
BundleFitsServing ==
    losses = 0 /\ StoredConfig.bundle # NoCA => Trusted

\* Even then, nothing is signed with a CA whose key was never stored, and the
\* API server is never told to trust one: a lost race or reply cannot leave a
\* certificate that no later run can renew under the same CA.
EverStored == {secrets[i].ca : i \in 1..Len(secrets)}
OnlyStoredCAs ==
    /\ StoredSecrets.serving.signer \in EverStored
    /\ StoredConfig.bundle \in EverStored

\* A run of EnsureCerts that returns nil has done its work: with a webhook
\* configuration there from the start, a process that is over with it leaves
\* the API server trusting the webhook, whatever its caches showed it and
\* whoever else stored the CA, the certificate or the bundle (certs.go:61-84,
\* 271-304).
ReadyMeansTrusted ==
    losses = 0 /\ configs[1].exists /\ (\E r \in Replicas : proc[r].pc = "ready") => Trusted

-----------------------------------------------------------------------------
(* The abstract specification.                                             *)

Chain == INSTANCE TrustChain WITH
    ca     <- StoredSecrets.ca,
    ever   <- EverStored,
    signer <- StoredSecrets.serving.signer,
    bundle <- StoredConfig.bundle,
    taken  <- (losses # 0)

\* Whoever creates, signs and patches, in whatever order the processes and the
\* script get to it, crash or lose a reply: each step is one that TrustChain
\* allows, or changes nothing of the chain.
ImplementsTrustChain == Chain!TrustSpec

-----------------------------------------------------------------------------
(* Liveness, and what the documents say.                                   *)

\* Unless its CA is taken away, the operator reaches trust and keeps it:
\* conflicts and crashes at the start only delay it.  A configuration that is
\* created after the last process has passed patchWebhookCABundle is not
\* covered: it waits for the next restart.
EventuallyTrusted ==
    configs[1].exists /\ [](losses = 0) => <>[]Trusted

\* certs.go:61 says "EnsureCerts ensures CA and serving certificates exist and
\* are valid": when a run has just stored a bundle and is done, and the CA it
\* ensured is still the stored one, the API server trusts the certificate.
EnsuredIsTrusted ==
    [][\A r \in Replicas :
          /\ proc[r].pc = "update" /\ proc'[r].pc = "ready"
          /\ proc[r].ca = StoredSecrets.ca /\ script.pc = "over"
          => Trusted']_proc

\* certs.go:9 says "Periodically check certificate expiry and rotate before
\* expiration": a stored certificate that is due is replaced.
RotatedInTime ==
    (StoredSecrets.serving # NoCert /\ Due(StoredSecrets.serving))
        ~> ~Due(StoredSecrets.serving)
=============================================================================
