-------------------------- MODULE CertManagerProofs --------------------------
(***************************************************************************)
(* Theorems about CertManager, for every number of processes, every set of *)
(* CAs, and every bound on time, faults and losses.                        *)
(***************************************************************************)
EXTENDS CertManager, TLAPS

-----------------------------------------------------------------------------
(* Histories.                                                              *)

\* An append keeps the past and becomes the stored state.
LEMMA Appended ==
    ASSUME NEW S, NEW h \in Seq(S), h # <<>>, NEW x \in S
    PROVE  /\ Append(h, x) \in Seq(S) /\ Append(h, x) # <<>>
           /\ Len(Append(h, x)) = Len(h) + 1
           /\ Stored(Append(h, x)) = x
           /\ \A i \in 1..Len(h) : Append(h, x)[i] = h[i]
BY DEF Stored

LEMMA StoredType ==
    ASSUME NEW S, NEW h \in Seq(S), h # <<>>
    PROVE  Stored(h) \in S /\ Len(h) \in Nat /\ Len(h) >= 1 /\ Stored(h) = h[Len(h)]
BY DEF Stored

-----------------------------------------------------------------------------
(* Types.                                                                  *)

AnyCA == CAs \cup {NoCA}
SecretsType == [ca : AnyCA, serving : CertType]
ConfigType == [exists : BOOLEAN, bundle : AnyCA]
Pcs == {"down", "ca", "create", "serving", "read", "store", "patch", "update", "ready"}
Process(m, n) ==
    [pc : Pcs, ca : AnyCA, until : Nat, copy : Nat, seenSecrets : 1..m, seenConfigs : 1..n]

\* What TypeOK says of the variables that processes and the script share.
LEMMA Types ==
    ASSUME TypeOK
    PROVE  /\ secrets \in Seq(SecretsType) /\ secrets # <<>>
           /\ configs \in Seq(ConfigType) /\ configs # <<>>
           /\ proc \in [Replicas -> Process(Len(secrets), Len(configs))]
           /\ script \in [pc : {"waiting", "ca", "serving", "config", "over"}, ca : AnyCA]
           /\ now \in Nat
           /\ Len(secrets) \in Nat /\ Len(secrets) >= 1
           /\ Len(configs) \in Nat /\ Len(configs) >= 1
           /\ StoredSecrets \in SecretsType /\ StoredConfig \in ConfigType
           /\ StoredSecrets = secrets[Len(secrets)]
<1>1. /\ secrets \in Seq(SecretsType) /\ secrets # <<>>
      /\ configs \in Seq(ConfigType) /\ configs # <<>>
      /\ proc \in [Replicas -> Process(Len(secrets), Len(configs))]
      /\ script \in [pc : {"waiting", "ca", "serving", "config", "over"}, ca : AnyCA]
  BY DEF TypeOK, SecretsType, ConfigType, Process, Pcs, AnyCA
<1>2. now \in Nat
  BY BoundsAssumption DEF TypeOK
<1>3. QED
  BY <1>1, <1>2, StoredType DEF StoredSecrets, StoredConfig

\* A replica's process and caches, field by field.
LEMMA ProcessTypes ==
    ASSUME TypeOK, NEW r \in Replicas
    PROVE  /\ proc[r] \in Process(Len(secrets), Len(configs))
           /\ proc[r].pc \in Pcs /\ proc[r].ca \in AnyCA
           /\ proc[r].until \in Nat /\ proc[r].copy \in Nat
           /\ proc[r].seenSecrets \in 1..Len(secrets)
           /\ proc[r].seenConfigs \in 1..Len(configs)
           /\ CachedSecrets(r) \in SecretsType /\ CachedConfig(r) \in ConfigType
<1>1. proc[r] \in Process(Len(secrets), Len(configs))
  BY Types
<1>2. /\ proc[r].pc \in Pcs /\ proc[r].ca \in AnyCA
      /\ proc[r].until \in Nat /\ proc[r].copy \in Nat
      /\ proc[r].seenSecrets \in 1..Len(secrets)
      /\ proc[r].seenConfigs \in 1..Len(configs)
  BY <1>1 DEF Process
<1>3. CachedSecrets(r) \in SecretsType /\ CachedConfig(r) \in ConfigType
  BY <1>2, Types DEF CachedSecrets, CachedConfig
<1>4. QED
  BY <1>1, <1>2, <1>3

-----------------------------------------------------------------------------
(* What the writes do.                                                     *)

\* The secrets are longer by one write, or as they were.
Longer(x) ==
    /\ secrets' \in Seq(SecretsType) /\ secrets' # <<>>
    /\ Len(secrets') = Len(secrets) + 1
    /\ StoredSecrets' = x
    /\ secrets'[Len(secrets) + 1] = x
    /\ \A i \in 1..Len(secrets) : secrets'[i] = secrets[i]

LEMMA LongerBy ==
    ASSUME TypeOK, NEW x \in SecretsType, secrets' = Append(secrets, x)
    PROVE  Longer(x)
BY Types, Appended DEF Longer, StoredSecrets, Stored

LEMMA CAStored ==
    ASSUME TypeOK, NEW c \in AnyCA, StoreCA(c)
    PROVE  Longer([ca |-> c, serving |-> StoredSecrets.serving])
<1>1. [StoredSecrets EXCEPT !.ca = c] = [ca |-> c, serving |-> StoredSecrets.serving]
      /\ [ca |-> c, serving |-> StoredSecrets.serving] \in SecretsType
  BY Types DEF SecretsType
<1>2. QED
  BY <1>1, LongerBy DEF StoreCA

LEMMA CertStored ==
    ASSUME TypeOK, NEW c \in AnyCA, NEW until \in Nat, StoreCert(c, until)
    PROVE  Longer([ca |-> StoredSecrets.ca, serving |-> Cert(c, until, Len(secrets) + 1)])
<1>1. Cert(c, until, Len(secrets) + 1) \in CertType
  BY Types DEF Cert, CertType, AnyCA
<1>2. /\ [StoredSecrets EXCEPT !.serving = Cert(c, until, Len(secrets) + 1)]
           = [ca |-> StoredSecrets.ca, serving |-> Cert(c, until, Len(secrets) + 1)]
      /\ [ca |-> StoredSecrets.ca, serving |-> Cert(c, until, Len(secrets) + 1)] \in SecretsType
  BY <1>1, Types DEF SecretsType
<1>3. QED
  BY <1>2, LongerBy DEF StoreCert

ConfigLonger(x) ==
    /\ configs' \in Seq(ConfigType) /\ configs' # <<>>
    /\ Len(configs') = Len(configs) + 1
    /\ StoredConfig' = x
    /\ configs'[Len(configs) + 1] = x
    /\ \A i \in 1..Len(configs) : configs'[i] = configs[i]

LEMMA ConfigLongerBy ==
    ASSUME TypeOK, NEW x \in ConfigType, configs' = Append(configs, x)
    PROVE  ConfigLonger(x)
BY Types, Appended DEF ConfigLonger, StoredConfig, Stored

LEMMA BundleStored ==
    ASSUME TypeOK, NEW c \in AnyCA, StoreBundle(c)
    PROVE  ConfigLonger([exists |-> StoredConfig.exists, bundle |-> c])
<1>1. /\ [StoredConfig EXCEPT !.bundle = c] = [exists |-> StoredConfig.exists, bundle |-> c]
      /\ [exists |-> StoredConfig.exists, bundle |-> c] \in ConfigType
  BY Types DEF ConfigType
<1>2. QED
  BY <1>1, ConfigLongerBy DEF StoreBundle

-----------------------------------------------------------------------------
(* Steps of one process.                                                   *)

\* r's process becomes p, and the others stay.
Becomes(r, p) == proc' = [proc EXCEPT ![r] = p]

\* Histories that grow leave every process well typed.
LEMMA Widen ==
    ASSUME TypeOK, secrets' \in Seq(SecretsType), configs' \in Seq(ConfigType),
           Len(secrets') >= Len(secrets), Len(configs') >= Len(configs)
    PROVE  Process(Len(secrets), Len(configs)) \subseteq Process(Len(secrets'), Len(configs'))
<1>1. 1..Len(secrets) \subseteq 1..Len(secrets') /\ 1..Len(configs) \subseteq 1..Len(configs')
  BY Types
<1>2. QED
  BY <1>1 DEF Process

LEMMA BecomesTyped ==
    ASSUME TypeOK, NEW r \in Replicas, NEW p \in Process(Len(secrets'), Len(configs')),
           Becomes(r, p),
           secrets' \in Seq(SecretsType), configs' \in Seq(ConfigType),
           Len(secrets') >= Len(secrets), Len(configs') >= Len(configs)
    PROVE  proc' \in [Replicas -> Process(Len(secrets'), Len(configs'))]
<1>1. proc \in [Replicas -> Process(Len(secrets'), Len(configs'))]
  BY Types, Widen
<1>2. QED
  BY <1>1 DEF Becomes

\* Read off the next state what r has become.
LEMMA Became ==
    ASSUME TypeOK, NEW r \in Replicas, NEW p, Becomes(r, p)
    PROVE  proc'[r] = p /\ \A s \in Replicas : s # r => proc'[s] = proc[s]
BY Types DEF Becomes

Over(pc) == [pc |-> pc, ca |-> NoCA, until |-> 0, copy |-> 0, seenSecrets |-> 1, seenConfigs |-> 1]

LEMMA OverType ==
    ASSUME TypeOK, NEW pc \in Pcs
    PROVE  Over(pc) \in Process(Len(secrets), Len(configs))
BY Types DEF Over, Process, AnyCA

LEMMA Ends ==
    ASSUME NEW r \in Replicas
    PROVE  /\ Exit(r) => Becomes(r, Over("down"))
           /\ Return(r) => Becomes(r, Over("ready"))
BY DEF Exit, Return, Down, Over, Becomes

LEMMA Goes ==
    ASSUME TypeOK, NEW r \in Replicas, NEW pc \in Pcs, Goto(r, pc)
    PROVE  \E p \in Process(Len(secrets), Len(configs)) :
              Becomes(r, p) /\ p.pc = pc /\ p.ca = proc[r].ca
<1>1. proc[r] \in Process(Len(secrets), Len(configs)) /\ r \in DOMAIN proc
  BY Types, ProcessTypes
<1> DEFINE p1 == [proc[r] EXCEPT !.pc = pc]
           p2 == [p1 EXCEPT !.until = 0]
           p3 == [p2 EXCEPT !.copy = 0]
           f1 == [proc EXCEPT ![r] = p1]
           f2 == [f1 EXCEPT ![r] = p2]
           P  == Process(Len(secrets), Len(configs))
<1>2. f1[r] = p1 /\ f2[r] = p2 /\ r \in DOMAIN f1 /\ r \in DOMAIN f2
  BY <1>1
<1>3. proc' = [f2 EXCEPT ![r] = p3]
  BY <1>2 DEF Goto
<1>4. [f2 EXCEPT ![r] = p3] = [proc EXCEPT ![r] = p3]
  OBVIOUS
<1>5. p1 \in P /\ p1.pc = pc /\ p1.ca = proc[r].ca
  BY <1>1 DEF Process
<1>6. p2 \in P /\ p2.pc = pc /\ p2.ca = proc[r].ca
  <2> HIDE DEF p1
  <2>1. QED
    BY <1>5 DEF Process
<1>7. p3 \in P /\ p3.pc = pc /\ p3.ca = proc[r].ca
  <2> HIDE DEF p2
  <2>1. QED
    BY <1>6 DEF Process
<1>8. QED
  BY <1>3, <1>4, <1>7 DEF Becomes

-----------------------------------------------------------------------------
(* The kinds of steps.                                                     *)

\* Past ensureCA, a process relies on the CA it holds.
Ensured == {"serving", "read", "store", "patch", "update"}

Rest == UNCHANGED <<script, now, losses>> /\ faults' \in 0..MaxFaults

\* r reads, or ends, and writes nothing.
Quiet(r) ==
    /\ Rest /\ UNCHANGED <<secrets, configs>>
    /\ proc[r].pc # "down"
    /\ \E p \in Process(Len(secrets), Len(configs)) :
          /\ Becomes(r, p)
          /\ p.pc \in Ensured =>
                \/ proc[r].pc \in Ensured /\ p.ca = proc[r].ca
                \/ p.ca = CachedSecrets(r).ca /\ p.ca # NoCA
          /\ p.pc = "create" =>
                p.ca # NoCA \/ (proc[r].pc = "create" /\ p.ca = proc[r].ca)
          /\ p.pc \in {"patch", "update"} =>
                proc[r].pc \in {"patch", "update"} \/ CachedSecrets(r).serving # NoCert
          /\ p.pc = "update" =>
                \/ proc[r].pc = "update" /\ p.copy = proc[r].copy
                \/ CachedConfig(r).exists /\ p.copy = proc[r].seenConfigs
          /\ p.pc = "ready" =>
                /\ proc[r].pc = "patch"
                /\ CachedConfig(r).exists => CachedConfig(r).bundle = proc[r].ca

\* r goes on to pc with its CA, or ends.
Continues(r, pc) ==
    \E p \in Process(Len(secrets), Len(configs)) :
       /\ Becomes(r, p)
       /\ p.pc = "down" \/ (p.pc = pc /\ p.ca = proc[r].ca)

MakesCA(r) ==
    /\ Rest /\ UNCHANGED configs
    /\ proc[r].pc = "create" /\ StoredSecrets.ca = NoCA
    /\ Longer([ca |-> proc[r].ca, serving |-> StoredSecrets.serving])
    /\ Continues(r, "serving")

MakesCert(r) ==
    /\ Rest /\ UNCHANGED configs
    /\ proc[r].pc = "store"
    /\ Longer([ca |-> StoredSecrets.ca,
               serving |-> Cert(proc[r].ca, proc[r].until, Len(secrets) + 1)])
    /\ Continues(r, "patch")

MakesBundle(r) ==
    /\ Rest /\ UNCHANGED secrets
    /\ proc[r].pc = "update"
    /\ proc[r].copy = Len(configs)
    /\ ConfigLonger([exists |-> StoredConfig.exists, bundle |-> proc[r].ca])
    /\ \E p \in Process(Len(secrets), Len(configs)) :
          Becomes(r, p) /\ p.pc \in {"down", "ready"}

LEMMA FaultCounted == ASSUME TypeOK PROVE Fault \/ UNCHANGED faults => faults' \in 0..MaxFaults
BY BoundsAssumption DEF TypeOK, Fault

\* An error is a quiet end.
LEMMA QuietExit ==
    ASSUME TypeOK, NEW r \in Replicas, proc[r].pc # "down",
           Rest, UNCHANGED <<secrets, configs>>, Exit(r)
    PROVE  Quiet(r)
<1>1. Over("down") \in Process(Len(secrets), Len(configs)) /\ Becomes(r, Over("down"))
  BY OverType, Ends DEF Pcs
<1>2. Over("down").pc = "down"
  BY DEF Over
<1>3. QED
  BY <1>1, <1>2 DEF Quiet, Ensured

LEMMA ExitContinues ==
    ASSUME TypeOK, NEW r \in Replicas, NEW pc, Exit(r) PROVE Continues(r, pc)
<1>1. Over("down") \in Process(Len(secrets), Len(configs)) /\ Becomes(r, Over("down"))
  BY OverType, Ends DEF Pcs
<1>2. Over("down").pc = "down"
  BY DEF Over
<1>3. QED
  BY <1>1, <1>2 DEF Continues

LEMMA UnusedIsCA == ASSUME Unused # {} PROVE NewCA \in CAs /\ NewCA # NoCA
BY BoundsAssumption DEF NewCA, Unused

LEMMA EnsureCAStep == ASSUME TypeOK, NEW r \in Replicas, EnsureCA(r) PROVE Quiet(r)
<1> DEFINE ca == CachedSecrets(r).ca
<1>0. /\ proc[r].pc = "ca" /\ Rest /\ UNCHANGED <<secrets, configs>>
      /\ ca \in AnyCA /\ "serving" \in Pcs /\ "create" \in Pcs /\ 0 \in Nat
  BY FaultCounted, ProcessTypes DEF EnsureCA, Rest, Pcs, SecretsType
<1>1. CASE ca # NoCA /\ proc' = [proc EXCEPT ![r].pc = "serving", ![r].ca = ca]
  <2> DEFINE p == [proc[r] EXCEPT !.pc = "serving"]
             q == [p EXCEPT !.ca = ca]
             f == [proc EXCEPT ![r] = p]
  <2>1. p \in Process(Len(secrets), Len(configs)) /\ p.pc = "serving" /\ p.ca = proc[r].ca
    BY <1>0, ProcessTypes DEF Process
  <2>2. f[r] = p /\ proc' = [f EXCEPT ![r] = q]
    BY <1>1, Types
  <2>3. Becomes(r, q)
    <3> HIDE DEF p, q
    <3>1. QED
      BY <2>2 DEF Becomes
  <2> HIDE DEF p
  <2>4. /\ q \in Process(Len(secrets), Len(configs))
       /\ q.pc = "serving" /\ q.ca = ca
    BY <1>0, <2>1 DEF Process
  <2> HIDE DEF q
  <2>5. QED
    BY <1>0, <1>1, <2>3, <2>4 DEF Quiet
<1>2. CASE /\ Unused # {}
           /\ proc' = [proc EXCEPT ![r].pc = "create", ![r].ca = NewCA]
  <2>0. NewCA \in AnyCA /\ NewCA # NoCA
    BY <1>2, UnusedIsCA DEF AnyCA
  <2> DEFINE p == [proc[r] EXCEPT !.pc = "create"]
             q == [p EXCEPT !.ca = NewCA]
             f == [proc EXCEPT ![r] = p]
  <2>1. p \in Process(Len(secrets), Len(configs)) /\ p.pc = "create" /\ p.ca = proc[r].ca
    BY <1>0, ProcessTypes DEF Process
  <2>2. f[r] = p /\ proc' = [f EXCEPT ![r] = q]
    BY <1>2, Types
  <2>3. Becomes(r, q)
    <3> HIDE DEF p, q
    <3>1. QED
      BY <2>2 DEF Becomes
  <2> HIDE DEF p
  <2>4. /\ q \in Process(Len(secrets), Len(configs))
       /\ q.pc = "create" /\ q.ca = NewCA
    BY <1>0, <2>1, <2>0 DEF Process
  <2> HIDE DEF q
  <2>5. QED
    BY <1>0, <2>0, <2>3, <2>4 DEF Quiet, Ensured
<1>3. QED
  BY <1>1, <1>2 DEF EnsureCA

LEMMA EnsureServingStep ==
    ASSUME TypeOK, NEW r \in Replicas, EnsureServingCert(r) PROVE Quiet(r)
<1>0. /\ proc[r].pc = "serving" /\ Rest /\ UNCHANGED <<secrets, configs>>
      /\ "patch" \in Pcs /\ "read" \in Pcs
  BY FaultCounted DEF EnsureServingCert, Rest, Pcs
<1>1. CASE ~Due(CachedSecrets(r).serving) /\ Goto(r, "patch")
  <2>1. CachedSecrets(r).serving # NoCert
    BY <1>1 DEF Due
  <2>2. QED
    BY <1>0, <1>1, <2>1, Goes DEF Quiet, Ensured
<1>2. CASE proc' = [proc EXCEPT ![r].pc = "read", ![r].until = NotAfter]
  <2>0. NotAfter \in Nat
    BY LifetimeAssumption, Types DEF NotAfter
  <2> DEFINE p == [proc[r] EXCEPT !.pc = "read"]
             q == [p EXCEPT !.until = NotAfter]
             f == [proc EXCEPT ![r] = p]
  <2>1. p \in Process(Len(secrets), Len(configs)) /\ p.pc = "read" /\ p.ca = proc[r].ca
    BY <1>0, ProcessTypes DEF Process
  <2>2. f[r] = p /\ proc' = [f EXCEPT ![r] = q]
    BY <1>2, Types
  <2>3. Becomes(r, q)
    <3> HIDE DEF p, q
    <3>1. QED
      BY <2>2 DEF Becomes
  <2> HIDE DEF p
  <2>4. /\ q \in Process(Len(secrets), Len(configs))
       /\ q.pc = "read" /\ q.ca = proc[r].ca
    BY <1>0, <2>1, <2>0 DEF Process
  <2> HIDE DEF q
  <2>5. QED
    BY <1>0, <2>3, <2>4 DEF Quiet, Ensured
<1>3. QED
  BY <1>1, <1>2 DEF EnsureServingCert

LEMMA ReadServingStep == ASSUME TypeOK, NEW r \in Replicas, ReadServing(r) PROVE Quiet(r)
<1>0. /\ proc[r].pc = "read" /\ Rest /\ UNCHANGED <<secrets, configs>>
      /\ proc' = [proc EXCEPT ![r].pc = "store", ![r].copy = CachedSecrets(r).serving.at]
      /\ "store" \in Pcs /\ proc[r].ca \in AnyCA /\ CachedSecrets(r).serving.at \in Nat
  BY FaultCounted, ProcessTypes DEF ReadServing, Rest, Pcs, SecretsType, CertType
<1> DEFINE p == [proc[r] EXCEPT !.pc = "store"]
           q == [p EXCEPT !.copy = CachedSecrets(r).serving.at]
           f == [proc EXCEPT ![r] = p]
<1>1. p \in Process(Len(secrets), Len(configs)) /\ p.pc = "store" /\ p.ca = proc[r].ca
  BY <1>0, ProcessTypes DEF Process
<1>2. f[r] = p /\ proc' = [f EXCEPT ![r] = q]
  BY <1>0, Types
<1>3. Becomes(r, q)
  <2> HIDE DEF p, q
  <2>1. QED
    BY <1>2 DEF Becomes
<1> HIDE DEF p
<1>4. /\ q \in Process(Len(secrets), Len(configs))
     /\ q.pc = "store" /\ q.ca = proc[r].ca
  BY <1>0, <1>1 DEF Process
<1> HIDE DEF q
<1>5. QED
  BY <1>0, <1>3, <1>4 DEF Quiet, Ensured

LEMMA ReadConfigStep == ASSUME TypeOK, NEW r \in Replicas, ReadConfig(r) PROVE Quiet(r)
<1>0. /\ proc[r].pc = "patch" /\ Rest /\ UNCHANGED <<secrets, configs>>
      /\ "update" \in Pcs /\ "ready" \in Pcs
      /\ proc[r].ca \in AnyCA /\ proc[r].seenConfigs \in Nat
  BY FaultCounted, Types, ProcessTypes DEF ReadConfig, Rest, Pcs
<1>1. CASE /\ CachedConfig(r).exists
           /\ proc' = [proc EXCEPT ![r].pc = "update", ![r].copy = proc[r].seenConfigs]
  <2> DEFINE p == [proc[r] EXCEPT !.pc = "update"]
             q == [p EXCEPT !.copy = proc[r].seenConfigs]
             f == [proc EXCEPT ![r] = p]
  <2>1. p \in Process(Len(secrets), Len(configs)) /\ p.pc = "update" /\ p.ca = proc[r].ca
    BY <1>0, ProcessTypes DEF Process
  <2>2. f[r] = p /\ proc' = [f EXCEPT ![r] = q]
    BY <1>1, Types
  <2>3. Becomes(r, q)
    <3> HIDE DEF p, q
    <3>1. QED
      BY <2>2 DEF Becomes
  <2> HIDE DEF p
  <2>4. /\ q \in Process(Len(secrets), Len(configs))
       /\ q.pc = "update" /\ q.ca = proc[r].ca /\ q.copy = proc[r].seenConfigs
    BY <1>0, <2>1 DEF Process
  <2> HIDE DEF q
  <2>5. QED
    BY <1>0, <1>1, <2>3, <2>4 DEF Quiet, Ensured
<1>2. CASE Return(r) /\ ~(CachedConfig(r).exists /\ BundleDiffers(r))
  <2>1. /\ Over("ready") \in Process(Len(secrets), Len(configs))
        /\ Becomes(r, Over("ready")) /\ Over("ready").pc = "ready"
    BY <1>0, <1>2, OverType, Ends DEF Over
  <2>2. QED
    BY <1>0, <1>2, <2>1 DEF Quiet, Ensured, BundleDiffers
<1>3. QED
  BY <1>1, <1>2 DEF ReadConfig

LEMMA CacheStep ==
    ASSUME TypeOK, NEW r \in Replicas, CacheSecrets(r) \/ CacheConfig(r) PROVE Quiet(r)
<1>0. Rest /\ UNCHANGED <<secrets, configs>> /\ proc[r].pc # "down"
      /\ proc[r].pc # "ready"
  BY FaultCounted DEF CacheSecrets, CacheConfig, Rest, Running
<1> DEFINE p == [proc[r] EXCEPT !.seenSecrets = proc[r].seenSecrets + 1]
           q == [proc[r] EXCEPT !.seenConfigs = proc[r].seenConfigs + 1]
<1>1. CASE CacheSecrets(r)
  <2>1. proc[r].seenSecrets + 1 \in 1..Len(secrets)
    BY <1>1, Types, ProcessTypes DEF CacheSecrets
  <2>2. /\ p \in Process(Len(secrets), Len(configs))
        /\ p.pc = proc[r].pc /\ p.ca = proc[r].ca /\ p.copy = proc[r].copy
    BY <2>1, ProcessTypes DEF Process
  <2>3. Becomes(r, p)
    BY <1>1 DEF CacheSecrets, Becomes
  <2> HIDE DEF p
  <2>4. QED
    BY <1>0, <2>2, <2>3 DEF Quiet
<1>2. CASE CacheConfig(r)
  <2>1. proc[r].seenConfigs + 1 \in 1..Len(configs)
    BY <1>2, Types, ProcessTypes DEF CacheConfig
  <2>2. /\ q \in Process(Len(secrets), Len(configs))
        /\ q.pc = proc[r].pc /\ q.ca = proc[r].ca /\ q.copy = proc[r].copy
    BY <2>1, ProcessTypes DEF Process
  <2>3. Becomes(r, q)
    BY <1>2 DEF CacheConfig, Becomes
  <2> HIDE DEF q
  <2>4. QED
    BY <1>0, <2>2, <2>3 DEF Quiet
<1>3. QED
  BY <1>1, <1>2

LEMMA CreateCAStep ==
    ASSUME TypeOK, NEW r \in Replicas, CreateCA(r) PROVE Quiet(r) \/ MakesCA(r)
<1>0. /\ proc[r].pc = "create" /\ Rest /\ UNCHANGED configs
      /\ proc[r].ca \in AnyCA /\ "serving" \in Pcs
  BY FaultCounted, ProcessTypes DEF CreateCA, Rest, Pcs
<1>1. CASE Exit(r) /\ UNCHANGED secrets
  BY <1>0, <1>1, QuietExit
<1>2. CASE /\ StoredSecrets.ca = NoCA /\ StoreCA(proc[r].ca)
           /\ Goto(r, "serving") \/ Exit(r)
  <2>1. Continues(r, "serving")
    <3>1. Goto(r, "serving") => Continues(r, "serving")
      BY <1>0, Goes DEF Continues
    <3>2. QED
      BY <1>2, <3>1, ExitContinues
  <2>2. QED
    BY <1>0, <1>2, <2>1, CAStored DEF MakesCA
<1>3. QED
  BY <1>1, <1>2 DEF CreateCA, AlreadyExists

LEMMA StoreServingStep ==
    ASSUME TypeOK, NEW r \in Replicas, StoreServing(r) PROVE Quiet(r) \/ MakesCert(r)
<1>0. /\ proc[r].pc = "store" /\ Rest /\ UNCHANGED configs
      /\ proc[r].ca \in AnyCA /\ proc[r].until \in Nat /\ "patch" \in Pcs
  BY FaultCounted, ProcessTypes DEF StoreServing, Rest, Pcs
<1>1. CASE Exit(r) /\ UNCHANGED secrets
  BY <1>0, <1>1, QuietExit
<1>2. CASE StoreCert(proc[r].ca, proc[r].until) /\ (Goto(r, "patch") \/ Exit(r))
  <2>1. Continues(r, "patch")
    <3>1. Goto(r, "patch") => Continues(r, "patch")
      BY <1>0, Goes DEF Continues
    <3>2. QED
      BY <1>2, <3>1, ExitContinues
  <2>2. QED
    BY <1>0, <1>2, <2>1, CertStored DEF MakesCert
<1>3. QED
  BY <1>1, <1>2 DEF StoreServing

LEMMA UpdateConfigStep ==
    ASSUME TypeOK, NEW r \in Replicas, UpdateConfig(r) PROVE Quiet(r) \/ MakesBundle(r)
<1>0. /\ proc[r].pc = "update" /\ Rest /\ UNCHANGED secrets
      /\ proc[r].ca \in AnyCA /\ "ready" \in Pcs
  BY FaultCounted, ProcessTypes DEF UpdateConfig, Rest, Pcs
<1>1. CASE Exit(r) /\ UNCHANGED configs
  BY <1>0, <1>1, QuietExit
<1>2. CASE /\ proc[r].copy = Len(configs) /\ StoreBundle(proc[r].ca)
           /\ Return(r) \/ Exit(r)
  <2>1. \E p \in Process(Len(secrets), Len(configs)) :
           Becomes(r, p) /\ p.pc \in {"down", "ready"}
    <3>1. /\ Over("ready") \in Process(Len(secrets), Len(configs))
          /\ Over("down") \in Process(Len(secrets), Len(configs))
          /\ Over("ready").pc = "ready" /\ Over("down").pc = "down"
      BY <1>0, OverType DEF Over, Pcs
    <3>2. QED
      BY <1>2, <3>1, Ends
  <2>2. QED
    BY <1>0, <1>2, <2>1, BundleStored DEF MakesBundle
<1>3. QED
  BY <1>1, <1>2 DEF UpdateConfig

\* Every step of a process that is up is of one of the four kinds.
LEMMA ProcessSteps ==
    ASSUME TypeOK, NEW r \in Replicas,
           EnsureCerts(r) \/ Crash(r) \/ CacheSecrets(r) \/ CacheConfig(r)
    PROVE  Quiet(r) \/ MakesCA(r) \/ MakesCert(r) \/ MakesBundle(r)
<1>1. CASE Crash(r)
  <2>1. Rest /\ UNCHANGED <<secrets, configs>> /\ Exit(r) /\ proc[r].pc # "down"
    BY <1>1, FaultCounted DEF Crash, Rest, Up
  <2>2. QED
    BY <2>1, QuietExit
<1>2. QED
  BY <1>1, EnsureCAStep, CreateCAStep, EnsureServingStep, ReadServingStep, StoreServingStep,
     ReadConfigStep, UpdateConfigStep, CacheStep DEF EnsureCerts

-----------------------------------------------------------------------------
(* Type correctness.                                                       *)

\* Histories that grow by well-typed writes, or stay.
Grows ==
    /\ secrets' \in Seq(SecretsType) /\ secrets' # <<>> /\ Len(secrets') >= Len(secrets)
    /\ configs' \in Seq(ConfigType) /\ configs' # <<>> /\ Len(configs') >= Len(configs)

LEMMA GrowsIf ==
    ASSUME TypeOK,
           UNCHANGED secrets \/ \E x \in SecretsType : Longer(x),
           UNCHANGED configs \/ \E x \in ConfigType : ConfigLonger(x)
    PROVE  Grows
BY Types DEF Grows, Longer, ConfigLonger

LEMMA TypedIf ==
    ASSUME TypeOK, Grows,
           proc' \in [Replicas -> Process(Len(secrets'), Len(configs'))],
           script' \in [pc : {"waiting", "ca", "serving", "config", "over"}, ca : AnyCA],
           now' \in 0..MaxTime, faults' \in 0..MaxFaults, losses' \in 0..MaxLosses
    PROVE  TypeOK'
BY DEF TypeOK, Grows, SecretsType, ConfigType, Process, Pcs, AnyCA

LEMMA InitTyped == Init => TypeOK
<1> SUFFICES ASSUME Init PROVE TypeOK
  OBVIOUS
<1> DEFINE s == [ca |-> NoCA, serving |-> NoCert]
<1>1. s \in [ca : CAs \cup {NoCA}, serving : CertType]
  BY DEF NoCert, CertType
<1> HIDE DEF s
<1>2. secrets = <<s>>
  BY DEF Init, s
<1>3. /\ secrets \in Seq([ca : CAs \cup {NoCA}, serving : CertType])
      /\ secrets # <<>> /\ Len(secrets) = 1
  BY <1>1, <1>2
<1>4. PICK e \in BOOLEAN : configs = <<[exists |-> e, bundle |-> NoCA]>>
  BY DEF Init
<1> DEFINE c == [exists |-> e, bundle |-> NoCA]
<1>5. c \in [exists : BOOLEAN, bundle : CAs \cup {NoCA}]
  OBVIOUS
<1> HIDE DEF c
<1>6. configs = <<c>>
  BY <1>4 DEF c
<1>7. /\ configs \in Seq([exists : BOOLEAN, bundle : CAs \cup {NoCA}])
      /\ configs # <<>> /\ Len(configs) = 1
  BY <1>5, <1>6
<1>8. Down \in [pc : {"down", "ca", "create", "serving", "read", "store",
                      "patch", "update", "ready"},
                ca : CAs \cup {NoCA}, until : Nat, copy : Nat,
                seenSecrets : 1..Len(secrets), seenConfigs : 1..Len(configs)]
  BY <1>3, <1>7 DEF Down
<1>9. proc = [r \in Replicas |-> Down]
  BY DEF Init
<1>10. script \in [pc : {"waiting", "ca", "serving", "config", "over"}, ca : CAs \cup {NoCA}]
  BY DEF Init
<1>11. now \in 0..MaxTime /\ faults \in 0..MaxFaults /\ losses \in 0..MaxLosses
  <2>1. now = 0 /\ faults = 0 /\ losses = 0
    BY DEF Init
  <2>2. QED
    BY <2>1, BoundsAssumption
<1>12. QED
  BY <1>3, <1>7, <1>8, <1>9, <1>10, <1>11 DEF TypeOK

LEMMA ProcessTyped ==
    ASSUME TypeOK, NEW r \in Replicas,
           Quiet(r) \/ MakesCA(r) \/ MakesCert(r) \/ MakesBundle(r)
    PROVE  TypeOK' /\ Grows
<1>1. Rest
  BY DEF Quiet, MakesCA, MakesCert, MakesBundle
<1>2. \E p \in Process(Len(secrets), Len(configs)) : Becomes(r, p)
  BY DEF Quiet, MakesCA, MakesCert, MakesBundle, Continues
<1>3. UNCHANGED secrets \/ \E x \in SecretsType : Longer(x)
  <2>1. /\ [ca |-> proc[r].ca, serving |-> StoredSecrets.serving] \in SecretsType
        /\ [ca |-> StoredSecrets.ca,
            serving |-> Cert(proc[r].ca, proc[r].until, Len(secrets) + 1)] \in SecretsType
    BY Types, ProcessTypes DEF SecretsType, CertType, Cert, AnyCA
  <2>2. QED
    BY <2>1 DEF Quiet, MakesCA, MakesCert, MakesBundle
<1>4. UNCHANGED configs \/ \E x \in ConfigType : ConfigLonger(x)
  <2>1. [exists |-> StoredConfig.exists, bundle |-> proc[r].ca] \in ConfigType
    BY Types, ProcessTypes DEF ConfigType
  <2>2. QED
    BY <2>1 DEF Quiet, MakesCA, MakesCert, MakesBundle
<1>5. Grows
  BY <1>3, <1>4, GrowsIf
<1>6. proc' \in [Replicas -> Process(Len(secrets'), Len(configs'))]
  BY <1>2, <1>5, Widen, BecomesTyped DEF Grows
<1>7. script' \in [pc : {"waiting", "ca", "serving", "config", "over"}, ca : AnyCA]
      /\ now' \in 0..MaxTime /\ faults' \in 0..MaxFaults /\ losses' \in 0..MaxLosses
  BY <1>1, Types DEF Rest, TypeOK
<1>8. QED
  BY <1>5, <1>6, <1>7, TypedIf

\* r's process begins, and the script can no longer be run before it.
Starts(r) ==
    /\ UNCHANGED <<secrets, configs, now, faults, losses>>
    /\ proc[r].pc = "down" /\ script.pc \in {"waiting", "over"}
    /\ script' = [script EXCEPT !.pc = "over"]
    /\ \E p \in Process(Len(secrets), Len(configs)) : Becomes(r, p) /\ p.pc = "ca"

LEMMA StartStep == ASSUME TypeOK, NEW r \in Replicas, Start(r) PROVE Starts(r)
<1> DEFINE P == Process(Len(secrets), Len(configs))
           p1 == [Down EXCEPT !.pc = "ca"]
           p2 == [p1 EXCEPT !.seenSecrets = Len(secrets)]
           p3 == [p2 EXCEPT !.seenConfigs = Len(configs)]
<1>0. Down \in P /\ Len(secrets) \in 1..Len(secrets) /\ Len(configs) \in 1..Len(configs)
  BY Types DEF Down, Process, Pcs, AnyCA
<1>1. Becomes(r, p3)
  BY DEF Start, Becomes
<1>2. p1 \in P /\ p1.pc = "ca"
  BY <1>0 DEF Process, Pcs
<1>3. p2 \in P /\ p2.pc = "ca"
  <2> HIDE DEF p1
  <2>1. QED
    BY <1>0, <1>2 DEF Process
<1>4. p3 \in P /\ p3.pc = "ca"
  <2> HIDE DEF p2
  <2>1. QED
    BY <1>0, <1>3 DEF Process
<1> HIDE DEF p3
<1>5. QED
  BY <1>1, <1>4 DEF Start, Starts, Up

LEMMA StartTyped == ASSUME TypeOK, NEW r \in Replicas, Starts(r) PROVE TypeOK'
<1>1. Grows
  BY Types DEF Starts, Grows
<1>2. proc' \in [Replicas -> Process(Len(secrets'), Len(configs'))]
  BY <1>1, Widen, BecomesTyped DEF Starts, Grows
<1>3. script' \in [pc : {"waiting", "ca", "serving", "config", "over"}, ca : AnyCA]
      /\ now' \in 0..MaxTime /\ faults' \in 0..MaxFaults /\ losses' \in 0..MaxLosses
  BY Types DEF Starts, TypeOK
<1>4. QED
  BY <1>1, <1>2, <1>3, TypedIf

\* What is not a process leaves the processes alone.
LEMMA StandingTyped ==
    ASSUME TypeOK, Grows, UNCHANGED proc,
           script' \in [pc : {"waiting", "ca", "serving", "config", "over"}, ca : AnyCA],
           now' \in 0..MaxTime, faults' \in 0..MaxFaults, losses' \in 0..MaxLosses
    PROVE  TypeOK'
<1>1. proc' \in [Replicas -> Process(Len(secrets'), Len(configs'))]
  BY Types, Widen DEF Grows
<1>2. QED
  BY <1>1, TypedIf

LEMMA LossCounted ==
    ASSUME TypeOK, losses < MaxLosses, losses' = losses + 1
    PROVE  losses' \in 0..MaxLosses /\ losses' # 0
BY BoundsAssumption DEF TypeOK

LEMMA ScriptTyped == ASSUME TypeOK, Script PROVE TypeOK'
<1>0. /\ now \in 0..MaxTime /\ faults \in 0..MaxFaults /\ losses \in 0..MaxLosses
      /\ script.pc \in {"waiting", "ca", "serving", "config", "over"} /\ script.ca \in AnyCA
      /\ NoCA \in AnyCA
  BY Types DEF TypeOK, AnyCA
<1>1. UNCHANGED proc /\ now' \in 0..MaxTime
  BY <1>0 DEF Script, ScriptBegins, ScriptCA, ScriptServing, ScriptConfig, ScriptDies
<1>2. faults' \in 0..MaxFaults
  BY <1>0, FaultCounted
  DEF Script, ScriptBegins, ScriptCA, ScriptServing, ScriptConfig, ScriptDies
<1>3. losses' \in 0..MaxLosses
  BY <1>0, LossCounted
  DEF Script, ScriptBegins, ScriptCA, ScriptServing, ScriptConfig, ScriptDies
<1>4. script' \in [pc : {"waiting", "ca", "serving", "config", "over"}, ca : AnyCA]
  <2>1. CASE ScriptBegins
    <3>1. NewCA \in AnyCA
      BY <2>1, UnusedIsCA DEF ScriptBegins, AnyCA
    <3>2. QED
      BY <2>1, <3>1 DEF ScriptBegins
  <2>2. CASE ScriptCA \/ ScriptServing
    BY <2>2, Types DEF ScriptCA, ScriptServing
  <2>3. CASE ScriptConfig \/ ScriptDies
    BY <1>0, <2>3 DEF ScriptConfig, ScriptDies
  <2>4. QED
    BY <2>1, <2>2, <2>3 DEF Script
<1>5. Grows
  <2>1. CASE ScriptBegins \/ ScriptDies
    BY <2>1, GrowsIf DEF ScriptBegins, ScriptDies
  <2>2. CASE ScriptCA
    <3>1. Longer([ca |-> script.ca, serving |-> StoredSecrets.serving])
      BY <1>0, <2>2, CAStored DEF ScriptCA
    <3>2. QED
      BY <2>2, <3>1, Types DEF ScriptCA, Longer, Grows
  <2>3. CASE ScriptServing
    <3>1. now + Lifetime \in Nat
      BY Types, LifetimeAssumption
    <3>2. Longer([ca |-> StoredSecrets.ca,
                  serving |-> Cert(script.ca, now + Lifetime, Len(secrets) + 1)])
      BY <1>0, <2>3, <3>1, CertStored DEF ScriptServing
    <3>3. QED
      BY <2>3, <3>2, Types DEF ScriptServing, Longer, Grows
  <2>4. CASE ScriptConfig
    <3>1. UNCHANGED secrets
      BY <2>4 DEF ScriptConfig
    <3>2. UNCHANGED configs
          \/ ConfigLonger([exists |-> StoredConfig.exists, bundle |-> script.ca])
      BY <1>0, <2>4, BundleStored DEF ScriptConfig
    <3>3. QED
      BY <3>1, <3>2, Types DEF ConfigLonger, Grows
  <2>5. QED
    BY <2>1, <2>2, <2>3, <2>4 DEF Script
<1>6. QED
  BY <1>1, <1>2, <1>3, <1>4, <1>5, StandingTyped

LEMMA Installed ==
    ASSUME TypeOK, InstallConfig PROVE ConfigLonger([exists |-> TRUE, bundle |-> NoCA])
<1>1. [exists |-> TRUE, bundle |-> NoCA] \in ConfigType
  BY DEF ConfigType, AnyCA
<1>2. QED
  BY <1>1, ConfigLongerBy DEF InstallConfig

LEMMA ClusterTyped == ASSUME TypeOK, InstallConfig \/ LoseCA \/ Tick PROVE TypeOK'
<1>0. /\ now \in 0..MaxTime /\ faults \in 0..MaxFaults /\ losses \in 0..MaxLosses
      /\ script \in [pc : {"waiting", "ca", "serving", "config", "over"}, ca : AnyCA]
      /\ NoCA \in AnyCA
  BY Types DEF TypeOK, AnyCA
<1>1. CASE InstallConfig
  <2>1. Grows
    BY <1>1, Installed, Types DEF InstallConfig, ConfigLonger, Grows
  <2>2. QED
    BY <1>0, <1>1, <2>1, StandingTyped DEF InstallConfig
<1>2. CASE LoseCA
  <2>1. Longer([ca |-> NoCA, serving |-> StoredSecrets.serving])
    BY <1>0, <1>2, CAStored DEF LoseCA
  <2>2. Grows
    BY <1>2, <2>1, Types DEF LoseCA, Longer, Grows
  <2>3. QED
    BY <1>0, <1>2, <2>2, LossCounted, StandingTyped DEF LoseCA
<1>3. CASE Tick
  <2>1. Grows
    BY <1>3, GrowsIf DEF Tick
  <2>2. now' \in 0..MaxTime
    BY <1>0, <1>3, BoundsAssumption DEF Tick
  <2>3. QED
    BY <1>0, <1>3, <2>1, <2>2, StandingTyped DEF Tick
<1>4. QED
  BY <1>1, <1>2, <1>3

LEMMA StepTyped == TypeOK /\ [Next]_vars => TypeOK'
<1>1. TypeOK /\ UNCHANGED vars => TypeOK'
  BY DEF TypeOK, vars
<1>2. TypeOK /\ Next => TypeOK'
  BY ProcessSteps, ProcessTyped, StartStep, StartTyped, ScriptTyped, ClusterTyped DEF Next
<1>3. QED
  BY <1>1, <1>2

\* Every variable keeps its type: caches never run ahead of the history they
\* follow, and the counters stay within their bounds.
THEOREM TypeCorrect == Spec => []TypeOK
BY InitTyped, StepTyped, PTL DEF Spec

-----------------------------------------------------------------------------
(* Only CAs that were stored sign.                                         *)

\* Beside OnlyStoredCAs: whoever is about to sign or to patch, a process past
\* ensureCA or the script past its first step, holds a CA that was stored.
Kept ==
    /\ secrets[1].ca = NoCA
    /\ OnlyStoredCAs
    /\ \A r \in Replicas : proc[r].pc \in Ensured => proc[r].ca \in EverStored
    /\ script.pc \in {"serving", "config"} => script.ca \in EverStored

LEMMA EverGrows ==
    ASSUME TypeOK, NEW x \in SecretsType, Longer(x), secrets[1].ca = NoCA
    PROVE  /\ EverStored \subseteq EverStored' /\ x.ca \in EverStored'
           /\ secrets'[1].ca = NoCA /\ StoredSecrets' = x
<1>1. 1 \in 1..Len(secrets)
  BY Types
<1>2. /\ Len(secrets) + 1 \in 1..Len(secrets')
      /\ 1..Len(secrets) \subseteq 1..Len(secrets')
      /\ \A i \in 1..Len(secrets) : secrets'[i] = secrets[i]
      /\ secrets'[Len(secrets) + 1] = x
  BY Types DEF Longer
<1>3. QED
  BY <1>1, <1>2 DEF EverStored, Longer

LEMMA NoCAStored == ASSUME TypeOK, Kept PROVE NoCA \in EverStored /\ StoredSecrets.ca \in EverStored
<1>1. 1 \in 1..Len(secrets) /\ Len(secrets) \in 1..Len(secrets)
  BY Types
<1>2. QED
  BY <1>1, Types DEF Kept, EverStored

LEMMA InitKept == Init => Kept
<1> SUFFICES ASSUME Init PROVE Kept
  OBVIOUS
<1>1. Len(secrets) = 1 /\ secrets[1] = [ca |-> NoCA, serving |-> NoCert]
  BY DEF Init
<1>2. PICK e \in BOOLEAN : configs = <<[exists |-> e, bundle |-> NoCA]>>
  BY DEF Init
<1>3. StoredConfig.bundle = NoCA
  BY <1>2 DEF StoredConfig, Stored
<1>4. StoredSecrets.serving.signer = NoCA
  BY <1>1 DEF StoredSecrets, Stored, NoCert
<1>5. 1 \in 1..Len(secrets) /\ secrets[1].ca = NoCA
  BY <1>1
<1>6. NoCA \in EverStored
  BY <1>5 DEF EverStored
<1>7. \A r \in Replicas : proc[r].pc = "down"
  BY DEF Init, Down
<1>8. script.pc = "waiting"
  BY DEF Init
<1>9. QED
  BY <1>3, <1>4, <1>5, <1>6, <1>7, <1>8 DEF Kept, OnlyStoredCAs, Ensured

LEMMA ProcessKept ==
    ASSUME TypeOK, Kept, NEW r \in Replicas,
           Quiet(r) \/ MakesCA(r) \/ MakesCert(r) \/ MakesBundle(r)
    PROVE  Kept'
<1>0. /\ secrets[1].ca = NoCA /\ OnlyStoredCAs
      /\ \A s \in Replicas : proc[s].pc \in Ensured => proc[s].ca \in EverStored
      /\ script.pc \in {"serving", "config"} => script.ca \in EverStored
      /\ UNCHANGED script
  BY DEF Kept, Quiet, MakesCA, MakesCert, MakesBundle, Rest
<1>1. CASE Quiet(r)
  <2>1. PICK p : /\ Becomes(r, p)
                 /\ p.pc \in Ensured =>
                       \/ proc[r].pc \in Ensured /\ p.ca = proc[r].ca
                       \/ p.ca = CachedSecrets(r).ca
    BY <1>1 DEF Quiet
  <2>2. UNCHANGED <<secrets, configs>>
    BY <1>1 DEF Quiet
  <2>3. CachedSecrets(r).ca \in EverStored
    BY ProcessTypes DEF CachedSecrets, EverStored
  <2>4. EverStored' = EverStored /\ OnlyStoredCAs'
    BY <1>0, <2>2 DEF EverStored, OnlyStoredCAs, StoredSecrets, StoredConfig
  <2>5. \A s \in Replicas : proc'[s].pc \in Ensured => proc'[s].ca \in EverStored
    BY <1>0, <2>1, <2>3, Became
  <2>6. QED
    BY <1>0, <2>2, <2>4, <2>5 DEF Kept
<1>2. CASE MakesCA(r) \/ MakesCert(r)
  <2>1. PICK x \in SecretsType :
          /\ Longer(x)
          /\ \/ x.ca = proc[r].ca /\ x.serving = StoredSecrets.serving
             \/ x.serving.signer = proc[r].ca /\ proc[r].pc \in Ensured
          /\ x.ca = proc[r].ca \/ proc[r].pc \in Ensured
    <3>1. CASE MakesCA(r)
      <4>1. [ca |-> proc[r].ca, serving |-> StoredSecrets.serving] \in SecretsType
        BY Types, ProcessTypes DEF SecretsType
      <4>2. QED
        BY <3>1, <4>1 DEF MakesCA
    <3>2. CASE MakesCert(r)
      <4> DEFINE c == Cert(proc[r].ca, proc[r].until, Len(secrets) + 1)
      <4>1. c \in CertType /\ c.signer = proc[r].ca
        BY Types, ProcessTypes DEF CertType, Cert, AnyCA
      <4> HIDE DEF c
      <4>2. [ca |-> StoredSecrets.ca, serving |-> c] \in SecretsType
        BY <4>1, Types DEF SecretsType
      <4>3. Longer([ca |-> StoredSecrets.ca, serving |-> c]) /\ proc[r].pc \in Ensured
        BY <3>2 DEF MakesCert, Ensured, c
      <4>4. QED
        BY <4>1, <4>2, <4>3
    <3>3. QED
      BY <1>2, <3>1, <3>2
  <2>2. /\ EverStored \subseteq EverStored' /\ x.ca \in EverStored'
        /\ secrets'[1].ca = NoCA /\ StoredSecrets' = x
    BY <1>0, <2>1, EverGrows
  <2>3. PICK p : Becomes(r, p) /\ (p.pc \in Ensured => p.ca = proc[r].ca)
    <3>1. Continues(r, "serving") \/ Continues(r, "patch")
      BY <1>2 DEF MakesCA, MakesCert
    <3>2. QED
      BY <3>1 DEF Continues, Ensured
  <2>4. proc[r].ca \in EverStored'
    BY <1>0, <2>1, <2>2
  <2>5. \A s \in Replicas : proc'[s].pc \in Ensured => proc'[s].ca \in EverStored'
    BY <1>0, <2>2, <2>3, <2>4, Became
  <2>6. UNCHANGED configs
    BY <1>2 DEF MakesCA, MakesCert
  <2>7. OnlyStoredCAs'
    BY <1>0, <2>1, <2>2, <2>4, <2>6 DEF OnlyStoredCAs, StoredConfig
  <2>8. QED
    BY <1>0, <2>2, <2>5, <2>7 DEF Kept
<1>3. CASE MakesBundle(r)
  <2>1. PICK p : Becomes(r, p) /\ p.pc \notin Ensured
    BY <1>3 DEF MakesBundle, Ensured
  <2>2. UNCHANGED secrets
    BY <1>3 DEF MakesBundle
  <2>3. EverStored' = EverStored /\ StoredSecrets' = StoredSecrets
    BY <2>2 DEF EverStored, StoredSecrets
  <2>4. StoredConfig'.bundle = proc[r].ca /\ proc[r].pc \in Ensured
    BY <1>3 DEF MakesBundle, ConfigLonger, Ensured
  <2>5. \A s \in Replicas : proc'[s].pc \in Ensured => proc'[s].ca \in EverStored
    BY <1>0, <2>1, Became
  <2>6. OnlyStoredCAs'
    BY <1>0, <2>3, <2>4 DEF OnlyStoredCAs
  <2>7. QED
    BY <1>0, <2>2, <2>3, <2>5, <2>6 DEF Kept
<1>4. QED
  BY <1>1, <1>2, <1>3

LEMMA OthersKept ==
    ASSUME TypeOK, Kept, (\E r \in Replicas : Starts(r)) \/ Script \/ InstallConfig \/ LoseCA \/ Tick
    PROVE  Kept'
<1>0. /\ secrets[1].ca = NoCA /\ OnlyStoredCAs
      /\ \A s \in Replicas : proc[s].pc \in Ensured => proc[s].ca \in EverStored
      /\ script.pc \in {"serving", "config"} => script.ca \in EverStored
      /\ NoCA \in AnyCA /\ script.ca \in AnyCA
  BY Types DEF Kept, AnyCA
<1>1. UNCHANGED secrets => EverStored' = EverStored /\ StoredSecrets' = StoredSecrets
  BY DEF EverStored, StoredSecrets
<1>2. CASE \E r \in Replicas : Starts(r)
  <2>1. PICK r \in Replicas : Starts(r)
    BY <1>2
  <2>2. PICK p : Becomes(r, p) /\ p.pc = "ca"
    BY <2>1 DEF Starts
  <2>3. UNCHANGED <<secrets, configs>> /\ script'.pc = "over"
    BY <2>1, Types DEF Starts
  <2>4. \A s \in Replicas : proc'[s].pc \in Ensured => proc'[s].ca \in EverStored
    BY <1>0, <2>2, Became DEF Ensured
  <2>5. QED
    BY <1>0, <1>1, <2>3, <2>4 DEF Kept, OnlyStoredCAs, StoredConfig
<1>3. CASE ScriptBegins \/ ScriptDies \/ Tick
  <2>1. UNCHANGED <<secrets, configs, proc>>
        /\ (script'.pc \notin {"serving", "config"} \/ UNCHANGED script)
    BY <1>3 DEF ScriptBegins, ScriptDies, Tick
  <2>2. QED
    BY <1>0, <1>1, <2>1 DEF Kept, OnlyStoredCAs, StoredConfig
<1>4. CASE ScriptCA \/ LoseCA
  <2>1. PICK c \in AnyCA : /\ StoreCA(c) /\ UNCHANGED <<configs, proc>>
                          /\ \/ c = script.ca /\ script'.ca = c
                             \/ UNCHANGED script
    BY <1>0, <1>4, Types DEF ScriptCA, LoseCA
  <2>2. Longer([ca |-> c, serving |-> StoredSecrets.serving])
        /\ [ca |-> c, serving |-> StoredSecrets.serving] \in SecretsType
    BY <2>1, CAStored, Types DEF SecretsType
  <2>3. /\ EverStored \subseteq EverStored' /\ c \in EverStored'
        /\ secrets'[1].ca = NoCA /\ StoredSecrets'.serving = StoredSecrets.serving
    BY <1>0, <2>2, EverGrows
  <2>4. QED
    BY <1>0, <2>1, <2>3 DEF Kept, OnlyStoredCAs, StoredConfig
<1>5. CASE ScriptServing
  <2> DEFINE d == Cert(script.ca, now + Lifetime, Len(secrets) + 1)
  <2>1. d \in CertType /\ d.signer = script.ca
    BY <1>0, Types, LifetimeAssumption DEF CertType, Cert, AnyCA
  <2>2. now + Lifetime \in Nat
    BY Types, LifetimeAssumption
  <2>3. Longer([ca |-> StoredSecrets.ca, serving |-> d])
    BY <1>0, <1>5, <2>2, CertStored DEF ScriptServing
  <2> HIDE DEF d
  <2>4. [ca |-> StoredSecrets.ca, serving |-> d] \in SecretsType
    BY <2>1, Types DEF SecretsType
  <2>5. /\ EverStored \subseteq EverStored'
        /\ secrets'[1].ca = NoCA /\ StoredSecrets'.serving = d
    BY <1>0, <2>3, <2>4, EverGrows
  <2>6. UNCHANGED <<configs, proc>> /\ script'.ca = script.ca /\ script.pc = "serving"
    BY <1>5, Types DEF ScriptServing
  <2>7. QED
    BY <1>0, <2>1, <2>5, <2>6 DEF Kept, OnlyStoredCAs, StoredConfig
<1>6. CASE ScriptConfig \/ InstallConfig
  <2>1. UNCHANGED <<secrets, proc>>
    BY <1>6 DEF ScriptConfig, InstallConfig
  <2>2. StoredConfig'.bundle \in EverStored
    <3>1. CASE InstallConfig
      BY <3>1, Installed, NoCAStored DEF ConfigLonger
    <3>2. CASE ScriptConfig /\ StoreBundle(script.ca)
      <4>1. script.ca \in AnyCA /\ script.ca \in EverStored
        BY <1>0, <1>6, <3>2, Types DEF ScriptConfig, Kept
      <4>2. StoredConfig' = [exists |-> StoredConfig.exists, bundle |-> script.ca]
        BY <1>0, <3>2, <4>1, BundleStored DEF ConfigLonger
      <4>3. QED
        BY <4>1, <4>2
    <3>3. CASE UNCHANGED configs
      BY <1>0, <3>3 DEF OnlyStoredCAs, StoredConfig
    <3>4. QED
      BY <1>6, <3>1, <3>2, <3>3 DEF ScriptConfig
  <2>3. UNCHANGED script \/ script'.pc = "over"
    BY <1>6 DEF ScriptConfig, InstallConfig
  <2>4. QED
    BY <1>0, <1>1, <2>1, <2>2, <2>3 DEF Kept, OnlyStoredCAs
<1>7. QED
  BY <1>2, <1>3, <1>4, <1>5, <1>6 DEF Script

LEMMA StepKept == TypeOK /\ Kept /\ [Next]_vars => Kept'
<1>1. Kept /\ UNCHANGED vars => Kept'
  BY DEF Kept, OnlyStoredCAs, EverStored, StoredSecrets, StoredConfig, vars
<1>2. TypeOK /\ Kept /\ Next => Kept'
  BY ProcessSteps, ProcessKept, StartStep, OthersKept DEF Next
<1>3. QED
  BY <1>1, <1>2

\* Whatever is lost, and whoever loses a race or a reply: nothing stored is
\* signed by a CA that was not stored, and no such CA is trusted
\* (certs.go:189, 203, 304).
THEOREM StoredCAsSign == Spec => []OnlyStoredCAs
<1>1. TypeOK /\ Kept => OnlyStoredCAs
  BY DEF Kept
<1>2. QED
  BY <1>1, InitTyped, StepTyped, InitKept, StepKept, PTL DEF Spec

-----------------------------------------------------------------------------
(* One CA, as long as none is lost.                                        *)

\* The history has one CA at most, and certificate and bundle are of it.
StoredOnce ==
    /\ \A i \in 1..Len(secrets) :
          /\ secrets[i].ca \in {NoCA, StoredSecrets.ca}
          /\ secrets[i].serving # NoCert => StoredSecrets.serving # NoCert
    /\ StoredSecrets.serving # NoCert =>
          StoredSecrets.serving.signer = StoredSecrets.ca /\ StoredSecrets.ca # NoCA
    /\ StoredConfig.bundle # NoCA =>
          StoredConfig.bundle = StoredSecrets.ca /\ StoredSecrets.serving # NoCert

\* Whoever is past ensureCA holds it, and patches only when there is a
\* certificate; and nobody is up before the script is over.
HeldOnce ==
    \A r \in Replicas :
       /\ proc[r].pc = "create" => proc[r].ca # NoCA
       /\ proc[r].pc \in Ensured => proc[r].ca # NoCA /\ proc[r].ca = StoredSecrets.ca
       /\ proc[r].pc \in {"patch", "update"} => StoredSecrets.serving # NoCert
       /\ script.pc # "over" => proc[r].pc = "down"

ScriptOnce ==
    /\ script.pc \in {"waiting", "ca"} => StoredSecrets.ca = NoCA
    /\ script.pc \in {"ca", "serving", "config"} => script.ca # NoCA
    /\ script.pc \in {"serving", "config"} => StoredSecrets.ca = script.ca
    /\ script.pc = "config" => StoredSecrets.serving # NoCert

OneCA == StoredOnce /\ HeldOnce /\ ScriptOnce

LEMMA InitOneCA == Init => OneCA
<1> SUFFICES ASSUME Init PROVE OneCA
  OBVIOUS
<1>1. Len(secrets) = 1 /\ secrets[1] = [ca |-> NoCA, serving |-> NoCert]
  BY DEF Init
<1>2. PICK e \in BOOLEAN : configs = <<[exists |-> e, bundle |-> NoCA]>>
  BY DEF Init
<1>3. StoredConfig.bundle = NoCA
  BY <1>2 DEF StoredConfig, Stored
<1>4. StoredSecrets = secrets[1]
  BY <1>1 DEF StoredSecrets, Stored
<1>5. StoredSecrets.ca = NoCA /\ StoredSecrets.serving = NoCert
  BY <1>1, <1>4
<1>6. StoredOnce
  BY <1>1, <1>3, <1>4, <1>5 DEF StoredOnce
<1>7. script.pc = "waiting" /\ \A r \in Replicas : proc[r].pc = "down"
  BY DEF Init, Down
<1>8. QED
  BY <1>5, <1>6, <1>7 DEF OneCA, HeldOnce, ScriptOnce, Ensured

LEMMA NotNoCert ==
    ASSUME NEW c, NEW until, NEW n \in Nat PROVE Cert(c, until, n + 1) # NoCert
<1>1. Cert(c, until, n + 1).at = n + 1 /\ NoCert.at = 0
  BY DEF Cert, NoCert
<1>2. QED
  BY <1>1

\* A process that writes nothing.
LEMMA QuietOneCA ==
    ASSUME TypeOK, OneCA, NEW r \in Replicas, Quiet(r) PROVE OneCA'
<1>1. UNCHANGED <<secrets, configs, script>> /\ proc[r].pc # "down"
  BY DEF Quiet, Rest
<1>2. /\ StoredSecrets' = StoredSecrets /\ StoredOnce' /\ script.pc = "over"
  BY <1>1 DEF OneCA, HeldOnce, StoredOnce, StoredSecrets, StoredConfig
<1>3. PICK p : /\ Becomes(r, p)
               /\ p.pc \in Ensured =>
                     \/ proc[r].pc \in Ensured /\ p.ca = proc[r].ca
                     \/ p.ca = CachedSecrets(r).ca /\ p.ca # NoCA
               /\ p.pc = "create" =>
                     p.ca # NoCA \/ (proc[r].pc = "create" /\ p.ca = proc[r].ca)
               /\ p.pc \in {"patch", "update"} =>
                     proc[r].pc \in {"patch", "update"} \/ CachedSecrets(r).serving # NoCert
  BY DEF Quiet
<1>4. /\ CachedSecrets(r).ca \in {NoCA, StoredSecrets.ca}
      /\ CachedSecrets(r).serving # NoCert => StoredSecrets.serving # NoCert
  BY ProcessTypes DEF CachedSecrets, OneCA, StoredOnce
<1>5. /\ p.pc = "create" => p.ca # NoCA
      /\ p.pc \in Ensured => p.ca # NoCA /\ p.ca = StoredSecrets.ca
      /\ p.pc \in {"patch", "update"} => StoredSecrets.serving # NoCert
  BY <1>3, <1>4 DEF OneCA, HeldOnce
<1>6. HeldOnce'
  BY <1>1, <1>2, <1>3, <1>5, Became DEF OneCA, HeldOnce
<1>7. QED
  BY <1>1, <1>2, <1>6 DEF OneCA, ScriptOnce

\* A process that creates the CA: there was none, so nobody relied on one.
LEMMA MakesCAOneCA ==
    ASSUME TypeOK, OneCA, NEW r \in Replicas, MakesCA(r) PROVE OneCA'
<1> DEFINE c == proc[r].ca
<1>1. /\ UNCHANGED <<configs, script>> /\ proc[r].pc = "create" /\ StoredSecrets.ca = NoCA
      /\ Longer([ca |-> c, serving |-> StoredSecrets.serving])
  BY DEF MakesCA, Rest
<1>2. /\ c # NoCA /\ script.pc = "over" /\ StoredSecrets.serving = NoCert
      /\ StoredConfig.bundle = NoCA
      /\ \A s \in Replicas : proc[s].pc \notin Ensured
      /\ \A i \in 1..Len(secrets) : secrets[i].ca = NoCA /\ secrets[i].serving = NoCert
  BY <1>1 DEF OneCA, HeldOnce, StoredOnce
<1>3. /\ StoredSecrets'.ca = c /\ StoredSecrets'.serving = NoCert
      /\ StoredConfig'.bundle = NoCA
  BY <1>1, <1>2 DEF Longer, StoredConfig
<1>4. ASSUME NEW i \in 1..Len(secrets')
      PROVE  secrets'[i].ca \in {NoCA, c} /\ secrets'[i].serving = NoCert
  <2>1. i \in 1..Len(secrets) \/ i = Len(secrets) + 1
    BY <1>1, Types DEF Longer
  <2>2. QED
    BY <1>1, <1>2, <2>1 DEF Longer
<1>5. StoredOnce'
  BY <1>3, <1>4 DEF StoredOnce
<1>6. PICK p : /\ Becomes(r, p)
               /\ p.pc \in {"down", "ready"} \/ (p.pc = "serving" /\ p.ca = c)
  BY DEF MakesCA, Continues
<1>7. HeldOnce'
  <2> SUFFICES ASSUME NEW s \in Replicas
               PROVE  /\ proc'[s].pc = "create" => proc'[s].ca # NoCA
                      /\ proc'[s].pc \in Ensured =>
                            proc'[s].ca # NoCA /\ proc'[s].ca = StoredSecrets'.ca
                      /\ proc'[s].pc \notin {"patch", "update"}
    BY <1>1, <1>2 DEF HeldOnce
  <2>1. CASE s = r
    BY <1>2, <1>3, <1>6, <2>1, Became DEF Ensured
  <2>2. CASE s # r
    BY <1>2, <1>6, <2>2, Became DEF OneCA, HeldOnce, Ensured
  <2>3. QED
    BY <2>1, <2>2
<1>8. QED
  BY <1>1, <1>2, <1>5, <1>7 DEF OneCA, ScriptOnce

\* A certificate by the one CA is stored.
LEMMA CertOneCA ==
    ASSUME TypeOK, StoredOnce, NEW c, NEW until, c = StoredSecrets.ca, c # NoCA,
           Longer([ca |-> StoredSecrets.ca, serving |-> Cert(c, until, Len(secrets) + 1)]),
           UNCHANGED configs
    PROVE  /\ StoredOnce'
           /\ StoredSecrets'.ca = StoredSecrets.ca /\ StoredSecrets'.serving # NoCert
<1> DEFINE d == Cert(c, until, Len(secrets) + 1)
<1>1. d # NoCert /\ d.signer = c
  BY Types, NotNoCert DEF Cert
<1> HIDE DEF d
<1>2. Longer([ca |-> StoredSecrets.ca, serving |-> d])
  BY DEF d
<1>3. StoredSecrets'.ca = StoredSecrets.ca /\ StoredSecrets'.serving = d
      /\ StoredConfig' = StoredConfig
  BY <1>2 DEF Longer, StoredConfig
<1>4. ASSUME NEW i \in 1..Len(secrets') PROVE secrets'[i].ca \in {NoCA, StoredSecrets.ca}
  <2>1. i \in 1..Len(secrets) \/ i = Len(secrets) + 1
    BY <1>2, Types DEF Longer
  <2>2. QED
    BY <1>2, <2>1 DEF Longer, StoredOnce
<1>5. QED
  BY <1>1, <1>3, <1>4 DEF StoredOnce

LEMMA MakesCertOneCA ==
    ASSUME TypeOK, OneCA, NEW r \in Replicas, MakesCert(r) PROVE OneCA'
<1>1. /\ UNCHANGED <<configs, script>> /\ proc[r].pc = "store" /\ script.pc = "over"
      /\ proc[r].ca # NoCA /\ proc[r].ca = StoredSecrets.ca
  BY DEF MakesCert, Rest, OneCA, HeldOnce, Ensured
<1>2. /\ StoredOnce'
      /\ StoredSecrets'.ca = StoredSecrets.ca /\ StoredSecrets'.serving # NoCert
  BY <1>1, CertOneCA DEF MakesCert, OneCA
<1>3. PICK p : /\ Becomes(r, p)
               /\ p.pc \in {"down", "ready"} \/ (p.pc = "patch" /\ p.ca = proc[r].ca)
  BY DEF MakesCert, Continues
<1>4. HeldOnce'
  BY <1>1, <1>2, <1>3, Became DEF OneCA, HeldOnce, Ensured
<1>5. QED
  BY <1>1, <1>2, <1>4 DEF OneCA, ScriptOnce

LEMMA MakesBundleOneCA ==
    ASSUME TypeOK, OneCA, NEW r \in Replicas, MakesBundle(r) PROVE OneCA'
<1>1. /\ UNCHANGED <<secrets, script>> /\ proc[r].pc = "update" /\ script.pc = "over"
      /\ proc[r].ca = StoredSecrets.ca /\ StoredSecrets.serving # NoCert
      /\ StoredConfig'.bundle = proc[r].ca
  BY DEF MakesBundle, Rest, OneCA, HeldOnce, Ensured, ConfigLonger
<1>2. StoredSecrets' = StoredSecrets /\ StoredOnce'
  BY <1>1 DEF OneCA, StoredOnce, StoredSecrets
<1>3. PICK p : Becomes(r, p) /\ p.pc \in {"down", "ready"}
  BY DEF MakesBundle
<1>4. HeldOnce'
  BY <1>1, <1>2, <1>3, Became DEF OneCA, HeldOnce, Ensured
<1>5. QED
  BY <1>1, <1>2, <1>4 DEF OneCA, ScriptOnce

LEMMA StartsOneCA ==
    ASSUME TypeOK, OneCA, NEW r \in Replicas, Starts(r) PROVE OneCA'
<1>1. UNCHANGED <<secrets, configs>> /\ script'.pc = "over"
  BY Types DEF Starts
<1>2. StoredSecrets' = StoredSecrets /\ StoredOnce'
  BY <1>1 DEF OneCA, StoredOnce, StoredSecrets, StoredConfig
<1>3. PICK p : Becomes(r, p) /\ p.pc = "ca"
  BY DEF Starts
<1>4. HeldOnce'
  BY <1>1, <1>2, <1>3, Became DEF OneCA, HeldOnce, Ensured
<1>5. QED
  BY <1>1, <1>2, <1>4 DEF OneCA, ScriptOnce

\* The script, run once and before the operator.
LEMMA ScriptOneCA == ASSUME TypeOK, OneCA, Script, losses' = 0 PROVE OneCA'
<1>0. script.ca \in AnyCA
  BY Types
<1>1. CASE ScriptBegins
  <2>1. script.pc = "waiting" /\ UNCHANGED <<secrets, configs, proc>>
    BY <1>1, LossCounted DEF ScriptBegins
  <2>2. script'.pc = "ca" /\ script'.ca # NoCA
    BY <1>1, UnusedIsCA DEF ScriptBegins
  <2>3. StoredSecrets' = StoredSecrets /\ StoredOnce'
    BY <2>1 DEF OneCA, StoredOnce, StoredSecrets, StoredConfig
  <2>4. QED
    BY <2>1, <2>2, <2>3 DEF OneCA, HeldOnce, ScriptOnce
<1>2. CASE ScriptCA
  <2> DEFINE c == script.ca
  <2>1. /\ script.pc = "ca" /\ StoreCA(c) /\ UNCHANGED <<configs, proc>>
        /\ script'.pc = "serving" /\ script'.ca = c
    BY <1>2, Types DEF ScriptCA
  <2>2. Longer([ca |-> c, serving |-> StoredSecrets.serving])
    BY <1>0, <2>1, CAStored
  <2>3. /\ c # NoCA /\ StoredSecrets.serving = NoCert /\ StoredConfig.bundle = NoCA
        /\ \A s \in Replicas : proc[s].pc = "down"
        /\ \A i \in 1..Len(secrets) : secrets[i].ca = NoCA /\ secrets[i].serving = NoCert
    BY <2>1 DEF OneCA, HeldOnce, ScriptOnce, StoredOnce
  <2>4. /\ StoredSecrets'.ca = c /\ StoredSecrets'.serving = NoCert
        /\ StoredConfig'.bundle = NoCA
    BY <2>1, <2>2, <2>3 DEF Longer, StoredConfig
  <2>5. ASSUME NEW i \in 1..Len(secrets')
        PROVE  secrets'[i].ca \in {NoCA, c} /\ secrets'[i].serving = NoCert
    <3>1. i \in 1..Len(secrets) \/ i = Len(secrets) + 1
      BY <2>2, Types DEF Longer
    <3>2. QED
      BY <2>2, <2>3, <3>1 DEF Longer
  <2>6. StoredOnce'
    BY <2>4, <2>5 DEF StoredOnce
  <2>7. QED
    BY <2>1, <2>3, <2>4, <2>6 DEF OneCA, HeldOnce, ScriptOnce, Ensured
<1>3. CASE ScriptServing
  <2>1. /\ script.pc = "serving" /\ UNCHANGED <<configs, proc>>
        /\ script'.pc = "config" /\ script'.ca = script.ca
        /\ script.ca # NoCA /\ script.ca = StoredSecrets.ca
        /\ \A s \in Replicas : proc[s].pc = "down"
    BY <1>3, Types DEF ScriptServing, OneCA, HeldOnce, ScriptOnce
  <2>2. now + Lifetime \in Nat
    BY Types, LifetimeAssumption
  <2>3. Longer([ca |-> StoredSecrets.ca,
                serving |-> Cert(script.ca, now + Lifetime, Len(secrets) + 1)])
    BY <1>0, <1>3, <2>2, CertStored DEF ScriptServing
  <2>4. /\ StoredOnce'
        /\ StoredSecrets'.ca = StoredSecrets.ca /\ StoredSecrets'.serving # NoCert
    BY <2>1, <2>3, CertOneCA DEF OneCA
  <2>5. QED
    BY <2>1, <2>4 DEF OneCA, HeldOnce, ScriptOnce, Ensured
<1>4. CASE ScriptConfig
  <2>1. /\ script.pc = "config" /\ UNCHANGED <<secrets, proc>> /\ script'.pc = "over"
        /\ script.ca = StoredSecrets.ca /\ StoredSecrets.serving # NoCert
        /\ \A s \in Replicas : proc[s].pc = "down"
    BY <1>4 DEF ScriptConfig, OneCA, HeldOnce, ScriptOnce
  <2>2. StoredConfig' = StoredConfig \/ StoredConfig'.bundle = script.ca
    <3>1. CASE StoreBundle(script.ca)
      <4>1. script.ca \in AnyCA
        BY Types
      <4>2. StoredConfig' = [exists |-> StoredConfig.exists, bundle |-> script.ca]
        BY <3>1, <4>1, BundleStored DEF ConfigLonger
      <4>3. QED
        BY <4>2
    <3>2. QED
      BY <1>4, <3>1 DEF ScriptConfig, StoredConfig
  <2>3. StoredSecrets' = StoredSecrets /\ StoredOnce'
    BY <2>1, <2>2 DEF OneCA, StoredOnce, StoredSecrets
  <2>4. QED
    BY <2>1, <2>3 DEF OneCA, HeldOnce, ScriptOnce, Ensured
<1>5. CASE ScriptDies
  <2>1. UNCHANGED <<secrets, configs, proc>> /\ script'.pc = "over"
    BY <1>5 DEF ScriptDies
  <2>2. StoredSecrets' = StoredSecrets /\ StoredOnce'
    BY <2>1 DEF OneCA, StoredOnce, StoredSecrets, StoredConfig
  <2>3. QED
    BY <2>1, <2>2 DEF OneCA, HeldOnce, ScriptOnce
<1>6. QED
  BY <1>1, <1>2, <1>3, <1>4, <1>5 DEF Script

LEMMA ClusterOneCA ==
    ASSUME TypeOK, OneCA, InstallConfig \/ LoseCA \/ Tick, losses' = 0 PROVE OneCA'
<1>1. ~LoseCA
  BY LossCounted DEF LoseCA
<1>2. UNCHANGED <<secrets, proc, script>>
  BY <1>1 DEF InstallConfig, Tick
<1>3. StoredConfig' = StoredConfig \/ StoredConfig'.bundle = NoCA
  BY <1>1, Installed DEF Tick, ConfigLonger, StoredConfig
<1>4. StoredSecrets' = StoredSecrets /\ StoredOnce'
  BY <1>2, <1>3 DEF OneCA, StoredOnce, StoredSecrets
<1>5. QED
  BY <1>2, <1>4 DEF OneCA, HeldOnce, ScriptOnce

\* Nothing gives a lost CA back.
LEMMA LossesStay == ASSUME TypeOK, [Next]_vars, losses' = 0 PROVE losses = 0
<1>1. CASE \E r \in Replicas : EnsureCerts(r) \/ Crash(r) \/ CacheSecrets(r) \/ CacheConfig(r)
  BY <1>1, ProcessSteps DEF Quiet, MakesCA, MakesCert, MakesBundle, Rest
<1>2. CASE \E r \in Replicas : Start(r)
  BY <1>2 DEF Start
<1>3. CASE Script \/ InstallConfig \/ LoseCA \/ Tick
  BY <1>3, LossCounted
  DEF Script, ScriptBegins, ScriptCA, ScriptServing, ScriptConfig, ScriptDies,
      InstallConfig, LoseCA, Tick
<1>4. CASE UNCHANGED vars
  BY <1>4 DEF vars
<1>5. QED
  BY <1>1, <1>2, <1>3, <1>4 DEF Next

LEMMA StepOneCA == TypeOK /\ (losses = 0 => OneCA) /\ [Next]_vars => (losses = 0 => OneCA)'
<1> SUFFICES ASSUME TypeOK, losses = 0 => OneCA, [Next]_vars, losses' = 0 PROVE OneCA'
  OBVIOUS
<1>1. OneCA
  BY LossesStay
<1>2. CASE \E r \in Replicas : EnsureCerts(r) \/ Crash(r) \/ CacheSecrets(r) \/ CacheConfig(r)
  BY <1>1, <1>2, ProcessSteps, QuietOneCA, MakesCAOneCA, MakesCertOneCA, MakesBundleOneCA
<1>3. CASE \E r \in Replicas : Start(r)
  BY <1>1, <1>3, StartStep, StartsOneCA
<1>4. CASE Script \/ InstallConfig \/ LoseCA \/ Tick
  BY <1>1, <1>4, ScriptOneCA, ClusterOneCA
<1>5. CASE UNCHANGED vars
  BY <1>1, <1>5
  DEF OneCA, StoredOnce, HeldOnce, ScriptOnce, StoredSecrets, StoredConfig, vars
<1>6. QED
  BY <1>2, <1>3, <1>4, <1>5 DEF Next

\* As long as nobody takes the CA Secret away, the stored bundle is the CA of
\* the stored certificate, however many processes race at their start, crash
\* or read stale caches (certs.go:61-84, 189, 271-290).
THEOREM BundleIsTheSigner == Spec => []BundleFitsServing
<1>1. TypeOK /\ (losses = 0 => OneCA) => BundleFitsServing
  BY DEF OneCA, StoredOnce, BundleFitsServing, Trusted
<1>2. Init => (losses = 0 => OneCA)
  BY InitOneCA
<1>3. QED
  BY <1>1, <1>2, InitTyped, StepTyped, StepOneCA, PTL DEF Spec
-----------------------------------------------------------------------------
(* A run that returns nil has done its work.                               *)

\* A bundle is replaced and never cleared, and a webhook configuration stays.
Configured ==
    /\ \A i \in 1..Len(configs) :
          /\ configs[i].bundle # NoCA => StoredConfig.bundle # NoCA
          /\ configs[1].exists => configs[i].exists
    /\ ~StoredConfig.exists => StoredConfig.bundle = NoCA

\* What a process knows once it has got somewhere: past ensureCA it holds a
\* CA, what it is about to update exists, and when it is done there is a bundle.
Grounded ==
    /\ \A r \in Replicas :
          /\ proc[r].pc \in Ensured \cup {"create"} => proc[r].ca # NoCA
          /\ proc[r].pc = "update" =>
                proc[r].copy \in 1..Len(configs) /\ configs[proc[r].copy].exists
          /\ configs[1].exists /\ proc[r].pc = "ready" => StoredConfig.bundle # NoCA
    /\ script.pc \in {"ca", "serving", "config"} => script.ca # NoCA

LEMMA InitGrounded == Init => Configured /\ Grounded
<1> SUFFICES ASSUME Init PROVE Configured /\ Grounded
  OBVIOUS
<1>1. PICK e \in BOOLEAN : configs = <<[exists |-> e, bundle |-> NoCA]>>
  BY DEF Init
<1>2. Len(configs) = 1 /\ configs[1] = [exists |-> e, bundle |-> NoCA]
  BY <1>1
<1>3. StoredConfig = configs[1] /\ configs[1].bundle = NoCA
  BY <1>2 DEF StoredConfig, Stored
<1>4. script.pc = "waiting" /\ \A r \in Replicas : proc[r].pc = "down"
  BY DEF Init, Down
<1>5. QED
  BY <1>2, <1>3, <1>4 DEF Configured, Grounded, Ensured

\* The configuration is written: the new one has no less than the stored one.
LEMMA ConfigWritten ==
    ASSUME TypeOK, Configured, NEW x \in ConfigType, ConfigLonger(x),
           StoredConfig.bundle # NoCA => x.bundle # NoCA,
           StoredConfig.exists => x.exists, x.exists
    PROVE  /\ Configured' /\ StoredConfig' = x
           /\ 1..Len(configs) \subseteq 1..Len(configs')
           /\ \A i \in 1..Len(configs) : configs'[i] = configs[i]
<1>1. /\ StoredConfig' = x /\ Len(configs') = Len(configs) + 1
      /\ configs'[Len(configs) + 1] = x
      /\ \A i \in 1..Len(configs) : configs'[i] = configs[i]
  BY DEF ConfigLonger
<1>2. 1 \in 1..Len(configs) /\ 1..Len(configs) \subseteq 1..Len(configs')
  BY <1>1, Types
<1>3. ASSUME NEW i \in 1..Len(configs')
      PROVE  /\ configs'[i].bundle # NoCA => x.bundle # NoCA
             /\ configs'[1].exists => configs'[i].exists
  <2>1. CASE i \in 1..Len(configs)
    BY <1>1, <1>2, <2>1 DEF Configured
  <2>2. CASE i = Len(configs) + 1
    BY <1>1, <2>2
  <2>3. QED
    BY <1>1, <2>1, <2>2, Types
<1>4. QED
  BY <1>1, <1>2, <1>3 DEF Configured

\* A step that leaves the configuration alone, and the processes but r, which
\* becomes p.
LEMMA GroundedIf ==
    ASSUME TypeOK, Configured, Grounded, NEW r \in Replicas, NEW p, Becomes(r, p),
           UNCHANGED configs,
           p.pc \in Ensured \cup {"create"} => p.ca # NoCA,
           p.pc = "update" => p.copy \in 1..Len(configs) /\ configs[p.copy].exists,
           configs[1].exists /\ p.pc = "ready" => StoredConfig.bundle # NoCA,
           script'.pc \in {"ca", "serving", "config"} => script'.ca # NoCA
    PROVE  Configured' /\ Grounded'
<1>1. StoredConfig' = StoredConfig /\ Configured'
  BY DEF Configured, StoredConfig
<1>2. ASSUME NEW s \in Replicas
      PROVE  /\ proc'[s].pc \in Ensured \cup {"create"} => proc'[s].ca # NoCA
             /\ proc'[s].pc = "update" =>
                   proc'[s].copy \in 1..Len(configs) /\ configs[proc'[s].copy].exists
             /\ configs[1].exists /\ proc'[s].pc = "ready" => StoredConfig.bundle # NoCA
  <2>1. CASE s = r
    BY <2>1, Became
  <2>2. CASE s # r
    <3>1. proc'[s] = proc[s]
      BY <2>2, Became
    <3>2. QED
      BY <3>1 DEF Grounded
  <2>3. QED
    BY <2>1, <2>2
<1>3. QED
  BY <1>1, <1>2 DEF Grounded

LEMMA QuietGrounded ==
    ASSUME TypeOK, Configured, Grounded, NEW r \in Replicas, Quiet(r)
    PROVE  Configured' /\ Grounded'
<1>1. PICK p :
         /\ Becomes(r, p)
         /\ p.pc \in Ensured =>
               \/ proc[r].pc \in Ensured /\ p.ca = proc[r].ca
               \/ p.ca = CachedSecrets(r).ca /\ p.ca # NoCA
         /\ p.pc = "create" =>
               p.ca # NoCA \/ (proc[r].pc = "create" /\ p.ca = proc[r].ca)
         /\ p.pc = "update" =>
               \/ proc[r].pc = "update" /\ p.copy = proc[r].copy
               \/ CachedConfig(r).exists /\ p.copy = proc[r].seenConfigs
         /\ p.pc = "ready" =>
               /\ proc[r].pc = "patch"
               /\ CachedConfig(r).exists => CachedConfig(r).bundle = proc[r].ca
  BY DEF Quiet
<1>2. proc[r].pc \in Ensured \cup {"create"} => proc[r].ca # NoCA
  BY DEF Grounded
<1>3. p.pc \in Ensured \cup {"create"} => p.ca # NoCA
  BY <1>1, <1>2
<1>4. p.pc = "update" => p.copy \in 1..Len(configs) /\ configs[p.copy].exists
  <2>1. proc[r].seenConfigs \in 1..Len(configs)
        /\ CachedConfig(r) = configs[proc[r].seenConfigs]
    BY ProcessTypes DEF CachedConfig
  <2>2. QED
    BY <1>1, <2>1 DEF Grounded
<1>5. configs[1].exists /\ p.pc = "ready" => StoredConfig.bundle # NoCA
  <2>1. proc[r].seenConfigs \in 1..Len(configs)
        /\ CachedConfig(r) = configs[proc[r].seenConfigs]
    BY ProcessTypes DEF CachedConfig
  <2>2. p.pc = "ready" => proc[r].ca # NoCA
    BY <1>1, <1>2 DEF Ensured
  <2>3. QED
    BY <1>1, <2>1, <2>2 DEF Configured
<1>6. UNCHANGED <<configs, script>>
  BY DEF Quiet, Rest
<1>7. script'.pc \in {"ca", "serving", "config"} => script'.ca # NoCA
  BY <1>6 DEF Grounded
<1>8. QED
  BY <1>1, <1>3, <1>4, <1>5, <1>6, <1>7, GroundedIf

LEMMA SecretsGrounded ==
    ASSUME TypeOK, Configured, Grounded, NEW r \in Replicas, MakesCA(r) \/ MakesCert(r)
    PROVE  Configured' /\ Grounded'
<1>1. PICK p : /\ Becomes(r, p)
               /\ p.pc = "down" \/ (p.pc \in {"serving", "patch"} /\ p.ca = proc[r].ca)
  BY DEF MakesCA, MakesCert, Continues
<1>2. /\ UNCHANGED <<configs, script>> /\ proc[r].pc \in Ensured \cup {"create"}
  BY DEF MakesCA, MakesCert, Rest, Ensured
<1>3. proc[r].ca # NoCA /\ (script'.pc \in {"ca", "serving", "config"} => script'.ca # NoCA)
  BY <1>2 DEF Grounded
<1>4. /\ p.pc \in Ensured \cup {"create"} => p.ca # NoCA
      /\ p.pc # "update" /\ p.pc # "ready"
  BY <1>1, <1>3 DEF Ensured
<1>5. QED
  BY <1>1, <1>2, <1>3, <1>4, GroundedIf

\* The writes of the configuration: none clears the bundle.
LEMMA BundleWritten ==
    ASSUME TypeOK, Configured, Grounded, NEW r \in Replicas, MakesBundle(r)
    PROVE  /\ Configured' /\ StoredConfig'.bundle = proc[r].ca /\ proc[r].ca # NoCA
           /\ 1..Len(configs) \subseteq 1..Len(configs')
           /\ \A i \in 1..Len(configs) : configs'[i] = configs[i]
<1> DEFINE x == [exists |-> StoredConfig.exists, bundle |-> proc[r].ca]
<1>1. proc[r].ca # NoCA /\ proc[r].copy = Len(configs) /\ configs[proc[r].copy].exists
  BY DEF MakesBundle, Grounded, Ensured
<1>2. StoredConfig = configs[Len(configs)]
  BY DEF StoredConfig, Stored
<1>3. x \in ConfigType /\ x.exists /\ x.bundle = proc[r].ca
  BY <1>1, <1>2, Types, ProcessTypes DEF ConfigType
<1>4. ConfigLonger(x)
  BY DEF MakesBundle
<1> HIDE DEF x
<1>5. QED
  BY <1>1, <1>3, <1>4, ConfigWritten

\* With a longer configuration, r ends and the others stay.
LEMMA BundleGrounded ==
    ASSUME TypeOK, Configured, Grounded, NEW r \in Replicas, MakesBundle(r)
    PROVE  Configured' /\ Grounded'
<1>1. /\ Configured' /\ StoredConfig'.bundle # NoCA
      /\ 1..Len(configs) \subseteq 1..Len(configs')
      /\ \A i \in 1..Len(configs) : configs'[i] = configs[i]
  BY BundleWritten
<1>2. PICK p : Becomes(r, p) /\ p.pc \in {"down", "ready"}
  BY DEF MakesBundle
<1>3. ASSUME NEW s \in Replicas
      PROVE  /\ proc'[s].pc \in Ensured \cup {"create"} => proc'[s].ca # NoCA
             /\ proc'[s].pc = "update" =>
                   proc'[s].copy \in 1..Len(configs') /\ configs'[proc'[s].copy].exists
  <2>1. CASE s = r
    BY <1>2, <2>1, Became DEF Ensured
  <2>2. CASE s # r
    <3>1. proc'[s] = proc[s]
      BY <1>2, <2>2, Became
    <3>2. QED
      BY <1>1, <3>1 DEF Grounded
  <2>3. QED
    BY <2>1, <2>2
<1>4. UNCHANGED script
  BY DEF MakesBundle, Rest
<1>5. script'.pc \in {"ca", "serving", "config"} => script'.ca # NoCA
  BY <1>4 DEF Grounded
<1>6. QED
  BY <1>1, <1>3, <1>5 DEF Grounded

LEMMA StartsGrounded ==
    ASSUME TypeOK, Configured, Grounded, NEW r \in Replicas, Starts(r)
    PROVE  Configured' /\ Grounded'
<1>1. PICK p : Becomes(r, p) /\ p.pc = "ca"
  BY DEF Starts
<1>2. UNCHANGED configs /\ script'.pc = "over"
  BY Types DEF Starts
<1>3. QED
  BY <1>1, <1>2, GroundedIf DEF Ensured

\* The script and the cluster leave the processes alone.
LEMMA StandingGrounded ==
    ASSUME TypeOK, Configured, Grounded, UNCHANGED proc,
           UNCHANGED configs
             \/ /\ Configured'
                /\ StoredConfig.bundle # NoCA => StoredConfig'.bundle # NoCA
                /\ 1..Len(configs) \subseteq 1..Len(configs')
                /\ \A i \in 1..Len(configs) : configs'[i] = configs[i],
           script'.pc \in {"ca", "serving", "config"} => script'.ca # NoCA
    PROVE  Configured' /\ Grounded'
<1>1. CASE UNCHANGED configs
  BY <1>1 DEF Configured, Grounded, StoredConfig
<1>2. CASE /\ Configured'
           /\ StoredConfig.bundle # NoCA => StoredConfig'.bundle # NoCA
           /\ 1..Len(configs) \subseteq 1..Len(configs')
           /\ \A i \in 1..Len(configs) : configs'[i] = configs[i]
  <2>1. 1 \in 1..Len(configs) /\ configs'[1] = configs[1]
    BY <1>2, Types
  <2>2. QED
    BY <1>2, <2>1 DEF Grounded
<1>3. QED
  BY <1>1, <1>2

LEMMA ScriptGrounded ==
    ASSUME TypeOK, Configured, Grounded, Script PROVE Configured' /\ Grounded'
<1>1. UNCHANGED proc
  BY DEF Script, ScriptBegins, ScriptCA, ScriptServing, ScriptConfig, ScriptDies
<1>2. script'.pc \in {"ca", "serving", "config"} => script'.ca # NoCA
  <2>1. CASE ScriptBegins
    BY <2>1, UnusedIsCA DEF ScriptBegins
  <2>2. CASE ScriptCA \/ ScriptServing
    BY <2>2, Types DEF ScriptCA, ScriptServing, Grounded
  <2>3. CASE ScriptConfig \/ ScriptDies
    BY <2>3 DEF ScriptConfig, ScriptDies
  <2>4. QED
    BY <2>1, <2>2, <2>3 DEF Script
<1>3. CASE UNCHANGED configs
  BY <1>1, <1>2, <1>3, StandingGrounded
<1>4. CASE ScriptConfig /\ StoredConfig.exists /\ StoreBundle(script.ca)
  <2> DEFINE x == [exists |-> StoredConfig.exists, bundle |-> script.ca]
  <2>1. script.ca \in AnyCA /\ script.ca # NoCA
    BY <1>4, Types DEF ScriptConfig, Grounded
  <2>2. x \in ConfigType /\ x.exists /\ x.bundle # NoCA
    BY <1>4, <2>1, Types DEF ConfigType
  <2>3. ConfigLonger(x)
    BY <1>4, <2>1, BundleStored
  <2> HIDE DEF x
  <2>4. /\ Configured' /\ StoredConfig' = x
        /\ 1..Len(configs) \subseteq 1..Len(configs')
        /\ \A i \in 1..Len(configs) : configs'[i] = configs[i]
    BY <2>2, <2>3, ConfigWritten
  <2>5. StoredConfig'.bundle # NoCA
    BY <2>2, <2>4
  <2>6. QED
    BY <1>1, <1>2, <2>4, <2>5, StandingGrounded
<1>5. QED
  BY <1>3, <1>4
  DEF Script, ScriptBegins, ScriptCA, ScriptServing, ScriptConfig, ScriptDies

LEMMA ClusterGrounded ==
    ASSUME TypeOK, Configured, Grounded, InstallConfig \/ LoseCA \/ Tick
    PROVE  Configured' /\ Grounded'
<1>1. UNCHANGED <<proc, script>>
  BY DEF InstallConfig, LoseCA, Tick
<1>2. script'.pc \in {"ca", "serving", "config"} => script'.ca # NoCA
  BY <1>1 DEF Grounded
<1>3. CASE LoseCA \/ Tick
  BY <1>1, <1>2, <1>3, StandingGrounded DEF LoseCA, Tick
<1>4. CASE InstallConfig
  <2> DEFINE x == [exists |-> TRUE, bundle |-> NoCA]
  <2>1. x \in ConfigType /\ x.exists /\ StoredConfig.bundle = NoCA
    BY <1>4 DEF ConfigType, AnyCA, InstallConfig, Configured
  <2>2. ConfigLonger(x)
    BY <1>4, Installed
  <2> HIDE DEF x
  <2>3. /\ Configured' /\ StoredConfig' = x
        /\ 1..Len(configs) \subseteq 1..Len(configs')
        /\ \A i \in 1..Len(configs) : configs'[i] = configs[i]
    BY <2>1, <2>2, ConfigWritten
  <2>4. QED
    BY <1>1, <1>2, <2>1, <2>3, StandingGrounded
<1>5. QED
  BY <1>3, <1>4

LEMMA StepGrounded ==
    TypeOK /\ Configured /\ Grounded /\ [Next]_vars => Configured' /\ Grounded'
<1> SUFFICES ASSUME TypeOK, Configured, Grounded, [Next]_vars PROVE Configured' /\ Grounded'
  OBVIOUS
<1>1. CASE \E r \in Replicas : EnsureCerts(r) \/ Crash(r) \/ CacheSecrets(r) \/ CacheConfig(r)
  BY <1>1, ProcessSteps, QuietGrounded, SecretsGrounded, BundleGrounded
<1>2. CASE \E r \in Replicas : Start(r)
  BY <1>2, StartStep, StartsGrounded
<1>3. CASE Script \/ InstallConfig \/ LoseCA \/ Tick
  BY <1>3, ScriptGrounded, ClusterGrounded
<1>4. CASE UNCHANGED vars
  BY <1>4 DEF Configured, Grounded, StoredConfig, vars
<1>5. QED
  BY <1>1, <1>2, <1>3, <1>4 DEF Next

\* With a webhook configuration there from the start, and nobody taking the CA
\* away, a process whose EnsureCerts has returned nil leaves the API server
\* trusting the webhook, whatever its caches showed it (certs.go:61-84, 271-304).
THEOREM ReadyIsTrusted == Spec => []ReadyMeansTrusted
<1>1. (losses = 0 => OneCA) /\ Grounded => ReadyMeansTrusted
  BY DEF OneCA, StoredOnce, Grounded, ReadyMeansTrusted, Trusted
<1>2. Init => (losses = 0 => OneCA)
  BY InitOneCA
<1>3. QED
  BY <1>1, <1>2, InitTyped, StepTyped, StepOneCA, InitGrounded, StepGrounded, PTL DEF Spec

-----------------------------------------------------------------------------
(* The refinement of TrustChain.                                           *)

\* Nothing of the chain changes.
ChainStays ==
    /\ StoredSecrets'.ca = StoredSecrets.ca /\ EverStored' = EverStored
    /\ StoredSecrets'.serving = StoredSecrets.serving
    /\ StoredConfig'.bundle = StoredConfig.bundle /\ losses' = losses

LEMMA Stutters == ChainStays => UNCHANGED Chain!trustVars
BY DEF ChainStays, Chain!trustVars

\* A step that leaves both histories and the losses alone is a stutter.
LEMMA StuttersIf == UNCHANGED <<secrets, configs, losses>> => ChainStays
BY DEF ChainStays, StoredSecrets, StoredConfig, EverStored

\* A write of the secrets adds its CA to those ever stored, and nothing else.
LEMMA EverAdds ==
    ASSUME TypeOK, NEW x \in SecretsType, Longer(x)
    PROVE  StoredSecrets' = x /\ EverStored' = EverStored \cup {x.ca}
<1>1. /\ StoredSecrets' = x /\ Len(secrets') = Len(secrets) + 1
      /\ secrets'[Len(secrets) + 1] = x
      /\ \A i \in 1..Len(secrets) : secrets'[i] = secrets[i]
      /\ Len(secrets) \in Nat
  BY Types DEF Longer
<1>2. ASSUME NEW c \in EverStored' PROVE c \in EverStored \cup {x.ca}
  <2>1. PICK i \in 1..Len(secrets') : c = secrets'[i].ca
    BY DEF EverStored
  <2>2. i \in 1..Len(secrets) \/ i = Len(secrets) + 1
    BY <1>1
  <2>3. QED
    BY <1>1, <2>1, <2>2 DEF EverStored
<1>3. ASSUME NEW c \in EverStored \cup {x.ca} PROVE c \in EverStored'
  <2>1. CASE c \in EverStored
    <3>1. PICK i \in 1..Len(secrets) : c = secrets[i].ca
      BY <2>1 DEF EverStored
    <3>2. i \in 1..Len(secrets') /\ secrets'[i].ca = c
      BY <1>1, <3>1
    <3>3. QED
      BY <3>2 DEF EverStored
  <2>2. CASE c = x.ca
    <3>1. Len(secrets) + 1 \in 1..Len(secrets') /\ secrets'[Len(secrets) + 1].ca = c
      BY <1>1, <2>2
    <3>2. QED
      BY <3>1 DEF EverStored
  <2>3. QED
    BY <2>1, <2>2
<1>4. QED
  BY <1>1, <1>2, <1>3

\* The first CA of all, or one after the CA was taken away.
LEMMA EstablishIf ==
    ASSUME TypeOK, NEW c \in AnyCA, c # NoCA, StoredSecrets.ca = NoCA \/ losses # 0,
           Longer([ca |-> c, serving |-> StoredSecrets.serving]), UNCHANGED <<configs, losses>>
    PROVE  Chain!Establish
<1>1. [ca |-> c, serving |-> StoredSecrets.serving] \in SecretsType
  BY Types DEF SecretsType
<1>2. /\ StoredSecrets'.ca = c /\ StoredSecrets'.serving = StoredSecrets.serving
      /\ EverStored' = EverStored \cup {c}
  BY <1>1, EverAdds
<1>3. StoredConfig' = StoredConfig
  BY DEF StoredConfig
<1>4. QED
  BY <1>2, <1>3 DEF Chain!Establish

\* A certificate is signed by a CA that was stored, and by the one there is
\* as long as it was not taken away.
LEMMA SignIf ==
    ASSUME TypeOK, Kept, NEW c \in EverStored, c # NoCA, losses = 0 => c = StoredSecrets.ca,
           NEW until \in Nat,
           Longer([ca |-> StoredSecrets.ca, serving |-> Cert(c, until, Len(secrets) + 1)]),
           UNCHANGED <<configs, losses>>
    PROVE  Chain!Sign
<1> DEFINE d == Cert(c, until, Len(secrets) + 1)
           x == [ca |-> StoredSecrets.ca, serving |-> d]
<1>1. c \in AnyCA
  <2>1. PICK i \in 1..Len(secrets) : c = secrets[i].ca
    BY DEF EverStored
  <2>2. secrets[i] \in SecretsType
    BY Types
  <2>3. QED
    BY <2>1, <2>2 DEF SecretsType
<1>2. d \in CertType /\ d.signer = c
  BY <1>1, Types DEF Cert, CertType, AnyCA
<1> HIDE DEF d
<1>3. x \in SecretsType /\ x.ca = StoredSecrets.ca /\ x.serving = d
  BY <1>2, Types DEF SecretsType
<1>4. Longer(x)
  BY DEF d
<1> HIDE DEF x
<1>5. /\ StoredSecrets'.ca = StoredSecrets.ca /\ StoredSecrets'.serving = d
      /\ EverStored' = EverStored \cup {StoredSecrets.ca}
  BY <1>3, <1>4, EverAdds
<1>6. StoredSecrets.ca \in EverStored
  BY Types DEF EverStored
<1>7. StoredConfig' = StoredConfig /\ EverStored' = EverStored
  BY <1>5, <1>6 DEF StoredConfig
<1>8. QED
  BY <1>2, <1>5, <1>7 DEF Chain!Sign

\* A bundle that is stored is a CA that was stored, and the certificate's
\* signer as long as the CA was not taken away.
LEMMA TrustIf ==
    ASSUME StoredConfig'.bundle \in EverStored, StoredConfig'.bundle # NoCA,
           losses = 0 => StoredConfig'.bundle = StoredSecrets.serving.signer,
           UNCHANGED <<secrets, losses>>
    PROVE  Chain!Trust
<1>1. StoredSecrets' = StoredSecrets /\ EverStored' = EverStored
  BY DEF StoredSecrets, EverStored
<1>2. QED
  BY <1>1 DEF Chain!Trust

\* The processes.
LEMMA ProcessMaps ==
    ASSUME TypeOK, Kept, losses = 0 => OneCA, Configured, Grounded, NEW r \in Replicas,
           Quiet(r) \/ MakesCA(r) \/ MakesCert(r) \/ MakesBundle(r)
    PROVE  Chain!TrustNext \/ ChainStays
<1>1. CASE Quiet(r)
  BY <1>1, StuttersIf DEF Quiet, Rest
<1>2. CASE MakesCA(r)
  <2>1. proc[r].ca \in AnyCA /\ proc[r].ca # NoCA
    BY <1>2, ProcessTypes DEF MakesCA, Grounded
  <2>2. Chain!Establish
    BY <1>2, <2>1, EstablishIf DEF MakesCA, Rest
  <2>3. QED
    BY <2>2 DEF Chain!TrustNext
<1>3. CASE MakesCert(r)
  <2>1. /\ proc[r].ca \in EverStored /\ proc[r].ca # NoCA /\ proc[r].until \in Nat
        /\ losses = 0 => proc[r].ca = StoredSecrets.ca
    BY <1>3, ProcessTypes DEF MakesCert, Kept, Grounded, OneCA, HeldOnce, Ensured
  <2>2. Chain!Sign
    BY <1>3, <2>1, SignIf DEF MakesCert, Rest
  <2>3. QED
    BY <2>2 DEF Chain!TrustNext
<1>4. CASE MakesBundle(r)
  <2>1. StoredConfig'.bundle = proc[r].ca /\ proc[r].ca # NoCA /\ proc[r].pc = "update"
    BY <1>4, BundleWritten DEF MakesBundle
  <2>2. /\ proc[r].ca \in EverStored
        /\ losses = 0 => proc[r].ca = StoredSecrets.serving.signer
    BY <2>1 DEF Kept, OneCA, HeldOnce, StoredOnce, Ensured
  <2>3. Chain!Trust
    BY <1>4, <2>1, <2>2, TrustIf DEF MakesBundle, Rest
  <2>4. QED
    BY <2>3 DEF Chain!TrustNext
<1>5. QED
  BY <1>1, <1>2, <1>3, <1>4

\* The CA is taken away: deleted, or about to be replaced by a second run of
\* the script.
LEMMA TakeAwayIf ==
    ASSUME StoredSecrets'.ca \in {StoredSecrets.ca, NoCA}, EverStored' = EverStored,
           StoredSecrets'.serving = StoredSecrets.serving, UNCHANGED configs, losses' # 0
    PROVE  Chain!TakeAway
BY DEF Chain!TakeAway, StoredConfig

LEMMA ScriptMaps ==
    ASSUME TypeOK, Kept, losses = 0 => OneCA, Grounded, Script
    PROVE  Chain!TrustNext \/ ChainStays
<1>0. script.ca \in AnyCA
  BY Types
<1>1. CASE ScriptBegins
  <2>1. CASE UNCHANGED losses
    BY <1>1, <2>1, StuttersIf DEF ScriptBegins
  <2>2. CASE losses < MaxLosses /\ losses' = losses + 1
    <3>1. losses' # 0 /\ UNCHANGED <<secrets, configs>>
      BY <1>1, <2>2, LossCounted DEF ScriptBegins
    <3>2. Chain!TakeAway
      BY <3>1, TakeAwayIf DEF StoredSecrets, EverStored
    <3>3. QED
      BY <3>2 DEF Chain!TrustNext
  <2>3. QED
    BY <1>1, <2>1, <2>2 DEF ScriptBegins
<1>2. CASE ScriptCA
  <2>1. script.ca # NoCA /\ (StoredSecrets.ca = NoCA \/ losses # 0)
    BY <1>2 DEF ScriptCA, Grounded, OneCA, ScriptOnce
  <2>2. Longer([ca |-> script.ca, serving |-> StoredSecrets.serving])
    BY <1>0, <1>2, CAStored DEF ScriptCA
  <2>3. Chain!Establish
    BY <1>0, <1>2, <2>1, <2>2, EstablishIf DEF ScriptCA
  <2>4. QED
    BY <2>3 DEF Chain!TrustNext
<1>3. CASE ScriptServing
  <2>1. /\ script.ca \in EverStored /\ script.ca # NoCA /\ now + Lifetime \in Nat
        /\ losses = 0 => script.ca = StoredSecrets.ca
    BY <1>3, Types, LifetimeAssumption DEF ScriptServing, Kept, Grounded, OneCA, ScriptOnce
  <2>2. Longer([ca |-> StoredSecrets.ca,
                serving |-> Cert(script.ca, now + Lifetime, Len(secrets) + 1)])
    BY <1>0, <1>3, <2>1, CertStored DEF ScriptServing
  <2>3. Chain!Sign
    BY <1>3, <2>1, <2>2, SignIf DEF ScriptServing
  <2>4. QED
    BY <2>3 DEF Chain!TrustNext
<1>4. CASE ScriptConfig
  <2>1. CASE UNCHANGED configs
    BY <1>4, <2>1, StuttersIf DEF ScriptConfig
  <2>2. CASE StoreBundle(script.ca)
    <3>1. StoredConfig'.bundle = script.ca
      <4>1. StoredConfig' = [exists |-> StoredConfig.exists, bundle |-> script.ca]
        BY <1>0, <2>2, BundleStored DEF ConfigLonger
      <4>2. QED
        BY <4>1
    <3>2. /\ script.ca \in EverStored /\ script.ca # NoCA
          /\ losses = 0 => script.ca = StoredSecrets.serving.signer
      BY <1>4 DEF ScriptConfig, Kept, Grounded, OneCA, ScriptOnce, StoredOnce
    <3>3. Chain!Trust
      BY <1>4, <3>1, <3>2, TrustIf DEF ScriptConfig
    <3>4. QED
      BY <3>3 DEF Chain!TrustNext
  <2>3. QED
    BY <1>4, <2>1, <2>2 DEF ScriptConfig
<1>5. CASE ScriptDies
  BY <1>5, StuttersIf DEF ScriptDies
<1>6. QED
  BY <1>1, <1>2, <1>3, <1>4, <1>5 DEF Script

LEMMA ClusterMaps ==
    ASSUME TypeOK, Kept, Configured, InstallConfig \/ LoseCA \/ Tick
    PROVE  Chain!TrustNext \/ ChainStays
<1>1. CASE InstallConfig
  <2>1. StoredConfig' = [exists |-> TRUE, bundle |-> NoCA] /\ UNCHANGED <<secrets, losses>>
    BY <1>1, Installed DEF InstallConfig, ConfigLonger
  <2>2. StoredConfig'.bundle = StoredConfig.bundle
    BY <1>1, <2>1 DEF InstallConfig, Configured
  <2>3. QED
    BY <2>1, <2>2 DEF ChainStays, StoredSecrets, EverStored
<1>2. CASE LoseCA
  <2> DEFINE x == [ca |-> NoCA, serving |-> StoredSecrets.serving]
  <2>1. x \in SecretsType /\ x.ca = NoCA /\ x.serving = StoredSecrets.serving
    BY Types DEF SecretsType, AnyCA
  <2>2. Longer(x)
    BY <1>2, CAStored DEF LoseCA, AnyCA
  <2> HIDE DEF x
  <2>3. StoredSecrets' = x /\ EverStored' = EverStored \cup {NoCA}
    BY <2>1, <2>2, EverAdds
  <2>4. NoCA \in EverStored
    <3>1. 1 \in 1..Len(secrets)
      BY Types
    <3>2. QED
      BY <3>1 DEF Kept, EverStored
  <2>5. losses' # 0 /\ UNCHANGED configs
    BY <1>2, LossCounted DEF LoseCA
  <2>6. EverStored' = EverStored /\ StoredSecrets'.ca = NoCA
        /\ StoredSecrets'.serving = StoredSecrets.serving
    BY <2>1, <2>3, <2>4
  <2>7. Chain!TakeAway
    BY <2>5, <2>6, TakeAwayIf
  <2>8. QED
    BY <2>7 DEF Chain!TrustNext
<1>3. CASE Tick
  BY <1>3, StuttersIf DEF Tick
<1>4. QED
  BY <1>1, <1>2, <1>3

LEMMA StepMaps ==
    ASSUME TypeOK, Kept, losses = 0 => OneCA, Configured, Grounded, [Next]_vars
    PROVE  [Chain!TrustNext]_(Chain!trustVars)
<1>1. CASE \E r \in Replicas : EnsureCerts(r) \/ Crash(r) \/ CacheSecrets(r) \/ CacheConfig(r)
  BY <1>1, ProcessSteps, ProcessMaps, Stutters
<1>2. CASE \E r \in Replicas : Start(r)
  BY <1>2, StuttersIf, Stutters DEF Start
<1>3. CASE Script \/ InstallConfig \/ LoseCA \/ Tick
  BY <1>3, ScriptMaps, ClusterMaps, Stutters
<1>4. CASE UNCHANGED vars
  BY <1>4, StuttersIf, Stutters DEF vars
<1>5. QED
  BY <1>1, <1>2, <1>3, <1>4 DEF Next

LEMMA InitMaps == Init => Chain!TrustInit
<1> SUFFICES ASSUME Init PROVE Chain!TrustInit
  OBVIOUS
<1>1. Len(secrets) = 1 /\ secrets[1] = [ca |-> NoCA, serving |-> NoCert]
  BY DEF Init
<1>2. PICK e \in BOOLEAN : configs = <<[exists |-> e, bundle |-> NoCA]>>
  BY DEF Init
<1>3. StoredConfig.bundle = NoCA
  BY <1>2 DEF StoredConfig, Stored
<1>4. StoredSecrets.ca = NoCA /\ StoredSecrets.serving.signer = NoCA
  BY <1>1 DEF StoredSecrets, Stored, NoCert
<1>5. EverStored = {NoCA}
  BY <1>1 DEF EverStored
<1>6. losses = 0
  BY DEF Init
<1>7. QED
  BY <1>3, <1>4, <1>5, <1>6 DEF Chain!TrustInit

\* The certificate manager implements TrustChain: whoever creates, signs and
\* patches, and however runs race, crash or lose a reply, there is one CA as
\* long as it is not taken away, the certificate is signed by it before it is
\* trusted, and trust is never withdrawn (certs.go:61-84, 137-304).
THEOREM ManagerImplementsTrustChain == Spec => ImplementsTrustChain
<1>1. Init => (losses = 0 => OneCA)
  BY InitOneCA
<1>2. /\ TypeOK /\ Kept /\ (losses = 0 => OneCA) /\ Configured /\ Grounded
      /\ [Next]_vars
      => [Chain!TrustNext]_(Chain!trustVars)
  BY StepMaps
<1>3. QED
  BY <1>1, <1>2, InitMaps, InitTyped, StepTyped, InitKept, StepKept, StepOneCA,
     InitGrounded, StepGrounded, PTL
  DEF Spec, ImplementsTrustChain, Chain!TrustSpec
=============================================================================
