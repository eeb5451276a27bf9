-------------------------- MODULE ObjectStatusProofs --------------------------
(***************************************************************************)
(* Theorems about ObjectStatus, for every set of specs and worlds, every   *)
(* bound, and every kind of object.                                        *)
(***************************************************************************)
EXTENDS ObjectStatus, TLAPS

-----------------------------------------------------------------------------
(* What the functions of the code return.                                  *)

LEMMA StoreVerdictType ==
    ASSUME NEW s, NEW w PROVE StoreVerdict(s, w) \in Statuses
BY DEF StoreVerdict, Statuses

LEMMA TSecretVerdictType ==
    ASSUME NEW s PROVE TSecretVerdict(s) \in {"True", "False"}
BY DEF TSecretVerdict

LEMMA DecryptResults ==
    ASSUME NEW v, NEW key
    PROVE  Decrypt(v, key) \in {"format", "cipher", "panic", "plain", "authentication"}
BY DEF Decrypt

LEMMA VerdictType ==
    ASSUME NEW k \in ObjectKinds, NEW s \in DOMAIN Specs[k], NEW w \in DOMAIN Worlds[k]
    PROVE  /\ Verdict[k][s][w] \in Statuses
           /\ k = "TSecret" => Verdict[k][s][w] = TSecretVerdict(Specs[k][s])
<1>1. Verdict[k][s][w] = IF k = "TSecret" THEN TSecretVerdict(Specs[k][s])
                                          ELSE StoreVerdict(Specs[k][s], Worlds[k][w])
  BY DEF Verdict
<1>2. TSecretVerdict(Specs[k][s]) \in Statuses
  BY TSecretVerdictType DEF Statuses
<1>3. StoreVerdict(Specs[k][s], Worlds[k][w]) \in Statuses
  BY StoreVerdictType
<1>4. QED
  BY <1>1, <1>2, <1>3

LEMMA OutcomesType ==
    ASSUME NEW k \in ObjectKinds, NEW s \in DOMAIN Specs[k], NEW w \in DOMAIN Worlds[k]
    PROVE  Outcomes[k][s][w] \subseteq Results
<1>1. Outcomes[k][s][w] = IF k = "TSecret" THEN Inject(Specs[k][s], Worlds[k][w])
                                           ELSE {Pull(Specs[k][s], Worlds[k][w])}
  BY DEF Outcomes
<1>2. Pull(Specs[k][s], Worlds[k][w]) \in {"ok", "failed"}
  BY DEF Pull
<1>3. Inject(Specs[k][s], Worlds[k][w])
         \subseteq {"nokey", "ok", "format", "cipher", "panic", "authentication"}
  BY DecryptResults DEF Inject
<1>4. QED
  BY <1>1, <1>2, <1>3 DEF Results

-----------------------------------------------------------------------------
(* Type correctness.                                                       *)

\* Whoever is about to use or to judge a spec has one.
HasSpec ==
    /\ seen.exists => seen.spec \in SpecNames
    /\ work.pc \in {"judge", "write"} => work.spec \in SpecNames
    /\ reader.pc = "use" => reader.spec \in SpecNames

Typed == TypeOK /\ HasSpec

LEMMA InitTyped == Init => Typed
<1> SUFFICES ASSUME Init PROVE Typed
  OBVIOUS
<1>1. /\ obj.spec \in SpecNames
      /\ obj \in [exists : BOOLEAN, spec : SpecNames, status : Statuses]
  BY DEF Init, Statuses
<1>2. /\ work = [pc |-> "down", spec |-> NoSpec, verdict |-> ""]
      /\ seen = [exists |-> FALSE, spec |-> NoSpec, status |-> ""]
      /\ reader = [pc |-> "idle", spec |-> NoSpec, result |-> "none"]
  BY DEF Init, NoWork, NotSeen, Reading
<1>3. work \in [pc : {"down", "idle", "judge", "write"},
               spec : SpecNames \cup {NoSpec}, verdict : Statuses]
  BY <1>2 DEF Statuses
<1>4. seen \in [exists : BOOLEAN, spec : SpecNames \cup {NoSpec}, status : Statuses]
  BY <1>2 DEF Statuses
<1>5. reader \in [pc : {"idle", "use"}, spec : SpecNames \cup {NoSpec}, result : Results]
  BY <1>2 DEF Results
<1>6. changes \in 0..MaxChanges /\ faults \in 0..MaxFaults
  <2>1. changes = 0 /\ faults = 0
    BY DEF Init
  <2>2. QED
    BY <2>1, BoundsAssumption
<1>7. /\ kind \in ObjectKinds /\ about \in SUBSET SpecNames /\ world \in WorldNames
      /\ queued \in BOOLEAN /\ timer \in BOOLEAN
      /\ cacheFresh \in BOOLEAN /\ copyFresh \in BOOLEAN
  BY DEF Init
<1>8. HasSpec
  BY <1>2 DEF HasSpec
<1>9. QED
  BY <1>1, <1>3, <1>4, <1>5, <1>6, <1>7, <1>8 DEF Typed, TypeOK

LEMMA Counters ==
    ASSUME TypeOK
    PROVE  /\ Fault \/ UNCHANGED faults => faults' \in 0..MaxFaults
           /\ Change \/ UNCHANGED changes => changes' \in 0..MaxChanges
BY BoundsAssumption DEF TypeOK, Fault, Change

LEMMA ReconcileTyped == ASSUME Typed, Reconcile PROVE Typed'
<1>0. TypeOK /\ HasSpec
  BY DEF Typed
<1> USE <1>0 DEF Typed, TypeOK, HasSpec, objVars, SpecNames, WorldNames
<1>1. CASE BeginNotFound
  BY <1>1 DEF BeginNotFound
<1>2. CASE Begin
  BY <1>2 DEF Begin, Statuses
<1>3. CASE Judge
  <2>1. Verdict[kind][work.spec][world] \in Statuses
    BY <1>3, VerdictType DEF Judge
  <2>2. PICK v \in Statuses : work' = [work EXCEPT !.pc = "write", !.verdict = v]
    BY <1>3, <2>1 DEF Judge, Statuses
  <2>3. faults' \in 0..MaxFaults
    BY <1>3, Counters DEF Judge
  <2>4. QED
    BY <1>3, <2>2, <2>3 DEF Judge
<1>4. CASE Report
  <2>1. faults' \in 0..MaxFaults
    BY <1>4, Counters DEF Report
  <2>2. work.spec \in SpecNames
    BY <1>4 DEF Report
  <2>3. obj' \in [exists : BOOLEAN, spec : SpecNames, status : Statuses]
        /\ about' \in SUBSET SpecNames
    BY <1>4, <2>2 DEF Report
  <2>4. cacheFresh' \in BOOLEAN /\ copyFresh' \in BOOLEAN
    BY <1>4 DEF Report, Written
  <2>5. work' = [pc |-> "idle", spec |-> NoSpec, verdict |-> ""] /\ timer' = TRUE
    BY <1>4 DEF Report, NoWork, RequeueAfter
  <2>6. UNCHANGED <<kind, world, queued, seen, reader, changes>>
    BY <1>4 DEF Report
  <2>7. QED
    BY <2>1, <2>3, <2>4, <2>5, <2>6 DEF Statuses
<1>5. QED
  BY <1>1, <1>2, <1>3, <1>4 DEF Reconcile

LEMMA OperatorTyped ==
    ASSUME Typed, Start \/ Crash \/ CacheObject \/ TimerFires PROVE Typed'
<1>0. TypeOK /\ HasSpec
  BY DEF Typed
<1> USE <1>0 DEF Typed, TypeOK, HasSpec, objVars, SpecNames, WorldNames
<1>1. CASE Start
  BY <1>1 DEF Start, NoWork, Statuses
<1>2. CASE Crash
  <2>1. faults' \in 0..MaxFaults
    BY <1>2, Counters DEF Crash
  <2>2. QED
    BY <1>2, <2>1 DEF Crash, NoWork, NotSeen, Reading, Statuses
<1>3. CASE CacheObject
  BY <1>3 DEF CacheObject
<1>4. CASE TimerFires
  BY <1>4 DEF TimerFires
<1>5. QED
  BY <1>1, <1>2, <1>3, <1>4

LEMMA ReaderTyped == ASSUME Typed, ResolveStore \/ ReadTSecret \/ Use PROVE Typed'
<1>0. TypeOK /\ HasSpec
  BY DEF Typed
<1> USE <1>0 DEF Typed, TypeOK, HasSpec, objVars, SpecNames, WorldNames
<1>1. CASE ResolveStore
  BY <1>1 DEF ResolveStore, Reading, Results
<1>2. CASE ReadTSecret
  BY <1>2 DEF ReadTSecret, Reading
<1>3. CASE Use
  <2>1. Outcomes[kind][reader.spec][world] \subseteq Results
    BY <1>3, OutcomesType DEF Use
  <2>2. PICK result \in Results : reader' = Reading("idle", NoSpec, result)
    BY <1>3, <2>1 DEF Use
  <2>3. QED
    BY <1>3, <2>2 DEF Use, Reading
<1>4. QED
  BY <1>1, <1>2, <1>3

LEMMA UserTyped == ASSUME Typed, Edit \/ Delete \/ WorldChange PROVE Typed'
<1>0. TypeOK /\ HasSpec
  BY DEF Typed
<1>1. faults' \in 0..MaxFaults /\ changes' \in 0..MaxChanges
  BY <1>0, Counters DEF Edit, Delete, WorldChange
<1> USE <1>0 DEF Typed, TypeOK, HasSpec, objVars, SpecNames, WorldNames
<1>2. CASE Edit
  BY <1>1, <1>2 DEF Edit, Written
<1>3. CASE Delete
  BY <1>1, <1>3 DEF Delete, Written
<1>4. CASE WorldChange
  BY <1>1, <1>4 DEF WorldChange
<1>5. QED
  BY <1>2, <1>3, <1>4

LEMMA StepTyped == Typed /\ [Next]_vars => Typed'
<1>1. Typed /\ UNCHANGED vars => Typed'
  BY DEF Typed, TypeOK, HasSpec, vars, objVars, SpecNames, WorldNames
<1>2. QED
  BY <1>1, ReconcileTyped, OperatorTyped, ReaderTyped, UserTyped DEF Next

\* Every variable keeps its type: no probe, validation or use starts without
\* the spec that the cache or the API server gave it.
THEOREM TypeCorrect == Spec => []TypeOK
<1>1. Typed => TypeOK
  BY DEF Typed
<1>2. QED
  BY <1>1, InitTyped, StepTyped, PTL DEF Spec

-----------------------------------------------------------------------------
(* Verdicts and copies.                                                    *)

\* What a fresh copy and a verdict are worth: the cache that is fresh is the
\* stored object, a reconcile with a fresh copy works for the stored spec, and
\* a TSecret's verdict is that of the spec it stands beside, both in the
\* reconcile and in the stored status.
Fresh ==
    /\ cacheFresh => seen = obj
    /\ copyFresh /\ work.pc \in {"judge", "write"} => work.spec = obj.spec

Judged ==
    kind = "TSecret" =>
        /\ work.pc = "write" => work.verdict = TSecretVerdict(Specs[kind][work.spec])
        /\ \A s \in about : obj.status = TSecretVerdict(Specs[kind][s])

Inv == Typed /\ Fresh /\ Judged

LEMMA InitInv == Init => Fresh /\ Judged
<1>1. Init => ~cacheFresh /\ ~copyFresh /\ about = {} /\ work = NoWork("down")
  BY DEF Init
<1>2. NoWork("down").pc = "down"
  BY DEF NoWork
<1>3. QED
  BY <1>1, <1>2 DEF Fresh, Judged

\* Whatever leaves the object and the reconcile in flight alone.
LEMMA Undisturbed ==
    ASSUME Fresh, Judged, UNCHANGED <<kind, objVars, work, seen>>
    PROVE  Fresh' /\ Judged'
BY DEF Fresh, Judged, objVars

LEMMA ReconcileInv == ASSUME Inv, Reconcile PROVE Fresh' /\ Judged'
<1>0. TypeOK /\ HasSpec /\ Fresh /\ Judged
  BY DEF Inv, Typed
<1>1. CASE BeginNotFound
  BY <1>0, <1>1, Undisturbed DEF BeginNotFound
<1>2. CASE Begin
  <2>1. /\ work'.pc = "judge" /\ work'.spec = seen.spec
        /\ copyFresh' = cacheFresh
        /\ UNCHANGED <<kind, obj, about, cacheFresh, seen>>
    BY <1>2 DEF Begin
  <2>2. QED
    BY <1>0, <2>1 DEF Fresh, Judged
<1>3. CASE Judge
  <2>0. /\ kind \in ObjectKinds /\ world \in WorldNames
        /\ work.pc = "judge" /\ work.spec \in SpecNames
        /\ work \in [pc : {"down", "idle", "judge", "write"},
                     spec : SpecNames \cup {NoSpec}, verdict : Statuses]
    BY <1>0, <1>3 DEF TypeOK, HasSpec, Judge
  <2>1. UNCHANGED <<kind, obj, about, cacheFresh, copyFresh, seen>>
    BY <1>3 DEF Judge, objVars
  <2>2. PICK v : /\ work' = [work EXCEPT !.pc = "write", !.verdict = v]
                 /\ v = Verdict[kind][work.spec][world] \/ kind # "TSecret"
    BY <1>3 DEF Judge
  <2>3. work'.pc = "write" /\ work'.spec = work.spec /\ work'.verdict = v
    BY <2>0, <2>2
  <2>4. kind = "TSecret" => v = TSecretVerdict(Specs[kind][work.spec])
    BY <2>0, <2>2, VerdictType DEF SpecNames, WorldNames
  <2>5. Fresh'
    BY <1>0, <2>0, <2>1, <2>3 DEF Fresh
  <2>6. Judged'
    BY <1>0, <2>1, <2>3, <2>4 DEF Judged
  <2>7. QED
    BY <2>5, <2>6
<1>4. CASE Report
  <2>0. obj \in [exists : BOOLEAN, spec : SpecNames, status : Statuses]
    BY <1>0 DEF TypeOK
  <2>1. work'.pc = "idle" /\ UNCHANGED <<kind, seen>> /\ work.pc = "write"
    BY <1>4 DEF Report, NoWork
  <2>2. CASE UNCHANGED objVars
    BY <1>0, <2>1, <2>2 DEF Fresh, Judged, objVars
  <2>3. CASE /\ obj' = [obj EXCEPT !.status = work.verdict]
             /\ about' = {work.spec}
             /\ \/ Written
                \/ obj' = obj /\ UNCHANGED <<cacheFresh, copyFresh>>
    <3>1. obj'.status = work.verdict
      BY <2>0, <2>3
    <3>2. Fresh'
      BY <1>0, <2>1, <2>3 DEF Fresh, Written
    <3>3. Judged'
      BY <1>0, <2>1, <2>3, <3>1 DEF Judged
    <3>4. QED
      BY <3>2, <3>3
  <2>4. QED
    BY <1>4, <2>2, <2>3 DEF Report
<1>5. QED
  BY <1>1, <1>2, <1>3, <1>4 DEF Reconcile

LEMMA OperatorInv ==
    ASSUME Inv, Start \/ Crash \/ CacheObject \/ TimerFires PROVE Fresh' /\ Judged'
<1>0. Fresh /\ Judged
  BY DEF Inv
<1>1. CASE Start
  BY <1>0, <1>1 DEF Start, NoWork, Fresh, Judged
<1>2. CASE Crash
  BY <1>0, <1>2 DEF Crash, NoWork, Fresh, Judged
<1>3. CASE CacheObject
  BY <1>0, <1>3 DEF CacheObject, Fresh, Judged
<1>4. CASE TimerFires
  BY <1>0, <1>4, Undisturbed DEF TimerFires
<1>5. QED
  BY <1>1, <1>2, <1>3, <1>4

LEMMA OthersInv ==
    ASSUME Inv, ResolveStore \/ ReadTSecret \/ Use \/ Edit \/ Delete \/ WorldChange
    PROVE  Fresh' /\ Judged'
<1>0. TypeOK /\ Fresh /\ Judged
  BY DEF Inv, Typed
<1>1. CASE ResolveStore \/ ReadTSecret \/ Use \/ WorldChange
  <2>1. UNCHANGED <<kind, objVars, work, seen>>
    BY <1>1 DEF ResolveStore, ReadTSecret, Use, WorldChange
  <2>2. QED
    BY <1>0, <2>1, Undisturbed
<1>2. CASE Edit \/ Delete
  <2>1. obj'.status = obj.status
    BY <1>0, <1>2 DEF Edit, Delete, TypeOK
  <2>2. ~cacheFresh' /\ ~copyFresh' /\ UNCHANGED <<kind, about, work>>
    BY <1>2 DEF Edit, Delete, Written
  <2>3. QED
    BY <1>0, <2>1, <2>2 DEF Fresh, Judged
<1>3. QED
  BY <1>1, <1>2

LEMMA StepInv == Inv /\ [Next]_vars => Inv'
<1>1. Inv /\ UNCHANGED vars => Inv'
  <2>1. SUFFICES ASSUME Inv, UNCHANGED vars PROVE Inv'
    OBVIOUS
  <2>2. Fresh' /\ Judged'
    BY <2>1, Undisturbed DEF Inv, vars
  <2>3. QED
    BY <2>1, <2>2, StepTyped DEF Inv
<1>2. Inv /\ Next => Inv'
  BY StepTyped, ReconcileInv, OperatorInv, OthersInv DEF Inv, Next
<1>3. QED
  BY <1>1, <1>2

LEMMA Inductive == Spec => []Inv
<1>1. Init => Inv
  BY InitTyped, InitInv DEF Inv
<1>2. QED
  BY <1>1, StepInv, PTL DEF Spec

\* A verdict is only ever stored beside the spec it was reached about,
\* whatever is edited meanwhile: only Report writes a status, and only with
\* a fresh copy (store_controller.go:81-84, tsecret_controller.go:70-73).
THEOREM VerdictBesideItsSpec == Spec => JudgedAsStored
<1>1. ASSUME Inv, [Next]_vars
      PROVE  [obj'.status # obj.status => obj.spec = work.spec]_obj
  <2>0. TypeOK /\ Fresh
    BY <1>1 DEF Inv, Typed
  <2>1. CASE Report
    BY <2>0, <2>1 DEF Report, StatusAccepted, Fresh, objVars
  <2>2. CASE Edit \/ Delete
    BY <2>0, <2>2 DEF Edit, Delete, TypeOK
  <2>3. CASE BeginNotFound \/ Begin \/ Judge \/ Start \/ Crash \/ CacheObject
    BY <2>3 DEF BeginNotFound, Begin, Judge, Start, Crash, CacheObject, objVars
  <2>4. CASE TimerFires \/ ResolveStore \/ ReadTSecret \/ Use \/ WorldChange
    BY <2>4 DEF TimerFires, ResolveStore, ReadTSecret, Use, WorldChange, objVars
  <2>5. CASE UNCHANGED vars
    BY <2>5 DEF vars, objVars
  <2>6. QED
    BY <1>1, <2>1, <2>2, <2>3, <2>4, <2>5 DEF Next, Reconcile
<1>2. QED
  BY <1>1, Inductive, PTL DEF Spec, JudgedAsStored

-----------------------------------------------------------------------------
(* Ready and readable.                                                     *)

LEMMA ValidOpens ==
    ASSUME NEW v, IsValidEncryptedValue(v), NEW key, key.len = KeySize
    PROVE  \/ Decrypt(v, key) \in {"plain", "authentication"}
           \/ Decrypt(v, key) = "panic" /\ v.nonce # NonceSize(v.algorithm)
BY DEF Decrypt, IsValidEncryptedValue, NewAEAD

LEMMA DecryptedIsValid ==
    ASSUME NEW v, NEW key, Decrypt(v, key) = "plain" PROVE IsValidEncryptedValue(v)
BY DEF Decrypt, IsValidEncryptedValue, NewAEAD

LEMMA ResolvedKeySize ==
    ASSUME NEW w, NEW ref, NEW namespace, ResolveKey(w, ref, namespace).ok
    PROVE  ResolveKey(w, ref, namespace).val.len = KeySize
<1> DEFINE key == ResolveKey(w, ref, namespace)
<1>1. ~Err.ok
  BY DEF Err
<1>2. CASE ref.provider = "sealed-secret"
  <2>1. PICK ns : key = ResolveFromSecret(w, ref.name, ns)
    BY <1>2 DEF ResolveKey
  <2>2. QED
    BY <1>1, <2>1 DEF ResolveFromSecret
<1>3. CASE ref.provider = "vault-transit"
  <2>1. key = ResolveFromVaultTransit(w, ref, namespace)
    BY <1>3 DEF ResolveKey
  <2>2. QED
    BY <1>1, <2>1 DEF ResolveFromVaultTransit
<1>4. CASE ref.provider \notin {"sealed-secret", "vault-transit"}
  <2>1. key = Err
    BY <1>4 DEF ResolveKey
  <2>2. QED
    BY <1>1, <2>1
<1>5. QED
  BY <1>2, <1>3, <1>4

LEMMA SealedIsValid ==
    ASSUME NEW v, IsSealed(v)
    PROVE  /\ IsValidEncryptedValue(v)
           /\ Decrypt(v, v.body.key) = "plain"
<1> DEFINE key == v.body.key  a == v.body.algorithm
<1>1. NewAEAD(key, a)
  BY DEF IsSealed, Encrypt, Ok, Err
<1>2. v = [outer |-> TRUE, prefix |-> TRUE, parts |-> 3, algorithm |-> a, raw |-> TRUE,
           nonce |-> NonceSize(a), body |-> Sealed(key, a, v.body.plain)]
  BY <1>1 DEF IsSealed, Encrypt, Ok
<1>3. /\ v.outer /\ v.prefix /\ v.parts = 3 /\ v.raw
      /\ v.algorithm = a /\ v.nonce = NonceSize(a)
  BY <1>2
<1>4. ParseEncryptedValue(v) = Ok(v) /\ Ok(v).ok
  BY <1>3 DEF ParseEncryptedValue, Ok
<1>5. IsSupported(a) /\ v.body.is = "sealed"
  BY <1>1 DEF NewAEAD, IsSealed
<1>6. QED
  BY <1>1, <1>3, <1>4, <1>5 DEF IsValidEncryptedValue, Decrypt

\* What a run of the injector on the spec s in the world w can come to, by
\* the verdict on s.
LEMMA VerdictForetells ==
    ASSUME NEW s, NEW w, NEW result \in Inject(s, w)
    PROVE  /\ TSecretVerdict(s) = "True" =>
                \/ result \in {"ok", "nokey", "authentication"}
                \/ result = "panic" /\ ~NoncesFit(s)
           /\ TSecretVerdict(s) = "False" /\ result = "ok" => ~DeclaresSupported(s)
<1> DEFINE key == ResolveKey(w, s.encryptionRef, Namespace)
           outcome(k) == Decrypt(s.data[k].value, key.val)
           bad == {outcome(k) : k \in DOMAIN s.data} \ {"plain"}
<1>1. result \in IF ~key.ok THEN {"nokey"} ELSE IF bad = {} THEN {"ok"} ELSE bad
  BY DEF Inject
<1>2. CASE ~key.ok
  BY <1>1, <1>2
<1>3. CASE key.ok /\ bad = {}
  <2>1. result = "ok"
    BY <1>1, <1>3
  <2>2. \A k \in DOMAIN s.data : IsValidEncryptedValue(s.data[k].value)
    BY <1>3, DecryptedIsValid
  <2>3. QED
    BY <2>1, <2>2 DEF TSecretVerdict, DeclaresSupported
<1>4. CASE key.ok /\ bad # {}
  <2>1. PICK k \in DOMAIN s.data : result = outcome(k) /\ result # "plain"
    BY <1>1, <1>4
  <2>2. result # "ok"
    BY <2>1, DecryptResults
  <2>3. ASSUME TSecretVerdict(s) = "True"
        PROVE  result = "authentication" \/ (result = "panic" /\ ~NoncesFit(s))
    <3>1. IsValidEncryptedValue(s.data[k].value)
      BY <2>3 DEF TSecretVerdict
    <3>2. key.val.len = KeySize
      BY <1>4, ResolvedKeySize
    <3>3. QED
      BY <2>1, <3>1, <3>2, ValidOpens DEF NoncesFit
  <2>4. QED
    BY <2>2, <2>3
<1>5. QED
  BY <1>2, <1>3, <1>4

\* A run of the injector ends as the stored condition gives to expect, if it
\* is about the spec the run has read, and whatever happens between the read
\* and the decryption: a Ready TSecret fails only by the key, by an entry that
\* is not authentic, or by the panic on a nonce of the wrong length, and one
\* that is not Ready is decrypted only if nothing but a declared algorithm was
\* wrong (tsecret_controller.go:39-48, writer.go:33-53, encrypt.go:84-111).
THEOREM UseIsForetold == Spec => ConditionForetellsUse
<1> DEFINE Foretold ==
        kind = "TSecret" /\ reader.pc = "use" /\ about = {reader.spec} =>
          /\ obj.status = "True" =>
                \/ reader'.result \in {"ok", "nokey", "authentication"}
                \/ reader'.result = "panic" /\ ~NoncesFit(Specs[kind][reader.spec])
          /\ obj.status = "False" /\ reader'.result = "ok" =>
                ~DeclaresSupported(Specs[kind][reader.spec])
<1>1. ASSUME Inv, [Next]_vars PROVE [Foretold]_reader
  <2>1. SUFFICES ASSUME kind = "TSecret", reader.pc = "use", about = {reader.spec},
                        reader' # reader
                 PROVE  Foretold
    OBVIOUS
  <2>2. /\ kind \in ObjectKinds /\ world \in DOMAIN Worlds[kind]
        /\ reader.spec \in DOMAIN Specs[kind]
    BY <1>1, <2>1 DEF Inv, Typed, TypeOK, HasSpec, SpecNames, WorldNames
  <2>3. Use
    <3>1. CASE Reconcile
      BY <2>1, <3>1 DEF Reconcile, BeginNotFound, Begin, Judge, Report
    <3>2. CASE Start \/ Crash \/ CacheObject \/ TimerFires
      BY <2>1, <3>2 DEF Start, Crash, CacheObject, TimerFires
    <3>3. CASE ResolveStore \/ ReadTSecret
      BY <2>1, <3>3 DEF ResolveStore, ReadTSecret
    <3>4. CASE Edit \/ Delete \/ WorldChange
      BY <2>1, <3>4 DEF Edit, Delete, WorldChange
    <3>5. CASE UNCHANGED vars
      BY <2>1, <3>5 DEF vars
    <3>6. QED
      BY <1>1, <3>1, <3>2, <3>3, <3>4, <3>5 DEF Next
  <2>4. PICK result \in Outcomes[kind][reader.spec][world] : reader'.result = result
    BY <2>3 DEF Use, Reading
  <2>5. result \in Inject(Specs[kind][reader.spec], Worlds[kind][world])
    BY <2>1, <2>2, <2>4 DEF Outcomes
  <2>6. obj.status = TSecretVerdict(Specs[kind][reader.spec])
    BY <1>1, <2>1 DEF Inv, Judged
  <2>7. QED
    BY <2>4, <2>5, <2>6, VerdictForetells
<1>2. QED
  BY <1>1, Inductive, PTL DEF Spec, ConditionForetellsUse

\* What Encrypt has sealed is never judged invalid for its value, and opens
\* under the key that sealed it (encrypt.go:56-111).
THEOREM SealedOpens == Spec => []SealedStaysReadable
<1>1. ASSUME Inv PROVE SealedStaysReadable
  <2>1. SUFFICES ASSUME kind = "TSecret",
                        \A k \in DOMAIN Specs[kind][obj.spec].data :
                           IsSealed(Specs[kind][obj.spec].data[k].value)
                 PROVE  /\ about = {obj.spec} /\ obj.status = "False" =>
                             \E k \in DOMAIN Specs[kind][obj.spec].data :
                                ~IsSupported(Specs[kind][obj.spec].data[k].algorithm)
                        /\ \A k \in DOMAIN Specs[kind][obj.spec].data :
                             Decrypt(Specs[kind][obj.spec].data[k].value,
                                     Specs[kind][obj.spec].data[k].value.body.key) = "plain"
    BY DEF SealedStaysReadable
  <2>2. ASSUME about = {obj.spec}, obj.status = "False"
        PROVE  \E k \in DOMAIN Specs[kind][obj.spec].data :
                  ~IsSupported(Specs[kind][obj.spec].data[k].algorithm)
    <3>1. TSecretVerdict(Specs[kind][obj.spec]) = "False"
      BY <1>1, <2>1, <2>2 DEF Inv, Judged
    <3>2. PICK k \in DOMAIN Specs[kind][obj.spec].data :
             ~(/\ IsValidEncryptedValue(Specs[kind][obj.spec].data[k].value)
               /\ IsSupported(Specs[kind][obj.spec].data[k].algorithm))
      BY <3>1 DEF TSecretVerdict
    <3>3. QED
      BY <2>1, <3>2, SealedIsValid
  <2>3. QED
    BY <2>1, <2>2, SealedIsValid
<1>2. QED
  BY <1>1, Inductive, PTL
-----------------------------------------------------------------------------
(* The object is never forgotten.                                          *)

LEMMA StepNeverForgotten ==
    ASSUME Inv, NeverForgotten, [Next]_vars PROVE NeverForgotten'
<1>0. TypeOK /\ Fresh
  BY DEF Inv, Typed
<1>1. CASE Reconcile
  <2>1. CASE BeginNotFound
    BY <1>0, <2>1 DEF BeginNotFound, Fresh, objVars, NeverForgotten
  <2>2. CASE Begin
    BY <2>2 DEF Begin, NeverForgotten
  <2>3. CASE Judge
    <3>1. work'.pc = "write"
      BY <1>0, <2>3 DEF Judge, TypeOK
    <3>2. QED
      BY <3>1 DEF NeverForgotten
  <2>4. CASE Report
    BY <2>4 DEF Report, RequeueAfter, NeverForgotten
  <2>5. QED
    BY <1>1, <2>1, <2>2, <2>3, <2>4 DEF Reconcile
<1>2. CASE Start \/ Crash \/ CacheObject \/ TimerFires
  BY <1>2 DEF Start, Crash, CacheObject, TimerFires, NoWork, objVars, NeverForgotten
<1>3. CASE ResolveStore \/ ReadTSecret \/ Use \/ WorldChange \/ UNCHANGED vars
  BY <1>3 DEF ResolveStore, ReadTSecret, Use, WorldChange, vars, objVars, NeverForgotten
<1>4. CASE Edit \/ Delete
  BY <1>4 DEF Edit, Delete, Written, NeverForgotten
<1>5. QED
  BY <1>1, <1>2, <1>3, <1>4 DEF Next

\* Neither controller forgets its object: whichever probe, update or watch
\* event went wrong, an object that is not being judged and that the cache
\* has as it is stored is queued or has a timer (store_controller.go:27-56,
\* tsecret_controller.go:28-75).  That a request is dropped as NotFound is
\* right because a fresh cache is the stored object.
THEOREM ObjectIsNeverForgotten == Spec => []NeverForgotten
<1>1. Init => NeverForgotten
  BY DEF Init, NoWork, NeverForgotten
<1>2. Inv /\ NeverForgotten /\ [Next]_vars => NeverForgotten'
  BY StepNeverForgotten
<1>3. QED
  BY <1>1, <1>2, Inductive, PTL DEF Spec

-----------------------------------------------------------------------------
(* Probe and pull.                                                         *)

\* The factory's provider is of one of the five kinds and has no token yet.
LEMMA NewProviderKind ==
    ASSUME NEW s, NewProvider(s).ok
    PROVE  /\ NewProvider(s).val.kind \in {"vault", "aws", "azure", "gcp", "oracle"}
           /\ NewProvider(s).val.kind \in DOMAIN s
           /\ NewProvider(s).val = [kind    |-> NewProvider(s).val.kind,
                                    section |-> NewProvider(s).val.section,
                                    token   |-> NoBytes]
           /\ NewProvider(s).val.token = NoBytes
<1> DEFINE S == {i \in 1..Len(Kinds) : Kinds[i] \in DOMAIN s}
           first == CHOOSE i \in S : \A j \in S : i <= j
<1>1. /\ Len(Kinds) = 5 /\ Kinds[1] = "vault" /\ Kinds[2] = "aws" /\ Kinds[3] = "azure"
      /\ Kinds[4] = "gcp" /\ Kinds[5] = "oracle"
  BY DEF Kinds
<1>2. S # {} /\ NewProvider(s).val = [kind    |-> Kinds[first],
                                      section |-> s[Kinds[first]], token |-> NoBytes]
  BY DEF NewProvider, Err, Ok
<1>3. \E i \in S : \A j \in S : i <= j
  <2>1. S \subseteq 1..5
    BY <1>1
  <2>2. 1..5 = {1, 2, 3, 4, 5}
    OBVIOUS
  <2>3. CASE 1 \in S
    BY <2>1, <2>3
  <2>4. CASE 1 \notin S /\ 2 \in S
    BY <2>1, <2>2, <2>4
  <2>5. CASE 1 \notin S /\ 2 \notin S /\ 3 \in S
    BY <2>1, <2>2, <2>5
  <2>6. CASE 1 \notin S /\ 2 \notin S /\ 3 \notin S
    <3>1. S \subseteq {4, 5}
      BY <2>1, <2>2, <2>6
    <3>2. CASE 4 \in S
      BY <3>1, <3>2
    <3>3. CASE 4 \notin S
      <4>1. S = {5}
        BY <1>2, <3>1, <3>3
      <4>2. QED
        BY <4>1
    <3>4. QED
      BY <3>2, <3>3
  <2>7. QED
    BY <2>3, <2>4, <2>5, <2>6
<1>4. first \in S
  BY <1>3
<1>5. first \in {1, 2, 3, 4, 5} /\ Kinds[first] \in DOMAIN s
  BY <1>1, <1>4
<1> HIDE DEF first
<1>6. QED
  BY <1>1, <1>2, <1>5

\* Before its first request a client has the token of the service or none.
LEMMA TokensDiffer == NoBytes.len = 0 /\ NoBytes # GoodToken
<1>1. NoBytes.len = 0 /\ GoodToken.len = 8
  BY DEF NoBytes, GoodToken, Bytes
<1>2. QED
  BY <1>1

\* A secret is only read from a service that is up or on standby, by a token
\* that it accepts.
LEMMA ReadMeansUp ==
    ASSUME NEW w, NEW token, NEW path, ReadReply(w, token, path) = 200
    PROVE  /\ Reply(w, "read", token) = 200
           /\ w.service \notin {"gone", "failing", "sealed"}
           /\ token = GoodToken
<1>1. Reply(w, "read", token) = 200
  BY DEF ReadReply
<1>2. QED
  BY <1>1 DEF Reply, NoReply

\* What may be listed as well as read answers a probe that lists.
LEMMA ListsToo ==
    ASSUME NEW w, NEW token, Reply(w, "read", token) = 200, "list" \in w.grants
    PROVE  Reply(w, "list", token) = 200
BY DEF Reply, NoReply

LEMMA VaultProbe ==
    ASSUME NEW p, NEW q, NEW w, NEW ref, VaultGetSecret(q, w, ref).ok
    PROVE  VaultHealthCheck(p, w)
<1>1. PICK path : ReadReply(w, q.token, path) = 200
  BY DEF VaultGetSecret, Err
<1>2. w.service \notin {"gone", "failing", "sealed"}
  BY <1>1, ReadMeansUp
<1>3. VaultHealthReply(w) \in {200, 473}
  BY <1>2 DEF VaultHealthReply
<1>4. QED
  BY <1>3 DEF VaultHealthCheck

LEMMA AzureProbe ==
    ASSUME NEW p, NEW w, NEW ref, AzureGetSecret(p, w, ref).ok, "list" \in w.grants
    PROVE  AzureHealthCheck(p, w)
<1> DEFINE a == AzureEnsureToken(p, w)
<1>1. a.ok /\ ReadReply(w, a.val.token, ref.key) = 200
  BY DEF AzureGetSecret, Err
<1>2. Reply(w, "list", a.val.token) = 200
  BY <1>1, ReadMeansUp, ListsToo
<1>3. QED
  BY <1>1, <1>2 DEF AzureHealthCheck, NoReply

LEMMA GCPProbe ==
    ASSUME NEW p, NEW w, NEW ref, GCPGetSecret(p, w, ref).ok, "list" \in w.grants
    PROVE  GCPHealthCheck(p, w)
<1> DEFINE a == GCPEnsureToken(p, w)
<1>1. a.ok /\ ReadReply(w, a.val.token, ref.key) = 200
  BY DEF GCPGetSecret, Err
<1>2. Reply(w, "list", a.val.token) = 200
  BY <1>1, ReadMeansUp, ListsToo
<1>3. QED
  BY <1>1, <1>2 DEF GCPHealthCheck, NoReply

\* AWS and Oracle requests leave unsigned: neither ever reads a secret.
LEMMA UnsignedReadsNothing ==
    ASSUME NEW p, p.token = NoBytes, NEW w, NEW ref
    PROVE  ~AWSGetSecret(p, w, ref).ok /\ ~OracleGetSecret(p, w, ref).ok
<1>1. ReadReply(w, p.token, ref.key) # 200
  BY ReadMeansUp, TokensDiffer
<1>2. QED
  BY <1>1 DEF AWSGetSecret, OracleGetSecret, Err

\* A store that can be pulled from is found Available, unless its probe is
\* one that lists and the identity may not.
LEMMA PullMeansAvailable ==
    ASSUME NEW s, NEW w, Pull(s, w) = "ok", Wanted # {}, ~MayNotList(s, w)
    PROVE  StoreVerdict(s, w) = "Available"
<1> DEFINE n == NewProvider(s)  p == n.val  q == Connect(s, w)
<1>1. PICK ref \in Wanted : GetSecret(q.val, w, ref).ok
  BY DEF Pull
<1>2. q.ok
  BY DEF Pull
<1>3. n.ok
  BY <1>2 DEF Connect, Err
<1>4. /\ p.kind \in {"vault", "aws", "azure", "gcp", "oracle"} /\ p.kind \in DOMAIN s
      /\ p.token = NoBytes
  BY <1>3, NewProviderKind
<1>5. SUFFICES HealthCheck(p, w)
  BY <1>3 DEF StoreVerdict
<1>6. CASE "vault" \in DOMAIN s
  <2>1. q = ConfigureVaultAuth(p, w, Namespace)
    BY <1>3, <1>6 DEF Connect
  <2>2. p.kind = "vault"
    BY <1>2, <2>1 DEF ConfigureVaultAuth, Err
  <2>3. q.val.kind = "vault"
    <3>1. q.val = [p EXCEPT !.token = ReadRef(w, p.section.tokenRef, Namespace).val]
      BY <1>2, <2>1 DEF ConfigureVaultAuth, Err, Ok
    <3>2. p = [kind |-> p.kind, section |-> p.section, token |-> NoBytes]
      BY <1>3, NewProviderKind
    <3>3. QED
      BY <2>2, <3>1, <3>2
  <2>4. VaultGetSecret(q.val, w, ref).ok
    BY <1>1, <2>3 DEF GetSecret
  <2>5. VaultHealthCheck(p, w)
    BY <2>4, VaultProbe
  <2>6. QED
    BY <2>2, <2>5 DEF HealthCheck
<1>7. CASE "vault" \notin DOMAIN s
  <2>1. q = n /\ p.kind # "vault" /\ GetSecret(p, w, ref).ok
    BY <1>1, <1>4, <1>7 DEF Connect
  <2>2. CASE p.kind = "azure"
    <3>1. "list" \in w.grants
      BY <2>2 DEF MayNotList
    <3>2. AzureGetSecret(p, w, ref).ok
      BY <2>1, <2>2 DEF GetSecret
    <3>3. QED
      BY <2>2, <3>1, <3>2, AzureProbe DEF HealthCheck
  <2>3. CASE p.kind = "gcp"
    <3>1. "list" \in w.grants
      BY <2>3 DEF MayNotList
    <3>2. GCPGetSecret(p, w, ref).ok
      BY <2>1, <2>3 DEF GetSecret
    <3>3. QED
      BY <2>3, <3>1, <3>2, GCPProbe DEF HealthCheck
  <2>4. CASE p.kind \in {"aws", "oracle"}
    BY <1>4, <2>1, <2>4, UnsignedReadsNothing DEF GetSecret
  <2>5. QED
    BY <1>4, <2>1, <2>2, <2>3, <2>4
<1>8. QED
  BY <1>6, <1>7

\* The probe, made on a provider of its own and without the credentials that
\* ConfigureVaultAuth loads, never shuts a store that a TSecretSync could pull
\* from, whatever the store, the world and the wanted secrets: the one
\* exception is an Azure or GCP identity that may read but not list.  From AWS
\* and Oracle nothing can be pulled (store_controller.go:38-52 against
\* sync_controller.go:58-92).
THEOREM ProbeIsGenerous == Spec => []ProbeNeverShuts
<1>1. ASSUME Typed PROVE ProbeNeverShuts
  <2>1. SUFFICES ASSUME kind # "TSecret", Outcomes[kind][obj.spec][world] = {"ok"},
                        Wanted # {},
                        ~MayNotList(Specs[kind][obj.spec], Worlds[kind][world])
                 PROVE  Verdict[kind][obj.spec][world] = "Available"
    BY DEF ProbeNeverShuts
  <2>2. kind \in ObjectKinds /\ obj.spec \in DOMAIN Specs[kind] /\ world \in DOMAIN Worlds[kind]
    BY <1>1 DEF Typed, TypeOK, SpecNames, WorldNames
  <2>3. Pull(Specs[kind][obj.spec], Worlds[kind][world]) = "ok"
    <3>1. Outcomes[kind][obj.spec][world] = {Pull(Specs[kind][obj.spec], Worlds[kind][world])}
      BY <2>1, <2>2 DEF Outcomes
    <3>2. QED
      BY <2>1, <3>1
  <2>4. StoreVerdict(Specs[kind][obj.spec], Worlds[kind][world]) = "Available"
    BY <2>1, <2>3, PullMeansAvailable
  <2>5. QED
    BY <2>1, <2>2, <2>4 DEF Verdict
<1>2. QED
  BY <1>1, InitTyped, StepTyped, PTL DEF Spec
=============================================================================
