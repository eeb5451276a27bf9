----------------------- MODULE SyncControllerProofs -----------------------
(***************************************************************************)
(* Theorems about SyncController, for every number of replicas, every      *)
(* spec, every bound, and with or without leader election.                 *)
(***************************************************************************)
EXTENDS SyncController, TLAPS

-----------------------------------------------------------------------------
(* The map that a reconcile builds.                                        *)

LEMMA PutType ==
    ASSUME NEW m \in Maps, NEW k \in SecretKeys, NEW e \in Entry
    PROVE  Put(m, k, e) \in Maps
<1>1. PICK S \in SUBSET SecretKeys : m \in [S -> Entry]
  BY DEF Maps
<1>2. Put(m, k, e) \in [S \cup {k} -> Entry]
  BY <1>1 DEF Put
<1>3. QED
  BY <1>2 DEF Maps

LEMMA EmptyMapType == EmptyMap \in Maps
<1>1. EmptyMap \in [{} -> Entry]
  BY DEF EmptyMap
<1>2. QED
  BY <1>1 DEF Maps

\* One iteration of the loop turns what n - 1 items make into what n make.
LEMMA PutMadeFrom ==
    ASSUME NEW d \in Maps, NEW g \in Gens, NEW n \in 1..Len(Items[g]), NEW e \in Entry,
           MadeFrom(d, g, n - 1),
           e.remote = Items[g][n].remote, e.key = EncRef[g]
    PROVE  MadeFrom(Put(d, Items[g][n].secretKey, e), g, n)
<1> DEFINE k == Items[g][n].secretKey
           D == Put(d, k, e)
<1>1. Items[g] \in Seq(Item)
  BY ItemsAssumption DEF Gens
<1>2. n \in Nat /\ n >= 1 /\ Len(Items[g]) \in Nat
  BY <1>1
<1>3. \A j \in 1..n : Items[g][j] \in Item
  BY <1>1, <1>2
<1>4. DOMAIN D = {Items[g][j].secretKey : j \in 1..n}
  <2>1. DOMAIN D = DOMAIN d \cup {k}
    BY DEF Put
  <2>2. 1..n = 1..(n - 1) \cup {n}
    BY <1>2
  <2>3. DOMAIN d = {Items[g][j].secretKey : j \in 1..(n - 1)}
    BY DEF MadeFrom
  <2>4. QED
    BY <2>1, <2>2, <2>3
<1>5. ASSUME NEW x \in DOMAIN D
      PROVE  /\ D[x].key = EncRef[g]
             /\ \E j \in 1..n :
                   /\ Items[g][j] = [secretKey |-> x, remote |-> D[x].remote]
                   /\ \A m \in (j + 1)..n : Items[g][m].secretKey # x
  <2>1. CASE x = k
    <3>1. D[x] = e
      BY <2>1 DEF Put
    <3>2. Items[g][n] = [secretKey |-> x, remote |-> D[x].remote]
      BY <1>2, <1>3, <2>1, <3>1 DEF Item
    <3>3. \A m \in (n + 1)..n : FALSE
      BY <1>2
    <3>4. QED
      BY <1>2, <3>1, <3>2, <3>3
  <2>2. CASE x # k
    <3>1. x \in DOMAIN d /\ D[x] = d[x]
      BY <2>2 DEF Put
    <3>2. d[x].key = EncRef[g]
      BY <3>1 DEF MadeFrom
    <3>3. PICK j \in 1..(n - 1) :
             /\ Items[g][j] = [secretKey |-> x, remote |-> d[x].remote]
             /\ \A m \in (j + 1)..(n - 1) : Items[g][m].secretKey # x
      BY <3>1 DEF MadeFrom
    <3>4. \A m \in (j + 1)..n : Items[g][m].secretKey # x
      <4>1. \A m \in (j + 1)..n : m \in (j + 1)..(n - 1) \/ m = n
        BY <1>2
      <4>2. QED
        BY <4>1, <3>3, <2>2
    <3>5. j \in 1..n
      BY <1>2
    <3>6. QED
      BY <3>1, <3>2, <3>3, <3>4, <3>5
  <2>3. QED
    BY <2>1, <2>2
<1>6. QED
  BY <1>4, <1>5 DEF MadeFrom

LEMMA EmptyMadeFrom == ASSUME NEW g \in Gens PROVE MadeFrom(EmptyMap, g, 0)
<1>1. DOMAIN EmptyMap = {}
  BY DEF EmptyMap
<1>2. 1..0 = {}
  OBVIOUS
<1>3. QED
  BY <1>1, <1>2 DEF MadeFrom

-----------------------------------------------------------------------------
(* Type correctness.                                                       *)

LEMMA ConstantTypes ==
    /\ 1 \in Gens
    /\ \A g \in Gens : EncRef[g] \in KeyNames /\ Items[g] \in Seq(Item)
    /\ NoCache \in [exists : BOOLEAN, gen : Gens, target : BOOLEAN,
                    key : [KeyNames -> 1..MaxKeyVersion]]
    /\ NoTarget \in [exists : BOOLEAN, gen : Gens, enc : KeyNames, data : Maps]
<1>1. 1 \in Gens
  BY BoundsAssumption DEF Gens
<1>2. \A g \in Gens : EncRef[g] \in KeyNames /\ Items[g] \in Seq(Item)
  BY ItemsAssumption, EncRefAssumption DEF Gens
<1>3. 1 \in 1..MaxKeyVersion
  BY BoundsAssumption
<1>4. QED
  BY <1>1, <1>2, <1>3, EmptyMapType DEF NoCache, NoTarget

Works == [pc : {"down", "idle", "seal", "get", "write", "report"},
          gen : Gens, next : Nat \ {0}, data : Maps, found : BOOLEAN, ok : BOOLEAN]

\* A reconcile in the loop is at one of its items and has the map that the
\* items before it make; past the loop it has the map of all of them.
LoopOK(w) ==
    /\ w.pc = "seal" => /\ w.next <= Len(Items[w.gen])
                        /\ MadeFrom(w.data, w.gen, w.next - 1)
    /\ w.pc \in {"get", "write"} => MadeFrom(w.data, w.gen, Len(Items[w.gen]))

\* Types alone are not inductive: that a sealed item has one needs the loop
\* to be in range.
Typed == TypeOK /\ \A r \in Replicas : LoopOK(work[r])

LEMMA NoWorkOK ==
    ASSUME NEW pc \in {"down", "idle"} PROVE NoWork(pc) \in Works /\ LoopOK(NoWork(pc))
BY ConstantTypes, EmptyMapType DEF NoWork, Fresh, Works, LoopOK

LEMMA WorksType == ASSUME TypeOK PROVE work \in [Replicas -> Works]
BY DEF TypeOK, Works

-----------------------------------------------------------------------------
(* What each step of a reconcile leaves in work[r].                        *)

LEMMA BeginWork ==
    ASSUME Typed, NEW r \in Replicas, Begin(r)
    PROVE  \E w \in Works : LoopOK(w) /\ work' = [work EXCEPT ![r] = w]
<1> DEFINE g  == seen[r].gen
           w1 == Fresh(g, LoopPc(g, 1))
           w2 == Fresh(g, "report")
<1>1. g \in Gens
  BY DEF Typed, TypeOK
<1>2. Len(Items[g]) \in Nat
  BY <1>1, ConstantTypes
<1>3. w2 \in Works /\ LoopOK(w2)
  BY <1>1, EmptyMapType DEF Fresh, Works, LoopOK
<1>4. w1 \in Works /\ LoopOK(w1)
  <2>1. MadeFrom(EmptyMap, g, 0)
    BY <1>1, EmptyMadeFrom
  <2>2. CASE Len(Items[g]) = 0
    <3>1. LoopPc(g, 1) = "get"
      BY <2>2 DEF LoopPc
    <3>2. QED
      BY <1>1, <2>1, <2>2, <3>1, EmptyMapType DEF Fresh, Works, LoopOK
  <2>3. CASE Len(Items[g]) # 0
    <3>1. LoopPc(g, 1) = "seal" /\ 1 <= Len(Items[g]) /\ 1 - 1 = 0
      BY <1>2, <2>3 DEF LoopPc
    <3>2. QED
      BY <1>1, <2>1, <3>1, EmptyMapType DEF Fresh, Works, LoopOK
  <2>4. QED
    BY <2>2, <2>3
<1>5. work' = [work EXCEPT ![r] = w1] \/ work' = [work EXCEPT ![r] = w2]
  BY DEF Begin
<1>6. QED
  BY <1>3, <1>4, <1>5

LEMMA FailWork ==
    ASSUME Typed, NEW r \in Replicas, NEW b \in BOOLEAN,
           work' = [work EXCEPT ![r].pc = "report", ![r].ok = b]
    PROVE  \E w \in Works : LoopOK(w) /\ work' = [work EXCEPT ![r] = w]
<1> DEFINE w == [work[r] EXCEPT !.pc = "report", !.ok = b]
<1>1. work[r] \in Works
  BY WorksType DEF Typed
<1>2. w \in Works /\ w.pc = "report"
  BY <1>1 DEF Works
<1>3. LoopOK(w)
  BY <1>2 DEF LoopOK
<1>4. work' = [work EXCEPT ![r] = w]
  BY WorksType DEF Typed
<1>5. QED
  BY <1>2, <1>3, <1>4

LEMMA SealWork ==
    ASSUME Typed, NEW r \in Replicas, SealItem(r)
    PROVE  \E w \in Works : LoopOK(w) /\ work' = [work EXCEPT ![r] = w]
<1> DEFINE g    == work[r].gen
           n    == work[r].next
           item == Items[g][n]
           e    == [remote |-> item.remote, version |-> remote[item.remote],
                    key |-> EncRef[g], keyVersion |-> seen[r].key[EncRef[g]]]
           w    == [work[r] EXCEPT !.data = Put(@, item.secretKey, e),
                                   !.next = n + 1, !.pc = LoopPc(g, n + 1)]
<1>1. work[r] \in Works /\ LoopOK(work[r]) /\ work[r].pc = "seal"
  BY WorksType DEF Typed, SealItem
<1>2. g \in Gens /\ n \in Nat \ {0} /\ work[r].data \in Maps
  BY <1>1 DEF Works
<1>3. Len(Items[g]) \in Nat
  BY <1>2, ConstantTypes
<1>4. n \in 1..Len(Items[g])
  BY <1>1, <1>2, <1>3 DEF LoopOK
<1>5. item \in Item
  BY <1>2, <1>4, ConstantTypes
<1>6. e \in Entry
  <2>1. item.remote \in RemoteKeys
    BY <1>5 DEF Item
  <2>2. remote[item.remote] \in 1..MaxVersion
    BY <2>1 DEF Typed, TypeOK
  <2>3. EncRef[g] \in KeyNames
    BY <1>2, ConstantTypes
  <2>4. seen[r].key[EncRef[g]] \in 1..MaxKeyVersion
    BY <2>3 DEF Typed, TypeOK
  <2>5. QED
    BY <2>1, <2>2, <2>3, <2>4 DEF Entry
<1>7. Put(work[r].data, item.secretKey, e) \in Maps
  BY <1>2, <1>5, <1>6, PutType DEF Item
<1>8. MadeFrom(Put(work[r].data, item.secretKey, e), g, n)
  <2>1. MadeFrom(work[r].data, g, n - 1)
    BY <1>1 DEF LoopOK
  <2>2. e.remote = item.remote /\ e.key = EncRef[g]
    OBVIOUS
  <2>3. QED
    BY <1>2, <1>4, <1>6, <2>1, <2>2, PutMadeFrom
<1>9. w.pc = LoopPc(g, n + 1) /\ w.gen = g /\ w.next = n + 1
      /\ w.data = Put(work[r].data, item.secretKey, e)
  BY <1>1 DEF Works
<1>10. LoopPc(g, n + 1) \in {"get", "seal"}
  BY DEF LoopPc
<1>11. w \in Works
  <2>1. n + 1 \in Nat \ {0}
    BY <1>2
  <2>2. QED
    BY <1>1, <1>7, <1>10, <2>1 DEF Works
<1>12. LoopOK(w)
  <2>2. n <= Len(Items[g]) /\ (n + 1) - 1 = n
    BY <1>2, <1>4
  <2>3. CASE n = Len(Items[g])
    <3>1. LoopPc(g, n + 1) = "get"
      BY <1>3, <2>3 DEF LoopPc
    <3>2. QED
      BY <1>8, <1>9, <2>3, <3>1 DEF LoopOK
  <2>4. CASE n # Len(Items[g])
    <3>1. n + 1 <= Len(Items[g])
      BY <1>2, <1>3, <2>2, <2>4
    <3>2. LoopPc(g, n + 1) = "seal"
      BY <1>2, <1>3, <3>1 DEF LoopPc
    <3>3. QED
      BY <1>8, <1>9, <2>2, <3>1, <3>2 DEF LoopOK
  <2>5. QED
    BY <2>3, <2>4
<1>13. work' = [work EXCEPT ![r] = w] \/ Fail(r)
  BY WorksType DEF Typed, SealItem
<1>14. QED
  BY <1>11, <1>12, <1>13, FailWork DEF Fail

\* Sealing an item neither changes the generation nor claims success nor ends
\* the reconcile.
LEMMA SealEffect ==
    ASSUME Typed, NEW r \in Replicas, SealItem(r)
    PROVE  /\ work'[r].gen = work[r].gen
           /\ ~(work'[r].pc = "report" /\ work'[r].ok)
           /\ work'[r].pc # "idle"
<1> DEFINE g    == work[r].gen
           n    == work[r].next
           item == Items[g][n]
           e    == [remote |-> item.remote, version |-> remote[item.remote],
                    key |-> EncRef[g], keyVersion |-> seen[r].key[EncRef[g]]]
           w    == [work[r] EXCEPT !.data = Put(@, item.secretKey, e),
                                   !.next = n + 1, !.pc = LoopPc(g, n + 1)]
<1>1. work \in [Replicas -> Works] /\ work[r] \in Works
  BY WorksType DEF Typed
<1>2. w.gen = g /\ w.pc = LoopPc(g, n + 1)
  BY <1>1 DEF Works
<1>3. work' = [work EXCEPT ![r] = w] \/ Fail(r)
  BY <1>1 DEF SealItem
<1>4. CASE work' = [work EXCEPT ![r] = w]
  BY <1>1, <1>2, <1>4 DEF LoopPc
<1>5. CASE Fail(r)
  BY <1>1, <1>5 DEF Fail, Works
<1>6. QED
  BY <1>3, <1>4, <1>5

LEMMA GetTargetWork ==
    ASSUME Typed, NEW r \in Replicas, GetTarget(r)
    PROVE  \E w \in Works : LoopOK(w) /\ work' = [work EXCEPT ![r] = w]
<1> DEFINE w == [work[r] EXCEPT !.found = seen[r].target, !.pc = "write"]
<1>1. work[r] \in Works /\ LoopOK(work[r]) /\ work[r].pc = "get"
  BY WorksType DEF Typed, GetTarget
<1>2. seen[r].target \in BOOLEAN
  BY DEF Typed, TypeOK
<1>3. w.pc = "write" /\ w.gen = work[r].gen /\ w.data = work[r].data
  BY <1>1 DEF Works
<1>4. w \in Works
  BY <1>1, <1>2 DEF Works
<1>5. LoopOK(w)
  BY <1>1, <1>3 DEF LoopOK
<1>6. work' = [work EXCEPT ![r] = w]
  BY WorksType DEF Typed, GetTarget
<1>7. QED
  BY <1>4, <1>5, <1>6

\* A reconcile step of r changes work[r] alone, and to something well formed.
LEMMA StepWork ==
    ASSUME Typed, NEW r \in Replicas, ReconcileStep(r)
    PROVE  \E w \in Works : LoopOK(w) /\ work' = [work EXCEPT ![r] = w]
<1>1. CASE BeginNotFound(r)
  <2>1. work' = [work EXCEPT ![r] = work[r]]
    BY <1>1, WorksType DEF Typed, BeginNotFound
  <2>2. work[r] \in Works /\ LoopOK(work[r])
    BY WorksType DEF Typed
  <2>3. QED
    BY <2>1, <2>2
<1>2. CASE Begin(r)
  BY <1>2, BeginWork
<1>3. CASE SealItem(r)
  BY <1>3, SealWork
<1>4. CASE GetTarget(r)
  BY <1>4, GetTargetWork
<1>5. CASE Write(r)
  BY <1>5, FailWork DEF Write, Fail
<1>6. CASE Report(r)
  BY <1>6, NoWorkOK DEF Report
<1>7. QED
  BY <1>1, <1>2, <1>3, <1>4, <1>5, <1>6 DEF ReconcileStep

-----------------------------------------------------------------------------
(* Type correctness.                                                       *)

LEMMA InitTyped == Init => Typed
<1> SUFFICES ASSUME Init PROVE Typed
  OBVIOUS
<1> USE DEF Init
<1>1. /\ work \in [Replicas -> Works]
      /\ \A r \in Replicas : LoopOK(work[r])
  BY NoWorkOK
<1>2. 1 \in 1..MaxVersion /\ 1 \in 1..MaxKeyVersion /\ 0 \in 0..MaxFaults
      /\ 0 \in 0..MaxGen
  BY BoundsAssumption
<1>3. QED
  BY <1>1, <1>2, ConstantTypes DEF Typed, TypeOK, Works

LEMMA FaultType == ASSUME TypeOK, Fault \/ UNCHANGED faults PROVE faults' \in 0..MaxFaults
BY BoundsAssumption DEF TypeOK, Fault

\* Changing one reconcile to a well-formed one keeps all of them so.
LEMMA WorkUpdate ==
    ASSUME Typed, NEW r \in Replicas, NEW w \in Works, LoopOK(w),
           work' = [work EXCEPT ![r] = w]
    PROVE  /\ work' \in [Replicas -> Works]
           /\ \A s \in Replicas : LoopOK(work'[s])
BY WorksType DEF Typed

\* The steps of Reconcile.
LEMMA ReconcileTyped ==
    ASSUME Typed, NEW r \in Replicas, ReconcileStep(r) PROVE Typed'
<1>1. /\ work' \in [Replicas -> Works]
      /\ \A s \in Replicas : LoopOK(work'[s])
  BY StepWork, WorkUpdate
<1>2. TypeOK /\ work \in [Replicas -> Works]
  BY WorksType DEF Typed
<1>3. (\A s \in Replicas : LoopOK(work[s]))'
  BY <1>1
<1> SUFFICES TypeOK'
  BY <1>3 DEF Typed
<1> USE DEF TypeOK, syncVars, tgtVars, worldVars
<1>4. CASE BeginNotFound(r)
  BY <1>2, <1>4 DEF BeginNotFound
<1>5. CASE Begin(r)
  <2>1. faults' \in 0..MaxFaults
    BY <1>2, <1>5, FaultType DEF Begin
  <2>2. QED
    BY <1>1, <1>2, <1>5, <2>1 DEF Begin, Works
<1>6. CASE SealItem(r)
  <2>1. faults' \in 0..MaxFaults
    BY <1>2, <1>6, FaultType DEF SealItem
  <2>2. QED
    BY <1>1, <1>2, <1>6, <2>1 DEF SealItem, Works
<1>7. CASE GetTarget(r)
  BY <1>1, <1>2, <1>7 DEF GetTarget, Works
<1>8. CASE Write(r)
  <2>1. faults' \in 0..MaxFaults
    BY <1>2, <1>8, FaultType DEF Write
  <2>2. CASE UNCHANGED tgtVars
    BY <1>1, <1>2, <1>8, <2>1, <2>2 DEF Write, Works
  <2>3. CASE Store(r)
    <3>1. work[r].gen \in Gens /\ work[r].data \in Maps
      BY <1>2 DEF Works
    <3>2. target' \in [exists : BOOLEAN, gen : Gens, enc : KeyNames, data : Maps]
      BY <2>3, <3>1, ConstantTypes DEF Store
    <3>3. persisted' \subseteq Gens
      BY <1>2, <2>3, <3>1 DEF Store
    <3>4. QED
      BY <1>1, <1>2, <1>8, <2>1, <2>3, <3>2, <3>3
      DEF Write, Store, TargetWritten, Works
  <2>4. QED
    BY <1>8, <2>2, <2>3 DEF Write
<1>9. CASE Report(r)
  <2>1. faults' \in 0..MaxFaults
    BY <1>2, <1>9, FaultType DEF Report
  <2>2. work[r].gen \in 0..MaxGen
    BY <1>2, BoundsAssumption DEF Works, Gens
  <2>3. Reported(r) \in [exists : BOOLEAN, gen : Gens,
                   state : {"None", "Synced", "SyncFailed"}, syncedGen : 0..MaxGen]
    BY <1>2, <2>2 DEF Reported
  <2>4. QED
    BY <1>1, <1>2, <1>9, <2>1, <2>3 DEF Report, RequeueAfter, SyncWritten, Works
<1>10. QED
  BY <1>4, <1>5, <1>6, <1>7, <1>8, <1>9 DEF ReconcileStep

\* Processes starting and dying.
LEMMA ProcessTyped ==
    ASSUME Typed, NEW r \in Replicas, Start(r) \/ Crash(r) PROVE Typed'
<1>1. TypeOK /\ work \in [Replicas -> Works]
  BY WorksType DEF Typed
<1>2. PICK pc \in {"down", "idle"} : work' = [work EXCEPT ![r] = NoWork(pc)]
  BY DEF Start, Crash
<1>3. /\ work' \in [Replicas -> Works]
      /\ \A s \in Replicas : LoopOK(work'[s])
  BY <1>2, NoWorkOK, WorkUpdate
<1>4. faults' \in 0..MaxFaults
  BY <1>1, FaultType DEF Start, Crash
<1>5. (\A s \in Replicas : LoopOK(work[s]))'
  BY <1>3
<1>6. TypeOK'
  <2> USE DEF TypeOK, syncVars, tgtVars, worldVars
  <2>1. CASE Start(r)
    BY <1>1, <1>3, <1>4, <2>1 DEF Start, Works
  <2>2. CASE Crash(r)
    BY <1>1, <1>3, <1>4, <2>2, ConstantTypes DEF Crash, Works
  <2>3. QED
    BY <2>1, <2>2
<1>7. QED
  BY <1>5, <1>6 DEF Typed

\* The steps that touch no reconcile.
OtherStep ==
    \/ \E r \in Replicas : CacheSync(r) \/ CacheTarget(r) \/ CacheKey(r) \/ TimerFires(r)
    \/ EditSpec \/ DeleteSync \/ DeleteTarget \/ TouchTarget
    \/ \E x \in RemoteKeys : RemoteChange(x)
    \/ \E k \in KeyNames : RotateKey(k)
    \/ UNCHANGED vars

LEMMA OtherWork == OtherStep => UNCHANGED work
BY DEF OtherStep, CacheSync, CacheTarget, CacheKey, TimerFires, EditSpec, DeleteSync,
       DeleteTarget, TouchTarget, RemoteChange, RotateKey, vars

LEMMA NextSplit ==
    [Next]_vars => \/ \E r \in Replicas : ReconcileStep(r)
                   \/ \E r \in Replicas : Start(r) \/ Crash(r)
                   \/ OtherStep
BY DEF Next, OtherStep

LEMMA OtherTyped == ASSUME Typed, OtherStep PROVE Typed'
<1>0. TypeOK
  BY DEF Typed
<1>1. (\A s \in Replicas : LoopOK(work[s]))'
  BY OtherWork DEF Typed
<1> SUFFICES TypeOK'
  BY <1>1 DEF Typed
<1>2. ASSUME NEW r \in Replicas, CacheSync(r) PROVE TypeOK'
  <2>1. seen' \in [Replicas -> [exists : BOOLEAN, gen : Gens, target : BOOLEAN,
                                key : [KeyNames -> 1..MaxKeyVersion]]]
    <3>1. seen[r] \in [exists : BOOLEAN, gen : Gens, target : BOOLEAN,
                       key : [KeyNames -> 1..MaxKeyVersion]]
          /\ sync.exists \in BOOLEAN /\ sync.gen \in Gens
      BY <1>0 DEF TypeOK
    <3>2. [seen[r] EXCEPT !.exists = sync.exists, !.gen = sync.gen]
             \in [exists : BOOLEAN, gen : Gens, target : BOOLEAN,
                  key : [KeyNames -> 1..MaxKeyVersion]]
      BY <3>1
    <3>3. seen' = [seen EXCEPT ![r] =
                      [seen[r] EXCEPT !.exists = sync.exists, !.gen = sync.gen]]
      BY <1>0, <1>2 DEF CacheSync, TypeOK
    <3>4. QED
      BY <1>0, <3>2, <3>3 DEF TypeOK
  <2>2. QED
    BY <1>0, <1>2, <2>1 DEF CacheSync, TypeOK, tgtVars, worldVars
<1> USE <1>0 DEF TypeOK, syncVars, tgtVars, worldVars
<1>3. ASSUME NEW r \in Replicas, CacheTarget(r) PROVE TypeOK'
  BY <1>3 DEF CacheTarget
<1>4. ASSUME NEW r \in Replicas, CacheKey(r) PROVE TypeOK'
  BY <1>4 DEF CacheKey
<1>5. ASSUME NEW r \in Replicas, TimerFires(r) PROVE TypeOK'
  BY <1>5 DEF TimerFires
<1>6. CASE EditSpec
  <2>1. sync.gen + 1 \in Gens
    BY <1>6, BoundsAssumption DEF EditSpec, Gens
  <2>2. QED
    BY <1>6, <2>1 DEF EditSpec, SyncWritten
<1>7. CASE DeleteSync
  BY <1>7, FaultType DEF DeleteSync, SyncWritten
<1>8. CASE DeleteTarget
  BY <1>8, FaultType, ConstantTypes DEF DeleteTarget, TargetWritten
<1>9. CASE TouchTarget
  BY <1>9 DEF TouchTarget, TargetWritten
<1>10. ASSUME NEW x \in RemoteKeys, RemoteChange(x) PROVE TypeOK'
  <2>1. remote[x] + 1 \in 1..MaxVersion
    BY <1>10, BoundsAssumption DEF RemoteChange
  <2>2. QED
    BY <1>10, <2>1 DEF RemoteChange
<1>11. ASSUME NEW k \in KeyNames, RotateKey(k) PROVE TypeOK'
  <2>1. keyVer[k] + 1 \in 1..MaxKeyVersion
    BY <1>11, BoundsAssumption DEF RotateKey
  <2>2. QED
    BY <1>11, <2>1 DEF RotateKey
<1>12. CASE UNCHANGED vars
  BY <1>12 DEF vars
<1>13. QED
  BY <1>2, <1>3, <1>4, <1>5, <1>6, <1>7, <1>8, <1>9, <1>10, <1>11, <1>12 DEF OtherStep

LEMMA StepTyped == Typed /\ [Next]_vars => Typed'
BY NextSplit, ReconcileTyped, ProcessTyped, OtherTyped

\* Every variable keeps its type: an item is only sealed while there is one,
\* so the loop never reads past spec.Data (sync_controller.go:66).
THEOREM TypeCorrect == Spec => []TypeOK
<1>1. Spec => []Typed
  BY InitTyped, StepTyped, PTL DEF Spec
<1>2. Typed => TypeOK
  BY DEF Typed
<1>3. QED
  BY <1>1, <1>2, PTL

-----------------------------------------------------------------------------
(* All or nothing.                                                         *)

\* Who changes the target: a reconcile that has the whole of its map, or a
\* deletion.
LEMMA TargetSteps ==
    ASSUME Typed, [Next]_vars
    PROVE  \/ UNCHANGED target
           \/ \E r \in Replicas : work[r].pc = "write" /\ Store(r)
           \/ target' = NoTarget
<1>1. ASSUME NEW r \in Replicas, ReconcileStep(r)
      PROVE  UNCHANGED target \/ (work[r].pc = "write" /\ Store(r))
  BY <1>1 DEF ReconcileStep, BeginNotFound, Begin, SealItem, GetTarget, Write, Report, tgtVars
<1>2. ASSUME NEW r \in Replicas, Start(r) \/ Crash(r) PROVE UNCHANGED target
  BY <1>2 DEF Start, Crash
<1>3. ASSUME OtherStep PROVE UNCHANGED target \/ target' = NoTarget
  BY <1>3 DEF OtherStep, CacheSync, CacheTarget, CacheKey, TimerFires, EditSpec,
     DeleteSync, DeleteTarget, TouchTarget, RemoteChange, RotateKey, vars, tgtVars
<1>4. QED
  BY <1>1, <1>2, <1>3, NextSplit

\* The README's "Sync all-or-nothing", for any spec: the stored TSecret is the
\* whole map of one generation, sealed under that generation's key, however
\* many replicas run and wherever their reconciles fail
\* (sync_controller.go:64-130).
THEOREM TargetIsWhole == Spec => []AllOrNothing
<1>1. Init => AllOrNothing
  BY DEF Init, NoTarget, AllOrNothing
<1>2. Typed /\ AllOrNothing /\ [Next]_vars => AllOrNothing'
  <2> SUFFICES ASSUME Typed, AllOrNothing, [Next]_vars PROVE AllOrNothing'
    OBVIOUS
  <2>1. CASE UNCHANGED target
    BY <2>1 DEF AllOrNothing, MadeFrom
  <2>2. ASSUME NEW r \in Replicas, work[r].pc = "write", Store(r) PROVE AllOrNothing'
    <3>1. MadeFrom(work[r].data, work[r].gen, Len(Items[work[r].gen]))
      BY <2>2 DEF Typed, LoopOK
    <3>2. /\ target'.data = work[r].data
          /\ target'.gen = work[r].gen
          /\ target'.enc = EncRef[work[r].gen]
      BY <2>2 DEF Store
    <3>3. QED
      BY <3>1, <3>2 DEF AllOrNothing, MadeFrom
  <2>3. CASE target' = NoTarget
    BY <2>3 DEF AllOrNothing, NoTarget
  <2>4. QED
    BY <2>1, <2>2, <2>3, TargetSteps
<1>3. QED
  BY <1>1, <1>2, InitTyped, StepTyped, PTL DEF Spec

-----------------------------------------------------------------------------
(* The status is backed by a write.                                        *)

\* A reconcile that will report success has stored its generation.
ReportBacked ==
    \A r \in Replicas : work[r].pc = "report" /\ work[r].ok => work[r].gen \in persisted

Backed == SyncedIsBacked /\ ReportBacked

LEMMA InitBacked == Init => Backed
BY NoWorkOK DEF Init, Backed, SyncedIsBacked, ReportBacked, NoWork, Fresh

LEMMA ReconcileBacked ==
    ASSUME Typed, Backed, NEW r \in Replicas, ReconcileStep(r) PROVE Backed'
<1>0. work \in [Replicas -> Works]
  BY WorksType DEF Typed
<1> USE DEF Backed, SyncedIsBacked, ReportBacked
<1>1. CASE BeginNotFound(r)
  BY <1>1 DEF BeginNotFound, syncVars, tgtVars
<1>2. CASE Begin(r)
  <2>1. UNCHANGED <<sync, persisted>>
    BY <1>2 DEF Begin, tgtVars
  <2>2. \A s \in Replicas : s # r => work'[s] = work[s]
    BY <1>0, <1>2 DEF Begin
  <2>3. work'[r].ok = FALSE
    BY <1>0, <1>2 DEF Begin, Fresh
  <2>4. QED
    BY <2>1, <2>2, <2>3
<1>3. CASE SealItem(r)
  <2>1. UNCHANGED <<sync, persisted>>
    BY <1>3 DEF SealItem, syncVars, tgtVars
  <2>2. \A s \in Replicas : s # r => work'[s] = work[s]
    BY <1>0, <1>3 DEF SealItem, Fail
  <2>3. ~(work'[r].pc = "report" /\ work'[r].ok)
    BY <1>3, SealEffect
  <2>4. QED
    BY <2>1, <2>2, <2>3
<1>4. CASE GetTarget(r)
  <2>1. \A s \in Replicas : work'[s].pc = "report" => work'[s] = work[s]
    BY <1>0, <1>4 DEF GetTarget, Works
  <2>2. UNCHANGED <<sync, persisted>>
    BY <1>4 DEF GetTarget, syncVars
  <2>3. QED
    BY <2>1, <2>2
<1>5. CASE Write(r)
  <2>1. sync' = sync /\ persisted \subseteq persisted'
    BY <1>5 DEF Write, Store, syncVars, tgtVars
  <2>2. \A s \in Replicas : s # r => work'[s] = work[s]
    BY <1>0, <1>5 DEF Write, Fail
  <2>3. work'[r].ok => work'[r].gen \in persisted'
    <3>1. CASE Store(r) /\ work' = [work EXCEPT ![r].pc = "report", ![r].ok = TRUE]
      <4>1. work'[r].gen = work[r].gen
        BY <1>0, <3>1 DEF Works
      <4>2. QED
        BY <3>1, <4>1 DEF Store
    <3>2. CASE Fail(r)
      BY <1>0, <3>2 DEF Fail, Works
    <3>3. QED
      BY <1>5, <3>1, <3>2 DEF Write
  <2>4. QED
    BY <2>1, <2>2, <2>3
<1>6. CASE Report(r)
  <2>1. UNCHANGED persisted
    BY <1>6 DEF Report, tgtVars
  <2>2. \A s \in Replicas : s # r => work'[s] = work[s]
    BY <1>0, <1>6 DEF Report
  <2>3. work'[r].ok = FALSE
    BY <1>0, <1>6 DEF Report, NoWork, Fresh
  <2>4. sync' = sync \/ sync' = Reported(r)
    BY <1>6 DEF Report, syncVars
  <2>5. CASE sync' = Reported(r)
    <3>1. CASE work[r].ok
      <4>1. sync'.syncedGen = work[r].gen
        BY <2>5, <3>1 DEF Reported, Typed, TypeOK
      <4>2. QED
        BY <1>6, <2>1, <2>2, <2>3, <3>1, <4>1 DEF Report
    <3>2. CASE ~work[r].ok
      <4>1. sync'.syncedGen = sync.syncedGen
        BY <2>5, <3>2 DEF Reported, Typed, TypeOK
      <4>2. QED
        BY <2>1, <2>2, <2>3, <4>1
    <3>3. QED
      BY <3>1, <3>2
  <2>6. QED
    BY <2>1, <2>2, <2>3, <2>4, <2>5
<1>7. QED
  BY <1>1, <1>2, <1>3, <1>4, <1>5, <1>6 DEF ReconcileStep

LEMMA StepBacked == ASSUME Typed, Backed, [Next]_vars PROVE Backed'
<1> USE DEF Backed, SyncedIsBacked, ReportBacked
<1>1. ASSUME NEW r \in Replicas, Start(r) \/ Crash(r) PROVE Backed'
  <2>1. UNCHANGED <<sync, persisted>>
    BY <1>1 DEF Start, Crash
  <2>2. \A s \in Replicas : work'[s].pc = "report" => work'[s] = work[s]
    BY <1>1, WorksType DEF Start, Crash, NoWork, Fresh, Typed
  <2>3. QED
    BY <2>1, <2>2
<1>2. ASSUME OtherStep PROVE Backed'
  <2>1. UNCHANGED <<work, persisted>>
    BY <1>2, OtherWork DEF OtherStep, CacheSync, CacheTarget, CacheKey, TimerFires, EditSpec,
       DeleteSync, DeleteTarget, TouchTarget, RemoteChange, RotateKey, vars, tgtVars
  <2>2. sync' = sync \/ sync' = [sync EXCEPT !.gen = @ + 1]
        \/ sync' = [sync EXCEPT !.exists = FALSE]
    BY <1>2 DEF OtherStep, CacheSync, CacheTarget, CacheKey, TimerFires, EditSpec,
       DeleteSync, DeleteTarget, TouchTarget, RemoteChange, RotateKey, vars, syncVars
  <2>4. sync'.syncedGen = sync.syncedGen
    BY <2>2 DEF Typed, TypeOK
  <2>5. QED
    BY <2>1, <2>4
<1>3. QED
  BY <1>1, <1>2, ReconcileBacked, NextSplit

\* status.syncedGeneration only ever names a generation that was stored first,
\* also when two replicas reconcile at once (sync_controller.go:132-137).
THEOREM StatusIsBacked == Spec => []SyncedIsBacked
<1>1. Typed /\ Backed /\ [Next]_vars => Backed'
  BY StepBacked
<1>2. Spec => []Backed
  BY <1>1, InitBacked, InitTyped, StepTyped, PTL DEF Spec
<1>3. Backed => SyncedIsBacked
  BY DEF Backed
<1>4. QED
  BY <1>2, <1>3, PTL

-----------------------------------------------------------------------------
(* The synced generation never goes back.                                  *)

\* What a fresh resourceVersion says of a copy of the TSecretSync.
CopiesCurrent ==
    /\ sync.syncedGen <= sync.gen
    /\ \A r \in syncCacheFresh : seen[r].gen = sync.gen
    /\ \A r \in syncCopyFresh :
          work[r].pc \in {"seal", "get", "write", "report"} => work[r].gen = sync.gen

LEMMA InitCurrent == Init => CopiesCurrent
BY BoundsAssumption DEF Init, CopiesCurrent

LEMMA ReconcileCurrent ==
    ASSUME Typed, CopiesCurrent, NEW r \in Replicas, ReconcileStep(r)
    PROVE  CopiesCurrent' /\ sync'.syncedGen >= sync.syncedGen
<1>0. /\ work \in [Replicas -> Works]
      /\ syncCacheFresh \subseteq Replicas /\ syncCopyFresh \subseteq Replicas
      /\ sync.gen \in Nat /\ sync.syncedGen \in Nat
  BY WorksType, BoundsAssumption DEF Typed, TypeOK, Gens
<1> USE DEF CopiesCurrent
<1>1. CASE BeginNotFound(r)
  BY <1>0, <1>1 DEF BeginNotFound, syncVars
<1>2. CASE Begin(r)
  <2>1. UNCHANGED <<sync, syncCacheFresh, seen>>
    BY <1>2 DEF Begin
  <2>2. \A s \in Replicas : s # r => work'[s] = work[s]
    BY <1>0, <1>2 DEF Begin
  <2>3. work'[r].gen = seen[r].gen
    BY <1>0, <1>2 DEF Begin, Fresh
  <2>4. r \in syncCopyFresh' => r \in syncCacheFresh
    BY <1>2 DEF Begin
  <2>5. syncCopyFresh' \subseteq syncCopyFresh \cup {r}
    BY <1>2 DEF Begin
  <2>6. QED
    BY <1>0, <2>1, <2>2, <2>3, <2>4, <2>5
<1>3. CASE SealItem(r) \/ GetTarget(r) \/ Write(r)
  <2>1. UNCHANGED <<sync, syncCacheFresh, syncCopyFresh, seen>>
    BY <1>3 DEF SealItem, GetTarget, Write, syncVars
  <2>2. work[r].pc \in {"seal", "get", "write"}
    BY <1>3 DEF SealItem, GetTarget, Write
  <2>3. \A s \in Replicas : s # r => work'[s] = work[s]
    BY <1>0, <1>3 DEF SealItem, GetTarget, Write, Fail
  <2>4. work'[r].gen = work[r].gen
    <3>1. CASE SealItem(r)
      BY <3>1, SealEffect
    <3>2. CASE GetTarget(r)
      BY <1>0, <3>2 DEF GetTarget, Works
    <3>3. CASE Write(r)
      BY <1>0, <3>3 DEF Write, Fail, Works
    <3>4. QED
      BY <1>3, <3>1, <3>2, <3>3
  <2>5. QED
    BY <1>0, <2>1, <2>2, <2>3, <2>4
<1>4. CASE Report(r)
  <2>1. work'[r].pc = "idle" /\ \A s \in Replicas : s # r => work'[s] = work[s]
    BY <1>0, <1>4 DEF Report, NoWork, Fresh
  <2>2. UNCHANGED seen
    BY <1>4 DEF Report
  <2>3. CASE UNCHANGED syncVars
    BY <1>0, <2>1, <2>2, <2>3 DEF syncVars
  <2>4. CASE StatusAccepted(r) /\ sync' = Reported(r)
             /\ (SyncWritten \/ UNCHANGED <<syncCacheFresh, syncCopyFresh>>)
    <3>1. work[r].gen = sync.gen
      BY <1>4, <2>4 DEF Report, StatusAccepted
    <3>2. sync'.gen = sync.gen
      BY <2>4 DEF Reported, Typed, TypeOK
    <3>3. sync'.syncedGen = sync.gen \/ sync'.syncedGen = sync.syncedGen
      BY <2>4, <3>1 DEF Reported, Typed, TypeOK
    <3>4. syncCacheFresh' \subseteq syncCacheFresh /\ syncCopyFresh' \subseteq syncCopyFresh
      BY <2>4 DEF SyncWritten
    <3>5. QED
      BY <1>0, <2>1, <2>2, <3>2, <3>3, <3>4
  <2>5. QED
    BY <1>4, <2>3, <2>4 DEF Report, syncVars
<1>5. QED
  BY <1>1, <1>2, <1>3, <1>4 DEF ReconcileStep

LEMMA StepCurrent ==
    ASSUME Typed, CopiesCurrent, [Next]_vars
    PROVE  CopiesCurrent' /\ sync'.syncedGen >= sync.syncedGen
<1>0. /\ work \in [Replicas -> Works]
      /\ syncCacheFresh \subseteq Replicas /\ syncCopyFresh \subseteq Replicas
      /\ sync.gen \in Nat /\ sync.syncedGen \in Nat
  BY WorksType, BoundsAssumption DEF Typed, TypeOK, Gens
<1> USE DEF CopiesCurrent
<1>1. ASSUME NEW r \in Replicas, Start(r) \/ Crash(r)
      PROVE  CopiesCurrent' /\ sync'.syncedGen >= sync.syncedGen
  <2>1. UNCHANGED sync /\ syncCopyFresh' \subseteq syncCopyFresh
    BY <1>1 DEF Start, Crash
  <2>2. work'[r].pc \in {"idle", "down"} /\ \A s \in Replicas : s # r => work'[s] = work[s]
    BY <1>0, <1>1 DEF Start, Crash, NoWork, Fresh
  <2>3. \A s \in syncCacheFresh' : seen'[s].gen = sync.gen
    <3>1. CASE Start(r)
      BY <1>0, <3>1 DEF Start, Typed, TypeOK
    <3>2. CASE Crash(r)
      BY <1>0, <3>2 DEF Crash, Typed, TypeOK
    <3>3. QED
      BY <1>1, <3>1, <3>2
  <2>4. QED
    BY <1>0, <2>1, <2>2, <2>3
<1>2. ASSUME OtherStep PROVE CopiesCurrent' /\ sync'.syncedGen >= sync.syncedGen
  <2>1. UNCHANGED work
    BY <1>2, OtherWork
  <2>2. ASSUME NEW r \in Replicas, CacheSync(r)
        PROVE  CopiesCurrent' /\ sync'.syncedGen >= sync.syncedGen
    <3>1. UNCHANGED <<sync, syncCopyFresh>> /\ syncCacheFresh' = syncCacheFresh \cup {r}
      BY <2>2 DEF CacheSync
    <3>2. seen'[r].gen = sync.gen /\ \A s \in Replicas : s # r => seen'[s] = seen[s]
      BY <2>2 DEF CacheSync, Typed, TypeOK
    <3>3. QED
      BY <1>0, <2>1, <3>1, <3>2
  <2>3. ASSUME NEW r \in Replicas, CacheTarget(r) \/ CacheKey(r)
        PROVE  CopiesCurrent' /\ sync'.syncedGen >= sync.syncedGen
    <3>1. UNCHANGED syncVars
      BY <2>3 DEF CacheTarget, CacheKey
    <3>2. \A s \in Replicas : seen'[s].gen = seen[s].gen
      <4>1. seen \in [Replicas -> [exists : BOOLEAN, gen : Gens, target : BOOLEAN,
                                   key : [KeyNames -> 1..MaxKeyVersion]]]
        BY DEF Typed, TypeOK
      <4>2. seen' = [seen EXCEPT ![r].target = target.exists]
            \/ seen' = [seen EXCEPT ![r].key = keyVer]
        BY <2>3 DEF CacheTarget, CacheKey
      <4>3. QED
        BY <4>1, <4>2
    <3>3. QED
      BY <1>0, <2>1, <3>1, <3>2 DEF syncVars
  <2>4. CASE EditSpec \/ DeleteSync
    <3>1. syncCacheFresh' = {} /\ syncCopyFresh' = {}
      BY <2>4 DEF EditSpec, DeleteSync, SyncWritten
    <3>2. sync' = [sync EXCEPT !.gen = @ + 1] \/ sync' = [sync EXCEPT !.exists = FALSE]
      BY <2>4 DEF EditSpec, DeleteSync
    <3>3. sync'.syncedGen = sync.syncedGen
          /\ (sync'.gen = sync.gen + 1 \/ sync'.gen = sync.gen)
      BY <3>2 DEF Typed, TypeOK
    <3>4. QED
      BY <1>0, <3>1, <3>3
  <2>5. CASE UNCHANGED <<syncVars, seen>>
    BY <1>0, <2>1, <2>5 DEF syncVars
  <2>6. QED
    BY <1>2, <2>2, <2>3, <2>4, <2>5 DEF OtherStep, TimerFires, DeleteTarget, TouchTarget,
       RemoteChange, RotateKey, vars
<1>3. QED
  BY <1>1, <1>2, ReconcileCurrent, NextSplit

\* status.syncedGeneration never goes back, with any number of replicas: the
\* resourceVersion a reconcile carries is the only thing that stops a slow
\* one from reporting an older generation (sync_controller.go:132-137, 204).
THEOREM SyncedGenNeverGoesBack == Spec => SyncedGenMonotone
<1>1. Typed /\ CopiesCurrent /\ [Next]_vars => CopiesCurrent'
  BY StepCurrent
<1>2. Typed /\ CopiesCurrent /\ [Next]_vars => [sync'.syncedGen >= sync.syncedGen]_sync
  BY StepCurrent
<1>3. QED
  BY <1>1, <1>2, InitCurrent, InitTyped, StepTyped, PTL DEF Spec, SyncedGenMonotone
-----------------------------------------------------------------------------
(* The TSecretSync is never forgotten.                                     *)

\* NeverForgotten alone is not inductive: a request may be dropped as
\* NotFound, which is right only if a cache that is current has the object's
\* existence right.
ExistsCurrent == \A r \in syncCacheFresh : seen[r].exists = sync.exists

Remembered == NeverForgotten /\ ExistsCurrent

LEMMA InitRemembered == Init => Remembered
BY DEF Init, Remembered, NeverForgotten, ExistsCurrent

LEMMA ReconcileRemembered ==
    ASSUME Typed, Remembered, NEW r \in Replicas, ReconcileStep(r)
    PROVE  Remembered'
<1>0. /\ work \in [Replicas -> Works]
      /\ queue \in [Replicas -> SUBSET {"start", "event", "timer"}]
      /\ timer \in [Replicas -> BOOLEAN]
      /\ syncCacheFresh \subseteq Replicas
  BY WorksType DEF Typed, TypeOK
<1>1. sync'.exists = sync.exists /\ UNCHANGED seen /\ syncCacheFresh' \subseteq syncCacheFresh
  <2>1. UNCHANGED seen
    BY DEF ReconcileStep, BeginNotFound, Begin, SealItem, GetTarget, Write, Report
  <2>2. sync' = sync \/ sync' = Reported(r)
    BY DEF ReconcileStep, BeginNotFound, Begin, SealItem, GetTarget, Write, Report, syncVars
  <2>3. Reported(r).exists = sync.exists
    BY DEF Reported, Typed, TypeOK
  <2>4. syncCacheFresh' \subseteq syncCacheFresh
    BY DEF ReconcileStep, BeginNotFound, Begin, SealItem, GetTarget, Write, Report, syncVars,
       SyncWritten
  <2>5. QED
    BY <2>1, <2>2, <2>3, <2>4
<1>2. ExistsCurrent'
  BY <1>1 DEF Remembered, ExistsCurrent
<1>3. \A s \in Replicas : s # r =>
         work'[s] = work[s] /\ queue'[s] = queue[s] /\ timer'[s] = timer[s]
  <2>1. \A s \in Replicas : s # r => work'[s] = work[s]
    BY <1>0 DEF ReconcileStep, BeginNotFound, Begin, SealItem, GetTarget, Write, Report, Fail
  <2>2. \A s \in Replicas : s # r => queue'[s] = queue[s]
    BY <1>0 DEF ReconcileStep, BeginNotFound, Begin, SealItem, GetTarget, Write, Report
  <2>3. \A s \in Replicas : s # r => timer'[s] = timer[s]
    BY <1>0 DEF ReconcileStep, BeginNotFound, Begin, SealItem, GetTarget, Write, Report,
       RequeueAfter
  <2>4. QED
    BY <2>1, <2>2, <2>3
<1>4. work'[r].pc = "idle" /\ sync'.exists /\ r \in syncCacheFresh'
      => queue'[r] # {} \/ timer'[r]
  <2>1. CASE BeginNotFound(r)
    BY <1>1, <2>1 DEF BeginNotFound, Remembered, ExistsCurrent
  <2>2. CASE Report(r)
    BY <1>0, <2>2 DEF Report, RequeueAfter
  <2>3. CASE Begin(r) \/ SealItem(r) \/ GetTarget(r) \/ Write(r)
    <3>1. work'[r].pc # "idle"
      <4>1. CASE Begin(r)
        BY <1>0, <4>1 DEF Begin, Fresh, LoopPc
      <4>2. CASE SealItem(r)
        BY <4>2, SealEffect
      <4>3. CASE GetTarget(r)
        BY <1>0, <4>3 DEF GetTarget, Works
      <4>4. CASE Write(r)
        BY <1>0, <4>4 DEF Write, Fail, Works
      <4>5. QED
        BY <2>3, <4>1, <4>2, <4>3, <4>4
    <3>2. QED
      BY <3>1
  <2>4. QED
    BY <2>1, <2>2, <2>3 DEF ReconcileStep
<1>5. NeverForgotten'
  BY <1>1, <1>3, <1>4 DEF Remembered, NeverForgotten
<1>6. QED
  BY <1>2, <1>5 DEF Remembered

LEMMA StepRemembered == ASSUME Typed, Remembered, [Next]_vars PROVE Remembered'
<1>0. /\ work \in [Replicas -> Works]
      /\ queue \in [Replicas -> SUBSET {"start", "event", "timer"}]
      /\ timer \in [Replicas -> BOOLEAN]
      /\ seen \in [Replicas -> [exists : BOOLEAN, gen : Gens, target : BOOLEAN,
                                key : [KeyNames -> 1..MaxKeyVersion]]]
      /\ sync.exists \in BOOLEAN
      /\ syncCacheFresh \subseteq Replicas
  BY WorksType DEF Typed, TypeOK
<1>1. ASSUME NEW r \in Replicas, Start(r) \/ Crash(r) \/ CacheSync(r) PROVE Remembered'
  <2>1. UNCHANGED sync /\ syncCacheFresh' \subseteq syncCacheFresh \cup {r}
    BY <1>1 DEF Start, Crash, CacheSync
  <2>2. \A s \in Replicas : s # r =>
           /\ work'[s] = work[s] /\ queue'[s] = queue[s]
           /\ timer'[s] = timer[s] /\ seen'[s] = seen[s]
    BY <1>0, <1>1 DEF Start, Crash, CacheSync
  <2>3. r \in syncCacheFresh' => seen'[r].exists = sync.exists
    BY <1>0, <1>1 DEF Start, Crash, CacheSync
  <2>4. work'[r].pc = "idle" /\ sync.exists => queue'[r] # {} \/ timer'[r]
    <3>1. CASE Start(r)
      BY <1>0, <3>1 DEF Start
    <3>2. CASE Crash(r)
      BY <1>0, <3>2 DEF Crash, NoWork, Fresh
    <3>3. CASE CacheSync(r)
      <4>1. queue'[r] = queue[r] \cup {"event"}
        BY <1>0, <3>3 DEF CacheSync
      <4>2. QED
        BY <4>1
    <3>4. QED
      BY <1>1, <3>1, <3>2, <3>3
  <2>5. ExistsCurrent'
    BY <1>0, <2>1, <2>2, <2>3 DEF Remembered, ExistsCurrent
  <2>6. NeverForgotten'
    BY <1>0, <2>1, <2>2, <2>4 DEF Remembered, NeverForgotten
  <2>7. QED
    BY <2>5, <2>6 DEF Remembered
<1>2. ASSUME NEW r \in Replicas, CacheTarget(r) \/ CacheKey(r) \/ TimerFires(r) PROVE Remembered'
  <2>1. UNCHANGED <<sync, syncCacheFresh, work>>
    BY <1>2 DEF CacheTarget, CacheKey, TimerFires, syncVars
  <2>2. \A s \in Replicas : seen'[s].exists = seen[s].exists
    <3>1. \/ seen' = [seen EXCEPT ![r].target = target.exists]
          \/ seen' = [seen EXCEPT ![r].key = keyVer]
          \/ seen' = seen
      BY <1>2 DEF CacheTarget, CacheKey, TimerFires
    <3>2. CASE seen' = [seen EXCEPT ![r].target = target.exists]
      BY <1>0, <3>2
    <3>3. CASE seen' = [seen EXCEPT ![r].key = keyVer]
      BY <1>0, <3>3
    <3>4. CASE seen' = seen
      BY <3>4
    <3>5. QED
      BY <3>1, <3>2, <3>3, <3>4
  <2>3. \A s \in Replicas : queue[s] # {} \/ timer[s] => queue'[s] # {} \/ timer'[s]
    BY <1>0, <1>2 DEF CacheTarget, CacheKey, TimerFires
  <2>4. QED
    BY <1>0, <2>1, <2>2, <2>3 DEF Remembered, NeverForgotten, ExistsCurrent
<1>3. ASSUME EditSpec \/ DeleteSync PROVE Remembered'
  BY <1>3 DEF EditSpec, DeleteSync, SyncWritten, Remembered, NeverForgotten, ExistsCurrent
<1>4. ASSUME DeleteTarget \/ TouchTarget \/ (\E x \in RemoteKeys : RemoteChange(x))
             \/ (\E k \in KeyNames : RotateKey(k)) \/ UNCHANGED vars
      PROVE  Remembered'
  BY <1>4 DEF DeleteTarget, TouchTarget, RemoteChange, RotateKey, vars, syncVars,
     Remembered, NeverForgotten, ExistsCurrent
<1>5. QED
  BY <1>1, <1>2, <1>3, <1>4, ReconcileRemembered DEF Next

\* Nobody forgets the TSecretSync: with any number of replicas and after any
\* faults, a running controller that is not at it and whose cache has it as it
\* is stored has it queued or has a timer for it (sync_controller.go:35-148).
THEOREM SyncIsNeverForgotten == Spec => []NeverForgotten
<1>1. Typed /\ Remembered /\ [Next]_vars => Remembered'
  BY StepRemembered
<1>2. Spec => []Remembered
  BY <1>1, InitRemembered, InitTyped, StepTyped, PTL DEF Spec
<1>3. Remembered => NeverForgotten
  BY DEF Remembered
<1>4. QED
  BY <1>2, <1>3, PTL
=============================================================================
