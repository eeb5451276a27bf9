--------------------------- MODULE SyncLeaderProofs ---------------------------
(***************************************************************************)
(* What SyncController promises with one leader at a time, and that it     *)
(* implements SecretMirror, for every spec, number of replicas and bound.  *)
(***************************************************************************)
EXTENDS SyncControllerProofs

-----------------------------------------------------------------------------
(* Nothing is ahead of the world.                                          *)

Targets == [exists : BOOLEAN, gen : Gens, enc : KeyNames, data : Maps]
Seens == [exists : BOOLEAN, gen : Gens, target : BOOLEAN,
          key : [KeyNames -> 1..MaxKeyVersion]]

\* The entries of d are of versions that ver knows, under keys that kv knows.
NoNewer(d, ver) == \A k \in DOMAIN d : d[k].version <= ver[d[k].remote]
NoNewerKey(d, kv) == \A k \in DOMAIN d : d[k].keyVersion <= kv[d[k].key]

\* Caches, reconciles and the target are all made of what has been.
Behind ==
    /\ target.gen <= sync.gen
    /\ NoNewer(target.data, remote) /\ NoNewerKey(target.data, keyVer)
    /\ \A r \in Replicas :
          /\ seen[r].gen <= sync.gen
          /\ \A k \in KeyNames : seen[r].key[k] <= keyVer[k]
          /\ work[r].gen <= sync.gen
          /\ NoNewer(work[r].data, remote) /\ NoNewerKey(work[r].data, keyVer)

LEMMA SyncTypes ==
    ASSUME TypeOK
    PROVE  /\ sync.gen \in Nat /\ sync.gen >= 1 /\ sync.syncedGen \in Nat
           /\ target \in Targets /\ target.gen \in Nat /\ target.gen >= 1
           /\ remote \in [RemoteKeys -> Nat] /\ keyVer \in [KeyNames -> Nat]
           /\ work \in [Replicas -> Works] /\ seen \in [Replicas -> Seens]
           /\ \A r \in Replicas :
                 /\ work[r].gen \in Nat /\ work[r].gen >= 1 /\ work[r].data \in Maps
                 /\ seen[r].gen \in Nat /\ seen[r].gen >= 1
                 /\ seen[r].key \in [KeyNames -> Nat]
<1>1. work \in [Replicas -> Works] /\ seen \in [Replicas -> Seens] /\ target \in Targets
  BY WorksType DEF TypeOK, Seens, Targets
<1>2. \A g \in Gens : g \in Nat /\ g >= 1
  BY BoundsAssumption DEF Gens
<1>3. \A i \in 1..MaxVersion : i \in Nat
  BY BoundsAssumption
<1>4. \A i \in 1..MaxKeyVersion : i \in Nat
  BY BoundsAssumption
<1>5. sync.gen \in Gens /\ sync.syncedGen \in Nat
  BY BoundsAssumption DEF TypeOK
<1>6. remote \in [RemoteKeys -> Nat] /\ keyVer \in [KeyNames -> Nat]
  BY <1>3, <1>4 DEF TypeOK
<1>7. ASSUME NEW r \in Replicas
      PROVE  /\ work[r].gen \in Gens /\ work[r].data \in Maps
             /\ seen[r].gen \in Gens /\ seen[r].key \in [KeyNames -> Nat]
  BY <1>1, <1>4 DEF Works, Seens
<1>8. target.gen \in Gens
  BY <1>1 DEF Targets
<1>9. QED
  BY <1>1, <1>2, <1>5, <1>6, <1>7, <1>8

\* What a map holds.
LEMMA MapEntry ==
    ASSUME NEW m \in Maps, NEW k \in DOMAIN m
    PROVE  /\ m[k].remote \in RemoteKeys /\ m[k].version \in Nat
           /\ m[k].key \in KeyNames /\ m[k].keyVersion \in Nat
<1>1. m[k] \in Entry
  BY DEF Maps
<1>2. QED
  BY <1>1, BoundsAssumption DEF Entry

\* Versions only grow, so what was no newer stays so.
LEMMA NoNewerGrows ==
    ASSUME NEW m \in Maps, NEW v, NEW w,
           \A x \in RemoteKeys : v[x] \in Nat /\ w[x] \in Nat /\ v[x] <= w[x],
           NoNewer(m, v)
    PROVE  NoNewer(m, w)
<1> SUFFICES ASSUME NEW k \in DOMAIN m PROVE m[k].version <= w[m[k].remote]
  BY DEF NoNewer
<1>1. m[k].remote \in RemoteKeys /\ m[k].version \in Nat
  BY MapEntry
<1>2. m[k].version <= v[m[k].remote]
  BY DEF NoNewer
<1>3. QED
  BY <1>1, <1>2

LEMMA NoNewerKeyGrows ==
    ASSUME NEW m \in Maps, NEW v, NEW w,
           \A x \in KeyNames : v[x] \in Nat /\ w[x] \in Nat /\ v[x] <= w[x],
           NoNewerKey(m, v)
    PROVE  NoNewerKey(m, w)
<1> SUFFICES ASSUME NEW k \in DOMAIN m PROVE m[k].keyVersion <= w[m[k].key]
  BY DEF NoNewerKey
<1>1. m[k].key \in KeyNames /\ m[k].keyVersion \in Nat
  BY MapEntry
<1>2. m[k].keyVersion <= v[m[k].key]
  BY DEF NoNewerKey
<1>3. QED
  BY <1>1, <1>2

LEMMA EmptyNoNewer == ASSUME NEW v, NEW w PROVE NoNewer(EmptyMap, v) /\ NoNewerKey(EmptyMap, w)
BY DEF EmptyMap, NoNewer, NoNewerKey

\* The entry that SealItem puts into its map.
Sealed(r) ==
    LET g == work[r].gen
        item == Items[g][work[r].next]
    IN [remote |-> item.remote, version |-> remote[item.remote],
        key |-> EncRef[g], keyVersion |-> seen[r].key[EncRef[g]]]

LEMMA SealedType ==
    ASSUME Typed, NEW r \in Replicas, work[r].pc = "seal"
    PROVE  /\ Items[work[r].gen][work[r].next].secretKey \in SecretKeys
           /\ Sealed(r).remote \in RemoteKeys /\ Sealed(r).version = remote[Sealed(r).remote]
           /\ Sealed(r).key \in KeyNames
           /\ Sealed(r).keyVersion = seen[r].key[Sealed(r).key]
<1>1. work[r] \in Works /\ LoopOK(work[r])
  BY WorksType DEF Typed
<1>2. work[r].gen \in Gens /\ work[r].next \in Nat \ {0}
  BY <1>1 DEF Works
<1>3. Items[work[r].gen] \in Seq(Item) /\ EncRef[work[r].gen] \in KeyNames
  BY <1>2, ConstantTypes
<1>4. work[r].next \in 1..Len(Items[work[r].gen])
  BY <1>1, <1>2, <1>3 DEF LoopOK
<1>5. Items[work[r].gen][work[r].next] \in Item
  BY <1>3, <1>4
<1>6. QED
  BY <1>3, <1>5 DEF Sealed, Item

\* What an iteration of the loop does to its reconcile.
LEMMA SealData ==
    ASSUME Typed, NEW r \in Replicas, SealItem(r)
    PROVE  /\ work'[r].gen = work[r].gen
           /\ \/ work'[r].data = work[r].data
              \/ work'[r].data = Put(work[r].data, Items[work[r].gen][work[r].next].secretKey,
                                     Sealed(r))
<1> DEFINE g == work[r].gen
           n == work[r].next
           d == Put(work[r].data, Items[g][n].secretKey, Sealed(r))
           w == [work[r] EXCEPT !.data = d, !.next = n + 1, !.pc = LoopPc(g, n + 1)]
<1>1. work \in [Replicas -> Works] /\ work[r] \in Works
  BY WorksType DEF Typed
<1>2. w.gen = g /\ w.data = d
  BY <1>1 DEF Works
<1>3. work' = [work EXCEPT ![r] = w] \/ Fail(r)
  BY <1>1 DEF SealItem, Sealed
<1>4. CASE work' = [work EXCEPT ![r] = w]
  BY <1>1, <1>2, <1>4
<1>5. CASE Fail(r)
  BY <1>1, <1>5 DEF Fail, Works
<1>6. QED
  BY <1>3, <1>4, <1>5

\* What a step of r's reconcile leaves alone, and what it makes of r's map.
LEMMA StepData ==
    ASSUME Typed, NEW r \in Replicas, ReconcileStep(r)
    PROVE  /\ UNCHANGED <<remote, keyVer, seen>> /\ sync'.gen = sync.gen
           /\ \A s \in Replicas : s # r => work'[s] = work[s]
           /\ \/ /\ work'[r].gen = work[r].gen
                 /\ work'[r].data = work[r].data
              \/ /\ work'[r].gen = work[r].gen /\ work[r].pc = "seal"
                 /\ work'[r].data = Put(work[r].data,
                       Items[work[r].gen][work[r].next].secretKey, Sealed(r))
              \/ work'[r].gen \in {seen[r].gen, 1} /\ work'[r].data = EmptyMap
<1>0. work \in [Replicas -> Works] /\ work[r] \in Works
  BY WorksType DEF Typed
<1>1. UNCHANGED <<remote, keyVer, seen>>
  BY DEF ReconcileStep, BeginNotFound, Begin, SealItem, GetTarget, Write, Report, worldVars
<1>2. sync' = sync \/ sync' = Reported(r)
  BY DEF ReconcileStep, BeginNotFound, Begin, SealItem, GetTarget, Write, Report, syncVars
<1>3. sync'.gen = sync.gen
  BY <1>2 DEF Reported, Typed, TypeOK
<1>4. PICK w \in Works : work' = [work EXCEPT ![r] = w]
  BY StepWork
<1>5. \A s \in Replicas : s # r => work'[s] = work[s]
  BY <1>0, <1>4
<1>6. CASE BeginNotFound(r)
  BY <1>1, <1>3, <1>5, <1>6 DEF BeginNotFound
<1>7. CASE Begin(r)
  BY <1>0, <1>1, <1>3, <1>5, <1>7 DEF Begin, Fresh
<1>8. CASE SealItem(r)
  BY <1>1, <1>3, <1>5, <1>8, SealData DEF SealItem
<1>9. CASE GetTarget(r)
  <2>1. work'[r].gen = work[r].gen /\ work'[r].data = work[r].data
    BY <1>0, <1>9 DEF GetTarget, Works
  <2>2. QED
    BY <1>1, <1>3, <1>5, <2>1
<1>10. CASE Write(r)
  <2>1. work'[r].gen = work[r].gen /\ work'[r].data = work[r].data
    BY <1>0, <1>10 DEF Write, Fail, Works
  <2>2. QED
    BY <1>1, <1>3, <1>5, <2>1
<1>11. CASE Report(r)
  BY <1>0, <1>1, <1>3, <1>5, <1>11 DEF Report, NoWork, Fresh
<1>12. QED
  BY <1>6, <1>7, <1>8, <1>9, <1>10, <1>11 DEF ReconcileStep

LEMMA InitBehind == Init => Behind
<1> SUFFICES ASSUME Init PROVE Behind
  OBVIOUS
<1>1. target.gen = 1 /\ target.data = EmptyMap
  BY DEF Init, NoTarget
<1>2. \A r \in Replicas : seen[r] = NoCache /\ work[r] = NoWork("down")
  BY DEF Init
<1>3. ASSUME NEW r \in Replicas PROVE work[r].gen = 1 /\ work[r].data = EmptyMap
  <2>1. NoWork("down").gen = 1 /\ NoWork("down").data = EmptyMap
    BY DEF NoWork, Fresh
  <2>2. QED
    BY <1>2, <2>1
<1>4. ASSUME NEW r \in Replicas
      PROVE  seen[r].gen = 1 /\ \A k \in KeyNames : seen[r].key[k] = 1
  <2>1. NoCache.gen = 1 /\ \A k \in KeyNames : NoCache.key[k] = 1
    BY DEF NoCache
  <2>2. QED
    BY <1>2, <2>1
<1>5. sync.gen = 1 /\ \A k \in KeyNames : keyVer[k] = 1
  BY DEF Init
<1>6. QED
  BY <1>1, <1>3, <1>4, <1>5, EmptyNoNewer DEF Behind

LEMMA ReconcileBehind ==
    ASSUME Typed, Behind, NEW r \in Replicas, ReconcileStep(r) PROVE Behind'
<1> DEFINE d  == work[r].data
           k0 == Items[work[r].gen][work[r].next].secretKey
<1>0. TypeOK
  BY DEF Typed
<1>1. UNCHANGED <<remote, keyVer, seen>> /\ sync'.gen = sync.gen
  BY StepData
<1>2. work'[r].gen <= sync.gen
  BY <1>0, SyncTypes, StepData DEF Behind
<1>3. NoNewer(work'[r].data, remote) /\ NoNewerKey(work'[r].data, keyVer)
  <2>1. CASE work'[r].data = d
    BY <2>1 DEF Behind
  <2>2. CASE work[r].pc = "seal" /\ work'[r].data = Put(d, k0, Sealed(r))
    <3>1. \A k \in DOMAIN work'[r].data : \/ work'[r].data[k] = Sealed(r)
                                          \/ k \in DOMAIN d /\ work'[r].data[k] = d[k]
      BY <2>2 DEF Put
    <3>2. Sealed(r).version <= remote[Sealed(r).remote]
          /\ Sealed(r).keyVersion <= keyVer[Sealed(r).key]
      BY <1>0, <2>2, SealedType, SyncTypes DEF Behind
    <3>3. QED
      BY <3>1, <3>2 DEF Behind, NoNewer, NoNewerKey
  <2>3. CASE work'[r].data = EmptyMap
    BY <2>3, EmptyNoNewer
  <2>4. QED
    BY <2>1, <2>2, <2>3, StepData
<1>4. target'.gen <= sync.gen /\ NoNewer(target'.data, remote)
      /\ NoNewerKey(target'.data, keyVer)
  <2>1. CASE UNCHANGED target
    BY <2>1 DEF Behind
  <2>2. CASE Store(r)
    <3>1. target'.gen = work[r].gen /\ target'.data = work[r].data
      BY <2>2 DEF Store
    <3>2. QED
      BY <3>1 DEF Behind
  <2>3. QED
    BY <2>1, <2>2 DEF ReconcileStep, BeginNotFound, Begin, SealItem, GetTarget, Write,
       Report, tgtVars
<1>5. \A s \in Replicas : /\ work'[s].gen <= sync.gen
                          /\ NoNewer(work'[s].data, remote)
                          /\ NoNewerKey(work'[s].data, keyVer)
  BY <1>2, <1>3, StepData DEF Behind
<1>6. QED
  BY <1>1, <1>4, <1>5 DEF Behind, NoNewer, NoNewerKey

LEMMA StepBehind == ASSUME Typed, Behind, [Next]_vars PROVE Behind'
<1>0. TypeOK
  BY DEF Typed
<1>1. ASSUME NEW r \in Replicas, Start(r) \/ Crash(r) PROVE Behind'
  <2>1. UNCHANGED <<remote, keyVer, sync, target>>
    BY <1>1 DEF Start, Crash, worldVars
  <2>2. \A s \in Replicas : \/ work'[s] = work[s]
                            \/ work'[s].gen = 1 /\ work'[s].data = EmptyMap
    BY <1>0, <1>1, SyncTypes DEF Start, Crash, NoWork, Fresh
  <2>3. \A s \in Replicas :
           \/ seen'[s] = seen[s]
           \/ seen'[s].gen = sync.gen /\ seen'[s].key = keyVer
           \/ seen'[s].gen = 1 /\ \A k \in KeyNames : seen'[s].key[k] = 1
    BY <1>0, <1>1, SyncTypes DEF Start, Crash, NoCache
  <2>4. \A k \in KeyNames : keyVer[k] \in Nat /\ keyVer[k] >= 1
    BY <1>0, BoundsAssumption DEF TypeOK
  <2>5. QED
    BY <1>0, <2>1, <2>2, <2>3, <2>4, SyncTypes, EmptyNoNewer DEF Behind, NoNewer, NoNewerKey
<1>2. ASSUME OtherStep PROVE Behind'
  <2>1. UNCHANGED work
    BY <1>2, OtherWork
  <2>2. ASSUME NEW r \in Replicas, CacheSync(r) \/ CacheTarget(r) \/ CacheKey(r)
        PROVE  Behind'
    <3>1. UNCHANGED <<remote, keyVer, sync, target>>
      BY <2>2 DEF CacheSync, CacheTarget, CacheKey, worldVars, syncVars, tgtVars
    <3>2. \A s \in Replicas : /\ seen'[s].gen \in {seen[s].gen, sync.gen}
                              /\ seen'[s].key \in {seen[s].key, keyVer}
      <4>1. \A s \in Replicas : s # r => seen'[s] = seen[s]
        BY <1>0, <2>2, SyncTypes DEF CacheSync, CacheTarget, CacheKey
      <4>2. seen[r] \in Seens
        BY <1>0, SyncTypes
      <4>3. seen'[r] = [seen[r] EXCEPT !.exists = sync.exists, !.gen = sync.gen]
            \/ seen'[r] = [seen[r] EXCEPT !.target = target.exists]
            \/ seen'[r] = [seen[r] EXCEPT !.key = keyVer]
        BY <1>0, <2>2, SyncTypes DEF CacheSync, CacheTarget, CacheKey
      <4>4. QED
        BY <4>1, <4>2, <4>3 DEF Seens
    <3>3. QED
      BY <1>0, <2>1, <3>1, <3>2, SyncTypes DEF Behind, NoNewer, NoNewerKey
  <2>3. CASE EditSpec \/ DeleteSync
    <3>1. UNCHANGED <<remote, keyVer, seen, target>>
      BY <2>3 DEF EditSpec, DeleteSync, worldVars, tgtVars
    <3>2. sync' = [sync EXCEPT !.gen = @ + 1] \/ sync' = [sync EXCEPT !.exists = FALSE]
      BY <2>3 DEF EditSpec, DeleteSync
    <3>3. sync'.gen = sync.gen + 1 \/ sync'.gen = sync.gen
      BY <1>0, <3>2 DEF TypeOK
    <3>4. QED
      BY <1>0, <2>1, <3>1, <3>3, SyncTypes DEF Behind, NoNewer, NoNewerKey
  <2>4. CASE DeleteTarget
    <3>1. target'.gen = 1 /\ target'.data = EmptyMap
      BY <2>4 DEF DeleteTarget, NoTarget
    <3>2. UNCHANGED <<remote, keyVer, seen, sync>>
      BY <2>4 DEF DeleteTarget, worldVars, syncVars
    <3>3. QED
      BY <1>0, <2>1, <3>1, <3>2, SyncTypes, EmptyNoNewer DEF Behind, NoNewer, NoNewerKey
  <2>5. ASSUME NEW x \in RemoteKeys, RemoteChange(x) PROVE Behind'
    <3>1. UNCHANGED <<keyVer, seen, sync, target>>
      BY <2>5 DEF RemoteChange, syncVars, tgtVars
    <3>2. \A y \in RemoteKeys : remote[y] \in Nat /\ remote'[y] \in Nat /\ remote[y] <= remote'[y]
      BY <1>0, <2>5, SyncTypes DEF RemoteChange
    <3>3. \A m \in Maps : NoNewer(m, remote) => NoNewer(m, remote')
      BY <3>2, NoNewerGrows
    <3>4. target.data \in Maps
      BY <1>0, SyncTypes DEF Targets
    <3>5. QED
      BY <1>0, <2>1, <3>1, <3>3, <3>4, SyncTypes DEF Behind, NoNewerKey
  <2>6. ASSUME NEW x \in KeyNames, RotateKey(x) PROVE Behind'
    <3>1. UNCHANGED <<remote, seen, sync, target>>
      BY <2>6 DEF RotateKey, syncVars, tgtVars
    <3>2. \A y \in KeyNames : keyVer[y] \in Nat /\ keyVer'[y] \in Nat /\ keyVer[y] <= keyVer'[y]
      BY <1>0, <2>6, SyncTypes DEF RotateKey
    <3>3. \A m \in Maps : NoNewerKey(m, keyVer) => NoNewerKey(m, keyVer')
      BY <3>2, NoNewerKeyGrows
    <3>4. target.data \in Maps
      BY <1>0, SyncTypes DEF Targets
    <3>5. \A s \in Replicas, k \in KeyNames : seen[s].key[k] <= keyVer'[k]
      BY <1>0, <3>2, SyncTypes DEF Behind
    <3>6. QED
      BY <1>0, <2>1, <3>1, <3>3, <3>4, <3>5, SyncTypes DEF Behind, NoNewer
  <2>7. CASE UNCHANGED <<remote, keyVer, seen, sync, target>>
    BY <2>1, <2>7 DEF Behind, NoNewer, NoNewerKey
  <2>8. QED
    BY <1>2, <2>2, <2>3, <2>4, <2>5, <2>6, <2>7 DEF OtherStep, TimerFires, TouchTarget,
       vars, syncVars, tgtVars, worldVars
<1>3. QED
  BY <1>1, <1>2, ReconcileBehind, NextSplit

-----------------------------------------------------------------------------
(* With one leader at a time.                                              *)

OneUp == \A r, s \in Replicas : Up(r) /\ Up(s) => r = s

AtWork(r) == work[r].pc \in {"seal", "get", "write", "report"}

\* No entry of new is of an older version than its counterpart in old.
NotOlder(old, new) ==
    \A k \in DOMAIN old \cap DOMAIN new :
        /\ new[k].remote = old[k].remote => new[k].version >= old[k].version
        /\ new[k].key = old[k].key => new[k].keyVersion >= old[k].keyVersion

\* The leader has seen what the target and the status were made from.
LeaderAhead(r) ==
    /\ target.gen <= seen[r].gen
    /\ sync.syncedGen <= seen[r].gen
    /\ NoNewerKey(target.data, seen[r].key)

\* Its reconcile may replace the target, and report it once it has.
WorkAhead(r) ==
    /\ target.gen <= work[r].gen
    /\ sync.syncedGen <= work[r].gen
    /\ work[r].gen <= seen[r].gen
    /\ NoNewerKey(work[r].data, seen[r].key)
    /\ NotOlder(target.data, work[r].data)
    /\ work[r].pc = "report" /\ work[r].ok /\ target.exists => work[r].gen <= target.gen

SyncedIsOlder == target.exists => sync.syncedGen <= target.gen

Led ==
    /\ OneUp
    /\ SyncedIsOlder
    /\ \A r \in Replicas : Up(r) => LeaderAhead(r)
    /\ \A r \in Replicas : AtWork(r) => WorkAhead(r)

LEMMA InitLed == Init => Led
<1> SUFFICES ASSUME Init PROVE Led
  OBVIOUS
<1>1. ASSUME NEW r \in Replicas PROVE work[r].pc = "down"
  BY DEF Init, NoWork, Fresh
<1>2. ~target.exists
  BY DEF Init, NoTarget
<1>3. QED
  BY <1>1, <1>2 DEF Led, OneUp, SyncedIsOlder, Up, AtWork

\* Whatever the leader does, the others stay down; so it is only about it.
LEMMA LedOf ==
    ASSUME Led, NEW r \in Replicas, Up(r), \A s \in Replicas : s # r => work'[s] = work[s],
           LeaderAhead(r)', AtWork(r)' => WorkAhead(r)', SyncedIsOlder'
    PROVE  Led'
<1>1. \A s \in Replicas : s # r => work'[s].pc = "down"
  BY DEF Led, OneUp, Up
<1>2. \A s \in Replicas : (Up(s))' => s = r
  BY <1>1 DEF Up
<1>3. \A s \in Replicas : (AtWork(s))' => s = r
  BY <1>1 DEF AtWork
<1>4. OneUp'
  BY <1>2 DEF OneUp
<1>5. \A s \in Replicas : (Up(s))' => (LeaderAhead(s))'
  BY <1>2
<1>6. \A s \in Replicas : (AtWork(s))' => (WorkAhead(s))'
  BY <1>3
<1>7. QED
  BY <1>4, <1>5, <1>6 DEF Led

LEMMA EmptyNotOlder == ASSUME NEW d PROVE NotOlder(d, EmptyMap) /\ NotOlder(EmptyMap, d)
BY DEF EmptyMap, NotOlder

LEMMA BeginLed ==
    ASSUME Typed, Behind, Led, NEW r \in Replicas, Begin(r) PROVE Led'
<1>0. TypeOK /\ Up(r)
  BY DEF Typed, Begin, Up
<1>1. UNCHANGED <<sync, target, seen>>
  BY DEF Begin, tgtVars
<1>2. LeaderAhead(r)
  BY <1>0 DEF Led
<1>3. work'[r].gen = seen[r].gen /\ work'[r].data = EmptyMap /\ work'[r].ok = FALSE
      /\ \A s \in Replicas : s # r => work'[s] = work[s]
  BY <1>0, SyncTypes DEF Begin, Fresh
<1>4. LeaderAhead(r)'
  BY <1>1, <1>2 DEF LeaderAhead, NoNewerKey
<1>5. WorkAhead(r)'
  <2>1. seen[r].gen <= seen[r].gen
    BY <1>0, SyncTypes
  <2>2. NoNewerKey(EmptyMap, seen[r].key) /\ NotOlder(target.data, EmptyMap)
    BY EmptyNoNewer, EmptyNotOlder
  <2>3. QED
    BY <1>1, <1>2, <1>3, <2>1, <2>2 DEF LeaderAhead, WorkAhead, NoNewerKey, NotOlder
<1>6. SyncedIsOlder'
  BY <1>1 DEF Led, SyncedIsOlder
<1>7. QED
  BY <1>0, <1>3, <1>4, <1>5, <1>6, LedOf

LEMMA SealLed ==
    ASSUME Typed, Behind, Led, NEW r \in Replicas, SealItem(r) PROVE Led'
<1> DEFINE d  == work[r].data
           k0 == Items[work[r].gen][work[r].next].secretKey
<1>0. TypeOK /\ Up(r) /\ AtWork(r) /\ work[r].pc = "seal"
  BY DEF Typed, SealItem, Up, AtWork
<1>1. UNCHANGED <<sync, target, seen>>
  BY DEF SealItem, syncVars, tgtVars
<1>2. LeaderAhead(r) /\ WorkAhead(r)
  BY <1>0 DEF Led
<1>3. \A s \in Replicas : s # r => work'[s] = work[s]
  BY <1>0, SyncTypes DEF SealItem, Fail
<1>4. work'[r].gen = work[r].gen /\ ~(work'[r].pc = "report" /\ work'[r].ok)
  BY SealEffect
<1>5. ASSUME NEW k \in DOMAIN work'[r].data
      PROVE  \/ k \in DOMAIN d /\ work'[r].data[k] = d[k]
             \/ work'[r].data[k] = Sealed(r)
  <2>1. work'[r].data = d \/ work'[r].data = Put(d, k0, Sealed(r))
    BY SealData
  <2>2. CASE work'[r].data = d
    BY <1>5, <2>2
  <2>3. CASE work'[r].data = Put(d, k0, Sealed(r))
    BY <1>5, <2>3 DEF Put
  <2>4. QED
    BY <2>1, <2>2, <2>3
<1>6. NoNewerKey(work'[r].data, seen[r].key)
  <2>1. Sealed(r).keyVersion <= seen[r].key[Sealed(r).key]
    BY <1>0, SealedType, SyncTypes
  <2>2. QED
    BY <1>2, <1>5, <2>1 DEF WorkAhead, NoNewerKey
<1>7. NotOlder(target.data, work'[r].data)
  <2> SUFFICES ASSUME NEW k \in DOMAIN target.data \cap DOMAIN work'[r].data
               PROVE  LET old == target.data[k]
                          new == work'[r].data[k]
                      IN /\ new.remote = old.remote => new.version >= old.version
                         /\ new.key = old.key => new.keyVersion >= old.keyVersion
    BY DEF NotOlder
  <2>1. CASE k \in DOMAIN d /\ work'[r].data[k] = d[k]
    BY <1>2, <2>1 DEF WorkAhead, NotOlder
  <2>2. CASE work'[r].data[k] = Sealed(r)
    <3>1. target.data[k].version <= remote[target.data[k].remote]
          /\ target.data[k].keyVersion <= seen[r].key[target.data[k].key]
      BY <1>2 DEF Behind, NoNewer, LeaderAhead, NoNewerKey
    <3>2. /\ Sealed(r).remote \in RemoteKeys /\ Sealed(r).version = remote[Sealed(r).remote]
          /\ Sealed(r).key \in KeyNames /\ Sealed(r).keyVersion = seen[r].key[Sealed(r).key]
      BY <1>0, SealedType
    <3>3. target.data \in Maps
      BY <1>0, SyncTypes DEF Targets
    <3>4. target.data[k].version \in Nat /\ target.data[k].keyVersion \in Nat
      BY <3>3, MapEntry
    <3>5. Sealed(r).version \in Nat /\ Sealed(r).keyVersion \in Nat
      BY <1>0, <3>2, SyncTypes
    <3>6. QED
      BY <2>2, <3>1, <3>2, <3>4, <3>5
  <2>3. QED
    BY <1>5, <2>1, <2>2
<1>8. LeaderAhead(r)'
  BY <1>1, <1>2 DEF LeaderAhead, NoNewerKey
<1>9. WorkAhead(r)'
  BY <1>1, <1>2, <1>4, <1>6, <1>7 DEF WorkAhead, NoNewerKey, NotOlder
<1>10. SyncedIsOlder'
  BY <1>1 DEF Led, SyncedIsOlder
<1>11. QED
  BY <1>0, <1>3, <1>8, <1>9, <1>10, LedOf

LEMMA GetTargetLed ==
    ASSUME Typed, Behind, Led, NEW r \in Replicas, GetTarget(r) PROVE Led'
<1>0. TypeOK /\ Up(r) /\ AtWork(r)
  BY DEF Typed, GetTarget, Up, AtWork
<1>1. UNCHANGED <<sync, target, seen>>
  BY DEF GetTarget, syncVars
<1>2. LeaderAhead(r) /\ WorkAhead(r)
  BY <1>0 DEF Led
<1>3. /\ \A s \in Replicas : s # r => work'[s] = work[s]
      /\ work'[r].gen = work[r].gen /\ work'[r].data = work[r].data
      /\ work'[r].pc = "write"
  <2>1. work \in [Replicas -> Works] /\ work[r] \in Works
    BY <1>0, SyncTypes
  <2>2. QED
    BY <2>1 DEF GetTarget, Works
<1>4. LeaderAhead(r)' /\ WorkAhead(r)' /\ SyncedIsOlder'
  BY <1>1, <1>2, <1>3 DEF LeaderAhead, WorkAhead, NoNewerKey, NotOlder, Led, SyncedIsOlder
<1>5. QED
  BY <1>0, <1>3, <1>4, LedOf

\* The write: the target moves up to the reconcile, or the reconcile fails.
LEMMA WriteLed ==
    ASSUME Typed, Behind, Led, NEW r \in Replicas, Write(r) PROVE Led'
<1>0. TypeOK /\ Up(r) /\ AtWork(r)
  BY DEF Typed, Write, Up, AtWork
<1>1. UNCHANGED <<sync, seen>>
  BY DEF Write, syncVars
<1>2. LeaderAhead(r) /\ WorkAhead(r)
  BY <1>0 DEF Led
<1>3. /\ \A s \in Replicas : s # r => work'[s] = work[s]
      /\ work'[r].gen = work[r].gen /\ work'[r].data = work[r].data
      /\ work'[r].ok => Store(r)
  <2>1. work \in [Replicas -> Works] /\ work[r] \in Works
    BY <1>0, SyncTypes
  <2>2. QED
    BY <2>1 DEF Write, Fail, Works
<1>4. CASE UNCHANGED target /\ ~Store(r)
  <2>1. LeaderAhead(r)' /\ WorkAhead(r)' /\ SyncedIsOlder'
    BY <1>1, <1>2, <1>3, <1>4
    DEF LeaderAhead, WorkAhead, NoNewerKey, NotOlder, Led, SyncedIsOlder
  <2>2. QED
    BY <1>0, <1>3, <2>1, LedOf
<1>5. CASE Store(r)
  <2>1. target'.gen = work[r].gen /\ target'.data = work[r].data
    BY <1>5 DEF Store
  <2>2. LeaderAhead(r)' /\ SyncedIsOlder'
    BY <1>1, <1>2, <2>1 DEF LeaderAhead, WorkAhead, NoNewerKey, SyncedIsOlder
  <2>3. NotOlder(work[r].data, work[r].data)
    <3>1. work[r].data \in Maps
      BY <1>0, SyncTypes
    <3>2. QED
      BY <3>1, MapEntry DEF NotOlder
  <2>4. work[r].gen <= work[r].gen
    BY <1>0, SyncTypes
  <2>5. WorkAhead(r)'
    BY <1>1, <1>2, <1>3, <2>1, <2>3, <2>4 DEF WorkAhead, NoNewerKey, NotOlder
  <2>6. QED
    BY <1>0, <1>3, <2>2, <2>5, LedOf
<1>6. QED
  BY <1>4, <1>5 DEF Write, tgtVars

\* What the status can become, and when.
LEMMA ReportSynced ==
    ASSUME TypeOK, NEW r \in Replicas, Report(r)
    PROVE  /\ sync'.gen = sync.gen /\ sync'.exists = sync.exists
           /\ \/ sync'.syncedGen = sync.syncedGen
              \/ work[r].ok /\ sync'.syncedGen = work[r].gen
<1>1. sync' = sync \/ sync' = Reported(r)
  BY DEF Report, syncVars
<1>2. QED
  BY <1>1 DEF Reported, TypeOK

LEMMA ReportLed ==
    ASSUME Typed, Behind, Led, NEW r \in Replicas, Report(r) PROVE Led'
<1>0. TypeOK /\ Up(r) /\ AtWork(r) /\ work[r].pc = "report"
  BY DEF Typed, Report, Up, AtWork
<1>1. UNCHANGED <<target, seen>>
  BY DEF Report, tgtVars
<1>2. LeaderAhead(r) /\ WorkAhead(r)
  BY <1>0 DEF Led
<1>3. work'[r].pc = "idle" /\ \A s \in Replicas : s # r => work'[s] = work[s]
  BY <1>0, SyncTypes DEF Report, NoWork, Fresh
<1>4. LeaderAhead(r)'
  BY <1>0, <1>1, <1>2, ReportSynced DEF LeaderAhead, WorkAhead, NoNewerKey
<1>5. SyncedIsOlder'
  BY <1>0, <1>1, <1>2, ReportSynced DEF WorkAhead, Led, SyncedIsOlder
<1>6. ~AtWork(r)'
  BY <1>3 DEF AtWork
<1>7. QED
  BY <1>0, <1>3, <1>4, <1>5, <1>6, LedOf

LEMMA ReconcileLed ==
    ASSUME Typed, Behind, Led, NEW r \in Replicas, ReconcileStep(r) PROVE Led'
<1>1. CASE BeginNotFound(r)
  <2>1. UNCHANGED <<work, sync, target, seen>>
    BY <1>1 DEF BeginNotFound, syncVars, tgtVars
  <2>2. QED
    BY <2>1 DEF Led, OneUp, SyncedIsOlder, Up, AtWork, LeaderAhead, WorkAhead,
       NoNewerKey, NotOlder
<1>2. QED
  BY <1>1, BeginLed, SealLed, GetTargetLed, WriteLed, ReportLed DEF ReconcileStep

LEMMA StartLed ==
    ASSUME LeaderElect, Typed, Behind, CopiesCurrent, Led, NEW r \in Replicas, Start(r)
    PROVE  Led'
<1>0. TypeOK
  BY DEF Typed
<1>1. UNCHANGED <<sync, target>>
  BY DEF Start
<1>2. \A s \in Replicas : ~Up(s)
  BY DEF Start, MayLead
<1>3. work'[r].pc = "idle" /\ \A s \in Replicas : s # r => work'[s] = work[s]
  BY <1>0, SyncTypes DEF Start, NoWork, Fresh
<1>4. seen'[r].gen = sync.gen /\ seen'[r].key = keyVer
  BY <1>0, SyncTypes DEF Start
<1>5. \A s \in Replicas : s # r => work'[s].pc = "down"
  BY <1>2, <1>3 DEF Up
<1>6. LeaderAhead(r)'
  BY <1>1, <1>4 DEF Behind, CopiesCurrent, LeaderAhead, NoNewerKey
<1>7. \A s \in Replicas : (Up(s))' => s = r
  BY <1>5 DEF Up
<1>8. \A s \in Replicas : ~(AtWork(s))'
  BY <1>3, <1>5 DEF AtWork
<1>9. SyncedIsOlder'
  BY <1>1 DEF Led, SyncedIsOlder
<1>10. OneUp'
  BY <1>7 DEF OneUp
<1>11. \A s \in Replicas : (Up(s))' => (LeaderAhead(s))'
  BY <1>6, <1>7
<1>12. QED
  BY <1>8, <1>9, <1>10, <1>11 DEF Led

LEMMA CrashLed ==
    ASSUME Typed, Led, NEW r \in Replicas, Crash(r) PROVE Led'
<1>0. TypeOK
  BY DEF Typed
<1>1. UNCHANGED <<sync, target>>
  BY DEF Crash
<1>2. \A s \in Replicas : work'[s].pc = "down"
  <2>1. work'[r].pc = "down" /\ \A s \in Replicas : s # r => work'[s] = work[s]
    BY <1>0, SyncTypes DEF Crash, NoWork, Fresh
  <2>2. QED
    BY <2>1 DEF Led, OneUp, Up, Crash
<1>3. \A s \in Replicas : ~(Up(s))' /\ ~(AtWork(s))'
  BY <1>2 DEF Up, AtWork
<1>4. SyncedIsOlder'
  BY <1>1 DEF Led, SyncedIsOlder
<1>5. QED
  BY <1>3, <1>4 DEF Led, OneUp

\* The caches only move forward.
LEMMA CacheLed ==
    ASSUME Typed, Behind, CopiesCurrent, Led, NEW r \in Replicas,
           CacheSync(r) \/ CacheTarget(r) \/ CacheKey(r)
    PROVE  Led'
<1>0. TypeOK
  BY DEF Typed
<1>1. UNCHANGED <<sync, target, work>>
  BY DEF CacheSync, CacheTarget, CacheKey, syncVars, tgtVars
<1>2. Up(r) /\ LeaderAhead(r)
  <2>1. CASE CacheSync(r)
    BY <2>1 DEF CacheSync, Led
  <2>2. CASE CacheTarget(r)
    BY <2>2 DEF CacheTarget, Led
  <2>3. CASE CacheKey(r)
    BY <2>3 DEF CacheKey, Led
  <2>4. QED
    BY <2>1, <2>2, <2>3
<1>3. seen'[r].gen \in {seen[r].gen, sync.gen} /\ seen'[r].key \in {seen[r].key, keyVer}
  <2>1. seen \in [Replicas -> Seens] /\ seen[r] \in Seens
    BY <1>0, SyncTypes
  <2>2. seen'[r] = [seen[r] EXCEPT !.exists = sync.exists, !.gen = sync.gen]
        \/ seen'[r] = [seen[r] EXCEPT !.target = target.exists]
        \/ seen'[r] = [seen[r] EXCEPT !.key = keyVer]
    BY <2>1 DEF CacheSync, CacheTarget, CacheKey
  <2>3. QED
    BY <2>1, <2>2 DEF Seens
<1>4. seen[r].gen <= seen'[r].gen
  BY <1>0, <1>3, SyncTypes DEF Behind
<1>5. /\ \A k \in KeyNames : seen[r].key[k] \in Nat /\ keyVer[k] \in Nat
                             /\ seen[r].key[k] <= keyVer[k]
      /\ target.data \in Maps /\ work[r].data \in Maps
  BY <1>0, SyncTypes DEF Behind, Targets
<1>6. \A d \in Maps : NoNewerKey(d, seen[r].key) => NoNewerKey(d, seen'[r].key)
  BY <1>3, <1>5, NoNewerKeyGrows
<1>7. seen'[r].gen \in Nat
  BY <1>0, <1>3, SyncTypes
<1>8. LeaderAhead(r)'
  <2>1. NoNewerKey(target.data, seen'[r].key)
    BY <1>2, <1>5, <1>6 DEF LeaderAhead
  <2>2. QED
    BY <1>0, <1>1, <1>2, <1>4, <1>7, <2>1, SyncTypes DEF LeaderAhead, NoNewerKey
<1>9. AtWork(r)' => WorkAhead(r)'
  <2>1. SUFFICES ASSUME AtWork(r)' PROVE WorkAhead(r)'
    OBVIOUS
  <2>2. WorkAhead(r)
    BY <1>1, <2>1 DEF Led, AtWork
  <2>3. NoNewerKey(work[r].data, seen'[r].key)
    BY <1>5, <1>6, <2>2 DEF WorkAhead
  <2>4. work[r].gen <= seen'[r].gen
    BY <1>0, <1>4, <1>7, <2>2, SyncTypes DEF WorkAhead
  <2>5. QED
    BY <1>1, <2>2, <2>3, <2>4 DEF WorkAhead, NoNewerKey, NotOlder
<1>10. SyncedIsOlder'
  BY <1>1 DEF Led, SyncedIsOlder
<1>11. QED
  BY <1>1, <1>2, <1>8, <1>9, <1>10, LedOf

LEMMA DeleteTargetLed == ASSUME Typed, Led, DeleteTarget PROVE Led'
<1>0. TypeOK
  BY DEF Typed
<1>1. UNCHANGED <<sync, work, seen>>
  BY DEF DeleteTarget, syncVars
<1>2. ~target'.exists /\ target'.gen = 1 /\ target'.data = EmptyMap
  BY DEF DeleteTarget, NoTarget
<1>3. ASSUME NEW r \in Replicas, Up(r) PROVE LeaderAhead(r)'
  <2>1. LeaderAhead(r)
    BY <1>3 DEF Led
  <2>2. QED
    BY <1>0, <1>1, <1>2, <2>1, EmptyNoNewer, SyncTypes DEF LeaderAhead, NoNewerKey
<1>4. ASSUME NEW r \in Replicas, AtWork(r) PROVE WorkAhead(r)'
  <2>1. WorkAhead(r)
    BY <1>4 DEF Led
  <2>2. QED
    BY <1>0, <1>1, <1>2, <2>1, EmptyNotOlder, SyncTypes DEF WorkAhead, NoNewerKey, NotOlder
<1>5. QED
  BY <1>1, <1>2, <1>3, <1>4 DEF Led, OneUp, SyncedIsOlder, Up, AtWork

LEMMA StepLed ==
    ASSUME LeaderElect, Typed, Behind, CopiesCurrent, Led, [Next]_vars PROVE Led'
<1>1. ASSUME OtherStep PROVE Led'
  <2>1. ASSUME NEW r \in Replicas, CacheSync(r) \/ CacheTarget(r) \/ CacheKey(r)
        PROVE  Led'
    BY <2>1, CacheLed
  <2>2. CASE EditSpec \/ DeleteSync
    <3>1. UNCHANGED <<work, target, seen>>
      BY <2>2 DEF EditSpec, DeleteSync, tgtVars
    <3>2. sync' = [sync EXCEPT !.gen = @ + 1] \/ sync' = [sync EXCEPT !.exists = FALSE]
      BY <2>2 DEF EditSpec, DeleteSync
    <3>3. sync'.syncedGen = sync.syncedGen
      BY <3>2 DEF Typed, TypeOK
    <3>4. QED
      BY <3>1, <3>3 DEF Led, OneUp, SyncedIsOlder, Up, AtWork, LeaderAhead, WorkAhead,
         NoNewerKey, NotOlder
  <2>3. CASE UNCHANGED <<work, target, seen, sync>>
    BY <2>3 DEF Led, OneUp, SyncedIsOlder, Up, AtWork, LeaderAhead, WorkAhead,
       NoNewerKey, NotOlder
  <2>4. QED
    BY <1>1, <2>1, <2>2, <2>3, DeleteTargetLed DEF OtherStep, TimerFires, TouchTarget,
       RemoteChange, RotateKey, vars, syncVars, tgtVars
<1>2. QED
  BY <1>1, ReconcileLed, StartLed, CrashLed, NextSplit

-----------------------------------------------------------------------------
(* The theorems about one leader.                                          *)

\* All that was shown to be invariant.
IInv == Typed /\ Backed /\ CopiesCurrent /\ Behind /\ (LeaderElect => Led)

LEMMA Inductive == Spec => []IInv
<1>1. Init => IInv
  BY InitTyped, InitBacked, InitCurrent, InitBehind, InitLed DEF IInv
<1>2. IInv /\ [Next]_vars => IInv'
  BY StepTyped, StepBacked, StepCurrent, StepBehind, StepLed DEF IInv
<1>3. QED
  BY <1>1, <1>2, PTL DEF Spec

\* With leader election a target is never of an older generation than the
\* status claims, through every failover, lost reply and deletion
\* (sync_controller.go:104-137).
THEOREM StatusNeverAhead == Spec => []StatusMatchesTarget
<1>1. IInv => StatusMatchesTarget
  <2> SUFFICES ASSUME IInv, LeaderElect, target.exists PROVE target.gen >= sync.syncedGen
    BY DEF StatusMatchesTarget
  <2>1. TypeOK /\ sync.syncedGen <= target.gen
    BY DEF IInv, Typed, Led, SyncedIsOlder
  <2>2. QED
    BY <2>1, SyncTypes
<1>2. QED
  BY <1>1, Inductive, PTL

\* A write never takes the target back.
LEMMA StoreForward ==
    ASSUME TypeOK, Led, NEW r \in Replicas, work[r].pc = "write", Store(r)
    PROVE  target'.gen >= target.gen /\ NotOlder(target.data, target'.data)
<1>1. WorkAhead(r)
  BY DEF Led, AtWork
<1>2. target'.gen = work[r].gen /\ target'.data = work[r].data
  BY DEF Store
<1>3. QED
  BY <1>1, <1>2, SyncTypes DEF WorkAhead, NotOlder

\* With leader election a stored target is replaced only by one of the same
\* or a later generation, made from the same or later versions of what both
\* have, however late a reconcile writes (sync_controller.go:66-130).
THEOREM TargetMovesForward == Spec => TargetNeverRegresses
<1> DEFINE Forward ==
        LeaderElect /\ target.exists /\ target'.exists =>
          /\ target'.gen >= target.gen
          /\ \A k \in DOMAIN target.data \cap DOMAIN target'.data :
                LET old == target.data[k]
                    new == target'.data[k]
                IN /\ new.remote = old.remote => new.version >= old.version
                   /\ new.key = old.key => new.keyVersion >= old.keyVersion
<1>1. IInv /\ [Next]_vars => [Forward]_target
  <2> SUFFICES ASSUME IInv, [Next]_vars, target' # target, LeaderElect,
                      target.exists, target'.exists
               PROVE  target'.gen >= target.gen /\ NotOlder(target.data, target'.data)
    BY DEF NotOlder
  <2>1. PICK r \in Replicas : work[r].pc = "write" /\ Store(r)
    BY TargetSteps DEF IInv, NoTarget
  <2>2. QED
    BY <2>1, StoreForward DEF IInv, Typed
<1>2. QED
  BY <1>1, Inductive, PTL DEF Spec, TargetNeverRegresses

-----------------------------------------------------------------------------
(* The controller implements the mirror.                                   *)

\* In the map of a whole generation each entry is of the item the mirror means.
LEMMA MadeFromSource ==
    ASSUME NEW g \in Gens, NEW d, MadeFrom(d, g, Len(Items[g])), NEW k \in DOMAIN d
    PROVE  d[k].remote = Mirror!SourceOf(g, k) /\ d[k].key = EncRef[g]
<1> DEFINE n == Len(Items[g])
           Last(j) == /\ Items[g][j].secretKey = k
                      /\ \A m \in (j + 1)..n : Items[g][m].secretKey # k
           last == CHOOSE j \in 1..n : Last(j)
<1>1. n \in Nat
  BY ConstantTypes
<1>2. PICK j \in 1..n : /\ Items[g][j] = [secretKey |-> k, remote |-> d[k].remote]
                        /\ \A m \in (j + 1)..n : Items[g][m].secretKey # k
  BY DEF MadeFrom
<1>3. Last(j)
  BY <1>2
<1>4. last \in 1..n /\ Last(last)
  BY <1>3
<1>5. last = j
  <2>1. ~(last < j)
    <3>1. last < j => j \in (last + 1)..n
      BY <1>1, <1>4
    <3>2. QED
      BY <1>3, <1>4, <3>1
  <2>2. ~(j < last)
    <3>1. j < last => last \in (j + 1)..n
      BY <1>1, <1>4
    <3>2. QED
      BY <1>3, <1>4, <3>1
  <2>3. QED
    BY <1>1, <1>4, <2>1, <2>2
<1>6. Mirror!SourceOf(g, k) = Items[g][last].remote
  BY DEF Mirror!SourceOf
<1>7. d[k].key = EncRef[g]
  BY DEF MadeFrom
<1>8. Items[g][j].remote = d[k].remote
  BY <1>2
<1> HIDE DEF last
<1>9. QED
  BY <1>5, <1>6, <1>7, <1>8

\* An accepted write is the mirror's Copy.
LEMMA StoreCopies ==
    ASSUME IInv, NEW r \in Replicas, work[r].pc = "write", Store(r),
           UNCHANGED <<sync, remote, keyVer>>
    PROVE  Mirror!Copy
<1> DEFINE g == work[r].gen
           d == work[r].data
<1>0. TypeOK /\ Typed
  BY DEF IInv, Typed
<1>1. work[r] \in Works /\ g \in Gens /\ g \in Nat /\ g >= 1 /\ d \in Maps
  BY <1>0, SyncTypes DEF Works
<1>2. g \in 1..sync.gen
  BY <1>0, <1>1, SyncTypes DEF IInv, Behind
<1>3. target' = [exists |-> TRUE, gen |-> g, enc |-> EncRef[g], data |-> d]
      /\ persisted' = persisted \cup {g}
  BY DEF Store
<1>4. MadeFrom(d, g, Len(Items[g]))
  BY <1>0 DEF Typed, LoopOK
<1>5. NoNewer(d, remote) /\ NoNewerKey(d, keyVer)
  BY DEF IInv, Behind
<1>6. Mirror!Whole(target', g)
  <2>1. DOMAIN d = Mirror!WantedKeys(g)
    BY <1>4 DEF MadeFrom, Mirror!WantedKeys
  <2>2. ASSUME NEW k \in DOMAIN d
        PROVE  /\ d[k].remote = Mirror!SourceOf(g, k) /\ d[k].version <= remote[d[k].remote]
               /\ d[k].key = EncRef[g] /\ d[k].keyVersion <= keyVer[d[k].key]
    BY <1>1, <1>4, <1>5, MadeFromSource DEF NoNewer, NoNewerKey
  <2>3. QED
    BY <1>3, <2>1, <2>2 DEF Mirror!Whole, Mirror!WantedKeys, Mirror!SourceOf
<1>7. LeaderElect => g >= sync.syncedGen
  BY <1>0, SyncTypes DEF IInv, Led, WorkAhead, AtWork
<1>8. LeaderElect /\ target.exists => Mirror!NotBehind(target, target')
  BY <1>0, StoreForward DEF IInv, NotOlder, Mirror!NotBehind
<1>9. QED
  BY <1>2, <1>3, <1>6, <1>7, <1>8 DEF Mirror!Copy

LEMMA MirrorStarts == Init => Mirror!MirrorInit
<1> SUFFICES ASSUME Init PROVE Mirror!MirrorInit
  OBVIOUS
<1>1. sync.exists /\ sync.gen = 1 /\ sync.syncedGen = 0
  BY DEF Init
<1>2. ~target.exists /\ persisted = {}
  BY DEF Init, NoTarget
<1>3. remote = [x \in DOMAIN remote |-> 1] /\ keyVer = [k \in DOMAIN keyVer |-> 1]
  BY DEF Init
<1>4. QED
  BY <1>1, <1>2, <1>3 DEF Mirror!MirrorInit

\* A step of a reconcile copies, acknowledges or changes nothing of the mirror.
LEMMA ReconcileMirrors ==
    ASSUME IInv, NEW r \in Replicas, ReconcileStep(r)
    PROVE  Mirror!Copy \/ Mirror!Acknowledge \/ UNCHANGED Mirror!mirrorVars
<1>0. TypeOK /\ Typed
  BY DEF IInv, Typed
<1>1. CASE BeginNotFound(r) \/ Begin(r) \/ SealItem(r) \/ GetTarget(r)
  <2>1. UNCHANGED <<sync, target, remote, keyVer, persisted>>
    BY <1>1 DEF BeginNotFound, Begin, SealItem, GetTarget, syncVars, tgtVars, worldVars
  <2>2. QED
    BY <2>1 DEF Mirror!mirrorVars
<1>2. CASE Write(r)
  <2>1. UNCHANGED <<sync, remote, keyVer>> /\ work[r].pc = "write"
    BY <1>2 DEF Write, syncVars, worldVars
  <2>2. CASE Store(r)
    BY <2>1, <2>2, StoreCopies
  <2>3. CASE UNCHANGED tgtVars
    BY <2>1, <2>3 DEF tgtVars, Mirror!mirrorVars
  <2>4. QED
    BY <1>2, <2>2, <2>3 DEF Write
<1>3. CASE Report(r)
  <2>1. UNCHANGED <<target, remote, keyVer, persisted>> /\ work[r].pc = "report"
    BY <1>3 DEF Report, tgtVars, worldVars
  <2>2. sync'.gen = sync.gen /\ sync'.exists = sync.exists
    BY <1>0, <1>3, ReportSynced
  <2>3. CASE sync'.syncedGen = sync.syncedGen
    BY <2>1, <2>2, <2>3 DEF Mirror!mirrorVars
  <2>4. CASE work[r].ok /\ sync'.syncedGen = work[r].gen
    <3>1. work[r].gen \in persisted
      BY <2>1, <2>4 DEF IInv, Backed, ReportBacked
    <3>2. sync'.syncedGen >= sync.syncedGen
      BY <1>0, <1>3, ReconcileCurrent DEF IInv, ReconcileStep
    <3>3. LeaderElect /\ target.exists => target.gen >= sync'.syncedGen
      BY <1>0, <2>1, <2>4, SyncTypes DEF IInv, Led, AtWork, WorkAhead
    <3>4. QED
      BY <2>1, <2>2, <2>4, <3>1, <3>2, <3>3 DEF Mirror!Acknowledge
  <2>5. QED
    BY <1>0, <1>3, <2>3, <2>4, ReportSynced
<1>4. QED
  BY <1>1, <1>2, <1>3 DEF ReconcileStep

LEMMA OthersMirror ==
    ASSUME IInv, OtherStep
    PROVE  Mirror!MirrorNext \/ UNCHANGED Mirror!mirrorVars
<1>0. TypeOK
  BY DEF IInv, Typed
<1>1. CASE EditSpec
  <2>1. /\ sync.exists /\ sync.gen < MaxGen
        /\ sync'.exists = sync.exists /\ sync'.gen = sync.gen + 1
        /\ sync'.syncedGen = sync.syncedGen
    BY <1>0, <1>1 DEF EditSpec, TypeOK
  <2>2. UNCHANGED <<target, remote, keyVer, persisted>>
    BY <1>1 DEF EditSpec, tgtVars, worldVars
  <2>3. sync.exists = TRUE
    BY <1>0, <2>1 DEF TypeOK
  <2>4. Mirror!Wish
    BY <2>1, <2>2, <2>3 DEF Mirror!Wish
  <2>5. QED
    BY <2>4 DEF Mirror!MirrorNext
<1>2. CASE DeleteSync
  <2>1. /\ sync.exists /\ ~sync'.exists /\ sync'.gen = sync.gen
        /\ sync'.syncedGen = sync.syncedGen
    BY <1>0, <1>2 DEF DeleteSync, TypeOK
  <2>2. UNCHANGED <<target, remote, keyVer, persisted>>
    BY <1>2 DEF DeleteSync, tgtVars, worldVars
  <2>3. sync'.exists = FALSE
    BY <1>0, <1>2 DEF DeleteSync, TypeOK
  <2>4. Mirror!Wish
    BY <2>1, <2>2, <2>3 DEF Mirror!Wish
  <2>5. QED
    BY <2>4 DEF Mirror!MirrorNext
<1>3. CASE DeleteTarget
  <2>1. target.exists /\ ~target'.exists
    BY <1>3 DEF DeleteTarget, NoTarget
  <2>2. UNCHANGED <<sync, remote, keyVer, persisted>>
    BY <1>3 DEF DeleteTarget, syncVars, worldVars
  <2>3. Mirror!Vanish
    BY <2>1, <2>2 DEF Mirror!Vanish
  <2>4. QED
    BY <2>3 DEF Mirror!MirrorNext
<1>4. ASSUME NEW x \in RemoteKeys, RemoteChange(x) PROVE Mirror!MirrorNext
  <2>1. x \in DOMAIN remote /\ remote' = [remote EXCEPT ![x] = @ + 1]
    BY <1>0, <1>4, SyncTypes DEF RemoteChange
  <2>2. UNCHANGED <<sync, target, keyVer, persisted>>
    BY <1>4 DEF RemoteChange, syncVars, tgtVars
  <2>3. Mirror!SourceMoves
    BY <2>1, <2>2 DEF Mirror!SourceMoves
  <2>4. QED
    BY <2>3 DEF Mirror!MirrorNext
<1>5. ASSUME NEW k \in KeyNames, RotateKey(k) PROVE Mirror!MirrorNext
  <2>1. k \in DOMAIN keyVer /\ keyVer' = [keyVer EXCEPT ![k] = @ + 1]
    BY <1>0, <1>5, SyncTypes DEF RotateKey
  <2>2. UNCHANGED <<sync, target, remote, persisted>>
    BY <1>5 DEF RotateKey, syncVars, tgtVars
  <2>3. Mirror!KeyRotates
    BY <2>1, <2>2 DEF Mirror!KeyRotates
  <2>4. QED
    BY <2>3 DEF Mirror!MirrorNext
<1>6. CASE UNCHANGED <<sync, target, remote, keyVer, persisted>>
  BY <1>6 DEF Mirror!mirrorVars
<1>7. QED
  BY <1>1, <1>2, <1>3, <1>4, <1>5, <1>6 DEF OtherStep, CacheSync, CacheTarget, CacheKey,
     TimerFires, TouchTarget, vars, syncVars, tgtVars, worldVars

\* The controller implements the mirror: whatever the number of replicas, the
\* spec and the faults, what it does to the TSecret and to syncedGeneration is
\* what SecretMirror allows, with or without a leader (sync_controller.go:31-149).
THEOREM Implementation == Spec => ImplementsMirror
<1>1. IInv /\ [Next]_vars => [Mirror!MirrorNext]_(Mirror!mirrorVars)
  <2> SUFFICES ASSUME IInv, [Next]_vars
               PROVE  Mirror!MirrorNext \/ UNCHANGED Mirror!mirrorVars
    OBVIOUS
  <2>1. ASSUME NEW r \in Replicas, ReconcileStep(r)
        PROVE  Mirror!MirrorNext \/ UNCHANGED Mirror!mirrorVars
    BY <2>1, ReconcileMirrors DEF Mirror!MirrorNext
  <2>2. ASSUME NEW r \in Replicas, Start(r) \/ Crash(r)
        PROVE  UNCHANGED Mirror!mirrorVars
    <3>1. UNCHANGED <<sync, target, remote, keyVer, persisted>>
      BY <2>2 DEF Start, Crash, worldVars
    <3>2. QED
      BY <3>1 DEF Mirror!mirrorVars
  <2>3. QED
    BY <2>1, <2>2, OthersMirror, NextSplit
<1>2. QED
  BY <1>1, MirrorStarts, Inductive, PTL DEF Spec, ImplementsMirror, Mirror!MirrorSpec
=============================================================================
