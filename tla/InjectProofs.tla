---------------------------- MODULE InjectProofs ----------------------------
(***************************************************************************)
(* Theorems about Inject: what an exit 0 of the init container and a whole *)
(* load-env.sh promise, for any TSecret and any history of the volume.     *)
(***************************************************************************)
EXTENDS Inject, TLAPS

-----------------------------------------------------------------------------
(* Type correctness.                                                       *)

Runs == [pc : {"waiting", "get", "key", "write", "fill", "loader", "done", "failed"},
         data : Maps, key : 1..MaxKeyVersion, todo : SUBSET DataKeys, open : DataKeys,
         err : {"none", "cluster", "sealed", "file", "killed"}]

LEMMA IdleType == Idle \in Runs /\ Idle.pc = "waiting" /\ Idle.data = EmptyMap
<1>1. EmptyMap \in Maps
  <2>1. EmptyMap \in [{} -> Entry]
    BY DEF EmptyMap
  <2>2. QED
    BY <2>1 DEF Maps
<1>2. (CHOOSE k \in DataKeys : TRUE) \in DataKeys
  BY BoundsAssumption
<1>3. 1 \in 1..MaxKeyVersion
  BY BoundsAssumption
<1>4. QED
  BY <1>1, <1>2, <1>3 DEF Idle, Runs

LEMMA FilesType ==
    /\ NoFile \in Content /\ Empty \in Content
    /\ \A g \in 1..MaxGen : Value(g) \in Content
    /\ \A S \in SUBSET DataKeys : Script(FilesOf(S)) \in Content
<1>1. 0 \in 0..MaxGen /\ \A g \in 1..MaxGen : g \in 0..MaxGen
  BY BoundsAssumption
<1>2. \A S \in SUBSET DataKeys : FilesOf(S) \subseteq FileNames
  BY NamesAssumption DEF FilesOf
<1>3. QED
  BY <1>1, <1>2 DEF Content, NoFile, Empty, Value, Script

LEMMA DomainType == \A m \in Maps : DOMAIN m \subseteq DataKeys
                                    /\ \A k \in DOMAIN m : m[k] \in Entry
BY DEF Maps

LEMMA FaultType == ASSUME TypeOK, Fault \/ UNCHANGED faults PROVE faults' \in 0..MaxFaults
BY BoundsAssumption DEF TypeOK, Fault

LEMMA InitType == Init => TypeOK
<1> SUFFICES ASSUME Init PROVE TypeOK
  OBVIOUS
<1>1. PICK d \in UNION {[S -> {[value |-> 1, sealed |-> 1]}] : S \in SUBSET DataKeys} :
         tsecret = [exists |-> TRUE, gen |-> 1, data |-> d]
  BY DEF Init
<1>0. PICK S \in SUBSET DataKeys : d \in [S -> {[value |-> 1, sealed |-> 1]}]
  OBVIOUS
<1>2. 1 \in 1..MaxGen /\ 1 \in 1..MaxKeyVersion /\ 0 \in 0..MaxFaults
  BY BoundsAssumption
<1>3. d \in [S -> Entry]
  BY <1>0, <1>2 DEF Entry
<1>4. d \in Maps
  BY <1>3 DEF Maps
<1>5. tsecret \in [exists : BOOLEAN, gen : 1..MaxGen, data : Maps]
  BY <1>1, <1>2, <1>4
<1>6. files \in [Paths -> Content]
  BY FilesType DEF Init
<1>7. QED
  BY <1>2, <1>5, <1>6, IdleType DEF Init, TypeOK, Runs

\* What the steps that change `run` make of it.
LEMMA RunType ==
    ASSUME TypeOK, [Next]_vars PROVE run' \in Runs
<1>0. run \in Runs
  BY DEF TypeOK, Runs
<1>1. ASSUME NEW err \in {"none", "cluster", "sealed", "file", "killed"}, Fail(err)
      PROVE  run' \in Runs
  BY <1>0, <1>1 DEF Fail, Runs
<1>2. CASE Start
  BY <1>2, IdleType DEF Start, Runs
<1>3. CASE GetTSecret
  BY <1>0, <1>1, <1>3 DEF GetTSecret, TypeOK, Runs
<1>4. CASE ResolveKey
  <2>1. DOMAIN run.data \in SUBSET DataKeys /\ keyVer \in 1..MaxKeyVersion
    BY <1>0, DomainType DEF TypeOK, Runs
  <2>2. QED
    BY <1>0, <1>1, <1>4, <2>1 DEF ResolveKey, ResolvedKey, Runs
<1>5. ASSUME NEW k \in DataKeys, OpenFile(k) PROVE run' \in Runs
  BY <1>0, <1>1, <1>5 DEF OpenFile, DecryptFails, Runs
<1>6. CASE FillFile
  BY <1>0, <1>6 DEF FillFile, Runs
<1>7. CASE Finish
  BY <1>0, <1>7 DEF Finish, Runs
<1>8. CASE OpenLoader
  BY <1>0, <1>1, <1>8 DEF OpenLoader, Runs
<1>9. CASE FillLoader
  BY <1>0, <1>9 DEF FillLoader, Runs
<1>10. CASE Kill
  BY <1>1, <1>10 DEF Kill
<1>11. CASE SandboxLost \/ ReplacePod
  BY <1>11, IdleType DEF SandboxLost, ReplacePod
<1>12. CASE UNCHANGED run
  BY <1>0, <1>12
<1>13. QED
  BY <1>2, <1>3, <1>4, <1>5, <1>6, <1>7, <1>8, <1>9, <1>10, <1>11, <1>12
  DEF Next, Step, WriteTSecret, DeleteTSecret, RotateKey, vars

\* What the steps that change `files` make of it.
LEMMA FilesSteps ==
    ASSUME TypeOK, [Next]_vars
    PROVE  \/ UNCHANGED files
           \/ \E k \in DataKeys : OpenFile(k) /\ CanCreate(FileName[k]) /\ Create(FileName[k])
           \/ FillFile
           \/ OpenLoader /\ CanCreate(Loader) /\ Create(Loader)
           \/ FillLoader
           \/ ReplacePod
BY DEF Next, Step, Start, GetTSecret, ResolveKey, OpenFile, FillFile, Finish, OpenLoader,
       FillLoader, Kill, SandboxLost, ReplacePod, WriteTSecret, DeleteTSecret, RotateKey, vars

\* The TSecret is only written whole or marked deleted.
LEMMA TSecretType ==
    ASSUME TypeOK, [Next]_vars
    PROVE  tsecret' \in [exists : BOOLEAN, gen : 1..MaxGen, data : Maps]
<1>1. CASE WriteTSecret
  <2>1. PICK S \in SUBSET DataKeys, sealed \in [DataKeys -> 1..MaxKeyVersion] :
           tsecret' = [exists |-> TRUE, gen |-> tsecret.gen + 1,
                       data |-> [k \in S |-> [value |-> tsecret.gen + 1,
                                              sealed |-> sealed[k]]]]
    <3>1. PICK S \in SUBSET DataKeys : \E sealed \in [S -> 1..keyVer] :
           tsecret' = [exists |-> TRUE, gen |-> tsecret.gen + 1,
                       data |-> [k \in S |-> [value |-> tsecret.gen + 1,
                                              sealed |-> sealed[k]]]]
      BY <1>1 DEF WriteTSecret
    <3>2. PICK sealed \in [S -> 1..keyVer] :
           tsecret' = [exists |-> TRUE, gen |-> tsecret.gen + 1,
                       data |-> [k \in S |-> [value |-> tsecret.gen + 1,
                                              sealed |-> sealed[k]]]]
      BY <3>1
    <3>3. 1..keyVer \subseteq 1..MaxKeyVersion /\ 1 \in 1..MaxKeyVersion
      BY BoundsAssumption DEF TypeOK
    <3>4. DEFINE all == [k \in DataKeys |-> IF k \in S THEN sealed[k] ELSE 1]
    <3>5. all \in [DataKeys -> 1..MaxKeyVersion] /\ \A k \in S : all[k] = sealed[k]
      BY <3>2, <3>3
    <3>6. [k \in S |-> [value |-> tsecret.gen + 1, sealed |-> sealed[k]]]
             = [k \in S |-> [value |-> tsecret.gen + 1, sealed |-> all[k]]]
      BY <3>5
    <3>7. QED
      BY <3>2, <3>5, <3>6
  <2>2. tsecret.gen + 1 \in 1..MaxGen
    BY <1>1, BoundsAssumption DEF WriteTSecret, TypeOK
  <2>3. [k \in S |-> [value |-> tsecret.gen + 1, sealed |-> sealed[k]]] \in [S -> Entry]
    BY <2>1, <2>2 DEF Entry
  <2>4. [k \in S |-> [value |-> tsecret.gen + 1, sealed |-> sealed[k]]] \in Maps
    BY <2>3 DEF Maps
  <2>5. QED
    BY <2>1, <2>2, <2>4
<1>2. CASE DeleteTSecret
  BY <1>2 DEF DeleteTSecret, TypeOK
<1>3. CASE UNCHANGED tsecret
  BY <1>3 DEF TypeOK
<1>4. QED
  BY <1>1, <1>2, <1>3
  DEF Next, Step, Start, GetTSecret, ResolveKey, OpenFile, FillFile, Finish, OpenLoader,
      FillLoader, Kill, SandboxLost, ReplacePod, RotateKey, vars

-----------------------------------------------------------------------------
(* The inductive invariant.                                                *)

\* Where a run is in its loop.
Cursor ==
    /\ run.pc \in {"write", "fill", "loader", "done"} => run.todo \subseteq DOMAIN run.data
    /\ run.pc = "fill" => run.open \in run.todo
    /\ run.pc \in {"loader", "done"} => run.todo = {}

\* What a run has on the volume.
Written ==
    /\ run.pc \in {"write", "fill", "loader", "done"} =>
          \A k \in DOMAIN run.data \ run.todo :
             files[FileName[k]] = Value(run.data[k].value)
    /\ run.pc = "fill" => files[FileName[run.open]] = Empty
    /\ run.pc = "done" /\ exportEnv => files[Loader] = Script(FilesOf(DOMAIN run.data))

\* The entries of a TSecret are of one write of it.
OfOneWrite(d) == \A j, k \in DOMAIN d : d[j].value = d[k].value

OneWrite == OfOneWrite(tsecret.data) /\ OfOneWrite(run.data)

IInv == TypeOK /\ Cursor /\ Written /\ OneWrite /\ LoaderIsLast

LEMMA FilesTyped == ASSUME TypeOK, Cursor, [Next]_vars PROVE files' \in [Paths -> Content]
<1>0. files \in [Paths -> Content] /\ run \in Runs
  BY DEF TypeOK, Runs
<1>1. \A k \in DataKeys : FileName[k] \in Paths
  BY NamesAssumption DEF Paths
<1>2. Loader \in Paths
  BY DEF Paths
<1>3. ASSUME NEW p \in Paths, Create(p) PROVE files' \in [Paths -> Content]
  BY <1>0, <1>3, FilesType DEF Create
<1>4. CASE FillFile
  <2>1. run.open \in DataKeys /\ run.open \in DOMAIN run.data
    BY <1>0, <1>4 DEF FillFile, Cursor, Runs
  <2>2. run.data[run.open].value \in 1..MaxGen
    BY <1>0, <2>1, DomainType DEF Runs, Entry
  <2>3. Value(run.data[run.open].value) \in Content /\ FileName[run.open] \in Paths
    BY <1>1, <2>1, <2>2, FilesType
  <2>4. QED
    BY <1>0, <1>4, <2>3 DEF FillFile
<1>5. CASE FillLoader
  <2>1. DOMAIN run.data \in SUBSET DataKeys
    BY <1>0, DomainType DEF Runs
  <2>2. Script(FilesOf(DOMAIN run.data)) \in Content
    BY <2>1, FilesType
  <2>3. QED
    BY <1>0, <1>2, <1>5, <2>2 DEF FillLoader
<1>6. CASE ReplacePod
  BY <1>6, FilesType DEF ReplacePod
<1>7. QED
  BY <1>0, <1>1, <1>2, <1>3, <1>4, <1>5, <1>6, FilesSteps

LEMMA TypeStep == ASSUME TypeOK, Cursor, [Next]_vars PROVE TypeOK'
<1>1. exportEnv' \in BOOLEAN
  BY DEF TypeOK, Next, Step, Start, GetTSecret, ResolveKey, OpenFile, FillFile, Finish,
         OpenLoader, FillLoader, Kill, SandboxLost, ReplacePod, WriteTSecret,
         DeleteTSecret, RotateKey, vars
<1>2. keyVer' \in 1..MaxKeyVersion
  <2>1. RotateKey \/ UNCHANGED keyVer
    BY DEF Next, Step, Start, GetTSecret, ResolveKey, OpenFile, FillFile, Finish,
           OpenLoader, FillLoader, Kill, SandboxLost, ReplacePod, WriteTSecret,
           DeleteTSecret, vars
  <2>2. keyVer \in 1..MaxKeyVersion
    BY DEF TypeOK
  <2>3. QED
    BY <2>1, <2>2, BoundsAssumption DEF RotateKey
<1>3. Fault \/ UNCHANGED faults
  BY DEF Next, Step, Start, GetTSecret, ResolveKey, OpenFile, FillFile, Finish,
         OpenLoader, FillLoader, Kill, SandboxLost, ReplacePod, WriteTSecret,
         DeleteTSecret, RotateKey, vars
<1>4. QED
  BY <1>1, <1>2, <1>3, RunType, TSecretType, FilesTyped, FaultType DEF TypeOK, Runs

LEMMA CursorStep == ASSUME TypeOK, Cursor, [Next]_vars PROVE Cursor'
<1>0. run \in Runs
  BY DEF TypeOK, Runs
<1>1. ASSUME NEW err, Fail(err) PROVE Cursor'
  BY <1>0, <1>1 DEF Fail, Cursor, Runs
<1>2. CASE Start
  BY <1>2, IdleType DEF Start, Cursor, Runs
<1>3. CASE GetTSecret
  BY <1>0, <1>1, <1>3 DEF GetTSecret, Cursor, Runs
<1>4. CASE ResolveKey
  BY <1>0, <1>1, <1>4 DEF ResolveKey, Cursor, Runs
<1>5. ASSUME NEW k \in DataKeys, OpenFile(k) PROVE Cursor'
  BY <1>0, <1>1, <1>5 DEF OpenFile, DecryptFails, Cursor, Runs
<1>6. CASE FillFile
  BY <1>0, <1>6 DEF FillFile, Cursor, Runs
<1>7. CASE Finish
  BY <1>0, <1>7 DEF Finish, LoopDone, Cursor, Runs
<1>8. CASE OpenLoader
  BY <1>0, <1>1, <1>8 DEF OpenLoader, LoopDone, Cursor, Runs
<1>9. CASE FillLoader
  BY <1>0, <1>9 DEF FillLoader, Cursor, Runs
<1>10. CASE Kill
  BY <1>1, <1>10 DEF Kill
<1>11. CASE SandboxLost \/ ReplacePod
  BY <1>11, IdleType DEF SandboxLost, ReplacePod, Cursor
<1>12. CASE UNCHANGED run
  BY <1>12 DEF Cursor
<1>13. QED
  BY <1>2, <1>3, <1>4, <1>5, <1>6, <1>7, <1>8, <1>9, <1>10, <1>11, <1>12
  DEF Next, Step, WriteTSecret, DeleteTSecret, RotateKey, vars

\* A whole run reads one stored TSecret, and a TSecret is one write.
LEMMA OneWriteStep == ASSUME TypeOK, OneWrite, [Next]_vars PROVE OneWrite'
<1>0. run \in Runs
  BY DEF TypeOK, Runs
<1>1. OfOneWrite(tsecret'.data)
  <2>1. CASE WriteTSecret
    BY <2>1 DEF WriteTSecret, OfOneWrite
  <2>2. CASE DeleteTSecret
    BY <2>2 DEF DeleteTSecret, TypeOK, OneWrite
  <2>3. CASE UNCHANGED tsecret
    BY <2>3 DEF OneWrite
  <2>4. QED
    BY <2>1, <2>2, <2>3
    DEF Next, Step, Start, GetTSecret, ResolveKey, OpenFile, FillFile, Finish, OpenLoader,
        FillLoader, Kill, SandboxLost, ReplacePod, RotateKey, vars
<1>2. run'.data \in {run.data, tsecret.data, EmptyMap}
  <2>1. ASSUME NEW err, Fail(err) PROVE run'.data = run.data
    BY <1>0, <2>1 DEF Fail, Runs
  <2>2. CASE Start \/ SandboxLost \/ ReplacePod
    BY <2>2, IdleType DEF Start, SandboxLost, ReplacePod, Runs
  <2>3. CASE GetTSecret
    BY <1>0, <2>1, <2>3 DEF GetTSecret, Runs
  <2>4. CASE ResolveKey
    BY <1>0, <2>1, <2>4 DEF ResolveKey, Runs
  <2>5. ASSUME NEW k \in DataKeys, OpenFile(k) PROVE run'.data = run.data
    BY <1>0, <2>1, <2>5 DEF OpenFile, DecryptFails, Runs
  <2>6. CASE FillFile \/ Finish \/ FillLoader
    BY <1>0, <2>6 DEF FillFile, Finish, FillLoader, Runs
  <2>7. CASE OpenLoader
    BY <1>0, <2>1, <2>7 DEF OpenLoader, Runs
  <2>8. CASE Kill
    BY <2>1, <2>8 DEF Kill
  <2>9. CASE UNCHANGED run
    BY <2>9
  <2>10. QED
    BY <2>2, <2>3, <2>4, <2>5, <2>6, <2>7, <2>8, <2>9
    DEF Next, Step, WriteTSecret, DeleteTSecret, RotateKey, vars
<1>3. OfOneWrite(EmptyMap)
  BY DEF OfOneWrite, EmptyMap
<1>4. QED
  BY <1>1, <1>2, <1>3 DEF OneWrite

\* Names of files are not confused.
LEMMA PathsApart ==
    /\ \A k \in DataKeys : FileName[k] \in Paths /\ FileName[k] # Loader
    /\ \A j, k \in DataKeys : FileName[j] = FileName[k] => j = k
    /\ Loader \in Paths
BY NamesAssumption DEF Paths

LEMMA WrittenStep ==
    ASSUME TypeOK, Cursor, Written, [Next]_vars PROVE Written'
<1>0. run \in Runs /\ files \in [Paths -> Content] /\ DOMAIN run.data \subseteq DataKeys
  BY DomainType DEF TypeOK, Runs
<1>1. ASSUME NEW err, Fail(err) PROVE Written'
  BY <1>0, <1>1 DEF Fail, Written, Runs
<1>2. CASE Start
  BY <1>2, IdleType DEF Start, Written, Runs
<1>3. CASE GetTSecret
  BY <1>0, <1>1, <1>3 DEF GetTSecret, Written, Runs
<1>4. CASE ResolveKey
  <2>1. CASE \E err : Fail(err)
    BY <1>1, <2>1
  <2>2. CASE run' = [run EXCEPT !.pc = "write", !.key = ResolvedKey, !.todo = DOMAIN run.data]
    <3>1. run'.pc = "write" /\ run'.data = run.data /\ run'.todo = DOMAIN run.data
      BY <1>0, <2>2 DEF Runs
    <3>2. QED
      BY <3>1 DEF Written
  <2>3. QED
    BY <1>4, <2>1, <2>2 DEF ResolveKey
<1>5. ASSUME NEW k \in DataKeys, OpenFile(k) PROVE Written'
  <2>1. CASE \E err : Fail(err)
    BY <1>1, <2>1
  <2>2. CASE /\ run.pc = "write" /\ k \in run.todo
             /\ run' = [run EXCEPT !.pc = "fill", !.open = k]
             /\ files' = [files EXCEPT ![FileName[k]] = Empty]
    <3>1. /\ run'.pc = "fill" /\ run'.open = k
          /\ run'.data = run.data /\ run'.todo = run.todo
      BY <1>0, <2>2 DEF Runs
    <3>2. files'[FileName[k]] = Empty
      BY <1>0, <2>2, PathsApart
    <3>3. ASSUME NEW j \in DOMAIN run.data \ run.todo
          PROVE  files'[FileName[j]] = Value(run.data[j].value)
      <4>1. FileName[j] # FileName[k] /\ FileName[j] \in Paths
        BY <1>0, <2>2, PathsApart
      <4>2. QED
        BY <1>0, <2>2, <4>1 DEF Written
    <3>4. QED
      BY <3>1, <3>2, <3>3 DEF Written
  <2>3. QED
    BY <1>5, <2>1, <2>2 DEF OpenFile, DecryptFails, Create
<1>6. CASE FillFile
  <2>1. /\ run'.pc = "write" /\ run'.data = run.data /\ run'.todo = run.todo \ {run.open}
    BY <1>0, <1>6 DEF FillFile, Runs
  <2>2. run.open \in DataKeys
    BY <1>0 DEF Runs
  <2>3. ASSUME NEW j \in DOMAIN run.data \ run'.todo
        PROVE  files'[FileName[j]] = Value(run.data[j].value)
    <3>1. CASE j = run.open
      BY <1>0, <1>6, <2>2, <3>1, PathsApart DEF FillFile
    <3>2. CASE j # run.open
      <4>1. FileName[j] # FileName[run.open] /\ FileName[j] \in Paths
        BY <1>0, <2>2, <3>2, PathsApart
      <4>2. files[FileName[j]] = Value(run.data[j].value)
        BY <1>6, <2>1, <2>3, <3>2 DEF FillFile, Written
      <4>3. QED
        BY <1>0, <1>6, <4>1, <4>2 DEF FillFile
    <3>3. QED
      BY <3>1, <3>2
  <2>4. QED
    BY <2>1, <2>3 DEF Written
<1>7. CASE Finish
  BY <1>0, <1>7 DEF Finish, Written, Runs
<1>8. CASE OpenLoader
  <2>1. CASE Fail("file")
    BY <1>1, <2>1
  <2>2. CASE run' = [run EXCEPT !.pc = "loader"] /\ Create(Loader)
    <3>1. run'.pc = "loader" /\ run'.data = run.data /\ run'.todo = run.todo
      BY <1>0, <2>2 DEF Runs
    <3>2. \A j \in DOMAIN run.data : files'[FileName[j]] = files[FileName[j]]
      BY <1>0, <2>2, PathsApart DEF Create
    <3>3. QED
      BY <1>8, <3>1, <3>2 DEF OpenLoader, Written
  <2>3. QED
    BY <1>8, <2>1, <2>2 DEF OpenLoader
<1>9. CASE FillLoader
  <2>1. run'.pc = "done" /\ run'.data = run.data /\ run'.todo = run.todo
    BY <1>0, <1>9 DEF FillLoader, Runs
  <2>2. \A j \in DOMAIN run.data : files'[FileName[j]] = files[FileName[j]]
    BY <1>0, <1>9, PathsApart DEF FillLoader
  <2>3. files'[Loader] = Script(FilesOf(DOMAIN run.data))
    BY <1>0, <1>9, PathsApart DEF FillLoader
  <2>4. QED
    BY <1>9, <2>1, <2>2, <2>3 DEF FillLoader, Written
<1>10. CASE Kill
  BY <1>1, <1>10 DEF Kill
<1>11. CASE SandboxLost \/ ReplacePod
  BY <1>11, IdleType DEF SandboxLost, ReplacePod, Written
<1>12. CASE UNCHANGED <<run, files, exportEnv>>
  BY <1>12 DEF Written
<1>13. QED
  BY <1>2, <1>3, <1>4, <1>5, <1>6, <1>7, <1>8, <1>9, <1>10, <1>11, <1>12
  DEF Next, Step, WriteTSecret, DeleteTSecret, RotateKey, vars

\* A value and a cut-short file differ in their state.
LEMMA States ==
    /\ NoFile.state = "none" /\ Empty.state = "cut" /\ NoFile.state # "full"
    /\ \A g : Value(g).state = "full" /\ Value(g).value = g
    /\ \A names : Script(names).state = "full" /\ Script(names).names = names
BY DEF NoFile, Empty, Value, Script

LEMMA LoaderStep == ASSUME IInv, [Next]_vars PROVE LoaderIsLast'
<1>0. run \in Runs /\ files \in [Paths -> Content] /\ DOMAIN run.data \subseteq DataKeys
  BY DomainType DEF IInv, TypeOK, Runs
<1>1. LoaderIsLast /\ Cursor /\ Written /\ OfOneWrite(run.data)
  BY DEF IInv, OneWrite
<1>2. files[Loader].names \subseteq FileNames
  BY <1>0, PathsApart DEF Content
<1>3. \* A step that changes one key's file, which the loader does not name.
      ASSUME NEW p \in FileNames, NEW c, files' = [files EXCEPT ![p] = c],
             files[p].state # "full"
      PROVE  LoaderIsLast'
  <2>1. files'[Loader] = files[Loader]
    BY <1>0, <1>3, PathsApart, NamesAssumption
  <2>2. CASE files[Loader].state = "full"
    <3>1. \A q \in files[Loader].names : files'[q] = files[q]
      BY <1>0, <1>1, <1>2, <1>3, <2>2 DEF LoaderIsLast, Paths
    <3>2. QED
      BY <1>1, <2>1, <2>2, <3>1 DEF LoaderIsLast
  <2>3. QED
    BY <2>1, <2>2 DEF LoaderIsLast
<1>4. ASSUME NEW k \in DataKeys, OpenFile(k), CanCreate(FileName[k]), Create(FileName[k])
      PROVE  LoaderIsLast'
  <2>1. FileName[k] \in FileNames /\ files[FileName[k]].state # "full"
    BY <1>4, NamesAssumption DEF CanCreate
  <2>2. QED
    BY <1>3, <1>4, <2>1 DEF Create
<1>5. CASE FillFile
  <2>1. FileName[run.open] \in FileNames
    BY <1>0, NamesAssumption DEF Runs
  <2>2. files[FileName[run.open]].state # "full"
    BY <1>1, <1>5, States DEF FillFile, Written
  <2>3. QED
    BY <1>3, <1>5, <2>1, <2>2 DEF FillFile
<1>6. CASE OpenLoader /\ CanCreate(Loader) /\ Create(Loader)
  <2>1. files'[Loader] = Empty
    BY <1>0, <1>6, PathsApart DEF Create
  <2>2. files'[Loader].state # "full"
    BY <2>1, States
  <2>3. QED
    BY <2>2 DEF LoaderIsLast
<1>7. CASE FillLoader
  <2>1. files'[Loader] = Script(FilesOf(DOMAIN run.data))
    BY <1>0, <1>7, PathsApart DEF FillLoader
  <2>2. files'[Loader].names = FilesOf(DOMAIN run.data)
    BY <2>1, States
  <2>3. ASSUME NEW j \in DOMAIN run.data
        PROVE  files'[FileName[j]] = Value(run.data[j].value)
    <3>1. files'[FileName[j]] = files[FileName[j]]
      BY <1>0, <1>7, PathsApart DEF FillLoader
    <3>2. run.pc = "loader" /\ run.todo = {}
      BY <1>1, <1>7 DEF FillLoader, Cursor
    <3>3. QED
      BY <1>1, <3>1, <3>2 DEF Written
  <2>4. \A j \in DOMAIN run.data : /\ files'[FileName[j]].state = "full"
                                   /\ files'[FileName[j]].value = run.data[j].value
    BY <2>3, States
  <2>5. \A p \in files'[Loader].names : \E j \in DOMAIN run.data : p = FileName[j]
    BY <2>2 DEF FilesOf
  <2>6. \A p \in files'[Loader].names : files'[p].state = "full"
    BY <2>4, <2>5
  <2>7. \A p, q \in files'[Loader].names : files'[p].value = files'[q].value
    <3>1. TAKE p, q \in files'[Loader].names
    <3>2. PICK i \in DOMAIN run.data : p = FileName[i]
      BY <2>5
    <3>3. PICK j \in DOMAIN run.data : q = FileName[j]
      BY <2>5
    <3>4. run.data[i].value = run.data[j].value
      BY <1>1 DEF OfOneWrite
    <3>5. QED
      BY <2>4, <3>2, <3>3, <3>4
  <2>8. QED
    BY <2>6, <2>7 DEF LoaderIsLast
<1>8. CASE ReplacePod
  <2>1. files'[Loader] = NoFile
    BY <1>8, PathsApart DEF ReplacePod
  <2>2. QED
    BY <2>1, States DEF LoaderIsLast
<1>9. CASE UNCHANGED files
  BY <1>1, <1>9 DEF LoaderIsLast
<1>10. TypeOK
  BY DEF IInv
<1>11. QED
  BY <1>4, <1>5, <1>6, <1>7, <1>8, <1>9, <1>10, FilesSteps

-----------------------------------------------------------------------------
(* The theorems.                                                           *)

LEMMA InitInv == Init => IInv
<1> SUFFICES ASSUME Init PROVE IInv
  OBVIOUS
<1>1. run.pc = "waiting" /\ run.data = EmptyMap
  BY IdleType DEF Init
<1>2. Cursor /\ Written
  BY <1>1 DEF Cursor, Written
<1>3. OneWrite
  <2>1. PICK d \in UNION {[S -> {[value |-> 1, sealed |-> 1]}] : S \in SUBSET DataKeys} :
           tsecret = [exists |-> TRUE, gen |-> 1, data |-> d]
    BY DEF Init
  <2>2. \A j \in DOMAIN d : d[j] = [value |-> 1, sealed |-> 1]
    OBVIOUS
  <2>3. QED
    BY <1>1, <2>1, <2>2 DEF OneWrite, OfOneWrite, EmptyMap
<1>4. LoaderIsLast
  <2>1. files[Loader] = NoFile
    BY PathsApart DEF Init
  <2>2. QED
    BY <2>1, States DEF LoaderIsLast
<1>5. QED
  BY <1>2, <1>3, <1>4, InitType DEF IInv

LEMMA StepInv == IInv /\ [Next]_vars => IInv'
<1> SUFFICES ASSUME IInv, [Next]_vars PROVE IInv'
  OBVIOUS
<1>1. TypeOK /\ Cursor /\ Written /\ OneWrite
  BY DEF IInv
<1>2. QED
  BY <1>1, TypeStep, CursorStep, WrittenStep, OneWriteStep, LoaderStep DEF IInv

LEMMA Invariance == Spec => []IInv
BY InitInv, StepInv, PTL DEF Spec

\* Every variable of the pod and its cluster keeps its type.
THEOREM TypeCorrect == Spec => []TypeOK
BY Invariance, PTL DEF IInv

\* The pod's containers start only on a complete injection: each file is the
\* whole plaintext of its key, and load-env.sh exports exactly those files,
\* for any keys, any order of the map, and any kills and leftovers.
THEOREM ExitZeroIsComplete == Spec => []DoneMeansComplete
<1>1. IInv => DoneMeansComplete
  BY DEF IInv, Cursor, Written, DoneMeansComplete
<1>2. QED
  BY <1>1, Invariance, PTL

\* A whole load-env.sh names only whole files, all of one write of the
\* TSecret, also while a later run of the container is working or has died.
THEOREM LoaderWrittenLast == Spec => []LoaderIsLast
BY Invariance, PTL DEF IInv
-----------------------------------------------------------------------------
(* Inject implements SecretVolume.                                         *)

\* A path with no file is blank: what an earlier file held is not left over.
Blank == \A p \in Paths : files[p].state = "none" => files[p] = NoFile

VInv == IInv /\ Blank

\* The mapping, phase by phase.
Phases ==
    /\ run.pc \in {"key", "write", "fill", "loader", "done"} => Taken = {Plain(run.data)}
    /\ run.pc \in {"waiting", "get", "failed"} => Taken = {}
    /\ run.pc = "fill" => Writing = {FileName[run.open]}
    /\ run.pc = "loader" => Writing = {Loader}
    /\ run.pc \in {"waiting", "get", "failed", "key", "write", "done"} => Writing = {}

LEMMA MapPhases == Phases /\ Phases'
<1>1. Phases
  BY DEF Phases, Taken, Writing
<1>2. Phases'
  BY DEF Phases, Taken, Writing
<1>3. QED
  BY <1>1, <1>2

LEMMA PlainOf ==
    ASSUME NEW d
    PROVE  /\ DOMAIN Plain(d) = DOMAIN d
           /\ \A k \in DOMAIN d : Plain(d)[k] = d[k].value
BY DEF Plain

\* The contents of the two modules are the same.
LEMMA SameContents ==
    /\ Volume!Nothing = NoFile /\ Volume!Begun = Empty
    /\ \A g : Volume!Holding(g) = Value(g)
    /\ \A d : Volume!Naming(Plain(d)) = Script(FilesOf(DOMAIN d))
<1>1. /\ Volume!Nothing = NoFile /\ Volume!Begun = Empty
      /\ \A g : Volume!Holding(g) = Value(g)
  BY DEF Volume!Nothing, Volume!Begun, Volume!Holding, NoFile, Empty, Value
<1>2. \A d : Volume!Naming(Plain(d)) = Script(FilesOf(DOMAIN d))
  BY PlainOf DEF Volume!Naming, Script, FilesOf
<1>3. QED
  BY <1>1, <1>2

\* A run that has emptied its list has the whole version on the volume.
LEMMA LoopDoneHas ==
    ASSUME IInv, run.pc \in {"write", "loader", "done"}, run.todo = {}
    PROVE  Volume!Has(Plain(run.data))
<1>1. \A k \in DOMAIN run.data : files[FileName[k]] = Value(run.data[k].value)
  BY DEF IInv, Written
<1>2. QED
  BY <1>1, PlainOf, SameContents DEF Volume!Has

LEMMA BlankStep == ASSUME VInv, [Next]_vars PROVE Blank'
<1>0. TypeOK /\ Cursor /\ files \in [Paths -> Content] /\ run \in Runs
  BY DEF VInv, IInv, TypeOK, Runs
<1>1. ASSUME NEW p, NEW c, c.state # "none", files' = [files EXCEPT ![p] = c] PROVE Blank'
  BY <1>0, <1>1 DEF VInv, Blank
<1>2. ASSUME NEW p, Create(p) PROVE Blank'
  BY <1>1, <1>2, States DEF Create
<1>3. CASE FillFile
  BY <1>1, <1>3, States DEF FillFile
<1>4. CASE FillLoader
  BY <1>1, <1>4, States DEF FillLoader
<1>5. CASE ReplacePod
  BY <1>5 DEF ReplacePod, Blank
<1>6. CASE UNCHANGED files
  BY <1>6 DEF VInv, Blank
<1>7. QED
  BY <1>0, <1>2, <1>3, <1>4, <1>5, <1>6, FilesSteps

LEMMA VolumeInvariance == Spec => []VInv
<1>1. Init => VInv
  BY InitInv DEF Init, VInv, Blank
<1>2. VInv /\ [Next]_vars => VInv'
  BY StepInv, BlankStep DEF VInv
<1>3. QED
  BY <1>1, <1>2, PTL DEF Spec

LEMMA VolumeInitMaps == ASSUME Init PROVE Volume!VolumeInit
<1>1. PICK d \in UNION {[S -> {[value |-> 1, sealed |-> 1]}] : S \in SUBSET DataKeys} :
         tsecret = [exists |-> TRUE, gen |-> 1, data |-> d]
  BY DEF Init
<1>2. \A k \in DOMAIN d : d[k].value = 1
  OBVIOUS
<1>3. Secret = [exists |-> TRUE, gen |-> 1, data |-> Plain(d)]
  BY <1>1 DEF Secret
<1>4. \A k \in DOMAIN Secret.data : Secret.data[k] = 1
  BY <1>2, <1>3, PlainOf
<1>5. files = [p \in DOMAIN files |-> NoFile]
  BY DEF Init
<1>6. run.pc = "waiting"
  BY IdleType DEF Init
<1>7. Taken = {} /\ Writing = {}
  BY <1>6, MapPhases DEF Phases
<1>8. QED
  BY <1>3, <1>4, <1>5, <1>6, <1>7, SameContents DEF Init, Volume!VolumeInit

\* A run that fails, is killed or is forgotten with its sandbox.
LEMMA GivesUp ==
    ASSUME run'.pc \in {"waiting", "get", "failed"}, UNCHANGED <<exportEnv, tsecret, files>>
    PROVE  Volume!GiveUp
<1>1. Taken' = {} /\ Writing' = {}
  BY MapPhases DEF Phases
<1>2. UNCHANGED Secret
  BY DEF Secret
<1>3. QED
  BY <1>1, <1>2 DEF Volume!GiveUp

LEMMA FailGivesUp ==
    ASSUME VInv, NEW err, Fail(err), UNCHANGED <<exportEnv, tsecret, files>>
    PROVE  Volume!GiveUp
<1>1. run'.pc = "failed"
  BY DEF Fail, VInv, IInv, TypeOK
<1>2. QED
  BY <1>1, GivesUp

LEMMA ReadMaps ==
    ASSUME VInv, Start \/ GetTSecret \/ ResolveKey
    PROVE  [Volume!VolumeNext]_Volume!volumeVars
<1>0. run \in Runs
  BY DEF VInv, IInv, TypeOK, Runs
<1>1. CASE Start
  <2>1. run'.pc = "get"
    BY <1>1, IdleType DEF Start, Runs
  <2>2. Volume!GiveUp
    BY <1>1, <2>1, GivesUp DEF Start
  <2>3. QED
    BY <2>2 DEF Volume!VolumeNext
<1>2. CASE \E err : Fail(err)
  <2>1. Volume!GiveUp
    BY <1>2, FailGivesUp DEF Start, GetTSecret, ResolveKey
  <2>2. QED
    BY <2>1 DEF Volume!VolumeNext
<1>3. CASE GetTSecret /\ ~\E err : Fail(err)
  <2>1. /\ run.pc = "get" /\ tsecret.exists
        /\ run'.pc = "key" /\ run'.data = tsecret.data
    BY <1>0, <1>3 DEF GetTSecret, Runs
  <2>2. Taken = {} /\ Taken' = {Plain(tsecret.data)} /\ Writing = {} /\ Writing' = {}
    BY <2>1, MapPhases DEF Phases
  <2>3. UNCHANGED <<Secret, exportEnv, files>> /\ Secret.exists /\ Secret.data = Plain(tsecret.data)
    BY <1>3, <2>1 DEF GetTSecret, Secret
  <2>4. Volume!Take
    BY <2>1, <2>2, <2>3 DEF Volume!Take
  <2>5. QED
    BY <2>4 DEF Volume!VolumeNext
<1>4. CASE ResolveKey /\ ~\E err : Fail(err)
  <2>1. run.pc = "key" /\ run'.pc = "write" /\ run'.data = run.data
    BY <1>0, <1>4 DEF ResolveKey, Runs
  <2>2. UNCHANGED <<Taken, Writing>>
    BY <2>1, MapPhases DEF Phases
  <2>3. UNCHANGED <<Secret, exportEnv, files>>
    BY <1>4 DEF ResolveKey, Secret
  <2>4. QED
    BY <2>1, <2>2, <2>3 DEF Volume!volumeVars
<1>5. QED
  BY <1>1, <1>2, <1>3, <1>4

LEMMA OpenFileMaps ==
    ASSUME VInv, NEW k \in DataKeys, OpenFile(k) PROVE Volume!VolumeNext
<1>0. run \in Runs /\ files \in [Paths -> Content]
  BY DEF VInv, IInv, TypeOK, Runs
<1>1. CASE \E err : Fail(err) /\ UNCHANGED files
  BY <1>1, FailGivesUp DEF OpenFile, Volume!VolumeNext
<1>2. CASE CanCreate(FileName[k]) /\ Create(FileName[k]) /\ run' = [run EXCEPT !.pc = "fill", !.open = k]
  <2>1. run.pc = "write" /\ run'.pc = "fill" /\ run'.open = k /\ run'.data = run.data
    BY <1>0, <1>2 DEF OpenFile, Runs
  <2>2. /\ Taken = {Plain(run.data)} /\ Taken' = Taken
        /\ Writing = {} /\ Writing' = {FileName[k]}
    BY <2>1, MapPhases DEF Phases
  <2>3. files[FileName[k]] = NoFile
    BY <1>2, PathsApart DEF CanCreate, VInv, Blank
  <2>4. k \in DOMAIN Plain(run.data)
    BY PlainOf, <2>1 DEF OpenFile, VInv, IInv, Cursor
  <2>5. UNCHANGED <<Secret, exportEnv>> /\ files' = [files EXCEPT ![FileName[k]] = Empty]
    BY <1>2 DEF OpenFile, Secret, Create
  <2>6. Volume!Open(FileName[k])
    BY <2>1, <2>2, <2>3, <2>5, SameContents DEF Volume!Open
  <2>7. Volume!OpenFile
    BY <2>2, <2>4, <2>6 DEF Volume!OpenFile
  <2>8. QED
    BY <2>7 DEF Volume!VolumeNext
<1>3. QED
  BY <1>1, <1>2 DEF OpenFile, DecryptFails

LEMMA FillFileMaps == ASSUME VInv, FillFile PROVE Volume!VolumeNext
<1>0. run \in Runs
  BY DEF VInv, IInv, TypeOK, Runs
<1>1. run.pc = "fill" /\ run'.pc = "write" /\ run'.data = run.data
  BY <1>0 DEF FillFile, Runs
<1>2. /\ Taken = {Plain(run.data)} /\ Taken' = Taken
      /\ Writing = {FileName[run.open]} /\ Writing' = {}
  BY <1>1, MapPhases DEF Phases
<1>3. run.open \in DOMAIN Plain(run.data)
      /\ Plain(run.data)[run.open] = run.data[run.open].value
  BY <1>1, PlainOf DEF VInv, IInv, Cursor
<1>4. UNCHANGED <<Secret, exportEnv>>
      /\ files' = [files EXCEPT ![FileName[run.open]] = Value(run.data[run.open].value)]
  BY DEF FillFile, Secret
<1>5. Volume!FillFile
  BY <1>1, <1>2, <1>3, <1>4, SameContents DEF Volume!FillFile
<1>6. QED
  BY <1>5 DEF Volume!VolumeNext

LEMMA LoaderMaps ==
    ASSUME VInv, Finish \/ OpenLoader \/ FillLoader PROVE Volume!VolumeNext
<1>0. run \in Runs /\ IInv
  BY DEF VInv, IInv, TypeOK, Runs
<1>1. CASE Finish
  <2>1. run.pc = "write" /\ run'.pc = "done" /\ run'.data = run.data /\ run.todo = {}
    BY <1>0, <1>1 DEF Finish, LoopDone, Runs
  <2>2. /\ Taken = {Plain(run.data)} /\ Taken' = Taken /\ Writing = {} /\ Writing' = {}
    BY <2>1, MapPhases DEF Phases
  <2>3. Volume!Has(Plain(run.data))
    BY <1>0, <2>1, LoopDoneHas
  <2>4. UNCHANGED <<Secret, exportEnv, files>> /\ ~exportEnv
    BY <1>1 DEF Finish, Secret
  <2>5. Volume!LetGo
    BY <2>1, <2>2, <2>3, <2>4 DEF Volume!LetGo
  <2>6. QED
    BY <2>5 DEF Volume!VolumeNext
<1>2. CASE OpenLoader
  <2>1. CASE Fail("file") /\ UNCHANGED files
    BY <1>2, <2>1, FailGivesUp DEF OpenLoader, Volume!VolumeNext
  <2>2. CASE CanCreate(Loader) /\ Create(Loader) /\ run' = [run EXCEPT !.pc = "loader"]
    <3>1. run.pc = "write" /\ run'.pc = "loader" /\ run'.data = run.data /\ run.todo = {}
      BY <1>0, <1>2, <2>2 DEF OpenLoader, LoopDone, Runs
    <3>2. /\ Taken = {Plain(run.data)} /\ Taken' = Taken
          /\ Writing = {} /\ Writing' = {Loader}
      BY <3>1, MapPhases DEF Phases
    <3>3. Volume!Has(Plain(run.data))
      BY <1>0, <3>1, LoopDoneHas
    <3>4. files[Loader] = NoFile
      BY <2>2, PathsApart DEF CanCreate, VInv, Blank
    <3>5. UNCHANGED <<Secret, exportEnv>> /\ files' = [files EXCEPT ![Loader] = Empty] /\ exportEnv
      BY <1>2, <2>2 DEF OpenLoader, Secret, Create
    <3>6. Volume!Open(Loader)
      BY <3>1, <3>2, <3>4, <3>5, SameContents DEF Volume!Open
    <3>7. Volume!OpenLoader
      BY <3>2, <3>3, <3>5, <3>6 DEF Volume!OpenLoader
    <3>8. QED
      BY <3>7 DEF Volume!VolumeNext
  <2>3. QED
    BY <1>2, <2>1, <2>2 DEF OpenLoader
<1>3. CASE FillLoader
  <2>1. run.pc = "loader" /\ run'.pc = "done" /\ run'.data = run.data /\ run.todo = {}
    BY <1>0, <1>3 DEF FillLoader, Runs, IInv, Cursor
  <2>2. /\ Taken = {Plain(run.data)} /\ Taken' = Taken
        /\ Writing = {Loader} /\ Writing' = {}
    BY <2>1, MapPhases DEF Phases
  <2>3. Volume!Has(Plain(run.data))
    BY <1>0, <2>1, LoopDoneHas
  <2>4. UNCHANGED <<Secret, exportEnv>>
        /\ files' = [files EXCEPT ![Loader] = Volume!Naming(Plain(run.data))]
    BY <1>3, SameContents DEF FillLoader, Secret
  <2>5. Volume!FillLoader
    BY <2>1, <2>2, <2>3, <2>4 DEF Volume!FillLoader
  <2>6. QED
    BY <2>5 DEF Volume!VolumeNext
<1>4. QED
  BY <1>1, <1>2, <1>3

LEMMA KubeletMaps == ASSUME VInv, Kill \/ SandboxLost \/ ReplacePod PROVE Volume!VolumeNext
<1>1. CASE Kill
  BY <1>1, FailGivesUp DEF Kill, Volume!VolumeNext
<1>2. CASE SandboxLost
  BY <1>2, GivesUp, IdleType DEF SandboxLost, Volume!VolumeNext
<1>3. CASE ReplacePod
  <2>1. run'.pc = "waiting"
    BY <1>3, IdleType DEF ReplacePod
  <2>2. Taken' = {} /\ Writing' = {}
    BY <2>1, MapPhases DEF Phases
  <2>3. UNCHANGED <<Secret, exportEnv>> /\ files' = [p \in Paths |-> NoFile]
    BY <1>3 DEF ReplacePod, Secret
  <2>4. DOMAIN files = Paths
    BY DEF VInv, IInv, TypeOK
  <2>5. Volume!Replace
    BY <2>1, <2>2, <2>3, <2>4, SameContents DEF Volume!Replace
  <2>6. QED
    BY <2>5 DEF Volume!VolumeNext
<1>4. QED
  BY <1>1, <1>2, <1>3

\* A withdrawn TSecret keeps its generation and its data.
LEMMA Withdrawn ==
    ASSUME NEW D, NEW r \in [exists : BOOLEAN, gen : 1..MaxGen, data : D]
    PROVE  [r EXCEPT !.exists = FALSE] = [exists |-> FALSE, gen |-> r.gen, data |-> r.data]
<1> DEFINE q == [r EXCEPT !.exists = FALSE]
<1>1. /\ q \in [exists : BOOLEAN, gen : 1..MaxGen, data : D]
      /\ q.exists = FALSE /\ q.gen = r.gen /\ q.data = r.data
  OBVIOUS
<1> HIDE DEF q
<1>2. q = [exists |-> FALSE, gen |-> r.gen, data |-> r.data]
  BY <1>1
<1>3. QED
  BY <1>2 DEF q

LEMMA ClusterMaps ==
    ASSUME VInv, WriteTSecret \/ DeleteTSecret \/ RotateKey \/ UNCHANGED vars
    PROVE  [Volume!VolumeNext]_Volume!volumeVars
<1>0. UNCHANGED <<exportEnv, run, files>>
  BY DEF WriteTSecret, DeleteTSecret, RotateKey, vars
<1>1. UNCHANGED <<Taken, Writing>>
  BY <1>0 DEF Taken, Writing
<1>2. CASE WriteTSecret
  <2>1. PICK S \in SUBSET DataKeys : \E sealed \in [S -> 1..keyVer] :
           tsecret' = [exists |-> TRUE, gen |-> tsecret.gen + 1,
                       data |-> [k \in S |-> [value |-> tsecret.gen + 1,
                                              sealed |-> sealed[k]]]]
    BY <1>2 DEF WriteTSecret
  <2>2. PICK sealed \in [S -> 1..keyVer] :
           tsecret' = [exists |-> TRUE, gen |-> tsecret.gen + 1,
                       data |-> [k \in S |-> [value |-> tsecret.gen + 1,
                                              sealed |-> sealed[k]]]]
    BY <2>1
  <2>3. Plain(tsecret'.data) = [k \in S |-> tsecret.gen + 1]
    BY <2>2 DEF Plain
  <2>4. Secret' = [exists |-> TRUE, gen |-> Secret.gen + 1,
                   data |-> [k \in S |-> Secret.gen + 1]]
    BY <2>2, <2>3 DEF Secret
  <2>5. Volume!Publish
    BY <1>0, <1>1, <2>4 DEF Volume!Publish
  <2>6. QED
    BY <2>5 DEF Volume!VolumeNext
<1>3. CASE DeleteTSecret
  <2>1. /\ tsecret'.exists = FALSE /\ tsecret'.gen = tsecret.gen
        /\ tsecret'.data = tsecret.data
    BY <1>3 DEF DeleteTSecret, VInv, IInv, TypeOK
  <2>2. Secret' = [Secret EXCEPT !.exists = FALSE]
    <3>1. Secret' = [exists |-> FALSE, gen |-> tsecret.gen, data |-> Plain(tsecret.data)]
      BY <2>1 DEF Secret
    <3>2. /\ Secret \in [exists : BOOLEAN, gen : 1..MaxGen, data : {Plain(tsecret.data)}]
          /\ Secret.gen = tsecret.gen /\ Secret.data = Plain(tsecret.data)
      BY DEF Secret, VInv, IInv, TypeOK
    <3>3. QED
      BY <3>1, <3>2, Withdrawn
  <2>3. Volume!Withdraw
    BY <1>0, <1>1, <2>2 DEF Volume!Withdraw
  <2>4. QED
    BY <2>3 DEF Volume!VolumeNext
<1>4. CASE UNCHANGED tsecret
  BY <1>0, <1>1, <1>4 DEF Secret, Volume!volumeVars
<1>5. QED
  BY <1>2, <1>3, <1>4 DEF RotateKey, vars

LEMMA StepMaps == ASSUME VInv, [Next]_vars PROVE [Volume!VolumeNext]_Volume!volumeVars
BY ReadMaps, OpenFileMaps, FillFileMaps, LoaderMaps, KubeletMaps, ClusterMaps DEF Next, Step

\* However runs fail, are killed, are repeated on what others left and are
\* overtaken by new versions and keys: the volume is filled as SecretVolume
\* promises (writer.go:33-71), a file made once and whole for good, from one
\* version for each run, the loader last, the pod let go on nothing less.
THEOREM InjectImplementsVolume == Spec => ImplementsVolume
<1>1. VInv /\ [Next]_vars => [Volume!VolumeNext]_Volume!volumeVars
  BY StepMaps
<1>2. QED
  BY <1>1, VolumeInitMaps, VolumeInvariance, PTL DEF Spec, ImplementsVolume, Volume!VolumeSpec
=============================================================================
