------------------------------- MODULE Inject -------------------------------
(***************************************************************************)
(* The tsecret-inject init container (cmd/inject/main.go and               *)
(* pkg/inject/writer.go) of one pod, run by the kubelet against an         *)
(* emptyDir that outlives the container.                                   *)
(*                                                                         *)
(* Write reads the TSecret, then the key, decrypts entry after entry in    *)
(* the random order of a Go map, and writes each to a file of mode 0400;   *)
(* with --export-env it then writes load-env.sh, mode 0500, that names the *)
(* files.  The container has an ordinary uid and no capabilities           *)
(* (mutate.go:315-322), so a file that exists cannot be opened for writing *)
(* again.  The kubelet restarts a failed init container on the same        *)
(* volume, and runs the init containers again when the sandbox is lost.    *)
(***************************************************************************)
EXTENDS Naturals

CONSTANTS
    DataKeys,       \* the keys of the TSecret
    FileNames,      \* the names of files under the mount path
    FileName,       \* FileName[k]: prefix + k
    Loader,         \* load-env.sh
    MaxGen,         \* bound: writes of the TSecret
    MaxKeyVersion,  \* bound: versions of the encryption key
    MaxFaults       \* bound: kills, lost sandboxes, failed calls, deletions

ASSUME BoundsAssumption ==
    /\ MaxGen \in Nat \ {0}
    /\ MaxKeyVersion \in Nat \ {0}
    /\ MaxFaults \in Nat
    /\ DataKeys # {}

\* Distinct keys have distinct files, and no key's file is the loader.
ASSUME NamesAssumption ==
    /\ FileName \in [DataKeys -> FileNames]
    /\ \A j, k \in DataKeys : FileName[j] = FileName[k] => j = k
    /\ Loader \notin FileNames

VARIABLES
    exportEnv,  \* --export-env
    tsecret,    \* the stored TSecret: its entries, and the write they come from
    keyVer,     \* the version of the encryption key now stored
    run,        \* the run of the init container
    files,      \* the files on the emptyDir
    faults      \* how many faults have happened

vars == <<exportEnv, tsecret, keyVer, run, files, faults>>

-----------------------------------------------------------------------------
(* Data. *)

\* A TSecretEntry: the write of the TSecret whose plaintext it holds, and the
\* version of the key it was sealed under.
Entry == [value : 1..MaxGen, sealed : 1..MaxKeyVersion]

Maps == UNION {[S -> Entry] : S \in SUBSET DataKeys}

EmptyMap == [k \in {} |-> k]

\* A path: no file, a file cut short by a kill, or a whole one, which has a
\* value or, for the loader, the names it exports.
Content == [state : {"none", "cut", "full"}, value : 0..MaxGen, names : SUBSET FileNames]
NoFile == [state |-> "none", value |-> 0, names |-> {}]
Empty == [state |-> "cut", value |-> 0, names |-> {}]
Value(g) == [state |-> "full", value |-> g, names |-> {}]
Script(names) == [state |-> "full", value |-> 0, names |-> names]

Paths == FileNames \cup {Loader}

\* Mutant: the loader exports the keys without the prefix.
FilesOfNoPrefix(keys) == keys

\* The names under which the entries of these keys are written.
FilesOf(keys) == {FileName[k] : k \in keys}

\* A container that has not started.
Idle == [pc |-> "waiting", data |-> EmptyMap, key |-> 1, todo |-> {},
         open |-> CHOOSE k \in DataKeys : TRUE, err |-> "none"]

Fault ==
    /\ faults < MaxFaults
    /\ faults' = faults + 1

-----------------------------------------------------------------------------
(* The webhook injects the container only once the TSecret exists.         *)

Init ==
    /\ exportEnv \in BOOLEAN
    /\ tsecret \in {[exists |-> TRUE, gen |-> 1, data |-> d] :
                       d \in UNION {[S -> {[value |-> 1, sealed |-> 1]}] :
                                       S \in SUBSET DataKeys}}
    /\ keyVer = 1
    /\ run = Idle
    /\ files = [p \in Paths |-> NoFile]
    /\ faults = 0

-----------------------------------------------------------------------------
(* Write.                                                                  *)

\* `return fmt.Errorf(...)`: run prints it and exits 1.
Fail(err) == run' = [run EXCEPT !.pc = "failed", !.err = err]

\* c.Get of the TSecret, by a client without a cache.
GetTSecret ==
    /\ run.pc = "get"
    /\ \/ /\ tsecret.exists
          /\ run' = [run EXCEPT !.pc = "key", !.data = tsecret.data]
          /\ UNCHANGED faults
       \/ ~tsecret.exists /\ Fail("cluster") /\ UNCHANGED faults
       \/ Fault /\ Fail("cluster")
    /\ UNCHANGED <<exportEnv, tsecret, keyVer, files>>

\* Mutant: the key is taken from where it was when the image was built.
ResolvedKeyOld == 1

\* What keyResolver.ResolveKey returns: the key as it is now, which need not
\* be the one the TSecret just read was sealed under.
ResolvedKey == keyVer

\* ResolveKey once for all entries, then MkdirAll.
ResolveKey ==
    /\ run.pc = "key"
    /\ \/ /\ run' = [run EXCEPT !.pc = "write", !.key = ResolvedKey,
                                !.todo = DOMAIN run.data]
          /\ UNCHANGED faults
       \/ Fault /\ Fail("cluster")
    /\ UNCHANGED <<exportEnv, tsecret, keyVer, files>>

\* Mutant: the container may write what it has made read-only.
CanCreateAgain(p) == TRUE

\* os.WriteFile opens with O_CREATE and O_TRUNC.  It creates a new file; an
\* old one has no write permission, so the open fails with EACCES.
CanCreate(p) == files[p].state = "none"

\* os.WriteFile makes the file and then fills it: a kill in between leaves it
\* empty.
Create(p) == files' = [files EXCEPT ![p] = Empty]

\* crypto.Decrypt fails under any other key than the one that sealed.
Decrypts(k) == run.data[k].sealed = run.key

\* Mutant: an entry that does not decrypt is skipped.
DecryptSkips(k) == run' = [run EXCEPT !.todo = @ \ {k}]

\* The first entry that does not decrypt ends the run.
DecryptFails(k) == Fail("sealed")

\* Any entry left is next: Decrypt, then the open of its file.
OpenFile(k) ==
    /\ run.pc = "write" /\ k \in run.todo
    /\ \/ ~Decrypts(k) /\ DecryptFails(k) /\ UNCHANGED files
       \/ Decrypts(k) /\ ~CanCreate(FileName[k]) /\ Fail("file") /\ UNCHANGED files
       \/ /\ Decrypts(k) /\ CanCreate(FileName[k])
          /\ Create(FileName[k])
          /\ run' = [run EXCEPT !.pc = "fill", !.open = k]
    /\ UNCHANGED <<exportEnv, tsecret, keyVer, faults>>

\* The write into the file just opened.
FillFile ==
    /\ run.pc = "fill"
    /\ files' = [files EXCEPT ![FileName[run.open]] = Value(run.data[run.open].value)]
    /\ run' = [run EXCEPT !.pc = "write", !.todo = @ \ {run.open}]
    /\ UNCHANGED <<exportEnv, tsecret, keyVer, faults>>

\* Mutant: load-env.sh is written before the loop ends.
LoopDoneEarly == TRUE

\* The loop over tsecret.Spec.Data is over.
LoopDone == run.todo = {}

\* Write returns nil and the process exits 0.
Finish ==
    /\ run.pc = "write" /\ LoopDone /\ ~exportEnv
    /\ run' = [run EXCEPT !.pc = "done"]
    /\ UNCHANGED <<exportEnv, tsecret, keyVer, files, faults>>

\* WriteEnvLoader opens load-env.sh.
OpenLoader ==
    /\ run.pc = "write" /\ LoopDone /\ exportEnv
    /\ \/ /\ CanCreate(Loader)
          /\ Create(Loader)
          /\ run' = [run EXCEPT !.pc = "loader"]
       \/ /\ ~CanCreate(Loader)
          /\ Fail("file")
          /\ UNCHANGED files
    /\ UNCHANGED <<exportEnv, tsecret, keyVer, faults>>

\* It names every file of this run; then the process exits 0.
FillLoader ==
    /\ run.pc = "loader"
    /\ files' = [files EXCEPT ![Loader] = Script(FilesOf(DOMAIN run.data))]
    /\ run' = [run EXCEPT !.pc = "done"]
    /\ UNCHANGED <<exportEnv, tsecret, keyVer, faults>>

-----------------------------------------------------------------------------
(* The kubelet.                                                            *)

\* The container starts, the first time or after the back-off.
Start ==
    /\ run.pc \in {"waiting", "failed"}
    /\ run' = [Idle EXCEPT !.pc = "get"]
    /\ UNCHANGED <<exportEnv, tsecret, keyVer, files, faults>>

\* The process is killed (memory limit, eviction of the container).
Kill ==
    /\ run.pc \in {"get", "key", "write", "fill", "loader"}
    /\ Fault
    /\ Fail("killed")
    /\ UNCHANGED <<exportEnv, tsecret, keyVer, files>>

\* The pod's sandbox is lost: its init containers run again on its volumes.
SandboxLost ==
    /\ run.pc = "done"
    /\ Fault
    /\ run' = Idle
    /\ UNCHANGED <<exportEnv, tsecret, keyVer, files>>

\* The pod is deleted and its owner makes another, with a new emptyDir.
ReplacePod ==
    /\ Fault
    /\ run' = Idle
    /\ files' = [p \in Paths |-> NoFile]
    /\ UNCHANGED <<exportEnv, tsecret, keyVer>>

-----------------------------------------------------------------------------
(* The cluster.                                                            *)

\* The sync controller or a user writes the TSecret: any keys, each sealed
\* under the key as it is or as it was (SyncController: a rotation can come
\* between two entries of one reconcile).
WriteTSecret ==
    /\ tsecret.gen < MaxGen
    /\ \E S \in SUBSET DataKeys : \E sealed \in [S -> 1..keyVer] :
          tsecret' = [exists |-> TRUE, gen |-> tsecret.gen + 1,
                      data |-> [k \in S |-> [value |-> tsecret.gen + 1,
                                             sealed |-> sealed[k]]]]
    /\ UNCHANGED <<exportEnv, keyVer, run, files, faults>>

DeleteTSecret ==
    /\ tsecret.exists
    /\ Fault
    /\ tsecret' = [tsecret EXCEPT !.exists = FALSE]
    /\ UNCHANGED <<exportEnv, keyVer, run, files>>

RotateKey ==
    /\ keyVer < MaxKeyVersion
    /\ keyVer' = keyVer + 1
    /\ UNCHANGED <<exportEnv, tsecret, run, files, faults>>

-----------------------------------------------------------------------------

Step ==
    \/ Start \/ GetTSecret \/ ResolveKey
    \/ \E k \in DataKeys : OpenFile(k)
    \/ FillFile \/ Finish \/ OpenLoader \/ FillLoader

Next ==
    \/ Step
    \/ Kill \/ SandboxLost \/ ReplacePod
    \/ WriteTSecret \/ DeleteTSecret \/ RotateKey

Spec == Init /\ [][Next]_vars

\* The kubelet keeps restarting a failed init container, and a container
\* that runs takes its steps.
FairSpec == Spec /\ WF_vars(Step)

-----------------------------------------------------------------------------
(* Properties.                                                             *)

TypeOK ==
    /\ exportEnv \in BOOLEAN
    /\ tsecret \in [exists : BOOLEAN, gen : 1..MaxGen, data : Maps]
    /\ keyVer \in 1..MaxKeyVersion
    /\ run \in [pc : {"waiting", "get", "key", "write", "fill", "loader", "done", "failed"},
                data : Maps, key : 1..MaxKeyVersion, todo : SUBSET DataKeys,
                open : DataKeys,
                err : {"none", "cluster", "sealed", "file", "killed"}]
    /\ files \in [Paths -> Content]
    /\ faults \in 0..MaxFaults

\* The containers of the pod start only after an exit 0, and then the volume
\* has, for every key of one version of the TSecret, its whole plaintext, and
\* load-env.sh exports exactly those: whatever earlier runs were killed, and
\* whatever they left on the volume (writer.go:48-68).
DoneMeansComplete ==
    run.pc = "done" =>
        /\ \A k \in DOMAIN run.data : files[FileName[k]] = Value(run.data[k].value)
        /\ exportEnv => files[Loader] = Script(FilesOf(DOMAIN run.data))

\* A load-env.sh that is whole never names a file that is missing or cut
\* short, nor files of two versions of the TSecret, also when a later run has
\* started or died on the same volume (writer.go:62-86).
LoaderIsLast ==
    files[Loader].state = "full" =>
        /\ \A p \in files[Loader].names : files[p].state = "full"
        /\ \A p, q \in files[Loader].names : files[p].value = files[q].value

-----------------------------------------------------------------------------
(* The abstract specification.                                             *)

\* Plaintexts, whichever key they are sealed under.
Plain(data) == [k \in DOMAIN data |-> data[k].value]

Secret == [exists |-> tsecret.exists, gen |-> tsecret.gen, data |-> Plain(tsecret.data)]

\* The version this run works from, once it has read the TSecret.
Taken == IF run.pc \in {"key", "write", "fill", "loader", "done"}
         THEN {Plain(run.data)} ELSE {}

\* What is open between the two steps of os.WriteFile.
Writing == CASE run.pc = "fill"   -> {FileName[run.open]}
             [] run.pc = "loader" -> {Loader}
             [] OTHER             -> {}

Volume == INSTANCE SecretVolume WITH
    wantsLoader <- exportEnv,
    secret      <- Secret,
    taken       <- Taken,
    volume      <- files,
    writing     <- Writing,
    ready       <- (run.pc = "done")

\* However runs fail, are killed, are repeated on what others left, and are
\* overtaken by new versions and keys: the volume is filled as SecretVolume
\* promises it (writer.go:33-71).  In particular a file that is whole stays as
\* it is under a container that has read it, until the pod is replaced.
ImplementsVolume == Volume!VolumeSpec

-----------------------------------------------------------------------------
(* Liveness, and what the comment says.                                    *)

Decryptable ==
    tsecret.exists /\ \A k \in DOMAIN tsecret.data : tsecret.data[k].sealed = keyVer

\* Once the TSecret stays readable the pod is injected for good, unless files
\* of an earlier run are in the way: nothing else can hold it back.
OnlyOldFilesWedge ==
    <>[]Decryptable =>
        \/ <>[](run.pc = "done")
        \/ <>[](run.pc # "done" /\ \E p \in Paths : files[p] # NoFile)

\* writer.go:23 says that Write "decrypts a TSecret and writes each key as a
\* file under mountPath": a run that decrypted a key is not refused its file.
\* (The model's volume never fails by itself.)
WritesEachKey == run.pc = "failed" => run.err # "file"
=============================================================================
