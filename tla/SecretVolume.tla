----------------------------- MODULE SecretVolume -----------------------------
(***************************************************************************)
(* What an injected volume promises its pod, without saying how: each      *)
(* attempt to fill it works from one version of the TSecret, taken whole;  *)
(* a file is made once, and once it is whole it never changes; the loader  *)
(* is made after everything it names; and the pod starts only on a volume  *)
(* that has the whole version.  An attempt may be given up at any time and *)
(* leaves what it has written; only with the pod is the volume replaced.   *)
(***************************************************************************)
EXTENDS Naturals

CONSTANTS
    DataKeys,  \* the keys of the TSecret
    FileName,  \* FileName[k]: the path of the file of k
    Loader     \* the path of the loader

VARIABLES
    wantsLoader,  \* the pod is to have a loader
    secret,       \* [exists, gen, data]: the TSecret; data[k] is a plaintext
    taken,        \* the version this attempt took, as a set: {} before
    volume,       \* what is at each path
    writing,      \* the path that is open for writing, as a set
    ready         \* the pod has been let go

volumeVars == <<wantsLoader, secret, taken, volume, writing, ready>>

Nothing == [state |-> "none", value |-> 0, names |-> {}]
Begun == [state |-> "cut", value |-> 0, names |-> {}]
Holding(value) == [state |-> "full", value |-> value, names |-> {}]
Naming(data) ==
    [state |-> "full", value |-> 0, names |-> {FileName[k] : k \in DOMAIN data}]

\* The volume has all of this version.
Has(data) == \A k \in DOMAIN data : volume[FileName[k]] = Holding(data[k])

VolumeInit ==
    /\ wantsLoader \in BOOLEAN
    /\ secret.exists /\ secret.gen = 1 /\ \A k \in DOMAIN secret.data : secret.data[k] = 1
    /\ volume = [p \in DOMAIN volume |-> Nothing]
    /\ taken = {} /\ writing = {} /\ ready = FALSE

\* A version replaces the one before as a whole.
Publish ==
    /\ \E keys \in SUBSET DataKeys :
          secret' = [exists |-> TRUE, gen |-> secret.gen + 1,
                     data |-> [k \in keys |-> secret.gen + 1]]
    /\ UNCHANGED <<wantsLoader, taken, volume, writing, ready>>

Withdraw ==
    /\ secret' = [secret EXCEPT !.exists = FALSE]
    /\ UNCHANGED <<wantsLoader, taken, volume, writing, ready>>

Take ==
    /\ taken = {} /\ secret.exists
    /\ taken' = {secret.data}
    /\ UNCHANGED <<wantsLoader, secret, volume, writing, ready>>

\* A path where there is a file already is never opened.
Open(p) ==
    /\ writing = {} /\ ~ready /\ volume[p] = Nothing
    /\ writing' = {p} /\ volume' = [volume EXCEPT ![p] = Begun]
    /\ UNCHANGED <<wantsLoader, secret, taken, ready>>

OpenFile == \E data \in taken : \E k \in DOMAIN data : Open(FileName[k])

OpenLoader == wantsLoader /\ (\E data \in taken : Has(data)) /\ Open(Loader)

FillFile ==
    /\ \E data \in taken : \E k \in DOMAIN data :
          /\ writing = {FileName[k]}
          /\ volume' = [volume EXCEPT ![FileName[k]] = Holding(data[k])]
    /\ writing' = {}
    /\ UNCHANGED <<wantsLoader, secret, taken, ready>>

\* The loader is the last thing written.
FillLoader ==
    /\ writing = {Loader} /\ writing' = {}
    /\ \E data \in taken : Has(data) /\ volume' = [volume EXCEPT ![Loader] = Naming(data)]
    /\ ready' = TRUE
    /\ UNCHANGED <<wantsLoader, secret, taken>>

LetGo ==
    /\ ~wantsLoader /\ writing = {}
    /\ \E data \in taken : Has(data)
    /\ ready' = TRUE
    /\ UNCHANGED <<wantsLoader, secret, taken, volume, writing>>

GiveUp ==
    /\ taken' = {} /\ writing' = {} /\ ready' = FALSE
    /\ UNCHANGED <<wantsLoader, secret, volume>>

Replace ==
    /\ taken' = {} /\ writing' = {} /\ ready' = FALSE
    /\ volume' = [p \in DOMAIN volume |-> Nothing]
    /\ UNCHANGED <<wantsLoader, secret>>

VolumeNext ==
    \/ Publish \/ Withdraw
    \/ Take \/ OpenFile \/ OpenLoader \/ FillFile \/ FillLoader \/ LetGo
    \/ GiveUp \/ Replace

VolumeSpec == VolumeInit /\ [][VolumeNext]_volumeVars
=============================================================================
