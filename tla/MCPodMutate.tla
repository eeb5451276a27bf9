----------------------------- MODULE MCPodMutate -----------------------------
(* Small pods for PodMutate: two containers and an init container of the     *)
(* pod's own, two names, a volume of the user's, and one with the automatic  *)
(* name of the first secret.                                                 *)
EXTENDS PodMutate, TLC

CONSTANTS app, side, setup, db, api, own, vdb, vapi, p1, p2, pdb, papi, DB

MCAutoVolume == db :> vdb @@ api :> vapi
MCDefaultPath == db :> pdb @@ api :> papi
MCAppOrder == <<app, side>>
MCInitOrder == <<setup>>

\* References by env, and by envFrom with a prefix.
ByEnv(s) == [secret |-> s, prefix |-> NoPrefix]
ByEnvFrom(s) == [secret |-> s, prefix |-> DB]

Mounts(inOwn, inVdb) == own :> inOwn @@ vdb :> inVdb @@ vapi :> None

MCRequests ==
    {[volumes |-> own :> volumes[1] @@ vdb :> volumes[2] @@ vapi :> None,
      mounts |-> app :> Mounts(a1, a2) @@ side :> Mounts(s1, None) @@ setup :> Mounts(None, i1),
      refs |-> app :> ra @@ side :> rs @@ setup :> ri,
      exports |-> ex, entrypoint |-> en,
      injectors |-> <<>>, sources |-> [c \in Containers |-> {}]] :
        volumes \in {<<None, None>>, <<db, None>>, <<None, db>>, <<api, db>>},
        a1 \in {None, p1}, a2 \in {None, p2}, s1 \in {None, p1, p2}, i1 \in {None, p2},
        ra \in {{}, {ByEnvFrom(db)}, {ByEnv(api), ByEnvFrom(db)}},
        rs \in {{}, {ByEnv(db)}}, ri \in {{}, {ByEnv(api)}, {ByEnv(db)}},
        ex \in {{}, {app}, Containers}, en \in {{app}, Containers}}

\* Kubernetes refuses a mount of a volume that is not there.
Mountable(p) == \A c \in Containers, x \in VolumeNames : p.mounts[c][x] # None => p.volumes[x] # None

SmallRequests == {p \in MCRequests : Mountable(p)}
=============================================================================
