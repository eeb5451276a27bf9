------------------------------ MODULE Providers ------------------------------
(***************************************************************************)
(* The clients of external vaults (pkg/providers) as functions of their    *)
(* configuration and of the world w they call: five providers behind one   *)
(* interface, each with its own way to authenticate, its own health check  *)
(* and its own reading of HTTP codes.                                      *)
(*                                                                         *)
(* The world is a record:                                                  *)
(*   service  "up", "standby", "sealed", "failing" (HTTP 500) or "gone"    *)
(*   identity the cloud credentials at hand: "ambient" (managed or         *)
(*            workload identity), "static" (environment variables),        *)
(*            "blank" (the metadata endpoint answers with no token), "none"*)
(*   grants   what the service lets the operator's token do                *)
(*   remote   remote[path]: the JSON properties of the secret stored there *)
(*   unwraps  unwraps[c]: the Transit key and the data key of ciphertext c *)
(*   secrets  secrets[<<namespace, name>>][field]: Kubernetes Secrets      *)
(*   stores   stores[<<kind, namespace, name>>]: the specs of the stores   *)
(* A string of bytes is [len, id]: its length and which one it is.         *)
(***************************************************************************)
EXTENDS Naturals, Sequences

Ok(x) == [ok |-> TRUE, val |-> x]
Err == [ok |-> FALSE]

Bytes(n, i) == [len |-> n, id |-> i]
NoBytes == Bytes(0, "")

\* The token that the service accepts.
GoodToken == Bytes(8, "good")

-----------------------------------------------------------------------------
(* The service (external).                                                 *)

NoReply == 0

\* The HTTP code of a request that needs the right op.
Reply(w, op, token) ==
    CASE w.service = "gone"    -> NoReply
      [] w.service = "failing" -> 500
      [] w.service = "sealed"  -> 503
      [] OTHER -> IF token # GoodToken THEN 401
                  ELSE IF op \in w.grants THEN 200 ELSE 403

ReadReply(w, token, path) ==
    IF Reply(w, "read", token) = 200 /\ path \notin DOMAIN w.remote
    THEN 404 ELSE Reply(w, "read", token)

\* Vault's /v1/sys/health asks for no token.  With the parameters the client
\* sends it answers 200 when sealed, and 473 on a performance standby.
VaultHealthReply(w) ==
    CASE w.service = "gone"    -> NoReply
      [] w.service = "failing" -> 500
      [] w.service = "standby" -> 473
      [] OTHER -> 200

-----------------------------------------------------------------------------
(* Construction and credentials.                                           *)

\* The sections of a SecretStoreProvider, in the order the factory tests them.
Kinds == <<"vault", "aws", "azure", "gcp", "oracle">>

\* The first section that is set decides, whatever follows it.  Each
\* constructor refuses a section with an empty required field.
NewProvider(spec) ==
    LET set   == {i \in 1..Len(Kinds) : Kinds[i] \in DOMAIN spec}
        first == CHOOSE i \in set : \A j \in set : i <= j
    IN IF set # {} /\ spec[Kinds[first]].complete
       THEN Ok([kind |-> Kinds[first], section |-> spec[Kinds[first]], token |-> NoBytes])
       ELSE Err

\* A Kubernetes Secret by a SecretKeyRef; an empty namespace is the resource's.
ReadRef(w, ref, namespace) ==
    LET at == <<IF ref.namespace = "" THEN namespace ELSE ref.namespace, ref.name>>
    IN IF at \in DOMAIN w.secrets /\ ref.key \in DOMAIN w.secrets[at]
       THEN Ok(w.secrets[at][ref.key])
       ELSE Err

\* Of Vault's auth methods only the token Secret is supported.
ConfigureVaultAuth(p, w, namespace) ==
    IF p.kind # "vault" \/ "tokenRef" \notin DOMAIN p.section THEN Err
    ELSE LET token == ReadRef(w, p.section.tokenRef, namespace)
         IN IF token.ok THEN Ok([p EXCEPT !.token = token.val]) ELSE Err

\* Azure, without managed identity: AZURE_CLIENT_SECRET with the tenant and
\* the client of the section.
AzureServicePrincipal(p, w) ==
    IF w.identity = "static" /\ p.section.principal
    THEN Ok([p EXCEPT !.token = GoodToken]) ELSE Err

\* Azure: managed identity first, and a 200 is taken whatever token is in it.
AzureEnsureToken(p, w) ==
    IF p.token.len # 0 THEN Ok(p)
    ELSE CASE w.identity = "ambient" -> Ok([p EXCEPT !.token = GoodToken])
           [] w.identity = "blank"   -> Ok([p EXCEPT !.token = NoBytes])
           [] OTHER                  -> AzureServicePrincipal(p, w)

\* GCP: the metadata server, or nothing: a credentials file is not implemented.
GCPEnsureToken(p, w) ==
    IF p.token.len # 0 THEN Ok(p)
    ELSE IF w.identity = "ambient" THEN Ok([p EXCEPT !.token = GoodToken])
    ELSE Err

\* AWS: signing is a placeholder; the request leaves as it is, unsigned.
AWSSignRequest(p, w) == IF w.identity \in {"ambient", "static"} THEN Ok(p) ELSE Err

\* Oracle: the same, and only a resource principal is looked for.
OracleSignRequest(p, w) == IF w.identity = "ambient" THEN Ok(p) ELSE Err

-----------------------------------------------------------------------------
(* Health checks.                                                          *)

\* Mutant: only an active Vault is healthy.
VaultHealthCheckActive(p, w) == VaultHealthReply(w) = 200

\* Any code below 500 is healthy: standbys are, and so is a sealed Vault.
VaultHealthCheck(p, w) == VaultHealthReply(w) \in 200..499

\* Azure, GCP and Oracle call a vault healthy unless the credentials are
\* refused: a 500 is healthy.  The first two list the secrets for it.
AzureHealthCheck(p, w) ==
    LET a == AzureEnsureToken(p, w)
    IN a.ok /\ Reply(w, "list", a.val.token) \notin {NoReply, 401, 403}

GCPHealthCheck(p, w) ==
    LET a == GCPEnsureToken(p, w)
    IN a.ok /\ Reply(w, "list", a.val.token) \notin {NoReply, 401, 403}

OracleHealthCheck(p, w) ==
    /\ OracleSignRequest(p, w).ok
    /\ Reply(w, "inspect", p.token) \notin {NoReply, 401, 403}

AWSHealthCheck(p, w) ==
    /\ AWSSignRequest(p, w).ok
    /\ Reply(w, "identity", p.token) = 200

HealthCheck(p, w) ==
    CASE p.kind = "vault"  -> VaultHealthCheck(p, w)
      [] p.kind = "aws"    -> AWSHealthCheck(p, w)
      [] p.kind = "azure"  -> AzureHealthCheck(p, w)
      [] p.kind = "gcp"    -> GCPHealthCheck(p, w)
      [] p.kind = "oracle" -> OracleHealthCheck(p, w)

-----------------------------------------------------------------------------
(* GetSecret of ref = [key, property]; paths are sequences of segments.    *)

\* The KV v2 path below a mount written with or without its trailing "data".
KvReadPath(mount, key) ==
    IF mount = <<>> THEN key
    ELSE LET m == Len(mount)
         IN (IF m > 1 /\ mount[m] = "data" THEN SubSeq(mount, 1, m - 1) ELSE mount)
            \o <<"data">> \o key

\* What is taken from a secret that was read: all of it, or one property.
Extract(w, path, property) ==
    IF property = "" \/ property \in w.remote[path] THEN Ok(<<path, property>>) ELSE Err

VaultGetSecret(p, w, ref) ==
    LET path == KvReadPath(p.section.path, ref.key)
    IN IF ReadReply(w, p.token, path) = 200 THEN Extract(w, path, ref.property) ELSE Err

AzureGetSecret(p, w, ref) ==
    LET a == AzureEnsureToken(p, w)
    IN IF a.ok /\ ReadReply(w, a.val.token, ref.key) = 200
       THEN Extract(w, ref.key, ref.property) ELSE Err

GCPGetSecret(p, w, ref) ==
    LET a == GCPEnsureToken(p, w)
    IN IF a.ok /\ ReadReply(w, a.val.token, ref.key) = 200
       THEN Extract(w, ref.key, ref.property) ELSE Err

AWSGetSecret(p, w, ref) ==
    IF AWSSignRequest(p, w).ok /\ ReadReply(w, p.token, ref.key) = 200
    THEN Extract(w, ref.key, ref.property) ELSE Err

OracleGetSecret(p, w, ref) ==
    IF OracleSignRequest(p, w).ok /\ ReadReply(w, p.token, ref.key) = 200
    THEN Extract(w, ref.key, ref.property) ELSE Err

GetSecret(p, w, ref) ==
    CASE p.kind = "vault"  -> VaultGetSecret(p, w, ref)
      [] p.kind = "aws"    -> AWSGetSecret(p, w, ref)
      [] p.kind = "azure"  -> AzureGetSecret(p, w, ref)
      [] p.kind = "gcp"    -> GCPGetSecret(p, w, ref)
      [] p.kind = "oracle" -> OracleGetSecret(p, w, ref)

-----------------------------------------------------------------------------
(* Vault as a key service.                                                 *)

\* The spec of a store by its SecretStoreRef.  No kind means TSecretStore
\* here, and the status of the store is not looked at.
ResolveVaultStore(w, ref, namespace) ==
    LET at == CASE ref.kind \in {"TSecretStore", ""} -> <<"TSecretStore", namespace, ref.name>>
                [] ref.kind = "ClusterTSecretStore"  -> <<ref.kind, "", ref.name>>
                [] OTHER -> <<>>
    IN IF at \in DOMAIN w.stores /\ "vault" \in DOMAIN w.stores[at]
       THEN Ok(w.stores[at]) ELSE Err

NewAuthenticatedVaultProvider(w, spec, namespace) ==
    LET p == NewProvider(spec)
    IN IF p.ok THEN ConfigureVaultAuth(p.val, w, namespace) ELSE Err

\* POST to Transit: anything but a 200 is an error.
TransitRequest(p, w, op) == Reply(w, op, p.token) = 200

\* The data key wrapped in c, unless another Transit key wrapped it.
TransitDecrypt(p, w, transitKey, c) ==
    IF /\ transitKey # "" /\ c.len # 0
       /\ TransitRequest(p, w, "decrypt")
       /\ c.id \in DOMAIN w.unwraps /\ w.unwraps[c.id].by = transitKey
    THEN Ok(w.unwraps[c.id].key) ELSE Err
=============================================================================
