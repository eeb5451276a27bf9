---------------------------- MODULE MCObjectStatus ----------------------------
(* Small instances of ObjectStatus for TLC. *)
EXTENDS ObjectStatus, TLC

-----------------------------------------------------------------------------
(* Stores: one of each provider, and the ways to configure Vault wrongly.  *)

TokenRef == [name |-> "vault-token", key |-> "token", namespace |-> ""]

Vault(mount)  == [complete |-> TRUE, path |-> mount, tokenRef |-> TokenRef]
VaultByRole   == [complete |-> TRUE, path |-> <<"kv">>]
NoServer      == [complete |-> FALSE, path |-> <<"kv">>, tokenRef |-> TokenRef]
Cloud         == [complete |-> TRUE, principal |-> TRUE]

Nothing == [k \in {} |-> k]

MCStoreSpecs == [
    noServer |-> [vault |-> NoServer],
    byRole   |-> [vault |-> VaultByRole],
    vault    |-> [vault |-> Vault(<<"kv">>)],
    both     |-> [vault |-> Vault(<<"kv", "data">>), azure |-> Cloud],
    azure    |-> [azure |-> Cloud],
    gcp      |-> [gcp |-> Cloud],
    aws      |-> [aws |-> Cloud],
    oracle   |-> [oracle |-> Cloud]]

\* Two items that read one secret, whole and by a property.
MCWanted == {[key |-> <<"db">>, property |-> ""], [key |-> <<"db">>, property |-> "user"]}

-----------------------------------------------------------------------------
(* Worlds.                                                                 *)

Key1 == Bytes(KeySize, "k1")
Key2 == Bytes(KeySize, "k2")
All == {"read", "list", "decrypt"}

\* Kubernetes Secrets: Vault's token, a raw key, and a wrapped one.
Secrets(token, key) ==
    (<<"ns", "vault-token">> :> [token |-> token])
    @@ (<<"ns", "key">> :> ("encryption-key" :> key))
    @@ (<<"ns", "dek">> :> [ciphertext |-> Bytes(60, "wrapped")])

World(service, identity, grants, secrets, paths) ==
    [service |-> service, identity |-> identity, grants |-> grants, secrets |-> secrets,
     remote  |-> [path \in paths |-> {"user"}],
     unwraps |-> "wrapped" :> [by |-> "kek", key |-> Key1],
     stores  |-> <<"TSecretStore", "ns", "vault">> :> [vault |-> Vault(<<"kv">>)]]

Paths == {<<"kv", "data", "db">>, <<"db">>}
Good == Secrets(GoodToken, Key1)

MCStoreWorlds == [
    up      |-> World("up", "ambient", All, Good, Paths),
    standby |-> World("standby", "static", All, Good, Paths),
    sealed  |-> World("sealed", "ambient", All, Good, Paths),
    failing |-> World("failing", "ambient", All, Good, Paths),
    gone    |-> World("gone", "static", All, Good, Paths),
    noList  |-> World("up", "ambient", {"read"}, Good, Paths),
    blank   |-> World("up", "blank", All, Secrets(NoBytes, Key1), Paths),
    nothing |-> World("up", "none", All, Nothing, {})]

MCTSecretWorlds == [
    up      |-> World("up", "none", All, Good, {}),
    rotated |-> World("up", "none", All, Secrets(GoodToken, Key2), {}),
    short   |-> World("up", "none", {"read"}, Secrets(GoodToken, Bytes(16, "k1")), {}),
    gone    |-> World("gone", "none", All, Nothing, {})]

-----------------------------------------------------------------------------
(* TSecrets.                                                               *)

SealedSecret(n) == [provider |-> "sealed-secret", name |-> n, namespace |-> ""]
Transit(kek) ==
    [provider |-> "vault-transit", name |-> kek, namespace |-> "",
     vaultTransit |-> [storeRef |-> [kind |-> "", name |-> "vault"],
                       wrappedKeySecret |-> [name |-> "dek", key |-> "ciphertext",
                                             namespace |-> ""]]]

\* The command-line tool with a key in a file; the second argument has no "=".
Typed(algorithm) ==
    EncryptArgs(<<[pair |-> TRUE, name |-> "u", value |-> "p"], [pair |-> FALSE]>>,
                <<Key1>>, <<>>, algorithm)

Value(algorithm) == Typed(algorithm)[1].value
Entry(value, algorithm) == [value |-> value, algorithm |-> algorithm]
TSecret(ref, data) == [encryptionRef |-> ref, data |-> data]

\* And what else can be done to a value by hand.
Damaged(change, ref) == TSecret(ref, [u |-> Entry(change, X), v |-> Entry(Value(X), X)])

MCTSecretSpecs == [
    sealed   |-> TSecret(SealedSecret("key"), [u |-> Entry(Value(X), X), v |-> Entry(Value(C), X)]),
    transit  |-> TSecret(Transit("kek"), [u |-> Entry(Value(C), C)]),
    declared |-> TSecret(SealedSecret("key"), [u |-> Entry(Value(X), "aes-256-gcm")]),
    aes      |-> Damaged([Value(X) EXCEPT !.algorithm = "aes-256-gcm"], SealedSecret("key")),
    renamed  |-> Damaged([Value(X) EXCEPT !.algorithm = C], SealedSecret("key")),
    junk     |-> Damaged([Value(X) EXCEPT !.body = Junk], Transit("kek")),
    nonce    |-> Damaged([Value(X) EXCEPT !.nonce = 3], SealedSecret("key")),
    prefix   |-> Damaged([Value(X) EXCEPT !.prefix = FALSE], SealedSecret("key"))]

-----------------------------------------------------------------------------

MCSpecs == [TSecretStore |-> MCStoreSpecs, TSecret |-> MCTSecretSpecs,
            ClusterTSecretStore |-> [empty |-> Nothing, vault |-> [vault |-> Vault(<<"kv">>)],
                                     gcp |-> [gcp |-> Cloud]]]
MCWorlds == [TSecretStore |-> MCStoreWorlds, TSecret |-> MCTSecretWorlds,
             ClusterTSecretStore |-> [w \in {"up", "failing", "gone"} |-> MCStoreWorlds[w]]]
=============================================================================
