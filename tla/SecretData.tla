------------------------------ MODULE SecretData ------------------------------
(***************************************************************************)
(* Keys and ciphertexts as functions: the resolution of an EncryptionRef   *)
(* (pkg/webhook/keyresolver.go), the wire format and the cipher            *)
(* (pkg/crypto/encrypt.go), and the command-line tool that seals values    *)
(* by hand (cmd/encrypt).                                                  *)
(***************************************************************************)
EXTENDS Providers

KeySize == 32

-----------------------------------------------------------------------------
(* Key resolution.                                                         *)

\* The raw key in the field "encryption-key" of a Kubernetes Secret.
ResolveFromSecret(w, name, namespace) ==
    LET k == ReadRef(w, [name |-> name, key |-> "encryption-key", namespace |-> namespace], "")
    IN IF k.ok /\ k.val.len = KeySize THEN k ELSE Err

\* A data key that is stored wrapped, and unwrapped by the Vault of a store.
ResolveFromVaultTransit(w, ref, namespace) ==
    IF "vaultTransit" \notin DOMAIN ref \/ ref.name = "" THEN Err
    ELSE LET wrapped == ReadRef(w, ref.vaultTransit.wrappedKeySecret, namespace)
             store   == ResolveVaultStore(w, ref.vaultTransit.storeRef, namespace)
         IN IF ~wrapped.ok \/ ~store.ok THEN Err
            ELSE LET p == NewAuthenticatedVaultProvider(w, store.val, namespace)
                 IN IF ~p.ok THEN Err
                    ELSE LET dek == TransitDecrypt(p.val, w, ref.name, wrapped.val)
                         IN IF dek.ok /\ dek.val.len = KeySize THEN dek ELSE Err

\* The other providers of the API ("aws-kms", ...) are not implemented.
ResolveKey(w, ref, namespace) ==
    CASE ref.provider = "sealed-secret" ->
            ResolveFromSecret(w, ref.name, IF ref.namespace = "" THEN namespace
                                                                 ELSE ref.namespace)
      [] ref.provider = "vault-transit" -> ResolveFromVaultTransit(w, ref, namespace)
      [] OTHER -> Err

-----------------------------------------------------------------------------
(* The wire format.  A value is a record: whether the outer base64 decodes *)
(* (outer) to a text with the prefix (prefix), the number of parts after   *)
(* it (parts, at most 3), the algorithm named in the first, whether the    *)
(* base64 of the others decodes (raw), the length of the nonce, and what   *)
(* the ciphertext was sealed from, or Junk.                                *)

Junk == [is |-> "junk"]
Sealed(key, algorithm, plain) ==
    [is |-> "sealed", key |-> key, algorithm |-> algorithm, plain |-> plain]

X == "xchacha20-poly1305"
C == "chacha20-poly1305"

SupportedAlgorithms == {X, C}
IsSupported(a) == a \in SupportedAlgorithms

NonceSize(a) == IF a = X THEN 24 ELSE 12

\* The cipher takes a key of 32 bytes and a known algorithm.
NewAEAD(key, a) == key.len = KeySize /\ IsSupported(a)

\* Mutant: the text names the default algorithm, whatever sealed it.
EncryptNamesDefault(plain, key, a) ==
    IF NewAEAD(key, a)
    THEN Ok([outer |-> TRUE, prefix |-> TRUE, parts |-> 3, algorithm |-> X,
             raw |-> TRUE, nonce |-> NonceSize(a), body |-> Sealed(key, a, plain)])
    ELSE Err

Encrypt(plain, key, a) ==
    IF NewAEAD(key, a)
    THEN Ok([outer |-> TRUE, prefix |-> TRUE, parts |-> 3, algorithm |-> a,
             raw |-> TRUE, nonce |-> NonceSize(a), body |-> Sealed(key, a, plain)])
    ELSE Err

ParseEncryptedValue(v) ==
    IF v.outer /\ v.prefix /\ v.parts = 3 /\ v.raw THEN Ok(v) ELSE Err

\* Mutant: any algorithm passes.
IsValidAnyAlgorithm(v) == ParseEncryptedValue(v).ok

\* Neither the length of the nonce nor that of the ciphertext is looked at.
IsValidEncryptedValue(v) == ParseEncryptedValue(v).ok /\ IsSupported(v.algorithm)

\* "plain", or the error: of the format, of the algorithm or key size, or of
\* the authentication.  The cipher panics on a nonce of the wrong length.
Decrypt(v, key) ==
    IF ~ParseEncryptedValue(v).ok THEN "format"
    ELSE IF ~NewAEAD(key, v.algorithm) THEN "cipher"
    ELSE IF v.nonce # NonceSize(v.algorithm) THEN "panic"
    ELSE IF v.body.is = "sealed" /\ v.body.key = key /\ v.body.algorithm = v.algorithm
         THEN "plain" ELSE "authentication"

-----------------------------------------------------------------------------
(* cmd/encrypt.  An argument is [pair, name, value]: a pair if it has "=".  *)

\* A flag is <<>> when it is not given, else the bytes it names (NoBytes when
\* they cannot be read or decoded).  The file wins over the argument.
LoadKey(keyFile, keyB64) ==
    LET given == keyFile \o keyB64
    IN IF given # <<>> /\ given[1].len = KeySize THEN Ok(given[1]) ELSE Err

\* The lines printed: up to the first argument that is not a pair, all of
\* them if there is none, and no line if the key or the algorithm is refused.
EncryptArgs(args, keyFile, keyB64, algorithm) ==
    LET key == LoadKey(keyFile, keyB64)
        n   == CHOOSE i \in 0..Len(args) :
                  /\ \A j \in 1..i : args[j].pair
                  /\ i < Len(args) => ~args[i + 1].pair
    IN IF key.ok /\ NewAEAD(key.val, algorithm)
       THEN [i \in 1..n |-> [name  |-> args[i].name,
                             value |-> Encrypt(args[i].value, key.val, algorithm).val]]
       ELSE <<>>
=============================================================================
