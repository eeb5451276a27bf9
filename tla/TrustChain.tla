------------------------------ MODULE TrustChain ------------------------------
(***************************************************************************)
(* What the operator promises of the webhook's certificates, without       *)
(* saying how: there is one CA at a time; what signs the certificate and   *)
(* what the API server is told to trust are CAs that were stored; and as   *)
(* long as nobody takes the CA away, there is only ever one, the           *)
(* certificate is signed by it before it is trusted, and neither the       *)
(* certificate nor the trust is withdrawn or changed.                      *)
(***************************************************************************)

CONSTANT NoCA

VARIABLES
    ca,      \* the stored CA
    ever,    \* the CAs that were ever stored
    signer,  \* the CA of the stored certificate
    bundle,  \* the CA the API server trusts
    taken    \* the CA was taken away, by deletion or by a second bootstrap

trustVars == <<ca, ever, signer, bundle, taken>>

TrustInit ==
    /\ ca = NoCA /\ ever = {NoCA}
    /\ signer = NoCA /\ bundle = NoCA
    /\ taken = FALSE

Establish ==
    /\ ca = NoCA \/ taken
    /\ ca' # NoCA
    /\ ever' = ever \cup {ca'}
    /\ UNCHANGED <<signer, bundle, taken>>

TakeAway ==
    /\ taken' = TRUE
    /\ ca' \in {ca, NoCA}
    /\ UNCHANGED <<ever, signer, bundle>>

Sign ==
    /\ signer' \in ever \ {NoCA}
    /\ ~taken => signer' = ca
    /\ UNCHANGED <<ca, ever, bundle, taken>>

Trust ==
    /\ bundle' \in ever \ {NoCA}
    /\ ~taken => bundle' = signer
    /\ UNCHANGED <<ca, ever, signer, taken>>

TrustNext == Establish \/ TakeAway \/ Sign \/ Trust

TrustSpec == TrustInit /\ [][TrustNext]_trustVars
=============================================================================
