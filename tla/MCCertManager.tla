---------------------------- MODULE MCCertManager ----------------------------
(* Small instances of CertManager for TLC. *)
EXTENDS CertManager, TLC

CONSTANTS r1, r2, ca1, ca2, ca3, ca4

\* Processes are interchangeable.
Symmetry == Permutations(Replicas)
=============================================================================
