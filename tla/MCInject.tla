------------------------------ MODULE MCInject ------------------------------
(* Small instances of Inject for TLC: two keys, with and without load-env.sh. *)
EXTENDS Inject, TLC

CONSTANTS a, b, pa, pb

\* The files of the keys a and b under the prefix p.
MCFileName == a :> pa @@ b :> pb
=============================================================================
