-------------------------- MODULE MCSyncController --------------------------
(* Small instances of SyncController for TLC. *)
EXTENDS SyncController, TLC

CONSTANTS r1, r2, user, password, x, y, k1, k2

\* Two keys of the target.  Generation 2 drops one item, names the other key
\* twice (the last item wins) and moves to another encryption key.
MCItems ==
    <<<<[secretKey |-> user, remote |-> x], [secretKey |-> password, remote |-> y]>>,
      <<[secretKey |-> user, remote |-> x], [secretKey |-> user, remote |-> y]>>>>
MCEncRef == <<k1, k2>>

\* One key, and a second generation under the same encryption key.
OneItem == <<<<[secretKey |-> user, remote |-> x]>>, <<[secretKey |-> user, remote |-> x]>>>>
OneRef == <<k1, k1>>

Symmetry == Permutations(Replicas)
=============================================================================
