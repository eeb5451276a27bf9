----------------------------- MODULE SecretMirror -----------------------------
(***************************************************************************)
(* What a TSecretSync promises, without saying how: a copy of the source   *)
(* is made whole, from one generation of what the user wants, by nothing   *)
(* newer than the source and the keys as they are; what is acknowledged    *)
(* was copied before; and, where reconciles are ordered by a leader,       *)
(* neither the copy nor its parts go back.  The copy may be behind, may    *)
(* vanish, and may still be made after the user has withdrawn the wish.    *)
(***************************************************************************)
EXTENDS Naturals, Sequences

CONSTANTS
    MaxGen,   \* bound: generations of the wish
    Items,    \* Items[g]: the items generation g asks for
    EncRef,   \* EncRef[g]: the name of the key it is to be sealed under
    Ordered   \* only one process copies at a time

VARIABLES
    wanted,   \* [exists, gen]: the wish and its generation
    source,   \* source[x]: the version of each remote secret
    keys,     \* keys[k]: the version of each key
    copy,     \* [exists, gen, enc, data]: the copy
    copied,   \* the generations that were ever copied
    acked     \* the generation that is acknowledged, 0 if none is

mirrorVars == <<wanted, source, keys, copy, copied, acked>>

\* The remote secret that generation g wants under key k: the last item wins.
SourceOf(g, k) ==
    LET last == CHOOSE j \in 1..Len(Items[g]) :
                   /\ Items[g][j].secretKey = k
                   /\ \A m \in (j + 1)..Len(Items[g]) : Items[g][m].secretKey # k
    IN Items[g][last].remote

WantedKeys(g) == {Items[g][j].secretKey : j \in 1..Len(Items[g])}

\* c is the whole of generation g, made of nothing that is still to come.
Whole(c, g) ==
    /\ c.exists /\ c.gen = g /\ c.enc = EncRef[g]
    /\ DOMAIN c.data = WantedKeys(g)
    /\ \A k \in DOMAIN c.data :
          LET e == c.data[k]
          IN /\ e.remote = SourceOf(g, k) /\ e.version <= source[e.remote]
             /\ e.key = EncRef[g] /\ e.keyVersion <= keys[e.key]

\* new takes nothing from an older version than old did.
NotBehind(old, new) ==
    /\ new.gen >= old.gen
    /\ \A k \in DOMAIN old.data \cap DOMAIN new.data :
          /\ new.data[k].remote = old.data[k].remote =>
                new.data[k].version >= old.data[k].version
          /\ new.data[k].key = old.data[k].key =>
                new.data[k].keyVersion >= old.data[k].keyVersion

MirrorInit ==
    /\ wanted = [exists |-> TRUE, gen |-> 1]
    /\ source = [x \in DOMAIN source |-> 1]
    /\ keys = [k \in DOMAIN keys |-> 1]
    /\ ~copy.exists /\ copied = {}
    /\ acked = 0

Wish ==
    /\ wanted.exists
    /\ \/ wanted.gen < MaxGen /\ wanted' = [exists |-> TRUE, gen |-> wanted.gen + 1]
       \/ wanted' = [exists |-> FALSE, gen |-> wanted.gen]
    /\ UNCHANGED <<source, keys, copy, copied, acked>>

SourceMoves ==
    /\ \E x \in DOMAIN source : source' = [source EXCEPT ![x] = @ + 1]
    /\ UNCHANGED <<wanted, keys, copy, copied, acked>>

KeyRotates ==
    /\ \E k \in DOMAIN keys : keys' = [keys EXCEPT ![k] = @ + 1]
    /\ UNCHANGED <<wanted, source, copy, copied, acked>>

Copy ==
    /\ \E g \in 1..wanted.gen :
          /\ Whole(copy', g)
          /\ copied' = copied \cup {g}
          /\ Ordered => g >= acked
    /\ Ordered /\ copy.exists => NotBehind(copy, copy')
    /\ UNCHANGED <<wanted, source, keys, acked>>

Vanish ==
    /\ copy.exists /\ ~copy'.exists
    /\ UNCHANGED <<wanted, source, keys, copied, acked>>

Acknowledge ==
    /\ acked' \in copied /\ acked' >= acked
    /\ Ordered /\ copy.exists => copy.gen >= acked'
    /\ UNCHANGED <<wanted, source, keys, copy, copied>>

MirrorNext ==
    Wish \/ SourceMoves \/ KeyRotates \/ Copy \/ Vanish \/ Acknowledge

MirrorSpec == MirrorInit /\ [][MirrorNext]_mirrorVars
=============================================================================
