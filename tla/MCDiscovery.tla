---------------------------- MODULE MCDiscovery ----------------------------
(* An instance of Discovery for TLC: two WebIDs that differ in nothing but an *)
(* escape, and two datasets, of which one may be described by both.           *)
EXTENDS Discovery, TLC

CONSTANTS a, d1, d2, t1, t2, j1, j2, j3

Plain == [name |-> a, coded |-> 0]
Escaped == [name |-> a, coded |-> 1]
MCWebId == {Plain, Escaped}

\* One dataset with two titles; or one, published in the name of somebody else,
\* beside another one without any title.
One == d1 :> [titles |-> {t1, t2}, publishers |-> {}]
Both == d1 :> [titles |-> {t1}, publishers |-> {Plain}]
        @@ d2 :> [titles |-> {}, publishers |-> {}]
MCSnapshot == {One, Both}

Symmetry == Permutations({j1, j2, j3})
=============================================================================
