------------------------------ MODULE MCApueDb ------------------------------
(***************************************************************************)
(* ApueDb for TLC: two processes that work on two chains.                  *)
(***************************************************************************)
EXTENDS ApueDbKV, TLC

CONSTANTS p1, p2, k1, k2, k3, a, b, c, c1, c2

\* k1 and k2 collide; k1 and k3 can reuse each other's records.
MCHash == (k1 :> c1) @@ (k2 :> c1) @@ (k3 :> c2)
MCKeyLen == (k1 :> 1) @@ (k2 :> 2) @@ (k3 :> 1)
MCDataLen == (a :> 2) @@ (b :> 2) @@ (c :> 3)

fetch(k) == [op |-> "fetch", key |-> k]
delete(k) == [op |-> "delete", key |-> k]
store(k, d, f) == [op |-> "store", key |-> k, data |-> d, flag |-> f]

MCMenu ==
    p1 :> {store(k1, a, DB_STORE), store(k1, b, DB_REPLACE), store(k1, c, DB_REPLACE), delete(k1)}
 @@ p2 :> {store(k2, a, DB_INSERT), store(k3, a, DB_STORE), delete(k2), fetch(k1)}

=============================================================================
