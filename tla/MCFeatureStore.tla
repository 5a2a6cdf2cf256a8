--------------------------- MODULE MCFeatureStore ---------------------------
(***************************************************************************)
(* Instances of FeatureStore.  Owned: one process, a thread per entity.    *)
(* Serving: a writer in the ingesting process, two workers of the serving  *)
(* one that either answer for any entity, or for one each (Sharded).       *)
(***************************************************************************)
EXTENDS FeatureStore, TLC

CONSTANTS p1, p2, w, v, r, q, a, b

OwnedHome  == w :> p1 @@ v :> p1
OwnedServe == w :> {a} @@ v :> {b}

ServingHome  == w :> p1 @@ r :> p2 @@ q :> p2
ServingServe == w :> {a, b} @@ r :> {a, b} @@ q :> {a, b}
ShardedServe == w :> {a, b} @@ r :> {a} @@ q :> {b}

Workers == Permutations({r, q})
=============================================================================
