--------------------------- MODULE MCStoreForward ---------------------------
(* Finite instances of StoreForward for TLC. *)
EXTENDS StoreForward, TLC

CONSTANTS e1, e2, e3, d1

OneDomain == [e \in Events |-> d1]

S(i, a) == [id |-> i, account |-> a]

\* Each shard may hold one record per domain; account ids are distinct.
StableSites == (0 :> [d \in Domains |-> {S(1, 1)}])
            @@ (1 :> [d \in Domains |-> {S(1, 2)}])

\* A domain removed from a shard and added again gets a second site id.
RecreatedSites == (0 :> [d \in Domains |-> {S(1, 1), S(2, 1)}])

OneShardSites == (0 :> [d \in Domains |-> {S(1, 1)}])

\* Events of one domain are interchangeable.
EventSymmetry == Permutations(Events)
=============================================================================
