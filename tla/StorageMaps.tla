----------------------------- MODULE StorageMaps -----------------------------
(* The ink_storage collections (HashMap, BTreeMap) as TLA+ functions.      *)
EXTENDS Functions, TLC

\* A map with keys from S and values from T.
Maps(S, T) == UNION {[D -> T] : D \in SUBSET S}

\* m is a map with keys from S and values from T (without enumerating Maps).
IsMap(m, S, T) == DOMAIN m \subseteq S /\ \A k \in DOMAIN m : m[k] \in T

\* m without the key k (HashMap::take / BTreeMap::remove).
Without(m, k) == Restrict(m, DOMAIN m \ {k})

\* m with k mapped to v (insert, overwriting).
Put(m, k, v) == (k :> v) @@ m
==============================================================================
