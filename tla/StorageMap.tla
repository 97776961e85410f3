------------------------------ MODULE StorageMap ------------------------------
(***************************************************************************)
(* Substrate storage maps with optional values: functions whose domain is  *)
(* the set of keys that have an entry.                                     *)
(***************************************************************************)

EmptyMap == [k \in {} |-> k]

\* StorageMap::insert
Insert(f, k, v) == [x \in DOMAIN f \cup {k} |-> IF x = k THEN v ELSE f[x]]

\* StorageMap::remove, or what take leaves behind.
Remove(f, k) == [x \in DOMAIN f \ {k} |-> f[x]]

\* The entry of old, if any, is taken and inserted at new.
Move(f, old, new) ==
    IF old \in DOMAIN f THEN Insert(Remove(f, old), new, f[old]) ELSE f

\* f maps some of the keys K to values V.
IsMap(f, K, V) == DOMAIN f \subseteq K /\ f \in [DOMAIN f -> V]

\* Every map from some of the keys K to values V.
Maps(K, V) == UNION {[S -> V] : S \in SUBSET K}
=============================================================================
