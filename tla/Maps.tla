-------------------------------- MODULE Maps --------------------------------
(***************************************************************************)
(* BTreeMap as a function whose domain is the set of its keys.             *)
(***************************************************************************)

EmptyMap == [k \in {} |-> k]

\* BTreeMap::remove
Without(f, k) == [x \in DOMAIN f \ {k} |-> f[x]]

\* Seeded fault: an existing entry is kept (entry().or_insert()).
WithIfAbsent(f, k, v) == [x \in DOMAIN f \cup {k} |-> IF x \in DOMAIN f THEN f[x] ELSE v]

\* BTreeMap::insert
With(f, k, v) == [x \in DOMAIN f \cup {k} |-> IF x = k THEN v ELSE f[x]]

\* The value under k, or a default: get(k).unwrap_or(v), entry(k).or_insert(v).
Lookup(f, k, v) == IF k \in DOMAIN f THEN f[k] ELSE v

=============================================================================
