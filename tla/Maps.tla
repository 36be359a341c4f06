-------------------------------- MODULE Maps --------------------------------
(* A map (BTreeMap) is a function whose DOMAIN is the set of present keys.  *)

Put(f, k, v) == [x \in DOMAIN f \cup {k} |-> IF x = k THEN v ELSE f[x]]

Del(f, k) == [x \in DOMAIN f \ {k} |-> f[x]]

Look(f, k, default) == IF k \in DOMAIN f THEN f[k] ELSE default

\* The empty map.
Empty == [x \in {} |-> 0]
=============================================================================
