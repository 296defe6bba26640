------------------------------- MODULE HashMaps -------------------------------
(***************************************************************************)
(* The std maps the code keeps its state in (HashMap, BTreeMap).  A map is *)
(* a function whose domain is the set of keys that have an entry.          *)
(***************************************************************************)

EmptyMap == [k \in {} |-> k]

(* insert: key k bound to v, whatever it was bound to before.              *)
Bind(f, k, v) == [x \in DOMAIN f \cup {k} |-> IF x = k THEN v ELSE f[x]]

(* remove: no entry for key k.                                             *)
Unbind(f, k) == [x \in DOMAIN f \ {k} |-> f[x]]
===============================================================================
