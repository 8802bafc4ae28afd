--------------------------- MODULE DocumentTrees ---------------------------
(***************************************************************************)
(* Context documents as the code nests them (xair/core/versioning.py,      *)
(* deep_merge.py).  A document is a tree: a value [leaf |-> v] or an       *)
(* object [kids |-> f], f a function from keys to trees.  leaf_items makes *)
(* of it the set of leaves that Versioning computes with; the other        *)
(* definitions are the references that Versioning's are checked against.   *)
(***************************************************************************)
EXTENDS Integers, Sequences

IsObject(t) == "kids" \in DOMAIN t
Keys(t) == DOMAIN t.kids
Missing == [missing |-> TRUE]
EmptyObject == [kids |-> <<>>]

RECURSIVE leaf_items(_)
\* the leaves of a nested patch, an empty object being one
leaf_items(patch) ==
  UNION {LET val == patch.kids[key] IN
         IF IsObject(val) /\ Keys(val) # {}
         THEN {<<<<key>> \o leaf[1], leaf[2]>> : leaf \in leaf_items(val)}
         ELSE {<< <<key>>, val>>} : key \in Keys(patch)}

RECURSIVE get_path(_, _)
get_path(t, path) ==
  IF path = <<>> THEN t
  ELSE IF IsObject(t) /\ Head(path) \in Keys(t)
       THEN get_path(t.kids[Head(path)], Tail(path)) ELSE Missing

\* leaf paths of a patch whose value differs; an empty object merged into an
\* object leaves it unchanged
changed_paths(old, patch) ==
  {leaf[1] : leaf \in {l \in leaf_items(patch) :
     /\ ~(l[2] = EmptyObject /\ IsObject(get_path(old, l[1])))
     /\ get_path(old, l[1]) # l[2]}}

RECURSIVE deep_merge(_, _)
\* the patch wins on conflicts
deep_merge(base, patch) ==
  [kids |-> [key \in Keys(base) \cup Keys(patch) |->
     IF key \notin Keys(patch) THEN base.kids[key]
     ELSE IF key \in Keys(base) /\ IsObject(base.kids[key]) /\ IsObject(patch.kids[key])
          THEN deep_merge(base.kids[key], patch.kids[key]) ELSE patch.kids[key]]]
=============================================================================
