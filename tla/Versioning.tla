----------------------------- MODULE Versioning -----------------------------
(***************************************************************************)
(* Context documents, patches and per-path versions (xair/core/            *)
(* versioning.py, deep_merge.py).  A path is a sequence of keys, and a     *)
(* document the set of its leaves, as leaf_items yields them: the path and *)
(* the value of every entry that is not an object with entries of its own. *)
(* An object is there through the leaves below it, an empty one as a leaf. *)
(*                                                                         *)
(* A scalar has a type ("num", "bool" or "str"), an integer val, and what  *)
(* its text spells: a string may spell a number, a Boolean or a word, and  *)
(* two strings that spell the same are the same.                           *)
(***************************************************************************)
EXTENDS Integers, Sequences, FiniteSetsExt

Scalar(type, spells, val) == [type |-> type, spells |-> spells, val |-> val]
EmptyObject == Scalar("object", "word", 0)
Leaf(path, value) == [path |-> path, value |-> value]

\* p is q or an ancestor of it
Above(p, q) == Len(p) <= Len(q) /\ \A n \in 1..Len(p) : p[n] = q[n]

\* equal, an ancestor or a descendant
related(a, b) == Above(a, b) \/ Above(b, a)

\* a set of leaves is a document if no leaf is in the place of another
IsDocument(doc) == \A l, m \in doc : related(l.path, m.path) => l = m

\* what a document has at a path: its leaves there, none if the path is missing
get_path(context, path) == {l \in context : Above(path, l.path)}

\* the value is an object, with entries or without
IsObject(context, path) ==
  \E l \in get_path(context, path) : l.path # path \/ l.value = EmptyObject

\* an empty object merged into an object leaves it unchanged
Effective(old, patch) == {l \in patch : ~(l.value = EmptyObject /\ IsObject(old, l.path))}

\* equality as the strictly typed evaluator sees it: type and value
same_value(a, b) == a = b

\* leaf paths of a patch whose value differs
changed_paths(old, patch) ==
  {l.path : l \in {x \in Effective(old, patch) : ~same_value(get_path(old, x.path), {x})}}

\* the patch wins on conflicts: a leaf of it takes the place of what the base
\* has there, below, or as a scalar or an empty object above
deep_merge(base, patch) ==
  {l \in base : \A x \in Effective(base, patch) : ~related(x.path, l.path)}
    \cup Effective(base, patch)

\* the latest change among stored paths related to those read (0 if none); pv
\* holds 0 for a path that is not stored
read_set_version(pv, paths) ==
  Max({0} \cup {pv[q] : q \in {c \in DOMAIN pv : \E r \in paths : related(c, r)}})
=============================================================================
