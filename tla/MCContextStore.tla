--------------------------- MODULE MCContextStore ---------------------------
(* Instances of ContextStore: a document with roots "line" and "robot".     *)
(* line.state is first the number 2; one patch makes it the string "1",      *)
(* which leaves the predicate line.state >= 1 true, the other puts a word in *)
(* the place of the object above it and writes the second root.              *)
EXTENDS ContextStore, TLC

Trees == INSTANCE DocumentTrees

Value(v) == [leaf |-> v]
Object(kids) == [kids |-> kids]

\* a tree as the set of its leaves
Leaves(t) ==
  {Leaf(l[1], IF l[2] = Trees!EmptyObject THEN EmptyObject ELSE l[2].leaf) : l \in Trees!leaf_items(t)}

Number(n) == Scalar("num", "num", n)
Numeral(n) == Scalar("str", "num", n)
Word == Scalar("str", "word", 0)
LineState(v) == Leaves(Object([line |-> Object([state |-> Value(v)])]))
Fast == LineState(Number(2))
Slow == LineState(Numeral(1))
Off == Leaves(Object([line |-> Value(Word), robot |-> Value(Word)]))

MCPatches == {Slow, Off}
MCDocPaths == {<<"line">>, <<"line", "state">>, <<"robot">>}
running == Predicate(<<"line", "state">>, ">=", Number(1))
MCExprs == {running}
MCNeeds == [i \in Intents |-> {running}]
Symmetry == Permutations(Processes)

\* objects and values below a key, and all documents of two keys over them
SmallValues == {Value(Number(1)), Value(Word), Trees!EmptyObject}
Below == SmallValues \cup {Object([state |-> v]) : v \in SmallValues}
SmallTrees == {Object(f) : f \in UNION {[K -> Below] : K \in SUBSET {"line", "state"}}}

\* On small documents the definitions over leaves agree with the recursive ones
\* of the code: what a merge makes, which paths it calls changed, and where the
\* document before and after it have the same value.
ASSUME LeavesAgree ==
  \A base, patch \in SmallTrees :
    LET merged == Trees!deep_merge(base, patch)
    IN /\ deep_merge(Leaves(base), Leaves(patch)) = Leaves(merged)
       /\ changed_paths(Leaves(base), Leaves(patch)) = Trees!changed_paths(base, patch)
       /\ \A q \in {<<"line">>, <<"line", "state">>, <<"state">>} :
            (get_path(Leaves(base), q) = get_path(Leaves(merged), q))
              <=> (Trees!get_path(base, q) = Trees!get_path(merged, q))
=============================================================================
