------------------------- MODULE ContextStoreProofs -------------------------
(***************************************************************************)
(* Proofs about the context store: the versions tell every change of the   *)
(* document, the truth kept for a predicate is current, commits are fresh, *)
(* and the processes together implement the atomic VersionedStore.         *)
(***************************************************************************)
EXTENDS ContextStore, WellFoundedInduction, TLAPS

-----------------------------------------------------------------------------
(* Paths *)

\* A path is above itself.
LEMMA AboveItself ==
  ASSUME NEW p \in DocPaths
  PROVE  Above(p, p) /\ related(p, p)
BY ContextStoreAssumption DEF Above, related

\* Ancestors of ancestors are ancestors.
LEMMA AboveAbove ==
  ASSUME NEW p \in DocPaths, NEW q \in DocPaths, NEW r \in DocPaths, Above(p, q), Above(q, r)
  PROVE  Above(p, r)
BY ContextStoreAssumption DEF Above

\* Two ancestors of a path are related.
LEMMA AncestorsRelated ==
  ASSUME NEW p \in DocPaths, NEW q \in DocPaths, NEW r \in DocPaths, Above(p, r), Above(q, r)
  PROVE  related(p, q)
<1>1. Len(p) \in Nat /\ Len(q) \in Nat /\ Len(r) \in Nat
  BY ContextStoreAssumption
<1>2. CASE Len(p) <= Len(q)
  BY <1>1, <1>2 DEF Above, related
<1>3. CASE Len(q) <= Len(p)
  BY <1>1, <1>3 DEF Above, related
<1> QED BY <1>1, <1>2, <1>3

\* Paths that are related have the same root.
LEMMA RelatedRoot ==
  ASSUME NEW p \in DocPaths, NEW q \in DocPaths, related(p, q)
  PROVE  p[1] = q[1]
<1>1. Len(p) \in Nat /\ Len(q) \in Nat /\ Len(p) >= 1 /\ Len(q) >= 1
  BY ContextStoreAssumption
<1> QED BY <1>1 DEF related, Above

-----------------------------------------------------------------------------
(* Merging *)

\* What is effective of a patch is part of it.
LEMMA EffectivePart ==
  ASSUME NEW t, NEW patch
  PROVE  Effective(t, patch) \subseteq patch
BY DEF Effective

\* A leaf that a merge writes and whose path is not called changed was there.
LEMMA UnchangedLeaf ==
  ASSUME NEW t, NEW patch, NEW x \in Effective(t, patch), x.path \notin changed_paths(t, patch)
  PROVE  x \in t
<1>1. get_path(t, x.path) = {x}
  BY DEF changed_paths, same_value
<1> QED BY <1>1 DEF get_path

\* A merge yields a document.
LEMMA MergeStored ==
  ASSUME NEW t, NEW patch, Stored(t), Stored(patch)
  PROVE  Stored(deep_merge(t, patch))
<1>1. \A l \in deep_merge(t, patch) : l.path \in DocPaths
  BY EffectivePart DEF deep_merge, Stored
<1>2. ASSUME NEW l \in deep_merge(t, patch), NEW m \in deep_merge(t, patch), related(l.path, m.path)
      PROVE  l = m
  <2>1. CASE l \in Effective(t, patch) /\ m \in Effective(t, patch)
    BY <1>2, <2>1, EffectivePart DEF Stored, IsDocument
  <2>2. CASE l \in Effective(t, patch) /\ m \notin Effective(t, patch)
    BY <1>2, <2>2 DEF deep_merge
  <2>3. CASE l \notin Effective(t, patch) /\ m \in Effective(t, patch)
    BY <1>2, <2>3 DEF deep_merge, related
  <2>4. CASE l \notin Effective(t, patch) /\ m \notin Effective(t, patch)
    BY <1>2, <2>4 DEF deep_merge, Stored, IsDocument
  <2> QED BY <2>1, <2>2, <2>3, <2>4
<1> QED BY <1>1, <1>2 DEF Stored, IsDocument

\* changed_paths tells every change: after any patch to any document, what is at
\* a path, a leaf, an object or nothing, differs from what was there only if a
\* path related to it is called changed.
THEOREM ChangesAreTold ==
  ASSUME NEW t, NEW patch, Stored(t), Stored(patch), NEW q \in DocPaths,
         \A c \in changed_paths(t, patch) : ~related(c, q)
  PROVE  get_path(deep_merge(t, patch), q) = get_path(t, q)
<1> DEFINE E == Effective(t, patch)
<1>0. \A x \in E : x.path \in DocPaths
  BY EffectivePart DEF Stored
<1>1. ASSUME NEW l \in deep_merge(t, patch), Above(q, l.path)
      PROVE  l \in t
  <2>1. CASE l \in E
    <3>1. l.path \notin changed_paths(t, patch)
      BY <1>1 DEF related
    <3> QED BY <2>1, <3>1, UnchangedLeaf
  <2> QED BY <2>1 DEF deep_merge
<1>2. ASSUME NEW l \in t, Above(q, l.path)
      PROVE  l \in deep_merge(t, patch)
  <2> SUFFICES ASSUME NEW x \in E, related(x.path, l.path)
               PROVE  l \in E
    BY DEF deep_merge
  <2>1. l.path \in DocPaths /\ x.path \in DocPaths
    BY <1>0 DEF Stored
  <2>2. related(x.path, q)
    BY <1>2, <2>1, AncestorsRelated, AboveAbove DEF related
  <2>3. x \in t
    BY <2>2, UnchangedLeaf
  <2>4. x = l
    BY <2>3 DEF Stored, IsDocument
  <2> QED BY <2>4
<1> QED BY <1>1, <1>2 DEF get_path

\* A predicate depends on a document only through what is at its path.
LEMMA CheckLocal ==
  ASSUME NEW e, NEW t, NEW u, get_path(t, e.path) = get_path(u, e.path)
  PROVE  check_expression(e, t) = check_expression(e, u)
BY DEF check_expression

\* The shard layout, which writes back the roots of the patch only, writes the
\* merged document.
LEMMA ShardWrite ==
  ASSUME NEW t, NEW patch, Stored(t), Stored(patch), NEW W,
         \A l \in patch : l.path[1] \in W
  PROVE  deep_merge(t, patch) = {l \in t : l.path[1] \notin W}
                                  \cup {l \in deep_merge(t, patch) : l.path[1] \in W}
<1>1. ASSUME NEW l \in t, l.path[1] \notin W
      PROVE  l \in deep_merge(t, patch)
  <2> SUFFICES ASSUME NEW x \in Effective(t, patch), related(x.path, l.path)
               PROVE  FALSE
    BY DEF deep_merge
  <2>1. x.path[1] = l.path[1] /\ x \in patch
    BY EffectivePart, RelatedRoot DEF Stored
  <2> QED BY <1>1, <2>1
<1>2. ASSUME NEW l \in deep_merge(t, patch), l.path[1] \notin W
      PROVE  l \in t
  BY <1>2, EffectivePart DEF deep_merge
<1> QED BY <1>1, <1>2


-----------------------------------------------------------------------------
(* The inductive invariant *)

Updating == {"counters", "members", "entries", "exec"}
InTx(op) == op.pc \in Updating \cup {"rexec"}

\* the fields of a call
OpShape(op) ==
  op = [f \in {"pc", "arg", "tries", "watch", "dirty", "doc", "changed", "upd", "at"} |-> op[f]]

OpOK(op) ==
  /\ OpShape(op)
  /\ op.pc \in Updating \cup {"read", "rread", "rexec", "gread", "gexec"}
  /\ op.dirty \in BOOLEAN
  /\ op.tries \in 1..MaxRetries
  /\ op.changed \subseteq DocPaths
  /\ op.pc \in Updating \cup {"read"} => op.arg \in Patches
  /\ op.pc \in {"rread", "rexec"} => op.arg \in Intents
  /\ op.pc \in {"gread", "gexec"} => op.arg \in Exprs
  /\ op.pc \in {"counters", "members", "entries", "gread", "gexec"} => layout # "document"
  /\ InTx(op) => op.watch = TxKeys
  /\ op.pc = "members" =>
       \A r \in DOMAIN op.at : r \in Roots /\ op.at[r] \in Nat /\ op.at[r] <= counter[r]

\* an update computed from the current document
UpdateCurrent(op) ==
  /\ op.changed = changed_paths(tree, op.arg)
  /\ op.doc = Patched(Document, op.arg, op.changed)

\* ... that will tell the truth of every predicate it leaves registered
ExecCurrent(op) ==
  /\ \A e \in DOMAIN op.upd :
       /\ e \in Registered
       /\ op.upd[e] \in Entry
       /\ op.upd[e].truth = check_expression(e, op.doc.tree)
       /\ op.upd[e].v = IF check_expression(e, op.doc.tree) <=> check_expression(e, tree)
                        THEN preds[e].v ELSE version + 1
  /\ layout # "document" => \A e \in Registered \ DOMAIN op.upd :
       check_expression(e, op.doc.tree) <=> check_expression(e, tree)

\* a registration of the current truth
RegisterCurrent(op) ==
  /\ op.doc = Document
  /\ Needs[op.arg] \subseteq DOMAIN op.upd
  /\ \A e \in DOMAIN op.upd :
       /\ e \in Exprs
       /\ op.upd[e] \in Entry
       /\ op.upd[e].truth = check_expression(e, tree)
       /\ op.upd[e].v = IF e \in Registered THEN preds[e].v ELSE version
       /\ e \notin Registered => op.at[Root(e)]
  /\ layout = "document" => Registered \subseteq DOMAIN op.upd

\* what a call whose watched keys are as it read them knows of the store
Current(p) ==
  LET op == proc[p] IN
  /\ op.pc \in Updating => UpdateCurrent(op)
  /\ op.pc = "members" => op.at = [r \in ChangedRoots(op) |-> counter[r]]
  /\ op.pc = "entries" => \A r \in ChangedRoots(op) : cache[p][r].at = counter[r]
  /\ op.pc = "exec" => ExecCurrent(op)
  /\ op.pc = "rexec" => RegisterCurrent(op)

ConfigOK ==
  /\ layout \in {"document", "hash", "shard"}
  /\ scope \in {"readset", "truth"}
DocumentOK ==
  /\ Stored(tree)
  /\ version \in Nat
  /\ pathVersions \in [DocPaths -> 0..version]
PredsOK ==
  /\ preds \in [Exprs -> Entry]
  /\ \A e \in Registered : preds[e].v \in 0..version
LogOK == log \in Seq([id: Intents, moved: BOOLEAN]) /\ committed \subseteq Intents
IntentsOK ==
  /\ expected \in [Intents -> Int]
  /\ \A i \in Intents : expected[i] <= version
  /\ moved \subseteq Intents
ProcOK ==
  /\ proc = [p \in Processes |-> proc[p]]
  /\ \A p \in Processes : proc[p] = Idle \/ OpOK(proc[p])

\* the registered predicates of a root
Under(r) == {e \in Registered : Root(e) = r}

\* an index holds every registered predicate of its root, and so does a cached
\* one whose counter is current
IndexOK ==
  /\ index \in [Roots -> SUBSET Exprs]
  /\ counter \in [Roots -> Nat]
  /\ cache \in [Processes -> [Roots -> [at: Nat, members: SUBSET Exprs]]]
  /\ \A p \in Processes, r \in Roots : cache[p][r].at <= counter[r]
  /\ layout # "document" =>
       \A r \in Roots :
         /\ Under(r) \subseteq index[r]
         /\ \A p \in Processes : cache[p][r].at = counter[r] => Under(r) \subseteq cache[p][r].members

\* what the store and the calls under way know of each other
RedisInv ==
  /\ ConfigOK /\ DocumentOK /\ PredsOK /\ ProcOK /\ IndexOK
  /\ \A p \in Processes : ~proc[p].dirty => Current(p)
  /\ TruthFollows

\* a change since the validation of an intent shows in the versions it depends on
Shows(i) ==
  /\ expected[i] < version
  /\ scope = "readset" => \E c \in DocPaths : /\ \E r \in ReadPaths(i) : related(c, r)
                                              /\ pathVersions[c] > expected[i]
  /\ scope = "truth" => \E e \in Needs[i] : e \in Registered => preds[e].v > expected[i]

IntentInv ==
  /\ IntentsOK /\ LogOK /\ CommitFresh
  /\ \A i \in moved : expected[i] # NotRead => Shows(i)

StoreInv == RedisInv /\ IntentInv


-----------------------------------------------------------------------------
(* Calls *)

\* An idle process knows nothing that could be out of date.
LEMMA IdleCurrent ==
  ASSUME NEW p \in Processes, proc[p] = Idle
  PROVE  Current(p)
BY DEF Current, Idle, Updating

\* The state Init describes satisfies the invariant.
LEMMA InitInv == Init => StoreInv
<1> SUFFICES ASSUME Init PROVE StoreInv
  OBVIOUS
<1>1. ConfigOK
  BY ContextStoreAssumption DEF Init, ConfigOK
<1>2. DocumentOK
  BY ContextStoreAssumption DEF Init, DocumentOK
<1>3. Registered = {}
  BY DEF Init, Registered
<1>4. PredsOK
  BY <1>3 DEF Init, PredsOK, NoEntry, Entry
<1>5. ProcOK
  BY DEF Init, ProcOK
<1>6. IndexOK
  BY <1>3 DEF Init, IndexOK, Under
<1>7. \A p \in Processes : Current(p)
  BY IdleCurrent DEF Init
<1>8. TruthFollows
  BY <1>3 DEF TruthFollows
<1>9. IntentsOK /\ LogOK
  BY DEF Init, IntentsOK, LogOK, NotRead
<1>10. CommitFresh
  BY DEF Init, CommitFresh
<1>11. moved = {}
  BY DEF Init
<1> QED BY <1>1, <1>2, <1>4, <1>5, <1>6, <1>7, <1>8, <1>9, <1>10, <1>11
        DEF StoreInv, RedisInv, IntentInv

\* What other processes know stays current as long as nothing is written.
LEMMA QuietOthers ==
  ASSUME RedisInv, NEW q \in Processes, proc'[q] = proc[q], cache'[q] = cache[q],
         UNCHANGED <<layout, docVars, preds, indexVars>>
  PROVE  /\ proc'[q] = Idle \/ OpOK(proc[q])'
         /\ ~proc'[q].dirty => Current(q)'
<1>1. /\ layout' = layout /\ tree' = tree /\ version' = version /\ pathVersions' = pathVersions
      /\ preds' = preds /\ index' = index /\ counter' = counter
  BY DEF docVars, indexVars
<1>2. proc[q] = Idle \/ OpOK(proc[q])
  BY DEF RedisInv, ProcOK
<1>3. OpOK(proc[q]) => OpOK(proc[q])'
  BY <1>1 DEF OpOK, OpShape, InTx, TxKeys
<1>4. ~proc[q].dirty => Current(q)
  BY DEF RedisInv
<1>5. Current(q) => Current(q)'
  BY <1>1 DEF Current, UpdateCurrent, ExecCurrent, RegisterCurrent, Patched, Document, Registered,
              ChangedRoots
<1> QED BY <1>2, <1>3, <1>4, <1>5

\* A step of one process that writes nothing keeps the invariant of the store if
\* what the process itself then knows is current.
LEMMA QuietStep ==
  ASSUME RedisInv, NEW p \in Processes, NEW op,
         UNCHANGED <<config, docVars, preds, indexVars>>,
         proc' = [proc EXCEPT ![p] = op],
         op = Idle \/ OpOK(op),
         \A q \in Processes \ {p} : cache'[q] = cache[q],
         IndexOK',
         ~op.dirty => Current(p)'
  PROVE  RedisInv'
<1>1. /\ layout' = layout /\ scope' = scope /\ tree' = tree /\ version' = version
      /\ pathVersions' = pathVersions /\ preds' = preds /\ index' = index /\ counter' = counter
  BY DEF docVars, indexVars, config
<1>2. proc = [q \in Processes |-> proc[q]]
  BY DEF RedisInv, ProcOK
<1>3. proc'[p] = op /\ \A q \in Processes \ {p} : proc'[q] = proc[q]
  BY <1>2
<1>4. proc' = [q \in Processes |-> proc'[q]]
  BY <1>2
<1>5. ConfigOK' /\ DocumentOK' /\ PredsOK' /\ TruthFollows'
  BY <1>1 DEF RedisInv, ConfigOK, DocumentOK, PredsOK, TruthFollows, Registered
<1>6. \A q \in Processes \ {p} : /\ proc'[q] = Idle \/ OpOK(proc[q])'
                                 /\ ~proc'[q].dirty => Current(q)'
  BY <1>1, <1>3, QuietOthers
<1>7. OpOK(op) => OpOK(proc[p])'
  BY <1>1, <1>3 DEF OpOK, OpShape, InTx, TxKeys
<1>8. ProcOK'
  BY <1>3, <1>4, <1>6, <1>7 DEF ProcOK
<1> QED BY <1>3, <1>5, <1>6, <1>8 DEF RedisInv

\* Without a write and with the caches as they are, the indexes stay right.
LEMMA QuietIndex ==
  ASSUME RedisInv, UNCHANGED <<config, docVars, preds, indexVars, cache>>
  PROVE  IndexOK'
BY DEF RedisInv, IndexOK, config, docVars, indexVars, Under, Registered

\* A write to a watched key makes every other transaction fail, so what it knows
\* does not matter.
LEMMA LoudOthers ==
  ASSUME RedisInv, NEW p \in Processes, NEW keys, TxKeys \cap keys # {}, Return(p, keys),
         layout' = layout, \A r \in Roots : counter'[r] \in Nat /\ counter'[r] >= counter[r]
  PROVE  /\ ProcOK'
         /\ \A q \in Processes : ~proc'[q].dirty => Current(q)'
<1>1. proc' = [q \in Processes |-> proc'[q]]
  BY DEF Return
<1>2. proc'[p] = Idle
  BY DEF Return
<1>3. ASSUME NEW q \in Processes \ {p}
      PROVE  /\ proc'[q] = Idle \/ OpOK(proc[q])'
             /\ ~proc'[q].dirty => Current(q)'
  <2>1. proc'[q] = [proc[q] EXCEPT !.dirty = proc[q].dirty \/ proc[q].watch \cap keys # {}]
    BY DEF Return
  <2>2. CASE proc[q] = Idle
    <3>1. proc[q].dirty = FALSE /\ proc[q].watch = {}
      BY <2>2 DEF Idle
    <3>2. (proc[q].dirty \/ proc[q].watch \cap keys # {}) = FALSE
      BY <3>1
    <3>3. proc'[q] = [Idle EXCEPT !.dirty = FALSE]
      BY <2>1, <2>2, <3>2
    <3>4. proc'[q] = Idle
      BY <3>3 DEF Idle
    <3> QED BY <3>4, IdleCurrent DEF Current, Idle, Updating
  <2>3. CASE OpOK(proc[q])
    <3> DEFINE d == proc[q].dirty \/ proc[q].watch \cap keys # {}
    <3>1. /\ proc'[q].pc = proc[q].pc /\ proc'[q].arg = proc[q].arg /\ proc'[q].tries = proc[q].tries
          /\ proc'[q].watch = proc[q].watch /\ proc'[q].doc = proc[q].doc
          /\ proc'[q].changed = proc[q].changed /\ proc'[q].upd = proc[q].upd
          /\ proc'[q].at = proc[q].at
      BY <2>1, <2>3 DEF OpOK, OpShape
    <3>2. proc'[q].dirty = d
      BY <2>1, <2>3, Zenon DEF OpOK, OpShape
    <3>3. d \in BOOLEAN
      OBVIOUS
    <3> HIDE DEF d
    <3>4. OpShape(proc[q])'
      BY <2>1, <2>3, <3>1, <3>2 DEF OpOK, OpShape
    <3>5. OpOK(proc[q])'
      BY <2>3, <3>1, <3>2, <3>3, <3>4 DEF OpOK, InTx, TxKeys, RedisInv, IndexOK
    <3>6. InTx(proc[q]) => d
      BY <2>3 DEF OpOK, d
    <3>7. ~proc'[q].dirty => proc'[q].pc \notin Updating \cup {"rexec"}
      BY <3>1, <3>2, <3>6 DEF InTx
    <3>8. ~proc'[q].dirty => Current(q)'
      BY <3>7 DEF Current, Updating
    <3> QED BY <3>5, <3>8
  <2> QED BY <2>2, <2>3 DEF RedisInv, ProcOK
<1>4. Current(p)'
  BY <1>2, IdleCurrent DEF Current, Idle, Updating
<1> QED BY <1>1, <1>2, <1>3, <1>4 DEF ProcOK


-----------------------------------------------------------------------------
(* Steps that write nothing *)

\* A predicate holds or does not.
LEMMA CheckBoolean ==
  ASSUME NEW e, NEW t
  PROVE  check_expression(e, t) \in BOOLEAN
BY DEF check_expression

\* The path of a predicate and its root.
LEMMA RootOfPath ==
  ASSUME NEW e \in Exprs
  PROVE  e.path \in DocPaths /\ Root(e) \in Roots
BY ContextStoreAssumption DEF Root, Roots

\* A call that returns without a write leaves the others alone.
LEMMA ReturnNothing ==
  ASSUME RedisInv, NEW p \in Processes, Return(p, {})
  PROVE  proc' = [proc EXCEPT ![p] = Idle]
<1>1. proc = [q \in Processes |-> proc[q]]
  BY DEF RedisInv, ProcOK
<1>2. ASSUME NEW q \in Processes \ {p}
      PROVE  proc'[q] = proc[q]
  <2>1. proc'[q] = [proc[q] EXCEPT !.dirty = proc[q].dirty \/ proc[q].watch \cap {} # {}]
    BY DEF Return
  <2>2. proc[q].dirty \in BOOLEAN
    <3>1. CASE proc[q] = Idle
      <4>1. proc[q].dirty = FALSE
        BY <3>1 DEF Idle
      <4> QED BY <4>1
    <3>2. CASE OpOK(proc[q])
      BY <3>2 DEF OpOK
    <3> QED BY <3>1, <3>2 DEF RedisInv, ProcOK
  <2>3. (proc[q].dirty \/ proc[q].watch \cap {} # {}) = proc[q].dirty
    BY <2>2, Zenon
  <2>4. proc'[q] = [proc[q] EXCEPT !.dirty = proc[q].dirty]
    BY <2>1, <2>3
  <2> QED BY <2>4 DEF RedisInv, ProcOK, OpOK, OpShape, Idle
<1>3. proc'[p] = Idle /\ proc' = [q \in Processes |-> proc'[q]]
  BY DEF Return
<1> QED BY <1>1, <1>2, <1>3

\* A process that is not idle is in a call.
LEMMA InCall ==
  ASSUME RedisInv, NEW p \in Processes, proc[p].pc # "idle"
  PROVE  OpOK(proc[p])
<1>1. Idle.pc = "idle"
  BY DEF Idle
<1> QED BY <1>1 DEF RedisInv, ProcOK

\* A connection that fails ends the call.
LEMMA DisconnectStep ==
  ASSUME RedisInv, NEW p \in Processes, Return(p, {}),
         UNCHANGED <<config, docVars, preds, indexVars, cache>>
  PROVE  RedisInv'
<1>1. proc' = [proc EXCEPT ![p] = Idle]
  BY ReturnNothing
<1>2. proc'[p] = Idle
  BY DEF Return
<1>3. Current(p)'
  BY <1>2 DEF Current, Idle, Updating
<1> QED BY <1>1, <1>3, QuietStep, QuietIndex

\* Another attempt, or none, is a step that writes nothing.
LEMMA RetryStep ==
  ASSUME RedisInv, NEW p \in Processes, OpOK(proc[p]), NEW pc \in {"read", "rread"}, Retry(p, pc),
         pc = "read" => proc[p].arg \in Patches, pc = "rread" => proc[p].arg \in Intents,
         UNCHANGED <<config, docVars, preds, indexVars, cache>>
  PROVE  RedisInv'
<1> DEFINE again == [Op(pc, proc[p].arg) EXCEPT !.tries = proc[p].tries + 1]
           op == IF proc[p].tries = MaxRetries THEN Idle ELSE again
<1>1. proc' = [proc EXCEPT ![p] = op]
  BY DEF Retry
<1>2. proc[p].tries # MaxRetries => proc[p].tries + 1 \in 1..MaxRetries
  BY ContextStoreAssumption DEF OpOK
<1>3. ASSUME proc[p].tries # MaxRetries
      PROVE  /\ OpShape(again) /\ again.pc = pc /\ again.arg = proc[p].arg
             /\ again.tries = proc[p].tries + 1 /\ again.changed = {} /\ again.dirty = FALSE
  <2>1. proc[p].tries + 1 \in 1..MaxRetries
    BY <1>2, <1>3
  <2> HIDE DEF again
  <2>2. again = [Op(pc, proc[p].arg) EXCEPT !.tries = proc[p].tries + 1]
    BY DEF again
  <2> QED BY <2>1, <2>2 DEF Op, OpShape
<1> HIDE DEF again
<1>4. op = Idle \/ OpOK(op)
  BY <1>2, <1>3 DEF OpOK, InTx, Updating
<1>5. op.pc \in {"idle", "read", "rread"}
  BY <1>3 DEF Idle
<1>6. proc'[p] = op
  BY <1>1 DEF RedisInv, ProcOK
<1>7. Current(p)'
  BY <1>5, <1>6 DEF Current, Updating
<1> QED BY <1>1, <1>4, <1>7, QuietStep, QuietIndex

\* A predicate whose path no change is related to is as true as before.
LEMMA UnrelatedTruth ==
  ASSUME RedisInv, NEW op, UpdateCurrent(op), op.arg \in Patches, NEW e \in Exprs,
         \A c \in op.changed : ~related(c, e.path)
  PROVE  check_expression(e, op.doc.tree) = check_expression(e, tree)
<1>1. Stored(tree) /\ Stored(op.arg)
  BY ContextStoreAssumption DEF RedisInv, DocumentOK
<1>2. op.doc.tree = deep_merge(tree, op.arg)
  BY DEF UpdateCurrent, Patched, Document
<1>3. get_path(op.doc.tree, e.path) = get_path(tree, e.path)
  BY <1>1, <1>2, RootOfPath, ChangesAreTold DEF UpdateCurrent
<1> QED BY <1>3, CheckLocal

\* What _apply makes of the entry of a registered predicate.
LEMMA ReevaluatedFacts ==
  ASSUME RedisInv, NEW op, UpdateCurrent(op), op.arg \in Patches, NEW e \in Registered,
         NEW r, r = Reevaluated(e, preds[e], op)
  PROVE  /\ r \in Entry
         /\ r.truth = check_expression(e, op.doc.tree)
         /\ r.v = IF check_expression(e, op.doc.tree) <=> check_expression(e, tree)
                  THEN preds[e].v ELSE version + 1
         /\ r = preds[e] => (check_expression(e, op.doc.tree) <=> check_expression(e, tree))
<1> DEFINE new == check_expression(e, op.doc.tree)
           old == check_expression(e, tree)
           entry == preds[e]
<1>1. entry \in Entry /\ entry.truth = old /\ e \in Exprs
  BY DEF RedisInv, PredsOK, TruthFollows, Registered
<1>2. new \in BOOLEAN /\ old \in BOOLEAN
  BY CheckBoolean
<1>3. version \in Nat /\ op.doc.version = version + 1
  BY DEF RedisInv, DocumentOK, UpdateCurrent, Patched, Document
<1>4. (new # old) => \E c \in op.changed : related(c, e.path)
  BY <1>1, UnrelatedTruth
<1>5. r = IF (\E c \in op.changed : related(c, e.path)) /\ new # entry.truth
          THEN [entry EXCEPT !.v = op.doc.version, !.truth = ~entry.truth]
          ELSE entry
  BY DEF Reevaluated
<1> HIDE DEF new, old
<1>6. CASE new = old
  <2>1. r = entry
    BY <1>1, <1>5, <1>6
  <2> QED BY <1>1, <1>6, <2>1 DEF new, old
<1>7. CASE new # old
  <2>1. r = [entry EXCEPT !.v = op.doc.version, !.truth = ~entry.truth]
    BY <1>1, <1>4, <1>5, <1>7
  <2>0. (~old) = new
    BY <1>2, <1>7
  <2>2. (~entry.truth) = new
    BY <1>1, <2>0
  <2>3. r = [entry EXCEPT !.v = version + 1, !.truth = new]
    BY <2>1, <2>2, <1>3
  <2>a. version + 1 \in Int
    BY <1>3
  <2>4. r \in Entry /\ r.truth = new /\ r.v = version + 1
    BY <1>1, <1>2, <2>a, <2>3, Zenon DEF Entry
  <2>5. r # entry
    BY <2>4, <1>1, <1>7
  <2>6. ~(new <=> old)
    BY <1>2, <1>7
  <2> QED BY <2>4, <2>5, <2>6 DEF new, old
<1> QED BY <1>6, <1>7


\* The paths a patch changes are stored ones.
LEMMA ChangedStored ==
  ASSUME NEW patch \in Patches, NEW t
  PROVE  changed_paths(t, patch) \subseteq DocPaths
BY ContextStoreAssumption, EffectivePart DEF changed_paths, Stored

\* An update reads the document under WATCH.
LEMMA UpdateReadStep ==
  ASSUME RedisInv, NEW p \in Processes, NEW patch \in Patches, UpdateRead(p, patch)
  PROVE  RedisInv'
<1> DEFINE begun == IF At(p, "idle") THEN Op("read", patch) ELSE proc[p]
           changed == changed_paths(tree, patch)
           doc == Patched(Document, patch, changed)
           op == [begun EXCEPT !.watch = TxKeys, !.dirty = FALSE, !.changed = changed, !.doc = doc]
           kept == {e \in Registered : preds[e].age # "expired"}
           new == IF layout = "document"
                  THEN [op EXCEPT !.pc = "exec", !.upd = [e \in kept |-> Reevaluated(e, preds[e], op)]]
                  ELSE [op EXCEPT !.pc = IF changed = {} THEN "exec" ELSE "counters", !.upd = <<>>]
<1>1. proc' = [proc EXCEPT ![p] = new]
  BY DEF UpdateRead
<1>2. At(p, "idle") \/ (At(p, "read") /\ patch = proc[p].arg)
  BY DEF UpdateRead
<1>3. OpShape(begun) /\ begun.arg = patch /\ begun.tries \in 1..MaxRetries
  <2>1. CASE At(p, "idle")
    <3>1. begun = Op("read", patch)
      BY <2>1
    <3> HIDE DEF begun
    <3>2. 1 \in 1..MaxRetries
      BY ContextStoreAssumption
    <3> QED BY <3>1, <3>2 DEF Op, OpShape
  <2>2. CASE ~At(p, "idle")
    BY <1>2, <2>2, InCall DEF At, OpOK
  <2> QED BY <2>1, <2>2
<1> HIDE DEF begun, doc, changed
<1>4. /\ OpShape(op) /\ op.arg = patch /\ op.tries \in 1..MaxRetries /\ op.watch = TxKeys
      /\ op.dirty = FALSE /\ op.changed = changed /\ op.doc = doc
  BY <1>3 DEF OpShape
<1> HIDE DEF op
<1>5. UpdateCurrent(op)
  BY <1>4 DEF UpdateCurrent, doc, changed
<1>6. changed \subseteq DocPaths
  BY ChangedStored DEF changed
<1> DEFINE Common == /\ OpShape(new) /\ new.arg = patch /\ new.tries \in 1..MaxRetries
                     /\ new.watch = TxKeys /\ new.dirty = FALSE /\ new.changed = changed
                     /\ new.doc = doc
<1>7. Common /\ new.pc \in {"counters", "exec"} /\ (new.pc = "counters" => layout # "document")
  BY <1>4 DEF OpShape
<1>8. new.pc = "exec" => ExecCurrent(new)
  <2> SUFFICES ASSUME new.pc = "exec" PROVE ExecCurrent(new)
    OBVIOUS
  <2>0. Common
    BY <1>7
  <2>1. CASE layout = "document"
    <3>1. new.upd = [e \in kept |-> Reevaluated(e, preds[e], op)]
      BY <1>4, <2>1 DEF OpShape
    <3> HIDE DEF new, Common
    <3>2. ASSUME NEW e \in kept
          PROVE  /\ e \in Registered /\ new.upd[e] = Reevaluated(e, preds[e], op)
      BY <3>1
    <3>3. DOMAIN new.upd = kept
      BY <3>1
    <3>4. new.doc.tree = op.doc.tree
      BY <2>0, <1>4 DEF Common
    <3> HIDE DEF kept
    <3> QED BY <2>1, <3>2, <3>3, <3>4, <1>4, <1>5, ReevaluatedFacts DEF ExecCurrent
  <2>2. CASE layout # "document"
    <3>1. new.upd = <<>> /\ changed = {}
      BY <1>4, <2>2 DEF OpShape
    <3>2. DOMAIN new.upd = {}
      BY <3>1
    <3>3. UpdateCurrent(new) /\ new.changed = {} /\ new.arg \in Patches
      BY <2>0, <3>1 DEF UpdateCurrent, doc, changed
    <3> HIDE DEF new, Common
    <3>4. \A e \in Registered : check_expression(e, new.doc.tree) = check_expression(e, tree)
      BY <3>3, UnrelatedTruth DEF Registered
    <3> QED BY <3>2, <3>4 DEF ExecCurrent
  <2> QED BY <2>1, <2>2
<1> HIDE DEF new
<1>9. OpOK(new)
  BY <1>6, <1>7 DEF OpOK, InTx, Updating
<1>10. UpdateCurrent(new)
  BY <1>7 DEF UpdateCurrent, doc, changed
<1>11. UNCHANGED <<config, docVars, preds, indexVars, cache>>
  BY DEF UpdateRead, redisVars
<1>12. proc'[p] = new
  BY <1>1 DEF RedisInv, ProcOK
<1>13. /\ tree' = tree /\ version' = version /\ pathVersions' = pathVersions /\ preds' = preds
       /\ layout' = layout
  BY <1>11 DEF docVars, config
<1>14. Current(p)'
  <2>1. UpdateCurrent(proc[p])'
    BY <1>10, <1>12, <1>13 DEF UpdateCurrent, Patched, Document
  <2>2. proc'[p].pc = "exec" => ExecCurrent(proc[p])'
    BY <1>8, <1>12, <1>13 DEF ExecCurrent, Registered
  <2>3. proc'[p].pc \in {"counters", "exec"}
    BY <1>7, <1>12
  <2> QED BY <2>1, <2>2, <2>3 DEF Current
<1> QED BY <1>1, <1>9, <1>11, <1>14, QuietStep, QuietIndex

\* The roots of the paths a call changes.
LEMMA RootsOfChanges ==
  ASSUME NEW op, op.changed \subseteq DocPaths
  PROVE  ChangedRoots(op) \subseteq Roots
BY DEF ChangedRoots, Roots

\* _candidates reads the counters of the changed roots.
LEMMA CountersStep ==
  ASSUME RedisInv, NEW p \in Processes, Counters(p)
  PROVE  RedisInv'
<1> DEFINE op == proc[p]
           at == [r \in ChangedRoots(op) |-> counter[r]]
           hit == \A r \in ChangedRoots(op) : cache[p][r].at = counter[r]
           new == [op EXCEPT !.at = at, !.pc = IF hit THEN "entries" ELSE "members"]
<1>1. OpOK(op) /\ op.pc = "counters"
  BY InCall DEF Counters, At
<1>2. proc' = [proc EXCEPT ![p] = new]
  BY <1>1 DEF Counters, RedisInv, ProcOK
<1>3. ChangedRoots(op) \subseteq Roots
  BY <1>1, RootsOfChanges DEF OpOK
<1>4. counter \in [Roots -> Nat]
  BY DEF RedisInv, IndexOK
<1> HIDE DEF at, hit
<1>5. /\ OpShape(new) /\ new.pc = (IF hit THEN "entries" ELSE "members") /\ new.at = at
      /\ new.arg = op.arg /\ new.tries = op.tries /\ new.watch = op.watch /\ new.dirty = op.dirty
      /\ new.doc = op.doc /\ new.changed = op.changed
  BY <1>1 DEF OpOK, OpShape
<1> HIDE DEF new
<1>6. OpOK(new)
  BY <1>1, <1>3, <1>4, <1>5 DEF OpOK, InTx, Updating, at
<1>7. UNCHANGED <<config, docVars, preds, indexVars, cache>>
  BY DEF Counters, redisVars
<1>8. proc'[p] = new
  BY <1>2 DEF RedisInv, ProcOK
<1>9. /\ tree' = tree /\ version' = version /\ pathVersions' = pathVersions /\ preds' = preds
      /\ layout' = layout /\ counter' = counter /\ cache' = cache
  BY <1>7 DEF docVars, indexVars, config
<1>10. ~new.dirty => Current(p)'
  <2> SUFFICES ASSUME ~new.dirty PROVE Current(p)'
    OBVIOUS
  <2>1. UpdateCurrent(op)
    BY <1>1, <1>5 DEF RedisInv, Current, Updating
  <2>2. UpdateCurrent(proc[p])'
    BY <2>1, <1>5, <1>8, <1>9 DEF UpdateCurrent, Patched, Document
  <2>3. ChangedRoots(new) = ChangedRoots(op)
    BY <1>5 DEF ChangedRoots
  <2>4. new.pc = "members" => new.at = [r \in ChangedRoots(new) |-> counter[r]]
    BY <1>5, <2>3 DEF at
  <2>5. new.pc = "entries" => \A r \in ChangedRoots(new) : cache[p][r].at = counter[r]
    BY <1>5, <2>3 DEF hit
  <2>6. (ChangedRoots(proc[p]))' = ChangedRoots(new)
    BY <1>8 DEF ChangedRoots
  <2> QED BY <1>5, <1>8, <1>9, <2>2, <2>4, <2>5, <2>6 DEF Current
<1> QED BY <1>2, <1>6, <1>7, <1>10, QuietStep, QuietIndex


\* _candidates fetches the index of the roots whose counter has moved.  The
\* index may be newer than the counter read before it, and never older.
LEMMA MembersStep ==
  ASSUME RedisInv, NEW p \in Processes, Members(p)
  PROVE  RedisInv'
<1> DEFINE op == proc[p]
           new == [op EXCEPT !.pc = "entries"]
<1>1. OpOK(op) /\ op.pc = "members"
  BY InCall DEF Members, At
<1>2. proc' = [proc EXCEPT ![p] = new]
  BY DEF Members, Goto
<1>3. /\ OpShape(new) /\ new.pc = "entries"
      /\ new.arg = op.arg /\ new.tries = op.tries /\ new.watch = op.watch /\ new.dirty = op.dirty
      /\ new.doc = op.doc /\ new.changed = op.changed
  BY <1>1 DEF OpOK, OpShape
<1>4. \A r \in DOMAIN op.at : r \in Roots /\ op.at[r] \in Nat /\ op.at[r] <= counter[r]
  BY <1>1 DEF OpOK
<1>5. UNCHANGED <<config, docVars, preds, indexVars>>
  BY DEF Members, redisVars
<1>6. proc'[p] = new
  BY <1>2 DEF RedisInv, ProcOK
<1>7. /\ tree' = tree /\ version' = version /\ pathVersions' = pathVersions /\ preds' = preds
      /\ layout' = layout /\ counter' = counter /\ index' = index
  BY <1>5 DEF docVars, indexVars, config
<1>8. IndexOK
  BY DEF RedisInv
<1>9. cache' = [cache EXCEPT ![p] = [r \in Roots |->
         IF r \in DOMAIN op.at /\ cache[p][r].at # op.at[r]
         THEN [at |-> op.at[r], members |-> index[r]] ELSE cache[p][r]]]
  BY DEF Members
<1>10. \A q \in Processes \ {p} : cache'[q] = cache[q]
  BY <1>9
<1>11. ASSUME NEW r \in Roots
       PROVE  \/ /\ r \in DOMAIN op.at
                 /\ cache'[p][r].at = op.at[r] /\ cache'[p][r].members = index[r]
              \/ /\ cache'[p][r] = cache[p][r]
                 /\ r \in DOMAIN op.at => cache[p][r].at = op.at[r]
  <2>1. cache'[p][r] = IF r \in DOMAIN op.at /\ cache[p][r].at # op.at[r]
                       THEN [at |-> op.at[r], members |-> index[r]] ELSE cache[p][r]
    BY <1>8, <1>9 DEF IndexOK
  <2>2. CASE r \in DOMAIN op.at /\ cache[p][r].at # op.at[r]
    <3>1. cache'[p][r] = [at |-> op.at[r], members |-> index[r]]
      BY <2>1, <2>2
    <3> QED BY <2>2, <3>1
  <2>3. CASE ~(r \in DOMAIN op.at /\ cache[p][r].at # op.at[r])
    BY <2>1, <2>3
  <2> QED BY <2>2, <2>3
<1>12. IndexOK'
  <2>1. cache' \in [Processes -> [Roots -> [at: Nat, members: SUBSET Exprs]]]
    <3>1. index \in [Roots -> SUBSET Exprs]
      BY <1>8 DEF IndexOK
    <3>2. \A r \in Roots : cache[p][r] \in [at: Nat, members: SUBSET Exprs]
      BY <1>8 DEF IndexOK
    <3>3. [r \in Roots |->
             IF r \in DOMAIN op.at /\ cache[p][r].at # op.at[r]
             THEN [at |-> op.at[r], members |-> index[r]] ELSE cache[p][r]]
           \in [Roots -> [at: Nat, members: SUBSET Exprs]]
      BY <1>4, <3>1, <3>2
    <3> QED BY <1>8, <1>9, <3>3 DEF IndexOK
  <2>2. \A r \in Roots : cache'[p][r].at <= counter[r]
    BY <1>4, <1>8, <1>11 DEF IndexOK
  <2>3. \A r \in Roots : /\ layout # "document"
                         /\ cache'[p][r].at = counter[r]
                         => Under(r) \subseteq cache'[p][r].members
    BY <1>8, <1>11 DEF IndexOK
  <2>4. \A r \in Roots : Under(r)' = Under(r)
    BY <1>7 DEF Under, Registered
  <2> QED BY <1>7, <1>8, <1>10, <2>1, <2>2, <2>3, <2>4 DEF IndexOK
<1> HIDE DEF new
<1>13. OpOK(new)
  BY <1>1, <1>3 DEF OpOK, InTx, Updating
<1>14. ~new.dirty => Current(p)'
  <2> SUFFICES ASSUME ~new.dirty PROVE Current(p)'
    OBVIOUS
  <2>1. UpdateCurrent(op) /\ op.at = [r \in ChangedRoots(op) |-> counter[r]]
    BY <1>1, <1>3 DEF RedisInv, Current, Updating
  <2>2. UpdateCurrent(proc[p])'
    BY <2>1, <1>3, <1>6, <1>7 DEF UpdateCurrent, Patched, Document
  <2>3. ASSUME NEW r \in ChangedRoots(op)
        PROVE  cache'[p][r].at = counter[r]
    <3>1. r \in DOMAIN op.at /\ op.at[r] = counter[r] /\ r \in Roots
      BY <2>1, <1>4
    <3> QED BY <1>11, <3>1
  <2>4. (ChangedRoots(proc[p]))' = ChangedRoots(op)
    BY <1>3, <1>6 DEF ChangedRoots
  <2> QED BY <1>3, <1>6, <1>7, <2>2, <2>3, <2>4 DEF Current
<1> QED BY <1>2, <1>5, <1>10, <1>12, <1>13, <1>14, QuietStep

\* The candidates' entries: every predicate whose truth the update changes is
\* among them.
LEMMA EntriesStep ==
  ASSUME RedisInv, NEW p \in Processes, Entries(p)
  PROVE  RedisInv'
<1> DEFINE op == proc[p]
           candidates == (UNION {cache[p][r].members : r \in ChangedRoots(op)}) \cap Registered
           flipped == {e \in candidates : Reevaluated(e, preds[e], op) # preds[e]}
           upd == [e \in flipped |-> Reevaluated(e, preds[e], op)]
           new == [op EXCEPT !.pc = "exec", !.at = <<>>, !.upd = upd]
<1>1. OpOK(op) /\ op.pc = "entries"
  BY InCall DEF Entries, At
<1>2. proc' = [proc EXCEPT ![p] = new]
  BY <1>1 DEF Entries, RedisInv, ProcOK
<1> HIDE DEF upd
<1>3. /\ OpShape(new) /\ new.pc = "exec" /\ new.upd = upd
      /\ new.arg = op.arg /\ new.tries = op.tries /\ new.watch = op.watch /\ new.dirty = op.dirty
      /\ new.doc = op.doc /\ new.changed = op.changed
  BY <1>1 DEF OpOK, OpShape
<1> HIDE DEF new
<1>4. OpOK(new)
  BY <1>1, <1>3 DEF OpOK, InTx, Updating
<1>5. UNCHANGED <<config, docVars, preds, indexVars, cache>>
  BY DEF Entries, redisVars
<1>6. proc'[p] = new
  BY <1>2 DEF RedisInv, ProcOK
<1>7. /\ tree' = tree /\ version' = version /\ pathVersions' = pathVersions /\ preds' = preds
      /\ layout' = layout
  BY <1>5 DEF docVars, config
<1>8. ~new.dirty => Current(p)'
  <2> SUFFICES ASSUME ~new.dirty PROVE Current(p)'
    OBVIOUS
  <2>1. UpdateCurrent(op) /\ \A r \in ChangedRoots(op) : cache[p][r].at = counter[r]
    BY <1>1, <1>3 DEF RedisInv, Current, Updating
  <2>2. op.arg \in Patches /\ layout # "document" /\ op.changed \subseteq DocPaths
    BY <1>1 DEF OpOK, Updating
  <2>3. DOMAIN upd = flipped /\ \A e \in flipped : upd[e] = Reevaluated(e, preds[e], op)
    BY DEF upd
  <2>a. candidates \subseteq Registered
    BY Zenon
  <2>4. flipped \subseteq Registered
    BY <2>a, Zenon
  <2>5. ASSUME NEW e \in Registered, e \notin flipped
        PROVE  check_expression(e, op.doc.tree) <=> check_expression(e, tree)
    <3>1. CASE e \in candidates
      <4>1. Reevaluated(e, preds[e], op) = preds[e]
        BY <2>5, <3>1
      <4> HIDE DEF candidates, flipped, op
      <4> QED BY <2>1, <2>2, <4>1, ReevaluatedFacts
    <3>2. CASE e \notin candidates
      <4>1. e \in Exprs
        BY DEF Registered
      <4>2. ASSUME NEW c \in op.changed, related(c, e.path)
            PROVE  FALSE
        <5>1. c[1] = Root(e)
          BY <2>2, <4>1, <4>2, RootOfPath, RelatedRoot DEF Root
        <5>2. Root(e) \in ChangedRoots(op) /\ Root(e) \in Roots
          BY <5>1, <4>1, RootOfPath DEF ChangedRoots
        <5>3. Under(Root(e)) \subseteq cache[p][Root(e)].members
          BY <2>1, <2>2, <5>2 DEF RedisInv, IndexOK
        <5>4. e \in Under(Root(e))
          BY DEF Under
        <5>5. e \in cache[p][Root(e)].members
          BY <5>3, <5>4
        <5>6. e \in candidates
          BY <2>5, <5>2, <5>5, Zenon
        <5> QED BY <3>2, <5>6
      <4> HIDE DEF candidates, flipped, op
      <4>3. check_expression(e, op.doc.tree) = check_expression(e, tree)
        BY <2>1, <2>2, <4>1, <4>2, UnrelatedTruth
      <4> QED BY <4>3
    <3> QED BY <3>1, <3>2
  <2> HIDE DEF candidates, flipped, op
  <2>6. ExecCurrent(new)
    BY <1>3, <2>1, <2>2, <2>3, <2>4, <2>5, ReevaluatedFacts DEF ExecCurrent
  <2>7. UpdateCurrent(proc[p])'
    BY <2>1, <1>3, <1>6, <1>7 DEF UpdateCurrent, Patched, Document
  <2>8. ExecCurrent(proc[p])'
    BY <2>6, <1>6, <1>7 DEF ExecCurrent, Registered
  <2> QED BY <1>3, <1>6, <2>7, <2>8 DEF Current
<1> QED BY <1>2, <1>4, <1>5, <1>8, QuietStep, QuietIndex


\* A call of a registration or of a retirement starts.
LEMMA StartStep ==
  ASSUME RedisInv, NEW p \in Processes, NEW pc \in {"rread", "gread"}, NEW arg,
         pc = "rread" => arg \in Intents, pc = "gread" => arg \in Exprs /\ layout # "document",
         proc' = [proc EXCEPT ![p] = Op(pc, arg)],
         UNCHANGED <<config, docVars, preds, indexVars, cache>>
  PROVE  RedisInv'
<1> DEFINE new == Op(pc, arg)
<1>1. OpShape(new) /\ new.pc = pc /\ new.arg = arg /\ new.tries = 1 /\ new.changed = {}
      /\ new.dirty = FALSE
  BY DEF Op, OpShape
<1> HIDE DEF new
<1>a. 1 \in 1..MaxRetries /\ FALSE \in BOOLEAN
  BY ContextStoreAssumption
<1>2. OpOK(new)
  BY <1>1, <1>a DEF OpOK, InTx, Updating
<1>3. proc'[p] = new
  BY DEF RedisInv, ProcOK, new
<1>4. Current(p)'
  BY <1>1, <1>3 DEF Current, Updating
<1> QED BY <1>2, <1>4, QuietStep, QuietIndex DEF new

\* gc_predicates looks again at the entry it may retire.
LEMMA GcReadStep ==
  ASSUME RedisInv, NEW p \in Processes, GcRead(p)
  PROVE  RedisInv'
<1> DEFINE op == proc[p]
           due == op.arg \in Registered /\ preds[op.arg].age = "expired"
           new == IF due THEN [op EXCEPT !.pc = "gexec", !.watch = {"pred"}] ELSE Idle
<1>1. OpOK(op) /\ op.pc = "gread"
  BY InCall DEF GcRead, At
<1>2. proc' = [proc EXCEPT ![p] = new]
  BY DEF GcRead
<1> HIDE DEF due
<1>3. \/ /\ OpShape(new) /\ new.pc = "gexec"
         /\ new.arg = op.arg /\ new.tries = op.tries /\ new.dirty = op.dirty
         /\ new.doc = op.doc /\ new.changed = op.changed
      \/ new = Idle
  BY <1>1 DEF OpOK, OpShape
<1> HIDE DEF new
<1>4. new = Idle \/ OpOK(new)
  BY <1>1, <1>3 DEF OpOK, InTx, Updating
<1>5. UNCHANGED <<config, docVars, preds, indexVars, cache>>
  BY DEF GcRead, redisVars
<1>6. proc'[p] = new
  BY <1>2 DEF RedisInv, ProcOK
<1>7. Current(p)'
  BY <1>3, <1>6 DEF Current, Updating, Idle
<1> QED BY <1>2, <1>4, <1>5, <1>7, QuietStep, QuietIndex

\* A registration reads under WATCH what it will write.
LEMMA RegisterReadStep ==
  ASSUME RedisInv, NEW p \in Processes, RegisterRead(p)
  PROVE  RedisInv'
<1> DEFINE op == proc[p]
           i == op.arg
           entry(e) == IF e \notin Needs[i] THEN preds[e]
                       ELSE IF e \in Registered THEN [preds[e] EXCEPT !.age = "fresh"]
                       ELSE [v |-> version, truth |-> check_expression(e, tree), age |-> "fresh"]
           written == IF layout = "document" THEN Registered \cup Needs[i] ELSE Needs[i]
           at == [r \in Roots |-> \E e \in Needs[i] \ Registered : Root(e) = r]
           upd == [e \in written |-> entry(e)]
           new == [op EXCEPT !.pc = "rexec", !.watch = TxKeys, !.dirty = FALSE, !.doc = Document,
                             !.at = at, !.upd = upd]
<1>1. OpOK(op) /\ op.pc = "rread" /\ i \in Intents
  BY InCall DEF RegisterRead, At, OpOK
<1>2. UNCHANGED <<config, docVars, preds, indexVars, cache>>
  BY DEF RegisterRead, redisVars
<1>3. CASE Return(p, {})
  BY <1>2, <1>3, DisconnectStep
<1>4. CASE proc' = [proc EXCEPT ![p] = new]
  <2>1. Needs[i] \subseteq Exprs /\ Registered \subseteq Exprs
    BY <1>1, ContextStoreAssumption DEF Registered
  <2>2. DOMAIN upd = written /\ \A e \in written : upd[e] = entry(e)
    OBVIOUS
  <2>3. \A r \in Roots : at[r] = \E e \in Needs[i] \ Registered : Root(e) = r
    OBVIOUS
  <2> HIDE DEF at, upd
  <2>4. /\ OpShape(new) /\ new.pc = "rexec" /\ new.watch = TxKeys /\ new.dirty = FALSE
        /\ new.doc = Document /\ new.at = at /\ new.upd = upd
        /\ new.arg = i /\ new.tries = op.tries /\ new.changed = op.changed
    BY <1>1 DEF OpOK, OpShape
  <2> HIDE DEF new
  <2>5. OpOK(new)
    BY <1>1, <2>4 DEF OpOK, InTx, Updating
  <2>6. ASSUME NEW e \in written
        PROVE  /\ e \in Exprs
               /\ upd[e] \in Entry
               /\ upd[e].truth = check_expression(e, tree)
               /\ upd[e].v = IF e \in Registered THEN preds[e].v ELSE version
               /\ e \notin Registered => at[Root(e)]
    <3>1. e \in Exprs
      BY <2>1
    <3>2. CASE e \in Registered
      <4>1. preds[e] \in Entry /\ preds[e].truth = check_expression(e, tree)
        BY <3>2, <3>1 DEF RedisInv, PredsOK, TruthFollows
      <4>2. upd[e] = preds[e] \/ upd[e] = [preds[e] EXCEPT !.age = "fresh"]
        BY <2>2, <3>2
      <4>3. upd[e] \in Entry /\ upd[e].truth = preds[e].truth /\ upd[e].v = preds[e].v
        BY <4>1, <4>2 DEF Entry
      <4> QED BY <3>1, <3>2, <4>1, <4>3
    <3>3. CASE e \notin Registered
      <4>1. e \in Needs[i] \ Registered
        BY <3>3
      <4>2. upd[e] = [v |-> version, truth |-> check_expression(e, tree), age |-> "fresh"]
        BY <2>2, <4>1
      <4>3. version \in Int /\ check_expression(e, tree) \in BOOLEAN
        BY CheckBoolean DEF RedisInv, DocumentOK
      <4> DEFINE holds == check_expression(e, tree)
      <4>a. upd[e] = [v |-> version, truth |-> holds, age |-> "fresh"] /\ holds \in BOOLEAN
        BY <4>2, <4>3
      <4> HIDE DEF holds
      <4>b. upd[e] \in Entry /\ upd[e].truth = holds /\ upd[e].v = version
        BY <4>3, <4>a DEF Entry
      <4>4. upd[e] \in Entry /\ upd[e].truth = check_expression(e, tree) /\ upd[e].v = version
        BY <4>b DEF holds
      <4>5. Root(e) \in Roots
        BY <3>1, RootOfPath
      <4>6. at[Root(e)]
        BY <2>3, <4>1, <4>5
      <4> QED BY <3>1, <3>3, <4>4, <4>6
    <3> QED BY <3>2, <3>3
  <2>7. Needs[i] \subseteq written /\ (layout = "document" => Registered \subseteq written)
    OBVIOUS
  <2> HIDE DEF written, entry
  <2>8. RegisterCurrent(new)
    BY <2>2, <2>4, <2>6, <2>7 DEF RegisterCurrent
  <2>9. proc'[p] = new
    BY <1>4 DEF RedisInv, ProcOK
  <2>10. /\ tree' = tree /\ version' = version /\ pathVersions' = pathVersions /\ preds' = preds
         /\ layout' = layout
    BY <1>2 DEF docVars, config
  <2>11. RegisterCurrent(proc[p])'
    BY <2>8, <2>9, <2>10 DEF RegisterCurrent, Document, Registered
  <2>12. Current(p)'
    BY <2>4, <2>9, <2>11 DEF Current, Updating
  <2> QED BY <1>2, <1>4, <2>5, <2>12, QuietStep, QuietIndex
<1> QED BY <1>3, <1>4 DEF RegisterRead


-----------------------------------------------------------------------------
(* Steps that write *)

\* An entry with a version is one.
LEMMA RegisteredByVersion ==
  ASSUME PredsOK, NEW e \in Exprs
  PROVE  e \in Registered <=> preds[e].v # -1
<1>1. NoEntry.v = -1
  BY DEF NoEntry
<1>2. e \in Registered => preds[e].v \in 0..version
  BY DEF PredsOK
<1> QED BY <1>1, <1>2 DEF Registered

\* The transaction of an update whose watched keys are as it read them writes the
\* merged document with one new version, which it gives to the changed paths and
\* to the predicates whose truth changed; no predicate is registered by it, and
\* only the document layout, which drops expired entries, retires any.
LEMMA UpdateEffect ==
  ASSUME RedisInv, NEW p \in Processes, At(p, "exec"), ~proc[p].dirty, WriteDocument(proc[p])
  PROVE  /\ tree' = deep_merge(tree, proc[p].arg) /\ Stored(tree')
         /\ version' = version + 1
         /\ proc[p].changed \subseteq DocPaths
         /\ pathVersions' = [q \in DocPaths |-> IF q \in proc[p].changed THEN version + 1
                                                ELSE pathVersions[q]]
         /\ \A q \in DocPaths : \/ \E c \in proc[p].changed : related(c, q)
                                \/ get_path(tree', q) = get_path(tree, q)
         /\ preds' \in [Exprs -> Entry]
         /\ \A e \in Exprs : preds'[e] # NoEntry =>
              /\ e \in Registered
              /\ preds'[e].truth = check_expression(e, tree')
              /\ preds'[e].v = IF check_expression(e, tree') <=> check_expression(e, tree)
                               THEN preds[e].v ELSE version + 1
<1> DEFINE op == proc[p]
           written == IF layout = "shard" THEN {l.path[1] : l \in op.arg} ELSE Roots
<1>1. OpOK(op) /\ op.pc = "exec" /\ op.arg \in Patches /\ op.changed \subseteq DocPaths
  BY InCall DEF At, OpOK, Updating
<1>2. UpdateCurrent(op) /\ ExecCurrent(op)
  BY <1>1 DEF RedisInv, Current, Updating
<1>3. Stored(tree) /\ Stored(op.arg)
  BY <1>1, ContextStoreAssumption DEF RedisInv, DocumentOK
<1>4. /\ op.changed = changed_paths(tree, op.arg)
      /\ op.doc.tree = deep_merge(tree, op.arg) /\ op.doc.version = version + 1
      /\ op.doc.pathVersions = [q \in DocPaths |-> IF q \in op.changed THEN version + 1
                                                   ELSE pathVersions[q]]
  BY <1>2 DEF UpdateCurrent, Patched, Document
<1>5. \A l \in op.arg : l.path[1] \in written
  BY <1>3 DEF Stored, Roots
<1>6. tree' = deep_merge(tree, op.arg)
  <2>1. tree' = {l \in tree : l.path[1] \notin written}
                  \cup {l \in deep_merge(tree, op.arg) : l.path[1] \in written}
    BY <1>4 DEF WriteDocument
  <2> HIDE DEF written, op
  <2> QED BY <1>3, <1>5, <2>1, ShardWrite
<1>7. Stored(tree')
  BY <1>3, <1>6, MergeStored
<1>8. version' = version + 1
  BY <1>4 DEF WriteDocument
<1>9. pathVersions' = [q \in DocPaths |-> IF q \in op.changed THEN version + 1 ELSE pathVersions[q]]
  <2>1. ASSUME NEW q \in op.changed
        PROVE  q[1] \in written
    <3>1. PICK l \in op.arg : q = l.path
      BY <1>4, EffectivePart DEF changed_paths
    <3> QED BY <1>5, <3>1
  <2>2. pathVersions' = [q \in DocPaths |-> IF q[1] \in written THEN op.doc.pathVersions[q]
                                            ELSE pathVersions[q]]
    BY DEF WriteDocument
  <2> HIDE DEF written
  <2> QED BY <1>4, <2>1, <2>2
<1>10. \A q \in DocPaths : \/ \E c \in op.changed : related(c, q)
                           \/ get_path(tree', q) = get_path(tree, q)
  BY <1>3, <1>4, <1>6, ChangesAreTold
<1>11. preds' = [e \in Exprs |->
         IF e \in DOMAIN op.upd THEN [op.upd[e] EXCEPT !.age = preds[e].age]
         ELSE IF layout = "document" THEN NoEntry ELSE preds[e]]
  BY DEF WriteDocument
<1>12. ASSUME NEW e \in Exprs
       PROVE  /\ preds'[e] \in Entry
              /\ preds'[e] # NoEntry =>
                   /\ e \in Registered
                   /\ preds'[e].truth = check_expression(e, op.doc.tree)
                   /\ preds'[e].v = IF check_expression(e, op.doc.tree) <=> check_expression(e, tree)
                                    THEN preds[e].v ELSE version + 1
  <2>0. preds[e] \in Entry
    BY DEF RedisInv, PredsOK
  <2>1. CASE e \in DOMAIN op.upd
    <3>1. preds'[e] = [op.upd[e] EXCEPT !.age = preds[e].age]
      BY <1>11, <2>1
    <3>2. op.upd[e] \in Entry
      BY <1>2, <2>1 DEF ExecCurrent
    <3>3. preds'[e] \in Entry /\ preds'[e].truth = op.upd[e].truth /\ preds'[e].v = op.upd[e].v
      BY <2>0, <3>1, <3>2 DEF Entry
    <3> QED BY <1>2, <2>1, <3>3 DEF ExecCurrent
  <2>2. CASE e \notin DOMAIN op.upd /\ layout = "document"
    <3>1. preds'[e] = NoEntry
      BY <1>11, <2>2
    <3>2. NoEntry \in Entry
      BY DEF NoEntry, Entry
    <3> QED BY <3>1, <3>2
  <2>3. CASE e \notin DOMAIN op.upd /\ layout # "document"
    <3>1. preds'[e] = preds[e]
      BY <1>11, <2>3
    <3>2. ASSUME preds[e] # NoEntry
          PROVE  /\ e \in Registered
                 /\ check_expression(e, op.doc.tree) <=> check_expression(e, tree)
                 /\ preds[e].truth = check_expression(e, tree)
      <4>1. e \in Registered
        BY <3>2 DEF Registered
      <4> QED BY <1>2, <2>3, <4>1 DEF ExecCurrent, RedisInv, TruthFollows
    <3>3. /\ check_expression(e, op.doc.tree) \in BOOLEAN
          /\ check_expression(e, tree) \in BOOLEAN
      BY CheckBoolean
    <3>4. preds[e] # NoEntry => preds[e].truth = check_expression(e, op.doc.tree)
      BY <3>2, <3>3
    <3> QED BY <2>0, <3>1, <3>2, <3>4
  <2> QED BY <2>1, <2>2, <2>3
<1>13. preds' \in [Exprs -> Entry]
  <2>1. preds' = [e \in Exprs |-> preds'[e]]
    BY <1>11
  <2> QED BY <1>12, <2>1
<1>14. op.doc.tree = tree'
  BY <1>4, <1>6
<1> HIDE DEF op, written
<1>15. \A e \in Exprs : preds'[e] # NoEntry =>
              /\ e \in Registered
              /\ preds'[e].truth = check_expression(e, tree')
              /\ preds'[e].v = IF check_expression(e, tree') <=> check_expression(e, tree)
                               THEN preds[e].v ELSE version + 1
  BY <1>12, <1>14
<1> QED BY <1>1, <1>6, <1>7, <1>8, <1>9, <1>10, <1>13, <1>15 DEF op


\* A transaction of an update that takes effect keeps the invariant of the store.
LEMMA UpdateExecStep ==
  ASSUME RedisInv, NEW p \in Processes, UpdateExec(p)
  PROVE  RedisInv'
<1> DEFINE op == proc[p]
<1>1. OpOK(op) /\ op.pc = "exec" /\ op.arg \in Patches
  BY InCall DEF UpdateExec, At, OpOK, Updating
<1>2. CASE op.dirty /\ Retry(p, "read") /\ UNCHANGED <<redisVars, intentVars>>
  <2>1. UNCHANGED <<config, docVars, preds, indexVars, cache>>
    BY <1>2 DEF UpdateExec, redisVars
  <2> QED BY <1>1, <1>2, <2>1, RetryStep
<1>3. CASE ~op.dirty /\ WriteDocument(op) /\ Return(p, {"doc"} \cup IF op.upd = <<>> THEN {} ELSE {"pred"})
  <2> DEFINE keys == {"doc"} \cup IF op.upd = <<>> THEN {} ELSE {"pred"}
  <2>1. TxKeys \cap keys # {}
    BY DEF TxKeys
  <2>2. /\ layout' = layout /\ scope' = scope /\ index' = index /\ counter' = counter /\ cache' = cache
    BY <1>3 DEF UpdateExec, WriteDocument, config, indexVars
  <2>3. \A r \in Roots : counter'[r] \in Nat /\ counter'[r] >= counter[r]
    BY <2>2 DEF RedisInv, IndexOK
  <2> HIDE DEF keys
  <2>4. ProcOK' /\ \A q \in Processes : ~proc'[q].dirty => Current(q)'
    BY <1>3, <2>1, <2>2, <2>3, LoudOthers DEF keys
  <2>5. /\ tree' = deep_merge(tree, op.arg) /\ Stored(tree')
        /\ version' = version + 1
        /\ pathVersions' = [q \in DocPaths |-> IF q \in op.changed THEN version + 1
                                               ELSE pathVersions[q]]
        /\ preds' \in [Exprs -> Entry]
        /\ \A e \in Exprs : preds'[e] # NoEntry =>
              /\ e \in Registered
              /\ preds'[e].truth = check_expression(e, tree')
              /\ preds'[e].v = IF check_expression(e, tree') <=> check_expression(e, tree)
                               THEN preds[e].v ELSE version + 1
    BY <1>3, UpdateEffect DEF UpdateExec
  <2>6. ConfigOK'
    BY <2>2 DEF RedisInv, ConfigOK
  <2>7. DocumentOK'
    BY <2>5 DEF RedisInv, DocumentOK
  <2>8. Registered' = {e \in Exprs : preds'[e] # NoEntry}
    BY DEF Registered
  <2>9. PredsOK'
    BY <2>5, <2>8 DEF RedisInv, PredsOK, DocumentOK
  <2>10. TruthFollows'
    BY <2>5, <2>8 DEF TruthFollows
  <2>11. Registered' \subseteq Registered
    BY <2>5, <2>8
  <2>12. \A r \in Roots : Under(r)' \subseteq Under(r)
    BY <2>11 DEF Under
  <2>13. IndexOK'
    BY <2>2, <2>12 DEF RedisInv, IndexOK
  <2> QED BY <2>4, <2>6, <2>7, <2>9, <2>10, <2>13 DEF RedisInv
<1> QED BY <1>2, <1>3 DEF UpdateExec

\* The transaction of a registration whose watched keys are as it read them leaves
\* the document and every registered predicate as they are; what it adds starts at
\* the current version with its current truth.
LEMMA RegisterEffect ==
  ASSUME RedisInv, NEW p \in Processes, At(p, "rexec"), ~proc[p].dirty, WriteEntries(proc[p])
  PROVE  /\ tree' = tree /\ version' = version /\ pathVersions' = pathVersions
         /\ preds' \in [Exprs -> Entry]
         /\ \A e \in Exprs :
              /\ e \in Registered => preds'[e] # NoEntry
              /\ preds'[e] # NoEntry => /\ preds'[e].truth = check_expression(e, tree)
                                        /\ preds'[e].v = IF e \in Registered THEN preds[e].v ELSE version
<1> DEFINE op == proc[p]
<1>1. OpOK(op) /\ op.pc = "rexec" /\ op.arg \in Intents
  BY InCall DEF At, OpOK
<1>2. RegisterCurrent(op)
  BY <1>1 DEF RedisInv, Current
<1>3. tree' = tree /\ version' = version /\ pathVersions' = pathVersions
  BY <1>2 DEF WriteEntries, RegisterCurrent, Document, docVars
<1>4. preds' = [e \in Exprs |-> IF e \in DOMAIN op.upd THEN op.upd[e]
                                ELSE IF layout = "document" THEN NoEntry ELSE preds[e]]
  BY DEF WriteEntries
<1>5. version \in Nat /\ preds \in [Exprs -> Entry] /\ \A e \in Registered : preds[e].v \in 0..version
  BY DEF RedisInv, DocumentOK, PredsOK
<1>6. ASSUME NEW e \in Exprs
      PROVE  /\ preds'[e] \in Entry
             /\ e \in Registered => preds'[e] # NoEntry
             /\ preds'[e] # NoEntry => /\ preds'[e].truth = check_expression(e, tree)
                                       /\ preds'[e].v = IF e \in Registered THEN preds[e].v ELSE version
  <2>1. CASE e \in DOMAIN op.upd
    <3>1. preds'[e] = op.upd[e]
      BY <1>4, <2>1
    <3>2. /\ op.upd[e] \in Entry
          /\ op.upd[e].truth = check_expression(e, tree)
          /\ op.upd[e].v = IF e \in Registered THEN preds[e].v ELSE version
      BY <1>2, <2>1 DEF RegisterCurrent
    <3>3. op.upd[e].v # -1
      BY <1>5, <3>2
    <3>4. op.upd[e] # NoEntry
      BY <3>3 DEF NoEntry
    <3> QED BY <3>1, <3>2, <3>4
  <2>2. CASE e \notin DOMAIN op.upd /\ layout = "document"
    <3>1. preds'[e] = NoEntry /\ e \notin Registered
      BY <1>2, <1>4, <2>2 DEF RegisterCurrent
    <3>2. NoEntry \in Entry
      BY DEF NoEntry, Entry
    <3> QED BY <3>1, <3>2
  <2>3. CASE e \notin DOMAIN op.upd /\ layout # "document"
    <3>1. preds'[e] = preds[e] /\ (preds[e] # NoEntry <=> e \in Registered)
      BY <1>4, <2>3 DEF Registered
    <3>2. e \in Registered => preds[e].truth = check_expression(e, tree)
      BY DEF RedisInv, TruthFollows
    <3> QED BY <1>5, <3>1, <3>2
  <2> QED BY <2>1, <2>2, <2>3
<1>7. preds' \in [Exprs -> Entry]
  <2>1. preds' = [e \in Exprs |-> preds'[e]]
    BY <1>4
  <2> QED BY <1>6, <2>1
<1> QED BY <1>3, <1>6, <1>7

\* A transaction of a registration keeps the invariant of the store: a process
\* with the old index of a root that got a new predicate sees its counter moved.
LEMMA RegisterExecStep ==
  ASSUME RedisInv, NEW p \in Processes, RegisterExec(p)
  PROVE  RedisInv'
<1> DEFINE op == proc[p]
<1>1. OpOK(op) /\ op.pc = "rexec" /\ op.arg \in Intents
  BY InCall DEF RegisterExec, At, OpOK
<1>2. CASE op.dirty /\ Retry(p, "rread") /\ UNCHANGED <<redisVars, intentVars>>
  <2>1. UNCHANGED <<config, docVars, preds, indexVars, cache>>
    BY <1>2 DEF RegisterExec, redisVars
  <2> QED BY <1>1, <1>2, <2>1, RetryStep
<1>3. CASE ~op.dirty /\ WriteEntries(op) /\ Return(p, IF layout = "document" THEN {"doc"} ELSE {"pred"})
  <2> DEFINE keys == IF layout = "document" THEN {"doc"} ELSE {"pred"}
  <2>0. RegisterCurrent(op)
    BY <1>1, <1>3 DEF RedisInv, Current
  <2>1. TxKeys \cap keys # {}
    BY DEF TxKeys
  <2>2. /\ layout' = layout /\ scope' = scope /\ cache' = cache
    BY DEF RegisterExec, config
  <2>a. \A r \in Roots : counter[r] \in Nat
    BY DEF RedisInv, IndexOK
  <2>b. \/ counter' = counter
        \/ counter' = [r \in Roots |-> IF op.at[r] THEN counter[r] + 1 ELSE counter[r]]
    BY <1>3 DEF WriteEntries, indexVars
  <2>3. \A r \in Roots : counter'[r] \in Nat /\ counter'[r] >= counter[r]
    BY <2>a, <2>b
  <2> HIDE DEF keys
  <2>4. ProcOK' /\ \A q \in Processes : ~proc'[q].dirty => Current(q)'
    BY <1>3, <2>1, <2>2, <2>3, LoudOthers DEF keys
  <2>5. /\ tree' = tree /\ version' = version /\ pathVersions' = pathVersions
        /\ preds' \in [Exprs -> Entry]
        /\ \A e \in Exprs :
              /\ e \in Registered => preds'[e] # NoEntry
              /\ preds'[e] # NoEntry => /\ preds'[e].truth = check_expression(e, tree)
                                        /\ preds'[e].v = IF e \in Registered THEN preds[e].v ELSE version
    BY <1>3, RegisterEffect DEF RegisterExec
  <2>6. ConfigOK' /\ DocumentOK'
    BY <2>2, <2>5 DEF RedisInv, ConfigOK, DocumentOK
  <2>7. Registered' = {e \in Exprs : preds'[e] # NoEntry}
    BY DEF Registered
  <2>8. PredsOK'
    BY <2>5, <2>7 DEF RedisInv, PredsOK, DocumentOK
  <2>9. TruthFollows'
    BY <2>5, <2>7 DEF TruthFollows
  <2>10. IndexOK
    BY DEF RedisInv
  <2>11. IndexOK'
    <3>1. CASE layout = "document"
      BY <1>3, <2>2, <2>10, <3>1 DEF IndexOK, WriteEntries, indexVars
    <3>2. CASE layout # "document"
      <4>1. /\ preds' = [e \in Exprs |-> IF e \in DOMAIN op.upd THEN op.upd[e] ELSE preds[e]]
            /\ index' = [r \in Roots |-> index[r] \cup {e \in DOMAIN op.upd : Root(e) = r}]
            /\ counter' = [r \in Roots |-> IF op.at[r] THEN counter[r] + 1 ELSE counter[r]]
        BY <1>3, <3>2 DEF WriteEntries
      <4>2. index' \in [Roots -> SUBSET Exprs] /\ counter' \in [Roots -> Nat]
        BY <2>0, <2>10, <4>1 DEF IndexOK, RegisterCurrent
      <4>3. Registered' \subseteq Registered \cup DOMAIN op.upd
        BY <2>7, <4>1 DEF Registered
      <4>4. ASSUME NEW r \in Roots
            PROVE  /\ Under(r)' \subseteq index'[r]
                   /\ \A q \in Processes :
                        /\ cache'[q][r].at <= counter'[r]
                        /\ cache'[q][r].at = counter'[r] => Under(r)' \subseteq cache'[q][r].members
        <5>1. Under(r)' = {e \in Registered' : Root(e) = r}
          BY DEF Under
        <5>2. Under(r) \subseteq index[r]
          BY <2>10, <3>2 DEF IndexOK
        <5>3. Under(r)' \subseteq index'[r]
          BY <4>1, <4>3, <5>1, <5>2 DEF Under
        <5>4. \A q \in Processes : cache'[q][r].at <= counter'[r]
          BY <2>2, <2>3, <2>10 DEF IndexOK
        <5>5. CASE op.at[r]
          <6>1. counter'[r] = counter[r] + 1
            BY <4>1, <5>5
          <6> QED BY <2>2, <2>10, <5>3, <5>4, <6>1 DEF IndexOK
        <5>6. CASE ~op.at[r]
          <6>1. counter'[r] = counter[r]
            BY <4>1, <5>6
          <6>2. \A e \in DOMAIN op.upd : Root(e) = r => e \in Registered
            BY <2>0, <5>6 DEF RegisterCurrent
          <6>3. Under(r)' \subseteq Under(r)
            BY <4>3, <5>1, <6>2 DEF Under
          <6> QED BY <2>2, <2>10, <3>2, <5>3, <5>4, <6>1, <6>3 DEF IndexOK
        <5> QED BY <5>5, <5>6
      <4> QED BY <2>2, <2>10, <4>2, <4>4 DEF IndexOK
    <3> QED BY <3>1, <3>2
  <2> QED BY <2>4, <2>6, <2>8, <2>9, <2>11 DEF RedisInv
<1> QED BY <1>2, <1>3 DEF RegisterExec


\* Entries that only grow older leave everything current.
LEMMA AgeStep ==
  ASSUME RedisInv, NEW e \in Exprs, Age(e)
  PROVE  RedisInv'
<1>1. /\ layout' = layout /\ scope' = scope /\ tree' = tree /\ version' = version
      /\ pathVersions' = pathVersions /\ index' = index /\ counter' = counter
      /\ proc' = proc /\ cache' = cache
  BY DEF Age, config, docVars, indexVars
<1>2. preds \in [Exprs -> Entry] /\ \A f \in Registered : preds[f].v \in 0..version
  BY DEF RedisInv, PredsOK
<1>3. /\ e \in Registered
      /\ preds' = [preds EXCEPT ![e].age = IF preds[e].age = "fresh" THEN "old" ELSE "expired"]
  BY DEF Age, Registered
<1>4. /\ preds' \in [Exprs -> Entry]
      /\ \A f \in Exprs : preds'[f].v = preds[f].v /\ preds'[f].truth = preds[f].truth
      /\ \A f \in Exprs \ {e} : preds'[f] = preds[f]
  BY <1>2, <1>3 DEF Entry
<1>5. Registered' = Registered
  <2>1. preds'[e].v # -1
    BY <1>2, <1>3, <1>4
  <2>2. preds'[e] # NoEntry
    BY <2>1 DEF NoEntry
  <2> QED BY <1>3, <1>4, <2>2 DEF Registered
<1>6. Registered \subseteq Exprs
  BY DEF Registered
<1>7. ConfigOK' /\ DocumentOK'
  BY <1>1 DEF RedisInv, ConfigOK, DocumentOK
<1>8. PredsOK'
  BY <1>1, <1>2, <1>4, <1>5, <1>6 DEF PredsOK
<1>9. TruthFollows'
  BY <1>1, <1>4, <1>5, <1>6 DEF RedisInv, TruthFollows
<1>10. IndexOK'
  BY <1>1, <1>5 DEF RedisInv, IndexOK, Under
<1>11. ProcOK'
  BY <1>1 DEF RedisInv, ProcOK, OpOK, OpShape, InTx, TxKeys
<1>12. ASSUME NEW q \in Processes, ~proc'[q].dirty
       PROVE  Current(q)'
  <2>1. Current(q)
    BY <1>1, <1>12 DEF RedisInv
  <2>2. proc[q].pc \in Updating => UpdateCurrent(proc[q])'
    BY <1>1, <2>1 DEF Current, UpdateCurrent, Patched, Document
  <2>3. proc[q].pc = "exec" => ExecCurrent(proc[q])'
    <3> SUFFICES ASSUME proc[q].pc = "exec" PROVE ExecCurrent(proc[q])'
      OBVIOUS
    <3>1. ExecCurrent(proc[q])
      BY <2>1 DEF Current
    <3> QED BY <1>1, <1>4, <1>5, <1>6, <3>1 DEF ExecCurrent
  <2>4. proc[q].pc = "rexec" => RegisterCurrent(proc[q])'
    <3> SUFFICES ASSUME proc[q].pc = "rexec" PROVE RegisterCurrent(proc[q])'
      OBVIOUS
    <3>1. RegisterCurrent(proc[q])
      BY <2>1 DEF Current
    <3> QED BY <1>1, <1>4, <1>5, <1>6, <3>1 DEF RegisterCurrent, Document
  <2> QED BY <1>1, <2>1, <2>2, <2>3, <2>4 DEF Current, ChangedRoots
<1> QED BY <1>7, <1>8, <1>9, <1>10, <1>11, <1>12 DEF RedisInv

\* A retirement removes one entry and moves the counter of its root.
LEMMA GcExecStep ==
  ASSUME RedisInv, NEW p \in Processes, GcExec(p)
  PROVE  RedisInv'
<1> DEFINE e == proc[p].arg
<1>1. OpOK(proc[p]) /\ e \in Exprs /\ layout # "document"
  BY InCall DEF GcExec, At, OpOK
<1>2. CASE proc[p].dirty
  <2>1. Return(p, {}) /\ UNCHANGED <<config, docVars, preds, indexVars, cache>>
    BY <1>2 DEF GcExec
  <2> QED BY <2>1, DisconnectStep
<1>3. CASE ~proc[p].dirty
  <2>1. /\ preds' = [preds EXCEPT ![e] = NoEntry]
        /\ index' = [index EXCEPT ![Root(e)] = index[Root(e)] \ {e}]
        /\ counter' = [counter EXCEPT ![Root(e)] = counter[Root(e)] + 1]
        /\ Return(p, {"pred"})
    BY <1>3 DEF GcExec
  <2>2. /\ layout' = layout /\ scope' = scope /\ tree' = tree /\ version' = version
        /\ pathVersions' = pathVersions /\ cache' = cache
    BY DEF GcExec, config, docVars
  <2>3. IndexOK /\ PredsOK
    BY DEF RedisInv
  <2>4. Root(e) \in Roots
    BY <1>1, RootOfPath
  <2> HIDE DEF e
  <2>5. /\ index' \in [Roots -> SUBSET Exprs] /\ counter' \in [Roots -> Nat]
        /\ \A r \in Roots : counter'[r] >= counter[r]
        /\ counter'[Root(e)] = counter[Root(e)] + 1
        /\ \A r \in Roots \ {Root(e)} : counter'[r] = counter[r]
        /\ \A r \in Roots : index[r] \ {e} \subseteq index'[r]
    BY <2>1, <2>3, <2>4 DEF IndexOK
  <2>6. TxKeys \cap {"pred"} # {}
    BY <1>1 DEF TxKeys
  <2>7. ProcOK' /\ \A q \in Processes : ~proc'[q].dirty => Current(q)'
    BY <2>1, <2>2, <2>5, <2>6, LoudOthers
  <2>8. NoEntry \in Entry
    BY DEF NoEntry, Entry
  <2>9. /\ preds' \in [Exprs -> Entry] /\ preds'[e] = NoEntry
        /\ \A f \in Exprs \ {e} : preds'[f] = preds[f]
    BY <1>1, <2>1, <2>3, <2>8 DEF PredsOK
  <2>10. Registered' = Registered \ {e}
    BY <2>9 DEF Registered
  <2>11. Registered \subseteq Exprs
    BY DEF Registered
  <2>12. ConfigOK' /\ DocumentOK'
    BY <2>2 DEF RedisInv, ConfigOK, DocumentOK
  <2>13. PredsOK'
    BY <2>2, <2>3, <2>9, <2>10, <2>11 DEF PredsOK
  <2>14. TruthFollows'
    BY <2>2, <2>9, <2>10, <2>11 DEF RedisInv, TruthFollows
  <2>15. \A r \in Roots : Under(r)' \subseteq Under(r) \ {e}
    BY <2>10 DEF Under
  <2>16. ASSUME NEW q \in Processes, NEW r \in Roots
         PROVE  /\ cache[q][r].at <= counter'[r]
                /\ cache[q][r].at = counter'[r] => Under(r)' \subseteq cache[q][r].members
    <3>1. cache[q][r].at \in Nat /\ counter[r] \in Nat /\ cache[q][r].at <= counter[r]
      BY <2>3 DEF IndexOK
    <3>2. cache[q][r].at = counter[r] => Under(r) \subseteq cache[q][r].members
      BY <1>1, <2>3 DEF IndexOK
    <3>3. CASE r = Root(e)
      BY <2>5, <3>1, <3>3
    <3>4. CASE r # Root(e)
      BY <2>5, <2>15, <3>1, <3>2, <3>4
    <3> QED BY <3>3, <3>4
  <2>17. \A r \in Roots : Under(r)' \subseteq index'[r]
    BY <1>1, <2>3, <2>5, <2>15 DEF IndexOK
  <2>18. IndexOK'
    BY <2>2, <2>3, <2>5, <2>16, <2>17 DEF IndexOK
  <2> QED BY <2>7, <2>12, <2>13, <2>14, <2>18 DEF RedisInv
<1> QED BY <1>2, <1>3

\* A step that leaves the store and the calls alone.
LEMMA StutterStep ==
  ASSUME RedisInv, UNCHANGED <<config, docVars, preds, indexVars, proc, cache>>
  PROVE  RedisInv'
<1>1. /\ layout' = layout /\ scope' = scope /\ tree' = tree /\ version' = version
      /\ pathVersions' = pathVersions /\ preds' = preds /\ index' = index /\ counter' = counter
      /\ proc' = proc /\ cache' = cache
  BY DEF docVars, indexVars, config
<1>2. ConfigOK' /\ DocumentOK' /\ PredsOK' /\ TruthFollows'
  BY <1>1 DEF RedisInv, ConfigOK, DocumentOK, PredsOK, TruthFollows, Registered
<1>3. IndexOK'
  BY QuietIndex
<1>4. \A q \in Processes : /\ proc'[q] = Idle \/ OpOK(proc[q])'
                           /\ ~proc'[q].dirty => Current(q)'
  BY <1>1, QuietOthers
<1>5. ProcOK'
  BY <1>1, <1>4 DEF RedisInv, ProcOK
<1> QED BY <1>2, <1>3, <1>4, <1>5 DEF RedisInv

\* Every step keeps the invariant of the store.
LEMMA RedisStep ==
  ASSUME RedisInv, [Next]_vars
  PROVE  RedisInv'
<1>1. CASE UNCHANGED vars
  BY <1>1, StutterStep DEF vars, redisVars
<1>2. ASSUME NEW p \in Processes, NEW patch \in Patches, UpdateRead(p, patch)
      PROVE  RedisInv'
  BY <1>2, UpdateReadStep
<1>3. ASSUME NEW p \in Processes, Counters(p) \/ Members(p) \/ Entries(p) \/ UpdateExec(p)
      PROVE  RedisInv'
  BY <1>3, CountersStep, MembersStep, EntriesStep, UpdateExecStep
<1>4. ASSUME NEW p \in Processes, NEW i \in Intents, RegisterFast(p, i)
      PROVE  RedisInv'
  <2>1. UNCHANGED <<config, docVars, preds, indexVars, cache>>
    BY <1>4 DEF RegisterFast, redisVars
  <2>2. proc' = proc \/ proc' = [proc EXCEPT ![p] = Op("rread", i)]
    BY <1>4 DEF RegisterFast
  <2> QED BY <2>1, <2>2, StutterStep, StartStep
<1>5. ASSUME NEW p \in Processes, NEW i \in Intents, SnapshotRead(p, i)
      PROVE  RedisInv'
  BY <1>5, StutterStep DEF SnapshotRead, redisVars
<1>6. ASSUME NEW p \in Processes, RegisterRead(p) \/ RegisterExec(p) \/ GcRead(p) \/ GcExec(p)
      PROVE  RedisInv'
  BY <1>6, RegisterReadStep, RegisterExecStep, GcReadStep, GcExecStep
<1>7. ASSUME NEW p \in Processes, NEW e \in Exprs, GcScan(p, e)
      PROVE  RedisInv'
  <2>1. UNCHANGED <<config, docVars, preds, indexVars, cache>>
    BY <1>7 DEF GcScan, redisVars
  <2>2. proc' = [proc EXCEPT ![p] = Op("gread", e)] /\ layout # "document"
    BY <1>7 DEF GcScan
  <2> QED BY <2>1, <2>2, StartStep
<1>8. ASSUME NEW p \in Processes, Disconnect(p)
      PROVE  RedisInv'
  BY <1>8, DisconnectStep DEF Disconnect, redisVars
<1>9. ASSUME NEW e \in Exprs, Age(e)
      PROVE  RedisInv'
  BY <1>9, AgeStep
<1>10. ASSUME NEW i \in Intents, CommitAuthorization(i)
       PROVE  RedisInv'
  BY <1>10, StutterStep DEF CommitAuthorization
<1> QED BY <1>1, <1>2, <1>3, <1>4, <1>5, <1>6, <1>7, <1>8, <1>9, <1>10 DEF Next


-----------------------------------------------------------------------------
(* Versions *)

\* A bounded, nonempty set of naturals has a greatest element.
LEMMA GreatestVersion ==
  ASSUME NEW n \in Nat, NEW S \in SUBSET (0..n), S # {}
  PROVE  Max(S) \in S /\ \A x \in S : x <= Max(S)
<1> DEFINE U == {u \in Nat : \A x \in S : u >= x}
<1>1. U \subseteq Nat /\ n \in U
  OBVIOUS
<1>2. PICK m \in U : \A y \in U : ~(<<y, m>> \in OpToRel(<, Nat))
  BY <1>1, NatLessThanWellFounded, WFMin
<1>3. \A y \in U : ~(y < m)
  BY <1>2 DEF OpToRel
<1>4. m \in S
  <2> SUFFICES ASSUME m \notin S PROVE FALSE
    OBVIOUS
  <2>1. \A x \in S : x < m
    OBVIOUS
  <2>2. PICK x \in S : TRUE
    OBVIOUS
  <2>3. m - 1 \in Nat /\ \A y \in S : m - 1 >= y
    BY <2>1, <2>2
  <2> QED BY <2>3, <1>3
<1>5. \E g \in S : \A x \in S : g >= x
  BY <1>4
<1>6. Max(S) \in S /\ \A x \in S : Max(S) >= x
  BY <1>5 DEF Max
<1>7. \A x \in S : x \in Nat
  OBVIOUS
<1> QED BY <1>6, <1>7

\* What read_set_version returns is no less than the version of any related path.
LEMMA ReadSetVersionBounds ==
  ASSUME NEW n \in Nat, NEW pv \in [DocPaths -> 0..n], NEW paths
  PROVE  /\ read_set_version(pv, paths) \in 0..n
         /\ \A c \in DocPaths : (\E r \in paths : related(c, r)) => pv[c] <= read_set_version(pv, paths)
<1> DEFINE Q == {c \in DocPaths : \E r \in paths : related(c, r)}
           S == {0} \cup {pv[q] : q \in Q}
<1>1. S \in SUBSET (0..n) /\ S # {}
  OBVIOUS
<1>2. read_set_version(pv, paths) = Max(S)
  <2>1. DOMAIN pv = DocPaths
    OBVIOUS
  <2> QED BY <2>1 DEF read_set_version
<1>3. \A c \in Q : pv[c] \in S
  OBVIOUS
<1> HIDE DEF S
<1> QED BY <1>1, <1>2, <1>3, GreatestVersion

\* What predicate_version returns is -1, with an entry missing, or no less than
\* the version of any of the predicates.
LEMMA PredicateVersionBounds ==
  ASSUME NEW n \in Nat, NEW entries, NEW E,
         \A e \in E : entries[e] # NoEntry => entries[e].v \in 0..n
  PROVE  /\ predicate_version(entries, E) \in -1..n
         /\ predicate_version(entries, E) >= 0 =>
              \A e \in E : entries[e] # NoEntry /\ entries[e].v <= predicate_version(entries, E)
<1>1. CASE \E e \in E : entries[e] = NoEntry
  <2>1. predicate_version(entries, E) = -1
    BY <1>1 DEF predicate_version
  <2> QED BY <2>1
<1>2. CASE \A e \in E : entries[e] # NoEntry
  <2> DEFINE S == {0} \cup {entries[e].v : e \in E}
  <2>1. predicate_version(entries, E) = Max(S)
    BY <1>2 DEF predicate_version
  <2>2. S \in SUBSET (0..n) /\ S # {}
    BY <1>2
  <2>3. \A e \in E : entries[e].v \in S
    OBVIOUS
  <2> HIDE DEF S
  <2>4. Max(S) \in 0..n /\ \A x \in S : x <= Max(S)
    BY <2>2, GreatestVersion
  <2> QED BY <1>2, <2>1, <2>3, <2>4
<1> QED BY <1>1, <1>2

\* what a step may do to the versions: they advance, and a predicate that is
\* registered anew starts at the current one
VersionsAdvance ==
  /\ scope' = scope
  /\ version' \in Nat /\ version' >= version
  /\ \A c \in DocPaths : pathVersions'[c] \in Nat /\ pathVersions'[c] >= pathVersions[c]
  /\ \A e \in Exprs : preds'[e] # NoEntry =>
       /\ preds'[e].v \in Nat
       /\ preds'[e].v >= version \/ (e \in Registered /\ preds'[e].v >= preds[e].v)

\* The versions of the parts of a state.
LEMMA VersionTypes ==
  ASSUME RedisInv
  PROVE  /\ version \in Nat
         /\ \A c \in DocPaths : pathVersions[c] \in 0..version
         /\ \A e \in Exprs : preds[e] # NoEntry => e \in Registered /\ preds[e].v \in 0..version
BY DEF RedisInv, DocumentOK, PredsOK, Registered

\* Without a write the versions stay.
LEMMA StutterAdvance ==
  ASSUME RedisInv, UNCHANGED <<config, docVars, preds>>
  PROVE  VersionsAdvance
<1>1. /\ scope' = scope /\ version' = version /\ pathVersions' = pathVersions /\ preds' = preds
  BY DEF config, docVars
<1> QED BY <1>1, VersionTypes DEF VersionsAdvance

\* The transaction of an update advances the versions.
LEMMA UpdateAdvance ==
  ASSUME RedisInv, NEW p \in Processes, UpdateExec(p), ~proc[p].dirty
  PROVE  VersionsAdvance
<1>1. WriteDocument(proc[p]) /\ At(p, "exec") /\ scope' = scope
  BY DEF UpdateExec, config
<1>2. /\ version' = version + 1
      /\ pathVersions' = [q \in DocPaths |-> IF q \in proc[p].changed THEN version + 1
                                             ELSE pathVersions[q]]
      /\ \A e \in Exprs : preds'[e] # NoEntry =>
           /\ e \in Registered
           /\ preds'[e].v = IF check_expression(e, tree') <=> check_expression(e, tree)
                            THEN preds[e].v ELSE version + 1
  BY <1>1, UpdateEffect
<1>3. \A e \in Registered : preds[e].v \in 0..version
  BY DEF RedisInv, PredsOK
<1> QED BY <1>1, <1>2, <1>3, VersionTypes DEF VersionsAdvance

\* The transaction of a registration leaves versions and adds current ones.
LEMMA RegisterAdvance ==
  ASSUME RedisInv, NEW p \in Processes, RegisterExec(p), ~proc[p].dirty
  PROVE  VersionsAdvance
<1>1. WriteEntries(proc[p]) /\ At(p, "rexec") /\ scope' = scope
  BY DEF RegisterExec, config
<1>2. /\ version' = version /\ pathVersions' = pathVersions
      /\ \A e \in Exprs : preds'[e] # NoEntry =>
           preds'[e].v = IF e \in Registered THEN preds[e].v ELSE version
  BY <1>1, RegisterEffect
<1>3. \A e \in Registered : preds[e].v \in 0..version
  BY DEF RedisInv, PredsOK
<1> QED BY <1>1, <1>2, <1>3, VersionTypes DEF VersionsAdvance

\* A retirement and the passing of time leave the other versions.
LEMMA RetireAdvance ==
  ASSUME RedisInv, (\E p \in Processes : GcExec(p)) \/ (\E e \in Exprs : Age(e))
  PROVE  VersionsAdvance
<1>1. scope' = scope /\ version' = version /\ pathVersions' = pathVersions
  BY DEF GcExec, Age, config, docVars
<1>2. preds \in [Exprs -> Entry]
  BY DEF RedisInv, PredsOK
<1>3. \A e \in Exprs : preds'[e] # NoEntry => e \in Registered /\ preds'[e].v = preds[e].v
  <2>1. CASE \E p \in Processes : GcExec(p)
    <3>1. PICK p \in Processes : GcExec(p)
      BY <2>1
    <3>2. preds' = preds \/ preds' = [preds EXCEPT ![proc[p].arg] = NoEntry]
      BY <3>1 DEF GcExec
    <3> QED BY <1>2, <3>2 DEF Registered
  <2>2. CASE \E e \in Exprs : Age(e)
    <3>1. PICK e \in Exprs : Age(e)
      BY <2>2
    <3>2. preds[e] # NoEntry
          /\ preds' = [preds EXCEPT ![e].age = IF preds[e].age = "fresh" THEN "old" ELSE "expired"]
      BY <3>1 DEF Age
    <3> QED BY <1>2, <3>2 DEF Registered, Entry
  <2> QED BY <2>1, <2>2
<1>4. \A e \in Registered : preds[e].v \in 0..version
  BY DEF RedisInv, PredsOK
<1> QED BY <1>1, <1>3, <1>4, VersionTypes DEF VersionsAdvance


-----------------------------------------------------------------------------
(* Intents *)

\* A change that shows in the versions does so in every later state.
LEMMA ShowsOn ==
  ASSUME RedisInv, IntentsOK, VersionsAdvance, NEW i \in Intents, expected'[i] = expected[i], Shows(i)
  PROVE  Shows(i)'
<1>1. expected[i] \in Int /\ version \in Nat /\ version' \in Nat
  BY VersionTypes DEF IntentsOK, VersionsAdvance
<1>2. expected'[i] < version'
  BY <1>1 DEF Shows, VersionsAdvance
<1>3. ASSUME scope' = "readset"
      PROVE  \E c \in DocPaths : /\ \E r \in ReadPaths(i) : related(c, r)
                                 /\ pathVersions'[c] > expected'[i]
  <2>1. PICK c \in DocPaths : (\E r \in ReadPaths(i) : related(c, r)) /\ pathVersions[c] > expected[i]
    BY <1>3 DEF Shows, VersionsAdvance
  <2>2. pathVersions'[c] \in Nat /\ pathVersions'[c] >= pathVersions[c] /\ pathVersions[c] \in Nat
    BY VersionTypes DEF VersionsAdvance
  <2> QED BY <1>1, <2>1, <2>2
<1>4. ASSUME scope' = "truth"
      PROVE  \E e \in Needs[i] : preds'[e] # NoEntry => preds'[e].v > expected'[i]
  <2>1. PICK e \in Needs[i] : e \in Registered => preds[e].v > expected[i]
    BY <1>4 DEF Shows, VersionsAdvance
  <2>2. e \in Exprs
    BY ContextStoreAssumption
  <2>3. ASSUME preds'[e] # NoEntry
        PROVE  preds'[e].v > expected[i]
    <3>1. /\ preds'[e].v \in Nat
          /\ preds'[e].v >= version \/ (e \in Registered /\ preds'[e].v >= preds[e].v)
      BY <2>2, <2>3 DEF VersionsAdvance
    <3>2. e \in Registered => preds[e].v \in Nat
      BY <2>2, VersionTypes DEF Registered
    <3> QED BY <1>1, <2>1, <3>1, <3>2 DEF Shows
  <2> QED BY <2>3
<1>5. ReadPaths(i)' = ReadPaths(i)
  BY DEF ReadPaths
<1>6. Registered' = {e \in Exprs : preds'[e] # NoEntry} /\ Needs[i] \subseteq Exprs
  BY ContextStoreAssumption DEF Registered
<1> QED BY <1>2, <1>3, <1>4, <1>5, <1>6 DEF Shows

\* A step keeps the invariant of the intents if what it does to an intent is to
\* forget that it moved, or is shown by the versions.
LEMMA IntentStep ==
  ASSUME RedisInv, IntentInv, VersionsAdvance, LogOK', CommitFresh', IntentsOK',
         \A i \in moved' : expected'[i] # NotRead =>
            (i \in moved /\ expected'[i] = expected[i]) \/ Shows(i)'
  PROVE  IntentInv'
<1>1. ASSUME NEW i \in moved', expected'[i] # NotRead
      PROVE  Shows(i)'
  <2>1. i \in Intents
    BY DEF IntentsOK
  <2>2. CASE i \in moved /\ expected'[i] = expected[i]
    BY <1>1, <2>1, <2>2, ShowsOn DEF IntentInv
  <2> QED BY <1>1, <2>2
<1> QED BY <1>1 DEF IntentInv

\* A step that leaves the intents alone.
LEMMA IntentStutter ==
  ASSUME RedisInv, IntentInv, VersionsAdvance, UNCHANGED <<intentVars, log, committed>>
  PROVE  IntentInv'
<1>1. expected' = expected /\ moved' = moved /\ log' = log /\ committed' = committed
  BY DEF intentVars
<1>2. LogOK' /\ CommitFresh'
  BY <1>1 DEF IntentInv, LogOK, CommitFresh
<1>3. IntentsOK'
  BY <1>1, VersionTypes DEF IntentInv, IntentsOK, VersionsAdvance
<1> QED BY <1>1, <1>2, <1>3, IntentStep

\* A validation reads a version no later than the current one.
LEMMA ReadStep ==
  ASSUME RedisInv, IntentInv, VersionsAdvance, UNCHANGED <<log, committed>>,
         NEW i \in Intents, NEW v \in Int, v <= version',
         expected' = [expected EXCEPT ![i] = v], moved' = moved \ {i}
  PROVE  IntentInv'
<1>1. LogOK' /\ CommitFresh'
  BY DEF IntentInv, LogOK, CommitFresh
<1>2. IntentsOK
  BY DEF IntentInv
<1>3. expected' \in [Intents -> Int] /\ \A j \in Intents : expected'[j] = IF j = i THEN v ELSE expected[j]
  BY <1>2 DEF IntentsOK
<1>4. IntentsOK'
  BY <1>2, <1>3, VersionTypes DEF IntentsOK, VersionsAdvance
<1>5. \A j \in moved' : j \in moved /\ expected'[j] = expected[j]
  BY <1>2, <1>3 DEF IntentsOK
<1> QED BY <1>1, <1>4, <1>5, IntentStep

\* A registration that returns what is in the store is such a read.
LEMMA RegistersStep ==
  ASSUME RedisInv, IntentInv, VersionsAdvance, UNCHANGED <<log, committed>>, version' = version,
         NEW i \in Intents, NEW entries, Registers(i, entries),
         \A e \in Needs[i] : entries[e] # NoEntry => entries[e].v \in 0..version
  PROVE  IntentInv'
<1>1. version \in Nat
  BY VersionTypes
<1>2. predicate_version(entries, Needs[i]) \in -1..version
  BY <1>1, PredicateVersionBounds
<1> DEFINE v == predicate_version(entries, Needs[i])
<1>3. v \in Int /\ v <= version'
  BY <1>1, <1>2
<1>4. expected' = [expected EXCEPT ![i] = v] /\ moved' = moved \ {i}
  BY DEF Registers
<1> HIDE DEF v
<1> QED BY <1>3, <1>4, ReadStep

\* An update tells every intent that it disturbs: the path or the predicate that
\* changed gets the new version.
LEMMA DisturbedShows ==
  ASSUME RedisInv, IntentInv, NEW p \in Processes, UpdateExec(p), ~proc[p].dirty,
         NEW i \in Disturbed(tree')
  PROVE  Shows(i)'
<1>1. WriteDocument(proc[p]) /\ At(p, "exec") /\ scope' = scope
  BY DEF UpdateExec, config
<1>2. expected' = expected
  BY <1>1 DEF WriteDocument
<1>3. /\ version' = version + 1
      /\ proc[p].changed \subseteq DocPaths
      /\ pathVersions' = [q \in DocPaths |-> IF q \in proc[p].changed THEN version + 1
                                             ELSE pathVersions[q]]
      /\ \A q \in DocPaths : \/ \E c \in proc[p].changed : related(c, q)
                             \/ get_path(tree', q) = get_path(tree, q)
      /\ \A e \in Exprs : preds'[e] # NoEntry =>
           preds'[e].v = IF check_expression(e, tree') <=> check_expression(e, tree)
                         THEN preds[e].v ELSE version + 1
  BY <1>1, UpdateEffect
<1>4. i \in Intents /\ version \in Nat /\ expected[i] \in Int /\ expected[i] <= version
  BY VersionTypes DEF Disturbed, IntentInv, IntentsOK
<1>5. PICK e \in Needs[i] : IF scope = "truth" THEN check_expression(e, tree') # check_expression(e, tree)
                            ELSE get_path(tree', e.path) # get_path(tree, e.path)
  BY DEF Disturbed
<1>6. e \in Exprs /\ e.path \in DocPaths /\ e.path \in ReadPaths(i) /\ Needs[i] \subseteq Exprs
  BY <1>4, ContextStoreAssumption DEF ReadPaths
<1>7. ASSUME scope = "readset"
      PROVE  \E c \in DocPaths : /\ \E r \in ReadPaths(i) : related(c, r)
                                 /\ pathVersions'[c] > expected'[i]
  <2>1. get_path(tree', e.path) # get_path(tree, e.path)
    BY <1>5, <1>7
  <2>2. PICK c \in proc[p].changed : related(c, e.path)
    BY <1>3, <1>6, <2>1
  <2>3. c \in DocPaths /\ pathVersions'[c] = version + 1
    BY <1>3
  <2> QED BY <1>2, <1>4, <1>6, <2>2, <2>3
<1>8. ASSUME scope = "truth", preds'[e] # NoEntry
      PROVE  preds'[e].v > expected'[i]
  <2>1. check_expression(e, tree') # check_expression(e, tree)
    BY <1>5, <1>8
  <2>2. check_expression(e, tree') \in BOOLEAN /\ check_expression(e, tree) \in BOOLEAN
    BY CheckBoolean
  <2>3. ~(check_expression(e, tree') <=> check_expression(e, tree))
    BY <2>1, <2>2
  <2>4. preds'[e].v = version + 1
    BY <1>3, <1>6, <1>8, <2>3
  <2> QED BY <1>2, <1>4, <2>4
<1>9. expected'[i] < version'
  BY <1>2, <1>3, <1>4
<1>10. ReadPaths(i)' = ReadPaths(i) /\ Registered' = {f \in Exprs : preds'[f] # NoEntry}
  BY DEF ReadPaths, Registered
<1> QED BY <1>1, <1>6, <1>7, <1>8, <1>9, <1>10 DEF Shows

\* Nothing that moved is committed: its versions are not the ones it was
\* validated at.
LEMMA CommitStep ==
  ASSUME RedisInv, IntentInv, NEW i \in Intents, CommitAuthorization(i)
  PROVE  IntentInv'
<1> DEFINE observed == IF scope = "truth" THEN predicate_version(preds, Needs[i])
                       ELSE read_set_version(pathVersions, ReadPaths(i))
           grant == i \notin committed /\ observed >= 0 /\ observed = expected[i]
           record == [id |-> i, moved |-> i \in moved]
<1>1. UNCHANGED <<config, docVars, preds>>
  BY DEF CommitAuthorization
<1>2. VersionsAdvance
  BY <1>1, StutterAdvance
<1>3. version \in Nat /\ pathVersions \in [DocPaths -> 0..version]
  BY DEF RedisInv, DocumentOK
<1>4. scope \in {"readset", "truth"}
  BY DEF RedisInv, ConfigOK
<1>5. /\ expected' = [expected EXCEPT ![i] = NotRead]
      /\ moved' = moved \ {i}
      /\ expected[i] # NotRead
      /\ IF grant THEN log' = Append(log, record) /\ committed' = committed \cup {i}
         ELSE UNCHANGED <<log, committed>>
  BY DEF CommitAuthorization
<1>6. ASSUME grant, i \in moved
      PROVE  FALSE
  <2>0. Shows(i) /\ expected[i] \in Int
    BY <1>5, <1>6 DEF IntentInv, IntentsOK
  <2>1. CASE scope = "readset"
    <3>1. PICK c \in DocPaths : (\E r \in ReadPaths(i) : related(c, r)) /\ pathVersions[c] > expected[i]
      BY <2>0, <2>1 DEF Shows
    <3>2. pathVersions[c] <= read_set_version(pathVersions, ReadPaths(i))
      BY <1>3, <3>1, ReadSetVersionBounds
    <3>3. read_set_version(pathVersions, ReadPaths(i)) = expected[i]
      BY <1>6, <2>1
    <3>4. pathVersions[c] \in Nat
      BY <1>3
    <3> QED BY <2>0, <3>1, <3>2, <3>3, <3>4
  <2>2. CASE scope = "truth"
    <3>1. PICK e \in Needs[i] : e \in Registered => preds[e].v > expected[i]
      BY <2>0, <2>2 DEF Shows
    <3>2. \A f \in Needs[i] : f \in Exprs
      BY ContextStoreAssumption
    <3>3. \A f \in Needs[i] : preds[f] # NoEntry => preds[f].v \in 0..version
      BY <3>2, VersionTypes
    <3>4. predicate_version(preds, Needs[i]) >= 0 /\ predicate_version(preds, Needs[i]) = expected[i]
      BY <1>6, <2>2
    <3>5. preds[e] # NoEntry /\ preds[e].v <= predicate_version(preds, Needs[i])
      BY <1>3, <3>3, <3>4, PredicateVersionBounds
    <3>6. e \in Registered /\ preds[e].v \in 0..version
      BY <3>2, <3>3, <3>5 DEF Registered
    <3> QED BY <2>0, <3>1, <3>4, <3>5, <3>6
  <2> QED BY <1>4, <2>1, <2>2
<1> HIDE DEF grant
<1>7. log \in Seq([id: Intents, moved: BOOLEAN]) /\ committed \subseteq Intents
  BY DEF IntentInv, LogOK
<1>8. (i \in moved) \in BOOLEAN
  OBVIOUS
<1>9. record \in [id: Intents, moved: BOOLEAN] /\ record.moved = (i \in moved)
  BY <1>8, Zenon
<1> HIDE DEF record
<1>10. LogOK'
  <2>1. CASE grant
    <3>1. Append(log, record) \in Seq([id: Intents, moved: BOOLEAN])
      BY <1>7, <1>9
    <3> QED BY <1>5, <1>7, <2>1, <3>1 DEF LogOK
  <2>2. CASE ~grant
    BY <1>5, <1>7, <2>2 DEF LogOK
  <2> QED BY <2>1, <2>2
<1>11. CommitFresh'
  <2>1. \A n \in DOMAIN log : ~log[n].moved
    BY DEF IntentInv, CommitFresh
  <2>2. CASE grant
    <3>1. log' = Append(log, record) /\ ~record.moved
      BY <1>5, <1>6, <1>9, <2>2
    <3>2. \A n \in DOMAIN log' : log'[n] = record \/ (n \in DOMAIN log /\ log'[n] = log[n])
      BY <1>7, <1>9, <3>1
    <3> QED BY <2>1, <3>1, <3>2 DEF CommitFresh
  <2>3. CASE ~grant
    BY <1>5, <2>1, <2>3 DEF CommitFresh
  <2> QED BY <2>2, <2>3
<1>12. IntentsOK
  BY DEF IntentInv
<1>13. expected' \in [Intents -> Int] /\ \A j \in Intents : expected'[j] = IF j = i THEN NotRead ELSE expected[j]
  BY <1>5, <1>12 DEF IntentsOK, NotRead
<1>14. version' = version
  BY <1>1 DEF docVars
<1>15. IntentsOK'
  BY <1>3, <1>5, <1>12, <1>13, <1>14 DEF IntentsOK, NotRead
<1>16. \A j \in moved' : j \in moved /\ expected'[j] = expected[j]
  BY <1>5, <1>12, <1>13 DEF IntentsOK
<1> QED BY <1>2, <1>10, <1>11, <1>15, <1>16, IntentStep


\* Every step keeps the invariant of the intents.
LEMMA IntentNext ==
  ASSUME RedisInv, IntentInv, [Next]_vars
  PROVE  IntentInv'
<1> DEFINE Still == UNCHANGED <<config, docVars, preds, intentVars, log, committed>>
<1>1. Still => IntentInv'
  BY StutterAdvance, IntentStutter
<1>2. CASE UNCHANGED vars
  BY <1>1, <1>2 DEF vars, redisVars
<1>3. ASSUME NEW p \in Processes, NEW patch \in Patches, UpdateRead(p, patch)
      PROVE  IntentInv'
  BY <1>1, <1>3 DEF UpdateRead, redisVars
<1>4. ASSUME NEW p \in Processes, Counters(p) \/ Members(p) \/ Entries(p)
      PROVE  IntentInv'
  BY <1>1, <1>4 DEF Counters, Members, Entries, redisVars
<1>5. ASSUME NEW p \in Processes, UpdateExec(p)
      PROVE  IntentInv'
  <2>1. CASE proc[p].dirty
    BY <1>1, <1>5, <2>1 DEF UpdateExec, redisVars
  <2>2. CASE ~proc[p].dirty
    <3>1. WriteDocument(proc[p])
      BY <1>5, <2>2 DEF UpdateExec
    <3>2. log' = log /\ committed' = committed /\ expected' = expected
          /\ moved' = moved \cup Disturbed(tree')
      BY <3>1 DEF WriteDocument
    <3>3. VersionsAdvance
      BY <1>5, <2>2, UpdateAdvance
    <3>4. LogOK' /\ CommitFresh'
      BY <3>2 DEF IntentInv, LogOK, CommitFresh
    <3>5. Disturbed(tree') \subseteq Intents
      BY DEF Disturbed
    <3>6. IntentsOK'
      BY <3>2, <3>3, <3>5, VersionTypes DEF IntentInv, IntentsOK, VersionsAdvance
    <3>7. \A i \in Disturbed(tree') : Shows(i)'
      BY <1>5, <2>2, DisturbedShows
    <3> QED BY <3>2, <3>3, <3>4, <3>6, <3>7, IntentStep
  <2> QED BY <2>1, <2>2
<1>6. \A i \in Intents : \A e \in Needs[i] : preds[e] # NoEntry => preds[e].v \in 0..version
  BY VersionTypes, ContextStoreAssumption
<1>7. ASSUME NEW p \in Processes, NEW i \in Intents, RegisterFast(p, i)
      PROVE  IntentInv'
  <2>1. CASE Registers(i, preds)
    <3>1. UNCHANGED <<config, docVars, preds, log, committed>> /\ version' = version
      BY <1>7 DEF RegisterFast, redisVars, docVars
    <3> QED BY <1>6, <2>1, <3>1, StutterAdvance, RegistersStep
  <2>2. CASE UNCHANGED intentVars
    BY <1>1, <1>7, <2>2 DEF RegisterFast, redisVars
  <2> QED BY <1>7, <2>1, <2>2 DEF RegisterFast
<1>8. ASSUME NEW p \in Processes, NEW i \in Intents, SnapshotRead(p, i)
      PROVE  IntentInv'
  <2>1. UNCHANGED <<config, docVars, preds, log, committed>> /\ version' = version
    BY <1>8 DEF SnapshotRead, redisVars, docVars
  <2> DEFINE v == read_set_version(pathVersions, ReadPaths(i))
  <2>2. version \in Nat /\ pathVersions \in [DocPaths -> 0..version]
    BY DEF RedisInv, DocumentOK
  <2>3. v \in 0..version
    BY <2>2, ReadSetVersionBounds
  <2>4. expected' = [expected EXCEPT ![i] = v] /\ moved' = moved \ {i}
    BY <1>8 DEF SnapshotRead
  <2> HIDE DEF v
  <2>5. v \in Int /\ v <= version' /\ UNCHANGED <<log, committed>>
    BY <2>1, <2>2, <2>3
  <2>6. VersionsAdvance
    BY <2>1, StutterAdvance
  <2> QED BY <2>4, <2>5, <2>6, ReadStep
<1>9. ASSUME NEW p \in Processes, RegisterRead(p)
      PROVE  IntentInv'
  <2>1. proc[p].arg \in Intents
    BY <1>9, InCall DEF RegisterRead, At, OpOK
  <2>2. UNCHANGED <<config, docVars, preds, log, committed>> /\ version' = version
    BY <1>9 DEF RegisterRead, redisVars, docVars
  <2>3. CASE Registers(proc[p].arg, preds)
    BY <1>6, <2>1, <2>2, <2>3, StutterAdvance, RegistersStep
  <2>4. CASE UNCHANGED intentVars
    BY <1>1, <2>2, <2>4
  <2> QED BY <1>9, <2>3, <2>4 DEF RegisterRead
<1>10. ASSUME NEW p \in Processes, RegisterExec(p)
       PROVE  IntentInv'
  <2> DEFINE op == proc[p]
  <2>1. OpOK(op) /\ op.pc = "rexec" /\ op.arg \in Intents
    BY <1>10, InCall DEF RegisterExec, At, OpOK
  <2>2. CASE op.dirty
    BY <1>1, <1>10, <2>2 DEF RegisterExec, redisVars
  <2>3. CASE ~op.dirty
    <3>1. WriteEntries(op) /\ At(p, "rexec") /\ log' = log /\ committed' = committed
      BY <1>10, <2>3 DEF RegisterExec
    <3>2. VersionsAdvance
      BY <1>10, <2>3, RegisterAdvance
    <3>3. version' = version
      BY <2>3, <3>1, RegisterEffect
    <3>4. RegisterCurrent(op)
      BY <2>1, <2>3 DEF RedisInv, Current
    <3>5. \A e \in Registered : preds[e].v \in 0..version
      BY DEF RedisInv, PredsOK
    <3>6. \A e \in Needs[op.arg] : op.upd[e].v \in 0..version
      BY <3>4, <3>5, VersionTypes DEF RegisterCurrent
    <3>7. CASE Registers(op.arg, op.upd)
      <4> DEFINE i == op.arg
                 entries == op.upd
      <4>1. i \in Intents /\ Registers(i, entries)
        BY <2>1, <3>7
      <4>2. \A e \in Needs[i] : entries[e] # NoEntry => entries[e].v \in 0..version
        BY <3>6
      <4>3. UNCHANGED <<log, committed>>
        BY <3>1
      <4> HIDE DEF i, entries
      <4> QED BY <4>1, <4>2, <4>3, <3>2, <3>3, RegistersStep
    <3>8. CASE UNCHANGED intentVars
      BY <3>1, <3>2, <3>8, IntentStutter
    <3> QED BY <1>10, <2>3, <3>7, <3>8 DEF RegisterExec
  <2> QED BY <2>2, <2>3
<1>11. ASSUME NEW p \in Processes, NEW e \in Exprs, GcScan(p, e)
       PROVE  IntentInv'
  BY <1>1, <1>11 DEF GcScan, redisVars
<1>12. ASSUME NEW p \in Processes, GcRead(p) \/ Disconnect(p)
       PROVE  IntentInv'
  BY <1>1, <1>12 DEF GcRead, Disconnect, redisVars
<1>13. ASSUME NEW p \in Processes, GcExec(p)
       PROVE  IntentInv'
  BY <1>13, RetireAdvance, IntentStutter DEF GcExec
<1>14. ASSUME NEW e \in Exprs, Age(e)
       PROVE  IntentInv'
  BY <1>14, RetireAdvance, IntentStutter DEF Age
<1>15. ASSUME NEW i \in Intents, CommitAuthorization(i)
       PROVE  IntentInv'
  BY <1>15, CommitStep
<1> HIDE DEF Still
<1> QED BY <1>2, <1>3, <1>4, <1>5, <1>7, <1>8, <1>9, <1>10, <1>11, <1>12, <1>13, <1>14, <1>15 DEF Next

-----------------------------------------------------------------------------
(* Theorems *)

\* The inductive invariant holds in every behaviour of the store.
LEMMA StoreInvariant == Spec => []StoreInv
<1>1. StoreInv /\ [Next]_vars => StoreInv'
  BY RedisStep, IntentNext DEF StoreInv
<1> QED BY <1>1, InitInv, PTL DEF Spec

\* Whatever the processes, layouts, patches and predicates, the document stays
\* one whose leaves do not overlap, no path or predicate has a version from the
\* future, and no call is tried more often than _MAX_TX_RETRIES allows.
THEOREM StoreTypes == Spec => []StoreTypeOK
<1>1. StoreInv => StoreTypeOK
  <2> SUFFICES ASSUME StoreInv PROVE StoreTypeOK
    OBVIOUS
  <2>1. Stored(tree) /\ version \in Nat /\ pathVersions \in [DocPaths -> 0..version]
    BY DEF StoreInv, RedisInv, DocumentOK
  <2>2. preds \in [Exprs -> Entry]
    BY DEF StoreInv, RedisInv, PredsOK
  <2>3. \A p \in Processes : ~At(p, "idle") => proc[p].tries \in 1..MaxRetries
    BY InCall DEF StoreInv, At, OpOK
  <2>4. cache \in [Processes -> [Roots -> [at: Int, members: SUBSET Exprs]]]
    BY DEF StoreInv, RedisInv, IndexOK
  <2>5. expected \in [Intents -> Int] /\ moved \subseteq Intents
    BY DEF StoreInv, IntentInv, IntentsOK
  <2> QED BY <2>1, <2>2, <2>3, <2>4, <2>5 DEF StoreTypeOK
<1> QED BY <1>1, StoreInvariant, PTL

\* The truth value kept for a registered predicate is its value in the current
\* document, for any number of processes, any documents and predicates and in all
\* layouts: no update misses a predicate, however its index was cached and
\* whatever registrations and retirements ran in between.
THEOREM TruthIsCurrent == Spec => []TruthFollows
<1>1. StoreInv => TruthFollows
  BY DEF StoreInv, RedisInv
<1> QED BY <1>1, StoreInvariant, PTL

\* No authorization is committed whose read set, or whose predicates' truth,
\* changed since the validation, changes that were undone included.
THEOREM CommitsAreFresh == Spec => []CommitFresh
<1>1. StoreInv => CommitFresh
  BY DEF StoreInv, IntentInv
<1> QED BY <1>1, StoreInvariant, PTL


-----------------------------------------------------------------------------
(* The atomic store *)

\* the version of a path and of what is related to it, and of a predicate
PathVersion(q) == Max({pathVersions[c] : c \in RelatedTo[q]})

\* The greatest version among the paths related to a path is one of theirs.
LEMMA PathVersionBounds ==
  ASSUME NEW n \in Nat, NEW pv \in [DocPaths -> 0..n], NEW q \in DocPaths
  PROVE  /\ Max({pv[c] : c \in RelatedTo[q]}) \in 0..n
         /\ \A c \in DocPaths : related(c, q) => pv[c] <= Max({pv[d] : d \in RelatedTo[q]})
<1> DEFINE S == {pv[c] : c \in RelatedTo[q]}
<1>1. RelatedTo[q] = {c \in DocPaths : related(c, q)}
  BY DEF RelatedTo
<1>2. q \in RelatedTo[q]
  BY <1>1, AboveItself
<1>3. S \in SUBSET (0..n) /\ S # {}
  BY <1>1, <1>2
<1>4. \A c \in DocPaths : related(c, q) => pv[c] \in S
  BY <1>1
<1> HIDE DEF S
<1>5. Max(S) \in S /\ \A x \in S : x <= Max(S)
  BY <1>3, GreatestVersion
<1>6. /\ Max(S) \in 0..n
      /\ \A c \in DocPaths : related(c, q) => pv[c] <= Max(S)
  BY <1>3, <1>4, <1>5
<1> QED BY <1>6 DEF S

\* Initially the store is the atomic one.
LEMMA AbstractInit == Init => Abstract!Init
<1> SUFFICES ASSUME Init PROVE Abstract!Init
  OBVIOUS
<1>1. RedisInv
  BY InitInv DEF StoreInv
<1>2. version \in Nat
  BY DEF Init
<1>3. \A q \in DocPaths : PathVersion(q) <= version
  <2>1. pathVersions \in [DocPaths -> 0..version]
    BY <1>1 DEF RedisInv, DocumentOK
  <2>2. \A q \in DocPaths : Max({pathVersions[c] : c \in RelatedTo[q]}) \in 0..version
    BY <1>2, <2>1, PathVersionBounds
  <2> QED BY <1>2, <2>2 DEF PathVersion
<1>4. [e \in Exprs |-> preds[e].v] = [e \in Exprs |-> -1]
  BY DEF Init, NoEntry
<1>5. [n \in DOMAIN log |-> log[n].id] = <<>> /\ committed = {}
  BY DEF Init
<1> QED BY <1>2, <1>3, <1>4, <1>5 DEF Abstract!Init, Abstract!Unregistered, PathVersion


\* A step that leaves the document, the versions and the log is none of the
\* atomic store.
LEMMA AbstractStutter ==
  ASSUME UNCHANGED <<docVars, log, committed>>, \A e \in Exprs : preds'[e].v = preds[e].v
  PROVE  UNCHANGED Abstract!vars
<1>1. tree' = tree /\ version' = version /\ pathVersions' = pathVersions /\ log' = log /\ committed' = committed
  BY DEF docVars
<1>2. [q \in DocPaths |-> Max({pathVersions[c] : c \in RelatedTo[q]})]'
        = [q \in DocPaths |-> Max({pathVersions[c] : c \in RelatedTo[q]})]
  BY <1>1 DEF RelatedTo
<1>3. [e \in Exprs |-> preds[e].v]' = [e \in Exprs |-> preds[e].v]
  OBVIOUS
<1>4. [n \in DOMAIN log |-> log[n].id]' = [n \in DOMAIN log |-> log[n].id]
  BY <1>1
<1> QED BY <1>1, <1>2, <1>3, <1>4 DEF Abstract!vars, Abstract!docVars

\* The transaction of an update is one Write.
LEMMA AbstractWrite ==
  ASSUME RedisInv, RedisInv', NEW p \in Processes, UpdateExec(p), ~proc[p].dirty
  PROVE  Abstract!Write
<1>1. WriteDocument(proc[p]) /\ At(p, "exec")
  BY DEF UpdateExec
<1>2. log' = log /\ committed' = committed
  BY <1>1 DEF WriteDocument
<1>3. /\ version' = version + 1
      /\ proc[p].changed \subseteq DocPaths
      /\ pathVersions' = [q \in DocPaths |-> IF q \in proc[p].changed THEN version + 1
                                             ELSE pathVersions[q]]
      /\ \A q \in DocPaths : \/ \E c \in proc[p].changed : related(c, q)
                             \/ get_path(tree', q) = get_path(tree, q)
      /\ \A e \in Exprs : preds'[e] # NoEntry =>
           /\ e \in Registered
           /\ preds'[e].v = IF check_expression(e, tree') <=> check_expression(e, tree)
                            THEN preds[e].v ELSE version + 1
  BY <1>1, UpdateEffect
<1>4. version \in Nat
  BY VersionTypes
<1>5. ASSUME NEW q \in DocPaths
      PROVE  \/ PathVersion(q)' = version'
             \/ PathVersion(q)' = PathVersion(q) /\ get_path(tree', q) = get_path(tree, q)
  <2>1. CASE \E c \in proc[p].changed : related(c, q)
    <3>1. PICK c \in proc[p].changed : related(c, q)
      BY <2>1
    <3>2. c \in DocPaths /\ pathVersions'[c] = version'
      BY <1>3
    <3>3. pathVersions'[c] <= PathVersion(q)' /\ PathVersion(q)' \in 0..version'
      <4>1. version' \in Nat /\ pathVersions' \in [DocPaths -> 0..version']
        BY DEF RedisInv, DocumentOK
      <4>2. PathVersion(q)' = Max({pathVersions'[d] : d \in RelatedTo[q]})
        BY DEF PathVersion, RelatedTo
      <4> QED BY <3>1, <3>2, <4>1, <4>2, PathVersionBounds
    <3> QED BY <1>3, <1>4, <3>2, <3>3
  <2>2. CASE \A c \in proc[p].changed : ~related(c, q)
    <3>1. \A c \in RelatedTo[q] : pathVersions'[c] = pathVersions[c]
      BY <1>3, <2>2 DEF RelatedTo
    <3>2. {pathVersions'[c] : c \in RelatedTo[q]} = {pathVersions[c] : c \in RelatedTo[q]}
      BY <3>1
    <3>3. PathVersion(q)' = Max({pathVersions'[c] : c \in RelatedTo[q]})
      BY DEF PathVersion, RelatedTo
    <3>4. PathVersion(q)' = PathVersion(q)
      BY <3>2, <3>3 DEF PathVersion
    <3> QED BY <1>3, <2>2, <3>4
  <2> QED BY <2>1, <2>2
<1>6. ASSUME NEW e \in Exprs
      PROVE  \/ preds'[e].v = -1
             \/ /\ preds[e].v # -1
                /\ preds'[e].v = IF check_expression(e, tree') <=> check_expression(e, tree)
                                 THEN preds[e].v ELSE version'
  <2>1. CASE preds'[e] = NoEntry
    BY <2>1 DEF NoEntry
  <2>2. CASE preds'[e] # NoEntry
    <3>1. e \in Registered
      BY <1>3, <2>2
    <3>2. preds[e].v # -1
      BY <3>1, RegisteredByVersion DEF RedisInv
    <3> QED BY <1>3, <2>2, <3>2
  <2> QED BY <2>1, <2>2
<1>7. [n \in DOMAIN log |-> log[n].id]' = [n \in DOMAIN log |-> log[n].id]
  BY <1>2
<1> QED BY <1>2, <1>3, <1>5, <1>6, <1>7 DEF Abstract!Write, Abstract!Unregistered, PathVersion

\* A step that only registers and retires predicates is one Register, or none.
LEMMA AbstractRegister ==
  ASSUME UNCHANGED <<docVars, log, committed>>,
         \A e \in Exprs : \/ preds'[e].v \in {preds[e].v, -1}
                          \/ preds[e].v = -1 /\ preds'[e].v = version
  PROVE  [Abstract!Next]_(Abstract!vars)
<1>1. CASE \A e \in Exprs : preds'[e].v = preds[e].v
  BY <1>1, AbstractStutter
<1>2. CASE \E e \in Exprs : preds'[e].v # preds[e].v
  <2>1. [e \in Exprs |-> preds[e].v]' # [e \in Exprs |-> preds[e].v]
    <3>1. PICK e \in Exprs : preds'[e].v # preds[e].v
      BY <1>2
    <3>2. [f \in Exprs |-> preds[f].v]'[e] = preds'[e].v /\ [f \in Exprs |-> preds[f].v][e] = preds[e].v
      OBVIOUS
    <3> QED BY <3>1, <3>2
  <2>2. tree' = tree /\ version' = version /\ pathVersions' = pathVersions /\ log' = log /\ committed' = committed
    BY DEF docVars
  <2>3. [q \in DocPaths |-> Max({pathVersions[c] : c \in RelatedTo[q]})]'
          = [q \in DocPaths |-> Max({pathVersions[c] : c \in RelatedTo[q]})]
    BY <2>2 DEF RelatedTo
  <2>4. [n \in DOMAIN log |-> log[n].id]' = [n \in DOMAIN log |-> log[n].id]
    BY <2>2
  <2>5. Abstract!Register
    BY <2>1, <2>2, <2>3, <2>4 DEF Abstract!Register, Abstract!Unregistered, Abstract!docVars
  <2> QED BY <2>5 DEF Abstract!Next
<1> QED BY <1>1, <1>2

\* A commit is one Authorize, or none.
LEMMA AbstractCommit ==
  ASSUME LogOK, NEW i \in Intents, CommitAuthorization(i)
  PROVE  [Abstract!Next]_(Abstract!vars)
<1>1. UNCHANGED <<docVars, preds>>
  BY DEF CommitAuthorization
<1>2. CASE UNCHANGED <<log, committed>>
  BY <1>1, <1>2, AbstractStutter
<1>3. CASE /\ i \notin committed
           /\ log' = Append(log, [id |-> i, moved |-> i \in moved])
           /\ committed' = committed \cup {i}
  <2>1. log \in Seq([id: Intents, moved: BOOLEAN])
    BY DEF LogOK
  <2> DEFINE record == [id |-> i, moved |-> i \in moved]
             ids == [n \in DOMAIN log |-> log[n].id]
  <2>2. record.id = i
    BY Zenon
  <2>3. log' = Append(log, record)
    BY <1>3
  <2> HIDE DEF record
  <2>4. ids \in Seq(Intents) /\ Len(ids) = Len(log)
    <3>1. Len(log) \in Nat /\ DOMAIN log = 1..Len(log)
      BY <2>1
    <3>2. \A n \in 1..Len(log) : log[n].id \in Intents
      <4> SUFFICES ASSUME NEW n \in 1..Len(log) PROVE log[n].id \in Intents
        OBVIOUS
      <4> DEFINE R == [id: Intents, moved: BOOLEAN]
      <4>1. log \in Seq(R)
        BY <2>1
      <4>2. ASSUME NEW r \in R PROVE r.id \in Intents
        OBVIOUS
      <4> HIDE DEF R
      <4>3. log[n] \in R
        BY <3>1, <4>1
      <4> QED BY <4>2, <4>3
    <3>3. ids \in [1..Len(log) -> Intents]
      BY <3>1, <3>2
    <3> HIDE DEF ids
    <3> QED BY <3>1, <3>3
  <2>5. /\ DOMAIN log' = 1..(Len(log) + 1)
        /\ \A n \in 1..Len(log) : log'[n] = log[n]
        /\ log'[Len(log) + 1] = record
    BY <2>1, <2>3
  <2>6. [n \in DOMAIN log' |-> log'[n].id] = Append(ids, i)
    <3>1. Len(log) \in Nat /\ DOMAIN log = 1..Len(log)
      BY <2>1
    <3>2. \A n \in 1..Len(log) : ids[n] = log[n].id
      BY <3>1
    <3> HIDE DEF ids
    <3> DEFINE s == Append(ids, i)
    <3>3. s \in Seq(Intents) /\ Len(s) = Len(log) + 1
      BY <2>4
    <3>4. /\ \A n \in 1..Len(log) : s[n] = ids[n]
          /\ s[Len(log) + 1] = i
      BY <2>4, <3>1
    <3> HIDE DEF s
    <3>5. s = [n \in 1..(Len(log) + 1) |-> s[n]]
      BY <3>3
    <3>6. \A n \in 1..(Len(log) + 1) : log'[n].id = s[n]
      BY <2>2, <2>5, <3>1, <3>2, <3>4
    <3> QED BY <2>5, <3>5, <3>6 DEF s
  <2>7. tree' = tree /\ version' = version /\ pathVersions' = pathVersions /\ preds' = preds
    BY <1>1 DEF docVars
  <2>8. [q \in DocPaths |-> Max({pathVersions[c] : c \in RelatedTo[q]})]'
          = [q \in DocPaths |-> Max({pathVersions[c] : c \in RelatedTo[q]})]
    BY <2>7 DEF RelatedTo
  <2>9. [e \in Exprs |-> preds[e].v]' = [e \in Exprs |-> preds[e].v]
    BY <2>7
  <2>10. Abstract!Authorize(i)
    BY <1>3, <2>6, <2>7, <2>8, <2>9 DEF Abstract!Authorize, Abstract!docVars
  <2> QED BY <2>10 DEF Abstract!Next
<1> QED BY <1>2, <1>3 DEF CommitAuthorization

\* Every step of the processes is a step of the atomic store, or none.
LEMMA AbstractNext ==
  ASSUME StoreInv, StoreInv', [Next]_vars
  PROVE  [Abstract!Next]_(Abstract!vars)
<1> DEFINE Goal == [Abstract!Next]_(Abstract!vars)
<1>1. RedisInv /\ RedisInv' /\ PredsOK /\ LogOK
  BY DEF StoreInv, RedisInv, IntentInv
<1>2. UNCHANGED redisVars => Goal
  BY AbstractStutter DEF redisVars
<1>3. UNCHANGED vars => Goal
  BY <1>2 DEF vars
<1>4. ASSUME NEW p \in Processes, NEW patch \in Patches, UpdateRead(p, patch)
      PROVE  Goal
  BY <1>2, <1>4 DEF UpdateRead
<1>5. ASSUME NEW p \in Processes, Counters(p) \/ Members(p) \/ Entries(p) \/ GcRead(p)
                                  \/ RegisterRead(p) \/ Disconnect(p)
      PROVE  Goal
  BY <1>2, <1>5 DEF Counters, Members, Entries, GcRead, RegisterRead, Disconnect
<1>6. ASSUME NEW p \in Processes, NEW i \in Intents, RegisterFast(p, i) \/ SnapshotRead(p, i)
      PROVE  Goal
  BY <1>2, <1>6 DEF RegisterFast, SnapshotRead
<1>7. ASSUME NEW p \in Processes, NEW e \in Exprs, GcScan(p, e)
      PROVE  Goal
  BY <1>2, <1>7 DEF GcScan
<1>8. ASSUME NEW p \in Processes, UpdateExec(p)
      PROVE  Goal
  <2>1. CASE proc[p].dirty
    BY <1>2, <1>8, <2>1 DEF UpdateExec
  <2>2. CASE ~proc[p].dirty
    <3>1. Abstract!Write
      BY <1>1, <1>8, <2>2, AbstractWrite
    <3> QED BY <3>1 DEF Abstract!Next
  <2> QED BY <2>1, <2>2
<1>9. ASSUME NEW p \in Processes, RegisterExec(p)
      PROVE  Goal
  <2>1. CASE proc[p].dirty
    BY <1>2, <1>9, <2>1 DEF RegisterExec
  <2>2. CASE ~proc[p].dirty
    <3>1. WriteEntries(proc[p]) /\ At(p, "rexec") /\ UNCHANGED <<log, committed>>
      BY <1>9, <2>2 DEF RegisterExec
    <3>2. /\ tree' = tree /\ version' = version /\ pathVersions' = pathVersions
          /\ \A e \in Exprs :
               preds'[e] # NoEntry => preds'[e].v = IF e \in Registered THEN preds[e].v ELSE version
      BY <1>1, <2>2, <3>1, RegisterEffect
    <3>3. NoEntry.v = -1
      BY DEF NoEntry
    <3>4. \A e \in Exprs : \/ preds'[e].v \in {preds[e].v, -1}
                           \/ preds[e].v = -1 /\ preds'[e].v = version
      BY <1>1, <3>2, <3>3, RegisteredByVersion
    <3>5. UNCHANGED <<docVars, log, committed>>
      BY <3>1, <3>2 DEF docVars
    <3> QED BY <3>4, <3>5, AbstractRegister
  <2> QED BY <2>1, <2>2
<1>10. ASSUME NEW p \in Processes, GcExec(p)
       PROVE  Goal
  <2>1. UNCHANGED <<docVars, log, committed>>
    BY <1>10 DEF GcExec
  <2>2. preds' = preds \/ preds' = [preds EXCEPT ![proc[p].arg] = NoEntry]
    BY <1>10 DEF GcExec
  <2>3. \A e \in Exprs : preds'[e].v \in {preds[e].v, -1}
    BY <1>1, <2>2 DEF PredsOK, NoEntry
  <2> QED BY <2>1, <2>3, AbstractRegister
<1>11. ASSUME NEW e \in Exprs, Age(e)
       PROVE  Goal
  <2>1. UNCHANGED <<docVars, log, committed>>
    BY <1>11 DEF Age
  <2>2. preds' = [preds EXCEPT ![e].age = IF @ = "fresh" THEN "old" ELSE "expired"]
    BY <1>11 DEF Age
  <2>3. \A f \in Exprs : preds'[f].v = preds[f].v
    BY <1>1, <2>2 DEF PredsOK, Entry
  <2> QED BY <2>1, <2>3, AbstractStutter
<1>12. ASSUME NEW i \in Intents, CommitAuthorization(i)
       PROVE  Goal
  BY <1>1, <1>12, AbstractCommit
<1> HIDE DEF Goal
<1>13. Goal
  BY <1>3, <1>4, <1>5, <1>6, <1>7, <1>8, <1>9, <1>10, <1>11, <1>12 DEF Next
<1> QED BY <1>13 DEF Goal

\* The processes together implement the atomic store, for any number of them and
\* in all layouts: each transaction that takes effect is one write, registration
\* or authorization of VersionedStore, and no other call changes it.
THEOREM StoreImplements == Spec => Implements
<1>1. StoreInv /\ StoreInv' /\ [Next]_vars => [Abstract!Next]_(Abstract!vars)
  BY AbstractNext
<1> QED BY <1>1, AbstractInit, StoreInvariant, PTL DEF Spec, Implements, Abstract!Spec

=============================================================================
