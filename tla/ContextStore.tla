---------------------------- MODULE ContextStore ----------------------------
(***************************************************************************)
(* The context store (RedisContextStore in xair/core/context_store.py)     *)
(* call by call: several processes, each under its own lock, share one     *)
(* Redis and keep the document with optimistic WATCH/MULTI transactions.   *)
(*                                                                         *)
(* Three layouts: "document" (context, versions and predicates in one      *)
(* key), "hash" (predicates in a hash of their own, with an index of them  *)
(* per root and a counter that tells when a process must refetch it) and   *)
(* "shard" (also the context split by root).  The in-memory store is the   *)
(* document layout of one process.                                         *)
(*                                                                         *)
(* A WATCH is the set of keys an operation watches and a flag that any     *)
(* other writer of one of them raises.  Any call may fail, and the reply   *)
(* of a transaction be lost after it took effect.  The version a process   *)
(* remembers (_version), which only answers updates, is left out.          *)
(***************************************************************************)
EXTENDS ContextValidator

CONSTANTS
  Processes,
  Layouts,         \* the layouts considered
  First,           \* the patch of the first update
  Patches,         \* the patches producers write then
  Exprs,           \* the predicates of the intents
  DocPaths,        \* the paths patches and predicates name
  Intents,
  Needs,           \* the predicates of each intent
  Scopes,          \* the version scopes considered, of "readset" and "truth"
  MaxVersion,      \* bound on the versions at which an update starts
  MaxCounter,      \* bound on the index counter at which a retirement starts
  MaxRetries       \* _MAX_TX_RETRIES

\* a document of these paths
Stored(d) == IsDocument(d) /\ \A l \in d : l.path \in DocPaths

ASSUME ContextStoreAssumption ==
  /\ Layouts \subseteq {"document", "hash", "shard"}
  /\ DocPaths \subseteq Seq(STRING) \ {<<>>}
  /\ \A d \in Patches \cup {First} : Stored(d)
  /\ \A e \in Exprs : e.path \in DocPaths
  /\ Needs \in [Intents -> SUBSET Exprs]
  /\ Scopes \subseteq {"readset", "truth"}
  /\ {MaxVersion, MaxCounter} \subseteq Nat
  /\ MaxRetries \in Nat \ {0}

VARIABLES
  layout, scope,   \* the configuration
  tree, version, pathVersions,     \* the document
  preds,           \* the entry of each registered predicate
  index, counter,  \* PRED_ROOT_PREFIX, PRED_VER_KEY: per root
  log, committed,  \* the actuation log and the ids in it
  proc,            \* the call each process is in
  cache,           \* its index of predicates, and the counter it was read at
  expected,        \* per intent: the version its validation read, or NotRead
  moved            \* intents whose value or truth changed since that read

docVars == <<tree, version, pathVersions>>
indexVars == <<index, counter>>
redisVars == <<docVars, preds, indexVars, log, committed>>
intentVars == <<expected, moved>>
config == <<layout, scope>>
vars == <<config, redisVars, proc, cache, intentVars>>

Roots == {p[1] : p \in DocPaths}
Root(e) == e.path[1]
NoEntry == [v |-> -1, truth |-> FALSE, age |-> "expired"]
NotRead == -2
Idle == [pc |-> "idle", watch |-> {}, dirty |-> FALSE]

Init ==
  /\ layout \in Layouts
  /\ scope \in Scopes
  /\ tree = First
  /\ version = 1
  /\ pathVersions = [q \in DocPaths |-> IF q \in changed_paths({}, First) THEN 1 ELSE 0]
  /\ preds = [e \in Exprs |-> NoEntry]
  /\ index = [r \in Roots |-> {}]
  /\ counter = [r \in Roots |-> 0]
  /\ log = <<>>
  /\ committed = {}
  /\ proc = [p \in Processes |-> Idle]
  /\ cache = [p \in Processes |-> [r \in Roots |-> [at |-> 0, members |-> {}]]]
  /\ expected = [i \in Intents |-> NotRead]
  /\ moved = {}

-----------------------------------------------------------------------------
(* Transactions *)

At(p, pc) == proc[p].pc = pc
Goto(p, pc) == proc' = [proc EXCEPT ![p].pc = pc]

\* a call that has not read anything yet
Op(pc, arg) ==
  [pc |-> pc, arg |-> arg, tries |-> 1, watch |-> {}, dirty |-> FALSE,
   doc |-> <<>>, changed |-> {}, upd |-> <<>>, at |-> <<>>]

\* the keys a transaction of this layout watches; in the shard layout "doc" is
\* the version key
TxKeys == IF layout = "document" THEN {"doc"} ELSE {"doc", "pred"}

\* the call of p returns, having written keys
Return(p, keys) ==
  proc' = [q \in Processes |->
    IF q = p THEN Idle
    ELSE [proc[q] EXCEPT !.dirty = @ \/ proc[q].watch \cap keys # {}]]

\* WatchError: another attempt, until the last raises and the client is dropped
Retry(p, pc) ==
  proc' = [proc EXCEPT ![p] = IF @.tries = MaxRetries THEN Idle
                              ELSE [Op(pc, @.arg) EXCEPT !.tries = proc[p].tries + 1]]

\* a call raises: an update is dropped and answered with the last version the
\* process knows, a registration is refused
Disconnect(p) ==
  /\ ~At(p, "idle")
  /\ Return(p, {})
  /\ UNCHANGED <<config, redisVars, cache, intentVars>>

\* intents for which the document t differs from the one before it, in their scope
Disturbed(t) ==
  {i \in Intents : expected[i] # NotRead /\ \E e \in Needs[i] :
     IF scope = "truth" THEN check_expression(e, t) # check_expression(e, tree)
     ELSE get_path(t, e.path) # get_path(tree, e.path)}

-----------------------------------------------------------------------------
(* Context updates *)

Document == [tree |-> tree, version |-> version, pathVersions |-> pathVersions]

\* _apply: the global version always advances, a path version when its value
\* changes
Patched(doc, patch, changed) ==
  [tree |-> deep_merge(doc.tree, patch),
   version |-> doc.version + 1,
   pathVersions |-> [q \in DocPaths |-> IF q \in changed THEN doc.version + 1
                                        ELSE doc.pathVersions[q]]]
ChangedRoots(op) == {c[1] : c \in op.changed}

\* the entry of e after the update, whose version advances with its truth only
Reevaluated(e, entry, op) ==
  IF /\ \E c \in op.changed : related(c, e.path)
     /\ check_expression(e, op.doc.tree) # entry.truth
  THEN [entry EXCEPT !.v = op.doc.version, !.truth = ~@]
  ELSE entry
Registered == {e \in Exprs : preds[e] # NoEntry}

\* an update starts, or tries again: WATCH and GET.  In the document layout
\* _apply retires and re-evaluates the predicates it read with the document; the
\* others look for candidates
UpdateRead(p, patch) ==
  LET begun == IF At(p, "idle") THEN Op("read", patch) ELSE proc[p]
      changed == changed_paths(tree, patch)
      op == [begun EXCEPT !.watch = TxKeys, !.dirty = FALSE, !.changed = changed,
                          !.doc = Patched(Document, patch, changed)]
      kept == {e \in Registered : preds[e].age # "expired"}
  IN
  /\ \/ At(p, "idle") /\ version < MaxVersion
     \/ At(p, "read") /\ patch = proc[p].arg
  /\ proc' = [proc EXCEPT ![p] =
       IF layout = "document"
       THEN [op EXCEPT !.pc = "exec", !.upd = [e \in kept |-> Reevaluated(e, preds[e], op)]]
       ELSE [op EXCEPT !.pc = IF changed = {} THEN "exec" ELSE "counters", !.upd = <<>>]]
  /\ UNCHANGED <<config, redisVars, cache, intentVars>>

\* _candidates: the counters of the changed roots
Counters(p) ==
  LET op == proc[p] IN
  /\ At(p, "counters")
  /\ proc' = [proc EXCEPT ![p].at = [r \in ChangedRoots(op) |-> counter[r]],
       ![p].pc = IF \A r \in ChangedRoots(op) : cache[p][r].at = counter[r]
                 THEN "entries" ELSE "members"]
  /\ UNCHANGED <<config, redisVars, cache, intentVars>>

\* mutant of Members: a root once fetched is kept
MembersKept(p) ==
  /\ At(p, "members")
  /\ cache' = [cache EXCEPT ![p] = [r \in Roots |->
       IF r \in DOMAIN proc[p].at /\ @[r].at = 0
       THEN [at |-> proc[p].at[r], members |-> index[r]] ELSE @[r]]]
  /\ Goto(p, "entries")
  /\ UNCHANGED <<config, redisVars, intentVars>>

\* _candidates: SMEMBERS for a root whose counter has moved
Members(p) ==
  /\ At(p, "members")
  /\ cache' = [cache EXCEPT ![p] = [r \in Roots |->
       IF r \in DOMAIN proc[p].at /\ @[r].at # proc[p].at[r]
       THEN [at |-> proc[p].at[r], members |-> index[r]] ELSE @[r]]]
  /\ Goto(p, "entries")
  /\ UNCHANGED <<config, redisVars, intentVars>>

\* HMGET of the candidates; only entries whose truth changed are written
Entries(p) ==
  LET op == proc[p]
      candidates == (UNION {cache[p][r].members : r \in ChangedRoots(op)}) \cap Registered
      flipped == {e \in candidates : Reevaluated(e, preds[e], op) # preds[e]}
  IN
  /\ At(p, "entries")
  /\ proc' = [proc EXCEPT ![p].pc = "exec", ![p].at = <<>>,
                          ![p].upd = [e \in flipped |-> Reevaluated(e, preds[e], op)]]
  /\ UNCHANGED <<config, redisVars, cache, intentVars>>

\* what the transaction writes: the whole document, or the patch's roots in the
\* shard layout; an entry keeps the time of its registration
WriteDocument(op) ==
  LET written == IF layout = "shard" THEN {l.path[1] : l \in op.arg} ELSE Roots
  IN
  /\ tree' = {l \in tree : l.path[1] \notin written} \cup {l \in op.doc.tree : l.path[1] \in written}
  /\ version' = op.doc.version
  /\ pathVersions' = [q \in DocPaths |-> IF q[1] \in written THEN op.doc.pathVersions[q]
                                          ELSE pathVersions[q]]
  /\ preds' = [e \in Exprs |->
       IF e \in DOMAIN op.upd THEN [op.upd[e] EXCEPT !.age = preds[e].age]
       ELSE IF layout = "document" THEN NoEntry ELSE preds[e]]
  /\ moved' = moved \cup Disturbed(tree')
  /\ UNCHANGED <<indexVars, log, committed, expected>>

\* mutant of UpdateExec: the WATCH is not honoured
UpdateExecBlind(p) ==
  /\ At(p, "exec")
  /\ WriteDocument(proc[p])
  /\ Return(p, {"doc", "pred"})
  /\ UNCHANGED <<config, cache>>

\* MULTI/EXEC: fails if a watched key was written, and may take effect although
\* its reply is lost
UpdateExec(p) ==
  LET op == proc[p] IN
  /\ At(p, "exec")
  /\ \/ /\ op.dirty
        /\ Retry(p, "read")
        /\ UNCHANGED <<redisVars, intentVars>>
     \/ /\ ~op.dirty
        /\ WriteDocument(op)
        /\ Return(p, {"doc"} \cup IF op.upd = <<>> THEN {} ELSE {"pred"})
  /\ UNCHANGED <<config, cache>>

-----------------------------------------------------------------------------
(* Predicate registration *)

predicate_version(entries, E) ==
  IF \E e \in E : entries[e] = NoEntry THEN -1 ELSE Max({0} \cup {entries[e].v : e \in E})
Fresh(e) == preds[e].age = "fresh"

\* the registration of i's predicates returns the entries it saw
Registers(i, entries) ==
  /\ expected' = [expected EXCEPT ![i] = predicate_version(entries, Needs[i])]
  /\ moved' = moved \ {i}

\* one read when every predicate is registered and recent
RegisterFast(p, i) ==
  /\ At(p, "idle")
  /\ scope = "truth" /\ i \notin committed
  /\ IF \A e \in Needs[i] : Fresh(e)
     THEN Registers(i, preds) /\ UNCHANGED proc
     ELSE proc' = [proc EXCEPT ![p] = Op("rread", i)] /\ UNCHANGED intentVars
  /\ UNCHANGED <<config, redisVars, cache>>

\* WATCH and read.  A refreshed entry keeps its version, a new one starts at the
\* current version with its current truth; the document layout reads again
\* whether any is missing, and rewrites the other entries as they are
RegisterRead(p) ==
  LET i == proc[p].arg
      entry(e) == IF e \notin Needs[i] THEN preds[e]
                  ELSE IF e \in Registered THEN [preds[e] EXCEPT !.age = "fresh"]
                  ELSE [v |-> version, truth |-> check_expression(e, tree), age |-> "fresh"]
      written == IF layout = "document" THEN Registered \cup Needs[i] ELSE Needs[i]
  IN
  /\ At(p, "rread")
  /\ IF layout = "document" /\ \A e \in Needs[i] : Fresh(e)
     THEN Registers(i, preds) /\ Return(p, {})
     ELSE /\ proc' = [proc EXCEPT ![p] = [@ EXCEPT
               !.pc = "rexec", !.watch = TxKeys, !.dirty = FALSE, !.doc = Document,
               !.at = [r \in Roots |-> \E e \in Needs[i] \ Registered : Root(e) = r],
               !.upd = [e \in written |-> entry(e)]]]
          /\ UNCHANGED intentVars
  /\ UNCHANGED <<config, redisVars, cache>>

\* the document, or the entries, their index and the counters of the roots that
\* got a new predicate
WriteEntries(op) ==
  IF layout = "document"
  THEN /\ tree' = op.doc.tree
       /\ version' = op.doc.version
       /\ pathVersions' = op.doc.pathVersions
       /\ preds' = [e \in Exprs |-> IF e \in DOMAIN op.upd THEN op.upd[e] ELSE NoEntry]
       /\ UNCHANGED indexVars
  ELSE /\ preds' = [e \in Exprs |-> IF e \in DOMAIN op.upd THEN op.upd[e] ELSE preds[e]]
       /\ index' = [r \in Roots |-> index[r] \cup {e \in DOMAIN op.upd : Root(e) = r}]
       /\ counter' = [r \in Roots |-> IF op.at[r] THEN counter[r] + 1 ELSE counter[r]]
       /\ UNCHANGED docVars

RegisterExec(p) ==
  LET op == proc[p] IN
  /\ At(p, "rexec")
  /\ \/ /\ op.dirty
        /\ Retry(p, "rread")
        /\ UNCHANGED <<redisVars, intentVars>>
     \/ /\ ~op.dirty
        /\ WriteEntries(op)
        /\ Return(p, IF layout = "document" THEN {"doc"} ELSE {"pred"})
        /\ Registers(op.arg, op.upd) \/ UNCHANGED intentVars
        /\ UNCHANGED <<log, committed>>
  /\ UNCHANGED <<config, cache>>

\* time passes: an entry is due for a refresh after half its retention, and for
\* retirement after all of it
Age(e) ==
  /\ preds[e] # NoEntry /\ preds[e].age # "expired"
  /\ preds' = [preds EXCEPT ![e].age = IF @ = "fresh" THEN "old" ELSE "expired"]
  /\ UNCHANGED <<config, docVars, indexVars, log, committed, proc, cache, intentVars>>

\* gc_predicates: the scan met an expired entry
GcScan(p, e) ==
  /\ At(p, "idle")
  /\ layout # "document"
  /\ e \in Registered /\ preds[e].age = "expired"
  /\ counter[Root(e)] < MaxCounter
  /\ proc' = [proc EXCEPT ![p] = Op("gread", e)]
  /\ UNCHANGED <<config, redisVars, cache, intentVars>>

\* WATCH and look again
GcRead(p) ==
  LET e == proc[p].arg IN
  /\ At(p, "gread")
  /\ proc' = [proc EXCEPT ![p] = IF e \in Registered /\ preds[e].age = "expired"
                                 THEN [@ EXCEPT !.pc = "gexec", !.watch = {"pred"}] ELSE Idle]
  /\ UNCHANGED <<config, redisVars, cache, intentVars>>

GcExec(p) ==
  LET e == proc[p].arg IN
  /\ At(p, "gexec")
  /\ IF proc[p].dirty
     THEN Return(p, {}) /\ UNCHANGED <<preds, indexVars>>
     ELSE /\ preds' = [preds EXCEPT ![e] = NoEntry]
          /\ index' = [index EXCEPT ![Root(e)] = @ \ {e}]
          /\ counter' = [counter EXCEPT ![Root(e)] = @ + 1]
          /\ Return(p, {"pred"})
  /\ UNCHANGED <<config, docVars, log, committed, cache, intentVars>>

-----------------------------------------------------------------------------
(* Validation reads and commits *)

ReadPaths(i) == {e.path : e \in Needs[i]}

\* the validation of a read-set intent reads one snapshot
SnapshotRead(p, i) ==
  /\ At(p, "idle")
  /\ scope = "readset" /\ i \notin committed
  /\ expected' = [expected EXCEPT ![i] = read_set_version(pathVersions, ReadPaths(i))]
  /\ moved' = moved \ {i}
  /\ UNCHANGED <<config, redisVars, proc, cache>>

\* mutant of CommitAuthorization: a version that only grew is accepted
CommitNewer(i) ==
  LET observed == IF scope = "truth" THEN predicate_version(preds, Needs[i])
                  ELSE read_set_version(pathVersions, ReadPaths(i))
  IN
  /\ expected[i] # NotRead
  /\ IF i \notin committed /\ observed >= expected[i]
     THEN /\ log' = Append(log, [id |-> i, moved |-> i \in moved])
          /\ committed' = committed \cup {i}
     ELSE UNCHANGED <<log, committed>>
  /\ expected' = [expected EXCEPT ![i] = NotRead]
  /\ moved' = moved \ {i}
  /\ UNCHANGED <<config, docVars, preds, indexVars, proc, cache>>

\* the version conditions of _COMMIT_LUA in both scopes; the attempt is over
CommitAuthorization(i) ==
  LET observed == IF scope = "truth" THEN predicate_version(preds, Needs[i])
                  ELSE read_set_version(pathVersions, ReadPaths(i))
  IN
  /\ expected[i] # NotRead
  /\ IF i \notin committed /\ observed >= 0 /\ observed = expected[i]
     THEN /\ log' = Append(log, [id |-> i, moved |-> i \in moved])
          /\ committed' = committed \cup {i}
     ELSE UNCHANGED <<log, committed>>
  /\ expected' = [expected EXCEPT ![i] = NotRead]
  /\ moved' = moved \ {i}
  /\ UNCHANGED <<config, docVars, preds, indexVars, proc, cache>>

Next ==
  \/ \E p \in Processes :
       \/ \E patch \in Patches : UpdateRead(p, patch)
       \/ Counters(p) \/ Members(p) \/ Entries(p) \/ UpdateExec(p)
       \/ \E i \in Intents : RegisterFast(p, i) \/ SnapshotRead(p, i)
       \/ RegisterRead(p) \/ RegisterExec(p)
       \/ \E e \in Exprs : GcScan(p, e)
       \/ GcRead(p) \/ GcExec(p)
       \/ Disconnect(p)
  \/ \E e \in Exprs : Age(e)
  \/ \E i \in Intents : CommitAuthorization(i)

Spec == Init /\ [][Next]_vars
-----------------------------------------------------------------------------
(* Properties *)

Entry == [v: Int, truth: BOOLEAN, age: {"fresh", "old", "expired"}]

StoreTypeOK ==
  /\ Stored(tree)
  /\ version \in Nat
  /\ pathVersions \in [DocPaths -> 0..version]
  /\ preds \in [Exprs -> Entry]
  /\ \A p \in Processes : ~At(p, "idle") => proc[p].tries \in 1..MaxRetries
  /\ cache \in [Processes -> [Roots -> [at: Int, members: SUBSET Exprs]]]
  /\ expected \in [Intents -> Int]
  /\ moved \subseteq Intents

\* The truth value kept for a registered predicate is its value in the current
\* document: no interleaving of updates, registrations, retirements and cached
\* indexes lets an update miss a predicate (the claim of register_predicates,
\* "a concurrent update is either seen by the registration or re-evaluates the
\* new predicate itself").
TruthFollows == \A e \in Registered : preds[e].truth = check_expression(e, tree)

\* An authorization is committed only if nothing the intent depends on changed
\* since its validation, in either scope, not even a change undone before the
\* commit (A-B-A), a subtree replaced above the path, or a predicate retired and
\* registered again.
CommitFresh == \A n \in DOMAIN log : ~log[n].moved

RelatedTo == [q \in DocPaths |-> {c \in DocPaths : related(c, q)}]

\* The processes together implement the atomic store: each transaction is one
\* step of VersionedStore and nothing else changes it.
Abstract == INSTANCE VersionedStore WITH
  Paths <- DocPaths, Ids <- Intents,
  ValueAt <- get_path, Holds <- check_expression,
  document <- tree,
  pathVersions <- [q \in DocPaths |-> Max({pathVersions[c] : c \in RelatedTo[q]})],
  truthVersions <- [e \in Exprs |-> preds[e].v],
  log <- [n \in DOMAIN log |-> log[n].id]
Implements == Abstract!Spec
=============================================================================
