----------------------------- MODULE AtomicStore -----------------------------
(***************************************************************************)
(* The context store as XAIR's handlers rely on it (interface of           *)
(* xair/core/context_store.py): one versioned context document, the        *)
(* actuation log with its set of committed ids, and the idempotency keys.  *)
(* Each operation is one atomic step: a context update is one WATCH/MULTI  *)
(* transaction, the commit is one Lua script, a claim one SET NX.          *)
(*                                                                         *)
(* A path is a leaf of the context document.  A predicate constrains one   *)
(* path ("Path Op Literal"), so a conjunction of predicates is a set of    *)
(* admissible values for each path it reads.                               *)
(***************************************************************************)
EXTENDS Integers, Sequences, FiniteSetsExt

CONSTANTS
  Paths,           \* leaf paths of the context document
  WrittenValues    \* the values context producers write

VARIABLES
  context,         \* value of each path, or Missing
  version,         \* global version, advanced by every update
  pathVersions,    \* version at which each path last changed value (0: never)
  actuations,      \* the actuation log
  committed,       \* ids with an authorization in the log (COMMITTED_KEY)
  claims,          \* ids with an idempotency key (SEEN_PREFIX)
  up               \* is the store reachable?

storeVars == <<context, version, pathVersions, actuations, committed, claims, up>>
documentVars == <<context, version, pathVersions>>
logVars == <<actuations, committed>>

Missing == -1

\* the store is empty, or holds what a first update put into it
StoreInit ==
  /\ context \in [Paths -> WrittenValues \cup {Missing}]
  /\ version = IF \A p \in Paths : context[p] = Missing THEN 0 ELSE 1
  /\ pathVersions = [p \in Paths |-> IF context[p] = Missing THEN 0 ELSE 1]
  /\ actuations = <<>>
  /\ committed = {}
  /\ claims = {}
  /\ up = TRUE

\* read_set_version: the latest value change among the paths read (0 if none)
ReadSetVersion(pv, R) == Max({0} \cup {pv[p] : p \in R})

\* mutant of Update: the path versions run ahead
UpdateAhead(p, v) ==
  /\ version' = version + 1
  /\ context' = [context EXCEPT ![p] = v]
  /\ pathVersions' = [pathVersions EXCEPT ![p] = version + 2]
  /\ UNCHANGED <<actuations, committed, claims, up>>

\* _apply for a patch that sets one leaf: the global version always advances,
\* the path's version only if the value differs (changed_paths)
Update(p, v) ==
  /\ version' = version + 1
  /\ context' = [context EXCEPT ![p] = v]
  /\ pathVersions' = IF context[p] = v THEN pathVersions
                     ELSE [pathVersions EXCEPT ![p] = version + 1]
  /\ UNCHANGED <<actuations, committed, claims, up>>

\* _apply for a patch of several leaves, one version for all of them
Apply(patch) ==
  /\ version' = version + 1
  /\ context' = [p \in Paths |-> IF p \in DOMAIN patch THEN patch[p] ELSE context[p]]
  /\ pathVersions' = [p \in Paths |-> IF context'[p] # context[p] THEN version + 1
                                      ELSE pathVersions[p]]
  /\ UNCHANGED <<actuations, committed, claims, up>>

\* the document as one read returns it
Snapshot == [version |-> version, context |-> context, pathVersions |-> pathVersions]

\* mutants of CommitStatus: no check for a duplicate, or for a changed version
CommitStatusRepeat(i, R, expected, age, bound, ahead) ==
  IF age < -ahead THEN "future_skew"
  ELSE IF age > bound THEN "expired"
  ELSE IF ReadSetVersion(pathVersions, R) # expected THEN "changed"
  ELSE "committed"
CommitStatusBlind(i, R, expected, age, bound, ahead) ==
  IF i \in committed THEN "duplicate"
  ELSE IF age < -ahead THEN "future_skew"
  ELSE IF age > bound THEN "expired"
  ELSE "committed"

\* the checks of _COMMIT_LUA, in its order, for an intent of the given age on
\* the store clock that read R at version "expected"
CommitStatus(i, R, expected, age, bound, ahead) ==
  IF i \in committed THEN "duplicate"
  ELSE IF age < -ahead THEN "future_skew"
  ELSE IF age > bound THEN "expired"
  ELSE IF ReadSetVersion(pathVersions, R) # expected THEN "changed"
  ELSE "committed"

\* _COMMIT_LUA: on success the authorization is appended (RPUSH, SADD)
Commit(i, status) ==
  /\ IF status = "committed"
     THEN /\ actuations' = Append(actuations, [id |-> i, kind |-> "auth"])
          /\ committed' = committed \cup {i}
     ELSE UNCHANGED logVars
  /\ UNCHANGED <<context, version, pathVersions, claims, up>>

\* append_actuation: a non-authorizing record (a tombstone or a stop)
AppendActuation(i, kind) ==
  /\ actuations' = Append(actuations, [id |-> i, kind |-> kind])
  /\ UNCHANGED <<context, version, pathVersions, committed, claims, up>>

\* mutant of Claim: no key is kept
ClaimNothing(i) == UNCHANGED storeVars

\* claim_intent: SET NX
Claim(i) ==
  /\ claims' = claims \cup {i}
  /\ UNCHANGED <<context, version, pathVersions, actuations, committed, up>>

\* the connection to the store fails or comes back; its data survive
StoreDown == up /\ up' = FALSE
             /\ UNCHANGED <<context, version, pathVersions, actuations, committed, claims>>
StoreUp == ~up /\ up' = TRUE
           /\ UNCHANGED <<context, version, pathVersions, actuations, committed, claims>>
=============================================================================
