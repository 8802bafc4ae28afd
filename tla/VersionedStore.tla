--------------------------- MODULE VersionedStore ---------------------------
(***************************************************************************)
(* What the context store promises the gate (docstrings of                 *)
(* xair/core/versioning.py and of RedisContextStore): one atomic document  *)
(* whose versions tell every change.                                       *)
(*                                                                         *)
(*  - A write advances the global version by one.  It may advance the      *)
(*    version of a path whose value stays, and must advance it, to the new *)
(*    global version, when the value changes.                              *)
(*  - The version of a registered predicate advances with its truth value  *)
(*    and only then.  Registration starts at the current version; a        *)
(*    retired predicate has none.                                          *)
(*  - An id is authorized at most once, and the log only grows.            *)
(***************************************************************************)
EXTENDS Integers, Sequences

CONSTANTS
  Paths, Exprs, Ids,
  ValueAt(_, _),   \* what a document holds at a path
  Holds(_, _)      \* does a predicate hold in a document?

VARIABLES
  document,
  version,         \* the global version
  pathVersions,    \* the version at which each path last changed
  truthVersions,   \* the version at which the truth value of each predicate last
                   \* changed, or Unregistered
  log,             \* the ids authorized, in order
  committed        \* the same as a set

docVars == <<document, version, pathVersions>>
vars == <<docVars, truthVersions, log, committed>>

Unregistered == -1

Init ==
  /\ version \in Nat
  /\ \A p \in Paths : pathVersions[p] <= version
  /\ truthVersions = [e \in Exprs |-> Unregistered]
  /\ log = <<>>
  /\ committed = {}

Write ==
  /\ version' = version + 1
  /\ \A p \in Paths :
       \/ pathVersions'[p] = version'
       \/ pathVersions'[p] = pathVersions[p] /\ ValueAt(document', p) = ValueAt(document, p)
  /\ \A e \in Exprs :
       \/ truthVersions'[e] = Unregistered
       \/ /\ truthVersions[e] # Unregistered
          /\ truthVersions'[e] = IF Holds(e, document') <=> Holds(e, document)
                                 THEN truthVersions[e] ELSE version'
  /\ UNCHANGED <<log, committed>>

\* registrations and retirements
Register ==
  /\ truthVersions' # truthVersions
  /\ \A e \in Exprs :
       \/ truthVersions'[e] \in {truthVersions[e], Unregistered}
       \/ truthVersions[e] = Unregistered /\ truthVersions'[e] = version
  /\ UNCHANGED <<docVars, log, committed>>

Authorize(i) ==
  /\ i \notin committed
  /\ log' = Append(log, i)
  /\ committed' = committed \cup {i}
  /\ UNCHANGED <<docVars, truthVersions>>

Next == Write \/ Register \/ \E i \in Ids : Authorize(i)

Spec == Init /\ [][Next]_vars
=============================================================================
