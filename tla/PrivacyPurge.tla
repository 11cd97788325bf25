---------------------------- MODULE PrivacyPurge ----------------------------
(* Exclusions, revocation and the purge of what was derived from the files   *)
(* they withdraw (crates/database/src/lib.rs, migrations 0023 to 0026).  A   *)
(* call is one transaction, thus one action; what it refuses is no step.     *)
(* Derived rows refer to a node and to a row of locations; the row of a path *)
(* stays when its file is gone, and takes another node when the file is      *)
(* replaced.                                                                 *)
EXTENDS Naturals, FiniteSets

CONSTANTS
    Files,          \* paths of files below the root
    InFolder,       \* those in the one folder below the root
    Folder,         \* the path of that folder
    Nodes,          \* identities of files
    FolderNode, NoNode,
    MaxDerived      \* bound: derived rows

\* The folder is none of the files, and neither its identity nor the absence of one is a file's.
ASSUME PurgeAssumption ==
    /\ InFolder \subseteq Files /\ Folder \notin Files
    /\ FolderNode \notin Nodes /\ NoNode \notin Nodes /\ FolderNode # NoNode

KnownPaths == Files \cup {Folder}
DerivedKinds == {"content", "relation", "group", "project", "plan", "cleanup"}

VARIABLES
    rows,           \* locations: path -> node
    nodeTable,      \* nodes
    elsewhere,      \* nodes that another scope locates
    derived,        \* what refers to rows: see Evidence
    exclusions,     \* scope_exclusions
    grant           \* scope_access_grants: the state of the scope's grant

purgeVars == <<rows, nodeTable, elsewhere, derived, exclusions, grant>>

Located == {p \in KnownPaths : rows[p] # NoNode}
GrantIsActive == grant = "active"

\* refs: pairs of a node and the path it was located at; names: paths a plan writes down;
\* basis: the references of the relation or group a cleanup plan comes from.
Evidence(kind, refs, names, basis) ==
    [kind |-> kind, refs |-> refs, names |-> names, basis |-> basis, begun |-> FALSE]
RefsAt(paths) == {<<rows[p], p>> : p \in paths}

PurgeInit ==
    /\ rows = [p \in KnownPaths |-> NoNode]
    /\ nodeTable = {} /\ elsewhere = {}
    /\ derived = {} /\ exclusions = {}
    /\ grant = "active"

-----------------------------------------------------------------------------
(* Which paths and identities are withheld. *)

Covers(x, path) == x.path = path \/ (x.kind = "folder" /\ path \in InFolder)

\* scope_path_key_is_excluded
PathIsExcluded(path) ==
    \E x \in exclusions : Covers(x, path) \/ (path \in Located /\ rows[path] = x.id)
\* Slip: the identity of a file is not looked at.
PathAllowed(path, node) == ~PathIsExcluded(path)
\* assert_scope_path_key_allowed and assert_scope_identity_allowed
Allowed(path, node) == ~PathIsExcluded(path) /\ \A x \in exclusions : x.id # node

\* prepare_scope_exclusion: the kind and the identity of what is at the path
Prepared(path, node) ==
    [path |-> path, kind |-> IF path = Folder THEN "folder" ELSE "file", id |-> node]
Writes == {Prepared(path, node) : path \in Files, node \in Nodes}
              \cup {Prepared(Folder, FolderNode)}
Clash(x, y) == x.id = y.id \/ Covers(x, y.path) \/ Covers(y, x.path)
\* validate_scope_exclusion_batch
ValidBatch(batch) ==
    /\ batch # {}
    /\ \A x \in batch : \A y \in exclusions \cup (batch \ {x}) : ~Clash(x, y)
Batches == {batch \in SUBSET Writes : Cardinality(batch) <= 2 /\ ValidBatch(batch)}

-----------------------------------------------------------------------------
(* The targets of a purge. *)

TouchesFolder(nodes) == FolderNode \in nodes \/ \E p \in InFolder : rows[p] \in nodes
RefersTo(refs, nodes) == \E ref \in refs : ref[1] \in nodes

\* Slip: the keeper of a cleanup plan or the group it comes from is left out of the closure.
ByTarget(r, nodes, writes) ==
    CASE r.kind = "project" -> TouchesFolder(nodes)
      [] r.kind = "plan" -> \/ RefersTo(r.refs, nodes)
                            \/ \E x \in writes : \E path \in r.names : Covers(x, path)
      [] r.kind = "cleanup" -> RefersTo({CHOOSE ref \in r.refs : TRUE}, nodes)
      [] OTHER -> RefersTo(r.refs, nodes)
\* close_privacy_targets_over_same_scope_hardlinks, and the plans that name a withheld path
Concerned(r, nodes, writes) ==
    CASE r.kind = "project" -> TouchesFolder(nodes)
      [] r.kind = "plan" -> \/ RefersTo(r.refs, nodes)
                            \/ \E x \in writes : \E path \in r.names : Covers(x, path)
      [] r.kind = "cleanup" -> RefersTo(r.refs \cup r.basis, nodes)
      [] OTHER -> RefersTo(r.refs, nodes)

Targets(hit, records(_)) ==
    LET nodes == {rows[p] : p \in hit}
    IN [nodes |-> nodes,
        paths |-> {p \in Located : rows[p] \in nodes},
        records |-> records(nodes)]

\* insert_privacy_targets_for_writes, insert_all_privacy_targets
TargetsOf(writes) ==
    Targets({p \in Located : \E x \in writes : Covers(x, p) \/ rows[p] = x.id},
            LAMBDA nodes : {r \in derived : Concerned(r, nodes, writes)})
\* insert_full_scope_privacy_targets: content goes by its node here too.
FullTargets ==
    Targets(Located,
            LAMBDA nodes : {r \in derived : r.kind = "content" => RefersTo(r.refs, nodes)})

\* privacy_purge_blocking_action_count: any plan whose journal is not a pristine preview
Blocked(t) == \E r \in t.records : r.begun

\* Slip: foreign keys are not enforced.
NoForeignKeys(t) == FALSE
\* PRAGMA foreign_keys: no row of locations goes while a row refers to it.
Dangles(r, t) == r \notin t.records /\ \E ref \in r.refs : ref[2] \in t.paths
Referenced(t) == \E r \in derived : Dangles(r, t)

\* execute_privacy_purge
Purge(t) ==
    /\ ~Blocked(t) /\ ~Referenced(t)
    /\ rows' = [p \in KnownPaths |-> IF p \in t.paths THEN NoNode ELSE rows[p]]
    /\ derived' = derived \ t.records
    /\ nodeTable' = nodeTable \ (t.nodes \ elsewhere)
    /\ UNCHANGED elsewhere

\* apply_scope_exclusion_batch_internal
ExcludeBatch(batch) ==
    /\ GrantIsActive /\ batch \in Batches
    /\ exclusions' = exclusions \cup batch
    /\ Purge(TargetsOf(exclusions \cup batch))
    /\ UNCHANGED grant

\* execute_scope_root_revocation_purge
PurgeRoot == Purge(FullTargets) /\ exclusions' = {}
\* apply_scope_root_revocation_internal; from a preview, when its impact is still the same
RevokeRoot ==
    /\ GrantIsActive
    /\ PurgeRoot
    /\ grant' = "revoked"

-----------------------------------------------------------------------------
(* The manifest and what is derived from it. *)

\* upsert_observation of a scan or a delta
ObserveFile(p, n) ==
    /\ GrantIsActive /\ p \in Files /\ Allowed(p, n) /\ rows[p] # n
    /\ p \in InFolder => rows[Folder] = FolderNode
    /\ rows' = [rows EXCEPT ![p] = n]
    /\ nodeTable' = nodeTable \cup {n}
    /\ UNCHANGED <<elsewhere, derived, exclusions, grant>>

ObserveFolder ==
    /\ GrantIsActive /\ Allowed(Folder, FolderNode) /\ rows[Folder] = NoNode
    /\ rows' = [rows EXCEPT ![Folder] = FolderNode]
    /\ nodeTable' = nodeTable \cup {FolderNode}
    /\ UNCHANGED <<elsewhere, derived, exclusions, grant>>

\* The same file is linked into another authorised folder.
ObserveElsewhere(n) ==
    /\ n \notin elsewhere
    /\ elsewhere' = elsewhere \cup {n} /\ nodeTable' = nodeTable \cup {n}
    /\ UNCHANGED <<rows, derived, exclusions, grant>>

DeriveRow(r) ==
    /\ GrantIsActive /\ Cardinality(derived) < MaxDerived
    /\ \A ref \in r.refs : ref[2] \in Located /\ rows[ref[2]] = ref[1]
                              /\ Allowed(ref[2], ref[1])
    /\ derived' = derived \cup {r}
    /\ UNCHANGED <<rows, nodeTable, elsewhere, exclusions, grant>>

Extract(p) == p \in Located \cap Files /\ DeriveRow(Evidence("content", RefsAt({p}), {}, {}))
Relate(p, q) ==
    /\ {p, q} \subseteq Located \cap Files /\ rows[p] # rows[q]
    /\ DeriveRow(Evidence("relation", RefsAt({p, q}), {}, {}))
Group(paths) ==
    /\ paths \subseteq Located \cap Files /\ Cardinality({rows[p] : p \in paths}) >= 2
    /\ DeriveRow(Evidence("group", RefsAt(paths), {}, {}))
SuggestProject == Folder \in Located /\ DeriveRow(Evidence("project", RefsAt({Folder}), {}, {}))
\* create_rename_action_plan: the destination is looked at too.
PlanRename(p, destination) ==
    /\ p \in Located \cap Files /\ ~PathIsExcluded(destination)
    /\ (p \in InFolder) = (destination \in InFolder)
    /\ DeriveRow(Evidence("plan", RefsAt({p}), {p, destination}, {}))
\* create_cleanup_action_plan: a pair keeps one file, a group names no keeper.
PlanCleanup(source, ref) ==
    /\ source.kind \in {"relation", "group"} /\ ref \in source.refs
    /\ DeriveRow(Evidence("cleanup", IF source.kind = "relation" THEN source.refs ELSE {ref},
                       {}, source.refs))

\* The first command of a plan makes its journal a safety record.
BeginPlan(r) ==
    /\ GrantIsActive /\ r.kind = "plan" /\ ~r.begun
    /\ derived' = (derived \ {r}) \cup {[r EXCEPT !.begun = TRUE]}
    /\ UNCHANGED <<rows, nodeTable, elsewhere, exclusions, grant>>

-----------------------------------------------------------------------------
(* The grant, as AccessGrants models it. *)

\* add_coverage_roots_with_access_grants, upsert_scope_access_grant
RenewGrant ==
    /\ ~GrantIsActive /\ grant' = "active"
    /\ UNCHANGED <<rows, nodeTable, elsewhere, derived, exclusions>>

\* mark_scope_access_grant_needs_reauthorization
LoseGrant ==
    /\ GrantIsActive /\ grant' = "needs_reauthorization"
    /\ UNCHANGED <<rows, nodeTable, elsewhere, derived, exclusions>>

-----------------------------------------------------------------------------
PurgeNext ==
    \/ \E batch \in Batches : ExcludeBatch(batch)
    \/ RevokeRoot
    \/ \E p \in Files, n \in Nodes : ObserveFile(p, n)
    \/ ObserveFolder \/ SuggestProject
    \/ \E n \in Nodes : ObserveElsewhere(n)
    \/ \E p \in Files : Extract(p)
    \/ \E p, q \in Files : Relate(p, q) \/ PlanRename(p, q)
    \/ \E paths \in SUBSET Files : Group(paths)
    \/ \E r \in derived : BeginPlan(r) \/ \E ref \in r.refs : PlanCleanup(r, ref)
    \/ RenewGrant \/ LoseGrant

PurgeSpec == PurgeInit /\ [][PurgeNext]_purgeVars

-----------------------------------------------------------------------------
(* Properties. *)

\* Every row's node exists, and every reference has its row.
PurgeTypeOK ==
    /\ rows \in [KnownPaths -> Nodes \cup {FolderNode, NoNode}]
    /\ {rows[p] : p \in Located} \cup elsewhere \subseteq nodeTable
    /\ \A r \in derived : r.kind \in DerivedKinds /\ \A ref \in r.refs : ref[2] \in Located
    /\ exclusions \subseteq Writes
    /\ grant \in {"active", "needs_reauthorization", "revoked"}

\* Nothing in the database is located at, or names, a path that is excluded, and no excluded
\* identity has a row of its own.
WithheldIsAbsent ==
    \A x \in exclusions :
        /\ \A p \in Located : ~Covers(x, p) /\ rows[p] # x.id
        /\ \A r \in derived : \A path \in r.names \cup {ref[2] : ref \in r.refs} :
               ~Covers(x, path)

Replaced == \E r \in derived : \E ref \in r.refs : rows[ref[2]] # ref[1]
\* The closure is complete: whatever is excluded or revoked, the only reference left to a row
\* that goes is one to a file that was replaced in its place, and no cleanup plan loses the
\* relation or group it was made from.
ClosureIsComplete ==
    /\ \A r \in derived : r.basis # {} =>
          \E source \in derived : source.kind \in {"relation", "group"} /\ source.refs = r.basis
    /\ \A r \in derived : ~Replaced =>
          /\ \A batch \in Batches : ~Dangles(r, TargetsOf(exclusions \cup batch))
          /\ ~Dangles(r, FullTargets)

\* No table keeps a path that the policy withholds, and a purge follows every row to what was
\* derived from it.
PurgeIsComplete == WithheldIsAbsent /\ ClosureIsComplete

\* A root whose plans are all pristine can be revoked (ADR-033: revoking a root immediately
\* removes its capability; the transaction purges the complete state derived from it).
RevocationIsPossible == GrantIsActive /\ ~Blocked(FullTargets) => ~Referenced(FullTargets)
=============================================================================
