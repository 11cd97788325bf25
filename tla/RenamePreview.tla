----------------------------- MODULE RenamePreview -----------------------------
(* How the plan of a rename comes to be (create_rename_preview of              *)
(* crates/transactions/src/lib.rs, the binding of crates/identity/src/lib.rs   *)
(* and the plan tables of crates/database/src/lib.rs): the manifest, the       *)
(* folder and the file are looked at one after the other while other programs  *)
(* write, link and move files and scans are published.  RenameJournal is about *)
(* what becomes of the plan.  The size and the modification time of a file     *)
(* stand for a number that every write changes.  One scope, one path of a      *)
(* folder, two names in it.                                                    *)
EXTENDS Naturals, FiniteSets

CONSTANTS
    Folders, FirstFolder,   \* identities of folders that may be at the path
    Files,                  \* identities of files
    NoFile,
    MaxVersion,             \* bound: writes of a file
    MaxMoves,               \* bound: links, removals, and folders put in the place of others
    MaxRevision,            \* bound: revisions of the policy
    MaxPlans                \* bound: plans

VARIABLES
    platform,       \* "unix", or "other" as on Windows
    place,          \* the folder at the path
    entries,        \* folder -> name -> file
    version,        \* file -> what size and time stand for
    moves,
    manifest,       \* the completed scan: folder, and name -> file and version
    policy,         \* revision, grant, excluded names
    call,           \* the call that makes a plan
    plans           \* action_plans with their action_execution_bindings

previewVars == <<platform, place, entries, version, moves, manifest, policy, call, plans>>
diskVars == <<platform, place, entries, version, moves>>

Names == {"source", "destination"}
NoRow == [file |-> NoFile, version |-> 0, folder |-> FirstFolder]
NoCall == [pc |-> "idle", strategy |-> "direct", revision |-> 0, stamp |-> 0, row |-> NoRow,
           hash |-> {}]

Scanned == [folder |-> place,
            at |-> [n \in Names |-> entries[place][n]],
            version |-> [n \in Names |-> IF entries[place][n] = NoFile THEN 0
                                         ELSE version[entries[place][n]]]]

PreviewInit ==
    /\ platform \in {"unix", "other"}
    /\ place = FirstFolder
    /\ entries \in [Folders -> {[n \in Names |-> IF n = "source" THEN f ELSE NoFile] : f \in Files}]
    /\ \A d, e \in Folders : entries[d] = entries[e] => d = e
    /\ version = [f \in Files |-> 1] /\ moves = 0
    /\ manifest = Scanned
    /\ policy = [revision |-> 1, granted |-> TRUE, excluded |-> {}]
    /\ call = NoCall /\ plans = {}

-----------------------------------------------------------------------------
(* Other programs, scans and the policy. *)

Write(f) ==
    /\ version[f] < MaxVersion
    /\ version' = [version EXCEPT ![f] = @ + 1]
    /\ UNCHANGED <<platform, place, entries, moves, manifest, policy, call, plans>>
Moves ==
    /\ moves < MaxMoves /\ moves' = moves + 1
    /\ UNCHANGED <<platform, version, manifest, policy, call, plans>>
\* An entry is removed, or names another file: by a move, a copy or a second link.
Put(n, f) == Moves /\ entries' = [entries EXCEPT ![place][n] = f] /\ UNCHANGED place
Replace(d) == Moves /\ d # place /\ place' = d /\ UNCHANGED entries

Publish ==
    /\ manifest # Scanned
    /\ manifest' = [Scanned EXCEPT !.at = [n \in Names |-> IF n \in policy.excluded THEN NoFile
                                                         ELSE @[n]]]
    /\ UNCHANGED <<diskVars, policy, call, plans>>

\* A change of the policy waits for the fence, which a call holds until it returns, and purges
\* the plans.
ChangePolicy(granted, excluded) ==
    /\ call.pc = "idle" /\ policy.granted /\ policy.revision < MaxRevision
    /\ policy' = [revision |-> policy.revision + 1, granted |-> granted, excluded |-> excluded]
    /\ manifest' = [manifest EXCEPT !.at = [n \in Names |-> IF n \in excluded THEN NoFile ELSE @[n]]]
    /\ plans' = {}
    /\ UNCHANGED <<diskVars, call>>

-----------------------------------------------------------------------------
(* Making a plan. *)

Go(next) == call' = next /\ UNCHANGED <<diskVars, manifest, policy, plans>>
GoIf(condition, next) == Go(IF condition THEN next ELSE NoCall)
Reads(f) == IF f = NoFile THEN 0 ELSE version[f]
Source == entries[place]["source"]
LinksOf(f) == Cardinality({at \in Folders \X Names : entries[at[1]][at[2]] = f})

\* A name that differs in case only is reached in two steps.
Begin(strategy) ==
    /\ call.pc = "idle" /\ Cardinality(plans) < MaxPlans
    /\ policy.granted /\ policy.excluded = {}
    /\ Go([call EXCEPT !.pc = "look", !.strategy = strategy, !.revision = policy.revision])
Look ==
    /\ call.pc = "look"
    /\ GoIf(Source # NoFile, [call EXCEPT !.pc = "row", !.stamp = Reads(Source)])
\* action_execution_source_for_path_key: one location of the file in the scope
RowOf(m) == [file |-> m.at["source"], version |-> m.version["source"], folder |-> m.folder]
HasRow(m) == m.at["source"] # NoFile /\ m.at["source"] # m.at["destination"]
ReadRow ==
    /\ call.pc = "row"
    /\ GoIf(HasRow(manifest), [call EXCEPT !.pc = "compare", !.row = RowOf(manifest)])
\* validate_source_snapshot: the identity of the file as it is now, and the size and time that
\* were seen before
CompareSource ==
    /\ call.pc = "compare"
    /\ GoIf(Source = call.row.file /\ call.stamp = call.row.version,
            [call EXCEPT !.pc = "destination"])
Absent == call.strategy = "direct" => entries[place]["destination"] = NoFile
CompareDestination ==
    /\ call.pc = "destination" /\ GoIf(Absent, [call EXCEPT !.pc = "bind"])

\* The folder at the path, and the file that its entry names, are those of the row.
InPlace == place = call.row.folder /\ Source = call.row.file
Unchanged == Reads(call.row.file) = call.row.version
\* bind_action_file; elsewhere the files are opened by their path.
Bind ==
    /\ call.pc = "bind"
    /\ GoIf(/\ InPlace /\ Unchanged
            /\ platform = "unix" => LinksOf(Source) = 1 /\ Absent, [call EXCEPT !.pc = "hash"])
\* hash_open_file, while the file is held open and may be written
Hash ==
    /\ call.pc = "hash"
    /\ Go([call EXCEPT !.pc = "rest", !.hash = {Reads(call.row.file)}])
HashTheRest ==
    /\ call.pc = "rest"
    /\ Go([call EXCEPT !.pc = "again", !.hash = call.hash \cup {Reads(call.row.file)}])
\* Slip: only the path is looked at again.
PlaceIsSame == InPlace
\* revalidate_bound_source: the folders, the entry and the open file; elsewhere the open file
StillBound ==
    /\ Unchanged
    /\ platform = "unix" => InPlace /\ LinksOf(Source) = 1
Revalidate ==
    /\ call.pc = "again" /\ GoIf(StillBound, [call EXCEPT !.pc = "insert"])

\* preview_execution_binding: the row is still the one that was read.
RowIsBound == HasRow(manifest) /\ RowOf(manifest) = call.row
\* create_rename_action_plan_with_policy
Insert ==
    /\ call.pc = "insert"
    /\ plans' = IF policy.granted /\ policy.revision = call.revision /\ policy.excluded = {}
                     /\ RowIsBound
                THEN plans \cup {[row |-> call.row, hash |-> call.hash,
                                  strategy |-> call.strategy, known |-> RowOf(manifest)]}
                ELSE plans
    /\ call' = NoCall
    /\ UNCHANGED <<diskVars, manifest, policy>>

PreviewNext ==
    \/ \E f \in Files : Write(f) \/ \E n \in Names : Put(n, f)
    \/ \E n \in Names : Put(n, NoFile)
    \/ \E d \in Folders : Replace(d)
    \/ Publish
    \/ \E n \in Names : ChangePolicy(TRUE, policy.excluded \cup {n})
    \/ ChangePolicy(FALSE, policy.excluded)
    \/ \E strategy \in {"direct", "staged"} : Begin(strategy)
    \/ Look \/ ReadRow \/ CompareSource \/ CompareDestination \/ Bind
    \/ Hash \/ HashTheRest \/ Revalidate \/ Insert

PreviewSpec == PreviewInit /\ [][PreviewNext]_previewVars

-----------------------------------------------------------------------------
(* Properties. *)

PreviewTypeOK ==
    /\ place \in Folders /\ moves \in 0 .. MaxMoves
    /\ version \in [Files -> 1 .. MaxVersion]
    /\ entries \in [Folders -> [Names -> Files \cup {NoFile}]]
    /\ call.hash \subseteq 1 .. MaxVersion

\* The hash of a plan is of the whole file that its row in the manifest describes, in the state
\* that the row describes, whatever was written, moved and published in between.
PlanHashesItsRow == \A p \in plans : p.hash = {p.row.version} /\ p.known = p.row
=============================================================================
