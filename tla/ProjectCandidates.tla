-------------------------- MODULE ProjectCandidates --------------------------
(* Projects that the marker files of a folder suggest, and what the user      *)
(* decides about them (crates/projects/src/lib.rs and the projects tables of  *)
(* crates/database/src/lib.rs).  A service call reads the manifest one query  *)
(* at a time, compares what it read once more, and only then makes its        *)
(* transactions; scans are published and paths excluded in between.  One      *)
(* scope; the clock ticks between two scans that complete.                    *)
EXTENDS Naturals, Sequences, FiniteSets, FiniteSetsExt

CONSTANTS
    Roots,          \* folders
    Markers,        \* ProjectSignalKind
    Readme,         \* the marker that suggests nothing by itself
    Callers,
    MaxRoots,       \* MAX_PROJECT_DISCOVERY_ROOTS
    MaxScans,       \* bound: completed scans
    MaxRevision,    \* bound: policy revisions
    MaxDecisions    \* bound: feedback events of a project

VARIABLES
    published,      \* finish time of a scan -> the manifest, as it was last at that time
    policy,         \* revision, and is access granted?
    projects,       \* id -> root, suggestions, feedback events in order of sequence
    call            \* the service call of each process

projectVars == <<published, policy, projects, call>>

Gone == [present |-> FALSE, markers |-> {}]
Folders == {Gone} \cup [present : {TRUE}, markers : SUBSET Markers]
NoCall == [pc |-> "idle", op |-> "none", todo |-> {}, root |-> 0, id |-> 0, outer |-> 0,
           inner |-> 0, markers |-> {}, at |-> 0, decision |-> "none"]

ProjectsInit ==
    /\ published = <<>>
    /\ policy = [revision |-> 1, granted |-> TRUE]
    /\ projects = [i \in {} |-> Gone]
    /\ call = [c \in Callers |-> NoCall]

-----------------------------------------------------------------------------
(* What the tables say. *)

Now == Len(published)
Scanned == Now > 0
FolderNow(r) == IF Scanned THEN published[Now][r] ELSE Gone
\* profile_from_facts: a README is supporting evidence only.
Suggests(markers) == markers \ {Readme} # {}
Current(revision) == policy.granted /\ policy.revision = revision

\* INTEGER PRIMARY KEY: one more than the greatest id that is left
NewId == IF DOMAIN projects = {} THEN 1 ELSE Max(DOMAIN projects) + 1
IdOf(r) == IF \E i \in DOMAIN projects : projects[i].root = r
           THEN CHOOSE i \in DOMAIN projects : projects[i].root = r
           ELSE NewId
\* The rows of the project of r, made if it has none.
ProjectOf(r) == IF IdOf(r) \in DOMAIN projects THEN projects[IdOf(r)]
                ELSE [root |-> r, suggestions |-> {}, decisions |-> <<>>]
\* UNIQUE(project_id, observed_at_unix_ms, ...) with INSERT OR IGNORE
IsNew(s, known) == \A t \in known : t.at # s.at

-----------------------------------------------------------------------------
(* Scans and the policy. *)

\* complete_scan, complete_resumable_scan
Publish(manifest) ==
    /\ Now < MaxScans /\ policy.granted
    /\ published' = Append(published, manifest)
    /\ UNCHANGED <<policy, projects, call>>

Without(ids) == [i \in DOMAIN projects \ ids |-> projects[i]]
OfRoot(r) == {i \in DOMAIN projects : projects[i].root = r}
\* A marker is excluded, or the folder with all of them: its project is purged.
Exclude(r, marker) ==
    /\ policy.granted /\ policy.revision < MaxRevision /\ marker \in FolderNow(r).markers
    /\ published' = [published EXCEPT ![Now][r].markers = @ \ {marker}]
    /\ policy' = [policy EXCEPT !.revision = @ + 1]
    /\ projects' = Without(OfRoot(r))
    /\ UNCHANGED call
ExcludeFolder(r) ==
    /\ policy.granted /\ policy.revision < MaxRevision /\ FolderNow(r).present
    /\ published' = [published EXCEPT ![Now][r] = Gone]
    /\ policy' = [policy EXCEPT !.revision = @ + 1]
    /\ projects' = Without(OfRoot(r))
    /\ UNCHANGED call
Revoke ==
    /\ policy.granted /\ policy.revision < MaxRevision
    /\ policy' = [revision |-> policy.revision + 1, granted |-> FALSE]
    /\ projects' = Without(DOMAIN projects)
    /\ published' = IF Scanned THEN [published EXCEPT ![Now] = [r \in Roots |-> Gone]]
                    ELSE published
    /\ UNCHANGED call

-----------------------------------------------------------------------------
(* The service calls. *)

Ends(c) == call' = [call EXCEPT ![c] = NoCall]
\* Go on if the condition holds; what fails leaves the earlier transactions as they are.
Unless(c, condition, next) ==
    /\ IF condition THEN call' = [call EXCEPT ![c] = next] ELSE Ends(c)
    /\ UNCHANGED <<published, policy, projects>>
Admitted == policy.granted /\ Scanned
Begins(c, op, todo, id, decision) ==
    /\ call[c].pc = "idle"
    /\ Unless(c, Admitted,
              [NoCall EXCEPT !.pc = "facts", !.op = op, !.todo = todo, !.id = id,
                             !.outer = policy.revision, !.decision = decision])

\* propose_project
Propose(c, r) == Begins(c, "propose", {r}, 0, "none")
\* project_discovery_roots: the folders that a direct marker suggests, up to a limit.
Suggested == {r \in Roots : FolderNow(r).present /\ Suggests(FolderNow(r).markers)}
Discover(c) ==
    /\ Suggested # {}
    /\ \E found \in SUBSET Suggested :
          /\ Cardinality(found) = Min({Cardinality(Suggested), MaxRoots})
          /\ Begins(c, "discover", found, 0, "none")
\* project_candidate_detail, alone or before a decision
Ask(c, i, decision) ==
    /\ i \in DOMAIN projects /\ FolderNow(projects[i].root).present
    /\ decision # "none" => Len(projects[i].decisions) < MaxDecisions
    /\ Begins(c, "detail", {projects[i].root}, i, decision)

\* The binding is taken, then folder_profile_facts reads the entries, and after them the time
\* of the latest scan.
ReadMarkers(c) ==
    /\ call[c].pc = "facts"
    /\ \E r \in call[c].todo :
          Unless(c, policy.granted /\ FolderNow(r).present,
                 [call[c] EXCEPT !.pc = "time", !.root = r, !.inner = policy.revision,
                                 !.markers = FolderNow(r).markers])
ReadTime(c) ==
    /\ call[c].pc = "time"
    /\ Unless(c, Current(call[c].inner) /\ Suggests(call[c].markers),
              [call[c] EXCEPT !.pc = "again", !.at = Now])
\* record_project_candidate_with_policy reads the facts again, by themselves; then the
\* transaction compares the markers a third time.
RereadMarkers(c) ==
    /\ call[c].pc = "again"
    /\ Unless(c, FolderNow(call[c].root) = [present |-> TRUE, markers |-> call[c].markers],
              [call[c] EXCEPT !.pc = "timeAgain"])
\* Slip: the time of the scan is not compared again.
AnyTime(at) == TRUE
SameTime(at) == Now = at
RereadTime(c) ==
    /\ call[c].pc = "timeAgain"
    /\ Unless(c, SameTime(call[c].at), [call[c] EXCEPT !.pc = "record"])

Record(c) ==
    LET r == call[c].root
        s == [at |-> call[c].at, markers |-> call[c].markers]
        rows == ProjectOf(r)
        written == IF IsNew(s, rows.suggestions)
                   THEN [rows EXCEPT !.suggestions = @ \cup {s}] ELSE rows
    IN /\ call[c].pc = "record"
       /\ IF /\ Current(call[c].inner)
             /\ FolderNow(r) = [present |-> TRUE, markers |-> call[c].markers]
          THEN /\ projects' = [i \in DOMAIN projects \cup {IdOf(r)} |->
                                 IF i = IdOf(r) THEN written ELSE projects[i]]
               /\ call' = [call EXCEPT ![c].pc = "show", ![c].id = IdOf(r)]
          ELSE Ends(c) /\ UNCHANGED projects
       /\ UNCHANGED <<published, policy>>

\* project_candidate, and the binding of the whole call
Shows(i) == i \in DOMAIN projects /\ FolderNow(projects[i].root).present
Show(c) ==
    LET rest == call[c].todo \ {call[c].root}
    IN /\ call[c].pc = "show"
       /\ Unless(c, Shows(call[c].id) /\ (rest = {} => Current(call[c].outer)),
                 IF rest # {} THEN [call[c] EXCEPT !.pc = "facts", !.todo = rest]
                 ELSE IF call[c].decision # "none" THEN [call[c] EXCEPT !.pc = "rebind"]
                 ELSE NoCall)

\* decide_project_candidate_with_policy, under a binding of its own
Rebind(c) ==
    /\ call[c].pc = "rebind"
    /\ Unless(c, policy.granted, [call[c] EXCEPT !.pc = "decide", !.inner = policy.revision])
Decided(i, decision) ==
    LET events == projects[i].decisions
    IN IF events # <<>> /\ events[Len(events)] = decision THEN events
       ELSE Append(events, decision)
Decide(c) ==
    LET i == call[c].id
    IN /\ call[c].pc = "decide" /\ Ends(c)
       /\ projects' = IF Current(call[c].inner) /\ Shows(i)
                      THEN [projects EXCEPT ![i].decisions = Decided(i, call[c].decision)]
                      ELSE projects
       /\ UNCHANGED <<published, policy>>

ProjectsNext ==
    \/ \E manifest \in [Roots -> Folders] : Publish(manifest)
    \/ \E r \in Roots : ExcludeFolder(r) \/ \E marker \in Markers : Exclude(r, marker)
    \/ Revoke
    \/ \E c \in Callers :
         \/ \E r \in Roots : Propose(c, r)
         \/ Discover(c)
         \/ \E i \in DOMAIN projects, decision \in {"none", "accepted", "rejected"} :
               Ask(c, i, decision)
         \/ ReadMarkers(c) \/ ReadTime(c) \/ RereadMarkers(c) \/ RereadTime(c)
         \/ Record(c) \/ Show(c) \/ Rebind(c) \/ Decide(c)

ProjectsSpec == ProjectsInit /\ [][ProjectsNext]_projectVars

-----------------------------------------------------------------------------
(* Properties. *)

\* Everything has its type, and a root has one project at most.
ProjectsTypeOK ==
    /\ published \in Seq([Roots -> Folders]) /\ Now <= MaxScans
    /\ policy \in [revision : 1 .. MaxRevision, granted : BOOLEAN]
    /\ \A i, j \in DOMAIN projects : projects[i].root = projects[j].root => i = j
    /\ \A i \in DOMAIN projects : projects[i].suggestions # {}

\* The signals of a suggestion are the markers that its folder had in the manifest of the very
\* scan it names, whatever was scanned and excluded between the queries of the call; so what a
\* detail calls current evidence is that of the latest scan.
SignalsAreOfTheirScan ==
    \A i \in DOMAIN projects : \A s \in projects[i].suggestions :
        /\ Suggests(s.markers)
        /\ s.markers = published[s.at][projects[i].root].markers
=============================================================================
