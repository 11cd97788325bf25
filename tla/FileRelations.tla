---------------------------- MODULE FileRelations ----------------------------
(* Exact duplicates and numbered versions of files, what people decide about *)
(* them, and cleanup plans made from them (crates/projects/src/lib.rs and the *)
(* relations of crates/database/src/lib.rs).  A service call looks at the    *)
(* files, takes the time, and then makes its transactions one by one; others  *)
(* run in between.  The policy and its fence are ScopeFence.                 *)
EXTENDS Naturals, Sequences, FiniteSets, FiniteSetsExt, SequencesExt

CONSTANTS
    Files,          \* file identities
    Placed,          \* paths in one folder tree -> the file first there
    Number,         \* path -> the version number in its name; all share base and extension
    NoFile,
    Callers,        \* processes that call the service
    Kinds,          \* subset of {"duplicate", "version"}
    MaxObservations, MaxDecisions, MaxPlans, MaxTime, MaxChanges

Places == DOMAIN Placed

VARIABLES
    disk,           \* path -> file
    written,        \* file -> what metadata and bytes say of it
    located,        \* locations: path -> the last file seen there, and is it present
    known,          \* files: file -> metadata
    clock,          \* the last reading of the wall clock
    observations,   \* file_relation_observations and file_version_observations, in order of id
    decisions,      \* feedback events, in order of sequence
    plans,          \* cleanup_action_plans
    call,           \* the service call of each process
    changed         \* how often files were moved or written

relationVars == <<disk, written, located, known, clock, observations, decisions, plans, call,
                  changed>>
worldVars == <<disk, written, located, known, changed>>
tableVars == <<observations, decisions, plans>>

NoCall == [pc |-> "idle", kind |-> "none", places |-> <<>>, files |-> <<>>, meta |-> <<0, 0>>,
           digests |-> <<>>, at |-> 0, decision |-> "none", since |-> 0]

RelationsInit ==
    /\ disk = Placed
    /\ written = [f \in Files |-> [meta |-> 0, bytes |-> 0]]
    /\ located = [p \in Places |-> [file |-> disk[p], present |-> disk[p] # NoFile]]
    /\ known = [f \in Files |-> 0]
    /\ clock = 0
    /\ observations = <<>> /\ decisions = <<>> /\ plans = {}
    /\ call = [x \in Callers |-> NoCall] /\ changed = 0

-----------------------------------------------------------------------------
(* Reading relations. *)

FileAt(p) == located[p].file
Present(p, f) == located[p] = [file |-> f, present |-> TRUE]

Ids(kind, pair) == {i \in DOMAIN observations :
                      observations[i].kind = kind /\ observations[i].pair = pair}
\* Slip: of two observations in one millisecond, the first counts.
NotBefore(i, j) == observations[i].at > observations[j].at
                       \/ (observations[i].at = observations[j].at /\ i <= j)
\* ORDER BY observed_at_unix_ms DESC, id DESC
NotAfter(i, j) == observations[i].at > observations[j].at
                      \/ (observations[i].at = observations[j].at /\ i >= j)
Latest(kind, pair) == CHOOSE i \in Ids(kind, pair) : \A j \in Ids(kind, pair) : NotAfter(i, j)

\* The files that are now where an observation was made.
Ends(i) == <<FileAt(observations[i].places[1]), FileAt(observations[i].places[2])>>

\* The joins of file_relation_candidate and of file_version_candidate_from_connection: a version
\* observation names locations only, and its pair is the two files that are there now.
Readable(i) ==
    LET o == observations[i]
    IN /\ IF o.kind = "duplicate" THEN Ends(i) = o.files ELSE ToSet(Ends(i)) = o.pair
       /\ \A n \in 1..2 : located[o.places[n]].present /\ known[Ends(i)[n]] = o.meta[n]

\* latest_equivalent_file_version_decision: the ends of the decided observation, where they are
\* located now.
Equivalent(i, j) ==
    /\ Ends(i) = Ends(j)
    /\ \A n \in 1..2 : Number[observations[i].places[n]] = Number[observations[j].places[n]]
Applies(d, i) ==
    /\ decisions[d].kind = observations[i].kind /\ decisions[d].pair = observations[i].pair
    /\ decisions[d].kind = "version" => Equivalent(decisions[d].evidence, i)
Applying(i) == {d \in DOMAIN decisions : Applies(d, i)}
State(i) == IF Applying(i) = {} THEN "suggested" ELSE decisions[Max(Applying(i))].decision

-----------------------------------------------------------------------------
(* The file system and the scanner. *)

Move(p, q) ==
    /\ changed < MaxChanges /\ changed' = changed + 1
    /\ disk[p] # NoFile /\ disk[q] = NoFile
    /\ disk' = [disk EXCEPT ![p] = NoFile, ![q] = disk[p]]
    /\ UNCHANGED <<written, located, known, clock, tableVars, call>>

\* A write may leave size and time as they were.
Write(f, quiet) ==
    /\ changed < MaxChanges /\ changed' = changed + 1
    /\ written' = [written EXCEPT ![f].bytes = 1,
                                  ![f].meta = IF quiet THEN @ ELSE @ + 1]
    /\ UNCHANGED <<disk, located, known, clock, tableVars, call>>

\* upsert_observation: the row of a path takes the file that is there; a row that nothing was
\* seen for keeps its file and is no longer present.
Publish ==
    /\ located' = [p \in Places |->
                     IF disk[p] = NoFile THEN [located[p] EXCEPT !.present = FALSE]
                     ELSE [file |-> disk[p], present |-> TRUE]]
    /\ known' = [f \in Files |-> written[f].meta]
    /\ UNCHANGED <<disk, written, clock, tableVars, call, changed>>

-----------------------------------------------------------------------------
(* Service calls. *)

At(x, pc) == call[x].pc = pc
Leaves(x) == call' = [call EXCEPT ![x] = NoCall]

\* open_relation_source: what the path holds is what the manifest says.
Opens(p) == /\ located[p].present /\ disk[p] = FileAt(p)
            /\ written[disk[p]].meta = known[disk[p]]
\* compare_and_record, analyze_and_record_file_version
Related(kind, p, q) ==
    /\ Opens(p) /\ Opens(q) /\ FileAt(p) # FileAt(q)
    /\ IF kind = "duplicate" THEN written[disk[p]].bytes = written[disk[q]].bytes
       ELSE Number[p] < Number[q]
Opened(kind, p, q) == [NoCall EXCEPT !.kind = kind, !.places = <<p, q>>,
                                     !.files = <<FileAt(p), FileAt(q)>>,
                                     !.meta = <<known[FileAt(p)], known[FileAt(q)]>>,
                                     !.since = Len(observations)]
Pair(x) == ToSet(call[x].files)

\* check_exact_duplicate, suggest_file_version
Check(x, kind, p, q) ==
    /\ At(x, "idle") /\ Len(observations) < MaxObservations
    /\ Related(kind, p, q)
    /\ call' = [call EXCEPT ![x] = [Opened(kind, p, q) EXCEPT !.pc = "opened"]]
    /\ UNCHANGED <<worldVars, clock, tableVars>>

\* decide_exact_duplicate and decide_file_version begin with the verification of the pair.
Verify(x, kind, p, q, decision) ==
    /\ At(x, "idle") /\ Len(observations) < MaxObservations
    /\ Len(decisions) < MaxDecisions
    /\ located[p].present /\ located[q].present
    /\ Ids(kind, {FileAt(p), FileAt(q)}) # {}
    /\ Related(kind, p, q)
    /\ call' = [call EXCEPT ![x] = [Opened(kind, p, q) EXCEPT !.pc = "opened",
                                                              !.decision = decision]]
    /\ UNCHANGED <<worldVars, clock, tableVars>>

\* unix_ms, before the transaction: any time, but none before an earlier reading.
TakeTime(x, now) ==
    /\ At(x, "opened") /\ now >= clock
    /\ clock' = now
    /\ call' = [call EXCEPT ![x].pc = "timed", ![x].at = now]
    /\ UNCHANGED <<worldVars, tableVars>>

\* relation_snapshot_matches
Matches(x) ==
    \A n \in 1..2 : /\ Present(call[x].places[n], call[x].files[n])
                    /\ known[call[x].files[n]] = call[x].meta[n]

\* record_exact_duplicate_candidate_with_policy, record_file_version_candidate_with_policy
Record(x) ==
    LET c == call[x]
    IN /\ At(x, "timed")
       /\ IF Matches(x) /\ Len(observations) < MaxObservations
          THEN /\ observations' = Append(observations,
                    [kind |-> c.kind, pair |-> Pair(x), places |-> c.places,
                     files |-> c.files, meta |-> c.meta, at |-> c.at])
               /\ IF c.decision = "none" THEN Leaves(x)
                  ELSE call' = [call EXCEPT ![x].pc = "decide"]
          ELSE Leaves(x) /\ UNCHANGED observations
       /\ UNCHANGED <<worldVars, clock, decisions, plans>>

\* decide_file_relation_candidate_with_policy, decide_file_version_candidate_with_policy: about
\* the latest observation of the pair, whoever recorded it; the same decision twice is one.
Decide(x) ==
    LET c == call[x]
        i == Latest(c.kind, Pair(x))
    IN /\ At(x, "decide")
       /\ IF Readable(i) /\ State(i) # c.decision
             /\ Len(decisions) < MaxDecisions
          THEN decisions' = Append(decisions,
                   [kind |-> c.kind, pair |-> Pair(x), decision |-> c.decision,
                    evidence |-> i, judged |-> Ends(i), since |-> c.since])
          ELSE UNCHANGED decisions
       /\ Leaves(x)
       /\ UNCHANGED <<worldVars, clock, observations, plans>>

\* cleanup_selection_snapshot: the latest observation of its pair, current and undecided, and
\* the selected target and keeper its two files; of versions the target is the older one.
Selectable(i, selected) ==
    LET o == observations[i]
    IN /\ i = Latest(o.kind, o.pair) /\ State(i) = "suggested" /\ Readable(i)
       /\ o.kind = "version" => selected = Ends(i)

\* Bound: plans, those in the making included.
Planned == Cardinality(plans)
           + Cardinality({x \in Callers : call[x].pc \in {"bind", "hash", "again", "plan"}})
\* cleanup_action_sources: target and keeper, where the observation has them
BeginPlan(x, i, selected) ==
    LET o == observations[i]
    IN /\ At(x, "idle") /\ Planned < MaxPlans
       /\ ToSet(selected) = o.pair /\ Selectable(i, selected)
       /\ call' = [call EXCEPT ![x] =
            [NoCall EXCEPT !.pc = "bind", !.kind = o.kind, !.files = selected, !.at = i,
                !.places = IF selected = Ends(i) THEN o.places ELSE Reverse(o.places),
                !.meta = IF selected = Ends(i) THEN o.meta ELSE Reverse(o.meta)]]
       /\ UNCHANGED <<worldVars, clock, tableVars>>

\* The files are opened, compared and hashed outside the transaction, and may change meanwhile.
GoesIf(x, condition, pc) ==
    /\ IF condition THEN call' = [call EXCEPT ![x].pc = pc] ELSE Leaves(x)
    /\ UNCHANGED <<worldVars, clock, tableVars>>
Unwritten(x) == \A n \in 1..2 : written[call[x].files[n]].meta = call[x].meta[n]
\* compare_open_files_exact
SameBytes(x) ==
    call[x].kind = "duplicate" =>
        written[call[x].files[1]].bytes = written[call[x].files[2]].bytes
BindFiles(x) ==
    /\ At(x, "bind")
    /\ GoesIf(x, /\ Unwritten(x) /\ SameBytes(x)
                 /\ \A n \in 1..2 : disk[call[x].places[n]] = call[x].files[n], "hash")
HashFiles(x) ==
    /\ At(x, "hash")
    /\ call' = [call EXCEPT ![x].pc = "again",
                           ![x].digests = [n \in 1..2 |-> written[call[x].files[n]].bytes]]
    /\ UNCHANGED <<worldVars, clock, tableVars>>
\* validate_cleanup_final_hashes
SameDigests(x) == call[x].kind = "duplicate" => call[x].digests[1] = call[x].digests[2]
\* create_cleanup_live_binding: the open files are looked at again; on Unix their entries too.
Revalidate(x) == At(x, "again") /\ GoesIf(x, Unwritten(x) /\ SameDigests(x), "plan")

\* Slip: the selection is only read again.
StillReadable(x) == Readable(call[x].at)
StillSelectable(x) == Selectable(call[x].at, call[x].files)
\* validate_cleanup_action_plan_write
PlanIsValid(x) == call[x].files[1] # call[x].files[2] /\ SameDigests(x)
\* create_cleanup_action_plan_with_policy
InsertPlan(x) ==
    /\ At(x, "plan")
    /\ plans' = IF PlanIsValid(x) /\ StillSelectable(x)
                 THEN plans \cup {[evidence |-> call[x].at, target |-> call[x].files[1],
                                  keeper |-> call[x].files[2], decided |-> Len(decisions)]}
                 ELSE plans
    /\ Leaves(x)
    /\ UNCHANGED <<worldVars, clock, observations, decisions>>

-----------------------------------------------------------------------------
RelationsNext ==
    \/ \E p, q \in Places : Move(p, q)
    \/ \E f \in Files, quiet \in BOOLEAN : Write(f, quiet)
    \/ Publish
    \/ \E x \in Callers :
         \/ \E kind \in Kinds, p, q \in Places :
              \/ Check(x, kind, p, q)
              \/ \E decision \in {"accepted", "rejected"} : Verify(x, kind, p, q, decision)
         \/ \E now \in 0..MaxTime : TakeTime(x, now)
         \/ Record(x) \/ Decide(x)
         \/ BindFiles(x) \/ HashFiles(x) \/ Revalidate(x) \/ InsertPlan(x)
         \/ \E i \in DOMAIN observations, f, g \in Files : BeginPlan(x, i, <<f, g>>)

RelationsSpec == RelationsInit /\ [][RelationsNext]_relationVars

-----------------------------------------------------------------------------
(* Properties. *)

RelationsTypeOK ==
    /\ disk \in [Places -> Files \cup {NoFile}]
    /\ \A i \in DOMAIN observations :
         observations[i].pair \subseteq Files /\ Cardinality(observations[i].pair) = 2
    /\ \A d \in DOMAIN decisions : decisions[d].evidence \in DOMAIN observations
    /\ \A p \in plans : {p.target, p.keeper} = observations[p.evidence].pair

\* Whatever others record meanwhile, a decision is bound to an observation made after its call
\* began, never to one that was verified earlier (ADR-021, ADR-023).
DecisionIsFresh == \A d \in DOMAIN decisions : decisions[d].evidence > decisions[d].since

\* A cleanup plan of duplicates comes from a pair about which nobody had decided when the plan
\* was written, and keeps the other file of the pair.
PlanIsUndecided ==
    \A p \in plans :
        /\ p.target # p.keeper
        /\ observations[p.evidence].kind = "duplicate" =>
             \A d \in 1..p.decided : ~(/\ decisions[d].kind = "duplicate"
                                       /\ decisions[d].pair = {p.target, p.keeper})

\* A version is shown as decided only if somebody decided about these two files in this order
\* (ADR-023: a rename that changes direction cannot inherit a stale decision).
DirectionIsNotInherited ==
    \A i \in DOMAIN observations :
        LET o == observations[i]
        IN (o.kind = "version" /\ i = Latest(o.kind, o.pair) /\ Readable(i)
                /\ State(i) # "suggested") =>
             \E d \in DOMAIN decisions :
                 /\ decisions[d].kind = "version" /\ decisions[d].decision = State(i)
                 /\ decisions[d].judged = Ends(i)
=============================================================================
