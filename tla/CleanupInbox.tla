----------------------------- MODULE CleanupInbox -----------------------------
(* Screenshots that are suggested for review together, the inbox over every   *)
(* source of cleanup evidence, and the detail and the plan that a user asks   *)
(* for (crates/database/src/lib.rs, crates/projects/src/lib.rs and            *)
(* crates/transactions/src/lib.rs).  The evidence of an image is a snapshot   *)
(* of its row: the time of its file and the image metadata and OCR job that   *)
(* were extracted at that time.  Duplicates and versions are sources whose    *)
(* verification FileRelations models; here it has one of its outcomes.  One   *)
(* scope, one location for each image.                                        *)
EXTENDS Integers, Sequences, FiniteSets, FiniteSetsExt, SequencesExt

CONSTANTS
    Images,         \* node ids
    Shape,          \* image -> its width and height
    Relations,      \* how many relations are recorded and not decided
    Window,         \* SCREENSHOT_GROUP_TIME_WINDOW_NS
    MaxImages, MaxGroups, MaxMembers,   \* MAX_SCREENSHOT_...
    InboxLimit,     \* MAX_SMART_CLEANUP_SOURCES
    Clients,
    MaxTime,        \* the time of an edit
    MaxEdits,       \* bound: edited files
    MaxPlans,       \* bound: plans
    MaxProofs,      \* bound: extractions
    MaxPolicies     \* bound: policy revisions

VARIABLES
    disk,           \* image -> modification time of its file
    known,          \* image -> present, time, and what was extracted at that time (0: nothing)
    proofs,         \* ids of image_metadata and of completed OCR jobs, given out
    access,         \* revision of the policy, and is access granted?
    observations,   \* screenshot_group_observations: id -> evidence
    plans,          \* cleanup_action_plans made of a screenshot
    service,        \* the call of each process
    shown           \* history: what was answered last

cleanupVars == <<disk, known, proofs, access, observations, plans, service, shown>>
worldVars == <<disk, known, proofs, access>>

NoService == [pc |-> "idle", op |-> "none", revision |-> 0, source |-> 0, target |-> 0,
              keeper |-> 0, todo |-> <<>>, images |-> {}, items |-> 0, lost |-> 0, listed |-> 0,
              complete |-> TRUE]

-----------------------------------------------------------------------------
(* Grouping. *)

\* screenshot_group_source_matches: metadata and OCR output of the file as its row has it
HasProof(i) == known[i].present /\ known[i].proof # 0
\* screenshot_group_sources_from_connection: in order of shape, time and id
Eligible == {i \in Images : HasProof(i)}
Before(i, j) ==
    IF Shape[i] # Shape[j] THEN Shape[i] < Shape[j]
    ELSE IF known[i].time # known[j].time THEN known[i].time < known[j].time ELSE i < j
Sources ==
    CHOOSE s \in [1 .. Cardinality(Eligible) -> Eligible] :
      \A m, n \in DOMAIN s : m < n => Before(s[m], s[n])

\* Slip: an image is compared with the last one of the group.
BelongsToLast(group, i) ==
    LET last == group[Len(group)]
    IN Shape[i] = Shape[last] /\ known[i].time - known[last].time <= Window
Belongs(group, i) ==
    Shape[i] = Shape[group[1]] /\ known[i].time - known[group[1]].time <= Window
Placed(groups, i) ==
    IF groups # <<>> /\ Belongs(groups[Len(groups)], i)
    THEN [groups EXCEPT ![Len(groups)] = Append(@, i)] ELSE Append(groups, <<i>>)
\* group_screenshot_sources
AllGroups ==
    LET s == Sources
        cut[n \in 0 .. Len(s)] == IF n = 0 THEN <<>> ELSE Placed(cut[n - 1], s[n])
    IN cut[Len(s)]
Groups ==
    LET all == AllGroups
    IN {ToSet(all[n]) : n \in {m \in DOMAIN all : Len(all[m]) >= 2}}
\* Exceeding any bound fails the evaluation as a whole.
WithinBounds ==
    /\ Cardinality(Eligible) <= MaxImages /\ Cardinality(Groups) <= MaxGroups
    /\ LET all == AllGroups IN \A n \in DOMAIN all : Len(all[n]) <= MaxMembers

\* screenshot_group_evidence_key
Evidence(members) == [i \in members |-> known[i]]
CurrentEvidence == {Evidence(members) : members \in Groups}
Members(o) == DOMAIN observations[o]
\* screenshot_group_membership_key: a group is its members, whatever was observed of them
SameGroup(o, q) == Members(o) = Members(q)

\* screenshot_group_observation_for_evidence: the members' rows are those that were observed.
Matches(o) == \A i \in Members(o) : known[i] = observations[o][i]
\* screenshot_group_candidate, screenshot_group_candidate_summary: the group has these members
\* now, and their evidence was observed.
ShowsGroup(o) ==
    /\ access.granted /\ o \in DOMAIN observations /\ Matches(o)
    /\ WithinBounds /\ Members(o) \in Groups

CleanupInit ==
    /\ disk = [i \in Images |-> i]
    /\ known = [i \in Images |-> [present |-> TRUE, time |-> i, proof |-> i]]
    /\ proofs = Cardinality(Images)
    /\ access = [revision |-> 1, granted |-> TRUE]
    /\ observations = [o \in {} |-> [i \in {} |-> 0]] /\ plans = {}
    /\ service = [c \in Clients |-> NoService]
    /\ shown = {}

-----------------------------------------------------------------------------
(* Files, scans, extractions and the policy. *)

Edit(i) ==
    /\ disk[i] < MaxTime /\ Cardinality({j \in Images : disk[j] = MaxTime}) < MaxEdits
    /\ disk' = [disk EXCEPT ![i] = MaxTime]
    /\ UNCHANGED <<known, proofs, access, observations, plans, service, shown>>
\* A scan or a watch delta takes the time of the file and drops what was extracted before.
Observe(i) ==
    /\ known[i].present /\ known[i].time # disk[i]
    /\ known' = [known EXCEPT ![i].time = disk[i], ![i].proof = 0]
    /\ UNCHANGED <<disk, proofs, access, observations, plans, service, shown>>
Extract(i) ==
    /\ known[i].present /\ known[i].time = disk[i] /\ proofs < MaxProofs
    /\ proofs' = proofs + 1
    /\ known' = [known EXCEPT ![i].proof = proofs']
    /\ UNCHANGED <<disk, access, observations, plans, service, shown>>

\* The groups of an excluded image are purged with their plans, once nobody holds the fence of
\* the scope shared, as create_cleanup_preview does.
Withdraw(gone, granted) ==
    /\ access.granted /\ access.revision < MaxPolicies
    /\ \A c \in Clients : service[c].op # "plan"
    /\ access' = [revision |-> access.revision + 1, granted |-> granted]
    /\ known' = [i \in Images |-> IF i \in gone THEN [present |-> FALSE, time |-> 0, proof |-> 0]
                                  ELSE known[i]]
    /\ observations' = [o \in {q \in DOMAIN observations : Members(q) \cap gone = {}} |->
                          observations[o]]
    /\ plans' = {p \in plans : DOMAIN p.evidence \cap gone = {}}
    /\ UNCHANGED <<disk, proofs, service, shown>>
ExcludeImage(i) == known[i].present /\ Withdraw({i}, TRUE)
RevokeAccess == Withdraw(Images, FALSE)

-----------------------------------------------------------------------------
(* Service calls. *)

Go(c, next) == service' = [service EXCEPT ![c] = next]
Finishes(c) == service' = [service EXCEPT ![c] = NoService]
At(c, op, pc) == service[c].op = op /\ service[c].pc = pc
StillBound(c) == access.granted /\ access.revision = service[c].revision
Reads == UNCHANGED <<worldVars, observations, plans, shown>>

Begin(c, op) ==
    /\ service[c].pc = "idle" /\ access.granted
    /\ Go(c, [NoService EXCEPT !.pc = "bound", !.op = op, !.revision = access.revision])
    /\ Reads

\* discover_screenshot_group_candidates_with_policy: sources, groups, their validation and all
\* writes are one transaction, of any process; it does nothing if the policy has changed since
\* its binding.  Evidence that was observed before is not observed again.
NewEvidence == {e \in CurrentEvidence : \A o \in DOMAIN observations : observations[o] # e}
\* INTEGER PRIMARY KEY: above the greatest id that is left
FirstFree == IF DOMAIN observations = {} THEN 1 ELSE Max(DOMAIN observations) + 1
DiscoverGroups ==
    LET new == SetToSeq(NewEvidence)
        ids == FirstFree .. FirstFree + Len(new) - 1
    IN /\ access.granted /\ WithinBounds /\ new # <<>>
       /\ observations' = [o \in DOMAIN observations \cup ids |->
                             IF o \in ids THEN new[o - FirstFree + 1] ELSE observations[o]]
       /\ UNCHANGED <<worldVars, plans, service, shown>>

\* smart_cleanup_source_references: the newest, up to a limit; a group is listed once
Recorded == {o \in DOMAIN observations :
               \A q \in DOMAIN observations : SameGroup(q, o) => q <= o}
List(c) ==
    LET sources == {[relation |-> FALSE, id |-> o] : o \in Recorded}
                     \cup {[relation |-> TRUE, id |-> r] : r \in 1 .. Relations}
    IN /\ At(c, "refresh", "bound")
       /\ \E listed \in SUBSET sources :
            /\ Cardinality(listed) = Min({Cardinality(sources), InboxLimit})
            /\ Go(c, [service[c] EXCEPT !.pc = "items", !.todo = SetToSeq(listed),
                                        !.listed = Cardinality(sources),
                                        !.complete = Cardinality(sources) <= InboxLimit])
       /\ Reads

\* The group is looked up as it is now, perhaps with a later observation.
ShownNow(members) == \E o \in DOMAIN observations : Members(o) = members /\ ShowsGroup(o)
\* Slip: a source that could not be evaluated is passed over.
PassedOver(c) == service[c].complete
AfterFailure(c) == FALSE
Taken(c, images, items, lost, complete) ==
    Go(c, [service[c] EXCEPT !.todo = Tail(@), !.images = @ \cup images,
                             !.items = @ + items, !.lost = @ + lost, !.complete = complete])
Evaluate(c) ==
    LET source == Head(service[c].todo)
        complete == service[c].complete
    IN /\ At(c, "refresh", "items") /\ service[c].todo # <<>>
       /\ \/ /\ StillBound(c) /\ source.relation
             /\ \/ Taken(c, {}, 1, 0, complete) \/ Taken(c, {}, 0, 1, complete)
                \/ Taken(c, {}, 0, 0, AfterFailure(c))
          \/ /\ StillBound(c) /\ ~source.relation /\ WithinBounds
             /\ source.id \in DOMAIN observations
             /\ IF ShownNow(Members(source.id))
                THEN Taken(c, Members(source.id), 1, 0, complete)
                ELSE Taken(c, {}, 0, 1, complete)
          \/ /\ source.relation \/ ~StillBound(c) \/ ~WithinBounds
                  \/ source.id \notin DOMAIN observations
             /\ Finishes(c)
       /\ Reads

\* Slip: the policy is not compared once more before an answer.
AnswersAnyway(c) == TRUE
StillAnswers(c) == StillBound(c)
Answer(c) ==
    /\ At(c, "detail", "answer") \/ (At(c, "refresh", "items") /\ service[c].todo = <<>>)
    /\ shown' = IF ~StillAnswers(c) THEN shown
                ELSE {[permitted |-> \A i \in service[c].images : known[i].present,
                       whole |-> service[c].complete =>
                                   service[c].items + service[c].lost = service[c].listed]}
    /\ Finishes(c)
    /\ UNCHANGED <<worldVars, observations, plans>>

\* cleanup_source_detail: the observation is current before and after the paths are read.
Choose(c, o) ==
    /\ At(c, "detail", "bound")
    /\ IF ShowsGroup(o) THEN Go(c, [service[c] EXCEPT !.pc = "read", !.source = o]) ELSE Finishes(c)
    /\ Reads
Reveal(c) ==
    LET o == service[c].source
    IN /\ At(c, "detail", "read")
       /\ IF o \in DOMAIN observations /\ ShownNow(Members(o))
          THEN Go(c, [service[c] EXCEPT !.pc = "again", !.images = Members(o)]) ELSE Finishes(c)
       /\ Reads
Confirm(c) ==
    /\ At(c, "detail", "again")
    /\ IF ShowsGroup(service[c].source)
       THEN Go(c, [service[c] EXCEPT !.pc = "answer"]) ELSE Finishes(c)
    /\ Reads

\* cleanup_selection_snapshot: a member of the group as it is now, and perhaps another one to
\* keep (0: none)
Selectable(o, target, keeper) ==
    ShowsGroup(o) /\ target # keeper /\ {target, keeper} \ {0} \subseteq Members(o)
\* create_cleanup_preview: the selection is read, under the fence of the scope.
Select(c, o, target, keeper) ==
    /\ At(c, "plan", "bound") /\ Cardinality(plans) < MaxPlans
    /\ IF Selectable(o, target, keeper)
       THEN Go(c, [service[c] EXCEPT !.pc = "hash", !.source = o,
                                     !.target = target, !.keeper = keeper])
       ELSE Finishes(c)
    /\ Reads
\* bind_action_file, cleanup_peer_path: what is on the disk is still what the rows said.
Unmoved(i, o) == o \in DOMAIN observations /\ disk[i] = observations[o][i].time
\* create_cleanup_live_binding: the files are hashed, and then looked at again.
Hash(c) ==
    /\ At(c, "plan", "hash")
    /\ IF \A i \in {service[c].target, service[c].keeper} \ {0} : Unmoved(i, service[c].source)
       THEN Go(c, [service[c] EXCEPT !.pc = "insert"]) ELSE Finishes(c)
    /\ Reads
\* Slip: what was selected is not looked up again.
OnceSelected(c) == service[c].source \in DOMAIN observations
StillSelected(c) == Selectable(service[c].source, service[c].target, service[c].keeper)
\* What the row of a plan says of its source, and the rows of the images as it is written.
PlanOf(c) == [target |-> service[c].target, keeper |-> service[c].keeper,
              evidence |-> observations[service[c].source],
              rows |-> Evidence(Members(service[c].source))]
\* create_cleanup_action_plan_with_policy
Insert(c) ==
    /\ At(c, "plan", "insert")
    /\ plans' = IF StillSelected(c) THEN plans \cup {PlanOf(c)} ELSE plans
    /\ Finishes(c)
    /\ UNCHANGED <<worldVars, observations, shown>>

CleanupNext ==
    \/ \E i \in Images : Edit(i) \/ Observe(i) \/ Extract(i) \/ ExcludeImage(i)
    \/ RevokeAccess \/ DiscoverGroups
    \/ \E c \in Clients :
         \/ \E op \in {"refresh", "detail", "plan"} : Begin(c, op)
         \/ List(c) \/ Evaluate(c) \/ Answer(c) \/ Reveal(c) \/ Confirm(c)
         \/ Hash(c) \/ Insert(c)
         \/ \E o \in DOMAIN observations :
              \/ Choose(c, o)
              \/ \E target \in Images, keeper \in Images \cup {0} : Select(c, o, target, keeper)

CleanupSpec == CleanupInit /\ [][CleanupNext]_cleanupVars

-----------------------------------------------------------------------------
(* Properties. *)

CleanupTypeOK ==
    /\ disk \in [Images -> 0 .. MaxTime]
    /\ known \in [Images -> [present : BOOLEAN, time : 0 .. MaxTime, proof : 0 .. MaxProofs]]
    /\ \A o \in DOMAIN observations :
         Members(o) \subseteq Images /\ Cardinality(Members(o)) \in 2 .. MaxMembers
    /\ \A p \in plans : p.target \in DOMAIN p.evidence

\* Nothing is observed twice, and a group spans no more than the window from its first member;
\* it leaves out no image that its first member would take in (ADR-028).
GroupsAreExact ==
    /\ \A o, q \in DOMAIN observations : observations[q] = observations[o] => q = o
    /\ \A e \in CurrentEvidence \cup {observations[o] : o \in DOMAIN observations} :
         \A i, j \in DOMAIN e : Shape[i] = Shape[j] /\ e[j].time - e[i].time <= Window
    /\ \A members \in Groups : \A j \in Eligible \ members :
         ~ \A i \in members : /\ Shape[i] = Shape[j] /\ Before(i, j)
                             /\ known[j].time - known[i].time <= Window

\* A plan is made of evidence that stood when the plan was written (ADR-030).
PlanOfCurrentEvidence == \A p \in plans : p.evidence = p.rows

\* What an answer shows was not excluded before it was given, and an inbox that calls itself
\* complete has accounted for every source (ADR-029).
AnswersArePermitted == \A a \in shown : a.permitted /\ a.whole
=============================================================================
