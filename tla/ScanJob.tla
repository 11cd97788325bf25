------------------------------- MODULE ScanJob -------------------------------
(***************************************************************************)
(* Durable, resumable scan jobs of one authorised scope.                   *)
(*                                                                         *)
(* The scan_jobs, scan_queue and scan_staged_observations tables are       *)
(* shared by every process that opens the database (desktop, command line, *)
(* watcher).  Each method of ManifestDatabase is one SQLite transaction    *)
(* and one action here; what a runner remembers between two calls is       *)
(* local to that runner.  Runners, users who pause and resume, the clock   *)
(* that expires leases, policy changes and the file system interleave      *)
(* between calls.                                                          *)
(***************************************************************************)
EXTENDS Integers, FiniteSets

CONSTANTS
    Paths,          \* path keys below the scope root, the root included
    Root,           \* the scope root
    Parent,         \* parent folder of every path but the root
    Versions,       \* states of a present path that an observation tells apart
    Absent,         \* no such path, or no row for it
    NumJobs,        \* bound: scan_jobs rows ever inserted
    Runners,        \* threads and processes that run batches
    NoRunner,       \* runner_token IS NULL
    Orphan,         \* the token of a batch that is over
    LeaseTicks,     \* RUNNER_LEASE_MS in clock ticks
    BatchSize,      \* queue entries one batch may process
    MaxRevision,    \* bound: policy revisions
    MaxChanges,     \* bound: file system changes
    MaxFaults       \* bound: crashes, busy errors, read errors, lapsed grants

Jobs == 1 .. NumJobs

ASSUME RunnersAssumption == NoRunner \notin Runners /\ Orphan \notin Runners /\ NoRunner # Orphan
ASSUME VersionsAssumption == Absent \notin Versions
ASSUME BoundsAssumption ==
    /\ NumJobs \in Nat /\ LeaseTicks \in Nat \ {0} /\ BatchSize \in Nat \ {0}
    /\ MaxRevision \in Nat \ {0} /\ MaxChanges \in Nat /\ MaxFaults \in Nat
\* Every path hangs below the root: a set that holds the root and, with a
\* folder, all its entries is the whole tree.
ASSUME TreeAssumption ==
    /\ Root \in Paths
    /\ Parent \in [Paths \ {Root} -> Paths]
    /\ \A S \in SUBSET Paths :
          (Root \in S /\ \A p \in Paths \ {Root} : Parent[p] \in S => p \in S) => S = Paths

VARIABLES
    disk,       \* the file system: Paths -> Versions \cup {Absent}
    policy,     \* [revision, grant, excluded]: authorized_scopes, grants, exclusions
    job,        \* scan_jobs rows
    queue,      \* scan_queue: [Jobs -> [Paths -> state]]
    staged,     \* scan_staged_observations: [Jobs -> [Paths -> observation]]
    manifest,   \* rows of locations with present = 1, with what they say
    runner,     \* what each runner's call stack holds between transactions
    seen,       \* history: observations that were true since the job began
    steady,     \* history: paths present, and listed, since the job began
    changes,    \* bound: number of file system changes so far
    faults      \* bound: number of faults so far

durable == <<policy, job, queue, staged, manifest>>
history == <<seen, steady>>
bounds == <<changes, faults>>
vars == <<disk, policy, job, queue, staged, manifest, runner, seen, steady, changes, faults>>

-----------------------------------------------------------------------------
(* The tree and the policy *)

Trees == [Paths -> Versions \cup {Absent}]
OnDisk(d) == {p \in Paths : d[p] # Absent}
Children(p) == {c \in Paths \ {Root} : Parent[c] = p}

\* p and everything below it: canonical_descendant_of.
Below(p) ==
    {q \in Paths : \A S \in SUBSET Paths :
        (p \in S /\ \A c \in Paths \ {Root} : Parent[c] \in S => c \in S) => q \in S}

Excluded(pol) == UNION {Below(p) : p \in pol.excluded}

\* scope_policy_binding_is_current, for a batch that holds the read fence:
\* the fence keeps the revision, nothing keeps the grant.
PolicyCurrent(r) == policy.grant = "active" /\ policy.revision = runner[r].revision

-----------------------------------------------------------------------------
(* scan_jobs rows *)

Statuses == {"none", "running", "completed", "failed", "interrupted"}
Controls == {"ready", "active", "pause_requested", "paused"}
EntryStates == {"absent", "pending", "processing", "done"}

JobRows == [status : Statuses, control : Controls, pauseRequested : BOOLEAN,
            owner : Runners \cup {NoRunner, Orphan}, lease : 0 .. LeaseTicks,
            revision : 0 .. MaxRevision]

NoJob == [status |-> "none", control |-> "ready", pauseRequested |-> FALSE,
          owner |-> NoRunner, lease |-> 0, revision |-> 0]
NoQueue == [p \in Paths |-> "absent"]
NoRows == [p \in Paths |-> Absent]

\* The two statuses that insert_resumable_scan_job calls active.
IsLive(row) == row.status \in {"running", "interrupted"}
Live(j) == IsLive(job[j])

\* ensure_active_runner and ensure_owned_runner: lease > now is lease > 0.
OwnsIn(j, r, controls) ==
    /\ job[j].status = "running"
    /\ job[j].control \in controls
    /\ job[j].owner = r
    /\ job[j].lease > 0
ActiveRunner(j, r) == OwnsIn(j, r, {"active"})
OwnedRunner(j, r) == OwnsIn(j, r, {"active", "pause_requested"})

UnleasedOnly(row) == [row EXCEPT !.lease = 0]
Unowned(row) == [row EXCEPT !.owner = NoRunner, !.lease = 0]
Ended(row, status) ==
    [Unowned(row) EXCEPT !.status = status, !.control = "ready"]
RequeuedNone(q) == q
RequeuedAll(q) == [p \in Paths |-> IF q[p] # "absent" THEN "pending" ELSE q[p]]
RequeuedDone(q) == [p \in Paths |-> IF q[p] = "processing" THEN "done" ELSE q[p]]
Requeued(q) == [p \in Paths |-> IF q[p] = "processing" THEN "pending" ELSE q[p]]
ControlKept(row) == row.control
ReleasedControl(row) == IF row.pauseRequested THEN "paused" ELSE "ready"

-----------------------------------------------------------------------------
(* Runners.  pc is the next database or file system call of the batch; ok   *)
(* says whether the policy assertion in front of that call has passed.      *)

Steps == {"idle", "claim", "poll", "next", "process", "list", "stage", "pause",
          "finalize", "fail", "release"}
Asserted == {"poll", "process", "stage", "pause", "finalize", "release"}

RunnerStates == [pc : Steps, ok : BOOLEAN, job : Jobs \cup {0}, left : 0 .. BatchSize,
                 entry : Paths, observation : Versions \cup {Absent},
                 children : SUBSET Paths, revision : 0 .. MaxRevision]

Idle == [pc |-> "idle", ok |-> FALSE, job |-> 0, left |-> 0, entry |-> Root,
         observation |-> Absent, children |-> {}, revision |-> 0]

InBatch(r) == runner[r].pc # "idle"
Return(r) == runner' = [runner EXCEPT ![r] = Idle]
Goto(r, step) == runner' = [runner EXCEPT ![r] = [@ EXCEPT !.pc = step, !.ok = FALSE]]

\* A batch that is over never uses its token again, and a later batch draws
\* a fresh one: whoever still owns a job by an old token is an orphan.
Abandoned(r) ==
    [j \in Jobs |-> IF job[j].owner = r THEN [job[j] EXCEPT !.owner = Orphan] ELSE job[j]]

\* The batch returns an error without releasing its job.
Abort(r) ==
    /\ Return(r)
    /\ job' = Abandoned(r)

NoFence == \A r \in Runners : ~InBatch(r)

-----------------------------------------------------------------------------
Init ==
    /\ disk \in Trees
    /\ disk[Root] # Absent
    /\ \A p \in OnDisk(disk) \ {Root} : disk[Parent[p]] # Absent
    /\ policy = [revision |-> 1, grant |-> "active", excluded |-> {}]
    /\ job = [j \in Jobs |-> NoJob]
    /\ queue = [j \in Jobs |-> NoQueue]
    /\ staged = [j \in Jobs |-> NoRows]
    /\ manifest = NoRows
    /\ runner = [r \in Runners |-> Idle]
    /\ seen = [j \in Jobs |-> {}]
    /\ steady = [j \in Jobs |-> {}]
    /\ changes = 0
    /\ faults = 0

-----------------------------------------------------------------------------
(* Jobs as their users see them *)

\* create_scan_job_with_active_grant, under the read fence: the next row, with
\* the root queued, unless a job of the scope is running or interrupted.
CreateJob(j) ==
    /\ policy.grant = "active"
    /\ disk[Root] # Absent
    /\ \A k \in Jobs : ~Live(k)
    /\ job[j].status = "none"
    /\ \A k \in Jobs : k < j => job[k].status # "none"
    /\ job' = [job EXCEPT ![j] = [NoJob EXCEPT !.status = "running", !.revision = policy.revision]]
    /\ queue' = [queue EXCEPT ![j] = [NoQueue EXCEPT ![Root] = "pending"]]
    /\ seen' = [seen EXCEPT ![j] = {<<p, disk[p]>> : p \in OnDisk(disk)}]
    /\ steady' = [steady EXCEPT ![j] = OnDisk(disk) \ Excluded(policy)]
    /\ UNCHANGED <<disk, policy, staged, manifest, runner, bounds>>

RequestPause(j) ==
    /\ job[j].status = "running"
    /\ \/ /\ job[j].control = "ready"
          /\ job' = [job EXCEPT ![j] = [@ EXCEPT !.control = "paused", !.pauseRequested = TRUE]]
       \/ /\ job[j].control = "active"
          /\ job' = [job EXCEPT ![j] = [@ EXCEPT !.control = "pause_requested", !.pauseRequested = TRUE]]
    /\ UNCHANGED <<disk, policy, queue, staged, manifest, runner, history, bounds>>

\* Anything but a finished or an active job: also one that a live runner
\* still holds with a pause requested, which loses it when it is resumed.
ResumableAnyStatus(j) == job[j].status # "none" /\ job[j].control # "active"
Resumable(j) == Live(j) /\ job[j].control # "active"
ResumeJob(j) ==
    /\ policy.grant = "active"
    /\ disk[Root] # Absent
    /\ Resumable(j)
    /\ queue' = [queue EXCEPT ![j] = Requeued(@)]
    /\ job' = [job EXCEPT ![j] = [Unowned(@) EXCEPT !.status = "running", !.control = "ready",
                                                    !.pauseRequested = FALSE]]
    /\ UNCHANGED <<disk, policy, staged, manifest, runner, history, bounds>>

ExpiredActive(j) ==
    job[j].status = "running" /\ job[j].control = "active" /\ job[j].lease = 0
Expired(j) ==
    /\ job[j].status = "running"
    /\ job[j].control \in {"active", "pause_requested"}
    /\ job[j].owner # NoRunner
    /\ job[j].lease = 0

\* recover_expired_scan_jobs_at: pause_requested survives, and entries of
\* every interrupted job, not only of those found here, are requeued.
Recovered(j) == IF Expired(j) THEN Ended(job[j], "interrupted") ELSE job[j]
RecoverExpired ==
    /\ job' = [j \in Jobs |-> Recovered(j)]
    /\ queue' = [j \in Jobs |-> IF Recovered(j).status = "interrupted"
                                THEN Requeued(queue[j]) ELSE queue[j]]

\* Every process that opens the database recovers first.
OpenDatabase ==
    /\ \E j \in Jobs : Expired(j)
    /\ RecoverExpired
    /\ UNCHANGED <<disk, policy, staged, manifest, runner, history, bounds>>

-----------------------------------------------------------------------------
(* One batch: run_scan_job_batch_with_active_grant *)

\* Take the read fence, bind the active policy, find the root, and let
\* claim_scan_job recover expired jobs before it looks at this one.
Enter(r, j) ==
    /\ ~InBatch(r)
    /\ policy.grant = "active"
    /\ disk[Root] # Absent
    /\ job[j].status = "running" /\ job[j].control # "paused"
    /\ runner' = [runner EXCEPT ![r] = [Idle EXCEPT !.pc = "claim", !.job = j, !.left = BatchSize,
                                                    !.revision = policy.revision]]
    /\ RecoverExpired
    /\ UNCHANGED <<disk, policy, staged, manifest, history, bounds>>

Claim(r) ==
    LET j == runner[r].job IN
    /\ runner[r].pc = "claim"
    /\ \/ /\ job[j].status = "running" /\ job[j].control = "ready"
          /\ job' = [job EXCEPT ![j] = [@ EXCEPT !.control = "active", !.owner = r, !.lease = LeaseTicks]]
          /\ Goto(r, "poll")
       \/ /\ ~(job[j].status = "running" /\ job[j].control = "ready")
          /\ Return(r)
          /\ UNCHANGED job
    /\ UNCHANGED <<disk, policy, queue, staged, manifest, history, bounds>>

\* assert_scan_policy_current in front of the next call.
CheckPolicy(r) ==
    /\ runner[r].pc \in Asserted /\ ~runner[r].ok
    /\ \/ /\ PolicyCurrent(r)
          /\ runner' = [runner EXCEPT ![r] = [@ EXCEPT !.ok = TRUE]]
          /\ UNCHANGED job
       \/ /\ ~PolicyCurrent(r)
          /\ Abort(r)
    /\ UNCHANGED <<disk, policy, queue, staged, manifest, history, bounds>>

Ready(r, step) == runner[r].pc = step /\ (step \in Asserted => runner[r].ok)

PollUnbounded(r) ==
    /\ Ready(r, "poll")
    /\ runner' = [runner EXCEPT ![r] = [@ EXCEPT !.pc = "next", !.ok = FALSE,
                                                 !.left = runner[r].left - 1]]
    /\ UNCHANGED <<disk, durable, history, bounds>>

\* The head of the loop: while the batch has entries left, read the progress
\* row and release if a pause is requested, else ask for the next entry.
Poll(r) ==
    /\ Ready(r, "poll")
    /\ IF runner[r].left = 0 THEN Goto(r, "release")
       ELSE runner' = [runner EXCEPT ![r] = [@ EXCEPT
               !.pc = IF job[runner[r].job].pauseRequested THEN "pause" ELSE "next",
               !.ok = FALSE, !.left = runner[r].left - 1]]
    /\ UNCHANGED <<disk, durable, history, bounds>>

\* next_scan_queue_entry: any pending entry stands for the lowest row id.
NextEntry(r) ==
    LET j == runner[r].job IN
    /\ Ready(r, "next")
    /\ \/ /\ ~ActiveRunner(j, r)
          /\ Abort(r)
          /\ UNCHANGED queue
       \/ /\ ActiveRunner(j, r)
          /\ \A p \in Paths : queue[j][p] # "pending"
          /\ Goto(r, "finalize")
          /\ UNCHANGED <<job, queue>>
       \/ /\ ActiveRunner(j, r)
          /\ \E p \in Paths :
                /\ queue[j][p] = "pending"
                /\ queue' = [queue EXCEPT ![j][p] = "processing"]
                /\ job' = [job EXCEPT ![j] = [@ EXCEPT !.lease = LeaseTicks]]
                /\ runner' = [runner EXCEPT ![r] = [@ EXCEPT !.pc = "process", !.ok = FALSE, !.entry = p]]
    /\ UNCHANGED <<disk, policy, staged, manifest, history, bounds>>

\* process_queue_entry: the metadata of the entry, nothing if the policy
\* excludes it or it is gone, an error if the root itself is gone.
Process(r) ==
    LET p == runner[r].entry
        present == p \notin Excluded(policy) /\ disk[p] # Absent
    IN
    /\ Ready(r, "process")
    /\ \/ /\ p = Root /\ ~present
          /\ Goto(r, "fail")
       \/ /\ p # Root /\ ~present
          /\ Goto(r, "stage")
       \/ /\ present
          /\ runner' = [runner EXCEPT ![r] = [@ EXCEPT !.pc = IF Children(p) = {} THEN "stage" ELSE "list",
                                      !.ok = FALSE, !.observation = disk[p]]]
    /\ UNCHANGED <<disk, durable, history, bounds>>

\* The same call then reads the folder, which may have gone in between.
List(r) ==
    /\ Ready(r, "list")
    /\ runner' = [runner EXCEPT ![r] = [@ EXCEPT !.pc = "stage", !.ok = FALSE,
                     !.children = (Children(runner[r].entry) \cap OnDisk(disk)) \ Excluded(policy)]]
    /\ UNCHANGED <<disk, durable, history, bounds>>

\* Read errors are issues of the scan, not errors of the job: what they hide
\* is missing from its outcome.
Overlook(r, hidden) ==
    /\ faults < MaxFaults /\ faults' = faults + 1
    /\ steady' = [steady EXCEPT ![runner[r].job] = @ \ UNION {Below(p) : p \in hidden}]
    /\ UNCHANGED <<disk, durable, seen, changes>>

\* canonicalization_failed or metadata_unavailable.  It is an error of the
\* job when it hides the root's metadata, or the identity of any entry that
\* has to be compared with the exclusions.
ProcessUnreadable(r) ==
    /\ Ready(r, "process")
    /\ runner[r].entry \in OnDisk(disk) \ Excluded(policy)
    /\ \/ Goto(r, "stage")
       \/ /\ runner[r].entry = Root \/ policy.excluded # {}
          /\ Goto(r, "fail")
    /\ Overlook(r, {runner[r].entry})

\* directory_read_denied (all) and directory_entry_unavailable (some).
ListUnreadable(r) ==
    LET listed == (Children(runner[r].entry) \cap OnDisk(disk)) \ Excluded(policy) IN
    /\ Ready(r, "list")
    /\ \E hidden \in (SUBSET listed) \ {{}} :
          /\ runner' = [runner EXCEPT ![r] = [@ EXCEPT !.pc = "stage", !.ok = FALSE,
                                      !.children = listed \ hidden]]
          /\ Overlook(r, hidden)

\* What the batch takes from one entry to the next.
CarriedOver(r) == [runner[r] EXCEPT !.pc = "poll", !.ok = FALSE, !.children = {}]
NextRound(r) == [runner[r] EXCEPT !.pc = "poll", !.ok = FALSE, !.entry = Root,
                                  !.observation = Absent, !.children = {}]

\* stage_scan_queue_entry: observation, new children, the entry done and the
\* lease renewed in one transaction, all refused to anyone but the owner.
Stage(r) ==
    LET j == runner[r].job
        p == runner[r].entry
        allowed == /\ job[j].revision = policy.revision
                   /\ OwnedRunner(j, r)
                   /\ queue[j][p] = "processing"
                   /\ runner[r].children \cap Excluded(policy) = {}
                   /\ runner[r].observation = Absent \/ p \notin Excluded(policy)
    IN
    /\ Ready(r, "stage")
    /\ \/ /\ ~allowed
          /\ Abort(r)
          /\ UNCHANGED <<queue, staged>>
       \/ /\ allowed
          /\ staged' = IF runner[r].observation = Absent THEN staged
                       ELSE [staged EXCEPT ![j][p] = runner[r].observation]
          /\ queue' = [queue EXCEPT ![j] =
                [q \in Paths |-> IF q = p THEN "done"
                                 ELSE IF q \in runner[r].children /\ @[q] = "absent"
                                 THEN "pending" ELSE @[q]]]
          /\ job' = [job EXCEPT ![j] = [@ EXCEPT !.lease = LeaseTicks]]
          /\ runner' = [runner EXCEPT ![r] = NextRound(r)]
    /\ UNCHANGED <<disk, policy, manifest, history, bounds>>

\* release_scan_job, on a pause or at the end of the batch.
Release(r) ==
    LET j == runner[r].job IN
    /\ Ready(r, "pause") \/ Ready(r, "release")
    /\ \/ /\ job[j].revision = policy.revision /\ OwnedRunner(j, r)
          /\ job' = [job EXCEPT ![j] = [Unowned(@) EXCEPT !.control = ReleasedControl(job[j])]]
          /\ Return(r)
       \/ /\ ~(job[j].revision = policy.revision /\ OwnedRunner(j, r))
          /\ Abort(r)
    /\ UNCHANGED <<disk, policy, queue, staged, manifest, history, bounds>>

\* finalize_resumable_scan_job: staged rows become the manifest, every other
\* row of the scope stops being present, the job's working rows go.
Finalize(r) ==
    LET j == runner[r].job
        complete == /\ \A p \in Paths : queue[j][p] \in {"absent", "done"}
                    /\ ~job[j].pauseRequested
                    /\ OnDisk(staged[j]) \cap Excluded(policy) = {}
                    /\ job[j].revision = policy.revision
    IN
    /\ Ready(r, "finalize")
    /\ \/ /\ ~(OwnedRunner(j, r) /\ complete)
          /\ Abort(r)
          /\ UNCHANGED <<queue, staged, manifest>>
       \/ /\ OwnedRunner(j, r) /\ complete
          /\ manifest' = staged[j]
          /\ job' = [job EXCEPT ![j] = [Ended(@, "completed") EXCEPT !.pauseRequested = FALSE]]
          /\ queue' = [queue EXCEPT ![j] = NoQueue]
          /\ staged' = [staged EXCEPT ![j] = NoRows]
          /\ Return(r)
    /\ UNCHANGED <<disk, policy, history, bounds>>

\* fail_resumable_scan_job: queue and staging stay behind.
Fail(r) ==
    LET j == runner[r].job IN
    /\ Ready(r, "fail")
    /\ \/ /\ OwnedRunner(j, r)
          /\ job' = [job EXCEPT ![j] = Ended(@, "failed")]
          /\ Return(r)
       \/ /\ ~OwnedRunner(j, r)
          /\ Abort(r)
    /\ UNCHANGED <<disk, policy, queue, staged, manifest, history, bounds>>

\* The process dies, or SQLite refuses the call (busy) and the batch returns
\* the error: either way nothing of the call is stored and nothing released.
Crash(r) ==
    /\ InBatch(r)
    /\ faults < MaxFaults /\ faults' = faults + 1
    /\ Abort(r)
    /\ UNCHANGED <<disk, policy, queue, staged, manifest, history, changes>>

-----------------------------------------------------------------------------
(* The world around the jobs *)

Tick ==
    /\ \E j \in Jobs : job[j].lease > 0
    /\ job' = [j \in Jobs |-> IF job[j].lease > 0 THEN [job[j] EXCEPT !.lease = @ - 1] ELSE job[j]]
    /\ UNCHANGED <<disk, policy, queue, staged, manifest, runner, history, bounds>>

\* Something is created, changed, or removed with all that is below it.
ChangeDisk ==
    /\ changes < MaxChanges /\ changes' = changes + 1
    /\ \E p \in Paths :
          \/ /\ p # Root => disk[Parent[p]] # Absent
             /\ \E v \in Versions \ {disk[p]} : disk' = [disk EXCEPT ![p] = v]
          \/ /\ disk[p] # Absent
             /\ disk' = [q \in Paths |-> IF q \in Below(p) THEN Absent ELSE disk[q]]
    /\ seen' = [j \in Jobs |-> IF Live(j)
                               THEN seen[j] \cup {<<p, disk'[p]>> : p \in OnDisk(disk')}
                               ELSE seen[j]]
    /\ steady' = [j \in Jobs |-> IF Live(j) THEN steady[j] \cap OnDisk(disk') ELSE steady[j]]
    /\ UNCHANGED <<durable, runner, faults>>

PurgeRunningJobs ==
    /\ job' = [j \in Jobs |-> IF job[j].status = "running"
                              THEN [Ended(job[j], "failed") EXCEPT !.pauseRequested = FALSE]
                              ELSE job[j]]
    /\ queue' = [j \in Jobs |-> NoQueue]
    /\ staged' = [j \in Jobs |-> NoRows]

\* execute_privacy_purge fails the live jobs and drops their working rows.
\* (pause_requested is cleared with the rest.)
PurgeJobs ==
    /\ job' = [j \in Jobs |-> IF Live(j) THEN [Ended(job[j], "failed") EXCEPT !.pauseRequested = FALSE]
                              ELSE job[j]]
    /\ queue' = [j \in Jobs |-> NoQueue]
    /\ staged' = [j \in Jobs |-> NoRows]

PrunedItself(pol) == [q \in Paths |-> IF q \in pol.excluded THEN Absent ELSE manifest[q]]
Pruned(pol) == [q \in Paths |-> IF q \in Excluded(pol) THEN Absent ELSE manifest[q]]

\* apply_scope_exclusion_batch, under the revocation fence.
ApplyExclusion ==
    /\ NoFence
    /\ policy.grant = "active" /\ policy.revision < MaxRevision
    /\ \E p \in Paths \ ({Root} \cup Excluded(policy)) :
          policy' = [policy EXCEPT !.revision = @ + 1, !.excluded = @ \cup {p}]
    /\ PurgeJobs
    /\ manifest' = Pruned(policy')
    /\ UNCHANGED <<disk, runner, history, bounds>>

\* apply_scope_root_revocation: nothing of the scope stays readable, and no
\* completed scan survives as the authorisation of a later read.
RevokeRoot ==
    /\ NoFence
    /\ policy.grant # "revoked" /\ policy.revision < MaxRevision
    /\ policy' = [revision |-> policy.revision + 1, grant |-> "revoked", excluded |-> {}]
    /\ job' = [j \in Jobs |-> IF Live(j) \/ job[j].status = "completed"
                              THEN [Ended(job[j], "failed") EXCEPT !.pauseRequested = FALSE]
                              ELSE job[j]]
    /\ queue' = [j \in Jobs |-> NoQueue]
    /\ staged' = [j \in Jobs |-> NoRows]
    /\ manifest' = NoRows
    /\ UNCHANGED <<disk, runner, history, bounds>>

\* upsert_scope_access_grant: the only way back to an active grant.
Grant ==
    /\ policy.grant # "active"
    /\ policy' = [policy EXCEPT !.grant = "active"]
    /\ UNCHANGED <<disk, job, queue, staged, manifest, runner, history, bounds>>

\* mark_scope_access_grant_needs_reauthorization takes no fence and bumps no
\* revision: it can land in the middle of a batch.
LapseGrant ==
    /\ policy.grant = "active"
    /\ faults < MaxFaults /\ faults' = faults + 1
    /\ policy' = [policy EXCEPT !.grant = "needs_reauthorization"]
    /\ UNCHANGED <<disk, job, queue, staged, manifest, runner, history, changes>>

-----------------------------------------------------------------------------
Step(r) ==
    \/ Claim(r) \/ CheckPolicy(r) \/ Poll(r) \/ NextEntry(r) \/ Process(r) \/ List(r)
    \/ Stage(r) \/ Release(r) \/ Finalize(r) \/ Fail(r)

Next ==
    \/ \E r \in Runners : Step(r) \/ ProcessUnreadable(r) \/ ListUnreadable(r) \/ Crash(r)
    \/ \E r \in Runners, j \in Jobs : Enter(r, j)
    \/ \E j \in Jobs : CreateJob(j) \/ RequestPause(j) \/ ResumeJob(j)
    \/ OpenDatabase \/ Tick \/ ChangeDisk
    \/ ApplyExclusion \/ RevokeRoot \/ Grant \/ LapseGrant

Spec == Init /\ [][Next]_vars

\* Step(r): a batch that is under way goes on; the clock runs; some process
\* opens the database from time to time (every desktop command does).
\* Enter: run_scan_job_to_terminal starts batch after batch.
Fairness ==
    /\ WF_vars(Tick)
    /\ WF_vars(OpenDatabase)
    /\ \A r \in Runners : WF_vars(Step(r))
    /\ \A j \in Jobs : WF_vars(\E r \in Runners : Enter(r, j))

FairSpec == Spec /\ Fairness

-----------------------------------------------------------------------------
(* Properties *)

\* The types of the variables: leases, batch budgets, revisions and the two
\* counters stay in their ranges, and a batch is always about a job.
TypeOK ==
    /\ disk \in Trees
    /\ policy \in [revision : 1 .. MaxRevision, excluded : SUBSET Paths,
                   grant : {"active", "needs_reauthorization", "revoked"}]
    /\ job \in [Jobs -> JobRows]
    /\ queue \in [Jobs -> [Paths -> EntryStates]]
    /\ staged \in [Jobs -> Trees]
    /\ manifest \in Trees
    /\ runner \in [Runners -> RunnerStates]
    /\ \A r \in Runners : InBatch(r) => runner[r].job \in Jobs
    /\ seen \in [Jobs -> SUBSET (Paths \X Versions)]
    /\ steady \in [Jobs -> SUBSET Paths]
    /\ changes \in 0 .. MaxChanges
    /\ faults \in 0 .. MaxFaults

\* An entry is "processing" only while a token still owns its running job,
\* and never two at a time: after any pause, crash, theft or recovery no entry
\* is stranded where next_scan_queue_entry (pending only) would never find it
\* and finalize_resumable_scan_job would refuse the job for ever.
NoStrandedEntry ==
    \A j \in Jobs : Live(j) =>
        /\ \A p \in Paths : queue[j][p] = "processing" =>
              /\ job[j].status = "running"
              /\ job[j].control \in {"active", "pause_requested"}
              /\ job[j].owner # NoRunner
        /\ \A p, q \in Paths : queue[j][p] = "processing" /\ queue[j][q] = "processing" => p = q

\* What a live owner remembers of its entry is what the table says: while the
\* row still carries its token, the entry it processes is the one in
\* "processing", whoever paused, resumed or recovered the job meanwhile.
OwnerKnowsEntry ==
    \A r \in Runners :
        LET j == runner[r].job IN
        runner[r].pc \in {"process", "list", "stage", "fail"} /\ job[j].owner = r
        => queue[j][runner[r].entry] = "processing"

\* A live job always carries the current policy revision: a policy change
\* that left one running would make every later update of its row abort in
\* the revision trigger, recovery of the whole database included.
LiveJobIsCurrent ==
    \A j \in Jobs : Live(j) => job[j].revision = policy.revision

\* Paths that an exclusion or a revocation withholds are neither published
\* nor waiting in a live job's staging to be published.
PolicyRespected ==
    /\ \A p \in Excluded(policy) : manifest[p] = Absent
    /\ policy.grant = "revoked" => manifest = NoRows
    /\ \A j \in Jobs : Live(j) => OnDisk(staged[j]) \cap Excluded(policy) = {}

\* A scan that completes publishes every path that was on disk, and listed,
\* all the time since the job was created, over any number of batches,
\* runners, crashes, pauses and changes around it.
Publishes(j) == job[j].status # "completed" /\ job'[j].status = "completed"
PublishIsComplete ==
    [][\A j \in Jobs : Publishes(j) => \A p \in steady[j] : manifest'[p] # Absent]_vars

\* It publishes nothing that was not on disk at some time since then.
PublishIsHonest ==
    [][\A j \in Jobs : Publishes(j) =>
          \A p \in Paths : manifest'[p] # Absent => <<p, manifest'[p]>> \in seen[j]]_vars

\* Done work of a live job is never redone: no recovery, resume or second
\* owner returns an entry that was staged to the queue.
DoneStaysDone ==
    [][\A j \in Jobs, p \in Paths :
          queue[j][p] = "done" /\ Live(j) /\ IsLive(job'[j]) => queue'[j][p] = "done"]_vars

\* Every owner, crashed, slow or robbed, is off the row in the end.
LeaseReleased ==
    \A j \in Jobs : job[j].owner # NoRunner ~> job[j].owner = NoRunner

\* run_scan_job_to_terminal gets a ready job to an end, unless its user
\* pauses it, its lease expires under it, or its scope goes away.
ScanEnds ==
    \A j \in Jobs :
        job[j].status = "running" /\ job[j].control = "ready"
        ~> \/ job[j].status # "running"
           \/ job[j].control \in {"paused", "pause_requested"}
           \/ policy.grant # "active" \/ disk[Root] = Absent

\* "an active worker observes the request between entries, releases its
\* lease" (ADR-011): a batch that is over has not left a paused job leased.
PauseReleasesLease ==
    \A j \in Jobs : ~(job[j].control = "pause_requested" /\ job[j].owner = Orphan /\ job[j].lease > 0)

\* The promise to the readers of the manifest (AtomicManifest): with all its
\* batches, pauses, crashes and policy changes the scanner replaces the
\* manifest of the scope at once, or not at all.
Phase(row) ==
    CASE row.status = "none" -> "idle"
      [] row.status \in {"running", "interrupted"} -> "open"
      [] row.status = "completed" -> "published"
      [] row.status = "failed" -> "closed"

Promise == INSTANCE AtomicManifest WITH
    withheld <- IF policy.grant = "revoked" THEN Paths ELSE Excluded(policy),
    scan <- [j \in Jobs |-> Phase(job[j])]

\* Every step of the tables and their runners is one of the promise, or none.
ImplementsAtomicManifest == Promise!Spec

=============================================================================
