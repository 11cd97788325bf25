---------------------------- MODULE ExtractionJob ----------------------------
(***************************************************************************)
(* Durable extraction jobs of one file: its text is read by a provider,    *)
(* outside any transaction, and published as the file's active chunks in   *)
(* one.                                                                    *)
(*                                                                         *)
(* extraction_jobs and content_chunks are shared by every process that     *)
(* opens the database.  A runner holds the scope's read fence, which keeps *)
(* privacy changes out, until its provider returns, and publishes without  *)
(* it.  Runners, users who cancel and resume, scans and watch deltas that  *)
(* publish a newer state of the file, exclusions, the clock and the file   *)
(* system interleave between two calls.                                    *)
(*                                                                         *)
(* A version stands for what validate_open_file tells apart: size,         *)
(* modification time and identity.  No two states of the file share one.   *)
(***************************************************************************)
EXTENDS Integers, FiniteSets

CONSTANTS
    Operations,     \* kinds of extraction: content, screenshot OCR
    Absent,         \* no such file, row, text or handle
    NumJobs,        \* bound: rows of extraction_jobs
    Runners,        \* threads and processes that run jobs
    NoRunner,       \* runner_token IS NULL
    Orphan,         \* the token of a run that is over
    MaxVersion,     \* bound: states of the file
    MaxRevision,    \* bound: policy revisions
    MaxFaults       \* bound: crashes and busy errors

Jobs == 1 .. NumJobs
Versions == 1 .. MaxVersion

ASSUME RunnersAssumption == NoRunner \notin Runners /\ Orphan \notin Runners /\ NoRunner # Orphan
ASSUME OperationsAssumption == Operations # {} /\ Operations \subseteq {"content", "screenshot_ocr"}
ASSUME AbsentAssumption == Absent \notin Nat
ASSUME BoundsAssumption ==
    /\ NumJobs \in Nat /\ MaxVersion \in Nat \ {0}
    /\ MaxRevision \in Nat \ {0} /\ MaxFaults \in Nat

VARIABLES
    disk,       \* the file: [version, present]
    observed,   \* what the scan or the watcher under way has seen of it
    manifest,   \* its row in locations and files, present = 1
    policy,     \* [revision, excluded]: of its scope, and whether it is excluded
    job,        \* extraction_jobs rows
    content,    \* active chunks and image metadata: per operation, job and text
    runner,     \* what each runner's call stack holds between two calls
    faults      \* bound: number of faults so far

world == <<disk, observed>>
vars == <<disk, observed, manifest, policy, job, content, runner, faults>>

-----------------------------------------------------------------------------
(* Rows *)

Statuses == {"none", "queued", "running", "completed", "failed", "cancelled", "interrupted"}
Final == {"completed", "failed", "cancelled"}

JobRows == [status : Statuses, operation : Operations, version : Versions \cup {Absent},
            cancel : BOOLEAN, owner : Runners \cup {NoRunner, Orphan}, leased : BOOLEAN,
            revision : 0 .. MaxRevision]

NoJob == [status |-> "none", operation |-> CHOOSE o \in Operations : TRUE, version |-> Absent,
          cancel |-> FALSE, owner |-> NoRunner, leased |-> FALSE, revision |-> 0]

Exists(j) == job[j].status # "none"
IsLive(row) == row.status \in {"queued", "running", "interrupted"}
Live(j) == IsLive(job[j])

\* ensure_extraction_runner, and the guard of every update by a runner.
OwnsLease(j, r) == job[j].status = "running" /\ job[j].owner = r /\ job[j].leased

Unowned(row) == [row EXCEPT !.owner = NoRunner, !.leased = FALSE]
To(row, status) == [Unowned(row) EXCEPT !.status = status]

\* recover_expired_extraction_jobs_at, which every claim and every open of
\* the database runs first.
ExpiredUnlessCancelled(row) == row.status = "running" /\ ~row.leased /\ ~row.cancel
Expired(row) == row.status = "running" /\ ~row.leased
RecoveredButOwned ==
    [j \in Jobs |-> IF Expired(job[j]) THEN [job[j] EXCEPT !.status = "interrupted"] ELSE job[j]]
Recovered == [j \in Jobs |-> IF Expired(job[j]) THEN To(job[j], "interrupted") ELSE job[j]]

\* extraction_cancel_requested: a job that is no longer running counts.
CancelSeen(j) == Exists(j) /\ (job[j].status # "running" \/ job[j].cancel)

NoText == [job |-> 0, text |-> Absent]
Nothing == [o \in Operations |-> NoText]
Texts == [job : 0 .. NumJobs, text : Versions \cup {Absent}]

-----------------------------------------------------------------------------
(* Runners.  pc is the next call of run_extraction_job_with_ocr_provider_at. *)

Fenced == {"claim", "open", "read", "recheck"}
Steps == Fenced \cup {"idle", "poll", "assert", "complete", "error poll", "invalidate",
                      "fail", "cancel", "requeue"}
Errors == {"none", "cancelled", "source", "other"}

RunnerStates == [pc : Steps, job : 0 .. NumJobs, revision : 0 .. MaxRevision,
                 handle : Versions \cup {Absent}, text : Versions \cup {Absent}, error : Errors]

Idle == [pc |-> "idle", job |-> 0, revision |-> 0, handle |-> Absent, text |-> Absent,
         error |-> "none"]

Goto(r, step) == runner' = [runner EXCEPT ![r] = [@ EXCEPT !.pc = step]]
\* The attempt is over: its file is closed, its text dropped.
GiveUp(r, step, error) ==
    runner' = [runner EXCEPT ![r] = [Idle EXCEPT !.pc = step, !.job = runner[r].job, !.error = error]]
GotoError(r, error) == GiveUp(r, "error poll", error)

\* The run is over.  It never uses its token again, and a later run draws a
\* fresh one: whoever still owns a job by an old token is an orphan.
Return(r, rows) ==
    /\ runner' = [runner EXCEPT ![r] = Idle]
    /\ job' = [j \in Jobs |-> IF rows[j].owner = r THEN [rows[j] EXCEPT !.owner = Orphan]
                                                 ELSE rows[j]]

\* An update by a runner: it happens under the token and an unexpired lease,
\* and otherwise returns ExtractionRunnerLeaseLost.  The run ends either way.
UpdateAndReturn(r, row) ==
    LET j == runner[r].job IN
    /\ Return(r, IF OwnsLease(j, r) THEN [job EXCEPT ![j] = row] ELSE job)
    /\ UNCHANGED <<world, manifest, policy, content, faults>>

Init ==
    /\ disk = [version |-> 1, present |-> TRUE]
    /\ observed = 1
    /\ manifest = 1
    /\ policy = [revision |-> 1, excluded |-> FALSE]
    /\ job = [j \in Jobs |-> NoJob]
    /\ content = Nothing
    /\ runner = [r \in Runners |-> Idle]
    /\ faults = 0

-----------------------------------------------------------------------------
(* Users: the desktop and the command line *)

\* create_extraction_job_at and create_screenshot_ocr_job_at: the row's id is
\* SQLite's next rowid, which a purged row gives free again.  OCR jobs are
\* created only for a file that is what its row says.
Create(operation) ==
    /\ manifest # Absent /\ ~policy.excluded
    /\ operation = "screenshot_ocr" => disk = [version |-> manifest, present |-> TRUE]
    /\ \A j \in Jobs : ~Live(j)
    /\ \E j \in Jobs :
          /\ \A k \in Jobs : Exists(k) <=> k < j
          /\ job' = [job EXCEPT ![j] =
                [NoJob EXCEPT !.status = "queued", !.operation = operation,
                              !.version = manifest, !.revision = policy.revision]]
    /\ UNCHANGED <<world, manifest, policy, content, runner, faults>>

CancelAnyStatus(j) ==
    /\ Exists(j)
    /\ job' = [job EXCEPT ![j] =
          IF @.status = "running" THEN [@ EXCEPT !.cancel = TRUE]
                                  ELSE [@ EXCEPT !.cancel = TRUE, !.status = "cancelled"]]
    /\ UNCHANGED <<world, manifest, policy, content, runner, faults>>

\* request_extraction_cancel: a running job is only marked, its runner ends it.
RequestCancel(j) ==
    /\ Live(j)
    /\ job' = [job EXCEPT ![j] =
          IF @.status = "running" THEN [@ EXCEPT !.cancel = TRUE]
                                  ELSE [@ EXCEPT !.cancel = TRUE, !.status = "cancelled"]]
    /\ UNCHANGED <<world, manifest, policy, content, runner, faults>>

\* resume_extraction_job_at: the file must still be the one of the job.
Resume(j) ==
    /\ job[j].status = "interrupted"
    /\ manifest # Absent /\ ~policy.excluded
    /\ disk = [version |-> job[j].version, present |-> TRUE]
    /\ job' = [job EXCEPT ![j] = [To(@, "queued") EXCEPT !.cancel = FALSE]]
    /\ UNCHANGED <<world, manifest, policy, content, runner, faults>>

\* Whoever opens the database recovers the jobs whose lease is over.
RecoverExpired ==
    /\ \E j \in Jobs : Expired(job[j])
    /\ job' = Recovered
    /\ UNCHANGED <<world, manifest, policy, content, runner, faults>>

-----------------------------------------------------------------------------
(* One run of a job *)

\* The progress row is read, the read fence taken and the policy bound.
Begin(r, j) ==
    /\ runner[r].pc = "idle"
    /\ job[j].status \in {"queued", "running"}
    /\ manifest # Absent /\ ~policy.excluded
    /\ runner' = [runner EXCEPT ![r] =
          [Idle EXCEPT !.pc = "claim", !.job = j, !.revision = policy.revision]]
    /\ UNCHANGED <<world, manifest, policy, job, content, faults>>

\* claim_extraction_job: expired jobs, this one included, are interrupted
\* first; what is not queued then is busy or in the wrong state.
Claim(r) ==
    LET j == runner[r].job
        rows == Recovered IN
    /\ runner[r].pc = "claim"
    /\ IF rows[j].status = "queued"
       THEN /\ job' = [rows EXCEPT ![j] =
                  [@ EXCEPT !.status = "running", !.owner = r, !.leased = TRUE]]
            /\ Goto(r, "open")
       ELSE Return(r, rows)
    /\ UNCHANGED <<world, manifest, policy, content, faults>>

\* extract_claimed_job reads the file's row again and validate_source opens
\* the file and compares it with the version of the job.
Open(r) ==
    /\ runner[r].pc = "open"
    /\ IF manifest = Absent
       THEN GotoError(r, "other")
       ELSE IF disk = [version |-> job[runner[r].job].version, present |-> TRUE]
            THEN runner' = [runner EXCEPT ![r] = [@ EXCEPT !.pc = "read", !.handle = disk.version]]
            ELSE GotoError(r, "source")
    /\ UNCHANGED <<world, manifest, policy, job, content, faults>>

\* The provider reads the open file, polling for cancellation between bounded
\* units, and returns a text, a cancellation, a changed source, a failure of
\* its own, or, for OCR, a refusal because the one slot is taken.
Read(r) ==
    LET j == runner[r].job IN
    /\ runner[r].pc = "read"
    /\ \/ runner' = [runner EXCEPT ![r] = [@ EXCEPT !.pc = "recheck", !.text = runner[r].handle]]
       \/ CancelSeen(j) /\ GotoError(r, "cancelled")
       \/ runner[r].handle # job[j].version /\ GotoError(r, "source")
       \/ GotoError(r, "other")
       \/ job[j].operation = "screenshot_ocr" /\ GiveUp(r, "requeue", "none")
    /\ UNCHANGED <<world, manifest, policy, job, content, faults>>

\* DatabaseCancellation takes a poll that fails for a request to cancel; the
\* monitor of an OCR job makes it an error.
PollFails(r) ==
    /\ runner[r].pc = "read" /\ faults < MaxFaults
    /\ GotoError(r, IF job[runner[r].job].operation = "content" THEN "cancelled" ELSE "other")
    /\ faults' = faults + 1
    /\ UNCHANGED <<world, manifest, policy, job, content>>

RecheckNothing(r) ==
    /\ runner[r].pc = "recheck"
    /\ runner' = [runner EXCEPT ![r] = [@ EXCEPT !.pc = "poll", !.handle = Absent]]
    /\ UNCHANGED <<world, manifest, policy, job, content, faults>>

\* validate_open_file once more on the handle that was read.
Recheck(r) ==
    /\ runner[r].pc = "recheck"
    /\ IF runner[r].handle = job[runner[r].job].version
       THEN runner' = [runner EXCEPT ![r] = [@ EXCEPT !.pc = "poll", !.handle = Absent]]
       ELSE GotoError(r, "source")
    /\ UNCHANGED <<world, manifest, policy, job, content, faults>>

\* From here on without the read fence.
Poll(r) ==
    LET j == runner[r].job IN
    /\ runner[r].pc = "poll"
    /\ IF ~Exists(j) THEN Return(r, job)
       ELSE /\ IF CancelSeen(j) THEN GiveUp(r, "cancel", "none") ELSE Goto(r, "assert")
            /\ UNCHANGED job
    /\ UNCHANGED <<world, manifest, policy, content, faults>>

AssertPolicy(r) ==
    /\ runner[r].pc = "assert"
    /\ IF policy.revision = runner[r].revision THEN Goto(r, "complete")
                                               ELSE GiveUp(r, "fail", "none")
    /\ UNCHANGED <<world, manifest, policy, job, content, faults>>

\* complete_extraction_job_with_image_metadata replaces the active output of
\* its operation, if the job may still be published, and only then ends it.
PublishableOnPoll(r) ==
    LET j == runner[r].job IN
    /\ OwnsLease(j, r)
    /\ job[j].revision = policy.revision
    /\ manifest = job[j].version
    /\ ~policy.excluded

PublishableByJob(r) ==
    LET j == runner[r].job IN
    /\ OwnsLease(j, r)
    /\ job[j].revision = policy.revision
    /\ ~job[j].cancel
    /\ ~policy.excluded

Publishable(r) ==
    LET j == runner[r].job IN
    /\ OwnsLease(j, r)
    /\ job[j].revision = policy.revision
    /\ ~job[j].cancel
    /\ manifest = job[j].version
    /\ ~policy.excluded

Complete(r) ==
    LET j == runner[r].job IN
    /\ runner[r].pc = "complete"
    /\ IF Publishable(r)
       THEN /\ content' = [content EXCEPT ![job[j].operation] =
                  [job |-> j, text |-> runner[r].text]]
            /\ Return(r, [job EXCEPT ![j] = To(@, "completed")])
       ELSE /\ GotoError(r, "other")
            /\ UNCHANGED <<job, content>>
    /\ UNCHANGED <<world, manifest, policy, faults>>

\* Every error asks once more for a cancellation; a poll that fails says no.
ErrorPoll(r) ==
    /\ runner[r].pc = "error poll"
    /\ LET cancelled == runner[r].error = "cancelled" \/ CancelSeen(runner[r].job)
           next == IF cancelled THEN "cancel"
                   ELSE IF runner[r].error = "source" THEN "invalidate" ELSE "fail"
       IN GiveUp(r, next, "none")
    /\ UNCHANGED <<world, manifest, policy, job, content, faults>>

\* invalidate_content_for_node: a source that is not what the row says takes
\* all active output of the file with it, whoever owns the job by now.
Invalidate(r) ==
    /\ runner[r].pc = "invalidate"
    /\ content' = Nothing
    /\ Goto(r, "fail")
    /\ UNCHANGED <<world, manifest, policy, job, faults>>

\* fail_extraction_job: a cancellation accepted meanwhile wins.
FailedAlways(row) == To(row, "failed")
FailedRow(row) == To(row, IF row.cancel THEN "cancelled" ELSE "failed")
Fail(r) == runner[r].pc = "fail" /\ UpdateAndReturn(r, FailedRow(job[runner[r].job]))

\* cancel_extraction_job_from_runner.
Cancel(r) ==
    /\ runner[r].pc = "cancel"
    /\ UpdateAndReturn(r, [To(job[runner[r].job], "cancelled") EXCEPT !.cancel = TRUE])

\* requeue_extraction_job_after_capacity_refusal.
RequeuedRow(row) == To(row, IF row.cancel THEN "cancelled" ELSE "queued")
Requeue(r) == runner[r].pc = "requeue" /\ UpdateAndReturn(r, RequeuedRow(job[runner[r].job]))

\* The process dies, or a call meets a busy database and the run returns its
\* error: the job keeps its owner.
Crash(r) ==
    /\ runner[r].pc # "idle" /\ faults < MaxFaults
    /\ Return(r, job)
    /\ faults' = faults + 1
    /\ UNCHANGED <<world, manifest, policy, content>>

RunnerStep(r) ==
    \/ Claim(r) \/ Open(r) \/ Read(r) \/ Recheck(r) \/ Poll(r) \/ AssertPolicy(r)
    \/ Complete(r) \/ ErrorPoll(r) \/ Invalidate(r) \/ Fail(r) \/ Cancel(r) \/ Requeue(r)

-----------------------------------------------------------------------------
(* The clock, the file system, scans, the watcher and privacy changes *)

Expire(j) ==
    /\ job[j].status = "running" /\ job[j].leased
    /\ job' = [job EXCEPT ![j] = [@ EXCEPT !.leased = FALSE]]
    /\ UNCHANGED <<world, manifest, policy, content, runner, faults>>

\* The file is written in place: what handles are open on it see it.
Overwrite ==
    /\ disk.present /\ disk.version < MaxVersion
    /\ disk' = [disk EXCEPT !.version = @ + 1]
    /\ runner' = [r \in Runners |->
          IF runner[r].handle = Absent THEN runner[r]
                                       ELSE [runner[r] EXCEPT !.handle = disk.version + 1]]
    /\ UNCHANGED <<observed, manifest, policy, job, content, faults>>

\* It is moved away, replaced or unmounted, and comes back; handles stay.
MoveAway ==
    /\ disk.present
    /\ disk' = [disk EXCEPT !.present = FALSE]
    /\ UNCHANGED <<observed, manifest, policy, job, content, runner, faults>>

MoveBack ==
    /\ ~disk.present
    /\ disk' = [disk EXCEPT !.present = TRUE]
    /\ UNCHANGED <<observed, manifest, policy, job, content, runner, faults>>

Observe ==
    /\ observed' = IF disk.present THEN disk.version ELSE Absent
    /\ UNCHANGED <<disk, manifest, policy, job, content, runner, faults>>

\* finalize_resumable_scan_job, with invalidate_stale_extraction_outputs.
PublishScan ==
    /\ ~policy.excluded
    /\ manifest' = observed
    /\ content' = [o \in Operations |->
          IF content[o].job # 0 /\ job[content[o].job].version = observed
          THEN content[o] ELSE NoText]
    /\ UNCHANGED <<world, policy, job, runner, faults>>

\* publish_watch_file_delta_at: of a file that has a row, and drops all output.
PublishDelta ==
    /\ ~policy.excluded /\ manifest # Absent /\ observed # Absent
    /\ manifest' = observed
    /\ content' = Nothing
    /\ UNCHANGED <<world, policy, job, runner, faults>>

\* An exclusion waits for the readers of the scope to leave.  One that hits
\* the file purges it; every other one only cancels the jobs of old revisions.
NoReader == \A r \in Runners : runner[r].pc \notin Fenced

CancelledByPolicy(row) == [To(row, "cancelled") EXCEPT !.cancel = TRUE]

ExcludeFile ==
    /\ NoReader /\ ~policy.excluded /\ policy.revision < MaxRevision
    /\ policy' = [revision |-> policy.revision + 1, excluded |-> TRUE]
    /\ job' = [j \in Jobs |-> NoJob]
    /\ content' = Nothing
    /\ manifest' = Absent
    /\ UNCHANGED <<world, runner, faults>>

PurgeUninterrupted(rows) ==
    [j \in Jobs |-> IF rows[j].status \in {"queued", "running"} THEN CancelledByPolicy(rows[j])
                                                             ELSE rows[j]]
PurgeJobs(rows) == [j \in Jobs |-> IF IsLive(rows[j]) THEN CancelledByPolicy(rows[j]) ELSE rows[j]]

ExcludeOther ==
    /\ NoReader /\ policy.revision < MaxRevision
    /\ policy' = [policy EXCEPT !.revision = @ + 1]
    /\ job' = PurgeJobs(job)
    /\ UNCHANGED <<world, manifest, content, runner, faults>>

-----------------------------------------------------------------------------

Next ==
    \/ \E o \in Operations : Create(o)
    \/ \E j \in Jobs : RequestCancel(j) \/ Resume(j) \/ Expire(j)
    \/ RecoverExpired
    \/ \E r \in Runners : \/ \E j \in Jobs : Begin(r, j)
                          \/ RunnerStep(r) \/ PollFails(r) \/ Crash(r)
    \/ Overwrite \/ MoveAway \/ MoveBack \/ Observe \/ PublishScan \/ PublishDelta
    \/ ExcludeFile \/ ExcludeOther

\* Threads run, leases expire, and the database is opened again and again:
\* every status query of the desktop and of the command line opens it.
Fairness ==
    /\ \A r \in Runners : WF_vars(RunnerStep(r))
    /\ \A j \in Jobs : WF_vars(Expire(j))
    /\ WF_vars(RecoverExpired)

Spec == Init /\ [][Next]_vars
LiveSpec == Spec /\ Fairness

-----------------------------------------------------------------------------
(* Properties *)

\* The types of the variables; a row has a token exactly while its job runs,
\* and a runner that is not idle is always about a job.
TypeOK ==
    /\ disk \in [version : Versions, present : BOOLEAN]
    /\ observed \in Versions \cup {Absent}
    /\ manifest \in Versions \cup {Absent}
    /\ policy \in [revision : 1 .. MaxRevision, excluded : BOOLEAN]
    /\ job \in [Jobs -> JobRows]
    /\ \A j \in Jobs : (job[j].owner # NoRunner) <=> (job[j].status = "running")
    /\ content \in [Operations -> Texts]
    /\ runner \in [Runners -> RunnerStates]
    /\ \A r \in Runners : runner[r].pc # "idle" => runner[r].job \in Jobs
    /\ faults \in 0 .. MaxFaults

\* Search never shows text of a state the manifest no longer has: whatever is
\* active is the text of exactly the current row, though it was read outside
\* any transaction, while the file, the row and the job could all change.
ContentIsCurrent ==
    \A o \in Operations :
        content[o].job # 0 =>
            /\ content[o].text = manifest
            /\ job[content[o].job].version = manifest
            /\ ~policy.excluded

\* Active output belongs to a job of its operation that was completed; a
\* cancellation accepted at any time before has kept its output out.
ContentIsComplete ==
    \A o \in Operations :
        content[o].job # 0 =>
            LET row == job[content[o].job] IN
            row.status = "completed" /\ ~row.cancel /\ row.operation = o

\* At most one job of the file is live, and with the current policy revision:
\* one left with an old revision would make the revision trigger abort the
\* update of all rows in recover_expired_extraction_jobs_at.
LiveJobIsCurrent ==
    \A j \in Jobs : Live(j) =>
        /\ job[j].revision = policy.revision
        /\ \A k \in Jobs : Live(k) => k = j

\* What is final stays: no stale runner, late cancel, recovery or policy
\* change rewrites a finished job; only a purge deletes it.
FinalStaysFinal ==
    [][\A j \in Jobs : job[j].status \in Final => job'[j] \in {job[j], NoJob}]_vars

\* Every owner, crashed, slow or robbed, is off the row in the end.
LeaseReleased ==
    \A j \in Jobs : job[j].owner # NoRunner ~> job[j].owner = NoRunner

\* A running job whose cancellation was accepted ends cancelled, or
\* interrupted with its runner, but never completed or failed.
CancelHonoured ==
    \A j \in Jobs :
        job[j].status = "running" /\ job[j].cancel
        ~> job[j].status \in {"cancelled", "interrupted", "none"}

\* "Failure or cancellation records a fixed error code and preserves the prior
\* complete extraction" (ADR-012), "without permitting stale runners"
\* (service.rs): the failing runner of a job never withdraws what the job,
\* completed by a later runner, has published.
SuccessorIsPreserved ==
    [][\A r \in Runners, o \in Operations :
          Invalidate(r) /\ content[o].job = runner[r].job => content'[o] = content[o]]_vars

\* The promise to search.
Promise == INSTANCE AtomicContent WITH
    current <- manifest,
    shown <- [o \in Operations |-> content[o].text]

\* Whatever runners, users, scans and privacy changes do to the rows, what
\* search shows of the file changes only as the promise allows.
ImplementsAtomicContent == Promise!Spec

=============================================================================
