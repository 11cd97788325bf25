# Formal models of DeskGraph

DeskGraph keeps a SQLite database beside the user's files: scans write a manifest of the
authorised folders, extraction puts the text of files beside it for search, derived candidates
(duplicates, versions, projects, groups of screenshots) are shown for review, and a journaled
coordinator renames files. Several processes (desktop, command line, watcher, MCP server) open
the same database, each call is one transaction, and much work happens between transactions:
the file system is read, text is extracted, a file is hashed or renamed. The models here are about
what happens between two transactions.

Paths are given from the top of the source repository, which is `src/` here. "db" stands for
`crates/database/src/lib.rs`.

## 1. Inventory

| Part | State it keeps | Operations | Hard behaviour | What makes it correct |
|---|---|---|---|---|
| Resumable scan jobs (db, `crates/scanner`) | `scan_jobs`, `scan_queue`, `scan_staged_observations`; the manifest (`locations`, `files`, `edges`) | create, claim, next entry, stage, release, pause, resume, finalize, fail, recover | leases that end under live runners, crashes, pause requests between two calls, a tree that changes during the scan | one live job per scope; no queue entry stranded or owned twice; done work not redone; the manifest is replaced whole, complete and honest |
| Scope policy and its fence (db, `crates/scanner`) | `authorized_scopes.policy_revision`, exclusions, revocation receipts, two lock files | bind, assert, enter as a reader, drain the readers, apply exclusions, revoke a root, purge | a policy change between the calls of a batch; readers and a waiting writer; lock files that vanish; rows that refer to each other | nobody is inside while a change is made; nothing withheld is published or stays; a revocation is possible |
| Access grants (db, desktop, command line) | `scope_access_grants`, the capabilities a host holds | select, restore, renew, lapse, revoke | two hosts and a command line at once; a restoration that is late | no two active folders overlap; what is revoked stays so |
| Rename journal (db, `crates/transactions`) | append-only journal, command requests, executor leases, bindings; the folder | preview, execute, undo, retry, recover | crash between intent and system call, power loss, leases that end before the system call, two recoveries, foreign changes | legal journal; one rename per request; final and witnessed answers; unfinished commands get resolved; a plan is about the bytes its row describes |
| Extraction jobs (db, `crates/extractors/src/service.rs`) | `extraction_jobs`, active chunks and image metadata | create, claim, run, cancel, resume, requeue, complete, fail, recover, invalidate | text is read outside transactions; a cancel races the publication; late runners | active text is the text of the current row; cancelled work never shows; final rows stay |
| Content readers (`crates/extractors`) | none | read, admit, unpack, cut within limits | archives that lie, characters of several bytes, overlap | an output is the whole text within every limit |
| Native OCR (`crates/extractors/src/ocr.rs`) | one gate, one worker flag | acquire, reserve, spawn, give up, clean up late | the worker outlives its caller | the slot always comes free again |
| Watch events (db, `crates/watcher`) | `watch_events` | observe, coalesce, ignore, file delta, begin / complete / fail reconciliation, cycle | hints lost or overflowing, events racing scans | every hint ends in a delta or a reconciliation; a row never goes back |
| Native watch sources (`crates/watcher/src/native.rs`, desktop) | bounded queue, flags, registry, barrier | callback, drain, synchronise, retire | bounded work per cycle, a callback in flight at a revocation | a change is served; a revoked folder is unregistered and silent |
| Project candidates, file relations, versions, screenshot groups (db, `crates/projects`) | observations, append-only decisions | discover, check, record, decide | evidence that changes under the person who judges it | a decision stands on evidence of one state of the files |
| Cleanup inbox and plans (db, `crates/projects`, `crates/transactions`) | immutable plans | answer the inbox, reveal a source, make a plan | items that fail in the middle, files edited while they are hashed | only current evidence is answered; a plan binds what was verified |
| Search and retrieval (db, `crates/retrieval`, MCP) | FTS index | query | policy changes between the reads of one query | no withheld path in an answer |
| Desktop host (`apps/desktop/src-tauri`) | mutexes, capabilities, previews | commands that take several locks, confirmations | lock order, previews that outlive their impact | nobody waits in a circle; what is confirmed is what was shown |

They interact through the database, and through two lock files beside it: readers of a folder
(scanner, extractor, watcher, previews, restorations) hold the read fence while they touch it, and an
exclusion or a revocation drains them first. A scan's publication and a watch delta drop extracted
content that no longer fits; an exclusion or a revocation cancels the live jobs of a scope and purges
rows in the transaction that bumps the revision; the host and the watcher run scan batches.

`PROJECT.json` lists the same parts under "components" and, under "hazards", what is hard to test in
them, with the properties that cover each.

## 2. Plan

1. **Scan jobs** `ScanJob`, promise `AtomicManifest`; runs and proofs. *Done.*
2. **Rename journal** `RenameJournal`, promise `AtomicRename`; runs and proofs of the safety
   properties and of the refinement. *Done.* `RenamePreview`: how a plan comes to be. *Done.*
3. **Extraction** `ExtractionJob`, promise `AtomicContent`; runs and proofs of every safety
   property. *Done.* `BoundedReader` and `OcrSlot` below it. *Done.*
4. **Scope policy** `ScopeFence` and `PrivacyPurge`, `AccessGrants`, `HostCommands`. *Done.*
5. **Watching** `WatchEvents` and `NativeWatch`. *Done.*
6. **Feedback and plans** `FileRelations`, `ProjectCandidates`, `CleanupInbox`. *Done.*
7. **Query surfaces** `LexicalSearch`. *Done.*
8. **Proofs** of the components of 4 to 7, in the order in which section 6 lists them. *Done* for
   every safety property of every component. What is left is liveness, which section 6 says is out
   of the prover's reach.

## 3. Modules and the code

| Module | What it is |
|---|---|
| `ScanJob` | tables, runners, users, clock, policy and file system of one scope |
| `AtomicManifest` | what a reader of the manifest is promised |
| `RenameJournal` | journal, requests, leases, folder, processes |
| `AtomicRename` | what a caller of the coordinator is promised |
| `RenamePreview` | the plan of a rename, from the path to its row |
| `ExtractionJob` | jobs of one file, runners, cancellation, scans, deltas, exclusions |
| `AtomicContent` | what search shows of the file |
| `BoundedReader` | one file and the limits of a reader: admission, unpacking, chunks |
| `OcrSlot` | the one native OCR operation of a process |
| `ScopeFence` | lock files, gate, readers and changes of the policy |
| `PrivacyPurge` | exclusions, revocation, and the rows they take with them |
| `AccessGrants` | grants, hosts, the command line, overlapping folders |
| `HostCommands` | the locks and previews of the desktop's commands |
| `WatchEvents` | events of one scope, the coordinator's cycle, scans, users |
| `NativeWatch` | callbacks, queue, registry, the host's loop and a revocation |
| `FileRelations` | duplicates and versions: checks, decisions, plans |
| `ProjectCandidates` | discovery and decisions over a manifest that is replaced |
| `CleanupInbox` | screenshot groups, the inbox, and a plan of a screenshot |
| `LexicalSearch` | one search while the policy and the rows change |
| `MCScanJob`, `MCRenameJournal`, `MCExtractionJob`, `MCPrivacyPurge`, `MCOcrSlot`, `MCFileRelations` | one model, with values for TLC |
| `MCExtractionParts`, `MCComponents`, `MCLive` | several models, or instances of one, side by side |
| `ScanJobProofs` | theorems about `ScanJob`: ownership and entries; what is published; policy; the refinement |
| `RenameJournalProofs` | theorems about `RenameJournal`: journal and answers; the folder; the refinement |
| `RenamePreviewProofs`, `FileRelationsProofs` | theorems about the model each is named for |
| `ContentProofs` | theorems about `ExtractionJob`, `BoundedReader` and `LexicalSearch` |
| `SuggestionProofs` | theorems about `ProjectCandidates` and `CleanupInbox` |
| `HostCommandsProofs` | theorems about `HostCommands` and `NativeWatch` |
| `PolicyAndWorkProofs` | theorems about `ScopeFence`, `PrivacyPurge`, `AccessGrants`, `OcrSlot` and `WatchEvents` |

Conventions common to the models: a call of `ManifestDatabase` is one SQLite transaction and
one action; what a process keeps on its stack between two calls is a record in `runner`, `proc` or
`call` whose `pc` names the next step. A random runner token is the runner itself while it is in a
batch, and `Orphan` (`Lost` in the rename model) once the call that drew the token is over: nobody
uses it again, but the row keeps it. A crash, and a call that fails busy, ends the stack and
leaves the row. Definitions with a plausible slip in them (`RequeuedAll`, `PublishableByJob`, ...)
stand directly above the definition they vary and are used by nothing else: a property is worth
its place only if one of them breaks it.


### Scan jobs

`disk` is the tree; a *version* of a path is everything an observation of it can tell apart.
`policy` is the scope's row, its exclusions and its grant. `job`, `queue`, `staged`, `manifest` are
the tables. `seen` and `steady` are history: what was true of each path since the job was created,
and which paths were there, and readable, all the time.

A batch is `Enter` (read fence, policy bound, grant checked), `Claim`, then rounds of `CheckPolicy`
(the assertion before each call), `Poll`, `NextEntry`, `Process`, `List`, `Stage`, and ends in
`Release` (after its budget, or for a pause), `Finalize` (nothing pending) or `Fail`. `Process` and
`List` are two steps because the file system can change between the metadata of a folder and its
listing. `ProcessUnreadable` and `ListUnreadable` are the read errors that become issues of the
scan: what they hide may be missing from the manifest, and is taken out of `steady`. Any call may
find its runner robbed (`Abort`): the row is left to its new owner. `RequestPause`, `ResumeJob`,
`CreateJob` are the users; `Tick` lets leases run; `OpenDatabase` recovers expired jobs.
`ApplyExclusion`, `RevokeRoot`, `Grant`, `LapseGrant` change the policy. A batch holds the scope's
read fence, so that the first two wait for it; the grant is not fenced and lapses at any moment.

Abstracted: raw path bytes and normalisation, counters and issues of the progress row, edges, SQL
triggers (their effect is in the guards), the order of row ids (any pending entry may be next).

### Rename journal

`journal` is the append-only event list of each plan, `StateAfter` and `Follow` the reducer of the
journal, `command` the idempotency table of requests, `lease` the executor lease, `evidence` the
file version a command is bound to. `disk` is one folder (names to the plan's file, another file
or nothing), `unsynced` the earlier images that a power loss may bring back until the directory is
flushed. `proc` is the stack of each process. `run_rename_command` and `recover_rename_actions` are
the two entry points (`Begin`, `Recover`); each step between two points that others can see is an
action (`AcquireLease`, `Bind`, `Prepare`, `AppendIntent`, `Check`, `Rename`, `Settle`, `Confirm`,
`Verify`, `Complete`, and for recovery `Observe`, `ObserveAfter`, `Inspect`, `Conclude`).
`FailedCall`, `Crash`, `PowerLoss`, `ExpireLease` and `ChangeFolder` fall between any two.
`syscalls` and `seen` are history.

The renameat2 adapter is compiled for the repository's tests only (`direct_rename_supported`,
`platform_rename.rs`): production refuses before the system call. The model is of the coordinator
as the tests run it, since that is the code that would be opened.

Of a file the model knows its metadata and its bytes separately, since an identity check compares
the first and a hash the second. Names are model values; hashing, permissions and path encoding
are left out.

### Extraction

One file of one scope. Its *version* is what `validate_open_file` tells apart; no two states of the
file share one, so a file written twice with its time restored is out of the model. `manifest` is
the file's row, `observed` what the scan or watcher under way has seen of it; `handle` is what an
open file handle shows (a write in place shows through, a replacement does not). A run is `Begin`,
`Claim`, `Open`, `Read`, `Recheck` under the read fence, and `Poll`, `AssertPolicy`, `Complete`
without it; errors go `ErrorPoll`, `Invalidate`, `Fail` or `Cancel`, a refused OCR slot `Requeue`.
A poll that fails counts as a cancellation for content and as an error for OCR, as in the code.
`Invalidate` withdraws the file's output without looking at token or lease, as
`invalidate_content_for_node` does; its two statements are one action here. Row ids are reused
after a purge, because the code's are.

Abstracted: chunking, limits, provenance, image metadata (a part of the text), the second scope of
a file reached from two scopes, and observations older than the last publication.

### Scope fence

`lockFiles` is the pair of lock files in the fence folder (gate and data, made and removed together),
`bound` the pair the database has bound on first use, `fencePolicy` the revision and the grant,
`fenceCall` each process: its step, the binding it took before any lock, the pair it has open, the
locks it holds, and an outer fence it may already be inside. `BindPolicy`, `OpenFiles`, `Identify`,
`TakeGate`, `TakeShared` or `TakeExclusive` and `Check` are the steps of an acquisition in the code's
order; a reader opens the gate after the check, a change keeps it. `TimesOut` is the two seconds;
readers wait for the data file without a limit, with the gate in their hands, and
`GateHolderNeverWaits` says that they never have to. `Replace` removes the files under everybody's
feet, `Regrant` is a change of the grant that takes no fence, `ProcessDies` lets the system drop the
locks. A process that reads and changes is one of each here.

### Privacy purge

One scope with a folder in it: `rows` (locations: path to node), `nodeTable`, `elsewhere` (nodes that
another scope locates), `derived` (rows of six kinds that refer to a node at a path, write down
paths, or stand on the evidence of a relation or group), `exclusions`, `grant`. `ExcludeBatch` and
`RevokeRoot` are the two transactions: they collect targets (`TargetsOf`, `FullTargets`), are refused
by a plan that has begun (`Blocked`) and by foreign keys (`Referenced`), and delete with everything
that follows (`Purge`). The other actions make rows as scans, extractions, suggestions and plans do.
Receipts, tombstones and impact counts are left out.

### Access grants

`grants` (state, and whose bytes are stored), `accesses` (what each host's registry holds),
`grantCall`, and the history `withdrawn`. `StartHost`, `Acquire`, `Fails` / `Resolves`, `Keep`, `Run` are
`restore_scope_access_registry` with its fence; `Select` and `Authorize` compare overlaps once before
and once in the transaction; `AddByCommand` is the command line; `Revoke` waits for restorers of
the folder. What a bookmark resolves to is decided when it is restored.

### Desktop host

Commands are *programs*: sequences of steps with the mutex each takes and keeps (`lock`), tries
(`try`) or only needs free (`look`, `admit`, ...). `Program` lists eleven kinds of commands with the
locks in the code's order; `Ends` drops whatever a command holds, by success or error, at any step.
`previews` are the two registries with their limit, `made` the number of a preview, `applied` and
`withdrawn` history. `Derive` changes what a revocation would purge at the same revision,
`ChangeElsewhere` is another host.

### Watch events

`event` are the active rows of `watch_events`, `job` the live scan reduced to what it has read,
`proc` a call's stack, `coord` the memory of the coordinator (due, retries, the events still to
visit). A hint is `LookAtHint` and `RecordHint`; an advance is `Start`, `Look`, then `RecordChange`,
`Ignore`, `Widen`, or a delta (`Bind`, `Anchor`, `Publish`), or `BeginReconciliation`, a batch
(`Claim`, `ReadPath`, `EndBatch`, `CompleteScan`, `FailScan`, `LoseBatch`), and `CompleteEvent` or
`FailEvent`. `BeginCycle`, `Visit`, `AdvanceDue`, `EndCycle`, `Schedule` are `run_cycle_at_time`. An
event's row carries its *deadline* (`stable_after_unix_ms`), since a publication compares it with the
one it read: it is how a delayed call notices that the event was observed again. A deadline is a
member of a small set, and a new one differs from those that running calls have read: two
observations that different processes make of one scope are taken to fall in different milliseconds
while a third call is delayed over a whole window. `seen` and `dropped` are history: the newest
version a kept hint is about, and the paths whose event failed and left them to the periodic
reconciliation.

### Native watch sources

`lifecycle`, `signals`, `flags` and `token` are the callback's side (admission, bounded queue,
overflow and failure flags, wake channel), `source` the registrations, `loop` the watch thread,
`registry`, `granted`, `barrier`, `gate` and `revocation` the host's side of
`confirm_scope_root_revocation`. The lifecycle is asked again under its lock before anything is
written (`Admitted`); a drain is bounded; a failing cycle drops what it drained (`lost`). The platform
decides when it reports a change, or that it failed.

### OCR slot

`gate` with its phase and its reservation, the flag `active`, `ocrCall` and `worker` of each job, and
`control`. Every operator on the gate is one critical section of its mutex; between two of them
the caller, the worker and the control move independently. On Windows the worker outlives a caller
that gives up and clears the flag before it opens the gate, each in a step of its own (`Deliver`,
`ClearFlag`, `FinishCleanup`). On macOS the call runs the operation itself.

### Content readers

A text is the sequence of the widths of its characters; `Floor` is the last character boundary up
to a byte, `ChunkEnd` and `NextStart` the cutting loop with its overlap. The reader goes through
limits, probe, admission, unpacking (claimed and real sizes differ), units and chunks, and may be
cancelled or late at any of them.

### Relations, projects, screenshots and plans

`FileRelations` keeps files and their bytes apart from what metadata says (`Write` may leave size and
time as they were), and a service call's look at the disk apart from the time it takes and the
transactions it makes. `Latest`, `Readable`, `Equivalent` and `State` are the queries that find which
decision applies to which observation. It models the portable binding of a cleanup plan; the Unix
binding also compares directory entries.
`ProjectCandidates` keeps a manifest per completed scan and reads facts and time in separate queries,
three times over, as the code does; scores are left out. Two scans are taken not to complete in the
same millisecond. `CleanupInbox` has the grouping algorithm as a recursion over the images in the
code's order, the inbox answer item by item, and a plan from selection to row. `RenamePreview` walks from the
manifest row over the file, the folder and the hash to the row of the plan, on Unix and elsewhere.

### Lexical search

`BeginSearch`, `Bind`, `ReadPaths`, `ReadTexts`, `Compare`, `Rank`, `LookAgain`, `Answer` are the
steps of one search; what matches a query is any list that the policy conditions of the query admit.
`Combined` and `SortKey` are the fusion of the two lists, `RankCandidates` its order; a read-only store
(MCP) reads in one transaction.

## 4. Runs

| Run | Instance | Distinct states | What it shows |
|---|---|---|---|
| `scan_jobs` | 1 job, 2 runners, 1 version, 1 change, 1 fault, batches of 2 | 960 000 | `NoStrandedEntry`, `OwnerKnowsEntry`, `DoneStaysDone`, `PublishIsComplete` under pause, resume, theft of leases, crashes and a tree that changes |
| `scan_policy` | 2 jobs in turn, 1 runner, 2 versions, 1 change, 2 revisions | 1 180 000 | `LiveJobIsCurrent`, `PolicyRespected`, `PublishIsHonest`, and the refinement of `AtomicManifest` under exclusions and revocation |
| `scan_pause_doc` | 1 job, 1 runner | finds a trace | a pause can leave the job leased (section 7) |
| `rename_journal` | 1 plan, 2 requests, 2 processes, 1 foreign change, owners may stall | 318 000 | `LegalHistory`, `OneRenamePerRequest`, `AnswersAreWitnessed`, `OutcomeIsFinal` |
| `rename_atomic` | the same, owners do not stall, 1 fault, nobody else in the folder | 80 000 | `ExecutedIsInPlace`, the refinement of `AtomicRename`, `Resolved` |
| `extraction_parts` | 2 jobs with 2 runners; and 1 runner with both operations, 2 revisions, 1 fault | 850 000 | `ContentIsCurrent`, `ContentIsComplete`, `LiveJobIsCurrent`, `FinalStaysFinal`, the refinement of `AtomicContent` |
| `extraction_stale_doc` | 1 job, 2 runners | finds a trace | a late runner withdraws its successor's output (section 7) |
| `components` | seventeen parts, see below | 1 182 000 | the safety of every other component |
| `live` | seven parts, see below | 123 000 | `LeaseReleased`, `CancelHonoured`, `ScanEnds`, `Converges`, `ChangeIsServed` |
| `revocation_doc` | 2 files, 2 nodes | finds a trace | a replaced file can block a revocation (section 7) |
| `version_swap_doc` | 2 versions, 1 caller | finds a trace | a decision is shown for the opposite question (section 7) |
| `ocr_cleanup_doc` | 3 jobs on Windows | finds a trace | the slot is given out while a worker is there (section 7) |

**Parts.** `components`, `live` and `extraction_parts` hold several models, or several instances of
one, that share no state. The variable `part`, fixed in the initial state, says which of them moves;
the others keep their initial values, so that the states of a run are the sum, not the product, of
those of its parts. (The instances of `MCComponents` share its variables `u1` to `u15` for the same
reason.) A property of several parts is the conjunction of what each part promises:
`RevocationIsComplete` of `NativeWatch` (registrations, silence of retired callbacks), `HostCommands`
(nothing in reach, confirmed as shown) and `AccessGrants` (revoked stays revoked, active folders
disjoint); `EvidenceIsCurrent` of relations, projects and screenshot groups; `PlanIsBound` of
duplicates, screenshots and rename plans; `AnswerIsPermitted` of the inbox and the search. The other
properties are of one part. Instances:

| Part | Instance |
|---|---|
| `watch` | 1 path of every kind, the coordinator and a command-line process, 2 events, 1 change, 1 call (`components`); the coordinator alone, 1 change, 1 fault (`live`) |
| `native`, `burst` | 2 files in 2 folders (in 1, for liveness), a queue of 1, one drain a cycle; with 1 change and 1 failure, or with 2 changes |
| `fence` | 2 readers, 1 change of the policy, lock files replaced once |
| `purge` | 2 files and a folder, 2 nodes, 3 derived rows |
| `duplicates`, `versions` | 2 callers, 2 files, 2 observations, 1 decision, 1 plan; all observations in one millisecond, or in two |
| `ocr` | 2 jobs, both platforms |
| `reader` | 4 texts of characters of 1 to 3 bytes, files of each kind, limits that cut in every place |
| `host`, `registry` | 2 callers, 1 preview; 1 caller, 3 previews where 1 is kept |
| `projects` | 1 root, 2 markers, 3 scans, 2 revisions |
| `inbox` | 3 images, groups of 2, inbox of 2, 1 edit |
| `search`, `chunks` | 2 scopes with an entry each, 1 chunk; 1 scope with 2 entries of 2 chunks; 1 change |
| `preview` | 2 folders, 2 files, 2 writes, both platforms |
| `grants` | 2 overlapping folders, 2 hosts, the command line |
| `extraction`, `reextraction`, `scan`, `rescan` | 1 job with 2 runners; or 1 that crashes and comes back |

**Bounds.** `NumJobs`, `MaxRevision`, `MaxChanges`, `MaxFaults`, `MaxVersion` and the like bound how
often something happens, `LeaseTicks` and `BatchSize` are parameters of the program. Two runners are
enough for theft: a third can only repeat what the robbed one does, since both are refused by the
same token. Two jobs are enough for a publication over an earlier one and for a resumed job beside
a new one. Three paths are the smallest tree with something below a folder, which is what partial
listings, pruning by exclusion and the order of entries need. Two versions let an observation be
stale. One foreign change puts another file, a missing file or edited bytes between any two steps
of a rename. A queue of one signal overflows at the second change; a registry of one preview evicts
at the second. Two overlapping folders and two hosts are every pair of selections and restorations.
Where a bound might still hide something, the proofs of section 6 say for which properties it does
not.

**No deadlock check** in most runs: jobs and requests end, the bounds are reached, and then nothing
is left to do. In the extraction runs a file can always be observed again, so the check stays on
there and says little; liveness is checked by properties of its own.

**Symmetry** only permutes runners, or requests and processes, and only in runs without liveness.

## 5. Fairness

*Scan.* A batch that is under way goes on (`WF` of `Step`: it is one thread without waits); the
clock runs; somebody opens the database again (every status query of the desktop and every command
does, and opening recovers); and `run_scan_job_to_terminal` enters batch after batch while the job
is ready. Nothing is assumed of users, policy changes or the file system. `ScanEnds` is therefore
qualified by what stops the loop: a pause, a lapsed grant, a root that is gone.

*Rename.* Every process that runs goes on; the lease of a process that is gone runs out; recovery is
started again and again (`SF`: it competes with callers for the plan). Liveness is checked with
owners that do not outlive their lease: two owners that each stall past it can take turns for ever.

*Extraction.* Runners go on, leases expire, the database is opened again. A crash ends the runner's
stack, so that fairness of its steps promises nothing for the job: only expiry and recovery do.

*Watch events.* The coordinator's calls run on and its loop turns (`WF`); leases end; and time
passes: the poll falls due, a window ends, a retry is over. These are strongly fair, since a cycle
is under way in between and they count only while it rests; a cycle does not stop the clock.
`Converges` is qualified by hints that never stop and by scans that only a person would take up.

*Native sources.* The callback's thread, the watch thread and the thread of a revocation run on
(`WF`); every wait of the loop has a time-out in the code. Nothing is assumed of the platform.

## 6. Proofs

All theorems hold for every value of the constants that satisfies the named assumptions: tokens
that are no runners, `Absent` no version, bounds that are natural numbers, and a tree in which
every path hangs below the root (`TreeAssumption`, stated as an induction principle because that is
how it is used); a reader of the fence is no change (`FenceUsersAssumption`), a folder is no file
(`PurgeAssumption`), `NoCaller` is no caller (`HostAssumption`), `Unread` is no observation
(`WatchConstants`), files and limits of a reader are finite texts and numbers (`FilesAndLimits`). An
assumption of a theorem itself is named below. Each of `ContentProofs`, `SuggestionProofs`,
`HostCommandsProofs` and `PolicyAndWorkProofs` holds several components that share nothing: their
theorems are about the specification each names.

**Scan jobs** (`ScanJobProofs`). Each layer is inductive
relative to the ones before.

- `TypeCorrect`: `TypeOK`. The ranges are real claims: a batch's budget and a lease never pass their
  maxima, a revision never exceeds its bound.
- `OwnershipHolds`: one live job, a token on a row exactly while it is leased, a runner's token only
  on the job of its own batch. `TypeOK` alone does not keep two runners from sharing a job.
- `LiveJobsAreCurrent` needs nothing else: every policy change purges live jobs with its bump.
- `EntriesHold`: at most one entry of a job is in processing; if its owner is a runner that
  processes something, it is that runner's entry; no token, no such entry. `NoEntryIsStranded` and
  `OwnersKnowTheirEntry` follow.
- `FrontierHolds`: every path that stayed in place is staged, or queued, or below a folder that
  is still in the queue or in the listing its runner holds. With an empty queue and an idle hand
  this is `PublicationIsComplete`; the step from "every child of a staged folder is staged" to "every
  path" is `TreeAssumption`. `DoneWorkStays` follows from the effect of each step on the queue.
- `WithheldHolds`: what a live job has staged or queued is outside the exclusions; gives
  `PolicyIsRespected`. `HonestHolds`: what is staged, or held by a runner, was seen; gives
  `PublicationIsHonest`. `Implementation` maps every step to one of `AtomicManifest` or to none.

**Rename journal** (`RenameJournalProofs`).

- `Base` holds the types together with the shape of the journal (events of one request are
  contiguous, a request is asked at most once) since the type of what a call remembers depends on
  it; `HistoryIsLegal` is a part of it, `OutcomesAreFinal` an action property from it.
- `Once` adds: a process at its system call is the only one that can reach it for its request,
  because the intent it appended is unique, and a request whose call was made is no longer in front
  of one; gives `RequestsRenameOnce` although leases may end at any time.
- `Witness` is what makes answers honest. A call that works on a request, and an item that recovery
  has listed, is backed by a row that stays in the journal (`Backed`); while a request is in its
  intent, everything a look at the folder would show has been noted (`SeenIsNow`); and a call past a
  look has seen what it is about to report (`SawTheFolder`). With these, `ReportsAreWitnessed` holds
  under stalled owners, crashes, power losses and foreign changes.
- `InPlace` is for owners that do not outlive their lease and a folder nobody else changes
  (`~StalledOwners`, `MaxChanges = 0`, and `Distinct`: no plan's source or destination is another
  plan's destination). A working call then owns its live lease, so that it alone works for its plan and finds
  the journal where it left it; an executed plan's file is under its new name in every image that a
  power loss may bring back. Gives `ExecutedStaysInPlace`, and `RenamesAreLeased`.
  `Distinct` is needed: if two plans of a file share a destination, one may crash between its intent
  and its rename, the other executes, and the recovery of the first finds its file where it should
  be and reports it executed; undoing the second then takes the file from under the first.
- `RenamesAreAtomic`: under the same assumptions the journal with its leases, retries, recoveries and
  faults implements `AtomicRename`, for any number of plans of a file. The map takes the place of the
  file from `disk`, the kind of a request from `command`, and its phase from its last journal row and,
  for an intent, from whether the file has moved (`Phase`). `Accept` is `Open`, `Rename` is `Move`, a
  row that answers is `Answer`, and every other step of a process stutters. A power loss is a `Revert`:
  it may take back several renames that nobody was told of, those of requests that need attention
  included, which is why `Revert` takes a set. On top of `InPlace` this needs `Mapped`: a plan that has
  not renamed has its new name in no image of the folder (`Untouched`), nor has one in its intent to
  execute while its file is not there (`Executing`); a call that is about to answer has seen what it
  answers, in every image (`Telling`); each image that a power loss may bring back is the place before
  some rename that was not answered yet (`Origins`); and every row of a request belongs to its kind
  (`RowsBelong`).

**Making a plan** (`RenamePreviewProofs`, for any folders, files and numbers of writes).
`PlansHashTheirRow`: `PlanHashesItsRow`. A version only grows, so that what the call has read is
bracketed: from its binding on, the version of the row is no newer than the file, and each part
hashed lies between the two (`HashIsRecent`). The binding that is compared after the hash closes the
bracket, and the hash is of the version of the row alone (`HashIsOfRow`). A call that compares only
before it hashes keeps `HashIsRecent` and loses `HashIsOfRow`.

**Extraction** (`ContentProofs`). Below the layers lies `NextMoves`: what one step may do to a
row (create it, move a live one without touching what identifies its work, leave it) and to a
runner. It is proved once, an action at a time, and every later layer argues from it.

- `TypeCorrect`: `TypeOK`. `FinalRowsStay` follows from `NextMoves` alone.
- `LiveJobsAreCurrent` comes with `Rows`: live jobs have the current revision, and a runner whose
  token is on a row is past its claim of that very job. A policy change that does not hit the file
  keeps the rows and moves their revision along; one that does, purges them.
- `ReadingHolds`: an open handle is never ahead of the file, and the file's state only grows. For the
  owner of a job the text it read lies between the state the job names and the state its handle
  shows, so that the recheck, which finds the handle still in the job's state, pins all three
  together. This is why a write in the middle of a read cannot be published, even in part, and why
  the recheck has to come after the last read.
- `Shown` joins `ContentIsCurrent`, `ContentIsComplete` and the fact that a file without a job shows
  nothing. It is inductive with `Reading`: what `Complete` publishes is the text of `Reading`, and
  every change of the manifest row drops the output of another state. `ShownIsCurrent` and
  `ShownIsComplete` are its parts; `Implementation` maps every step to one of `AtomicContent` or to none.

**Content readers** (`ContentProofs`, from `FilesAndLimits` alone). `OutputsAreWhole`: `OutputIsWhole`.
Between two units the chunks cover the texts of all units before, in order, and each last chunk of a
unit ends with its text (`Whole`); within a unit the same holds of the units before, and the next
start lies on a character boundary within the chunk before, and after its start (`Cutting`). That the
loop advances, and never leaves a gap, is a pair of lemmas about `Floor`, `ChunkEnd` and `NextStart`: ends
keep the order of starts, a chunk that would be empty is refused, and an overlap that would not advance
is dropped. What is
written stays within the limits as sums over the chunks do (`WithinLimits`).

**Search** (`ContentProofs`; `Entries` and the limits are natural numbers).

- `SearchesShowWhatIsPermitted`: `ResultsArePermitted`. `SearchSound` says of every search under way,
  however often the policy changed: while the revision of a folder is still the one its candidates were
  compared with, none of them is excluded (`Compared`); a result belongs to a folder that was
  compared, and is still to be looked at again or was (`Ordered`); for the MCP server the revision it
  was bound to is no newer than the one compared (`Served`). Access that lapses and comes back leaves the
  revision alone, so each answer looks at the grant too.
- `SearchesListTheBest`: `BestAreListed`, for lists of any length. `RanksFirst` is kept by the recursion
  of `RankCandidates`: what is listed is in order, and before all that is left. The marks that the two
  lists leave on a location are its first place in each, so that a location that beats another by
  `Beats`, which is stated over the two lists, precedes it by `SortKey`. Needs `0 \notin Chunks`: 0
  stands for no snippet.

**Policy, purge and grants** (`PolicyAndWorkProofs`).

- `FenceIsCorrect`: `FenceHolds` for any number of readers and changes. `FenceInv` says which locks a
  call holds at each of its steps and that the pair it has open is the bound one once it is past
  `Identify` (`CallsAreLocked`), that one process is at the gate of the bound pair
  (`OneAtTheGate`), and that a change with the data file is alone with it (`ChangesAlone`).
  Whoever was inside before it has left, and nobody comes in past the gate it keeps.
- `PurgesAreComplete`: `PurgeIsComplete`. `PurgeInv` adds to what is withheld that no location has
  the identity of an exclusion, that no derived row names a withheld path, and that what stands on a
  relation or group has that relation or group in the table. The last is what lets a purge find
  plans by their source.
- `GrantsAreSafe`: active folders are disjoint and what is revoked stays so, for any number of
  folders and hosts and any overlaps (`OverlapsAreOfTwo`: no folder overlaps with itself).
  The strengthening is that no host holds the fence of a folder that is withdrawn: a restoration
  that passed its check before the revocation is drained, one after it passes the folder over.

**Desktop host** (`HostCommandsProofs`).

- `HostIsWellTyped`: `HostShape`, the shape of locks, previews and calls; a call's position lies in the
  program of its command.
- `NoDeadlockOfMutexes`: `NobodyWaitsInACircle` for any number of callers. `MutexesWereTaken`: who
  holds a mutex is past the step of its program that locks it. From the programs alone it follows that
  whoever holds `accesses` waits for no mutex, whoever holds `database` waits at most for
  `accesses`, and whoever holds the path gate for those two; hence no circle. The argument is over the
  programs, so a command that takes them in another order breaks it.
- `RevocationWithdrawsReach`: `RevokedIsOutOfReach`, which `RevocationIsComplete` contains. `ReachInv`
  says that a caller at each step between the commit of a revocation and its withdrawal still holds
  database and fence, and that a preview or capability of the folder can only be made by a caller that
  holds the one or finds the folder granted.
- `ConfirmationsAreAsShown`: `ConfirmedAsShown`. `ConfirmInv`: the number of a preview is at one place
  only (a registry, a hand, or history), and none is above `made`.

**Native watch sources** (`HostCommandsProofs`; the capacity and the drain limit are natural
numbers). `RevokedFoldersAreUnregistered` and `RetiredSourcesAreSilent`: `RevokedIsUnregistered`,
`RetiredIsSilent`, which `RevocationIsComplete` contains. `Barrier`: a pass answers for no ticket that
was not requested, and once the ticket of a revocation is acknowledged no registration of its folder is
left, because the grant was gone before the ticket was drawn. `Closing`: a source that is not open has
no registrations, and the loop ends with its source closed. `Silence`: the retirement of the source
comes before its queue is cleared, so that a callback that entered before finds it retired when it
asks again, and writes nothing.

**Relations** (`FileRelationsProofs`, from `PlacedFiles` and `MaxTime \in Nat`).

- `RelationsAreWellTyped`: `RelationsTypeOK`; observations, decisions and plans refer to rows that exist
  and agree on the pair of files.
- `DecisionsAreFresh`: `DecisionIsFresh`. The code finds the observation a decision is about by its time,
  files and kind, not by its row. `Timely`: the time a call has drawn is no earlier than that of any row
  recorded before the call began, and once the call has recorded there is a later row of its pair at
  that time; and the latest such row is the one that is found. Many calls may draw one time.
- `PlansAreUndecided`: `PlanIsUndecided`; the selection is looked at again in the transaction that
  writes the plan.

**Projects and the cleanup inbox** (`SuggestionProofs`).

- `SignalsAreOfOneScan`: `SignalsAreOfTheirScan`, from `MaxScans \in Nat`, `MaxRevision > 0`. `Sound` says
  what a discovery knows at each of its queries: the markers are of the scan whose time it read if that
  is still the latest; once the time was compared again they are of that scan for good.
  `ProjectsAreWellTyped`: a folder has one project (`RootsAreUnique`).
- `GroupsOfTheInboxAreExact`: `GroupsAreExact`, for any images, shapes, times and window (`InboxBounds`:
  images are numbered from 1, as row ids are, and there are finitely many; bounds are natural
  numbers). `Before` is a total order, so the
  sorted sources exist (by the least element, one at a time). `GoodGroups` is kept as the recursion of
  `AllGroups` goes over the sources: a group is in order, belongs to its first member, and leaves out
  none of the images so far that all its members would take in (`GoodGroup`); a group that is not the
  last takes in nothing that comes later (`Closed`), because the image that closed it comes before.
  That nothing is observed twice follows from the single transaction of a discovery.
- `PlansAreOfCurrentEvidence` and `InboxAnswersArePermitted`: `PlanOfCurrentEvidence`,
  `AnswersArePermitted`. `Kept`: what a call has read is present as long as the revision is the one it is
  bound to, and while the answer is complete, what was shown, lost and not yet evaluated adds up to
  what was listed. An item that fails without being counted breaks it, so `complete` must fall.

**Watch events and the OCR slot** (`PolicyAndWorkProofs`).

- `HintsAreKept` and `ManifestIsNeverOlder`, for any number of files, events and processes. `WatchInv`
  relates every stack to the tables: nothing recorded or staged is ahead of the disk, a job that is
  not there has read nothing, a delta in its window has a path, and (`Serves`) *while the row still
  carries the deadline that a call read, nothing newer was hinted of its path than what the call is
  about to publish*. This is where the deadline matters: a publication compares it, so that it cannot
  close an event that was observed again since. The proof attempt found the model without deadlines
  wrong: three processes could bring the row back to what a fourth step had read. Publications go
  forward because the row of the manifest is compared in the same transaction.
- `SlotNeverLost`: `SlotIsNeverLost` for any number of jobs. `SlotInv`: exactly the calls between
  `claim` and `drop` hold the gate and there is one, the flag is up while a worker is at work and
  there is one, and a gate in cleanup has a worker that has not come to its end.

**Only model-checked.** Liveness (`LeaseReleased`, `ScanEnds`, `Resolved`, `CancelHonoured`,
`Converges`, `ChangeIsServed`): proofs of leads-to and of ENABLED are out of reach of the prover as
installed. `RevocationIsComplete`, `EvidenceIsCurrent`, `PlanIsBound`, `AnswerIsPermitted` and `TypesOK`
are conjunctions over the parts of one run, which fix the constants of each; every conjunct of the
first four is a theorem about its component for every value of them, and so are the parts of `TypesOK`
for relations, projects, inbox, search, readers, plans and native sources; for the others the inductive
invariant contains the types its proof needs. The conjunction itself, over states in which one part moves at a time,
has no meaning beyond that run. The documented claims of section 7 are refuted by their runs.

The library's induction rules cannot be instantiated here, so recursive functions are reasoned
about by least counterexample: the set of arguments at which a claim fails has a least member if it
is not empty (`WFMin` of the library; `LeastNumber`), and the definition of the function at that
member contradicts it.

## 7. Where the program and its documents disagree

- **Pause.** ADR-011 says a worker that sees a pause request releases its lease. The batch reads
  the request and then asks for the next entry (or finalizes) in another transaction, which
  requires the control state `active`; a pause that lands between the two is answered with an error,
  the batch returns and the job stays leased until the lease expires. It is then reported
  interrupted, not paused. No entry is lost (`NoStrandedEntry`). Run `scan_pause_doc`.
- **Late extraction runner.** ADR-012 says a failure preserves the prior complete extraction, and the
  service that stale runners are not let in. `invalidate_content_for_node` checks neither token nor
  lease: a runner that lost its job withdraws what a later runner of the same job has published.
  What search shows is then too little, never wrong. Run `extraction_stale_doc`.
- **Revocation.** ADR-033 says that revoking a root immediately removes its capability, and its data
  with it. Content that was extracted from a file keeps its row of `locations` after the path was taken
  by another file; the purge deletes derived rows by their node and locations by their path, and
  the foreign key of what is left refuses the revocation, for ever. Run `revocation_doc`.
- **Versions.** ADR-023 says that a rename that changes the direction of a version pair cannot inherit
  a decision. A decision is looked up by the files that are *now* where its observation was made;
  after the two files swap names it answers the opposite question. Run `version_swap_doc`.
- **OCR cleanup.** ADR-024 says that the gate stays shut until a cleanup finishes. `finish_cleanup`
  opens any gate that is in cleanup, whoever's cleanup that is: a worker that comes late opens it
  under the next one, and the job that gets the slot then fails for good on the flag, where it should
  have been refused for now. The flag still keeps two workers apart. Run `ocr_cleanup_doc`.

Smaller remarks, without a run of their own:

- The comment on the rename lease says a process that lost it must reacquire before another system
  call. The coordinator proves the lease when it appends the intent and calls rename without looking
  again (`RenameUnderLease` holds only without stalled owners: `RenamesAreLeased`); migration 0019
  itself says that a process fence is missing, and the adapter is closed. `OneRenamePerRequest` holds
  all the same.
- A project that is purged gives its id free (db 7279, 7500), so that feedback sent for the old id may
  reach a project that got the id since (ADR-019).
- A grant that the command line added cannot be restored by a host and lapses at its next start; the
  comment at db 4010 calls `upsert_scope_access_grant` the one operation that activates a grant, but
  `add_coverage_roots_with_access_grants` does too.
- Nothing keeps two rename plans of a file from sharing a destination (see `Distinct` above).
- Two observations of a watch event that get the same deadline, to the millisecond, by different
  processes, while a third call is delayed over the window, could pass for one (see `WatchEvents`).

## 8. Not modelled

Not planned: presentation (desktop UI, localisation), telemetry, platform calls (identity, OCR
engines, bookmarks, native watchers), the development tools, and encodings; they hold no shared
state or are external to the program. The execution of cleanup plans does not exist in the code.

Taken as given: SQLite (a transaction is atomic, isolated and durable, `synchronous = FULL`); a wall
clock that does not go back within a process; two scans never complete in the same millisecond
(`ProjectCandidates`); observation deadlines as said above (`WatchEvents`).
