----------------------------- MODULE WatchEvents -----------------------------
(* Watch events of one scope (crates/watcher/src/lib.rs, watch_events in the *)
(* database): hints become durable events, events become a one-row delta or  *)
(* a reconciliation by a full scan.  A call of ManifestDatabase and a look   *)
(* at the file system are one action each; what a call keeps on its stack    *)
(* between two of them is in proc.  The coordinator is one process among     *)
(* those that use the database; the others are command-line calls.           *)
EXTENDS Naturals, FiniteSets, FiniteSetsExt

CONSTANTS
    Paths,          \* files of the scope
    Identities,     \* file identities a path can have
    Kinds,          \* what else a path can be: subset of {"gone", "link", "fifo"}
    Coordinator,    \* the polling runtime of the desktop
    Users,          \* processes that run command-line calls
    NumEvents,      \* rows of watch_events that can be active together
    MaxVersion,     \* bound: changes of files
    MaxCalls,       \* bound: command-line calls
    MaxFaults,      \* bound: errors, crashes and late leases
    Unread, NoPath, NoProcess

Processes == Users \cup {Coordinator}
Events == 1..NumEvents
OtherKinds == {"gone", "link", "fifo"}

ASSUME WatchConstants ==
    /\ Kinds \subseteq OtherKinds /\ Identities \cap OtherKinds = {}
    /\ NumEvents \in Nat /\ MaxVersion \in Nat
    /\ MaxCalls \in Nat /\ MaxFaults \in Nat
    /\ Coordinator \notin Users /\ NoProcess \notin Processes
    /\ NoPath \notin Paths
    /\ Unread \notin [version : Nat, id : Identities \cup OtherKinds]

VARIABLES
    disk,       \* path -> what an observation of it tells apart
    manifest,   \* path -> the observation that is published
    event,      \* watch_events: the active rows
    job,        \* the live row of scan_jobs and what it has staged
    proc,       \* the call each process is in
    coord,      \* memory of PollingWatchRuntime
    used,       \* calls of users, and errors, crashes and late leases so far
    seen,       \* history: path -> the newest version a kept hint is about
    dropped     \* history: paths whose hint an event gave up

vars == <<disk, manifest, event, job, proc, coord, used, seen, dropped>>

Entries == [version : 0..MaxVersion, id : Identities \cup OtherKinds]
IsFile(entry) == entry.id \in Identities
Deadlines == 0..Cardinality(Processes)
NoEvent == [status |-> "none", kind |-> "full", path |-> NoPath, shot |-> Unread,
            deadline |-> 0, stable |-> FALSE, aged |-> FALSE, scan |-> "none"]
NoJob == [status |-> "none", pause |-> FALSE, read |-> [p \in Paths |-> Unread],
          owner |-> NoProcess]
Idle == [pc |-> "idle", at |-> 0, row |-> NoEvent, path |-> NoPath, hint |-> Unread,
         old |-> Unread]
\* The runtime's memory; a cycle drains native signals before it lists events.
AtStart == [due |-> TRUE, retry |-> {}, todo |-> {}, moved |-> FALSE, phase |-> "rest"]

-----------------------------------------------------------------------------
(* Rows. *)

Stabilizing == {e \in Events : event[e].status = "stabilizing"}
Active == {e \in Events : event[e].status # "none"}
Linked == {e \in Events : event[e].scan = "live"}
JobIsLive == job.status # "none"
\* An id that a running call still holds is not that of a new row.
NewIds == {e \in Events : /\ event[e].status = "none"
                          /\ \A x \in Processes : proc[x].at # e
                          /\ \A item \in coord.todo : item[1] # e}

\* A deadline is a time in milliseconds: that of an observation is not the one in a row that
\* a running call has read.
NewDeadlines == {d \in Deadlines :
                    \A x \in Processes : proc[x].row.status = "stabilizing" =>
                                          proc[x].row.deadline # d}

\* insert_watch_event
Inserted(row) == \E e \in NewIds :
                    /\ \A d \in NewIds : e <= d
                    /\ event' = [event EXCEPT ![e] = row]

KindOf(entry) == IF IsFile(entry) THEN "delta" ELSE "full"
WidenedKind(row, path, entry) ==
    IF \/ row.kind = "full" \/ KindOf(entry) = "full"
       \/ row.path # path \/ ~IsFile(row.shot) \/ row.shot.id # entry.id
    THEN "full" ELSE "delta"

Coalesced(row, path, entry, deadline) ==
    [row EXCEPT !.kind = WidenedKind(row, path, entry), !.path = path, !.shot = entry,
                !.deadline = deadline, !.stable = FALSE]

\* record_watch_observation_with_policy_at of a tracked hint
Observe(path, entry) ==
    /\ IF Stabilizing = {}
       THEN Inserted([NoEvent EXCEPT !.status = "stabilizing", !.kind = KindOf(entry),
                                     !.path = path, !.shot = entry])
       ELSE \E d \in NewDeadlines :
              /\ \A later \in NewDeadlines : d <= later
              /\ event' = [e \in Events |-> IF e \in Stabilizing
                                             THEN Coalesced(event[e], path, entry, d)
                                             ELSE event[e]]
    /\ seen' = [seen EXCEPT ![path] = Max({@, entry.version})]
    /\ UNCHANGED <<manifest, job, dropped>>

\* request_scope_full_reconciliation_in_transaction
Full(row) == [row EXCEPT !.kind = "full", !.stable = TRUE]
InsertFull ==
    IF Stabilizing = {}
    THEN Inserted([NoEvent EXCEPT !.status = "stabilizing", !.stable = TRUE])
    ELSE event' = [e \in Events |-> IF e \in Stabilizing THEN Full(event[e]) ELSE event[e]]
\* Slip: a scan that is under way is taken to serve the request.
RequestFullUnlessReconciling ==
    /\ IF Stabilizing = {} /\ Linked # {} THEN UNCHANGED event ELSE InsertFull
    /\ seen' = [p \in Paths |-> disk[p].version]
    /\ dropped' = {}
    /\ UNCHANGED <<manifest, job>>
RequestFull ==
    /\ InsertFull
    /\ seen' = [p \in Paths |-> disk[p].version]
    /\ dropped' = {}
    /\ UNCHANGED <<manifest, job>>

CoveredIn(ev, j, m, s, p) ==
    \/ m[p].version >= s[p]
    \/ \E e \in Events :
         \/ ev[e].status = "stabilizing" /\ (ev[e].kind = "full" \/ ev[e].path = p)
         \/ ev[e].status = "reconciling" /\ ev[e].scan = "failed"
         \/ ev[e].status = "reconciling" /\ ev[e].scan = "live"
              /\ (j.read[p] = Unread \/ j.read[p].version >= s[p])
Covered(p) == CoveredIn(event, job, manifest, seen, p)

\* The event e ends without having served what it was about.
GiveUp(e) ==
    /\ event' = [event EXCEPT ![e] = NoEvent]
    /\ dropped' = dropped \cup {p \in Paths : ~CoveredIn(event', job, manifest, seen, p)}
    /\ UNCHANGED <<manifest, job, seen>>

-----------------------------------------------------------------------------
(* Initial state: the initial scan is complete, nothing has happened since.  *)

Init ==
    /\ \E i \in Identities : disk = [p \in Paths |-> [version |-> 0, id |-> i]]
    /\ manifest = disk
    /\ event = [e \in Events |-> NoEvent]
    /\ job = NoJob
    /\ proc = [x \in Processes |-> Idle]
    /\ coord = AtStart
    /\ used = [calls |-> 0, faults |-> 0]
    /\ seen = [p \in Paths |-> 0]
    /\ dropped = {}

-----------------------------------------------------------------------------
(* Steps of a call. *)

At(x, pc) == proc[x].pc = pc
Fault == used.faults < MaxFaults /\ used' = [used EXCEPT !.faults = @ + 1]
Call(x) == /\ x \in Users /\ At(x, "idle") /\ used.calls < MaxCalls
           /\ used' = [used EXCEPT !.calls = @ + 1]
Goto(x, pc) == proc' = [proc EXCEPT ![x].pc = pc]
Return(x) == proc' = [proc EXCEPT ![x] = Idle]
UnchangedRows == UNCHANGED <<event, job, manifest, seen, dropped>>
MyEvent(x) == IF proc[x].at \in Events THEN event[proc[x].at] ELSE NoEvent

\* What the coordinator's cycle does with the outcome of an event.
Advanced(x) ==
    /\ Return(x)
    /\ coord' = IF x = Coordinator
                THEN [coord EXCEPT !.moved = TRUE, !.retry = @ \ {proc[x].at}] ELSE coord
Refused(x) ==
    /\ Return(x)
    /\ coord' = IF x = Coordinator THEN [coord EXCEPT !.retry = @ \cup {proc[x].at}] ELSE coord

-----------------------------------------------------------------------------
(* observe_watch_path: a look at the path, then one transaction.             *)

Drains(x, phases, phase) ==
    \/ /\ x = Coordinator /\ At(x, "idle") /\ coord.phase \in phases
       /\ coord' = [coord EXCEPT !.phase = phase]
       /\ UNCHANGED used
    \/ Call(x) /\ UNCHANGED coord

\* The hint of a drain, or of a command-line call.
LookAtHint(x, p) ==
    /\ Drains(x, {"rest", "asked"}, "drained")
    /\ disk[p].id # "fifo"
    /\ disk[p].id = "link" => x = Coordinator
    /\ proc' = [proc EXCEPT ![x] = IF disk[p].id = "link" THEN [Idle EXCEPT !.pc = "request"]
                                   ELSE [Idle EXCEPT !.pc = "observe", !.path = p,
                                                     !.hint = disk[p]]]
    /\ UnchangedRows /\ UNCHANGED disk

RecordHint(x) ==
    /\ At(x, "observe")
    /\ Observe(proc[x].path, proc[x].hint)
    /\ Return(x)
    /\ UNCHANGED <<disk, coord, used>>

\* A native overflow or failure, a second path of the scope, or a hint that failed.
NativeRecovery ==
    /\ \/ At(Coordinator, "request") /\ UNCHANGED coord
       \/ Drains(Coordinator, {"rest"}, "asked")
    /\ RequestFull
    /\ Return(Coordinator)
    /\ UNCHANGED <<disk, used>>

-----------------------------------------------------------------------------
(* advance_watch_event_with_mode. *)

FirstStep(row) ==
    CASE row.status = "reconciling" -> "scan"
      [] row.status = "stabilizing" /\ row.kind = "full" -> "force"
      [] OTHER -> "look"
Start(x, e) ==
    LET first == FirstStep(event[e])
    IN proc' = [proc EXCEPT ![x] = [Idle EXCEPT !.pc = first, !.at = e,
                                    !.row = IF first = "look" THEN event[e] ELSE NoEvent]]

\* The command line advances any active event once its window is over.
Advance(x, e) ==
    /\ Call(x)
    /\ e \in Active /\ (event[e].status = "stabilizing" => event[e].stable)
    /\ Start(x, e)
    /\ UnchangedRows /\ UNCHANGED <<disk, coord>>

Look(x) ==
    /\ At(x, "look")
    /\ LET entry == disk[proc[x].row.path]
           next == CASE entry.id = "link" -> "widen"
                     [] entry.id = "fifo" -> "ignore"
                     [] entry.id \notin {"link", "fifo"} /\ entry # proc[x].row.shot -> "record"
                     [] OTHER -> "bind"
       IN proc' = [proc EXCEPT ![x].pc = next, ![x].hint = entry]
    /\ UnchangedRows /\ UNCHANGED <<disk, coord, used>>

RecordChange(x) ==
    /\ At(x, "record")
    /\ Observe(proc[x].row.path, proc[x].hint)
    /\ Advanced(x)
    /\ UNCHANGED <<disk, used>>

\* mark_watch_event_ignored_at
Ignore(x) ==
    /\ At(x, "ignore")
    /\ IF MyEvent(x).status = "stabilizing"
       THEN GiveUp(proc[x].at) /\ Advanced(x)
       ELSE UnchangedRows /\ Refused(x)
    /\ UNCHANGED <<disk, used>>

Widen(x) ==
    /\ At(x, "widen")
    /\ RequestFull
    /\ proc' = [proc EXCEPT ![x] = [Idle EXCEPT !.pc = "force", !.at = proc[x].at]]
    /\ UNCHANGED <<disk, coord, used>>

-----------------------------------------------------------------------------
(* try_publish_watch_file_delta. *)

IsDelta(row) == row.status = "stabilizing" /\ row.kind = "delta" /\ IsFile(row.shot)

\* watch_file_delta_binding_at, and the comparison with the hint
Bind(x) ==
    LET row == MyEvent(x)
        bound == /\ IsDelta(row) /\ row.stable /\ ~JobIsLive
                 /\ row.path = proc[x].row.path /\ row.shot = proc[x].hint
                 /\ manifest[row.path].id = row.shot.id
    IN /\ At(x, "bind")
       /\ proc' = [proc EXCEPT ![x].pc = IF bound THEN "anchor" ELSE "widen",
                               ![x].row = row,
                               ![x].old = IF bound THEN manifest[row.path] ELSE Unread]
       /\ UnchangedRows /\ UNCHANGED <<disk, coord, used>>

\* anchored_regular_file_snapshot: two readings that agree with the event
Anchor(x) ==
    /\ At(x, "anchor")
    /\ Goto(x, IF disk[proc[x].row.path] = proc[x].hint THEN "publish" ELSE "widen")
    /\ UnchangedRows /\ UNCHANGED <<disk, coord, used>>

\* The age of an event is no part of what a publication compares.
SameEvent(x) == [MyEvent(x) EXCEPT !.aged = proc[x].row.aged] = proc[x].row
\* Slip: the row of the manifest may be another one.
UnmovedEvent(x) == SameEvent(x) /\ ~JobIsLive
\* The comparisons of publish_watch_file_delta_at
Unmoved(x) ==
    /\ SameEvent(x)
    /\ manifest[proc[x].row.path] = proc[x].old
    /\ ~JobIsLive

Publish(x) ==
    /\ At(x, "publish")
    /\ IF Unmoved(x)
       THEN /\ manifest' = [manifest EXCEPT ![proc[x].row.path] = proc[x].hint]
            /\ event' = [event EXCEPT ![proc[x].at] = NoEvent]
            /\ Advanced(x)
            /\ UNCHANGED <<job, seen, dropped>>
       ELSE Goto(x, "widen") /\ UnchangedRows /\ UNCHANGED coord
    /\ UNCHANGED <<disk, used>>

FileDelta(x) == Bind(x) \/ Anchor(x) \/ Publish(x)

-----------------------------------------------------------------------------
(* Reconciliation: force_scope_metadata_reconciliation_at_time and           *)
(* finish_reconciliation.  The batch is the one of ScanJob, reduced to what  *)
(* it reads and when it publishes.                                           *)

Fresh == [NoJob EXCEPT !.status = "ready"]

\* An event that ended meanwhile is no error, one that reconciles already is.
Forces(x) == MyEvent(x).status = "stabilizing"
\* begin_watch_reconciliation_with_policy_at
BeginReconciliation(x) ==
    /\ At(x, "force")
    /\ CASE MyEvent(x).status = "none" -> UnchangedRows /\ Advanced(x)
         [] Forces(x) /\ ~JobIsLive ->
              /\ event' = [event EXCEPT ![proc[x].at].status = "reconciling",
                                        ![proc[x].at].scan = "live"]
              /\ job' = Fresh
              /\ Goto(x, "scan")
              /\ UNCHANGED <<coord, manifest, seen, dropped>>
         [] OTHER -> UnchangedRows /\ Refused(x)
    /\ UNCHANGED <<disk, used>>

Finish(x) ==
    /\ At(x, "scan")
    /\ LET scan == MyEvent(x).scan
       IN CASE scan = "completed" -> Goto(x, "complete") /\ UNCHANGED <<job, coord>>
            [] scan = "failed" -> Goto(x, "fail") /\ UNCHANGED <<job, coord>>
            [] scan = "live" /\ job.status = "paused" -> Advanced(x) /\ UNCHANGED job
            [] scan = "live" /\ job.status # "paused" ->
                 /\ job' = IF job.status = "interrupted"
                           THEN [job EXCEPT !.status = "ready", !.pause = FALSE] ELSE job
                 /\ Goto(x, "claim")
                 /\ UNCHANGED coord
            [] OTHER -> Refused(x) /\ UNCHANGED job
    /\ UNCHANGED <<disk, manifest, event, used, seen, dropped>>

\* claim_scan_job; a scan the call cannot have is an error of its batch
Claim(x) ==
    /\ At(x, "claim")
    /\ IF job.status = "ready"
       THEN job' = [job EXCEPT !.status = "active", !.owner = x] /\ Goto(x, "read")
       ELSE UNCHANGED job /\ Goto(x, "fail")
    /\ UNCHANGED <<disk, manifest, event, coord, used, seen, dropped>>

Owns(x) == job.status = "active" /\ job.owner = x
UnreadPaths == {p \in Paths : job.read[p] = Unread}

ReadPath(x, p) ==
    /\ At(x, "read") /\ Owns(x) /\ p \in UnreadPaths
    /\ job' = [job EXCEPT !.read[p] = disk[p]]
    /\ proc' = [proc EXCEPT ![x].pc = "batch"]
    /\ UNCHANGED <<disk, manifest, event, coord, used, seen, dropped>>

\* A batch goes on, or gives the scan back; an event's call then returns.
EndBatch(x) ==
    /\ At(x, "batch") /\ Owns(x) /\ UnreadPaths # {}
    /\ \/ ~job.pause /\ Goto(x, "read") /\ UNCHANGED <<job, coord>>
       \/ /\ job' = [job EXCEPT !.status = IF job.pause THEN "paused" ELSE "ready",
                                !.owner = NoProcess]
          /\ Advanced(x)
    /\ UNCHANGED <<disk, manifest, event, used, seen, dropped>>

ScanEnds(outcome) ==
    /\ job' = NoJob
    /\ event' = [e \in Events |-> IF e \in Linked THEN [event[e] EXCEPT !.scan = outcome]
                                  ELSE event[e]]

CompleteScan(x) ==
    /\ proc[x].pc \in {"read", "batch"} /\ Owns(x) /\ UnreadPaths = {}
    /\ manifest' = job.read
    /\ ScanEnds("completed")
    /\ Goto(x, "complete")
    /\ UNCHANGED <<disk, coord, used, seen, dropped>>

\* An entry that cannot be processed fails the scan, then the call.
FailScan(x) ==
    /\ At(x, "read") /\ Owns(x)
    /\ Fault
    /\ ScanEnds("failed")
    /\ Goto(x, "fail")
    /\ UNCHANGED <<disk, manifest, coord, seen, dropped>>

\* Any other error of the batch leaves the scan as it is.
LoseBatch(x) ==
    /\ proc[x].pc \in {"claim", "read", "batch"}
    /\ \/ proc[x].pc # "claim" /\ ~Owns(x) /\ UNCHANGED used
       \/ Fault
    /\ job' = IF Owns(x) THEN [job EXCEPT !.owner = NoProcess] ELSE job
    /\ Goto(x, "fail")
    /\ UNCHANGED <<disk, manifest, event, coord, seen, dropped>>

\* complete_watch_reconciliation_at
CompleteEvent(x) ==
    /\ At(x, "complete")
    /\ IF MyEvent(x).status = "reconciling" /\ MyEvent(x).scan = "completed"
       THEN event' = [event EXCEPT ![proc[x].at] = NoEvent] /\ Advanced(x)
       ELSE Refused(x) /\ UNCHANGED event
    /\ UNCHANGED <<disk, manifest, job, used, seen, dropped>>

\* Slip: only an event in its window can fail.
FailEventInWindow(x) ==
    /\ At(x, "fail")
    /\ IF MyEvent(x).status # "stabilizing" THEN UnchangedRows ELSE GiveUp(proc[x].at)
    /\ Refused(x)
    /\ UNCHANGED <<disk, used>>
\* fail_watch_event_at
FailEvent(x) ==
    /\ At(x, "fail")
    /\ IF MyEvent(x).status = "none" THEN UnchangedRows ELSE GiveUp(proc[x].at)
    /\ Refused(x)
    /\ UNCHANGED <<disk, used>>

-----------------------------------------------------------------------------
(* run_cycle_at_time for one scope.                                          *)

BeginCycle ==
    /\ At(Coordinator, "idle") /\ coord.phase # "cycle"
    /\ coord' = [coord EXCEPT !.phase = "cycle", !.moved = FALSE,
                              !.todo = {<<e, event[e].status>> : e \in Active}]
    /\ UnchangedRows /\ UNCHANGED <<disk, proc, used>>

\* The next listed event: its poll is put off, its age may widen it.
Visit(e, status) ==
    LET aged == status = "stabilizing" /\ event[e].aged
    IN /\ At(Coordinator, "idle") /\ <<e, status>> \in coord.todo
       /\ status = "stabilizing" => \A item \in coord.todo : item[2] = "stabilizing"
       /\ coord' = [coord EXCEPT !.todo = @ \ {<<e, status>>}, !.due = FALSE]
       /\ IF e \in coord.retry THEN UnchangedRows /\ UNCHANGED proc
          ELSE /\ IF aged THEN RequestFull ELSE UnchangedRows
               /\ proc' = [proc EXCEPT ![Coordinator].pc = "due", ![Coordinator].at = e,
                                       ![Coordinator].row.status = status]
       /\ UNCHANGED <<disk, used>>

\* One event moves in a cycle, when its window is over.
AdvanceDue ==
    LET mine == proc[Coordinator]
        due == mine.row.status = "reconciling" \/ MyEvent(Coordinator).stable
    IN /\ At(Coordinator, "due")
       /\ IF ~due \/ coord.moved THEN Return(Coordinator) /\ UNCHANGED coord
          ELSE IF MyEvent(Coordinator).status = "none" THEN Advanced(Coordinator)
          ELSE Start(Coordinator, mine.at) /\ UNCHANGED coord
       /\ UnchangedRows /\ UNCHANGED <<disk, used>>

\* The periodic reconciliation of a scope that is due and has no event.
EndCycle ==
    LET schedule == coord.due /\ Active = {}
    IN /\ At(Coordinator, "idle") /\ coord.phase = "cycle" /\ coord.todo = {}
       /\ coord' = [coord EXCEPT !.phase = IF schedule THEN @ ELSE "rest",
                                 !.retry = @ \cap Active]
       /\ IF schedule THEN Goto(Coordinator, "schedule") ELSE UNCHANGED proc
       /\ UnchangedRows /\ UNCHANGED <<disk, used>>

Schedule ==
    /\ At(Coordinator, "schedule")
    /\ RequestFull
    /\ Return(Coordinator)
    /\ coord' = [coord EXCEPT !.phase = "rest", !.due = FALSE]
    /\ UNCHANGED <<disk, used>>

-----------------------------------------------------------------------------
(* Scans that a person starts, pauses, resumes and runs.                     *)

CreateScan(x) ==
    /\ Call(x) /\ ~JobIsLive
    /\ job' = Fresh
    /\ Goto(x, "claim")
    /\ UNCHANGED <<disk, manifest, event, coord, seen, dropped>>

RunScan(x) ==
    /\ Call(x) /\ job.status = "ready"
    /\ Goto(x, "claim")
    /\ UnchangedRows /\ UNCHANGED <<disk, coord>>

PauseScan(x) ==
    /\ Call(x) /\ job.status \in {"ready", "active"} /\ ~job.pause
    /\ job' = [job EXCEPT !.pause = TRUE, !.status = IF @ = "ready" THEN "paused" ELSE @]
    /\ UNCHANGED <<disk, manifest, event, proc, coord, seen, dropped>>

ResumeScan(x) ==
    /\ Call(x) /\ job.status \in {"paused", "interrupted"}
    /\ job' = [job EXCEPT !.pause = FALSE, !.status = "ready"]
    /\ UNCHANGED <<disk, manifest, event, proc, coord, seen, dropped>>

-----------------------------------------------------------------------------
(* Time, files, crashes.  A deadline is a flag; a cycle has one time, so that *)
(* what only the cycle asks about changes between cycles.                    *)

AtRest == coord.phase = "rest"

WindowEnds(e) ==
    /\ e \in Stabilizing /\ ~event[e].stable
    /\ event' = [event EXCEPT ![e].stable = TRUE]
    /\ UNCHANGED <<disk, manifest, job, proc, coord, used, seen, dropped>>

Ages(e) ==
    /\ AtRest /\ e \in Stabilizing /\ ~event[e].aged
    /\ event' = [event EXCEPT ![e].aged = TRUE]
    /\ UNCHANGED <<disk, manifest, job, proc, coord, used, seen, dropped>>

PollDue ==
    /\ AtRest /\ ~coord.due
    /\ coord' = [coord EXCEPT !.due = TRUE]
    /\ UnchangedRows /\ UNCHANGED <<disk, proc, used>>

RetryOver(e) ==
    /\ AtRest /\ e \in coord.retry
    /\ coord' = [coord EXCEPT !.retry = @ \ {e}]
    /\ UnchangedRows /\ UNCHANGED <<disk, proc, used>>

LeaseEnds ==
    /\ job.status = "active"
    /\ IF job.owner = NoProcess THEN UNCHANGED used
       ELSE Fault
    /\ job' = [job EXCEPT !.status = "interrupted", !.owner = NoProcess]
    /\ UNCHANGED <<disk, manifest, event, proc, coord, seen, dropped>>

FileChanges(p) ==
    /\ MapThenSumSet(LAMBDA q : disk[q].version, Paths) < MaxVersion
    /\ \E i \in Identities \cup Kinds :
         disk' = [disk EXCEPT ![p] = [version |-> @.version + 1, id |-> i]]
    /\ UnchangedRows /\ UNCHANGED <<proc, coord, used>>

Crash(x) ==
    /\ Fault
    /\ x = Coordinator \/ ~At(x, "idle")
    /\ Return(x)
    /\ job' = IF job.status = "active" /\ job.owner = x
              THEN [job EXCEPT !.owner = NoProcess] ELSE job
    /\ coord' = IF x = Coordinator
                THEN AtStart
                ELSE coord
    /\ UNCHANGED <<disk, manifest, event, seen, dropped>>

-----------------------------------------------------------------------------
CallStep(x) ==
    \/ RecordHint(x) \/ Look(x) \/ RecordChange(x) \/ Ignore(x) \/ Widen(x)
    \/ FileDelta(x)
    \/ BeginReconciliation(x) \/ Finish(x) \/ Claim(x) \/ (\E p \in Paths : ReadPath(x, p))
    \/ EndBatch(x) \/ CompleteScan(x) \/ CompleteEvent(x) \/ FailEvent(x)
    \/ (At(x, "read") \/ At(x, "batch")) /\ ~Owns(x) /\ LoseBatch(x)
    \/ x = Coordinator /\ At(x, "request") /\ NativeRecovery
CycleStep ==
    \/ BeginCycle \/ AdvanceDue \/ EndCycle \/ Schedule
    \/ \E e \in Events, status \in {"stabilizing", "reconciling"} : Visit(e, status)
Clock == PollDue \/ \E e \in Events : WindowEnds(e) \/ Ages(e) \/ RetryOver(e)

Next ==
    \/ \E x \in Processes :
         \/ CallStep(x) \/ FailScan(x) \/ LoseBatch(x) \/ Crash(x)
         \/ CreateScan(x) \/ RunScan(x) \/ PauseScan(x) \/ ResumeScan(x)
         \/ \E p \in Paths : LookAtHint(x, p)
         \/ \E e \in Events : Advance(x, e)
    \/ NativeRecovery \/ CycleStep \/ Clock \/ LeaseEnds
    \/ \E p \in Paths : FileChanges(p)

Spec == Init /\ [][Next]_vars

\* Calls run on, the coordinator's loop turns, leases end, and time passes: strongly fair,
\* for a cycle in between does not stop the clock.  One event at most has a window.
LiveSpec ==
    /\ Spec
    /\ \A x \in Processes : WF_vars(CallStep(x))
    /\ WF_vars(CycleStep) /\ WF_vars(LeaseEnds) /\ SF_vars(PollDue)
    /\ SF_vars(\E e \in Events : WindowEnds(e))
    /\ \A e \in Events : SF_vars(RetryOver(e))

-----------------------------------------------------------------------------
(* Properties. *)

\* The rows, the staged scan and every call's stack have their types.
TypeOK ==
    /\ disk \in [Paths -> Entries] /\ manifest \in [Paths -> Entries]
    /\ event \in [Events ->
         [status : {"none", "stabilizing", "reconciling"}, kind : {"delta", "full"},
          path : Paths \cup {NoPath}, shot : Entries \cup {Unread}, deadline : Deadlines,
          stable : BOOLEAN, aged : BOOLEAN,
          scan : {"none", "live", "completed", "failed"}]]
    /\ job.status \in {"none", "ready", "active", "paused", "interrupted"}
    /\ job.read \in [Paths -> Entries \cup {Unread}]
    /\ Cardinality(Stabilizing) <= 1
    /\ used \in [calls : 0..MaxCalls, faults : 0..MaxFaults]
    /\ dropped \subseteq Paths

\* A hint that was recorded, or a recovery that was requested, is never lost: while the
\* manifest is older than what it was about, an active event will look at the path again,
\* or a failed event has handed the path over to the periodic reconciliation.
HintIsKept == \A p \in Paths : Covered(p) \/ p \in dropped

\* Whatever deltas, scans and late calls do, no row of the manifest goes back to an older
\* observation of its path.
ManifestNeverRegresses ==
    [][\A p \in Paths : manifest'[p].version >= manifest[p].version]_vars

\* A scan that nobody but a person will take up again.
Stalled == job.status = "paused" \/ (job.status \in {"ready", "interrupted"} /\ Linked = {})

Current == \A p \in Paths : manifest[p].version = disk[p].version
Hinted == \E x \in Processes : proc[x].pc = "observe"

\* Once files and hints rest, and no scan waits for a person, the manifest becomes what is on
\* disk, whatever hints were lost.
Converges == (<>[]~Stalled /\ <>[]~Hinted) => <>[]Current
=============================================================================
