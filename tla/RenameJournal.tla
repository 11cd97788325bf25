--------------------------- MODULE RenameJournal ---------------------------
(***************************************************************************)
(* The journaled rename: the append-only journal of a plan, the requests   *)
(* and executor leases beside it (crates/database), and the coordinator    *)
(* that executes, undoes and recovers a rename from several processes      *)
(* (crates/transactions).  Every step between two calls that another       *)
(* process can see is a step here, so crashes, lost leases and foreign     *)
(* changes to the folder fall between any two of them.  The rename itself  *)
(* is the renameat2 adapter, which the repository builds for its tests and *)
(* keeps closed in production.                                             *)
(***************************************************************************)
EXTENDS Naturals, Sequences

CONSTANTS
    Plans,          \* rename plans, all of one file in one folder
    Requests,       \* request ids a caller may use, and use again
    Processes,      \* processes that execute, undo or recover
    Names,          \* leaf names in the folder
    Source,         \* [Plans -> Names]: where a plan's file is
    Destination,    \* [Plans -> Names]: where the plan puts it
    Target,         \* the file the plans are about
    Other,          \* any other file
    Nothing,        \* no entry under the name
    NoProcess,      \* no lease row
    Lost,           \* the token of a process that is gone
    NoRequest,      \* the request of preview_created
    StalledOwners,  \* may a lease expire while its owner still works?
    MaxChanges,     \* bound on the changes others make in the folder
    MaxFaults       \* bound on crashes, power losses and failed calls

ASSUME PlansAssumption ==
    /\ Plans # {}
    /\ Source \in [Plans -> Names]
    /\ Destination \in [Plans -> Names]
    /\ \A p \in Plans : Source[p] # Destination[p]
ASSUME OwnersAssumption ==
    /\ NoProcess \notin Processes
    /\ Lost \notin Processes
    /\ NoProcess # Lost
    /\ NoRequest \notin Requests
ASSUME EntriesAssumption == Target # Other /\ Target # Nothing /\ Other # Nothing
ASSUME BoundsAssumption ==
    /\ StalledOwners \in BOOLEAN
    /\ MaxChanges \in Nat
    /\ MaxFaults \in Nat

VARIABLES
    journal,    \* [Plans -> sequence of events]: action_journal_events
    command,    \* [Plans -> [Requests -> kind]]: action_command_requests
    lease,      \* [Plans -> row]: action_executor_leases
    evidence,   \* [Plans -> version]: action_execution_bindings
    disk,       \* [Names -> entry]: the folder
    file,       \* the version of the target: its metadata and its bytes
    unsynced,   \* earlier images of the folder that a power loss may bring back
    proc,       \* [Processes -> the locals of the call it is in]
    changes,    \* how often others changed the folder
    faults,     \* how many faults there were
    syscalls,   \* history: how often renameat2 was called for a request
    seen        \* history: what was true of the folder since an intent

journalVars == <<journal, command, evidence>>
folder == <<disk, file, unsynced>>
bounds == <<changes, faults>>
vars == <<journalVars, lease, folder, proc, bounds, syscalls, seen>>

Commands == {"execute", "undo"}

\* What the reducer makes of a journal by its last event.
StateAfter ==
    [preview_created |-> "previewed",
     execute_requested |-> "execute_requested",
     execute_request_not_started |-> "previewed",
     direct_rename_intent |-> "direct_rename_intent",
     execution_completed |-> "executed",
     execution_not_applied |-> "previewed",
     execution_needs_attention |-> "needs_attention",
     undo_requested |-> "undo_requested",
     undo_request_not_started |-> "executed",
     undo_rename_intent |-> "undo_rename_intent",
     undo_completed |-> "undone",
     undo_not_applied |-> "executed",
     undo_needs_attention |-> "needs_attention"]

Kinds == DOMAIN StateAfter

\* The events a coordinator may append in a state.
Follow ==
    [execute_requested |-> {"direct_rename_intent", "execute_request_not_started"},
     direct_rename_intent |->
        {"execution_completed", "execution_not_applied", "execution_needs_attention"},
     undo_requested |-> {"undo_rename_intent", "undo_request_not_started"},
     undo_rename_intent |->
        {"undo_completed", "undo_not_applied", "undo_needs_attention"}]

Unfinished == DOMAIN Follow
Intents == {"direct_rename_intent", "undo_rename_intent"}
States == {StateAfter[k] : k \in Kinds} \cup {"none"}

\* The state a new command starts from, and the names of its events.
StartsFrom == [execute |-> "previewed", undo |-> "executed"]
RequestedBy == [execute |-> "execute_requested", undo |-> "undo_requested"]
IntentOf == [execute |-> "direct_rename_intent", undo |-> "undo_rename_intent"]
NotStartedOf == [execute |-> "execute_request_not_started", undo |-> "undo_request_not_started"]
CompletedOf == [execute |-> "execution_completed", undo |-> "undo_completed"]
NotAppliedOf == [execute |-> "execution_not_applied", undo |-> "undo_not_applied"]
AttentionOf == [execute |-> "execution_needs_attention", undo |-> "undo_needs_attention"]
CommandOf(state) == IF state \in {"execute_requested", "direct_rename_intent"}
                    THEN "execute" ELSE "undo"

Events == [kind : Kinds, request : Requests \cup {NoRequest}]
Latest(p) == journal[p][Len(journal[p])]
State(p) == IF journal[p] = <<>> THEN "none" ELSE StateAfter[Latest(p).kind]

\* The events of one request, and the last of them: what a retry is told.
Chain(p, r) == {i \in DOMAIN journal[p] : journal[p][i].request = r}
LastOf(p, r) == CHOOSE i \in Chain(p, r) : \A j \in Chain(p, r) : j <= i
Outcome(p, r) == StateAfter[journal[p][LastOf(p, r)].kind]

From(p, k) == IF k = "execute" THEN Source[p] ELSE Destination[p]
To(p, k) == IF k = "execute" THEN Destination[p] ELSE Source[p]

Versions == [meta : 0..MaxChanges, bytes : 0..MaxChanges]
NoVersion == [meta |-> MaxChanges + 1, bytes |-> MaxChanges + 1]
Folders == [Names -> {Target, Other, Nothing}]

Leases == [owner : Processes \cup {NoProcess, Lost}, expired : BOOLEAN]
NoLease == [owner |-> NoProcess, expired |-> FALSE]
Owns(e, p) == lease[p] = [owner |-> e, expired |-> FALSE]
\* Mutant: a lease that has not run out is taken over.
AnyLease(p) == TRUE
LeaseFree(p) == lease[p].owner = NoProcess \/ lease[p].expired

Items == [plan : Plans, request : Requests, sequence : Nat, state : Unfinished]
Steps == {"idle", "start", "lease", "bind", "prepare", "refuse", "intent", "check",
          "syscall", "settle", "confirm", "verify", "complete", "renew", "observe",
          "observe_after", "inspect", "conclude", "release", "next"}
Verdicts == {"applied", "not_applied", "ambiguous"}
Calls == [pc : Steps, plan : Plans, request : Requests \cup {NoRequest}, kind : Commands,
          sequence : Nat, state : States, verdict : Verdicts,
          todo : SUBSET Items]
Idle == [pc |-> "idle", plan |-> CHOOSE p \in Plans : TRUE,
         request |-> NoRequest, kind |-> "execute",
         sequence |-> 0, state |-> "none", verdict |-> "ambiguous",
         todo |-> {}]

Init ==
    /\ journal = [p \in Plans |-> <<>>]
    /\ command = [p \in Plans |-> [r \in Requests |-> "none"]]
    /\ evidence = [p \in Plans |-> NoVersion]
    /\ lease = [p \in Plans |-> NoLease]
    /\ disk \in {[n \in Names |-> IF n = Source[p] THEN Target ELSE Nothing] : p \in Plans}
    /\ file = [meta |-> 0, bytes |-> 0]
    /\ unsynced = {}
    /\ proc = [e \in Processes |-> Idle]
    /\ changes = 0
    /\ faults = 0
    /\ syscalls = [p \in Plans |-> [r \in Requests |-> 0]]
    /\ seen = [p \in Plans |-> [r \in Requests |-> {}]]

-----------------------------------------------------------------------------
(* The file as a plan's evidence describes it: opened, hashed, and its     *)
(* entry and metadata read again; and the second look, without the hash.   *)
Exact(p, n) == disk[n] = Target /\ file = evidence[p]
Unmoved(p, n) == disk[n] = Target /\ file.meta = evidence[p].meta
Ready(p, k) == Unmoved(p, From(p, k)) /\ disk[To(p, k)] = Nothing

FolderFacts == {"at_source", "free", "vacated", "arrived"}
Facts(p, k) == {f \in FolderFacts :
    CASE f = "at_source" -> Exact(p, From(p, k))
      [] f = "free" -> disk[To(p, k)] = Nothing
      [] f = "vacated" -> disk[From(p, k)] = Nothing
      [] f = "arrived" -> Exact(p, To(p, k))}

Goto(e, pc) == proc' = [proc EXCEPT ![e].pc = pc]
\* An error releases the lease; in recovery it also drops the plans that are left.
Fails(e) == proc' = [proc EXCEPT ![e].pc = "release", ![e].todo = {}]
Returns(e) == proc' = [proc EXCEPT ![e] = Idle]

(* A preview is one transaction: the plan, the evidence of the file that   *)
(* was hashed, and the first event.                                        *)
CreatePreview(p) ==
    /\ journal[p] = <<>>
    /\ disk[Source[p]] = Target
    /\ disk[Destination[p]] = Nothing
    /\ journal' = [journal EXCEPT ![p] = <<[kind |-> "preview_created", request |-> NoRequest]>>]
    /\ evidence' = [evidence EXCEPT ![p] = file]
    /\ UNCHANGED <<command, lease, folder, proc, bounds, syscalls>>

(* The call reads the plan's record before it asks for the command.        *)
Begin(e, p, r, k) ==
    /\ proc[e].pc = "idle"
    /\ journal[p] # <<>>
    /\ proc' = [proc EXCEPT ![e] = [Idle EXCEPT !.pc = "start", !.plan = p,
                    !.request = r, !.kind = k, !.sequence = Len(journal[p])]]
    /\ UNCHANGED <<journalVars, lease, folder, bounds, syscalls>>

(* A request id that is known gets the outcome of its own chain; a new one *)
(* gets its first event, if the journal has not moved since the record was *)
(* read and the command fits its state.                                    *)
Replay(e) ==
    LET p == proc[e].plan
        r == proc[e].request
    IN  /\ command[p][r] = proc[e].kind
        /\ IF Outcome(p, r) \in Unfinished
           THEN proc' = [proc EXCEPT ![e].pc = "lease", ![e].state = Outcome(p, r),
                             ![e].sequence = LastOf(p, r)]
           ELSE Returns(e)
        /\ UNCHANGED <<journal, command>>

\* Mutant: a request id whose command came to nothing is taken again.
AcceptsAgain(e) ==
    LET p == proc[e].plan
    IN  /\ Len(journal[p]) = proc[e].sequence
        /\ State(p) = StartsFrom[proc[e].kind]

Accepts(e) ==
    LET p == proc[e].plan
    IN  /\ command[p][proc[e].request] = "none"
        /\ Len(journal[p]) = proc[e].sequence
        /\ State(p) = StartsFrom[proc[e].kind]

Accept(e) ==
    LET p == proc[e].plan
        r == proc[e].request
        k == proc[e].kind
    IN  /\ Accepts(e)
        /\ command' = [command EXCEPT ![p][r] = k]
        /\ journal' = [journal EXCEPT ![p] =
               Append(@, [kind |-> RequestedBy[k], request |-> r])]
        /\ proc' = [proc EXCEPT ![e].pc = "lease", ![e].state = RequestedBy[k],
                        ![e].sequence = @ + 1]

Reject(e) ==
    /\ command[proc[e].plan][proc[e].request] # proc[e].kind
    /\ ~Accepts(e)
    /\ Returns(e)
    /\ UNCHANGED <<journal, command>>

Start(e) ==
    /\ proc[e].pc = "start"
    /\ Replay(e) \/ Accept(e) \/ Reject(e)
    /\ UNCHANGED <<evidence, lease, folder, bounds, syscalls>>

(* The lease is for any unfinished state of the plan, not for the state    *)
(* the caller saw.                                                         *)
Leasable(p) == State(p) \in Unfinished /\ LeaseFree(p)
Taken(e, p) == lease' = [lease EXCEPT ![p] = [owner |-> e, expired |-> FALSE]]

\* Mutant: a retry that finds an intent renames again instead of looking.
AcquireAndRetry(e) ==
    LET p == proc[e].plan
    IN  /\ proc[e].pc = "lease"
        /\ IF Leasable(p)
           THEN /\ Taken(e, p)
                /\ Goto(e, IF proc[e].state \in Intents THEN "check" ELSE "bind")
           ELSE /\ Returns(e)
                /\ UNCHANGED lease
        /\ UNCHANGED <<journalVars, folder, bounds, syscalls>>

AcquireLease(e) ==
    LET p == proc[e].plan
    IN  /\ proc[e].pc = "lease"
        /\ IF Leasable(p)
           THEN /\ Taken(e, p)
                /\ Goto(e, IF proc[e].state \in Intents THEN "observe" ELSE "bind")
           ELSE /\ Returns(e)
                /\ UNCHANGED lease
        /\ UNCHANGED <<journalVars, folder, bounds, syscalls>>

-----------------------------------------------------------------------------
\* Mutant: the lease alone entitles to append.
AppendableByLease(e, kind) == Owns(e, proc[e].plan)

(* Appending an event: the caller's lease, the sequence and state it knows *)
(* and the request of the last event must all still hold.                  *)
Appendable(e, kind) ==
    LET p == proc[e].plan
    IN  /\ Owns(e, p)
        /\ Len(journal[p]) = proc[e].sequence
        /\ State(p) = proc[e].state
        /\ Latest(p).request = proc[e].request
        /\ State(p) \in Unfinished
        /\ kind \in Follow[State(p)]

Appended(e, kind) ==
    journal' = [journal EXCEPT ![proc[e].plan] =
        Append(@, [kind |-> kind, request |-> proc[e].request])]

(* The last append of a call; one that is refused makes the call fail.     *)
AppendLast(e, kind) ==
    /\ IF Appendable(e, kind)
       THEN Appended(e, kind) /\ Goto(e, "release")
       ELSE Fails(e) /\ UNCHANGED journal
    /\ UNCHANGED <<command, evidence, lease, folder, bounds, syscalls>>

(* The file is bound and hashed at its present name, which may fail for    *)
(* other reasons too (a deadline, an I/O error).                           *)
Bind(e) ==
    LET p == proc[e].plan
    IN  /\ proc[e].pc = "bind"
        /\ \/ Exact(p, From(p, proc[e].kind)) /\ Goto(e, "prepare")
           \/ Goto(e, "refuse")
        /\ UNCHANGED <<journalVars, lease, folder, bounds, syscalls>>

Prepare(e) ==
    /\ proc[e].pc = "prepare"
    /\ Goto(e, IF Ready(proc[e].plan, proc[e].kind) THEN "intent" ELSE "refuse")
    /\ UNCHANGED <<journalVars, lease, folder, bounds, syscalls>>

(* A command that is not started says so, also when recovery closes it;    *)
(* an executor returns its error whatever becomes of the append.           *)
Refuse(e) ==
    /\ proc[e].pc = "refuse"
    /\ AppendLast(e, NotStartedOf[proc[e].kind])

AppendIntent(e) ==
    LET k == IntentOf[proc[e].kind]
    IN  /\ proc[e].pc = "intent"
        /\ IF Appendable(e, k)
           THEN /\ Appended(e, k)
                /\ proc' = [proc EXCEPT ![e].pc = "check", ![e].state = k,
                                ![e].sequence = @ + 1]
           ELSE Fails(e) /\ UNCHANGED journal
        /\ UNCHANGED <<command, evidence, lease, folder, bounds, syscalls>>

(* The rename looks at both names once more, and then renames by name.     *)
Check(e) ==
    /\ proc[e].pc = "check"
    /\ Goto(e, IF Ready(proc[e].plan, proc[e].kind) THEN "syscall" ELSE "renew")
    /\ UNCHANGED <<journalVars, lease, folder, bounds, syscalls>>

Moved(d, from, to) == [d EXCEPT ![to] = d[from], ![from] = Nothing]

Rename(e) ==
    LET p == proc[e].plan
        from == From(p, proc[e].kind)
        to == To(p, proc[e].kind)
    IN  /\ proc[e].pc = "syscall"
        /\ syscalls' = [syscalls EXCEPT ![p][proc[e].request] = @ + 1]
        /\ IF disk[from] # Nothing /\ disk[to] = Nothing
           THEN /\ disk' = Moved(disk, from, to)
                /\ unsynced' = unsynced \cup {disk}
                /\ Goto(e, "settle")
           ELSE Goto(e, "renew") /\ UNCHANGED <<disk, unsynced>>
        /\ UNCHANGED <<journalVars, lease, file, bounds>>

(* The folder is synced, and both names are observed; the sync may fail.   *)
Settle(e) ==
    LET p == proc[e].plan
        k == proc[e].kind
    IN  /\ proc[e].pc = "settle"
        /\ \/ /\ unsynced' = {}
              /\ Goto(e, IF disk[From(p, k)] = Nothing /\ Unmoved(p, To(p, k))
                         THEN "confirm" ELSE "renew")
           \/ Goto(e, "renew") /\ UNCHANGED unsynced
        /\ UNCHANGED <<journalVars, lease, disk, file, bounds, syscalls>>

(* Both renewals: a lease that ran out or changed hands ends the call.     *)
Renewed(e, next) ==
    /\ IF Owns(e, proc[e].plan) THEN Goto(e, next) ELSE Fails(e)
    /\ UNCHANGED <<journalVars, lease, folder, bounds, syscalls>>

Confirm(e) == proc[e].pc = "confirm" /\ Renewed(e, "verify")
Renew(e) == proc[e].pc = "renew" /\ Renewed(e, "observe")

Verify(e) ==
    LET p == proc[e].plan
    IN  /\ proc[e].pc = "verify"
        /\ \/ Exact(p, To(p, proc[e].kind)) /\ Goto(e, "complete")
           \/ Goto(e, "renew")
        /\ UNCHANGED <<journalVars, lease, folder, bounds, syscalls>>

Complete(e) ==
    /\ proc[e].pc = "complete"
    /\ AppendLast(e, CompletedOf[proc[e].kind])

-----------------------------------------------------------------------------
(* A durable intent is resolved by looking, never by renaming again: first *)
(* for the exact file under its old name, then under the new one, then for *)
(* the absence of the other name.  Any failure to look is ambiguous.       *)
Observe(e) ==
    LET p == proc[e].plan
    IN  /\ proc[e].pc = "observe"
        /\ \/ /\ Exact(p, From(p, proc[e].kind))
              /\ proc' = [proc EXCEPT ![e].pc = "inspect", ![e].verdict = "not_applied"]
           \/ Goto(e, "observe_after")
        /\ UNCHANGED <<journalVars, lease, folder, bounds, syscalls>>

\* Mutant: a file that is gone from its old name counts as renamed.
ObserveGone(e) ==
    LET p == proc[e].plan
    IN  /\ proc[e].pc = "observe_after"
        /\ \/ /\ disk[From(p, proc[e].kind)] = Nothing
              /\ proc' = [proc EXCEPT ![e].pc = "inspect", ![e].verdict = "applied"]
           \/ proc' = [proc EXCEPT ![e].pc = "conclude", ![e].verdict = "ambiguous"]
        /\ UNCHANGED <<journalVars, lease, folder, bounds, syscalls>>

ObserveAfter(e) ==
    LET p == proc[e].plan
    IN  /\ proc[e].pc = "observe_after"
        /\ \/ /\ Exact(p, To(p, proc[e].kind))
              /\ proc' = [proc EXCEPT ![e].pc = "inspect", ![e].verdict = "applied"]
           \/ proc' = [proc EXCEPT ![e].pc = "conclude", ![e].verdict = "ambiguous"]
        /\ UNCHANGED <<journalVars, lease, folder, bounds, syscalls>>

\* The name that must be free for a verdict.
OtherName(e) ==
    LET p == proc[e].plan
    IN  IF proc[e].verdict = "applied" THEN From(p, proc[e].kind) ELSE To(p, proc[e].kind)

\* Mutants: the other name is not looked at; the folder is not synced.
InspectOneName(e) ==
    /\ proc[e].pc = "inspect"
    /\ Goto(e, "conclude")
    /\ unsynced' = IF proc[e].verdict = "applied" THEN {} ELSE unsynced
    /\ UNCHANGED <<journalVars, lease, disk, file, bounds, syscalls>>
InspectUnsynced(e) ==
    /\ proc[e].pc = "inspect"
    /\ disk[OtherName(e)] = Nothing
    /\ Goto(e, "conclude")
    /\ UNCHANGED <<journalVars, lease, folder, bounds, syscalls>>

\* A rename that was seen is made durable before it is reported.
Inspect(e) ==
    /\ proc[e].pc = "inspect"
    /\ \/ /\ disk[OtherName(e)] = Nothing
          /\ unsynced' = IF proc[e].verdict = "applied" THEN {} ELSE unsynced
          /\ Goto(e, "conclude")
       \/ /\ proc' = [proc EXCEPT ![e].pc = "conclude", ![e].verdict = "ambiguous"]
          /\ UNCHANGED unsynced
    /\ UNCHANGED <<journalVars, lease, disk, file, bounds, syscalls>>

VerdictOf(v, k) == CASE v = "applied" -> CompletedOf[k]
                     [] v = "not_applied" -> NotAppliedOf[k]
                     [] v = "ambiguous" -> AttentionOf[k]

Conclude(e) ==
    /\ proc[e].pc = "conclude"
    /\ AppendLast(e, VerdictOf(proc[e].verdict, proc[e].kind))

(* The row goes only if its token is still the caller's; otherwise the     *)
(* release is an error, which also ends a recovery.                        *)
Release(e) ==
    LET p == proc[e].plan
    IN  /\ proc[e].pc = "release"
        /\ IF lease[p].owner = e
           THEN /\ lease' = [lease EXCEPT ![p] = NoLease]
                /\ IF proc[e].todo = {} THEN Returns(e) ELSE Goto(e, "next")
           ELSE Returns(e) /\ UNCHANGED lease
        /\ UNCHANGED <<journalVars, folder, bounds, syscalls>>

-----------------------------------------------------------------------------
\* Mutants: any plan without a lease is listed; expired leases are not.
AbandonedAny == {p \in Plans : journal[p] # <<>> /\ LeaseFree(p)}
AbandonedUnleased == {p \in Plans : State(p) \in Unfinished /\ lease[p].owner = NoProcess}

(* Recovery lists the plans whose last event is unfinished and unleased,   *)
(* and then goes through what it listed.                                   *)
Abandoned == {p \in Plans : State(p) \in Unfinished /\ LeaseFree(p)}
Listed(p) == [plan |-> p, request |-> Latest(p).request,
              sequence |-> Len(journal[p]), state |-> State(p)]

Recover(e) ==
    /\ proc[e].pc = "idle"
    /\ Abandoned # {}
    /\ proc' = [proc EXCEPT ![e].pc = "next", ![e].todo = {Listed(p) : p \in Abandoned}]
    /\ UNCHANGED <<journalVars, lease, folder, bounds, syscalls>>

\* A plan under lease is left for later; one that is finished is an error.
RecoverNext(e) ==
    /\ proc[e].pc = "next"
    /\ \E item \in proc[e].todo :
         LET p == item.plan
             rest == proc[e].todo \ {item}
         IN  CASE Leasable(p) ->
                    /\ Taken(e, p)
                    /\ proc' = [proc EXCEPT ![e] = [Idle EXCEPT
                         !.pc = IF item.state \in Intents THEN "renew" ELSE "refuse",
                         !.plan = p, !.request = item.request, !.todo = rest,
                         !.kind = CommandOf(item.state), !.sequence = item.sequence,
                         !.state = item.state]]
               [] State(p) \notin Unfinished -> Returns(e) /\ UNCHANGED lease
               [] OTHER ->
                    /\ IF rest = {} THEN Returns(e)
                       ELSE proc' = [proc EXCEPT ![e].todo = rest]
                    /\ UNCHANGED lease
    /\ UNCHANGED <<journalVars, folder, bounds, syscalls>>

-----------------------------------------------------------------------------
(* Faults.  A database call may fail (a busy writer, a full disk): before  *)
(* the lease the call just returns, after it the lease is released, and a  *)
(* release that fails leaves the row to expire.                            *)
Fault == faults < MaxFaults /\ faults' = faults + 1
Orphaned(gone) ==
    lease' = [p \in Plans |-> IF lease[p].owner \in gone
                              THEN [lease[p] EXCEPT !.owner = Lost] ELSE lease[p]]

FailedCall(e) ==
    /\ Fault
    /\ \/ /\ proc[e].pc \in {"start", "lease", "next", "release"}
          /\ Returns(e)
          /\ Orphaned({e})
       \/ /\ proc[e].pc \in {"refuse", "intent", "confirm", "complete", "renew", "conclude"}
          /\ Fails(e)
          /\ UNCHANGED lease
    /\ UNCHANGED <<journalVars, folder, changes, syscalls>>

Crash(e) ==
    /\ Fault
    /\ proc[e].pc # "idle"
    /\ Returns(e)
    /\ Orphaned({e})
    /\ UNCHANGED <<journalVars, folder, changes, syscalls>>

\* A power loss ends every call; renames that no fsync followed may be undone.
PowerLoss ==
    /\ Fault
    /\ proc' = [e \in Processes |-> Idle]
    /\ Orphaned(Processes)
    /\ unsynced' = {}
    /\ disk' \in unsynced \cup {disk}
    /\ UNCHANGED <<journalVars, file, changes, syscalls>>

\* The owner of a lease is gone, or, if owners can stall, merely slow.
ExpireLease(p) ==
    /\ lease[p].owner # NoProcess
    /\ ~lease[p].expired
    /\ StalledOwners \/ lease[p].owner = Lost
    /\ lease' = [lease EXCEPT ![p].expired = TRUE]
    /\ UNCHANGED <<journalVars, folder, proc, bounds, syscalls>>

(* Others edit the file, in a way its metadata show or in its bytes alone, *)
(* and create, remove, move and replace entries; the folder is synced.     *)
ChangeFolder ==
    /\ changes < MaxChanges
    /\ changes' = changes + 1
    /\ unsynced' = {}
    /\ \/ /\ file' \in {[file EXCEPT !.bytes = changes + 1],
                        [meta |-> changes + 1, bytes |-> changes + 1]}
          /\ UNCHANGED disk
       \/ /\ \E n \in Names :
               \/ disk[n] = Nothing /\ disk' = [disk EXCEPT ![n] = Other]
               \/ disk[n] # Nothing /\ disk' = [disk EXCEPT ![n] = Nothing]
               \/ \E m \in Names \ {n} :
                    disk[n] # Nothing /\ disk' = Moved(disk, n, m)
          /\ UNCHANGED file
    /\ UNCHANGED <<journalVars, lease, proc, faults, syscalls>>

-----------------------------------------------------------------------------
Step(e) ==
    \/ Start(e) \/ AcquireLease(e) \/ Bind(e) \/ Prepare(e) \/ Refuse(e)
    \/ AppendIntent(e) \/ Check(e) \/ Rename(e) \/ Settle(e) \/ Confirm(e)
    \/ Verify(e) \/ Complete(e) \/ Renew(e) \/ Observe(e) \/ ObserveAfter(e)
    \/ Inspect(e) \/ Conclude(e) \/ Release(e) \/ RecoverNext(e)

Actions ==
    \/ \E p \in Plans : CreatePreview(p) \/ ExpireLease(p)
    \/ \E e \in Processes :
         \/ \E p \in Plans, r \in Requests, k \in Commands : Begin(e, p, r, k)
         \/ Step(e)
         \/ Recover(e)
         \/ FailedCall(e)
         \/ Crash(e)
    \/ PowerLoss
    \/ ChangeFolder

\* The history of a request: what held at some moment since its intent.
InIntent(p, r) == State(p) \in Intents /\ Latest(p).request = r
Watch ==
    seen' = [p \in Plans |-> [r \in Requests |->
        IF InIntent(p, r)' THEN seen[p][r] \cup Facts(p, CommandOf(State(p)))'
        ELSE seen[p][r]]]

Next == Actions /\ Watch

Spec == Init /\ [][Next]_vars

(* A process that runs makes its next step, an abandoned lease runs out,   *)
(* and recovery is started again and again.                                *)
Fairness ==
    /\ \A e \in Processes : WF_vars(Step(e) /\ Watch)
    /\ \A e \in Processes : SF_vars(Recover(e) /\ Watch)
    /\ \A p \in Plans : WF_vars(ExpireLease(p) /\ Watch)

LiveSpec == Spec /\ Fairness

-----------------------------------------------------------------------------
\* The types of the variables; a row of the journal is an event of the closed list.
TypeOK ==
    /\ journal \in [Plans -> Seq(Events)]
    /\ command \in [Plans -> [Requests -> Commands \cup {"none"}]]
    /\ evidence \in [Plans -> Versions \cup {NoVersion}]
    /\ lease \in [Plans -> Leases]
    /\ disk \in Folders
    /\ file \in Versions
    /\ unsynced \subseteq Folders
    /\ proc \in [Processes -> Calls]
    /\ changes \in 0..MaxChanges
    /\ faults \in 0..MaxFaults
    /\ syscalls \in [Plans -> [Requests -> Nat]]
    /\ seen \in [Plans -> [Requests -> SUBSET FolderFacts]]

(* The reducer never meets a journal it rejects: the first event is the    *)
(* preview, each later one follows from the state before it, and a chain   *)
(* belongs to one request of the right kind                                *)
(* (reduce_action_journal, and the triggers of migration 0019).            *)
LegalHistory ==
    \A p \in Plans : \A i \in DOMAIN journal[p] :
        LET event == journal[p][i]
            before == StateAfter[journal[p][i - 1].kind]
        IN  IF i = 1
            THEN event = [kind |-> "preview_created", request |-> NoRequest]
            ELSE /\ event.request \in Requests
                 /\ \/ /\ before \in Unfinished
                       /\ event.kind \in Follow[before]
                       /\ event.request = journal[p][i - 1].request
                    \/ \E k \in Commands :
                         /\ event.kind = RequestedBy[k]
                         /\ before = StartsFrom[k]
                         /\ command[p][event.request] = k
                         /\ \A j \in 1..(i - 1) : journal[p][j].request # event.request

(* However often a request is clicked, retried, recovered or overtaken,    *)
(* renameat2 is called at most once for it, and never before its intent is *)
(* durable (ADR-025).                                                      *)
OneRenamePerRequest ==
    \A p \in Plans, r \in Requests :
        /\ syscalls[p][r] <= 1
        /\ syscalls[p][r] = 1 =>
             \E i \in Chain(p, r) : StateAfter[journal[p][i].kind] \in Intents

(* The answer of a finished request never changes, whatever later commands *)
(* do to the plan (action_command_outcome_from_journal).                   *)
OutcomeIsFinal ==
    [][\A p \in Plans, r \in Requests :
         Chain(p, r) # {} /\ Outcome(p, r) \notin Unfinished
            => LastOf(p, r)' = LastOf(p, r) /\ Outcome(p, r)' = Outcome(p, r)]_vars

(* No journal claims what was not observed: between the intent and a       *)
(* completed event the exact file was under its new name and the old name  *)
(* was free, and before a not-applied event the reverse.                   *)
AnswersAreWitnessed ==
    \A p \in Plans : \A i \in DOMAIN journal[p] :
        LET k == journal[p][i].kind
            r == journal[p][i].request
        IN  /\ k \in {CompletedOf[c] : c \in Commands}
                 => {"vacated", "arrived"} \subseteq seen[p][r]
            /\ k \in {NotAppliedOf[c] : c \in Commands}
                 => {"at_source", "free"} \subseteq seen[p][r]

(* If a lease never ends under a working owner and nobody else touches the *)
(* folder, an executed plan's file is under its new name, durably.         *)
ExecutedIsInPlace ==
    \A p \in Plans : State(p) \in {"executed", "undo_requested"} =>
        \A d \in unsynced \cup {disk} : d[Destination[p]] = Target

(* A process that lost its lease performs no further syscall, as the       *)
(* comment of renew_action_executor_lease demands of its callers.          *)
RenameUnderLease ==
    [][\A e \in Processes :
         proc[e].pc = "syscall" /\ proc'[e].pc \in {"settle", "renew"}
            => Owns(e, proc[e].plan)]_vars

(* An unfinished command is brought to an end.                             *)
Resolved == \A p \in Plans : State(p) \in Unfinished ~> State(p) \notin Unfinished

(* Under the same conditions the coordinator implements commands that      *)
(* rename in one step, or not at all, and answer truthfully.  A command    *)
(* that is under way has renamed when the file is at its plan's new name,  *)
(* or, for an undo, no longer there.                                       *)
Phase(p, r) ==
    IF command[p][r] = "none" THEN "new"
    ELSE LET o == Outcome(p, r)
             moved == (disk[Destination[p]] = Target) <=> (command[p][r] = "execute")
         IN  CASE o \in Intents -> IF moved THEN "moved" ELSE "open"
               [] o \in Unfinished \ Intents -> "open"
               [] o = StateAfter[CompletedOf[command[p][r]]] -> "applied"
               [] o = StartsFrom[command[p][r]] -> "not_applied"
               [] o = "needs_attention" -> "unknown"

Abstract == INSTANCE AtomicRename WITH
    place <- CHOOSE n \in Names : disk[n] = Target,
    kind <- command,
    phase <- [p \in Plans |-> [r \in Requests |-> Phase(p, r)]]

\* Every step of the journal, the leases and the folder is a step of one
\* atomic command, or none.
ImplementsAtomicRename == Abstract!Spec
=============================================================================
