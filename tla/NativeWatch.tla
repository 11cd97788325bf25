----------------------------- MODULE NativeWatch -----------------------------
(* The native watch source, the loop of the desktop's watch thread, and the  *)
(* command that revokes a folder while both run (crates/watcher/native.rs,   *)
(* run_watch_coordinator and confirm_scope_root_revocation of the desktop).  *)
(* What becomes of a hint or a request once it is durable is WatchEvents.    *)
EXTENDS Naturals, Sequences, FiniteSets, SequencesExt

CONSTANTS
    Files,          \* files that change
    FolderOf,       \* file -> its authorised folder
    Revoked,        \* the folder that a person revokes
    QueueCapacity,  \* NATIVE_EVENT_QUEUE_CAPACITY
    DrainLimit,     \* MAX_NATIVE_SIGNALS_PER_CYCLE
    MaxChanges,     \* bound: changes of files
    MaxFailures     \* bound: failures of the source and of cycles

Folders == {FolderOf[f] : f \in Files}
NoFolder == "none"

VARIABLES
    lifecycle,      \* NativeCallbackLifecycle: retired, and the callback that runs
    signals,        \* the bounded queue of raw events
    flags,          \* reconcile_all, source_failed
    token,          \* the wake channel of capacity one
    source,         \* is there a source, and the folders it is registered for
    raised,         \* files whose change the platform has yet to report
    loop,           \* the watch thread
    registry,       \* scope_accesses: the capabilities this process holds
    granted,        \* folders with a durable active grant
    barrier,        \* NativeWatchSynchronizationBarrier
    gate,           \* who holds the database gate
    revocation,     \* confirm_scope_root_revocation
    spent,          \* bounds used up
    pending,        \* history: changed files nothing durable covers yet
    lost            \* history: files whose hint a failing cycle dropped

vars == <<lifecycle, signals, flags, token, source, raised, loop, registry, granted, barrier,
          gate, revocation, spent, pending, lost>>
callbackVars == <<lifecycle, signals, flags>>
loopVars == <<source, loop, barrier>>
scopeVars == <<registry, granted, revocation>>
historyVars == <<pending, lost>>

NoSource == [open |-> FALSE, folders |-> {}]
NoBatch == [files |-> {}, all |-> FALSE, failed |-> FALSE]
NoCallback == [pc |-> "idle", file |-> NoFolder, stale |-> FALSE]

Init ==
    /\ lifecycle = [retired |-> FALSE, callback |-> NoCallback]
    /\ signals = <<>>
    /\ flags = [all |-> FALSE, failed |-> FALSE]
    /\ token = FALSE
    /\ source = NoSource
    /\ raised = {}
    /\ loop = [pc |-> "pass", pass |-> 0, only |-> FALSE, live |-> {}, gap |-> FALSE,
               stop |-> FALSE, batch |-> NoBatch]
    /\ registry = Folders /\ granted = Folders
    /\ barrier = [requested |-> 0, acknowledged |-> 0]
    /\ gate = "free"
    /\ revocation = [pc |-> "idle", ticket |-> 0, retired |-> FALSE]
    /\ spent = [changes |-> 0, failures |-> 0]
    /\ pending = {} /\ lost = {}

Spend(field, limit) == /\ spent[field] < limit
                       /\ spent' = [spent EXCEPT ![field] = @ + 1]
FilesOf(folders) == {f \in Files : FolderOf[f] \in folders}

-----------------------------------------------------------------------------
(* The platform and its callback (NativeCallbackState::handle_event).        *)

Change(f) ==
    /\ Spend("changes", MaxChanges)
    /\ pending' = pending \cup ({f} \cap FilesOf(granted))
    /\ raised' = IF FolderOf[f] \in source.folders THEN raised \cup {f} ELSE raised
    /\ UNCHANGED <<callbackVars, token, loopVars, scopeVars, gate, lost>>

\* begin_callback: nothing enters once the callbacks are retired.
BeginCallback(f) ==
    /\ lifecycle.callback.pc = "idle" /\ f \in raised
    /\ raised' = raised \ {f}
    /\ lifecycle' = IF lifecycle.retired THEN lifecycle
                    ELSE [lifecycle EXCEPT !.callback = [NoCallback EXCEPT !.pc = "admitted",
                                                                           !.file = f]]
    /\ UNCHANGED <<signals, flags, token, loopVars, scopeVars, gate, spent, historyVars>>

\* An error of the platform, or more changes than it can name: admitted like a change.
SourceTrouble(kind) ==
    /\ source.open /\ lifecycle.callback.pc = "idle" /\ ~lifecycle.retired
    /\ Spend("failures", MaxFailures)
    /\ lifecycle' = [lifecycle EXCEPT !.callback = [NoCallback EXCEPT !.pc = kind]]
    /\ raised' = {}
    /\ UNCHANGED <<signals, flags, token, loopVars, scopeVars, gate, historyVars>>

\* run_if_admitted: the lifecycle is asked again, with its lock held over the change.
\* Slip: whoever entered in time may still write.
AdmittedAtEntry == TRUE
Admitted == ~lifecycle.retired
\* Slip: an overflow is dropped like the event that caused it.
RaiseFailure(all, failed) == flags' = [flags EXCEPT !.failed = @ \/ failed]
Raise(all, failed) == flags' = [all |-> flags.all \/ all, failed |-> flags.failed \/ failed]
Enqueue ==
    LET callback == lifecycle.callback
    IN /\ callback.pc \in {"admitted", "rescan", "error"}
       /\ IF Admitted /\ ~callback.stale
          THEN \/ /\ callback.pc = "admitted" /\ Len(signals) < QueueCapacity
                  /\ signals' = Append(signals, callback.file)
                  /\ UNCHANGED flags
               \/ /\ callback.pc = "admitted" /\ Len(signals) = QueueCapacity
                  /\ Raise(TRUE, FALSE) /\ UNCHANGED signals
               \/ /\ callback.pc # "admitted"
                  /\ Raise(TRUE, callback.pc = "error") /\ UNCHANGED signals
          ELSE UNCHANGED <<signals, flags>>
       /\ lifecycle' = [lifecycle EXCEPT !.callback.pc = IF Admitted THEN "wake" ELSE "leave"]
       /\ UNCHANGED <<token, loopVars, scopeVars, raised, gate, spent, historyVars>>

\* notify_watch_wake, after the signal is in the queue
Wake ==
    /\ lifecycle.callback.pc = "wake"
    /\ token' = TRUE
    /\ lifecycle' = [lifecycle EXCEPT !.callback.pc = "leave"]
    /\ UNCHANGED <<signals, flags, loopVars, scopeVars, raised, gate, spent, historyVars>>

LeaveCallback ==
    /\ lifecycle.callback.pc = "leave"
    /\ lifecycle' = [lifecycle EXCEPT !.callback = NoCallback]
    /\ UNCHANGED <<signals, flags, token, loopVars, scopeVars, raised, gate, spent, historyVars>>

-----------------------------------------------------------------------------
(* The watch thread (run_watch_coordinator). *)

RegistryLocked == revocation.pc \in {"locked", "committed", "requested"}

BeginPass ==
    /\ loop.pc = "pass"
    /\ loop' = IF loop.stop THEN [loop EXCEPT !.pc = "ended"]
               ELSE [loop EXCEPT !.pc = "registry", !.pass = barrier.requested,
                                 !.only = barrier.requested > barrier.acknowledged]
    /\ source' = IF loop.stop THEN NoSource ELSE source
    /\ raised' = IF loop.stop THEN {} ELSE raised
    /\ UNCHANGED <<callbackVars, token, barrier, scopeVars, gate, spent, historyVars>>

ReadRegistry ==
    /\ loop.pc = "registry" /\ ~RegistryLocked
    /\ loop' = [loop EXCEPT !.pc = "source", !.live = registry]
    /\ UNCHANGED <<callbackVars, token, source, barrier, scopeVars, raised, gate, spent,
                   historyVars>>

\* A new source has a queue of its own; a retired one cannot be made.
OpenSource ==
    /\ loop.pc = "source"
    /\ \/ /\ ~loop.only /\ ~source.open /\ ~lifecycle.retired
          /\ source' = [NoSource EXCEPT !.open = TRUE]
          /\ signals' = <<>> /\ flags' = [all |-> FALSE, failed |-> FALSE]
          /\ loop' = [loop EXCEPT !.pc = "sync", !.gap = TRUE]
       \/ /\ loop.only \/ source.open \/ lifecycle.retired
          /\ loop' = [loop EXCEPT !.pc = "sync"]
          /\ UNCHANGED <<source, signals, flags>>
    /\ UNCHANGED <<lifecycle, token, barrier, scopeVars, raised, gate, spent, historyVars>>

\* Dropping the source ends its registrations; what its queue held is gone.
DropSource ==
    /\ source' = NoSource /\ raised' = {}
    /\ lifecycle' = [lifecycle EXCEPT !.callback.stale = lifecycle.callback.pc # "idle"]
    /\ signals' = <<>> /\ flags' = [all |-> FALSE, failed |-> FALSE]

AfterSync == IF loop.only THEN "pass" ELSE "cycle"
Acknowledge == barrier' = [barrier EXCEPT !.acknowledged = IF loop.pass > @ THEN loop.pass ELSE @]

\* Slip: folders are only added.
RegisteredToo(desired) == source.folders \cup desired
\* sync_roots leaves exactly what is desired.
Registered(desired) == desired
\* Only a folder that was not registered leaves a gap.
Registers(desired) == desired \ source.folders # {}

Synchronize ==
    LET desired == loop.live \cap granted
    IN /\ loop.pc = "sync"
       /\ Acknowledge
       /\ \/ /\ source.open /\ ~lifecycle.retired
             /\ source' = [source EXCEPT !.folders = Registered(desired)]
             /\ loop' = [loop EXCEPT !.pc = AfterSync, !.gap = @ \/ Registers(desired)]
             /\ UNCHANGED <<callbackVars, raised, spent>>
          \/ /\ source.open
             /\ \/ lifecycle.retired /\ UNCHANGED spent
                \/ Spend("failures", MaxFailures)
             /\ DropSource
             /\ loop' = [loop EXCEPT !.pc = AfterSync, !.gap = TRUE]
          \/ /\ ~source.open
             /\ loop' = [loop EXCEPT !.pc = AfterSync]
             /\ UNCHANGED <<callbackVars, source, raised, spent>>
       /\ UNCHANGED <<token, scopeVars, gate, historyVars>>

\* What a durable request covers: the folders the thread may watch.
Served(folders) == pending' = pending \ FilesOf(folders \cap loop.live \cap granted)

\* The gate is tried, never waited for.
TryGate ==
    /\ loop.pc = "cycle"
    /\ IF gate # "free" THEN loop' = [loop EXCEPT !.pc = "retry"] /\ UNCHANGED gate
       ELSE IF loop.stop THEN loop' = [loop EXCEPT !.pc = "pass"] /\ UNCHANGED gate
       ELSE gate' = "loop" /\ loop' = [loop EXCEPT !.pc = "begin"]
    /\ UNCHANGED <<callbackVars, token, source, barrier, scopeVars, raised, spent, historyVars>>

\* request_all_scope_reconciliation after a change of the registrations
ServeGap ==
    /\ loop.pc = "begin"
    /\ IF loop.gap THEN Served(Folders) ELSE UNCHANGED pending
    /\ loop' = [loop EXCEPT !.pc = "drain", !.gap = FALSE]
    /\ UNCHANGED <<callbackVars, token, source, barrier, scopeVars, raised, gate, spent, lost>>

\* NativeEventQueue::drain
Taken == SubSeq(signals, 1, IF Len(signals) < DrainLimit THEN Len(signals) ELSE DrainLimit)
MorePending(rest) == rest # <<>>
Drain ==
    LET rest == SubSeq(signals, Len(Taken) + 1, Len(signals))
    IN /\ loop.pc = "drain"
       /\ IF source.open /\ ~lifecycle.retired
          THEN /\ loop' = [loop EXCEPT !.pc = "apply",
                                       !.batch = [files |-> ToSet(Taken), all |-> flags.all,
                                                  failed |-> flags.failed]]
               /\ signals' = rest /\ flags' = [flags EXCEPT !.all = FALSE]
               /\ token' = (token \/ MorePending(rest))
          ELSE loop' = [loop EXCEPT !.pc = "apply"] /\ UNCHANGED <<signals, flags, token>>
       /\ UNCHANGED <<lifecycle, source, barrier, scopeVars, raised, gate, spent, historyVars>>

\* One hint for each folder; a second file of a folder asks for the whole folder.
Crowded(batch) == {d \in Folders : Cardinality({f \in batch.files : FolderOf[f] = d}) > 1}
Hinted(batch) == {f \in batch.files : FolderOf[f] \notin Crowded(batch)}

EndCycle(next) ==
    /\ gate' = "free"
    /\ IF loop.batch.failed \/ (source.open /\ flags.failed /\ ~lifecycle.retired)
       THEN /\ DropSource
            /\ loop' = [loop EXCEPT !.pc = next, !.batch = NoBatch, !.gap = TRUE]
       ELSE /\ loop' = [loop EXCEPT !.pc = next, !.batch = NoBatch]
            /\ UNCHANGED <<callbackVars, source, raised>>

\* run_cycle_with_native_batch_at_time
ApplyBatch ==
    LET batch == loop.batch
        whole == IF batch.all \/ batch.failed THEN Folders ELSE Crowded(batch)
    IN /\ loop.pc = "apply"
       /\ pending' = pending \ {f \in FilesOf(whole) \cup Hinted(batch) :
                                  FolderOf[f] \in loop.live \cap granted}
       /\ EndCycle("rest")
       /\ UNCHANGED <<token, barrier, scopeVars, spent, lost>>

\* A transaction of the cycle fails: what was drained is not asked for again, unless the
\* source failed too, which the next cycle still sees.
CycleFails ==
    LET batch == loop.batch
        dropped == IF batch.failed THEN {} ELSE IF batch.all THEN Files ELSE batch.files
    IN /\ loop.pc = "apply"
       /\ Spend("failures", MaxFailures)
       /\ lost' = lost \cup (pending \cap dropped)
       /\ pending' = pending \ dropped
       /\ gate' = "free"
       /\ loop' = [loop EXCEPT !.pc = "retry", !.batch = NoBatch]
       /\ UNCHANGED <<callbackVars, token, source, raised, barrier, scopeVars>>

\* wait_for_watch_wake: a token, the stop flag, or the time-out of this wait
WaitEnds ==
    /\ loop.pc \in {"rest", "retry"}
    /\ loop' = [loop EXCEPT !.pc = "pass"]
    /\ token' = FALSE
    /\ UNCHANGED <<callbackVars, source, raised, barrier, scopeVars, gate, spent, historyVars>>

-----------------------------------------------------------------------------
(* confirm_scope_root_revocation and the retirement of the runtime. *)

Revoking(from, to) == /\ revocation.pc = from
                      /\ revocation' = [revocation EXCEPT !.pc = to]
KeepsLoop == UNCHANGED <<loopVars, raised, spent>>

LockForRevocation ==
    /\ Revoking("idle", "locked") /\ gate = "free" /\ Revoked \in registry
    /\ gate' = "revocation"
    /\ UNCHANGED <<callbackVars, token, registry, granted, historyVars>> /\ KeepsLoop

CommitRevocation ==
    /\ Revoking("locked", "committed")
    /\ granted' = granted \ {Revoked}
    /\ pending' = pending \ FilesOf({Revoked})
    /\ UNCHANGED <<callbackVars, token, registry, gate, lost>> /\ KeepsLoop

\* The ticket is asked for while the registry is still locked.
RequestTicket ==
    /\ revocation.pc = "committed"
    /\ barrier' = [barrier EXCEPT !.requested = @ + 1]
    /\ revocation' = [revocation EXCEPT !.pc = "requested", !.ticket = barrier.requested + 1]
    /\ UNCHANGED <<callbackVars, token, source, loop, raised, registry, granted, gate, spent,
                   historyVars>>

DropCapability ==
    /\ Revoking("requested", "waking")
    /\ registry' = registry \ {Revoked}
    /\ gate' = "free"
    /\ UNCHANGED <<callbackVars, token, granted, historyVars>> /\ KeepsLoop

WakeRuntime ==
    /\ Revoking("waking", "waiting")
    /\ token' = TRUE
    /\ UNCHANGED <<callbackVars, registry, granted, gate, historyVars>> /\ KeepsLoop

SeeAcknowledged ==
    /\ Revoking("waiting", "confirmed") /\ barrier.acknowledged >= revocation.ticket
    /\ UNCHANGED <<callbackVars, token, registry, granted, gate, historyVars>> /\ KeepsLoop

\* retire_watch_runtime_after_revocation_timeout: admission is closed, then the queue cleared
Retire ==
    /\ Revoking("waiting", "retired")
    /\ lifecycle' = [lifecycle EXCEPT !.retired = TRUE]
    /\ UNCHANGED <<signals, flags, token, registry, granted, gate, historyVars>> /\ KeepsLoop

ClearQueue ==
    /\ Revoking("retired", "cleared")
    /\ signals' = <<>> /\ flags' = [all |-> FALSE, failed |-> FALSE]
    /\ UNCHANGED <<lifecycle, token, registry, granted, gate, historyVars>> /\ KeepsLoop

\* It waits for the callback that entered before; the answer says whether that ended in time.
AwaitCallback ==
    /\ revocation.pc = "cleared"
    /\ revocation' = [revocation EXCEPT !.pc = "stopping",
                                        !.retired = lifecycle.callback.pc = "idle"]
    /\ loop' = [loop EXCEPT !.stop = TRUE]
    /\ token' = TRUE
    /\ UNCHANGED <<callbackVars, source, barrier, raised, registry, granted, gate, spent,
                   historyVars>>

JoinRuntime ==
    /\ revocation.pc = "stopping"
    /\ revocation' = [revocation EXCEPT
                        !.pc = IF loop.pc = "ended" THEN "stopped" ELSE "gaveUp",
                        !.retired = @ \/ (loop.pc = "ended" /\ lifecycle.callback.pc = "idle")]
    /\ UNCHANGED <<callbackVars, token, registry, granted, gate, historyVars>> /\ KeepsLoop

-----------------------------------------------------------------------------
CallbackStep == Enqueue \/ Wake \/ LeaveCallback \/ \E f \in Files : BeginCallback(f)
LoopStep ==
    \/ BeginPass \/ ReadRegistry \/ OpenSource \/ Synchronize \/ TryGate
    \/ ServeGap \/ Drain \/ ApplyBatch \/ WaitEnds
RevocationStep ==
    \/ CommitRevocation \/ RequestTicket \/ DropCapability \/ WakeRuntime \/ SeeAcknowledged
    \/ Retire \/ ClearQueue \/ AwaitCallback \/ JoinRuntime
Next ==
    \/ CallbackStep \/ LoopStep \/ RevocationStep \/ LockForRevocation \/ CycleFails
    \/ \E f \in Files : Change(f)
    \/ \E kind \in {"rescan", "error"} : SourceTrouble(kind)

Spec == Init /\ [][Next]_vars
\* Threads run; every wait of the loop has a time-out.
LiveSpec == Spec /\ WF_vars(CallbackStep) /\ WF_vars(LoopStep) /\ WF_vars(RevocationStep)

-----------------------------------------------------------------------------
(* Properties. *)

\* The queue keeps its capacity, and the barrier never runs ahead of its requests.
NativeTypeOK ==
    /\ ToSet(signals) \subseteq Files /\ Len(signals) <= QueueCapacity
    /\ source.folders \subseteq Folders /\ (~source.open => source.folders = {})
    /\ barrier.acknowledged <= barrier.requested
    /\ gate \in {"free", "loop", "revocation"}
    /\ loop.pc \in {"pass", "registry", "source", "sync", "cycle", "begin", "drain", "apply",
                    "rest", "retry", "ended"}

\* A revocation that reports the native source as synchronised leaves no registration of the
\* revoked folder, and one that reports the runtime as stopped leaves no source at all.
RevokedIsUnregistered ==
    /\ revocation.pc = "confirmed" => Revoked \notin source.folders
    /\ revocation.pc = "stopped" => ~source.open

\* Once a revocation has cleared the queue, no callback that was under way refills it.
RetiredIsSilent ==
    revocation.pc \in {"cleared", "stopping", "stopped", "gaveUp"} =>
        signals = <<>> /\ ~flags.all /\ ~flags.failed

\* A change in a folder under watch ends in a durable hint or request, whatever overflows,
\* fails or is registered again meanwhile; only a failing cycle drops it, or a revocation.
ChangeIsServed ==
    \A f \in Files : (f \in pending) ~> (f \notin pending \/ loop.pc = "ended")
=============================================================================
