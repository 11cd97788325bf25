------------------------------- MODULE OcrSlot -------------------------------
(* The one native OCR operation a process may run at a time, and what a job  *)
(* of screenshot OCR goes through around it (crates/extractors/src/ocr.rs,   *)
(* service.rs).  On Windows the operation runs on a worker thread that its   *)
(* caller leaves behind when the job is cancelled or late; on macOS the call *)
(* itself runs it.                                                           *)
EXTENDS Naturals, FiniteSets

CONSTANTS
    Jobs,
    NoOwner,
    Platforms       \* of "windows" and "macos": whose provider it is

VARIABLES
    platform,
    gate,           \* NativeOcrGateState: phase, reservation
    active,         \* WINDOWS_OCR_WORKER_ACTIVE
    ocrCall,        \* job -> where its thread is, and what it will return
    worker,         \* job -> its worker thread
    control         \* job -> whether its OcrControl still runs, or why not

slotVars == <<platform, gate, active, ocrCall, worker, control>>

Windows == platform = "windows"
Gates == [phase : {"free", "held", "cleanup"},
          reservation : [owner : Jobs \cup {NoOwner}, expired : BOOLEAN]]
Ended == {"output", "refused", "cancelled", "late", "unwatched", "unavailable"}
SlotCalls == [pc : {"idle", "ask", "claim", "spawn", "wait", "join", "drop", "check", "ended"},
              outcome : Ended \cup {"none", "busy"}]
WorkerStates == {"none", "running", "sent", "cleared", "gone"}
ControlStates == {"live", "cancelled", "unwatched", "late"}
NoReservation == [owner |-> NoOwner, expired |-> FALSE]

SlotInit ==
    /\ platform \in Platforms
    /\ gate = [phase |-> "free", reservation |-> NoReservation]
    /\ active = FALSE
    /\ ocrCall = [j \in Jobs |-> [pc |-> "idle", outcome |-> "none"]]
    /\ worker = [j \in Jobs |-> "none"]
    /\ control = [j \in Jobs |-> "live"]

-----------------------------------------------------------------------------
(* The gate; every operator is one critical section of its mutex. *)

\* try_acquire_at while the gate is not free: the first who is refused is noted.
Reserves(g, j) ==
    IF g.reservation.owner # NoOwner THEN g
    ELSE [g EXCEPT !.reservation = [owner |-> j, expired |-> TRUE]]
\* try_acquire_at: does the reservation keep j out of a free gate?
KeptFor(g, j) == g.reservation.owner \notin {NoOwner, j} /\ ~g.reservation.expired
Acquires(g, j) == g.phase = "free" /\ ~KeptFor(g, j)

\* release_at: the reservation gets its time to live now.
Released(g) == [phase |-> "free", reservation |-> [g.reservation EXCEPT !.expired = FALSE]]
\* Slip: a worker is taken to be there still.
ReturnedUnseen(g) == IF Windows /\ g.phase = "held" THEN [g EXCEPT !.phase = "cleanup"]
                     ELSE Released(g)
\* release_after_provider_return
Returned(g) ==
    IF g.phase # "held" THEN g
    ELSE IF Windows /\ active THEN [g EXCEPT !.phase = "cleanup"] ELSE Released(g)
\* finish_cleanup
CleanedUp(g) == IF g.phase = "cleanup" THEN Released(g) ELSE g

-----------------------------------------------------------------------------
(* A job: extract_claimed_ocr_job and NativeOcrProvider::recognize. *)

SlotGoes(j, pc, outcome) == ocrCall' = [ocrCall EXCEPT ![j] = [pc |-> pc, outcome |-> outcome]]

\* A run begins, or is resumed after a refusal for lack of the slot.
BeginJob(j) ==
    /\ ocrCall[j].pc = "idle"
    /\ SlotGoes(j, "ask", "none")
    /\ UNCHANGED <<gate, active, worker, control>>

\* A cancellation that the monitor read, a failing monitor, or the deadline.
Interrupt(j, why) ==
    /\ ocrCall[j].pc \in {"ask", "claim", "spawn", "wait", "join", "drop", "check"}
    /\ control[j] = "live"
    /\ control' = [control EXCEPT ![j] = why]
    /\ UNCHANGED <<gate, active, ocrCall, worker>>

Ask(j) ==
    /\ ocrCall[j].pc = "ask"
    /\ IF control[j] # "live" THEN SlotGoes(j, "check", "none") /\ UNCHANGED gate
       ELSE IF Acquires(gate, j)
            THEN /\ gate' = [phase |-> "held", reservation |-> NoReservation]
                 /\ SlotGoes(j, IF Windows THEN "claim" ELSE "wait", "none")
            ELSE /\ gate' = IF gate.phase = "free" THEN gate ELSE Reserves(gate, j)
                 /\ SlotGoes(j, "idle", "busy")
    /\ UNCHANGED <<active, worker, control>>

\* The compare_exchange on WINDOWS_OCR_WORKER_ACTIVE.
ClaimWorker(j) ==
    /\ ocrCall[j].pc = "claim"
    /\ active' = TRUE
    /\ IF active THEN SlotGoes(j, "drop", "unavailable") ELSE SlotGoes(j, "spawn", "none")
    /\ UNCHANGED <<gate, worker, control>>

Spawn(j) ==
    /\ ocrCall[j].pc = "spawn"
    /\ \/ worker' = [worker EXCEPT ![j] = "running"] /\ SlotGoes(j, "wait", "none")
          /\ UNCHANGED active
       \/ active' = FALSE /\ SlotGoes(j, "drop", "unavailable") /\ UNCHANGED worker
    /\ UNCHANGED <<gate, control>>

\* receive_bounded_worker_result; the handle is dropped on an error.  performRequests of
\* macOS returns by itself.
Receive(j) ==
    /\ ocrCall[j].pc = "wait"
    /\ IF control[j] # "live" THEN SlotGoes(j, "drop", "none")
       ELSE IF Windows THEN worker[j] # "running" /\ SlotGoes(j, "join", "none")
       ELSE SlotGoes(j, "drop", "none")
    /\ UNCHANGED <<gate, active, worker, control>>

Join(j) ==
    /\ ocrCall[j].pc = "join" /\ worker[j] = "gone"
    /\ SlotGoes(j, "drop", "none")
    /\ UNCHANGED <<gate, active, worker, control>>

\* The drop of the permit.
Drop(j) ==
    /\ ocrCall[j].pc = "drop"
    /\ gate' = Returned(gate)
    /\ SlotGoes(j, "check", ocrCall[j].outcome)
    /\ UNCHANGED <<active, worker, control>>

\* validate_ocr_output to monitor.stop: the control is asked a last time, the bytes of the
\* source are read again, and a monitor that failed has the last word.
FinishJob(j) ==
    /\ ocrCall[j].pc = "check"
    /\ \E outcome \in IF control[j] = "unwatched" THEN {"unwatched"}
                      ELSE IF ocrCall[j].outcome = "unavailable" THEN {"unavailable"}
                      ELSE IF control[j] # "live" THEN {control[j]}
                      ELSE {"output", "refused"} :
           SlotGoes(j, "ended", outcome)
    /\ UNCHANGED <<gate, active, worker, control>>

-----------------------------------------------------------------------------
(* The worker: recognize_on_mta_worker, then the drop of ActiveWorkerGuard.  *)
(* A WinRT operation that was cancelled may drain for any time.              *)

Deliver(j) ==
    /\ worker[j] = "running"
    /\ worker' = [worker EXCEPT ![j] = "sent"]
    /\ UNCHANGED <<gate, active, ocrCall, control>>

ClearFlag(j) ==
    /\ worker[j] = "sent"
    /\ worker' = [worker EXCEPT ![j] = "cleared"]
    /\ active' = FALSE
    /\ UNCHANGED <<gate, ocrCall, control>>

FinishCleanup(j) ==
    /\ worker[j] = "cleared"
    /\ worker' = [worker EXCEPT ![j] = "gone"]
    /\ gate' = CleanedUp(gate)
    /\ UNCHANGED <<active, ocrCall, control>>

\* NATIVE_OCR_RESERVATION_TTL
ReservationEnds ==
    /\ gate.phase = "free" /\ gate.reservation.owner # NoOwner /\ ~gate.reservation.expired
    /\ gate' = [gate EXCEPT !.reservation.expired = TRUE]
    /\ UNCHANGED <<active, ocrCall, worker, control>>

SlotNext ==
    /\ UNCHANGED platform
    /\ \/ ReservationEnds
       \/ \E j \in Jobs :
            \/ BeginJob(j) \/ Ask(j) \/ ClaimWorker(j) \/ Spawn(j) \/ Receive(j) \/ Join(j)
            \/ Drop(j) \/ FinishJob(j) \/ Deliver(j) \/ ClearFlag(j) \/ FinishCleanup(j)
            \/ \E why \in {"cancelled", "unwatched", "late"} : Interrupt(j, why)

SlotSpec == SlotInit /\ [][SlotNext]_slotVars

-----------------------------------------------------------------------------
(* Properties. *)

SlotTypeOK ==
    /\ gate \in Gates /\ active \in BOOLEAN
    /\ ocrCall \in [Jobs -> SlotCalls]
    /\ worker \in [Jobs -> WorkerStates]
    /\ control \in [Jobs -> ControlStates]

Holders == {j \in Jobs : ocrCall[j].pc \in {"claim", "spawn", "wait", "join", "drop"}}
\* A gate that is not free has somebody who will free it: its one holder, or after a caller
\* that did not wait, a worker that has not come to its finish_cleanup.  And no two native
\* operations run at a time, however many were left behind.
SlotIsNeverLost ==
    /\ gate.phase = "held" => Holders # {}
    /\ gate.phase = "cleanup" => \E j \in Jobs : worker[j] \in {"running", "sent", "cleared"}
    /\ Cardinality(Holders) <= 1
    /\ Cardinality({j \in Jobs : worker[j] \in {"running", "sent"}}) <= 1

\* Whoever has the slot finds no other worker at work: the gate stays shut until a cleanup is
\* finished (ADR-024), so that a job is refused for lack of the slot, which it survives, and
\* not by the flag, which fails it.
SlotMeansNoWorker == \A j \in Jobs : ocrCall[j].pc = "claim" => ~active
=============================================================================
