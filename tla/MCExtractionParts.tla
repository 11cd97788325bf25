-------------------------- MODULE MCExtractionParts --------------------------
(* Two instances of ExtractionJob in one run; a behaviour belongs to the one  *)
(* chosen in its initial state, and each bounds what the other leaves free.   *)
(*   "jobs"     every runner; content jobs, one policy revision, no faults    *)
(*   a runner   that runner alone; content and OCR jobs, exclusions, faults   *)
EXTENDS ExtractionJob, TLC

VARIABLE part

Together == INSTANCE ExtractionJob WITH MaxRevision <- 1, MaxFaults <- 0

\* No job of screenshot OCR is created.
ContentJobs == \A j \in Jobs : job'[j].operation = "content" \/ job'[j] = NoJob
\* Only r takes up a job.
Alone(r) == \A q \in Runners \ {r} : runner'[q] = runner[q]

PartsInit == part \in {"jobs"} \cup Runners /\ Init
PartsNext ==
    /\ UNCHANGED part
    /\ \/ part = "jobs" /\ Together!Next /\ ContentJobs
       \/ part \in Runners /\ Next /\ Alone(part)
PartsSpec == PartsInit /\ [][PartsNext]_<<part, vars>>

RunnerSymmetry == Permutations(Runners)
=============================================================================
