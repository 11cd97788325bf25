-------------------------------- MODULE MCLive --------------------------------
(* What must eventually happen, of components side by side: a behaviour is   *)
(* one of an extraction job (the variables of this module) or of a scan job, *)
(* each with two runners ("extraction", "scan") or with one that crashes and *)
(* comes back ("reextraction", "rescan"), of watch events, or of a native    *)
(* source that fails ("native") or has more changes than its queue holds     *)
(* ("burst"); the others stay as they began.                                 *)
EXTENDS ExtractionJob

CONSTANTS
    Paths, Identities, Kinds, Coordinator, NumEvents, Unread, NoPath, NoProcess,
    root, folder, v1, survivor  \* of the scan parts; who comes back

VARIABLES
    part,
    sDisk, sPolicy, sJob, sQueue, sStaged, sManifest, sRunner, sSeen, sSteady, sChanges,
    sFaults,
    wDisk, wManifest, wEvent, wJob, wProc, wCoord, wUsed, wSeen, wDropped,
    nLifecycle, nSignals, nFlags, nToken, nSource, nRaised, nLoop, nRegistry, nGranted,
    nBarrier, nGate, nRevocation, nSpent, nPending, nLost

E == INSTANCE ExtractionJob WITH Runners <- {survivor}, MaxFaults <- 1
ScanParent == [q \in {folder} |-> root]
S == INSTANCE ScanJob WITH
    Paths <- {root, folder}, Root <- root, Parent <- ScanParent, Versions <- {v1},
    Runners <- Runners, NumJobs <- 1, LeaseTicks <- 1, BatchSize <- 1, MaxRevision <- 1,
    MaxChanges <- 0, MaxFaults <- 0,
    disk <- sDisk, policy <- sPolicy, job <- sJob, queue <- sQueue, staged <- sStaged,
    manifest <- sManifest, runner <- sRunner, seen <- sSeen, steady <- sSteady,
    changes <- sChanges, faults <- sFaults
C == INSTANCE ScanJob WITH
    Paths <- {root, folder}, Root <- root, Parent <- ScanParent, Versions <- {v1},
    Runners <- {survivor}, NumJobs <- 1, LeaseTicks <- 1, BatchSize <- 1, MaxRevision <- 1,
    MaxChanges <- 0, MaxFaults <- 1,
    disk <- sDisk, policy <- sPolicy, job <- sJob, queue <- sQueue, staged <- sStaged,
    manifest <- sManifest, runner <- sRunner, seen <- sSeen, steady <- sSteady,
    changes <- sChanges, faults <- sFaults
W == INSTANCE WatchEvents WITH
    Users <- {}, MaxVersion <- 1, MaxCalls <- 0, MaxFaults <- 1,
    disk <- wDisk, manifest <- wManifest, event <- wEvent, job <- wJob, proc <- wProc,
    coord <- wCoord, used <- wUsed, seen <- wSeen, dropped <- wDropped
N == INSTANCE NativeWatch WITH
    Files <- {"f", "g"}, FolderOf <- [f |-> "F", g |-> "F"], Revoked <- "N",
    QueueCapacity <- 1, DrainLimit <- 1, MaxChanges <- 1, MaxFailures <- 1,
    lifecycle <- nLifecycle, signals <- nSignals, flags <- nFlags, token <- nToken,
    source <- nSource, raised <- nRaised, loop <- nLoop, registry <- nRegistry,
    granted <- nGranted, barrier <- nBarrier, gate <- nGate, revocation <- nRevocation,
    spent <- nSpent, pending <- nPending, lost <- nLost
B == INSTANCE NativeWatch WITH
    Files <- {"f", "g"}, FolderOf <- [f |-> "F", g |-> "F"], Revoked <- "N",
    QueueCapacity <- 1, DrainLimit <- 1, MaxChanges <- 2, MaxFailures <- 0,
    lifecycle <- nLifecycle, signals <- nSignals, flags <- nFlags, token <- nToken,
    source <- nSource, raised <- nRaised, loop <- nLoop, registry <- nRegistry,
    granted <- nGranted, barrier <- nBarrier, gate <- nGate, revocation <- nRevocation,
    spent <- nSpent, pending <- nPending, lost <- nLost

scanVars == <<sDisk, sPolicy, sJob, sQueue, sStaged, sManifest, sRunner, sSeen, sSteady,
              sChanges, sFaults>>
watchVars == <<wDisk, wManifest, wEvent, wJob, wProc, wCoord, wUsed, wSeen, wDropped>>
nativeVars == <<nLifecycle, nSignals, nFlags, nToken, nSource, nRaised, nLoop, nRegistry,
                nGranted, nBarrier, nGate, nRevocation, nSpent, nPending, nLost>>

LiveInit ==
    /\ part \in {"extraction", "reextraction", "scan", "rescan", "watch", "native", "burst"}
    /\ (IF part = "reextraction" THEN E!Init ELSE Init) /\ W!Init /\ (IF part = "rescan" THEN C!Init ELSE S!Init) /\ N!Init
LiveNext ==
    /\ UNCHANGED part
    /\ \/ part = "extraction" /\ Next /\ UNCHANGED <<scanVars, watchVars, nativeVars>>
       \/ part = "reextraction" /\ E!Next /\ UNCHANGED <<scanVars, watchVars, nativeVars>>
       \/ part = "scan" /\ S!Next /\ UNCHANGED <<vars, watchVars, nativeVars>>
       \/ part = "rescan" /\ C!Next /\ UNCHANGED <<vars, watchVars, nativeVars>>
       \/ part = "watch" /\ W!Next /\ UNCHANGED <<vars, scanVars, nativeVars>>
       \/ part = "native" /\ N!Next /\ UNCHANGED <<vars, scanVars, watchVars>>
       \/ part = "burst" /\ B!Next /\ UNCHANGED <<vars, scanVars, watchVars>>

\* The fairness that LiveSpec of each module states, of the steps of that part.
PartsLiveSpec ==
    /\ LiveInit /\ [][LiveNext]_<<part, vars, scanVars, watchVars, nativeVars>>
    /\ \A r \in Runners : WF_vars(part = "extraction" /\ RunnerStep(r))
    /\ \A j \in Jobs : WF_vars(part = "extraction" /\ Expire(j))
    /\ WF_vars(part = "extraction" /\ RecoverExpired)
    /\ WF_vars(part = "reextraction" /\ E!RunnerStep(survivor))
    /\ \A j \in Jobs : WF_vars(part = "reextraction" /\ E!Expire(j))
    /\ WF_vars(part = "reextraction" /\ E!RecoverExpired)
    /\ WF_scanVars(part = "scan" /\ S!Tick)
    /\ WF_scanVars(part = "scan" /\ S!OpenDatabase)
    /\ \A r \in Runners : WF_scanVars(part = "scan" /\ S!Step(r))
    /\ \A j \in S!Jobs : WF_scanVars(part = "scan" /\ \E r \in Runners : S!Enter(r, j))
    /\ WF_scanVars(part = "rescan" /\ C!Tick)
    /\ WF_scanVars(part = "rescan" /\ C!OpenDatabase)
    /\ WF_scanVars(part = "rescan" /\ C!Step(survivor))
    /\ \A j \in C!Jobs : WF_scanVars(part = "rescan" /\ C!Enter(survivor, j))
    /\ WF_watchVars(part = "watch" /\ W!CallStep(Coordinator))
    /\ WF_watchVars(part = "watch" /\ W!CycleStep)
    /\ WF_watchVars(part = "watch" /\ W!LeaseEnds)
    /\ SF_watchVars(part = "watch" /\ W!PollDue)
    /\ SF_watchVars(part = "watch" /\ \E e \in W!Events : W!WindowEnds(e))
    /\ \A e \in W!Events : SF_watchVars(part = "watch" /\ W!RetryOver(e))
    /\ WF_nativeVars(part = "native" /\ N!CallbackStep)
    /\ WF_nativeVars(part = "native" /\ N!LoopStep)
    /\ WF_nativeVars(part = "native" /\ N!RevocationStep)
    /\ WF_nativeVars(part = "burst" /\ B!CallbackStep)
    /\ WF_nativeVars(part = "burst" /\ B!LoopStep)
    /\ WF_nativeVars(part = "burst" /\ B!RevocationStep)

\* A ready scan job reaches an end, unless it is paused or loses its folder (ScanJob).
ScanEnds == S!ScanEnds
\* Once files and hints rest, the manifest becomes what is on disk (WatchEvents).
Converges == W!Converges
\* A change of a watched file ends in a durable hint or request (NativeWatch).
ChangeIsServed == N!ChangeIsServed
=============================================================================
