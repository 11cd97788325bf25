---------------------------- MODULE ScanJobProofs ----------------------------
(***************************************************************************)
(* Proofs about ScanJob, for every tree, every number of jobs and runners  *)
(* and every bound.  The argument goes in layers, each an invariant that   *)
(* uses the ones before it:                                                *)
(*   TypeOK      every variable is of its type;                            *)
(*   Ownership   which token may be on which row;                          *)
(*   Entries     where the one entry in "processing" is, and who knows it; *)
(*   Frontier    a steady path is staged, queued, or below one that is not *)
(*               done yet, so a drained queue leaves none of them out;     *)
(*   Honest      staged and remembered observations were once true;        *)
(*   Withheld    withheld paths are neither staged nor published;          *)
(* and with them that ScanJob implements AtomicManifest.                   *)
(***************************************************************************)
EXTENDS ScanJob, TLAPS

Working == {"poll", "next", "pause", "finalize", "release"}
Holding == {"process", "list", "stage", "fail"}

\* A row carries a token exactly while it is leased, one job of the scope is
\* live, and a runner's own token is only on the job of its current batch.
Ownership ==
    /\ \A j, k \in Jobs : Live(j) /\ Live(k) => j = k
    /\ LiveJobIsCurrent
    /\ \A j \in Jobs : job[j].owner # NoRunner <=>
          job[j].status = "running" /\ job[j].control \in {"active", "pause_requested"}
    /\ \A r \in Runners, j \in Jobs :
          job[j].owner = r => /\ runner[r].job = j
                              /\ runner[r].pc \in Working \cup Holding
    /\ \A j \in Jobs : job[j].status = "none" => staged[j] = NoRows

Entries ==
    /\ NoStrandedEntry
    /\ OwnerKnowsEntry
    /\ \A r \in Runners, j \in Jobs :
          job[j].owner = r /\ runner[r].pc \in Working
          => \A p \in Paths : queue[j][p] # "processing"

-----------------------------------------------------------------------------
(* The small operators keep the types they are used at *)

LEMMA Bounds ==
    /\ LeaseTicks \in Nat /\ 0 \in 0 .. LeaseTicks /\ LeaseTicks \in 0 .. LeaseTicks
    /\ BatchSize \in Nat /\ 0 \in 0 .. BatchSize /\ BatchSize \in 0 .. BatchSize
    /\ MaxRevision \in Nat /\ 0 \in 0 .. MaxRevision /\ 1 \in 1 .. MaxRevision
    /\ MaxChanges \in Nat /\ MaxFaults \in Nat
    /\ \A n \in 1 .. MaxRevision : n \in 0 .. MaxRevision
BY BoundsAssumption DEF BoundsAssumption

LEMMA NoJobType == NoJob \in JobRows
BY Bounds DEF NoJob, JobRows, Statuses, Controls

LEMMA UnownedType == ASSUME NEW row \in JobRows PROVE Unowned(row) \in JobRows
BY Bounds DEF JobRows, Unowned

LEMMA EndedType ==
    ASSUME NEW row \in JobRows, NEW s \in Statuses
    PROVE  /\ Ended(row, s) \in JobRows
           /\ [Ended(row, s) EXCEPT !.pauseRequested = FALSE] \in JobRows
<1>1. Unowned(row) \in JobRows
  BY UnownedType
<1>2. "ready" \in Controls
  BY DEF Controls
<1>3. Ended(row, s) \in JobRows
  BY <1>1, <1>2 DEF JobRows, Ended
<1>4. QED
  BY <1>3 DEF JobRows

LEMMA IdleType == Idle \in RunnerStates /\ Idle.pc = "idle"
<1>1. Root \in Paths
  BY TreeAssumption DEF TreeAssumption
<1>2. QED
  BY <1>1, Bounds DEF Idle, RunnerStates, Steps

LEMMA QueueTypes == NoQueue \in [Paths -> EntryStates] /\ NoRows \in Trees
BY DEF NoQueue, NoRows, Trees, EntryStates

LEMMA RequeuedType ==
    ASSUME NEW q \in [Paths -> EntryStates] PROVE Requeued(q) \in [Paths -> EntryStates]
BY DEF EntryStates, Requeued

LEMMA ExcludedType == ASSUME NEW pol PROVE Excluded(pol) \subseteq Paths
BY DEF Excluded, Below

LEMMA RowType == ASSUME TypeOK, NEW j \in Jobs PROVE job[j] \in JobRows
BY DEF TypeOK

LEMMA RunnerType ==
    ASSUME TypeOK, NEW r \in Runners
    PROVE  runner[r] \in RunnerStates /\ (InBatch(r) => runner[r].job \in Jobs)
BY DEF TypeOK

LEMMA SetRow ==
    ASSUME TypeOK, NEW j \in Jobs, NEW row \in JobRows
    PROVE  [job EXCEPT ![j] = row] \in [Jobs -> JobRows]
BY DEF TypeOK

LEMMA SetRunner ==
    ASSUME TypeOK, NEW r \in Runners, NEW state \in RunnerStates,
           state.pc = "idle" \/ state.job \in Jobs
    PROVE  LET after == [runner EXCEPT ![r] = state]
           IN  /\ after \in [Runners -> RunnerStates]
               /\ \A s \in Runners : after[s].pc # "idle" => after[s].job \in Jobs
BY DEF TypeOK, InBatch

LEMMA ReturnType ==
    ASSUME TypeOK, NEW r \in Runners, Return(r)
    PROVE  /\ runner' \in [Runners -> RunnerStates]
           /\ \A s \in Runners : InBatch(s)' => runner'[s].job \in Jobs
BY IdleType, SetRunner DEF Return, InBatch

LEMMA GotoType ==
    ASSUME TypeOK, NEW r \in Runners, InBatch(r), NEW step \in Steps, Goto(r, step)
    PROVE  /\ runner' \in [Runners -> RunnerStates]
           /\ \A s \in Runners : InBatch(s)' => runner'[s].job \in Jobs
<1>1. [runner[r] EXCEPT !.pc = step, !.ok = FALSE] \in RunnerStates
  BY RunnerType DEF RunnerStates
<1>2. [runner[r] EXCEPT !.pc = step, !.ok = FALSE].job \in Jobs
  BY RunnerType DEF RunnerStates
<1>3. QED
  BY <1>1, <1>2, SetRunner DEF Goto, InBatch

LEMMA AbandonedType == ASSUME TypeOK, NEW r \in Runners PROVE Abandoned(r) \in [Jobs -> JobRows]
<1>1. ASSUME NEW j \in Jobs PROVE [job[j] EXCEPT !.owner = Orphan] \in JobRows
  BY RowType DEF JobRows
<1>2. ASSUME NEW j \in Jobs
      PROVE  (IF job[j].owner = r THEN [job[j] EXCEPT !.owner = Orphan] ELSE job[j]) \in JobRows
  BY <1>1 DEF TypeOK
<1>3. QED
  BY <1>2 DEF Abandoned

LEMMA AbortType ==
    ASSUME TypeOK, NEW r \in Runners, Abort(r)
    PROVE  /\ job' \in [Jobs -> JobRows]
           /\ runner' \in [Runners -> RunnerStates]
           /\ \A s \in Runners : InBatch(s)' => runner'[s].job \in Jobs
BY AbandonedType, ReturnType DEF Abort

LEMMA RecoverType ==
    ASSUME TypeOK, RecoverExpired
    PROVE  job' \in [Jobs -> JobRows] /\ queue' \in [Jobs -> [Paths -> EntryStates]]
<1>1. "interrupted" \in Statuses
  BY DEF Statuses
<1>2. ASSUME NEW j \in Jobs PROVE Recovered(j) \in JobRows
  BY <1>1, EndedType DEF Recovered, TypeOK
<1>3. ASSUME NEW j \in Jobs PROVE Requeued(queue[j]) \in [Paths -> EntryStates]
  BY RequeuedType DEF TypeOK
<1>4. QED
  BY <1>2, <1>3 DEF RecoverExpired, TypeOK

\* Every variable keeps its type in every reachable state.
THEOREM TypeCorrect == Spec => []TypeOK
<1>1. Init => TypeOK
  <2> SUFFICES ASSUME Init PROVE TypeOK
    OBVIOUS
  <2>1. policy \in [revision : 1 .. MaxRevision, excluded : SUBSET Paths,
                    grant : {"active", "needs_reauthorization", "revoked"}]
    BY Bounds DEF Init
  <2>2. runner \in [Runners -> RunnerStates] /\ \A r \in Runners : ~InBatch(r)
    BY IdleType DEF Init, InBatch
  <2>3. job \in [Jobs -> JobRows] /\ queue \in [Jobs -> [Paths -> EntryStates]]
        /\ staged \in [Jobs -> Trees] /\ manifest \in Trees
    BY NoJobType, QueueTypes DEF Init
  <2>4. changes \in 0 .. MaxChanges /\ faults \in 0 .. MaxFaults
    BY Bounds DEF Init
  <2>5. QED
    BY <2>1, <2>2, <2>3, <2>4 DEF Init, TypeOK
<1>2. TypeOK /\ [Next]_vars => TypeOK'
  <2> SUFFICES ASSUME TypeOK, [Next]_vars PROVE TypeOK'
    OBVIOUS
  <2> DEFINE RunnerOK == /\ runner' \in [Runners -> RunnerStates]
                         /\ \A s \in Runners : InBatch(s)' => runner'[s].job \in Jobs
             JobOK == job' \in [Jobs -> JobRows]
             QueueOK == queue' \in [Jobs -> [Paths -> EntryStates]]
  <2>1. ASSUME NEW j \in Jobs, CreateJob(j) PROVE TypeOK'
    <3>1. [NoJob EXCEPT !.status = "running", !.revision = policy.revision] \in JobRows
      BY NoJobType, Bounds DEF JobRows, Statuses, TypeOK
    <3>2. JobOK
      BY <2>1, <3>1, SetRow DEF CreateJob
    <3>3. [NoQueue EXCEPT ![Root] = "pending"] \in [Paths -> EntryStates]
      BY QueueTypes DEF EntryStates
    <3>4. QueueOK
      BY <2>1, <3>3 DEF CreateJob, TypeOK
    <3>5. {<<p, disk[p]>> : p \in OnDisk(disk)} \subseteq Paths \X Versions
      BY DEF TypeOK, OnDisk, Trees
    <3>6. OnDisk(disk) \ Excluded(policy) \subseteq Paths
      BY DEF OnDisk
    <3>7. QED
      BY <2>1, <3>2, <3>4, <3>5, <3>6 DEF CreateJob, TypeOK, bounds, InBatch
  <2>2. ASSUME NEW j \in Jobs, RequestPause(j) PROVE TypeOK'
    <3>1. \A c \in Controls : [job[j] EXCEPT !.control = c, !.pauseRequested = TRUE] \in JobRows
      BY RowType DEF JobRows
    <3>2. JobOK
      BY <2>2, <3>1, SetRow DEF RequestPause, Controls
    <3>3. QED
      BY <2>2, <3>2 DEF RequestPause, TypeOK, bounds, history, InBatch
  <2>3. ASSUME NEW j \in Jobs, ResumeJob(j) PROVE TypeOK'
    <3>1. Unowned(job[j]) \in JobRows
      BY UnownedType DEF TypeOK
    <3>2. [Unowned(job[j]) EXCEPT !.status = "running", !.control = "ready",
                                 !.pauseRequested = FALSE] \in JobRows
      BY <3>1 DEF JobRows, Statuses, Controls
    <3>3. JobOK
      BY <2>3, <3>2, SetRow DEF ResumeJob
    <3>4. QueueOK
      BY <2>3, RequeuedType DEF ResumeJob, TypeOK
    <3>5. QED
      BY <2>3, <3>3, <3>4 DEF ResumeJob, TypeOK, bounds, history, InBatch
  <2>4. ASSUME OpenDatabase PROVE TypeOK'
    BY <2>4, RecoverType DEF OpenDatabase, TypeOK, bounds, history, InBatch
  <2>5. ASSUME NEW r \in Runners, NEW j \in Jobs, Enter(r, j) PROVE TypeOK'
    <3> DEFINE state == [Idle EXCEPT !.pc = "claim", !.job = j, !.left = BatchSize,
                                     !.revision = policy.revision]
    <3>1. state \in RunnerStates /\ state.job \in Jobs
      BY IdleType, Bounds DEF RunnerStates, Steps, TypeOK
    <3>2. runner' = [runner EXCEPT ![r] = state]
      BY <2>5 DEF Enter
    <3>3. RunnerOK
      <4> HIDE DEF state
      <4> QED BY <3>1, <3>2, SetRunner DEF InBatch
    <3>4. JobOK /\ QueueOK
      BY <2>5, RecoverType DEF Enter
    <3>5. QED
      BY <2>5, <3>3, <3>4 DEF Enter, TypeOK, bounds, history
  <2>6. ASSUME NEW r \in Runners, Claim(r) PROVE TypeOK'
    <3>1. runner[r].job \in Jobs /\ InBatch(r)
      BY <2>6 DEF Claim, TypeOK, InBatch
    <3>2. [job[runner[r].job] EXCEPT !.control = "active", !.owner = r, !.lease = LeaseTicks] \in JobRows
      BY <3>1, RowType, Bounds DEF JobRows, Controls
    <3>3. JobOK
      BY <2>6, <3>1, <3>2, SetRow DEF Claim, TypeOK
    <3>4. RunnerOK
      BY <2>6, <3>1, GotoType, ReturnType DEF Claim, Steps
    <3>5. QED
      BY <2>6, <3>3, <3>4 DEF Claim, TypeOK, bounds, history
  <2>7. ASSUME NEW r \in Runners, CheckPolicy(r) PROVE TypeOK'
    <3>1. InBatch(r) /\ runner[r].job \in Jobs
      BY <2>7 DEF CheckPolicy, Asserted, TypeOK, InBatch
    <3>2. [runner[r] EXCEPT !.ok = TRUE] \in RunnerStates
          /\ [runner[r] EXCEPT !.ok = TRUE].job \in Jobs
      BY <3>1, RunnerType DEF RunnerStates
    <3>3. RunnerOK
      <4>1. CASE PolicyCurrent(r)
        <5>1. runner' = [runner EXCEPT ![r] = [runner[r] EXCEPT !.ok = TRUE]]
          BY <2>7, <4>1 DEF CheckPolicy
        <5>2. QED
          BY <3>2, <5>1, SetRunner DEF InBatch
      <4>2. CASE ~PolicyCurrent(r)
        BY <2>7, <4>2, AbortType DEF CheckPolicy
      <4>3. QED
        BY <4>1, <4>2
    <3>4. JobOK
      BY <2>7, AbortType DEF CheckPolicy, TypeOK
    <3>5. QED
      BY <2>7, <3>3, <3>4 DEF CheckPolicy, TypeOK, bounds, history
  <2>8. ASSUME NEW r \in Runners, Poll(r) PROVE TypeOK'
    <3>1. InBatch(r) /\ runner[r].job \in Jobs
      BY <2>8 DEF Poll, Ready, TypeOK, InBatch
    <3> DEFINE pc == IF job[runner[r].job].pauseRequested THEN "pause" ELSE "next"
               state == [runner[r] EXCEPT !.pc = pc, !.ok = FALSE, !.left = runner[r].left - 1]
    <3>2. runner[r].left # 0 => runner[r].left - 1 \in 0 .. BatchSize
      <4>1. runner[r].left \in 0 .. BatchSize
        BY RunnerType DEF RunnerStates
      <4>2. QED
        BY <4>1, Bounds
    <3>3. pc \in Steps
      BY DEF Steps
    <3>4. runner[r].left # 0 => state \in RunnerStates /\ state.job \in Jobs
      <4> HIDE DEF pc
      <4> QED BY <3>1, <3>2, <3>3, RunnerType DEF RunnerStates
    <3>5. runner[r].left # 0 => runner' = [runner EXCEPT ![r] = state]
      BY <2>8 DEF Poll
    <3>6. "release" \in Steps
      BY DEF Steps
    <3>7. RunnerOK
      <4> HIDE DEF state
      <4>1. CASE runner[r].left # 0
        BY <4>1, <3>4, <3>5, SetRunner DEF InBatch
      <4>2. CASE runner[r].left = 0
        BY <4>2, <2>8, <3>1, <3>6, GotoType DEF Poll
      <4>3. QED
        BY <4>1, <4>2
    <3>8. QED
      BY <2>8, <3>7 DEF Poll, TypeOK, durable, bounds, history
  <2>9. ASSUME NEW r \in Runners, NextEntry(r) PROVE TypeOK'
    <3> DEFINE j == runner[r].job
    <3>1. InBatch(r) /\ j \in Jobs
      BY <2>9 DEF NextEntry, Ready, TypeOK, InBatch
    <3>2. CASE Abort(r) /\ UNCHANGED queue
      BY <2>9, <3>2, AbortType DEF NextEntry, TypeOK, bounds, history
    <3>3. CASE Goto(r, "finalize") /\ UNCHANGED <<job, queue>>
      <4>1. "finalize" \in Steps
        BY DEF Steps
      <4>2. QED
        BY <2>9, <3>1, <3>3, <4>1, GotoType DEF NextEntry, TypeOK, bounds, history
    <3>4. CASE \E p \in Paths :
                /\ queue' = [queue EXCEPT ![j][p] = "processing"]
                /\ job' = [job EXCEPT ![j] = [@ EXCEPT !.lease = LeaseTicks]]
                /\ runner' = [runner EXCEPT ![r] = [@ EXCEPT !.pc = "process", !.ok = FALSE,
                                                             !.entry = p]]
      <4>1. PICK p \in Paths :
                /\ queue' = [queue EXCEPT ![j][p] = "processing"]
                /\ job' = [job EXCEPT ![j] = [@ EXCEPT !.lease = LeaseTicks]]
                /\ runner' = [runner EXCEPT ![r] = [@ EXCEPT !.pc = "process", !.ok = FALSE,
                                                             !.entry = p]]
        BY <3>4
      <4>2. [job[j] EXCEPT !.lease = LeaseTicks] \in JobRows
        BY <3>1, RowType, Bounds DEF JobRows
      <4>3. [runner[r] EXCEPT !.pc = "process", !.ok = FALSE, !.entry = p] \in RunnerStates
            /\ [runner[r] EXCEPT !.pc = "process", !.ok = FALSE, !.entry = p].job \in Jobs
        BY <3>1, RunnerType DEF RunnerStates, Steps
      <4>4. QueueOK
        BY <3>1, <4>1 DEF TypeOK, EntryStates
      <4>5. JobOK
        BY <3>1, <4>1, <4>2, SetRow
      <4>6. RunnerOK
        BY <4>1, <4>3, SetRunner DEF InBatch
      <4>7. QED
        BY <2>9, <4>4, <4>5, <4>6 DEF NextEntry, TypeOK, bounds, history
    <3>5. QED
      BY <2>9, <3>2, <3>3, <3>4 DEF NextEntry
  <2>10. ASSUME NEW r \in Runners, Process(r) PROVE TypeOK'
    <3>1. InBatch(r) /\ runner[r].job \in Jobs
      BY <2>10 DEF Process, Ready, TypeOK, InBatch
    <3> DEFINE p == runner[r].entry
               step == IF Children(p) = {} THEN "stage" ELSE "list"
               state == [runner[r] EXCEPT !.pc = step, !.ok = FALSE, !.observation = disk[p]]
    <3>2. CASE Goto(r, "fail") \/ Goto(r, "stage")
      <4>1. "fail" \in Steps /\ "stage" \in Steps
        BY DEF Steps
      <4>2. QED
        BY <2>10, <3>1, <3>2, <4>1, GotoType DEF Process, durable, TypeOK, bounds, history
    <3>3. CASE runner' = [runner EXCEPT ![r] = state]
      <4>1. step \in Steps
        BY DEF Steps
      <4>2. disk[p] \in Versions \cup {Absent}
        BY DEF TypeOK, Trees, RunnerStates
      <4>3. state \in RunnerStates /\ state.job \in Jobs
        <5> HIDE DEF step
        <5> QED BY <3>1, <4>1, <4>2, RunnerType DEF RunnerStates
      <4>4. RunnerOK
        <5> HIDE DEF state
        <5> QED BY <3>3, <4>3, SetRunner DEF InBatch
      <4>5. QED
        BY <2>10, <4>4 DEF Process, durable, TypeOK, bounds, history
    <3>4. QED
      BY <2>10, <3>2, <3>3 DEF Process
  <2>11. ASSUME NEW r \in Runners, List(r) PROVE TypeOK'
    <3> DEFINE kids == (Children(runner[r].entry) \cap OnDisk(disk)) \ Excluded(policy)
               state == [runner[r] EXCEPT !.pc = "stage", !.ok = FALSE, !.children = kids]
    <3>1. InBatch(r) /\ runner[r].job \in Jobs
      BY <2>11 DEF List, Ready, TypeOK, InBatch
    <3>2. kids \in SUBSET Paths
      BY DEF Children
    <3>3. state \in RunnerStates /\ state.job \in Jobs
      <4> HIDE DEF kids
      <4> QED BY <3>1, <3>2, RunnerType DEF RunnerStates, Steps
    <3>4. runner' = [runner EXCEPT ![r] = state]
      BY <2>11 DEF List
    <3>5. RunnerOK
      <4> HIDE DEF state
      <4> QED BY <3>3, <3>4, SetRunner DEF InBatch
    <3>6. QED
      BY <2>11, <3>5 DEF List, durable, TypeOK, bounds, history
  <2>12. ASSUME NEW r \in Runners, Stage(r) PROVE TypeOK'
    <3> DEFINE j == runner[r].job
    <3>1. InBatch(r) /\ j \in Jobs
      BY <2>12 DEF Stage, Ready, TypeOK, InBatch
    <3>2. CASE Abort(r) /\ UNCHANGED <<queue, staged>>
      BY <2>12, <3>2, AbortType DEF Stage, TypeOK, bounds, history
    <3>3. CASE ~(Abort(r) /\ UNCHANGED <<queue, staged>>)
      <4> DEFINE state == [runner[r] EXCEPT !.pc = "poll", !.ok = FALSE, !.entry = Root,
                                            !.observation = Absent, !.children = {}]
      <4>1. [job[j] EXCEPT !.lease = LeaseTicks] \in JobRows
        BY <3>1, RowType, Bounds DEF JobRows
      <4>2. JobOK
        BY <2>12, <3>1, <3>3, <4>1, SetRow DEF Stage
      <4>3. state \in RunnerStates /\ state.job \in Jobs
        <5>1. Root \in Paths
          BY TreeAssumption DEF TreeAssumption
        <5>2. QED
          BY <3>1, <5>1, RunnerType DEF RunnerStates, Steps
      <4>4. runner' = [runner EXCEPT ![r] = state]
        BY <2>12, <3>3 DEF Stage, NextRound
      <4>5. RunnerOK
        <5> HIDE DEF state
        <5> QED BY <4>3, <4>4, SetRunner DEF InBatch
      <4> DEFINE p == runner[r].entry
                 kids == runner[r].children
                 after == [q \in Paths |-> IF q = p THEN "done"
                                           ELSE IF q \in kids /\ queue[j][q] = "absent"
                                           THEN "pending" ELSE queue[j][q]]
      <4>6. QueueOK
        <5>1. queue[j] \in [Paths -> EntryStates] /\ queue \in [Jobs -> [Paths -> EntryStates]]
          BY <3>1 DEF TypeOK
        <5>2. after \in [Paths -> EntryStates]
          BY <5>1 DEF EntryStates
        <5>3. queue' = [queue EXCEPT ![j] = after]
          BY <2>12, <3>3 DEF Stage
        <5> HIDE DEF after
        <5>4. QED
          BY <5>1, <5>2, <5>3
      <4>7. staged' \in [Jobs -> Trees]
        <5>1. p \in Paths /\ runner[r].observation \in Versions \cup {Absent}
          BY RunnerType DEF RunnerStates
        <5>2. staged \in [Jobs -> Trees]
          BY DEF TypeOK
        <5>3. staged' = staged \/ staged' = [staged EXCEPT ![j][p] = runner[r].observation]
          BY <2>12, <3>3 DEF Stage
        <5>4. QED
          BY <3>1, <5>1, <5>2, <5>3 DEF Trees
      <4>8. QED
        BY <2>12, <4>2, <4>5, <4>6, <4>7 DEF Stage, TypeOK, bounds, history
    <3>4. QED
      BY <3>2, <3>3
  <2>13. ASSUME NEW r \in Runners, Release(r) PROVE TypeOK'
    <3> DEFINE j == runner[r].job
    <3>1. InBatch(r) /\ j \in Jobs
      BY <2>13 DEF Release, Ready, TypeOK, InBatch
    <3>2. Unowned(job[j]) \in JobRows
      BY <3>1, UnownedType DEF TypeOK
    <3>3. [Unowned(job[j]) EXCEPT !.control = ReleasedControl(job[j])] \in JobRows
      BY <3>2 DEF JobRows, Controls, ReleasedControl
    <3>4. JobOK /\ RunnerOK
      BY <2>13, <3>1, <3>3, SetRow, AbortType, ReturnType DEF Release
    <3>5. QED
      BY <2>13, <3>4 DEF Release, TypeOK, bounds, history
  <2>14. ASSUME NEW r \in Runners, Finalize(r) PROVE TypeOK'
    <3> DEFINE j == runner[r].job
    <3>1. InBatch(r) /\ j \in Jobs
      BY <2>14 DEF Finalize, Ready, TypeOK, InBatch
    <3>2. "completed" \in Statuses
      BY DEF Statuses
    <3>3. [Ended(job[j], "completed") EXCEPT !.pauseRequested = FALSE] \in JobRows
      BY <3>1, <3>2, EndedType DEF TypeOK
    <3>4. JobOK /\ RunnerOK
      BY <2>14, <3>1, <3>3, SetRow, AbortType, ReturnType DEF Finalize
    <3>5. QueueOK /\ staged' \in [Jobs -> Trees] /\ manifest' \in Trees
      <4>1. /\ queue \in [Jobs -> [Paths -> EntryStates]] /\ staged \in [Jobs -> Trees]
            /\ manifest \in Trees /\ staged[j] \in Trees
        BY <3>1 DEF TypeOK
      <4>2. QED
        BY <2>14, <3>1, <4>1, QueueTypes DEF Finalize
    <3>6. QED
      BY <2>14, <3>4, <3>5 DEF Finalize, TypeOK, bounds, history
  <2>15. ASSUME NEW r \in Runners, Fail(r) PROVE TypeOK'
    <3> DEFINE j == runner[r].job
    <3>1. InBatch(r) /\ j \in Jobs
      BY <2>15 DEF Fail, Ready, TypeOK, InBatch
    <3>2. "failed" \in Statuses
      BY DEF Statuses
    <3>3. Ended(job[j], "failed") \in JobRows
      BY <3>1, <3>2, EndedType DEF TypeOK
    <3>4. JobOK /\ RunnerOK
      BY <2>15, <3>1, <3>3, SetRow, AbortType, ReturnType DEF Fail
    <3>5. QED
      BY <2>15, <3>4 DEF Fail, TypeOK, bounds, history
  <2>16. ASSUME NEW r \in Runners, NEW hidden, Overlook(r, hidden) PROVE
            /\ faults' \in 0 .. MaxFaults
            /\ steady' \in [Jobs -> SUBSET Paths]
    <3>1. steady \in [Jobs -> SUBSET Paths] /\ faults \in 0 .. MaxFaults
      BY DEF TypeOK
    <3>2. faults' \in 0 .. MaxFaults
      BY <2>16, <3>1, Bounds DEF Overlook
    <3>3. steady' = [steady EXCEPT ![runner[r].job] = @ \ UNION {Below(p) : p \in hidden}]
      BY <2>16 DEF Overlook
    <3>4. steady' \in [Jobs -> SUBSET Paths]
      BY <3>1, <3>3
    <3>5. QED
      BY <3>2, <3>4
  <2>17. ASSUME NEW r \in Runners, ProcessUnreadable(r) PROVE TypeOK'
    <3>1. InBatch(r) /\ runner[r].job \in Jobs
      BY <2>17 DEF ProcessUnreadable, Ready, TypeOK, InBatch
    <3>2. RunnerOK
      BY <2>17, <3>1, GotoType DEF ProcessUnreadable, Steps
    <3>3. QED
      BY <2>16, <2>17, <3>2 DEF ProcessUnreadable, Overlook, durable, TypeOK
  <2>18. ASSUME NEW r \in Runners, ListUnreadable(r) PROVE TypeOK'
    <3> DEFINE listed == (Children(runner[r].entry) \cap OnDisk(disk)) \ Excluded(policy)
    <3>1. InBatch(r) /\ runner[r].job \in Jobs
      BY <2>18 DEF ListUnreadable, Ready, TypeOK, InBatch
    <3>2. PICK hidden \in (SUBSET listed) \ {{}} :
            /\ runner' = [runner EXCEPT ![r] = [@ EXCEPT !.pc = "stage", !.ok = FALSE,
                                                         !.children = listed \ hidden]]
            /\ Overlook(r, hidden)
      BY <2>18 DEF ListUnreadable
    <3> DEFINE kids == listed \ hidden
               state == [runner[r] EXCEPT !.pc = "stage", !.ok = FALSE, !.children = kids]
    <3>3. kids \in SUBSET Paths
      BY DEF Children
    <3>4. state \in RunnerStates /\ state.job \in Jobs
      <4> HIDE DEF kids
      <4> QED BY <3>1, <3>3, RunnerType DEF RunnerStates, Steps
    <3>5. RunnerOK
      <4>1. runner' = [runner EXCEPT ![r] = state]
        BY <3>2
      <4> HIDE DEF state
      <4>2. QED
        BY <3>4, <4>1, SetRunner DEF InBatch
    <3>6. QED
      BY <2>16, <3>2, <3>5 DEF Overlook, durable, TypeOK
  <2>19. ASSUME NEW r \in Runners, Crash(r) PROVE TypeOK'
    BY <2>19, AbortType, Bounds DEF Crash, TypeOK, history
  <2>20. ASSUME Tick PROVE TypeOK'
    <3>1. ASSUME NEW j \in Jobs
          PROVE  job[j].lease > 0 => [job[j] EXCEPT !.lease = job[j].lease - 1] \in JobRows
      <4>1. job[j].lease \in 0 .. LeaseTicks
        BY RowType DEF JobRows
      <4>2. job[j].lease > 0 => job[j].lease - 1 \in 0 .. LeaseTicks
        BY <4>1, Bounds
      <4>3. QED
        BY <4>2, RowType DEF JobRows
    <3>2. ASSUME NEW j \in Jobs
          PROVE  (IF job[j].lease > 0 THEN [job[j] EXCEPT !.lease = job[j].lease - 1]
                  ELSE job[j]) \in JobRows
      BY <3>1 DEF TypeOK
    <3>3. JobOK
      BY <2>20, <3>2 DEF Tick
    <3>4. QED
      BY <2>20, <3>3 DEF Tick, TypeOK, bounds, history, InBatch
  <2>21. ASSUME ChangeDisk PROVE TypeOK'
    <3>1. disk' \in Trees
      BY <2>21 DEF ChangeDisk, TypeOK, Trees
    <3>2. {<<p, disk'[p]>> : p \in OnDisk(disk')} \subseteq Paths \X Versions
      BY <3>1 DEF OnDisk, Trees
    <3>3. seen' \in [Jobs -> SUBSET (Paths \X Versions)]
      BY <2>21, <3>2 DEF ChangeDisk, TypeOK
    <3>4. steady' \in [Jobs -> SUBSET Paths]
      BY <2>21 DEF ChangeDisk, TypeOK
    <3>5. changes' \in 0 .. MaxChanges
      BY <2>21, Bounds DEF ChangeDisk, TypeOK
    <3>6. QED
      BY <2>21, <3>1, <3>3, <3>4, <3>5 DEF ChangeDisk, durable, TypeOK, InBatch
  <2>22. /\ [j \in Jobs |-> NoQueue] \in [Jobs -> [Paths -> EntryStates]]
         /\ [j \in Jobs |-> NoRows] \in [Jobs -> Trees]
         /\ "failed" \in Statuses
    BY QueueTypes DEF Statuses
  <2>23. ASSUME ApplyExclusion PROVE TypeOK'
    <3>1. JobOK /\ QueueOK /\ staged' \in [Jobs -> Trees]
      <4>1. ASSUME NEW j \in Jobs
            PROVE  [Ended(job[j], "failed") EXCEPT !.pauseRequested = FALSE] \in JobRows
        BY <2>22, EndedType DEF TypeOK
      <4>2. ASSUME NEW j \in Jobs
            PROVE  (IF Live(j) THEN [Ended(job[j], "failed") EXCEPT !.pauseRequested = FALSE]
                    ELSE job[j]) \in JobRows
        BY <4>1 DEF TypeOK
      <4>3. QED
        BY <2>22, <2>23, <4>2 DEF ApplyExclusion, PurgeJobs
    <3>2. policy' \in [revision : 1 .. MaxRevision, excluded : SUBSET Paths,
                       grant : {"active", "needs_reauthorization", "revoked"}]
      <4>1. PICK p \in Paths \ ({Root} \cup Excluded(policy)) :
               policy' = [policy EXCEPT !.revision = @ + 1, !.excluded = @ \cup {p}]
        BY <2>23 DEF ApplyExclusion
      <4>2. policy.revision + 1 \in 1 .. MaxRevision
        BY <2>23, Bounds DEF ApplyExclusion, TypeOK
      <4>3. policy.excluded \cup {p} \in SUBSET Paths
        BY DEF TypeOK
      <4>4. QED
        BY <4>1, <4>2, <4>3 DEF TypeOK
    <3>3. manifest' \in Trees
      BY <2>23 DEF ApplyExclusion, Pruned, TypeOK, Trees
    <3>4. QED
      BY <2>23, <3>1, <3>2, <3>3 DEF ApplyExclusion, TypeOK, bounds, history, InBatch
  <2>24. ASSUME RevokeRoot PROVE TypeOK'
    <3>1. ASSUME NEW j \in Jobs
          PROVE  [Ended(job[j], "failed") EXCEPT !.pauseRequested = FALSE] \in JobRows
      BY <2>22, EndedType DEF TypeOK
    <3>2. ASSUME NEW j \in Jobs
          PROVE  (IF Live(j) \/ job[j].status = "completed"
                  THEN [Ended(job[j], "failed") EXCEPT !.pauseRequested = FALSE]
                  ELSE job[j]) \in JobRows
      BY <3>1 DEF TypeOK
    <3>3. JobOK /\ QueueOK /\ staged' \in [Jobs -> Trees] /\ manifest' \in Trees
      BY <2>22, <2>24, <3>2, QueueTypes DEF RevokeRoot
    <3>4. policy.revision + 1 \in 1 .. MaxRevision
      BY <2>24, Bounds DEF RevokeRoot, TypeOK
    <3>5. policy' \in [revision : 1 .. MaxRevision, excluded : SUBSET Paths,
                       grant : {"active", "needs_reauthorization", "revoked"}]
      BY <2>24, <3>4 DEF RevokeRoot
    <3>6. QED
      BY <2>24, <3>3, <3>5 DEF RevokeRoot, TypeOK, bounds, history, InBatch
  <2>25. ASSUME Grant PROVE TypeOK'
    BY <2>25 DEF Grant, TypeOK, bounds, history, InBatch
  <2>26. ASSUME LapseGrant PROVE TypeOK'
    BY <2>26, Bounds DEF LapseGrant, TypeOK, history, InBatch
  <2>27. ASSUME UNCHANGED vars PROVE TypeOK'
    BY <2>27 DEF vars, TypeOK, InBatch
  <2>28. QED
    BY <2>1, <2>2, <2>3, <2>4, <2>5, <2>6, <2>7, <2>8, <2>9, <2>10, <2>11, <2>12, <2>13, <2>14,
       <2>15, <2>17, <2>18, <2>19, <2>20, <2>21, <2>23, <2>24, <2>25, <2>26, <2>27
    DEF Next, Step
<1>3. QED
  BY <1>1, <1>2, PTL DEF Spec

-----------------------------------------------------------------------------
(* What one step does to a row and to a runner.  The later proofs use these *)
(* facts in place of the updates themselves.                                *)

SameRow(k) ==
    /\ job'[k].status = job[k].status
    /\ job'[k].control = job[k].control
    /\ job'[k].owner = job[k].owner
    /\ job'[k].revision = job[k].revision

FreedRow(k, status, controls) ==
    /\ job'[k].status = status
    /\ job'[k].control \in controls
    /\ job'[k].owner = NoRunner
    /\ job'[k].revision = job[k].revision

\* The row of a batch that is over, if it had one.
OrphanedRow(k, r) ==
    /\ job'[k].status = job[k].status
    /\ job'[k].control = job[k].control
    /\ job'[k].owner = IF job[k].owner = r THEN Orphan ELSE job[k].owner
    /\ job'[k].revision = job[k].revision

MovesTo(r, steps) ==
    /\ runner'[r].pc \in steps
    /\ runner'[r].job = runner[r].job

OthersStay(r) == \A s \in Runners \ {r} : runner'[s] = runner[s]

LEMMA RowFields ==
    ASSUME NEW row \in JobRows, NEW s \in Statuses
    PROVE  /\ Unowned(row).owner = NoRunner /\ Unowned(row).status = row.status
           /\ Unowned(row).control = row.control /\ Unowned(row).revision = row.revision
           /\ Ended(row, s).owner = NoRunner /\ Ended(row, s).status = s
           /\ Ended(row, s).control = "ready" /\ Ended(row, s).revision = row.revision
<1>1. Unowned(row) \in JobRows
  BY UnownedType
<1>2. Unowned(row).owner = NoRunner /\ Unowned(row).status = row.status
      /\ Unowned(row).control = row.control /\ Unowned(row).revision = row.revision
  BY DEF Unowned, JobRows
<1>3. Ended(row, s).owner = Unowned(row).owner /\ Ended(row, s).status = s
      /\ Ended(row, s).control = "ready" /\ Ended(row, s).revision = Unowned(row).revision
  BY <1>1 DEF Ended, JobRows
<1>4. QED
  BY <1>2, <1>3

LEMMA ReturnEffect ==
    ASSUME TypeOK, NEW r \in Runners, Return(r)
    PROVE  runner'[r].pc = "idle" /\ OthersStay(r)
BY IdleType DEF Return, TypeOK, OthersStay

LEMMA GotoEffect ==
    ASSUME TypeOK, NEW r \in Runners, NEW step, Goto(r, step)
    PROVE  /\ MovesTo(r, {step}) /\ OthersStay(r)
           /\ runner'[r].entry = runner[r].entry
           /\ runner'[r].observation = runner[r].observation
           /\ runner'[r].children = runner[r].children
<1>1. runner[r] \in RunnerStates
  BY RunnerType
<1>2. runner'[r] = [runner[r] EXCEPT !.pc = step, !.ok = FALSE] /\ OthersStay(r)
  BY DEF Goto, TypeOK, OthersStay
<1>3. QED
  BY <1>1, <1>2 DEF RunnerStates, MovesTo

LEMMA AbortEffect ==
    ASSUME TypeOK, NEW r \in Runners, Abort(r)
    PROVE  /\ runner'[r].pc = "idle" /\ OthersStay(r)
           /\ \A k \in Jobs : OrphanedRow(k, r)
<1>1. ASSUME NEW k \in Jobs PROVE OrphanedRow(k, r)
  <2>1. job'[k] = IF job[k].owner = r THEN [job[k] EXCEPT !.owner = Orphan] ELSE job[k]
    BY DEF Abort, Abandoned
  <2>2. QED
    BY <2>1, RowType DEF OrphanedRow, JobRows
<1>2. QED
  BY <1>1, ReturnEffect DEF Abort

LEMMA RecoverEffect ==
    ASSUME TypeOK, RecoverExpired, NEW k \in Jobs
    PROVE  \/ ~Expired(k) /\ SameRow(k)
              /\ queue'[k] = IF job[k].status = "interrupted" THEN Requeued(queue[k]) ELSE queue[k]
           \/ Expired(k) /\ FreedRow(k, "interrupted", {"ready"}) /\ queue'[k] = Requeued(queue[k])
<1>1. "interrupted" \in Statuses /\ job[k] \in JobRows
  BY RowType DEF Statuses
<1>2. job'[k] = Recovered(k)
      /\ queue'[k] = IF Recovered(k).status = "interrupted" THEN Requeued(queue[k]) ELSE queue[k]
  BY DEF RecoverExpired
<1>3. Expired(k) => FreedRow(k, "interrupted", {"ready"}) /\ queue'[k] = Requeued(queue[k])
  BY <1>1, <1>2, RowFields DEF Recovered, FreedRow
<1>4. ~Expired(k) => SameRow(k)
         /\ queue'[k] = IF job[k].status = "interrupted" THEN Requeued(queue[k]) ELSE queue[k]
  BY <1>2 DEF Recovered, SameRow
<1>5. QED
  BY <1>3, <1>4

LEMMA PurgeEffect ==
    ASSUME TypeOK, PurgeJobs \/ RevokeRoot, NEW k \in Jobs
    PROVE  /\ SameRow(k) \/ FreedRow(k, "failed", {"ready"})
           /\ Live(k) => job'[k].status = "failed"
           /\ job[k].status = "none" => job'[k].status = "none"
           /\ queue'[k] = NoQueue /\ staged'[k] = NoRows
<1> DEFINE row == [Ended(job[k], "failed") EXCEPT !.pauseRequested = FALSE]
<1>1. "failed" \in Statuses /\ job[k] \in JobRows
  BY RowType DEF Statuses
<1>2. /\ row.status = "failed" /\ row.control = "ready"
      /\ row.owner = NoRunner /\ row.revision = job[k].revision
  <2>1. Ended(job[k], "failed") \in JobRows
    BY <1>1, EndedType
  <2>2. /\ row.status = Ended(job[k], "failed").status /\ row.control = Ended(job[k], "failed").control
        /\ row.owner = Ended(job[k], "failed").owner
        /\ row.revision = Ended(job[k], "failed").revision
    BY <2>1 DEF JobRows
  <2>3. QED
    BY <1>1, <2>2, RowFields
<1>3. job'[k] = job[k] \/ job'[k] = row
  BY DEF PurgeJobs, RevokeRoot
<1>4. Live(k) => job'[k] = row
  BY DEF PurgeJobs, RevokeRoot
<1>5. job[k].status = "none" => job'[k] = job[k]
  BY DEF PurgeJobs, RevokeRoot, Live, IsLive
<1>6. queue'[k] = NoQueue /\ staged'[k] = NoRows
  BY DEF PurgeJobs, RevokeRoot
<1> HIDE DEF row
<1>7. QED
  BY <1>2, <1>3, <1>4, <1>5, <1>6 DEF SameRow, FreedRow

LEMMA CreateEffect ==
    ASSUME TypeOK, NEW j \in Jobs, CreateJob(j)
    PROVE  /\ job'[j].status = "running" /\ job'[j].control = "ready"
           /\ job'[j].owner = NoRunner /\ job'[j].revision = policy.revision
           /\ \A k \in Jobs \ {j} : job'[k] = job[k]
<1> DEFINE row == [NoJob EXCEPT !.status = "running", !.revision = policy.revision]
<1>1. row.status = "running" /\ row.control = "ready"
      /\ row.owner = NoRunner /\ row.revision = policy.revision
  BY NoJobType DEF NoJob
<1>2. job' = [job EXCEPT ![j] = row]
  BY DEF CreateJob
<1> HIDE DEF row
<1>3. QED
  BY <1>1, <1>2 DEF TypeOK

LEMMA PauseEffect ==
    ASSUME TypeOK, NEW j \in Jobs, RequestPause(j)
    PROVE  /\ job'[j].status = job[j].status /\ job'[j].owner = job[j].owner
           /\ job'[j].revision = job[j].revision
           /\ \/ job[j].control = "ready" /\ job'[j].control = "paused"
              \/ job[j].control = "active" /\ job'[j].control = "pause_requested"
           /\ \A k \in Jobs \ {j} : job'[k] = job[k]
<1>1. job[j] \in JobRows /\ job \in [Jobs -> JobRows]
  BY RowType DEF TypeOK
<1>2. PICK c \in {"paused", "pause_requested"} :
         /\ job' = [job EXCEPT ![j] = [@ EXCEPT !.control = c, !.pauseRequested = TRUE]]
         /\ \/ job[j].control = "ready" /\ c = "paused"
            \/ job[j].control = "active" /\ c = "pause_requested"
  BY DEF RequestPause
<1>3. job'[j] = [job[j] EXCEPT !.control = c, !.pauseRequested = TRUE]
  BY <1>1, <1>2
<1>4. QED
  BY <1>1, <1>2, <1>3 DEF JobRows

LEMMA ResumeEffect ==
    ASSUME TypeOK, NEW j \in Jobs, ResumeJob(j)
    PROVE  /\ FreedRow(j, "running", {"ready"})
           /\ \A k \in Jobs \ {j} : job'[k] = job[k]
<1> DEFINE row == [Unowned(job[j]) EXCEPT !.status = "running", !.control = "ready",
                                          !.pauseRequested = FALSE]
<1>1. Unowned(job[j]) \in JobRows
  BY RowType, UnownedType
<1>2. row.status = "running" /\ row.control = "ready" /\ row.owner = Unowned(job[j]).owner
      /\ row.revision = Unowned(job[j]).revision
  BY <1>1 DEF JobRows
<1>3. "running" \in Statuses
  BY DEF Statuses
<1>4. row.status = "running" /\ row.control = "ready" /\ row.owner = NoRunner
      /\ row.revision = job[j].revision
  BY <1>2, <1>3, RowType, RowFields
<1>5. job' = [job EXCEPT ![j] = row]
  BY DEF ResumeJob
<1> HIDE DEF row
<1>6. QED
  BY <1>4, <1>5 DEF TypeOK, FreedRow

\* Claim, and every later call that keeps the row: the lease is not looked at.
LEMMA ClaimEffect ==
    ASSUME TypeOK, NEW r \in Runners, NEW j \in Jobs,
           job' = [job EXCEPT ![j] = [@ EXCEPT !.control = "active", !.owner = r, !.lease = LeaseTicks]]
    PROVE  /\ job'[j].status = job[j].status /\ job'[j].control = "active"
           /\ job'[j].owner = r /\ job'[j].revision = job[j].revision
           /\ \A k \in Jobs \ {j} : job'[k] = job[k]
<1>1. job[j] \in JobRows /\ job \in [Jobs -> JobRows]
  BY RowType DEF TypeOK
<1>2. job'[j] = [job[j] EXCEPT !.control = "active", !.owner = r, !.lease = LeaseTicks]
  BY <1>1
<1>3. QED
  BY <1>1, <1>2 DEF JobRows

LEMMA RenewEffect ==
    ASSUME TypeOK, NEW j \in Jobs, job' = [job EXCEPT ![j] = [@ EXCEPT !.lease = LeaseTicks]]
    PROVE  \A k \in Jobs : SameRow(k)
<1>1. job[j] \in JobRows /\ job \in [Jobs -> JobRows]
  BY RowType DEF TypeOK
<1>2. job'[j] = [job[j] EXCEPT !.lease = LeaseTicks]
  BY <1>1
<1>3. QED
  BY <1>1, <1>2 DEF JobRows, SameRow

LEMMA TickEffect == ASSUME TypeOK, Tick, NEW k \in Jobs PROVE SameRow(k)
<1>1. job[k] \in JobRows
  BY RowType
<1>2. job'[k] = IF job[k].lease > 0 THEN [job[k] EXCEPT !.lease = job[k].lease - 1] ELSE job[k]
  BY DEF Tick
<1>3. QED
  BY <1>1, <1>2 DEF JobRows, SameRow

\* Release, Finalize and Fail by the owner.
LEMMA ReleaseEffect ==
    ASSUME TypeOK, NEW r \in Runners, Release(r), OwnedRunner(runner[r].job, r),
           job[runner[r].job].revision = policy.revision
    PROVE  /\ FreedRow(runner[r].job, "running", {"ready", "paused"})
           /\ \A k \in Jobs \ {runner[r].job} : job'[k] = job[k]
           /\ runner'[r].pc = "idle" /\ OthersStay(r)
<1> DEFINE j == runner[r].job
           control == ReleasedControl(job[j])
           row == [Unowned(job[j]) EXCEPT !.control = control]
<1>1. j \in Jobs
  BY RunnerType DEF Release, Ready, InBatch
<1>2. Unowned(job[j]) \in JobRows /\ job[j].status = "running"
  BY <1>1, RowType, UnownedType DEF OwnedRunner, OwnsIn
<1>3. row.status = Unowned(job[j]).status /\ row.control = control
      /\ row.owner = Unowned(job[j]).owner /\ row.revision = Unowned(job[j]).revision
  <2> HIDE DEF control
  <2> QED BY <1>2 DEF JobRows
<1>4. "running" \in Statuses /\ control \in {"ready", "paused"}
  BY DEF Statuses, ReleasedControl
<1>5. row.status = "running" /\ row.control \in {"ready", "paused"} /\ row.owner = NoRunner
      /\ row.revision = job[j].revision
  BY <1>1, <1>2, <1>3, <1>4, RowType, RowFields
<1>6. job' = [job EXCEPT ![j] = row] /\ Return(r)
  BY DEF Release
<1> HIDE DEF row
<1>7. QED
  BY <1>1, <1>5, <1>6, ReturnEffect DEF TypeOK, FreedRow

LEMMA EndEffect ==
    ASSUME TypeOK, NEW j \in Jobs, NEW s \in Statuses,
           \/ job' = [job EXCEPT ![j] = Ended(@, s)]
           \/ job' = [job EXCEPT ![j] = [Ended(@, s) EXCEPT !.pauseRequested = FALSE]]
    PROVE  /\ FreedRow(j, s, {"ready"})
           /\ \A k \in Jobs \ {j} : job'[k] = job[k]
<1> DEFINE row == Ended(job[j], s)
           cleared == [row EXCEPT !.pauseRequested = FALSE]
<1>1. row \in JobRows
  BY RowType, EndedType
<1>2. /\ cleared.status = row.status /\ cleared.control = row.control
      /\ cleared.owner = row.owner /\ cleared.revision = row.revision
  BY <1>1 DEF JobRows
<1>3. row.status = s /\ row.control = "ready" /\ row.owner = NoRunner
      /\ row.revision = job[j].revision
  BY RowType, RowFields
<1>4. \/ job' = [job EXCEPT ![j] = row]
      \/ job' = [job EXCEPT ![j] = cleared]
  OBVIOUS
<1> HIDE DEF row, cleared
<1>5. QED
  BY <1>2, <1>3, <1>4 DEF TypeOK, FreedRow

\* What the steps inside a batch do to what its runner remembers.
SameData(r) ==
    /\ runner'[r].entry = runner[r].entry
    /\ runner'[r].observation = runner[r].observation
    /\ runner'[r].children = runner[r].children

LEMMA SetEffect ==
    ASSUME TypeOK, NEW r \in Runners, NEW state, runner' = [runner EXCEPT ![r] = state]
    PROVE  runner'[r] = state /\ OthersStay(r)
BY DEF TypeOK, OthersStay

LEMMA CheckEffect ==
    ASSUME TypeOK, NEW r \in Runners, runner' = [runner EXCEPT ![r] = [@ EXCEPT !.ok = TRUE]]
    PROVE  MovesTo(r, {runner[r].pc}) /\ OthersStay(r) /\ SameData(r)
<1>1. runner[r] \in RunnerStates /\ runner'[r] = [runner[r] EXCEPT !.ok = TRUE] /\ OthersStay(r)
  BY RunnerType, SetEffect
<1>2. QED
  BY <1>1 DEF RunnerStates, MovesTo, SameData

LEMMA PollEffect ==
    ASSUME TypeOK, NEW r \in Runners, Poll(r)
    PROVE  MovesTo(r, {"release", "pause", "next"}) /\ OthersStay(r) /\ SameData(r)
<1>1. CASE Goto(r, "release")
  BY <1>1, GotoEffect DEF MovesTo, SameData
<1>2. CASE runner' = [runner EXCEPT ![r] = [@ EXCEPT
              !.pc = IF job[runner[r].job].pauseRequested THEN "pause" ELSE "next",
              !.ok = FALSE, !.left = runner[r].left - 1]]
  <2> DEFINE pc == IF job[runner[r].job].pauseRequested THEN "pause" ELSE "next"
  <2>1. runner[r] \in RunnerStates /\ pc \in {"pause", "next"}
    BY RunnerType
  <2>2. runner' = [runner EXCEPT ![r] = [@ EXCEPT !.pc = pc, !.ok = FALSE,
                                                  !.left = runner[r].left - 1]]
    BY <1>2
  <2> HIDE DEF pc
  <2>3. runner'[r] = [runner[r] EXCEPT !.pc = pc, !.ok = FALSE, !.left = runner[r].left - 1]
        /\ OthersStay(r)
    BY <2>2, SetEffect
  <2>4. QED
    BY <2>1, <2>3 DEF RunnerStates, MovesTo, SameData
<1>3. QED
  BY <1>1, <1>2 DEF Poll

LEMMA TakeEffect ==
    ASSUME TypeOK, NEW r \in Runners, NEW p \in Paths,
           runner' = [runner EXCEPT ![r] = [@ EXCEPT !.pc = "process", !.ok = FALSE, !.entry = p]]
    PROVE  /\ MovesTo(r, {"process"}) /\ OthersStay(r)
           /\ runner'[r].entry = p
           /\ runner'[r].observation = runner[r].observation
           /\ runner'[r].children = runner[r].children
<1>1. runner[r] \in RunnerStates /\ OthersStay(r)
      /\ runner'[r] = [runner[r] EXCEPT !.pc = "process", !.ok = FALSE, !.entry = p]
  BY RunnerType, SetEffect
<1>2. MovesTo(r, {"process"})
  <2>1. runner'[r].pc = "process"
    BY <1>1 DEF RunnerStates
  <2>2. runner'[r].job = runner[r].job
    BY <1>1 DEF RunnerStates
  <2>3. QED
    BY <2>1, <2>2 DEF MovesTo
<1>3. runner'[r].entry = p
  BY <1>1 DEF RunnerStates
<1>4. runner'[r].observation = runner[r].observation /\ runner'[r].children = runner[r].children
  BY <1>1 DEF RunnerStates
<1>5. QED
  BY <1>1, <1>2, <1>3, <1>4

LEMMA ProcessEffect ==
    ASSUME TypeOK, NEW r \in Runners, Process(r) \/ ProcessUnreadable(r)
    PROVE  /\ MovesTo(r, {"fail", "stage", "list"}) /\ OthersStay(r)
           /\ runner'[r].entry = runner[r].entry
           /\ runner'[r].children = runner[r].children
           /\ \/ /\ runner[r].entry \in OnDisk(disk) \ Excluded(policy)
                 /\ runner'[r].observation = disk[runner[r].entry]
                 /\ Process(r)
              \/ /\ runner'[r].observation = runner[r].observation
                 /\ runner'[r].pc \in {"fail", "stage"}
                 /\ runner[r].entry \in OnDisk(disk) \ Excluded(policy) => ProcessUnreadable(r)
<1> DEFINE p == runner[r].entry
           there == p \in OnDisk(disk) \ Excluded(policy)
<1>1. runner[r] \in RunnerStates
  BY RunnerType
<1>2. ASSUME NEW pc \in {"fail", "stage"}, Goto(r, pc)
      PROVE  /\ MovesTo(r, {"fail", "stage", "list"}) /\ OthersStay(r) /\ SameData(r)
             /\ runner'[r].pc \in {"fail", "stage"}
  BY <1>2, GotoEffect DEF MovesTo, SameData
<1>3. ASSUME NEW pc \in {"stage", "list"},
             runner' = [runner EXCEPT ![r] = [@ EXCEPT !.pc = pc, !.ok = FALSE, !.observation = disk[p]]]
      PROVE  /\ MovesTo(r, {"fail", "stage", "list"}) /\ OthersStay(r)
             /\ runner'[r].entry = runner[r].entry
             /\ runner'[r].children = runner[r].children
             /\ runner'[r].observation = disk[p]
  <2>1. runner'[r] = [runner[r] EXCEPT !.pc = pc, !.ok = FALSE, !.observation = disk[p]]
        /\ OthersStay(r)
    BY <1>3, SetEffect
  <2>2. QED
    BY <1>1, <2>1 DEF RunnerStates, MovesTo
<1>4. CASE Process(r) /\ there
  <2>1. p \notin Excluded(policy) /\ disk[p] # Absent
    BY <1>4 DEF OnDisk
  <2>2. PICK pc \in {"stage", "list"} :
           runner' = [runner EXCEPT ![r] = [@ EXCEPT !.pc = pc, !.ok = FALSE, !.observation = disk[p]]]
    BY <1>4, <2>1 DEF Process
  <2>3. QED
    BY <1>3, <1>4, <2>2
<1>5. CASE Process(r) /\ ~there
  <2>1. ~(p \notin Excluded(policy) /\ disk[p] # Absent)
    BY <1>1, <1>5 DEF OnDisk, RunnerStates
  <2>2. PICK pc \in {"fail", "stage"} : Goto(r, pc)
    BY <1>5, <2>1 DEF Process
  <2>3. QED
    BY <1>2, <1>5, <2>2 DEF SameData
<1>6. CASE ProcessUnreadable(r)
  BY <1>2, <1>6 DEF ProcessUnreadable, SameData
<1>7. QED
  BY <1>4, <1>5, <1>6

LEMMA ListEffect ==
    ASSUME TypeOK, NEW r \in Runners, List(r) \/ ListUnreadable(r)
    PROVE  /\ MovesTo(r, {"stage"}) /\ OthersStay(r)
           /\ runner'[r].entry = runner[r].entry
           /\ runner'[r].observation = runner[r].observation
           /\ runner'[r].children \subseteq Paths \ Excluded(policy)
<1> DEFINE listed == (Children(runner[r].entry) \cap OnDisk(disk)) \ Excluded(policy)
           Found(found) ==
              runner' = [runner EXCEPT ![r] = [@ EXCEPT !.pc = "stage", !.ok = FALSE, !.children = found]]
<1>1. PICK found \in SUBSET (Paths \ Excluded(policy)) : Found(found)
  <2>1. listed \in SUBSET (Paths \ Excluded(policy))
    BY DEF OnDisk
  <2>2. CASE List(r)
    BY <2>1, <2>2 DEF List
  <2>3. CASE ListUnreadable(r)
    <3>1. PICK hidden : Found(listed \ hidden)
      BY <2>3 DEF ListUnreadable
    <3>2. QED
      BY <2>1, <3>1
  <2>4. QED
    BY <2>2, <2>3
<1>2. runner[r] \in RunnerStates /\ OthersStay(r)
      /\ runner'[r] = [runner[r] EXCEPT !.pc = "stage", !.ok = FALSE, !.children = found]
  BY <1>1, RunnerType, SetEffect
<1>3. QED
  BY <1>2 DEF RunnerStates, MovesTo

\* The branch of Stage that is allowed.
Stages(r, j) ==
    /\ Ready(r, "stage") /\ runner[r].job = j
    /\ OwnedRunner(j, r)
    /\ queue[j][runner[r].entry] = "processing"
    /\ runner[r].children \cap Excluded(policy) = {}
    /\ runner[r].observation = Absent \/ runner[r].entry \notin Excluded(policy)
    /\ staged' = IF runner[r].observation = Absent THEN staged
                 ELSE [staged EXCEPT ![j][runner[r].entry] = runner[r].observation]
    /\ queue' = [queue EXCEPT ![j] =
          [q \in Paths |-> IF q = runner[r].entry THEN "done"
                           ELSE IF q \in runner[r].children /\ @[q] = "absent"
                           THEN "pending" ELSE @[q]]]
    /\ job' = [job EXCEPT ![j] = [@ EXCEPT !.lease = LeaseTicks]]
    /\ runner' = [runner EXCEPT ![r] = NextRound(r)]
    /\ UNCHANGED <<disk, policy, manifest, history, bounds>>

LEMMA StageCases ==
    ASSUME TypeOK, NEW r \in Runners, Stage(r)
    PROVE  /\ policy' = policy /\ manifest' = manifest /\ UNCHANGED <<disk, history>>
           /\ runner[r].job \in Jobs
           /\ \/ Abort(r) /\ staged' = staged /\ queue' = queue
              \/ Stages(r, runner[r].job)
<1>1. runner[r].job \in Jobs
  BY RunnerType DEF Stage, Ready, InBatch
<1>2. QED
  BY <1>1 DEF Stage, Stages

LEMMA StagesEffect ==
    ASSUME TypeOK, NEW r \in Runners, NEW j \in Jobs, Stages(r, j)
    PROVE  /\ MovesTo(r, {"poll"}) /\ OthersStay(r)
           /\ runner'[r].observation = Absent /\ runner'[r].children = {}
           /\ \A k \in Jobs : SameRow(k)
           /\ \A k \in Jobs \ {j} : queue'[k] = queue[k] /\ staged'[k] = staged[k]
           /\ \A q \in Paths :
                 queue'[j][q] = IF q = runner[r].entry THEN "done"
                                ELSE IF q \in runner[r].children /\ queue[j][q] = "absent"
                                THEN "pending" ELSE queue[j][q]
           /\ \A q \in Paths :
                 staged'[j][q] = IF q = runner[r].entry /\ runner[r].observation # Absent
                                 THEN runner[r].observation ELSE staged[j][q]
<1>1. runner[r] \in RunnerStates /\ OthersStay(r)
      /\ runner'[r] = [runner[r] EXCEPT !.pc = "poll", !.ok = FALSE, !.entry = Root,
                                        !.observation = Absent, !.children = {}]
  BY RunnerType, SetEffect DEF Stages, NextRound
<1>2. MovesTo(r, {"poll"}) /\ runner'[r].observation = Absent /\ runner'[r].children = {}
  BY <1>1 DEF RunnerStates, MovesTo
<1>3. \A k \in Jobs : SameRow(k)
  BY RenewEffect DEF Stages
<1>4. queue \in [Jobs -> [Paths -> EntryStates]] /\ staged \in [Jobs -> Trees]
  BY DEF TypeOK
<1>5. \A k \in Jobs \ {j} : queue'[k] = queue[k] /\ staged'[k] = staged[k]
  BY <1>4 DEF Stages
<1>6. \A q \in Paths :
         queue'[j][q] = IF q = runner[r].entry THEN "done"
                        ELSE IF q \in runner[r].children /\ queue[j][q] = "absent"
                        THEN "pending" ELSE queue[j][q]
  BY <1>4 DEF Stages
<1>7. \A q \in Paths :
         staged'[j][q] = IF q = runner[r].entry /\ runner[r].observation # Absent
                         THEN runner[r].observation ELSE staged[j][q]
  BY <1>4 DEF Stages, Trees
<1>8. QED
  BY <1>1, <1>2, <1>3, <1>5, <1>6, <1>7

-----------------------------------------------------------------------------
(* Ownership *)

\* What a step must leave of a row for Ownership to survive.
RowKept(k) ==
    /\ Live(k)' => Live(k) /\ job'[k].revision = policy'.revision
    /\ job'[k].owner # NoRunner <=>
          job'[k].status = "running" /\ job'[k].control \in {"active", "pause_requested"}
    /\ job'[k].status = "none" => job[k].status = "none"

LEMMA OwnershipKept ==
    ASSUME Ownership,
           \A k \in Jobs : RowKept(k),
           \A k \in Jobs : job'[k].status = "none" => staged'[k] = staged[k] \/ staged'[k] = NoRows,
           \A s \in Runners, k \in Jobs : job'[k].owner = s =>
               runner'[s].job = k /\ runner'[s].pc \in Working \cup Holding
    PROVE  Ownership'
<1>1. (\A j, k \in Jobs : Live(j) /\ Live(k) => j = k)'
  BY DEF Ownership, RowKept
<1>2. LiveJobIsCurrent'
  BY DEF RowKept, LiveJobIsCurrent
<1>3. QED
  BY <1>1, <1>2 DEF Ownership, RowKept

LEMMA SameKept ==
    ASSUME Ownership, NEW k \in Jobs, SameRow(k), policy'.revision = policy.revision
    PROVE  RowKept(k) /\ job'[k].owner = job[k].owner
BY DEF Ownership, LiveJobIsCurrent, SameRow, RowKept, Live, IsLive

LEMMA FreedKept ==
    ASSUME TypeOK, Ownership, NEW k \in Jobs, NEW s \in Statuses \ {"none"}, NEW controls,
           FreedRow(k, s, controls), policy'.revision = policy.revision,
           Live(k), s = "running" => controls \subseteq {"ready", "paused"}
    PROVE  RowKept(k) /\ job'[k].owner = NoRunner
BY DEF Ownership, LiveJobIsCurrent, FreedRow, RowKept, Live, IsLive

LEMMA OrphanKept ==
    ASSUME Ownership, NEW k \in Jobs, NEW r \in Runners, OrphanedRow(k, r),
           policy'.revision = policy.revision
    PROVE  /\ RowKept(k)
           /\ \A s \in Runners : job'[k].owner = s => s # r /\ job[k].owner = s
BY RunnersAssumption DEF RunnersAssumption, Ownership, LiveJobIsCurrent, OrphanedRow, RowKept,
   Live, IsLive

\* A step of a batch: its runner goes on, and every row stays as it is.
LEMMA StayOwned ==
    ASSUME TypeOK, Ownership, NEW r \in Runners, policy'.revision = policy.revision, staged' = staged,
           \A k \in Jobs : SameRow(k), OthersStay(r),
           MovesTo(r, Working \cup Holding)
    PROVE  Ownership'
<1>1. \A k \in Jobs : RowKept(k) /\ job'[k].owner = job[k].owner
  BY SameKept
<1>2. \A s \in Runners, k \in Jobs : job'[k].owner = s =>
         runner'[s].job = k /\ runner'[s].pc \in Working \cup Holding
  BY <1>1 DEF Ownership, MovesTo, OthersStay
<1>3. QED
  BY <1>1, <1>2, OwnershipKept

\* A batch that ends with an error.
LEMMA AbortOwned ==
    ASSUME TypeOK, Ownership, NEW r \in Runners, policy'.revision = policy.revision, staged' = staged,
           Abort(r)
    PROVE  Ownership'
<1>1. \A k \in Jobs : RowKept(k) /\ \A s \in Runners : job'[k].owner = s => s # r /\ job[k].owner = s
  BY AbortEffect, OrphanKept
<1>2. \A s \in Runners, k \in Jobs : job'[k].owner = s =>
         runner'[s].job = k /\ runner'[s].pc \in Working \cup Holding
  BY <1>1, AbortEffect DEF Ownership, OthersStay
<1>3. QED
  BY <1>1, <1>2, OwnershipKept

\* A batch that gives its job back.
LEMMA ReturnOwned ==
    ASSUME TypeOK, Ownership, NEW r \in Runners, policy'.revision = policy.revision,
           NEW j \in Jobs, Live(j), job[j].owner = r, runner'[r].pc = "idle", OthersStay(r),
           NEW s \in Statuses \ {"none"}, FreedRow(j, s, {"ready", "paused"}),
           \A k \in Jobs \ {j} : job'[k] = job[k] /\ staged'[k] = staged[k]
    PROVE  Ownership'
<1>1. RowKept(j) /\ job'[j].owner = NoRunner /\ job'[j].status # "none"
  BY FreedKept DEF FreedRow
<1>2. \A k \in Jobs \ {j} : RowKept(k) /\ job'[k].owner = job[k].owner
  BY SameKept DEF SameRow
<1>3. \A q \in Runners, k \in Jobs : job'[k].owner = q => job[k].owner = q /\ k # j
  BY <1>1, <1>2, RunnersAssumption DEF RunnersAssumption
<1>4. \A k \in Jobs \ {j} : job[k].owner # r
  BY DEF Ownership
<1>5. \A q \in Runners, k \in Jobs : job'[k].owner = q =>
         runner'[q].job = k /\ runner'[q].pc \in Working \cup Holding
  BY <1>3, <1>4 DEF Ownership, OthersStay
<1>6. QED
  BY <1>1, <1>2, <1>5, OwnershipKept

\* One row changes hands outside any batch that owns it.
LEMMA OutsideOwned ==
    ASSUME TypeOK, Ownership, policy'.revision = policy.revision, staged' = staged,
           runner' = runner,
           \A k \in Jobs : RowKept(k) /\ (job'[k].owner = job[k].owner \/ job'[k].owner = NoRunner)
    PROVE  Ownership'
<1>1. \A s \in Runners, k \in Jobs : job'[k].owner = s =>
         runner'[s].job = k /\ runner'[s].pc \in Working \cup Holding
  BY RunnersAssumption DEF RunnersAssumption, Ownership
<1>2. QED
  BY <1>1, OwnershipKept


\* One live job of a scope, always at the current policy revision; its row
\* names a token exactly while it is leased; a runner's own token is only on
\* the job of the batch it is in.
THEOREM OwnershipHolds == Spec => []Ownership
<1>1. Init => Ownership
  <2>1. NoJob.status = "none" /\ NoJob.owner = NoRunner
    BY DEF NoJob
  <2>2. QED
    BY <2>1, RunnersAssumption
    DEF RunnersAssumption, Init, Ownership, LiveJobIsCurrent, Live, IsLive
<1>2. TypeOK /\ Ownership /\ [Next]_vars => Ownership'
  <2> SUFFICES ASSUME TypeOK, Ownership, [Next]_vars PROVE Ownership'
    OBVIOUS
  <2>1. ASSUME NEW j \in Jobs, CreateJob(j) PROVE Ownership'
    <3>2. job'[j].status = "running" /\ job'[j].control = "ready" /\ job'[j].owner = NoRunner
          /\ job'[j].revision = policy.revision /\ \A k \in Jobs \ {j} : job'[k] = job[k]
      BY <2>1, CreateEffect
    <3>3. policy' = policy /\ staged' = staged /\ runner' = runner /\ \A k \in Jobs : ~Live(k)
      BY <2>1 DEF CreateJob
    <3>4. (\A i, k \in Jobs : Live(i) /\ Live(k) => i = k)'
      BY <3>2, <3>3 DEF Live, IsLive
    <3>5. LiveJobIsCurrent'
      BY <3>2, <3>3 DEF LiveJobIsCurrent, Live, IsLive
    <3>6. QED
      BY <3>2, <3>3, <3>4, <3>5, RunnersAssumption DEF RunnersAssumption, Ownership
  <2>2. ASSUME NEW j \in Jobs, RequestPause(j) PROVE Ownership'
    <3>1. policy' = policy /\ staged' = staged /\ runner' = runner
      BY <2>2 DEF RequestPause
    <3>2. RowKept(j) /\ job'[j].owner = job[j].owner
      BY <2>2, <3>1, PauseEffect DEF RowKept, Ownership, LiveJobIsCurrent, Live, IsLive
    <3>3. \A k \in Jobs \ {j} : RowKept(k) /\ job'[k].owner = job[k].owner
      BY <2>2, <3>1, PauseEffect, SameKept DEF SameRow
    <3>4. QED
      BY <3>1, <3>2, <3>3, OutsideOwned
  <2>3. ASSUME NEW j \in Jobs, ResumeJob(j) PROVE Ownership'
    <3>1. policy' = policy /\ staged' = staged /\ runner' = runner /\ Live(j)
      BY <2>3 DEF ResumeJob, Resumable
    <3>2. FreedRow(j, "running", {"ready"}) /\ "running" \in Statuses \ {"none"}
      BY <2>3, ResumeEffect DEF Statuses
    <3>3. RowKept(j) /\ job'[j].owner = NoRunner
      BY <3>1, <3>2, FreedKept
    <3>4. \A k \in Jobs \ {j} : RowKept(k) /\ job'[k].owner = job[k].owner
      BY <2>3, <3>1, ResumeEffect, SameKept DEF SameRow
    <3>5. QED
      BY <3>1, <3>3, <3>4, OutsideOwned
  <2>4. ASSUME RecoverExpired, policy' = policy, NEW k \in Jobs
        PROVE  RowKept(k) /\ (job'[k].owner = job[k].owner \/ job'[k].owner = NoRunner)
    <3>1. CASE SameRow(k)
      BY <2>4, <3>1, SameKept
    <3>2. CASE Expired(k) /\ FreedRow(k, "interrupted", {"ready"})
      <4>1. Live(k) /\ "interrupted" \in Statuses \ {"none"}
        BY <3>2 DEF Expired, Live, IsLive, Statuses
      <4>2. QED
        BY <2>4, <3>2, <4>1, FreedKept
    <3>3. QED
      BY <2>4, <3>1, <3>2, RecoverEffect
  <2>5. ASSUME OpenDatabase PROVE Ownership'
    BY <2>4, <2>5, OutsideOwned DEF OpenDatabase
  <2>6. ASSUME NEW r \in Runners, NEW j \in Jobs, Enter(r, j) PROVE Ownership'
    <3>1. policy' = policy /\ staged' = staged /\ RecoverExpired /\ ~InBatch(r)
      BY <2>6 DEF Enter
    <3>2. \A s \in Runners \ {r} : runner'[s] = runner[s]
      BY <2>6 DEF Enter, TypeOK
    <3>3. \A k \in Jobs : RowKept(k) /\ (job'[k].owner = job[k].owner \/ job'[k].owner = NoRunner)
      BY <2>4, <3>1
    <3>4. \A k \in Jobs : job[k].owner # r
      BY <3>1 DEF InBatch, Ownership, Working, Holding
    <3>5. \A s \in Runners, k \in Jobs : job'[k].owner = s =>
             runner'[s].job = k /\ runner'[s].pc \in Working \cup Holding
      BY <3>2, <3>3, <3>4, RunnersAssumption DEF RunnersAssumption, Ownership
    <3>6. QED
      BY <3>1, <3>3, <3>5, OwnershipKept
  <2>7. ASSUME NEW r \in Runners, Claim(r) PROVE Ownership'
    <3> DEFINE j == runner[r].job
    <3>1. policy' = policy /\ staged' = staged /\ runner[r].pc = "claim" /\ j \in Jobs
      BY <2>7, RunnerType DEF Claim, InBatch
    <3>2. \A k \in Jobs : job[k].owner # r
      BY <3>1 DEF Ownership, Working, Holding
    <3>3. CASE job' = job
      <4>1. OthersStay(r)
        BY <2>7, <3>1, GotoEffect, ReturnEffect DEF Claim
      <4>2. \A k \in Jobs : RowKept(k) /\ job'[k].owner = job[k].owner
        BY <3>1, <3>3, SameKept DEF SameRow
      <4>3. \A s \in Runners, k \in Jobs : job'[k].owner = s =>
               runner'[s].job = k /\ runner'[s].pc \in Working \cup Holding
        BY <3>2, <4>1, <4>2 DEF Ownership, OthersStay
      <4>4. QED
        BY <3>1, <4>2, <4>3, OwnershipKept
    <3>4. CASE /\ job[j].status = "running" /\ Goto(r, "poll")
               /\ job' = [job EXCEPT ![j] = [@ EXCEPT !.control = "active", !.owner = r,
                                                      !.lease = LeaseTicks]]
      <4>1. /\ job'[j].status = job[j].status /\ job'[j].control = "active"
            /\ job'[j].owner = r /\ job'[j].revision = job[j].revision
            /\ \A k \in Jobs \ {j} : job'[k] = job[k]
        BY <3>1, <3>4, ClaimEffect
      <4>2. RowKept(j)
        BY <3>1, <3>4, <4>1, RunnersAssumption
        DEF RunnersAssumption, RowKept, Ownership, LiveJobIsCurrent, Live, IsLive
      <4>3. \A k \in Jobs \ {j} : RowKept(k) /\ job'[k].owner = job[k].owner
        BY <3>1, <4>1, SameKept DEF SameRow
      <4>4. MovesTo(r, {"poll"}) /\ OthersStay(r)
        BY <3>4, GotoEffect
      <4>5. \A s \in Runners, k \in Jobs : job'[k].owner = s =>
               runner'[s].job = k /\ runner'[s].pc \in Working \cup Holding
        BY <3>2, <4>1, <4>3, <4>4 DEF Ownership, OthersStay, MovesTo, Working
      <4>6. QED
        BY <3>1, <4>2, <4>3, <4>5, OwnershipKept
    <3>5. QED
      BY <2>7, <3>3, <3>4 DEF Claim
  <2>8. ASSUME NEW r \in Runners, CheckPolicy(r) PROVE Ownership'
    <3>1. policy' = policy /\ staged' = staged
      BY <2>8 DEF CheckPolicy
    <3>2. CASE /\ runner' = [runner EXCEPT ![r] = [@ EXCEPT !.ok = TRUE]]
               /\ UNCHANGED job
      <4>1. OthersStay(r) /\ MovesTo(r, {runner[r].pc})
        BY <3>2, CheckEffect
      <4>2. \A k \in Jobs : RowKept(k) /\ job'[k].owner = job[k].owner
        BY <3>1, <3>2, SameKept DEF SameRow
      <4>3. \A s \in Runners, k \in Jobs : job'[k].owner = s =>
               runner'[s].job = k /\ runner'[s].pc \in Working \cup Holding
        BY <4>1, <4>2 DEF Ownership, OthersStay, MovesTo
      <4>4. QED
        BY <3>1, <4>2, <4>3, OwnershipKept
    <3>3. QED
      BY <2>8, <3>1, <3>2, AbortOwned DEF CheckPolicy
  <2>9. ASSUME NEW r \in Runners, Poll(r) PROVE Ownership'
    <3>1. policy' = policy /\ staged' = staged /\ job' = job
      BY <2>9 DEF Poll, durable
    <3>2. MovesTo(r, {"release", "pause", "next"}) /\ OthersStay(r)
      BY <2>9, PollEffect
    <3>3. MovesTo(r, Working \cup Holding)
      BY <3>2 DEF MovesTo, Working
    <3>4. QED
      BY <3>1, <3>2, <3>3, StayOwned DEF SameRow
  <2>10. ASSUME NEW r \in Runners, NextEntry(r) PROVE Ownership'
    <3>1. policy' = policy /\ staged' = staged
      BY <2>10 DEF NextEntry
    <3>2. CASE Goto(r, "finalize") /\ job' = job
      <4>1. MovesTo(r, Working \cup Holding) /\ OthersStay(r)
        BY <3>2, GotoEffect DEF MovesTo, Working
      <4>2. QED
        BY <3>1, <3>2, <4>1, StayOwned DEF SameRow
    <3>3. ASSUME NEW p \in Paths,
                 job' = [job EXCEPT ![runner[r].job] = [@ EXCEPT !.lease = LeaseTicks]],
                 runner' = [runner EXCEPT ![r] = [@ EXCEPT !.pc = "process", !.ok = FALSE, !.entry = p]]
          PROVE  Ownership'
      <4>1. runner[r].job \in Jobs
        BY <2>10, RunnerType DEF NextEntry, Ready, InBatch
      <4>2. MovesTo(r, Working \cup Holding) /\ OthersStay(r)
        BY <3>3, TakeEffect DEF MovesTo, Holding
      <4>3. QED
        BY <3>1, <3>3, <4>1, <4>2, RenewEffect, StayOwned
    <3>4. QED
      BY <2>10, <3>1, <3>2, <3>3, AbortOwned DEF NextEntry
  <2>11. ASSUME NEW r \in Runners, Process(r) \/ ProcessUnreadable(r) PROVE Ownership'
    <3>1. policy' = policy /\ staged' = staged /\ job' = job
      BY <2>11 DEF Process, ProcessUnreadable, Overlook, durable
    <3>2. MovesTo(r, Working \cup Holding) /\ OthersStay(r)
      BY <2>11, ProcessEffect DEF MovesTo, Holding
    <3>3. QED
      BY <3>1, <3>2, StayOwned DEF SameRow
  <2>12. ASSUME NEW r \in Runners, List(r) \/ ListUnreadable(r) PROVE Ownership'
    <3>1. policy' = policy /\ staged' = staged /\ job' = job
      BY <2>12 DEF List, ListUnreadable, Overlook, durable
    <3>2. MovesTo(r, Working \cup Holding) /\ OthersStay(r)
      BY <2>12, ListEffect DEF MovesTo, Holding
    <3>3. QED
      BY <3>1, <3>2, StayOwned DEF SameRow
  <2>13. ASSUME NEW r \in Runners, Stage(r) PROVE Ownership'
    <3>1. policy' = policy
      BY <2>13, StageCases
    <3>2. ASSUME NEW j \in Jobs, Stages(r, j) PROVE Ownership'
      <4>1. /\ MovesTo(r, {"poll"}) /\ OthersStay(r)
            /\ \A k \in Jobs : SameRow(k)
            /\ \A k \in Jobs \ {j} : staged'[k] = staged[k]
        BY <3>2, StagesEffect
      <4>2. \A k \in Jobs : RowKept(k) /\ job'[k].owner = job[k].owner
        BY <3>1, <4>1, SameKept
      <4>3. \A s \in Runners, k \in Jobs : job'[k].owner = s =>
               runner'[s].job = k /\ runner'[s].pc \in Working \cup Holding
        BY <4>1, <4>2 DEF Ownership, MovesTo, OthersStay, Working
      <4>4. job'[j].status = "running"
        BY <3>1, <3>2, <4>1 DEF Stages, OwnedRunner, OwnsIn, SameRow
      <4>5. \A k \in Jobs : job'[k].status = "none" => staged'[k] = staged[k]
        BY <4>1, <4>4
      <4>6. QED
        BY <4>2, <4>3, <4>5, OwnershipKept
    <3>3. QED
      BY <2>13, <3>1, <3>2, StageCases, AbortOwned
  <2>14. ASSUME NEW r \in Runners, Release(r) PROVE Ownership'
    <3> DEFINE j == runner[r].job
    <3>1. policy' = policy /\ staged' = staged /\ j \in Jobs
      BY <2>14, RunnerType DEF Release, Ready, InBatch
    <3>2. CASE OwnedRunner(j, r) /\ job[j].revision = policy.revision
      <4>1. Live(j) /\ job[j].owner = r /\ "running" \in Statuses \ {"none"}
        BY <3>2 DEF OwnedRunner, OwnsIn, Live, IsLive, Statuses
      <4>2. QED
        BY <2>14, <3>1, <3>2, <4>1, ReleaseEffect, ReturnOwned
    <3>3. QED
      BY <2>14, <3>1, <3>2, AbortOwned DEF Release
  <2>15. ASSUME NEW r \in Runners, NEW s \in Statuses \ {"none", "running"}, Finalize(r) \/ Fail(r),
                OwnedRunner(runner[r].job, r), Return(r),
                \/ job' = [job EXCEPT ![runner[r].job] = Ended(@, s)]
                \/ job' = [job EXCEPT ![runner[r].job] = [Ended(@, s) EXCEPT !.pauseRequested = FALSE]],
                staged' = staged \/ staged' = [staged EXCEPT ![runner[r].job] = NoRows]
         PROVE  Ownership'
    <3> DEFINE j == runner[r].job
    <3>1. policy' = policy /\ j \in Jobs
      BY <2>15, RunnerType DEF Finalize, Fail, Ready, InBatch
    <3>2. Live(j) /\ job[j].owner = r
      BY <2>15 DEF OwnedRunner, OwnsIn, Live, IsLive
    <3>3. FreedRow(j, s, {"ready", "paused"}) /\ \A k \in Jobs \ {j} : job'[k] = job[k]
      BY <2>15, <3>1, EndEffect DEF FreedRow
    <3>4. \A k \in Jobs \ {j} : staged'[k] = staged[k]
      BY <2>15 DEF TypeOK
    <3>5. runner'[r].pc = "idle" /\ OthersStay(r)
      BY <2>15, ReturnEffect
    <3>6. QED
      BY <3>1, <3>2, <3>3, <3>4, <3>5, ReturnOwned
  <2>16. ASSUME NEW r \in Runners, Finalize(r) PROVE Ownership'
    <3>1. "completed" \in Statuses \ {"none", "running"}
      BY DEF Statuses
    <3>2. CASE Abort(r) /\ staged' = staged
      BY <2>16, <3>2, AbortOwned DEF Finalize
    <3>3. QED
      BY <2>15, <2>16, <3>1, <3>2 DEF Finalize
  <2>17. ASSUME NEW r \in Runners, Fail(r) PROVE Ownership'
    <3>1. "failed" \in Statuses \ {"none", "running"}
      BY DEF Statuses
    <3>2. CASE Abort(r) /\ staged' = staged
      BY <2>17, <3>2, AbortOwned DEF Fail
    <3>3. QED
      BY <2>15, <2>17, <3>1, <3>2 DEF Fail
  <2>18. ASSUME NEW r \in Runners, Crash(r) PROVE Ownership'
    BY <2>18, AbortOwned DEF Crash
  <2>19. ASSUME Tick PROVE Ownership'
    <3>1. policy' = policy /\ staged' = staged /\ runner' = runner
      BY <2>19 DEF Tick
    <3>2. \A k \in Jobs : RowKept(k) /\ job'[k].owner = job[k].owner
      BY <2>19, <3>1, TickEffect, SameKept
    <3>3. QED
      BY <3>1, <3>2, OutsideOwned
  <2>20. ASSUME PurgeJobs \/ RevokeRoot, runner' = runner PROVE Ownership'
    <3>1. ASSUME NEW k \in Jobs
          PROVE  RowKept(k) /\ (job'[k].owner = job[k].owner \/ job'[k].owner = NoRunner)
                 /\ staged'[k] = NoRows
      BY <2>20, PurgeEffect DEF SameRow, FreedRow, RowKept, Ownership, Live, IsLive
    <3>2. \A s \in Runners, k \in Jobs : job'[k].owner = s =>
             runner'[s].job = k /\ runner'[s].pc \in Working \cup Holding
      BY <2>20, <3>1, RunnersAssumption DEF RunnersAssumption, Ownership
    <3>3. QED
      BY <3>1, <3>2, OwnershipKept
  <2>21. ASSUME ApplyExclusion \/ RevokeRoot PROVE Ownership'
    BY <2>20, <2>21 DEF ApplyExclusion, RevokeRoot
  <2>22. ASSUME UNCHANGED <<job, staged, runner, policy.revision>> PROVE Ownership'
    BY <2>22, SameKept, OutsideOwned, OwnershipKept
    DEF SameRow, Ownership, LiveJobIsCurrent, Live, IsLive
  <2>23. ASSUME ChangeDisk \/ Grant \/ LapseGrant \/ UNCHANGED vars
         PROVE  UNCHANGED <<job, staged, runner, policy.revision>>
    <3>1. policy.revision = policy.revision /\ [policy EXCEPT !.grant = "active"].revision = policy.revision
          /\ [policy EXCEPT !.grant = "needs_reauthorization"].revision = policy.revision
      BY DEF TypeOK
    <3>2. QED
      BY <2>23, <3>1 DEF ChangeDisk, Grant, LapseGrant, vars, durable
  <2>24. QED
    BY <2>1, <2>2, <2>3, <2>5, <2>6, <2>7, <2>8, <2>9, <2>10, <2>11, <2>12, <2>13, <2>14,
       <2>16, <2>17, <2>18, <2>19, <2>21, <2>22, <2>23
    DEF Next, Step
<1>3. QED
  BY <1>1, <1>2, TypeCorrect, PTL DEF Spec


\* No policy change leaves a live job at an older revision.
THEOREM LiveJobsAreCurrent == Spec => []LiveJobIsCurrent
<1>1. Ownership => LiveJobIsCurrent
  BY DEF Ownership
<1>2. QED
  BY <1>1, OwnershipHolds, PTL


-----------------------------------------------------------------------------
(* Entries *)

NoneProcessing(k) == \A p \in Paths : queue[k][p] # "processing"

\* What Entries says of one job, given who owns it.
EntryOf(k) ==
    /\ Live(k) => \/ NoneProcessing(k)
                  \/ /\ job[k].owner # NoRunner
                     /\ \A p, q \in Paths :
                           queue[k][p] = "processing" /\ queue[k][q] = "processing" => p = q
    /\ \A s \in Runners : job[k].owner = s =>
          /\ runner[s].pc \in Holding => queue[k][runner[s].entry] = "processing"
          /\ runner[s].pc \in Working => NoneProcessing(k)

LEMMA EntryOfEach ==
    ASSUME TypeOK, Ownership
    PROVE  (\A k \in Jobs : EntryOf(k)) <=> Entries
<1>1. ASSUME \A k \in Jobs : EntryOf(k) PROVE Entries
  <2>1. NoStrandedEntry
    BY <1>1 DEF EntryOf, NoStrandedEntry, NoneProcessing, Ownership
  <2>2. OwnerKnowsEntry
    <3> SUFFICES ASSUME NEW r \in Runners, runner[r].pc \in Holding,
                        job[runner[r].job].owner = r
                 PROVE  queue[runner[r].job][runner[r].entry] = "processing"
      BY DEF OwnerKnowsEntry, Holding
    <3>1. runner[r].job \in Jobs
      BY RunnerType DEF InBatch, Holding
    <3>2. QED
      BY <1>1, <3>1 DEF EntryOf
  <2>3. QED
    BY <1>1, <2>1, <2>2 DEF Entries, EntryOf, NoneProcessing
<1>2. ASSUME Entries, NEW k \in Jobs PROVE EntryOf(k)
  <2>1. Live(k) => \/ NoneProcessing(k)
                   \/ /\ job[k].owner # NoRunner
                      /\ \A p, q \in Paths :
                            queue[k][p] = "processing" /\ queue[k][q] = "processing" => p = q
    BY <1>2 DEF Entries, NoStrandedEntry, NoneProcessing
  <2>2. ASSUME NEW s \in Runners, job[k].owner = s
        PROVE  /\ runner[s].pc \in Holding => queue[k][runner[s].entry] = "processing"
               /\ runner[s].pc \in Working => NoneProcessing(k)
    <3>1. runner[s].job = k
      BY <2>2 DEF Ownership
    <3>2. QED
      BY <1>2, <2>2, <3>1 DEF Entries, OwnerKnowsEntry, NoneProcessing, Holding
  <2>3. QED
    BY <2>1, <2>2 DEF EntryOf
<1>3. QED
  BY <1>1, <1>2

\* A job whose queue the step leaves alone.
LEMMA QueueKept ==
    ASSUME NEW k \in Jobs, EntryOf(k), queue'[k] = queue[k],
           Live(k)' => Live(k),
           job'[k].owner = job[k].owner \/ job'[k].owner \notin Runners \cup {NoRunner},
           \A s \in Runners : job[k].owner = s /\ job'[k].owner = s =>
               /\ runner'[s].entry = runner[s].entry
               /\ runner'[s].pc \in Working => runner[s].pc \in Working
               /\ runner'[s].pc \in Holding => runner[s].pc \in Holding
    PROVE  EntryOf(k)'
BY DEF EntryOf, NoneProcessing

\* A job that no entry is in "processing" of afterwards.
LEMMA QueueCleared ==
    ASSUME NEW k \in Jobs, NoneProcessing(k)',
           \A s \in Runners : job'[k].owner = s => runner'[s].pc \notin Holding
    PROVE  EntryOf(k)'
BY DEF EntryOf

LEMMA RequeuedClear == ASSUME NEW q, NEW p \in Paths PROVE Requeued(q)[p] # "processing"
BY DEF Requeued

\* Steps that leave every queue alone, and the runner of the batch at the same stage.
LEMMA EntriesStay ==
    ASSUME \A k \in Jobs : EntryOf(k), queue' = queue, NEW r \in Runners, OthersStay(r),
           \A k \in Jobs : SameRow(k), runner'[r].entry = runner[r].entry,
           runner'[r].pc \in Working => runner[r].pc \in Working,
           runner'[r].pc \in Holding => runner[r].pc \in Holding
    PROVE  \A k \in Jobs : EntryOf(k)'
BY QueueKept DEF OthersStay, SameRow, Live, IsLive

LEMMA EntriesAbort ==
    ASSUME TypeOK, \A k \in Jobs : EntryOf(k), queue' = queue, NEW r \in Runners, Abort(r)
    PROVE  \A k \in Jobs : EntryOf(k)'
BY AbortEffect, QueueKept, RunnersAssumption
DEF RunnersAssumption, OthersStay, OrphanedRow, Live, IsLive

LEMMA EntriesOutside ==
    ASSUME \A k \in Jobs : EntryOf(k), queue' = queue, runner' = runner,
           \A k \in Jobs : job'[k].owner = job[k].owner /\ job'[k].status = job[k].status
    PROVE  \A k \in Jobs : EntryOf(k)'
BY QueueKept DEF Live, IsLive


\* The one entry in "processing" of a job: who owns the job knows it, and no
\* entry is left there when nobody owns it.
THEOREM EntriesHold == Spec => []Entries
<1>1. Init => Entries
  <2>1. NoJob.status = "none" /\ NoJob.owner = NoRunner /\ \A p \in Paths : NoQueue[p] # "processing"
    BY DEF NoJob, NoQueue
  <2>2. \A r \in Runners : Init => runner[r].pc = "idle"
    BY IdleType DEF Init
  <2>3. QED
    BY <2>1, <2>2, RunnersAssumption
    DEF RunnersAssumption, Init, Entries, NoStrandedEntry, OwnerKnowsEntry, Live, IsLive, Working
<1>2. TypeOK /\ TypeOK' /\ Ownership /\ Ownership' /\ Entries /\ [Next]_vars => Entries'
  <2> SUFFICES ASSUME TypeOK, TypeOK', Ownership, Ownership', \A k \in Jobs : EntryOf(k), [Next]_vars
               PROVE  \A k \in Jobs : EntryOf(k)'
    <3>1. (TypeOK /\ Ownership => ((\A k \in Jobs : EntryOf(k)) <=> Entries))'
      BY EntryOfEach, PTL
    <3>2. QED
      BY <3>1, EntryOfEach
  <2>1. ASSUME NEW j \in Jobs, CreateJob(j) PROVE \A k \in Jobs : EntryOf(k)'
    <3>1. queue'[j] = [NoQueue EXCEPT ![Root] = "pending"] /\ \A k \in Jobs \ {j} : queue'[k] = queue[k]
      BY <2>1 DEF CreateJob, TypeOK
    <3>2. NoneProcessing(j)'
      BY <3>1 DEF NoQueue, NoneProcessing
    <3>3. job'[j].owner = NoRunner /\ \A k \in Jobs \ {j} : job'[k] = job[k]
      BY <2>1, CreateEffect
    <3>4. EntryOf(j)'
      BY <3>2, <3>3, QueueCleared, RunnersAssumption DEF RunnersAssumption
    <3>5. runner' = runner
      BY <2>1 DEF CreateJob
    <3>6. \A k \in Jobs \ {j} : EntryOf(k)'
      BY <3>1, <3>3, <3>5, QueueKept DEF Live, IsLive
    <3>7. QED
      BY <3>4, <3>6
  <2>2. ASSUME NEW j \in Jobs, RequestPause(j) PROVE \A k \in Jobs : EntryOf(k)'
    <3>1. queue' = queue /\ runner' = runner
      BY <2>2 DEF RequestPause
    <3>2. \A k \in Jobs : job'[k].owner = job[k].owner /\ job'[k].status = job[k].status
      BY <2>2, PauseEffect
    <3>3. QED
      BY <3>1, <3>2, EntriesOutside
  <2>3. ASSUME NEW j \in Jobs, ResumeJob(j) PROVE \A k \in Jobs : EntryOf(k)'
    <3>1. queue'[j] = Requeued(queue[j]) /\ \A k \in Jobs \ {j} : queue'[k] = queue[k]
      BY <2>3 DEF ResumeJob, TypeOK
    <3>2. job'[j].owner = NoRunner /\ \A k \in Jobs \ {j} : job'[k] = job[k]
      BY <2>3, ResumeEffect DEF FreedRow
    <3>3. NoneProcessing(j)'
      BY <3>1, RequeuedClear DEF NoneProcessing
    <3>4. EntryOf(j)'
      BY <3>2, <3>3, QueueCleared, RunnersAssumption DEF RunnersAssumption
    <3>5. runner' = runner
      BY <2>3 DEF ResumeJob
    <3>6. \A k \in Jobs \ {j} : EntryOf(k)'
      BY <3>1, <3>2, <3>5, QueueKept DEF Live, IsLive
    <3>7. QED
      BY <3>4, <3>6
  <2>4. ASSUME RecoverExpired,
               \A s \in Runners, k \in Jobs : job[k].owner = s => runner'[s] = runner[s]
        PROVE  \A k \in Jobs : EntryOf(k)'
    <3> SUFFICES ASSUME NEW k \in Jobs PROVE EntryOf(k)'
      OBVIOUS
    <3>1. CASE Expired(k)
      <4>1. job'[k].owner = NoRunner /\ queue'[k] = Requeued(queue[k])
        BY <2>4, <3>1, RecoverEffect DEF FreedRow
      <4>2. NoneProcessing(k)'
        BY <4>1, RequeuedClear DEF NoneProcessing
      <4>3. QED
        BY <4>1, <4>2, QueueCleared, RunnersAssumption DEF RunnersAssumption
    <3>2. CASE ~Expired(k) /\ job[k].status = "interrupted"
      <4>1. SameRow(k) /\ queue'[k] = Requeued(queue[k])
        BY <2>4, <3>2, RecoverEffect
      <4>2. NoneProcessing(k)'
        BY <4>1, RequeuedClear DEF NoneProcessing
      <4>3. job'[k].owner = NoRunner
        BY <3>2, <4>1 DEF Ownership, SameRow
      <4>4. QED
        BY <4>2, <4>3, QueueCleared, RunnersAssumption DEF RunnersAssumption
    <3>3. CASE ~Expired(k) /\ job[k].status # "interrupted"
      <4>1. SameRow(k) /\ queue'[k] = queue[k]
        BY <2>4, <3>3, RecoverEffect
      <4>2. QED
        BY <2>4, <4>1, QueueKept DEF SameRow, Live, IsLive
    <3>4. QED
      BY <3>1, <3>2, <3>3
  <2>5. ASSUME OpenDatabase PROVE \A k \in Jobs : EntryOf(k)'
    BY <2>4, <2>5 DEF OpenDatabase
  <2>6. ASSUME NEW r \in Runners, NEW j \in Jobs, Enter(r, j) PROVE \A k \in Jobs : EntryOf(k)'
    <3>1. RecoverExpired /\ ~InBatch(r) /\ \A s \in Runners \ {r} : runner'[s] = runner[s]
      BY <2>6 DEF Enter, TypeOK
    <3>2. \A k \in Jobs : job[k].owner # r
      BY <3>1 DEF InBatch, Ownership, Working, Holding
    <3>3. QED
      BY <2>4, <3>1, <3>2
  <2>7. ASSUME NEW r \in Runners, Claim(r) PROVE \A k \in Jobs : EntryOf(k)'
    <3>1. queue' = queue /\ runner[r].pc = "claim"
      BY <2>7 DEF Claim
    <3>2. \A k \in Jobs : job[k].owner # r
      BY <3>1 DEF Ownership, Working, Holding
    <3>3. OthersStay(r)
      BY <2>7, GotoEffect, ReturnEffect DEF Claim
    <3>4. ASSUME NEW k \in Jobs, job'[k] = job[k] PROVE EntryOf(k)'
      BY <3>1, <3>2, <3>3, <3>4, QueueKept DEF OthersStay, Live, IsLive
    <3>5. ASSUME NEW j \in Jobs, j = runner[r].job, job' # job PROVE \A k \in Jobs : EntryOf(k)'
      <4>1. /\ job[j].status = "running" /\ job[j].control = "ready" /\ Goto(r, "poll")
            /\ job' = [job EXCEPT ![j] = [@ EXCEPT !.control = "active", !.owner = r, !.lease = LeaseTicks]]
        BY <2>7, <3>5 DEF Claim
      <4>2. job'[j].owner = r /\ \A k \in Jobs \ {j} : job'[k] = job[k]
        <5> HIDE DEF EntryOf
        <5>1. job' = [job EXCEPT ![j] = [@ EXCEPT !.control = "active", !.owner = r, !.lease = LeaseTicks]]
          BY <4>1
        <5>2. QED
          BY ONLY TypeOK, <5>1, ClaimEffect
      <4>3. NoneProcessing(j)
        BY <4>1 DEF Ownership, EntryOf, Live, IsLive
      <4>4. NoneProcessing(j)' /\ runner'[r].pc = "poll"
        BY <3>1, <4>1, <4>3, GotoEffect DEF NoneProcessing, MovesTo
      <4>5. EntryOf(j)'
        BY <4>2, <4>4, QueueCleared DEF Holding
      <4>6. QED
        BY <3>4, <4>2, <4>5
    <3>6. runner[r].job \in Jobs
      BY <3>1, RunnerType DEF InBatch
    <3>7. QED
      BY <3>4, <3>5, <3>6
  <2>8. ASSUME NEW r \in Runners, CheckPolicy(r) PROVE \A k \in Jobs : EntryOf(k)'
    <3>1. queue' = queue
      BY <2>8 DEF CheckPolicy
    <3>2. CASE runner' = [runner EXCEPT ![r] = [@ EXCEPT !.ok = TRUE]] /\ UNCHANGED job
      BY <3>1, <3>2, CheckEffect, EntriesStay DEF SameRow, SameData, MovesTo
    <3>3. QED
      BY <2>8, <3>1, <3>2, EntriesAbort DEF CheckPolicy
  <2>9. ASSUME NEW r \in Runners, Poll(r) PROVE \A k \in Jobs : EntryOf(k)'
    <3>1. queue' = queue /\ job' = job /\ runner[r].pc = "poll"
      BY <2>9 DEF Poll, Ready, durable
    <3>2. QED
      BY <2>9, <3>1, PollEffect, EntriesStay DEF SameRow, SameData, MovesTo, Working, Holding
  <2>10. ASSUME NEW r \in Runners, NEW j \in Jobs, j = runner[r].job, NextEntry(r)
         PROVE  \A k \in Jobs : EntryOf(k)'
    <3>1. runner[r].pc = "next"
      BY <2>10 DEF NextEntry, Ready
    <3>2. CASE Goto(r, "finalize") /\ UNCHANGED <<job, queue>>
      BY <3>1, <3>2, GotoEffect, EntriesStay DEF SameRow, MovesTo, Working, Holding
    <3>3. ASSUME NEW p \in Paths, ActiveRunner(j, r),
                 queue' = [queue EXCEPT ![j][p] = "processing"],
                 job' = [job EXCEPT ![j] = [@ EXCEPT !.lease = LeaseTicks]],
                 runner' = [runner EXCEPT ![r] = [@ EXCEPT !.pc = "process", !.ok = FALSE, !.entry = p]]
          PROVE  \A k \in Jobs : EntryOf(k)'
      <4>1. MovesTo(r, {"process"}) /\ OthersStay(r) /\ runner'[r].entry = p
        BY <3>3, TakeEffect
      <4>2. \A k \in Jobs : SameRow(k)
        BY <3>1, <3>3, RenewEffect
      <4>3. job[j].owner = r /\ r # NoRunner
        BY <3>3, RunnersAssumption DEF RunnersAssumption, ActiveRunner, OwnsIn
      <4>4. NoneProcessing(j)
        BY <3>1, <4>3 DEF EntryOf, Working
      <4>5. queue'[j] = [queue[j] EXCEPT ![p] = "processing"] /\ queue[j] \in [Paths -> EntryStates]
            /\ \A k \in Jobs \ {j} : queue'[k] = queue[k]
        BY <3>1, <3>3 DEF TypeOK
      <4>6. \A q \in Paths : queue'[j][q] = "processing" <=> q = p
        BY <4>4, <4>5 DEF NoneProcessing
      <4>7. EntryOf(j)'
        <5>1. job'[j].owner = r /\ runner'[r].pc \notin Working
          BY <4>1, <4>2, <4>3 DEF SameRow, MovesTo, Working
        <5>2. \A s \in Runners : job'[j].owner = s => s = r
          BY <5>1
        <5>3. QED
          BY <4>1, <4>3, <4>6, <5>1, <5>2 DEF EntryOf
      <4>8. \A k \in Jobs \ {j} : EntryOf(k)'
        <5>1. \A k \in Jobs \ {j} : job[k].owner # r
          BY <2>10 DEF Ownership
        <5>2. QED
          BY <4>1, <4>2, <4>5, <5>1, QueueKept DEF OthersStay, SameRow, Live, IsLive
      <4>9. QED
        BY <4>7, <4>8
    <3>4. CASE Abort(r) /\ UNCHANGED queue
      BY <3>4, EntriesAbort
    <3>5. QED
      BY <2>10, <3>2, <3>3, <3>4 DEF NextEntry
  <2>11. ASSUME NEW r \in Runners, Process(r) \/ ProcessUnreadable(r) PROVE \A k \in Jobs : EntryOf(k)'
    <3>1. queue' = queue /\ job' = job /\ runner[r].pc = "process"
      BY <2>11 DEF Process, ProcessUnreadable, Overlook, Ready, durable
    <3>2. MovesTo(r, {"fail", "stage", "list"}) /\ OthersStay(r) /\ runner'[r].entry = runner[r].entry
      BY <2>11, ProcessEffect
    <3>3. QED
      BY <3>1, <3>2, EntriesStay DEF SameRow, MovesTo, Working, Holding
  <2>12. ASSUME NEW r \in Runners, List(r) \/ ListUnreadable(r) PROVE \A k \in Jobs : EntryOf(k)'
    <3>1. queue' = queue /\ job' = job /\ runner[r].pc = "list"
      BY <2>12 DEF List, ListUnreadable, Overlook, Ready, durable
    <3>2. MovesTo(r, {"stage"}) /\ OthersStay(r) /\ runner'[r].entry = runner[r].entry
      BY <2>12, ListEffect
    <3>3. QED
      BY <3>1, <3>2, EntriesStay DEF SameRow, MovesTo, Working, Holding
  <2>13. ASSUME NEW r \in Runners, Stage(r) PROVE \A k \in Jobs : EntryOf(k)'
    <3>1. ASSUME NEW j \in Jobs, Stages(r, j) PROVE \A k \in Jobs : EntryOf(k)'
      <4>1. /\ MovesTo(r, {"poll"}) /\ OthersStay(r)
            /\ \A k \in Jobs : SameRow(k)
            /\ \A k \in Jobs \ {j} : queue'[k] = queue[k]
        BY <3>1, StagesEffect
      <4>2. \A q \in Paths :
                 queue'[j][q] = IF q = runner[r].entry THEN "done"
                                ELSE IF q \in runner[r].children /\ queue[j][q] = "absent"
                                THEN "pending" ELSE queue[j][q]
        BY <3>1, StagesEffect
      <4>3. /\ queue[j][runner[r].entry] = "processing" /\ runner[r].entry \in Paths
            /\ job[j].owner = r /\ Live(j) /\ runner[r].job = j
        BY <3>1, RunnerType DEF Stages, RunnerStates, OwnedRunner, OwnsIn, Live, IsLive
      <4>4. \A q \in Paths : queue[j][q] = "processing" => q = runner[r].entry
        BY <4>3 DEF EntryOf, NoneProcessing
      <4>5. NoneProcessing(j)'
        BY <4>2, <4>4 DEF NoneProcessing
      <4>6. EntryOf(j)'
        <5>1. \A s \in Runners : job'[j].owner = s => s = r
          BY <4>1, <4>3 DEF SameRow
        <5>2. runner'[r].pc \notin Holding
          BY <4>1 DEF MovesTo, Holding
        <5>3. QED
          BY <4>5, <5>1, <5>2, QueueCleared
      <4>7. \A k \in Jobs \ {j} : EntryOf(k)'
        <5>1. \A k \in Jobs \ {j} : job[k].owner # r
          BY <4>3 DEF Ownership
        <5>2. QED
          BY <4>1, <5>1, QueueKept DEF OthersStay, SameRow, Live, IsLive
      <4>8. QED
        BY <4>6, <4>7
    <3>2. QED
      BY <2>13, <3>1, StageCases, EntriesAbort
  <2>14. ASSUME NEW r \in Runners, NEW j \in Jobs, j = runner[r].job, job[j].owner = r,
                FreedRow(j, job'[j].status, {"ready", "paused"}), OthersStay(r),
                ~Live(j)' \/ NoneProcessing(j)',
                \A k \in Jobs \ {j} : job'[k] = job[k] /\ queue'[k] = queue[k]
         PROVE  \A k \in Jobs : EntryOf(k)'
    <3>1. job'[j].owner = NoRunner
      BY <2>14 DEF FreedRow
    <3>2. EntryOf(j)'
      BY <2>14, <3>1, RunnersAssumption DEF RunnersAssumption, EntryOf
    <3>3. \A k \in Jobs \ {j} : job[k].owner # r
      BY <2>14 DEF Ownership
    <3>4. \A k \in Jobs \ {j} : EntryOf(k)'
      BY <2>14, <3>3, QueueKept DEF OthersStay, Live, IsLive
    <3>5. QED
      BY <3>2, <3>4
  <2>15. ASSUME NEW r \in Runners, NEW j \in Jobs, j = runner[r].job, Release(r)
         PROVE  \A k \in Jobs : EntryOf(k)'
    <3>1. queue' = queue /\ runner[r].pc \in Working
      BY <2>15 DEF Release, Ready, Working
    <3>2. CASE OwnedRunner(j, r) /\ job[j].revision = policy.revision
      <4>1. FreedRow(j, "running", {"ready", "paused"}) /\ OthersStay(r)
            /\ \A k \in Jobs \ {j} : job'[k] = job[k]
        BY <2>15, <3>2, ReleaseEffect
      <4>2. job[j].owner = r
        BY <3>2 DEF OwnedRunner, OwnsIn
      <4>3. NoneProcessing(j)'
        BY <3>1, <4>2 DEF EntryOf, NoneProcessing
      <4>4. FreedRow(j, job'[j].status, {"ready", "paused"})
        BY <4>1 DEF FreedRow
      <4>5. QED
        BY <2>14, <2>15, <3>1, <4>1, <4>2, <4>3, <4>4
    <3>3. QED
      BY <2>15, <3>1, <3>2, EntriesAbort DEF Release
  <2>16. ASSUME NEW r \in Runners, NEW s \in {"completed", "failed"}, NEW j \in Jobs, j = runner[r].job,
                OwnedRunner(j, r), Return(r),
                \/ job' = [job EXCEPT ![j] = Ended(@, s)]
                \/ job' = [job EXCEPT ![j] = [Ended(@, s) EXCEPT !.pauseRequested = FALSE]],
                queue' = queue \/ queue' = [queue EXCEPT ![j] = NoQueue]
         PROVE  \A k \in Jobs : EntryOf(k)'
    <3>1. s \in Statuses
      BY DEF Statuses
    <3>2. FreedRow(j, s, {"ready"}) /\ \A k \in Jobs \ {j} : job'[k] = job[k]
      BY <2>16, <3>1, EndEffect
    <3>3. OthersStay(r) /\ job[j].owner = r
      BY <2>16, ReturnEffect DEF OwnedRunner, OwnsIn
    <3>4. \A k \in Jobs \ {j} : queue'[k] = queue[k]
      BY <2>16 DEF TypeOK
    <3>5. ~Live(j)' /\ FreedRow(j, job'[j].status, {"ready", "paused"})
      BY <3>2 DEF Live, IsLive, FreedRow
    <3>6. QED
      BY <2>14, <2>16, <3>2, <3>3, <3>4, <3>5
  <2>17. ASSUME NEW r \in Runners, Finalize(r) PROVE \A k \in Jobs : EntryOf(k)'
    <3>1. runner[r].job \in Jobs
      BY <2>17, RunnerType DEF Finalize, Ready, InBatch
    <3>2. CASE Abort(r) /\ queue' = queue
      BY <3>2, EntriesAbort
    <3>3. QED
      BY <2>16, <2>17, <3>1, <3>2 DEF Finalize
  <2>18. ASSUME NEW r \in Runners, Fail(r) PROVE \A k \in Jobs : EntryOf(k)'
    <3>1. runner[r].job \in Jobs /\ queue' = queue
      BY <2>18, RunnerType DEF Fail, Ready, InBatch
    <3>2. CASE Abort(r)
      BY <3>1, <3>2, EntriesAbort
    <3>3. QED
      BY <2>16, <2>18, <3>1, <3>2 DEF Fail
  <2>19. ASSUME NEW r \in Runners, Crash(r) PROVE \A k \in Jobs : EntryOf(k)'
    BY <2>19, EntriesAbort DEF Crash
  <2>20. ASSUME Tick PROVE \A k \in Jobs : EntryOf(k)'
    <3>1. queue' = queue /\ runner' = runner
      BY <2>20 DEF Tick
    <3>2. QED
      BY <2>20, <3>1, TickEffect, EntriesOutside DEF SameRow
  <2>21. ASSUME ApplyExclusion \/ RevokeRoot PROVE \A k \in Jobs : EntryOf(k)'
    <3> SUFFICES ASSUME NEW k \in Jobs PROVE EntryOf(k)'
      OBVIOUS
    <3>1. /\ SameRow(k) \/ FreedRow(k, "failed", {"ready"})
          /\ Live(k) => job'[k].status = "failed"
          /\ queue'[k] = NoQueue
      BY <2>21, PurgeEffect DEF ApplyExclusion
    <3>2. NoneProcessing(k)'
      BY <3>1 DEF NoneProcessing, NoQueue
    <3>3. job'[k].owner = NoRunner
      BY <3>1 DEF SameRow, FreedRow, Ownership, Live, IsLive
    <3>4. QED
      BY <3>2, <3>3, QueueCleared, RunnersAssumption DEF RunnersAssumption
  <2>22. ASSUME ChangeDisk \/ Grant \/ LapseGrant \/ UNCHANGED vars PROVE \A k \in Jobs : EntryOf(k)'
    <3>1. UNCHANGED <<job, queue, runner>>
      BY <2>22 DEF ChangeDisk, Grant, LapseGrant, vars, durable
    <3>2. QED
      BY <3>1, EntriesOutside
  <2>23. ASSUME NEW r \in Runners, NextEntry(r) \/ Release(r) PROVE runner[r].job \in Jobs
    BY <2>23, RunnerType DEF NextEntry, Release, Ready, InBatch
  <2>24. QED
    BY <2>1, <2>2, <2>3, <2>5, <2>6, <2>7, <2>8, <2>9, <2>10, <2>11, <2>12, <2>13,
       <2>15, <2>17, <2>18, <2>19, <2>20, <2>21, <2>22, <2>23
    DEF Next, Step
<1>3. QED
  BY <1>1, <1>2, TypeCorrect, OwnershipHolds, PTL DEF Spec

\* No entry of a live job is stranded in "processing", and no two are there.
THEOREM NoEntryIsStranded == Spec => []NoStrandedEntry
<1>1. Entries => NoStrandedEntry
  BY DEF Entries
<1>2. QED
  BY <1>1, EntriesHold, PTL

\* While a job carries a runner's token, the entry that runner remembers is
\* the one the table has in "processing".
THEOREM OwnersKnowTheirEntry == Spec => []OwnerKnowsEntry
<1>1. Entries => OwnerKnowsEntry
  BY DEF Entries
<1>2. QED
  BY <1>1, EntriesHold, PTL

-----------------------------------------------------------------------------
(* What a finished scan publishes.                                         *)

\* The disk is a tree, and so is what stayed on it.
Closed(S) == \A p \in S \ {Root} : Parent[p] \in S

\* Per job: what has been done, and what waits in the queue.
FrontierOf(k) ==
    Live(k) =>
        /\ steady[k] \subseteq OnDisk(disk) \ Excluded(policy)
        /\ Closed(steady[k])
        /\ queue[k][Root] # "absent"
        /\ \A p \in steady[k] :
              /\ queue[k][p] = "done" => staged[k][p] # Absent
              /\ p # Root /\ queue[k][Parent[p]] = "done" => queue[k][p] # "absent"

\* Per owner: what it holds between looking at the disk and staging.
HandOf(r, k) ==
    job[k].owner = r =>
        /\ runner[r].pc \in {"list", "stage"} /\ runner[r].entry \in steady[k]
           => runner[r].observation # Absent
        /\ runner[r].pc = "stage"
           => Children(runner[r].entry) \cap steady[k] \subseteq runner[r].children

Frontier ==
    /\ Closed(OnDisk(disk))
    /\ \A k \in Jobs : FrontierOf(k)
    /\ \A r \in Runners, k \in Jobs : HandOf(r, k)

-----------------------------------------------------------------------------
(* The tree *)

LEMMA TreeFacts ==
    /\ Root \in Paths
    /\ \A p \in Paths \ {Root} : Parent[p] \in Paths
BY TreeAssumption DEF TreeAssumption

LEMMA BelowFacts ==
    ASSUME NEW p \in Paths
    PROVE  /\ p \in Below(p) /\ Below(p) \subseteq Paths
           /\ \A c \in Paths \ {Root} : Parent[c] \in Below(p) => c \in Below(p)
<1>1. p \in Below(p) /\ Below(p) \subseteq Paths
  BY DEF Below
<1>2. ASSUME NEW c \in Paths \ {Root}, Parent[c] \in Below(p) PROVE c \in Below(p)
  BY <1>2 DEF Below
<1>3. QED
  BY <1>1, <1>2

\* What is not below any of some paths is as much a tree as the whole.
LEMMA PrunedClosed ==
    ASSUME NEW S \in SUBSET Paths, Closed(S), NEW H \in SUBSET Paths
    PROVE  Closed(S \ UNION {Below(p) : p \in H})
<1> SUFFICES ASSUME NEW c \in S \ {Root}, c \notin UNION {Below(p) : p \in H}
             PROVE  Parent[c] \in S /\ Parent[c] \notin UNION {Below(p) : p \in H}
  BY DEF Closed
<1>1. Parent[c] \in S
  BY DEF Closed
<1>2. ASSUME NEW p \in H, Parent[c] \in Below(p) PROVE FALSE
  BY <1>2, BelowFacts
<1>3. QED
  BY <1>1, <1>2

LEMMA ClosedMeets ==
    ASSUME NEW S, NEW T, Closed(S), Closed(T)
    PROVE  Closed(S \cap T)
BY DEF Closed

\* A drained queue leaves no steady path out.
LEMMA DrainedIsComplete ==
    ASSUME TypeOK, NEW j \in Jobs, Live(j), FrontierOf(j),
           \A p \in Paths : queue[j][p] \in {"absent", "done"}
    PROVE  \A p \in steady[j] : staged[j][p] # Absent
<1> DEFINE S == {p \in Paths : p \in steady[j] => queue[j][p] # "absent"}
<1>1. Root \in S
  BY TreeFacts DEF FrontierOf
<1>2. ASSUME NEW p \in Paths \ {Root}, Parent[p] \in S PROVE p \in S
  <2> SUFFICES ASSUME p \in steady[j] PROVE queue[j][p] # "absent"
    OBVIOUS
  <2>1. Parent[p] \in steady[j] /\ Parent[p] \in Paths
    BY TreeFacts DEF FrontierOf, Closed
  <2>2. queue[j][Parent[p]] = "done"
    BY <1>2, <2>1
  <2>3. QED
    BY <2>2 DEF FrontierOf
<1>3. S \in SUBSET Paths
  OBVIOUS
<1>4. S = Paths
  <2> HIDE DEF S
  <2> QED BY <1>1, <1>2, <1>3, TreeAssumption DEF TreeAssumption
<1>5. steady[j] \subseteq Paths
  BY DEF TypeOK
<1>6. QED
  BY <1>4, <1>5 DEF FrontierOf

-----------------------------------------------------------------------------
(* Steps that only shrink what stayed, and do not finish any entry *)

LEMMA FrontierKept ==
    ASSUME NEW k \in Jobs, FrontierOf(k),
           Live(k)' => /\ Live(k)
                       /\ steady'[k] \subseteq steady[k]
                       /\ steady'[k] \subseteq OnDisk(disk') \ Excluded(policy')
                       /\ Closed(steady'[k])
                       /\ staged'[k] = staged[k],
           \A p \in Paths : queue'[k][p] = "done" => queue[k][p] = "done",
           \A p \in Paths : queue'[k][p] = "absent" => queue[k][p] = "absent",
           steady'[k] \subseteq Paths
    PROVE  FrontierOf(k)'
<1> SUFFICES ASSUME Live(k)'
             PROVE  /\ queue'[k][Root] # "absent"
                    /\ \A p \in steady'[k] :
                          /\ queue'[k][p] = "done" => staged'[k][p] # Absent
                          /\ p # Root /\ queue'[k][Parent[p]] = "done" => queue'[k][p] # "absent"
  BY DEF FrontierOf, Closed, OnDisk
<1>1. queue'[k][Root] # "absent"
  BY TreeFacts DEF FrontierOf
<1>2. ASSUME NEW p \in steady'[k]
      PROVE  /\ queue'[k][p] = "done" => staged'[k][p] # Absent
             /\ p # Root /\ queue'[k][Parent[p]] = "done" => queue'[k][p] # "absent"
  BY <1>2, TreeFacts DEF FrontierOf
<1>3. QED
  BY <1>1, <1>2

LEMMA HandKept ==
    ASSUME NEW k \in Jobs, NEW r \in Runners, HandOf(r, k),
           job'[k].owner = r => /\ job[k].owner = r
                                /\ steady'[k] \subseteq steady[k]
                                /\ \/ runner'[r].pc \notin {"list", "stage"}
                                   \/ /\ runner'[r].pc = runner[r].pc
                                      /\ SameData(r)
    PROVE  HandOf(r, k)'
BY DEF HandOf, SameData, Children


\* A step that leaves disk, policy and history alone keeps what it says of
\* every job whose queue only moves between pending and processing.
Still(k) ==
    /\ Live(k)' => Live(k) /\ staged'[k] = staged[k]
    /\ \A p \in Paths : queue'[k][p] = "done" => queue[k][p] = "done"
    /\ \A p \in Paths : queue'[k][p] = "absent" => queue[k][p] = "absent"

LEMMA StillKept ==
    ASSUME TypeOK, NEW k \in Jobs, FrontierOf(k), Still(k), steady' = steady, disk' = disk,
           policy'.excluded = policy.excluded
    PROVE  FrontierOf(k)'
<1>1. Excluded(policy') = Excluded(policy)
  BY DEF Excluded
<1>2. steady'[k] \subseteq Paths
  BY DEF TypeOK
<1>3. Live(k)' => /\ Live(k)
                  /\ steady'[k] \subseteq steady[k]
                  /\ steady'[k] \subseteq OnDisk(disk') \ Excluded(policy')
                  /\ Closed(steady'[k])
                  /\ staged'[k] = staged[k]
  BY <1>1 DEF Still, FrontierOf
<1>4. QED
  BY <1>2, <1>3, FrontierKept DEF Still

LEMMA QueueSame ==
    ASSUME NEW k \in Jobs, queue'[k] = queue[k], staged'[k] = staged[k],
           Live(k)' => Live(k)
    PROVE  Still(k)
BY DEF Still

LEMMA QueueReset ==
    ASSUME TypeOK, NEW k \in Jobs, queue'[k] = Requeued(queue[k]), staged'[k] = staged[k],
           Live(k)' => Live(k)
    PROVE  Still(k)
<1>1. \A p \in Paths : queue'[k][p] = IF queue[k][p] = "processing" THEN "pending" ELSE queue[k][p]
  BY DEF Requeued
<1>2. QED
  BY <1>1 DEF Still

\* The two ways a step can leave every hand as it was.
LEMMA HandsOutside ==
    ASSUME TypeOK, \A r \in Runners, k \in Jobs : HandOf(r, k), runner' = runner, steady' = steady,
           \A k \in Jobs : job'[k].owner = job[k].owner \/ job'[k].owner = NoRunner
    PROVE  \A r \in Runners, k \in Jobs : HandOf(r, k)'
BY HandKept, RunnersAssumption DEF RunnersAssumption, SameData

LEMMA HandsInside ==
    ASSUME TypeOK, \A r \in Runners, k \in Jobs : HandOf(r, k), NEW r \in Runners, OthersStay(r),
           steady' = steady, \A k \in Jobs : \A s \in Runners \ {r} : job'[k].owner = s => job[k].owner = s,
           runner'[r].pc \notin {"list", "stage"}
    PROVE  \A s \in Runners, k \in Jobs : HandOf(s, k)'
<1>1. \A k \in Jobs : HandOf(r, k)'
  BY DEF HandOf
<1>2. \A s \in Runners \ {r}, k \in Jobs : HandOf(s, k)'
  BY HandKept DEF OthersStay, SameData
<1>3. QED
  BY <1>1, <1>2

LEMMA FrontierAbort ==
    ASSUME TypeOK, Frontier, NEW r \in Runners, Abort(r),
           UNCHANGED <<disk, policy, queue, staged, steady>>
    PROVE  Frontier'
<1>1. /\ runner'[r].pc = "idle" /\ OthersStay(r)
      /\ \A k \in Jobs : OrphanedRow(k, r)
  BY AbortEffect
<1>2. \A k \in Jobs : Still(k)
  BY <1>1, QueueSame DEF OrphanedRow, Live, IsLive
<1>3. \A k \in Jobs : FrontierOf(k)'
  BY <1>2, StillKept DEF Frontier
<1>4. \A s \in Runners, k \in Jobs : HandOf(s, k)'
  BY <1>1, HandsInside, RunnersAssumption DEF RunnersAssumption, Frontier, OrphanedRow
<1>5. QED
  BY <1>3, <1>4 DEF Frontier

LEMMA OverlookedFrontier ==
    ASSUME TypeOK, Frontier, NEW r \in Runners, runner[r].job \in Jobs, NEW hidden \in SUBSET Paths,
           Overlook(r, hidden), UNCHANGED job
    PROVE  /\ \A k \in Jobs : FrontierOf(k)' /\ steady'[k] \subseteq steady[k]
           /\ steady'[runner[r].job] \cap hidden = {}
           /\ Live(runner[r].job) => Closed(steady'[runner[r].job])
<1> DEFINE j == runner[r].job
           gone == UNION {Below(p) : p \in hidden}
<1>1. /\ UNCHANGED <<disk, policy, queue, staged>>
      /\ steady'[j] = steady[j] \ gone
      /\ \A k \in Jobs \ {j} : steady'[k] = steady[k]
  BY DEF Overlook, durable, TypeOK
<1>2. \A k \in Jobs : steady[k] \in SUBSET Paths
  BY DEF TypeOK
<1>3. hidden \subseteq gone
  BY BelowFacts
<1>4. Live(j) => Closed(steady'[j])
  <2> SUFFICES ASSUME Live(j) PROVE Closed(steady[j] \ gone)
    BY <1>1
  <2>1. Closed(steady[j])
    BY DEF Frontier, FrontierOf
  <2>2. QED
    BY <1>2, <2>1, PrunedClosed
<1>5. ASSUME NEW k \in Jobs PROVE FrontierOf(k)' /\ steady'[k] \subseteq steady[k]
  <2>1. steady'[k] \subseteq steady[k] /\ steady'[k] \subseteq Paths
    BY <1>1, <1>2
  <2>2. Live(k)' => Live(k) /\ Closed(steady'[k])
    BY <1>1, <1>4 DEF Frontier, FrontierOf, Live, IsLive
  <2>3. Live(k)' => steady'[k] \subseteq OnDisk(disk') \ Excluded(policy')
    BY <1>1, <2>1, <2>2 DEF Frontier, FrontierOf
  <2>4. QED
    BY <1>1, <2>1, <2>2, <2>3, FrontierKept DEF Frontier
<1>6. QED
  BY <1>1, <1>3, <1>4, <1>5


LEMMA ProcessLeaf ==
    ASSUME TypeOK, NEW r \in Runners, Process(r), runner[r].entry \in OnDisk(disk) \ Excluded(policy),
           runner'[r].pc = "stage"
    PROVE  Children(runner[r].entry) = {}
<1> DEFINE p == runner[r].entry
           pc == IF Children(p) = {} THEN "stage" ELSE "list"
<1>1. p \notin Excluded(policy) /\ disk[p] # Absent
  BY DEF OnDisk
<1>2. runner' = [runner EXCEPT ![r] = [@ EXCEPT !.pc = pc, !.ok = FALSE, !.observation = disk[p]]]
  BY <1>1 DEF Process
<1>3. runner[r] \in RunnerStates /\ pc \in {"stage", "list"}
  BY RunnerType
<1>4. runner'[r].pc = pc
  <2> HIDE DEF pc
  <2>1. runner'[r] = [runner[r] EXCEPT !.pc = pc, !.ok = FALSE, !.observation = disk[p]]
    BY <1>2, SetEffect
  <2>2. QED
    BY <1>3, <2>1 DEF RunnerStates
<1>5. QED
  BY <1>4

LEMMA ListFound ==
    ASSUME TypeOK, NEW r \in Runners, List(r) \/ ListUnreadable(r)
    PROVE  LET listed == (Children(runner[r].entry) \cap OnDisk(disk)) \ Excluded(policy)
           IN  \/ runner'[r].children = listed /\ List(r)
               \/ \E hidden \in SUBSET Paths :
                     runner'[r].children = listed \ hidden /\ Overlook(r, hidden)
<1> DEFINE listed == (Children(runner[r].entry) \cap OnDisk(disk)) \ Excluded(policy)
           Found(found) ==
              runner' = [runner EXCEPT ![r] = [@ EXCEPT !.pc = "stage", !.ok = FALSE, !.children = found]]
<1>1. ASSUME NEW found, Found(found) PROVE runner'[r].children = found
  <2>1. runner[r] \in RunnerStates
        /\ runner'[r] = [runner[r] EXCEPT !.pc = "stage", !.ok = FALSE, !.children = found]
    BY <1>1, RunnerType, SetEffect
  <2>2. QED
    BY <2>1 DEF RunnerStates
<1>2. CASE List(r)
  <2>1. Found(listed)
    BY <1>2 DEF List
  <2>2. QED
    BY <1>1, <1>2, <2>1
<1>3. CASE ListUnreadable(r)
  <2>1. PICK hidden \in SUBSET listed : Found(listed \ hidden) /\ Overlook(r, hidden)
    BY <1>3 DEF ListUnreadable
  <2>2. hidden \in SUBSET Paths
    BY DEF OnDisk
  <2>3. QED
    BY <1>1, <2>1, <2>2
<1>4. QED
  BY <1>2, <1>3

\* After any number of batches, pauses, crashes and recoveries, a path that
\* stayed on disk is staged, queued, or below a folder that is not done yet.
THEOREM FrontierHolds == Spec => []Frontier
<1>1. Init => Frontier
  <2> SUFFICES ASSUME Init PROVE Frontier
    OBVIOUS
  <2>1. Closed(OnDisk(disk))
    BY TreeFacts DEF Init, Closed, OnDisk
  <2>2. NoJob.status = "none" /\ NoJob.owner = NoRunner
    BY DEF NoJob
  <2>3. QED
    BY <2>1, <2>2, RunnersAssumption
    DEF RunnersAssumption, Init, Frontier, FrontierOf, HandOf, Live, IsLive
<1>2. TypeOK /\ TypeOK' /\ Ownership /\ Entries /\ Frontier /\ [Next]_vars => Frontier'
  <2> SUFFICES ASSUME TypeOK, TypeOK', Ownership, Entries, Frontier, [Next]_vars PROVE Frontier'
    OBVIOUS
  <2> USE DEF Frontier
  <2>1. ASSUME NEW j \in Jobs, CreateJob(j) PROVE Frontier'
    <3>1. /\ queue'[j] = [NoQueue EXCEPT ![Root] = "pending"]
          /\ steady'[j] = OnDisk(disk) \ Excluded(policy)
          /\ \A k \in Jobs \ {j} : queue'[k] = queue[k] /\ steady'[k] = steady[k]
          /\ UNCHANGED <<disk, policy, staged, runner>>
      BY <2>1 DEF CreateJob, TypeOK
    <3>2. job'[j].owner = NoRunner /\ \A k \in Jobs \ {j} : job'[k] = job[k]
      BY <2>1, CreateEffect
    <3>3. \A q \in Paths : queue'[j][q] = IF q = Root THEN "pending" ELSE "absent"
      BY <3>1, TreeFacts DEF NoQueue
    <3>4. Closed(OnDisk(disk) \ Excluded(policy))
      <4>1. policy.excluded \in SUBSET Paths /\ OnDisk(disk) \in SUBSET Paths
        BY DEF TypeOK, OnDisk
      <4>2. QED
        BY <4>1, PrunedClosed DEF Excluded
    <3>5. FrontierOf(j)'
      <4>1. steady'[j] \subseteq OnDisk(disk') \ Excluded(policy') /\ Closed(steady'[j])
        BY <3>1, <3>4
      <4>2. \A q \in steady'[j] : q \in Paths /\ (q # Root => Parent[q] \in Paths)
        BY <3>1, TreeFacts DEF OnDisk
      <4>3. QED
        BY <3>3, <4>1, <4>2, TreeFacts DEF FrontierOf, Closed, OnDisk
    <3>6. ASSUME NEW k \in Jobs \ {j} PROVE FrontierOf(k)'
      BY <3>1, <3>2, <3>6 DEF FrontierOf, Closed, OnDisk, Excluded, Below, Live, IsLive
    <3>7. \A r \in Runners, k \in Jobs : HandOf(r, k)'
      BY <3>1, <3>2, RunnersAssumption DEF RunnersAssumption, HandOf, Children
    <3>8. QED
      BY <3>1, <3>5, <3>6, <3>7 DEF Closed, OnDisk
  <2>2. ASSUME UNCHANGED <<disk, policy.excluded, steady, runner>>,
               \A k \in Jobs : Still(k) /\ (job'[k].owner = job[k].owner \/ job'[k].owner = NoRunner)
        PROVE  Frontier'
    <3>1. \A k \in Jobs : FrontierOf(k)'
      BY <2>2, StillKept
    <3>2. QED
      BY <2>2, <3>1, HandsOutside DEF Closed, OnDisk
  <2>3. ASSUME NEW r \in Runners, UNCHANGED <<disk, policy, steady>>, OthersStay(r),
               runner'[r].pc \notin {"list", "stage"},
               \A k \in Jobs : Still(k) /\ \A s \in Runners \ {r} : job'[k].owner = s => job[k].owner = s
        PROVE  Frontier'
    <3>1. \A k \in Jobs : FrontierOf(k)'
      BY <2>3, StillKept
    <3>2. QED
      BY <2>3, <3>1, HandsInside DEF Closed, OnDisk
  <2>4. ASSUME NEW j \in Jobs, RequestPause(j) PROVE Frontier'
    <3>1. UNCHANGED <<disk, policy, queue, staged, runner, steady>>
      BY <2>4 DEF RequestPause, history
    <3>2. \A k \in Jobs : job'[k].owner = job[k].owner /\ job'[k].status = job[k].status
      BY <2>4, PauseEffect
    <3>3. \A k \in Jobs : Still(k)
      BY <3>1, <3>2, QueueSame DEF Live, IsLive
    <3>4. QED
      BY <2>2, <3>1, <3>2, <3>3
  <2>5. ASSUME NEW j \in Jobs, ResumeJob(j) PROVE Frontier'
    <3>1. UNCHANGED <<disk, policy, staged, runner, steady>> /\ Live(j)
      BY <2>5 DEF ResumeJob, Resumable, history
    <3>2. queue'[j] = Requeued(queue[j]) /\ \A k \in Jobs \ {j} : queue'[k] = queue[k]
      BY <2>5 DEF ResumeJob, TypeOK
    <3>3. job'[j].owner = NoRunner /\ \A k \in Jobs \ {j} : job'[k] = job[k]
      BY <2>5, ResumeEffect DEF FreedRow
    <3>4. Still(j)
      BY <3>1, <3>2, QueueReset
    <3>5. \A k \in Jobs \ {j} : Still(k)
      BY <3>1, <3>2, <3>3, QueueSame DEF Live, IsLive
    <3>6. QED
      BY <2>2, <3>1, <3>3, <3>4, <3>5
  <2>6. ASSUME RecoverExpired, staged' = staged, NEW k \in Jobs
        PROVE  Still(k) /\ (job'[k].owner = job[k].owner \/ job'[k].owner = NoRunner)
    <3>1. Live(k)' => Live(k)
      BY <2>6, RecoverEffect DEF SameRow, FreedRow, Expired, Live, IsLive
    <3>2. queue'[k] = queue[k] \/ queue'[k] = Requeued(queue[k])
      BY <2>6, RecoverEffect
    <3>3. job'[k].owner = job[k].owner \/ job'[k].owner = NoRunner
      BY <2>6, RecoverEffect DEF SameRow, FreedRow
    <3>4. QED
      BY <2>6, <3>1, <3>2, <3>3, QueueSame, QueueReset
  <2>7. ASSUME OpenDatabase PROVE Frontier'
    <3>1. UNCHANGED <<disk, policy, staged, runner, steady>> /\ RecoverExpired
      BY <2>7 DEF OpenDatabase, history
    <3>2. QED
      BY <2>2, <2>6, <3>1
  <2>8. ASSUME NEW r \in Runners, NEW j \in Jobs, Enter(r, j) PROVE Frontier'
    <3>1. /\ UNCHANGED <<disk, policy, staged, steady>> /\ RecoverExpired
          /\ runner' = [runner EXCEPT ![r] = [Idle EXCEPT !.pc = "claim", !.job = j, !.left = BatchSize,
                                                          !.revision = policy.revision]]
      BY <2>8 DEF Enter, history
    <3>2. OthersStay(r)
      BY <3>1, SetEffect
    <3>3. runner'[r].pc = "claim"
      <4>1. [Idle EXCEPT !.pc = "claim", !.job = j, !.left = BatchSize,
                         !.revision = policy.revision].pc = "claim"
        BY IdleType DEF RunnerStates
      <4>2. QED
        BY <3>1, <4>1, SetEffect
    <3>4. QED
      BY <2>3, <2>6, <3>1, <3>2, <3>3, RunnersAssumption DEF RunnersAssumption
  <2>9. ASSUME NEW r \in Runners, Claim(r) PROVE Frontier'
    <3>1. UNCHANGED <<disk, policy, queue, staged, steady>> /\ runner[r].job \in Jobs
      BY <2>9, RunnerType DEF Claim, InBatch, history
    <3>2. OthersStay(r) /\ runner'[r].pc \notin {"list", "stage"}
      BY <2>9, GotoEffect, ReturnEffect DEF Claim, MovesTo
    <3>3. \A k \in Jobs : job'[k].status = job[k].status
                          /\ (job'[k].owner = job[k].owner \/ job'[k].owner = r)
      <4>1. CASE job' = job
        BY <4>1
      <4>2. CASE job' # job
        <5> DEFINE j == runner[r].job
        <5>1. job' = [job EXCEPT ![j] = [@ EXCEPT !.control = "active", !.owner = r, !.lease = LeaseTicks]]
          BY <2>9, <4>2 DEF Claim
        <5>2. /\ job'[j].status = job[j].status /\ job'[j].owner = r
              /\ \A k \in Jobs \ {j} : job'[k] = job[k]
          BY ONLY TypeOK, <3>1, <5>1, ClaimEffect
        <5>3. QED
          BY <5>2
      <4>3. QED
        BY <4>1, <4>2
    <3>4. \A k \in Jobs : Still(k)
      BY <3>1, <3>3, QueueSame DEF Live, IsLive
    <3>5. QED
      BY <2>3, <3>1, <3>2, <3>3, <3>4
  <2>10. ASSUME NEW r \in Runners, CheckPolicy(r) PROVE Frontier'
    <3>1. UNCHANGED <<disk, policy, queue, staged, steady>>
      BY <2>10 DEF CheckPolicy, history
    <3>2. CASE runner' = [runner EXCEPT ![r] = [@ EXCEPT !.ok = TRUE]] /\ UNCHANGED job
      <4>1. runner'[r].pc = runner[r].pc /\ OthersStay(r) /\ SameData(r)
        BY <3>2, CheckEffect DEF MovesTo
      <4>2. \A k \in Jobs : Still(k)
        BY <3>1, <3>2, QueueSame DEF Live, IsLive
      <4>3. \A k \in Jobs : FrontierOf(k)'
        BY <3>1, <4>2, StillKept
      <4>4. \A s \in Runners, k \in Jobs : HandOf(s, k)'
        BY <3>1, <3>2, <4>1, HandKept DEF OthersStay, SameData
      <4>5. QED
        BY <3>1, <4>3, <4>4 DEF Closed, OnDisk
    <3>3. QED
      BY <2>10, <3>1, <3>2, FrontierAbort DEF CheckPolicy
  <2>11. ASSUME NEW r \in Runners, Poll(r) PROVE Frontier'
    <3>1. UNCHANGED <<disk, policy, queue, staged, steady, job>>
      BY <2>11 DEF Poll, durable, history
    <3>2. OthersStay(r) /\ runner'[r].pc \notin {"list", "stage"}
      BY <2>11, PollEffect DEF MovesTo
    <3>3. \A k \in Jobs : Still(k)
      BY <3>1, QueueSame DEF Live, IsLive
    <3>4. QED
      BY <2>3, <3>1, <3>2, <3>3
  <2>12. ASSUME NEW r \in Runners, NEW j \in Jobs, j = runner[r].job, NextEntry(r) PROVE Frontier'
    <3>1. UNCHANGED <<disk, policy, staged, steady>>
      BY <2>12 DEF NextEntry, history
    <3>2. CASE Goto(r, "finalize") /\ UNCHANGED <<job, queue>>
      <4>1. OthersStay(r) /\ runner'[r].pc \notin {"list", "stage"}
        BY <3>2, GotoEffect DEF MovesTo
      <4>2. \A k \in Jobs : Still(k)
        BY <3>1, <3>2, QueueSame DEF Live, IsLive
      <4>3. QED
        BY <2>3, <3>1, <3>2, <4>1, <4>2
    <3>3. ASSUME NEW p \in Paths, queue[j][p] = "pending",
                 queue' = [queue EXCEPT ![j][p] = "processing"],
                 job' = [job EXCEPT ![j] = [@ EXCEPT !.lease = LeaseTicks]],
                 runner' = [runner EXCEPT ![r] = [@ EXCEPT !.pc = "process", !.ok = FALSE, !.entry = p]]
          PROVE  Frontier'
      <4>1. OthersStay(r) /\ runner'[r].pc \notin {"list", "stage"}
        BY <3>3, TakeEffect DEF MovesTo
      <4>2. \A k \in Jobs : SameRow(k)
        BY <3>3, RenewEffect
      <4>3. queue'[j] = [queue[j] EXCEPT ![p] = "processing"] /\ queue[j] \in [Paths -> EntryStates]
            /\ \A k \in Jobs \ {j} : queue'[k] = queue[k]
        BY <3>3 DEF TypeOK
      <4>4. Still(j)
        BY <3>1, <3>3, <4>2, <4>3 DEF Still, SameRow, Live, IsLive
      <4>5. \A k \in Jobs \ {j} : Still(k)
        BY <3>1, <4>2, <4>3, QueueSame DEF SameRow, Live, IsLive
      <4>6. QED
        BY <2>3, <3>1, <4>1, <4>2, <4>4, <4>5 DEF SameRow
    <3>4. CASE Abort(r) /\ UNCHANGED queue
      BY <3>1, <3>4, FrontierAbort
    <3>5. QED
      BY <2>12, <3>2, <3>3, <3>4 DEF NextEntry
  <2>13. ASSUME NEW r \in Runners, NEW j \in Jobs, j = runner[r].job,
                Process(r) \/ ProcessUnreadable(r)
         PROVE  Frontier'
    <3>1. UNCHANGED <<disk, policy, queue, staged, job>>
      BY <2>13 DEF Process, ProcessUnreadable, Overlook, durable
    <3>2. /\ MovesTo(r, {"fail", "stage", "list"}) /\ OthersStay(r)
          /\ runner'[r].entry = runner[r].entry
      BY <2>13, ProcessEffect
    <3>3. runner[r].entry \in Paths
      BY RunnerType DEF RunnerStates
    <3>4. /\ \A k \in Jobs : FrontierOf(k)' /\ steady'[k] \subseteq steady[k]
          /\ Live(j) => Closed(steady'[j])
          /\ ProcessUnreadable(r) => runner[r].entry \notin steady'[j]
      <4>1. CASE ProcessUnreadable(r)
        <5>1. Overlook(r, {runner[r].entry})
          BY <4>1 DEF ProcessUnreadable
        <5>2. QED
          BY <2>13, <3>1, <3>3, <5>1, OverlookedFrontier
      <4>2. CASE Process(r) /\ ~ProcessUnreadable(r)
        <5>1. steady' = steady
          BY <4>2 DEF Process, history
        <5>2. \A k \in Jobs : Still(k)
          BY <3>1, QueueSame DEF Live, IsLive
        <5>3. QED
          BY <3>1, <4>2, <5>1, <5>2, StillKept DEF FrontierOf
      <4>3. QED
        BY <2>13, <4>1, <4>2
    <3>5. ASSUME NEW s \in Runners \ {r}, NEW k \in Jobs PROVE HandOf(s, k)'
      BY <3>1, <3>2, <3>4, <3>5, HandKept DEF OthersStay, SameData
    <3>6. ASSUME NEW k \in Jobs PROVE HandOf(r, k)'
      <4> SUFFICES ASSUME job[k].owner = r
                   PROVE  /\ runner'[r].pc \in {"list", "stage"} /\ runner'[r].entry \in steady'[k]
                             => runner'[r].observation # Absent
                          /\ runner'[r].pc = "stage"
                             => Children(runner'[r].entry) \cap steady'[k] \subseteq runner'[r].children
        BY <3>1 DEF HandOf, Children
      <4>1. k = j /\ Live(j)
        BY <2>13, RunnersAssumption DEF RunnersAssumption, Ownership, Live, IsLive
      <4>2. steady'[j] \subseteq OnDisk(disk) \ Excluded(policy) /\ Closed(steady'[j])
        BY <3>4, <4>1 DEF FrontierOf
      <4>3. CASE runner[r].entry \in steady'[j]
        <5>1. runner[r].entry \in OnDisk(disk) \ Excluded(policy) /\ ~ProcessUnreadable(r)
          BY <3>4, <4>2, <4>3
        <5>2. runner'[r].observation = disk[runner[r].entry] /\ Process(r)
          BY <2>13, <5>1, ProcessEffect
        <5>3. runner'[r].pc = "stage" => Children(runner[r].entry) = {}
          BY <5>1, <5>2, ProcessLeaf
        <5>4. QED
          BY <3>2, <4>1, <5>1, <5>2, <5>3 DEF OnDisk
      <4>4. CASE runner[r].entry \notin steady'[j]
        <5>1. Children(runner[r].entry) \cap steady'[j] = {}
          BY <4>2, <4>4 DEF Children, Closed
        <5>2. QED
          BY <3>2, <4>1, <4>4, <5>1
      <4>5. QED
        BY <4>3, <4>4
    <3>7. QED
      BY <3>1, <3>4, <3>5, <3>6 DEF Closed, OnDisk
  <2>14. ASSUME NEW r \in Runners, NEW j \in Jobs, j = runner[r].job, List(r) \/ ListUnreadable(r)
         PROVE  Frontier'
    <3> DEFINE listed == (Children(runner[r].entry) \cap OnDisk(disk)) \ Excluded(policy)
    <3>1. UNCHANGED <<disk, policy, queue, staged, job>> /\ runner[r].pc = "list"
      BY <2>14 DEF List, ListUnreadable, Overlook, durable, Ready
    <3>2. /\ MovesTo(r, {"stage"}) /\ OthersStay(r)
          /\ runner'[r].entry = runner[r].entry
          /\ runner'[r].observation = runner[r].observation
      BY <2>14, ListEffect
    <3>3. /\ \A k \in Jobs : FrontierOf(k)' /\ steady'[k] \subseteq steady[k]
          /\ (Children(runner[r].entry) \cap steady'[j] \cap OnDisk(disk)) \ Excluded(policy)
             \subseteq runner'[r].children
      <4>1. CASE List(r) /\ runner'[r].children = listed
        <5>1. steady' = steady
          BY <4>1 DEF List, history
        <5>2. \A k \in Jobs : Still(k)
          BY <3>1, QueueSame DEF Live, IsLive
        <5>3. QED
          BY <3>1, <4>1, <5>1, <5>2, StillKept
      <4>2. ASSUME NEW hidden \in SUBSET Paths, Overlook(r, hidden),
                   runner'[r].children = listed \ hidden
            PROVE  <3>3!:
        BY <2>14, <3>1, <4>2, OverlookedFrontier
      <4>3. QED
        BY <2>14, <4>1, <4>2, ListFound
    <3>4. ASSUME NEW s \in Runners \ {r}, NEW k \in Jobs PROVE HandOf(s, k)'
      BY <3>1, <3>2, <3>3, <3>4, HandKept DEF OthersStay, SameData
    <3>5. ASSUME NEW k \in Jobs PROVE HandOf(r, k)'
      <4> SUFFICES ASSUME job[k].owner = r
                   PROVE  /\ runner'[r].entry \in steady'[k] => runner'[r].observation # Absent
                          /\ Children(runner'[r].entry) \cap steady'[k] \subseteq runner'[r].children
        BY <3>1 DEF HandOf, Children
      <4>1. k = j /\ Live(j)
        BY <2>14, RunnersAssumption DEF RunnersAssumption, Ownership, Live, IsLive
      <4>2. steady'[j] \subseteq OnDisk(disk) \ Excluded(policy)
        BY <3>3, <4>1 DEF FrontierOf
      <4>3. runner[r].entry \in steady[j] => runner[r].observation # Absent
        BY <3>1, <4>1 DEF HandOf
      <4>4. QED
        BY <3>2, <3>3, <4>1, <4>2, <4>3
    <3>6. QED
      BY <3>1, <3>3, <3>4, <3>5 DEF Closed, OnDisk
  <2>15. ASSUME NEW r \in Runners, NEW j \in Jobs, Stages(r, j) PROVE Frontier'
    <3> DEFINE e == runner[r].entry
    <3>1. UNCHANGED <<disk, policy, steady>> /\ runner[r].pc = "stage" /\ job[j].owner = r /\ Live(j)
      BY <2>15 DEF Stages, Ready, history, OwnedRunner, OwnsIn, Live, IsLive
    <3>2. /\ MovesTo(r, {"poll"}) /\ OthersStay(r)
          /\ \A k \in Jobs : SameRow(k)
          /\ \A k \in Jobs \ {j} : queue'[k] = queue[k] /\ staged'[k] = staged[k]
      BY <2>15, StagesEffect
    <3>3. \A q \in Paths :
             queue'[j][q] = IF q = e THEN "done"
                            ELSE IF q \in runner[r].children /\ queue[j][q] = "absent"
                            THEN "pending" ELSE queue[j][q]
      BY <2>15, StagesEffect
    <3>4. \A q \in Paths :
             staged'[j][q] = IF q = e /\ runner[r].observation # Absent
                             THEN runner[r].observation ELSE staged[j][q]
      BY <2>15, StagesEffect
    <3>5. /\ e \in steady[j] => runner[r].observation # Absent
          /\ Children(e) \cap steady[j] \subseteq runner[r].children
          /\ e \in Paths /\ steady[j] \subseteq Paths
      BY <3>1, RunnerType DEF HandOf, RunnerStates, TypeOK
    <3>6. FrontierOf(j)
      OBVIOUS
    <3>7. ASSUME NEW p \in steady[j]
          PROVE  /\ queue'[j][p] = "done" => staged'[j][p] # Absent
                 /\ p # Root /\ queue'[j][Parent[p]] = "done" => queue'[j][p] # "absent"
      <4>1. p \in Paths /\ (p # Root => Parent[p] \in Paths)
        BY <3>5, TreeFacts
      <4>2. queue'[j][p] = "done" => staged'[j][p] # Absent
        <5>1. CASE p = e
          BY <3>4, <3>5, <3>7, <4>1, <5>1
        <5>2. CASE p # e
          <6>1. queue'[j][p] = "done" => queue[j][p] = "done"
            BY <3>3, <4>1, <5>2
          <6>2. queue[j][p] = "done" => staged[j][p] # Absent
            BY <3>1, <3>6, <3>7 DEF FrontierOf
          <6>3. QED
            BY <3>4, <4>1, <5>2, <6>1, <6>2
        <5>3. QED
          BY <5>1, <5>2
      <4>3. ASSUME p # Root, queue'[j][Parent[p]] = "done", p # e PROVE queue'[j][p] # "absent"
        <5>1. CASE Parent[p] = e
          <6>1. p \in runner[r].children
            BY <3>5, <3>7, <4>1, <4>3, <5>1 DEF Children
          <6>2. QED
            BY <3>3, <4>1, <4>3, <6>1
        <5>2. CASE Parent[p] # e
          <6>1. queue[j][Parent[p]] = "done"
            BY <3>3, <4>1, <4>3, <5>2
          <6>2. queue[j][p] # "absent"
            BY <3>1, <3>6, <3>7, <4>3, <6>1 DEF FrontierOf
          <6>3. QED
            BY <3>3, <4>1, <4>3, <6>2
        <5>3. QED
          BY <5>1, <5>2
      <4>4. QED
        BY <3>3, <4>1, <4>2, <4>3
    <3>8. FrontierOf(j)'
      <4>1. queue'[j][Root] # "absent"
        BY <3>1, <3>3, <3>6, TreeFacts DEF FrontierOf
      <4>2. steady'[j] = steady[j] /\ steady[j] \subseteq OnDisk(disk') \ Excluded(policy')
            /\ Closed(steady[j])
        BY <3>1, <3>6 DEF FrontierOf
      <4>3. QED
        BY <3>7, <4>1, <4>2 DEF FrontierOf, Closed, OnDisk
    <3>9. ASSUME NEW k \in Jobs \ {j} PROVE FrontierOf(k)'
      <4>1. Still(k)
        BY <3>2, <3>9, QueueSame DEF SameRow, Live, IsLive
      <4>2. QED
        BY <3>1, <3>9, <4>1, StillKept
    <3>10. \A s \in Runners, k \in Jobs : HandOf(s, k)'
      BY <3>1, <3>2, HandsInside DEF SameRow, MovesTo
    <3>11. QED
      BY <3>1, <3>8, <3>9, <3>10 DEF Closed, OnDisk
  <2>16. ASSUME NEW r \in Runners, Stage(r) PROVE Frontier'
    BY <2>15, <2>16, StageCases, FrontierAbort DEF history
  <2>17. ASSUME NEW r \in Runners, NEW j \in Jobs, j = runner[r].job, Release(r) PROVE Frontier'
    <3>1. UNCHANGED <<disk, policy, queue, staged, steady>>
      BY <2>17 DEF Release, history
    <3>2. CASE OwnedRunner(j, r) /\ job[j].revision = policy.revision
      <4>1. /\ FreedRow(j, "running", {"ready", "paused"}) /\ OthersStay(r)
            /\ \A k \in Jobs \ {j} : job'[k] = job[k]
            /\ runner'[r].pc = "idle"
        BY <2>17, <3>2, ReleaseEffect
      <4>2. Live(j)
        BY <3>2 DEF OwnedRunner, OwnsIn, Live, IsLive
      <4>3. \A k \in Jobs : Still(k)
        BY <3>1, <4>1, <4>2, QueueSame DEF Live, IsLive
      <4>4. QED
        BY <2>3, <3>1, <4>1, <4>3, RunnersAssumption DEF RunnersAssumption, FreedRow
    <3>3. QED
      BY <2>17, <3>1, <3>2, FrontierAbort DEF Release
  <2>18. ASSUME NEW r \in Runners, NEW s \in {"completed", "failed"}, NEW j \in Jobs, j = runner[r].job,
                Return(r), UNCHANGED <<disk, policy, steady>>,
                \/ job' = [job EXCEPT ![j] = Ended(@, s)]
                \/ job' = [job EXCEPT ![j] = [Ended(@, s) EXCEPT !.pauseRequested = FALSE]],
                \A k \in Jobs \ {j} : queue'[k] = queue[k] /\ staged'[k] = staged[k]
         PROVE  Frontier'
    <3>1. s \in Statuses
      BY DEF Statuses
    <3>2. FreedRow(j, s, {"ready"}) /\ \A k \in Jobs \ {j} : job'[k] = job[k]
      BY <2>18, <3>1, EndEffect
    <3>3. runner'[r].pc = "idle" /\ OthersStay(r)
      BY <2>18, ReturnEffect
    <3>4. FrontierOf(j)'
      BY <3>2 DEF FrontierOf, FreedRow, Live, IsLive
    <3>5. ASSUME NEW k \in Jobs \ {j} PROVE FrontierOf(k)'
      <4>1. Still(k)
        BY <2>18, <3>2, <3>5, QueueSame DEF Live, IsLive
      <4>2. QED
        BY <2>18, <3>5, <4>1, StillKept
    <3>6. \A q \in Runners, k \in Jobs : HandOf(q, k)'
      BY <2>18, <3>2, <3>3, HandsInside, RunnersAssumption DEF RunnersAssumption, FreedRow
    <3>7. QED
      BY <2>18, <3>4, <3>5, <3>6 DEF Closed, OnDisk
  <2>19. ASSUME NEW r \in Runners, NEW j \in Jobs, j = runner[r].job, Finalize(r) PROVE Frontier'
    <3>1. UNCHANGED <<disk, policy, steady>>
      BY <2>19 DEF Finalize, history
    <3>2. CASE Abort(r) /\ UNCHANGED <<queue, staged>>
      BY <3>1, <3>2, FrontierAbort
    <3>3. CASE /\ job' = [job EXCEPT ![j] = [Ended(@, "completed") EXCEPT !.pauseRequested = FALSE]]
               /\ queue' = [queue EXCEPT ![j] = NoQueue]
               /\ staged' = [staged EXCEPT ![j] = NoRows]
               /\ Return(r)
      <4>1. \A k \in Jobs \ {j} : queue'[k] = queue[k] /\ staged'[k] = staged[k]
        BY <3>3 DEF TypeOK
      <4>2. QED
        BY <2>18, <2>19, <3>1, <3>3, <4>1
    <3>4. QED
      BY <2>19, <3>2, <3>3 DEF Finalize
  <2>20. ASSUME NEW r \in Runners, NEW j \in Jobs, j = runner[r].job, Fail(r) PROVE Frontier'
    <3>1. UNCHANGED <<disk, policy, queue, staged, steady>>
      BY <2>20 DEF Fail, history
    <3>2. CASE Abort(r)
      BY <3>1, <3>2, FrontierAbort
    <3>3. QED
      BY <2>18, <2>20, <3>1, <3>2 DEF Fail
  <2>21. ASSUME NEW r \in Runners, Crash(r) PROVE Frontier'
    BY <2>21, FrontierAbort DEF Crash, history
  <2>22. ASSUME Tick PROVE Frontier'
    <3>1. UNCHANGED <<disk, policy, queue, staged, runner, steady>>
      BY <2>22 DEF Tick, history
    <3>2. \A k \in Jobs : SameRow(k)
      BY <2>22, TickEffect
    <3>3. \A k \in Jobs : Still(k)
      BY <3>1, <3>2, QueueSame DEF SameRow, Live, IsLive
    <3>4. QED
      BY <2>2, <3>1, <3>2, <3>3 DEF SameRow
  <2>23. ASSUME ChangeDisk PROVE Frontier'
    <3>1. UNCHANGED <<policy, job, queue, staged, runner>>
      BY <2>23 DEF ChangeDisk, durable
    <3>2. Closed(OnDisk(disk'))
      <4>1. PICK p \in Paths :
              \/ /\ p # Root => disk[Parent[p]] # Absent
                 /\ \E v \in Versions \ {disk[p]} : disk' = [disk EXCEPT ![p] = v]
              \/ /\ disk[p] # Absent
                 /\ disk' = [q \in Paths |-> IF q \in Below(p) THEN Absent ELSE disk[q]]
        BY <2>23 DEF ChangeDisk
      <4>2. ASSUME p # Root => disk[Parent[p]] # Absent, NEW v \in Versions,
                   disk' = [disk EXCEPT ![p] = v]
            PROVE  Closed(OnDisk(disk'))
        <5>1. OnDisk(disk') = OnDisk(disk) \cup {p}
          BY <4>2, VersionsAssumption DEF VersionsAssumption, OnDisk, TypeOK, Trees
        <5>2. p # Root => Parent[p] \in OnDisk(disk)
          BY <4>2, TreeFacts DEF OnDisk
        <5>3. QED
          BY <5>1, <5>2 DEF Closed
      <4>3. ASSUME disk' = [q \in Paths |-> IF q \in Below(p) THEN Absent ELSE disk[q]]
            PROVE  Closed(OnDisk(disk'))
        <5>1. OnDisk(disk') = OnDisk(disk) \ UNION {Below(q) : q \in {p}}
          BY <4>3 DEF OnDisk
        <5>2. OnDisk(disk) \in SUBSET Paths /\ {p} \in SUBSET Paths
          BY DEF OnDisk
        <5>3. Closed(OnDisk(disk) \ UNION {Below(q) : q \in {p}})
          BY <5>2, PrunedClosed
        <5>4. QED
          BY <5>1, <5>3
      <4>4. QED
        BY <4>1, <4>2, <4>3
    <3>3. \A k \in Jobs : steady'[k] = IF Live(k) THEN steady[k] \cap OnDisk(disk') ELSE steady[k]
      BY <2>23 DEF ChangeDisk
    <3>4. ASSUME NEW k \in Jobs PROVE FrontierOf(k)' /\ steady'[k] \subseteq steady[k]
      <4>1. steady'[k] \subseteq steady[k] /\ steady'[k] \subseteq Paths
        BY <3>3 DEF TypeOK
      <4>2. Live(k) => Closed(steady'[k]) /\ steady'[k] \subseteq OnDisk(disk') \ Excluded(policy)
        <5>1. SUFFICES ASSUME Live(k)
                       PROVE  Closed(steady'[k]) /\ steady'[k] \subseteq OnDisk(disk') \ Excluded(policy)
          OBVIOUS
        <5>2. steady'[k] = steady[k] \cap OnDisk(disk')
          BY <3>3, <5>1
        <5>3. Closed(steady[k]) /\ steady[k] \subseteq OnDisk(disk) \ Excluded(policy)
          BY <5>1 DEF FrontierOf
        <5>4. Closed(steady[k] \cap OnDisk(disk'))
          BY ONLY <3>2, <5>3, ClosedMeets
        <5>5. QED
          BY ONLY <5>2, <5>3, <5>4
      <4>3. Live(k)' => Live(k)
        BY <3>1 DEF Live, IsLive
      <4>4. QED
        BY <3>1, <4>1, <4>2, <4>3, FrontierKept
    <3>5. \A r \in Runners, k \in Jobs : HandOf(r, k)'
      BY <3>1, <3>4, HandKept DEF SameData
    <3>6. QED
      BY <3>2, <3>4, <3>5 DEF Closed, OnDisk
  <2>24. ASSUME ApplyExclusion \/ RevokeRoot PROVE Frontier'
    <3>1. UNCHANGED <<disk, runner, steady>>
      BY <2>24 DEF ApplyExclusion, RevokeRoot, history
    <3>2. ASSUME NEW k \in Jobs
          PROVE  ~Live(k)' /\ (job'[k].owner = job[k].owner \/ job'[k].owner = NoRunner)
      BY <2>24, PurgeEffect DEF ApplyExclusion, SameRow, FreedRow, Live, IsLive
    <3>3. \A k \in Jobs : FrontierOf(k)'
      BY <3>2 DEF FrontierOf
    <3>4. QED
      BY <3>1, <3>2, <3>3, HandsOutside DEF Closed, OnDisk
  <2>25. ASSUME Grant \/ LapseGrant \/ UNCHANGED vars PROVE Frontier'
    <3>1. UNCHANGED <<disk, job, queue, staged, runner, steady>>
      BY <2>25 DEF Grant, LapseGrant, vars, history
    <3>2. policy'.excluded = policy.excluded
      BY <2>25 DEF Grant, LapseGrant, vars, TypeOK
    <3>3. \A k \in Jobs : Still(k)
      BY <3>1, QueueSame DEF Live, IsLive
    <3>4. QED
      BY <2>2, <3>1, <3>2, <3>3
  <2>26. ASSUME NEW r \in Runners,
                \/ NextEntry(r) \/ Process(r) \/ ProcessUnreadable(r) \/ List(r) \/ ListUnreadable(r)
                \/ Release(r) \/ Finalize(r) \/ Fail(r)
         PROVE  runner[r].job \in Jobs
    BY <2>26, RunnerType
    DEF NextEntry, Process, ProcessUnreadable, List, ListUnreadable, Release, Finalize, Fail, Ready, InBatch
  <2>27. QED
    BY <2>1, <2>4, <2>5, <2>7, <2>8, <2>9, <2>10, <2>11, <2>12, <2>13, <2>14, <2>16, <2>17,
       <2>19, <2>20, <2>21, <2>22, <2>23, <2>24, <2>25, <2>26
    DEF Next, Step
<1>3. QED
  BY <1>1, <1>2, TypeCorrect, OwnershipHolds, EntriesHold, PTL DEF Spec

-----------------------------------------------------------------------------
(* What a step can do to the readers of the manifest *)

\* The branch of Finalize that publishes.
Published(r, j) ==
    /\ OwnedRunner(j, r)
    /\ \A p \in Paths : queue[j][p] \in {"absent", "done"}
    /\ OnDisk(staged[j]) \cap Excluded(policy) = {}
    /\ manifest' = staged[j]
    /\ FreedRow(j, "completed", {"ready"})
    /\ \A k \in Jobs \ {j} : job'[k] = job[k] /\ staged'[k] = staged[k]
    /\ UNCHANGED <<disk, policy, history>>

Failed(j) ==
    /\ Live(j)
    /\ FreedRow(j, "failed", {"ready"})
    /\ \A k \in Jobs \ {j} : job'[k] = job[k]
    /\ UNCHANGED <<disk, policy, staged, manifest, history>>

SameLife(k) == job'[k].status = job[k].status \/ (Live(k) /\ Live(k)')

\* Nothing the readers see; a read error may hide paths from a scan.
Quiet ==
    /\ \A k \in Jobs : SameLife(k)
    /\ UNCHANGED <<disk, staged, manifest, seen>>
    /\ policy'.excluded = policy.excluded
    /\ policy'.grant = "revoked" <=> policy.grant = "revoked"
    /\ \/ steady' = steady
       \/ \E j \in Jobs, hidden \in SUBSET Paths : steady' = [steady EXCEPT ![j] = @ \ hidden]

LEMMA QuietAbort ==
    ASSUME TypeOK, NEW r \in Runners, Abort(r), UNCHANGED <<disk, policy, staged, manifest, history>>
    PROVE  Quiet
<1>1. \A k \in Jobs : SameLife(k)
  BY AbortEffect DEF OrphanedRow, SameLife
<1>2. QED
  BY <1>1 DEF Quiet, history

LEMMA QuietRows ==
    ASSUME TypeOK, UNCHANGED <<disk, policy, staged, manifest, history>>,
           \A k \in Jobs : job'[k].status = job[k].status
    PROVE  Quiet
BY DEF Quiet, history, SameLife

LEMMA OverlookedQuiet ==
    ASSUME TypeOK, NEW r \in Runners, runner[r].job \in Jobs, NEW hidden, Overlook(r, hidden)
    PROVE  Quiet
<1> DEFINE gone == UNION {Below(p) : p \in hidden}
<1>1. /\ UNCHANGED <<disk, policy, staged, manifest, job, seen>>
      /\ steady' = [steady EXCEPT ![runner[r].job] = @ \ gone]
  BY DEF Overlook, durable
<1>2. gone \in SUBSET Paths
  BY DEF Below
<1>3. QED
  BY <1>1, <1>2 DEF Quiet, SameLife

LEMMA FinalizeCases ==
    ASSUME TypeOK, NEW r \in Runners, NEW j \in Jobs, j = runner[r].job, Finalize(r)
    PROVE  Published(r, j) \/ Quiet
<1>1. UNCHANGED <<disk, policy, history>>
  BY DEF Finalize
<1>2. CASE Abort(r) /\ UNCHANGED <<queue, staged, manifest>>
  BY <1>1, <1>2, QuietAbort
<1>3. CASE ~(Abort(r) /\ UNCHANGED <<queue, staged, manifest>>)
  <2>1. /\ OwnedRunner(j, r)
        /\ \A p \in Paths : queue[j][p] \in {"absent", "done"}
        /\ OnDisk(staged[j]) \cap Excluded(policy) = {}
        /\ manifest' = staged[j]
        /\ job' = [job EXCEPT ![j] = [Ended(@, "completed") EXCEPT !.pauseRequested = FALSE]]
        /\ staged' = [staged EXCEPT ![j] = NoRows]
    BY <1>3 DEF Finalize
  <2>2. FreedRow(j, "completed", {"ready"}) /\ \A k \in Jobs \ {j} : job'[k] = job[k]
    BY <2>1, EndEffect DEF Statuses
  <2>3. \A k \in Jobs \ {j} : staged'[k] = staged[k]
    BY <2>1 DEF TypeOK
  <2>4. QED
    BY <1>1, <2>1, <2>2, <2>3 DEF Published
<1>4. QED
  BY <1>2, <1>3

LEMMA StepKinds ==
    ASSUME TypeOK, [Next]_vars
    PROVE  \/ \E j \in Jobs : CreateJob(j)
           \/ Quiet
           \/ \E r \in Runners, j \in Jobs : Stages(r, j)
           \/ \E r \in Runners, j \in Jobs : Published(r, j)
           \/ \E j \in Jobs : Failed(j)
           \/ ChangeDisk \/ ApplyExclusion \/ RevokeRoot \/ Grant
<1>1. ASSUME NEW j \in Jobs, RequestPause(j) PROVE Quiet
  <2>1. \A k \in Jobs : job'[k].status = job[k].status
    BY <1>1, PauseEffect
  <2>2. QED
    BY <1>1, <2>1, QuietRows DEF RequestPause
<1>2. ASSUME NEW j \in Jobs, ResumeJob(j) PROVE Quiet
  <2>1. /\ Live(j) /\ job'[j].status = "running"
        /\ \A k \in Jobs \ {j} : job'[k] = job[k]
    BY <1>2, ResumeEffect DEF ResumeJob, Resumable, FreedRow
  <2>2. \A k \in Jobs : SameLife(k)
    BY <2>1 DEF SameLife, Live, IsLive
  <2>3. QED
    BY <1>2, <2>2 DEF ResumeJob, Quiet, history
<1>3. ASSUME RecoverExpired, UNCHANGED <<disk, policy, staged, manifest, history>> PROVE Quiet
  <2>1. \A k \in Jobs : SameLife(k)
    BY <1>3, RecoverEffect DEF SameRow, FreedRow, Expired, SameLife, Live, IsLive
  <2>2. QED
    BY <1>3, <2>1 DEF Quiet, history
<1>4. ASSUME OpenDatabase \/ \E r \in Runners, j \in Jobs : Enter(r, j) PROVE Quiet
  BY <1>3, <1>4 DEF OpenDatabase, Enter
<1>5. ASSUME NEW r \in Runners, Claim(r) PROVE Quiet
  <2> DEFINE j == runner[r].job
  <2>1. j \in Jobs /\ UNCHANGED <<disk, policy, staged, manifest, history>>
    BY <1>5, RunnerType DEF Claim, InBatch
  <2>2. CASE UNCHANGED job
    BY <2>1, <2>2, QuietRows
  <2>3. CASE job' = [job EXCEPT ![j] = [@ EXCEPT !.control = "active", !.owner = r, !.lease = LeaseTicks]]
    <3>1. \A k \in Jobs : job'[k].status = job[k].status
      BY <2>1, <2>3, ClaimEffect
    <3>2. QED
      BY <2>1, <3>1, QuietRows
  <2>4. QED
    BY <1>5, <2>2, <2>3 DEF Claim
<1>6. ASSUME NEW r \in Runners, CheckPolicy(r) PROVE Quiet
  BY <1>6, QuietAbort, QuietRows DEF CheckPolicy
<1>7. ASSUME NEW r \in Runners, Poll(r) \/ Process(r) \/ List(r) PROVE Quiet
  BY <1>7, QuietRows DEF Poll, Process, List, durable
<1>8. ASSUME NEW r \in Runners, ProcessUnreadable(r) \/ ListUnreadable(r) PROVE Quiet
  <2>1. runner[r].job \in Jobs
    BY <1>8, RunnerType DEF ProcessUnreadable, ListUnreadable, Ready, InBatch
  <2>2. QED
    BY <1>8, <2>1, OverlookedQuiet DEF ProcessUnreadable, ListUnreadable
<1>9. ASSUME NEW r \in Runners, NextEntry(r) PROVE Quiet
  <2> DEFINE j == runner[r].job
  <2>1. j \in Jobs /\ UNCHANGED <<disk, policy, staged, manifest, history>>
    BY <1>9, RunnerType DEF NextEntry, Ready, InBatch
  <2>2. CASE Abort(r)
    BY <2>1, <2>2, QuietAbort
  <2>3. CASE UNCHANGED job
    BY <2>1, <2>3, QuietRows
  <2>4. CASE job' = [job EXCEPT ![j] = [@ EXCEPT !.lease = LeaseTicks]]
    BY <2>1, <2>4, RenewEffect, QuietRows DEF SameRow
  <2>5. QED
    BY <1>9, <2>2, <2>3, <2>4 DEF NextEntry
<1>10. ASSUME NEW r \in Runners, Stage(r)
       PROVE  Quiet \/ \E j \in Jobs : Stages(r, j)
  BY <1>10, StageCases, QuietAbort
<1>11. ASSUME NEW r \in Runners, Release(r) PROVE Quiet
  <2> DEFINE j == runner[r].job
  <2>1. UNCHANGED <<disk, policy, staged, manifest, history>>
    BY <1>11 DEF Release
  <2>2. CASE OwnedRunner(j, r) /\ job[j].revision = policy.revision
    <3>1. job'[j].status = job[j].status /\ \A k \in Jobs \ {j} : job'[k] = job[k]
      BY <1>11, <2>2, ReleaseEffect DEF FreedRow, OwnedRunner, OwnsIn
    <3>2. QED
      BY <2>1, <3>1, QuietRows
  <2>3. CASE Abort(r)
    BY <2>1, <2>3, QuietAbort
  <2>4. QED
    BY <1>11, <2>2, <2>3 DEF Release
<1>12. ASSUME NEW r \in Runners, Finalize(r)
       PROVE  Quiet \/ \E j \in Jobs : Published(r, j)
  <2>1. runner[r].job \in Jobs
    BY <1>12, RunnerType DEF Finalize, Ready, InBatch
  <2>2. QED
    BY <1>12, <2>1, FinalizeCases
<1>13. ASSUME NEW r \in Runners, Fail(r)
       PROVE  Quiet \/ \E j \in Jobs : Failed(j)
  <2> DEFINE j == runner[r].job
  <2>1. j \in Jobs /\ UNCHANGED <<disk, policy, staged, manifest, history>>
    BY <1>13, RunnerType DEF Fail, Ready, InBatch
  <2>2. CASE Abort(r)
    BY <2>1, <2>2, QuietAbort
  <2>3. CASE OwnedRunner(j, r) /\ job' = [job EXCEPT ![j] = Ended(@, "failed")]
    <3>1. FreedRow(j, "failed", {"ready"}) /\ \A k \in Jobs \ {j} : job'[k] = job[k]
      BY <2>1, <2>3, EndEffect DEF Statuses
    <3>2. Live(j)
      BY <2>3 DEF OwnedRunner, OwnsIn, Live, IsLive
    <3>3. QED
      BY <2>1, <3>1, <3>2 DEF Failed
  <2>4. QED
    BY <1>13, <2>2, <2>3 DEF Fail
<1>14. ASSUME NEW r \in Runners, Crash(r) PROVE Quiet
  BY <1>14, QuietAbort DEF Crash
<1>15. ASSUME Tick PROVE Quiet
  BY <1>15, TickEffect, QuietRows DEF Tick, SameRow
<1>16. ASSUME LapseGrant PROVE Quiet
  <2>1. policy'.excluded = policy.excluded /\ policy.grant # "revoked" /\ policy'.grant # "revoked"
    BY <1>16 DEF LapseGrant, TypeOK
  <2>2. QED
    BY <1>16, <2>1 DEF LapseGrant, Quiet, history, SameLife
<1>17. ASSUME UNCHANGED vars PROVE Quiet
  BY <1>17, QuietRows DEF vars, history
<1>18. QED
  BY <1>1, <1>2, <1>4, <1>5, <1>6, <1>7, <1>8, <1>9, <1>10, <1>11, <1>12, <1>13, <1>14,
     <1>15, <1>16, <1>17 DEF Next, Step

\* Only a step of Finalize publishes.
LEMMA PublishedBy ==
    ASSUME TypeOK, TypeOK', [Next]_vars, NEW j \in Jobs, Publishes(j)
    PROVE  \E r \in Runners : Published(r, j)
<1>1. CASE Quiet
  BY <1>1 DEF Quiet, SameLife, Publishes, Live, IsLive
<1>2. ASSUME NEW k \in Jobs, CreateJob(k) PROVE FALSE
  BY <1>2, CreateEffect DEF Publishes
<1>3. ASSUME NEW r \in Runners, NEW k \in Jobs, Stages(r, k) PROVE FALSE
  BY <1>3, StagesEffect DEF Publishes, SameRow
<1>4. ASSUME NEW r \in Runners, NEW k \in Jobs, Published(r, k), j # k PROVE FALSE
  BY <1>4 DEF Published, Publishes
<1>5. ASSUME NEW k \in Jobs, Failed(k) PROVE FALSE
  BY <1>5 DEF Failed, FreedRow, Publishes
<1>6. CASE ChangeDisk \/ Grant
  BY <1>6 DEF ChangeDisk, Grant, durable, Publishes
<1>7. CASE ApplyExclusion \/ RevokeRoot
  BY <1>7, PurgeEffect DEF ApplyExclusion, SameRow, FreedRow, Publishes
<1>8. QED
  BY <1>1, <1>2, <1>3, <1>4, <1>5, <1>6, <1>7, StepKinds

\* A completed scan publishes every path that was on disk, and listed, all
\* the time since its job was created: finalize_resumable_scan_job only has
\* to see a drained queue to know that.
THEOREM PublicationIsComplete == Spec => PublishIsComplete
<1>1. TypeOK /\ TypeOK' /\ Frontier /\ [Next]_vars
      => \A j \in Jobs : Publishes(j) => \A p \in steady[j] : manifest'[p] # Absent
  <2> SUFFICES ASSUME TypeOK, TypeOK', Frontier, [Next]_vars, NEW j \in Jobs, Publishes(j)
               PROVE  \A p \in steady[j] : manifest'[p] # Absent
    OBVIOUS
  <2>1. PICK r \in Runners : Published(r, j)
    BY PublishedBy
  <2>2. Live(j) /\ FrontierOf(j)
    BY <2>1 DEF Published, OwnedRunner, OwnsIn, Live, IsLive, Frontier
  <2>3. \A p \in steady[j] : staged[j][p] # Absent
    BY <2>1, <2>2, DrainedIsComplete DEF Published
  <2>4. QED
    BY <2>1, <2>3 DEF Published
<1>2. QED
  BY <1>1, TypeCorrect, FrontierHolds, PTL DEF Spec, PublishIsComplete

\* Work that was staged for a live job is never done again: no pause, resume,
\* recovery or second owner returns a finished entry to the queue.
THEOREM DoneWorkStays == Spec => DoneStaysDone
<1>1. TypeOK /\ [Next]_vars
      => \A j \in Jobs, p \in Paths :
            queue[j][p] = "done" /\ Live(j) /\ IsLive(job'[j]) => queue'[j][p] = "done"
  <2> SUFFICES ASSUME TypeOK, [Next]_vars, NEW j \in Jobs, NEW p \in Paths,
                      queue[j][p] = "done", Live(j), Live(j)'
               PROVE  queue'[j][p] = "done"
    BY DEF Live
  <2>1. CASE queue'[j] = queue[j]
    BY <2>1
  <2>2. CASE queue'[j] = Requeued(queue[j])
    BY <2>2 DEF Requeued
  <2>3. ASSUME NEW k \in Jobs, CreateJob(k) PROVE queue'[j] = queue[j]
    BY <2>3 DEF CreateJob, TypeOK
  <2>4. ASSUME NEW k \in Jobs, ResumeJob(k)
        PROVE  queue'[j] = queue[j] \/ queue'[j] = Requeued(queue[j])
    BY <2>4 DEF ResumeJob, TypeOK
  <2>5. ASSUME RecoverExpired PROVE queue'[j] = queue[j] \/ queue'[j] = Requeued(queue[j])
    BY <2>5 DEF RecoverExpired
  <2>6. ASSUME NEW r \in Runners, NextEntry(r) PROVE queue'[j][p] = "done"
    <3>1. CASE UNCHANGED queue
      BY <3>1
    <3>2. ASSUME NEW k \in Jobs, NEW q \in Paths, queue[k][q] = "pending",
                 queue' = [queue EXCEPT ![k][q] = "processing"]
          PROVE  queue'[j][p] = "done"
      BY <3>2 DEF TypeOK
    <3>3. runner[r].job \in Jobs
      BY <2>6, RunnerType DEF NextEntry, Ready, InBatch
    <3>4. QED
      BY <2>6, <3>1, <3>2, <3>3 DEF NextEntry
  <2>7. ASSUME NEW r \in Runners, Stage(r) PROVE queue'[j][p] = "done"
    <3>1. ASSUME NEW k \in Jobs, Stages(r, k) PROVE queue'[j][p] = "done"
      <4>1. CASE j # k
        BY <3>1, <4>1, StagesEffect
      <4>2. CASE j = k
        BY <3>1, <4>2, StagesEffect
      <4>3. QED
        BY <4>1, <4>2
    <3>2. QED
      BY <2>7, <3>1, StageCases
  <2>8. ASSUME NEW r \in Runners, Finalize(r) PROVE queue'[j] = queue[j]
    <3>1. runner[r].job \in Jobs
      BY <2>8, RunnerType DEF Finalize, Ready, InBatch
    <3>2. CASE UNCHANGED queue
      BY <3>2
    <3>3. CASE /\ queue' = [queue EXCEPT ![runner[r].job] = NoQueue]
               /\ job' = [job EXCEPT ![runner[r].job] = [Ended(@, "completed") EXCEPT !.pauseRequested = FALSE]]
      <4>1. job'[runner[r].job].status = "completed"
        BY <3>1, <3>3, EndEffect DEF Statuses, FreedRow
      <4>2. j # runner[r].job
        BY <4>1 DEF Live, IsLive
      <4>3. QED
        BY <3>3, <4>2 DEF TypeOK
    <3>4. QED
      BY <2>8, <3>2, <3>3 DEF Finalize
  <2>9. ASSUME ApplyExclusion \/ RevokeRoot PROVE FALSE
    BY <2>9, PurgeEffect DEF ApplyExclusion, Live, IsLive
  <2>10. QED
    BY <2>1, <2>2, <2>3, <2>4, <2>5, <2>6, <2>7, <2>8, <2>9
    DEF Next, Step, RequestPause, OpenDatabase, Enter, Claim, CheckPolicy, Poll, Process, List,
        ProcessUnreadable, ListUnreadable, Overlook, Release, Fail, Crash, Tick, ChangeDisk, Grant,
        LapseGrant, vars, durable
<1>2. QED
  BY <1>1, TypeCorrect, PTL DEF Spec, DoneStaysDone

-----------------------------------------------------------------------------
(* What the readers of the manifest get. *)
Withheld ==
    /\ PolicyRespected
    /\ policy.grant = "revoked" => \A j \in Jobs : ~Live(j)

\* Per job: what was true since it began, and what is staged of that.
SeenOf(k) ==
    Live(k) =>
        /\ \A p \in OnDisk(disk) : <<p, disk[p]>> \in seen[k]
        /\ \A p \in Paths : staged[k][p] # Absent => <<p, staged[k][p]>> \in seen[k]

\* Per runner: it remembers an observation only between looking and staging,
\* and one that was true since the job it owns began.
LookOf(r) ==
    /\ runner[r].observation # Absent => runner[r].pc \in {"list", "stage"}
    /\ \A k \in Jobs : job[k].owner = r /\ runner[r].observation # Absent
                       => <<runner[r].entry, runner[r].observation>> \in seen[k]

Honest ==
    /\ \A k \in Jobs : SeenOf(k)
    /\ \A r \in Runners : LookOf(r)

-----------------------------------------------------------------------------
(* Withheld *)

LEMMA NoneIsEmpty == \A S : OnDisk(NoRows) \cap S = {}
BY DEF OnDisk, NoRows

\* PolicyRespected: whatever interleaves, the purge of a policy change, the
\* check of stage_scan_queue_entry and the check of the finalizer keep
\* excluded and revoked paths out of the manifest and out of staging.
THEOREM WithheldHolds == Spec => []Withheld
<1>1. Init => Withheld
  <2> SUFFICES ASSUME Init PROVE Withheld
    OBVIOUS
  <2>1. \A j \in Jobs : ~Live(j)
    BY DEF Init, Live, IsLive, NoJob
  <2>2. manifest = NoRows /\ policy.grant = "active"
    BY DEF Init
  <2>3. \A p \in Paths : manifest[p] = Absent
    BY <2>2 DEF NoRows
  <2>4. QED
    BY <2>1, <2>2, <2>3, ExcludedType DEF Withheld, PolicyRespected
<1>2. TypeOK /\ TypeOK' /\ Ownership /\ Withheld /\ [Next]_vars => Withheld'
  <2> SUFFICES ASSUME TypeOK, TypeOK', Ownership, Withheld, [Next]_vars PROVE Withheld'
    OBVIOUS
  <2> USE DEF Withheld, PolicyRespected
  <2>1. ASSUME UNCHANGED manifest, policy'.excluded = policy.excluded,
               policy'.grant = "revoked" <=> policy.grant = "revoked",
               \A k \in Jobs : Live(k)' =>
                   /\ Live(k) \/ policy.grant # "revoked"
                   /\ OnDisk(staged'[k]) \cap Excluded(policy) = {}
        PROVE  Withheld'
    <3>1. Excluded(policy') = Excluded(policy)
      BY <2>1 DEF Excluded
    <3>2. QED
      BY <2>1, <3>1
  <2>2. ASSUME NEW j \in Jobs, CreateJob(j) PROVE Withheld'
    <3>1. /\ UNCHANGED <<manifest, policy, staged>> /\ policy.grant = "active"
          /\ \A k \in Jobs \ {j} : job'[k] = job[k]
          /\ staged[j] = NoRows
      BY <2>2, CreateEffect DEF CreateJob, Ownership
    <3>2. \A k \in Jobs \ {j} : Live(k)' => Live(k)
      BY <3>1 DEF Live, IsLive
    <3>3. QED
      BY <2>1, <3>1, <3>2, NoneIsEmpty
  <2>3. CASE Quiet
    <3>1. \A k \in Jobs : Live(k)' => Live(k)
      BY <2>3 DEF Quiet, SameLife, Live, IsLive
    <3>2. QED
      BY <2>1, <2>3, <3>1 DEF Quiet
  <2>4. ASSUME NEW r \in Runners, NEW j \in Jobs, Stages(r, j) PROVE Withheld'
    <3>1. \A k \in Jobs : Live(k)' => Live(k)
      BY <2>4, StagesEffect DEF SameRow, Live, IsLive
    <3>2. /\ UNCHANGED <<manifest, policy>>
          /\ runner[r].observation = Absent \/ runner[r].entry \notin Excluded(policy)
          /\ Live(j)
      BY <2>4 DEF Stages, OwnedRunner, OwnsIn, Live, IsLive
    <3>3. OnDisk(staged'[j]) \cap Excluded(policy) = {}
      BY <2>4, <3>2, StagesEffect DEF OnDisk
    <3>4. \A k \in Jobs \ {j} : staged'[k] = staged[k]
      BY <2>4, StagesEffect
    <3>5. QED
      BY <2>1, <3>1, <3>2, <3>3, <3>4
  <2>5. ASSUME NEW r \in Runners, NEW j \in Jobs, Published(r, j) PROVE Withheld'
    <3>1. UNCHANGED policy /\ Live(j) /\ policy.grant # "revoked"
      BY <2>5 DEF Published, OwnedRunner, OwnsIn, Live, IsLive
    <3>2. \A k \in Jobs : Live(k)' => k # j /\ Live(k) /\ staged'[k] = staged[k]
      BY <2>5 DEF Published, FreedRow, Live, IsLive
    <3>3. manifest' = staged[j] /\ OnDisk(staged[j]) \cap Excluded(policy) = {}
      BY <2>5 DEF Published
    <3>4. \A p \in Excluded(policy) : manifest'[p] = Absent
      BY <3>3, ExcludedType DEF OnDisk
    <3>5. QED
      BY <3>1, <3>2, <3>4
  <2>6. ASSUME NEW j \in Jobs, Failed(j) PROVE Withheld'
    <3>1. \A k \in Jobs : Live(k)' => Live(k)
      BY <2>6 DEF Failed, FreedRow, Live, IsLive
    <3>2. QED
      BY <2>1, <2>6, <3>1 DEF Failed
  <2>7. CASE ChangeDisk
    <3>1. UNCHANGED <<manifest, policy, staged, job>>
      BY <2>7 DEF ChangeDisk, durable
    <3>2. QED
      BY <2>1, <3>1 DEF Live, IsLive
  <2>8. CASE ApplyExclusion \/ RevokeRoot
    <3>1. \A k \in Jobs : ~Live(k)'
      BY <2>8, PurgeEffect DEF ApplyExclusion, SameRow, FreedRow, Live, IsLive
    <3>2. /\ \A p \in Excluded(policy') : manifest'[p] = Absent
          /\ policy'.grant = "revoked" => manifest' = NoRows
      <4>1. CASE ApplyExclusion
        <5>1. manifest' = Pruned(policy') /\ policy'.grant # "revoked"
          BY <4>1 DEF ApplyExclusion, TypeOK
        <5>2. QED
          BY <5>1, ExcludedType DEF Pruned
      <4>2. CASE RevokeRoot
        BY <4>2, ExcludedType DEF RevokeRoot, NoRows
      <4>3. QED
        BY <2>8, <4>1, <4>2
    <3>3. QED
      BY <3>1, <3>2
  <2>9. CASE Grant
    <3>1. /\ UNCHANGED <<manifest, staged, job>>
          /\ policy'.excluded = policy.excluded /\ policy'.grant = "active"
      BY <2>9 DEF Grant, TypeOK
    <3>2. Excluded(policy') = Excluded(policy)
      BY <3>1 DEF Excluded
    <3>3. QED
      BY <3>1, <3>2 DEF Live, IsLive
  <2>10. QED
    BY <2>2, <2>3, <2>4, <2>5, <2>6, <2>7, <2>8, <2>9, StepKinds
<1>3. QED
  BY <1>1, <1>2, TypeCorrect, OwnershipHolds, PTL DEF Spec

\* Withheld paths stay out of the manifest and out of live staging.
THEOREM PolicyIsRespected == Spec => []PolicyRespected
<1>1. Withheld => PolicyRespected
  BY DEF Withheld
<1>2. QED
  BY <1>1, WithheldHolds, PTL

-----------------------------------------------------------------------------
(* Honest *)

\* What a step can make of a runner's memory: nothing, what it was (for a
\* job it already owned), or a look at the disk.
Looked(r) ==
    \/ runner'[r].observation = Absent
    \/ /\ runner'[r].pc \in {"list", "stage"}
       /\ runner'[r].entry = runner[r].entry
       /\ \A k \in Jobs : job'[k].owner = r => job[k].owner = r
       /\ \/ runner'[r].observation = runner[r].observation
          \/ /\ runner'[r].observation = disk[runner[r].entry]
             /\ runner[r].entry \in OnDisk(disk)

LEMMA LookedOther ==
    ASSUME Honest, NEW r \in Runners, runner'[r] = runner[r],
           \A k \in Jobs : job'[k].owner = r => job[k].owner = r
    PROVE  Looked(r)
BY DEF Honest, LookOf, Looked

LEMMA LookedOutside ==
    ASSUME Honest, runner' = runner,
           \A k \in Jobs : job'[k].owner = job[k].owner \/ job'[k].owner = NoRunner
    PROVE  \A r \in Runners : Looked(r)
BY LookedOther, RunnersAssumption DEF RunnersAssumption

LEMMA LookedInside ==
    ASSUME Honest, NEW r \in Runners, OthersStay(r), Looked(r),
           \A k \in Jobs : \A s \in Runners \ {r} : job'[k].owner = s => job[k].owner = s
    PROVE  \A s \in Runners : Looked(s)
BY LookedOther DEF OthersStay

LEMMA ReturnBlind ==
    ASSUME TypeOK, NEW r \in Runners, Return(r) PROVE runner'[r].observation = Absent
<1>1. runner'[r] = Idle
  BY SetEffect DEF Return
<1>2. QED
  BY <1>1 DEF Idle

LEMMA AbortLooked ==
    ASSUME TypeOK, Honest, NEW r \in Runners, Abort(r)
    PROVE  \A s \in Runners : Looked(s)
<1>1. Looked(r)
  BY ReturnBlind DEF Abort, Looked
<1>2. /\ OthersStay(r)
      /\ \A k \in Jobs : \A s \in Runners \ {r} : job'[k].owner = s => job[k].owner = s
  BY AbortEffect, RunnersAssumption DEF RunnersAssumption, OrphanedRow
<1>3. QED
  BY <1>1, <1>2, LookedInside

\* A runner that is not between looking and staging has nothing to remember.
LEMMA Blind ==
    ASSUME Honest, NEW r \in Runners, runner[r].pc \notin {"list", "stage"},
           runner'[r].observation = runner[r].observation
    PROVE  Looked(r)
BY DEF Honest, LookOf, Looked

LEMMA ProcessLooks ==
    ASSUME TypeOK, NEW r \in Runners, Process(r), runner[r].entry \in OnDisk(disk) \ Excluded(policy)
    PROVE  runner'[r].pc \in {"list", "stage"}
<1> DEFINE p == runner[r].entry
           pc == IF Children(p) = {} THEN "stage" ELSE "list"
<1>1. runner' = [runner EXCEPT ![r] = [@ EXCEPT !.pc = pc, !.ok = FALSE, !.observation = disk[p]]]
  BY DEF Process, OnDisk
<1>2. runner[r] \in RunnerStates /\ pc \in {"stage", "list"}
  BY RunnerType
<1>3. runner'[r].pc = pc
  <2> HIDE DEF pc
  <2>1. runner'[r] = [runner[r] EXCEPT !.pc = pc, !.ok = FALSE, !.observation = disk[p]]
    BY <1>1, SetEffect
  <2>2. QED
    BY <1>2, <2>1 DEF RunnerStates
<1>4. QED
  BY <1>2, <1>3

LEMMA LookSteps ==
    ASSUME TypeOK, Honest, [Next]_vars
    PROVE  \A s \in Runners : Looked(s)
<1>1. ASSUME NEW j \in Jobs, CreateJob(j) PROVE \A s \in Runners : Looked(s)
  <2>1. runner' = runner
        /\ \A k \in Jobs : job'[k].owner = job[k].owner \/ job'[k].owner = NoRunner
    BY <1>1, CreateEffect DEF CreateJob
  <2>2. QED
    BY <2>1, LookedOutside
<1>2. ASSUME NEW j \in Jobs, RequestPause(j) PROVE \A s \in Runners : Looked(s)
  <2>1. runner' = runner /\ \A k \in Jobs : job'[k].owner = job[k].owner
    BY <1>2, PauseEffect DEF RequestPause
  <2>2. QED
    BY <2>1, LookedOutside
<1>3. ASSUME NEW j \in Jobs, ResumeJob(j) PROVE \A s \in Runners : Looked(s)
  <2>1. runner' = runner
        /\ \A k \in Jobs : job'[k].owner = job[k].owner \/ job'[k].owner = NoRunner
    BY <1>3, ResumeEffect DEF ResumeJob, FreedRow
  <2>2. QED
    BY <2>1, LookedOutside
<1>4. ASSUME RecoverExpired, NEW k \in Jobs PROVE job'[k].owner = job[k].owner \/ job'[k].owner = NoRunner
  BY <1>4, RecoverEffect DEF SameRow, FreedRow
<1>5. ASSUME OpenDatabase PROVE \A s \in Runners : Looked(s)
  BY <1>4, <1>5, LookedOutside DEF OpenDatabase
<1>6. ASSUME NEW r \in Runners, NEW j \in Jobs, Enter(r, j) PROVE \A s \in Runners : Looked(s)
  <2>1. RecoverExpired /\ runner' = [runner EXCEPT ![r] = [Idle EXCEPT !.pc = "claim", !.job = j,
                              !.left = BatchSize, !.revision = policy.revision]]
    BY <1>6 DEF Enter
  <2>2. [Idle EXCEPT !.pc = "claim", !.job = j, !.left = BatchSize,
                     !.revision = policy.revision].observation = Absent
    BY DEF Idle
  <2>3. OthersStay(r) /\ runner'[r].observation = Absent
    BY <2>1, <2>2, SetEffect
  <2>4. \A k \in Jobs : \A s \in Runners \ {r} : job'[k].owner = s => job[k].owner = s
    BY <1>4, <2>1, RunnersAssumption DEF RunnersAssumption
  <2>5. QED
    BY <2>3, <2>4, LookedInside DEF Looked
<1>7. ASSUME NEW r \in Runners, Claim(r) PROVE \A s \in Runners : Looked(s)
  <2> DEFINE j == runner[r].job
  <2>1. j \in Jobs /\ runner[r].pc = "claim"
    BY <1>7, RunnerType DEF Claim, InBatch
  <2>2. OthersStay(r) /\ (runner'[r].observation = runner[r].observation \/ runner'[r].observation = Absent)
    BY <1>7, GotoEffect, ReturnEffect, ReturnBlind DEF Claim
  <2>3. Looked(r)
    BY <2>1, <2>2, Blind DEF Looked
  <2>4. \A k \in Jobs : \A s \in Runners \ {r} : job'[k].owner = s => job[k].owner = s
    <3>1. CASE UNCHANGED job
      BY <3>1
    <3>2. CASE job' = [job EXCEPT ![j] = [@ EXCEPT !.control = "active", !.owner = r, !.lease = LeaseTicks]]
      <4>1. job'[j].owner = r /\ \A k \in Jobs \ {j} : job'[k] = job[k]
        BY <2>1, <3>2, ClaimEffect
      <4>2. QED
        BY <4>1
    <3>3. QED
      BY <1>7, <3>1, <3>2 DEF Claim
  <2>5. QED
    BY <2>2, <2>3, <2>4, LookedInside
<1>8. ASSUME NEW r \in Runners, CheckPolicy(r) PROVE \A s \in Runners : Looked(s)
  <2>1. CASE runner' = [runner EXCEPT ![r] = [@ EXCEPT !.ok = TRUE]] /\ UNCHANGED job
    <3>1. runner'[r].pc = runner[r].pc /\ OthersStay(r) /\ SameData(r)
      BY <2>1, CheckEffect DEF MovesTo
    <3>2. Looked(r)
      BY <2>1, <3>1 DEF Honest, LookOf, Looked, SameData
    <3>3. QED
      BY <2>1, <3>1, <3>2, LookedInside
  <2>2. QED
    BY <1>8, <2>1, AbortLooked DEF CheckPolicy
<1>9. ASSUME NEW r \in Runners, Poll(r) PROVE \A s \in Runners : Looked(s)
  <2>1. runner[r].pc = "poll" /\ UNCHANGED job /\ OthersStay(r) /\ SameData(r)
    BY <1>9, PollEffect DEF Poll, Ready, durable
  <2>2. QED
    BY <2>1, Blind, LookedInside DEF SameData
<1>10. ASSUME NEW r \in Runners, NextEntry(r) PROVE \A s \in Runners : Looked(s)
  <2> DEFINE j == runner[r].job
  <2>1. j \in Jobs /\ runner[r].pc = "next"
    BY <1>10, RunnerType DEF NextEntry, Ready, InBatch
  <2>2. CASE Goto(r, "finalize") /\ UNCHANGED job
    <3>1. OthersStay(r) /\ runner'[r].observation = runner[r].observation
      BY <2>2, GotoEffect
    <3>2. QED
      BY <2>1, <2>2, <3>1, Blind, LookedInside
  <2>3. ASSUME NEW p \in Paths,
               job' = [job EXCEPT ![j] = [@ EXCEPT !.lease = LeaseTicks]],
               runner' = [runner EXCEPT ![r] = [@ EXCEPT !.pc = "process", !.ok = FALSE, !.entry = p]]
        PROVE  \A s \in Runners : Looked(s)
    <3>1. OthersStay(r) /\ runner'[r].observation = runner[r].observation
      BY <2>3, TakeEffect
    <3>2. \A k \in Jobs : job'[k].owner = job[k].owner
      BY <2>1, <2>3, RenewEffect DEF SameRow
    <3>3. QED
      BY <2>1, <3>1, <3>2, Blind, LookedInside
  <2>4. QED
    BY <1>10, <2>2, <2>3, AbortLooked DEF NextEntry
<1>11. ASSUME NEW r \in Runners, Process(r) \/ ProcessUnreadable(r) PROVE \A s \in Runners : Looked(s)
  <2>1. UNCHANGED job /\ runner[r].pc = "process" /\ OthersStay(r) /\ runner'[r].entry = runner[r].entry
    BY <1>11, ProcessEffect DEF Process, ProcessUnreadable, Overlook, durable, Ready
  <2>2. CASE runner'[r].observation = runner[r].observation
    BY <2>1, <2>2, Blind, LookedInside
  <2>3. CASE /\ runner[r].entry \in OnDisk(disk) \ Excluded(policy)
             /\ runner'[r].observation = disk[runner[r].entry] /\ Process(r)
    <3>1. runner'[r].pc \in {"list", "stage"}
      BY <2>3, ProcessLooks
    <3>2. Looked(r)
      BY <2>1, <2>3, <3>1 DEF Looked
    <3>3. QED
      BY <2>1, <3>2, LookedInside
  <2>4. QED
    BY <1>11, <2>2, <2>3, ProcessEffect
<1>12. ASSUME NEW r \in Runners, List(r) \/ ListUnreadable(r) PROVE \A s \in Runners : Looked(s)
  <2>1. UNCHANGED job
    BY <1>12 DEF List, ListUnreadable, Overlook, durable
  <2>2. /\ runner'[r].pc = "stage" /\ OthersStay(r)
        /\ runner'[r].entry = runner[r].entry /\ runner'[r].observation = runner[r].observation
    BY <1>12, ListEffect DEF MovesTo
  <2>3. Looked(r)
    BY <2>1, <2>2 DEF Looked
  <2>4. QED
    BY <2>1, <2>2, <2>3, LookedInside
<1>13. ASSUME NEW r \in Runners, Stage(r) PROVE \A s \in Runners : Looked(s)
  <2>1. ASSUME NEW j \in Jobs, Stages(r, j) PROVE \A s \in Runners : Looked(s)
    <3>1. /\ OthersStay(r) /\ runner'[r].observation = Absent
          /\ \A k \in Jobs : job'[k].owner = job[k].owner
      BY <2>1, StagesEffect DEF SameRow
    <3>2. QED
      BY <3>1, LookedInside DEF Looked
  <2>2. QED
    BY <1>13, <2>1, StageCases, AbortLooked
<1>14. ASSUME NEW r \in Runners, NEW j \in Jobs, Return(r), job'[j].owner = NoRunner,
              \A k \in Jobs \ {j} : job'[k] = job[k]
       PROVE  \A s \in Runners : Looked(s)
  <2>1. OthersStay(r) /\ Looked(r)
    BY <1>14, ReturnEffect, ReturnBlind DEF Looked
  <2>2. QED
    BY <1>14, <2>1, LookedInside, RunnersAssumption DEF RunnersAssumption
<1>15. ASSUME NEW r \in Runners, Release(r) PROVE \A s \in Runners : Looked(s)
  <2> DEFINE j == runner[r].job
  <2>1. j \in Jobs
    BY <1>15, RunnerType DEF Release, Ready, InBatch
  <2>2. CASE Return(r) /\ job[j].revision = policy.revision /\ OwnedRunner(j, r)
    <3>1. job'[j].owner = NoRunner /\ \A k \in Jobs \ {j} : job'[k] = job[k]
      BY <1>15, <2>2, ReleaseEffect DEF FreedRow
    <3>2. QED
      BY <1>14, <2>1, <2>2, <3>1
  <2>3. QED
    BY <1>15, <2>2, AbortLooked DEF Release
<1>16. ASSUME NEW r \in Runners, Finalize(r) \/ Fail(r) PROVE \A s \in Runners : Looked(s)
  <2> DEFINE j == runner[r].job
  <2>1. j \in Jobs
    BY <1>16, RunnerType DEF Finalize, Fail, Ready, InBatch
  <2>2. ASSUME NEW st \in Statuses, Return(r),
               \/ job' = [job EXCEPT ![j] = Ended(@, st)]
               \/ job' = [job EXCEPT ![j] = [Ended(@, st) EXCEPT !.pauseRequested = FALSE]]
        PROVE  \A s \in Runners : Looked(s)
    <3>1. job'[j].owner = NoRunner /\ \A k \in Jobs \ {j} : job'[k] = job[k]
      BY <2>1, <2>2, EndEffect DEF FreedRow
    <3>2. QED
      BY <1>14, <2>1, <2>2, <3>1
  <2>3. "completed" \in Statuses /\ "failed" \in Statuses
    BY DEF Statuses
  <2>4. QED
    BY <1>16, <2>2, <2>3, AbortLooked DEF Finalize, Fail
<1>17. ASSUME NEW r \in Runners, Crash(r) PROVE \A s \in Runners : Looked(s)
  BY <1>17, AbortLooked DEF Crash
<1>18. ASSUME Tick PROVE \A s \in Runners : Looked(s)
  <2>1. runner' = runner /\ \A k \in Jobs : job'[k].owner = job[k].owner
    BY <1>18, TickEffect DEF Tick, SameRow
  <2>2. QED
    BY <2>1, LookedOutside
<1>19. ASSUME ApplyExclusion \/ RevokeRoot PROVE \A s \in Runners : Looked(s)
  <2>1. runner' = runner
        /\ \A k \in Jobs : job'[k].owner = job[k].owner \/ job'[k].owner = NoRunner
    BY <1>19, PurgeEffect DEF ApplyExclusion, RevokeRoot, SameRow, FreedRow
  <2>2. QED
    BY <2>1, LookedOutside
<1>20. ASSUME ChangeDisk \/ Grant \/ LapseGrant \/ UNCHANGED vars PROVE \A s \in Runners : Looked(s)
  <2>1. UNCHANGED <<runner, job>>
    BY <1>20 DEF ChangeDisk, Grant, LapseGrant, vars, durable
  <2>2. QED
    BY <2>1, LookedOutside
<1>21. QED
  BY <1>1, <1>2, <1>3, <1>5, <1>6, <1>7, <1>8, <1>9, <1>10, <1>11, <1>12, <1>13, <1>15,
     <1>16, <1>17, <1>18, <1>19, <1>20 DEF Next, Step

LEMMA SeenGrows ==
    ASSUME TypeOK, [Next]_vars, NEW k \in Jobs, Live(k)
    PROVE  seen[k] \subseteq seen'[k]
<1>1. ASSUME NEW j \in Jobs, CreateJob(j) PROVE seen[k] \subseteq seen'[k]
  <2>1. k # j /\ seen' = [seen EXCEPT ![j] = {<<p, disk[p]>> : p \in OnDisk(disk)}]
    BY <1>1 DEF CreateJob
  <2>2. seen'[k] = seen[k]
    BY <2>1 DEF TypeOK
  <2>3. QED
    BY <2>2
<1>2. ASSUME ChangeDisk PROVE seen[k] \subseteq seen'[k]
  <2>1. seen'[k] = seen[k] \cup {<<p, disk'[p]>> : p \in OnDisk(disk')}
    BY <1>2 DEF ChangeDisk
  <2>2. QED
    BY <2>1
<1>3. QED
  BY <1>1, <1>2, StepKinds
  DEF Quiet, Stages, Published, Failed, ApplyExclusion, RevokeRoot, Grant, history

\* Whatever is staged for a live job, or about to be, was once on disk since
\* that job began.
THEOREM HonestHolds == Spec => []Honest
<1>1. Init => Honest
  <2> SUFFICES ASSUME Init PROVE Honest
    OBVIOUS
  <2>1. \A j \in Jobs : ~Live(j)
    BY DEF Init, Live, IsLive, NoJob
  <2>2. \A r \in Runners : runner[r].observation = Absent
    BY DEF Init, Idle
  <2>3. QED
    BY <2>1, <2>2 DEF Honest, SeenOf, LookOf
<1>2. TypeOK /\ Ownership /\ Honest /\ [Next]_vars => Honest'
  <2> SUFFICES ASSUME TypeOK, Ownership, Honest, [Next]_vars PROVE Honest'
    OBVIOUS
  <2>1. ASSUME NEW r \in Runners PROVE LookOf(r)'
    <3>1. CASE runner'[r].observation = Absent
      BY <3>1 DEF LookOf
    <3>2. CASE runner'[r].observation # Absent
      <4>1. /\ runner'[r].pc \in {"list", "stage"}
            /\ runner'[r].entry = runner[r].entry
            /\ \A k \in Jobs : job'[k].owner = r => job[k].owner = r
            /\ \/ runner'[r].observation = runner[r].observation
               \/ /\ runner'[r].observation = disk[runner[r].entry]
                  /\ runner[r].entry \in OnDisk(disk)
        BY <3>2, LookSteps DEF Looked
      <4>2. ASSUME NEW k \in Jobs, job'[k].owner = r
            PROVE  <<runner'[r].entry, runner'[r].observation>> \in seen'[k]
        <5>1. job[k].owner = r /\ Live(k)
          BY <4>1, <4>2, RunnersAssumption DEF RunnersAssumption, Ownership, Live, IsLive
        <5>2. <<runner'[r].entry, runner'[r].observation>> \in seen[k]
          BY <3>2, <4>1, <5>1 DEF Honest, SeenOf, LookOf
        <5>3. QED
          BY <5>1, <5>2, SeenGrows
      <4>3. QED
        BY <4>1, <4>2 DEF LookOf
    <3>3. QED
      BY <3>1, <3>2
  <2>2. ASSUME NEW k \in Jobs, Live(k), UNCHANGED disk, seen'[k] = seen[k], staged'[k] = staged[k]
        PROVE  SeenOf(k)'
    BY <2>2 DEF Honest, SeenOf, OnDisk
  <2>3. ASSUME NEW k \in Jobs, ~Live(k)' PROVE SeenOf(k)'
    BY <2>3 DEF SeenOf
  <2>4. ASSUME NEW k \in Jobs PROVE SeenOf(k)'
    <3>1. ASSUME NEW j \in Jobs, CreateJob(j) PROVE SeenOf(k)'
      <4>1. /\ UNCHANGED <<disk, staged>> /\ staged[j] = NoRows
            /\ seen' = [seen EXCEPT ![j] = {<<p, disk[p]>> : p \in OnDisk(disk)}]
            /\ \A i \in Jobs \ {j} : job'[i] = job[i]
        BY <3>1, CreateEffect DEF CreateJob, Ownership
      <4>2. CASE k = j
        <5>1. seen'[k] = {<<p, disk[p]>> : p \in OnDisk(disk)}
          BY <4>1, <4>2 DEF TypeOK
        <5>2. \A p \in Paths : staged'[k][p] = Absent
          BY <4>1, <4>2 DEF NoRows
        <5>3. QED
          BY <4>1, <5>1, <5>2 DEF SeenOf, OnDisk
      <4>3. CASE k # j
        <5>1. seen'[k] = seen[k]
          BY <4>1, <4>3 DEF TypeOK
        <5>2. Live(k)' => Live(k)
          BY <4>1, <4>3 DEF Live, IsLive
        <5>3. QED
          BY <2>2, <2>3, <4>1, <5>1, <5>2
      <4>4. QED
        BY <4>2, <4>3
    <3>2. CASE Quiet
      <4>1. Live(k)' => Live(k)
        BY <3>2 DEF Quiet, SameLife, Live, IsLive
      <4>2. QED
        BY <2>2, <2>3, <3>2, <4>1 DEF Quiet
    <3>3. ASSUME NEW r \in Runners, NEW j \in Jobs, Stages(r, j) PROVE SeenOf(k)'
      <4>1. UNCHANGED <<disk, seen>> /\ job[j].owner = r /\ Live(j)
        BY <3>3 DEF Stages, history, OwnedRunner, OwnsIn, Live, IsLive
      <4>2. Live(k)' => Live(k)
        BY <3>3, StagesEffect DEF SameRow, Live, IsLive
      <4>3. CASE k = j
        <5>1. \A p \in Paths : staged'[j][p] # Absent => <<p, staged'[j][p]>> \in seen[j]
          <6>1. runner[r].observation # Absent => <<runner[r].entry, runner[r].observation>> \in seen[j]
            BY <4>1 DEF Honest, LookOf
          <6>2. \A p \in Paths : staged[j][p] # Absent => <<p, staged[j][p]>> \in seen[j]
            BY <4>1 DEF Honest, SeenOf
          <6>3. QED
            BY <3>3, <6>1, <6>2, StagesEffect
        <5>2. QED
          BY <4>1, <4>3, <5>1 DEF Honest, SeenOf, OnDisk
      <4>4. CASE k # j
        <5>1. staged'[k] = staged[k]
          BY <3>3, <4>4, StagesEffect
        <5>2. QED
          BY <2>2, <2>3, <4>1, <4>2, <5>1
      <4>5. QED
        BY <4>3, <4>4
    <3>4. ASSUME NEW r \in Runners, NEW j \in Jobs, Published(r, j) PROVE SeenOf(k)'
      <4>1. UNCHANGED <<disk, seen>>
        BY <3>4 DEF Published, history
      <4>2. Live(k)' => Live(k) /\ staged'[k] = staged[k]
        BY <3>4 DEF Published, FreedRow, Live, IsLive
      <4>3. QED
        BY <2>2, <2>3, <4>1, <4>2
    <3>5. ASSUME NEW j \in Jobs, Failed(j) PROVE SeenOf(k)'
      <4>1. UNCHANGED <<disk, seen, staged>>
        BY <3>5 DEF Failed, history
      <4>2. Live(k)' => Live(k)
        BY <3>5 DEF Failed, FreedRow, Live, IsLive
      <4>3. QED
        BY <2>2, <2>3, <4>1, <4>2
    <3>6. CASE ChangeDisk
      <4>1. UNCHANGED <<staged, job>>
        BY <3>6 DEF ChangeDisk, durable
      <4>2. Live(k) => seen'[k] = seen[k] \cup {<<p, disk'[p]>> : p \in OnDisk(disk')}
        BY <3>6 DEF ChangeDisk
      <4>3. QED
        BY <4>1, <4>2 DEF Honest, SeenOf, Live, IsLive
    <3>7. CASE ApplyExclusion \/ RevokeRoot
      <4>1. ~Live(k)'
        BY <3>7, PurgeEffect DEF ApplyExclusion, SameRow, FreedRow, Live, IsLive
      <4>2. QED
        BY <2>3, <4>1
    <3>8. CASE Grant
      <4>1. UNCHANGED <<disk, seen, staged, job>>
        BY <3>8 DEF Grant, history
      <4>2. QED
        BY <2>2, <2>3, <4>1 DEF Live, IsLive
    <3>9. QED
      BY <3>1, <3>2, <3>3, <3>4, <3>5, <3>6, <3>7, <3>8, StepKinds
  <2>5. QED
    BY <2>1, <2>4 DEF Honest
<1>3. QED
  BY <1>1, <1>2, TypeCorrect, OwnershipHolds, PTL DEF Spec

\* A completed scan publishes nothing that was not on disk, with that
\* content, at some time since its job was created.
THEOREM PublicationIsHonest == Spec => PublishIsHonest
<1>1. TypeOK /\ TypeOK' /\ Honest /\ [Next]_vars
      => \A j \in Jobs : Publishes(j) =>
            \A p \in Paths : manifest'[p] # Absent => <<p, manifest'[p]>> \in seen[j]
  <2> SUFFICES ASSUME TypeOK, TypeOK', Honest, [Next]_vars, NEW j \in Jobs, Publishes(j)
               PROVE  \A p \in Paths : manifest'[p] # Absent => <<p, manifest'[p]>> \in seen[j]
    OBVIOUS
  <2>1. PICK r \in Runners : Published(r, j)
    BY PublishedBy
  <2>2. Live(j) /\ SeenOf(j) /\ manifest' = staged[j]
    BY <2>1 DEF Published, OwnedRunner, OwnsIn, Live, IsLive, Honest
  <2>3. QED
    BY <2>2 DEF SeenOf
<1>2. QED
  BY <1>1, TypeCorrect, HonestHolds, PTL DEF Spec, PublishIsHonest

-----------------------------------------------------------------------------
(* ScanJob implements AtomicManifest *)

scanOf == [j \in Jobs |-> Phase(job[j])]
withheldOf == IF policy.grant = "revoked" THEN Paths ELSE Excluded(policy)

LEMMA Phases ==
    ASSUME TypeOK, NEW j \in Jobs
    PROVE  /\ Live(j) <=> Phase(job[j]) = "open"
           /\ job[j].status = "none" <=> Phase(job[j]) = "idle"
           /\ job[j].status = "completed" <=> Phase(job[j]) = "published"
           /\ job[j].status = "failed" <=> Phase(job[j]) = "closed"
<1>1. job[j].status \in Statuses
  BY RowType DEF JobRows
<1>2. QED
  BY <1>1 DEF Statuses, Phase, Live, IsLive

LEMMA PhasesNext ==
    ASSUME TypeOK', NEW j \in Jobs
    PROVE  /\ Live(j)' <=> Phase(job'[j]) = "open"
           /\ job'[j].status = "none" <=> Phase(job'[j]) = "idle"
           /\ job'[j].status = "completed" <=> Phase(job'[j]) = "published"
           /\ job'[j].status = "failed" <=> Phase(job'[j]) = "closed"
<1>1. job'[j].status \in Statuses
  BY DEF TypeOK, JobRows
<1>2. QED
  BY <1>1 DEF Statuses, Phase, Live, IsLive

LEMMA PhaseKept ==
    ASSUME TypeOK, TypeOK', NEW j \in Jobs, SameLife(j)
    PROVE  Phase(job'[j]) = Phase(job[j])
<1>1. CASE job'[j].status = job[j].status
  BY <1>1 DEF Phase
<1>2. CASE Live(j) /\ Live(j)'
  BY <1>2, Phases, PhasesNext
<1>3. QED
  BY <1>1, <1>2 DEF SameLife

\* Each step is one step of the promise, or none.
THEOREM Implementation == Spec => ImplementsAtomicManifest
<1>1. Init => Promise!Init
  <2> SUFFICES ASSUME Init PROVE Promise!Init
    OBVIOUS
  <2>1. \A j \in Jobs : Phase(job[j]) = "idle"
    BY DEF Init, NoJob, Phase
  <2>2. withheldOf = {}
    BY DEF Init, withheldOf, Excluded
  <2>3. QED
    BY <2>1, <2>2 DEF Init, Promise!Init, Promise!Trees, Trees, NoRows, withheldOf
<1>2. TypeOK /\ TypeOK' /\ Ownership /\ Withheld /\ Honest /\ Frontier /\ [Next]_vars
      => [Promise!Next]_(Promise!avars)
  <2> SUFFICES ASSUME TypeOK, TypeOK', Ownership, Withheld, Honest, Frontier, [Next]_vars
               PROVE  [Promise!Next]_(Promise!avars)
    OBVIOUS
  <2>1. ASSUME NEW j \in Jobs, CreateJob(j) PROVE Promise!Open(j)
    <3>1. /\ job[j].status = "none" /\ job'[j].status = "running"
          /\ \A k \in Jobs \ {j} : job'[k] = job[k]
          /\ UNCHANGED <<disk, manifest, policy>>
          /\ policy.grant = "active"
          /\ seen' = [seen EXCEPT ![j] = {<<p, disk[p]>> : p \in OnDisk(disk)}]
          /\ steady' = [steady EXCEPT ![j] = OnDisk(disk) \ Excluded(policy)]
      BY <2>1, CreateEffect DEF CreateJob
    <3>2. scanOf[j] = "idle" /\ scanOf' = [scanOf EXCEPT ![j] = "open"]
      <4>1. Phase(job[j]) = "idle" /\ Phase(job'[j]) = "open"
        BY <3>1, Phases, PhasesNext DEF Live, IsLive
      <4>2. \A k \in Jobs \ {j} : Phase(job'[k]) = Phase(job[k])
        BY <3>1
      <4>3. QED
        BY <4>1, <4>2 DEF scanOf
    <3>3. withheldOf = Excluded(policy) /\ withheldOf' = withheldOf
      BY <3>1 DEF withheldOf
    <3>4. QED
      BY <3>1, <3>2, <3>3 DEF Promise!Open, Promise!OnDisk, OnDisk, scanOf, withheldOf
  <2>2. CASE Quiet
    <3>1. scanOf' = scanOf
      BY <2>2, PhaseKept DEF Quiet, scanOf
    <3>2. withheldOf' = withheldOf
      BY <2>2 DEF Quiet, withheldOf, Excluded
    <3>3. CASE steady' = steady
      BY <2>2, <3>1, <3>2, <3>3 DEF Quiet, Promise!avars, scanOf, withheldOf
    <3>4. ASSUME NEW j \in Jobs, NEW hidden \in SUBSET Paths, steady' = [steady EXCEPT ![j] = @ \ hidden]
          PROVE  Promise!Overlook(j)
      BY <2>2, <3>1, <3>2, <3>4 DEF Quiet, Promise!Overlook, scanOf, withheldOf
    <3>5. QED
      BY <2>2, <3>3, <3>4 DEF Quiet, Promise!Next
  <2>3. ASSUME NEW r \in Runners, NEW j \in Jobs, Stages(r, j) PROVE UNCHANGED Promise!avars
    <3>1. \A k \in Jobs : job'[k].status = job[k].status
      BY <2>3, StagesEffect DEF SameRow
    <3>2. scanOf' = scanOf
      BY <3>1, PhaseKept DEF SameLife, scanOf
    <3>3. QED
      BY <2>3, <3>2 DEF Stages, history, Promise!avars, scanOf
  <2>4. ASSUME NEW r \in Runners, NEW j \in Jobs, Published(r, j) PROVE Promise!Publish(j)
    <3>1. /\ UNCHANGED <<disk, policy, seen, steady>>
          /\ Live(j) /\ job'[j].status = "completed"
          /\ \A k \in Jobs \ {j} : job'[k] = job[k]
          /\ manifest' = staged[j]
      BY <2>4 DEF Published, history, FreedRow, OwnedRunner, OwnsIn, Live, IsLive
    <3>2. scanOf[j] = "open" /\ scanOf' = [scanOf EXCEPT ![j] = "published"]
      BY <3>1, Phases, PhasesNext DEF scanOf
    <3>3. manifest' \in Trees
      BY DEF TypeOK
    <3>4. OnDisk(manifest') \cap withheldOf = {}
      <4>1. policy.grant # "revoked"
        BY <3>1 DEF Withheld
      <4>2. QED
        BY <2>4, <3>1, <4>1 DEF Published, withheldOf
    <3>5. \A p \in OnDisk(manifest') : <<p, manifest'[p]>> \in seen[j]
      BY <3>1 DEF Honest, SeenOf, OnDisk
    <3>6. \A p \in steady[j] : p \in Paths /\ manifest'[p] # Absent
      <4>1. FrontierOf(j) /\ steady[j] \subseteq Paths
        BY DEF Frontier, TypeOK
      <4>2. QED
        BY <2>4, <3>1, <4>1, DrainedIsComplete DEF Published
    <3>7. steady[j] \subseteq OnDisk(manifest')
      BY <3>6 DEF OnDisk
    <3>8. withheldOf' = withheldOf
      BY <3>1 DEF withheldOf
    <3>9. QED
      BY <3>1, <3>2, <3>3, <3>4, <3>5, <3>7, <3>8
      DEF Promise!Publish, Promise!OnDisk, Promise!Trees, OnDisk, Trees, scanOf, withheldOf
  <2>5. ASSUME NEW j \in Jobs, Failed(j) PROVE Promise!Abort(j)
    <3>1. scanOf[j] = "open" /\ scanOf' = [scanOf EXCEPT ![j] = "closed"]
      BY <2>5, Phases, PhasesNext DEF Failed, FreedRow, scanOf
    <3>2. QED
      BY <2>5, <3>1 DEF Failed, history, Promise!Abort, scanOf
  <2>6. CASE ChangeDisk
    <3>1. UNCHANGED <<policy, job, manifest>> /\ disk' \in Trees
      BY <2>6 DEF ChangeDisk, durable, TypeOK
    <3>2. \A j \in Jobs : scanOf[j] = "open" <=> Live(j)
      BY Phases DEF scanOf
    <3>3. /\ seen' = [j \in Jobs |-> IF scanOf[j] = "open"
                                     THEN seen[j] \cup {<<p, disk'[p]>> : p \in OnDisk(disk')} ELSE seen[j]]
          /\ steady' = [j \in Jobs |-> IF scanOf[j] = "open"
                                       THEN steady[j] \cap OnDisk(disk') ELSE steady[j]]
      BY <2>6, <3>2 DEF ChangeDisk
    <3>4. Promise!Change
      BY <3>1, <3>3 DEF Promise!Change, Promise!OnDisk, Promise!Trees, OnDisk, Trees, scanOf
    <3>5. QED
      BY <3>4 DEF Promise!Next
  <2>7. ASSUME manifest' \in Trees, NEW kept \in SUBSET Paths,
               manifest' = [p \in Paths |-> IF p \in kept THEN manifest[p] ELSE Absent],
               OnDisk(manifest') \cap withheldOf' = {},
               \A k \in Jobs : /\ SameLife(k) \/ (job[k].status # "none" /\ job'[k].status = "failed")
                               /\ Live(k) => job'[k].status = "failed",
               UNCHANGED <<disk, seen, steady>>
        PROVE  Promise!Purge
    <3> DEFINE closed == {k \in Jobs : job[k].status # "none" /\ job'[k].status = "failed"}
    <3>1. withheldOf' \subseteq Paths
      BY ExcludedType DEF withheldOf
    <3>2. closed \in SUBSET {k \in Jobs : scanOf[k] # "idle"}
      BY Phases DEF scanOf
    <3>3. {k \in Jobs : scanOf[k] = "open"} \subseteq closed
      BY <2>7, Phases DEF scanOf, Live, IsLive
    <3>4. \A k \in Jobs : Phase(job'[k]) = IF k \in closed THEN "closed" ELSE Phase(job[k])
      BY <2>7, PhaseKept, PhasesNext
    <3>5. scanOf' = [k \in Jobs |-> IF k \in closed THEN "closed" ELSE scanOf[k]]
      BY <3>4 DEF scanOf
    <3>6. QED
      <4> HIDE DEF closed
      <4> QED BY <2>7, <3>1, <3>2, <3>3, <3>5 DEF Promise!Purge, Promise!OnDisk, OnDisk, scanOf, withheldOf
  <2>8. CASE ApplyExclusion \/ RevokeRoot
    <3>1. UNCHANGED <<disk, seen, steady>> /\ manifest' \in Trees
      BY <2>8 DEF ApplyExclusion, RevokeRoot, history, TypeOK
    <3>2. \A k \in Jobs : /\ SameLife(k) \/ (job[k].status # "none" /\ job'[k].status = "failed")
                          /\ Live(k) => job'[k].status = "failed"
      BY <2>8, PurgeEffect DEF ApplyExclusion, SameRow, FreedRow, SameLife
    <3>3. PICK kept \in SUBSET Paths :
             manifest' = [p \in Paths |-> IF p \in kept THEN manifest[p] ELSE Absent]
      <4>1. CASE ApplyExclusion
        <5>1. manifest' = [p \in Paths |-> IF p \in Paths \ Excluded(policy') THEN manifest[p] ELSE Absent]
          BY <4>1 DEF ApplyExclusion, Pruned
        <5>2. QED
          BY <5>1
      <4>2. CASE RevokeRoot
        <5>1. manifest' = [p \in Paths |-> IF p \in {} THEN manifest[p] ELSE Absent]
          BY <4>2 DEF RevokeRoot, NoRows
        <5>2. {} \in SUBSET Paths
          OBVIOUS
        <5>3. QED
          BY <5>1, <5>2, Zenon
      <4>3. QED
        BY <2>8, <4>1, <4>2
    <3>4. OnDisk(manifest') \cap withheldOf' = {}
      <4>1. CASE ApplyExclusion
        BY <4>1 DEF ApplyExclusion, Pruned, OnDisk, withheldOf, TypeOK
      <4>2. CASE RevokeRoot
        BY <4>2 DEF RevokeRoot, NoRows, OnDisk
      <4>3. QED
        BY <2>8, <4>1, <4>2
    <3>5. QED
      BY <2>7, <3>1, <3>2, <3>3, <3>4 DEF Promise!Next
  <2>9. CASE Grant
    <3>1. /\ UNCHANGED <<disk, job, manifest, seen, steady>>
          /\ policy'.excluded = policy.excluded /\ policy'.grant = "active"
      BY <2>9 DEF Grant, history, TypeOK
    <3>2. CASE policy.grant # "revoked"
      <4>1. withheldOf' = withheldOf
        BY <3>1, <3>2 DEF withheldOf, Excluded
      <4>2. QED
        BY <3>1, <4>1 DEF Promise!avars, withheldOf
    <3>3. CASE policy.grant = "revoked"
      <4>1. manifest = NoRows /\ \A k \in Jobs : ~Live(k)
        BY <3>3 DEF Withheld, PolicyRespected
      <4>2. manifest' = [p \in Paths |-> IF p \in {} THEN manifest[p] ELSE Absent]
        BY <3>1, <4>1 DEF NoRows
      <4>3. OnDisk(manifest') \cap withheldOf' = {}
        BY <3>1, <4>1, NoneIsEmpty
      <4>4. \A k \in Jobs : SameLife(k)
        BY <3>1 DEF SameLife
      <4>5. manifest' \in Trees
        BY DEF TypeOK
      <4>6. QED
        BY <2>7, <3>1, <4>1, <4>2, <4>3, <4>4, <4>5 DEF Promise!Next
    <3>4. QED
      BY <3>2, <3>3
  <2>10. QED
    BY <2>1, <2>2, <2>3, <2>4, <2>5, <2>6, <2>8, <2>9, StepKinds DEF Promise!Next
<1>3. QED
  BY <1>1, <1>2, TypeCorrect, OwnershipHolds, FrontierHolds, WithheldHolds, HonestHolds, PTL
  DEF Spec, ImplementsAtomicManifest, Promise!Spec
=============================================================================
