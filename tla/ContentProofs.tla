---------------------------- MODULE ContentProofs ----------------------------
(***************************************************************************)
(* Theorems about what is extracted from files and found by a search.      *)
(*   ExtractionJob, for any runners, operations and bounds: what a step    *)
(*     may do to rows and runners (Moves), then who owns a row (Rows), what*)
(*     a runner has read (Reading), what search shows (Shown), and the     *)
(*     refinement of AtomicContent.                                        *)
(*   BoundedReader, for any files and limits: what a reader has written is *)
(*     within its limits and covers what it has read (ReaderSound).        *)
(*   LexicalSearch, for any entries, scopes and callers: what the ranking  *)
(*     of two lists is, and what a search holds of the policy it was       *)
(*     compared with (SearchSound).                                        *)
(***************************************************************************)
EXTENDS ExtractionJob, BoundedReader, LexicalSearch,
        SequenceTheorems, FiniteSetTheorems, WellFoundedInduction, TLAPS

Owning == Steps \ {"idle", "claim"}

\* What a step may do to a row, privacy changes that hit the file aside: it
\* creates it, moves a live one, or leaves it alone; what identifies the work
\* never changes, and a runner's token gets on it only with a claim.
Created(j) ==
    /\ job[j].status = "none"
    /\ \A k \in Jobs : ~Live(k)
    /\ \A k \in Jobs \ {j} : job'[k] = job[k]
    /\ job'[j].status = "queued" /\ job'[j].owner = NoRunner
    /\ job'[j].revision = policy.revision
    /\ UNCHANGED policy

SameWork(a, b) ==
    a.version = b.version /\ a.operation = b.operation /\ a.revision = b.revision

Moved(j) ==
    /\ Live(j) /\ job'[j].status # "none"
    /\ SameWork(job[j], job'[j])
    /\ \A r \in Runners : job'[j].owner = r =>
          \/ job[j].owner = r
          \/ runner'[r].job = j /\ runner'[r].pc = "open"

Move(j) == job'[j] = job[j] \/ Created(j) \/ Moved(j)

-----------------------------------------------------------------------------
(* Types *)

LEMMA Bounds ==
    /\ NumJobs \in Nat /\ MaxVersion \in Nat /\ MaxRevision \in Nat /\ MaxFaults \in Nat
    /\ 0 \in 0 .. NumJobs /\ 0 \in 0 .. MaxRevision /\ 0 \in 0 .. MaxFaults
    /\ 1 \in Versions /\ 1 \in 1 .. MaxRevision
    /\ \A n \in 1 .. MaxRevision : n \in 0 .. MaxRevision
    /\ Jobs \subseteq 0 .. NumJobs /\ 0 \notin Jobs
    /\ Versions \subseteq Nat /\ Absent \notin Versions
BY BoundsAssumption, AbsentAssumption DEF BoundsAssumption, AbsentAssumption, Versions, Jobs

LEMMA NoJobType == NoJob \in JobRows /\ NoJob.status = "none" /\ NoJob.owner = NoRunner
<1>1. (CHOOSE o \in Operations : TRUE) \in Operations
  BY OperationsAssumption DEF OperationsAssumption
<1>2. QED
  BY <1>1, Bounds DEF NoJob, JobRows, Statuses

LEMMA ToType ==
    ASSUME NEW row \in JobRows, NEW s \in Statuses
    PROVE  /\ To(row, s) \in JobRows
           /\ To(row, s).status = s /\ To(row, s).owner = NoRunner
           /\ SameWork(row, To(row, s)) /\ To(row, s).cancel = row.cancel
BY DEF JobRows, To, Unowned, SameWork

LEMMA IdleType == Idle \in RunnerStates /\ Idle.pc = "idle"
BY Bounds DEF Idle, RunnerStates, Steps, Fenced, Errors

LEMMA RowType == ASSUME TypeOK, NEW j \in Jobs PROVE job[j] \in JobRows
BY DEF TypeOK

LEMMA RunnerType ==
    ASSUME TypeOK, NEW r \in Runners
    PROVE  runner[r] \in RunnerStates /\ (runner[r].pc # "idle" => runner[r].job \in Jobs)
BY DEF TypeOK

RowsOK(rows) ==
    /\ rows \in [Jobs -> JobRows]
    /\ \A j \in Jobs : (rows[j].owner # NoRunner) <=> (rows[j].status = "running")

RunnersOK(runners) ==
    /\ runners \in [Runners -> RunnerStates]
    /\ \A r \in Runners : runners[r].pc # "idle" => runners[r].job \in Jobs

LEMMA SetRow ==
    ASSUME NEW rows, RowsOK(rows), NEW j \in Jobs, NEW row \in JobRows,
           (row.owner # NoRunner) <=> (row.status = "running")
    PROVE  RowsOK([rows EXCEPT ![j] = row])
BY DEF RowsOK

LEMMA SetRunner ==
    ASSUME TypeOK, NEW r \in Runners, NEW state \in RunnerStates,
           state.pc = "idle" \/ state.job \in Jobs
    PROVE  RunnersOK([runner EXCEPT ![r] = state])
BY DEF RunnersOK, TypeOK

LEMMA RecoveredType ==
    ASSUME TypeOK
    PROVE  /\ RowsOK(Recovered)
           /\ \A j \in Jobs : /\ Recovered[j] = job[j] \/ (Live(j) /\ Recovered[j].status = "interrupted")
                              /\ SameWork(job[j], Recovered[j])
                              /\ Recovered[j].owner \in {job[j].owner, NoRunner}
<1>1. ASSUME NEW j \in Jobs
      PROVE  /\ Recovered[j] \in JobRows
             /\ (Recovered[j].owner # NoRunner) <=> (Recovered[j].status = "running")
             /\ Recovered[j] = job[j] \/ (Live(j) /\ Recovered[j].status = "interrupted")
             /\ SameWork(job[j], Recovered[j])
             /\ Recovered[j].owner \in {job[j].owner, NoRunner}
  <2>1. CASE Expired(job[j])
    <3>1. Recovered[j] = To(job[j], "interrupted")
      BY <2>1 DEF Recovered
    <3>2. "interrupted" \in Statuses
      BY DEF Statuses
    <3>3. Live(j)
      BY <2>1 DEF Expired, Live, IsLive
    <3>4. QED
      BY <3>1, <3>2, <3>3, ToType, RowType
  <2>2. CASE ~Expired(job[j])
    <3>1. Recovered[j] = job[j]
      BY <2>2 DEF Recovered
    <3>2. job[j] \in JobRows /\ ((job[j].owner # NoRunner) <=> (job[j].status = "running"))
      BY DEF TypeOK
    <3>3. QED
      BY <3>1, <3>2 DEF SameWork
  <2>3. QED
    BY <2>1, <2>2
<1>2. Recovered = [j \in Jobs |-> Recovered[j]]
  BY DEF Recovered
<1>3. RowsOK(Recovered)
  BY <1>1, <1>2 DEF RowsOK
<1>4. QED
  BY <1>1, <1>3

\* The row that Return leaves differs from the given one in nothing but the
\* token of the run that is over.
LEMMA ReturnRows ==
    ASSUME TypeOK, NEW r \in Runners, NEW rows, RowsOK(rows), Return(r, rows)
    PROVE  /\ RowsOK(job) /\ RowsOK(job')
           /\ RunnersOK(runner')
           /\ \A j \in Jobs :
                 /\ job'[j].owner # r
                 /\ rows[j].owner # r => job'[j] = rows[j]
                 /\ job'[j].status = rows[j].status /\ job'[j].cancel = rows[j].cancel
                 /\ SameWork(rows[j], job'[j])
                 /\ job'[j].owner \in {rows[j].owner, Orphan}
<1>1. RunnersOK(runner')
  BY IdleType, SetRunner DEF Return
<1>2. RowsOK(job)
  BY DEF TypeOK, RowsOK
<1>3. ASSUME NEW j \in Jobs
      PROVE  /\ job'[j] \in JobRows
             /\ (job'[j].owner # NoRunner) <=> (job'[j].status = "running")
             /\ job'[j].owner # r
             /\ rows[j].owner # r => job'[j] = rows[j]
             /\ job'[j].status = rows[j].status /\ job'[j].cancel = rows[j].cancel
             /\ SameWork(rows[j], job'[j])
             /\ job'[j].owner \in {rows[j].owner, Orphan}
  <2>1. rows[j] \in JobRows /\ ((rows[j].owner # NoRunner) <=> (rows[j].status = "running"))
    BY DEF RowsOK
  <2>2. CASE rows[j].owner = r
    <3>1. job'[j] = [rows[j] EXCEPT !.owner = Orphan]
      BY <2>2 DEF Return
    <3>2. QED
      BY <2>1, <2>2, <3>1, RunnersAssumption DEF RunnersAssumption, JobRows, SameWork
  <2>3. CASE rows[j].owner # r
    <3>1. job'[j] = rows[j]
      BY <2>3 DEF Return
    <3>2. QED
      BY <2>1, <2>3, <3>1 DEF SameWork
  <2>4. QED
    BY <2>2, <2>3
<1>4. job' = [j \in Jobs |-> job'[j]]
  BY DEF Return
<1>5. RowsOK(job')
  BY <1>3, <1>4 DEF RowsOK
<1>6. QED
  BY <1>1, <1>2, <1>3, <1>5

\* What a step may do to a runner.
RunnerMove(r) ==
    \/ runner'[r].pc = runner[r].pc /\ runner'[r].job = runner[r].job
    \/ runner'[r].pc = "idle" /\ \A j \in Jobs : job'[j].owner # r
    \/ runner[r].pc = "idle" /\ runner'[r].pc = "claim"
    \/ runner'[r].pc \in Owning /\ runner'[r].job = runner[r].job

Moves ==
    /\ RowsOK(job') /\ RunnersOK(runner')
    /\ \A r \in Runners : RunnerMove(r)
    /\ ExcludeFile \/ \A j \in Jobs : Move(j)

\* Steps that leave the rows alone.
LEMMA NoRowMoves ==
    ASSUME TypeOK, UNCHANGED job, RunnersOK(runner'), \A r \in Runners : RunnerMove(r)
    PROVE  Moves
BY DEF Moves, Move, TypeOK, RowsOK

\* Steps that leave the runners alone.
LEMMA NoRunnerMoves ==
    ASSUME TypeOK, UNCHANGED runner, RowsOK(job'), ExcludeFile \/ \A j \in Jobs : Move(j)
    PROVE  Moves
BY DEF Moves, RunnerMove, TypeOK, RunnersOK

\* A step that moves one live row.
LEMMA RowMoves ==
    ASSUME TypeOK, UNCHANGED runner, NEW j \in Jobs, NEW row \in JobRows,
           job' = [job EXCEPT ![j] = row],
           Live(j), row.status # "none", SameWork(job[j], row),
           row.owner \in {job[j].owner, NoRunner},
           (row.owner # NoRunner) <=> (row.status = "running")
    PROVE  Moves
<1>1. RowsOK(job')
  <2>1. RowsOK(job)
    BY DEF TypeOK, RowsOK
  <2>2. QED
    BY <2>1, SetRow
<1>2. job'[j] = row /\ \A k \in Jobs \ {j} : job'[k] = job[k]
  BY DEF TypeOK
<1>3. Moved(j)
  BY <1>2, RunnersAssumption DEF Moved, RunnersAssumption
<1>4. \A k \in Jobs : Move(k)
  BY <1>2, <1>3 DEF Move
<1>5. QED
  BY <1>1, <1>4, NoRunnerMoves

\* A step of a runner between the claim and the end of its run.
LEMMA SetMoves ==
    ASSUME TypeOK, NEW r \in Runners, runner[r].pc # "idle", NEW state \in RunnerStates,
           state.pc \in Owning, state.job = runner[r].job,
           runner' = [runner EXCEPT ![r] = state], UNCHANGED job
    PROVE  Moves
<1>1. state.job \in Jobs
  BY RunnerType
<1>2. RunnersOK(runner')
  BY <1>1, SetRunner
<1>3. runner'[r] = state /\ \A s \in Runners \ {r} : runner'[s] = runner[s]
  BY DEF TypeOK
<1>4. \A s \in Runners : RunnerMove(s)
  BY <1>3 DEF RunnerMove
<1>5. QED
  BY <1>2, <1>4, NoRowMoves

\* A step of a runner that gives up its attempt.
LEMMA GiveUpMoves ==
    ASSUME TypeOK, NEW r \in Runners, runner[r].pc # "idle",
           NEW step \in Owning, NEW error \in Errors, GiveUp(r, step, error), UNCHANGED job
    PROVE  Moves
<1> DEFINE new == [Idle EXCEPT !.pc = step, !.job = runner[r].job, !.error = error]
<1>1. runner[r].job \in Jobs /\ step \in Steps
  BY RunnerType DEF Owning
<1>2. new \in RunnerStates /\ new.job = runner[r].job /\ new.pc = step
  BY <1>1, IdleType, Bounds DEF RunnerStates
<1>3. runner' = [runner EXCEPT ![r] = new]
  BY DEF GiveUp
<1> HIDE DEF new
<1>4. QED
  BY <1>2, <1>3, SetMoves

LEMMA GotoMoves ==
    ASSUME TypeOK, NEW r \in Runners, runner[r].pc # "idle",
           NEW step \in Owning, Goto(r, step), UNCHANGED job
    PROVE  Moves
<1> DEFINE new == [runner[r] EXCEPT !.pc = step]
<1>1. runner[r] \in RunnerStates /\ step \in Steps
  BY RunnerType DEF Owning
<1>2. new \in RunnerStates /\ new.job = runner[r].job /\ new.pc = step
  BY <1>1 DEF RunnerStates
<1>3. runner' = [runner EXCEPT ![r] = new]
  BY DEF Goto, TypeOK
<1> HIDE DEF new
<1>4. QED
  BY <1>2, <1>3, SetMoves

\* A runner returns, and has done to the rows at most what Moved allows.
LEMMA ReturnMoves ==
    ASSUME TypeOK, NEW r \in Runners, NEW rows, RowsOK(rows), Return(r, rows),
           \A j \in Jobs :
              \/ rows[j] = job[j]
              \/ /\ Live(j) /\ rows[j].status # "none" /\ SameWork(job[j], rows[j])
                 /\ rows[j].owner \in {job[j].owner, NoRunner}
    PROVE  Moves
<1>1. RowsOK(job) /\ RowsOK(job') /\ RunnersOK(runner') /\ \A j \in Jobs : job'[j].owner # r
  BY ReturnRows
<1>2. \A s \in Runners : RunnerMove(s)
  <2>1. runner'[r].pc = "idle" /\ \A s \in Runners \ {r} : runner'[s] = runner[s]
    BY IdleType DEF Return, TypeOK
  <2>2. QED
    BY <1>1, <2>1 DEF RunnerMove
<1>3. ASSUME NEW j \in Jobs PROVE Move(j)
  <2>1. CASE rows[j].owner = r
    <3>1. rows[j].status = "running" /\ job[j].owner = r
      BY <2>1, RunnersAssumption DEF RowsOK, RunnersAssumption
    <3>2. Live(j)
      BY <1>1, <3>1, RunnersAssumption DEF RowsOK, RunnersAssumption, Live, IsLive
    <3>3. SameWork(job[j], job'[j]) /\ job'[j].status # "none"
      BY <3>1, ReturnRows DEF SameWork
    <3>4. job'[j].owner = Orphan
      BY <1>1, <2>1, <3>1, ReturnRows
    <3>5. QED
      BY <3>2, <3>3, <3>4, RunnersAssumption DEF Move, Moved, RunnersAssumption
  <2>2. CASE rows[j].owner # r
    <3>1. job'[j] = rows[j]
      BY <2>2, ReturnRows
    <3>2. CASE rows[j] = job[j]
      BY <3>1, <3>2 DEF Move
    <3>3. CASE /\ Live(j) /\ rows[j].status # "none" /\ SameWork(job[j], rows[j])
               /\ rows[j].owner \in {job[j].owner, NoRunner}
      <4>1. \A s \in Runners : job'[j].owner = s => job[j].owner = s
        BY <3>1, <3>3, RunnersAssumption DEF RunnersAssumption
      <4>2. SameWork(job[j], job'[j]) /\ job'[j].status # "none"
        BY <3>1, <3>3
      <4>3. QED
        BY <3>3, <4>1, <4>2 DEF Move, Moved
    <3>4. QED
      BY <3>2, <3>3
  <2>3. QED
    BY <2>1, <2>2
<1>4. QED
  BY <1>1, <1>2, <1>3 DEF Moves

-----------------------------------------------------------------------------
(* Rows and runners in every step *)

LEMMA UserMoves ==
    ASSUME TypeOK,
           \/ \E o \in Operations : Create(o)
           \/ \E j \in Jobs : RequestCancel(j) \/ Resume(j) \/ Expire(j)
           \/ RecoverExpired
    PROVE  Moves
<1>1. ASSUME NEW o \in Operations, Create(o) PROVE Moves
  <2>1. PICK j \in Jobs :
          /\ \A k \in Jobs : Exists(k) <=> k < j
          /\ job' = [job EXCEPT ![j] =
                [NoJob EXCEPT !.status = "queued", !.operation = o,
                              !.version = manifest, !.revision = policy.revision]]
    BY <1>1 DEF Create
  <2> DEFINE row == [NoJob EXCEPT !.status = "queued", !.operation = o,
                                  !.version = manifest, !.revision = policy.revision]
  <2>2. /\ row \in JobRows /\ row.status = "queued" /\ row.owner = NoRunner
        /\ row.revision = policy.revision
    <3>1. policy.revision \in 0 .. MaxRevision /\ manifest \in Versions \cup {Absent}
      BY Bounds DEF TypeOK
    <3>2. NoJob.owner = NoRunner
      BY NoJobType
    <3>3. QED
      BY <3>1, <3>2, NoJobType DEF JobRows, Statuses
  <2>3. job' = [job EXCEPT ![j] = row]
    BY <2>1
  <2> HIDE DEF row
  <2>4. ~Exists(j)
    <3>1. j < j <=> FALSE
      BY DEF Jobs
    <3>2. QED
      BY <2>1, <3>1
  <2>5. RowsOK(job)
    BY DEF TypeOK, RowsOK
  <2>6. RowsOK(job')
    BY <2>2, <2>3, <2>5, SetRow
  <2>7. job'[j] = row /\ \A k \in Jobs \ {j} : job'[k] = job[k]
    BY <2>3 DEF TypeOK
  <2>8. Created(j)
    BY <1>1, <2>2, <2>4, <2>7 DEF Created, Create, Exists
  <2>9. \A k \in Jobs : Move(k)
    BY <2>7, <2>8 DEF Move
  <2>10. UNCHANGED runner
    BY <1>1 DEF Create
  <2>11. QED
    BY <2>6, <2>9, <2>10, NoRunnerMoves
<1>2. ASSUME NEW j \in Jobs, RequestCancel(j) PROVE Moves
  <2> DEFINE row == IF job[j].status = "running" THEN [job[j] EXCEPT !.cancel = TRUE]
                    ELSE [job[j] EXCEPT !.cancel = TRUE, !.status = "cancelled"]
  <2>1. job[j] \in JobRows /\ ((job[j].owner # NoRunner) <=> (job[j].status = "running"))
    BY DEF TypeOK
  <2>2. /\ row \in JobRows /\ row.status # "none" /\ SameWork(job[j], row)
        /\ row.owner \in {job[j].owner, NoRunner}
        /\ (row.owner # NoRunner) <=> (row.status = "running")
    BY <1>2, <2>1 DEF JobRows, Statuses, SameWork, RequestCancel, Live, IsLive
  <2>3. job' = [job EXCEPT ![j] = row] /\ UNCHANGED runner /\ Live(j)
    BY <1>2 DEF RequestCancel
  <2> HIDE DEF row
  <2>4. QED
    BY <2>2, <2>3, RowMoves
<1>3. ASSUME NEW j \in Jobs, Resume(j) PROVE Moves
  <2> DEFINE row == [To(job[j], "queued") EXCEPT !.cancel = FALSE]
  <2>1. job[j] \in JobRows
    BY DEF TypeOK
  <2>2. /\ row \in JobRows /\ row.status = "queued" /\ SameWork(job[j], row)
        /\ row.owner = NoRunner
    BY <2>1 DEF JobRows, Statuses, SameWork, To, Unowned
  <2>3. job' = [job EXCEPT ![j] = row] /\ UNCHANGED runner /\ Live(j)
    BY <1>3 DEF Resume, Live, IsLive
  <2> HIDE DEF row
  <2>4. QED
    BY <2>2, <2>3, RowMoves
<1>4. ASSUME NEW j \in Jobs, Expire(j) PROVE Moves
  <2> DEFINE row == [job[j] EXCEPT !.leased = FALSE]
  <2>1. job[j] \in JobRows /\ ((job[j].owner # NoRunner) <=> (job[j].status = "running"))
    BY DEF TypeOK
  <2>2. /\ row \in JobRows /\ row.status = job[j].status /\ SameWork(job[j], row)
        /\ row.owner = job[j].owner
    BY <2>1 DEF JobRows, SameWork
  <2>3. job' = [job EXCEPT ![j] = row] /\ UNCHANGED runner /\ job[j].status = "running"
    BY <1>4 DEF Expire
  <2>4. Live(j) /\ row.status # "none"
    BY <2>2, <2>3 DEF Live, IsLive
  <2> HIDE DEF row
  <2>5. QED
    BY <2>1, <2>2, <2>3, <2>4, RowMoves
<1>5. ASSUME RecoverExpired PROVE Moves
  <2>1. job' = Recovered /\ UNCHANGED runner
    BY <1>5 DEF RecoverExpired
  <2>2. RowsOK(job')
    BY <2>1, RecoveredType
  <2>3. ASSUME NEW j \in Jobs PROVE Move(j)
    <3>1. job'[j] = job[j] \/ (Live(j) /\ job'[j].status = "interrupted")
      BY <2>1, RecoveredType
    <3>2. SameWork(job[j], job'[j]) /\ job'[j].owner \in {job[j].owner, NoRunner}
      BY <2>1, RecoveredType
    <3>3. QED
      BY <3>1, <3>2, RunnersAssumption DEF Move, Moved, RunnersAssumption
  <2>4. QED
    BY <2>1, <2>2, <2>3, NoRunnerMoves
<1>6. QED
  BY <1>1, <1>2, <1>3, <1>4, <1>5

LEMMA BeginMoves ==
    ASSUME TypeOK, NEW r \in Runners, NEW j \in Jobs, Begin(r, j)
    PROVE  Moves
<1> DEFINE new == [Idle EXCEPT !.pc = "claim", !.job = j, !.revision = policy.revision]
<1>1. policy.revision \in 0 .. MaxRevision /\ j \in 0 .. NumJobs
  BY Bounds DEF TypeOK
<1>2. new \in RunnerStates /\ new.pc = "claim" /\ new.job = j
  BY <1>1, IdleType DEF RunnerStates, Steps, Fenced
<1>3. runner' = [runner EXCEPT ![r] = new] /\ UNCHANGED job /\ runner[r].pc = "idle"
  BY DEF Begin
<1> HIDE DEF new
<1>4. RunnersOK(runner')
  BY <1>2, <1>3, SetRunner
<1>5. runner'[r] = new /\ \A s \in Runners \ {r} : runner'[s] = runner[s]
  BY <1>3 DEF TypeOK
<1>6. \A s \in Runners : RunnerMove(s)
  BY <1>2, <1>3, <1>5 DEF RunnerMove
<1>7. QED
  BY <1>3, <1>4, <1>6, NoRowMoves

LEMMA ClaimMoves ==
    ASSUME TypeOK, NEW r \in Runners, Claim(r)
    PROVE  Moves
<1> DEFINE j == runner[r].job
<1>1. j \in Jobs /\ runner[r].pc = "claim"
  BY RunnerType DEF Claim
<1>2. CASE Recovered[j].status # "queued"
  <2>1. Return(r, Recovered)
    BY <1>2 DEF Claim
  <2>2. \A k \in Jobs :
              \/ Recovered[k] = job[k]
              \/ /\ Live(k) /\ Recovered[k].status # "none" /\ SameWork(job[k], Recovered[k])
                 /\ Recovered[k].owner \in {job[k].owner, NoRunner}
    BY RecoveredType
  <2>3. QED
    BY <2>1, <2>2, RecoveredType, ReturnMoves
<1>3. CASE Recovered[j].status = "queued"
  <2> DEFINE row == [Recovered[j] EXCEPT !.status = "running", !.owner = r, !.leased = TRUE]
  <2>1. Goto(r, "open") /\ job' = [Recovered EXCEPT ![j] = row]
    BY <1>3 DEF Claim
  <2>2. RowsOK(Recovered) /\ Recovered[j] \in JobRows /\ Recovered \in [Jobs -> JobRows]
    BY <1>1, RecoveredType DEF RowsOK
  <2>3. /\ row \in JobRows /\ row.status = "running" /\ row.owner = r
        /\ SameWork(Recovered[j], row)
    BY <2>2 DEF JobRows, Statuses, SameWork
  <2> HIDE DEF row
  <2>4. RowsOK(job')
    BY <1>1, <2>1, <2>2, <2>3, RunnersAssumption, SetRow DEF RunnersAssumption
  <2>5. job'[j] = row /\ \A k \in Jobs \ {j} : job'[k] = Recovered[k]
    BY <1>1, <2>1, <2>2
  <2> DEFINE new == [runner[r] EXCEPT !.pc = "open"]
  <2>6. runner[r] \in RunnerStates
    BY RunnerType
  <2>7. new \in RunnerStates /\ new.pc = "open" /\ new.job = j
    BY <2>6 DEF RunnerStates, Steps, Fenced
  <2>8. runner' = [runner EXCEPT ![r] = new]
    BY <2>1 DEF Goto, TypeOK
  <2> HIDE DEF new
  <2>9. RunnersOK(runner')
    BY <1>1, <2>7, <2>8, SetRunner
  <2>10. runner'[r] = new /\ \A s \in Runners \ {r} : runner'[s] = runner[s]
    BY <2>8 DEF TypeOK
  <2>11. \A s \in Runners : RunnerMove(s)
    BY <2>7, <2>10 DEF RunnerMove, Owning, Steps, Fenced
  <2>12. Moved(j)
    <3>1. Recovered[j] = job[j]
      BY <1>1, <1>3, RecoveredType
    <3>2. Live(j)
      BY <1>3, <3>1 DEF Live, IsLive
    <3>3. QED
      BY <2>3, <2>5, <2>7, <2>10, <3>1, <3>2 DEF Moved
  <2>13. ASSUME NEW k \in Jobs \ {j} PROVE Move(k)
    <3>1. Recovered[k] = job[k] \/ (Live(k) /\ Recovered[k].status = "interrupted")
      BY RecoveredType
    <3>2. SameWork(job[k], Recovered[k]) /\ Recovered[k].owner \in {job[k].owner, NoRunner}
      BY RecoveredType
    <3>3. QED
      BY <2>5, <3>1, <3>2, RunnersAssumption DEF Move, Moved, RunnersAssumption
  <2>14. QED
    BY <2>4, <2>9, <2>11, <2>12, <2>13 DEF Moves, Move
<1>4. QED
  BY <1>2, <1>3

\* The steps between the claim and the publication.
LEMMA AttemptMoves ==
    ASSUME TypeOK, NEW r \in Runners,
           \/ Open(r) \/ Read(r) \/ PollFails(r) \/ Recheck(r) \/ AssertPolicy(r)
           \/ ErrorPoll(r) \/ Invalidate(r)
    PROVE  Moves
<1>1. runner[r] \in RunnerStates /\ runner \in [Runners -> RunnerStates]
  BY DEF TypeOK
<1>2. /\ {"error poll", "recheck", "poll", "complete", "fail", "cancel", "invalidate",
          "requeue", "read"} \subseteq Owning
      /\ {"other", "source", "cancelled", "none"} \subseteq Errors
  BY DEF Owning, Steps, Fenced, Errors
<1>3. ASSUME Open(r) PROVE Moves
  <2>1. CASE GotoError(r, "other") \/ GotoError(r, "source")
    BY <1>2, <1>3, <2>1, GiveUpMoves DEF Open, GotoError
  <2>2. CASE runner' = [runner EXCEPT ![r] = [@ EXCEPT !.pc = "read", !.handle = disk.version]]
    <3> DEFINE new == [runner[r] EXCEPT !.pc = "read", !.handle = disk.version]
    <3>1. disk.version \in Versions
      BY DEF TypeOK
    <3>2. new \in RunnerStates /\ new.pc = "read" /\ new.job = runner[r].job
      BY <1>1, <3>1 DEF RunnerStates, Steps, Fenced
    <3>3. runner' = [runner EXCEPT ![r] = new] /\ UNCHANGED job /\ runner[r].pc # "idle"
      BY <1>3, <2>2 DEF Open
    <3> HIDE DEF new
    <3>4. QED
      BY <1>2, <3>2, <3>3, SetMoves
  <2>3. QED
    BY <1>3, <2>1, <2>2 DEF Open
<1>4. ASSUME Read(r) PROVE Moves
  <2>1. runner[r].pc # "idle" /\ UNCHANGED job
    BY <1>4 DEF Read
  <2>2. CASE runner' = [runner EXCEPT ![r] = [@ EXCEPT !.pc = "recheck", !.text = runner[r].handle]]
    <3> DEFINE new == [runner[r] EXCEPT !.pc = "recheck", !.text = runner[r].handle]
    <3>1. new \in RunnerStates /\ new.pc = "recheck" /\ new.job = runner[r].job
      BY <1>1 DEF RunnerStates, Steps, Fenced
    <3>2. runner' = [runner EXCEPT ![r] = new]
      BY <2>2
    <3> HIDE DEF new
    <3>3. QED
      BY <1>2, <2>1, <3>1, <3>2, SetMoves
  <2>3. CASE \E error \in Errors : GotoError(r, error)
    BY <1>2, <2>1, <2>3, GiveUpMoves DEF GotoError
  <2>4. CASE GiveUp(r, "requeue", "none")
    BY <1>2, <2>1, <2>4, GiveUpMoves
  <2>5. QED
    BY <1>2, <1>4, <2>2, <2>3, <2>4 DEF Read
<1>5. ASSUME PollFails(r) PROVE Moves
  <2>1. PICK error \in Errors : GotoError(r, error)
    BY <1>2, <1>5 DEF PollFails
  <2>2. runner[r].pc # "idle" /\ UNCHANGED job
    BY <1>5 DEF PollFails
  <2>3. QED
    BY <1>2, <2>1, <2>2, GiveUpMoves DEF GotoError
<1>6. ASSUME Recheck(r) PROVE Moves
  <2>1. runner[r].pc # "idle" /\ UNCHANGED job
    BY <1>6 DEF Recheck
  <2>2. CASE runner' = [runner EXCEPT ![r] = [@ EXCEPT !.pc = "poll", !.handle = Absent]]
    <3> DEFINE new == [runner[r] EXCEPT !.pc = "poll", !.handle = Absent]
    <3>1. new \in RunnerStates /\ new.pc = "poll" /\ new.job = runner[r].job
      BY <1>1 DEF RunnerStates, Steps, Fenced
    <3>2. runner' = [runner EXCEPT ![r] = new]
      BY <2>2
    <3> HIDE DEF new
    <3>3. QED
      BY <1>2, <2>1, <3>1, <3>2, SetMoves
  <2>3. CASE GotoError(r, "source")
    BY <1>2, <2>1, <2>3, GiveUpMoves DEF GotoError
  <2>4. QED
    BY <1>6, <2>2, <2>3 DEF Recheck
<1>7. ASSUME AssertPolicy(r) PROVE Moves
  BY <1>2, <1>7, GotoMoves, GiveUpMoves DEF AssertPolicy
<1>8. ASSUME ErrorPoll(r) PROVE Moves
  <2>1. PICK step \in {"cancel", "invalidate", "fail"} : GiveUp(r, step, "none")
    BY <1>8 DEF ErrorPoll
  <2>2. QED
    BY <1>2, <1>8, <2>1, GiveUpMoves DEF ErrorPoll
<1>9. ASSUME Invalidate(r) PROVE Moves
  BY <1>2, <1>9, GotoMoves DEF Invalidate
<1>10. QED
  BY <1>3, <1>4, <1>5, <1>6, <1>7, <1>8, <1>9

\* The row with which a runner ends its job.
LEMMA EndMoves ==
    ASSUME TypeOK, NEW r \in Runners, runner[r].pc # "idle",
           NEW row \in JobRows, row.status # "none", row.owner = NoRunner,
           row.status # "running", SameWork(job[runner[r].job], row),
           OwnsLease(runner[r].job, r),
           Return(r, [job EXCEPT ![runner[r].job] = row])
    PROVE  Moves
<1> DEFINE j == runner[r].job
           rows == [job EXCEPT ![j] = row]
<1>1. j \in Jobs
  BY RunnerType
<1>2. RowsOK(job) /\ job \in [Jobs -> JobRows]
  BY DEF TypeOK, RowsOK
<1>3. RowsOK(rows)
  BY <1>1, <1>2, SetRow
<1>4. Live(j)
  BY DEF OwnsLease, Live, IsLive
<1>5. rows[j] = row /\ \A k \in Jobs \ {j} : rows[k] = job[k]
  BY <1>1, <1>2
<1>6. Return(r, rows)
  OBVIOUS
<1> HIDE DEF rows
<1>7. \A k \in Jobs :
         \/ rows[k] = job[k]
         \/ /\ Live(k) /\ rows[k].status # "none" /\ SameWork(job[k], rows[k])
            /\ rows[k].owner \in {job[k].owner, NoRunner}
  BY <1>4, <1>5
<1>8. QED
  BY <1>3, <1>6, <1>7, ReturnMoves

LEMMA QuitMoves ==
    ASSUME TypeOK, NEW r \in Runners, Return(r, job)
    PROVE  Moves
<1>1. RowsOK(job)
  BY DEF TypeOK, RowsOK
<1>2. QED
  BY <1>1, ReturnMoves

LEMMA UpdateMoves ==
    ASSUME TypeOK, NEW r \in Runners, runner[r].pc # "idle",
           NEW row \in JobRows, row.status # "none", row.owner = NoRunner,
           row.status # "running", SameWork(job[runner[r].job], row),
           UpdateAndReturn(r, row)
    PROVE  Moves
<1>1. CASE OwnsLease(runner[r].job, r)
  <2>1. Return(r, [job EXCEPT ![runner[r].job] = row])
    BY <1>1 DEF UpdateAndReturn
  <2>2. QED
    BY <1>1, <2>1, EndMoves
<1>2. CASE ~OwnsLease(runner[r].job, r)
  BY <1>2, QuitMoves DEF UpdateAndReturn
<1>3. QED
  BY <1>1, <1>2

\* The steps that may end the run.
LEMMA ReturningMoves ==
    ASSUME TypeOK, NEW r \in Runners,
           Poll(r) \/ Complete(r) \/ Fail(r) \/ Cancel(r) \/ Requeue(r) \/ Crash(r)
    PROVE  Moves
<1> DEFINE j == runner[r].job
<1>1. runner[r].pc # "idle"
  BY DEF Poll, Complete, Fail, Cancel, Requeue, Crash
<1>2. j \in Jobs /\ job[j] \in JobRows
  BY <1>1, RunnerType, RowType
<1>3. {"assert", "cancel", "error poll"} \subseteq Owning /\ {"none", "other"} \subseteq Errors
  BY DEF Owning, Steps, Errors
<1>4. \A s \in Statuses :
         /\ To(job[j], s) \in JobRows /\ To(job[j], s).status = s
         /\ To(job[j], s).owner = NoRunner /\ SameWork(job[j], To(job[j], s))
  BY <1>2, ToType
<1>5. {"completed", "failed", "cancelled", "queued"} \subseteq Statuses
  BY DEF Statuses
<1>6. ASSUME Poll(r) PROVE Moves
  BY <1>1, <1>3, <1>6, QuitMoves, GiveUpMoves, GotoMoves DEF Poll
<1>7. ASSUME Complete(r) PROVE Moves
  <2>1. CASE Publishable(r)
    <3>1. Return(r, [job EXCEPT ![j] = To(job[j], "completed")])
      BY <1>2, <1>7, <2>1 DEF Complete, TypeOK
    <3>2. OwnsLease(j, r)
      BY <2>1 DEF Publishable
    <3>3. QED
      BY <1>1, <1>4, <1>5, <3>1, <3>2, EndMoves
  <2>2. CASE ~Publishable(r)
    BY <1>1, <1>3, <1>7, <2>2, GiveUpMoves DEF Complete, GotoError
  <2>3. QED
    BY <2>1, <2>2
<1>8. ASSUME Fail(r) PROVE Moves
  <2>1. PICK s \in {"failed", "cancelled"} : FailedRow(job[j]) = To(job[j], s)
    BY DEF FailedRow
  <2>2. UpdateAndReturn(r, To(job[j], s))
    BY <1>8, <2>1 DEF Fail
  <2>3. /\ To(job[j], s) \in JobRows /\ To(job[j], s).status = s
        /\ To(job[j], s).owner = NoRunner /\ SameWork(job[j], To(job[j], s))
    BY <1>4, <1>5
  <2>4. QED
    BY <1>1, <2>2, <2>3, UpdateMoves
<1>9. ASSUME Cancel(r) PROVE Moves
  <2> DEFINE row == [To(job[j], "cancelled") EXCEPT !.cancel = TRUE]
  <2>1. /\ row \in JobRows /\ row.status = "cancelled" /\ row.owner = NoRunner
        /\ SameWork(job[j], row)
    <3>1. PICK ended \in JobRows :
              /\ ended = To(job[j], "cancelled") /\ ended.status = "cancelled"
              /\ ended.owner = NoRunner /\ SameWork(job[j], ended)
      BY <1>4, <1>5
    <3>2. row = [ended EXCEPT !.cancel = TRUE]
      BY <3>1
    <3> HIDE DEF row
    <3>3. QED
      BY ONLY <3>1, <3>2 DEF JobRows, SameWork
  <2>2. UpdateAndReturn(r, row)
    BY <1>9 DEF Cancel
  <2> HIDE DEF row
  <2>3. QED
    BY <1>1, <2>1, <2>2, UpdateMoves
<1>10. ASSUME Requeue(r) PROVE Moves
  <2>1. PICK s \in {"queued", "cancelled"} : RequeuedRow(job[j]) = To(job[j], s)
    BY DEF RequeuedRow
  <2>2. UpdateAndReturn(r, To(job[j], s))
    BY <1>10, <2>1 DEF Requeue
  <2>3. QED
    BY <1>1, <1>4, <1>5, <2>2, UpdateMoves
<1>11. ASSUME Crash(r) PROVE Moves
  BY <1>11, QuitMoves DEF Crash
<1>12. QED
  BY <1>6, <1>7, <1>8, <1>9, <1>10, <1>11

LEMMA WorldMoves ==
    ASSUME TypeOK,
           \/ Overwrite \/ MoveAway \/ MoveBack \/ Observe
           \/ PublishScan \/ PublishDelta \/ ExcludeFile \/ ExcludeOther
    PROVE  Moves
<1>0. RowsOK(job) /\ RunnersOK(runner)
  BY DEF TypeOK, RowsOK, RunnersOK
<1>1. ASSUME Overwrite PROVE Moves
  <2>1. disk.version + 1 \in Versions
    <3>1. disk.version \in Versions
      BY DEF TypeOK
    <3>2. disk.version \in Nat /\ disk.version >= 1 /\ disk.version < MaxVersion
      BY <1>1, <3>1, Bounds DEF Overwrite, Versions
    <3>3. QED
      BY <3>2, Bounds DEF Versions
  <2>2. ASSUME NEW r \in Runners
        PROVE  /\ runner'[r] \in RunnerStates
               /\ runner'[r].pc = runner[r].pc /\ runner'[r].job = runner[r].job
    <3>1. runner[r] \in RunnerStates
      BY RunnerType
    <3>2. runner'[r] = IF runner[r].handle = Absent THEN runner[r]
                       ELSE [runner[r] EXCEPT !.handle = disk.version + 1]
      BY <1>1 DEF Overwrite
    <3>3. QED
      BY <2>1, <3>1, <3>2 DEF RunnerStates
  <2>3. runner' = [r \in Runners |-> runner'[r]]
    BY <1>1 DEF Overwrite
  <2>4. RunnersOK(runner')
    BY <1>0, <2>2, <2>3 DEF RunnersOK
  <2>5. \A r \in Runners : RunnerMove(r)
    BY <2>2 DEF RunnerMove
  <2>6. QED
    BY <1>1, <2>4, <2>5, NoRowMoves DEF Overwrite
<1>2. ASSUME MoveAway \/ MoveBack \/ Observe \/ PublishScan \/ PublishDelta PROVE Moves
  <2>1. UNCHANGED <<job, runner>>
    BY <1>2 DEF MoveAway, MoveBack, Observe, PublishScan, PublishDelta
  <2>2. QED
    BY <1>0, <2>1, NoRunnerMoves DEF Move
<1>3. ASSUME ExcludeFile PROVE Moves
  <2>1. job' = [j \in Jobs |-> NoJob] /\ UNCHANGED runner
    BY <1>3 DEF ExcludeFile
  <2>2. RowsOK(job')
    BY <2>1, NoJobType DEF RowsOK
  <2>3. QED
    BY <1>3, <2>1, <2>2, NoRunnerMoves
<1>4. ASSUME ExcludeOther PROVE Moves
  <2>1. job' = PurgeJobs(job) /\ UNCHANGED runner
    BY <1>4 DEF ExcludeOther
  <2>2. ASSUME NEW j \in Jobs
        PROVE  /\ job'[j] \in JobRows
               /\ (job'[j].owner # NoRunner) <=> (job'[j].status = "running")
               /\ Move(j)
    <3>1. job[j] \in JobRows /\ ((job[j].owner # NoRunner) <=> (job[j].status = "running"))
      BY DEF TypeOK
    <3>2. CASE Live(j)
      <4>1. job'[j] = [To(job[j], "cancelled") EXCEPT !.cancel = TRUE]
        BY <2>1, <3>2 DEF PurgeJobs, CancelledByPolicy, Live
      <4>2. "cancelled" \in Statuses
        BY DEF Statuses
      <4>3. /\ To(job[j], "cancelled") \in JobRows
            /\ To(job[j], "cancelled").status = "cancelled"
            /\ To(job[j], "cancelled").owner = NoRunner
            /\ SameWork(job[j], To(job[j], "cancelled"))
        BY <3>1, <4>2, ToType
      <4>4. /\ job'[j] \in JobRows /\ job'[j].status = "cancelled"
            /\ job'[j].owner = NoRunner /\ SameWork(job[j], job'[j])
        BY <4>1, <4>3 DEF JobRows, SameWork
      <4>5. QED
        BY <3>2, <4>4, RunnersAssumption DEF Move, Moved, RunnersAssumption
    <3>3. CASE ~Live(j)
      <4>1. job'[j] = job[j]
        BY <2>1, <3>3 DEF PurgeJobs, Live
      <4>2. QED
        BY <3>1, <4>1 DEF Move
    <3>4. QED
      BY <3>2, <3>3
  <2>3. job' = [j \in Jobs |-> job'[j]]
    BY <2>1 DEF PurgeJobs
  <2>4. RowsOK(job')
    BY <2>2, <2>3 DEF RowsOK
  <2>5. QED
    BY <2>1, <2>2, <2>4, NoRunnerMoves
<1>5. QED
  BY <1>1, <1>2, <1>3, <1>4

LEMMA NextMoves == ASSUME TypeOK, Next PROVE Moves
BY UserMoves, BeginMoves, ClaimMoves, AttemptMoves, ReturningMoves, WorldMoves
   DEF Next, RunnerStep

-----------------------------------------------------------------------------
(* Type correctness *)

WorldType ==
    /\ disk \in [version : Versions, present : BOOLEAN]
    /\ observed \in Versions \cup {Absent}
    /\ manifest \in Versions \cup {Absent}
    /\ policy \in [revision : 1 .. MaxRevision, excluded : BOOLEAN]
    /\ content \in [Operations -> Texts]
    /\ faults \in 0 .. MaxFaults

LEMMA TypeParts == TypeOK <=> WorldType /\ RowsOK(job) /\ RunnersOK(runner)
BY DEF TypeOK, WorldType, RowsOK, RunnersOK

LEMMA NothingType == Nothing \in [Operations -> Texts] /\ NoText \in Texts
BY Bounds DEF Nothing, NoText, Texts

\* Users, runners and the clock leave the file, its row and the policy alone.
LEMMA NextWorld ==
    ASSUME TypeOK, Next
    PROVE  WorldType'
<1>0. WorldType
  BY TypeParts
<1>1. ASSUME UNCHANGED <<disk, observed, manifest, policy, content>>, faults' \in {faults, faults + 1},
             faults' = faults \/ faults < MaxFaults
      PROVE  WorldType'
  BY <1>0, <1>1, Bounds DEF WorldType
<1>2. ASSUME \/ \E o \in Operations : Create(o)
             \/ \E j \in Jobs : RequestCancel(j) \/ Resume(j) \/ Expire(j)
             \/ RecoverExpired
      PROVE  WorldType'
  BY <1>0, <1>2 DEF WorldType, world, Create, RequestCancel, Resume, Expire, RecoverExpired
<1>3. ASSUME NEW r \in Runners, NEW j \in Jobs, Begin(r, j) PROVE WorldType'
  BY <1>0, <1>3 DEF WorldType, world, Begin
<1>4. ASSUME NEW r \in Runners,
             \/ Claim(r) \/ Open(r) \/ Read(r) \/ Recheck(r) \/ Poll(r) \/ AssertPolicy(r)
             \/ ErrorPoll(r)
      PROVE  WorldType'
  <2>1. UNCHANGED <<world, manifest, policy, content, faults>>
    BY <1>4 DEF Claim, Open, Read, Recheck, Poll, AssertPolicy, ErrorPoll
  <2>2. QED
    BY <1>0, <2>1 DEF WorldType, world
<1>5. ASSUME NEW r \in Runners, Complete(r) PROVE WorldType'
  <2>1. CASE Publishable(r)
    <3>1. runner[r] \in RunnerStates /\ runner[r].job \in Jobs
      BY <1>5, RunnerType DEF Complete
    <3>2. [job |-> runner[r].job, text |-> runner[r].text] \in Texts
      BY <3>1, Bounds DEF RunnerStates, Texts
    <3>3. /\ content' = [content EXCEPT ![job[runner[r].job].operation] =
                           [job |-> runner[r].job, text |-> runner[r].text]]
          /\ UNCHANGED <<world, manifest, policy, faults>>
      BY <1>5, <2>1 DEF Complete
    <3>4. content' \in [Operations -> Texts]
      BY <1>0, <3>2, <3>3 DEF WorldType
    <3>5. QED
      BY <1>0, <3>3, <3>4 DEF WorldType, world
  <2>2. CASE ~Publishable(r)
    BY <1>0, <1>5, <2>2 DEF Complete, WorldType, world
  <2>3. QED
    BY <2>1, <2>2
<1>6. ASSUME NEW r \in Runners, Invalidate(r) PROVE WorldType'
  BY <1>0, <1>6, NothingType DEF Invalidate, WorldType, world
<1>7. ASSUME NEW r \in Runners, Fail(r) \/ Cancel(r) \/ Requeue(r) PROVE WorldType'
  BY <1>0, <1>7 DEF Fail, Cancel, Requeue, UpdateAndReturn, WorldType, world
<1>8. ASSUME NEW r \in Runners, PollFails(r) \/ Crash(r) PROVE WorldType'
  BY <1>1, <1>8 DEF PollFails, Crash, world
<1>9. ASSUME Overwrite PROVE WorldType'
  <2>1. disk.version \in Versions
    BY <1>0 DEF WorldType
  <2>2. disk.version + 1 \in Versions
    BY <1>9, <2>1, Bounds DEF Overwrite, Versions
  <2>3. disk' = [disk EXCEPT !.version = disk.version + 1]
    BY <1>9 DEF Overwrite
  <2>4. QED
    BY <1>0, <1>9, <2>2, <2>3 DEF Overwrite, WorldType
<1>10. ASSUME MoveAway \/ MoveBack PROVE WorldType'
  BY <1>0, <1>10 DEF MoveAway, MoveBack, WorldType
<1>11. ASSUME Observe PROVE WorldType'
  BY <1>0, <1>11 DEF Observe, WorldType
<1>12. ASSUME PublishScan PROVE WorldType'
  <2>1. content' \in [Operations -> Texts]
    BY <1>0, <1>12, NothingType DEF PublishScan, WorldType
  <2>2. QED
    BY <1>0, <1>12, <2>1 DEF PublishScan, WorldType, world
<1>13. ASSUME PublishDelta PROVE WorldType'
  BY <1>0, <1>13, NothingType DEF PublishDelta, WorldType, world
<1>14. ASSUME ExcludeFile PROVE WorldType'
  BY <1>0, <1>14, NothingType, Bounds DEF ExcludeFile, WorldType, world
<1>15. ASSUME ExcludeOther PROVE WorldType'
  BY <1>0, <1>15, Bounds DEF ExcludeOther, WorldType, world
<1>16. QED
  BY <1>2, <1>3, <1>4, <1>5, <1>6, <1>7, <1>8, <1>9, <1>10, <1>11, <1>12, <1>13, <1>14, <1>15
     DEF Next, RunnerStep

LEMMA NextType == TypeOK /\ [Next]_vars => TypeOK'
<1>1. ASSUME TypeOK, Next PROVE TypeOK'
  <2>1. RowsOK(job') /\ RunnersOK(runner')
    BY <1>1, NextMoves DEF Moves
  <2>2. WorldType'
    BY <1>1, NextWorld
  <2>3. QED
    BY <2>1, <2>2 DEF TypeOK, WorldType, RowsOK, RunnersOK
<1>2. ASSUME TypeOK, UNCHANGED vars PROVE TypeOK'
  BY <1>2 DEF TypeOK, vars
<1>3. QED
  BY <1>1, <1>2

LEMMA InitType == Init => TypeOK
<1> SUFFICES ASSUME Init PROVE TypeOK
  OBVIOUS
<1>1. WorldType
  BY NothingType, Bounds DEF Init, WorldType
<1>2. RowsOK(job)
  BY NoJobType DEF Init, RowsOK
<1>3. RunnersOK(runner)
  BY IdleType DEF Init, RunnersOK
<1>4. QED
  BY <1>1, <1>2, <1>3, TypeParts

(* Every variable keeps its type, for any number of jobs, runners, versions *)
(* and revisions; a row has a token exactly while its job runs.             *)
THEOREM TypeCorrect == Spec => []TypeOK
BY InitType, NextType, PTL DEF Spec

-----------------------------------------------------------------------------
(* Live jobs, their owners, and final rows *)

\* A runner whose token is on a row is past its claim of that very job.
Owners ==
    \A j \in Jobs, r \in Runners :
        job[j].owner = r => runner[r].job = j /\ runner[r].pc \in Owning

Rows == LiveJobIsCurrent /\ Owners

LEMMA NextOwners ==
    ASSUME TypeOK, Owners, Next
    PROVE  Owners'
<1> SUFFICES ASSUME NEW j \in Jobs, NEW r \in Runners, job'[j].owner = r
             PROVE  runner'[r].job = j /\ runner'[r].pc \in Owning
  BY DEF Owners
<1>1. RunnerMove(r) /\ (ExcludeFile \/ Move(j))
  BY NextMoves DEF Moves
<1>2. r # NoRunner
  BY RunnersAssumption DEF RunnersAssumption
<1>3. \/ job[j].owner = r
      \/ runner'[r].job = j /\ runner'[r].pc = "open"
  <2>1. CASE ExcludeFile
    BY <1>2, <2>1, NoJobType DEF ExcludeFile
  <2>2. CASE Move(j)
    BY <1>2, <2>2 DEF Move, Created, Moved
  <2>3. QED
    BY <1>1, <2>1, <2>2
<1>4. CASE job[j].owner = r
  <2>1. runner[r].job = j /\ runner[r].pc \in Owning
    BY <1>4 DEF Owners
  <2>2. runner[r].pc # "idle"
    BY <2>1 DEF Owning
  <2>3. QED
    BY <1>1, <2>1, <2>2 DEF RunnerMove
<1>5. QED
  BY <1>3, <1>4 DEF Owning, Steps, Fenced

LEMMA PolicySteps ==
    ASSUME Next, policy' # policy
    PROVE  ExcludeFile \/ ExcludeOther
BY DEF Next, RunnerStep, Create, RequestCancel, Resume, Expire, RecoverExpired, Begin, Claim,
       Open, Read, PollFails, Recheck, Poll, AssertPolicy, Complete, ErrorPoll, Invalidate,
       Fail, Cancel, Requeue, UpdateAndReturn, Crash, Overwrite, MoveAway, MoveBack, Observe,
       PublishScan, PublishDelta

LEMMA NextCurrent ==
    ASSUME TypeOK, LiveJobIsCurrent, Next
    PROVE  LiveJobIsCurrent'
<1>1. ASSUME ExcludeFile, NEW j \in Jobs PROVE ~IsLive(job'[j])
  BY <1>1, NoJobType DEF ExcludeFile, IsLive
<1>2. ASSUME ExcludeOther, NEW j \in Jobs PROVE ~IsLive(job'[j])
  <2>1. job'[j] = IF IsLive(job[j]) THEN [To(job[j], "cancelled") EXCEPT !.cancel = TRUE] ELSE job[j]
    BY <1>2 DEF ExcludeOther, PurgeJobs, CancelledByPolicy
  <2>2. job[j] \in JobRows
    BY DEF TypeOK
  <2>3. QED
    BY <2>1, <2>2 DEF IsLive, To, Unowned, JobRows
<1>3. CASE ~ExcludeFile /\ ~ExcludeOther
  <2>1. policy' = policy
    BY <1>3, PolicySteps
  <2>2. \A j \in Jobs : Move(j)
    BY <1>3, NextMoves DEF Moves
  <2>3. ASSUME NEW j \in Jobs, IsLive(job'[j])
        PROVE  /\ job'[j].revision = policy.revision
               /\ Live(j) \/ Created(j)
    <3>1. Move(j)
      BY <2>2
    <3>2. QED
      BY <2>3, <3>1 DEF Move, Moved, Created, SameWork, LiveJobIsCurrent, Live
  <2>4. ASSUME NEW j \in Jobs, IsLive(job'[j]), NEW k \in Jobs, IsLive(job'[k])
        PROVE  k = j
    BY <2>3, <2>4 DEF Created, LiveJobIsCurrent, Live
  <2>5. QED
    BY <2>1, <2>3, <2>4 DEF LiveJobIsCurrent, Live
<1>4. QED
  BY <1>1, <1>2, <1>3 DEF LiveJobIsCurrent, Live

LEMMA RowsHold == Spec => []Rows
<1>1. Init => Rows
  BY NoJobType, RunnersAssumption
     DEF Init, Rows, LiveJobIsCurrent, Live, IsLive, Owners, RunnersAssumption
<1>2. TypeOK /\ Rows /\ [Next]_vars => Rows'
  <2>1. ASSUME TypeOK, Rows, Next PROVE Rows'
    BY <2>1, NextOwners, NextCurrent DEF Rows
  <2>2. ASSUME Rows, UNCHANGED vars PROVE Rows'
    BY <2>2 DEF Rows, LiveJobIsCurrent, Live, Owners, vars
  <2>3. QED
    BY <2>1, <2>2
<1>3. QED
  BY <1>1, <1>2, TypeCorrect, PTL DEF Spec

(* No policy change leaves a live job with an old revision, and no two jobs *)
(* of the file are ever live.                                               *)
THEOREM LiveJobsAreCurrent == Spec => []LiveJobIsCurrent
BY RowsHold, PTL DEF Rows

(* Late failures, cancellations, recoveries and policy changes leave a      *)
(* finished row as it is; only a purge deletes it.                          *)
THEOREM FinalRowsStay == Spec => FinalStaysFinal
<1>1. ASSUME TypeOK, [Next]_vars, NEW j \in Jobs, job[j].status \in Final
      PROVE  job'[j] \in {job[j], NoJob}
  <2>1. CASE Next
    <3>1. CASE ExcludeFile
      BY <3>1 DEF ExcludeFile
    <3>2. CASE Move(j)
      BY <1>1, <3>2 DEF Move, Created, Moved, Live, IsLive, Final
    <3>3. QED
      BY <1>1, <2>1, <3>1, <3>2, NextMoves DEF Moves
  <2>2. CASE UNCHANGED vars
    BY <2>2 DEF vars
  <2>3. QED
    BY <1>1, <2>1, <2>2
<1>2. TypeOK /\ [Next]_vars =>
         [\A j \in Jobs : job[j].status \in Final => job'[j] \in {job[j], NoJob}]_vars
  BY <1>1
<1>3. QED
  BY <1>2, TypeCorrect, PTL DEF Spec, FinalStaysFinal

-----------------------------------------------------------------------------
(* What a runner has read *)

Before == {"idle", "claim", "open", "error poll", "invalidate", "fail", "cancel", "requeue"}
Holding == {"poll", "assert", "complete"}

\* What a step may do to a runner's handle and text.
ReadMove(r) ==
    \/ /\ runner'[r].pc \in Before
       /\ runner'[r].handle \in {Absent, runner[r].handle}
       /\ disk'.version = disk.version
    \/ /\ runner'[r].pc = runner[r].pc /\ runner'[r].text = runner[r].text
       /\ runner'[r].handle = runner[r].handle
       /\ disk'.version = disk.version
    \/ /\ runner'[r].pc = runner[r].pc /\ runner'[r].text = runner[r].text
       /\ disk'.version = disk.version + 1
       /\ runner'[r].handle = IF runner[r].handle = Absent THEN Absent ELSE disk.version + 1
    \/ /\ runner'[r].pc = "read" /\ runner'[r].handle = disk.version
       /\ disk.version = job[runner[r].job].version
       /\ disk'.version = disk.version
    \/ /\ runner[r].pc = "read" /\ runner'[r].pc = "recheck"
       /\ runner'[r].handle = runner[r].handle /\ runner'[r].text = runner[r].handle
       /\ disk'.version = disk.version
    \/ /\ runner[r].pc = "recheck" /\ runner'[r].pc = "poll"
       /\ runner[r].handle = job[runner[r].job].version
       /\ runner'[r].handle = Absent /\ runner'[r].text = runner[r].text
       /\ disk'.version = disk.version
    \/ /\ runner[r].pc \in Holding /\ runner'[r].pc \in Holding
       /\ runner'[r].handle = runner[r].handle /\ runner'[r].text = runner[r].text
       /\ disk'.version = disk.version

Reads == \A r \in Runners : ReadMove(r)

LEMMA StillReads == ASSUME UNCHANGED <<runner, disk>> PROVE Reads
BY DEF Reads, ReadMove

\* A step of one runner is none of the others.
LEMMA OtherReads ==
    ASSUME TypeOK, NEW r \in Runners, NEW state, runner' = [runner EXCEPT ![r] = state],
           UNCHANGED disk, ReadMove(r)
    PROVE  Reads
<1>1. \A s \in Runners \ {r} : runner'[s] = runner[s]
  BY DEF TypeOK
<1>2. QED
  BY <1>1 DEF Reads, ReadMove

LEMMA BackReads ==
    ASSUME TypeOK, NEW r \in Runners, NEW state, runner' = [runner EXCEPT ![r] = state],
           UNCHANGED disk, state.pc \in Before, state.handle \in {Absent, runner[r].handle}
    PROVE  Reads
<1>1. runner'[r] = state
  BY DEF TypeOK
<1>2. ReadMove(r)
  BY <1>1 DEF ReadMove
<1>3. QED
  BY <1>2, OtherReads

LEMMA ReturnReads ==
    ASSUME TypeOK, NEW r \in Runners, NEW rows, Return(r, rows), UNCHANGED disk
    PROVE  Reads
<1>1. Idle.pc \in Before /\ Idle.handle = Absent
  BY DEF Idle, Before
<1>2. runner' = [runner EXCEPT ![r] = Idle]
  BY DEF Return
<1>3. QED
  BY <1>1, <1>2, BackReads

LEMMA GiveUpReads ==
    ASSUME TypeOK, NEW r \in Runners, NEW step \in Before, NEW error,
           GiveUp(r, step, error), UNCHANGED disk
    PROVE  Reads
<1> DEFINE new == [Idle EXCEPT !.pc = step, !.job = runner[r].job, !.error = error]
<1>1. new.pc = step /\ new.handle = Absent
  BY DEF Idle
<1>2. runner' = [runner EXCEPT ![r] = new]
  BY DEF GiveUp
<1> HIDE DEF new
<1>3. QED
  BY <1>1, <1>2, BackReads

LEMMA GotoReads ==
    ASSUME TypeOK, NEW r \in Runners, NEW step, Goto(r, step), UNCHANGED disk,
           step \in Before \/ (runner[r].pc \in Holding /\ step \in Holding)
    PROVE  Reads
<1> DEFINE new == [runner[r] EXCEPT !.pc = step]
<1>1. runner[r] \in RunnerStates
  BY RunnerType
<1>2. new.pc = step /\ new.handle = runner[r].handle /\ new.text = runner[r].text
  BY <1>1 DEF RunnerStates
<1>3. runner' = [runner EXCEPT ![r] = new] /\ runner'[r] = new
  BY DEF Goto, TypeOK
<1> HIDE DEF new
<1>4. ReadMove(r)
  BY <1>2, <1>3 DEF ReadMove
<1>5. QED
  BY <1>3, <1>4, OtherReads

LEMMA NextReads ==
    ASSUME TypeOK, Next
    PROVE  Reads
<1>0. {"error poll", "invalidate", "fail", "cancel", "requeue", "open", "claim"} \subseteq Before
  BY DEF Before
<1>1. ASSUME \/ \E o \in Operations : Create(o)
             \/ \E j \in Jobs : RequestCancel(j) \/ Resume(j) \/ Expire(j)
             \/ RecoverExpired
      PROVE  Reads
  BY <1>1, StillReads DEF world, Create, RequestCancel, Resume, Expire, RecoverExpired
<1>2. ASSUME NEW r \in Runners, NEW j \in Jobs, Begin(r, j) PROVE Reads
  <2> DEFINE new == [Idle EXCEPT !.pc = "claim", !.job = j, !.revision = policy.revision]
  <2>1. new.pc = "claim" /\ new.handle = Absent
    BY DEF Idle
  <2>2. runner' = [runner EXCEPT ![r] = new] /\ UNCHANGED disk
    BY <1>2 DEF Begin, world
  <2> HIDE DEF new
  <2>3. QED
    BY <1>0, <2>1, <2>2, BackReads
<1>3. ASSUME NEW r \in Runners, Claim(r) PROVE Reads
  <2>1. UNCHANGED disk /\ (Goto(r, "open") \/ Return(r, Recovered))
    BY <1>3 DEF Claim, world
  <2>2. QED
    BY <1>0, <2>1, GotoReads, ReturnReads
<1>4. ASSUME NEW r \in Runners, Open(r) PROVE Reads
  <2>1. UNCHANGED disk
    BY <1>4 DEF Open, world
  <2>2. CASE GotoError(r, "other") \/ GotoError(r, "source")
    BY <1>0, <2>1, <2>2, GiveUpReads DEF GotoError
  <2>3. CASE /\ disk = [version |-> job[runner[r].job].version, present |-> TRUE]
             /\ runner' = [runner EXCEPT ![r] = [@ EXCEPT !.pc = "read", !.handle = disk.version]]
    <3> DEFINE new == [runner[r] EXCEPT !.pc = "read", !.handle = disk.version]
    <3>1. runner[r] \in RunnerStates
      BY RunnerType
    <3>2. new.pc = "read" /\ new.handle = disk.version
      BY <3>1 DEF RunnerStates
    <3>3. runner' = [runner EXCEPT ![r] = new] /\ runner'[r] = new
      BY <2>3 DEF TypeOK
    <3> HIDE DEF new
    <3>4. disk.version = job[runner[r].job].version
      BY <2>3
    <3>5. ReadMove(r)
      BY <2>1, <3>2, <3>3, <3>4 DEF ReadMove
    <3>6. QED
      BY <2>1, <3>3, <3>5, OtherReads
  <2>4. QED
    BY <1>4, <2>2, <2>3 DEF Open
<1>5. ASSUME NEW r \in Runners, Read(r) PROVE Reads
  <2>1. UNCHANGED disk /\ runner[r].pc = "read"
    BY <1>5 DEF Read, world
  <2>2. CASE runner' = [runner EXCEPT ![r] = [@ EXCEPT !.pc = "recheck", !.text = runner[r].handle]]
    <3> DEFINE new == [runner[r] EXCEPT !.pc = "recheck", !.text = runner[r].handle]
    <3>1. runner[r] \in RunnerStates
      BY RunnerType
    <3>2. new.pc = "recheck" /\ new.handle = runner[r].handle /\ new.text = runner[r].handle
      BY <3>1 DEF RunnerStates
    <3>3. runner' = [runner EXCEPT ![r] = new] /\ runner'[r] = new
      BY <2>2 DEF TypeOK
    <3> HIDE DEF new
    <3>4. ReadMove(r)
      BY <2>1, <3>2, <3>3 DEF ReadMove
    <3>5. QED
      BY <2>1, <3>3, <3>4, OtherReads
  <2>3. CASE \/ GotoError(r, "cancelled") \/ GotoError(r, "source") \/ GotoError(r, "other")
             \/ GiveUp(r, "requeue", "none")
    BY <1>0, <2>1, <2>3, GiveUpReads DEF GotoError
  <2>4. QED
    BY <1>5, <2>2, <2>3 DEF Read
<1>6. ASSUME NEW r \in Runners, PollFails(r) PROVE Reads
  <2>1. UNCHANGED disk /\ \E error \in Errors : GotoError(r, error)
    BY <1>6 DEF PollFails, world, Errors
  <2>2. QED
    BY <1>0, <2>1, GiveUpReads DEF GotoError
<1>7. ASSUME NEW r \in Runners, Recheck(r) PROVE Reads
  <2>1. UNCHANGED disk /\ runner[r].pc = "recheck"
    BY <1>7 DEF Recheck, world
  <2>2. CASE /\ runner[r].handle = job[runner[r].job].version
             /\ runner' = [runner EXCEPT ![r] = [@ EXCEPT !.pc = "poll", !.handle = Absent]]
    <3> DEFINE new == [runner[r] EXCEPT !.pc = "poll", !.handle = Absent]
    <3>1. runner[r] \in RunnerStates
      BY RunnerType
    <3>2. new.pc = "poll" /\ new.handle = Absent /\ new.text = runner[r].text
      BY <3>1 DEF RunnerStates
    <3>3. runner' = [runner EXCEPT ![r] = new] /\ runner'[r] = new
      BY <2>2 DEF TypeOK
    <3> HIDE DEF new
    <3>4. ReadMove(r)
      BY <2>1, <2>2, <3>2, <3>3 DEF ReadMove
    <3>5. QED
      BY <2>1, <3>3, <3>4, OtherReads
  <2>3. CASE GotoError(r, "source")
    BY <1>0, <2>1, <2>3, GiveUpReads DEF GotoError
  <2>4. QED
    BY <1>7, <2>2, <2>3 DEF Recheck
<1>8. ASSUME NEW r \in Runners, Poll(r) PROVE Reads
  <2>1. UNCHANGED disk /\ runner[r].pc = "poll"
    BY <1>8 DEF Poll, world
  <2>2. Return(r, job) \/ GiveUp(r, "cancel", "none") \/ Goto(r, "assert")
    BY <1>8 DEF Poll
  <2>3. QED
    BY <1>0, <2>1, <2>2, ReturnReads, GiveUpReads, GotoReads DEF Holding
<1>9. ASSUME NEW r \in Runners, AssertPolicy(r) PROVE Reads
  <2>1. UNCHANGED disk /\ runner[r].pc = "assert"
    BY <1>9 DEF AssertPolicy, world
  <2>2. GiveUp(r, "fail", "none") \/ Goto(r, "complete")
    BY <1>9 DEF AssertPolicy
  <2>3. QED
    BY <1>0, <2>1, <2>2, GiveUpReads, GotoReads DEF Holding
<1>10. ASSUME NEW r \in Runners, Complete(r) PROVE Reads
  <2>1. UNCHANGED disk
    BY <1>10 DEF Complete, world
  <2>2. (\E rows : Return(r, rows)) \/ GiveUp(r, "error poll", "other")
    BY <1>10 DEF Complete, GotoError
  <2>3. QED
    BY <1>0, <2>1, <2>2, ReturnReads, GiveUpReads
<1>11. ASSUME NEW r \in Runners, ErrorPoll(r) PROVE Reads
  <2>1. UNCHANGED disk
    BY <1>11 DEF ErrorPoll, world
  <2>2. PICK step \in {"cancel", "invalidate", "fail"} : GiveUp(r, step, "none")
    BY <1>11 DEF ErrorPoll
  <2>3. QED
    BY <1>0, <2>1, <2>2, GiveUpReads
<1>12. ASSUME NEW r \in Runners, Invalidate(r) PROVE Reads
  BY <1>0, <1>12, GotoReads DEF Invalidate, world
<1>13. ASSUME NEW r \in Runners, Fail(r) \/ Cancel(r) \/ Requeue(r) \/ Crash(r) PROVE Reads
  <2>1. UNCHANGED disk /\ \E rows : Return(r, rows)
    BY <1>13 DEF Fail, Cancel, Requeue, UpdateAndReturn, Crash, world
  <2>2. QED
    BY <2>1, ReturnReads
<1>14. ASSUME Overwrite PROVE Reads
  <2>1. disk' = [disk EXCEPT !.version = disk.version + 1]
    BY <1>14 DEF Overwrite
  <2>2. disk'.version = disk.version + 1
    BY <2>1 DEF TypeOK
  <2>3. ASSUME NEW r \in Runners PROVE ReadMove(r)
    <3>1. runner[r] \in RunnerStates
      BY RunnerType
    <3>2. runner'[r] = IF runner[r].handle = Absent THEN runner[r]
                       ELSE [runner[r] EXCEPT !.handle = disk.version + 1]
      BY <1>14 DEF Overwrite
    <3>3. QED
      BY <2>2, <3>1, <3>2 DEF ReadMove, RunnerStates
  <2>4. QED
    BY <2>3 DEF Reads
<1>15. ASSUME MoveAway \/ MoveBack PROVE Reads
  <2>1. disk'.version = disk.version /\ UNCHANGED runner
    BY <1>15 DEF MoveAway, MoveBack, TypeOK
  <2>2. QED
    BY <2>1 DEF Reads, ReadMove
<1>16. ASSUME Observe \/ PublishScan \/ PublishDelta \/ ExcludeFile \/ ExcludeOther PROVE Reads
  BY <1>16, StillReads DEF world, Observe, PublishScan, PublishDelta, ExcludeFile, ExcludeOther
<1>17. QED
  BY <1>1, <1>2, <1>3, <1>4, <1>5, <1>6, <1>7, <1>8, <1>9, <1>10, <1>11, <1>12, <1>13, <1>14,
     <1>15, <1>16
     DEF Next, RunnerStep

\* A handle is never ahead of the file.  What an owner has read is a text
\* between the version of its job and the one its handle shows, and after the
\* recheck it is the job's: the file only moves on, so equal ends leave
\* nothing between them.
Reading ==
    /\ \A r \in Runners : runner[r].handle # Absent => runner[r].handle <= disk.version
    /\ \A j \in Jobs, r \in Runners : job[j].owner = r =>
          /\ runner[r].pc \in {"read", "recheck"} =>
                /\ runner[r].handle \in Versions /\ job[j].version \in Versions
                /\ job[j].version <= runner[r].handle
          /\ runner[r].pc = "recheck" =>
                /\ runner[r].text \in Versions
                /\ job[j].version <= runner[r].text /\ runner[r].text <= runner[r].handle
          /\ runner[r].pc \in Holding =>
                runner[r].text = job[j].version /\ job[j].version \in Versions

LEMMA OwnerStays ==
    ASSUME TypeOK, Owners, Next, NEW j \in Jobs, NEW r \in Runners, job'[j].owner = r
    PROVE  \/ runner'[r].pc = "open"
           \/ /\ job[j].owner = r /\ job'[j].version = job[j].version
              /\ runner[r].job = j
<1>1. ExcludeFile \/ Move(j)
  BY NextMoves DEF Moves
<1>2. r # NoRunner
  BY RunnersAssumption DEF RunnersAssumption
<1>3. CASE ExcludeFile
  BY <1>2, <1>3, NoJobType DEF ExcludeFile
<1>4. CASE Move(j)
  BY <1>2, <1>4 DEF Move, Created, Moved, SameWork, Owners
<1>5. QED
  BY <1>1, <1>3, <1>4

LEMMA NextReading ==
    ASSUME TypeOK, Owners, Reading, Next
    PROVE  Reading'
<1>0. /\ disk.version \in Versions /\ disk.version \in Nat
      /\ Absent \notin Versions /\ \A v \in Versions : v \in Nat
  BY Bounds DEF TypeOK
<1>1. ASSUME NEW r \in Runners, runner'[r].handle # Absent
      PROVE  runner'[r].handle <= disk'.version
  <2>1. runner[r].handle = Absent \/ runner[r].handle \in Nat
    BY <1>0, RunnerType DEF RunnerStates
  <2>2. ReadMove(r)
    BY NextReads DEF Reads
  <2>3. runner[r].handle # Absent => runner[r].handle <= disk.version
    BY DEF Reading
  <2>4. QED
    BY <1>0, <1>1, <2>1, <2>2, <2>3 DEF ReadMove
<1>2. ASSUME NEW j \in Jobs, NEW r \in Runners, job'[j].owner = r
      PROVE  /\ runner'[r].pc \in {"read", "recheck"} =>
                   /\ runner'[r].handle \in Versions /\ job'[j].version \in Versions
                   /\ job'[j].version <= runner'[r].handle
             /\ runner'[r].pc = "recheck" =>
                   /\ runner'[r].text \in Versions
                   /\ job'[j].version <= runner'[r].text /\ runner'[r].text <= runner'[r].handle
             /\ runner'[r].pc \in Holding =>
                   runner'[r].text = job'[j].version /\ job'[j].version \in Versions
  <2>1. CASE runner'[r].pc = "open"
    BY <2>1 DEF Holding
  <2>2. CASE job[j].owner = r /\ job'[j].version = job[j].version /\ runner[r].job = j
    <3>1. runner[r].handle \in Versions \cup {Absent} /\ runner'[r].handle \in Versions \cup {Absent}
      <4>1. RunnersOK(runner')
        BY NextMoves DEF Moves
      <4>2. QED
        BY <4>1, RunnerType DEF RunnersOK, RunnerStates
    <3>2. runner[r].handle # Absent => runner[r].handle <= disk.version
      BY DEF Reading
    <3>3. /\ runner[r].pc \in {"read", "recheck"} =>
                /\ runner[r].handle \in Versions /\ job[j].version \in Versions
                /\ job[j].version <= runner[r].handle
          /\ runner[r].pc = "recheck" =>
                /\ runner[r].text \in Versions
                /\ job[j].version <= runner[r].text /\ runner[r].text <= runner[r].handle
          /\ runner[r].pc \in Holding =>
                runner[r].text = job[j].version /\ job[j].version \in Versions
      BY <2>2 DEF Reading
    <3>4. ReadMove(r)
      BY NextReads DEF Reads
    <3>5. CASE runner'[r].pc \in Before
      BY <3>5 DEF Before, Holding
    <3>6. CASE /\ runner'[r].pc = runner[r].pc /\ runner'[r].text = runner[r].text
               /\ runner'[r].handle \in {runner[r].handle, disk.version + 1}
               /\ runner[r].handle = Absent => runner'[r].handle = Absent
      <4>1. CASE runner[r].pc \in {"read", "recheck"}
        <5>1. /\ runner[r].handle \in Nat /\ runner'[r].handle \in Nat
              /\ job[j].version \in Nat /\ job[j].version <= runner[r].handle
              /\ runner[r].handle <= runner'[r].handle
              /\ runner[r].handle # Absent
          BY <1>0, <3>2, <3>3, <3>6, <4>1
        <5>2. runner'[r].handle # Absent
          BY <5>1, AbsentAssumption DEF AbsentAssumption
        <5>3. job[j].version <= runner'[r].handle /\ runner'[r].handle \in Versions
          BY <3>1, <5>1, <5>2
        <5>4. runner[r].pc = "recheck" =>
                 runner[r].text \in Nat /\ runner[r].text <= runner'[r].handle
          BY <1>0, <3>3, <5>1
        <5>5. QED
          BY <2>2, <3>3, <3>6, <4>1, <5>3, <5>4 DEF Holding
      <4>2. CASE runner[r].pc \notin {"read", "recheck"}
        BY <2>2, <3>3, <3>6, <4>2
      <4>3. QED
        BY <4>1, <4>2
    <3>7. CASE /\ runner'[r].pc = "read" /\ runner'[r].handle = disk.version
               /\ disk.version = job[runner[r].job].version
      BY <1>0, <2>2, <3>7 DEF Holding
    <3>8. CASE /\ runner[r].pc = "read" /\ runner'[r].pc = "recheck"
               /\ runner'[r].handle = runner[r].handle /\ runner'[r].text = runner[r].handle
      BY <1>0, <2>2, <3>3, <3>8 DEF Holding
    <3>9. CASE /\ runner[r].pc = "recheck" /\ runner'[r].pc = "poll"
               /\ runner[r].handle = job[runner[r].job].version
               /\ runner'[r].text = runner[r].text
      BY <1>0, <2>2, <3>3, <3>9 DEF Holding
    <3>10. CASE /\ runner[r].pc \in Holding /\ runner'[r].pc \in Holding
                /\ runner'[r].text = runner[r].text
      BY <2>2, <3>3, <3>10 DEF Holding
    <3>11. QED
      BY <3>4, <3>5, <3>6, <3>7, <3>8, <3>9, <3>10 DEF ReadMove
  <2>3. QED
    BY <1>2, <2>1, <2>2, OwnerStays
<1>3. QED
  BY <1>1, <1>2 DEF Reading

(* Whoever may publish holds exactly the text of the version its job is for, *)
(* although it was read outside any transaction from a file that changes.    *)
THEOREM ReadingHolds == Spec => []Reading
<1>1. Init => Reading
  BY NoJobType, RunnersAssumption DEF Init, Reading, Idle, RunnersAssumption
<1>2. TypeOK /\ Rows /\ Reading /\ [Next]_vars => Reading'
  <2>1. ASSUME TypeOK, Rows, Reading, Next PROVE Reading'
    BY <2>1, NextReading DEF Rows
  <2>2. ASSUME Reading, UNCHANGED vars PROVE Reading'
    BY <2>2 DEF Reading, vars
  <2>3. QED
    BY <2>1, <2>2
<1>3. QED
  BY <1>1, <1>2, TypeCorrect, RowsHold, PTL DEF Spec

-----------------------------------------------------------------------------
(* What search shows *)

\* What a step may do to the active content.
Published(r, o) ==
    LET j == runner[r].job IN
    /\ j \in Jobs /\ job[j].owner = r /\ runner[r].pc = "complete"
    /\ job[j].operation = o /\ job[j].version = manifest /\ ~job[j].cancel
    /\ ~policy.excluded
    /\ job'[j].status = "completed" /\ ~job'[j].cancel /\ SameWork(job[j], job'[j])
    /\ content' = [content EXCEPT ![o] = [job |-> j, text |-> runner[r].text]]
    /\ UNCHANGED <<manifest, policy>>

ContentMove ==
    \/ UNCHANGED <<content, manifest>> /\ policy'.excluded = policy.excluded
    \/ content' = Nothing
    \/ PublishScan
    \/ \E r \in Runners, o \in Operations : Published(r, o)

LEMMA NextContent ==
    ASSUME TypeOK, Next
    PROVE  ContentMove
<1>1. ASSUME NEW r \in Runners, Complete(r) PROVE ContentMove
  <2> DEFINE j == runner[r].job
  <2>1. CASE Publishable(r)
    <3>1. j \in Jobs /\ job[j] \in JobRows
      BY <1>1, RunnerType, RowType DEF Complete
    <3>2. /\ Return(r, [job EXCEPT ![j] = To(job[j], "completed")])
          /\ content' = [content EXCEPT ![job[j].operation] = [job |-> j, text |-> runner[r].text]]
          /\ UNCHANGED <<manifest, policy>>
      BY <1>1, <2>1, <3>1 DEF Complete, TypeOK
    <3>3. "completed" \in Statuses
      BY DEF Statuses
    <3>4. /\ To(job[j], "completed") \in JobRows /\ To(job[j], "completed").status = "completed"
          /\ To(job[j], "completed").owner = NoRunner
          /\ SameWork(job[j], To(job[j], "completed"))
          /\ To(job[j], "completed").cancel = job[j].cancel
      BY <3>1, <3>3, ToType
    <3>5. job'[j] = To(job[j], "completed")
      BY <3>1, <3>2, <3>4, RunnersAssumption DEF Return, RunnersAssumption, TypeOK
    <3>6. job[j].operation \in Operations
      BY <3>1 DEF JobRows
    <3>7. Published(r, job[j].operation)
      BY <1>1, <2>1, <3>1, <3>2, <3>4, <3>5 DEF Published, Publishable, OwnsLease, Complete
    <3>8. QED
      BY <3>6, <3>7 DEF ContentMove
  <2>2. CASE ~Publishable(r)
    BY <1>1, <2>2 DEF Complete, ContentMove
  <2>3. QED
    BY <2>1, <2>2
<1>2. ASSUME NEW r \in Runners, Invalidate(r) PROVE ContentMove
  BY <1>2 DEF Invalidate, ContentMove
<1>3. ASSUME PublishDelta \/ ExcludeFile PROVE ContentMove
  BY <1>3 DEF PublishDelta, ExcludeFile, ContentMove
<1>4. ASSUME ExcludeOther PROVE ContentMove
  <2>1. policy' = [policy EXCEPT !.revision = policy.revision + 1] /\ UNCHANGED <<content, manifest>>
    BY <1>4 DEF ExcludeOther
  <2>2. QED
    BY <2>1 DEF ContentMove, TypeOK
<1>5. ASSUME NEW r \in Runners,
             \/ Claim(r) \/ Open(r) \/ Read(r) \/ Recheck(r) \/ Poll(r) \/ AssertPolicy(r)
             \/ ErrorPoll(r) \/ Fail(r) \/ Cancel(r) \/ Requeue(r) \/ PollFails(r) \/ Crash(r)
             \/ \E j \in Jobs : Begin(r, j)
      PROVE  ContentMove
  BY <1>5 DEF Claim, Open, Read, Recheck, Poll, AssertPolicy, ErrorPoll, Fail, Cancel, Requeue,
              UpdateAndReturn, PollFails, Crash, Begin, ContentMove
<1>6. ASSUME \/ \E o \in Operations : Create(o)
             \/ \E j \in Jobs : RequestCancel(j) \/ Resume(j) \/ Expire(j)
             \/ RecoverExpired \/ Overwrite \/ MoveAway \/ MoveBack \/ Observe
      PROVE  ContentMove
  BY <1>6 DEF Create, RequestCancel, Resume, Expire, RecoverExpired, Overwrite, MoveAway, MoveBack,
              Observe, ContentMove
<1>7. QED
  BY <1>1, <1>2, <1>3, <1>4, <1>5, <1>6 DEF Next, RunnerStep, ContentMove

NoJobNoText == \A o \in Operations : content[o].job = 0 => content[o].text = Absent

Shown == ContentIsComplete /\ ContentIsCurrent /\ NoJobNoText

\* The row behind active content is final, and a purge takes both.
LEMMA ShownRowStays ==
    ASSUME TypeOK, Shown, Next, NEW o \in Operations, content[o].job # 0,
           ~ExcludeFile
    PROVE  job'[content[o].job] = job[content[o].job]
<1>1. content[o].job \in Jobs
  <2>1. content[o].job \in 0 .. NumJobs
    BY DEF TypeOK, Texts
  <2>2. QED
    BY <2>1, Bounds DEF Jobs
<1>2. job[content[o].job].status = "completed"
  BY DEF Shown, ContentIsComplete
<1>3. Move(content[o].job)
  BY <1>1, NextMoves DEF Moves
<1>4. QED
  BY <1>2, <1>3 DEF Move, Created, Moved, Live, IsLive

\* What a publication replaces, and what it leaves.
LEMMA PublishedShows ==
    ASSUME TypeOK, Shown, Reading, Next, ~ExcludeFile,
           NEW r \in Runners, NEW o \in Operations, Published(r, o)
    PROVE  /\ Shown'
           /\ manifest # Absent
           /\ content'[o].text = manifest
           /\ \A p \in Operations \ {o} : content'[p] = content[p]
<1> DEFINE j == runner[r].job
<1>1. j \in Jobs /\ job[j] \in JobRows /\ j # 0
  BY Bounds, RowType DEF Published
<1>2. /\ content'[o] = [job |-> j, text |-> runner[r].text]
      /\ \A p \in Operations \ {o} : content'[p] = content[p]
  BY DEF Published, TypeOK
<1>3. runner[r].text = job[j].version /\ job[j].version = manifest
  BY DEF Published, Reading, Holding
<1>4. manifest # Absent
  <2>1. job[j].version \in Versions
    BY <1>1 DEF Published, Reading, Holding
  <2>2. QED
    BY <1>3, <2>1, Bounds
<1>5. ASSUME NEW p \in Operations \ {o}, content'[p].job # 0
      PROVE  /\ content'[p] = content[p] /\ job'[content[p].job] = job[content[p].job]
  BY <1>2, <1>5, ShownRowStays
<1>6. ContentIsComplete'
  <2>1. ASSUME NEW p \in Operations, content'[p].job # 0
        PROVE  /\ job'[content'[p].job].status = "completed"
               /\ ~job'[content'[p].job].cancel
               /\ job'[content'[p].job].operation = p
    <3>1. CASE p = o
      <4>1. content'[p].job = j
        BY <1>2, <3>1
      <4>2. job'[j].status = "completed" /\ ~job'[j].cancel /\ job'[j].operation = o
        BY DEF Published, SameWork
      <4>3. QED
        BY <3>1, <4>1, <4>2
    <3>2. CASE p # o
      BY <1>5, <2>1, <3>2 DEF Shown, ContentIsComplete
    <3>3. QED
      BY <3>1, <3>2
  <2>2. QED
    BY <2>1 DEF ContentIsComplete
<1>7. ContentIsCurrent'
  <2>1. manifest' = manifest /\ ~policy'.excluded
    BY DEF Published
  <2>2. ASSUME NEW p \in Operations, content'[p].job # 0
        PROVE  /\ content'[p].text = manifest
               /\ job'[content'[p].job].version = manifest
    <3>1. CASE p = o
      <4>1. content'[p].job = j /\ content'[p].text = manifest
        BY <1>2, <1>3, <3>1
      <4>2. job'[j].version = manifest
        BY <1>3 DEF Published, SameWork
      <4>3. QED
        BY <4>1, <4>2
    <3>2. CASE p # o
      BY <1>5, <2>2, <3>2 DEF Shown, ContentIsCurrent
    <3>3. QED
      BY <3>1, <3>2
  <2>3. QED
    BY <2>1, <2>2 DEF ContentIsCurrent
<1>8. NoJobNoText'
  BY <1>1, <1>2 DEF NoJobNoText, Shown
<1>9. QED
  BY <1>2, <1>3, <1>4, <1>6, <1>7, <1>8 DEF Shown

LEMMA EmptyShows ==
    ASSUME content' = Nothing
    PROVE  Shown'
<1>1. \A o \in Operations : content'[o].job = 0 /\ content'[o].text = Absent
  BY DEF Nothing, NoText
<1>2. QED
  BY <1>1 DEF Shown, ContentIsComplete, ContentIsCurrent, NoJobNoText

\* A scan keeps exactly the output that is still of the file's state.
LEMMA ScanShows ==
    ASSUME TypeOK, Shown, Next, ~ExcludeFile, PublishScan
    PROVE  /\ Shown'
           /\ manifest' = observed
           /\ \A o \in Operations :
                 content'[o].text = IF content[o].text = observed THEN observed ELSE Absent
<1>1. /\ manifest' = observed /\ policy' = policy /\ ~policy.excluded
      /\ \A o \in Operations :
            content'[o] = IF content[o].job # 0 /\ job[content[o].job].version = observed
                          THEN content[o] ELSE NoText
  BY DEF PublishScan
<1>2. ASSUME NEW o \in Operations
      PROVE  /\ content[o].job # 0 =>
                    /\ content[o].text = manifest /\ job[content[o].job].version = manifest
             /\ content[o].job = 0 => content[o].text = Absent
  BY DEF Shown, ContentIsCurrent, NoJobNoText
<1>3. NoText.job = 0 /\ NoText.text = Absent
  BY DEF NoText
<1>4. ASSUME NEW o \in Operations
      PROVE  content'[o].text = IF content[o].text = observed THEN observed ELSE Absent
  BY <1>1, <1>2, <1>3
<1>5. ASSUME NEW o \in Operations, content'[o].job # 0
      PROVE  /\ content'[o] = content[o] /\ content[o].job # 0
             /\ job'[content[o].job] = job[content[o].job]
             /\ job[content[o].job].version = observed
  BY <1>1, <1>3, <1>5, ShownRowStays
<1>6. ContentIsComplete'
  BY <1>5 DEF ContentIsComplete, Shown
<1>7. ContentIsCurrent'
  BY <1>1, <1>2, <1>5 DEF ContentIsCurrent
<1>8. NoJobNoText'
  BY <1>1, <1>2, <1>3 DEF NoJobNoText
<1>9. QED
  BY <1>1, <1>4, <1>6, <1>7, <1>8 DEF Shown

LEMMA NextShown ==
    ASSUME TypeOK, Reading, Shown, Next
    PROVE  Shown'
<1>1. CASE content' = Nothing
  BY <1>1, EmptyShows
<1>2. CASE content' # Nothing
  <2>1. ~ExcludeFile
    BY <1>2 DEF ExcludeFile
  <2>2. CASE UNCHANGED <<content, manifest>> /\ policy'.excluded = policy.excluded
    <3>1. ASSUME NEW o \in Operations, content[o].job # 0
          PROVE  job'[content[o].job] = job[content[o].job]
      BY <2>1, <3>1, ShownRowStays
    <3>2. ContentIsComplete'
      BY <2>2, <3>1 DEF Shown, ContentIsComplete
    <3>3. ContentIsCurrent'
      BY <2>2, <3>1 DEF Shown, ContentIsCurrent
    <3>4. NoJobNoText'
      BY <2>2 DEF Shown, NoJobNoText
    <3>5. QED
      BY <3>2, <3>3, <3>4 DEF Shown
  <2>3. CASE PublishScan
    BY <2>1, <2>3, ScanShows
  <2>4. CASE \E r \in Runners, o \in Operations : Published(r, o)
    BY <2>1, <2>4, PublishedShows
  <2>5. QED
    BY <1>2, <2>2, <2>3, <2>4, NextContent DEF ContentMove
<1>3. QED
  BY <1>1, <1>2

LEMMA ShownHolds == Spec => []Shown
<1>1. Init => Shown
  <2>1. \A o \in Operations : Nothing[o].job = 0 /\ Nothing[o].text = Absent
    BY DEF Nothing, NoText
  <2>2. QED
    BY <2>1 DEF Init, Shown, ContentIsComplete, ContentIsCurrent, NoJobNoText
<1>2. TypeOK /\ Reading /\ Shown /\ [Next]_vars => Shown'
  <2>1. ASSUME Shown, UNCHANGED vars PROVE Shown'
    BY <2>1 DEF Shown, ContentIsComplete, ContentIsCurrent, NoJobNoText, vars
  <2>2. QED
    BY <2>1, NextShown
<1>3. QED
  BY <1>1, <1>2, TypeCorrect, ReadingHolds, PTL DEF Spec

(* What search shows is the text of the file's current row and of the job it  *)
(* came from, and of a file that is not excluded.                             *)
THEOREM ShownIsCurrent == Spec => []ContentIsCurrent
BY ShownHolds, PTL DEF Shown

(* What search shows was published by a completed job of its operation that   *)
(* nobody had cancelled.                                                      *)
THEOREM ShownIsComplete == Spec => []ContentIsComplete
BY ShownHolds, PTL DEF Shown

-----------------------------------------------------------------------------
(* ExtractionJob implements AtomicContent *)

shownOf == [o \in Operations |-> content[o].text]

LEMMA ChangeIsPromised ==
    ASSUME NEW state \in Versions \cup {Absent}, Promise!Change(state)
    PROVE  Promise!Next
BY DEF Promise!Next

\* Each step is one step of the promise, or none.
THEOREM Implementation == Spec => ImplementsAtomicContent
<1>1. Init => Promise!Init
  BY Bounds DEF Init, Promise!Init, Promise!Nothing, Nothing, NoText
<1>2. TypeOK /\ Reading /\ Shown /\ [Next]_vars => [Promise!Next]_(Promise!vars)
  <2> SUFFICES ASSUME TypeOK, Reading, Shown, [Next]_vars
               PROVE  [Promise!Next]_(Promise!vars)
    OBVIOUS
  <2>1. CASE UNCHANGED <<content, manifest>>
    BY <2>1 DEF Promise!vars
  <2>2. CASE Next /\ content' = Nothing
    <3>1. shownOf' = Promise!Nothing
      BY <2>2 DEF shownOf, Promise!Nothing, Nothing, NoText
    <3>2. manifest' \in Versions \cup {Absent}
      BY <2>2, NextWorld DEF WorldType
    <3>3. PICK state \in Versions \cup {Absent} : state = manifest'
      BY <3>2
    <3>4. Promise!Change(state)
      BY <3>1, <3>3 DEF Promise!Change, shownOf
    <3>5. QED
      BY <3>4, ChangeIsPromised
  <2>3. CASE Next /\ content' # Nothing /\ PublishScan
    <3>1. ~ExcludeFile
      BY <2>3 DEF ExcludeFile
    <3>2. /\ manifest' = observed
          /\ \A o \in Operations :
                content'[o].text = IF content[o].text = observed THEN observed ELSE Absent
      BY <2>3, <3>1, ScanShows
    <3>3. shownOf' = [o \in Operations |-> IF shownOf[o] = observed THEN observed ELSE Absent]
      BY <3>2 DEF shownOf
    <3>4. PICK state \in Versions \cup {Absent} : state = observed
      BY DEF TypeOK
    <3>5. Promise!Change(state)
      BY <3>2, <3>3, <3>4 DEF Promise!Change, shownOf
    <3>6. QED
      BY <3>5, ChangeIsPromised
  <2>4. ASSUME Next, content' # Nothing,
               NEW r \in Runners, NEW o \in Operations, Published(r, o)
        PROVE  Promise!Next
    <3>1. ~ExcludeFile
      BY <2>4 DEF ExcludeFile
    <3>2. /\ manifest # Absent /\ content'[o].text = manifest
          /\ \A p \in Operations \ {o} : content'[p] = content[p]
      BY <2>4, <3>1, PublishedShows
    <3>3. shownOf' = [shownOf EXCEPT ![o] = manifest]
      BY <3>2 DEF shownOf
    <3>4. manifest' = manifest
      BY <2>4 DEF Published
    <3>5. Promise!Replace(o)
      BY <3>2, <3>3, <3>4 DEF Promise!Replace, shownOf
    <3>6. QED
      BY <3>5 DEF Promise!Next
  <2>5. QED
    BY <2>1, <2>2, <2>3, <2>4, NextContent DEF ContentMove, vars
<1>3. QED
  BY <1>1, <1>2, TypeCorrect, ReadingHolds, ShownHolds, PTL
  DEF Spec, ImplementsAtomicContent, Promise!Spec


-----------------------------------------------------------------------------
(* Numbers, and the lengths of texts.                                      *)

LEMMA LessIsWellFounded ==
    \E R : IsWellFoundedOn(R, Nat) /\ \A x, y \in Nat : <<x, y>> \in R <=> x < y
<1> DEFINE R == OpToRel(<, Nat)
<1>1. IsWellFoundedOn(R, Nat)
  BY NatLessThanWellFounded
<1>2. \A x, y \in Nat : <<x, y>> \in R <=> x < y
  BY DEF OpToRel
<1> QED  BY <1>1, <1>2

LEMMA LeastNumber ==
    ASSUME NEW T, T \subseteq Nat, T # {}
    PROVE  \E m \in T : \A n \in T : m <= n
<1>1. PICK R : IsWellFoundedOn(R, Nat) /\ \A x, y \in Nat : <<x, y>> \in R <=> x < y
  BY LessIsWellFounded
<1>2. IsWellFoundedOn(R, Nat)
  BY <1>1
<1>3. PICK m \in T : \A n \in T : ~ (<<n, m>> \in R)
  BY <1>2, WFMin, Zenon
<1>4. m \in Nat /\ \A n \in T : n \in Nat /\ ~ (n < m)
  BY <1>1, <1>3
<1>5. \A n \in T : m <= n
  BY <1>4
<1> QED  BY <1>5

LEMMA GreatestNumber ==
    ASSUME NEW bound \in Nat, NEW T, T \subseteq 0 .. bound, T # {}
    PROVE  \E m \in T : \A n \in T : n <= m
<1> DEFINE below == {bound - n : n \in T}
<1>1. below \subseteq Nat /\ below # {}
  <2>1. \A n \in T : bound - n \in Nat
    OBVIOUS
  <2> QED  BY <2>1
<1>2. PICK l \in below : \A n \in below : l <= n
  BY <1>1, LeastNumber
<1>3. PICK m \in T : l = bound - m
  BY <1>2
<1>4. ASSUME NEW n \in T PROVE n <= m
  <2>1. bound - m <= bound - n
    BY <1>2, <1>3
  <2>2. m \in 0 .. bound /\ n \in 0 .. bound
    OBVIOUS
  <2> QED  BY <2>1, <2>2
<1> QED  BY <1>4

Accumulates(f, s, k) ==
    /\ DOMAIN f = 0 .. k /\ f[0] = 0
    /\ \A n \in 1 .. k : f[n] = f[n - 1] + s[n]

LEMMA PartialSums ==
    ASSUME NEW s \in Seq(Nat)
    PROVE  \E f : Accumulates(f, s, Len(s)) /\ f = [n \in 0 .. Len(s) |-> f[n]]
<1> DEFINE Summed(k) == \E f : Accumulates(f, s, k) /\ f = [n \in 0 .. k |-> f[n]]
           T == {k \in Nat : ~Summed(k)}
<1>1. SUFFICES ASSUME T # {} PROVE FALSE
  <2>1. Len(s) \in Nat
    OBVIOUS
  <2> QED  BY <2>1
<1>2. PICK k \in T : \A n \in T : k <= n
  <2>1. T \subseteq Nat
    OBVIOUS
  <2> QED  BY <1>1, <2>1, LeastNumber
<1>3. k # 0
  <2> DEFINE z == [n \in 0 .. 0 |-> 0]
  <2>1. Accumulates(z, s, 0) /\ z = [n \in 0 .. 0 |-> z[n]]
    BY DEF Accumulates
  <2>2. Summed(0)
    BY <2>1
  <2> QED  BY <2>2
<1>4. k - 1 \in Nat /\ Summed(k - 1)
  <2>1. k \in Nat /\ k - 1 \in Nat /\ ~(k <= k - 1)
    BY <1>3
  <2> QED  BY <2>1, <1>2
<1>5. PICK f : Accumulates(f, s, k - 1) /\ f = [n \in 0 .. k - 1 |-> f[n]]
  BY <1>4
<1> DEFINE g == [n \in 0 .. k |-> IF n = k THEN f[k - 1] + s[k] ELSE f[n]]
<1>6. DOMAIN g = 0 .. k /\ g[0] = 0
  BY <1>3, <1>5 DEF Accumulates
<1>7. ASSUME NEW n \in 1 .. k PROVE g[n] = g[n - 1] + s[n]
  <2>1. k \in Nat /\ n \in 0 .. k /\ n - 1 \in 0 .. k /\ n - 1 # k
    BY <1>4
  <2>2. g[n - 1] = f[n - 1] /\ g[n] = IF n = k THEN f[k - 1] + s[k] ELSE f[n]
    BY <2>1
  <2>3. CASE n = k
    BY <2>2, <2>3
  <2>4. CASE n # k
    <3>1. n \in 1 .. k - 1
      BY <2>1, <2>4
    <3>2. f[n] = f[n - 1] + s[n]
      BY <1>5, <3>1 DEF Accumulates
    <3> QED  BY <2>2, <2>4, <3>2
  <2> QED  BY <2>3, <2>4
<1>8. g = [n \in 0 .. k |-> g[n]]
  OBVIOUS
<1> HIDE DEF g
<1>9. Accumulates(g, s, k) /\ g = [n \in 0 .. k |-> g[n]]
  BY <1>6, <1>7, <1>8 DEF Accumulates
<1> QED  BY <1>9

LEMMA SumAccumulates ==
    ASSUME NEW s \in Seq(Nat)
    PROVE  \E f : Accumulates(f, s, Len(s)) /\ Total(s) = f[Len(s)]
<1> DEFINE Is(f) == f = [n \in 0 .. Len(s) |-> IF n = 0 THEN 0 ELSE f[n - 1] + s[n]]
           total == CHOOSE f : Is(f)
<1>1. PICK f : Accumulates(f, s, Len(s)) /\ f = [n \in 0 .. Len(s) |-> f[n]]
  BY PartialSums
<1>2. Is(f)
  <2>1. ASSUME NEW n \in 0 .. Len(s)
        PROVE  f[n] = IF n = 0 THEN 0 ELSE f[n - 1] + s[n]
    <3>1. /\ f[0] = 0
          /\ \A m \in 1 .. Len(s) : f[m] = f[m - 1] + s[m]
      BY <1>1 DEF Accumulates
    <3>2. n = 0 \/ n \in 1 .. Len(s)
      OBVIOUS
    <3>3. CASE n = 0
      BY <3>1, <3>3
    <3>4. CASE n \in 1 .. Len(s)
      BY <3>1, <3>4
    <3> QED  BY <3>2, <3>3, <3>4
  <2>2. [n \in 0 .. Len(s) |-> f[n]]
          = [n \in 0 .. Len(s) |-> IF n = 0 THEN 0 ELSE f[n - 1] + s[n]]
    BY <2>1, Zenon
  <2> DEFINE same == [n \in 0 .. Len(s) |-> f[n]]
             next == [n \in 0 .. Len(s) |-> IF n = 0 THEN 0 ELSE f[n - 1] + s[n]]
  <2>3. f = same /\ same = next
    BY <1>1, <2>2, Zenon
  <2> HIDE DEF same, next
  <2>4. f = next
    BY <2>3
  <2> QED  BY <2>4 DEF next
<1>3. Is(total)
  BY <1>2, Zenon
<1>4. Total(s) = total[Len(s)]
  BY DEF Total
<1> HIDE DEF total
<1>5. Accumulates(total, s, Len(s))
  BY <1>3 DEF Accumulates
<1> QED  BY <1>4, <1>5

LEMMA SumBounds ==
    ASSUME NEW s \in Seq(Nat)
    PROVE  /\ Total(s) \in Nat
           /\ s \in Seq(Nat \ {0}) => Total(s) >= Len(s)
<1>1. PICK f : Accumulates(f, s, Len(s)) /\ Total(s) = f[Len(s)]
  BY SumAccumulates
<1> DEFINE Right(n) == f[n] \in Nat /\ (s \in Seq(Nat \ {0}) => f[n] >= n)
           T == {n \in 0 .. Len(s) : ~Right(n)}
<1>2. Len(s) \in Nat
  OBVIOUS
<1>3. SUFFICES ASSUME T # {} PROVE FALSE
  BY <1>1, <1>2
<1>4. PICK k \in T : \A n \in T : k <= n
  <2>1. T \subseteq Nat
    OBVIOUS
  <2> QED  BY <1>3, <2>1, LeastNumber
<1>5. k # 0
  BY <1>1 DEF Accumulates
<1>6. k - 1 \in 0 .. Len(s) /\ Right(k - 1)
  BY <1>4, <1>5
<1>7. k \in 1 .. Len(s) /\ f[k] = f[k - 1] + s[k]
  BY <1>1, <1>5 DEF Accumulates
<1>8. s[k] \in Nat /\ (s \in Seq(Nat \ {0}) => s[k] >= 1)
  <2>1. s[k] \in Nat
    BY <1>7, ElementOfSeq
  <2>2. ASSUME s \in Seq(Nat \ {0}) PROVE s[k] \in Nat \ {0}
    BY <1>7, <2>2, ElementOfSeq
  <2> QED  BY <2>1, <2>2
<1>9. Right(k)
  BY <1>6, <1>7, <1>8
<1> QED  BY <1>4, <1>9

LEMMA SumOfNone == Total(<<>>) = 0
<1>1. <<>> \in Seq(Nat) /\ Len(<<>>) = 0
  OBVIOUS
<1> QED  BY <1>1, SumAccumulates DEF Accumulates

LEMMA TextBoundaries ==
    ASSUME NEW text \in Seq(Nat \ {0})
    PROVE  /\ Boundaries(text) \subseteq Nat
           /\ 0 \in Boundaries(text) /\ Length(text) \in Boundaries(text)
           /\ text # <<>> => Length(text) > 0
<1>1. text \in Seq(Nat) /\ Len(text) \in Nat
  OBVIOUS
<1>2. ASSUME NEW n \in 0 .. Len(text) PROVE SubSeq(text, 1, n) \in Seq(Nat)
  BY <1>1, SubSeqProperties
<1>3. SubSeq(text, 1, 0) = <<>> /\ SubSeq(text, 1, Len(text)) = text
  BY <1>1, SubSeqEmpty, SubSeqFull
<1>4. Boundaries(text) \subseteq Nat
  BY <1>2, SumBounds DEF Boundaries, Length
<1>5. 0 \in Boundaries(text)
  <2>1. 0 \in 0 .. Len(text)
    BY <1>1
  <2>2. \E n \in 0 .. Len(text) : 0 = Length(SubSeq(text, 1, n))
    BY <2>1, <1>3, SumOfNone, Zenon DEF Length
  <2> QED  BY <2>2 DEF Boundaries
<1>6. Length(text) \in Boundaries(text)
  <2>1. Len(text) \in 0 .. Len(text)
    BY <1>1
  <2>2. \E n \in 0 .. Len(text) : Length(text) = Length(SubSeq(text, 1, n))
    BY <2>1, <1>3, Zenon
  <2> QED  BY <2>2 DEF Boundaries
<1>7. ASSUME text # <<>> PROVE Length(text) > 0
  <2>1. Len(text) >= 1
    BY <1>1, <1>7
  <2>2. Total(text) \in Nat /\ Total(text) >= Len(text)
    BY <1>1, SumBounds
  <2> QED  BY <1>1, <2>1, <2>2 DEF Length
<1> QED  BY <1>4, <1>5, <1>6, <1>7

LEMMA FloorIsGreatest ==
    ASSUME NEW text \in Seq(Nat \ {0}), NEW x \in Nat
    PROVE  /\ Floor(text, x) \in Boundaries(text) /\ Floor(text, x) \in Nat
           /\ Floor(text, x) <= x
           /\ \A z \in Boundaries(text) : z <= x => z <= Floor(text, x)
<1> DEFINE below == {y \in Boundaries(text) : y <= x}
<1>1. Boundaries(text) \subseteq Nat /\ 0 \in Boundaries(text)
  BY TextBoundaries
<1>2. below \subseteq 0 .. x /\ below # {}
  <2>1. 0 \in below
    BY <1>1
  <2>2. \A y \in below : y \in 0 .. x
    BY <1>1
  <2> QED  BY <2>1, <2>2
<1>3. PICK m \in below : \A n \in below : n <= m
  BY <1>2, GreatestNumber
<1>4. m \in Boundaries(text) /\ m <= x /\ \A z \in Boundaries(text) : z <= x => z <= m
  BY <1>3
<1>5. /\ Floor(text, x) \in Boundaries(text) /\ Floor(text, x) <= x
      /\ \A z \in Boundaries(text) : z <= x => z <= Floor(text, x)
  BY <1>4, Zenon DEF Floor
<1> QED  BY <1>1, <1>5

-----------------------------------------------------------------------------
(* A reader.                                                               *)

ReaderSteps == {"open", "read", "admit", "probe", "unit", "cut", "ended"}

\* A chunk starts and ends at boundaries of its text, where the one before it lets it start.
TextOf(i) == file.units[chunks[i].unit].text
Placed(i) ==
    /\ {chunks[i].start, chunks[i].end} \subseteq Boundaries(TextOf(i))
    /\ chunks[i].end - chunks[i].start <= limits.chunkBytes
    /\ IF Continues(i)
       THEN /\ chunks[i - 1].start < chunks[i].start /\ chunks[i].start <= chunks[i - 1].end
            /\ chunks[i - 1].end <= chunks[i].end
       ELSE chunks[i].start = 0
\* It is followed by another one of the same unit, or reaches the end of its text.
ReachesEnd(i) == Continued(i) \/ chunks[i].end = Length(TextOf(i))
Covered(u) == file.units[u].text = <<>> \/ \E i \in DOMAIN chunks : chunks[i].unit = u

ReaderShape ==
    /\ file \in FileSet /\ limits \in LimitSet
    /\ reader \in [pc : ReaderSteps, unit : 0 .. Len(file.units), start : Nat, unpacked : Nat]
    /\ chunks \in Seq([unit : 1 .. reader.unit, start : Nat, end : Nat])
    /\ outcome \in Outcomes
    /\ \A i \in DOMAIN chunks : chunks[i].start < chunks[i].end
    /\ \A i, k \in DOMAIN chunks : i <= k => chunks[i].unit <= chunks[k].unit
WithinLimits ==
    /\ Len(chunks) <= limits.chunks /\ Written(chunks) <= limits.output
    /\ reader.unpacked <= limits.unpacked
\* Before the first unit nothing is written.
NothingRead ==
    reader.pc \in {"open", "read", "admit", "probe"} => reader.unit = 0 /\ chunks = <<>>
\* The units up to the last are covered by their chunks, with nothing left out between them.
Whole(last) ==
    /\ \A i \in DOMAIN chunks : Placed(i) /\ ReachesEnd(i)
    /\ \A u \in 1 .. last : Covered(u)
\* While a unit is cut, that holds of the units before it; the next chunk starts within the
\* last one of this unit, if there is one, and that one does not reach the end of the text.
InUnit == chunks # <<>> /\ chunks[Len(chunks)].unit = reader.unit
Cutting ==
    /\ reader.unit > 0 /\ reader.start \in Boundaries(Unit.text)
    /\ \A i \in DOMAIN chunks : Placed(i)
    /\ \A i \in DOMAIN chunks : i < Len(chunks) \/ ~InUnit => ReachesEnd(i)
    /\ \A u \in 1 .. reader.unit - 1 : Covered(u)
    /\ IF InUnit
       THEN LET last == chunks[Len(chunks)]
            IN /\ last.start < reader.start /\ reader.start <= last.end
               /\ last.end < Length(Unit.text) /\ last.end = ChunkEnd(Unit.text, last.start)
       ELSE reader.start = 0
ReaderSound ==
    /\ ReaderShape /\ WithinLimits /\ NothingRead
    /\ reader.pc = "unit" => Whole(reader.unit)
    /\ reader.pc = "cut" => Cutting
    /\ outcome # "none" => reader.pc = "ended"
    /\ outcome = "output" => reader.unit = Len(file.units) /\ Whole(reader.unit)

LEMMA FileShape ==
    ASSUME ReaderShape
    PROVE  /\ file.kind \in ReaderKinds /\ file.size \in Nat /\ Len(file.units) \in Nat
           /\ \A u \in 1 .. Len(file.units) :
                /\ file.units[u].text \in Seq(Nat \ {0})
                /\ file.units[u].claimed \in Nat /\ file.units[u].real \in Nat
           /\ limits \in Limits
<1>1. file \in FileSet /\ limits \in LimitSet
  BY DEF ReaderShape
<1>2. file.units \in Seq([text : Seq(Nat \ {0}), claimed : Nat, real : Nat])
  BY <1>1, FilesAndLimits
<1>3. ASSUME NEW u \in 1 .. Len(file.units)
      PROVE  file.units[u] \in [text : Seq(Nat \ {0}), claimed : Nat, real : Nat]
  BY <1>2, <1>3, ElementOfSeq
<1>4. Len(file.units) \in Nat
  BY <1>2
<1>5. file.kind \in ReaderKinds /\ file.size \in Nat /\ limits \in Limits
  BY <1>1, FilesAndLimits
<1> QED  BY <1>3, <1>4, <1>5

LEMMA ChunkShape ==
    ASSUME ReaderShape
    PROVE  /\ Len(chunks) \in Nat /\ DOMAIN chunks = 1 .. Len(chunks)
           /\ \A i \in 1 .. Len(chunks) :
                /\ chunks[i] \in [unit : 1 .. reader.unit, start : Nat, end : Nat]
                /\ chunks[i].unit \in 1 .. reader.unit
                /\ chunks[i].unit \in 1 .. Len(file.units)
                /\ chunks[i].start \in Nat /\ chunks[i].end \in Nat
                /\ TextOf(i) \in Seq(Nat \ {0})
<1>1. chunks \in Seq([unit : 1 .. reader.unit, start : Nat, end : Nat])
  BY DEF ReaderShape
<1>2. Len(chunks) \in Nat /\ DOMAIN chunks = 1 .. Len(chunks)
  BY <1>1, LenProperties
<1>3. ASSUME NEW i \in 1 .. Len(chunks)
      PROVE  chunks[i] \in [unit : 1 .. reader.unit, start : Nat, end : Nat]
  BY <1>1, <1>3, ElementOfSeq
<1>4. reader.unit \in 0 .. Len(file.units) /\ Len(file.units) \in Nat
  BY FileShape DEF ReaderShape
<1>5. ASSUME NEW i \in 1 .. Len(chunks)
      PROVE  /\ chunks[i].unit \in 1 .. reader.unit /\ chunks[i].unit \in 1 .. Len(file.units)
             /\ chunks[i].start \in Nat /\ chunks[i].end \in Nat
  BY <1>3, <1>4
<1>6. \A i \in 1 .. Len(chunks) : TextOf(i) \in Seq(Nat \ {0})
  BY <1>5, FileShape DEF TextOf
<1> QED  BY <1>2, <1>3, <1>5, <1>6

LEMMA NothingIsWritten == ASSUME chunks = <<>> PROVE Written(chunks) = 0
<1>1. [i \in DOMAIN chunks |-> chunks[i].end - chunks[i].start] = <<>>
  OBVIOUS
<1> QED  BY <1>1, SumOfNone DEF Written

LEMMA ReaderInitSound == ReaderInit => ReaderSound
<1> SUFFICES ASSUME ReaderInit PROVE ReaderSound
  OBVIOUS
<1>1. /\ file \in FileSet /\ limits \in LimitSet /\ chunks = <<>> /\ outcome = "none"
      /\ reader = [pc |-> "open", unit |-> 0, start |-> 0, unpacked |-> 0]
  BY DEF ReaderInit
<1>2. chunks \in Seq([unit : 1 .. reader.unit, start : Nat, end : Nat]) /\ DOMAIN chunks = {}
  BY <1>1
<1>3. Len(file.units) \in Nat /\ limits \in Limits
  <2>1. file.units \in Seq([text : Seq(Nat \ {0}), claimed : Nat, real : Nat])
    BY <1>1, FilesAndLimits
  <2> QED  BY <1>1, <2>1, FilesAndLimits
<1>4. ReaderShape
  BY <1>1, <1>2, <1>3 DEF ReaderShape, ReaderSteps, Outcomes
<1>5. WithinLimits
  BY <1>1, <1>3, NothingIsWritten DEF WithinLimits, Limits
<1> QED  BY <1>1, <1>4, <1>5 DEF ReaderSound, NothingRead

\* The chunks stay as they are, and so do the file and the limits.
LEMMA ChunksStay ==
    ASSUME ReaderSound, UNCHANGED <<file, limits, chunks>>,
           reader' \in [pc : ReaderSteps, unit : 0 .. Len(file.units), start : Nat, unpacked : Nat],
           reader'.unit >= reader.unit, outcome' \in Outcomes
    PROVE  /\ ReaderShape'
           /\ \A i \in DOMAIN chunks : (Placed(i)' <=> Placed(i)) /\ (ReachesEnd(i)' <=> ReachesEnd(i))
           /\ \A u : Covered(u)' <=> Covered(u)
           /\ Written(chunks') = Written(chunks)
<1>1. ReaderShape
  BY DEF ReaderSound
<1>2. 1 .. reader.unit \subseteq 1 .. reader'.unit
  BY <1>1 DEF ReaderShape
<1>3. ReaderShape'
  <2>1. chunks' \in Seq([unit : 1 .. reader'.unit, start : Nat, end : Nat])
    <3> DEFINE old == [unit : 1 .. reader.unit, start : Nat, end : Nat]
               new == [unit : 1 .. reader'.unit, start : Nat, end : Nat]
    <3>1. chunks \in Seq(old) /\ old \subseteq new
      BY <1>1, <1>2 DEF ReaderShape
    <3>2. chunks \in Seq(new)
      <4> HIDE DEF old, new
      <4> QED  BY <3>1, SeqMonotonic
    <3> QED  BY <3>2
  <2>2. /\ file' = file /\ limits' = limits /\ chunks' = chunks
        /\ file \in FileSet /\ limits \in LimitSet
        /\ \A i \in DOMAIN chunks : chunks[i].start < chunks[i].end
        /\ \A i, k \in DOMAIN chunks : i <= k => chunks[i].unit <= chunks[k].unit
    BY <1>1 DEF ReaderShape
  <2> QED  BY <2>1, <2>2 DEF ReaderShape
<1>4. \A i \in DOMAIN chunks : (Placed(i)' <=> Placed(i)) /\ (ReachesEnd(i)' <=> ReachesEnd(i))
  BY DEF Placed, ReachesEnd, TextOf, Continues, Continued
<1>5. \A u : Covered(u)' <=> Covered(u)
  BY DEF Covered
<1> QED  BY <1>3, <1>4, <1>5

LEMMA RefuseSound ==
    ASSUME ReaderSound, NEW why \in Outcomes \ {"output"}, Refuse(why)
    PROVE  ReaderSound'
<1>1. /\ reader' = [reader EXCEPT !.pc = "ended"] /\ outcome' = why
      /\ UNCHANGED <<file, limits, chunks>>
  BY DEF Refuse
<1>2. ReaderShape /\ WithinLimits
  BY DEF ReaderSound
<1>3. /\ reader' \in [pc : ReaderSteps, unit : 0 .. Len(file.units), start : Nat, unpacked : Nat]
      /\ reader'.pc = "ended" /\ reader'.unit = reader.unit
      /\ reader'.unpacked = reader.unpacked
  BY <1>1, <1>2 DEF ReaderShape, ReaderSteps
<1>4. reader'.unit >= reader.unit
  BY <1>2, <1>3 DEF ReaderShape
<1>5. ReaderShape' /\ Written(chunks') = Written(chunks)
  BY <1>1, <1>3, <1>4, ChunksStay
<1>6. WithinLimits'
  BY <1>1, <1>2, <1>3, <1>5 DEF WithinLimits
<1> QED  BY <1>1, <1>3, <1>5, <1>6 DEF ReaderSound, NothingRead

LEMMA GoesSound ==
    ASSUME ReaderSound, NEW pc \in ReaderSteps, Goes(pc), outcome = "none",
           pc \in {"open", "read", "admit", "probe"} => reader.unit = 0 /\ chunks = <<>>,
           pc = "unit" => Whole(reader.unit), pc # "cut"
    PROVE  ReaderSound'
<1>1. /\ reader' = [reader EXCEPT !.pc = pc] /\ UNCHANGED <<file, limits, chunks, outcome>>
  BY DEF Goes
<1>2. ReaderShape /\ WithinLimits
  BY DEF ReaderSound
<1>3. /\ reader' \in [pc : ReaderSteps, unit : 0 .. Len(file.units), start : Nat, unpacked : Nat]
      /\ reader'.pc = pc /\ reader'.unit = reader.unit
      /\ reader'.unpacked = reader.unpacked
  BY <1>1, <1>2 DEF ReaderShape, ReaderSteps
<1>4. reader'.unit >= reader.unit /\ outcome' \in Outcomes
  BY <1>1, <1>2, <1>3 DEF ReaderShape
<1>5. /\ ReaderShape' /\ Written(chunks') = Written(chunks)
      /\ \A i \in DOMAIN chunks : (Placed(i)' <=> Placed(i)) /\ (ReachesEnd(i)' <=> ReachesEnd(i))
      /\ \A u : Covered(u)' <=> Covered(u)
  BY <1>1, <1>3, <1>4, ChunksStay
<1>6. WithinLimits'
  BY <1>1, <1>2, <1>3, <1>5 DEF WithinLimits
<1>7. NothingRead'
  BY <1>1, <1>3 DEF NothingRead
<1>8. pc = "unit" => Whole(reader.unit)'
  BY <1>1, <1>3, <1>5 DEF Whole
<1> QED  BY <1>1, <1>3, <1>5, <1>6, <1>7, <1>8 DEF ReaderSound

LEMMA OpenSound == ASSUME ReaderSound, OpenFile PROVE ReaderSound'
<1>1. reader.pc = "open" /\ outcome = "none"
  BY DEF OpenFile, ReaderSound, ReaderShape, Outcomes
<1>2. reader.unit = 0 /\ chunks = <<>>
  BY <1>1 DEF ReaderSound, NothingRead
<1>3. \/ \E why \in {"invalid_limits", "source_too_large", "invalid_image"} : Refuse(why)
      \/ Goes("read")
  BY DEF OpenFile
<1>4. ASSUME NEW why \in {"invalid_limits", "source_too_large", "invalid_image"}, Refuse(why)
      PROVE  ReaderSound'
  BY <1>4, RefuseSound DEF Outcomes
<1>5. ASSUME Goes("read") PROVE ReaderSound'
  BY <1>1, <1>2, <1>5, GoesSound DEF ReaderSteps
<1> QED  BY <1>3, <1>4, <1>5

LEMMA ReadSound == ASSUME ReaderSound, NEW found, ReadSource(found) PROVE ReaderSound'
<1>1. reader.pc = "read" /\ outcome = "none"
  BY DEF ReadSource, ReaderSound
<1>2. reader.unit = 0 /\ chunks = <<>>
  BY <1>1 DEF ReaderSound, NothingRead
<1>3. \/ \E why \in {"source_changed", "source_too_large"} : Refuse(why)
      \/ \E pc \in {"probe", "admit"} : Goes(pc)
  BY DEF ReadSource
<1>4. ASSUME NEW why \in {"source_changed", "source_too_large"}, Refuse(why)
      PROVE  ReaderSound'
  BY <1>4, RefuseSound DEF Outcomes
<1>5. ASSUME NEW pc \in {"probe", "admit"}, Goes(pc) PROVE ReaderSound'
  BY <1>1, <1>2, <1>5, GoesSound DEF ReaderSteps
<1> QED  BY <1>3, <1>4, <1>5

LEMMA ProbeSound == ASSUME ReaderSound, NEW side, Probe(side) PROVE ReaderSound'
<1>1. \E why \in {"dimensions", "metadata"} : Refuse(why)
  BY DEF Probe, Refuse
<1> QED  BY <1>1, RefuseSound DEF Outcomes

LEMMA AdmitSound == ASSUME ReaderSound, AdmitFile PROVE ReaderSound'
<1>1. reader.pc = "admit" /\ outcome = "none"
  BY DEF AdmitFile, ReaderSound
<1>2. reader.unit = 0 /\ chunks = <<>>
  BY <1>1 DEF ReaderSound, NothingRead
<1>3. Whole(reader.unit)
  <2>1. DOMAIN chunks = {} /\ 1 .. reader.unit = {}
    BY <1>2
  <2> QED  BY <2>1 DEF Whole
<1>4. Goes("unit") \/ Refuse("inadmissible")
  BY DEF AdmitFile
<1>5. ASSUME Goes("unit") PROVE ReaderSound'
  BY <1>1, <1>2, <1>3, <1>5, GoesSound DEF ReaderSteps
<1>6. ASSUME Refuse("inadmissible") PROVE ReaderSound'
  BY <1>6, RefuseSound DEF Outcomes
<1> QED  BY <1>4, <1>5, <1>6

LEMMA InterruptSound == ASSUME ReaderSound, InterruptReader PROVE ReaderSound'
<1>1. \E why \in {"cancelled", "time_limit", "invalid"} : Refuse(why)
  BY DEF InterruptReader
<1> QED  BY <1>1, RefuseSound DEF Outcomes

LEMMA NextUnitSound == ASSUME ReaderSound, NextUnit PROVE ReaderSound'
<1>1. /\ reader.pc = "unit" /\ outcome = "none" /\ ReaderShape /\ WithinLimits
      /\ Whole(reader.unit)
  BY DEF NextUnit, ReaderSound
<1>2. reader \in [pc : ReaderSteps, unit : 0 .. Len(file.units), start : Nat, unpacked : Nat]
  BY <1>1 DEF ReaderShape
<1>3. CASE reader.unit = Len(file.units)
  <2>1. /\ reader' = [reader EXCEPT !.pc = "ended"] /\ outcome' = "output"
        /\ UNCHANGED <<file, limits, chunks>>
    BY <1>3 DEF NextUnit
  <2>2. /\ reader' \in [pc : ReaderSteps, unit : 0 .. Len(file.units), start : Nat, unpacked : Nat]
        /\ reader'.pc = "ended" /\ reader'.unit = reader.unit
        /\ reader'.unpacked = reader.unpacked /\ outcome' \in Outcomes
    BY <1>2, <2>1 DEF ReaderSteps, Outcomes
  <2>3. reader'.unit >= reader.unit
    BY <1>2, <2>2
  <2>4. /\ ReaderShape' /\ Written(chunks') = Written(chunks)
        /\ \A i \in DOMAIN chunks : (Placed(i)' <=> Placed(i)) /\ (ReachesEnd(i)' <=> ReachesEnd(i))
        /\ \A u : Covered(u)' <=> Covered(u)
    BY <2>1, <2>2, <2>3, ChunksStay
  <2>5. WithinLimits' /\ Whole(reader.unit)'
    BY <1>1, <2>1, <2>2, <2>4 DEF WithinLimits, Whole
  <2> QED  BY <1>3, <2>1, <2>2, <2>4, <2>5 DEF ReaderSound, NothingRead
<1>4. CASE reader.unit # Len(file.units)
  <2> DEFINE n == reader.unit + 1
             u == file.units[n]
  <2>1. n \in 1 .. Len(file.units) /\ n - 1 = reader.unit
    BY <1>1, <1>2, <1>4, FileShape
  <2>2. u.text \in Seq(Nat \ {0}) /\ u.claimed \in Nat /\ u.real \in Nat
    BY <1>1, <2>1, FileShape
  <2>3. \/ Unpacks(u) /\ reader' = [reader EXCEPT !.pc = "cut", !.unit = @ + 1, !.start = 0,
                             !.unpacked = IF file.kind = "office" THEN @ + u.real ELSE @]
           /\ UNCHANGED <<file, limits, chunks, outcome>>
        \/ Refuse("unpacked_limit")
    BY <1>4 DEF NextUnit
  <2>4. ASSUME Refuse("unpacked_limit") PROVE ReaderSound'
    BY <2>4, RefuseSound DEF Outcomes
  <2>5. ASSUME Unpacks(u),
               reader' = [reader EXCEPT !.pc = "cut", !.unit = @ + 1, !.start = 0,
                             !.unpacked = IF file.kind = "office" THEN @ + u.real ELSE @],
               UNCHANGED <<file, limits, chunks, outcome>>
        PROVE  ReaderSound'
    <3>1. limits.unpacked \in Nat
      BY <1>1, FileShape DEF Limits
    <3>2. /\ reader'.pc = "cut" /\ reader'.unit = n /\ reader'.start = 0
          /\ reader'.unpacked = IF file.kind = "office" THEN reader.unpacked + u.real
                                ELSE reader.unpacked
          /\ reader' \in [pc : ReaderSteps, unit : 0 .. Len(file.units), start : Nat, unpacked : Nat]
      <4> DEFINE total == IF file.kind = "office" THEN reader.unpacked + u.real
                          ELSE reader.unpacked
      <4> HIDE DEF u
      <4>1. n \in 0 .. Len(file.units) /\ total \in Nat
        BY <1>2, <2>1, <2>2
      <4>2. reader' = [reader EXCEPT !.pc = "cut", !.unit = n, !.start = 0, !.unpacked = total]
        BY <2>5
      <4> HIDE DEF total, n
      <4>3. /\ reader'.pc = "cut" /\ reader'.unit = n /\ reader'.start = 0
            /\ reader'.unpacked = total
            /\ reader' \in [pc : ReaderSteps, unit : 0 .. Len(file.units), start : Nat,
                            unpacked : Nat]
        BY <1>2, <4>1, <4>2 DEF ReaderSteps
      <4> QED  BY <4>3 DEF total
    <3>3. reader'.unpacked <= limits.unpacked
      <4> HIDE DEF u
      <4>1. CASE file.kind = "office"
        <5>1. u.claimed <= limits.unpacked - reader.unpacked /\ u.real = u.claimed
          BY <2>5, <4>1 DEF Unpacks
        <5> QED  BY <1>2, <2>2, <3>1, <3>2, <4>1, <5>1
      <4>2. CASE file.kind # "office"
        BY <1>1, <3>2, <4>2 DEF WithinLimits
      <4> QED  BY <4>1, <4>2
    <3>4. /\ reader'.unit >= reader.unit /\ outcome' \in Outcomes
      BY <1>2, <2>5, <3>2, <1>1 DEF ReaderShape
    <3>5. /\ ReaderShape' /\ Written(chunks') = Written(chunks)
          /\ \A i \in DOMAIN chunks : (Placed(i)' <=> Placed(i)) /\ (ReachesEnd(i)' <=> ReachesEnd(i))
          /\ \A v : Covered(v)' <=> Covered(v)
      BY <2>5, <3>2, <3>4, ChunksStay
    <3>6. WithinLimits'
      BY <1>1, <2>5, <3>3, <3>5 DEF WithinLimits
    <3>7. ~ InUnit'
      <4>1. ASSUME chunks # <<>> PROVE chunks[Len(chunks)].unit # n
        <5>1. Len(chunks) \in 1 .. Len(chunks)
          <6>1. chunks \in Seq([unit : 1 .. reader.unit, start : Nat, end : Nat])
            BY <1>1 DEF ReaderShape
          <6> QED  BY <4>1, <6>1
        <5>2. chunks[Len(chunks)].unit \in 1 .. reader.unit
          BY <1>1, <5>1, ChunkShape
        <5> QED  BY <1>2, <5>2
      <4> QED  BY <2>5, <3>2, <4>1 DEF InUnit
    <3>8. 0 \in Boundaries(Unit.text)'
      <4>1. 0 \in Boundaries(u.text)
        BY <2>2, TextBoundaries
      <4> QED  BY <2>5, <3>2, <4>1 DEF Unit
    <3>9. Cutting'
      <4>1. reader'.unit > 0 /\ reader'.unit - 1 = reader.unit
        BY <2>1, <3>2
      <4>2. \A i \in DOMAIN chunks : Placed(i)' /\ ReachesEnd(i)'
        BY <1>1, <3>5 DEF Whole
      <4>3. \A v \in 1 .. reader.unit : Covered(v)'
        BY <1>1, <3>5 DEF Whole
      <4> QED  BY <2>5, <3>2, <3>7, <3>8, <4>1, <4>2, <4>3 DEF Cutting
    <3> QED  BY <1>1, <2>5, <3>2, <3>5, <3>6, <3>9 DEF ReaderSound, NothingRead
  <2> QED  BY <2>3, <2>4, <2>5
<1> QED  BY <1>3, <1>4

-----------------------------------------------------------------------------
(* A chunk.                                                                *)

LEMMA ChunkEnds ==
    ASSUME limits \in Limits, NEW text \in Seq(Nat \ {0}), NEW start \in Boundaries(text),
           start <= Length(text)
    PROVE  /\ ChunkEnd(text, start) \in Boundaries(text) /\ ChunkEnd(text, start) \in Nat
           /\ start <= ChunkEnd(text, start) /\ ChunkEnd(text, start) <= Length(text)
           /\ ChunkEnd(text, start) - start <= limits.chunkBytes
           /\ \A later \in Boundaries(text) :
                start <= later => ChunkEnd(text, start) <= ChunkEnd(text, later)
<1> DEFINE size == limits.chunkBytes
           reach(s) == Least(s + size, Length(text))
<1>1. /\ Boundaries(text) \subseteq Nat /\ Length(text) \in Boundaries(text)
      /\ Length(text) \in Nat /\ start \in Nat
  BY TextBoundaries
<1>2. size \in Nat
  BY DEF Limits
<1> HIDE DEF size
<1>3. reach(start) \in Nat /\ start <= reach(start)
      /\ reach(start) <= start + size /\ reach(start) <= Length(text)
  BY <1>1, <1>2 DEF Least
<1>4. /\ Floor(text, reach(start)) \in Boundaries(text) /\ Floor(text, reach(start)) \in Nat
      /\ Floor(text, reach(start)) <= reach(start)
      /\ \A z \in Boundaries(text) : z <= reach(start) => z <= Floor(text, reach(start))
  BY <1>3, FloorIsGreatest
<1>5. ChunkEnd(text, start) = Floor(text, reach(start))
  BY DEF ChunkEnd, size
<1>6. ASSUME NEW later \in Boundaries(text), start <= later
      PROVE  ChunkEnd(text, start) <= ChunkEnd(text, later)
  <2>1. later \in Nat /\ reach(later) \in Nat /\ reach(start) <= reach(later)
    BY <1>1, <1>2, <1>6 DEF Least
  <2>2. /\ Floor(text, reach(later)) \in Nat
        /\ \A z \in Boundaries(text) : z <= reach(later) => z <= Floor(text, reach(later))
    BY <2>1, FloorIsGreatest
  <2>3. Floor(text, reach(start)) <= reach(later)
    BY <1>3, <1>4, <2>1
  <2>4. Floor(text, reach(start)) <= Floor(text, reach(later))
    BY <1>4, <2>2, <2>3
  <2> QED  BY <1>5, <2>4 DEF ChunkEnd, size
<1> HIDE DEF reach
<1>7. /\ ChunkEnd(text, start) \in Boundaries(text) /\ ChunkEnd(text, start) \in Nat
      /\ start <= ChunkEnd(text, start)
  BY <1>3, <1>4, <1>5
<1>8. ChunkEnd(text, start) <= Length(text) /\ ChunkEnd(text, start) <= start + size
  BY <1>1, <1>2, <1>3, <1>4, <1>5
<1>9. ChunkEnd(text, start) - start <= limits.chunkBytes
  <2>1. ChunkEnd(text, start) - start <= size
    BY <1>1, <1>2, <1>7, <1>8
  <2> QED  BY <2>1 DEF size
<1> QED  BY <1>6, <1>7, <1>8, <1>9

LEMMA NextStarts ==
    ASSUME limits \in Limits, NEW text \in Seq(Nat \ {0}), NEW start \in Boundaries(text),
           NEW end \in Boundaries(text), start < end
    PROVE  /\ NextStart(text, start, end) \in Boundaries(text)
           /\ NextStart(text, start, end) \in Nat
           /\ start < NextStart(text, start, end) /\ NextStart(text, start, end) <= end
<1> DEFINE next == IF end <= limits.overlap THEN 0 ELSE Floor(text, end - limits.overlap)
<1>1. Boundaries(text) \subseteq Nat /\ 0 \in Boundaries(text) /\ start \in Nat /\ end \in Nat
  BY TextBoundaries
<1>2. limits.overlap \in Nat
  BY DEF Limits
<1>3. next \in Boundaries(text) /\ next \in Nat /\ next <= end
  <2>1. CASE end <= limits.overlap
    BY <1>1, <2>1
  <2>2. CASE ~(end <= limits.overlap)
    <3>1. end - limits.overlap \in Nat /\ end - limits.overlap <= end
      BY <1>1, <1>2, <2>2
    <3>2. /\ Floor(text, end - limits.overlap) \in Boundaries(text)
          /\ Floor(text, end - limits.overlap) \in Nat
          /\ Floor(text, end - limits.overlap) <= end - limits.overlap
      BY <3>1, FloorIsGreatest
    <3> QED  BY <1>1, <1>2, <2>2, <3>1, <3>2
  <2> QED  BY <2>1, <2>2
<1>4. NextStart(text, start, end) = IF next > start THEN next ELSE end
  BY DEF NextStart
<1> HIDE DEF next
<1> QED  BY <1>1, <1>3, <1>4

LEMMA SizesAreNumbers ==
    ASSUME NEW S, NEW list \in Seq([unit : S, start : Nat, end : Nat]),
           \A i \in DOMAIN list : list[i].start < list[i].end
    PROVE  Written(list) \in Nat
<1> DEFINE sizes == [i \in DOMAIN list |-> list[i].end - list[i].start]
<1>1. Len(list) \in Nat /\ DOMAIN list = 1 .. Len(list)
  BY LenProperties
<1>2. ASSUME NEW i \in 1 .. Len(list) PROVE list[i].end - list[i].start \in Nat
  <2>1. list[i] \in [unit : S, start : Nat, end : Nat]
    BY <1>2, ElementOfSeq
  <2>2. list[i].start < list[i].end
    BY <1>1
  <2> QED  BY <2>1, <2>2
<1>3. sizes \in [1 .. Len(list) -> Nat]
  BY <1>1, <1>2
<1>4. sizes \in Seq(Nat)
  <2> HIDE DEF sizes
  <2>1. \E n \in Nat : sizes \in [1 .. n -> Nat]
    BY <1>1, <1>3
  <2> QED  BY <2>1, SeqDef
<1> QED  BY <1>4, SumBounds DEF Written

\* What the reader knows when it cuts.
LEMMA AtCut ==
    ASSUME ReaderSound, reader.pc = "cut"
    PROVE  /\ ReaderShape /\ WithinLimits /\ Cutting /\ outcome = "none" /\ limits \in Limits
           /\ reader.unit \in 1 .. Len(file.units) /\ Unit.text \in Seq(Nat \ {0})
           /\ reader.start \in Nat
           /\ Boundaries(Unit.text) \subseteq Nat /\ Length(Unit.text) \in Nat
           /\ InUnit => Len(chunks) \in 1 .. Len(chunks)
           /\ ~InUnit => \A i \in 1 .. Len(chunks) : chunks[i].unit < reader.unit
<1>1. /\ ReaderShape /\ WithinLimits /\ Cutting /\ outcome = "none"
  BY DEF ReaderSound
<1>2. /\ reader.unit \in 1 .. Len(file.units) /\ reader.start \in Nat
  BY <1>1, FileShape DEF ReaderShape, Cutting
<1>3. limits \in Limits /\ Unit.text \in Seq(Nat \ {0})
  BY <1>1, <1>2, FileShape DEF Unit
<1>4. Boundaries(Unit.text) \subseteq Nat /\ Length(Unit.text) \in Nat
  BY <1>3, TextBoundaries
<1>5. chunks # <<>> => Len(chunks) \in 1 .. Len(chunks)
  <2>1. chunks \in Seq([unit : 1 .. reader.unit, start : Nat, end : Nat])
    BY <1>1 DEF ReaderShape
  <2> QED  BY <2>1
<1>6. ASSUME ~InUnit, NEW i \in 1 .. Len(chunks) PROVE chunks[i].unit < reader.unit
  <2> DEFINE l == Len(chunks)
  <2>1. l \in Nat /\ l \in 1 .. l /\ i <= l
    BY <1>1, ChunkShape
  <2>2. chunks[l].unit # reader.unit
    <3>1. chunks # <<>>
      BY <2>1
    <3> QED  BY <1>6, <3>1 DEF InUnit
  <2>3. chunks[i].unit <= chunks[l].unit
    BY <1>1, <2>1, ChunkShape DEF ReaderShape
  <2>4. chunks[i].unit \in 1 .. reader.unit /\ chunks[l].unit \in 1 .. reader.unit
    BY <1>1, <2>1, ChunkShape
  <2>5. reader.unit \in Nat
    BY <1>1 DEF ReaderShape
  <2> QED  BY <2>2, <2>3, <2>4, <2>5
<1> QED  BY <1>1, <1>2, <1>3, <1>4, <1>5, <1>6 DEF InUnit

\* A text that ends where the reader is has no characters.
LEMMA EmptyTextSound ==
    ASSUME ReaderSound, reader.pc = "cut", reader.start >= Length(Unit.text), Goes("unit")
    PROVE  ReaderSound'
<1>1. /\ ReaderShape /\ Cutting /\ outcome = "none"
      /\ reader.unit \in 1 .. Len(file.units) /\ Unit.text \in Seq(Nat \ {0})
      /\ reader.start \in Nat /\ Length(Unit.text) \in Nat
      /\ InUnit => Len(chunks) \in 1 .. Len(chunks)
  BY AtCut
<1>2. ~InUnit
  <2>1. SUFFICES ASSUME InUnit PROVE FALSE
    OBVIOUS
  <2>2. /\ reader.start <= chunks[Len(chunks)].end
        /\ chunks[Len(chunks)].end < Length(Unit.text)
    BY <1>1, <2>1 DEF Cutting
  <2>3. chunks[Len(chunks)].end \in Nat
    BY <1>1, <2>1, ChunkShape
  <2> QED  BY <1>1, <2>2, <2>3
<1>3. Unit.text = <<>>
  <2>1. reader.start = 0
    BY <1>1, <1>2 DEF Cutting
  <2>2. ~(Length(Unit.text) > 0)
    BY <1>1, <2>1
  <2> QED  BY <1>1, <2>2, TextBoundaries
<1>4. Whole(reader.unit)
  <2>1. \A i \in DOMAIN chunks : Placed(i) /\ ReachesEnd(i)
    BY <1>1, <1>2 DEF Cutting
  <2>2. Covered(reader.unit)
    BY <1>3 DEF Covered, Unit
  <2>3. \A u \in 1 .. reader.unit : u = reader.unit \/ u \in 1 .. reader.unit - 1
    BY <1>1
  <2>4. \A u \in 1 .. reader.unit - 1 : Covered(u)
    BY <1>1 DEF Cutting
  <2> QED  BY <2>1, <2>2, <2>3, <2>4 DEF Whole
<1> QED  BY <1>1, <1>4, GoesSound DEF ReaderSteps

LEMMA NewChunk ==
    ASSUME ReaderSound, reader.pc = "cut", reader.start < Length(Unit.text),
           Refusal(reader.start, ChunkEnd(Unit.text, reader.start)) = "none"
    PROVE  LET end == ChunkEnd(Unit.text, reader.start)
           IN /\ end \in Boundaries(Unit.text) /\ end \in Nat /\ reader.start < end
              /\ end - reader.start <= limits.chunkBytes /\ end <= Length(Unit.text)
              /\ Extended(reader.start, end) \in Seq([unit : 1 .. reader.unit, start : Nat, end : Nat])
              /\ Len(Extended(reader.start, end)) = Len(chunks) + 1
              /\ Len(chunks) + 1 <= limits.chunks
              /\ \A i \in 1 .. Len(chunks) : Extended(reader.start, end)[i] = chunks[i]
              /\ Extended(reader.start, end)[Len(chunks) + 1]
                   = [unit |-> reader.unit, start |-> reader.start, end |-> end]
              /\ \A i \in 1 .. Len(chunks) + 1 :
                   Extended(reader.start, end)[i].start < Extended(reader.start, end)[i].end
              /\ Written(Extended(reader.start, end)) <= limits.output
<1> DEFINE end == ChunkEnd(Unit.text, reader.start)
           more == Extended(reader.start, end)
           row == [unit |-> reader.unit, start |-> reader.start, end |-> end]
           Row == [unit : 1 .. reader.unit, start : Nat, end : Nat]
<1>1. /\ ReaderShape /\ Cutting /\ limits \in Limits
      /\ reader.unit \in 1 .. Len(file.units) /\ Unit.text \in Seq(Nat \ {0})
      /\ reader.start \in Nat /\ Length(Unit.text) \in Nat
      /\ reader.start \in Boundaries(Unit.text)
  BY AtCut DEF Cutting
<1>2. /\ end \in Boundaries(Unit.text) /\ end \in Nat /\ reader.start <= end
      /\ end - reader.start <= limits.chunkBytes /\ end <= Length(Unit.text)
  BY <1>1, ChunkEnds
<1>3. /\ Len(chunks) < limits.chunks /\ end # reader.start
      /\ end > reader.start => ~(Written(more) > limits.output)
  <2>1. limits.chunks \in Nat /\ Len(chunks) \in Nat
    BY <1>1, ChunkShape DEF Limits
  <2>2. Len(chunks) < limits.chunks
    BY <2>1 DEF Refusal
  <2>3. end # reader.start
    BY <2>1, <2>2 DEF Refusal
  <2>4. end > reader.start => ~(Written(more) > limits.output)
    BY <1>2, <2>1, <2>2, <2>3 DEF Refusal
  <2> QED  BY <2>2, <2>3, <2>4
<1> HIDE DEF end
<1>4. reader.start < end
  BY <1>1, <1>2, <1>3
<1>5. row \in Row /\ chunks \in Seq(Row)
  <2>1. reader.unit \in 1 .. reader.unit
    BY <1>1, FileShape
  <2> QED  BY <1>1, <1>2, <2>1 DEF ReaderShape
<1>6. /\ more \in Seq(Row) /\ Len(more) = Len(chunks) + 1
      /\ \A i \in 1 .. Len(chunks) : more[i] = chunks[i]
      /\ more[Len(chunks) + 1] = row
  <2>1. more = Append(chunks, row)
    BY DEF Extended
  <2> HIDE DEF row, Row, more
  <2> QED  BY <1>5, <2>1, AppendProperties
<1>7. Len(chunks) \in Nat /\ \A i \in 1 .. Len(chunks) : chunks[i].start < chunks[i].end
  BY <1>1, ChunkShape DEF ReaderShape
<1>8. \A i \in 1 .. Len(chunks) + 1 : more[i].start < more[i].end
  <2> HIDE DEF more
  <2>1. ASSUME NEW i \in 1 .. Len(chunks) + 1 PROVE more[i].start < more[i].end
    <3>1. i \in 1 .. Len(chunks) \/ i = Len(chunks) + 1
      BY <1>7
    <3>2. CASE i \in 1 .. Len(chunks)
      <4>1. more[i] = chunks[i] /\ chunks[i].start < chunks[i].end
        BY <1>6, <1>7, <3>2
      <4> QED  BY <4>1
    <3>3. CASE i = Len(chunks) + 1
      <4>1. more[i] = row
        BY <1>6, <3>3
      <4> QED  BY <1>4, <4>1
    <3> QED  BY <3>1, <3>2, <3>3
  <2> QED  BY <2>1
<1>9. Written(more) <= limits.output
  <2> HIDE DEF more
  <2>1. Written(more) \in Nat
    <3>1. \A i \in DOMAIN more : more[i].start < more[i].end
      BY <1>6, <1>8, LenProperties
    <3> QED  BY <1>6, <3>1, SizesAreNumbers
  <2>2. limits.output \in Nat
    BY <1>1 DEF Limits
  <2> QED  BY <1>3, <1>4, <2>1, <2>2, <1>1, <1>2
<1>10. Len(chunks) + 1 <= limits.chunks
  <2>1. limits.chunks \in Nat
    BY <1>1 DEF Limits
  <2> QED  BY <1>3, <1>7, <2>1
<1> HIDE DEF more, row, Row
<1> QED  BY <1>2, <1>4, <1>6, <1>8, <1>9, <1>10 DEF end, more, row, Row

LEMMA CutSound == ASSUME ReaderSound, Cut PROVE ReaderSound'
<1> DEFINE start == reader.start
           text == Unit.text
           end == ChunkEnd(text, start)
           next == NextStart(text, start, end)
           Row == [unit : 1 .. reader.unit, start : Nat, end : Nat]
<1>0. PICK n : n = Len(chunks) + 1
  OBVIOUS
<1>1. /\ reader.pc = "cut" /\ ReaderShape /\ WithinLimits /\ Cutting /\ outcome = "none"
      /\ limits \in Limits
      /\ reader.unit \in 1 .. Len(file.units) /\ text \in Seq(Nat \ {0})
      /\ start \in Nat /\ Boundaries(text) \subseteq Nat /\ Length(text) \in Nat
      /\ InUnit => Len(chunks) \in 1 .. Len(chunks)
      /\ ~InUnit => \A i \in 1 .. Len(chunks) : chunks[i].unit < reader.unit
  BY AtCut DEF Cut
<1>2. CASE start >= Length(text)
  <2>1. Goes("unit")
    BY <1>2 DEF Cut
  <2> QED  BY <1>1, <1>2, <2>1, EmptyTextSound
<1>3. CASE ~(start >= Length(text)) /\ Refusal(start, end) # "none"
  <2>1. Refuse(Refusal(start, end))
    BY <1>3 DEF Cut
  <2>2. Refusal(start, end) \in {"chunk_limit", "invalid_limits", "output_too_large", "none"}
    BY DEF Refusal
  <2> QED  BY <1>3, <2>1, <2>2, RefuseSound DEF Outcomes
<1>4. CASE ~(start >= Length(text)) /\ Refusal(start, end) = "none"
  <2>1. start < Length(text)
    BY <1>1, <1>4
  <2>2. /\ chunks' = Extended(start, end)
        /\ reader' = IF end = Length(text) THEN [reader EXCEPT !.pc = "unit"]
                     ELSE [reader EXCEPT !.start = next]
        /\ UNCHANGED <<file, limits, outcome>>
    BY <1>4 DEF Cut
  <2>3. /\ end \in Boundaries(text) /\ end \in Nat /\ start < end
        /\ end - start <= limits.chunkBytes /\ end <= Length(text)
        /\ chunks' \in Seq(Row)
        /\ Len(chunks') = n /\ n <= limits.chunks
        /\ \A i \in 1 .. Len(chunks) : chunks'[i] = chunks[i]
        /\ chunks'[n] = [unit |-> reader.unit, start |-> start, end |-> end]
        /\ \A i \in 1 .. n : chunks'[i].start < chunks'[i].end
        /\ Written(chunks') <= limits.output
    BY <1>0, <1>1, <1>4, <2>1, <2>2, NewChunk
  <2> HIDE DEF Row
  <2>4. start \in Boundaries(text)
    BY <1>1 DEF Cutting
  <2>5. next \in Boundaries(text) /\ next \in Nat /\ start < next /\ next <= end
    BY <1>1, <2>3, <2>4, NextStarts
  <2>0. Len(chunks) \in Nat /\ DOMAIN chunks = 1 .. Len(chunks)
    BY <1>1, ChunkShape
  <2>6. /\ Len(chunks) \in Nat /\ n \in Nat /\ n = Len(chunks) + 1 /\ n \in 1 .. n
        /\ \A i \in 1 .. n : i \in 1 .. Len(chunks) \/ i = n
        /\ \A i \in 1 .. Len(chunks) : i \in 1 .. n /\ i < n /\ i \in Nat
    BY <1>0, <2>0
  <2>60. DOMAIN chunks' = 1 .. n
    BY <2>3, LenProperties
  <2> HIDE DEF end, next
  <2>7. /\ reader' \in [pc : ReaderSteps, unit : 0 .. Len(file.units), start : Nat, unpacked : Nat]
        /\ reader'.unit = reader.unit /\ reader'.unpacked = reader.unpacked
        /\ IF end = Length(text) THEN reader'.pc = "unit"
           ELSE reader'.pc = "cut" /\ reader'.start = next
    <3>1. reader \in [pc : ReaderSteps, unit : 0 .. Len(file.units), start : Nat, unpacked : Nat]
      BY <1>1 DEF ReaderShape
    <3>2. CASE end = Length(text)
      BY <2>2, <3>1, <3>2 DEF ReaderSteps
    <3>3. CASE end # Length(text)
      BY <1>1, <2>2, <2>5, <3>1, <3>3 DEF ReaderSteps
    <3> QED  BY <3>2, <3>3
  <2>8. ReaderShape'
    <3>1. \A i, k \in 1 .. n : i <= k => chunks'[i].unit <= chunks'[k].unit
      <4>1. ASSUME NEW i \in 1 .. n, NEW k \in 1 .. n, i <= k
            PROVE  chunks'[i].unit <= chunks'[k].unit
        <5>1. CASE k = n
          <6>1. chunks'[i] \in Row
            BY <2>3, ElementOfSeq
          <6>2. chunks'[i] \in [unit : 1 .. reader.unit, start : Nat, end : Nat]
            BY <6>1 DEF Row
          <6> QED  BY <2>3, <5>1, <6>2
        <5>2. CASE k # n
          <6>1. i \in 1 .. Len(chunks) /\ k \in 1 .. Len(chunks)
            BY <2>6, <4>1, <5>2
          <6> QED  BY <1>1, <2>0, <2>3, <4>1, <6>1 DEF ReaderShape
        <5> QED  BY <5>1, <5>2
      <4> QED  BY <4>1
    <3>2. chunks' \in Seq([unit : 1 .. reader'.unit, start : Nat, end : Nat])
      BY <2>3, <2>7 DEF Row
    <3>3. \A i \in DOMAIN chunks' : chunks'[i].start < chunks'[i].end
      BY <2>3, <2>6
    <3>4. \A i, k \in DOMAIN chunks' : i <= k => chunks'[i].unit <= chunks'[k].unit
      BY <2>60, <3>1
    <3>5. /\ file' \in FileSet /\ limits' \in LimitSet /\ outcome' \in Outcomes
          /\ reader' \in [pc : ReaderSteps, unit : 0 .. Len(file'.units), start : Nat, unpacked : Nat]
      BY <1>1, <2>2, <2>7 DEF ReaderShape
    <3> QED  BY <3>2, <3>3, <3>4, <3>5 DEF ReaderShape
  <2>9. WithinLimits'
    BY <1>1, <2>2, <2>3, <2>7 DEF WithinLimits
  <2>10. ASSUME NEW i \in 1 .. Len(chunks) PROVE Placed(i)'
    <3>1. Placed(i)
      BY <1>1, <2>6, <2>10 DEF Cutting
    <3>2. chunks'[i] = chunks[i] /\ (i > 1 => chunks'[i - 1] = chunks[i - 1])
      BY <2>3, <2>6, <2>10
    <3> QED  BY <2>2, <3>1, <3>2 DEF Placed, TextOf, Continues
  <2>11. ASSUME NEW i \in 1 .. Len(chunks) PROVE ReachesEnd(i)'
    <3>1. chunks'[i] = chunks[i] /\ (i < Len(chunks) => chunks'[i + 1] = chunks[i + 1])
      BY <2>3, <2>6, <2>11
    <3>2. CASE i < Len(chunks)
      <4>1. ReachesEnd(i)
        BY <1>1, <2>6, <2>11, <3>2 DEF Cutting
      <4>2. i < Len(chunks')
        BY <2>3, <2>6, <3>2
      <4> QED  BY <2>2, <3>1, <3>2, <4>1, <4>2 DEF ReachesEnd, TextOf, Continued
    <3>3. CASE i = Len(chunks)
      <4>1. CASE InUnit
        <5>1. i < Len(chunks') /\ chunks'[i + 1].unit = reader.unit /\ chunks'[i].unit = reader.unit
          BY <2>3, <2>6, <3>1, <3>3, <4>1 DEF InUnit
        <5> QED  BY <5>1 DEF ReachesEnd, Continued
      <4>2. CASE ~InUnit
        <5>1. ReachesEnd(i)
          BY <1>1, <2>6, <2>11, <4>2 DEF Cutting
        <5>2. chunks[i].end = Length(TextOf(i))
          BY <3>3, <2>6, <5>1 DEF ReachesEnd, Continued
        <5> QED  BY <2>2, <3>1, <5>2 DEF ReachesEnd, TextOf
      <4> QED  BY <4>1, <4>2
    <3> QED  BY <2>6, <2>11, <3>2, <3>3
  <2>12. Placed(n)'
    <3>1. {chunks'[n].start, chunks'[n].end} \subseteq Boundaries(file'.units[chunks'[n].unit].text)
      BY <2>2, <2>3, <2>4 DEF Unit
    <3>2. chunks'[n].end - chunks'[n].start <= limits'.chunkBytes
      BY <2>2, <2>3
    <3>3. CASE InUnit
      <4> DEFINE l == Len(chunks)
                 last == chunks[l]
      <4>1. /\ last.start < start /\ start <= last.end /\ last.end = ChunkEnd(text, last.start)
            /\ last.unit = reader.unit /\ l \in 1 .. Len(chunks) /\ n - 1 = l /\ n > 1
        BY <1>1, <2>6, <3>3 DEF Cutting, InUnit
      <4>2. /\ last.start \in Boundaries(text) /\ last.start \in Nat
        <5>1. Placed(l)
          BY <1>1, <2>6, <4>1 DEF Cutting
        <5>2. TextOf(l) = text
          BY <4>1 DEF TextOf, Unit
        <5> QED  BY <1>1, <4>1, <5>1, <5>2 DEF Placed
      <4>3. last.end <= end
        <5>1. last.start <= Length(text) /\ last.start <= start
          BY <1>1, <2>1, <4>1, <4>2
        <5> QED  BY <1>1, <2>4, <4>1, <4>2, <5>1, ChunkEnds DEF end
      <4>4. chunks'[l] = last /\ chunks'[n].unit = reader.unit
        BY <2>3, <4>1
      <4>5. /\ Continues(n)'
            /\ chunks'[n - 1].start < chunks'[n].start /\ chunks'[n].start <= chunks'[n - 1].end
            /\ chunks'[n - 1].end <= chunks'[n].end
        <5> HIDE DEF l, last
        <5>1. /\ n > 1 /\ chunks'[n - 1].unit = chunks'[n].unit
              /\ chunks'[n - 1].start < chunks'[n].start /\ chunks'[n].start <= chunks'[n - 1].end
              /\ chunks'[n - 1].end <= chunks'[n].end
          BY <2>3, <4>1, <4>3, <4>4
        <5> QED  BY <5>1 DEF Continues
      <4> QED  BY <3>1, <3>2, <4>5 DEF Placed, TextOf
    <3>4. CASE ~InUnit
      <4>1. start = 0
        BY <1>1, <3>4 DEF Cutting
      <4>2. ~Continues(n)'
        <5>1. SUFFICES ASSUME n > 1, chunks'[n - 1].unit = chunks'[n].unit PROVE FALSE
          BY DEF Continues
        <5>2. n - 1 \in 1 .. Len(chunks)
          BY <2>6, <5>1
        <5>3. chunks[n - 1].unit < reader.unit /\ chunks'[n - 1] = chunks[n - 1]
          BY <1>1, <2>3, <3>4, <5>2
        <5>4. chunks[n - 1].unit = reader.unit
          BY <2>3, <5>1, <5>3
        <5> QED  BY <1>1, <5>3, <5>4
      <4>3. chunks'[n].start = 0
        BY <2>3, <4>1
      <4> QED  BY <3>1, <3>2, <4>2, <4>3 DEF Placed, TextOf
    <3> QED  BY <3>3, <3>4
  <2>13. \A i \in DOMAIN chunks' : Placed(i)'
    BY <2>6, <2>60, <2>10, <2>12
  <2>14. \A u \in 1 .. reader.unit : u # reader.unit => Covered(u)'
    <3>1. ASSUME NEW u \in 1 .. reader.unit, u # reader.unit PROVE Covered(u)'
      <4>1. u \in 1 .. reader.unit - 1
        BY <1>1, <3>1
      <4>2. Covered(u)
        BY <1>1, <4>1 DEF Cutting
      <4>3. CASE file.units[u].text = <<>>
        BY <2>2, <4>3 DEF Covered
      <4>4. CASE \E i \in DOMAIN chunks : chunks[i].unit = u
        <5>1. PICK i \in 1 .. Len(chunks) : chunks[i].unit = u
          BY <2>6, <4>4
        <5>2. i \in DOMAIN chunks' /\ chunks'[i].unit = u
          BY <2>3, <2>6, <5>1
        <5> QED  BY <5>2 DEF Covered
      <4> QED  BY <4>2, <4>3, <4>4 DEF Covered
    <3> QED  BY <3>1
  <2>15. Covered(reader.unit)'
    <3>1. n \in DOMAIN chunks' /\ chunks'[n].unit = reader.unit
      BY <2>3, <2>6
    <3> QED  BY <2>7, <3>1 DEF Covered
  <2>16. CASE end = Length(text)
    <3>1. ReachesEnd(n)'
      <4>1. chunks'[n].end = Length(file'.units[chunks'[n].unit].text)
        <5>1. chunks'[n].end = end /\ chunks'[n].unit = reader.unit
          BY <2>3
        <5>2. file'.units[reader.unit].text = text
          BY <2>2 DEF Unit
        <5> HIDE DEF text
        <5> QED  BY <2>16, <5>1, <5>2
      <4> QED  BY <4>1 DEF ReachesEnd, TextOf
    <3>2. Whole(reader.unit)'
      <4>1. \A i \in DOMAIN chunks' : ReachesEnd(i)'
        BY <2>6, <2>60, <2>11, <3>1
      <4>2. \A u \in 1 .. reader.unit : Covered(u)'
        <5>1. ASSUME NEW u \in 1 .. reader.unit PROVE Covered(u)'
          <6>1. CASE u = reader.unit
            BY <2>15, <2>7, <6>1 DEF Covered
          <6>2. CASE u # reader.unit
            BY <2>14, <6>2
          <6> QED  BY <6>1, <6>2
        <5> QED  BY <5>1
      <4> QED  BY <2>7, <2>13, <4>1, <4>2 DEF Whole
    <3> QED  BY <1>1, <2>2, <2>7, <2>8, <2>9, <2>16, <3>2 DEF ReaderSound, NothingRead
  <2>17. CASE end # Length(text)
    <3>1. reader'.pc = "cut" /\ reader'.start = next /\ reader'.unit = reader.unit
      BY <2>7, <2>17
    <3>2. InUnit' /\ chunks'[Len(chunks')] = chunks'[n]
      <4>1. chunks' # <<>> /\ Len(chunks') = n
        BY <2>3, <2>6
      <4>2. chunks'[Len(chunks')].unit = reader'.unit
        BY <2>3, <3>1, <4>1
      <4> QED  BY <4>1, <4>2 DEF InUnit
    <3>3. next \in Boundaries(Unit.text)' /\ reader'.unit > 0
      BY <1>1, <2>2, <2>5, <3>1 DEF Unit
    <3>4. \A i \in DOMAIN chunks' : i < Len(chunks') => ReachesEnd(i)'
      <4>1. \A i \in DOMAIN chunks' : i < Len(chunks') => i \in 1 .. Len(chunks)
        BY <2>3, <2>6
      <4> QED  BY <2>11, <4>1
    <3>5. \A u \in 1 .. reader'.unit - 1 : Covered(u)'
      <4>1. \A u \in 1 .. reader.unit - 1 : u \in 1 .. reader.unit /\ u # reader.unit
        BY <1>1
      <4> QED  BY <2>14, <3>1, <4>1
    <3>6. /\ start < next /\ next <= end /\ end < Length(text) /\ end = ChunkEnd(text, start)
      BY <1>1, <2>3, <2>5, <2>17 DEF end
    <3>7. /\ chunks'[Len(chunks')].start < reader'.start
          /\ reader'.start <= chunks'[Len(chunks')].end
      BY <2>3, <3>1, <3>2, <3>6
    <3>8. chunks'[Len(chunks')].end < Length(Unit.text)'
      <4>1. chunks'[Len(chunks')].end = end
        BY <2>3, <3>2
      <4> QED  BY <2>2, <3>1, <3>6, <4>1 DEF Unit
    <3>9. chunks'[Len(chunks')].end = ChunkEnd(Unit.text, chunks[Len(chunks)].start)'
      <4>1. chunks'[Len(chunks')].end = end /\ chunks'[Len(chunks')].start = start
        BY <2>3, <3>2
      <4> QED  BY <2>2, <3>1, <3>6, <4>1 DEF Unit, ChunkEnd
    <3>10. Cutting'
      BY <2>13, <3>1, <3>2, <3>3, <3>4, <3>5, <3>7, <3>8, <3>9 DEF Cutting
    <3> QED  BY <1>1, <2>2, <2>7, <2>8, <2>9, <3>1, <3>10 DEF ReaderSound, NothingRead
  <2> QED  BY <2>16, <2>17
<1> QED  BY <1>2, <1>3, <1>4

LEMMA ReaderStays == ASSUME ReaderSound, UNCHANGED readerVars PROVE ReaderSound'
<1>1. /\ file' = file /\ limits' = limits /\ reader' = reader /\ chunks' = chunks
      /\ outcome' = outcome
  BY DEF readerVars
<1>2. ReaderShape /\ reader.unit \in Nat
  BY FileShape DEF ReaderSound, ReaderShape
<1>3. /\ ReaderShape' /\ Written(chunks') = Written(chunks)
      /\ \A i \in DOMAIN chunks : (Placed(i)' <=> Placed(i)) /\ (ReachesEnd(i)' <=> ReachesEnd(i))
      /\ \A u : Covered(u)' <=> Covered(u)
  BY <1>1, <1>2, ChunksStay DEF ReaderShape
<1>4. Cutting' <=> Cutting
  BY <1>1, <1>3 DEF Cutting, InUnit, Unit, ChunkEnd
<1>5. \A u \in Nat : Whole(u)' <=> Whole(u)
  BY <1>1, <1>3 DEF Whole
<1>6. Whole(reader.unit)' <=> Whole(reader.unit)
  BY <1>1, <1>3 DEF Whole
<1> QED  BY <1>1, <1>3, <1>4, <1>6 DEF ReaderSound, WithinLimits, NothingRead

LEMMA ReaderHolds == ReaderSpec => []ReaderSound
<1>1. ReaderInit => ReaderSound
  BY ReaderInitSound
<1>2. ASSUME ReaderSound, [ReaderNext]_readerVars PROVE ReaderSound'
  <2>1. CASE OpenFile
    BY <1>2, <2>1, OpenSound
  <2>2. CASE AdmitFile
    BY <1>2, <2>2, AdmitSound
  <2>3. CASE NextUnit
    BY <1>2, <2>3, NextUnitSound
  <2>4. CASE Cut
    BY <1>2, <2>4, CutSound
  <2>5. CASE InterruptReader
    BY <1>2, <2>5, InterruptSound
  <2>6. CASE \E found \in {0, file.size, file.size + 1} : ReadSource(found)
    BY <1>2, <2>6, ReadSound
  <2>7. CASE \E side \in {0, limits.side, limits.side + 1} : Probe(side)
    BY <1>2, <2>7, ProbeSound
  <2>8. CASE UNCHANGED readerVars
    BY <1>2, <2>8, ReaderStays
  <2> QED  BY <1>2, <2>1, <2>2, <2>3, <2>4, <2>5, <2>6, <2>7, <2>8 DEF ReaderNext
<1> QED  BY <1>1, <1>2, PTL DEF ReaderSpec

\* Whatever the file and the limits are, a reader keeps to the shapes of ReaderTypeOK: each
\* chunk is of a unit of its file, and each outcome one that the readers know.
THEOREM ReaderIsWellTyped == ReaderSpec => []ReaderTypeOK
<1>1. ReaderSound => ReaderTypeOK
  <2> SUFFICES ASSUME ReaderSound PROVE ReaderTypeOK
    OBVIOUS
  <2>1. ReaderShape /\ (reader.pc = "cut" => reader.unit > 0)
    BY DEF ReaderSound, Cutting
  <2>2. DOMAIN file.units = 1 .. Len(file.units)
    <3>1. file.units \in Seq([text : Seq(Nat \ {0}), claimed : Nat, real : Nat])
      BY <2>1, FilesAndLimits DEF ReaderShape
    <3> QED  BY <3>1
  <2>3. \A i \in DOMAIN chunks : chunks[i].unit \in DOMAIN file.units
    BY <2>1, <2>2, ChunkShape
  <2>4. chunks \in Seq(ChunkRows)
    <3>1. [unit : 1 .. reader.unit, start : Nat, end : Nat] \subseteq ChunkRows
      BY DEF ChunkRows
    <3>2. chunks \in Seq([unit : 1 .. reader.unit, start : Nat, end : Nat])
      BY <2>1 DEF ReaderShape
    <3> QED  BY <3>1, <3>2, SeqMonotonic
  <2>5. file.kind \in ReaderKinds /\ limits \in Limits
    BY <2>1, FileShape
  <2>6. outcome \in Outcomes /\ reader.unit \in 0 .. Len(file.units)
    BY <2>1 DEF ReaderShape
  <2> QED  BY <2>1, <2>3, <2>4, <2>5, <2>6 DEF ReaderTypeOK
<1> QED  BY <1>1, ReaderHolds, PTL

\* A reader that succeeds has given all text of its file, in order, in chunks that overlap or
\* meet, cut between characters, and within every limit it was given (validate_output,
\* chunk_text and the readers that call them).
THEOREM OutputsAreWhole == ReaderSpec => []OutputIsWhole
<1>1. ReaderSound => OutputIsWhole
  <2> SUFFICES ASSUME ReaderSound PROVE OutputIsWhole
    OBVIOUS
  <2>1. ReaderShape /\ WithinLimits
    BY DEF ReaderSound
  <2>2. ASSUME outcome = "output"
        PROVE  /\ \A i \in DOMAIN chunks : Tiles(i, file.units[chunks[i].unit].text)
               /\ \A i, k \in DOMAIN chunks : i <= k => chunks[i].unit <= chunks[k].unit
               /\ \A u \in DOMAIN file.units : Covered(u)
    <3>1. Whole(reader.unit) /\ reader.unit = Len(file.units)
      BY <2>2 DEF ReaderSound
    <3>2. DOMAIN file.units = 1 .. Len(file.units)
      <4>1. file.units \in Seq([text : Seq(Nat \ {0}), claimed : Nat, real : Nat])
        BY <2>1, FilesAndLimits DEF ReaderShape
      <4> QED  BY <4>1
    <3>3. ASSUME NEW i \in DOMAIN chunks
          PROVE  Tiles(i, file.units[chunks[i].unit].text)
      <4>1. Placed(i) /\ ReachesEnd(i) /\ chunks[i].start < chunks[i].end
        BY <2>1, <3>1, <3>3 DEF Whole, ReaderShape
      <4> QED  BY <4>1 DEF Placed, ReachesEnd, Tiles, TextOf
    <3> QED  BY <2>1, <3>1, <3>2, <3>3 DEF Whole, ReaderShape
  <2> QED  BY <2>1, <2>2 DEF OutputIsWhole, WithinLimits, Covered
<1> QED  BY <1>1, ReaderHolds, PTL

-----------------------------------------------------------------------------
(* Recursion over numbers, and the least of a set.                          *)

\* The provers do not take an induction over a predicate; over a set they do.
LEMMA UpTo ==
    ASSUME NEW k \in Nat, NEW T, 0 \in T, \A n \in 1 .. k : n - 1 \in T => n \in T
    PROVE  0 .. k \subseteq T
<1> DEFINE out == (0 .. k) \ T
<1>1. SUFFICES ASSUME out # {} PROVE FALSE
  OBVIOUS
<1>2. PICK m \in out : \A n \in out : m <= n
  <2>1. out \subseteq Nat
    OBVIOUS
  <2> QED  BY <1>1, <2>1, LeastNumber
<1>3. m \in 1 .. k /\ m - 1 \in 0 .. k /\ m - 1 \notin out
  BY <1>2
<1>4. m - 1 \in T
  BY <1>3
<1> QED  BY <1>2, <1>3, <1>4

\* What a recursive function over 0 .. k is, when each of its steps is a function on T.
Recurses(T, base, k, step) ==
    \E f \in [0 .. k -> T] : f[0] = base /\ \A n \in 1 .. k : f[n] = step[n][f[n - 1]]
LEMMA Recursion ==
    ASSUME NEW T, NEW base \in T, NEW k \in Nat, NEW step \in [1 .. k -> [T -> T]]
    PROVE  Recurses(T, base, k, step)
<1> DEFINE Done(n, f) == f \in [0 .. n -> T] /\ f[0] = base
                           /\ \A m \in 1 .. n : f[m] = step[m][f[m - 1]]
           S == {n \in 0 .. k : \E f : Done(n, f)}
<1>1. 0 \in S
  <2> DEFINE one == [n \in 0 .. 0 |-> base]
  <2>1. one \in [0 .. 0 -> T] /\ one[0] = base
    OBVIOUS
  <2>2. 1 .. 0 = {}
    OBVIOUS
  <2> HIDE DEF one
  <2>3. Done(0, one)
    BY <2>1, <2>2
  <2> QED  BY <2>3
<1>2. ASSUME NEW n \in 1 .. k, n - 1 \in S PROVE n \in S
  <2>1. PICK f : Done(n - 1, f)
    BY <1>2
  <2> DEFINE g == [m \in 0 .. n |-> IF m = n THEN step[n][f[n - 1]] ELSE f[m]]
  <2>2. n \in Nat /\ n - 1 \in 0 .. n - 1 /\ 0 # n
    OBVIOUS
  <2>3. step[n][f[n - 1]] \in T
    BY <2>1, <2>2
  <2>4. g \in [0 .. n -> T]
    <3>1. \A m \in 0 .. n : m = n \/ m \in 0 .. n - 1
      BY <2>2
    <3> QED  BY <2>1, <2>3, <3>1
  <2>5. g[0] = base
    BY <2>1, <2>2
  <2>6. ASSUME NEW m \in 1 .. n PROVE g[m] = step[m][g[m - 1]]
    <3>1. m \in 0 .. n /\ m - 1 \in 0 .. n /\ m - 1 # n
      BY <2>2
    <3>2. g[m - 1] = f[m - 1]
      BY <3>1
    <3>3. CASE m = n
      <4>1. g[m] = step[n][f[n - 1]]
        BY <3>1, <3>3
      <4> QED  BY <3>2, <3>3, <4>1
    <3>4. CASE m # n
      <4>1. m \in 1 .. n - 1 /\ g[m] = f[m]
        BY <3>1, <3>4
      <4> QED  BY <2>1, <3>2, <4>1
    <3> QED  BY <3>3, <3>4
  <2> HIDE DEF g
  <2>7. Done(n, g)
    BY <2>4, <2>5, <2>6
  <2> QED  BY <2>7
<1>3. 0 .. k \subseteq S
  <2> HIDE DEF S
  <2> QED  BY <1>1, <1>2, UpTo
<1>4. k \in S
  BY <1>3
<1> QED  BY <1>4 DEF Recurses

-----------------------------------------------------------------------------
(* Ranks.                                                                  *)

LEMMA LeastBy ==
    ASSUME NEW S, S # {}, NEW val, \A e \in S : val[e] \in Nat
    PROVE  \E e \in S : \A d \in S : val[e] <= val[d]
<1> DEFINE T == {val[e] : e \in S}
<1>1. T \subseteq Nat /\ T # {}
  OBVIOUS
<1>2. PICK m \in T : \A n \in T : m <= n
  BY <1>1, LeastNumber
<1> QED  BY <1>2

\* Among finitely or infinitely many keys one is the least.
LEMMA LeastKey ==
    ASSUME NEW S, S # {}, NEW key, \A e \in S : key[e] \in Nat \X Nat \X Nat \X Nat \X Nat
    PROVE  \E e \in S : \A d \in S : ~ Precedes(key[d], key[e])
<1> DEFINE Part(n) == [e \in S |-> key[e][n]]
           Lowest(U, n) == {e \in U : \A d \in U : key[e][n] <= key[d][n]}
<1>1. ASSUME NEW e \in S PROVE /\ DOMAIN key[e] = 1 .. 5
                               /\ \A n \in 1 .. 5 : key[e][n] \in Nat
  <2>1. key[e] \in Nat \X Nat \X Nat \X Nat \X Nat
    OBVIOUS
  <2> QED  BY <2>1
<1>2. ASSUME NEW U \in SUBSET S, U # {}, NEW n \in 1 .. 5
      PROVE  Lowest(U, n) # {} /\ Lowest(U, n) \subseteq U
  <2>1. \A e \in U : Part(n)[e] = key[e][n] /\ Part(n)[e] \in Nat
    BY <1>1
  <2>2. \E e \in U : \A d \in U : Part(n)[e] <= Part(n)[d]
    <3> HIDE DEF Part
    <3> QED  BY <1>2, <2>1, LeastBy
  <2> QED  BY <2>1, <2>2
<1> DEFINE S1 == Lowest(S, 1)  S2 == Lowest(S1, 2)  S3 == Lowest(S2, 3)
           S4 == Lowest(S3, 4)  S5 == Lowest(S4, 5)
<1>2b. \A U \in SUBSET S, n \in 1 .. 5 :
         U # {} => Lowest(U, n) # {} /\ Lowest(U, n) \subseteq U
  BY <1>2
<1>2c. \A U \in SUBSET S, n \in 1 .. 5 : \A e \in Lowest(U, n), d \in U : key[e][n] <= key[d][n]
  OBVIOUS
<1>2d. \A U \in SUBSET S, n \in 1 .. 5 : \A d \in U, e \in Lowest(U, n) :
         key[d][n] = key[e][n] => d \in Lowest(U, n)
  OBVIOUS
<1>3. /\ S1 # {} /\ S1 \subseteq S /\ \A e \in S1, d \in S : key[e][1] <= key[d][1]
      /\ S2 # {} /\ S2 \subseteq S1 /\ \A e \in S2, d \in S1 : key[e][2] <= key[d][2]
      /\ S3 # {} /\ S3 \subseteq S2 /\ \A e \in S3, d \in S2 : key[e][3] <= key[d][3]
      /\ S4 # {} /\ S4 \subseteq S3 /\ \A e \in S4, d \in S3 : key[e][4] <= key[d][4]
      /\ S5 # {} /\ S5 \subseteq S4 /\ \A e \in S5, d \in S4 : key[e][5] <= key[d][5]
  <2> HIDE DEF Lowest
  <2>1. S1 # {} /\ S1 \subseteq S
    BY <1>2b
  <2> HIDE DEF S1
  <2>2. S2 # {} /\ S2 \subseteq S1
    BY <1>2b, <2>1
  <2> HIDE DEF S2
  <2>3. S3 # {} /\ S3 \subseteq S2
    BY <1>2b, <2>1, <2>2
  <2> HIDE DEF S3
  <2>4. S4 # {} /\ S4 \subseteq S3
    BY <1>2b, <2>1, <2>2, <2>3
  <2> HIDE DEF S4
  <2>5. S5 # {} /\ S5 \subseteq S4
    BY <1>2b, <2>1, <2>2, <2>3, <2>4
  <2>6. /\ \A e \in S1, d \in S : key[e][1] <= key[d][1]
        /\ \A e \in S2, d \in S1 : key[e][2] <= key[d][2]
        /\ \A e \in S3, d \in S2 : key[e][3] <= key[d][3]
        /\ \A e \in S4, d \in S3 : key[e][4] <= key[d][4]
        /\ \A e \in S5, d \in S4 : key[e][5] <= key[d][5]
    BY <1>2c, <2>1, <2>2, <2>3, <2>4 DEF S1, S2, S3, S4, S5
  <2> QED  BY <2>1, <2>2, <2>3, <2>4, <2>5, <2>6
<1>4. /\ \A d \in S, e \in S1 : key[d][1] = key[e][1] => d \in S1
      /\ \A d \in S1, e \in S2 : key[d][2] = key[e][2] => d \in S2
      /\ \A d \in S2, e \in S3 : key[d][3] = key[e][3] => d \in S3
      /\ \A d \in S3, e \in S4 : key[d][4] = key[e][4] => d \in S4
  OBVIOUS
<1> HIDE DEF S1, S2, S3, S4, S5
<1>5. PICK e \in S5 : TRUE
  BY <1>3
<1>6. ASSUME NEW d \in S, Precedes(key[d], key[e]) PROVE FALSE
  <2>0. e \in S1 /\ e \in S2 /\ e \in S3 /\ e \in S4 /\ e \in S
    BY <1>3, <1>5
  <2>1. PICK n \in 1 .. 5 : key[d][n] < key[e][n] /\ \A m \in 1 .. n - 1 : key[d][m] = key[e][m]
    BY <1>1, <1>6 DEF Precedes
  <2>2. \A m \in 1 .. 5 : key[d][m] \in Nat /\ key[e][m] \in Nat
    BY <1>1, <2>0
  <2>3. ~ (key[e][n] <= key[d][n])
    BY <2>1, <2>2
  <2>4. CASE n = 1
    BY <1>3, <2>0, <2>3, <2>4
  <2>5. CASE n > 1
    <3>1. 1 \in 1 .. n - 1
      BY <2>5
    <3>2. d \in S1
      BY <1>4, <2>0, <2>1, <3>1
    <3>3. CASE n = 2
      BY <1>3, <2>0, <2>3, <3>2, <3>3
    <3>4. CASE n > 2
      <4>1. 2 \in 1 .. n - 1
        BY <3>4
      <4>2. d \in S2
        BY <1>4, <2>0, <2>1, <3>2, <4>1
      <4>3. CASE n = 3
        BY <1>3, <2>0, <2>3, <4>2, <4>3
      <4>4. CASE n > 3
        <5>1. 3 \in 1 .. n - 1
          BY <4>4
        <5>2. d \in S3
          BY <1>4, <2>0, <2>1, <4>2, <5>1
        <5>3. CASE n = 4
          BY <1>3, <2>0, <2>3, <5>2, <5>3
        <5>4. CASE n > 4
          <6>1. 4 \in 1 .. n - 1 /\ n = 5
            BY <5>4
          <6>2. d \in S4
            BY <1>4, <2>0, <2>1, <5>2, <6>1
          <6> QED  BY <1>3, <1>5, <2>3, <6>1, <6>2
        <5> QED  BY <4>4, <5>3, <5>4
      <4> QED  BY <3>4, <4>3, <4>4
    <3> QED  BY <2>5, <3>3, <3>4
  <2> QED  BY <2>4, <2>5
<1> QED  BY <1>3, <1>5, <1>6

-----------------------------------------------------------------------------
(* What the ranking returns.                                               *)

Marks == [path : Nat, text : Nat, snippet : Chunks \cup {0}]
Found == [Entries -> Marks]
RowsOf == [entry : Entries, chunk : Chunks \cup {0}, revision : Nat]
Ranked == [entry : Entries, snippet : Chunks \cup {0}]
RowLists == {list \in Seq(RowsOf) : Len(list) <= PerSource}
RankedLists == Seq(Ranked)

LEMMA Smaller ==
    ASSUME NEW x \in Nat, NEW y \in Nat
    PROVE  Min({x, y}) \in Nat
<1>1. \E m \in {x, y} : \A n \in {x, y} : m <= n
  OBVIOUS
<1>2. Min({x, y}) \in {x, y}
  BY <1>1 DEF Min
<1> QED  BY <1>2

LEMMA MarksStayMarks ==
    ASSUME NEW list \in Seq(RowsOf), NEW found \in Found, NEW i \in 1 .. Len(list)
    PROVE  AtPath(list, found, i) \in Found /\ AtText(list, found, i) \in Found
<1>1. /\ list[i] \in RowsOf /\ i \in Nat
  OBVIOUS
<1> DEFINE e == list[i].entry
<1>2. e \in Entries /\ list[i].chunk \in Chunks \cup {0}
  BY <1>1 DEF RowsOf
<1> HIDE DEF e
<1>3. found[e] \in Marks
  BY <1>2 DEF Found
<1>4. Min({found[e].path, i}) \in Nat /\ Min({found[e].text, i}) \in Nat
  BY <1>1, <1>3, Smaller DEF Marks
<1> DEFINE byPath == [found[e] EXCEPT !.path = Min({@, i})]
           byText == [found[e] EXCEPT !.text = Min({@, i}),
                                      !.snippet = IF @ = 0 THEN list[i].chunk ELSE @]
<1>5. byPath \in Marks /\ byText \in Marks
  BY <1>2, <1>3, <1>4 DEF Marks
<1>6. AtPath(list, found, i) = [found EXCEPT ![e] = byPath]
  BY DEF AtPath, e
<1>7. AtText(list, found, i) = [found EXCEPT ![e] = byText]
  BY <1>2, <1>3 DEF AtText, e, Found, Marks
<1> HIDE DEF byPath, byText
<1> QED  BY <1>5, <1>6, <1>7 DEF Found

LEMMA Reached ==
    ASSUME NEW T, NEW base \in T, NEW k \in Nat, NEW step \in [1 .. k -> [T -> T]],
           NEW f, f[0] = base, \A n \in 1 .. k : f[n - 1] \in T => f[n] = step[n][f[n - 1]]
    PROVE  \A n \in 0 .. k : f[n] \in T
<1> DEFINE S == {n \in 0 .. k : f[n] \in T}
<1>1. 0 \in S
  OBVIOUS
<1>2. \A n \in 1 .. k : n - 1 \in S => n \in S
  OBVIOUS
<1> HIDE DEF S
<1>3. 0 .. k \subseteq S
  BY <1>1, <1>2, UpTo
<1> QED  BY <1>3 DEF S

\* The marks of the rows of a list, put one after the other.
LEMMA NamesAreMarked ==
    ASSUME NEW list \in Seq(RowsOf), NEW none \in Found
    PROVE  LET named[i \in 0 .. Len(list)] == IF i = 0 THEN none ELSE AtPath(list, named[i - 1], i)
           IN \E f : /\ f[0] = none /\ \A n \in 0 .. Len(list) : f[n] \in Found
                     /\ \A n \in 1 .. Len(list) : f[n] = AtPath(list, f[n - 1], n)
                     /\ named[Len(list)] = f[Len(list)]
<1> DEFINE k == Len(list)
           step == [n \in 1 .. k |-> [x \in Found |-> AtPath(list, x, n)]]
           Is(h) == h = [n \in 0 .. k |-> IF n = 0 THEN none ELSE AtPath(list, h[n - 1], n)]
           named == CHOOSE f : Is(f)
<1>1. k \in Nat
  OBVIOUS
<1>2. step \in [1 .. k -> [Found -> Found]]
  BY MarksStayMarks
<1>3. PICK f \in [0 .. k -> Found] :
        f[0] = none /\ \A n \in 1 .. k : f[n] = step[n][f[n - 1]]
  <2> HIDE DEF step, k, Is, named
  <2>1. none \in Found
    OBVIOUS
  <2>2. Recurses(Found, none, k, step)
    BY <1>1, <1>2, <2>1, Recursion
  <2> QED  BY <2>2 DEF Recurses
<1>4. Is(f)
  <2>1. ASSUME NEW n \in 0 .. k PROVE f[n] = IF n = 0 THEN none ELSE AtPath(list, f[n - 1], n)
    <3>1. CASE n = 0
      BY <1>3, <3>1
    <3>2. CASE n # 0
      <4>1. n \in 1 .. k /\ n - 1 \in 0 .. k
        BY <1>1, <3>2
      <4>2. f[n - 1] \in Found /\ f[n] = step[n][f[n - 1]]
        BY <1>3, <4>1
      <4>3. step[n][f[n - 1]] = AtPath(list, f[n - 1], n)
        BY <4>1, <4>2
      <4> QED  BY <3>2, <4>2, <4>3
    <3> QED  BY <3>1, <3>2
  <2> DEFINE same == [n \in 0 .. k |-> f[n]]
             next == [n \in 0 .. k |-> IF n = 0 THEN none ELSE AtPath(list, f[n - 1], n)]
  <2>2. same = next
    BY <2>1, Zenon
  <2>3. f = same
    <3> HIDE DEF k
    <3> QED  BY <1>3
  <2> HIDE DEF same, next
  <2>4. f = next
    BY <2>2, <2>3
  <2> QED  BY <2>4 DEF next
<1>5. Is(named)
  BY <1>4, Zenon
<1> HIDE DEF named
<1>6. named[0] = none
  BY <1>1, <1>5
<1>7. \A n \in 1 .. k : named[n] = AtPath(list, named[n - 1], n)
  <2>1. \A n \in 1 .. k : n \in 0 .. k /\ n # 0
    BY <1>1
  <2> HIDE DEF k
  <2> QED  BY <1>5, <2>1
<1>8. \A n \in 0 .. k : named[n] \in Found
  <2>1. \A n \in 1 .. k : named[n - 1] \in Found => named[n] = step[n][named[n - 1]]
    BY <1>7
  <2> HIDE DEF step, k
  <2> QED  BY <1>1, <1>2, <1>6, <2>1, Reached
<1>9. \E h : /\ h[0] = none /\ \A n \in 0 .. k : h[n] \in Found
             /\ \A n \in 1 .. k : h[n] = AtPath(list, h[n - 1], n)
             /\ named[k] = h[k]
  <2> HIDE DEF k
  <2> QED  BY <1>6, <1>7, <1>8
<1> QED  BY <1>9 DEF named

LEMMA TextsAreMarked ==
    ASSUME NEW list \in Seq(RowsOf), NEW none \in Found
    PROVE  LET found[i \in 0 .. Len(list)] == IF i = 0 THEN none ELSE AtText(list, found[i - 1], i)
           IN \E f : /\ f[0] = none /\ \A n \in 0 .. Len(list) : f[n] \in Found
                     /\ \A n \in 1 .. Len(list) : f[n] = AtText(list, f[n - 1], n)
                     /\ found[Len(list)] = f[Len(list)]
<1> DEFINE k == Len(list)
           step == [n \in 1 .. k |-> [x \in Found |-> AtText(list, x, n)]]
           Is(h) == h = [n \in 0 .. k |-> IF n = 0 THEN none ELSE AtText(list, h[n - 1], n)]
           found == CHOOSE f : Is(f)
<1>1. k \in Nat
  OBVIOUS
<1>2. step \in [1 .. k -> [Found -> Found]]
  BY MarksStayMarks
<1>3. PICK f \in [0 .. k -> Found] :
        f[0] = none /\ \A n \in 1 .. k : f[n] = step[n][f[n - 1]]
  <2> HIDE DEF step, k, Is, found
  <2>1. none \in Found
    OBVIOUS
  <2>2. Recurses(Found, none, k, step)
    BY <1>1, <1>2, <2>1, Recursion
  <2> QED  BY <2>2 DEF Recurses
<1>4. Is(f)
  <2>1. ASSUME NEW n \in 0 .. k PROVE f[n] = IF n = 0 THEN none ELSE AtText(list, f[n - 1], n)
    <3>1. CASE n = 0
      BY <1>3, <3>1
    <3>2. CASE n # 0
      <4>1. n \in 1 .. k /\ n - 1 \in 0 .. k
        BY <1>1, <3>2
      <4>2. f[n - 1] \in Found /\ f[n] = step[n][f[n - 1]]
        BY <1>3, <4>1
      <4>3. step[n][f[n - 1]] = AtText(list, f[n - 1], n)
        BY <4>1, <4>2
      <4> QED  BY <3>2, <4>2, <4>3
    <3> QED  BY <3>1, <3>2
  <2> DEFINE same == [n \in 0 .. k |-> f[n]]
             next == [n \in 0 .. k |-> IF n = 0 THEN none ELSE AtText(list, f[n - 1], n)]
  <2>2. same = next
    BY <2>1, Zenon
  <2>3. f = same
    <3> HIDE DEF k
    <3> QED  BY <1>3
  <2> HIDE DEF same, next
  <2>4. f = next
    BY <2>2, <2>3
  <2> QED  BY <2>4 DEF next
<1>5. Is(found)
  BY <1>4, Zenon
<1> HIDE DEF found
<1>6. found[0] = none
  BY <1>1, <1>5
<1>7. \A n \in 1 .. k : found[n] = AtText(list, found[n - 1], n)
  <2>1. \A n \in 1 .. k : n \in 0 .. k /\ n # 0
    BY <1>1
  <2> HIDE DEF k
  <2> QED  BY <1>5, <2>1
<1>8. \A n \in 0 .. k : found[n] \in Found
  <2>1. \A n \in 1 .. k : found[n - 1] \in Found => found[n] = step[n][found[n - 1]]
    BY <1>7
  <2> HIDE DEF step, k
  <2> QED  BY <1>1, <1>2, <1>6, <2>1, Reached
<1>9. \E h : /\ h[0] = none /\ \A n \in 0 .. k : h[n] \in Found
             /\ \A n \in 1 .. k : h[n] = AtText(list, h[n - 1], n)
             /\ found[k] = h[k]
  <2> HIDE DEF k
  <2> QED  BY <1>6, <1>7, <1>8
<1> QED  BY <1>9 DEF found

Unmarked == [e \in Entries |-> [path |-> Unranked, text |-> Unranked, snippet |-> 0]]
\* Each row of a list marks its entry, in the order of the list.
Marking(paths, texts, f, g) ==
    /\ f[0] = Unmarked /\ g[0] = f[Len(paths)]
    /\ \A n \in 0 .. Len(paths) : f[n] \in Found
    /\ \A n \in 0 .. Len(texts) : g[n] \in Found
    /\ \A n \in 1 .. Len(paths) : f[n] = AtPath(paths, f[n - 1], n)
    /\ \A n \in 1 .. Len(texts) : g[n] = AtText(texts, g[n - 1], n)

LEMMA CombinedMarks ==
    ASSUME PerSource \in Nat, NEW paths \in RowLists, NEW texts \in RowLists
    PROVE  \E f, g : Marking(paths, texts, f, g) /\ Combined(paths, texts) = g[Len(texts)]
<1> DEFINE Named(f) == f = [i \in 0 .. Len(paths) |->
                              IF i = 0 THEN Unmarked ELSE AtPath(paths, f[i - 1], i)]
           named == CHOOSE f : Named(f)
           all == named[Len(paths)]
           Texted(f) == f = [i \in 0 .. Len(texts) |-> IF i = 0 THEN all ELSE AtText(texts, f[i - 1], i)]
           texted == CHOOSE f : Texted(f)
<1>0. paths \in Seq(RowsOf) /\ texts \in Seq(RowsOf) /\ Len(paths) \in Nat /\ Len(texts) \in Nat
  BY DEF RowLists
<1>1. Unmarked \in Found
  BY DEF Unmarked, Found, Marks, Unranked
<1>2. PICK f : /\ f[0] = Unmarked /\ \A n \in 0 .. Len(paths) : f[n] \in Found
               /\ \A n \in 1 .. Len(paths) : f[n] = AtPath(paths, f[n - 1], n)
               /\ all = f[Len(paths)]
  BY <1>0, <1>1, NamesAreMarked
<1>3. all \in Found
  BY <1>0, <1>2
<1>4. Combined(paths, texts) = texted[Len(texts)]
  BY DEF Combined, Unmarked
<1> HIDE DEF all
<1>5. PICK g : /\ g[0] = all /\ \A n \in 0 .. Len(texts) : g[n] \in Found
               /\ \A n \in 1 .. Len(texts) : g[n] = AtText(texts, g[n - 1], n)
               /\ texted[Len(texts)] = g[Len(texts)]
  BY <1>0, <1>3, TextsAreMarked
<1> HIDE DEF texted
<1>6. Marking(paths, texts, f, g)
  BY <1>2, <1>5 DEF Marking
<1> QED  BY <1>4, <1>5, <1>6

LEMMA CombinedIsMarked ==
    ASSUME PerSource \in Nat, NEW paths \in RowLists, NEW texts \in RowLists
    PROVE  Combined(paths, texts) \in Found
<1>1. PICK f, g : Marking(paths, texts, f, g) /\ Combined(paths, texts) = g[Len(texts)]
  BY CombinedMarks
<1>2. Len(texts) \in 0 .. Len(texts)
  BY DEF RowLists
<1> QED  BY <1>1, <1>2 DEF Marking

LEMMA SomeIsForemost ==
    ASSUME Entries \subseteq Nat, NEW found \in Found, NEW some \in SUBSET Entries, some # {}
    PROVE  \E e \in some : \A d \in some : ~ Precedes(SortKey(found, d), SortKey(found, e))
<1> DEFINE key == [e \in some |-> SortKey(found, e)]
<1>1. ASSUME NEW e \in some PROVE SortKey(found, e) \in Nat \X Nat \X Nat \X Nat \X Nat
  <2>1. e \in Entries /\ e \in Nat
    OBVIOUS
  <2>2. found[e].path \in Nat /\ found[e].text \in Nat
    BY <2>1 DEF Found, Marks
  <2>3. /\ (IF e \in Exact THEN 0 ELSE 1) \in Nat
        /\ (IF found[e].path # Unranked /\ found[e].text # Unranked THEN 0 ELSE 1) \in Nat
    OBVIOUS
  <2> QED  BY <2>1, <2>2, <2>3 DEF SortKey
<1>2. \A e \in some : key[e] \in Nat \X Nat \X Nat \X Nat \X Nat /\ key[e] = SortKey(found, e)
  BY <1>1
<1> HIDE DEF key
<1>3. \E e \in some : \A d \in some : ~ Precedes(key[d], key[e])
  BY <1>2, LeastKey
<1>4. \E e \in some : \A d \in some : ~ Precedes(SortKey(found, d), SortKey(found, e))
  BY <1>2, <1>3
<1> QED  BY <1>4

LEMMA ForemostIsOne ==
    ASSUME Entries \subseteq Nat, NEW found \in Found, NEW some \in SUBSET Entries, some # {}
    PROVE  Foremost(found, some) \in some
BY SomeIsForemost DEF Foremost

LEMMA EntriesOfRows ==
    ASSUME NEW list \in RowLists
    PROVE  EntriesIn(list) \subseteq Entries
<1>1. \A i \in DOMAIN list : list[i].entry \in Entries
  <2>1. \A i \in DOMAIN list : list[i] \in RowsOf
    BY DEF RowLists
  <2> QED  BY <2>1 DEF RowsOf
<1> QED  BY <1>1 DEF EntriesIn

\* The n first of some entries: in the order of their keys, each once, none of the others before.
RanksFirst(b, marks, some, n) ==
    /\ b \in Seq(some) /\ Len(b) <= n
    /\ \A i, j \in 1 .. Len(b) :
         i < j => b[i] # b[j] /\ ~Precedes(SortKey(marks, b[j]), SortKey(marks, b[i]))
    /\ \A i \in 1 .. Len(b), e \in some \ ToSet(b) :
         ~Precedes(SortKey(marks, e), SortKey(marks, b[i]))
    /\ Len(b) = n \/ some \subseteq ToSet(b)

LEMMA OneMore ==
    ASSUME NEW S, NEW b \in Seq(S), NEW x \in S
    PROVE  /\ Append(b, x) \in Seq(S) /\ Len(Append(b, x)) = Len(b) + 1 /\ Len(b) \in Nat
           /\ \A i \in 1 .. Len(b) : Append(b, x)[i] = b[i] /\ b[i] \in ToSet(b)
           /\ Append(b, x)[Len(b) + 1] = x
           /\ ToSet(Append(b, x)) = ToSet(b) \cup {x}
<1>1. /\ Append(b, x) \in Seq(S) /\ Len(Append(b, x)) = Len(b) + 1 /\ Len(b) \in Nat
      /\ \A i \in 1 .. Len(b) : Append(b, x)[i] = b[i] /\ b[i] \in ToSet(b)
      /\ Append(b, x)[Len(b) + 1] = x
  BY DEF ToSet
<1> DEFINE l == Append(b, x)
<1>2. DOMAIN l = 1 .. Len(b) + 1 /\ DOMAIN b = 1 .. Len(b)
  BY <1>1
<1> HIDE DEF l
<1>3. \A i \in 1 .. Len(b) + 1 : i \in 1 .. Len(b) \/ i = Len(b) + 1
  BY <1>1
<1>4. Len(b) + 1 \in 1 .. Len(b) + 1 /\ 1 .. Len(b) \subseteq 1 .. Len(b) + 1
  BY <1>1
<1>5. ToSet(l) = ToSet(b) \cup {x}
  BY <1>1, <1>2, <1>3, <1>4 DEF ToSet, l
<1> QED  BY <1>1, <1>5 DEF l

LEMMA FirstOnes ==
    ASSUME Entries \subseteq Nat, NEW marks \in Found, NEW some \in SUBSET Entries,
           NEW n \in Nat \ {0}, NEW b, RanksFirst(b, marks, some, n - 1)
    PROVE  LET left == some \ ToSet(b)
           IN RanksFirst(IF left = {} THEN b ELSE Append(b, Foremost(marks, left)), marks, some, n)
<1> DEFINE left == some \ ToSet(b)
<1>1. /\ b \in Seq(some) /\ Len(b) <= n - 1 /\ Len(b) \in Nat
      /\ \A i, j \in 1 .. Len(b) :
           i < j => b[i] # b[j] /\ ~Precedes(SortKey(marks, b[j]), SortKey(marks, b[i]))
      /\ \A i \in 1 .. Len(b), e \in left : ~Precedes(SortKey(marks, e), SortKey(marks, b[i]))
      /\ Len(b) = n - 1 \/ some \subseteq ToSet(b)
  BY DEF RanksFirst
<1>2. CASE left = {}
  <2>1. some \subseteq ToSet(b) /\ Len(b) <= n
    BY <1>1, <1>2
  <2> QED  BY <1>1, <1>2, <2>1 DEF RanksFirst
<1>3. CASE left # {}
  <2> DEFINE x == Foremost(marks, left)
             l == Append(b, x)
  <2>1. x \in left /\ \A d \in left : ~Precedes(SortKey(marks, d), SortKey(marks, x))
    <3>1. left \in SUBSET Entries
      OBVIOUS
    <3>2. \E e \in left : \A d \in left : ~Precedes(SortKey(marks, d), SortKey(marks, e))
      BY <1>3, <3>1, SomeIsForemost
    <3> HIDE DEF left
    <3> QED  BY <3>2 DEF Foremost
  <2> HIDE DEF x
  <2>2. /\ l \in Seq(some) /\ Len(l) = n
        /\ \A i \in 1 .. Len(b) : l[i] = b[i] /\ b[i] \in ToSet(b)
        /\ l[n] = x /\ ToSet(l) = ToSet(b) \cup {x} /\ Len(b) = n - 1
    BY <1>1, <1>3, <2>1, OneMore
  <2> HIDE DEF l
  <2>3. ASSUME NEW i \in 1 .. n, NEW j \in 1 .. n, i < j
        PROVE  l[i] # l[j] /\ ~Precedes(SortKey(marks, l[j]), SortKey(marks, l[i]))
    <3>1. i \in 1 .. Len(b) /\ (j \in 1 .. Len(b) \/ j = n)
      BY <2>2, <2>3
    <3>2. l[i] = b[i] /\ b[i] \in ToSet(b)
      BY <2>2, <3>1
    <3>3. CASE j \in 1 .. Len(b)
      BY <1>1, <2>2, <2>3, <3>1, <3>2, <3>3
    <3>4. CASE j = n
      BY <1>1, <2>1, <2>2, <3>1, <3>2, <3>4
    <3> QED  BY <3>1, <3>3, <3>4
  <2>4. ASSUME NEW i \in 1 .. n, NEW e \in some \ ToSet(l)
        PROVE  ~Precedes(SortKey(marks, e), SortKey(marks, l[i]))
    <3>1. e \in left
      BY <2>2
    <3>2. CASE i = n
      BY <2>1, <2>2, <3>1, <3>2
    <3>3. CASE i # n
      <4>1. i \in 1 .. Len(b)
        BY <2>2, <3>3
      <4> QED  BY <1>1, <2>2, <3>1, <4>1
    <3> QED  BY <3>2, <3>3
  <2>5. RanksFirst(l, marks, some, n)
    BY <2>2, <2>3, <2>4 DEF RanksFirst
  <2> QED  BY <1>3, <2>5 DEF l, x
<1> QED  BY <1>2, <1>3

\* The ranking of what the queries found.
LEMMA RankingIsBest ==
    ASSUME Entries \subseteq Nat, PerSource \in Nat, Limit \in Nat,
           NEW paths \in RowLists, NEW texts \in RowLists
    PROVE  LET marks == Combined(paths, texts)
               some == EntriesIn(paths) \cup EntriesIn(texts)
           IN \E best \in Seq(Entries) :
                /\ RanksFirst(best, marks, some, Limit)
                /\ RankCandidates(paths, texts) =
                     [i \in 1 .. Len(best) |->
                        [entry |-> best[i], snippet |-> marks[best[i]].snippet]]
<1> DEFINE some == EntriesIn(paths) \cup EntriesIn(texts)
           marks == Combined(paths, texts)
           left(b) == some \ ToSet(b)
           add(b) == IF left(b) = {} THEN b ELSE Append(b, Foremost(marks, left(b)))
           step == [n \in 1 .. Limit |-> [b \in Seq(some) |-> add(b)]]
           Is(f) == f = [n \in 0 .. Limit |-> IF n = 0 THEN <<>> ELSE add(f[n - 1])]
           best == CHOOSE f : Is(f)
<1>1. marks \in Found /\ some \in SUBSET Entries
  BY CombinedIsMarked, EntriesOfRows
<1> HIDE DEF marks, some
<1>2. ASSUME NEW b \in Seq(some) PROVE add(b) \in Seq(some)
  <2>1. CASE left(b) = {}
    BY <2>1
  <2>2. CASE left(b) # {}
    <3>1. left(b) \in SUBSET Entries
      BY <1>1
    <3>2. Foremost(marks, left(b)) \in left(b)
      BY <1>1, <2>2, <3>1, ForemostIsOne
    <3>3. Foremost(marks, left(b)) \in some
      BY <3>2
    <3> QED  BY <2>2, <3>3
  <2> QED  BY <2>1, <2>2
<1>2b. ASSUME NEW n \in 1 .. Limit, NEW b, RanksFirst(b, marks, some, n - 1)
       PROVE  RanksFirst(add(b), marks, some, n)
  <2>1. n \in Nat \ {0}
    OBVIOUS
  <2> QED  BY <1>1, <1>2b, <2>1, FirstOnes
<1> HIDE DEF add, left
<1>3. step \in [1 .. Limit -> [Seq(some) -> Seq(some)]]
  BY <1>2
<1>4. PICK f \in [0 .. Limit -> Seq(some)] :
        f[0] = <<>> /\ \A n \in 1 .. Limit : f[n] = step[n][f[n - 1]]
  <2> HIDE DEF step, Is, best
  <2>1. <<>> \in Seq(some)
    OBVIOUS
  <2>2. Recurses(Seq(some), <<>>, Limit, step)
    BY <1>3, <2>1, Recursion
  <2> QED  BY <2>2 DEF Recurses
<1>5. Is(f)
  <2>1. ASSUME NEW n \in 0 .. Limit PROVE f[n] = IF n = 0 THEN <<>> ELSE add(f[n - 1])
    <3>1. CASE n = 0
      BY <1>4, <3>1
    <3>2. CASE n # 0
      <4>1. n \in 1 .. Limit /\ n - 1 \in 0 .. Limit
        BY <3>2
      <4>2. f[n - 1] \in Seq(some) /\ f[n] = step[n][f[n - 1]]
        BY <1>4, <4>1
      <4>3. step[n][f[n - 1]] = add(f[n - 1])
        BY <4>1, <4>2
      <4> QED  BY <3>2, <4>2, <4>3
    <3> QED  BY <3>1, <3>2
  <2> DEFINE same == [n \in 0 .. Limit |-> f[n]]
             next == [n \in 0 .. Limit |-> IF n = 0 THEN <<>> ELSE add(f[n - 1])]
  <2>2. same = next
    BY <2>1, Zenon
  <2>3. f = same
    BY <1>4
  <2> HIDE DEF same, next
  <2>4. f = next
    BY <2>2, <2>3
  <2> QED  BY <2>4 DEF next
<1>6. Is(best)
  BY <1>5, Zenon
<1> HIDE DEF best
<1>7. \A n \in 0 .. Limit : RanksFirst(best[n], marks, some, n)
  <2> DEFINE S == {n \in 0 .. Limit : RanksFirst(best[n], marks, some, n)}
  <2>1. 0 \in S
    <3>1. best[0] = <<>> /\ 0 \in 0 .. Limit
      BY <1>6
    <3>2. RanksFirst(<<>>, marks, some, 0)
      BY DEF RanksFirst
    <3> HIDE DEF Is, step
    <3> QED  BY <3>1, <3>2, Zenon
  <2>2. ASSUME NEW n \in 1 .. Limit, n - 1 \in S PROVE n \in S
    <3>1. best[n] = add(best[n - 1])
      BY <1>6
    <3>2. RanksFirst(add(best[n - 1]), marks, some, n)
      BY <1>2b, <2>2
    <3> HIDE DEF Is
    <3> QED  BY <3>1, <3>2
  <2> HIDE DEF S
  <2>3. 0 .. Limit \subseteq S
    BY <2>1, <2>2, UpTo
  <2> QED  BY <2>3 DEF S
<1> DEFINE last == best[Limit]
<1>8. RanksFirst(last, marks, some, Limit)
  BY <1>7
<1>9. RankCandidates(paths, texts)
        = [i \in DOMAIN last |-> [entry |-> last[i], snippet |-> marks[last[i]].snippet]]
  BY DEF RankCandidates, best, add, left, marks, some
<1> HIDE DEF last, Is
<1>10. last \in Seq(some)
  BY <1>8 DEF RanksFirst
<1> HIDE DEF step
<1>11. last \in Seq(Entries) /\ DOMAIN last = 1 .. Len(last)
  <2>1. DOMAIN last = 1 .. Len(last)
    BY <1>10
  <2>2. some \subseteq Entries
    BY <1>1
  <2>3. last \in Seq(Entries)
    BY <1>10, <2>2, SeqMonotonic
  <2> QED  BY <2>1, <2>3
<1> QED  BY <1>8, <1>9, <1>11 DEF marks, some

LEMMA RankedEntries ==
    ASSUME NEW marks \in Found, NEW best \in Seq(Entries), NEW ranked,
           ranked = [i \in 1 .. Len(best) |->
                       [entry |-> best[i], snippet |-> marks[best[i]].snippet]]
    PROVE  /\ ranked \in Seq(Ranked) /\ Len(ranked) = Len(best)
           /\ EntriesIn(ranked) = ToSet(best)
<1>1. \A i \in 1 .. Len(best) : best[i] \in Entries /\ marks[best[i]].snippet \in Chunks \cup {0}
  <2>1. \A i \in 1 .. Len(best) : best[i] \in Entries
    OBVIOUS
  <2> QED  BY <2>1 DEF Found, Marks
<1>2. ranked \in [1 .. Len(best) -> Ranked] /\ Len(best) \in Nat /\ DOMAIN best = 1 .. Len(best)
  BY <1>1 DEF Ranked
<1>3. ranked \in Seq(Ranked) /\ Len(ranked) = Len(best) /\ DOMAIN ranked = 1 .. Len(best)
  BY <1>2, IsASeq, LenProperties
<1>4. \A i \in 1 .. Len(best) : ranked[i].entry = best[i]
  OBVIOUS
<1>5. EntriesIn(ranked) = ToSet(best)
  BY <1>2, <1>3, <1>4 DEF EntriesIn, ToSet
<1> QED  BY <1>3, <1>5

\* Only what the queries found is ranked, and no more than was asked for.
LEMMA RankingInvents ==
    ASSUME Entries \subseteq Nat, PerSource \in Nat, Limit \in Nat,
           NEW paths \in RowLists, NEW texts \in RowLists
    PROVE  LET ranked == RankCandidates(paths, texts)
           IN /\ ranked \in RankedLists /\ Len(ranked) <= Limit
              /\ EntriesIn(ranked) \subseteq EntriesIn(paths) \cup EntriesIn(texts)
<1> DEFINE some == EntriesIn(paths) \cup EntriesIn(texts)
           marks == Combined(paths, texts)
<1>1. marks \in Found
  BY CombinedIsMarked
<1>2. PICK best \in Seq(Entries) :
        /\ RanksFirst(best, marks, some, Limit)
        /\ RankCandidates(paths, texts) =
             [i \in 1 .. Len(best) |-> [entry |-> best[i], snippet |-> marks[best[i]].snippet]]
  BY RankingIsBest
<1> HIDE DEF some, marks
<1>3. ToSet(best) \subseteq some /\ Len(best) <= Limit
  BY <1>2 DEF RanksFirst, ToSet
<1>4. /\ RankCandidates(paths, texts) \in Seq(Ranked)
      /\ Len(RankCandidates(paths, texts)) = Len(best)
      /\ EntriesIn(RankCandidates(paths, texts)) = ToSet(best)
  BY <1>1, <1>2, RankedEntries
<1> QED  BY <1>3, <1>4 DEF RankedLists, some

-----------------------------------------------------------------------------
(* The best are listed.                                                    *)

LEMMA MinIs ==
    ASSUME NEW T \in SUBSET Nat, NEW m \in T, \A n \in T : m <= n
    PROVE  Min(T) = m
<1>1. Min(T) \in T /\ \A n \in T : Min(T) <= n
  <2>1. \E x \in T : \A n \in T : x <= n
    OBVIOUS
  <2> QED  BY <2>1 DEF Min
<1>2. Min(T) \in Nat /\ m \in Nat /\ Min(T) <= m /\ m <= Min(T)
  BY <1>1
<1> QED  BY <1>2

FirstUpTo(list, e, k) == Min({i \in 1 .. k : list[i].entry = e} \cup {Unranked})

LEMMA NoneUpTo ==
    ASSUME PerSource \in Nat, NEW list, NEW e
    PROVE  FirstUpTo(list, e, 0) = Unranked
<1> DEFINE T == {i \in 1 .. 0 : list[i].entry = e} \cup {Unranked}
<1>1. T = {Unranked} /\ Unranked \in Nat
  BY DEF Unranked
<1> HIDE DEF T
<1>2. Min(T) = Unranked
  BY <1>1, MinIs
<1> QED  BY <1>2 DEF FirstUpTo, T

LEMMA FirstIsOne ==
    ASSUME PerSource \in Nat, NEW list, NEW e, NEW k \in Nat, k <= PerSource
    PROVE  LET first == FirstUpTo(list, e, k)
           IN /\ first = Unranked \/ (first \in 1 .. k /\ list[first].entry = e)
              /\ \A i \in 1 .. k : list[i].entry = e => first <= i
              /\ first <= Unranked /\ first \in Nat
<1> DEFINE T == {i \in 1 .. k : list[i].entry = e} \cup {Unranked}
<1>1. T \subseteq Nat /\ T # {}
  BY DEF Unranked
<1>2. PICK m \in T : \A n \in T : m <= n
  <2> HIDE DEF T
  <2> QED  BY <1>1, LeastNumber
<1>3. Min(T) = m
  <2> HIDE DEF T
  <2> QED  BY <1>1, <1>2, MinIs
<1>4. FirstUpTo(list, e, k) = m
  BY <1>3 DEF FirstUpTo
<1>5. /\ m = Unranked \/ (m \in 1 .. k /\ list[m].entry = e)
      /\ \A i \in 1 .. k : list[i].entry = e => m <= i
      /\ m <= Unranked /\ m \in Nat
  BY <1>1, <1>2
<1> QED  BY <1>4, <1>5

\* The first place of an entry, when one more row is looked at.
LEMMA FirstWithOneMore ==
    ASSUME PerSource \in Nat, NEW list, NEW e, NEW k \in Nat \ {0}, k <= PerSource
    PROVE  FirstUpTo(list, e, k)
             = IF list[k].entry = e /\ FirstUpTo(list, e, k - 1) = Unranked
               THEN k ELSE FirstUpTo(list, e, k - 1)
<1> DEFINE m == FirstUpTo(list, e, k - 1)
           T == {i \in 1 .. k : list[i].entry = e} \cup {Unranked}
<1>1. k - 1 \in Nat /\ k - 1 <= PerSource /\ k < Unranked
  BY DEF Unranked
<1>2. /\ m = Unranked \/ (m \in 1 .. k - 1 /\ list[m].entry = e)
      /\ \A i \in 1 .. k - 1 : list[i].entry = e => m <= i
      /\ m <= Unranked /\ m \in Nat
  BY <1>1, FirstIsOne
<1> HIDE DEF m
<1>3. T \in SUBSET Nat
  BY DEF Unranked
<1>4. \A i \in 1 .. k : i = k \/ i \in 1 .. k - 1
  OBVIOUS
<1>5. CASE list[k].entry = e /\ m = Unranked
  <2>1. k \in T
    BY <1>5
  <2>2. ASSUME NEW n \in T PROVE k <= n
    <3>1. CASE n = Unranked
      BY <1>1, <3>1 DEF Unranked
    <3>2. CASE n # Unranked
      <4>1. n \in 1 .. k /\ list[n].entry = e
        BY <3>2
      <4>2. CASE n \in 1 .. k - 1
        <5>1. Unranked <= n
          BY <1>2, <1>5, <4>1, <4>2
        <5> QED  BY <1>1, <4>2, <5>1 DEF Unranked
      <4> QED  BY <1>4, <4>1, <4>2
    <3> QED  BY <3>1, <3>2
  <2> HIDE DEF T
  <2>3. Min(T) = k
    BY <1>3, <2>1, <2>2, MinIs
  <2> QED  BY <1>5, <2>3 DEF FirstUpTo, T, m
<1>6. CASE ~(list[k].entry = e /\ m = Unranked)
  <2>1. m \in T
    BY <1>2
  <2>2. ASSUME NEW n \in T PROVE m <= n
    <3>1. CASE n = Unranked
      BY <1>2, <3>1
    <3>2. CASE n # Unranked
      <4>1. n \in 1 .. k /\ list[n].entry = e
        BY <3>2
      <4>2. CASE n \in 1 .. k - 1
        BY <1>2, <4>1, <4>2
      <4>3. CASE n = k
        <5>1. m \in 1 .. k - 1
          BY <1>2, <1>6, <4>1, <4>3
        <5> QED  BY <4>3, <5>1
      <4> QED  BY <1>4, <4>1, <4>2, <4>3
    <3> QED  BY <3>1, <3>2
  <2> HIDE DEF T
  <2>3. Min(T) = m
    BY <1>3, <2>1, <2>2, MinIs
  <2>4. FirstUpTo(list, e, k) = m
    BY <2>3 DEF FirstUpTo, T
  <2> QED  BY <1>6, <2>4 DEF m
<1> QED  BY <1>5, <1>6

\* What the mark of the row at a place makes of the first place before it.
LEMMA EarlierPlace ==
    ASSUME PerSource \in Nat, NEW list, NEW e, NEW k \in Nat \ {0}, k <= PerSource,
           list[k].entry = e
    PROVE  Min({FirstUpTo(list, e, k - 1), k}) = FirstUpTo(list, e, k)
<1> DEFINE m == FirstUpTo(list, e, k - 1)
<1>1. k - 1 \in Nat /\ k - 1 <= PerSource /\ k < Unranked /\ Unranked \in Nat
  BY DEF Unranked
<1>2. m \in Nat /\ (m = Unranked \/ m \in 1 .. k - 1)
  BY <1>1, FirstIsOne
<1>3. FirstUpTo(list, e, k) = IF m = Unranked THEN k ELSE m
  BY FirstWithOneMore
<1> HIDE DEF m
<1>4. CASE m = Unranked
  <2>1. {m, k} \in SUBSET Nat /\ k \in {m, k} /\ \A n \in {m, k} : k <= n
    BY <1>1, <1>4
  <2>2. Min({m, k}) = k
    BY <2>1, MinIs
  <2> QED  BY <1>3, <1>4, <2>2 DEF m
<1>5. CASE m # Unranked
  <2>1. {m, k} \in SUBSET Nat /\ m \in {m, k} /\ \A n \in {m, k} : m <= n
    BY <1>2, <1>5
  <2>2. Min({m, k}) = m
    BY <2>1, MinIs
  <2> QED  BY <1>3, <1>5, <2>2 DEF m
<1> QED  BY <1>4, <1>5

\* What a row makes of the mark of an entry.
PathMark(list, marks, n, e) ==
    IF list[n].entry = e THEN [marks[e] EXCEPT !.path = Min({@, n})] ELSE marks[e]
TextMark(list, marks, n, e) ==
    IF list[n].entry = e
    THEN [marks[e] EXCEPT !.text = Min({@, n}), !.snippet = IF @ = 0 THEN list[n].chunk ELSE @]
    ELSE marks[e]
LEMMA RowsMarkTheirEntry ==
    ASSUME NEW list, NEW marks \in Found, NEW n \in Nat, list[n].entry \in Entries,
           NEW e \in Entries
    PROVE  /\ AtPath(list, marks, n)[e] = PathMark(list, marks, n, e)
           /\ AtText(list, marks, n)[e] = TextMark(list, marks, n, e)
BY DEF AtPath, AtText, PathMark, TextMark, Found, Marks

TextLists == {list \in RowLists : \A i \in 1 .. Len(list) : list[i].chunk \in Chunks}

LEMMA MarksAreFirst ==
    ASSUME PerSource \in Nat, 0 \notin Chunks, NEW paths \in RowLists, NEW texts \in TextLists,
           NEW e \in Entries
    PROVE  LET marks == Combined(paths, texts)[e]
               first == FirstWith(texts, e)
           IN /\ marks.path = FirstWith(paths, e) /\ marks.text = first
              /\ marks.snippet = IF first = Unranked THEN 0 ELSE texts[first].chunk
<1> DEFINE Snippet(n) == IF FirstUpTo(texts, e, n) = Unranked THEN 0
                         ELSE texts[FirstUpTo(texts, e, n)].chunk
<1>1. /\ texts \in RowLists /\ \A i \in 1 .. Len(texts) : texts[i].chunk \in Chunks
      /\ paths \in Seq(RowsOf) /\ Len(paths) <= PerSource /\ Len(paths) \in Nat
      /\ texts \in Seq(RowsOf) /\ Len(texts) <= PerSource /\ Len(texts) \in Nat
      /\ DOMAIN paths = 1 .. Len(paths) /\ DOMAIN texts = 1 .. Len(texts)
  BY DEF TextLists, RowLists
<1>2. PICK f, g : Marking(paths, texts, f, g) /\ Combined(paths, texts) = g[Len(texts)]
  BY <1>1, CombinedMarks
<1>3. /\ \A i \in 1 .. Len(paths) : paths[i].entry \in Entries
      /\ \A i \in 1 .. Len(texts) : texts[i].entry \in Entries
  <2>1. /\ \A i \in 1 .. Len(paths) : paths[i] \in RowsOf
        /\ \A i \in 1 .. Len(texts) : texts[i] \in RowsOf
    BY <1>1
  <2> QED  BY <2>1 DEF RowsOf
<1>5. \A n \in 0 .. Len(paths) : /\ f[n][e].path = FirstUpTo(paths, e, n)
                                 /\ f[n][e].text = Unranked /\ f[n][e].snippet = 0
  <2> DEFINE S == {n \in 0 .. Len(paths) : /\ f[n][e].path = FirstUpTo(paths, e, n)
                                           /\ f[n][e].text = Unranked /\ f[n][e].snippet = 0}
  <2>1. 0 \in S
    <3>1. 0 \in 0 .. Len(paths) /\ f[0] = Unmarked
      BY <1>1, <1>2 DEF Marking
    <3>2. f[0][e] = [path |-> Unranked, text |-> Unranked, snippet |-> 0]
      BY <3>1 DEF Unmarked
    <3> QED  BY <3>1, <3>2, NoneUpTo
  <2>2. ASSUME NEW n \in 1 .. Len(paths), n - 1 \in S PROVE n \in S
    <3>1. /\ n \in Nat \ {0} /\ n <= PerSource /\ n \in 0 .. Len(paths) /\ n - 1 \in 0 .. Len(paths)
      BY <1>1
    <3>2. f[n] = AtPath(paths, f[n - 1], n) /\ f[n - 1] \in Found
      BY <1>2, <3>1 DEF Marking
    <3>3. /\ f[n - 1][e].path = FirstUpTo(paths, e, n - 1)
          /\ f[n - 1][e].text = Unranked /\ f[n - 1][e].snippet = 0
      BY <2>2
    <3>4. f[n - 1][e] \in Marks
      BY <3>2 DEF Found
    <3>4b. paths[n].entry \in Entries
      BY <1>3
    <3>4c. f[n][e] = IF paths[n].entry = e
                     THEN [f[n - 1][e] EXCEPT !.path = Min({@, n})]
                     ELSE f[n - 1][e]
      <4>1. AtPath(paths, f[n - 1], n)[e] = PathMark(paths, f[n - 1], n, e)
        BY <3>1, <3>2, <3>4b, RowsMarkTheirEntry
      <4>2. f[n][e] = PathMark(paths, f[n - 1], n, e)
        BY <3>2, <4>1, Zenon
      <4> QED  BY <4>2 DEF PathMark
    <3> DEFINE x == f[n - 1][e]
    <3> HIDE DEF x
    <3>5. CASE paths[n].entry = e
      <4>1. f[n][e] = [x EXCEPT !.path = Min({@, n})]
        BY <3>4c, <3>5 DEF x
      <4>2. f[n][e].path = Min({x.path, n}) /\ f[n][e].text = x.text /\ f[n][e].snippet = x.snippet
        BY <3>4, <4>1 DEF Marks, x
      <4>3. Min({x.path, n}) = FirstUpTo(paths, e, n)
        BY <3>1, <3>3, <3>5, EarlierPlace DEF x
      <4> QED  BY <3>1, <3>3, <4>2, <4>3 DEF x
    <3>6. CASE paths[n].entry # e
      <4>1. f[n][e] = x
        BY <3>4c, <3>6 DEF x
      <4>2. FirstUpTo(paths, e, n) = FirstUpTo(paths, e, n - 1)
        BY <3>1, <3>6, FirstWithOneMore
      <4> QED  BY <3>1, <3>3, <4>1, <4>2 DEF x
    <3> QED  BY <3>5, <3>6
  <2> HIDE DEF S
  <2>3. 0 .. Len(paths) \subseteq S
    BY <1>1, <2>1, <2>2, UpTo
  <2> QED  BY <2>3 DEF S
<1>6. \A n \in 0 .. Len(texts) : /\ g[n][e].path = FirstUpTo(paths, e, Len(paths))
                                 /\ g[n][e].text = FirstUpTo(texts, e, n)
                                 /\ g[n][e].snippet = Snippet(n)
  <2> DEFINE S == {n \in 0 .. Len(texts) : /\ g[n][e].path = FirstUpTo(paths, e, Len(paths))
                                           /\ g[n][e].text = FirstUpTo(texts, e, n)
                                           /\ g[n][e].snippet = Snippet(n)}
  <2>1. 0 \in S
    <3>1. 0 \in 0 .. Len(texts) /\ g[0] = f[Len(paths)] /\ Len(paths) \in 0 .. Len(paths)
      BY <1>1, <1>2 DEF Marking
    <3>2. FirstUpTo(texts, e, 0) = Unranked
      BY NoneUpTo
    <3> QED  BY <1>5, <3>1, <3>2
  <2>2. ASSUME NEW n \in 1 .. Len(texts), n - 1 \in S PROVE n \in S
    <3>1. /\ n \in Nat \ {0} /\ n <= PerSource /\ n \in 0 .. Len(texts) /\ n - 1 \in 0 .. Len(texts)
          /\ n - 1 \in Nat /\ n - 1 <= PerSource
      BY <1>1
    <3>2. g[n] = AtText(texts, g[n - 1], n) /\ g[n - 1] \in Found
      BY <1>2, <3>1 DEF Marking
    <3>3. /\ g[n - 1][e].path = FirstUpTo(paths, e, Len(paths))
          /\ g[n - 1][e].text = FirstUpTo(texts, e, n - 1) /\ g[n - 1][e].snippet = Snippet(n - 1)
      BY <2>2
    <3>4. g[n - 1][e] \in Marks
      BY <3>2 DEF Found
    <3>4b. texts[n].entry \in Entries
      BY <1>3
    <3>4c. g[n][e] = IF texts[n].entry = e
                     THEN [g[n - 1][e] EXCEPT !.text = Min({@, n}),
                                             !.snippet = IF @ = 0 THEN texts[n].chunk ELSE @]
                     ELSE g[n - 1][e]
      <4>1. AtText(texts, g[n - 1], n)[e] = TextMark(texts, g[n - 1], n, e)
        BY <3>1, <3>2, <3>4b, RowsMarkTheirEntry
      <4>2. g[n][e] = TextMark(texts, g[n - 1], n, e)
        BY <3>2, <4>1, Zenon
      <4> QED  BY <4>2 DEF TextMark
    <3> DEFINE x == g[n - 1][e]
    <3> HIDE DEF x
    <3>5. CASE texts[n].entry = e
      <4>1. g[n][e] = [x EXCEPT !.text = Min({@, n}), !.snippet = IF @ = 0 THEN texts[n].chunk ELSE @]
        BY <3>4c, <3>5 DEF x
      <4>2. /\ g[n][e].path = x.path /\ g[n][e].text = Min({x.text, n})
            /\ g[n][e].snippet = IF x.snippet = 0 THEN texts[n].chunk ELSE x.snippet
        BY <3>4, <4>1 DEF Marks, x
      <4>3. Min({x.text, n}) = FirstUpTo(texts, e, n)
        BY <3>1, <3>3, <3>5, EarlierPlace DEF x
      <4>4. FirstUpTo(texts, e, n) = IF x.text = Unranked THEN n ELSE x.text
        BY <3>1, <3>3, <3>5, FirstWithOneMore DEF x
      <4>5. g[n][e].snippet = Snippet(n)
        <5>1. CASE x.text = Unranked
          <6>1. n # Unranked
            BY <3>1 DEF Unranked
          <6> QED  BY <3>3, <4>2, <4>4, <5>1, <6>1 DEF x
        <5>2. CASE x.text # Unranked
          <6>1. x.text \in 1 .. n - 1
            BY <3>1, <3>3, <5>2, FirstIsOne DEF x
          <6>2. x.text \in 1 .. Len(texts)
            BY <1>1, <6>1
          <6>3. x.snippet = texts[x.text].chunk /\ x.snippet # 0
            BY <1>1, <3>3, <5>2, <6>2 DEF x
          <6> QED  BY <4>2, <4>4, <5>2, <6>3
        <5> QED  BY <5>1, <5>2
      <4> QED  BY <3>1, <3>3, <4>2, <4>3, <4>5 DEF x
    <3>6. CASE texts[n].entry # e
      <4>1. g[n][e] = x
        BY <3>4c, <3>6 DEF x
      <4>2. FirstUpTo(texts, e, n) = FirstUpTo(texts, e, n - 1)
        BY <3>1, <3>6, FirstWithOneMore
      <4> QED  BY <3>1, <3>3, <4>1, <4>2 DEF x
    <3> QED  BY <3>5, <3>6
  <2> HIDE DEF S
  <2>3. 0 .. Len(texts) \subseteq S
    BY <1>1, <2>1, <2>2, UpTo
  <2> QED  BY <2>3 DEF S
<1>7. /\ FirstWith(paths, e) = FirstUpTo(paths, e, Len(paths))
      /\ FirstWith(texts, e) = FirstUpTo(texts, e, Len(texts))
  BY <1>1 DEF FirstWith, FirstUpTo
<1>8. Len(texts) \in 0 .. Len(texts)
  BY <1>1
<1> QED  BY <1>2, <1>6, <1>7, <1>8

\* What beats another in name, path and text comes before it.
LEMMA BeatersPrecede ==
    ASSUME Entries \subseteq Nat, PerSource \in Nat, NEW marks \in Found,
           NEW d \in Entries, NEW e \in Entries, e \in Exact => d \in Exact,
           marks[d].path <= marks[e].path, marks[d].text <= marks[e].text,
           marks[d].path < marks[e].path \/ marks[d].text < marks[e].text,
           marks[e].path <= Unranked, marks[e].text <= Unranked
    PROVE  Precedes(SortKey(marks, d), SortKey(marks, e))
<1> DEFINE x == SortKey(marks, d)
           y == SortKey(marks, e)
<1>1. /\ marks[d].path \in Nat /\ marks[d].text \in Nat /\ marks[e].path \in Nat
      /\ marks[e].text \in Nat /\ Unranked \in Nat
  BY DEF Found, Marks, Unranked
<1>2. /\ DOMAIN x = 1 .. 5
      /\ x[1] = (IF d \in Exact THEN 0 ELSE 1)
      /\ x[2] = (IF marks[d].path # Unranked /\ marks[d].text # Unranked THEN 0 ELSE 1)
      /\ x[3] = marks[d].path /\ x[4] = marks[d].text
  BY DEF SortKey
<1>3. /\ y[1] = (IF e \in Exact THEN 0 ELSE 1)
      /\ y[2] = (IF marks[e].path # Unranked /\ marks[e].text # Unranked THEN 0 ELSE 1)
      /\ y[3] = marks[e].path /\ y[4] = marks[e].text
  BY DEF SortKey
<1> HIDE DEF x, y
<1>4. x[1] \in Nat /\ y[1] \in Nat /\ x[1] <= y[1] /\ x[2] \in Nat /\ y[2] \in Nat
  BY <1>2, <1>3
<1>5. x[2] <= y[2]
  BY <1>1, <1>2, <1>3
<1>6. x[3] \in Nat /\ y[3] \in Nat /\ x[3] <= y[3] /\ x[4] \in Nat /\ y[4] \in Nat
  BY <1>1, <1>2, <1>3
<1>7. x[3] < y[3] \/ x[4] < y[4]
  BY <1>2, <1>3
<1>8. /\ \A m \in 1 .. 1 - 1 : x[m] = y[m]
      /\ \A m \in 1 .. 2 - 1 : m = 1
      /\ \A m \in 1 .. 3 - 1 : m = 1 \/ m = 2
      /\ \A m \in 1 .. 4 - 1 : m = 1 \/ m = 2 \/ m = 3
  OBVIOUS
<1>9. \E n \in 1 .. 5 : x[n] < y[n] /\ \A m \in 1 .. n - 1 : x[m] = y[m]
  <2>1. CASE x[1] < y[1]
    BY <1>8, <2>1
  <2>2. CASE x[1] = y[1] /\ x[2] < y[2]
    BY <1>8, <2>2
  <2>3. CASE x[1] = y[1] /\ x[2] = y[2] /\ x[3] < y[3]
    BY <1>8, <2>3
  <2>4. CASE x[1] = y[1] /\ x[2] = y[2] /\ x[3] = y[3] /\ x[4] < y[4]
    BY <1>8, <2>4
  <2>5. /\ x[1] < y[1] \/ x[1] = y[1]
        /\ x[2] < y[2] \/ x[2] = y[2]
        /\ x[3] < y[3] \/ (x[3] = y[3] /\ x[4] < y[4])
    BY <1>4, <1>5, <1>6, <1>7
  <2> QED  BY <2>1, <2>2, <2>3, <2>4, <2>5
<1>10. Precedes(x, y)
  BY <1>2, <1>9 DEF Precedes
<1> QED  BY <1>10 DEF x, y

\* A list without repetition has as many entries as places.
LEMMA CountOfList ==
    ASSUME NEW S, NEW b \in Seq(S), \A i, j \in 1 .. Len(b) : i < j => b[i] # b[j]
    PROVE  Cardinality(ToSet(b)) = Len(b) /\ IsFiniteSet(ToSet(b))
<1>1. Len(b) \in Nat /\ DOMAIN b = 1 .. Len(b)
  OBVIOUS
<1>2. b \in [1 .. Len(b) -> ToSet(b)]
  BY <1>1 DEF ToSet
<1>3. \A i, j \in 1 .. Len(b) : i # j => b[i] # b[j]
  <2>1. \A i, j \in 1 .. Len(b) : i # j => i < j \/ j < i
    OBVIOUS
  <2> QED  BY <2>1
<1>4. \A x \in ToSet(b) : \E i \in 1 .. Len(b) : b[i] = x
  BY <1>1 DEF ToSet
<1>5. ExistsBijection(1 .. Len(b), ToSet(b))
  BY <1>2, <1>3, <1>4 DEF ExistsBijection, Bijection, Injection, Surjection, IsInjective
<1>6. IsFiniteSet(1 .. Len(b))
  BY <1>1, FS_Interval
<1> QED  BY <1>1, <1>5, <1>6, FS_CountingElements, FS_Bijection

LEMMA RankingListsTheBest ==
    ASSUME Entries \subseteq Nat, PerSource \in Nat, Limit \in Nat, 0 \notin Chunks,
           NEW paths \in RowLists, NEW texts \in TextLists
    PROVE  ListsTheBest(RankCandidates(paths, texts), paths, texts)
<1> DEFINE results == RankCandidates(paths, texts)
           marks == Combined(paths, texts)
           some == EntriesIn(paths) \cup EntriesIn(texts)
           places(e) == {i \in DOMAIN results : results[i].entry = e} \cup {Limit + 1}
           place(e) == Min(places(e))
<1>1. /\ texts \in RowLists /\ marks \in Found
      /\ paths \in Seq(RowsOf) /\ Len(paths) <= PerSource
      /\ texts \in Seq(RowsOf) /\ Len(texts) <= PerSource
      /\ DOMAIN paths = 1 .. Len(paths) /\ DOMAIN texts = 1 .. Len(texts)
  BY CombinedIsMarked DEF TextLists, RowLists
<1>3. some \subseteq Entries /\ IsFiniteSet(some)
  <2>1. some \subseteq Entries
    BY <1>1, EntriesOfRows
  <2>2. ASSUME NEW list \in RowLists PROVE IsFiniteSet(EntriesIn(list))
    <3> DEFINE f == [i \in 1 .. Len(list) |-> list[i].entry]
    <3>1. DOMAIN list = 1 .. Len(list) /\ Len(list) \in Nat
      BY DEF RowLists
    <3>2. f \in Surjection(1 .. Len(list), EntriesIn(list))
      <4>1. f \in [1 .. Len(list) -> EntriesIn(list)]
        BY <3>1 DEF EntriesIn
      <4>2. \A e \in EntriesIn(list) : \E i \in 1 .. Len(list) : f[i] = e
        BY <3>1 DEF EntriesIn
      <4> HIDE DEF f
      <4> QED  BY <4>1, <4>2 DEF Surjection
    <3>3. IsFiniteSet(1 .. Len(list))
      BY <3>1, FS_Interval
    <3> HIDE DEF f
    <3> QED  BY <3>2, <3>3, FS_Surjection
  <2>3. IsFiniteSet(some)
    BY <1>1, <2>2, FS_Union
  <2> QED  BY <2>1, <2>3
<1>4. PICK best \in Seq(Entries) :
        /\ RanksFirst(best, marks, some, Limit)
        /\ results = [i \in 1 .. Len(best) |-> [entry |-> best[i], snippet |-> marks[best[i]].snippet]]
  BY <1>1, RankingIsBest
<1>5. /\ results \in Seq(Ranked) /\ Len(results) = Len(best) /\ EntriesIn(results) = ToSet(best)
  <2> HIDE DEF results, marks
  <2> QED  BY <1>1, <1>4, RankedEntries
<1>6. /\ DOMAIN results = 1 .. Len(best) /\ Len(best) \in Nat
      /\ \A i \in 1 .. Len(best) : /\ results[i].entry = best[i] /\ best[i] \in Entries
                                   /\ results[i].snippet = marks[best[i]].snippet
  <2> HIDE DEF results, marks
  <2>1. \A i \in 1 .. Len(best) : best[i] \in Entries
    OBVIOUS
  <2> QED  BY <1>4, <2>1
<1> HIDE DEF results
<1>7. ASSUME NEW e \in Entries
      PROVE  /\ marks[e].path = FirstWith(paths, e) /\ marks[e].text = FirstWith(texts, e)
             /\ marks[e].snippet = IF FirstWith(texts, e) = Unranked THEN 0
                                   ELSE texts[FirstWith(texts, e)].chunk
  BY MarksAreFirst
<1> HIDE DEF marks, some
<1>8. /\ best \in Seq(some) /\ Len(best) <= Limit
      /\ \A i, j \in 1 .. Len(best) :
           i < j => best[i] # best[j] /\ ~Precedes(SortKey(marks, best[j]), SortKey(marks, best[i]))
      /\ \A i \in 1 .. Len(best), e \in some \ ToSet(best) :
           ~Precedes(SortKey(marks, e), SortKey(marks, best[i]))
      /\ Len(best) = Limit \/ some \subseteq ToSet(best)
  BY <1>4 DEF RanksFirst
<1>9. Cardinality(ToSet(best)) = Len(best) /\ IsFiniteSet(ToSet(best))
  BY <1>8, CountOfList
<1>10. ToSet(best) \subseteq some /\ DOMAIN best = 1 .. Len(best)
  BY <1>8 DEF ToSet
<1>11. Len(best) = Min({Limit, Cardinality(some)})
  <2>1. Cardinality(some) \in Nat /\ Len(best) <= Cardinality(some)
    BY <1>3, <1>9, <1>10, FS_CardinalityType, FS_Subset
  <2>2. Len(best) = Limit \/ Len(best) = Cardinality(some)
    <3>1. ASSUME some \subseteq ToSet(best) PROVE some = ToSet(best)
      BY <1>10, <3>1
    <3> QED  BY <1>8, <1>9, <3>1
  <2> DEFINE T == {Limit, Cardinality(some)}
  <2>3. T \in SUBSET Nat /\ Len(best) \in T /\ \A n \in T : Len(best) <= n
    BY <1>8, <2>1, <2>2
  <2> HIDE DEF T
  <2>4. Min(T) = Len(best)
    BY <2>3, MinIs
  <2> QED  BY <2>4 DEF T
<1>12. ASSUME NEW e
       PROVE  /\ place(e) \in places(e) /\ \A i \in places(e) : place(e) <= i
              /\ place(e) \in Nat /\ place(e) <= Limit + 1
  <2>1. places(e) \subseteq Nat /\ Limit + 1 \in places(e)
    BY <1>6
  <2> HIDE DEF places
  <2>2. PICK m \in places(e) : \A n \in places(e) : m <= n
    BY <2>1, LeastNumber
  <2>3. place(e) = m
    BY <2>1, <2>2, MinIs
  <2> QED  BY <2>1, <2>2, <2>3
<1>13. ASSUME NEW d \in some, NEW e \in some, Beats(paths, texts, d, e)
       PROVE  place(d) <= place(e)
  <2>1. d \in Entries /\ e \in Entries /\ d \in some /\ e \in some
    BY <1>3
  <2>2. /\ marks[d].path = FirstWith(paths, d) /\ marks[d].text = FirstWith(texts, d)
        /\ marks[e].path = FirstWith(paths, e) /\ marks[e].text = FirstWith(texts, e)
    BY <1>7, <2>1
  <2>3. FirstWith(paths, e) <= Unranked /\ FirstWith(texts, e) <= Unranked
    <3>1. /\ FirstWith(paths, e) = FirstUpTo(paths, e, Len(paths)) /\ Len(paths) \in Nat
          /\ FirstWith(texts, e) = FirstUpTo(texts, e, Len(texts)) /\ Len(texts) \in Nat
      BY <1>1 DEF FirstWith, FirstUpTo
    <3> QED  BY <1>1, <3>1, FirstIsOne
  <2>4. Precedes(SortKey(marks, d), SortKey(marks, e))
    BY <1>1, <1>13, <2>1, <2>2, <2>3, BeatersPrecede DEF Beats
  <2>5. CASE place(e) = Limit + 1
    BY <1>12, <2>5
  <2>6. CASE place(e) # Limit + 1
    <3>1. PICK i \in 1 .. Len(best) : i = place(e) /\ best[i] = e
      <4> HIDE DEF place
      <4>1. place(e) \in places(e)
        BY <1>12
      <4>2. place(e) \in DOMAIN results /\ results[place(e)].entry = e
        BY <2>6, <4>1
      <4>3. place(e) \in 1 .. Len(best) /\ best[place(e)] = e
        BY <1>6, <4>2
      <4> QED  BY <4>3
    <3>2. d \in ToSet(best)
      BY <1>8, <2>1, <2>4, <3>1
    <3>3. PICK j \in 1 .. Len(best) : best[j] = d
      BY <1>10, <3>2 DEF ToSet
    <3>4. ~(i < j)
      BY <1>8, <2>4, <3>1, <3>3
    <3>5. j \in places(d)
      BY <1>6, <3>3
    <3>6. place(d) <= j /\ j <= i
      <4>1. place(d) <= j
        <5> HIDE DEF place, places
        <5> QED  BY <1>12, <3>5
      <4>2. i \in Nat /\ j \in Nat
        BY <1>6
      <4> QED  BY <3>4, <4>1, <4>2
    <3>7. place(d) \in Nat
      BY <1>12
    <3> HIDE DEF place, places
    <3> QED  BY <3>1, <3>6, <3>7
  <2> QED  BY <2>5, <2>6
<1>14. Cardinality(EntriesIn(results)) = Len(results) /\ Len(results) = Min({Limit, Cardinality(some)})
  BY <1>5, <1>9, <1>11
<1>15. ASSUME NEW i \in DOMAIN results
       PROVE  results[i].snippet = IF FirstWith(texts, results[i].entry) = Unranked THEN 0
                                   ELSE texts[FirstWith(texts, results[i].entry)].chunk
  <2> DEFINE e == best[i]
  <2>1. results[i].entry = e /\ e \in Entries /\ results[i].snippet = marks[e].snippet
    BY <1>6
  <2> HIDE DEF e, place, places
  <2>2. marks[e].snippet = IF FirstWith(texts, e) = Unranked THEN 0
                           ELSE texts[FirstWith(texts, e)].chunk
    BY <1>7, <2>1
  <2> QED  BY <2>1, <2>2, Zenon
<1>16. ListsTheBest(results, paths, texts)
  BY <1>13, <1>14, <1>15 DEF ListsTheBest, some
<1> QED  BY <1>16 DEF results

-----------------------------------------------------------------------------
(* The searches.                                                           *)

EvidenceSets == UNION {[d -> Nat] : d \in SUBSET Scopes}
CallTypes ==
    [pc : {"idle", "bind", "paths", "texts", "compare", "recheck"}, op : {"none", "local", "mcp"},
     only : Scopes \cup {NoScope}, served : Nat, bound : Nat, active : SUBSET Scopes,
     paths : RowLists, texts : TextLists, evidence : EvidenceSets, todo : SUBSET Scopes,
     results : RankedLists, vouched : SUBSET Entries]
PolicyTypes ==
    [Scopes -> [revision : 1 .. MaxChanges + 1, granted : BOOLEAN, excluded : SUBSET Entries]]
SearchTypes ==
    /\ policies \in PolicyTypes
    /\ stored \in [present : SUBSET Entries, extracted : SUBSET Entries]
    /\ stored.extracted \subseteq stored.present
    /\ call \in [Callers -> CallTypes]

FoundBy(r) == EntriesIn(r.paths) \cup EntriesIn(r.texts) \cup EntriesIn(r.results)
\* A request of the MCP server was served for a policy no later than the one it was compared with.
Served(p, r) ==
    r.op = "mcp" => /\ r.only # NoScope /\ r.served <= p[r.only].revision
                    /\ r.only \in DOMAIN r.evidence => r.served <= r.evidence[r.only]
\* While the policy of a scope is the one its candidates were compared with, it excludes none.
Compared(p, r) ==
    \A s \in DOMAIN r.evidence :
      /\ r.evidence[s] <= p[s].revision
      /\ r.evidence[s] = p[s].revision =>
           \A e \in FoundBy(r) : ScopeOf[e] = s => e \notin p[s].excluded
\* A result is still to be looked at again, or was.
Ordered(r) ==
    /\ r.only # NoScope => \A e \in FoundBy(r) : ScopeOf[e] = r.only
    /\ r.pc # "recheck" => r.results = <<>>
    /\ r.pc \notin {"compare", "recheck"} => DOMAIN r.evidence = {}
    /\ r.pc = "recheck" =>
         \A e \in EntriesIn(r.results) :
           ScopeOf[e] \in DOMAIN r.evidence /\ (ScopeOf[e] \in r.todo \/ e \in r.vouched)
    /\ Len(r.results) <= Limit
Kept(p, r) == Served(p, r) /\ Compared(p, r) /\ Ordered(r)
SearchSound ==
    /\ SearchTypes
    /\ \A c \in Callers : Kept(policies, call[c])
    /\ shown.listed \subseteq shown.vouched

LEMMA NothingListed == EntriesIn(<<>>) = {}
BY DEF EntriesIn

LEMMA EvidenceParts ==
    ASSUME NEW ev \in EvidenceSets
    PROVE  DOMAIN ev \subseteq Scopes /\ \A s \in DOMAIN ev : ev[s] \in Nat
BY DEF EvidenceSets

LEMMA EvidenceGrows ==
    ASSUME NEW ev \in EvidenceSets, NEW s \in Scopes, NEW n \in Nat
    PROVE  [t \in DOMAIN ev \cup {s} |-> IF t = s THEN n ELSE ev[t]] \in EvidenceSets
<1> DEFINE d == DOMAIN ev \cup {s}
           more == [t \in d |-> IF t = s THEN n ELSE ev[t]]
<1>1. d \in SUBSET Scopes
  BY EvidenceParts
<1>2. more \in [d -> Nat]
  BY EvidenceParts
<1> HIDE DEF more, d
<1>3. more \in EvidenceSets
  BY <1>1, <1>2 DEF EvidenceSets
<1> QED  BY <1>3 DEF more, d

LEMMA NothingIsKept ==
    ASSUME Limit \in Nat, PerSource \in Nat
    PROVE  /\ NoCall \in CallTypes
           /\ \A p : Kept(p, NoCall)
<1>1. [s \in {} |-> 0] \in EvidenceSets
  <2> DEFINE none == [s \in {} |-> 0]
  <2>1. none \in [{} -> Nat] /\ {} \in SUBSET Scopes
    OBVIOUS
  <2> HIDE DEF none
  <2>2. none \in EvidenceSets
    BY <2>1 DEF EvidenceSets
  <2> QED  BY <2>2 DEF none
<1>2. <<>> \in RowLists /\ <<>> \in TextLists /\ <<>> \in RankedLists
  BY DEF RowLists, TextLists, RankedLists
<1>3. NoCall \in CallTypes
  BY <1>1, <1>2 DEF NoCall, CallTypes
<1>4. DOMAIN NoCall.evidence = {} /\ FoundBy(NoCall) = {} /\ Len(NoCall.results) = 0
  BY NothingListed DEF NoCall, FoundBy
<1>5. ASSUME NEW p PROVE Kept(p, NoCall)
  <2>1. Served(p, NoCall)
    BY DEF Served, NoCall
  <2>2. Compared(p, NoCall)
    BY <1>4 DEF Compared
  <2>3. NoCall.pc = "idle" /\ NoCall.results = <<>>
    BY DEF NoCall
  <2>4. Ordered(NoCall)
    BY <1>4, <2>3 DEF Ordered
  <2> QED  BY <2>1, <2>2, <2>4 DEF Kept
<1> QED  BY <1>3, <1>5

LEMMA InitIsSound ==
    ASSUME MaxChanges \in Nat, Limit \in Nat, PerSource \in Nat, SearchInit
    PROVE  SearchSound
<1>1. policies \in PolicyTypes
  <2>1. 1 \in 1 .. MaxChanges + 1
    OBVIOUS
  <2> QED  BY <2>1 DEF SearchInit, PolicyTypes
<1>2. /\ stored \in [present : SUBSET Entries, extracted : SUBSET Entries]
      /\ stored.extracted \subseteq stored.present
  BY DEF SearchInit
<1>3. call \in [Callers -> CallTypes] /\ \A c \in Callers : Kept(policies, call[c])
  BY NothingIsKept DEF SearchInit
<1>4. shown.listed \subseteq shown.vouched
  BY DEF SearchInit, NothingShown
<1> QED  BY <1>1, <1>2, <1>3, <1>4 DEF SearchSound, SearchTypes

\* A policy only ever moves on, and one that has not excludes what it did.
MovesOn(p, q) ==
    \A s \in Scopes : /\ p[s].revision <= q[s].revision
                      /\ p[s].revision = q[s].revision => q[s].excluded = p[s].excluded

LEMMA KeptWhileItMoves ==
    ASSUME MaxChanges \in Nat, NEW p \in PolicyTypes, NEW q \in PolicyTypes, MovesOn(p, q),
           NEW r \in CallTypes, Kept(p, r)
    PROVE  Kept(q, r)
<1>1. \A s \in Scopes : p[s].revision \in Nat /\ q[s].revision \in Nat
  BY DEF PolicyTypes
<1>2. DOMAIN r.evidence \subseteq Scopes /\ \A s \in DOMAIN r.evidence : r.evidence[s] \in Nat
  BY EvidenceParts DEF CallTypes
<1>3. Served(q, r)
  <2>1. ASSUME r.op = "mcp" PROVE r.served <= q[r.only].revision
    <3>1. r.only \in Scopes /\ r.served \in Nat /\ r.served <= p[r.only].revision
      BY <2>1 DEF Kept, Served, CallTypes
    <3>2. p[r.only].revision <= q[r.only].revision
      BY <3>1 DEF MovesOn
    <3> QED  BY <1>1, <3>1, <3>2
  <2> QED  BY <2>1 DEF Kept, Served
<1>4. Compared(q, r)
  <2> SUFFICES ASSUME NEW s \in DOMAIN r.evidence
               PROVE  /\ r.evidence[s] <= q[s].revision
                      /\ r.evidence[s] = q[s].revision =>
                           \A e \in FoundBy(r) : ScopeOf[e] = s => e \notin q[s].excluded
    BY DEF Compared
  <2>1. /\ r.evidence[s] <= p[s].revision
        /\ r.evidence[s] = p[s].revision =>
             \A e \in FoundBy(r) : ScopeOf[e] = s => e \notin p[s].excluded
    BY DEF Kept, Compared
  <2>2. /\ p[s].revision <= q[s].revision
        /\ p[s].revision = q[s].revision => q[s].excluded = p[s].excluded
    BY <1>2 DEF MovesOn
  <2>3. r.evidence[s] \in Nat /\ p[s].revision \in Nat /\ q[s].revision \in Nat
    BY <1>1, <1>2
  <2>4. r.evidence[s] <= q[s].revision
    BY <2>1, <2>2, <2>3
  <2>5. r.evidence[s] = q[s].revision =>
          r.evidence[s] = p[s].revision /\ q[s].excluded = p[s].excluded
    BY <2>1, <2>2, <2>3
  <2> QED  BY <2>1, <2>4, <2>5
<1> QED  BY <1>3, <1>4 DEF Kept

LEMMA PolicyStepIsSound ==
    ASSUME MaxChanges \in Nat, SearchSound,
           policies' \in PolicyTypes, MovesOn(policies, policies'), UNCHANGED <<call, shown>>,
           stored' \in [present : SUBSET Entries, extracted : SUBSET Entries],
           stored'.extracted \subseteq stored'.present
    PROVE  SearchSound'
<1>1. policies \in PolicyTypes /\ call \in [Callers -> CallTypes]
  BY DEF SearchSound, SearchTypes
<1>2. ASSUME NEW c \in Callers PROVE Kept(policies', call[c])
  <2>1. call[c] \in CallTypes /\ Kept(policies, call[c])
    BY <1>1 DEF SearchSound
  <2> QED  BY <1>1, <2>1, KeptWhileItMoves
<1>3. SearchTypes'
  BY <1>1 DEF SearchTypes
<1>4. \A c \in Callers : Kept(policies', call'[c])
  BY <1>2
<1>5. (shown.listed \subseteq shown.vouched)'
  BY DEF SearchSound
<1> QED  BY <1>3, <1>4, <1>5 DEF SearchSound

LEMMA SearchStepIsSound ==
    ASSUME SearchSound, NEW c \in Callers, NEW next \in CallTypes, Kept(policies, next),
           call' = [call EXCEPT ![c] = next], UNCHANGED <<policies, stored>>,
           (shown.listed \subseteq shown.vouched)'
    PROVE  SearchSound'
<1>1. call \in [Callers -> CallTypes] /\ SearchTypes /\ \A d \in Callers : Kept(policies, call[d])
  BY DEF SearchSound, SearchTypes
<1>2. call' \in [Callers -> CallTypes]
  BY <1>1
<1>3. SearchTypes'
  BY <1>1, <1>2 DEF SearchTypes
<1>4. ASSUME NEW d \in Callers PROVE Kept(policies', call'[d])
  <2>1. call'[d] = IF d = c THEN next ELSE call[d]
    BY <1>1
  <2> QED  BY <1>1, <2>1
<1> QED  BY <1>3, <1>4 DEF SearchSound

LEMMA PolicyActionIsSound ==
    ASSUME MaxChanges \in Nat, SearchSound,
           \/ \E e \in Entries : Publish(e) \/ Exclude(e)
           \/ \E s \in Scopes : Revoke(s) \/ Regrant(s)
    PROVE  SearchSound'
<1>1. /\ policies \in PolicyTypes
      /\ stored \in [present : SUBSET Entries, extracted : SUBSET Entries]
      /\ stored.extracted \subseteq stored.present
  BY DEF SearchSound, SearchTypes
<1>2. \A s \in Scopes : /\ policies[s] \in [revision : 1 .. MaxChanges + 1, granted : BOOLEAN,
                                          excluded : SUBSET Entries]
                        /\ policies[s].revision \in Nat
  BY <1>1 DEF PolicyTypes
<1>3. ASSUME NEW gone PROVE /\ Without(gone) \in [present : SUBSET Entries, extracted : SUBSET Entries]
                            /\ Without(gone).extracted \subseteq Without(gone).present
  BY <1>1 DEF Without
<1>4. MovesOn(policies, policies)
  BY <1>2 DEF MovesOn
<1>5. ASSUME NEW e \in Entries, Publish(e) PROVE SearchSound'
  <2>1. /\ stored' \in [present : SUBSET Entries, extracted : SUBSET Entries]
        /\ stored'.extracted \subseteq stored'.present
    BY <1>1, <1>5 DEF Publish
  <2>2. UNCHANGED <<policies, call, shown>>
    BY <1>5 DEF Publish
  <2> QED  BY <1>1, <1>4, <2>1, <2>2, PolicyStepIsSound
<1>6. ASSUME NEW s \in Scopes, NEW entry \in [revision : 1 .. MaxChanges + 1, granted : BOOLEAN,
                                               excluded : SUBSET Entries],
             policies' = [policies EXCEPT ![s] = entry],
             \/ entry.revision = policies[s].revision + 1
             \/ entry.revision = policies[s].revision /\ entry.excluded = policies[s].excluded,
             stored' \in [present : SUBSET Entries, extracted : SUBSET Entries],
             stored'.extracted \subseteq stored'.present, UNCHANGED <<call, shown>>
      PROVE  SearchSound'
  <2>1. policies' \in PolicyTypes
    BY <1>1, <1>6 DEF PolicyTypes
  <2>2. ASSUME NEW t \in Scopes
        PROVE  /\ policies[t].revision <= policies'[t].revision
               /\ policies[t].revision = policies'[t].revision => policies'[t].excluded = policies[t].excluded
    <3>1. policies'[t] = IF t = s THEN entry ELSE policies[t]
      BY <1>1, <1>6 DEF PolicyTypes
    <3>2. policies[t].revision \in Nat
      BY <1>2
    <3>3. CASE t = s
      BY <1>6, <3>1, <3>2, <3>3
    <3>4. CASE t # s
      BY <3>1, <3>2, <3>4
    <3> QED  BY <3>3, <3>4
  <2>3. MovesOn(policies, policies')
    BY <2>2 DEF MovesOn
  <2> QED  BY <1>6, <2>1, <2>3, PolicyStepIsSound
<1>7. ASSUME NEW e \in Entries, Exclude(e) PROVE SearchSound'
  <2> DEFINE s == ScopeOf[e]
             entry == [policies[s] EXCEPT !.revision = @ + 1, !.excluded = @ \cup {e}]
  <2>1. s \in Scopes
    BY DEF Scopes
  <2>2. policies[s].revision <= MaxChanges
    BY <1>7 DEF Exclude
  <2>3. /\ entry \in [revision : 1 .. MaxChanges + 1, granted : BOOLEAN, excluded : SUBSET Entries]
        /\ entry.revision = policies[s].revision + 1
    <3> HIDE DEF s
    <3>1. policies[s].revision + 1 \in 1 .. MaxChanges + 1
      BY <1>2, <2>1, <2>2
    <3> DEFINE n == policies[s].revision + 1
               upto == 1 .. MaxChanges + 1
    <3> HIDE DEF n, upto
    <3>2. /\ [policies[s] EXCEPT !.revision = n, !.excluded = @ \cup {e}]
               \in [revision : upto, granted : BOOLEAN, excluded : SUBSET Entries]
          /\ [policies[s] EXCEPT !.revision = n, !.excluded = @ \cup {e}].revision = n
      BY <1>2, <2>1, <3>1 DEF n, upto
    <3> QED  BY <3>2 DEF n, upto
  <2>4. policies' = [policies EXCEPT ![s] = entry]
    BY <1>1, <1>7, <2>1 DEF Exclude, PolicyTypes
  <2>5. stored' = Without({e}) /\ UNCHANGED <<call, shown>>
    BY <1>7 DEF Exclude
  <2> HIDE DEF s, entry
  <2> QED  BY <1>3, <1>6, <2>1, <2>3, <2>4, <2>5
<1>8. ASSUME NEW s \in Scopes, Revoke(s) PROVE SearchSound'
  <2> DEFINE entry == [policies[s] EXCEPT !.revision = @ + 1, !.granted = FALSE]
  <2>1. policies[s].revision <= MaxChanges
    BY <1>8 DEF Revoke
  <2>2. /\ entry \in [revision : 1 .. MaxChanges + 1, granted : BOOLEAN, excluded : SUBSET Entries]
        /\ entry.revision = policies[s].revision + 1
    <3>1. policies[s].revision + 1 \in 1 .. MaxChanges + 1
      BY <1>2, <2>1
    <3> DEFINE n == policies[s].revision + 1
               upto == 1 .. MaxChanges + 1
    <3> HIDE DEF n, upto
    <3>2. /\ [policies[s] EXCEPT !.revision = n, !.granted = FALSE]
               \in [revision : upto, granted : BOOLEAN, excluded : SUBSET Entries]
          /\ [policies[s] EXCEPT !.revision = n, !.granted = FALSE].revision = n
      BY <1>2, <3>1 DEF n, upto
    <3> QED  BY <3>2 DEF n, upto
  <2>3. policies' = [policies EXCEPT ![s] = entry]
    BY <1>1, <1>8 DEF Revoke, PolicyTypes
  <2>4. stored' = Without(EntriesOf(s)) /\ UNCHANGED <<call, shown>>
    BY <1>8 DEF Revoke
  <2> HIDE DEF entry
  <2> QED  BY <1>3, <1>6, <2>2, <2>3, <2>4
<1>9. ASSUME NEW s \in Scopes, Regrant(s) PROVE SearchSound'
  <2> DEFINE entry == [policies[s] EXCEPT !.granted = ~@]
  <2>1. /\ entry \in [revision : 1 .. MaxChanges + 1, granted : BOOLEAN, excluded : SUBSET Entries]
        /\ entry.revision = policies[s].revision /\ entry.excluded = policies[s].excluded
    BY <1>2
  <2>2. policies' = [policies EXCEPT ![s] = entry]
    BY <1>1, <1>9 DEF Regrant, PolicyTypes
  <2>3. stored' = stored /\ UNCHANGED <<call, shown>>
    BY <1>9 DEF Regrant
  <2> HIDE DEF entry
  <2> QED  BY <1>1, <1>6, <2>1, <2>2, <2>3
<1> QED  BY <1>5, <1>7, <1>8, <1>9

LEMMA EndIsSound ==
    ASSUME Limit \in Nat, PerSource \in Nat, SearchSound, NEW c \in Callers, Ends(c)
    PROVE  SearchSound'
<1>1. /\ call' = [call EXCEPT ![c] = NoCall] /\ UNCHANGED <<policies, stored>>
      /\ (shown.listed \subseteq shown.vouched)'
  BY DEF Ends, Go, SearchSound
<1> QED  BY <1>1, NothingIsKept, SearchStepIsSound

LEMMA GoIsSound ==
    ASSUME SearchSound, NEW c \in Callers, NEW next \in CallTypes, Kept(policies, next), Go(c, next)
    PROVE  SearchSound'
<1>1. /\ call' = [call EXCEPT ![c] = next] /\ UNCHANGED <<policies, stored>>
      /\ (shown.listed \subseteq shown.vouched)'
  BY DEF Go, SearchSound
<1> QED  BY <1>1, SearchStepIsSound

LEMMA BeginIsSound ==
    ASSUME MaxChanges \in Nat, Limit \in Nat, PerSource \in Nat, SearchSound,
           NEW c \in Callers, NEW op \in {"local", "mcp"}, NEW only \in Scopes \cup {NoScope},
           BeginSearch(c, op, only)
    PROVE  SearchSound'
<1>1. PICK active \in SUBSET Scopes :
        call' = [call EXCEPT ![c] =
                   [NoCall EXCEPT !.pc = "bind", !.op = op, !.only = only, !.active = active,
                      !.served = IF op = "mcp" THEN policies[only].revision ELSE 0]]
  BY DEF BeginSearch
<1> DEFINE served == IF op = "mcp" THEN policies[only].revision ELSE 0
           next == [NoCall EXCEPT !.pc = "bind", !.op = op, !.only = only, !.active = active,
                      !.served = served]
<1>2. op = "mcp" => only # NoScope /\ only \in Scopes
  BY DEF BeginSearch
<1>3. op = "mcp" => policies[only].revision \in Nat
  <2>1. policies \in PolicyTypes
    BY DEF SearchSound, SearchTypes
  <2> QED  BY <1>2, <2>1 DEF PolicyTypes
<1>4. served \in Nat /\ (op = "mcp" => served = policies[only].revision)
  BY <1>3
<1> HIDE DEF served
<1>5. next \in CallTypes
  BY <1>4, NothingIsKept DEF CallTypes
<1>6. /\ next.pc = "bind" /\ next.op = op /\ next.only = only /\ next.served = served
      /\ next.evidence = [s \in {} |-> 0] /\ next.results = <<>>
      /\ next.paths = <<>> /\ next.texts = <<>>
  BY DEF NoCall
<1> HIDE DEF next
<1>7. DOMAIN next.evidence = {} /\ FoundBy(next) = {} /\ Len(next.results) = 0
  BY <1>6, NothingListed DEF FoundBy
<1>8. Served(policies, next)
  BY <1>2, <1>3, <1>4, <1>6, <1>7 DEF Served
<1>9. Compared(policies, next) /\ Ordered(next)
  BY <1>6, <1>7 DEF Compared, Ordered
<1>10. Kept(policies, next)
  BY <1>8, <1>9 DEF Kept
<1>11. call' = [call EXCEPT ![c] = next]
  BY <1>1 DEF next, served
<1>12. UNCHANGED <<policies, stored>> /\ (shown.listed \subseteq shown.vouched)'
  BY DEF BeginSearch, NothingShown
<1> QED  BY <1>5, <1>10, <1>11, <1>12, SearchStepIsSound

LEMMA BindIsSound ==
    ASSUME MaxChanges \in Nat, Limit \in Nat, PerSource \in Nat, SearchSound, NEW c \in Callers, Bind(c)
    PROVE  SearchSound'
<1> DEFINE r == call[c]
<1>1. r \in CallTypes /\ Kept(policies, r) /\ policies \in PolicyTypes /\ r.pc = "bind"
  BY DEF SearchSound, SearchTypes, Bind, At
<1>2. ASSUME NEW next \in CallTypes, next.pc = "paths", next.op = r.op, next.only = r.only,
             next.served = r.served, next.evidence = r.evidence, next.results = r.results,
             next.paths = r.paths, next.texts = r.texts, Go(c, next)
      PROVE  SearchSound'
  <2> HIDE DEF r
  <2>1. FoundBy(next) = FoundBy(r)
    BY <1>2 DEF FoundBy
  <2>2. Kept(policies, next)
    BY <1>1, <1>2, <2>1 DEF Kept, Served, Compared, Ordered
  <2> QED  BY <1>2, <2>2, GoIsSound
<1> HIDE DEF r
<1>3. ASSUME Go(c, [r EXCEPT !.pc = "paths"]) PROVE SearchSound'
  <2> DEFINE next == [r EXCEPT !.pc = "paths"]
  <2>1. next \in CallTypes
    BY <1>1 DEF CallTypes
  <2>2. /\ next.pc = "paths" /\ next.op = r.op /\ next.only = r.only
        /\ next.served = r.served /\ next.evidence = r.evidence /\ next.results = r.results
        /\ next.paths = r.paths /\ next.texts = r.texts
    BY <1>1 DEF CallTypes
  <2> HIDE DEF next
  <2> QED  BY <1>2, <1>3, <2>1, <2>2 DEF next
<1>4. ASSUME r.only \in Scopes, Go(c, [r EXCEPT !.pc = "paths", !.bound = policies[r.only].revision])
      PROVE  SearchSound'
  <2> DEFINE n == policies[r.only].revision
             next == [r EXCEPT !.pc = "paths", !.bound = n]
  <2>1. n \in Nat
    BY <1>1, <1>4 DEF PolicyTypes
  <2> HIDE DEF n
  <2>2. next \in CallTypes
    BY <1>1, <2>1 DEF CallTypes
  <2>3. /\ next.pc = "paths" /\ next.op = r.op /\ next.only = r.only
        /\ next.served = r.served /\ next.evidence = r.evidence /\ next.results = r.results
        /\ next.paths = r.paths /\ next.texts = r.texts
    BY <1>1 DEF CallTypes
  <2>4. Go(c, next)
    BY <1>4 DEF n
  <2> HIDE DEF next
  <2> QED  BY <1>2, <2>2, <2>3, <2>4
<1>5. r.only = NoScope \/ r.only \in Scopes
  BY <1>1 DEF CallTypes
<1> QED  BY <1>3, <1>4, <1>5, EndIsSound DEF Bind, r

\* What a query returns.
LEMMA ListsAreRows ==
    ASSUME PerSource \in Nat, MaxChanges \in Nat, NEW c \in Callers, NEW some \in SUBSET Entries,
           NEW texts \in SUBSET (Chunks \cup {0}), NEW list \in Lists(c, some, texts)
    PROVE  /\ list \in RowLists /\ (texts = Chunks => list \in TextLists)
           /\ call[c].only # NoScope => \A e \in EntriesIn(list) : ScopeOf[e] = call[c].only
<1> DEFINE admitted == {r \in RowsFor(c, some, texts) : r.revision = policies[ScopeOf[r.entry]].revision}
<1>1. list \in BoundedSeq(admitted, PerSource)
  BY DEF Lists
<1>2. ASSUME NEW r \in admitted
      PROVE  r \in RowsOf /\ r.chunk \in texts /\ (call[c].only # NoScope => ScopeOf[r.entry] = call[c].only)
  <2>1. r \in [entry : Visible(c, some), chunk : texts, revision : 1 .. MaxChanges + 1]
    BY DEF RowsFor
  <2>2. r.entry \in Visible(c, some)
    BY <2>1
  <2>3. r.entry \in Entries /\ call[c].only \in {NoScope, ScopeOf[r.entry]}
    BY <2>2 DEF Visible
  <2>4. 1 .. MaxChanges + 1 \subseteq Nat /\ Visible(c, some) \subseteq Entries
    BY DEF Visible
  <2>5. r \in RowsOf
    <3> DEFINE upto == 1 .. MaxChanges + 1
               vis == Visible(c, some)
    <3>1. /\ upto \subseteq Nat /\ vis \subseteq Entries
          /\ r \in [entry : vis, chunk : texts, revision : upto]
      BY <2>1, <2>4
    <3> HIDE DEF upto, vis
    <3> QED  BY <3>1 DEF RowsOf
  <2>6. r.chunk \in texts
    BY <2>1
  <2> QED  BY <2>3, <2>5, <2>6
<1> HIDE DEF admitted
<1>3. PICK m \in 0 .. PerSource : list \in [1 .. m -> admitted]
  BY <1>1 DEF BoundedSeq, SeqOf
<1>4. list \in [1 .. m -> RowsOf] /\ m \in Nat
  BY <1>2, <1>3
<1>5. list \in RowLists
  <2>1. list \in Seq(RowsOf) /\ Len(list) = m /\ m <= PerSource
    BY <1>4, IsASeq, LenProperties
  <2> QED  BY <2>1 DEF RowLists
<1>6. \A i \in DOMAIN list : list[i] \in admitted
  BY <1>3
<1>7. ASSUME call[c].only # NoScope, NEW e \in EntriesIn(list) PROVE ScopeOf[e] = call[c].only
  <2>1. PICK i \in DOMAIN list : e = list[i].entry
    BY DEF EntriesIn
  <2> QED  BY <1>2, <1>6, <1>7, <2>1
<1>8. ASSUME texts = Chunks PROVE list \in TextLists
  <2>1. \A i \in DOMAIN list : list[i].chunk \in Chunks
    BY <1>2, <1>6, <1>8
  <2>2. DOMAIN list = 1 .. Len(list)
    BY <1>5 DEF RowLists
  <2> QED  BY <1>5, <2>1, <2>2 DEF TextLists
<1> QED  BY <1>5, <1>7, <1>8

LEMMA ReadIsSound ==
    ASSUME MaxChanges \in Nat, PerSource \in Nat, SearchSound, NEW c \in Callers,
           ReadPaths(c) \/ ReadTexts(c)
    PROVE  SearchSound'
<1> DEFINE r == call[c]
<1>1. /\ r \in CallTypes /\ Kept(policies, r) /\ r.pc \in {"paths", "texts"}
      /\ stored.present \in SUBSET Entries /\ stored.extracted \in SUBSET Entries
  BY DEF SearchSound, SearchTypes, ReadPaths, ReadTexts, At
<1>2. ASSUME NEW next \in CallTypes, next.pc \in {"texts", "compare"}, next.op = r.op,
             next.only = r.only, next.served = r.served, next.evidence = r.evidence,
             next.results = r.results, Go(c, next),
             r.only # NoScope => \A e \in FoundBy(next) : ScopeOf[e] = r.only
      PROVE  SearchSound'
  <2> HIDE DEF r
  <2>1. r.results = <<>> /\ DOMAIN r.evidence = {} /\ Len(r.results) <= Limit
    BY <1>1 DEF Kept, Ordered
  <2>2. Served(policies, next)
    BY <1>1, <1>2 DEF Kept, Served
  <2>3. Compared(policies, next)
    BY <1>2, <2>1 DEF Compared
  <2>4. Ordered(next)
    BY <1>2, <2>1 DEF Ordered
  <2> QED  BY <1>2, <2>2, <2>3, <2>4, GoIsSound DEF Kept
<1>3. ASSUME NEW e \in FoundBy(r), r.only # NoScope PROVE ScopeOf[e] = r.only
  BY <1>1, <1>3 DEF Kept, Ordered
<1>4. CASE ReadPaths(c)
  <2>1. PICK found \in Lists(c, stored.present, {0}) : Go(c, [r EXCEPT !.pc = "texts", !.paths = found])
    BY <1>4 DEF ReadPaths
  <2>2. /\ found \in RowLists
        /\ r.only # NoScope => \A e \in EntriesIn(found) : ScopeOf[e] = r.only
    <3>1. {0} \in SUBSET (Chunks \cup {0})
      OBVIOUS
    <3> QED  BY <1>1, <3>1, ListsAreRows
  <2> HIDE DEF r
  <2> DEFINE next == [r EXCEPT !.pc = "texts", !.paths = found]
  <2>3. next \in CallTypes
    BY <1>1, <2>2 DEF CallTypes
  <2>4. /\ next.pc = "texts" /\ next.op = r.op /\ next.only = r.only /\ next.served = r.served
        /\ next.evidence = r.evidence /\ next.results = r.results
        /\ next.paths = found /\ next.texts = r.texts
    BY <1>1 DEF CallTypes
  <2>5. Go(c, next)
    BY <2>1
  <2> HIDE DEF next
  <2>6. r.only # NoScope => \A e \in FoundBy(next) : ScopeOf[e] = r.only
    BY <1>3, <2>2, <2>4 DEF FoundBy
  <2> QED  BY <1>2, <2>3, <2>4, <2>5, <2>6
<1>5. CASE ReadTexts(c)
  <2>1. PICK found \in Lists(c, stored.extracted, Chunks) :
          Go(c, [r EXCEPT !.pc = "compare", !.texts = found])
    BY <1>5 DEF ReadTexts
  <2>2. /\ found \in TextLists
        /\ r.only # NoScope => \A e \in EntriesIn(found) : ScopeOf[e] = r.only
    <3>1. Chunks \in SUBSET (Chunks \cup {0})
      OBVIOUS
    <3> QED  BY <1>1, <3>1, ListsAreRows
  <2> HIDE DEF r
  <2> DEFINE next == [r EXCEPT !.pc = "compare", !.texts = found]
  <2>3. next \in CallTypes
    BY <1>1, <2>2 DEF CallTypes
  <2>4. /\ next.pc = "compare" /\ next.op = r.op /\ next.only = r.only /\ next.served = r.served
        /\ next.evidence = r.evidence /\ next.results = r.results
        /\ next.paths = r.paths /\ next.texts = found
    BY <1>1 DEF CallTypes
  <2>5. Go(c, next)
    BY <2>1
  <2> HIDE DEF next
  <2>6. r.only # NoScope => \A e \in FoundBy(next) : ScopeOf[e] = r.only
    BY <1>3, <2>2, <2>4 DEF FoundBy
  <2> QED  BY <1>2, <2>3, <2>4, <2>5, <2>6
<1> QED  BY <1>4, <1>5

\* The entries of a list are those of its rows.
LEMMA EntriesAreOfRows ==
    ASSUME NEW list \in RowLists, NEW e \in EntriesIn(list)
    PROVE  \E row \in ToSet(list) : row.entry = e
BY DEF EntriesIn, ToSet, RowLists

LEMMA CompareIsSound ==
    ASSUME MaxChanges \in Nat, Limit \in Nat, PerSource \in Nat, SearchSound, NEW c \in Callers, NEW s \in Scopes,
           Compare(c, s)
    PROVE  SearchSound'
<1> DEFINE r == call[c]
           seen == [t \in DOMAIN r.evidence \cup {s} |->
                      IF t = s THEN policies[s].revision ELSE r.evidence[t]]
           next == [r EXCEPT !.evidence = seen]
<1>1. r \in CallTypes /\ Kept(policies, r) /\ policies \in PolicyTypes /\ r.pc = "compare"
  BY DEF SearchSound, SearchTypes, Compare, At
<1>2. SUFFICES ASSUME Accepted(c, s), Go(c, next) PROVE SearchSound'
  BY EndIsSound DEF Compare
<1>3. /\ policies[s].revision \in Nat
      /\ r.evidence \in EvidenceSets /\ r.paths \in RowLists /\ r.texts \in RowLists
  BY <1>1 DEF PolicyTypes, CallTypes, TextLists
<1>4. seen \in EvidenceSets
  BY <1>3, EvidenceGrows
<1>5. /\ DOMAIN seen = DOMAIN r.evidence \cup {s} /\ seen[s] = policies[s].revision
      /\ \A t \in DOMAIN r.evidence : t # s => seen[t] = r.evidence[t]
  OBVIOUS
<1>6. r.results = <<>> /\ Len(r.results) <= Limit
  BY <1>1 DEF Kept, Ordered
<1>7. ASSUME NEW e \in EntriesIn(r.paths) \cup EntriesIn(r.texts), ScopeOf[e] = s
      PROVE  e \notin policies[s].excluded
  <2>1. \E row \in Candidates(c) : row.entry = e
    BY <1>3, EntriesAreOfRows DEF Candidates
  <2> QED  BY <1>2, <1>7, <2>1 DEF Accepted, CandidatesOf
<1> HIDE DEF seen, r
<1>8. next \in CallTypes
  BY <1>1, <1>4 DEF CallTypes
<1>9. /\ next.pc = "compare" /\ next.op = r.op /\ next.only = r.only /\ next.served = r.served
      /\ next.evidence = seen /\ next.results = r.results
      /\ next.paths = r.paths /\ next.texts = r.texts
  BY <1>1 DEF CallTypes
<1> HIDE DEF next
<1>10. FoundBy(next) = FoundBy(r) /\ FoundBy(r) = EntriesIn(r.paths) \cup EntriesIn(r.texts)
  BY <1>6, <1>9, NothingListed DEF FoundBy
<1>11. Served(policies, next)
  <2>1. ASSUME r.op = "mcp" PROVE /\ r.only # NoScope /\ r.served <= policies[r.only].revision
                                  /\ r.only \in DOMAIN seen => r.served <= seen[r.only]
    BY <1>1, <1>5, <2>1 DEF Kept, Served
  <2> QED  BY <1>9, <2>1 DEF Served
<1>12. Compared(policies, next)
  <2>1. ASSUME NEW t \in DOMAIN seen
        PROVE  /\ seen[t] <= policies[t].revision
               /\ seen[t] = policies[t].revision =>
                    \A e \in FoundBy(r) : ScopeOf[e] = t => e \notin policies[t].excluded
    <3>1. CASE t = s
      BY <1>3, <1>5, <1>7, <1>10, <3>1
    <3>2. CASE t # s
      BY <1>1, <1>5, <3>2 DEF Kept, Compared
    <3> QED  BY <3>1, <3>2
  <2> QED  BY <1>9, <1>10, <2>1 DEF Compared
<1>13. Ordered(next)
  BY <1>1, <1>6, <1>9, <1>10 DEF Kept, Ordered
<1> QED  BY <1>2, <1>8, <1>11, <1>12, <1>13, GoIsSound DEF Kept

LEMMA RankIsSound ==
    ASSUME Entries \subseteq Nat, Limit \in Nat, PerSource \in Nat, SearchSound,
           NEW c \in Callers, Rank(c)
    PROVE  SearchSound'
<1> DEFINE r == call[c]
           ranked == RankCandidates(r.paths, r.texts)
           todo == DOMAIN r.evidence \cup ({r.only} \ {NoScope})
           next == [r EXCEPT !.pc = "recheck", !.paths = <<>>, !.texts = <<>>, !.todo = todo,
                             !.results = ranked]
<1>1. r \in CallTypes /\ Kept(policies, r) /\ r.pc = "compare"
  BY DEF SearchSound, SearchTypes, Rank, At
<1>2. /\ r.evidence \in EvidenceSets /\ r.only \in Scopes \cup {NoScope}
      /\ r.paths \in RowLists /\ r.texts \in RowLists
  BY <1>1 DEF CallTypes, TextLists
<1>3. /\ ranked \in RankedLists /\ Len(ranked) <= Limit
      /\ EntriesIn(ranked) \subseteq EntriesIn(r.paths) \cup EntriesIn(r.texts)
  BY <1>2, RankingInvents
<1>4. ASSUME NEW e \in EntriesIn(r.paths) \cup EntriesIn(r.texts)
      PROVE  ScopeOf[e] \in DOMAIN r.evidence
  <2>1. \E row \in Candidates(c) : row.entry = e
    BY <1>2, EntriesAreOfRows DEF Candidates
  <2> QED  BY <2>1 DEF Rank
<1>5. todo \in SUBSET Scopes /\ DOMAIN r.evidence \subseteq todo
  <2>1. DOMAIN r.evidence \subseteq Scopes
    BY <1>2, EvidenceParts
  <2> QED  BY <1>2, <2>1
<1>6. Go(c, next)
  BY DEF Rank
<1> HIDE DEF ranked, todo, r
<1>7. <<>> \in RowLists /\ <<>> \in TextLists
  BY DEF RowLists, TextLists
<1>8. next \in CallTypes
  BY <1>1, <1>3, <1>5, <1>7 DEF CallTypes
<1>9. /\ next.pc = "recheck" /\ next.op = r.op /\ next.only = r.only /\ next.served = r.served
      /\ next.evidence = r.evidence /\ next.results = ranked /\ next.todo = todo
      /\ next.paths = <<>> /\ next.texts = <<>>
  BY <1>1 DEF CallTypes
<1> HIDE DEF next
<1>10. FoundBy(next) = EntriesIn(ranked) /\ FoundBy(next) \subseteq FoundBy(r)
  BY <1>3, <1>9, NothingListed DEF FoundBy
<1>11. Served(policies, next)
  BY <1>1, <1>9 DEF Kept, Served
<1>12. Compared(policies, next)
  <2>1. ASSUME NEW t \in DOMAIN r.evidence
        PROVE  /\ r.evidence[t] <= policies[t].revision
               /\ r.evidence[t] = policies[t].revision =>
                    \A e \in FoundBy(next) : ScopeOf[e] = t => e \notin policies[t].excluded
    BY <1>1, <1>10 DEF Kept, Compared
  <2> QED  BY <1>9, <2>1 DEF Compared
<1>13. Ordered(next)
  <2>1. next.only # NoScope => \A e \in FoundBy(next) : ScopeOf[e] = next.only
    BY <1>1, <1>9, <1>10 DEF Kept, Ordered
  <2>2. \A e \in EntriesIn(next.results) : ScopeOf[e] \in DOMAIN r.evidence /\ ScopeOf[e] \in todo
    BY <1>3, <1>4, <1>5, <1>9
  <2> QED  BY <1>3, <1>9, <2>1, <2>2 DEF Ordered
<1> QED  BY <1>6, <1>8, <1>11, <1>12, <1>13, GoIsSound DEF Kept

LEMMA RecheckIsSound ==
    ASSUME MaxChanges \in Nat, Limit \in Nat, PerSource \in Nat, SearchSound, NEW c \in Callers, NEW s \in Scopes,
           LookAgain(c, s)
    PROVE  SearchSound'
<1> DEFINE r == call[c]
           permitted == {e \in EntriesOf(s) : Permitted(e)}
           next == [r EXCEPT !.todo = @ \ {s}, !.vouched = @ \cup permitted]
<1>1. r \in CallTypes /\ Kept(policies, r) /\ r.pc = "recheck"
  BY DEF SearchSound, SearchTypes, LookAgain, At
<1>2. SUFFICES ASSUME Holds(c, s), Go(c, next) PROVE SearchSound'
  BY EndIsSound DEF LookAgain
<1>3. permitted \in SUBSET Entries
  BY DEF EntriesOf
<1>4. r.results \in RankedLists
  BY <1>1 DEF CallTypes
<1>5. ASSUME NEW e \in EntriesIn(r.results), ScopeOf[e] = s PROVE e \in permitted
  <2>1. s \in DOMAIN r.evidence /\ e \in FoundBy(r)
    BY <1>1, <1>5 DEF Kept, Ordered, FoundBy
  <2>2. policies[s].granted /\ policies[s].revision = r.evidence[s]
    BY <1>2, <2>1 DEF Holds, Current
  <2>3. e \notin policies[s].excluded
    BY <1>1, <1>5, <2>1, <2>2 DEF Kept, Compared
  <2>4. e \in Entries
    <3>1. PICK i \in DOMAIN r.results : e = r.results[i].entry
      BY DEF EntriesIn
    <3>2. r.results[i] \in Ranked
      BY <1>4, <3>1 DEF RankedLists
    <3> QED  BY <3>1, <3>2 DEF Ranked
  <2> QED  BY <1>5, <2>2, <2>3, <2>4 DEF EntriesOf, Permitted
<1> HIDE DEF permitted, r
<1>6. next \in CallTypes
  BY <1>1, <1>3 DEF CallTypes
<1>7. /\ next.pc = "recheck" /\ next.op = r.op /\ next.only = r.only /\ next.served = r.served
      /\ next.evidence = r.evidence /\ next.results = r.results /\ next.todo = r.todo \ {s}
      /\ next.vouched = r.vouched \cup permitted /\ next.paths = r.paths /\ next.texts = r.texts
  BY <1>1 DEF CallTypes
<1> HIDE DEF next
<1>8. FoundBy(next) = FoundBy(r)
  BY <1>7 DEF FoundBy
<1>9. Served(policies, next) /\ Compared(policies, next)
  BY <1>1, <1>7, <1>8 DEF Kept, Served, Compared
<1>10. Ordered(next)
  <2>1. ASSUME NEW e \in EntriesIn(r.results)
        PROVE  /\ ScopeOf[e] \in DOMAIN r.evidence
               /\ ScopeOf[e] \in r.todo \ {s} \/ e \in r.vouched \cup permitted
    BY <1>1, <1>5 DEF Kept, Ordered
  <2> QED  BY <1>1, <1>7, <1>8, <2>1 DEF Kept, Ordered
<1> QED  BY <1>2, <1>6, <1>9, <1>10, GoIsSound DEF Kept

LEMMA AnswersAreSound ==
    ASSUME Limit \in Nat, PerSource \in Nat, SearchSound, NEW c \in Callers, NEW listed, NEW vouched,
           listed \subseteq vouched, Answers(c, listed, vouched)
    PROVE  SearchSound'
<1>1. /\ call' = [call EXCEPT ![c] = NoCall] /\ UNCHANGED <<policies, stored>>
      /\ (shown.listed \subseteq shown.vouched)'
  BY DEF Answers
<1> QED  BY <1>1, NothingIsKept, SearchStepIsSound

LEMMA AnswerIsSound ==
    ASSUME MaxChanges \in Nat, Limit \in Nat, PerSource \in Nat, SearchSound, NEW c \in Callers, Answer(c)
    PROVE  SearchSound'
<1> DEFINE r == call[c]
<1>1. /\ r \in CallTypes /\ Kept(policies, r) /\ r.pc = "recheck" /\ r.todo = {}
      /\ policies \in PolicyTypes
  BY DEF SearchSound, SearchTypes, Answer, At
<1>2. r.results \in RankedLists
  BY <1>1 DEF CallTypes
<1>3. ASSUME Answers(c, {e \in EntriesIn(r.results) : ScopeOf[e] \in r.active}, r.vouched)
      PROVE  SearchSound'
  <2>1. {e \in EntriesIn(r.results) : ScopeOf[e] \in r.active} \subseteq r.vouched
    BY <1>1 DEF Kept, Ordered
  <2> QED  BY <1>3, <2>1, AnswersAreSound
<1>4. ASSUME NEW n \in 0 .. Len(r.results), r.op = "mcp", Current(r.only, r.served),
             Answers(c, EntriesIn(SubSeq(r.results, 1, n)), {e \in Entries : Permitted(e)})
      PROVE  SearchSound'
  <2>1. ASSUME NEW e \in EntriesIn(SubSeq(r.results, 1, n))
        PROVE  e \in EntriesIn(r.results) /\ e \in Entries
    <3>1. PICK i \in DOMAIN SubSeq(r.results, 1, n) : e = SubSeq(r.results, 1, n)[i].entry
      BY DEF EntriesIn
    <3>2. i \in DOMAIN r.results /\ e = r.results[i].entry /\ r.results[i] \in Ranked
      BY <1>2, <3>1 DEF RankedLists
    <3> QED  BY <3>2 DEF EntriesIn, Ranked
  <2>2. ASSUME NEW e \in EntriesIn(SubSeq(r.results, 1, n)) PROVE e \in Entries /\ Permitted(e)
    <3>1. e \in EntriesIn(r.results) /\ e \in Entries
      BY <2>1
    <3>2. e \in FoundBy(r) /\ r.only # NoScope /\ ScopeOf[e] = r.only
      BY <1>1, <1>4, <3>1 DEF FoundBy, Kept, Served, Ordered
    <3>3. r.only \in DOMAIN r.evidence
      BY <1>1, <3>1, <3>2 DEF Kept, Ordered
    <3>4. r.served <= r.evidence[r.only] /\ r.evidence[r.only] <= policies[r.only].revision
      BY <1>1, <1>4, <3>3 DEF Kept, Served, Compared
    <3>5. policies[r.only].granted /\ policies[r.only].revision = r.served
      BY <1>4 DEF Current
    <3>6. r.served \in Nat /\ r.evidence[r.only] \in Nat
      BY <1>1, <3>3, EvidenceParts DEF CallTypes
    <3>7. r.evidence[r.only] = policies[r.only].revision
      BY <3>4, <3>5, <3>6
    <3>8. e \notin policies[r.only].excluded
      BY <1>1, <3>2, <3>3, <3>7 DEF Kept, Compared
    <3> QED  BY <3>1, <3>2, <3>5, <3>8 DEF Permitted
  <2> QED  BY <1>4, <2>2, AnswersAreSound
<1> HIDE DEF r
<1> QED  BY <1>3, <1>4, EndIsSound DEF Answer, r

LEMMA SearchNextIsSound ==
    ASSUME Entries \subseteq Nat, Limit \in Nat, PerSource \in Nat, MaxChanges \in Nat,
           SearchSound, [SearchNext]_searchVars
    PROVE  SearchSound'
<1>1. CASE UNCHANGED searchVars
  BY <1>1 DEF searchVars, SearchSound, SearchTypes
<1>2. CASE \/ \E e \in Entries : Publish(e) \/ Exclude(e)
           \/ \E s \in Scopes : Revoke(s) \/ Regrant(s)
  BY <1>2, PolicyActionIsSound
<1>3. ASSUME NEW c \in Callers, NEW op \in {"local", "mcp"}, NEW only \in Scopes \cup {NoScope},
             BeginSearch(c, op, only)
      PROVE  SearchSound'
  BY <1>3, BeginIsSound
<1>4. ASSUME NEW c \in Callers, Bind(c) PROVE SearchSound'
  BY <1>4, BindIsSound
<1>5. ASSUME NEW c \in Callers, ReadPaths(c) \/ ReadTexts(c) PROVE SearchSound'
  BY <1>5, ReadIsSound
<1>6. ASSUME NEW c \in Callers, Rank(c) PROVE SearchSound'
  BY <1>6, RankIsSound
<1>7. ASSUME NEW c \in Callers, Answer(c) PROVE SearchSound'
  BY <1>7, AnswerIsSound
<1>8. ASSUME NEW c \in Callers, FailSearch(c) PROVE SearchSound'
  BY <1>8, EndIsSound DEF FailSearch
<1>9. ASSUME NEW c \in Callers, NEW s \in Scopes, Compare(c, s) \/ LookAgain(c, s)
      PROVE  SearchSound'
  BY <1>9, CompareIsSound, RecheckIsSound
<1> QED  BY <1>1, <1>2, <1>3, <1>4, <1>5, <1>6, <1>7, <1>8, <1>9 DEF SearchNext

\* A search compares its candidates with policies of known scopes only, ranks no more results
\* than were asked for, and its rows are of the revisions that a policy had.
THEOREM SearchIsWellTyped ==
    ASSUME Entries \subseteq Nat, Limit \in Nat, PerSource \in Nat, MaxChanges \in Nat
    PROVE  SearchSpec => []SearchTypeOK
<1>1. SearchInit => SearchSound
  BY InitIsSound
<1>2. SearchSound /\ [SearchNext]_searchVars => SearchSound'
  BY SearchNextIsSound
<1>3. ASSUME SearchSound PROVE SearchTypeOK
  <2>1. \A c \in Callers : call[c].evidence \in EvidenceSets /\ Len(call[c].results) <= Limit
    BY <1>3 DEF SearchSound, SearchTypes, CallTypes, Kept, Ordered
  <2>2. stored.extracted \subseteq stored.present /\ policies \in PolicyTypes
    BY <1>3 DEF SearchSound, SearchTypes
  <2>3. \A s \in Scopes : policies[s].revision \in 1 .. MaxChanges + 1
    BY <2>2 DEF PolicyTypes
  <2> QED  BY <2>1, <2>2, <2>3, EvidenceParts DEF SearchTypeOK
<1> QED  BY <1>1, <1>2, <1>3, PTL DEF SearchSpec

\* However the policy changes between its reads, a search shows nothing that was excluded or
\* revoked when the policy was looked at for the last time (search_with, search_local and
\* search_files of the MCP server).
THEOREM SearchesShowWhatIsPermitted ==
    ASSUME Entries \subseteq Nat, Limit \in Nat, PerSource \in Nat, MaxChanges \in Nat
    PROVE  SearchSpec => []ResultsArePermitted
<1>1. SearchInit => SearchSound
  BY InitIsSound
<1>2. SearchSound /\ [SearchNext]_searchVars => SearchSound'
  BY SearchNextIsSound
<1>3. SearchSound => ResultsArePermitted
  BY DEF SearchSound, ResultsArePermitted
<1> QED  BY <1>1, <1>2, <1>3, PTL DEF SearchSpec

\* rank_candidates lists each location once, with the snippet of its best chunk, and none that
\* another one beats before that one.
THEOREM SearchesListTheBest ==
    ASSUME Entries \subseteq Nat, Limit \in Nat, PerSource \in Nat, MaxChanges \in Nat, 0 \notin Chunks
    PROVE  SearchSpec => []BestAreListed
<1>1. SearchInit => SearchSound
  BY InitIsSound
<1>2. SearchSound /\ [SearchNext]_searchVars => SearchSound'
  BY SearchNextIsSound
<1>3. ASSUME SearchSound PROVE BestAreListed
  <2>1. ASSUME NEW c \in Callers PROVE call[c].paths \in RowLists /\ call[c].texts \in TextLists
    BY <1>3 DEF SearchSound, SearchTypes, CallTypes
  <2> QED  BY <2>1, RankingListsTheBest DEF BestAreListed
<1> QED  BY <1>1, <1>2, <1>3, PTL DEF SearchSpec
=============================================================================
