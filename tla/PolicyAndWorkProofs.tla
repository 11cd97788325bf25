------------------------ MODULE PolicyAndWorkProofs ------------------------
(* The policy of scopes: the fence around it, the purge behind an exclusion   *)
(* or a revocation, and the grants of folders.  And the work that goes on     *)
(* behind the user's back: watch events and their reconciliation, and the one *)
(* native OCR operation of a process.  For any number of processes, hosts,    *)
(* files, folders, revisions, events and jobs.                                *)
EXTENDS ScopeFence, PrivacyPurge, AccessGrants, OcrSlot, WatchEvents, FiniteSetTheorems, TLAPS

-----------------------------------------------------------------------------
(* The fence (ScopeFence).                                                   *)

FenceCalls ==
    [pc : {"idle", "open", "identify", "gate", "data", "check", "reading", "changing",
           "changed"},
     binding : Nat, file : Nat, gate : BOOLEAN, data : BOOLEAN,
     outer : [file : Nat, binding : Nat]]

FenceShape ==
    /\ fencePolicy \in [revision : Nat, granted : BOOLEAN]
    /\ lockFiles \in [now : Nat, made : Nat]
    /\ bound \in Nat
    /\ fenceCall \in [FenceUsers -> FenceCalls]

\* Which locks a call has at each step, and that every lock is one of the same pair of files:
\* the first pair that was bound.
LocksOf(c) ==
    /\ c.pc \in {"identify", "gate", "data", "check", "reading", "changing", "changed"} =>
          c.file # 0
    /\ c.pc \in {"gate", "data", "check", "reading", "changing", "changed"} => c.file = bound
    /\ c.gate => c.pc \in {"data", "check", "changing", "changed"}
    /\ c.pc \in {"data", "check", "changing", "changed"} => c.gate
    /\ c.data <=> c.pc \in {"check", "reading", "changing", "changed"}
    /\ c.outer.file # 0 => c.outer.file = bound
StepsOf(p) ==
    /\ p \in Readers => fenceCall[p].pc \notin {"changing", "changed"}
    /\ p \in Changers => fenceCall[p].pc # "reading" /\ fenceCall[p].outer.file = 0
CallsAreLocked == \A p \in FenceUsers : LocksOf(fenceCall[p]) /\ StepsOf(p)

\* One process at a time has the gate, and who changes the policy is alone with the data file.
OneAtTheGate ==
    \A p, q \in FenceUsers : fenceCall[p].gate /\ fenceCall[q].gate => p = q
ChangesAlone ==
    \A p \in Changers, q \in Readers :
        fenceCall[p].data => ~fenceCall[q].data /\ fenceCall[q].outer.file = 0

FenceInv ==
    FenceShape /\ CallsAreLocked /\ OneAtTheGate /\ ChangesAlone /\ NoReadAcrossRevisions

LEMMA OutsideShape == Outside \in FenceCalls
  BY DEF Outside, FenceCalls

\* A call that moves on and takes or leaves a lock is still a call.
LEMMA RecordShape ==
    ASSUME NEW c \in FenceCalls, NEW pc \in {"check", "reading", "changing"},
        NEW held \in BOOLEAN
    PROVE  /\ [c EXCEPT !.pc = pc, !.data = held] \in FenceCalls
           /\ [c EXCEPT !.pc = pc, !.gate = held] \in FenceCalls
  BY DEF FenceCalls

LEMMA FenceInvInit == FenceInit => FenceInv
<1> SUFFICES ASSUME FenceInit PROVE FenceInv
  OBVIOUS
<1>2. FenceShape
  BY OutsideShape DEF FenceInit, FenceShape
<1>3. \A p \in FenceUsers : fenceCall[p] = Outside
  BY DEF FenceInit
<1>4. CallsAreLocked
  BY <1>3 DEF Outside, CallsAreLocked, LocksOf, StepsOf
<1>5. OneAtTheGate /\ ChangesAlone /\ NoReadAcrossRevisions
  BY <1>3 DEF Outside, FenceUsers, OneAtTheGate, ChangesAlone, NoReadAcrossRevisions
<1> QED  BY <1>2, <1>4, <1>5 DEF FenceInv

LEMMA FenceInvStep == FenceInv /\ [FenceNext]_fenceVars => FenceInv'
<1> SUFFICES ASSUME FenceInv, [FenceNext]_fenceVars PROVE FenceInv'
  OBVIOUS
<1> USE FenceUsersAssumption DEF FenceInv, FenceUsers
<1>1. ASSUME NEW p \in FenceUsers, BindPolicy(p) PROVE FenceInv'
  <2>1. FenceShape'
    BY <1>1 DEF BindPolicy, Outside, FenceShape, FenceCalls
  <2>2. CallsAreLocked'
    BY <1>1 DEF BindPolicy, Outside, CallsAreLocked, LocksOf, StepsOf, FenceShape,
                FenceCalls
  <2>3. OneAtTheGate'
    BY <1>1 DEF BindPolicy, Outside, OneAtTheGate, CallsAreLocked, LocksOf, FenceShape,
                FenceCalls
  <2>4. ChangesAlone'
    BY <1>1 DEF BindPolicy, Outside, ChangesAlone, CallsAreLocked, LocksOf, StepsOf,
                FenceShape, FenceCalls
  <2>5. NoReadAcrossRevisions'
    BY <1>1 DEF BindPolicy, Outside, NoReadAcrossRevisions, CallsAreLocked, LocksOf,
                StepsOf, ChangesAlone, FenceShape, FenceCalls
  <2> QED  BY <2>1, <2>2, <2>3, <2>4, <2>5
<1>2. ASSUME NEW p \in FenceUsers, OpenFiles(p) PROVE FenceInv'
  <2>1. FenceShape'
    BY <1>2 DEF OpenFiles, FileNow, FenceShape, FenceCalls
  <2>2. CallsAreLocked'
    BY <1>2 DEF OpenFiles, FileNow, CallsAreLocked, LocksOf, StepsOf, FenceShape, FenceCalls
  <2>3. OneAtTheGate'
    BY <1>2 DEF OpenFiles, FileNow, OneAtTheGate, CallsAreLocked, LocksOf, FenceShape,
                FenceCalls
  <2>4. ChangesAlone'
    BY <1>2 DEF OpenFiles, FileNow, ChangesAlone, CallsAreLocked, LocksOf, StepsOf,
                FenceShape, FenceCalls
  <2>5. NoReadAcrossRevisions'
    BY <1>2 DEF OpenFiles, FileNow, NoReadAcrossRevisions, CallsAreLocked, LocksOf,
                StepsOf, ChangesAlone, FenceShape, FenceCalls
  <2> QED  BY <2>1, <2>2, <2>3, <2>4, <2>5
<1>3. ASSUME NEW p \in FenceUsers, Identify(p) PROVE FenceInv'
  <2>1. FenceShape'
    <3>1. CASE Accepted(fenceCall[p].file)
      BY <1>3, <3>1 DEF Identify, FenceGoes, FenceShape, FenceCalls
    <3>2. CASE ~Accepted(fenceCall[p].file)
      BY <1>3, <3>2, OutsideShape DEF Identify, GivesUp, FenceShape
    <3> QED  BY <3>1, <3>2
  <2>2. CallsAreLocked'
    BY <1>3 DEF Identify, Accepted, FenceGoes, GivesUp, Outside, CallsAreLocked, LocksOf,
                StepsOf, FenceShape, FenceCalls
  <2>3. OneAtTheGate'
    BY <1>3 DEF Identify, Accepted, FenceGoes, GivesUp, Outside, OneAtTheGate,
                CallsAreLocked, LocksOf, FenceShape, FenceCalls
  <2>4. ChangesAlone'
    BY <1>3 DEF Identify, Accepted, FenceGoes, GivesUp, Outside, ChangesAlone,
                CallsAreLocked, LocksOf, StepsOf, FenceShape, FenceCalls
  <2>5. NoReadAcrossRevisions'
    BY <1>3 DEF Identify, Accepted, FenceGoes, GivesUp, Outside, NoReadAcrossRevisions,
                CallsAreLocked, LocksOf, StepsOf, ChangesAlone, FenceShape, FenceCalls
  <2> QED  BY <2>1, <2>2, <2>3, <2>4, <2>5
<1>4. ASSUME NEW p \in FenceUsers, TakeGate(p) PROVE FenceInv'
  <2>1. FenceShape'
    BY <1>4 DEF TakeGate, HoldsGate, FenceShape, FenceCalls
  <2>2. CallsAreLocked'
    BY <1>4 DEF TakeGate, HoldsGate, CallsAreLocked, LocksOf, StepsOf, FenceShape,
                FenceCalls
  <2>3. OneAtTheGate'
    BY <1>4 DEF TakeGate, HoldsGate, OneAtTheGate, CallsAreLocked, LocksOf, FenceShape,
                FenceCalls
  <2>4. ChangesAlone'
    BY <1>4 DEF TakeGate, HoldsGate, ChangesAlone, CallsAreLocked, LocksOf, StepsOf,
                FenceShape, FenceCalls
  <2>5. NoReadAcrossRevisions'
    BY <1>4 DEF TakeGate, HoldsGate, NoReadAcrossRevisions, CallsAreLocked, LocksOf,
                StepsOf, ChangesAlone, FenceShape, FenceCalls
  <2> QED  BY <2>1, <2>2, <2>3, <2>4, <2>5
<1>5. ASSUME NEW p \in FenceUsers, TakeShared(p) PROVE FenceInv'
  <2>1. FenceShape'
    <3>1. [fenceCall[p] EXCEPT !.pc = "check", !.data = TRUE] \in FenceCalls
      BY RecordShape DEF FenceShape
    <3> QED  BY <1>5, <3>1 DEF TakeShared, FenceShape
  <2>2. CallsAreLocked'
    BY <1>5 DEF TakeShared, Excludes, CallsAreLocked, LocksOf, StepsOf, FenceShape,
                FenceCalls
  <2>3. OneAtTheGate'
    BY <1>5 DEF TakeShared, Excludes, OneAtTheGate, CallsAreLocked, LocksOf, FenceShape,
                FenceCalls
  <2>4. ChangesAlone'
    BY <1>5 DEF TakeShared, Excludes, ChangesAlone, CallsAreLocked, LocksOf, StepsOf,
                FenceShape, FenceCalls
  <2>5. NoReadAcrossRevisions'
    BY <1>5 DEF TakeShared, Excludes, NoReadAcrossRevisions, CallsAreLocked, LocksOf,
                StepsOf, ChangesAlone, FenceShape, FenceCalls
  <2> QED  BY <2>1, <2>2, <2>3, <2>4, <2>5
<1>6. ASSUME NEW p \in FenceUsers, TakeExclusive(p) PROVE FenceInv'
  <2>1. FenceShape'
    BY <1>6 DEF TakeExclusive, NobodyInside, Shares, Excludes, FenceShape, FenceCalls
  <2>2. CallsAreLocked'
    BY <1>6 DEF TakeExclusive, NobodyInside, Shares, Excludes, CallsAreLocked, LocksOf,
                StepsOf, FenceShape, FenceCalls
  <2>3. OneAtTheGate'
    BY <1>6 DEF TakeExclusive, NobodyInside, Shares, Excludes, OneAtTheGate,
                CallsAreLocked, LocksOf, FenceShape, FenceCalls
  <2>4. ChangesAlone'
    BY <1>6 DEF TakeExclusive, NobodyInside, Shares, Excludes, ChangesAlone,
                CallsAreLocked, LocksOf, StepsOf, FenceShape, FenceCalls
  <2>5. NoReadAcrossRevisions'
    BY <1>6 DEF TakeExclusive, NobodyInside, Shares, Excludes, NoReadAcrossRevisions,
                CallsAreLocked, LocksOf, StepsOf, ChangesAlone, FenceShape, FenceCalls
  <2> QED  BY <2>1, <2>2, <2>3, <2>4, <2>5
<1>7. ASSUME NEW p \in FenceUsers, TimesOut(p) PROVE FenceInv'
  <2>1. FenceShape'
    BY <1>7 DEF TimesOut, GivesUp, Outside, FenceShape, FenceCalls
  <2>2. CallsAreLocked'
    BY <1>7 DEF TimesOut, GivesUp, Outside, CallsAreLocked, LocksOf, StepsOf, FenceShape,
                FenceCalls
  <2>3. OneAtTheGate'
    BY <1>7 DEF TimesOut, GivesUp, Outside, OneAtTheGate, CallsAreLocked, LocksOf,
                FenceShape, FenceCalls
  <2>4. ChangesAlone'
    BY <1>7 DEF TimesOut, GivesUp, Outside, ChangesAlone, CallsAreLocked, LocksOf, StepsOf,
                FenceShape, FenceCalls
  <2>5. NoReadAcrossRevisions'
    BY <1>7 DEF TimesOut, GivesUp, Outside, NoReadAcrossRevisions, CallsAreLocked, LocksOf,
                StepsOf, ChangesAlone, FenceShape, FenceCalls
  <2> QED  BY <2>1, <2>2, <2>3, <2>4, <2>5
<1>8. ASSUME NEW p \in FenceUsers, Check(p) PROVE FenceInv'
  <2>1. FenceShape'
    <3>1. CASE StillBound(p)
      <4> DEFINE pc == IF p \in Readers THEN "reading" ELSE "changing"
      <4>2. pc \in {"check", "reading", "changing"} /\ KeepsGate(p) \in BOOLEAN
        BY DEF KeepsGate
      <4>3. fenceCall[p] \in FenceCalls
        BY DEF FenceShape
      <4> HIDE DEF pc
      <4>1. [fenceCall[p] EXCEPT !.pc = pc, !.gate = KeepsGate(p)] \in FenceCalls
        BY <4>2, <4>3, RecordShape
      <4> QED  BY <1>8, <3>1, <4>1 DEF Check, FenceShape, pc
    <3>2. CASE ~StillBound(p)
      BY <1>8, <3>2, OutsideShape DEF Check, GivesUp, FenceShape
    <3> QED  BY <3>1, <3>2
  <2>2. CallsAreLocked'
    BY <1>8 DEF Check, StillBound, KeepsGate, GivesUp, Outside, CallsAreLocked, LocksOf,
                StepsOf, FenceShape, FenceCalls
  <2>3. OneAtTheGate'
    BY <1>8 DEF Check, StillBound, KeepsGate, GivesUp, Outside, OneAtTheGate,
                CallsAreLocked, LocksOf, FenceShape, FenceCalls
  <2>4. ChangesAlone'
    BY <1>8 DEF Check, StillBound, KeepsGate, GivesUp, Outside, ChangesAlone,
                CallsAreLocked, LocksOf, StepsOf, FenceShape, FenceCalls
  <2>5. NoReadAcrossRevisions'
    BY <1>8 DEF Check, StillBound, KeepsGate, GivesUp, Outside, NoReadAcrossRevisions,
                CallsAreLocked, LocksOf, StepsOf, ChangesAlone, FenceShape, FenceCalls
  <2> QED  BY <2>1, <2>2, <2>3, <2>4, <2>5
<1>9. ASSUME NEW p \in FenceUsers, Leave(p) PROVE FenceInv'
  <2>1. FenceShape'
    BY <1>9 DEF Leave, Outside, FenceShape, FenceCalls
  <2>2. CallsAreLocked'
    BY <1>9 DEF Leave, Outside, CallsAreLocked, LocksOf, StepsOf, FenceShape, FenceCalls
  <2>3. OneAtTheGate'
    BY <1>9 DEF Leave, Outside, OneAtTheGate, CallsAreLocked, LocksOf, FenceShape,
                FenceCalls
  <2>4. ChangesAlone'
    BY <1>9 DEF Leave, Outside, ChangesAlone, CallsAreLocked, LocksOf, StepsOf, FenceShape,
                FenceCalls
  <2>5. NoReadAcrossRevisions'
    BY <1>9 DEF Leave, Outside, NoReadAcrossRevisions, CallsAreLocked, LocksOf, StepsOf,
                ChangesAlone, FenceShape, FenceCalls
  <2> QED  BY <2>1, <2>2, <2>3, <2>4, <2>5
<1>10. ASSUME NEW p \in FenceUsers, Release(p) PROVE FenceInv'
  <2>1. FenceShape'
    BY <1>10 DEF Release, GivesUp, Outside, FenceShape, FenceCalls
  <2>2. CallsAreLocked'
    BY <1>10 DEF Release, GivesUp, Outside, CallsAreLocked, LocksOf, StepsOf, FenceShape,
                 FenceCalls
  <2>3. OneAtTheGate'
    BY <1>10 DEF Release, GivesUp, Outside, OneAtTheGate, CallsAreLocked, LocksOf,
                 FenceShape, FenceCalls
  <2>4. ChangesAlone'
    BY <1>10 DEF Release, GivesUp, Outside, ChangesAlone, CallsAreLocked, LocksOf, StepsOf,
                 FenceShape, FenceCalls
  <2>5. NoReadAcrossRevisions'
    BY <1>10 DEF Release, GivesUp, Outside, NoReadAcrossRevisions, CallsAreLocked, LocksOf,
                 StepsOf, ChangesAlone, FenceShape, FenceCalls
  <2> QED  BY <2>1, <2>2, <2>3, <2>4, <2>5
<1>11. ASSUME NEW p \in FenceUsers, ProcessDies(p) PROVE FenceInv'
  <2>1. FenceShape'
    BY <1>11 DEF ProcessDies, GivesUp, Outside, FenceShape, FenceCalls
  <2>2. CallsAreLocked'
    BY <1>11 DEF ProcessDies, GivesUp, Outside, CallsAreLocked, LocksOf, StepsOf,
                 FenceShape, FenceCalls
  <2>3. OneAtTheGate'
    BY <1>11 DEF ProcessDies, GivesUp, Outside, OneAtTheGate, CallsAreLocked, LocksOf,
                 FenceShape, FenceCalls
  <2>4. ChangesAlone'
    BY <1>11 DEF ProcessDies, GivesUp, Outside, ChangesAlone, CallsAreLocked, LocksOf,
                 StepsOf, FenceShape, FenceCalls
  <2>5. NoReadAcrossRevisions'
    BY <1>11 DEF ProcessDies, GivesUp, Outside, NoReadAcrossRevisions, CallsAreLocked,
                 LocksOf, StepsOf, ChangesAlone, FenceShape, FenceCalls
  <2> QED  BY <2>1, <2>2, <2>3, <2>4, <2>5
<1>12. ASSUME NEW p \in FenceUsers, NEW revokes \in BOOLEAN, Commit(p,
    revokes) PROVE FenceInv'
  <2>1. FenceShape'
    BY <1>12 DEF Commit, StillBound, FenceGoes, FenceShape, FenceCalls
  <2>2. CallsAreLocked'
    BY <1>12 DEF Commit, StillBound, FenceGoes, CallsAreLocked, LocksOf, StepsOf,
                 FenceShape, FenceCalls
  <2>3. OneAtTheGate'
    BY <1>12 DEF Commit, StillBound, FenceGoes, OneAtTheGate, CallsAreLocked, LocksOf,
                 FenceShape, FenceCalls
  <2>4. ChangesAlone'
    BY <1>12 DEF Commit, StillBound, FenceGoes, ChangesAlone, CallsAreLocked, LocksOf,
                 StepsOf, FenceShape, FenceCalls
  <2>5. NoReadAcrossRevisions'
    BY <1>12 DEF Commit, StillBound, FenceGoes, NoReadAcrossRevisions, CallsAreLocked,
                 LocksOf, StepsOf, ChangesAlone, FenceShape, FenceCalls
  <2> QED  BY <2>1, <2>2, <2>3, <2>4, <2>5
<1>13. ASSUME Regrant PROVE FenceInv'
  <2>1. FenceShape'
    BY <1>13 DEF Regrant, FenceShape, FenceCalls
  <2>2. CallsAreLocked'
    BY <1>13 DEF Regrant, CallsAreLocked, LocksOf, StepsOf, FenceShape, FenceCalls
  <2>3. OneAtTheGate'
    BY <1>13 DEF Regrant, OneAtTheGate, CallsAreLocked, LocksOf, FenceShape, FenceCalls
  <2>4. ChangesAlone'
    BY <1>13 DEF Regrant, ChangesAlone, CallsAreLocked, LocksOf, StepsOf, FenceShape,
                 FenceCalls
  <2>5. NoReadAcrossRevisions'
    BY <1>13 DEF Regrant, NoReadAcrossRevisions, CallsAreLocked, LocksOf, StepsOf,
                 ChangesAlone, FenceShape, FenceCalls
  <2> QED  BY <2>1, <2>2, <2>3, <2>4, <2>5
<1>14. ASSUME Replace PROVE FenceInv'
  <2>1. FenceShape'
    BY <1>14 DEF Replace, FenceShape, FenceCalls
  <2>2. CallsAreLocked'
    BY <1>14 DEF Replace, CallsAreLocked, LocksOf, StepsOf, FenceShape, FenceCalls
  <2>3. OneAtTheGate'
    BY <1>14 DEF Replace, OneAtTheGate, CallsAreLocked, LocksOf, FenceShape, FenceCalls
  <2>4. ChangesAlone'
    BY <1>14 DEF Replace, ChangesAlone, CallsAreLocked, LocksOf, StepsOf, FenceShape,
                 FenceCalls
  <2>5. NoReadAcrossRevisions'
    BY <1>14 DEF Replace, NoReadAcrossRevisions, CallsAreLocked, LocksOf, StepsOf,
                 ChangesAlone, FenceShape, FenceCalls
  <2> QED  BY <2>1, <2>2, <2>3, <2>4, <2>5
<1>15. CASE UNCHANGED fenceVars
  BY <1>15 DEF fenceVars, FenceShape, CallsAreLocked, LocksOf, StepsOf, OneAtTheGate,
               ChangesAlone,
             NoReadAcrossRevisions
<1> QED
  BY <1>1, <1>2, <1>3, <1>4, <1>5, <1>6, <1>7, <1>8, <1>9, <1>10, <1>11, <1>12, <1>13,
     <1>14, <1>15 DEF FenceNext

\* Whoever has the data file alone has the gate as well, so no reader that waits for the data
\* file behind the gate waits for a change.
LEMMA FenceInvHolds == FenceInv => FenceHolds
<1> SUFFICES ASSUME FenceInv, NEW p \in Readers, fenceCall[p].pc = "data"
             PROVE  Excludes(fenceCall[p].file) = {}
  BY DEF FenceInv, FenceHolds, GateHolderNeverWaits
<1> QED
  BY FenceUsersAssumption
  DEF FenceInv, FenceUsers, CallsAreLocked, LocksOf, StepsOf, OneAtTheGate, Excludes

\* No exclusion and no revocation commits while somebody reads under the fence, and nobody
\* waits without a limit behind the gate.
THEOREM FenceIsCorrect == FenceSpec => []FenceHolds
<1>1. FenceInit => FenceInv  BY FenceInvInit
<1>2. FenceInv /\ [FenceNext]_fenceVars => FenceInv'  BY FenceInvStep
<1>3. FenceInv => FenceHolds  BY FenceInvHolds
<1> QED  BY <1>1, <1>2, <1>3, PTL DEF FenceSpec

-----------------------------------------------------------------------------
(* Exclusions, revocation and the purge (PrivacyPurge).                      *)

\* What a derived row refers to is located; only plans write down names, only cleanup plans
\* have a basis, and a project refers to the folder.
RowShape(r) ==
    /\ r.kind \in DerivedKinds
    /\ \A ref \in r.refs : ref[2] \in Located
    /\ r.names # {} => r.kind = "plan"
    /\ r.basis # {} => r.kind = "cleanup"
    /\ r.kind = "project" => r.refs = {<<FolderNode, Folder>>}
PurgeShape ==
    /\ rows \in [KnownPaths -> Nodes \cup {FolderNode, NoNode}]
    /\ rows[Folder] \in {FolderNode, NoNode}
    /\ \A r \in derived : RowShape(r)

RowIsFree(r) ==
    \A x \in exclusions : \A path \in r.names \cup {ref[2] : ref \in r.refs} : ~Covers(x, path)
BasisIsThere(r) ==
    r.basis # {} =>
        \E source \in derived : source.kind \in {"relation", "group"} /\ source.refs = r.basis
PurgeInv ==
    /\ PurgeShape
    /\ \A x \in exclusions : \A p \in Located : ~Covers(x, p) /\ rows[p] # x.id
    /\ \A r \in derived : RowIsFree(r)
    /\ \A r \in derived : BasisIsThere(r)

LEMMA EvidenceParts ==
    ASSUME NEW kind, NEW refs, NEW names, NEW basis
    PROVE  /\ Evidence(kind, refs, names, basis).kind = kind
           /\ Evidence(kind, refs, names, basis).refs = refs
           /\ Evidence(kind, refs, names, basis).names = names
           /\ Evidence(kind, refs, names, basis).basis = basis
  BY DEF Evidence

\* A row that is derived from located and permitted files keeps the invariant.
LEMMA DerivedStep ==
    ASSUME PurgeInv, NEW r, DeriveRow(r),
           r.kind \in DerivedKinds, r.names # {} => r.kind = "plan",
           r.basis # {} => r.kind = "cleanup",
           r.kind = "project" => r.refs = {<<FolderNode, Folder>>},
           \A path \in r.names : ~PathIsExcluded(path),
           BasisIsThere(r)
    PROVE  PurgeInv'
<1>1. /\ derived' = derived \cup {r}
      /\ UNCHANGED <<rows, nodeTable, elsewhere, exclusions, grant>>
      /\ \A ref \in r.refs :
            ref[2] \in Located /\ rows[ref[2]] = ref[1] /\ Allowed(ref[2], ref[1])
  BY DEF DeriveRow
<1>2. Located' = Located
  BY <1>1 DEF Located
<1>3. RowShape(r) /\ RowIsFree(r)
  BY <1>1 DEF RowShape, RowIsFree, Allowed, PathIsExcluded
<1>4. \A s \in derived \cup {r} : RowShape(s) /\ RowIsFree(s) /\ BasisIsThere(s)
  BY <1>3 DEF PurgeInv, PurgeShape
<1>5. \A s \in derived' : RowShape(s)' /\ RowIsFree(s)' /\ BasisIsThere(s)'
  BY <1>1, <1>2, <1>4 DEF RowShape, RowIsFree, BasisIsThere
<1> QED  BY <1>1, <1>2, <1>5 DEF PurgeInv, PurgeShape

\* A purge of closed targets keeps it, too.
LEMMA PurgeStep ==
    ASSUME PurgeInv, NEW t, Purge(t),
           \A p \in Located :
              (\E x \in exclusions' : Covers(x, p) \/ rows[p] = x.id) => p \in t.paths,
           \A r \in derived \ t.records : \A x \in exclusions' :
              \A path \in r.names : ~Covers(x, path),
           \A r \in derived \ t.records, s \in derived \cap t.records :
              ~(r.basis # {} /\ s.kind \in {"relation", "group"} /\ s.refs = r.basis)
    PROVE  PurgeInv'
<1>1. /\ ~Referenced(t)
      /\ rows' = [p \in KnownPaths |-> IF p \in t.paths THEN NoNode ELSE rows[p]]
      /\ derived' = derived \ t.records
  BY DEF Purge
<1>2. \A p \in KnownPaths : p \in Located' <=> p \in Located /\ p \notin t.paths
  BY <1>1 DEF Located
<1>3. \A r \in derived' : \A ref \in r.refs : ref[2] \in Located /\ ref[2] \notin t.paths
  BY <1>1 DEF Referenced, Dangles, PurgeInv, PurgeShape, RowShape
<1>4. ASSUME NEW r \in derived' PROVE RowShape(r)' /\ RowIsFree(r)' /\ BasisIsThere(r)'
  <2>1. r \in derived /\ r \notin t.records /\ RowShape(r) /\ BasisIsThere(r)
    BY <1>1, <1>4 DEF PurgeInv, PurgeShape
  <2>2. RowShape(r)'
    BY <1>2, <1>3, <2>1 DEF RowShape, Located
  <2>3. RowIsFree(r)'
    BY <1>3, <2>1 DEF RowIsFree
  <2>4. BasisIsThere(r)'
    BY <1>1, <2>1 DEF BasisIsThere
  <2> QED  BY <2>2, <2>3, <2>4
<1>5. \A p \in Located' : p \in Located /\ p \notin t.paths /\ rows'[p] = rows[p]
  BY <1>1, <1>2 DEF Located
<1>6. \A x \in exclusions' : \A p \in Located' : ~Covers(x, p) /\ rows'[p] # x.id
  BY <1>5
<1>7. /\ rows' \in [KnownPaths -> Nodes \cup {FolderNode, NoNode}]
      /\ rows'[Folder] \in {FolderNode, NoNode}
  BY <1>1 DEF PurgeInv, PurgeShape, KnownPaths
<1> QED  BY <1>4, <1>6, <1>7 DEF PurgeInv, PurgeShape

\* What the targets of an exclusion and of a revocation are.
LEMMA ExclusionTargets ==
    ASSUME NEW writes
    PROVE  LET t == TargetsOf(writes)
               hit == {p \in Located : \E x \in writes : Covers(x, p) \/ rows[p] = x.id}
           IN  /\ t.nodes = {rows[p] : p \in hit}
               /\ t.paths = {p \in Located : rows[p] \in t.nodes}
               /\ t.records = {r \in derived : Concerned(r, t.nodes, writes)}
  BY DEF TargetsOf, Targets

LEMMA RevocationTargets ==
    LET t == FullTargets
    IN  /\ t.nodes = {rows[p] : p \in Located}
        /\ t.paths = {p \in Located : rows[p] \in t.nodes}
        /\ t.records = {r \in derived : r.kind = "content" => RefersTo(r.refs, t.nodes)}
  BY DEF FullTargets, Targets

LEMMA PurgeInvStep == ASSUME PurgeInv, PurgeNext PROVE PurgeInv'
<1>1. ASSUME NEW batch \in Batches, ExcludeBatch(batch) PROVE PurgeInv'
  <2>1. PICK t, writes : t = TargetsOf(writes) /\ writes = exclusions \cup batch
    OBVIOUS
  <2>2. Purge(t) /\ exclusions' = writes
    BY <1>1, <2>1 DEF ExcludeBatch
  <2>3. \A p \in Located : (\E x \in writes : Covers(x, p) \/ rows[p] = x.id) => p \in t.paths
    BY <2>1, ExclusionTargets
  <2>4. t.records = {r \in derived : Concerned(r, t.nodes, writes)}
    BY <2>1, ExclusionTargets
  <2>5. ASSUME NEW r \in derived, r \notin t.records, NEW x \in writes, NEW path \in r.names
        PROVE  ~Covers(x, path)
    BY <2>4, <2>5 DEF Concerned, PurgeInv, PurgeShape, RowShape
  <2>6. ASSUME NEW r \in derived, r \notin t.records, NEW s \in derived, s \in t.records,
               r.basis # {}, s.kind \in {"relation", "group"}, s.refs = r.basis
        PROVE  FALSE
    <3>1. r.kind = "cleanup"
      BY <2>6 DEF PurgeInv, PurgeShape, RowShape
    <3>2. RefersTo(s.refs, t.nodes)
      BY <2>4, <2>6 DEF Concerned
    <3> QED  BY <2>4, <2>6, <3>1, <3>2 DEF Concerned, RefersTo
  <2> QED  BY <2>2, <2>3, <2>5, <2>6, PurgeStep
<1>2. CASE RevokeRoot
  <2>1. PICK t : t = FullTargets
    OBVIOUS
  <2>2. Purge(t) /\ exclusions' = {}
    BY <1>2, <2>1 DEF RevokeRoot, PurgeRoot
  <2>3. t.records = {r \in derived : r.kind = "content" => RefersTo(r.refs, t.nodes)}
    BY <2>1, RevocationTargets
  <2>4. \A r \in derived \ t.records : r.basis = {}
    BY <2>3 DEF PurgeInv, PurgeShape, RowShape
  <2> QED  BY <2>2, <2>4, PurgeStep
\* An observation locates what the policy permits.
<1>3. ASSUME NEW p \in KnownPaths, NEW n \in Nodes \cup {FolderNode}, Allowed(p, n),
             rows' = [rows EXCEPT ![p] = n], UNCHANGED <<derived, exclusions>>,
             p = Folder => n = FolderNode
      PROVE  PurgeInv'
  <2>1. rows'[p] = n /\ \A q \in KnownPaths : q # p => rows'[q] = rows[q]
    BY <1>3 DEF PurgeInv, PurgeShape
  <2>2. \A q \in KnownPaths : q \in Located => q \in Located'
    BY <1>3, <2>1, PurgeAssumption DEF PurgeAssumption, Located
  <2>3. \A r \in derived' : RowShape(r)' /\ RowIsFree(r)' /\ BasisIsThere(r)'
    <3>1. \A r \in derived : RowShape(r) /\ RowIsFree(r) /\ BasisIsThere(r)
      BY DEF PurgeInv, PurgeShape
    <3>2. \A r \in derived : RowShape(r)'
      BY <2>2, <3>1 DEF RowShape, Located
    <3> QED  BY <1>3, <3>1, <3>2 DEF RowIsFree, BasisIsThere
  <2>4. ASSUME NEW x \in exclusions', NEW q \in Located' PROVE ~Covers(x,
      q) /\ rows'[q] # x.id
    <3>1. CASE q = p
      BY <1>3, <2>1, <2>4, <3>1 DEF Allowed, PathIsExcluded
    <3>2. CASE q # p
      BY <1>3, <2>1, <2>4, <3>2 DEF PurgeInv, Located
    <3> QED  BY <3>1, <3>2
  <2>5. /\ rows' \in [KnownPaths -> Nodes \cup {FolderNode, NoNode}]
        /\ rows'[Folder] \in {FolderNode, NoNode}
    BY <1>3, <2>1 DEF PurgeInv, PurgeShape, KnownPaths
  <2> QED  BY <2>3, <2>4, <2>5 DEF PurgeInv, PurgeShape
<1>4. ASSUME NEW p \in Files, NEW n \in Nodes, ObserveFile(p, n) PROVE PurgeInv'
  BY <1>3, <1>4, PurgeAssumption DEF ObserveFile, PurgeAssumption, KnownPaths
<1>5. CASE ObserveFolder
  BY <1>3, <1>5 DEF ObserveFolder, KnownPaths
\* What is derived refers to located files.
<1>6. \A p \in Located : \A x \in exclusions : ~Covers(x, p)
  BY DEF PurgeInv
<1>7. \A p \in Located : ~PathIsExcluded(p)
  BY DEF PurgeInv, PathIsExcluded
<1>8. ASSUME NEW p \in Files, Extract(p) PROVE PurgeInv'
  BY <1>8, EvidenceParts, DerivedStep DEF Extract, DerivedKinds, BasisIsThere
<1>9. ASSUME NEW p \in Files, NEW q \in Files, Relate(p, q) PROVE PurgeInv'
  BY <1>9, EvidenceParts, DerivedStep DEF Relate, DerivedKinds, BasisIsThere
<1>10. ASSUME NEW paths \in SUBSET Files, Group(paths) PROVE PurgeInv'
  BY <1>10, EvidenceParts, DerivedStep DEF Group, DerivedKinds, BasisIsThere
<1>11. CASE SuggestProject
  <2>1. RefsAt({Folder}) = {<<FolderNode, Folder>>}
    BY <1>11 DEF SuggestProject, RefsAt, Located, PurgeInv, PurgeShape
  <2>2. PICK r : r = Evidence("project", {<<FolderNode, Folder>>}, {}, {})
    OBVIOUS
  <2>3. /\ DeriveRow(r) /\ r.kind = "project" /\ r.refs = {<<FolderNode, Folder>>}
        /\ r.names = {} /\ r.basis = {}
    <3>1. DeriveRow(r)
      BY <1>11, <2>1, <2>2 DEF SuggestProject
    <3> QED  BY <2>2, <3>1, EvidenceParts
  <2> QED  BY <2>3, DerivedStep DEF DerivedKinds, BasisIsThere
<1>12. ASSUME NEW p \in Files, NEW q \in Files, PlanRename(p, q) PROVE PurgeInv'
  BY <1>7, <1>12, EvidenceParts, DerivedStep DEF PlanRename, DerivedKinds, BasisIsThere
<1>13. ASSUME NEW s \in derived, NEW ref \in s.refs, PlanCleanup(s, ref) PROVE PurgeInv'
  BY <1>13, EvidenceParts, DerivedStep DEF PlanCleanup, DerivedKinds, BasisIsThere
<1>14. ASSUME NEW r \in derived, BeginPlan(r) PROVE PurgeInv'
  <2>1. PICK b : b = [r EXCEPT !.begun = TRUE]
    OBVIOUS
  <2>2. b.kind = r.kind /\ b.refs = r.refs /\ b.names = r.names /\ b.basis = r.basis
    BY <2>1
  <2>3. /\ derived' = (derived \ {r}) \cup {b} /\ r.kind = "plan"
        /\ UNCHANGED <<rows, exclusions>> /\ Located' = Located
    BY <1>14, <2>1 DEF BeginPlan, Located
  <2>4. RowShape(b) /\ RowIsFree(b) /\ BasisIsThere(b)
    <3>1. RowShape(r) /\ RowIsFree(r) /\ BasisIsThere(r)
      BY DEF PurgeInv, PurgeShape
    <3> QED  BY <2>2, <3>1 DEF RowShape, RowIsFree, BasisIsThere
  <2>5. ASSUME NEW s \in derived' PROVE RowShape(s)' /\ RowIsFree(s)' /\ BasisIsThere(s)'
    <3>1. RowShape(s) /\ RowIsFree(s) /\ BasisIsThere(s)
      BY <2>3, <2>4, <2>5 DEF PurgeInv, PurgeShape
    <3>2. RowShape(s)' /\ RowIsFree(s)'
      BY <2>3, <3>1 DEF RowShape, RowIsFree
    <3>3. ASSUME s.basis # {} PROVE \E source \in derived' : source.kind \in {"relation",
        "group"} /\ source.refs = s.basis
      <4>1. PICK source \in derived :
                source.kind \in {"relation", "group"} /\ source.refs = s.basis
        BY <3>1, <3>3 DEF BasisIsThere
      <4> QED  BY <2>3, <4>1
    <3> QED  BY <3>2, <3>3 DEF BasisIsThere
  <2> QED  BY <2>3, <2>5 DEF PurgeInv, PurgeShape
<1>15. CASE UNCHANGED <<rows, derived, exclusions>>
  BY <1>15 DEF PurgeInv, PurgeShape, RowShape, RowIsFree, BasisIsThere, Located
<1> QED  BY <1>1, <1>2, <1>4, <1>5, <1>8, <1>9, <1>10, <1>11, <1>12, <1>13, <1>14, <1>15
         DEF PurgeNext, ObserveElsewhere, RenewGrant, LoseGrant

\* A row that refers to a file as it is now never dangles.
LEMMA TargetsAreClosed ==
    ASSUME PurgeInv, NEW r \in derived, ~Replaced
    PROVE  /\ \A writes : ~Dangles(r, TargetsOf(writes))
           /\ ~Dangles(r, FullTargets)
<1>1. \A ref \in r.refs : rows[ref[2]] = ref[1] /\ ref[2] \in Located
  BY DEF Replaced, PurgeInv, PurgeShape, RowShape
<1>2. r.kind \in DerivedKinds /\ (r.kind = "project" => r.refs = {<<FolderNode, Folder>>})
  BY DEF PurgeInv, PurgeShape, RowShape
<1>3. ASSUME NEW writes, NEW t, t = TargetsOf(writes), NEW ref \in r.refs,
    ref[2] \in t.paths
      PROVE  r \in t.records
  <2>1. /\ t.paths = {p \in Located : rows[p] \in t.nodes}
        /\ t.records = {s \in derived : Concerned(s, t.nodes, writes)}
    BY <1>3, ExclusionTargets
  <2>2. ref[1] \in t.nodes
    BY <1>1, <1>3, <2>1
  <2>3. RefersTo(r.refs, t.nodes) /\ RefersTo(r.refs \cup r.basis, t.nodes)
    BY <1>3, <2>2 DEF RefersTo
  <2>4. r.kind = "project" => FolderNode \in t.nodes
    BY <1>2, <1>3, <2>2
  <2> QED  BY <2>1, <2>3, <2>4 DEF Concerned, TouchesFolder
<1>4. ASSUME NEW ref \in r.refs PROVE r \in FullTargets.records
  <2>1. rows[ref[2]] = ref[1] /\ ref[1] \in {rows[p] : p \in Located}
    BY <1>1, <1>4
  <2>2. RefersTo(r.refs, FullTargets.nodes)
    BY <1>4, <2>1, RevocationTargets DEF RefersTo
  <2> QED  BY <2>2, RevocationTargets
<1> QED  BY <1>3, <1>4 DEF Dangles

(* Whatever is observed, derived, planned, excluded and revoked in what    *)
(* order: no row is located at or names a path the policy withholds, and a *)
(* purge follows every row to what was derived from it.                    *)
THEOREM PurgesAreComplete == PurgeSpec => []PurgeIsComplete
<1>1. PurgeInit => PurgeInv
  BY DEF PurgeInit, PurgeInv, PurgeShape, KnownPaths
<1>2. PurgeInv /\ [PurgeNext]_purgeVars => PurgeInv'
  <2>1. PurgeInv /\ UNCHANGED purgeVars => PurgeInv'
    BY DEF purgeVars, PurgeInv, PurgeShape, RowShape, RowIsFree, BasisIsThere, Located
  <2> QED  BY <2>1, PurgeInvStep
<1>3. PurgeInv => PurgeIsComplete
  <2> SUFFICES ASSUME PurgeInv PROVE PurgeIsComplete
    OBVIOUS
  <2>1. WithheldIsAbsent
    BY DEF PurgeInv, WithheldIsAbsent, RowIsFree
  <2>2. ClosureIsComplete
    BY TargetsAreClosed DEF PurgeInv, ClosureIsComplete, BasisIsThere
  <2> QED  BY <2>1, <2>2 DEF PurgeIsComplete
<1> QED  BY <1>1, <1>2, <1>3, PTL DEF PurgeSpec

-----------------------------------------------------------------------------
(* Grants (AccessGrants).                                                    *)

\* Folders overlap others, never themselves.
OverlapsAreOfTwo == \A r \in Roots : {r} \notin Overlapping

\* What a call is, whatever the sequences and sets in it hold.
IsCall(c) == c = [pc |-> c.pc, todo |-> c.todo, restored |-> c.restored, renewed |-> c.renewed,
                  batch |-> c.batch]
GrantsShape ==
    /\ grants \in [Roots -> GrantRows]
    /\ withdrawn \subseteq Roots
    /\ grantCall = [h \in Hosts |-> grantCall[h]]
    /\ \A h \in Hosts : IsCall(grantCall[h])
\* A host that holds the fence of a folder does not restore one that was revoked.
NobodyRestoresTheRevoked == \A h \in Hosts : \A r \in withdrawn : ~HoldsFence(h, r)
GrantsInv ==
    GrantsShape /\ ActiveRootsAreDisjoint /\ RevokedStaysRevoked /\ NobodyRestoresTheRevoked

LEMMA GrantsInvInit == GrantsInit => GrantsInv
<1> SUFFICES ASSUME GrantsInit PROVE GrantsInv
  OBVIOUS
<1>1. GrantsShape
  BY DEF GrantsInit, GrantsShape, GrantRows, IsCall, Off
<1>2. ActiveFolders = {}
  BY DEF GrantsInit, ActiveFolders
<1> QED  BY <1>1, <1>2 DEF GrantsInit, GrantsInv, ActiveRootsAreDisjoint, RevokedStaysRevoked,
                           NobodyRestoresTheRevoked

\* Storing a set that is free leaves the active folders disjoint and the others as they were.
LEMMA StoreKeepsDisjoint ==
    ASSUME GrantsShape, ActiveRootsAreDisjoint, OverlapsAreOfTwo, NEW batch,
           \A r \in batch : /\ RootIsFree(r)
                            /\ \A s \in batch : r # s => ~Overlap(r, s),
           NEW who \in {"host", "cli"}, Store(batch, who)
    PROVE  /\ ActiveRootsAreDisjoint' /\ grants' \in [Roots -> GrantRows]
           /\ \A r \in Roots \ batch : grants'[r] = grants[r]
<1>1. grants' \in [Roots -> GrantRows]
  BY DEF GrantsShape, GrantRows, Store
<1>2. \A r \in Roots \ batch : grants'[r] = grants[r]
  BY DEF Store
<1>3. \A r \in ActiveFolders' : r \in Roots /\ (r \in batch \/ r \in ActiveFolders)
  BY <1>2 DEF ActiveFolders
<1>4. \A r, s : Overlap(r, s) <=> Overlap(s, r)
  <2>1. \A r, s : {r, s} = {s, r}
    OBVIOUS
  <2> QED  BY <2>1 DEF Overlap
<1>5. \A r \in Roots : ~Overlap(r, r)
  <2>1. \A r : {r, r} = {r}
    OBVIOUS
  <2> QED  BY <2>1 DEF Overlap, OverlapsAreOfTwo
<1> SUFFICES ASSUME NEW r \in ActiveFolders', NEW s \in ActiveFolders' PROVE ~Overlap(r, s)
  BY <1>1, <1>2 DEF ActiveRootsAreDisjoint
<1>6. CASE r \in ActiveFolders /\ s \in ActiveFolders
  BY <1>6 DEF ActiveRootsAreDisjoint
<1>7. CASE r \in batch /\ s \in ActiveFolders
  BY <1>7 DEF RootIsFree
<1>8. CASE r \in ActiveFolders /\ s \in batch
  BY <1>4, <1>8 DEF RootIsFree
<1>9. CASE r \in batch /\ s \in batch
  BY <1>3, <1>5, <1>9
<1> QED  BY <1>3, <1>6, <1>7, <1>8, <1>9

\* The state of one folder other than active.
LEMMA LeavingKeepsDisjoint ==
    ASSUME GrantsShape, ActiveRootsAreDisjoint, NEW r,
           NEW state \in {"needs_reauthorization", "revoked"},
           grants' = [grants EXCEPT ![r].state = state]
    PROVE  /\ ActiveRootsAreDisjoint' /\ grants' \in [Roots -> GrantRows]
           /\ \A s \in Roots : IF s = r THEN grants'[s].state = state ELSE grants'[s] = grants[s]
<1>1. grants' \in [Roots -> GrantRows]
  BY DEF GrantsShape, GrantRows
<1>2. \A s \in Roots : IF s = r THEN grants'[s].state = state ELSE grants'[s] = grants[s]
  BY DEF GrantsShape, GrantRows
<1>3. ActiveFolders' \subseteq ActiveFolders
  BY <1>2 DEF ActiveFolders
<1> QED  BY <1>1, <1>2, <1>3 DEF ActiveRootsAreDisjoint

\* A call that changes is a call, and no other changes.
Moves(h, pc) ==
    /\ grantCall' = [g \in Hosts |-> grantCall'[g]] /\ \A g \in Hosts : IsCall(grantCall'[g])
    /\ grantCall'[h].pc = pc
    /\ \A g \in Hosts \ {h} : grantCall'[g] = grantCall[g]

LEMMA CallsThatMove ==
    ASSUME GrantsShape, NEW h \in Hosts, NEW c, IsCall(c), grantCall' = [grantCall EXCEPT ![h] = c]
    PROVE  Moves(h, c.pc) /\ grantCall'[h] = c
<1>1. grantCall' = [g \in Hosts |-> IF g = h THEN c ELSE grantCall[g]]
  BY DEF GrantsShape
<1>2. grantCall'[h] = c /\ \A g \in Hosts \ {h} : grantCall'[g] = grantCall[g]
  BY <1>1
<1>3. grantCall' = [g \in Hosts |-> grantCall'[g]]
  BY <1>1
<1> QED  BY <1>2, <1>3 DEF Moves, GrantsShape

LEMMA GoMoves ==
    ASSUME GrantsShape, NEW h \in Hosts, NEW pc, Go(h, pc)
    PROVE  Moves(h, pc) /\ grantCall'[h].todo = grantCall[h].todo
<1>1. IsCall(grantCall[h])
  BY DEF GrantsShape
<1>2. PICK c : c = [grantCall[h] EXCEPT !.pc = pc]
  OBVIOUS
<1>3. IsCall(c) /\ c.pc = pc /\ c.todo = grantCall[h].todo
  BY <1>1, <1>2 DEF IsCall
<1>4. grantCall' = [grantCall EXCEPT ![h] = c]
  BY <1>2 DEF Go
<1> QED  BY <1>3, <1>4, CallsThatMove

LEMMA PassingMoves ==
    ASSUME GrantsShape, NEW h \in Hosts, NEW restored, Passes(h, restored)
    PROVE  Moves(h, "restore")
<1>1. IsCall(grantCall[h])
  BY DEF GrantsShape
<1>2. PICK c : c = [grantCall[h] EXCEPT !.pc = "restore", !.todo = Tail(grantCall[h].todo),
                                        !.restored = grantCall[h].restored \cup restored]
  OBVIOUS
<1>3. IsCall(c) /\ c.pc = "restore"
  BY <1>1, <1>2 DEF IsCall
<1>4. grantCall' = [grantCall EXCEPT ![h] = c]
  BY <1>2 DEF Passes
<1> QED  BY <1>3, <1>4, CallsThatMove

\* A call at another place holds no fence, and those of the others are as they were.
LEMMA FencesAfter ==
    ASSUME NEW h \in Hosts, NEW pc, Moves(h, pc), pc \notin {"held", "resolved"}
    PROVE  \A g \in Hosts, r \in Roots : HoldsFence(g, r)' => HoldsFence(g, r)
  BY DEF Moves, HoldsFence, NextFolder

\* A step that changes no grant and holds no other fence.
LEMMA CallsKeepGrants ==
    ASSUME GrantsInv, NEW h \in Hosts, NEW pc, Moves(h, pc), UNCHANGED <<grants, withdrawn>>,
           \A r \in withdrawn : ~HoldsFence(h, r)'
    PROVE  GrantsInv'
<1>1. GrantsShape'
  BY DEF GrantsInv, GrantsShape, Moves
<1>2. ActiveRootsAreDisjoint' /\ RevokedStaysRevoked'
  BY DEF GrantsInv, ActiveRootsAreDisjoint, RevokedStaysRevoked, ActiveFolders
<1>3. NobodyRestoresTheRevoked'
  BY DEF GrantsInv, NobodyRestoresTheRevoked, Moves, HoldsFence, NextFolder
<1> QED  BY <1>1, <1>2, <1>3 DEF GrantsInv

LEMMA GrantsInvStep ==
    ASSUME OverlapsAreOfTwo, GrantsInv, [GrantsNext]_grantVars
    PROVE  GrantsInv'
<1>0. GrantsShape /\ ActiveRootsAreDisjoint /\ RevokedStaysRevoked /\ NobodyRestoresTheRevoked
      /\ withdrawn \subseteq Roots
  BY DEF GrantsInv, GrantsShape
<1>1. CASE UNCHANGED grantVars
  BY <1>1 DEF grantVars, GrantsInv, GrantsShape, ActiveRootsAreDisjoint, RevokedStaysRevoked,
              NobodyRestoresTheRevoked, HoldsFence, NextFolder, ActiveFolders
<1>2. ASSUME NEW h \in Hosts, StartHost(h) PROVE GrantsInv'
  <2>1. PICK c : c = [Off EXCEPT !.pc = "restore", !.todo = SetToSeq(Listed)]
    OBVIOUS
  <2>2. IsCall(c) /\ c.pc = "restore"
    BY <2>1 DEF IsCall, Off
  <2>3. Moves(h, "restore") /\ grantCall'[h] = c
    BY <1>0, <1>2, <2>1, <2>2, CallsThatMove DEF StartHost
  <2> QED  BY <1>2, <2>2, <2>3, CallsKeepGrants DEF StartHost, HoldsFence
<1>3. ASSUME NEW h \in Hosts, Stop(h) PROVE GrantsInv'
  <2>1. IsCall(Off) /\ Off.pc = "off"
    BY DEF IsCall, Off
  <2>2. Moves(h, "off")
    BY <1>0, <1>3, <2>1, CallsThatMove DEF Stop
  <2> QED  BY <1>3, <2>2, CallsKeepGrants DEF Stop, HoldsFence, Moves
<1>4. ASSUME NEW h \in Hosts, Acquire(h) PROVE GrantsInv'
  <2>1. CASE NextFolder(h) \in ActiveFolders
    <3>1. Moves(h, "held") /\ grantCall'[h].todo = grantCall[h].todo
      BY <1>0, <1>4, <2>1, GoMoves DEF Acquire
    <3>2. \A r \in withdrawn : r # NextFolder(h)
      BY <1>0, <2>1 DEF RevokedStaysRevoked, ActiveFolders
    <3> QED  BY <1>4, <3>1, <3>2, CallsKeepGrants DEF Acquire, HoldsFence, NextFolder
  <2>2. CASE NextFolder(h) \notin ActiveFolders
    <3>1. Moves(h, "restore")
      BY <1>0, <1>4, <2>2, PassingMoves DEF Acquire
    <3> QED  BY <1>4, <3>1, CallsKeepGrants DEF Acquire, HoldsFence, Moves
  <2> QED  BY <2>1, <2>2
<1>5. ASSUME NEW h \in Hosts, Fails(h) PROVE GrantsInv'
  <2>1. Moves(h, "restore")
    BY <1>0, <1>5, PassingMoves DEF Fails
  <2>2. /\ ActiveRootsAreDisjoint' /\ grants' \in [Roots -> GrantRows]
        /\ \A s \in Roots : s # NextFolder(h) => grants'[s] = grants[s]
    BY <1>0, <1>5, LeavingKeepsDisjoint DEF Fails, Lapse
  <2>3. NextFolder(h) \notin withdrawn
    BY <1>0, <1>5 DEF Fails, HostAt, NobodyRestoresTheRevoked, HoldsFence
  <2>4. RevokedStaysRevoked'
    BY <1>0, <1>5, <2>2, <2>3 DEF Fails, RevokedStaysRevoked
  <2>5. NobodyRestoresTheRevoked'
    BY <1>0, <1>5, <2>1, FencesAfter DEF Fails, NobodyRestoresTheRevoked
  <2>6. GrantsShape'
    BY <1>0, <1>5, <2>1, <2>2 DEF Fails, GrantsShape, Moves
  <2> QED  BY <2>2, <2>4, <2>5, <2>6 DEF GrantsInv
<1>6. ASSUME NEW h \in Hosts, NEW renewed \in BOOLEAN, Resolves(h, renewed) PROVE GrantsInv'
  <2>1. IsCall(grantCall[h])
    BY <1>0 DEF GrantsShape
  <2>2. PICK c : c = [grantCall[h] EXCEPT !.pc = "resolved", !.renewed = renewed]
    OBVIOUS
  <2>3. IsCall(c) /\ c.pc = "resolved" /\ c.todo = grantCall[h].todo
    BY <2>1, <2>2 DEF IsCall
  <2>4. grantCall' = [grantCall EXCEPT ![h] = c]
    BY <1>6, <2>2 DEF Resolves
  <2>5. Moves(h, "resolved") /\ grantCall'[h] = c
    BY <1>0, <2>3, <2>4, CallsThatMove
  <2>6. \A r \in withdrawn : r # NextFolder(h)
    BY <1>0, <1>6 DEF Resolves, HostAt, NobodyRestoresTheRevoked, HoldsFence
  <2> QED  BY <1>6, <2>3, <2>5, <2>6, CallsKeepGrants DEF Resolves, HoldsFence, NextFolder
<1>7. ASSUME NEW h \in Hosts, Keep(h) PROVE GrantsInv'
  <2>1. Moves(h, "restore")
    BY <1>0, <1>7, PassingMoves DEF Keep
  <2>2. CASE ~grantCall[h].renewed
    <3>1. UNCHANGED grants
      BY <1>7, <2>2 DEF Keep
    <3> QED  BY <1>7, <2>1, <3>1, CallsKeepGrants DEF Keep, HoldsFence, Moves
  <2>3. CASE grantCall[h].renewed
    <3>1. RootIsFree(NextFolder(h)) /\ Store({NextFolder(h)}, "host")
      BY <1>7, <2>3 DEF Keep
    <3>2. /\ ActiveRootsAreDisjoint' /\ grants' \in [Roots -> GrantRows]
          /\ \A s \in Roots \ {NextFolder(h)} : grants'[s] = grants[s]
      BY <1>0, <3>1, StoreKeepsDisjoint
    <3>3. NextFolder(h) \notin withdrawn
      BY <1>0, <1>7 DEF Keep, HostAt, NobodyRestoresTheRevoked, HoldsFence
    <3>4. RevokedStaysRevoked'
      BY <1>0, <1>7, <3>2, <3>3 DEF Keep, RevokedStaysRevoked
    <3>5. NobodyRestoresTheRevoked'
      BY <1>0, <1>7, <2>1, FencesAfter DEF Keep, NobodyRestoresTheRevoked
    <3>6. GrantsShape'
      BY <1>0, <1>7, <2>1, <3>2 DEF Keep, GrantsShape, Moves
    <3> QED  BY <3>2, <3>4, <3>5, <3>6 DEF GrantsInv
  <2> QED  BY <2>2, <2>3
<1>8. ASSUME NEW h \in Hosts, Run(h) PROVE GrantsInv'
  <2>1. PICK c : c = [Off EXCEPT !.pc = "running"]
    OBVIOUS
  <2>2. IsCall(c) /\ c.pc = "running"
    BY <2>1 DEF IsCall, Off
  <2>3. Moves(h, "running")
    BY <1>0, <1>8, <2>1, <2>2, CallsThatMove DEF Run
  <2> QED  BY <1>8, <2>3, CallsKeepGrants DEF Run, HoldsFence, Moves
<1>9. ASSUME NEW h \in Hosts, NEW batch \in SUBSET Roots, Select(h, batch) PROVE GrantsInv'
  <2>1. IsCall(grantCall[h])
    BY <1>0 DEF GrantsShape
  <2>2. PICK c : c = [grantCall[h] EXCEPT !.pc = "selected", !.batch = batch]
    OBVIOUS
  <2>3. IsCall(c) /\ c.pc = "selected"
    BY <2>1, <2>2 DEF IsCall
  <2>4. grantCall' = [grantCall EXCEPT ![h] = c]
    BY <1>9, <2>2 DEF Select
  <2>5. Moves(h, "selected")
    BY <1>0, <2>3, <2>4, CallsThatMove
  <2> QED  BY <1>9, <2>5, CallsKeepGrants DEF Select, HoldsFence, Moves
<1>10. ASSUME NEW h \in Hosts, Authorize(h) PROVE GrantsInv'
  <2>1. PICK c, batch : c = [Off EXCEPT !.pc = "running"] /\ batch = grantCall[h].batch
    OBVIOUS
  <2>2. IsCall(c) /\ c.pc = "running"
    BY <2>1 DEF IsCall, Off
  <2>3. Moves(h, "running")
    BY <1>0, <1>10, <2>1, <2>2, CallsThatMove DEF Authorize
  <2>4. CASE SetIsFree(batch) /\ \A r \in batch : RootIsFree(r)
    <3>1. Store(batch, "host") /\ withdrawn' = withdrawn \ batch
      BY <1>10, <2>1, <2>4 DEF Authorize
    <3>2. /\ ActiveRootsAreDisjoint' /\ grants' \in [Roots -> GrantRows]
          /\ \A s \in Roots \ batch : grants'[s] = grants[s]
      BY <1>0, <2>4, <3>1, StoreKeepsDisjoint DEF SetIsFree
    <3>3. RevokedStaysRevoked'
      BY <1>0, <3>1, <3>2 DEF RevokedStaysRevoked
    <3>4. NobodyRestoresTheRevoked'
      BY <1>0, <2>3, <3>1, FencesAfter DEF NobodyRestoresTheRevoked
    <3>5. GrantsShape'
      BY <1>0, <2>3, <3>1, <3>2 DEF GrantsShape, Moves
    <3> QED  BY <3>2, <3>3, <3>4, <3>5 DEF GrantsInv
  <2>5. CASE ~(SetIsFree(batch) /\ \A r \in batch : RootIsFree(r))
    <3>1. UNCHANGED <<grants, withdrawn>>
      BY <1>10, <2>1, <2>5 DEF Authorize
    <3> QED  BY <2>3, <3>1, CallsKeepGrants DEF HoldsFence, Moves
  <2> QED  BY <2>4, <2>5
<1>11. ASSUME NEW r \in Roots, AddByCommand(r) PROVE GrantsInv'
  <2>1. Store({r}, "cli") /\ withdrawn' = withdrawn \ {r} /\ RootIsFree(r) /\ UNCHANGED grantCall
    BY <1>11 DEF AddByCommand
  <2>2. /\ ActiveRootsAreDisjoint' /\ grants' \in [Roots -> GrantRows]
        /\ \A s \in Roots \ {r} : grants'[s] = grants[s]
    BY <1>0, <2>1, StoreKeepsDisjoint
  <2>3. RevokedStaysRevoked'
    BY <1>0, <2>1, <2>2 DEF RevokedStaysRevoked
  <2>4. NobodyRestoresTheRevoked' /\ GrantsShape'
    BY <1>0, <2>1, <2>2 DEF NobodyRestoresTheRevoked, HoldsFence, NextFolder, GrantsShape
  <2> QED  BY <2>2, <2>3, <2>4 DEF GrantsInv
<1>12. ASSUME NEW h \in Hosts, NEW r \in Roots, Revoke(h, r) PROVE GrantsInv'
  <2>1. /\ grants' = [grants EXCEPT ![r].state = "revoked"] /\ withdrawn' = withdrawn \cup {r}
        /\ Drained(r) /\ UNCHANGED grantCall
    BY <1>12 DEF Revoke
  <2>2. /\ ActiveRootsAreDisjoint' /\ grants' \in [Roots -> GrantRows]
        /\ \A s \in Roots : IF s = r THEN grants'[s].state = "revoked" ELSE grants'[s] = grants[s]
    BY <1>0, <2>1, LeavingKeepsDisjoint
  <2>3. RevokedStaysRevoked'
    BY <1>0, <2>1, <2>2 DEF RevokedStaysRevoked
  <2>4. NobodyRestoresTheRevoked' /\ GrantsShape'
    BY <1>0, <2>1, <2>2 DEF NobodyRestoresTheRevoked, Drained, HoldsFence, NextFolder, GrantsShape
  <2> QED  BY <2>2, <2>3, <2>4 DEF GrantsInv
<1> QED
  BY <1>1, <1>2, <1>3, <1>4, <1>5, <1>6, <1>7, <1>8, <1>9, <1>10, <1>11, <1>12 DEF GrantsNext

\* However the selections, restorations and revocations of any number of hosts interleave, no
\* active folder lies in another, and what was revoked stays so until it is selected again.
THEOREM GrantsAreSafe ==
    ASSUME OverlapsAreOfTwo
    PROVE  GrantsSpec => [](ActiveRootsAreDisjoint /\ RevokedStaysRevoked)
<1>1. GrantsInit => GrantsInv
  BY GrantsInvInit
<1>2. GrantsInv /\ [GrantsNext]_grantVars => GrantsInv'
  BY GrantsInvStep
<1>3. GrantsInv => ActiveRootsAreDisjoint /\ RevokedStaysRevoked
  BY DEF GrantsInv
<1> QED  BY <1>1, <1>2, <1>3, PTL DEF GrantsSpec

-----------------------------------------------------------------------------
(* Watch events (WatchEvents).                                               *)

\* What the rows and the calls are made of; a version is any number here.
Observations == [version : Nat, id : Identities \cup OtherKinds]
EventRows ==
    [status : {"none", "stabilizing", "reconciling"}, kind : {"delta", "full"},
     path : Paths \cup {NoPath}, shot : Observations \cup {Unread}, deadline : Deadlines \cup {0},
     stable : BOOLEAN, aged : BOOLEAN, scan : {"none", "live", "completed", "failed"}]
ScanRows ==
    [status : {"none", "ready", "active", "paused", "interrupted"}, pause : BOOLEAN,
     read : [Paths -> Observations \cup {Unread}], owner : Processes \cup {NoProcess}]
WatchSteps ==
    {"idle", "request", "observe", "look", "record", "ignore", "widen", "bind", "anchor",
     "publish", "force", "scan", "claim", "read", "batch", "complete", "fail", "due", "schedule"}
WatchCalls ==
    [pc : WatchSteps, at : Events \cup {0}, row : EventRows, path : Paths \cup {NoPath},
     hint : Observations \cup {Unread}, old : Observations \cup {Unread}]
RowsShape ==
    /\ disk \in [Paths -> Observations] /\ manifest \in [Paths -> Observations]
    /\ event \in [Events -> EventRows]
    /\ job \in ScanRows
    /\ seen \in [Paths -> Nat]
CallsShape == proc \in [Processes -> WatchCalls]

\* Nothing that is published, seen or staged is newer than the file, and what a scan has
\* staged is never older than what is published.
NothingIsAhead ==
    \A p \in Paths :
        /\ manifest[p].version <= disk[p].version
        /\ seen[p] <= disk[p].version
        /\ job.read[p] # Unread => /\ manifest[p].version <= job.read[p].version
                                   /\ job.read[p].version <= disk[p].version
NoScanNoReadings == job.status = "none" => \A p \in Paths : job.read[p] = Unread
DeltasHavePaths ==
    \A e \in Events :
        event[e].status = "stabilizing" /\ event[e].kind = "delta" => event[e].path \in Paths
RowsInv == RowsShape /\ NothingIsAhead /\ NoScanNoReadings /\ DeltasHavePaths /\ HintIsKept

\* A hint of a path is an observation that was made of it.
HintOf(p, hint, dsk) == p \in Paths /\ hint \in Observations /\ hint.version <= dsk[p].version
\* While the event is the one a call is about to publish, nothing newer was seen of its path.
Serves(c, ev, sn) ==
    /\ c.at \in Events
    /\ ev[c.at].status = "stabilizing" /\ ev[c.at].kind = "delta"
    /\ ev[c.at].deadline = c.row.deadline
    => sn[c.row.path] <= c.hint.version
BoundIn(c, dsk, ev, sn) ==
    /\ c.pc = "observe" => HintOf(c.path, c.hint, dsk)
    /\ c.pc \in {"look", "record", "bind", "anchor", "publish"} =>
          c.row.status = "stabilizing" /\ c.row.kind = "delta" /\ c.row.path \in Paths
    /\ c.pc \in {"record", "bind", "anchor", "publish"} => HintOf(c.row.path, c.hint, dsk)
    /\ c.pc \in {"anchor", "publish"} => HintOf(c.row.path, c.old, dsk)
    /\ c.pc = "publish" => c.old.version <= c.hint.version /\ Serves(c, ev, sn)
CallsAreBound == \A x \in Processes : BoundIn(proc[x], disk, event, seen)

WatchInv == RowsInv /\ CallsShape /\ CallsAreBound

\* A step at which a call no longer rests on what it has looked at.
FreeSteps == WatchSteps \ {"observe", "look", "record", "bind", "anchor", "publish"}

LEMMA InitialRows ==
    /\ NoEvent \in EventRows /\ Idle \in WatchCalls /\ NoJob \in ScanRows /\ Fresh \in ScanRows
    /\ Idle.pc \in FreeSteps /\ Idle.at = 0 /\ Idle.row = NoEvent
    /\ NoEvent.status = "none" /\ NoEvent.kind = "full"
    /\ \A p \in Paths : NoJob.read[p] = Unread /\ Fresh.read[p] = Unread
    /\ Fresh.status = "ready" /\ NoJob.status = "none"
<1>1. NoEvent \in EventRows /\ NoEvent.status = "none" /\ NoEvent.kind = "full"
  BY DEF NoEvent, EventRows
<1>2. Idle \in WatchCalls /\ Idle.pc = "idle" /\ Idle.at = 0 /\ Idle.row = NoEvent
  BY <1>1 DEF Idle, WatchCalls, WatchSteps
<1>3. NoJob \in ScanRows /\ NoJob.status = "none" /\ \A p \in Paths : NoJob.read[p] = Unread
  BY DEF NoJob, ScanRows
<1>4. Fresh \in ScanRows /\ Fresh.status = "ready" /\ \A p \in Paths : Fresh.read[p] = Unread
  BY <1>3 DEF Fresh, ScanRows
<1> QED  BY <1>1, <1>2, <1>3, <1>4 DEF FreeSteps, WatchSteps

LEMMA FreeCalls ==
    ASSUME NEW c, c.pc \in FreeSteps, NEW dsk, NEW ev, NEW sn
    PROVE  BoundIn(c, dsk, ev, sn)
  BY DEF FreeSteps, BoundIn

LEMMA WatchInvInit == Init => WatchInv
<1> SUFFICES ASSUME Init PROVE WatchInv
  OBVIOUS
<1>1. PICK i \in Identities : disk = [p \in Paths |-> [version |-> 0, id |-> i]]
  BY DEF Init
<1>2. RowsShape
  BY <1>1, InitialRows DEF Init, RowsShape, Observations
<1>3. \A p \in Paths : disk[p].version = 0 /\ manifest[p].version = 0 /\ seen[p] = 0
                       /\ job.read[p] = Unread
  BY <1>1, InitialRows DEF Init
<1>4. NothingIsAhead /\ NoScanNoReadings
  BY <1>3 DEF NothingIsAhead, NoScanNoReadings
<1>5. DeltasHavePaths
  BY InitialRows DEF Init, DeltasHavePaths
<1>6. HintIsKept
  BY <1>3 DEF HintIsKept, Covered, CoveredIn
<1>7. CallsShape /\ CallsAreBound
  BY InitialRows, FreeCalls DEF Init, CallsShape, CallsAreBound
<1> QED  BY <1>2, <1>4, <1>5, <1>6, <1>7 DEF WatchInv, RowsInv

-----------------------------------------------------------------------------
(* What a step does to the calls. *)

\* The call of x becomes c, the others stay.
CallBecomes(x, c) ==
    /\ proc' \in [Processes -> WatchCalls] /\ proc'[x] = c
    /\ \A y \in Processes \ {x} : proc'[y] = proc[y]

LEMMA CallsThatBecome ==
    ASSUME CallsShape, NEW x \in Processes, NEW c \in WatchCalls, proc' = [proc EXCEPT ![x] = c]
    PROVE  CallBecomes(x, c)
  BY DEF CallsShape, CallBecomes

LEMMA ReturnBecomes ==
    ASSUME CallsShape, NEW x \in Processes, Return(x)
    PROVE  CallBecomes(x, Idle)
  BY InitialRows, CallsThatBecome DEF Return

LEMMA StepsOfCalls ==
    ASSUME NEW c \in WatchCalls, NEW pc \in WatchSteps
    PROVE  /\ [c EXCEPT !.pc = pc] \in WatchCalls
           /\ [c EXCEPT !.pc = pc].pc = pc /\ [c EXCEPT !.pc = pc].at = c.at
           /\ [c EXCEPT !.pc = pc].row = c.row /\ [c EXCEPT !.pc = pc].path = c.path
           /\ [c EXCEPT !.pc = pc].hint = c.hint /\ [c EXCEPT !.pc = pc].old = c.old
  BY DEF WatchCalls

LEMMA GotoBecomes ==
    ASSUME CallsShape, NEW x \in Processes, NEW pc \in WatchSteps, Goto(x, pc)
    PROVE  /\ CallBecomes(x, [proc[x] EXCEPT !.pc = pc])
           /\ proc'[x].pc = pc
<1>1. proc[x] \in WatchCalls
  BY DEF CallsShape
<1>2. PICK c : c = [proc[x] EXCEPT !.pc = pc]
  OBVIOUS
<1>3. c \in WatchCalls /\ c.pc = pc
  BY <1>1, <1>2, StepsOfCalls
<1>4. proc' = [proc EXCEPT ![x] = c]
  BY <1>2 DEF Goto
<1>5. CallBecomes(x, c)
  BY <1>3, <1>4, CallsThatBecome
<1> QED  BY <1>2, <1>3, <1>5 DEF CallBecomes

\* The rows hold, what the calls rest on holds of the new rows, and one call moves.
LEMMA OneCallMoves ==
    ASSUME CallsShape, RowsInv', \A y \in Processes : BoundIn(proc[y], disk', event', seen'),
           NEW x \in Processes, NEW c \in WatchCalls, CallBecomes(x, c),
           BoundIn(c, disk', event', seen')
    PROVE  WatchInv'
<1>1. CallsShape'
  BY DEF CallBecomes, CallsShape
<1>2. \A y \in Processes : BoundIn(proc'[y], disk', event', seen')
  BY DEF CallBecomes
<1> QED  BY <1>1, <1>2 DEF WatchInv, CallsAreBound

LEMMA NoCallMoves ==
    ASSUME CallsShape, RowsInv', \A y \in Processes : BoundIn(proc[y], disk', event', seen'),
           UNCHANGED proc
    PROVE  WatchInv'
  BY DEF WatchInv, CallsAreBound, CallsShape

-----------------------------------------------------------------------------
(* What a step does to the rows.  RowsStay: they still hold, and so does what *)
(* the calls rest on that do not move.                                        *)

RowsStay == RowsInv' /\ \A y \in Processes : BoundIn(proc[y], disk', event', seen')

LEMMA SameRows ==
    ASSUME WatchInv, UnchangedRows, UNCHANGED disk
    PROVE  RowsStay
<1>1. RowsShape' /\ NothingIsAhead' /\ NoScanNoReadings' /\ DeltasHavePaths'
  BY DEF UnchangedRows, WatchInv, RowsInv, RowsShape, NothingIsAhead, NoScanNoReadings,
         DeltasHavePaths
<1>2. HintIsKept'
  BY DEF UnchangedRows, WatchInv, RowsInv, HintIsKept, Covered, CoveredIn
<1>3. \A y \in Processes : BoundIn(proc[y], disk', event', seen')
  BY DEF UnchangedRows, WatchInv, CallsAreBound
<1> QED  BY <1>1, <1>2, <1>3 DEF RowsInv, RowsStay

\* Looking again at a path that changed shows a newer version.
LEMMA NewerFiles ==
    ASSUME WatchInv, UnchangedRows, NEW p \in Paths, NEW i \in Identities \cup OtherKinds,
           disk' = [disk EXCEPT ![p] = [version |-> @.version + 1, id |-> i]]
    PROVE  RowsStay
<1>1. /\ disk \in [Paths -> Observations] /\ disk' \in [Paths -> Observations]
      /\ \A q \in Paths : disk[q].version \in Nat /\ disk'[q].version \in Nat
                          /\ disk[q].version <= disk'[q].version
  BY DEF WatchInv, RowsInv, RowsShape, Observations
<1>2. RowsShape'
  BY <1>1 DEF UnchangedRows, WatchInv, RowsInv, RowsShape
<1>3. NothingIsAhead'
  <2>1. \A q \in Paths : /\ manifest[q].version \in Nat /\ seen[q] \in Nat
                         /\ job.read[q] # Unread => job.read[q].version \in Nat
    BY DEF WatchInv, RowsInv, RowsShape, Observations, ScanRows
  <2> QED  BY <1>1, <2>1 DEF UnchangedRows, WatchInv, RowsInv, NothingIsAhead
<1>4. NoScanNoReadings' /\ DeltasHavePaths'
  BY DEF UnchangedRows, WatchInv, RowsInv, NoScanNoReadings, DeltasHavePaths
<1>5. HintIsKept'
  BY DEF UnchangedRows, WatchInv, RowsInv, HintIsKept, Covered, CoveredIn
<1>6. ASSUME NEW y \in Processes PROVE BoundIn(proc[y], disk', event', seen')
  <2>1. \A q, hint : HintOf(q, hint, disk) => HintOf(q, hint, disk')
    <3> SUFFICES ASSUME NEW q, NEW hint, HintOf(q, hint, disk) PROVE HintOf(q, hint, disk')
      OBVIOUS
    <3>1. hint.version \in Nat
      BY DEF HintOf, Observations
    <3> QED  BY <1>1, <3>1 DEF HintOf
  <2>2. BoundIn(proc[y], disk, event, seen)
    BY DEF WatchInv, CallsAreBound
  <2> QED  BY <2>1, <2>2 DEF UnchangedRows, BoundIn
<1> QED  BY <1>2, <1>3, <1>4, <1>5, <1>6 DEF RowsInv, RowsStay

\* Only the scan changes, and what it has staged stays.
LEMMA ScanMoves ==
    ASSUME WatchInv, NEW j \in ScanRows, job' = j, j.read = job.read,
           j.status = "none" => job.status = "none",
           UNCHANGED <<disk, manifest, event, seen, dropped>>
    PROVE  RowsStay
<1>1. RowsShape' /\ NothingIsAhead' /\ NoScanNoReadings' /\ DeltasHavePaths'
  BY DEF WatchInv, RowsInv, RowsShape, NothingIsAhead, NoScanNoReadings, DeltasHavePaths
<1>2. HintIsKept'
  BY DEF WatchInv, RowsInv, HintIsKept, Covered, CoveredIn
<1>3. \A y \in Processes : BoundIn(proc[y], disk', event', seen')
  BY DEF WatchInv, CallsAreBound
<1> QED  BY <1>1, <1>2, <1>3 DEF RowsInv, RowsStay

\* A scan that begins has staged nothing, and whatever waits for a scan waits for this one.
LEMMA ScanBegins ==
    ASSUME WatchInv, job' = Fresh, UNCHANGED <<disk, manifest, event, seen, dropped>>
    PROVE  RowsStay
<1>1. RowsShape' /\ NothingIsAhead' /\ NoScanNoReadings' /\ DeltasHavePaths'
  BY InitialRows
  DEF WatchInv, RowsInv, RowsShape, NothingIsAhead, NoScanNoReadings, DeltasHavePaths
<1>2. HintIsKept'
  BY InitialRows DEF WatchInv, RowsInv, HintIsKept, Covered, CoveredIn
<1>3. \A y \in Processes : BoundIn(proc[y], disk', event', seen')
  BY DEF WatchInv, CallsAreBound
<1> QED  BY <1>1, <1>2, <1>3 DEF RowsInv, RowsStay

\* A path that is staged is staged as it is on disk.
LEMMA ScanReads ==
    ASSUME WatchInv, NEW p \in Paths, job.status # "none",
           job' = [job EXCEPT !.read[p] = disk[p]],
           UNCHANGED <<disk, manifest, event, seen, dropped>>
    PROVE  RowsStay
<1>1. /\ job' \in ScanRows /\ job'.status = job.status
      /\ \A q \in Paths : job'.read[q] = IF q = p THEN disk[p] ELSE job.read[q]
  <2>1. job \in ScanRows /\ disk[p] \in Observations
    BY DEF WatchInv, RowsInv, RowsShape
  <2>2. PICK r : r = [job.read EXCEPT ![p] = disk[p]]
    OBVIOUS
  <2>3. job' = [job EXCEPT !.read = r]
    BY <2>2
  <2>4. /\ r \in [Paths -> Observations \cup {Unread}]
        /\ \A q \in Paths : r[q] = IF q = p THEN disk[p] ELSE job.read[q]
    BY <2>1, <2>2 DEF ScanRows
  <2> QED  BY <2>1, <2>3, <2>4 DEF ScanRows
<1>2. RowsShape' /\ NoScanNoReadings' /\ DeltasHavePaths'
  BY <1>1 DEF WatchInv, RowsInv, RowsShape, NoScanNoReadings, DeltasHavePaths
<1>3. \A q \in Paths : /\ disk[q].version \in Nat
                       /\ manifest[q].version <= disk[q].version /\ seen[q] <= disk[q].version
  BY DEF WatchInv, RowsInv, RowsShape, Observations, NothingIsAhead
<1>4. NothingIsAhead'
  BY <1>1, <1>3 DEF WatchInv, RowsInv, NothingIsAhead
<1>5. HintIsKept'
  BY <1>1, <1>3 DEF WatchInv, RowsInv, HintIsKept, Covered, CoveredIn
<1>6. \A y \in Processes : BoundIn(proc[y], disk', event', seen')
  BY DEF WatchInv, CallsAreBound
<1> QED  BY <1>2, <1>4, <1>5, <1>6 DEF RowsInv, RowsStay

\* An event whose status, kind, path and scan stay covers what it covered.
LEMMA EventsAreMarked ==
    ASSUME WatchInv, event' \in [Events -> EventRows],
           \A e \in Events : /\ event'[e].status = event[e].status
                             /\ event'[e].kind = event[e].kind
                             /\ event'[e].path = event[e].path
                             /\ event'[e].scan = event[e].scan
                             /\ event'[e].deadline = event[e].deadline,
           UNCHANGED <<disk, manifest, job, seen, dropped>>
    PROVE  RowsStay
<1>1. RowsShape' /\ NothingIsAhead' /\ NoScanNoReadings' /\ DeltasHavePaths'
  BY DEF WatchInv, RowsInv, RowsShape, NothingIsAhead, NoScanNoReadings, DeltasHavePaths
<1>2. HintIsKept'
  BY DEF WatchInv, RowsInv, HintIsKept, Covered, CoveredIn
<1>3. \A y \in Processes : BoundIn(proc[y], disk', event', seen')
  BY DEF WatchInv, CallsAreBound, BoundIn, Serves
<1> QED  BY <1>1, <1>2, <1>3 DEF RowsInv, RowsStay

\* An event that ends is about nothing.
LEMMA EventEnds ==
    ASSUME WatchInv, NEW e, event' = [event EXCEPT ![e] = NoEvent],
           UNCHANGED <<disk, job, seen>>
    PROVE  /\ event' \in [Events -> EventRows]
           /\ \A d \in Events : IF d = e THEN event'[d] = NoEvent ELSE event'[d] = event[d]
           /\ NoScanNoReadings' /\ DeltasHavePaths'
           /\ \A y \in Processes : BoundIn(proc[y], disk', event', seen')
<1>1. event \in [Events -> EventRows]
  BY DEF WatchInv, RowsInv, RowsShape
<1>2. /\ event' \in [Events -> EventRows]
      /\ \A d \in Events : IF d = e THEN event'[d] = NoEvent ELSE event'[d] = event[d]
  BY <1>1, InitialRows
<1>3. NoScanNoReadings' /\ DeltasHavePaths'
  BY <1>2, InitialRows DEF WatchInv, RowsInv, NoScanNoReadings, DeltasHavePaths
<1>4. \A y \in Processes : BoundIn(proc[y], disk', event', seen')
  BY <1>2, InitialRows DEF WatchInv, CallsAreBound, BoundIn, Serves
<1> QED  BY <1>2, <1>3, <1>4

LEMMA EventIsGivenUp ==
    ASSUME WatchInv, NEW e, GiveUp(e), UNCHANGED disk
    PROVE  RowsStay
<1>1. /\ event' = [event EXCEPT ![e] = NoEvent] /\ UNCHANGED <<manifest, job, seen>>
      /\ dropped' = dropped \cup {p \in Paths : ~CoveredIn(event', job, manifest, seen, p)}
  BY DEF GiveUp
<1>2. RowsShape' /\ NothingIsAhead'
  BY <1>1, EventEnds DEF WatchInv, RowsInv, RowsShape, NothingIsAhead
<1>3. HintIsKept'
  BY <1>1 DEF HintIsKept, Covered
<1> QED  BY <1>1, <1>2, <1>3, EventEnds DEF RowsInv, RowsStay

LEMMA EventIsServed ==
    ASSUME WatchInv, NEW e, event' = [event EXCEPT ![e] = NoEvent],
           event[e].status = "reconciling", event[e].scan = "completed",
           UNCHANGED <<disk, manifest, job, seen, dropped>>
    PROVE  RowsStay
<1>1. RowsShape' /\ NothingIsAhead'
  BY EventEnds DEF WatchInv, RowsInv, RowsShape, NothingIsAhead
<1>2. \A d \in Events : IF d = e THEN event'[d] = NoEvent ELSE event'[d] = event[d]
  BY EventEnds
<1>3. HintIsKept'
  BY <1>2 DEF WatchInv, RowsInv, HintIsKept, Covered, CoveredIn
<1> QED  BY <1>1, <1>3, EventEnds DEF RowsInv, RowsStay

\* The largest of two versions.
LEMMA LargerOfTwo ==
    ASSUME NEW m \in Nat, NEW n \in Nat
    PROVE  Max({m, n}) \in {m, n} /\ m <= Max({m, n}) /\ n <= Max({m, n})
<1>1. \E k \in {m, n} : \A l \in {m, n} : k >= l
  <2>1. CASE m >= n  BY <2>1
  <2>2. CASE ~(m >= n)  BY <2>2
  <2> QED  BY <2>1, <2>2
<1>2. Max({m, n}) \in {m, n} /\ \A l \in {m, n} : Max({m, n}) >= l
  BY <1>1 DEF Max
<1> QED  BY <1>2

\* A row that is inserted is in no running call, and takes the place of none.
LEMMA InsertedRow ==
    ASSUME WatchInv, NEW row \in EventRows, Inserted(row)
    PROVE  \E e \in Events :
              /\ event' \in [Events -> EventRows]
              /\ event[e].status = "none" /\ event'[e] = row
              /\ \A d \in Events \ {e} : event'[d] = event[d]
              /\ \A y \in Processes : proc[y].at # e
  BY DEF WatchInv, RowsInv, RowsShape, Inserted, NewIds

\* An observation is in an event that is about its path or about the whole scope.
LEMMA ObservationIsKept ==
    ASSUME WatchInv, NEW p \in Paths, NEW entry \in Observations,
           entry.version <= disk[p].version, Observe(p, entry), UNCHANGED disk
    PROVE  RowsStay
<1>1. /\ seen \in [Paths -> Nat] /\ entry.version \in Nat /\ disk[p].version \in Nat
      /\ seen[p] <= disk[p].version
  BY DEF WatchInv, RowsInv, RowsShape, Observations, NothingIsAhead
<1>2. UNCHANGED <<manifest, job, dropped>>
  BY DEF Observe
<1>3. /\ seen' \in [Paths -> Nat] /\ seen'[p] <= disk[p].version
      /\ \A q \in Paths : q # p => seen'[q] = seen[q]
  <2>1. PICK m : m = Max({seen[p], entry.version})
    OBVIOUS
  <2>2. m \in {seen[p], entry.version}
    BY <1>1, <2>1, LargerOfTwo
  <2>3. m \in Nat /\ m <= disk[p].version
    BY <1>1, <2>2
  <2>4. seen' = [seen EXCEPT ![p] = m]
    BY <2>1 DEF Observe
  <2> QED  BY <1>1, <2>3, <2>4
<1>4. NothingIsAhead' /\ NoScanNoReadings'
  BY <1>2, <1>3 DEF WatchInv, RowsInv, NothingIsAhead, NoScanNoReadings
<1>5. CASE Stabilizing = {}
  <2>1. PICK row : row = [NoEvent EXCEPT !.status = "stabilizing", !.kind = KindOf(entry),
                                         !.path = p, !.shot = entry]
    OBVIOUS
  <2>2. /\ row \in EventRows /\ row.status = "stabilizing" /\ row.path = p
    <3>1. KindOf(entry) \in {"delta", "full"}
      BY DEF KindOf
    <3>2. NoEvent \in EventRows
      BY InitialRows
    <3> QED  BY <2>1, <3>1, <3>2 DEF EventRows
  <2>3. Inserted(row)
    BY <1>5, <2>1 DEF Observe
  <2>4. PICK e \in Events :
              /\ event' \in [Events -> EventRows]
              /\ event[e].status = "none" /\ event'[e] = row
              /\ \A d \in Events \ {e} : event'[d] = event[d]
              /\ \A y \in Processes : proc[y].at # e
    BY <2>2, <2>3, InsertedRow
  <2>5. RowsShape' /\ DeltasHavePaths'
    BY <1>2, <1>3, <2>2, <2>4 DEF WatchInv, RowsInv, RowsShape, DeltasHavePaths
  <2>6. HintIsKept'
    <3> SUFFICES ASSUME NEW q \in Paths, q \notin dropped
                 PROVE  CoveredIn(event', job', manifest', seen', q)
      BY <1>2 DEF HintIsKept, Covered
    <3>1. CASE q = p
      BY <2>2, <2>4, <3>1 DEF CoveredIn
    <3>2. CASE q # p
      BY <1>2, <1>3, <2>4, <3>2 DEF WatchInv, RowsInv, HintIsKept, Covered, CoveredIn
    <3> QED  BY <3>1, <3>2
  <2>7. ASSUME NEW y \in Processes PROVE BoundIn(proc[y], disk', event', seen')
    <3>1. BoundIn(proc[y], disk, event, seen)
      BY DEF WatchInv, CallsAreBound
    <3>2. Serves(proc[y], event', seen')
      BY <1>5, <2>4 DEF Serves, Stabilizing
    <3> QED  BY <3>1, <3>2 DEF BoundIn
  <2> QED  BY <1>4, <2>5, <2>6, <2>7 DEF RowsInv, RowsStay
<1>6. CASE Stabilizing # {}
  <2>1. PICK d \in NewDeadlines :
             event' = [e \in Events |-> IF e \in Stabilizing
                                        THEN Coalesced(event[e], p, entry, d) ELSE event[e]]
    BY <1>6 DEF Observe
  <2>2. ASSUME NEW e \in Events
        PROVE  /\ event'[e] \in EventRows
               /\ event'[e].status = event[e].status /\ event'[e].scan = event[e].scan
               /\ IF event[e].status # "stabilizing" THEN event'[e] = event[e]
                  ELSE /\ event'[e].path = p /\ event'[e].deadline = d
                       /\ event'[e].kind = WidenedKind(event[e], p, entry)
    <3>1. event[e] \in EventRows /\ (e \in Stabilizing <=> event[e].status = "stabilizing")
      BY DEF WatchInv, RowsInv, RowsShape, Stabilizing
    <3>2. PICK row : row = Coalesced(event[e], p, entry, d)
      OBVIOUS
    <3>3. d \in Deadlines /\ WidenedKind(event[e], p, entry) \in {"full", "delta"}
      BY <2>1 DEF NewDeadlines, WidenedKind
    <3>4. /\ row \in EventRows /\ row.status = event[e].status /\ row.scan = event[e].scan
          /\ row.path = p /\ row.deadline = d /\ row.kind = WidenedKind(event[e], p, entry)
      BY <3>1, <3>2, <3>3 DEF Coalesced, EventRows
    <3>5. event'[e] = IF e \in Stabilizing THEN row ELSE event[e]
      BY <2>1, <3>2
    <3> QED  BY <3>1, <3>4, <3>5
  <2>3. event' \in [Events -> EventRows]
    BY <2>1, <2>2
  <2>4. RowsShape' /\ DeltasHavePaths'
    BY <1>2, <1>3, <2>2, <2>3 DEF WatchInv, RowsInv, RowsShape, DeltasHavePaths
  <2>5. HintIsKept'
    <3> SUFFICES ASSUME NEW q \in Paths, q \notin dropped
                 PROVE  CoveredIn(event', job', manifest', seen', q)
      BY <1>2 DEF HintIsKept, Covered
    <3>1. CASE q = p
      <4>1. PICK e \in Events : event[e].status = "stabilizing"
        BY <1>6 DEF Stabilizing
      <4> QED  BY <2>2, <3>1, <4>1 DEF CoveredIn
    <3>2. CASE q # p
      <4>1. CoveredIn(event, job, manifest, seen, q)
        BY DEF WatchInv, RowsInv, HintIsKept, Covered
      <4>2. ASSUME NEW e \in Events, event[e].status = "stabilizing",
                   event[e].kind = "full" \/ event[e].path = q
            PROVE  event'[e].status = "stabilizing" /\ event'[e].kind = "full"
        BY <2>2, <3>2, <4>2 DEF WidenedKind
      <4> QED  BY <1>2, <1>3, <2>2, <3>2, <4>1, <4>2 DEF CoveredIn
    <3> QED  BY <3>1, <3>2
  <2>6. ASSUME NEW y \in Processes PROVE BoundIn(proc[y], disk', event', seen')
    <3>1. BoundIn(proc[y], disk, event, seen)
      BY DEF WatchInv, CallsAreBound
    <3>2. ASSUME proc[y].pc = "publish" PROVE Serves(proc[y], event', seen')
      <4>1. proc[y].row.status = "stabilizing"
        BY <3>1, <3>2 DEF BoundIn
      <4>2. proc[y].row.deadline # d
        BY <2>1, <4>1 DEF NewDeadlines
      <4> QED  BY <2>2, <4>2 DEF Serves
    <3> QED  BY <3>1, <3>2 DEF BoundIn
  <2> QED  BY <1>4, <2>4, <2>5, <2>6 DEF RowsInv, RowsStay
<1> QED  BY <1>5, <1>6

\* A recovery covers every path.
LEMMA RecoveryIsKept ==
    ASSUME WatchInv, RequestFull, UNCHANGED disk
    PROVE  RowsStay
<1>1. UNCHANGED <<manifest, job>> /\ InsertFull /\ seen' = [p \in Paths |-> disk[p].version]
  BY DEF RequestFull
<1>2. /\ event \in [Events -> EventRows]
      /\ \A p \in Paths : disk[p].version \in Nat
  BY DEF WatchInv, RowsInv, RowsShape, Observations
<1>3. seen' \in [Paths -> Nat] /\ NothingIsAhead' /\ NoScanNoReadings'
  BY <1>1, <1>2 DEF WatchInv, RowsInv, NothingIsAhead, NoScanNoReadings
<1>4. /\ event' \in [Events -> EventRows]
      /\ \A e \in Events : event'[e].status = "stabilizing" => event'[e].kind = "full"
      /\ \E e \in Events : event'[e].status = "stabilizing"
  <2>1. CASE Stabilizing = {}
    <3>1. PICK row : row = [NoEvent EXCEPT !.status = "stabilizing", !.stable = TRUE]
      OBVIOUS
    <3>2. row \in EventRows /\ row.status = "stabilizing" /\ row.kind = "full"
      BY <3>1, InitialRows DEF EventRows
    <3>3. Inserted(row)
      BY <1>1, <2>1, <3>1 DEF InsertFull
    <3> QED  BY <2>1, <3>2, <3>3, InsertedRow DEF Stabilizing
  <2>2. CASE Stabilizing # {}
    <3>1. event' = [e \in Events |-> IF e \in Stabilizing THEN Full(event[e]) ELSE event[e]]
      BY <1>1, <2>2 DEF InsertFull
    <3>2. \A row \in EventRows :
             Full(row) \in EventRows /\ Full(row).status = row.status /\ Full(row).kind = "full"
      BY DEF Full, EventRows
    <3>3. \A e \in Events : e \in Stabilizing <=> event[e].status = "stabilizing"
      BY DEF Stabilizing
    <3>4. PICK e \in Events : event[e].status = "stabilizing"
      BY <2>2 DEF Stabilizing
    <3>5. \A d \in Events :
             /\ event'[d] \in EventRows /\ event'[d].status = event[d].status
             /\ event'[d].status = "stabilizing" => event'[d].kind = "full"
      BY <1>2, <3>1, <3>2, <3>3
    <3> QED  BY <3>1, <3>4, <3>5
  <2> QED  BY <2>1, <2>2
<1>5. RowsShape' /\ DeltasHavePaths'
  BY <1>1, <1>3, <1>4 DEF WatchInv, RowsInv, RowsShape, DeltasHavePaths
<1>6. HintIsKept'
  BY <1>4 DEF HintIsKept, Covered, CoveredIn
<1>7. \A y \in Processes : BoundIn(proc[y], disk', event', seen')
  BY <1>4 DEF WatchInv, CallsAreBound, BoundIn, Serves
<1> QED  BY <1>3, <1>5, <1>6, <1>7 DEF RowsInv, RowsStay

\* An event that goes over to its scan waits for it with everything.
LEMMA ReconciliationBegins ==
    ASSUME WatchInv, NEW e \in Events, job' = Fresh,
           event' = [event EXCEPT ![e].status = "reconciling", ![e].scan = "live"],
           UNCHANGED <<disk, manifest, seen, dropped>>
    PROVE  RowsStay
<1>1. /\ event' \in [Events -> EventRows]
      /\ event'[e].status = "reconciling" /\ event'[e].scan = "live"
      /\ \A d \in Events \ {e} : event'[d] = event[d]
  <2>1. event \in [Events -> EventRows] /\ event[e] \in EventRows
    BY DEF WatchInv, RowsInv, RowsShape
  <2>2. PICK row : row = [event[e] EXCEPT !.status = "reconciling", !.scan = "live"]
    OBVIOUS
  <2>3. row \in EventRows /\ row.status = "reconciling" /\ row.scan = "live"
    BY <2>1, <2>2 DEF EventRows
  <2>4. event' = [event EXCEPT ![e] = row]
    BY <2>2
  <2> QED  BY <2>1, <2>3, <2>4
<1>2. \A p \in Paths : job'.read[p] = Unread
  BY InitialRows
<1>3. RowsShape' /\ NothingIsAhead' /\ NoScanNoReadings' /\ DeltasHavePaths'
  BY <1>1, <1>2, InitialRows
  DEF WatchInv, RowsInv, RowsShape, NothingIsAhead, NoScanNoReadings, DeltasHavePaths
<1>4. HintIsKept'
  BY <1>1, <1>2 DEF HintIsKept, Covered, CoveredIn
<1>5. \A y \in Processes : BoundIn(proc[y], disk', event', seen')
  BY <1>1 DEF WatchInv, CallsAreBound, BoundIn, Serves
<1> QED  BY <1>3, <1>4, <1>5 DEF RowsInv, RowsStay

\* The outcome of a scan is that of the events it was for.
LEMMA OutcomeOfEvents ==
    ASSUME WatchInv, NEW outcome \in {"completed", "failed"}, ScanEnds(outcome)
    PROVE  /\ event' \in [Events -> EventRows]
           /\ \A e \in Events :
                 /\ event'[e].status = event[e].status /\ event'[e].kind = event[e].kind
                 /\ event'[e].path = event[e].path /\ event'[e].deadline = event[e].deadline
                 /\ event'[e].scan = IF event[e].scan = "live" THEN outcome ELSE event[e].scan
<1>1. /\ event \in [Events -> EventRows]
      /\ \A e \in Events : e \in Linked <=> event[e].scan = "live"
  BY DEF WatchInv, RowsInv, RowsShape, Linked
<1>2. \A row \in EventRows :
         LET ended == [row EXCEPT !.scan = outcome]
         IN  /\ ended \in EventRows /\ ended.status = row.status /\ ended.kind = row.kind
             /\ ended.path = row.path /\ ended.deadline = row.deadline /\ ended.scan = outcome
  BY DEF EventRows
<1>3. event' = [e \in Events |-> IF e \in Linked THEN [event[e] EXCEPT !.scan = outcome]
                                 ELSE event[e]]
  BY DEF ScanEnds
<1> QED  BY <1>1, <1>2, <1>3

\* What a scan publishes has everything that waited for it, and is nowhere older.
LEMMA ScanIsPublished ==
    ASSUME WatchInv, UnreadPaths = {}, manifest' = job.read, ScanEnds("completed"),
           UNCHANGED <<disk, seen, dropped>>
    PROVE  RowsStay /\ \A p \in Paths : manifest'[p].version >= manifest[p].version
<1>1. /\ job \in ScanRows /\ seen \in [Paths -> Nat] /\ disk \in [Paths -> Observations]
      /\ manifest \in [Paths -> Observations] /\ job' = NoJob
  BY DEF WatchInv, RowsInv, RowsShape, ScanEnds
<1>2. manifest' \in [Paths -> Observations]
  BY <1>1 DEF UnreadPaths, ScanRows
<1>3. \A p \in Paths : /\ manifest'[p].version \in Nat /\ manifest[p].version \in Nat
                       /\ manifest[p].version <= manifest'[p].version
                       /\ manifest'[p].version <= disk[p].version /\ job.read[p] # Unread
  BY <1>1, <1>2 DEF UnreadPaths, Observations, WatchInv, RowsInv, NothingIsAhead
<1>4. RowsShape' /\ NothingIsAhead' /\ NoScanNoReadings' /\ DeltasHavePaths'
  BY <1>1, <1>2, <1>3, OutcomeOfEvents, InitialRows
  DEF WatchInv, RowsInv, RowsShape, NothingIsAhead, NoScanNoReadings, DeltasHavePaths
<1>5. HintIsKept'
  <2> SUFFICES ASSUME NEW p \in Paths, p \notin dropped
               PROVE  CoveredIn(event', job', manifest', seen', p)
    BY DEF HintIsKept, Covered
  <2>1. CoveredIn(event, job, manifest, seen, p)
    BY DEF WatchInv, RowsInv, HintIsKept, Covered
  <2>2. CASE manifest'[p].version >= seen[p]
    BY <2>2 DEF CoveredIn
  <2>3. CASE ~(manifest'[p].version >= seen[p])
    <3>1. /\ ~(manifest[p].version >= seen[p])
          /\ ~(job.read[p] = Unread \/ job.read[p].version >= seen[p])
      BY <1>1, <1>3, <2>3
    <3> QED  BY <2>1, <3>1, OutcomeOfEvents DEF CoveredIn
  <2> QED  BY <2>2, <2>3
<1>6. \A y \in Processes : BoundIn(proc[y], disk', event', seen')
  BY OutcomeOfEvents DEF WatchInv, CallsAreBound, BoundIn, Serves
<1> QED  BY <1>3, <1>4, <1>5, <1>6 DEF RowsInv, RowsStay

LEMMA ScanIsFailed ==
    ASSUME WatchInv, ScanEnds("failed"), UNCHANGED <<disk, manifest, seen, dropped>>
    PROVE  RowsStay
<1>1. job' = NoJob
  BY DEF ScanEnds
<1>2. RowsShape' /\ NothingIsAhead' /\ NoScanNoReadings' /\ DeltasHavePaths'
  BY <1>1, OutcomeOfEvents, InitialRows
  DEF WatchInv, RowsInv, RowsShape, NothingIsAhead, NoScanNoReadings, DeltasHavePaths
<1>3. HintIsKept'
  BY OutcomeOfEvents DEF WatchInv, RowsInv, HintIsKept, Covered, CoveredIn
<1>4. \A y \in Processes : BoundIn(proc[y], disk', event', seen')
  BY OutcomeOfEvents DEF WatchInv, CallsAreBound, BoundIn, Serves
<1> QED  BY <1>2, <1>3, <1>4 DEF RowsInv, RowsStay

\* What a delta publishes is what was newest when the file was looked at twice.
LEMMA DeltaIsPublished ==
    ASSUME WatchInv, NEW x \in Processes, At(x, "publish"), Unmoved(x),
           manifest' = [manifest EXCEPT ![proc[x].row.path] = proc[x].hint],
           event' = [event EXCEPT ![proc[x].at] = NoEvent],
           UNCHANGED <<disk, job, seen, dropped>>
    PROVE  RowsStay /\ \A p \in Paths : manifest'[p].version >= manifest[p].version
<1> DEFINE e == proc[x].at  p == proc[x].row.path  hint == proc[x].hint
<1>1. /\ proc[x] \in WatchCalls /\ proc[x].pc = "publish" /\ p \in Paths
      /\ proc[x].row.status = "stabilizing" /\ proc[x].row.kind = "delta"
      /\ HintOf(p, hint, disk) /\ HintOf(p, proc[x].old, disk)
      /\ proc[x].old.version <= hint.version /\ Serves(proc[x], event, seen)
  BY DEF WatchInv, CallsShape, CallsAreBound, BoundIn, At
<1>2. /\ e \in Events /\ event[e].status = "stabilizing" /\ event[e].kind = "delta"
      /\ event[e].path = p /\ event[e].deadline = proc[x].row.deadline
  <2>1. PICK row : row = MyEvent(x)
    OBVIOUS
  <2>2. row \in EventRows /\ [row EXCEPT !.aged = proc[x].row.aged] = proc[x].row
    BY <2>1, InitialRows DEF Unmoved, SameEvent, MyEvent, WatchInv, RowsInv, RowsShape
  <2>3. /\ row.status = proc[x].row.status /\ row.kind = proc[x].row.kind
        /\ row.path = proc[x].row.path /\ row.deadline = proc[x].row.deadline
    BY <2>2 DEF EventRows
  <2>4. e \in Events /\ row = event[e]
    BY <1>1, <2>1, <2>3, InitialRows DEF MyEvent
  <2> QED  BY <1>1, <2>3, <2>4
<1>3. seen[p] <= hint.version
  BY <1>1, <1>2 DEF Serves
<1>4. manifest[p] = proc[x].old /\ job.status = "none"
  BY DEF Unmoved, JobIsLive
<1>5. /\ manifest \in [Paths -> Observations] /\ seen \in [Paths -> Nat]
      /\ \A q \in Paths : job.read[q] = Unread
  BY <1>4 DEF WatchInv, RowsInv, RowsShape, NoScanNoReadings
<1>6. /\ manifest' \in [Paths -> Observations]
      /\ \A q \in Paths : manifest'[q] = IF q = p THEN hint ELSE manifest[q]
  BY <1>1, <1>5 DEF HintOf
<1>7. hint.version \in Nat /\ \A q \in Paths : manifest[q].version \in Nat
  BY <1>1, <1>5 DEF HintOf, Observations
<1>8. \A q \in Paths : /\ manifest'[q].version >= manifest[q].version
                       /\ manifest'[q].version <= disk[q].version
  BY <1>1, <1>4, <1>6, <1>7 DEF HintOf, WatchInv, RowsInv, NothingIsAhead
<1>9. \A d \in Events : IF d = e THEN event'[d] = NoEvent ELSE event'[d] = event[d]
  BY EventEnds
<1>10. RowsShape' /\ NothingIsAhead'
  BY <1>5, <1>6, <1>8, EventEnds DEF WatchInv, RowsInv, RowsShape, NothingIsAhead
<1>11. HintIsKept'
  <2> SUFFICES ASSUME NEW q \in Paths, q \notin dropped
               PROVE  CoveredIn(event', job', manifest', seen', q)
    BY DEF HintIsKept, Covered
  <2>1. CASE q = p
    BY <1>3, <1>6, <1>7, <1>5, <2>1 DEF CoveredIn
  <2>2. CASE q # p
    BY <1>2, <1>6, <1>9, <2>2 DEF WatchInv, RowsInv, HintIsKept, Covered, CoveredIn
  <2> QED  BY <2>1, <2>2
<1> QED  BY <1>8, <1>10, <1>11, EventEnds DEF RowsInv, RowsStay

-----------------------------------------------------------------------------
(* Every step, by what it does to the rows and to its call. *)

NothingGoesBack == \A p \in Paths : manifest'[p].version >= manifest[p].version
WatchKeeps == WatchInv' /\ NothingGoesBack

LEMMA SameManifest ==
    ASSUME WatchInv, UNCHANGED manifest
    PROVE  NothingGoesBack
<1>1. \A p \in Paths : manifest[p].version \in Nat
  BY DEF WatchInv, RowsInv, RowsShape, Observations
<1> QED  BY <1>1 DEF NothingGoesBack

LEMMA CallReturns ==
    ASSUME WatchInv, RowsStay, NEW x \in Processes, Return(x)
    PROVE  WatchInv'
<1>1. CallsShape
  BY DEF WatchInv
<1> QED  BY <1>1, ReturnBecomes, InitialRows, FreeCalls, OneCallMoves DEF RowsStay

LEMMA CallGoes ==
    ASSUME WatchInv, RowsStay, NEW x \in Processes, NEW pc \in FreeSteps, Goto(x, pc)
    PROVE  WatchInv'
<1>1. CallsShape /\ proc[x] \in WatchCalls /\ pc \in WatchSteps
  BY DEF WatchInv, CallsShape, FreeSteps
<1>2. PICK c : c = [proc[x] EXCEPT !.pc = pc]
  OBVIOUS
<1>3. c \in WatchCalls /\ c.pc = pc
  BY <1>1, <1>2, StepsOfCalls
<1>4. CallBecomes(x, c)
  BY <1>1, <1>2, GotoBecomes
<1>5. BoundIn(c, disk', event', seen')
  BY <1>3, FreeCalls
<1> QED  BY <1>1, <1>3, <1>4, <1>5, OneCallMoves DEF RowsStay

LEMMA CallsRest ==
    ASSUME WatchInv, RowsStay, UNCHANGED proc
    PROVE  WatchInv'
  BY NoCallMoves DEF WatchInv, RowsStay

\* A call is put where it rests on nothing.
LEMMA CallIsPlaced ==
    ASSUME WatchInv, RowsStay, NEW x \in Processes, NEW c \in WatchCalls, c.pc \in FreeSteps,
           proc' = [proc EXCEPT ![x] = c]
    PROVE  WatchInv'
<1>1. CallsShape /\ CallBecomes(x, c)
  BY CallsThatBecome DEF WatchInv
<1>2. BoundIn(c, disk', event', seen')
  BY FreeCalls
<1> QED  BY <1>1, <1>2, OneCallMoves DEF RowsStay

LEMMA LookAtHintKeeps ==
    ASSUME WatchInv, NEW x \in Processes, NEW p \in Paths, LookAtHint(x, p)
    PROVE  WatchKeeps
<1>1. RowsStay /\ NothingGoesBack
  BY SameRows, SameManifest DEF LookAtHint, UnchangedRows
<1>2. CASE disk[p].id = "link"
  <2>1. PICK c : c = [Idle EXCEPT !.pc = "request"]
    OBVIOUS
  <2>2. c \in WatchCalls /\ c.pc \in FreeSteps
    BY <2>1, InitialRows DEF WatchCalls, FreeSteps, WatchSteps
  <2>3. proc' = [proc EXCEPT ![x] = c]
    BY <1>2, <2>1 DEF LookAtHint
  <2> QED  BY <1>1, <2>2, <2>3, CallIsPlaced DEF WatchKeeps
<1>3. CASE disk[p].id # "link"
  <2>1. PICK c : c = [Idle EXCEPT !.pc = "observe", !.path = p, !.hint = disk[p]]
    OBVIOUS
  <2>2. disk[p] \in Observations /\ disk[p].version \in Nat /\ UNCHANGED disk
    BY DEF WatchInv, RowsInv, RowsShape, Observations, LookAtHint
  <2>3. c \in WatchCalls /\ c.pc = "observe" /\ c.path = p /\ c.hint = disk[p]
    BY <2>1, <2>2, InitialRows DEF WatchCalls, WatchSteps
  <2>4. proc' = [proc EXCEPT ![x] = c]
    BY <1>3, <2>1 DEF LookAtHint
  <2>5. BoundIn(c, disk', event', seen')
    BY <2>2, <2>3 DEF BoundIn, HintOf
  <2>6. CallsShape /\ CallBecomes(x, c)
    BY <2>3, <2>4, CallsThatBecome DEF WatchInv
  <2> QED  BY <1>1, <2>3, <2>5, <2>6, OneCallMoves DEF RowsStay, WatchKeeps
<1> QED  BY <1>2, <1>3

LEMMA RecordHintKeeps ==
    ASSUME WatchInv, NEW x \in Processes, RecordHint(x) \/ RecordChange(x)
    PROVE  WatchKeeps
<1>1. BoundIn(proc[x], disk, event, seen)
  BY DEF WatchInv, CallsAreBound
<1>2. Return(x) /\ UNCHANGED disk
  BY DEF RecordHint, RecordChange, Advanced
<1>3. ASSUME NEW p, NEW entry, HintOf(p, entry, disk), Observe(p, entry) PROVE WatchKeeps
  <2>1. RowsStay
    BY <1>2, <1>3, ObservationIsKept DEF HintOf
  <2>2. NothingGoesBack
    BY <1>3, SameManifest DEF Observe
  <2> QED  BY <1>2, <2>1, <2>2, CallReturns DEF WatchKeeps
<1>4. CASE RecordHint(x)
  BY <1>1, <1>3, <1>4 DEF RecordHint, At, BoundIn
<1>5. CASE RecordChange(x)
  BY <1>1, <1>3, <1>5 DEF RecordChange, At, BoundIn
<1> QED  BY <1>4, <1>5

LEMMA RecoveryKeeps ==
    ASSUME WatchInv, NativeRecovery \/ Schedule
    PROVE  WatchKeeps
<1>1. RequestFull /\ Return(Coordinator) /\ UNCHANGED disk /\ Coordinator \in Processes
  BY DEF NativeRecovery, Schedule, Processes
<1>2. RowsStay /\ NothingGoesBack
  BY <1>1, RecoveryIsKept, SameManifest DEF RequestFull
<1> QED  BY <1>1, <1>2, CallReturns DEF WatchKeeps

LEMMA WidenKeeps ==
    ASSUME WatchInv, NEW x \in Processes, Widen(x)
    PROVE  WatchKeeps
<1>1. RowsStay /\ NothingGoesBack
  BY RecoveryIsKept, SameManifest DEF Widen, RequestFull
<1>2. PICK c : c = [Idle EXCEPT !.pc = "force", !.at = proc[x].at]
  OBVIOUS
<1>3. proc[x] \in WatchCalls
  BY DEF WatchInv, CallsShape
<1>4. c \in WatchCalls /\ c.pc = "force"
  BY <1>2, <1>3, InitialRows DEF WatchCalls, WatchSteps
<1>5. proc' = [proc EXCEPT ![x] = c]
  BY <1>2 DEF Widen
<1> QED  BY <1>1, <1>4, <1>5, CallIsPlaced DEF WatchKeeps, FreeSteps, WatchSteps

\* What a call does first with an event that is in its window or reconciles.
LEMMA StartKeeps ==
    ASSUME WatchInv, NEW x \in Processes, NEW e \in Events, Start(x, e),
           event[e].status # "none",
           UnchangedRows, UNCHANGED disk
    PROVE  WatchKeeps
<1>1. RowsStay /\ NothingGoesBack
  BY SameRows, SameManifest DEF UnchangedRows
<1>2. event[e] \in EventRows
  BY DEF WatchInv, RowsInv, RowsShape
<1>3. PICK first, c : /\ first = FirstStep(event[e])
                      /\ c = [Idle EXCEPT !.pc = first, !.at = e,
                                          !.row = IF first = "look" THEN event[e] ELSE NoEvent]
  OBVIOUS
<1>4. proc' = [proc EXCEPT ![x] = c]
  BY <1>3 DEF Start
<1>5. first \in {"scan", "force", "look"}
  BY <1>3 DEF FirstStep
<1>6. c \in WatchCalls /\ c.pc = first /\ (first = "look" => c.row = event[e])
  <2>1. first \in WatchSteps
    BY <1>5 DEF WatchSteps
  <2>2. (IF first = "look" THEN event[e] ELSE NoEvent) \in EventRows
    BY <1>2, InitialRows
  <2>3. Idle \in WatchCalls
    BY InitialRows
  <2>4. c \in WatchCalls
    BY <1>3, <2>1, <2>2, <2>3 DEF WatchCalls
  <2>5. c.pc = first /\ (first = "look" => c.row = event[e])
    BY <1>3, <2>3 DEF WatchCalls
  <2> QED  BY <2>4, <2>5
<1>7. CASE first # "look"
  BY <1>1, <1>4, <1>5, <1>6, <1>7, CallIsPlaced DEF WatchKeeps, FreeSteps, WatchSteps
<1>8. CASE first = "look"
  <2>1. event[e].status = "stabilizing" /\ event[e].kind = "delta"
    BY <1>2, <1>3, <1>8 DEF FirstStep, EventRows
  <2>2. event[e].path \in Paths
    BY <2>1 DEF WatchInv, RowsInv, DeltasHavePaths
  <2>3. BoundIn(c, disk', event', seen')
    BY <1>6, <1>8, <2>1, <2>2 DEF BoundIn
  <2>4. CallsShape /\ CallBecomes(x, c)
    BY <1>4, <1>6, CallsThatBecome DEF WatchInv
  <2> QED  BY <1>1, <1>6, <2>3, <2>4, OneCallMoves DEF RowsStay, WatchKeeps
<1> QED  BY <1>7, <1>8

LEMMA LookKeeps ==
    ASSUME WatchInv, NEW x \in Processes, Look(x)
    PROVE  WatchKeeps
<1>1. RowsStay /\ NothingGoesBack
  BY SameRows, SameManifest DEF Look, UnchangedRows
<1>2. /\ CallsShape /\ proc[x] \in WatchCalls
      /\ proc[x].row.status = "stabilizing" /\ proc[x].row.kind = "delta"
      /\ proc[x].row.path \in Paths
  BY DEF WatchInv, CallsShape, CallsAreBound, BoundIn, Look, At
<1>3. PICK entry : entry = disk[proc[x].row.path]
  OBVIOUS
<1>4. PICK next \in {"widen", "ignore", "record", "bind"} :
           proc' = [proc EXCEPT ![x].pc = next, ![x].hint = entry]
  <2>1. CASE entry.id = "link"
    <3>1. proc' = [proc EXCEPT ![x].pc = "widen", ![x].hint = entry]
      BY <1>3, <2>1 DEF Look
    <3> QED  BY <3>1
  <2>2. CASE entry.id = "fifo"
    <3>1. proc' = [proc EXCEPT ![x].pc = "ignore", ![x].hint = entry]
      BY <1>3, <2>2 DEF Look
    <3> QED  BY <3>1
  <2>3. CASE entry.id \notin {"link", "fifo"} /\ entry # proc[x].row.shot
    <3>1. proc' = [proc EXCEPT ![x].pc = "record", ![x].hint = entry]
      BY <1>3, <2>3 DEF Look
    <3> QED  BY <3>1
  <2>4. CASE entry.id \notin {"link", "fifo"} /\ entry = proc[x].row.shot
    <3>1. proc' = [proc EXCEPT ![x].pc = "bind", ![x].hint = entry]
      BY <1>3, <2>4 DEF Look
    <3> QED  BY <3>1
  <2> QED  BY <2>1, <2>2, <2>3, <2>4
<1>5. PICK c : c = [proc[x] EXCEPT !.pc = next, !.hint = entry]
  OBVIOUS
<1>6. proc' = [proc EXCEPT ![x] = c]
  BY <1>4, <1>5
<1>7. entry \in Observations /\ entry.version \in Nat
  BY <1>2, <1>3 DEF WatchInv, RowsInv, RowsShape, Observations
<1>8. c \in WatchCalls /\ c.pc = next /\ c.hint = entry /\ c.row = proc[x].row
  BY <1>2, <1>5, <1>7 DEF WatchCalls, WatchSteps
<1>9. BoundIn(c, disk', event', seen')
  <2>1. HintOf(c.row.path, c.hint, disk')
    <3>1. disk' = disk
      BY DEF Look
    <3>2. c.row.path \in Paths /\ c.hint = disk[c.row.path]
      BY <1>2, <1>3, <1>8
    <3>3. c.hint \in Observations /\ c.hint.version \in Nat
      BY <1>7, <1>8
    <3> QED  BY ONLY <3>1, <3>2, <3>3 DEF HintOf
  <2>2. c.row.status = "stabilizing" /\ c.row.kind = "delta" /\ c.row.path \in Paths
    BY <1>2, <1>8
  <2> QED  BY <1>4, <1>8, <2>1, <2>2 DEF BoundIn
<1>10. CallBecomes(x, c)
  BY <1>2, <1>6, <1>8, CallsThatBecome
<1> QED  BY <1>1, <1>2, <1>8, <1>9, <1>10, OneCallMoves DEF RowsStay, WatchKeeps

LEMMA IgnoreKeeps ==
    ASSUME WatchInv, NEW x \in Processes, Ignore(x) \/ FailEvent(x) \/ CompleteEvent(x)
    PROVE  WatchKeeps
<1>1. Return(x) /\ UNCHANGED <<disk, manifest>>
  BY DEF Ignore, FailEvent, CompleteEvent, Advanced, Refused, UnchangedRows, GiveUp
<1>2. RowsStay
  <2>1. CASE Ignore(x)
    BY <2>1, EventIsGivenUp, SameRows DEF Ignore
  <2>2. CASE FailEvent(x)
    BY <2>2, EventIsGivenUp, SameRows DEF FailEvent
  <2>3. CASE CompleteEvent(x)
    <3>1. UNCHANGED <<disk, manifest, job, seen, dropped>>
      BY <2>3 DEF CompleteEvent
    <3>2. CASE UNCHANGED event
      BY <3>1, <3>2, SameRows DEF UnchangedRows
    <3>3. CASE event' # event
      <4>1. /\ MyEvent(x).status = "reconciling" /\ MyEvent(x).scan = "completed"
            /\ event' = [event EXCEPT ![proc[x].at] = NoEvent]
        BY <2>3, <3>3 DEF CompleteEvent
      <4>2. MyEvent(x) = event[proc[x].at]
        BY <4>1, InitialRows DEF MyEvent
      <4> QED  BY <3>1, <4>1, <4>2, EventIsServed
    <3> QED  BY <3>2, <3>3
  <2> QED  BY <2>1, <2>2, <2>3
<1> QED  BY <1>1, <1>2, CallReturns, SameManifest DEF WatchKeeps

LEMMA BindKeeps ==
    ASSUME WatchInv, NEW x \in Processes, Bind(x)
    PROVE  WatchKeeps
<1>1. RowsStay /\ NothingGoesBack /\ UNCHANGED disk
  BY SameRows, SameManifest DEF Bind, UnchangedRows
<1>2. /\ CallsShape /\ proc[x] \in WatchCalls /\ proc[x].row.path \in Paths
      /\ HintOf(proc[x].row.path, proc[x].hint, disk)
  BY DEF WatchInv, CallsShape, CallsAreBound, BoundIn, Bind, At
<1>3. PICK row, binds : /\ row = MyEvent(x)
                        /\ binds <=> /\ IsDelta(row) /\ row.stable /\ ~JobIsLive
                                     /\ row.path = proc[x].row.path
                                     /\ row.shot = proc[x].hint
                                     /\ manifest[row.path].id = row.shot.id
  OBVIOUS
<1>4. PICK next, old, c : /\ next = IF binds THEN "anchor" ELSE "widen"
                          /\ old = IF binds THEN manifest[row.path] ELSE Unread
                          /\ c = [proc[x] EXCEPT !.pc = next, !.row = row, !.old = old]
  OBVIOUS
<1>5. proc' = [proc EXCEPT ![x] = c]
  BY <1>3, <1>4 DEF Bind
<1>6. row \in EventRows
  BY <1>3, InitialRows DEF MyEvent, WatchInv, RowsInv, RowsShape
<1>7. binds => /\ old \in Observations /\ row.path = proc[x].row.path /\ IsDelta(row)
               /\ old.version <= disk[row.path].version
  BY <1>2, <1>3, <1>4 DEF WatchInv, RowsInv, RowsShape, NothingIsAhead
<1>8. old \in Observations \cup {Unread}
  BY <1>4, <1>7
<1>9. c \in WatchCalls /\ c.pc = next /\ c.row = row /\ c.hint = proc[x].hint /\ c.old = old
  <2>1. next \in WatchSteps
    BY <1>4 DEF WatchSteps
  <2>2. c \in WatchCalls
    BY <1>2, <1>4, <1>6, <1>8, <2>1 DEF WatchCalls
  <2>3. c.pc = next /\ c.row = row /\ c.hint = proc[x].hint /\ c.old = old
    BY <1>2, <1>4 DEF WatchCalls
  <2> QED  BY <2>2, <2>3
<1>10. BoundIn(c, disk', event', seen')
  BY <1>1, <1>2, <1>4, <1>7, <1>9 DEF BoundIn, HintOf, IsDelta
<1>11. CallBecomes(x, c)
  BY <1>2, <1>5, <1>9, CallsThatBecome
<1> QED  BY <1>1, <1>2, <1>9, <1>10, <1>11, OneCallMoves DEF RowsStay, WatchKeeps

LEMMA AnchorKeeps ==
    ASSUME WatchInv, NEW x \in Processes, Anchor(x)
    PROVE  WatchKeeps
<1>1. RowsStay /\ NothingGoesBack /\ UNCHANGED <<disk, event, seen>>
  BY SameRows, SameManifest DEF Anchor, UnchangedRows
<1>2. /\ CallsShape /\ proc[x] \in WatchCalls /\ proc[x].row.path \in Paths
      /\ BoundIn(proc[x], disk, event, seen) /\ proc[x].pc = "anchor"
  BY DEF WatchInv, CallsShape, CallsAreBound, BoundIn, Anchor, At
<1>3. CASE disk[proc[x].row.path] # proc[x].hint
  BY <1>1, <1>3, CallGoes DEF Anchor, FreeSteps, WatchSteps, WatchKeeps
<1>4. CASE disk[proc[x].row.path] = proc[x].hint
  <2>1. PICK c : c = [proc[x] EXCEPT !.pc = "publish"]
    OBVIOUS
  <2>2. /\ c \in WatchCalls /\ c.pc = "publish" /\ c.at = proc[x].at /\ c.row = proc[x].row
        /\ c.hint = proc[x].hint /\ c.old = proc[x].old
    BY <1>2, <2>1 DEF WatchCalls, WatchSteps
  <2>3. CallBecomes(x, c)
    BY <1>2, <1>4, <2>1, GotoBecomes DEF Anchor, WatchSteps
  <2>4. seen[c.row.path] <= c.hint.version
    BY <1>2, <1>4, <2>2 DEF WatchInv, RowsInv, NothingIsAhead
  <2>5. BoundIn(c, disk', event', seen')
    BY <1>1, <1>2, <1>4, <2>2, <2>4 DEF BoundIn, HintOf, Serves
  <2> QED  BY <1>1, <1>2, <2>2, <2>3, <2>5, OneCallMoves DEF RowsStay, WatchKeeps
<1> QED  BY <1>3, <1>4

LEMMA PublishKeeps ==
    ASSUME WatchInv, NEW x \in Processes, Publish(x)
    PROVE  WatchKeeps
<1>1. CASE Unmoved(x)
  <2>1. RowsStay /\ NothingGoesBack
    BY <1>1, DeltaIsPublished DEF Publish, NothingGoesBack
  <2>2. Return(x)
    BY <1>1 DEF Publish, Advanced
  <2> QED  BY <2>1, <2>2, CallReturns DEF WatchKeeps
<1>2. CASE ~Unmoved(x)
  <2>1. RowsStay /\ NothingGoesBack
    BY <1>2, SameRows, SameManifest DEF Publish, UnchangedRows
  <2> QED  BY <1>2, <2>1, CallGoes DEF Publish, FreeSteps, WatchSteps, WatchKeeps
<1> QED  BY <1>1, <1>2

LEMMA ScanStays ==
    ASSUME WatchInv, UNCHANGED <<disk, manifest, event, job, seen, dropped>>
    PROVE  RowsStay
  BY SameRows DEF UnchangedRows

LEMMA BeginReconciliationKeeps ==
    ASSUME WatchInv, NEW x \in Processes, BeginReconciliation(x)
    PROVE  WatchKeeps
<1>1. UNCHANGED manifest /\ UNCHANGED disk
  BY DEF BeginReconciliation, UnchangedRows
<1>2. CASE MyEvent(x).status # "none" /\ Forces(x) /\ ~JobIsLive
  <2>1. /\ event' = [event EXCEPT ![proc[x].at].status = "reconciling",
                                  ![proc[x].at].scan = "live"]
        /\ job' = Fresh /\ Goto(x, "scan") /\ UNCHANGED <<manifest, seen, dropped>>
    BY <1>2 DEF BeginReconciliation
  <2>2. proc[x].at \in Events
    BY <1>2, InitialRows DEF MyEvent
  <2>3. RowsStay
    BY <1>1, <2>1, <2>2, ReconciliationBegins
  <2> QED  BY <1>1, <2>1, <2>3, CallGoes, SameManifest DEF FreeSteps, WatchSteps, WatchKeeps
<1>3. CASE MyEvent(x).status = "none" \/ ~(Forces(x) /\ ~JobIsLive)
  <2>1. UnchangedRows /\ Return(x)
    BY <1>3, InitialRows DEF BeginReconciliation, Forces, Advanced, Refused
  <2> QED  BY <1>1, <2>1, SameRows, CallReturns, SameManifest DEF WatchKeeps
<1> QED  BY <1>2, <1>3

LEMMA FinishKeeps ==
    ASSUME WatchInv, NEW x \in Processes, Finish(x)
    PROVE  WatchKeeps
<1>1. UNCHANGED <<disk, manifest, event, seen, dropped>> /\ job \in ScanRows
  BY DEF Finish, WatchInv, RowsInv, RowsShape
<1>2. RowsStay
  <2>1. CASE job' = job
    BY <1>1, <2>1, ScanStays
  <2>2. CASE job' # job
    <3>1. PICK j : j = [job EXCEPT !.status = "ready", !.pause = FALSE]
      OBVIOUS
    <3>2. job' = j /\ job.status = "interrupted"
      BY <2>2, <3>1 DEF Finish
    <3>3. j \in ScanRows /\ j.read = job.read /\ j.status = "ready"
      BY <1>1, <3>1 DEF ScanRows
    <3> QED  BY <1>1, <3>2, <3>3, ScanMoves
  <2> QED  BY <2>1, <2>2
<1>3. Return(x) \/ Goto(x, "complete") \/ Goto(x, "fail") \/ Goto(x, "claim")
  BY DEF Finish, Advanced, Refused
<1> QED  BY <1>1, <1>2, <1>3, CallReturns, CallGoes, SameManifest
         DEF FreeSteps, WatchSteps, WatchKeeps

LEMMA ClaimKeeps ==
    ASSUME WatchInv, NEW x \in Processes, Claim(x)
    PROVE  WatchKeeps
<1>1. UNCHANGED <<disk, manifest, event, seen, dropped>> /\ job \in ScanRows
  BY DEF Claim, WatchInv, RowsInv, RowsShape
<1>2. RowsStay
  <2>1. CASE job.status # "ready"
    BY <1>1, <2>1, ScanStays DEF Claim
  <2>2. CASE job.status = "ready"
    <3>1. PICK j : j = [job EXCEPT !.status = "active", !.owner = x]
      OBVIOUS
    <3>2. job' = j
      BY <2>2, <3>1 DEF Claim
    <3>3. j \in ScanRows /\ j.read = job.read /\ j.status = "active"
      BY <1>1, <3>1 DEF ScanRows
    <3> QED  BY <1>1, <3>2, <3>3, ScanMoves
  <2> QED  BY <2>1, <2>2
<1>3. Goto(x, "read") \/ Goto(x, "fail")
  BY DEF Claim
<1> QED  BY <1>1, <1>2, <1>3, CallGoes, SameManifest DEF FreeSteps, WatchSteps, WatchKeeps

LEMMA ReadPathKeeps ==
    ASSUME WatchInv, NEW x \in Processes, NEW p \in Paths, ReadPath(x, p)
    PROVE  WatchKeeps
<1>1. RowsStay
  BY ScanReads DEF ReadPath, Owns
<1>2. Goto(x, "batch") /\ UNCHANGED manifest
  BY DEF ReadPath, Goto
<1> QED  BY <1>1, <1>2, CallGoes, SameManifest DEF FreeSteps, WatchSteps, WatchKeeps

LEMMA EndBatchKeeps ==
    ASSUME WatchInv, NEW x \in Processes, EndBatch(x)
    PROVE  WatchKeeps
<1>1. UNCHANGED <<disk, manifest, event, seen, dropped>> /\ job \in ScanRows
  BY DEF EndBatch, WatchInv, RowsInv, RowsShape
<1>2. CASE Goto(x, "read") /\ UNCHANGED job
  BY <1>1, <1>2, ScanStays, CallGoes, SameManifest DEF FreeSteps, WatchSteps, WatchKeeps
<1>3. CASE ~(Goto(x, "read") /\ UNCHANGED job)
  <2>1. PICK status, j : /\ status = IF job.pause THEN "paused" ELSE "ready"
                         /\ j = [job EXCEPT !.status = status, !.owner = NoProcess]
    OBVIOUS
  <2>2. job' = j /\ Return(x)
    BY <1>3, <2>1 DEF EndBatch, Advanced
  <2>3. j \in ScanRows /\ j.read = job.read /\ j.status \in {"paused", "ready"}
    BY <1>1, <2>1 DEF ScanRows
  <2>4. RowsStay
    BY <1>1, <2>2, <2>3, ScanMoves
  <2> QED  BY <1>1, <2>2, <2>4, CallReturns, SameManifest DEF WatchKeeps
<1> QED  BY <1>2, <1>3

LEMMA CompleteScanKeeps ==
    ASSUME WatchInv, NEW x \in Processes, CompleteScan(x)
    PROVE  WatchKeeps
<1>1. RowsStay /\ NothingGoesBack
  BY ScanIsPublished DEF CompleteScan, NothingGoesBack
<1>2. Goto(x, "complete")
  BY DEF CompleteScan
<1> QED  BY <1>1, <1>2, CallGoes DEF FreeSteps, WatchSteps, WatchKeeps

LEMMA FailScanKeeps ==
    ASSUME WatchInv, NEW x \in Processes, FailScan(x)
    PROVE  WatchKeeps
<1>1. RowsStay
  BY ScanIsFailed DEF FailScan
<1>2. Goto(x, "fail") /\ UNCHANGED manifest
  BY DEF FailScan
<1> QED  BY <1>1, <1>2, CallGoes, SameManifest DEF FreeSteps, WatchSteps, WatchKeeps

\* A scan that its process leaves has no owner.
LEMMA ScanIsLeft ==
    ASSUME WatchInv, UNCHANGED <<disk, manifest, event, seen, dropped>>,
           job' = job \/ job' = [job EXCEPT !.owner = NoProcess]
    PROVE  RowsStay
<1>1. job \in ScanRows
  BY DEF WatchInv, RowsInv, RowsShape
<1>2. CASE job' = job
  BY <1>2, ScanStays
<1>3. CASE job' = [job EXCEPT !.owner = NoProcess]
  <2>1. PICK j : j = [job EXCEPT !.owner = NoProcess]
    OBVIOUS
  <2>2. j \in ScanRows /\ j.read = job.read /\ j.status = job.status
    BY <1>1, <2>1 DEF ScanRows
  <2> QED  BY <1>3, <2>1, <2>2, ScanMoves
<1> QED  BY <1>2, <1>3

LEMMA LoseBatchKeeps ==
    ASSUME WatchInv, NEW x \in Processes, LoseBatch(x) \/ Crash(x)
    PROVE  WatchKeeps
<1>1. /\ UNCHANGED <<disk, manifest, event, seen, dropped>>
      /\ job' = job \/ job' = [job EXCEPT !.owner = NoProcess]
  BY DEF LoseBatch, Crash
<1>2. Goto(x, "fail") \/ Return(x)
  BY DEF LoseBatch, Crash
<1> QED  BY <1>1, <1>2, ScanIsLeft, CallGoes, CallReturns, SameManifest
         DEF FreeSteps, WatchSteps, WatchKeeps

LEMMA UserScanKeeps ==
    ASSUME WatchInv, NEW x \in Processes,
           CreateScan(x) \/ RunScan(x) \/ PauseScan(x) \/ ResumeScan(x)
    PROVE  WatchKeeps
<1>1. UNCHANGED <<disk, manifest, event, seen, dropped>> /\ job \in ScanRows
  BY DEF CreateScan, RunScan, PauseScan, ResumeScan, UnchangedRows, WatchInv, RowsInv, RowsShape
<1>2. CASE CreateScan(x)
  <2>1. RowsStay
    BY <1>1, <1>2, ScanBegins DEF CreateScan
  <2> QED  BY <1>1, <1>2, <2>1, CallGoes, SameManifest
           DEF CreateScan, FreeSteps, WatchSteps, WatchKeeps
<1>3. CASE RunScan(x)
  <2>1. RowsStay
    BY <1>1, <1>3, ScanStays DEF RunScan, UnchangedRows
  <2> QED  BY <1>1, <1>3, <2>1, CallGoes, SameManifest
           DEF RunScan, FreeSteps, WatchSteps, WatchKeeps
<1>4. CASE PauseScan(x)
  <2>1. PICK status, j : /\ status = IF job.status = "ready" THEN "paused" ELSE job.status
                         /\ j = [job EXCEPT !.pause = TRUE, !.status = status]
    OBVIOUS
  <2>2. job' = j /\ job.status \in {"ready", "active"}
    BY <1>4, <2>1 DEF PauseScan
  <2>3. j \in ScanRows /\ j.read = job.read /\ j.status \in {"paused", "active"}
    BY <1>1, <2>1, <2>2 DEF ScanRows
  <2>4. RowsStay
    BY <1>1, <2>2, <2>3, ScanMoves
  <2> QED  BY <1>1, <1>4, <2>4, CallsRest, SameManifest DEF PauseScan, WatchKeeps
<1>5. CASE ResumeScan(x)
  <2>1. PICK j : j = [job EXCEPT !.pause = FALSE, !.status = "ready"]
    OBVIOUS
  <2>2. job' = j
    BY <1>5, <2>1 DEF ResumeScan
  <2>3. j \in ScanRows /\ j.read = job.read /\ j.status = "ready"
    BY <1>1, <2>1 DEF ScanRows
  <2>4. RowsStay
    BY <1>1, <2>2, <2>3, ScanMoves
  <2> QED  BY <1>1, <1>5, <2>4, CallsRest, SameManifest DEF ResumeScan, WatchKeeps
<1> QED  BY <1>2, <1>3, <1>4, <1>5

LEMMA LeaseEndsKeeps ==
    ASSUME WatchInv, LeaseEnds
    PROVE  WatchKeeps
<1>1. UNCHANGED <<disk, manifest, event, seen, dropped, proc>> /\ job \in ScanRows
  BY DEF LeaseEnds, WatchInv, RowsInv, RowsShape
<1>2. PICK j : j = [job EXCEPT !.status = "interrupted", !.owner = NoProcess]
  OBVIOUS
<1>3. job' = j
  BY <1>2 DEF LeaseEnds
<1>4. j \in ScanRows /\ j.read = job.read /\ j.status = "interrupted"
  BY <1>1, <1>2 DEF ScanRows
<1>5. RowsStay
  BY <1>1, <1>3, <1>4, ScanMoves
<1> QED  BY <1>1, <1>5, CallsRest, SameManifest DEF WatchKeeps

LEMMA ClockKeeps ==
    ASSUME WatchInv, Clock
    PROVE  WatchKeeps
<1>1. UNCHANGED <<disk, manifest, job, seen, dropped, proc>>
  BY DEF Clock, PollDue, WindowEnds, Ages, RetryOver, UnchangedRows
<1>2. RowsStay
  <2>1. CASE UNCHANGED event
    BY <1>1, <2>1, ScanStays
  <2>2. ASSUME NEW e \in Events, WindowEnds(e) \/ Ages(e) PROVE RowsStay
    <3>1. event \in [Events -> EventRows] /\ event[e] \in EventRows
      BY DEF WatchInv, RowsInv, RowsShape
    <3>2. PICK row : /\ event' = [event EXCEPT ![e] = row]
                     /\ \/ row = [event[e] EXCEPT !.stable = TRUE]
                        \/ row = [event[e] EXCEPT !.aged = TRUE]
      BY <2>2 DEF WindowEnds, Ages
    <3>3. /\ row \in EventRows /\ row.status = event[e].status /\ row.kind = event[e].kind
          /\ row.path = event[e].path /\ row.scan = event[e].scan
          /\ row.deadline = event[e].deadline
      BY <3>1, <3>2 DEF EventRows
    <3>4. event' \in [Events -> EventRows] /\ event'[e] = row
          /\ \A d \in Events \ {e} : event'[d] = event[d]
      BY <3>1, <3>2, <3>3
    <3> QED  BY <1>1, <3>3, <3>4, EventsAreMarked
  <2>3. UNCHANGED event \/ \E e \in Events : WindowEnds(e) \/ Ages(e)
    BY DEF Clock, PollDue, RetryOver, UnchangedRows
  <2> QED  BY <2>1, <2>2, <2>3
<1> QED  BY <1>1, <1>2, CallsRest, SameManifest DEF WatchKeeps

LEMMA FileChangesKeeps ==
    ASSUME WatchInv, NEW p \in Paths, FileChanges(p)
    PROVE  WatchKeeps
<1>1. PICK i \in Identities \cup Kinds : disk' = [disk EXCEPT ![p] = [version |-> @.version + 1,
                                                                    id |-> i]]
  BY DEF FileChanges
<1>2. i \in Identities \cup OtherKinds
  BY WatchConstants DEF WatchConstants
<1>3. RowsStay
  BY <1>1, <1>2, NewerFiles DEF FileChanges
<1> QED  BY <1>3, CallsRest, SameManifest DEF FileChanges, UnchangedRows, WatchKeeps

LEMMA CycleKeeps ==
    ASSUME WatchInv, CycleStep
    PROVE  WatchKeeps
<1>1. Coordinator \in Processes
  BY DEF Processes
<1>2. CASE BeginCycle
  BY <1>2, SameRows, CallsRest, SameManifest DEF BeginCycle, UnchangedRows, WatchKeeps
<1>3. CASE AdvanceDue
  <2>1. UnchangedRows /\ UNCHANGED disk
    BY <1>3 DEF AdvanceDue
  <2>2. CASE Return(Coordinator)
    BY <1>1, <2>1, <2>2, SameRows, CallReturns, SameManifest DEF UnchangedRows, WatchKeeps
  <2>3. CASE ~Return(Coordinator)
    <3>1. MyEvent(Coordinator).status # "none" /\ Start(Coordinator, proc[Coordinator].at)
      BY <1>3, <2>3 DEF AdvanceDue, Advanced
    <3>2. proc[Coordinator].at \in Events /\ event[proc[Coordinator].at].status # "none"
      BY <3>1, InitialRows DEF MyEvent
    <3> QED  BY <1>1, <2>1, <3>1, <3>2, StartKeeps
  <2> QED  BY <2>2, <2>3
<1>4. CASE EndCycle
  <2>1. UnchangedRows /\ UNCHANGED disk
    BY <1>4 DEF EndCycle
  <2>2. Goto(Coordinator, "schedule") \/ UNCHANGED proc
    BY <1>4 DEF EndCycle
  <2> QED  BY <1>1, <2>1, <2>2, SameRows, CallGoes, CallsRest, SameManifest
           DEF UnchangedRows, FreeSteps, WatchSteps, WatchKeeps
<1>5. CASE Schedule
  BY <1>5, RecoveryKeeps
<1>6. ASSUME NEW e \in Events, NEW status \in {"stabilizing", "reconciling"}, Visit(e, status)
      PROVE  WatchKeeps
  <2>1. CASE UnchangedRows /\ UNCHANGED proc
    BY <1>6, <2>1, SameRows, CallsRest, SameManifest DEF Visit, UnchangedRows, WatchKeeps
  <2>2. CASE ~(UnchangedRows /\ UNCHANGED proc)
    <3>1. /\ UNCHANGED disk /\ (RequestFull \/ UnchangedRows)
          /\ proc' = [proc EXCEPT ![Coordinator].pc = "due", ![Coordinator].at = e,
                                  ![Coordinator].row.status = status]
      BY <1>6, <2>2 DEF Visit
    <3>2. RowsStay /\ NothingGoesBack
      BY <3>1, SameRows, RecoveryIsKept, SameManifest DEF RequestFull, UnchangedRows
    <3>3. PICK row : row = [proc[Coordinator].row EXCEPT !.status = status]
      OBVIOUS
    <3>4. PICK c : c = [proc[Coordinator] EXCEPT !.pc = "due", !.at = e, !.row = row]
      OBVIOUS
    <3>5. proc[Coordinator] \in WatchCalls
      BY <1>1 DEF WatchInv, CallsShape
    <3>6. row \in EventRows
      BY <3>3, <3>5 DEF WatchCalls, EventRows
    <3>7. c \in WatchCalls /\ c.pc \in FreeSteps
      BY <3>4, <3>5, <3>6 DEF WatchCalls, FreeSteps, WatchSteps
    <3>8. proc' = [proc EXCEPT ![Coordinator] = c]
      BY <3>1, <3>3, <3>4
    <3> QED  BY <1>1, <3>2, <3>7, <3>8, CallIsPlaced DEF WatchKeeps
  <2> QED  BY <2>1, <2>2
<1> QED  BY <1>2, <1>3, <1>4, <1>5, <1>6 DEF CycleStep

LEMMA WatchStep == ASSUME WatchInv, [Next]_vars PROVE WatchKeeps
<1>1. ASSUME NEW x \in Processes, CallStep(x) PROVE WatchKeeps
  BY <1>1, RecordHintKeeps, LookKeeps, IgnoreKeeps, WidenKeeps, BindKeeps, AnchorKeeps,
     PublishKeeps, BeginReconciliationKeeps, FinishKeeps, ClaimKeeps, ReadPathKeeps,
     EndBatchKeeps, CompleteScanKeeps, LoseBatchKeeps, RecoveryKeeps
  DEF CallStep, FileDelta
<1>2. ASSUME NEW x \in Processes, NEW e \in Events, Advance(x, e) PROVE WatchKeeps
  <2>1. event[e].status # "none"
    BY <1>2 DEF Advance, Active
  <2> QED  BY <1>2, <2>1, StartKeeps DEF Advance
<1>3. CASE UNCHANGED vars
  BY <1>3, ScanStays, CallsRest, SameManifest DEF vars, WatchKeeps
<1> QED
  BY <1>1, <1>2, <1>3, FailScanKeeps, LoseBatchKeeps, UserScanKeeps, LookAtHintKeeps,
     RecoveryKeeps, CycleKeeps, ClockKeeps, LeaseEndsKeeps, FileChangesKeeps
  DEF Next

\* Whatever hints, deltas, scans, cycles, command-line calls and crashes do, for any number of
\* files, events and processes: a hint that was recorded and a recovery that was requested
\* are kept until they are served, or handed over by an event that fails.
THEOREM HintsAreKept == Spec => []HintIsKept
<1>1. WatchInv /\ [Next]_vars => WatchInv'
  BY WatchStep DEF WatchKeeps
<1>2. WatchInv => HintIsKept
  BY DEF WatchInv, RowsInv
<1> QED  BY WatchInvInit, <1>1, <1>2, PTL DEF Spec

\* No delta and no scan, however late, puts an older observation of a file in the manifest.
THEOREM ManifestIsNeverOlder == Spec => ManifestNeverRegresses
<1>1. WatchInv /\ [Next]_vars => WatchInv'
  BY WatchStep DEF WatchKeeps
<1>2. WatchInv /\ [Next]_vars =>
         [\A p \in Paths : manifest'[p].version >= manifest[p].version]_vars
  BY WatchStep DEF WatchKeeps, NothingGoesBack
<1> QED  BY WatchInvInit, <1>1, <1>2, PTL DEF Spec, ManifestNeverRegresses

-----------------------------------------------------------------------------
(* The OCR slot (OcrSlot).                                                   *)

Holding(j) == ocrCall[j].pc \in {"claim", "spawn", "wait", "join", "drop"}
Working(j) == worker[j] \in {"running", "sent"}

\* The gate is held exactly while one job is between its acquisition and its drop.
HeldByOne ==
    /\ \A i, j \in Jobs : Holding(i) /\ Holding(j) => i = j
    /\ gate.phase = "held" <=> \E j \in Jobs : Holding(j)
\* The flag stands for one worker, or for the job that is about to start it.
FlagIsUsed ==
    /\ active => \E j \in Jobs : ocrCall[j].pc = "spawn" \/ Working(j)
    /\ \A j \in Jobs : ocrCall[j].pc = "spawn" => active /\ \A i \in Jobs : ~Working(i)
    /\ \A j \in Jobs : Working(j) => active
    /\ \A i, j \in Jobs : Working(i) /\ Working(j) => i = j
CleanupHasWorker ==
    gate.phase = "cleanup" => \E j \in Jobs : worker[j] \in {"running", "sent", "cleared"}
SlotInv == SlotTypeOK /\ HeldByOne /\ FlagIsUsed /\ CleanupHasWorker

LEMMA SlotInvInit == SlotInit => SlotInv
<1> SUFFICES ASSUME SlotInit PROVE SlotInv
  OBVIOUS
<1>1. [phase |-> "free", reservation |-> NoReservation] \in Gates
  BY DEF Gates, NoReservation
<1>2. [pc |-> "idle", outcome |-> "none"] \in SlotCalls
  BY DEF SlotCalls
<1>3. SlotTypeOK
  BY <1>1, <1>2 DEF SlotInit, SlotTypeOK, WorkerStates, ControlStates
<1>4. HeldByOne /\ FlagIsUsed /\ CleanupHasWorker
  BY DEF SlotInit, HeldByOne, FlagIsUsed, CleanupHasWorker, Holding, Working
<1> QED  BY <1>3, <1>4 DEF SlotInv

LEMMA SlotInvStep == SlotInv /\ [SlotNext]_slotVars => SlotInv'
<1> SUFFICES ASSUME SlotInv, [SlotNext]_slotVars PROVE SlotInv'
  OBVIOUS
<1>1. ASSUME NEW j \in Jobs, BeginJob(j) PROVE SlotInv'
  <2>1. SlotTypeOK'
    BY <1>1 DEF BeginJob, SlotGoes, SlotInv, SlotTypeOK, Gates, SlotCalls, Ended,
                WorkerStates, ControlStates
  <2>2. HeldByOne'
    BY <1>1 DEF BeginJob, SlotGoes, SlotInv, HeldByOne, Holding, SlotTypeOK, Gates,
                SlotCalls, Ended, WorkerStates, ControlStates
  <2>3. FlagIsUsed'
    BY <1>1 DEF BeginJob, SlotGoes, SlotInv, FlagIsUsed, HeldByOne, Holding, Working,
                SlotTypeOK, Gates, SlotCalls, Ended, WorkerStates, ControlStates
  <2>4. CleanupHasWorker'
    BY <1>1 DEF BeginJob, SlotGoes, SlotInv, CleanupHasWorker, FlagIsUsed, HeldByOne,
                Holding, Working, SlotTypeOK, Gates, SlotCalls, Ended, WorkerStates,
                    ControlStates
  <2> QED  BY <2>1, <2>2, <2>3, <2>4 DEF SlotInv
<1>2. ASSUME NEW j \in Jobs, Ask(j) PROVE SlotInv'
  <2>1. SlotTypeOK'
    <3>1. ASSUME NEW pc \in {"check", "claim", "wait", "idle"}, NEW outcome \in {"none",
        "busy"}
          PROVE  [pc |-> pc, outcome |-> outcome] \in SlotCalls
      BY DEF SlotCalls
    <3>2. [phase |-> "held", reservation |-> NoReservation] \in Gates
      BY DEF Gates, NoReservation
    <3>3. Reserves(gate, j) \in Gates
      BY DEF Reserves, Gates, SlotInv, SlotTypeOK
    <3> QED  BY <1>2, <3>1, <3>2, <3>3 DEF Ask, SlotGoes, SlotInv, SlotTypeOK
  <2>2. HeldByOne'
    <3>1. CASE control[j] # "live" \/ ~Acquires(gate, j)
      BY <1>2, <3>1 DEF Ask, SlotGoes, Reserves, SlotInv, HeldByOne, Holding, SlotTypeOK,
                        Gates
    <3>2. CASE control[j] = "live" /\ Acquires(gate, j)
      BY <1>2, <3>2 DEF Ask, SlotGoes, Acquires, SlotInv, HeldByOne, Holding, SlotTypeOK
    <3> QED  BY <3>1, <3>2
  <2>3. FlagIsUsed'
    BY <1>2 DEF Ask, SlotGoes, Acquires, Reserves, NoReservation, SlotInv, FlagIsUsed,
                HeldByOne, Holding, Working, SlotTypeOK, Gates, SlotCalls, Ended,
                    WorkerStates, ControlStates
  <2>4. CleanupHasWorker'
    BY <1>2 DEF Ask, SlotGoes, Acquires, Reserves, NoReservation, SlotInv,
                CleanupHasWorker, FlagIsUsed, HeldByOne, Holding, Working, SlotTypeOK,
                    Gates, SlotCalls, Ended, WorkerStates, ControlStates
  <2> QED  BY <2>1, <2>2, <2>3, <2>4 DEF SlotInv
<1>3. ASSUME NEW j \in Jobs, ClaimWorker(j) PROVE SlotInv'
  <2>1. SlotTypeOK'
    BY <1>3 DEF ClaimWorker, SlotGoes, SlotInv, SlotTypeOK, Gates, SlotCalls, Ended,
                WorkerStates, ControlStates
  <2>2. HeldByOne'
    BY <1>3 DEF ClaimWorker, SlotGoes, SlotInv, HeldByOne, Holding, SlotTypeOK, Gates,
                SlotCalls, Ended, WorkerStates, ControlStates
  <2>3. FlagIsUsed'
    BY <1>3 DEF ClaimWorker, SlotGoes, SlotInv, FlagIsUsed, HeldByOne, Holding, Working,
                SlotTypeOK, Gates, SlotCalls, Ended, WorkerStates, ControlStates
  <2>4. CleanupHasWorker'
    BY <1>3 DEF ClaimWorker, SlotGoes, SlotInv, CleanupHasWorker, FlagIsUsed, HeldByOne,
                Holding, Working, SlotTypeOK, Gates, SlotCalls, Ended, WorkerStates,
                    ControlStates
  <2> QED  BY <2>1, <2>2, <2>3, <2>4 DEF SlotInv
<1>4. ASSUME NEW j \in Jobs, Spawn(j) PROVE SlotInv'
  <2>1. SlotTypeOK'
    <3>1. /\ [pc |-> "wait", outcome |-> "none"] \in SlotCalls
          /\ [pc |-> "drop", outcome |-> "unavailable"] \in SlotCalls
      BY DEF SlotCalls, Ended
    <3> QED  BY <1>4, <3>1 DEF Spawn, SlotGoes, SlotInv, SlotTypeOK, WorkerStates
  <2>2. HeldByOne'
    BY <1>4 DEF Spawn, SlotGoes, SlotInv, HeldByOne, Holding, SlotTypeOK, Gates, SlotCalls,
                Ended, WorkerStates, ControlStates
  <2>3. FlagIsUsed'
    BY <1>4 DEF Spawn, SlotGoes, SlotInv, FlagIsUsed, HeldByOne, Holding, Working,
                SlotTypeOK, Gates, SlotCalls, Ended, WorkerStates, ControlStates
  <2>4. CleanupHasWorker'
    BY <1>4 DEF Spawn, SlotGoes, SlotInv, CleanupHasWorker, FlagIsUsed, HeldByOne, Holding,
                Working, SlotTypeOK, Gates, SlotCalls, Ended, WorkerStates, ControlStates
  <2> QED  BY <2>1, <2>2, <2>3, <2>4 DEF SlotInv
<1>5. ASSUME NEW j \in Jobs, Receive(j) PROVE SlotInv'
  <2>1. SlotTypeOK'
    BY <1>5 DEF Receive, SlotGoes, SlotInv, SlotTypeOK, Gates, SlotCalls, Ended,
                WorkerStates, ControlStates
  <2>2. HeldByOne'
    BY <1>5 DEF Receive, SlotGoes, SlotInv, HeldByOne, Holding, SlotTypeOK, Gates,
                SlotCalls, Ended, WorkerStates, ControlStates
  <2>3. FlagIsUsed'
    BY <1>5 DEF Receive, SlotGoes, SlotInv, FlagIsUsed, HeldByOne, Holding, Working,
                SlotTypeOK, Gates, SlotCalls, Ended, WorkerStates, ControlStates
  <2>4. CleanupHasWorker'
    BY <1>5 DEF Receive, SlotGoes, SlotInv, CleanupHasWorker, FlagIsUsed, HeldByOne,
                Holding, Working, SlotTypeOK, Gates, SlotCalls, Ended, WorkerStates,
                    ControlStates
  <2> QED  BY <2>1, <2>2, <2>3, <2>4 DEF SlotInv
<1>6. ASSUME NEW j \in Jobs, Join(j) PROVE SlotInv'
  <2>1. SlotTypeOK'
    BY <1>6 DEF Join, SlotGoes, SlotInv, SlotTypeOK, Gates, SlotCalls, Ended, WorkerStates,
                ControlStates
  <2>2. HeldByOne'
    BY <1>6 DEF Join, SlotGoes, SlotInv, HeldByOne, Holding, SlotTypeOK, Gates, SlotCalls,
                Ended, WorkerStates, ControlStates
  <2>3. FlagIsUsed'
    BY <1>6 DEF Join, SlotGoes, SlotInv, FlagIsUsed, HeldByOne, Holding, Working,
                SlotTypeOK, Gates, SlotCalls, Ended, WorkerStates, ControlStates
  <2>4. CleanupHasWorker'
    BY <1>6 DEF Join, SlotGoes, SlotInv, CleanupHasWorker, FlagIsUsed, HeldByOne, Holding,
                Working, SlotTypeOK, Gates, SlotCalls, Ended, WorkerStates, ControlStates
  <2> QED  BY <2>1, <2>2, <2>3, <2>4 DEF SlotInv
<1>7. ASSUME NEW j \in Jobs, Drop(j) PROVE SlotInv'
  <2>1. SlotTypeOK'
    BY <1>7 DEF Drop, SlotGoes, Returned, Released, SlotInv, SlotTypeOK, Gates, SlotCalls,
                Ended, WorkerStates, ControlStates
  <2>2. HeldByOne'
    BY <1>7 DEF Drop, SlotGoes, Returned, Released, SlotInv, HeldByOne, Holding,
                SlotTypeOK, Gates, SlotCalls, Ended, WorkerStates, ControlStates
  <2>3. FlagIsUsed'
    BY <1>7 DEF Drop, SlotGoes, Returned, Released, SlotInv, FlagIsUsed, HeldByOne,
                Holding, Working, SlotTypeOK, Gates, SlotCalls, Ended, WorkerStates,
                    ControlStates
  <2>4. CleanupHasWorker'
    BY <1>7 DEF Drop, SlotGoes, Returned, Released, SlotInv, CleanupHasWorker, FlagIsUsed,
                HeldByOne, Holding, Working, SlotTypeOK, Gates, SlotCalls, Ended,
                    WorkerStates, ControlStates
  <2> QED  BY <2>1, <2>2, <2>3, <2>4 DEF SlotInv
<1>8. ASSUME NEW j \in Jobs, FinishJob(j) PROVE SlotInv'
  <2>1. SlotTypeOK'
    BY <1>8 DEF FinishJob, SlotGoes, SlotInv, SlotTypeOK, Gates, SlotCalls, Ended,
                WorkerStates, ControlStates
  <2>2. HeldByOne'
    BY <1>8 DEF FinishJob, SlotGoes, SlotInv, HeldByOne, Holding, SlotTypeOK, Gates,
                SlotCalls, Ended, WorkerStates, ControlStates
  <2>3. FlagIsUsed'
    BY <1>8 DEF FinishJob, SlotGoes, SlotInv, FlagIsUsed, HeldByOne, Holding, Working,
                SlotTypeOK, Gates, SlotCalls, Ended, WorkerStates, ControlStates
  <2>4. CleanupHasWorker'
    BY <1>8 DEF FinishJob, SlotGoes, SlotInv, CleanupHasWorker, FlagIsUsed, HeldByOne,
                Holding, Working, SlotTypeOK, Gates, SlotCalls, Ended, WorkerStates,
                    ControlStates
  <2> QED  BY <2>1, <2>2, <2>3, <2>4 DEF SlotInv
<1>9. ASSUME NEW j \in Jobs, Deliver(j) PROVE SlotInv'
  <2>1. SlotTypeOK'
    BY <1>9 DEF Deliver, SlotInv, SlotTypeOK, Gates, SlotCalls, Ended, WorkerStates,
                ControlStates
  <2>2. HeldByOne'
    BY <1>9 DEF Deliver, SlotInv, HeldByOne, Holding, SlotTypeOK, Gates, SlotCalls, Ended,
                WorkerStates, ControlStates
  <2>3. FlagIsUsed'
    BY <1>9 DEF Deliver, SlotInv, FlagIsUsed, HeldByOne, Holding, Working, SlotTypeOK,
                Gates, SlotCalls, Ended, WorkerStates, ControlStates
  <2>4. CleanupHasWorker'
    BY <1>9 DEF Deliver, SlotInv, CleanupHasWorker, FlagIsUsed, HeldByOne, Holding,
                Working, SlotTypeOK, Gates, SlotCalls, Ended, WorkerStates, ControlStates
  <2> QED  BY <2>1, <2>2, <2>3, <2>4 DEF SlotInv
<1>10. ASSUME NEW j \in Jobs, ClearFlag(j) PROVE SlotInv'
  <2>1. SlotTypeOK'
    BY <1>10 DEF ClearFlag, SlotInv, SlotTypeOK, Gates, SlotCalls, Ended, WorkerStates,
                 ControlStates
  <2>2. HeldByOne'
    BY <1>10 DEF ClearFlag, SlotInv, HeldByOne, Holding, SlotTypeOK, Gates, SlotCalls,
                 Ended, WorkerStates, ControlStates
  <2>3. FlagIsUsed'
    BY <1>10 DEF ClearFlag, SlotInv, FlagIsUsed, HeldByOne, Holding, Working, SlotTypeOK,
                 Gates, SlotCalls, Ended, WorkerStates, ControlStates
  <2>4. CleanupHasWorker'
    BY <1>10 DEF ClearFlag, SlotInv, CleanupHasWorker, FlagIsUsed, HeldByOne, Holding,
                 Working, SlotTypeOK, Gates, SlotCalls, Ended, WorkerStates, ControlStates
  <2> QED  BY <2>1, <2>2, <2>3, <2>4 DEF SlotInv
<1>11. ASSUME NEW j \in Jobs, FinishCleanup(j) PROVE SlotInv'
  <2>1. SlotTypeOK'
    BY <1>11 DEF FinishCleanup, CleanedUp, Released, SlotInv, SlotTypeOK, Gates, SlotCalls,
                 Ended, WorkerStates, ControlStates
  <2>2. HeldByOne'
    BY <1>11 DEF FinishCleanup, CleanedUp, Released, SlotInv, HeldByOne, Holding,
                 SlotTypeOK, Gates, SlotCalls, Ended, WorkerStates, ControlStates
  <2>3. FlagIsUsed'
    BY <1>11 DEF FinishCleanup, CleanedUp, Released, SlotInv, FlagIsUsed, HeldByOne,
                 Holding, Working, SlotTypeOK, Gates, SlotCalls, Ended, WorkerStates,
                     ControlStates
  <2>4. CleanupHasWorker'
    BY <1>11 DEF FinishCleanup, CleanedUp, Released, SlotInv, CleanupHasWorker, FlagIsUsed,
                 HeldByOne, Holding, Working, SlotTypeOK, Gates, SlotCalls, Ended,
                     WorkerStates, ControlStates
  <2> QED  BY <2>1, <2>2, <2>3, <2>4 DEF SlotInv
<1>12. ASSUME NEW j \in Jobs, NEW why \in {"cancelled", "unwatched", "late"}, Interrupt(j,
    why) PROVE SlotInv'
  <2>1. SlotTypeOK'
    BY <1>12 DEF Interrupt, SlotInv, SlotTypeOK, Gates, SlotCalls, Ended, WorkerStates,
                 ControlStates
  <2>2. HeldByOne'
    BY <1>12 DEF Interrupt, SlotInv, HeldByOne, Holding, SlotTypeOK, Gates, SlotCalls,
                 Ended, WorkerStates, ControlStates
  <2>3. FlagIsUsed'
    BY <1>12 DEF Interrupt, SlotInv, FlagIsUsed, HeldByOne, Holding, Working, SlotTypeOK,
                 Gates, SlotCalls, Ended, WorkerStates, ControlStates
  <2>4. CleanupHasWorker'
    BY <1>12 DEF Interrupt, SlotInv, CleanupHasWorker, FlagIsUsed, HeldByOne, Holding,
                 Working, SlotTypeOK, Gates, SlotCalls, Ended, WorkerStates, ControlStates
  <2> QED  BY <2>1, <2>2, <2>3, <2>4 DEF SlotInv
<1>13. CASE ReservationEnds
  BY <1>13 DEF ReservationEnds, SlotInv, HeldByOne, FlagIsUsed, CleanupHasWorker, Holding,
               Working,
             SlotTypeOK, Gates, SlotCalls, Ended, WorkerStates, ControlStates
<1>14. CASE UNCHANGED slotVars
  BY <1>14 DEF slotVars, SlotInv, HeldByOne, FlagIsUsed, CleanupHasWorker, Holding, Working,
             SlotTypeOK, Gates, SlotCalls, Ended, WorkerStates, ControlStates
<1> QED
  BY <1>1, <1>2, <1>3, <1>4, <1>5, <1>6, <1>7, <1>8, <1>9, <1>10, <1>11, <1>12, <1>13,
     <1>14 DEF SlotNext

\* At most one element has the property: then its set has at most one element.
LEMMA AtMostOne ==
    ASSUME NEW T, \A x, y \in T : x = y
    PROVE  Cardinality(T) <= 1
<1>1. CASE T = {}
  BY <1>1, FS_EmptySet
<1>2. ASSUME NEW x \in T PROVE T = {x}
  BY <1>2
<1> QED  BY <1>1, <1>2, FS_Singleton

LEMMA SlotInvKeeps == SlotInv => SlotIsNeverLost
<1> SUFFICES ASSUME SlotInv PROVE SlotIsNeverLost
  OBVIOUS
<1>1. gate.phase = "held" => Holders # {}
  BY DEF SlotInv, HeldByOne, Holding, Holders
<1>2. Cardinality(Holders) <= 1
  BY AtMostOne DEF SlotInv, HeldByOne, Holding, Holders
<1>3. Cardinality({j \in Jobs : worker[j] \in {"running", "sent"}}) <= 1
  BY AtMostOne DEF SlotInv, FlagIsUsed, Working
<1> QED  BY <1>1, <1>2, <1>3 DEF SlotInv, CleanupHasWorker, SlotIsNeverLost

\* However jobs, their workers and their cancellations interleave: the gate is held while its
\* holder runs, a cleanup has a worker that ends it, and one worker at most recognizes.
THEOREM SlotNeverLost == SlotSpec => []SlotIsNeverLost
<1>1. SlotInit => SlotInv  BY SlotInvInit
<1>2. SlotInv /\ [SlotNext]_slotVars => SlotInv'  BY SlotInvStep
<1>3. SlotInv => SlotIsNeverLost  BY SlotInvKeeps
<1> QED  BY <1>1, <1>2, <1>3, PTL DEF SlotSpec
=============================================================================
