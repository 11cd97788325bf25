------------------------- MODULE HostCommandsProofs -------------------------
(* The commands of the desktop host, for any number of commands, previews    *)
(* and revisions: they never wait for each other in a circle, a folder that  *)
(* was revoked is out of reach, and what a user confirmed is what he saw.    *)
(* Then the watch thread that a revocation waits for: what it confirms holds *)
(* of the native source, for any files, folders, queue and number of faults. *)
EXTENDS HostCommands, NativeWatch, SequenceTheorems, TLAPS

-----------------------------------------------------------------------------
(* What the programs say.  Facts of single steps, so that the provers need   *)
(* not open a program.                                                       *)

LEMMA Listing ==
    /\ DOMAIN Program = {"preview_revocation", "preview_exclusion", "confirm_revocation",
           "confirm_exclusion", "authorize", "extraction", "relation", "scan", "rename_preview",
           "watch", "restore"}
    /\ Program["preview_revocation"] = PreviewRevocation
    /\ Program["preview_exclusion"] = PreviewExclusion
    /\ Program["confirm_revocation"] = ConfirmRevocation
    /\ Program["confirm_exclusion"] = ConfirmExclusion
    /\ Program["authorize"] = Authorization
    /\ Program["extraction"] = PathRead
    /\ Program["relation"] = RelationRead
    /\ Program["scan"] = ScanBatch
    /\ Program["rename_preview"] = RenamePreview
    /\ Program["watch"] = WatchCycle
    /\ Program["restore"] = Restoration
  BY DEF Program

LEMMA PreviewRevocationSteps ==
    /\ Len(PreviewRevocation) = 3 /\ Len(PreviewRevocation) \in Nat /\ 1 .. Len(PreviewRevocation) = 1 .. 3
    /\ PreviewRevocation[1][1] = "lock" /\ PreviewRevocation[1][2] = "database"
    /\ PreviewRevocation[2][1] = "look" /\ PreviewRevocation[2][2] = "accesses"
    /\ PreviewRevocation[3][1] = "insert" /\ PreviewRevocation[3][2] = ""
  BY DEF PreviewRevocation

LEMMA PreviewExclusionSteps ==
    /\ Len(PreviewExclusion) = 4 /\ Len(PreviewExclusion) \in Nat /\ 1 .. Len(PreviewExclusion) = 1 .. 4
    /\ PreviewExclusion[1][1] = "admit" /\ PreviewExclusion[1][2] = "accesses"
    /\ PreviewExclusion[2][1] = "lock" /\ PreviewExclusion[2][2] = "database"
    /\ PreviewExclusion[3][1] = "look" /\ PreviewExclusion[3][2] = ""
    /\ PreviewExclusion[4][1] = "insert" /\ PreviewExclusion[4][2] = ""
  BY DEF PreviewExclusion

LEMMA ConfirmRevocationSteps ==
    /\ Len(ConfirmRevocation) = 7 /\ Len(ConfirmRevocation) \in Nat /\ 1 .. Len(ConfirmRevocation) = 1 .. 7
    /\ ConfirmRevocation[1][1] = "take" /\ ConfirmRevocation[1][2] = ""
    /\ ConfirmRevocation[2][1] = "lock" /\ ConfirmRevocation[2][2] = "path"
    /\ ConfirmRevocation[3][1] = "lock" /\ ConfirmRevocation[3][2] = "database"
    /\ ConfirmRevocation[4][1] = "lock" /\ ConfirmRevocation[4][2] = "accesses"
    /\ ConfirmRevocation[5][1] = "exclude" /\ ConfirmRevocation[5][2] = ""
    /\ ConfirmRevocation[6][1] = "revoke" /\ ConfirmRevocation[6][2] = ""
    /\ ConfirmRevocation[7][1] = "withdraw" /\ ConfirmRevocation[7][2] = ""
  BY DEF ConfirmRevocation

LEMMA ConfirmExclusionSteps ==
    /\ Len(ConfirmExclusion) = 7 /\ Len(ConfirmExclusion) \in Nat /\ 1 .. Len(ConfirmExclusion) = 1 .. 7
    /\ ConfirmExclusion[1][1] = "take" /\ ConfirmExclusion[1][2] = ""
    /\ ConfirmExclusion[2][1] = "admit" /\ ConfirmExclusion[2][2] = "accesses"
    /\ ConfirmExclusion[3][1] = "lock" /\ ConfirmExclusion[3][2] = "path"
    /\ ConfirmExclusion[4][1] = "lock" /\ ConfirmExclusion[4][2] = "database"
    /\ ConfirmExclusion[5][1] = "admit" /\ ConfirmExclusion[5][2] = "accesses"
    /\ ConfirmExclusion[6][1] = "exclude" /\ ConfirmExclusion[6][2] = ""
    /\ ConfirmExclusion[7][1] = "apply" /\ ConfirmExclusion[7][2] = ""
  BY DEF ConfirmExclusion

LEMMA AuthorizationSteps ==
    /\ Len(Authorization) = 3 /\ Len(Authorization) \in Nat /\ 1 .. Len(Authorization) = 1 .. 3
    /\ Authorization[1][1] = "lock" /\ Authorization[1][2] = "database"
    /\ Authorization[2][1] = "lock" /\ Authorization[2][2] = "accesses"
    /\ Authorization[3][1] = "authorize" /\ Authorization[3][2] = ""
  BY DEF Authorization

LEMMA PathReadSteps ==
    /\ Len(PathRead) = 4 /\ Len(PathRead) \in Nat /\ 1 .. Len(PathRead) = 1 .. 4
    /\ PathRead[1][1] = "admit" /\ PathRead[1][2] = "accesses"
    /\ PathRead[2][1] = "lock" /\ PathRead[2][2] = "path"
    /\ PathRead[3][1] = "admit" /\ PathRead[3][2] = "accesses"
    /\ PathRead[4][1] = "share" /\ PathRead[4][2] = ""
  BY DEF PathRead

LEMMA RelationReadSteps ==
    /\ Len(RelationRead) = 5 /\ Len(RelationRead) \in Nat /\ 1 .. Len(RelationRead) = 1 .. 5
    /\ RelationRead[1][1] = "admit" /\ RelationRead[1][2] = "accesses"
    /\ RelationRead[2][1] = "lock" /\ RelationRead[2][2] = "database"
    /\ RelationRead[3][1] = "lock" /\ RelationRead[3][2] = "accesses"
    /\ RelationRead[4][1] = "admit" /\ RelationRead[4][2] = ""
    /\ RelationRead[5][1] = "share" /\ RelationRead[5][2] = ""
  BY DEF RelationRead

LEMMA ScanBatchSteps ==
    /\ Len(ScanBatch) = 3 /\ Len(ScanBatch) \in Nat /\ 1 .. Len(ScanBatch) = 1 .. 3
    /\ ScanBatch[1][1] = "admit" /\ ScanBatch[1][2] = "accesses"
    /\ ScanBatch[2][1] = "lock" /\ ScanBatch[2][2] = "database"
    /\ ScanBatch[3][1] = "share" /\ ScanBatch[3][2] = ""
  BY DEF ScanBatch

LEMMA RenamePreviewSteps ==
    /\ Len(RenamePreview) = 2 /\ Len(RenamePreview) \in Nat /\ 1 .. Len(RenamePreview) = 1 .. 2
    /\ RenamePreview[1][1] = "admit" /\ RenamePreview[1][2] = "accesses"
    /\ RenamePreview[2][1] = "share" /\ RenamePreview[2][2] = ""
  BY DEF RenamePreview

LEMMA WatchCycleSteps ==
    /\ Len(WatchCycle) = 3 /\ Len(WatchCycle) \in Nat /\ 1 .. Len(WatchCycle) = 1 .. 3
    /\ WatchCycle[1][1] = "admit" /\ WatchCycle[1][2] = "accesses"
    /\ WatchCycle[2][1] = "try" /\ WatchCycle[2][2] = "database"
    /\ WatchCycle[3][1] = "share" /\ WatchCycle[3][2] = ""
  BY DEF WatchCycle

LEMMA RestorationSteps ==
    /\ Len(Restoration) = 2 /\ Len(Restoration) \in Nat /\ 1 .. Len(Restoration) = 1 .. 2
    /\ Restoration[1][1] = "share" /\ Restoration[1][2] = ""
    /\ Restoration[2][1] = "refresh" /\ Restoration[2][2] = ""
  BY DEF Restoration

Takes == {"lock", "try"}
\* The order of the mutexes.
Below == {<<"path", "database">>, <<"path", "accesses">>, <<"database", "accesses">>}
\* No step of a program waits for a mutex that is not above one that an earlier step took.
Rising(P, i, j) ==
    P[j][1] \in Takes /\ P[i][1] # "try" /\ P[i][2] # "" => <<P[j][2], P[i][2]>> \in Below
RanksRise(P) == \A i, j \in 1 .. Len(P) : j < i => Rising(P, i, j)

\* Every command takes the mutexes in that order.
LEMMA MutexesAreOrdered ==
    ASSUME NEW k \in DOMAIN Program
    PROVE  RanksRise(Program[k])
<1>1. RanksRise(PreviewRevocation)
  <2>1. /\ Rising(PreviewRevocation, 2, 1)
        /\ Rising(PreviewRevocation, 3, 1)
        /\ Rising(PreviewRevocation, 3, 2)
    BY PreviewRevocationSteps DEF Rising, Takes, Below
  <2>2. \A i, j \in 1 .. 3 : j < i => Rising(PreviewRevocation, i, j)
    BY <2>1
  <2> QED  BY <2>2, PreviewRevocationSteps DEF RanksRise
<1>2. RanksRise(PreviewExclusion)
  <2>1. /\ Rising(PreviewExclusion, 2, 1)
        /\ Rising(PreviewExclusion, 3, 1)
        /\ Rising(PreviewExclusion, 3, 2)
        /\ Rising(PreviewExclusion, 4, 1)
        /\ Rising(PreviewExclusion, 4, 2)
        /\ Rising(PreviewExclusion, 4, 3)
    BY PreviewExclusionSteps DEF Rising, Takes, Below
  <2>2. \A i, j \in 1 .. 4 : j < i => Rising(PreviewExclusion, i, j)
    BY <2>1
  <2> QED  BY <2>2, PreviewExclusionSteps DEF RanksRise
<1>3. RanksRise(ConfirmRevocation)
  <2>1. /\ Rising(ConfirmRevocation, 2, 1)
        /\ Rising(ConfirmRevocation, 3, 1)
        /\ Rising(ConfirmRevocation, 3, 2)
        /\ Rising(ConfirmRevocation, 4, 1)
        /\ Rising(ConfirmRevocation, 4, 2)
        /\ Rising(ConfirmRevocation, 4, 3)
        /\ Rising(ConfirmRevocation, 5, 1)
        /\ Rising(ConfirmRevocation, 5, 2)
        /\ Rising(ConfirmRevocation, 5, 3)
        /\ Rising(ConfirmRevocation, 5, 4)
        /\ Rising(ConfirmRevocation, 6, 1)
        /\ Rising(ConfirmRevocation, 6, 2)
        /\ Rising(ConfirmRevocation, 6, 3)
        /\ Rising(ConfirmRevocation, 6, 4)
        /\ Rising(ConfirmRevocation, 6, 5)
        /\ Rising(ConfirmRevocation, 7, 1)
        /\ Rising(ConfirmRevocation, 7, 2)
        /\ Rising(ConfirmRevocation, 7, 3)
        /\ Rising(ConfirmRevocation, 7, 4)
        /\ Rising(ConfirmRevocation, 7, 5)
        /\ Rising(ConfirmRevocation, 7, 6)
    BY ConfirmRevocationSteps DEF Rising, Takes, Below
  <2>2. \A i, j \in 1 .. 7 : j < i => Rising(ConfirmRevocation, i, j)
    BY <2>1
  <2> QED  BY <2>2, ConfirmRevocationSteps DEF RanksRise
<1>4. RanksRise(ConfirmExclusion)
  <2>1. /\ Rising(ConfirmExclusion, 2, 1)
        /\ Rising(ConfirmExclusion, 3, 1)
        /\ Rising(ConfirmExclusion, 3, 2)
        /\ Rising(ConfirmExclusion, 4, 1)
        /\ Rising(ConfirmExclusion, 4, 2)
        /\ Rising(ConfirmExclusion, 4, 3)
        /\ Rising(ConfirmExclusion, 5, 1)
        /\ Rising(ConfirmExclusion, 5, 2)
        /\ Rising(ConfirmExclusion, 5, 3)
        /\ Rising(ConfirmExclusion, 5, 4)
        /\ Rising(ConfirmExclusion, 6, 1)
        /\ Rising(ConfirmExclusion, 6, 2)
        /\ Rising(ConfirmExclusion, 6, 3)
        /\ Rising(ConfirmExclusion, 6, 4)
        /\ Rising(ConfirmExclusion, 6, 5)
        /\ Rising(ConfirmExclusion, 7, 1)
        /\ Rising(ConfirmExclusion, 7, 2)
        /\ Rising(ConfirmExclusion, 7, 3)
        /\ Rising(ConfirmExclusion, 7, 4)
        /\ Rising(ConfirmExclusion, 7, 5)
        /\ Rising(ConfirmExclusion, 7, 6)
    BY ConfirmExclusionSteps DEF Rising, Takes, Below
  <2>2. \A i, j \in 1 .. 7 : j < i => Rising(ConfirmExclusion, i, j)
    BY <2>1
  <2> QED  BY <2>2, ConfirmExclusionSteps DEF RanksRise
<1>5. RanksRise(Authorization)
  <2>1. /\ Rising(Authorization, 2, 1)
        /\ Rising(Authorization, 3, 1)
        /\ Rising(Authorization, 3, 2)
    BY AuthorizationSteps DEF Rising, Takes, Below
  <2>2. \A i, j \in 1 .. 3 : j < i => Rising(Authorization, i, j)
    BY <2>1
  <2> QED  BY <2>2, AuthorizationSteps DEF RanksRise
<1>6. RanksRise(PathRead)
  <2>1. /\ Rising(PathRead, 2, 1)
        /\ Rising(PathRead, 3, 1)
        /\ Rising(PathRead, 3, 2)
        /\ Rising(PathRead, 4, 1)
        /\ Rising(PathRead, 4, 2)
        /\ Rising(PathRead, 4, 3)
    BY PathReadSteps DEF Rising, Takes, Below
  <2>2. \A i, j \in 1 .. 4 : j < i => Rising(PathRead, i, j)
    BY <2>1
  <2> QED  BY <2>2, PathReadSteps DEF RanksRise
<1>7. RanksRise(RelationRead)
  <2>1. /\ Rising(RelationRead, 2, 1)
        /\ Rising(RelationRead, 3, 1)
        /\ Rising(RelationRead, 3, 2)
        /\ Rising(RelationRead, 4, 1)
        /\ Rising(RelationRead, 4, 2)
        /\ Rising(RelationRead, 4, 3)
        /\ Rising(RelationRead, 5, 1)
        /\ Rising(RelationRead, 5, 2)
        /\ Rising(RelationRead, 5, 3)
        /\ Rising(RelationRead, 5, 4)
    BY RelationReadSteps DEF Rising, Takes, Below
  <2>2. \A i, j \in 1 .. 5 : j < i => Rising(RelationRead, i, j)
    BY <2>1
  <2> QED  BY <2>2, RelationReadSteps DEF RanksRise
<1>8. RanksRise(ScanBatch)
  <2>1. /\ Rising(ScanBatch, 2, 1)
        /\ Rising(ScanBatch, 3, 1)
        /\ Rising(ScanBatch, 3, 2)
    BY ScanBatchSteps DEF Rising, Takes, Below
  <2>2. \A i, j \in 1 .. 3 : j < i => Rising(ScanBatch, i, j)
    BY <2>1
  <2> QED  BY <2>2, ScanBatchSteps DEF RanksRise
<1>9. RanksRise(RenamePreview)
  <2>1. /\ Rising(RenamePreview, 2, 1)
    BY RenamePreviewSteps DEF Rising, Takes, Below
  <2>2. \A i, j \in 1 .. 2 : j < i => Rising(RenamePreview, i, j)
    BY <2>1
  <2> QED  BY <2>2, RenamePreviewSteps DEF RanksRise
<1>10. RanksRise(WatchCycle)
  <2>1. /\ Rising(WatchCycle, 2, 1)
        /\ Rising(WatchCycle, 3, 1)
        /\ Rising(WatchCycle, 3, 2)
    BY WatchCycleSteps DEF Rising, Takes, Below
  <2>2. \A i, j \in 1 .. 3 : j < i => Rising(WatchCycle, i, j)
    BY <2>1
  <2> QED  BY <2>2, WatchCycleSteps DEF RanksRise
<1>11. RanksRise(Restoration)
  <2>1. /\ Rising(Restoration, 2, 1)
    BY RestorationSteps DEF Rising, Takes, Below
  <2>2. \A i, j \in 1 .. 2 : j < i => Rising(Restoration, i, j)
    BY <2>1
  <2> QED  BY <2>2, RestorationSteps DEF RanksRise
<1> QED  BY <1>1, <1>2, <1>3, <1>4, <1>5, <1>6, <1>7, <1>8, <1>9, <1>10, <1>11, Listing

\* Where the steps are that say something of the fence, of the grant and of the previews.
Scripted(P, k, i) ==
    /\ P[i][1] \in {"lock", "try", "admit", "look", "insert", "take", "share", "exclude", "revoke",
                    "apply", "withdraw", "authorize", "refresh"}
    /\ P[i][2] \in Mutexes \cup {""} /\ (P[i][1] \in Takes => P[i][2] \in Mutexes)
    /\ k = "preview_revocation" => \/ i = 1 /\ P[i][1] = "lock" /\ P[i][2] = "database"
                                   \/ i = 2 /\ P[i][1] = "look"
                                   \/ i = 3 /\ P[i][1] = "insert"
    /\ k = "preview_exclusion" => \/ i = 1 /\ P[i][1] = "admit"
                                  \/ i = 2 /\ P[i][1] = "lock" /\ P[i][2] = "database"
                                  \/ i = 3 /\ P[i][1] = "look"
                                  \/ i = 4 /\ P[i][1] = "insert"
    /\ k = "confirm_revocation" => \/ i = 1 /\ P[i][1] = "take"
                                   \/ i \in {2, 4} /\ P[i][1] = "lock"
                                   \/ i = 3 /\ P[i][1] = "lock" /\ P[i][2] = "database"
                                   \/ i = 5 /\ P[i][1] = "exclude"
                                   \/ i = 6 /\ P[i][1] = "revoke"
                                   \/ i = 7 /\ P[i][1] = "withdraw"
    /\ k = "confirm_exclusion" => \/ i = 1 /\ P[i][1] = "take"
                                  \/ i \in {2, 5} /\ P[i][1] = "admit"
                                  \/ i \in {3, 4} /\ P[i][1] = "lock"
                                  \/ i = 6 /\ P[i][1] = "exclude"
                                  \/ i = 7 /\ P[i][1] = "apply"
    /\ k = "restore" => \/ i = 1 /\ P[i][1] = "share"
                        \/ i = 2 /\ P[i][1] = "refresh"
    /\ k \notin {"preview_revocation", "preview_exclusion", "confirm_revocation",
                 "confirm_exclusion", "restore"} =>
          P[i][1] \notin {"look", "insert", "take", "exclude", "revoke", "apply", "withdraw",
                          "refresh"}

\* The programs are as that says.
LEMMA ProgramsAreScripted ==
    ASSUME NEW k \in DOMAIN Program
    PROVE  Len(Program[k]) \in Nat /\ \A i \in 1 .. Len(Program[k]) : Scripted(Program[k], k, i)
<1>1. ASSUME k = "preview_revocation"
      PROVE  /\ Len(Program[k]) \in Nat
             /\ \A i \in 1 .. Len(Program[k]) : Scripted(Program[k], k, i)
  <2>1. /\ Scripted(PreviewRevocation, "preview_revocation", 1)
        /\ Scripted(PreviewRevocation, "preview_revocation", 2)
        /\ Scripted(PreviewRevocation, "preview_revocation", 3)
    BY PreviewRevocationSteps DEF Scripted, Takes, Mutexes
  <2>2. \A i \in 1 .. 3 : Scripted(PreviewRevocation, "preview_revocation", i)
    BY <2>1
  <2>3. Program[k] = PreviewRevocation /\ 1 .. Len(PreviewRevocation) = 1 .. 3 /\ Len(PreviewRevocation) \in Nat
    BY <1>1, Listing, PreviewRevocationSteps
  <2> QED  BY <1>1, <2>2, <2>3
<1>2. ASSUME k = "preview_exclusion"
      PROVE  /\ Len(Program[k]) \in Nat
             /\ \A i \in 1 .. Len(Program[k]) : Scripted(Program[k], k, i)
  <2>1. /\ Scripted(PreviewExclusion, "preview_exclusion", 1)
        /\ Scripted(PreviewExclusion, "preview_exclusion", 2)
        /\ Scripted(PreviewExclusion, "preview_exclusion", 3)
        /\ Scripted(PreviewExclusion, "preview_exclusion", 4)
    BY PreviewExclusionSteps DEF Scripted, Takes, Mutexes
  <2>2. \A i \in 1 .. 4 : Scripted(PreviewExclusion, "preview_exclusion", i)
    BY <2>1
  <2>3. Program[k] = PreviewExclusion /\ 1 .. Len(PreviewExclusion) = 1 .. 4 /\ Len(PreviewExclusion) \in Nat
    BY <1>2, Listing, PreviewExclusionSteps
  <2> QED  BY <1>2, <2>2, <2>3
<1>3. ASSUME k = "confirm_revocation"
      PROVE  /\ Len(Program[k]) \in Nat
             /\ \A i \in 1 .. Len(Program[k]) : Scripted(Program[k], k, i)
  <2>1. /\ Scripted(ConfirmRevocation, "confirm_revocation", 1)
        /\ Scripted(ConfirmRevocation, "confirm_revocation", 2)
        /\ Scripted(ConfirmRevocation, "confirm_revocation", 3)
        /\ Scripted(ConfirmRevocation, "confirm_revocation", 4)
        /\ Scripted(ConfirmRevocation, "confirm_revocation", 5)
        /\ Scripted(ConfirmRevocation, "confirm_revocation", 6)
        /\ Scripted(ConfirmRevocation, "confirm_revocation", 7)
    BY ConfirmRevocationSteps DEF Scripted, Takes, Mutexes
  <2>2. \A i \in 1 .. 7 : Scripted(ConfirmRevocation, "confirm_revocation", i)
    BY <2>1
  <2>3. Program[k] = ConfirmRevocation /\ 1 .. Len(ConfirmRevocation) = 1 .. 7 /\ Len(ConfirmRevocation) \in Nat
    BY <1>3, Listing, ConfirmRevocationSteps
  <2> QED  BY <1>3, <2>2, <2>3
<1>4. ASSUME k = "confirm_exclusion"
      PROVE  /\ Len(Program[k]) \in Nat
             /\ \A i \in 1 .. Len(Program[k]) : Scripted(Program[k], k, i)
  <2>1. /\ Scripted(ConfirmExclusion, "confirm_exclusion", 1)
        /\ Scripted(ConfirmExclusion, "confirm_exclusion", 2)
        /\ Scripted(ConfirmExclusion, "confirm_exclusion", 3)
        /\ Scripted(ConfirmExclusion, "confirm_exclusion", 4)
        /\ Scripted(ConfirmExclusion, "confirm_exclusion", 5)
        /\ Scripted(ConfirmExclusion, "confirm_exclusion", 6)
        /\ Scripted(ConfirmExclusion, "confirm_exclusion", 7)
    BY ConfirmExclusionSteps DEF Scripted, Takes, Mutexes
  <2>2. \A i \in 1 .. 7 : Scripted(ConfirmExclusion, "confirm_exclusion", i)
    BY <2>1
  <2>3. Program[k] = ConfirmExclusion /\ 1 .. Len(ConfirmExclusion) = 1 .. 7 /\ Len(ConfirmExclusion) \in Nat
    BY <1>4, Listing, ConfirmExclusionSteps
  <2> QED  BY <1>4, <2>2, <2>3
<1>5. ASSUME k = "authorize"
      PROVE  /\ Len(Program[k]) \in Nat
             /\ \A i \in 1 .. Len(Program[k]) : Scripted(Program[k], k, i)
  <2>1. /\ Scripted(Authorization, "authorize", 1)
        /\ Scripted(Authorization, "authorize", 2)
        /\ Scripted(Authorization, "authorize", 3)
    BY AuthorizationSteps DEF Scripted, Takes, Mutexes
  <2>2. \A i \in 1 .. 3 : Scripted(Authorization, "authorize", i)
    BY <2>1
  <2>3. Program[k] = Authorization /\ 1 .. Len(Authorization) = 1 .. 3 /\ Len(Authorization) \in Nat
    BY <1>5, Listing, AuthorizationSteps
  <2> QED  BY <1>5, <2>2, <2>3
<1>6. ASSUME k = "extraction"
      PROVE  /\ Len(Program[k]) \in Nat
             /\ \A i \in 1 .. Len(Program[k]) : Scripted(Program[k], k, i)
  <2>1. /\ Scripted(PathRead, "extraction", 1)
        /\ Scripted(PathRead, "extraction", 2)
        /\ Scripted(PathRead, "extraction", 3)
        /\ Scripted(PathRead, "extraction", 4)
    BY PathReadSteps DEF Scripted, Takes, Mutexes
  <2>2. \A i \in 1 .. 4 : Scripted(PathRead, "extraction", i)
    BY <2>1
  <2>3. Program[k] = PathRead /\ 1 .. Len(PathRead) = 1 .. 4 /\ Len(PathRead) \in Nat
    BY <1>6, Listing, PathReadSteps
  <2> QED  BY <1>6, <2>2, <2>3
<1>7. ASSUME k = "relation"
      PROVE  /\ Len(Program[k]) \in Nat
             /\ \A i \in 1 .. Len(Program[k]) : Scripted(Program[k], k, i)
  <2>1. /\ Scripted(RelationRead, "relation", 1)
        /\ Scripted(RelationRead, "relation", 2)
        /\ Scripted(RelationRead, "relation", 3)
        /\ Scripted(RelationRead, "relation", 4)
        /\ Scripted(RelationRead, "relation", 5)
    BY RelationReadSteps DEF Scripted, Takes, Mutexes
  <2>2. \A i \in 1 .. 5 : Scripted(RelationRead, "relation", i)
    BY <2>1
  <2>3. Program[k] = RelationRead /\ 1 .. Len(RelationRead) = 1 .. 5 /\ Len(RelationRead) \in Nat
    BY <1>7, Listing, RelationReadSteps
  <2> QED  BY <1>7, <2>2, <2>3
<1>8. ASSUME k = "scan"
      PROVE  /\ Len(Program[k]) \in Nat
             /\ \A i \in 1 .. Len(Program[k]) : Scripted(Program[k], k, i)
  <2>1. /\ Scripted(ScanBatch, "scan", 1)
        /\ Scripted(ScanBatch, "scan", 2)
        /\ Scripted(ScanBatch, "scan", 3)
    BY ScanBatchSteps DEF Scripted, Takes, Mutexes
  <2>2. \A i \in 1 .. 3 : Scripted(ScanBatch, "scan", i)
    BY <2>1
  <2>3. Program[k] = ScanBatch /\ 1 .. Len(ScanBatch) = 1 .. 3 /\ Len(ScanBatch) \in Nat
    BY <1>8, Listing, ScanBatchSteps
  <2> QED  BY <1>8, <2>2, <2>3
<1>9. ASSUME k = "rename_preview"
      PROVE  /\ Len(Program[k]) \in Nat
             /\ \A i \in 1 .. Len(Program[k]) : Scripted(Program[k], k, i)
  <2>1. /\ Scripted(RenamePreview, "rename_preview", 1)
        /\ Scripted(RenamePreview, "rename_preview", 2)
    BY RenamePreviewSteps DEF Scripted, Takes, Mutexes
  <2>2. \A i \in 1 .. 2 : Scripted(RenamePreview, "rename_preview", i)
    BY <2>1
  <2>3. Program[k] = RenamePreview /\ 1 .. Len(RenamePreview) = 1 .. 2 /\ Len(RenamePreview) \in Nat
    BY <1>9, Listing, RenamePreviewSteps
  <2> QED  BY <1>9, <2>2, <2>3
<1>10. ASSUME k = "watch"
      PROVE  /\ Len(Program[k]) \in Nat
             /\ \A i \in 1 .. Len(Program[k]) : Scripted(Program[k], k, i)
  <2>1. /\ Scripted(WatchCycle, "watch", 1)
        /\ Scripted(WatchCycle, "watch", 2)
        /\ Scripted(WatchCycle, "watch", 3)
    BY WatchCycleSteps DEF Scripted, Takes, Mutexes
  <2>2. \A i \in 1 .. 3 : Scripted(WatchCycle, "watch", i)
    BY <2>1
  <2>3. Program[k] = WatchCycle /\ 1 .. Len(WatchCycle) = 1 .. 3 /\ Len(WatchCycle) \in Nat
    BY <1>10, Listing, WatchCycleSteps
  <2> QED  BY <1>10, <2>2, <2>3
<1>11. ASSUME k = "restore"
      PROVE  /\ Len(Program[k]) \in Nat
             /\ \A i \in 1 .. Len(Program[k]) : Scripted(Program[k], k, i)
  <2>1. /\ Scripted(Restoration, "restore", 1)
        /\ Scripted(Restoration, "restore", 2)
    BY RestorationSteps DEF Scripted, Takes, Mutexes
  <2>2. \A i \in 1 .. 2 : Scripted(Restoration, "restore", i)
    BY <2>1
  <2>3. Program[k] = Restoration /\ 1 .. Len(Restoration) = 1 .. 2 /\ Len(Restoration) \in Nat
    BY <1>11, Listing, RestorationSteps
  <2> QED  BY <1>11, <2>2, <2>3
<1> QED  BY <1>1, <1>2, <1>3, <1>4, <1>5, <1>6, <1>7, <1>8, <1>9, <1>10, <1>11, Listing
-----------------------------------------------------------------------------
(* The shape of the state, and what a step does to the call that makes it.   *)

Grants == {"active", "lapsed", "revoked"}
PreviewRecords == [number : Nat, revision : Nat, rows : Nat]
HostCalls == [command : DOMAIN Program \cup {"none"}, at : Nat, preview : PreviewRecords]
Confirmations == [number : Nat, at : Nat, asShown : BOOLEAN]

LocksShape == locks \in [Mutexes -> Callers \cup {NoCaller}]
FenceShape == fence \in [shared : SUBSET Callers, alone : Callers \cup {NoCaller}]
PolicyShape == policy \in [revision : Nat, grant : Grants, rows : Nat]
PreviewsShape == previews \in [Registries -> Seq(PreviewRecords)] /\ made \in Nat
CallShape == call \in [Callers -> HostCalls]
InProgram(c) == Running(c) => call[c].at \in 1 .. Len(Program[call[c].command]) + 1
HostShape ==
    /\ LocksShape /\ FenceShape /\ PolicyShape /\ PreviewsShape /\ CallShape
    /\ applied \in SUBSET Confirmations
    /\ \A c \in Callers : InProgram(c)

What(c) == Program[call[c].command][call[c].at][1]
Wanted(c) == Program[call[c].command][call[c].at][2]
\* The call of c is at a step of its program.
AtStep(c) ==
    /\ call[c].command \in DOMAIN Program
    /\ call[c].at \in 1 .. Len(Program[call[c].command])
    /\ Scripted(Program[call[c].command], call[c].command, call[c].at)

LEMMA NothingIsAPreview == Nothing \in PreviewRecords
  BY DEF Nothing, PreviewRecords

LEMMA IdleIsACall == IdleCall \in HostCalls /\ IdleCall.command = "none" /\ IdleCall.at = 0
  BY NothingIsAPreview DEF IdleCall, HostCalls

LEMMA NobodyIsACommand == "none" \notin DOMAIN Program
  BY Listing

\* The call of c becomes this, and no other call changes.
Becomes(c, k, i, p) ==
    /\ CallShape'
    /\ call'[c].command = k /\ call'[c].at = i /\ call'[c].preview = p
    /\ \A d \in Callers \ {c} : call'[d] = call[d]

LEMMA Carried ==
    ASSUME CallShape, NEW c \in Callers, NEW p \in PreviewRecords, Carries(c, p)
    PROVE  Becomes(c, call[c].command, call[c].at + 1, p)
<1>1. call[c] \in HostCalls
  BY DEF CallShape
<1>2. PICK r : r = [call[c] EXCEPT !.at = @ + 1, !.preview = p]
  OBVIOUS
<1>3. r \in HostCalls /\ r.command = call[c].command /\ r.at = call[c].at + 1 /\ r.preview = p
  <2>1. PICK old : old = call[c]
    OBVIOUS
  <2>2. r = [old EXCEPT !.at = old.at + 1, !.preview = p] /\ old \in HostCalls
    BY <1>1, <1>2, <2>1
  <2>3. r.command = old.command /\ r.at = old.at + 1 /\ r.preview = p
    BY <2>2 DEF HostCalls
  <2>4. r \in HostCalls
    <3>1. PICK q : q = [old EXCEPT !.at = old.at + 1]
      OBVIOUS
    <3>2. q \in HostCalls
      BY <2>2, <3>1 DEF HostCalls
    <3>3. r = [q EXCEPT !.preview = p]
      BY <2>2, <3>1 DEF HostCalls
    <3> QED  BY <3>2, <3>3 DEF HostCalls
  <2> QED  BY <2>1, <2>3, <2>4
<1>4. call' = [call EXCEPT ![c] = r]
  BY <1>2 DEF Carries
<1> QED  BY <1>3, <1>4 DEF Becomes, CallShape

LEMMA Gone ==
    ASSUME CallShape, NEW c \in Callers, CommandGoes(c)
    PROVE  Becomes(c, call[c].command, call[c].at + 1, call[c].preview)
<1>1. call[c] \in HostCalls
  BY DEF CallShape
<1>2. PICK r : r = [call[c] EXCEPT !.at = @ + 1]
  OBVIOUS
<1>3. /\ r \in HostCalls /\ r.command = call[c].command /\ r.at = call[c].at + 1
      /\ r.preview = call[c].preview
  BY <1>1, <1>2 DEF HostCalls
<1>4. call' = [call EXCEPT ![c] = r]
  BY <1>2 DEF CommandGoes
<1> QED  BY <1>3, <1>4 DEF Becomes, CallShape

LEMMA Stopped ==
    ASSUME CallShape, NEW c \in Callers, call' = [call EXCEPT ![c] = IdleCall]
    PROVE  Becomes(c, "none", 0, IdleCall.preview)
  BY IdleIsACall DEF Becomes, CallShape

LEMMA Started ==
    ASSUME CallShape, NEW c \in Callers, NEW k \in DOMAIN Program, Begin(c, k)
    PROVE  Becomes(c, k, 1, Nothing)
<1>1. PICK r : r = [IdleCall EXCEPT !.command = k, !.at = 1]
  OBVIOUS
<1>2. r \in HostCalls /\ r.command = k /\ r.at = 1 /\ r.preview = Nothing
  BY <1>1, NothingIsAPreview DEF HostCalls, IdleCall
<1>3. call' = [call EXCEPT ![c] = r]
  BY <1>1 DEF Begin
<1> QED  BY <1>2, <1>3 DEF Becomes, CallShape

\* What a command may do at a step, by what its program says there.
Does(c) ==
    \/ \E m \in Mutexes : /\ What(c) \in Takes /\ Wanted(c) = m /\ locks[m] = NoCaller
                          /\ Lock(c, m)
    \/ What(c) = "admit" /\ Admit(c)
    \/ What(c) = "look" /\ LookAtImpact(c)
    \/ What(c) = "insert" /\ Insert(c)
    \/ What(c) = "take" /\ Take(c)
    \/ What(c) = "share" /\ Share(c)
    \/ What(c) = "exclude" /\ Exclude(c)
    \/ What(c) = "revoke" /\ Revoke(c)
    \/ What(c) = "apply" /\ Apply(c)
    \/ What(c) = "withdraw" /\ Withdraw(c)
    \/ What(c) = "authorize" /\ Authorize(c)
    \/ What(c) = "refresh" /\ Refresh(c)
    \/ What(c) = "try" /\ Ends(c)

LEMMA CallIsAtStep ==
    ASSUME HostShape, NEW c \in Callers, Running(c),
           call[c].at <= Len(Program[call[c].command])
    PROVE  AtStep(c)
<1>1. call[c].command \in DOMAIN Program
  BY DEF HostShape, CallShape, HostCalls, Running
<1>2. InProgram(c)
  BY DEF HostShape
<1>3. PICK n : n = Len(Program[call[c].command])
  OBVIOUS
<1>4. n \in Nat /\ call[c].at \in 1 .. n
  BY <1>1, <1>2, <1>3, ProgramsAreScripted DEF InProgram
<1> QED  BY <1>1, <1>3, <1>4, ProgramsAreScripted DEF AtStep

LEMMA StepDoes ==
    ASSUME HostShape, NEW c \in Callers, Running(c), Step(c)
    PROVE  \/ AtStep(c) /\ Does(c)
           \/ Ends(c) /\ call[c].at = Len(Program[call[c].command]) + 1
<1>1. CASE call[c].at <= Len(Program[call[c].command])
  <2>1. AtStep(c)
    BY <1>1, CallIsAtStep
  <2>2. NextOf(c)[1] = What(c) /\ NextOf(c)[2] = Wanted(c)
    BY <1>1 DEF NextOf, What, Wanted
  <2>3. /\ What(c) \in {"lock", "try", "admit", "look", "insert", "take", "share", "exclude",
                        "revoke", "apply", "withdraw", "authorize", "refresh"}
        /\ What(c) \in Takes => Wanted(c) \in Mutexes
    BY ONLY <2>1 DEF AtStep, Scripted, What, Wanted
  <2>4. CASE Open(Wanted(c))
    <3>1. CASE What(c) \in Takes
      <4>1. Wanted(c) \in Mutexes /\ Wanted(c) # ""
        BY <2>3, <3>1 DEF Mutexes
      <4>2. Lock(c, Wanted(c)) /\ locks[Wanted(c)] = NoCaller
        BY <2>2, <2>4, <3>1, <4>1 DEF Step, Open, Takes
      <4> QED  BY <2>1, <3>1, <4>1, <4>2 DEF Does
    <3>2. CASE What(c) \notin Takes
      <4>1. What(c) \in {"admit", "look", "insert", "take", "share", "exclude",
                         "revoke", "apply", "withdraw", "authorize", "refresh"}
        BY <2>3, <3>2 DEF Takes
      <4>2. /\ What(c) = "admit" => Admit(c)
            /\ What(c) = "look" => LookAtImpact(c)
            /\ What(c) = "insert" => Insert(c)
            /\ What(c) = "take" => Take(c)
            /\ What(c) = "share" => Share(c)
            /\ What(c) = "exclude" => Exclude(c)
            /\ What(c) = "revoke" => Revoke(c)
            /\ What(c) = "apply" => Apply(c)
            /\ What(c) = "withdraw" => Withdraw(c)
            /\ What(c) = "authorize" => Authorize(c)
            /\ What(c) = "refresh" => Refresh(c)
        BY <2>2, <2>4 DEF Step
      <4>3. Does(c)
        BY ONLY <4>1, <4>2 DEF Does
      <4> QED  BY <2>1, <4>3
    <3> QED  BY <3>1, <3>2
  <2>5. CASE ~Open(Wanted(c))
    BY <2>1, <2>2, <2>5 DEF Step, Does
  <2> QED  BY <2>4, <2>5
<1>2. CASE ~(call[c].at <= Len(Program[call[c].command]))
  <2>1. NextOf(c)[1] = "end" /\ NextOf(c)[2] = ""
    BY <1>2 DEF NextOf
  <2>2. Ends(c)
    BY <2>1 DEF Step, Open
  <2>3. call[c].at = Len(Program[call[c].command]) + 1
    <3>1. call[c].command \in DOMAIN Program
      BY DEF HostShape, CallShape, HostCalls, Running
    <3>2. PICK n : n = Len(Program[call[c].command])
      OBVIOUS
    <3>3. n \in Nat /\ call[c].at \in 1 .. n + 1
      BY <3>1, <3>2, ProgramsAreScripted DEF HostShape, InProgram
    <3> QED  BY <1>2, <3>2, <3>3
  <2> QED  BY <2>2, <2>3
<1> QED  BY <1>1, <1>2

-----------------------------------------------------------------------------
(* Shortened registries. *)

\* No two entries of a registry have the same number.
Distinct(s) == \A i, j \in 1 .. Len(s) : s[i].number = s[j].number => i = j
\* The entries of t are entries of s, in another place but none of them twice.
Thins(t, s) ==
    /\ \A i \in 1 .. Len(t) : \E j \in 1 .. Len(s) : t[i] = s[j]
    /\ Distinct(s) => Distinct(t)

LEMMA TailThins ==
    ASSUME NEW s \in Seq(PreviewRecords), NEW e \in 0 .. Len(s)
    PROVE  LET t == SubSeq(s, e + 1, Len(s)) IN t \in Seq(PreviewRecords) /\ Thins(t, s)
<1> DEFINE t == SubSeq(s, e + 1, Len(s))
<1>1. t \in Seq(PreviewRecords) /\ Len(t) = Len(s) - e
  OBVIOUS
<1>2. \A i \in 1 .. Len(t) : i + e \in 1 .. Len(s) /\ t[i] = s[i + e]
  BY <1>1
<1> HIDE DEF t
<1>3. Len(s) \in Nat /\ Len(t) \in Nat
  BY <1>1
<1>4. ASSUME Distinct(s) PROVE Distinct(t)
  <2> SUFFICES ASSUME NEW i \in 1 .. Len(t), NEW j \in 1 .. Len(t), t[i].number = t[j].number
               PROVE  i = j
    BY DEF Distinct
  <2>1. /\ i + e \in 1 .. Len(s) /\ t[i] = s[i + e]
        /\ j + e \in 1 .. Len(s) /\ t[j] = s[j + e]
    BY <1>2
  <2>2. s[i + e].number = s[j + e].number
    BY <2>1
  <2>3. i + e = j + e
    BY <1>4, <2>1, <2>2 DEF Distinct
  <2> QED  BY <2>3, <1>3
<1>5. \A i \in 1 .. Len(t) : \E j \in 1 .. Len(s) : t[i] = s[j]
  BY <1>2
<1> QED  BY <1>1, <1>4, <1>5 DEF Thins, t

LEMMA RemovalThins ==
    ASSUME NEW s \in Seq(PreviewRecords), NEW n \in 1 .. Len(s)
    PROVE  LET t == RemoveAt(s, n)
           IN /\ t \in Seq(PreviewRecords) /\ Thins(t, s)
              /\ Distinct(s) => \A i \in 1 .. Len(t) : t[i].number # s[n].number
<1> DEFINE t == RemoveAt(s, n)
           a == SubSeq(s, 1, n - 1)
           b == SubSeq(s, n + 1, Len(s))
<1>1. a \in Seq(PreviewRecords) /\ Len(a) = n - 1 /\ \A i \in 1 .. n - 1 : a[i] = s[i]
  OBVIOUS
<1>2. b \in Seq(PreviewRecords) /\ Len(b) = Len(s) - n /\ \A i \in 1 .. Len(s) - n : b[i] = s[i + n]
  OBVIOUS
<1>3. t = a \o b
  BY DEF RemoveAt
<1> HIDE DEF t, a, b
<1>4. t \in Seq(PreviewRecords) /\ Len(t) = Len(s) - 1
  BY <1>1, <1>2, <1>3
<1>5. ASSUME NEW i \in 1 .. Len(s) - 1
      PROVE  t[i] = IF i < n THEN s[i] ELSE s[i + 1]
  <2>1. CASE i < n
    <3>1. i \in 1 .. n - 1 /\ t[i] = a[i]
      BY <1>1, <1>2, <1>3, <2>1
    <3> QED  BY <1>1, <2>1, <3>1
  <2>2. CASE ~(i < n)
    <3>1. i - n + 1 \in 1 .. Len(s) - n /\ (i - n + 1) + n = i + 1
      BY <2>2
    <3>2. t[i] = b[i - n + 1]
      BY <1>1, <1>2, <1>3, <2>2, <3>1
    <3>3. b[i - n + 1] = s[(i - n + 1) + n]
      BY <1>2, <3>1
    <3> QED  BY <2>2, <3>1, <3>2, <3>3
  <2> QED  BY <2>1, <2>2
<1> DEFINE at(i) == IF i < n THEN i ELSE i + 1
<1>6. \A i \in 1 .. Len(t) : at(i) \in 1 .. Len(s) /\ at(i) # n /\ t[i] = s[at(i)]
  BY <1>4, <1>5
<1>7. \A i, j \in 1 .. Len(t) : at(i) = at(j) => i = j
  BY <1>4
<1> HIDE DEF at
<1>8. Distinct(s) => Distinct(t) /\ \A i \in 1 .. Len(t) : t[i].number # s[n].number
  BY <1>6, <1>7 DEF Distinct
<1>9. \A i \in 1 .. Len(t) : \E j \in 1 .. Len(s) : t[i] = s[j]
  BY <1>6
<1> QED  BY <1>4, <1>8, <1>9 DEF Thins, t

LEMMA ThinningIsTransitive ==
    ASSUME NEW r, NEW s, NEW t, Thins(r, s), Thins(s, t)
    PROVE  Thins(r, t)
  BY DEF Thins

LEMMA AppendedEntries ==
    ASSUME NEW s \in Seq(PreviewRecords), NEW p \in PreviewRecords
    PROVE  /\ Append(s, p) \in Seq(PreviewRecords) /\ Len(Append(s, p)) = Len(s) + 1
           /\ \A i \in 1 .. Len(s) : Append(s, p)[i] = s[i]
           /\ Append(s, p)[Len(s) + 1] = p
  OBVIOUS

\* What insert_at keeps of a registry.
LEMMA RoomThins ==
    ASSUME NEW s \in Seq(PreviewRecords), NEW e \in 0 .. Len(s), MaxPending \in Nat \ {0}
    PROVE  LET kept == SubSeq(s, e + 1, Len(s))
               room == IF Len(kept) < MaxPending THEN kept ELSE Tail(kept)
           IN room \in Seq(PreviewRecords) /\ Thins(room, s)
<1> DEFINE kept == SubSeq(s, e + 1, Len(s))
<1>1. kept \in Seq(PreviewRecords) /\ Thins(kept, s)
  BY TailThins
<1> HIDE DEF kept
<1>2. CASE Len(kept) < MaxPending
  BY <1>1, <1>2 DEF kept
<1>3. CASE ~(Len(kept) < MaxPending)
  <2>1. Len(kept) \in Nat /\ 1 \in 0 .. Len(kept)
    BY <1>1, <1>3
  <2>2. Tail(kept) = SubSeq(kept, 1 + 1, Len(kept))
    BY <1>1, <2>1
  <2>3. Tail(kept) \in Seq(PreviewRecords) /\ Thins(Tail(kept), kept)
    BY <1>1, <2>1, <2>2, TailThins
  <2> QED  BY <1>1, <1>3, <2>3, ThinningIsTransitive DEF kept
<1> QED  BY <1>2, <1>3

-----------------------------------------------------------------------------
(* The state keeps its shape. *)

\* A call that goes on, stops or starts stays within its program.
LEMMA GoingOnStaysInProgram ==
    ASSUME HostShape, NEW c \in Callers, AtStep(c), NEW p,
           Becomes(c, call[c].command, call[c].at + 1, p)
    PROVE  CallShape' /\ \A d \in Callers : InProgram(d)'
<1> SUFFICES ASSUME NEW d \in Callers, Running(d)' PROVE InProgram(d)'
  BY DEF Becomes, InProgram
<1>1. CASE d = c
  <2>1. PICK n : n = Len(Program[call[c].command])
    OBVIOUS
  <2>2. n \in Nat /\ call[c].at \in 1 .. n
    BY <2>1, ProgramsAreScripted DEF AtStep
  <2>3. call'[c].at \in 1 .. n + 1
    BY <2>2 DEF Becomes
  <2> QED  BY <1>1, <2>1, <2>3 DEF Becomes, InProgram
<1>2. CASE d # c
  BY <1>2 DEF HostShape, InProgram, Becomes, Running
<1> QED  BY <1>1, <1>2

LEMMA StoppingStaysInProgram ==
    ASSUME HostShape, NEW c \in Callers, NEW p, Becomes(c, "none", 0, p)
    PROVE  CallShape' /\ \A d \in Callers : InProgram(d)'
<1> SUFFICES ASSUME NEW d \in Callers, Running(d)' PROVE InProgram(d)'
  BY DEF Becomes, InProgram
<1>1. d # c
  BY DEF Becomes, Running
<1> QED  BY <1>1 DEF HostShape, InProgram, Becomes, Running

LEMMA EndingKeepsShape ==
    ASSUME HostShape, NEW c \in Callers, Ends(c)
    PROVE  HostShape'
<1>1. Becomes(c, "none", 0, IdleCall.preview)
  BY Stopped DEF HostShape, Ends
<1>2. CallShape' /\ \A d \in Callers : InProgram(d)'
  BY <1>1, StoppingStaysInProgram
<1>3. LocksShape'
  BY DEF HostShape, LocksShape, Ends
<1>4. FenceShape'
  BY DEF HostShape, FenceShape, Ends
<1>5. PolicyShape' /\ PreviewsShape' /\ applied' \in SUBSET Confirmations
  BY DEF HostShape, PolicyShape, PreviewsShape, Ends
<1> QED  BY <1>2, <1>3, <1>4, <1>5 DEF HostShape

\* What is in hand is a preview, and so is what a look at the impact finds.
LEMMA InHandIsAPreview ==
    ASSUME HostShape, NEW c \in Callers
    PROVE  /\ InHand(c) \in PreviewRecords
           /\ [Nothing EXCEPT !.revision = policy.revision, !.rows = policy.rows] \in PreviewRecords
<1>1. policy.revision \in Nat /\ policy.rows \in Nat
  BY DEF HostShape, PolicyShape
<1> QED  BY <1>1 DEF HostShape, CallShape, HostCalls, InHand, Nothing, PreviewRecords

LEMMA ConfirmingKeepsShape ==
    ASSUME HostShape, NEW c \in Callers, NEW b \in BOOLEAN, Confirms(c, b)
    PROVE  applied' \in SUBSET Confirmations
<1>1. policy.revision \in Nat /\ InHand(c).number \in Nat
  BY InHandIsAPreview DEF HostShape, PolicyShape, PreviewRecords
<1> QED  BY <1>1 DEF HostShape, Confirms, Confirmations

LEMMA ChangedPolicy ==
    ASSUME HostShape, NEW g \in Grants
    PROVE  /\ [policy EXCEPT !.revision = @ + 1, !.grant = g] \in
                 [revision : Nat, grant : Grants, rows : Nat]
           /\ [policy EXCEPT !.revision = @ + 1] \in [revision : Nat, grant : Grants, rows : Nat]
           /\ [policy EXCEPT !.grant = g] \in [revision : Nat, grant : Grants, rows : Nat]
           /\ [policy EXCEPT !.rows = 1] \in [revision : Nat, grant : Grants, rows : Nat]
           /\ [policy EXCEPT !.revision = @ + 1, !.grant = g].grant = g
           /\ [policy EXCEPT !.revision = @ + 1].grant = policy.grant
           /\ [policy EXCEPT !.grant = g].grant = g
           /\ [policy EXCEPT !.rows = 1].grant = policy.grant
<1>1. policy \in [revision : Nat, grant : Grants, rows : Nat]
  BY DEF HostShape, PolicyShape
<1>2. PICK q : q = [policy EXCEPT !.revision = @ + 1]
  OBVIOUS
<1>3. q \in [revision : Nat, grant : Grants, rows : Nat] /\ q.grant = policy.grant
  BY <1>1, <1>2
<1>4. [policy EXCEPT !.revision = @ + 1, !.grant = g] = [q EXCEPT !.grant = g]
  BY <1>1, <1>2
<1>5. /\ [q EXCEPT !.grant = g] \in [revision : Nat, grant : Grants, rows : Nat]
      /\ [q EXCEPT !.grant = g].grant = g
  BY <1>3
<1>6. /\ [policy EXCEPT !.grant = g] \in [revision : Nat, grant : Grants, rows : Nat]
      /\ [policy EXCEPT !.grant = g].grant = g
  BY <1>1
<1>7. /\ [policy EXCEPT !.rows = 1] \in [revision : Nat, grant : Grants, rows : Nat]
      /\ [policy EXCEPT !.rows = 1].grant = policy.grant
  BY <1>1
<1> QED  BY <1>2, <1>3, <1>4, <1>5, <1>6, <1>7

LEMMA InsertingKeepsShape ==
    ASSUME HostShape, NEW c \in Callers, AtStep(c), Insert(c)
    PROVE  /\ PreviewsShape' /\ Becomes(c, call[c].command, call[c].at + 1, Nothing)
           /\ RegistryOf(c) \in Registries /\ made' = made + 1
           /\ \E room \in Seq(PreviewRecords), p \in PreviewRecords :
                 /\ Thins(room, previews[RegistryOf(c)])
                 /\ p.number = made + 1
                 /\ previews' = [previews EXCEPT ![RegistryOf(c)] = Append(room, p)]
<1>1. RegistryOf(c) \in Registries
  BY DEF RegistryOf, Registries
<1>2. PICK list : list = previews[RegistryOf(c)]
  OBVIOUS
<1>3. list \in Seq(PreviewRecords)
  BY <1>1, <1>2 DEF HostShape, PreviewsShape
<1>4. PICK p : p = [InHand(c) EXCEPT !.number = made + 1]
  OBVIOUS
<1>5. p \in PreviewRecords /\ p.number = made + 1
  BY <1>4, InHandIsAPreview DEF HostShape, PreviewsShape, PreviewRecords
<1>6. PICK expired \in 0 .. Len(list) :
         LET kept == SubSeq(list, expired + 1, Len(list))
             room == IF Len(kept) < MaxPending THEN kept ELSE Tail(kept)
         IN previews' = [previews EXCEPT ![RegistryOf(c)] = Append(room, p)]
  BY <1>2, <1>4 DEF Insert
<1> DEFINE kept == SubSeq(list, expired + 1, Len(list))
           room == IF Len(kept) < MaxPending THEN kept ELSE Tail(kept)
<1>7. room \in Seq(PreviewRecords) /\ Thins(room, list)
  BY <1>3, RoomThins, HostAssumption
<1>8. previews' = [previews EXCEPT ![RegistryOf(c)] = Append(room, p)]
  BY <1>6
<1> HIDE DEF room, kept
<1>9. PreviewsShape' /\ made' = made + 1
  <2>1. made' = made + 1
    BY DEF Insert
  <2>2. Append(room, p) \in Seq(PreviewRecords)
    BY <1>5, <1>7
  <2>3. previews' \in [Registries -> Seq(PreviewRecords)]
    BY <1>1, <1>8, <2>2 DEF HostShape, PreviewsShape
  <2> QED  BY <2>1, <2>3 DEF HostShape, PreviewsShape
<1>10. Becomes(c, call[c].command, call[c].at + 1, Nothing)
  BY Carried, NothingIsAPreview DEF Insert, HostShape
<1> QED  BY <1>1, <1>2, <1>5, <1>7, <1>8, <1>9, <1>10

\* The preview that is taken is in the hand of its command, or nobody's.
LEMMA TakingKeepsShape ==
    ASSUME HostShape, NEW c \in Callers, AtStep(c), Take(c)
    PROVE  \/ Ends(c)
           \/ /\ PreviewsShape' /\ RegistryOf(c) \in Registries
              /\ UNCHANGED <<locks, fence, policy, access, made, withdrawn, applied>>
              /\ \E i \in 1 .. Len(previews[RegistryOf(c)]) :
                    /\ previews' = [previews EXCEPT ![RegistryOf(c)] =
                                       RemoveAt(previews[RegistryOf(c)], i)]
                    /\ \/ Becomes(c, call[c].command, call[c].at + 1, previews[RegistryOf(c)][i])
                       \/ Becomes(c, "none", 0, IdleCall.preview)
<1> SUFFICES ASSUME ~Ends(c)
             PROVE  /\ PreviewsShape' /\ RegistryOf(c) \in Registries
                    /\ UNCHANGED <<locks, fence, policy, access, made, withdrawn, applied>>
                    /\ \E i \in 1 .. Len(previews[RegistryOf(c)]) :
                          /\ previews' = [previews EXCEPT ![RegistryOf(c)] =
                                             RemoveAt(previews[RegistryOf(c)], i)]
                          /\ \/ Becomes(c, call[c].command, call[c].at + 1,
                                        previews[RegistryOf(c)][i])
                             \/ Becomes(c, "none", 0, IdleCall.preview)
  OBVIOUS
<1>1. RegistryOf(c) \in Registries
  BY DEF RegistryOf, Registries
<1>2. PICK list : list = previews[RegistryOf(c)]
  OBVIOUS
<1>3. list \in Seq(PreviewRecords)
  BY <1>1, <1>2 DEF HostShape, PreviewsShape
<1>4. PICK i \in DOMAIN list :
         /\ previews' = [previews EXCEPT ![RegistryOf(c)] = RemoveAt(list, i)]
         /\ Carries(c, list[i]) \/ call' = [call EXCEPT ![c] = IdleCall]
         /\ UNCHANGED <<locks, fence, policy, access, made, withdrawn, applied>>
  BY <1>2 DEF Take
<1>5. i \in 1 .. Len(list) /\ list[i] \in PreviewRecords
  BY <1>3, <1>4
<1>6. RemoveAt(list, i) \in Seq(PreviewRecords)
  BY <1>3, <1>5, RemovalThins
<1>7. PreviewsShape'
  BY <1>1, <1>4, <1>6 DEF HostShape, PreviewsShape
<1>8. CallShape
  BY DEF HostShape
<1>9. \/ Becomes(c, call[c].command, call[c].at + 1, list[i])
      \/ Becomes(c, "none", 0, IdleCall.preview)
  BY <1>4, <1>5, <1>8, Carried, Stopped
<1> QED  BY <1>1, <1>2, <1>4, <1>5, <1>7, <1>9

LEMMA DoingKeepsShape ==
    ASSUME HostShape, NEW c \in Callers, AtStep(c), Does(c), ~Ends(c)
    PROVE  HostShape'
<1> USE DEF HostShape
<1>1. ASSUME NEW m \in Mutexes, Lock(c, m)
      PROVE  HostShape'
  <2>1. LocksShape'
    BY <1>1 DEF LocksShape, Lock
  <2>2. CallShape' /\ \A d \in Callers : InProgram(d)'
    BY <1>1, Gone, GoingOnStaysInProgram DEF Lock
  <2> QED  BY <1>1, <2>1, <2>2 DEF Lock, FenceShape, PolicyShape, PreviewsShape
<1>2. CASE Admit(c)
  <2>1. CallShape' /\ \A d \in Callers : InProgram(d)'
    BY <1>2, Gone, GoingOnStaysInProgram DEF Admit
  <2> QED  BY <1>2, <2>1 DEF Admit, LocksShape, FenceShape, PolicyShape, PreviewsShape
<1>3. CASE LookAtImpact(c)
  <2>1. CallShape' /\ \A d \in Callers : InProgram(d)'
    BY <1>3, Carried, InHandIsAPreview, GoingOnStaysInProgram DEF LookAtImpact
  <2> QED  BY <1>3, <2>1 DEF LookAtImpact, LocksShape, FenceShape, PolicyShape, PreviewsShape
<1>4. CASE Insert(c)
  <2>1. PreviewsShape' /\ Becomes(c, call[c].command, call[c].at + 1, Nothing)
    BY <1>4, InsertingKeepsShape
  <2>2. CallShape' /\ \A d \in Callers : InProgram(d)'
    BY <2>1, GoingOnStaysInProgram
  <2> QED  BY <1>4, <2>1, <2>2 DEF Insert, LocksShape, FenceShape, PolicyShape
<1>5. CASE Take(c)
  <2>1. /\ PreviewsShape'
        /\ UNCHANGED <<locks, fence, policy, access, made, withdrawn, applied>>
        /\ \E p : \/ Becomes(c, call[c].command, call[c].at + 1, p)
                  \/ Becomes(c, "none", 0, p)
    BY <1>5, TakingKeepsShape
  <2>2. CallShape' /\ \A d \in Callers : InProgram(d)'
    BY <2>1, GoingOnStaysInProgram, StoppingStaysInProgram
  <2> QED  BY <2>1, <2>2 DEF LocksShape, FenceShape, PolicyShape
<1>6. CASE Share(c)
  <2>1. CallShape' /\ \A d \in Callers : InProgram(d)'
    BY <1>6, Gone, GoingOnStaysInProgram DEF Share
  <2>2. FenceShape'
    BY <1>6 DEF Share, FenceShape
  <2> QED  BY <1>6, <2>1, <2>2 DEF Share, LocksShape, PolicyShape, PreviewsShape
<1>7. CASE Exclude(c)
  <2>1. CallShape' /\ \A d \in Callers : InProgram(d)'
    BY <1>7, Gone, GoingOnStaysInProgram DEF Exclude
  <2>2. FenceShape'
    BY <1>7 DEF Exclude, FenceShape
  <2> QED  BY <1>7, <2>1, <2>2 DEF Exclude, LocksShape, PolicyShape, PreviewsShape
<1>8. CASE Revoke(c)
  <2>1. CallShape' /\ \A d \in Callers : InProgram(d)'
    BY <1>8, Carried, NothingIsAPreview, GoingOnStaysInProgram DEF Revoke
  <2>2. PolicyShape'
    BY <1>8, ChangedPolicy DEF Revoke, PolicyShape, Grants
  <2>3. (InHand(c).rows = policy.rows) \in BOOLEAN
    OBVIOUS
  <2>4. applied' \in SUBSET Confirmations
    BY <1>8, <2>3, ConfirmingKeepsShape DEF Revoke
  <2> QED  BY <1>8, <2>1, <2>2, <2>4 DEF Revoke, LocksShape, FenceShape, PreviewsShape
<1>9. CASE Apply(c)
  <2>1. CallShape' /\ \A d \in Callers : InProgram(d)'
    BY <1>9, Carried, NothingIsAPreview, GoingOnStaysInProgram DEF Apply
  <2>2. PolicyShape'
    BY <1>9, ChangedPolicy DEF Apply, PolicyShape, Grants
  <2>4. applied' \in SUBSET Confirmations
    BY <1>9, ConfirmingKeepsShape DEF Apply
  <2> QED  BY <1>9, <2>1, <2>2, <2>4 DEF Apply, LocksShape, FenceShape, PreviewsShape
<1>10. CASE Withdraw(c)
  <2>1. CallShape' /\ \A d \in Callers : InProgram(d)'
    BY <1>10, Gone, GoingOnStaysInProgram DEF Withdraw
  <2>2. LocksShape' /\ PreviewsShape'
    BY <1>10 DEF Withdraw, LocksShape, PreviewsShape
  <2> QED  BY <1>10, <2>1, <2>2 DEF Withdraw, FenceShape, PolicyShape
<1>11. CASE Authorize(c)
  <2>1. CallShape' /\ \A d \in Callers : InProgram(d)'
    BY <1>11, Gone, GoingOnStaysInProgram DEF Authorize
  <2>2. PolicyShape'
    BY <1>11, ChangedPolicy DEF Authorize, PolicyShape, Grants
  <2> QED  BY <1>11, <2>1, <2>2 DEF Authorize, LocksShape, FenceShape, PreviewsShape
<1>12. CASE Refresh(c)
  <2>1. CallShape' /\ \A d \in Callers : InProgram(d)'
    BY <1>12, Gone, GoingOnStaysInProgram DEF Refresh
  <2>2. PolicyShape'
    BY <1>12, ChangedPolicy DEF Refresh, PolicyShape, Grants
  <2> QED  BY <1>12, <2>1, <2>2 DEF Refresh, LocksShape, FenceShape, PreviewsShape
<1> HIDE DEF HostShape
<1> QED
  BY <1>1, <1>2, <1>3, <1>4, <1>5, <1>6, <1>7, <1>8, <1>9, <1>10, <1>11, <1>12 DEF Does

LEMMA BeginningKeepsShape ==
    ASSUME HostShape, NEW c \in Callers, NEW k \in DOMAIN Program, Begin(c, k)
    PROVE  HostShape' /\ Becomes(c, k, 1, Nothing)
<1>1. Becomes(c, k, 1, Nothing)
  BY Started DEF HostShape
<1>2. ASSUME NEW d \in Callers, Running(d)'
      PROVE  InProgram(d)'
  <2>1. CASE d = c
    <3>1. PICK n : n = Len(Program[k])
      OBVIOUS
    <3>2. n \in Nat /\ 1 \in 1 .. n + 1
      BY <3>1, ProgramsAreScripted
    <3> QED  BY <1>1, <2>1, <3>1, <3>2 DEF Becomes, InProgram
  <2>2. CASE d # c
    BY <1>1, <2>2 DEF HostShape, InProgram, Becomes, Running
  <2> QED  BY <2>1, <2>2
<1>3. CallShape' /\ \A d \in Callers : InProgram(d)'
  BY <1>1, <1>2 DEF Becomes, InProgram
<1> QED
  BY <1>1, <1>3 DEF HostShape, Begin, LocksShape, FenceShape, PolicyShape, PreviewsShape

\* A preview that is discarded leaves the others of its registry.
LEMMA DiscardingKeepsShape ==
    ASSUME HostShape, Discard
    PROVE  /\ PreviewsShape'
           /\ UNCHANGED <<locks, fence, policy, access, made, call, withdrawn, applied>>
           /\ \E kind \in Registries : \E i \in 1 .. Len(previews[kind]) :
                 previews' = [previews EXCEPT ![kind] = RemoveAt(previews[kind], i)]
<1>0. PICK kind \in DOMAIN previews : \E i \in DOMAIN previews[kind] :
         previews' = [previews EXCEPT ![kind] = RemoveAt(@, i)]
  BY DEF Discard
<1>1. PICK i \in DOMAIN previews[kind] :
         previews' = [previews EXCEPT ![kind] = RemoveAt(@, i)]
  BY <1>0
<1>2. PICK list : list = previews[kind]
  OBVIOUS
<1>3. kind \in Registries /\ list \in Seq(PreviewRecords)
  BY <1>1, <1>2 DEF HostShape, PreviewsShape
<1>4. i \in 1 .. Len(list) /\ RemoveAt(list, i) \in Seq(PreviewRecords)
  BY <1>1, <1>2, <1>3, RemovalThins
<1>5. previews' = [previews EXCEPT ![kind] = RemoveAt(list, i)]
  BY <1>1, <1>2
<1>6. PreviewsShape'
  BY <1>3, <1>4, <1>5 DEF HostShape, PreviewsShape, Discard
<1> QED  BY <1>2, <1>3, <1>4, <1>5, <1>6 DEF Discard

LEMMA HostShapeInit == HostInit => HostShape
<1> SUFFICES ASSUME HostInit PROVE HostShape
  OBVIOUS
<1>1. CallShape /\ \A c \in Callers : ~Running(c)
  BY IdleIsACall DEF HostInit, CallShape, Running
<1>2. LocksShape /\ FenceShape
  BY DEF HostInit, LocksShape, FenceShape
<1>3. PolicyShape
  BY DEF HostInit, PolicyShape, Grants
<1>4. PreviewsShape
  <2>1. <<>> \in Seq(PreviewRecords)
    OBVIOUS
  <2> QED  BY <2>1 DEF HostInit, PreviewsShape
<1> QED  BY <1>1, <1>2, <1>3, <1>4 DEF HostInit, HostShape, InProgram

\* How the calls of other hosts and the commands that run change the state: every step is one
\* of these.
HostSteps ==
    \/ Discard \/ Derive \/ ChangeElsewhere
    \/ \E c \in Callers : \E k \in DOMAIN Program : Begin(c, k)
    \/ \E c \in Callers : Running(c) /\ AtStep(c) /\ Does(c) /\ ~Ends(c)
    \/ \E c \in Callers : /\ Running(c) /\ Ends(c)
                          /\ \/ AtStep(c) /\ What(c) # "withdraw"
                             \/ call[c].at = Len(Program[call[c].command]) + 1

LEMMA HostStepsAreAll ==
    ASSUME HostShape, HostNext
    PROVE  HostSteps
<1> SUFFICES ASSUME NEW c \in Callers, Running(c), Step(c) PROVE HostSteps
  BY DEF HostNext, HostSteps
<1>1. \/ AtStep(c) /\ Does(c)
      \/ Ends(c) /\ call[c].at = Len(Program[call[c].command]) + 1
  BY StepDoes
<1>2. CASE AtStep(c) /\ Does(c) /\ Ends(c)
  <2>1. What(c) = "withdraw" => Withdraw(c)
    BY <1>2 DEF Does, Takes
  <2>2. Withdraw(c) => ~Ends(c)
    <3>1. ASSUME Withdraw(c), Ends(c) PROVE FALSE
      <4>1. Becomes(c, "none", 0, IdleCall.preview)
        BY <3>1, Stopped DEF HostShape, Ends
      <4>2. Becomes(c, call[c].command, call[c].at + 1, call[c].preview)
        BY <3>1, Gone DEF HostShape, Withdraw
      <4> QED  BY <4>1, <4>2 DEF Becomes, Running
    <3> QED  BY <3>1
  <2> QED  BY <1>2, <2>1, <2>2 DEF HostSteps
<1> QED  BY <1>1, <1>2 DEF HostSteps

LEMMA HostShapeStep == HostShape /\ [HostNext]_hostVars => HostShape'
<1> SUFFICES ASSUME HostShape, [HostNext]_hostVars PROVE HostShape'
  OBVIOUS
<1> USE DEF LocksShape, FenceShape, PolicyShape, PreviewsShape, CallShape, InProgram, Running
<1>1. CASE UNCHANGED hostVars
  BY <1>1 DEF hostVars, HostShape
<1>2. CASE Discard
  BY <1>2, DiscardingKeepsShape DEF HostShape
<1>3. CASE Derive
  BY <1>3, ChangedPolicy DEF HostShape, Derive, Grants
<1>4. CASE ChangeElsewhere
  BY <1>4, ChangedPolicy DEF HostShape, ChangeElsewhere, Grants
<1>5. CASE HostSteps
  BY <1>2, <1>3, <1>4, <1>5, BeginningKeepsShape, DoingKeepsShape, EndingKeepsShape DEF HostSteps
<1> QED  BY <1>1, <1>5, HostStepsAreAll

\* The state of the host has its shape, and every call is within the program of its command.
THEOREM HostIsWellTyped == HostSpec => []HostShape
<1>1. HostInit => HostShape
  BY HostShapeInit
<1>2. HostShape /\ [HostNext]_hostVars => HostShape'
  BY HostShapeStep
<1> QED  BY <1>1, <1>2, PTL DEF HostSpec

-----------------------------------------------------------------------------
(* Whoever has a mutex took it at an earlier step of its program, so nobody  *)
(* waits for a mutex below one that he has, and no waits form a circle.      *)

Took(c, m) ==
    /\ call[c].command \in DOMAIN Program
    /\ \E j \in 1 .. Len(Program[call[c].command]) :
          /\ j < call[c].at
          /\ Program[call[c].command][j][1] \in Takes /\ Program[call[c].command][j][2] = m
MutexesWereTaken ==
    \A c \in Callers, m \in Mutexes : locks[m] = c => Took(c, m)

LEMMA GoingOnKeepsTook ==
    ASSUME HostShape, NEW c \in Callers, AtStep(c), NEW p,
           Becomes(c, call[c].command, call[c].at + 1, p), NEW d \in Callers, NEW m, Took(d, m)
    PROVE  Took(d, m)'
<1>1. CASE d = c
  <2>1. PICK j \in 1 .. Len(Program[call[c].command]) :
           /\ j < call[c].at
           /\ Program[call[c].command][j][1] \in Takes /\ Program[call[c].command][j][2] = m
    BY <1>1 DEF Took
  <2>2. call[c].at \in Nat /\ Len(Program[call[c].command]) \in Nat
    BY ProgramsAreScripted DEF HostShape, CallShape, HostCalls, AtStep
  <2>3. j < call[c].at + 1
    BY <2>1, <2>2
  <2> QED  BY <1>1, <2>1, <2>3 DEF Took, Becomes
<1>2. CASE d # c
  BY <1>2 DEF Took, Becomes
<1> QED  BY <1>1, <1>2

\* A step that locks nothing and leaves everybody who has a mutex at work.
LEMMA OthersKeepMutexes ==
    ASSUME HostShape, MutexesWereTaken, NEW c \in Callers, NEW k, NEW i, NEW p,
           Becomes(c, k, i, p),
           \A m \in Mutexes : locks'[m] # c /\ (locks'[m] \in Callers => locks'[m] = locks[m])
    PROVE  MutexesWereTaken'
<1> SUFFICES ASSUME NEW d \in Callers, NEW m \in Mutexes, locks'[m] = d PROVE Took(d, m)'
  BY DEF MutexesWereTaken
<1>1. d # c /\ locks[m] = d
  OBVIOUS
<1> QED  BY <1>1 DEF MutexesWereTaken, Took, Becomes

LEMMA EndingKeepsTaken ==
    ASSUME HostShape, MutexesWereTaken, NEW c \in Callers, Ends(c)
    PROVE  MutexesWereTaken'
<1>1. Becomes(c, "none", 0, IdleCall.preview)
  BY Stopped DEF HostShape, Ends
<1>2. \A m \in Mutexes : locks'[m] # c /\ (locks'[m] \in Callers => locks'[m] = locks[m])
  BY HostAssumption DEF Ends
<1> QED  BY <1>1, <1>2, OthersKeepMutexes

LEMMA GoingOnKeepsTaken ==
    ASSUME HostShape, MutexesWereTaken, NEW c \in Callers, AtStep(c), NEW p,
           Becomes(c, call[c].command, call[c].at + 1, p), UNCHANGED locks
    PROVE  MutexesWereTaken'
  BY GoingOnKeepsTook DEF MutexesWereTaken

LEMMA LockingKeepsTaken ==
    ASSUME HostShape, MutexesWereTaken, NEW c \in Callers, AtStep(c), NEW m \in Mutexes,
           What(c) \in Takes, Wanted(c) = m, Lock(c, m)
    PROVE  MutexesWereTaken'
<1>1. Becomes(c, call[c].command, call[c].at + 1, call[c].preview)
  BY Gone DEF HostShape, Lock
<1> SUFFICES ASSUME NEW d \in Callers, NEW n \in Mutexes, locks'[n] = d PROVE Took(d, n)'
  BY DEF MutexesWereTaken
<1>2. CASE n = m
  <2>1. d = c
    BY <1>2 DEF Lock, HostShape, LocksShape
  <2>2. call[c].at \in Nat /\ call[c].at \in 1 .. Len(Program[call[c].command])
    BY DEF HostShape, CallShape, HostCalls, AtStep
  <2>3. call[c].at < call[c].at + 1
    BY <2>2
  <2>4. call'[c].command = call[c].command /\ call'[c].at = call[c].at + 1
    BY <1>1 DEF Becomes
  <2> QED  BY <1>2, <2>1, <2>2, <2>3, <2>4 DEF Took, What, Wanted, AtStep
<1>3. CASE n # m
  <2>1. locks[n] = d
    BY <1>3 DEF Lock, HostShape, LocksShape
  <2> QED  BY <1>1, <2>1, GoingOnKeepsTook DEF MutexesWereTaken
<1> QED  BY <1>2, <1>3

\* A preview is taken before anything else, so what its command has not locked it need not let go.
LEMMA NothingIsTakenAtFirst ==
    ASSUME HostShape, MutexesWereTaken, NEW c \in Callers, AtStep(c), What(c) = "take"
    PROVE  /\ call[c].command \in {"confirm_revocation", "confirm_exclusion"} /\ call[c].at = 1
           /\ \A m \in Mutexes : locks[m] # c
<1>1. call[c].command \in {"confirm_revocation", "confirm_exclusion"} /\ call[c].at = 1
  BY DEF AtStep, Scripted, What
<1>2. ASSUME NEW m \in Mutexes, locks[m] = c PROVE FALSE
  <2>1. PICK j \in 1 .. Len(Program[call[c].command]) : j < 1
    BY <1>1, <1>2 DEF MutexesWereTaken, Took
  <2> QED  BY <2>1
<1> QED  BY <1>1, <1>2

LEMMA DoingKeepsTaken ==
    ASSUME HostShape, MutexesWereTaken, NEW c \in Callers, AtStep(c), Does(c), ~Ends(c)
    PROVE  MutexesWereTaken'
<1>1. ASSUME NEW m \in Mutexes, What(c) \in Takes, Wanted(c) = m, Lock(c, m)
      PROVE  MutexesWereTaken'
  BY <1>1, LockingKeepsTaken
<1>2. CASE Admit(c) \/ Share(c) \/ Exclude(c) \/ Authorize(c) \/ Refresh(c)
  <2>1. CommandGoes(c) /\ UNCHANGED locks
    BY <1>2 DEF Admit, Share, Exclude, Authorize, Refresh
  <2> QED  BY <2>1, Gone, GoingOnKeepsTaken DEF HostShape
<1>3. CASE LookAtImpact(c) \/ Revoke(c) \/ Apply(c)
  <2>1. PICK p \in PreviewRecords : Carries(c, p)
    BY <1>3, InHandIsAPreview, NothingIsAPreview DEF LookAtImpact, Revoke, Apply
  <2>2. UNCHANGED locks
    BY <1>3 DEF LookAtImpact, Revoke, Apply
  <2> QED  BY <2>1, <2>2, Carried, GoingOnKeepsTaken DEF HostShape
<1>4. CASE Insert(c)
  BY <1>4, InsertingKeepsShape, GoingOnKeepsTaken DEF Insert
<1>5. CASE What(c) = "take" /\ Take(c)
  <2>1. UNCHANGED locks
    BY <1>5, TakingKeepsShape
  <2>2. \A m \in Mutexes : locks[m] # c
    BY <1>5, NothingIsTakenAtFirst
  <2>3. CASE \E p : Becomes(c, call[c].command, call[c].at + 1, p)
    BY <2>1, <2>3, GoingOnKeepsTaken
  <2>4. CASE Becomes(c, "none", 0, IdleCall.preview)
    BY <2>1, <2>2, <2>4, OthersKeepMutexes
  <2> QED  BY <1>5, <2>3, <2>4, TakingKeepsShape
<1>6. CASE Withdraw(c)
  <2>1. Becomes(c, call[c].command, call[c].at + 1, call[c].preview)
    BY <1>6, Gone DEF HostShape, Withdraw
  <2>2. \A m \in Mutexes : locks'[m] = NoCaller
    BY <1>6 DEF Withdraw
  <2> QED  BY <2>1, <2>2, OthersKeepMutexes, HostAssumption
<1> QED  BY <1>1, <1>2, <1>3, <1>4, <1>5, <1>6 DEF Does

LEMMA TakenStep == HostShape /\ MutexesWereTaken /\ [HostNext]_hostVars => MutexesWereTaken'
<1> SUFFICES ASSUME HostShape, MutexesWereTaken, [HostNext]_hostVars PROVE MutexesWereTaken'
  OBVIOUS
<1>1. CASE UNCHANGED <<locks, call>>
  BY <1>1 DEF MutexesWereTaken, Took
<1>2. ASSUME NEW c \in Callers, NEW k \in DOMAIN Program, Begin(c, k)
      PROVE  MutexesWereTaken'
  <2>1. Becomes(c, k, 1, Nothing) /\ UNCHANGED locks
    BY <1>2, BeginningKeepsShape DEF Begin
  <2>2. \A m \in Mutexes : locks[m] # c
    BY <1>2, NobodyIsACommand DEF Begin, Running, MutexesWereTaken, Took
  <2> QED  BY <2>1, <2>2, OthersKeepMutexes
<1>3. CASE HostSteps
  BY <1>1, <1>2, <1>3, DoingKeepsTaken, EndingKeepsTaken
  DEF HostSteps, Discard, Derive, ChangeElsewhere
<1> QED  BY <1>1, <1>3, HostStepsAreAll DEF hostVars

\* Who waits has only mutexes below the one that he waits for.
LEMMA WaitsRise ==
    ASSUME HostShape, MutexesWereTaken, NEW c \in Callers, NEW d \in Callers, NEW e \in Callers,
           WaitsFor(c, d), WaitsFor(d, e)
    PROVE  NextOf(c)[2] \in Mutexes /\ <<NextOf(c)[2], NextOf(d)[2]>> \in Below
<1>1. ASSUME NEW a \in Callers, Running(a), NextOf(a)[2] # ""
      PROVE  AtStep(a) /\ NextOf(a)[1] = What(a) /\ NextOf(a)[2] = Wanted(a) /\ Wanted(a) \in Mutexes
  <2>1. call[a].at <= Len(Program[call[a].command])
    BY <1>1 DEF NextOf
  <2>2. AtStep(a) /\ NextOf(a)[1] = What(a) /\ NextOf(a)[2] = Wanted(a)
    BY <1>1, <2>1, CallIsAtStep DEF NextOf, What, Wanted
  <2> QED  BY <1>1, <2>2 DEF AtStep, Scripted, Wanted
<1>2. Wanted(c) \in Mutexes /\ NextOf(c)[2] = Wanted(c) /\ locks[Wanted(c)] = d
  BY <1>1 DEF WaitsFor
<1>3. AtStep(d) /\ What(d) # "try" /\ Wanted(d) # "" /\ NextOf(d)[2] = Wanted(d)
  BY <1>1 DEF WaitsFor
<1>4. Took(d, Wanted(c))
  BY <1>2 DEF MutexesWereTaken
<1>5. PICK P : P = Program[call[d].command]
  OBVIOUS
<1>6. RanksRise(P)
  BY <1>3, <1>5, MutexesAreOrdered DEF AtStep
<1>7. PICK j \in 1 .. Len(P) : j < call[d].at /\ P[j][1] \in Takes /\ P[j][2] = Wanted(c)
  BY <1>4, <1>5 DEF Took
<1>8. Rising(P, call[d].at, j)
  BY <1>3, <1>5, <1>6, <1>7 DEF RanksRise, AtStep
<1> QED  BY <1>2, <1>3, <1>5, <1>7, <1>8 DEF Rising, What, Wanted

LEMMA NoCircle ==
    ASSUME HostShape, MutexesWereTaken
    PROVE  NobodyWaitsInACircle
<1> SUFFICES ASSUME NEW S \in (SUBSET Callers) \ {{}}, \A c \in S : \E d \in S : WaitsFor(c, d)
             PROVE  FALSE
  BY DEF NobodyWaitsInACircle
<1> DEFINE Awaits(c) == NextOf(c)[2]
<1>1. \A c \in S : \E d \in S : /\ Awaits(c) \in Mutexes
                                /\ <<Awaits(c), Awaits(d)>> \in Below
  BY WaitsRise
<1> HIDE DEF Awaits
<1>2. \A c \in S : Awaits(c) # "accesses"
  BY <1>1 DEF Below
<1>3. \A c \in S : Awaits(c) # "database"
  BY <1>1, <1>2 DEF Below
<1>4. \A c \in S : Awaits(c) # "path"
  BY <1>1, <1>2, <1>3 DEF Below
<1> QED  BY <1>1, <1>2, <1>3, <1>4 DEF Mutexes

\* However many commands the host runs, they never wait for each other in a circle.
THEOREM NoDeadlockOfMutexes == HostSpec => []NobodyWaitsInACircle
<1>1. HostInit => MutexesWereTaken
  BY HostAssumption DEF HostInit, MutexesWereTaken
<1>2. HostShape /\ MutexesWereTaken /\ [HostNext]_hostVars => MutexesWereTaken'
  BY TakenStep
<1>3. HostShape /\ MutexesWereTaken => NobodyWaitsInACircle
  BY NoCircle
<1> QED  BY <1>1, <1>2, <1>3, HostIsWellTyped, PTL DEF HostSpec

-----------------------------------------------------------------------------
(* A folder that was revoked stays out of reach.  Where a command is says    *)
(* which of the database's gate and of the fence it has; while a revocation  *)
(* has committed and not yet withdrawn the capability, its command has the   *)
(* gate.                                                                     *)

At(c, k, s) == call[c].command = k /\ call[c].at \in s

InDatabase(c) ==
    At(c, "preview_revocation", {2, 3}) \/ At(c, "preview_exclusion", {3, 4})
      \/ At(c, "confirm_revocation", {4, 5, 6, 7})
Changing(c) == At(c, "confirm_revocation", {6, 7}) \/ At(c, "confirm_exclusion", {7})
Inserting(c) == At(c, "preview_revocation", {3}) \/ At(c, "preview_exclusion", {4})
Withdrawing(c) == At(c, "confirm_revocation", {7})

PlaceOf(c) ==
    /\ InDatabase(c) => locks["database"] = c
    /\ Changing(c) => fence.alone = c
    /\ At(c, "restore", {2}) => c \in fence.shared
    /\ Inserting(c) => withdrawn # "here"
PlacesHold == \A c \in Callers : PlaceOf(c)
FenceExcludes == fence.alone # NoCaller => fence.shared = {}
\* After the commit nobody reads; the capability and the previews are gone once the command is.
OutOfReach ==
    /\ withdrawn # "no" => policy.grant # "active" /\ fence.shared = {}
    /\ withdrawn = "here" /\ (\A c \in Callers : ~Withdrawing(c)) =>
          access = FALSE /\ \A kind \in Registries : previews[kind] = <<>>
ReachInv == PlacesHold /\ FenceExcludes /\ OutOfReach

LEMMA ReachInvInit == HostInit => ReachInv
  BY IdleIsACall
  DEF HostInit, ReachInv, PlacesHold, PlaceOf, FenceExcludes, OutOfReach, InDatabase, Changing,
      Inserting, At

\* What the program of c says at its place, for the commands that matter here.
LEMMA ScriptAt ==
    ASSUME NEW c \in Callers, AtStep(c)
    PROVE  LET k == call[c].command
               i == call[c].at
           IN /\ k = "preview_revocation" =>
                    \/ i = 1 /\ What(c) = "lock" /\ Wanted(c) = "database"
                    \/ i = 2 /\ What(c) = "look"
                    \/ i = 3 /\ What(c) = "insert"
              /\ k = "preview_exclusion" =>
                    \/ i = 1 /\ What(c) = "admit"
                    \/ i = 2 /\ What(c) = "lock" /\ Wanted(c) = "database"
                    \/ i = 3 /\ What(c) = "look"
                    \/ i = 4 /\ What(c) = "insert"
              /\ k = "confirm_revocation" =>
                    \/ i = 1 /\ What(c) = "take"
                    \/ i \in {2, 4} /\ What(c) = "lock"
                    \/ i = 3 /\ What(c) = "lock" /\ Wanted(c) = "database"
                    \/ i = 5 /\ What(c) = "exclude"
                    \/ i = 6 /\ What(c) = "revoke"
                    \/ i = 7 /\ What(c) = "withdraw"
              /\ k = "confirm_exclusion" =>
                    \/ i = 1 /\ What(c) = "take"
                    \/ i \in {2, 5} /\ What(c) = "admit"
                    \/ i \in {3, 4} /\ What(c) = "lock"
                    \/ i = 6 /\ What(c) = "exclude"
                    \/ i = 7 /\ What(c) = "apply"
              /\ k = "restore" => \/ i = 1 /\ What(c) = "share"
                                  \/ i = 2 /\ What(c) = "refresh"
              /\ k \notin {"preview_revocation", "preview_exclusion", "confirm_revocation",
                           "confirm_exclusion", "restore"} =>
                    What(c) \notin {"look", "insert", "take", "exclude", "revoke", "apply",
                                    "withdraw", "refresh"}
  BY DEF AtStep, Scripted, What, Wanted

\* What a step that goes on makes of the places of its call.
LEMMA PlacesAfter ==
    ASSUME HostShape, NEW c \in Callers, AtStep(c), NEW p,
           Becomes(c, call[c].command, call[c].at + 1, p)
    PROVE  /\ InDatabase(c)' => \/ InDatabase(c) /\ What(c) \in {"look", "lock", "exclude", "revoke"}
                                \/ What(c) = "lock" /\ Wanted(c) = "database"
           /\ Changing(c)' => \/ What(c) = "exclude"
                              \/ What(c) = "revoke" /\ Changing(c)
           /\ At(c, "restore", {2})' => What(c) = "share"
           /\ Inserting(c)' => What(c) = "look"
           /\ Withdrawing(c)' => What(c) = "revoke"
           /\ Withdrawing(c) <=> What(c) = "withdraw"
           /\ What(c) = "insert" <=> Inserting(c)
           /\ What(c) = "insert" => InDatabase(c)
           /\ What(c) = "refresh" <=> At(c, "restore", {2})
           /\ What(c) = "revoke" <=> At(c, "confirm_revocation", {6})
           /\ What(c) = "look" => InDatabase(c)
           /\ Withdrawing(c) \/ What(c) = "revoke" => InDatabase(c) /\ Changing(c)
           /\ \A d \in Callers \ {c} :
                 /\ (InDatabase(d)' <=> InDatabase(d)) /\ (Changing(d)' <=> Changing(d))
                 /\ (At(d, "restore", {2})' <=> At(d, "restore", {2}))
                 /\ (Inserting(d)' <=> Inserting(d)) /\ (Withdrawing(d)' <=> Withdrawing(d))
<1>1. PICK k, i, w, m : k = call[c].command /\ i = call[c].at /\ w = What(c) /\ m = Wanted(c)
  OBVIOUS
<1>2. i \in Nat /\ call'[c].command = k /\ call'[c].at = i + 1
  BY <1>1 DEF HostShape, CallShape, HostCalls, Becomes
<1>3. \A d \in Callers \ {c} :
         /\ (InDatabase(d)' <=> InDatabase(d)) /\ (Changing(d)' <=> Changing(d))
         /\ (At(d, "restore", {2})' <=> At(d, "restore", {2}))
         /\ (Inserting(d)' <=> Inserting(d)) /\ (Withdrawing(d)' <=> Withdrawing(d))
  BY DEF Becomes, InDatabase, Changing, Inserting, Withdrawing, At
<1>4. /\ k = "preview_revocation" => \/ i = 1 /\ w = "lock" /\ m = "database"
                                     \/ i = 2 /\ w = "look"
                                     \/ i = 3 /\ w = "insert"
      /\ k = "preview_exclusion" => \/ i = 1 /\ w = "admit"
                                    \/ i = 2 /\ w = "lock" /\ m = "database"
                                    \/ i = 3 /\ w = "look"
                                    \/ i = 4 /\ w = "insert"
      /\ k = "confirm_revocation" => \/ i = 1 /\ w = "take"
                                     \/ i \in {2, 4} /\ w = "lock"
                                     \/ i = 3 /\ w = "lock" /\ m = "database"
                                     \/ i = 5 /\ w = "exclude"
                                     \/ i = 6 /\ w = "revoke"
                                     \/ i = 7 /\ w = "withdraw"
      /\ k = "confirm_exclusion" => \/ i = 1 /\ w = "take"
                                    \/ i \in {2, 5} /\ w = "admit"
                                    \/ i \in {3, 4} /\ w = "lock"
                                    \/ i = 6 /\ w = "exclude"
                                    \/ i = 7 /\ w = "apply"
      /\ k = "restore" => \/ i = 1 /\ w = "share"
                          \/ i = 2 /\ w = "refresh"
      /\ k \notin {"preview_revocation", "preview_exclusion", "confirm_revocation",
                   "confirm_exclusion", "restore"} =>
            w \notin {"look", "insert", "take", "exclude", "revoke", "apply", "withdraw",
                      "refresh"}
  BY <1>1, ScriptAt
<1>5. /\ InDatabase(c)' => \/ InDatabase(c) /\ w \in {"look", "lock", "exclude", "revoke"}
                           \/ w = "lock" /\ m = "database"
      /\ Changing(c)' => \/ w = "exclude"
                         \/ w = "revoke" /\ Changing(c)
  BY <1>1, <1>2, <1>4 DEF InDatabase, Changing, At
<1>6. /\ At(c, "restore", {2})' => w = "share"
      /\ Inserting(c)' => w = "look"
      /\ Withdrawing(c)' => w = "revoke"
  BY <1>1, <1>2, <1>4 DEF Inserting, Withdrawing, At
<1>7. /\ Withdrawing(c) <=> w = "withdraw"
      /\ w = "insert" <=> Inserting(c)
      /\ w = "refresh" <=> At(c, "restore", {2})
      /\ w = "revoke" <=> At(c, "confirm_revocation", {6})
  BY <1>1, <1>4 DEF Inserting, Withdrawing, At
<1>8. /\ w = "look" \/ w = "insert" => InDatabase(c)
      /\ Withdrawing(c) \/ w = "revoke" => InDatabase(c) /\ Changing(c)
  BY <1>1, <1>4 DEF InDatabase, Changing, Withdrawing, At
<1> QED  BY <1>1, <1>3, <1>5, <1>6, <1>7, <1>8

\* A call that stops, or starts, is at no place.
LEMMA NoPlaceAfter ==
    ASSUME HostShape, NEW c \in Callers, NEW k, NEW i, NEW p, Becomes(c, k, i, p),
           k = "none" \/ i = 1
    PROVE  /\ ~InDatabase(c)' /\ ~Changing(c)' /\ ~At(c, "restore", {2})' /\ ~Inserting(c)'
           /\ ~Withdrawing(c)'
           /\ \A d \in Callers \ {c} :
                 /\ (InDatabase(d)' <=> InDatabase(d)) /\ (Changing(d)' <=> Changing(d))
                 /\ (At(d, "restore", {2})' <=> At(d, "restore", {2}))
                 /\ (Inserting(d)' <=> Inserting(d)) /\ (Withdrawing(d)' <=> Withdrawing(d))
<1>1. \A d \in Callers \ {c} :
         /\ (InDatabase(d)' <=> InDatabase(d)) /\ (Changing(d)' <=> Changing(d))
         /\ (At(d, "restore", {2})' <=> At(d, "restore", {2}))
         /\ (Inserting(d)' <=> Inserting(d)) /\ (Withdrawing(d)' <=> Withdrawing(d))
  BY DEF Becomes, InDatabase, Changing, Inserting, Withdrawing, At
<1> QED  BY <1>1 DEF Becomes, InDatabase, Changing, Inserting, Withdrawing, At

LEMMA EndingKeepsReach ==
    ASSUME HostShape, ReachInv, NEW c \in Callers, Ends(c), ~Withdrawing(c)
    PROVE  ReachInv'
<1>1. Becomes(c, "none", 0, IdleCall.preview)
  BY Stopped DEF HostShape, Ends
<1>2. /\ ~InDatabase(c)' /\ ~Changing(c)' /\ ~At(c, "restore", {2})' /\ ~Inserting(c)'
      /\ ~Withdrawing(c)'
      /\ \A d \in Callers \ {c} :
            /\ (InDatabase(d)' <=> InDatabase(d)) /\ (Changing(d)' <=> Changing(d))
            /\ (At(d, "restore", {2})' <=> At(d, "restore", {2}))
            /\ (Inserting(d)' <=> Inserting(d)) /\ (Withdrawing(d)' <=> Withdrawing(d))
  BY <1>1, NoPlaceAfter
<1>3. ASSUME NEW d \in Callers PROVE PlaceOf(d)'
  <2>1. d # c => PlaceOf(d)
    BY DEF ReachInv, PlacesHold
  <2>2. d # c => /\ locks["database"] = d => locks'["database"] = d
                 /\ fence.alone = d => fence'.alone = d
                 /\ d \in fence.shared => d \in fence'.shared
    BY DEF Ends, Mutexes
  <2> QED  BY <1>2, <2>1, <2>2 DEF PlaceOf, Ends
<1>4. FenceExcludes'
  BY DEF ReachInv, FenceExcludes, Ends
<1>5. OutOfReach'
  <2>1. fence'.shared \subseteq fence.shared
    BY DEF Ends
  <2> QED  BY <1>2, <2>1 DEF ReachInv, OutOfReach, Ends
<1> QED  BY <1>3, <1>4, <1>5 DEF ReachInv, PlacesHold

LEMMA DoingKeepsReach ==
    ASSUME HostShape, ReachInv, NEW c \in Callers, AtStep(c), Does(c), ~Ends(c)
    PROVE  ReachInv'
\* Facts that every step that goes on shares.
<1>0. ASSUME NEW p, Becomes(c, call[c].command, call[c].at + 1, p),
             What(c) \notin {"lock", "exclude", "revoke", "share", "look", "withdraw"},
             UNCHANGED <<locks, fence>>,
             policy'.grant = policy.grant, access' = access, withdrawn' = withdrawn,
             \A kind \in Registries : previews[kind] = <<>> => previews'[kind] = <<>>
      PROVE  ReachInv'
  <2>1. ASSUME NEW d \in Callers PROVE PlaceOf(d)'
    BY <1>0, PlacesAfter DEF ReachInv, PlacesHold, PlaceOf
  <2>2. \A d \in Callers : Withdrawing(d)' <=> Withdrawing(d)
    BY <1>0, PlacesAfter
  <2>3. FenceExcludes' /\ OutOfReach'
    BY <1>0, <2>2 DEF ReachInv, FenceExcludes, OutOfReach
  <2> QED  BY <2>1, <2>3 DEF ReachInv, PlacesHold
<1>1. ASSUME NEW m \in Mutexes, What(c) \in Takes, Wanted(c) = m, locks[m] = NoCaller, Lock(c, m)
      PROVE  ReachInv'
  <2>1. Becomes(c, call[c].command, call[c].at + 1, call[c].preview)
    BY <1>1, Gone DEF HostShape, Lock
  <2>2. What(c) = "lock" \/ What(c) = "try"
    BY <1>1 DEF Takes
  <2>3. /\ UNCHANGED <<fence, policy, access, previews, withdrawn>>
        /\ \A n \in Mutexes : locks'[n] = IF n = m THEN c ELSE locks[n]
    BY <1>1 DEF Lock, HostShape, LocksShape
  <2>4. ASSUME NEW d \in Callers PROVE PlaceOf(d)'
    <3>1. PlaceOf(d) /\ d # NoCaller
      BY HostAssumption DEF ReachInv, PlacesHold
    <3>2. InDatabase(d)' => locks'["database"] = d
      BY <1>1, <2>1, <2>2, <2>3, <3>1, PlacesAfter DEF PlaceOf, Mutexes
    <3>3. Changing(d)' => fence'.alone = d
      BY <2>1, <2>2, <2>3, <3>1, PlacesAfter DEF PlaceOf
    <3>4. /\ At(d, "restore", {2})' => d \in fence'.shared
          /\ Inserting(d)' => withdrawn' # "here"
      BY <2>1, <2>2, <2>3, <3>1, PlacesAfter DEF PlaceOf
    <3> QED  BY <3>2, <3>3, <3>4 DEF PlaceOf
  <2>5. \A d \in Callers : Withdrawing(d)' <=> Withdrawing(d)
    BY <2>1, <2>2, PlacesAfter
  <2>6. FenceExcludes' /\ OutOfReach'
    BY <2>3, <2>5 DEF ReachInv, FenceExcludes, OutOfReach
  <2> QED  BY <2>4, <2>6 DEF ReachInv, PlacesHold
<1>2. CASE What(c) = "admit" /\ Admit(c)
  <2>1. Becomes(c, call[c].command, call[c].at + 1, call[c].preview)
    BY <1>2, Gone DEF HostShape, Admit
  <2> QED  BY <1>0, <1>2, <2>1 DEF Admit
<1>3. CASE What(c) = "look" /\ LookAtImpact(c)
  <2>1. PICK p : Becomes(c, call[c].command, call[c].at + 1, p)
    BY <1>3, Carried, InHandIsAPreview DEF HostShape, LookAtImpact
  <2>2. Granted /\ UNCHANGED <<locks, fence, policy, access, previews, withdrawn>>
    BY <1>3 DEF LookAtImpact
  <2>3. withdrawn = "no"
    BY <2>2 DEF ReachInv, OutOfReach, Granted
  <2>4. ASSUME NEW d \in Callers PROVE PlaceOf(d)'
    BY <1>3, <2>1, <2>2, <2>3, PlacesAfter DEF ReachInv, PlacesHold, PlaceOf
  <2>5. FenceExcludes' /\ OutOfReach'
    BY <2>2, <2>3 DEF ReachInv, FenceExcludes, OutOfReach
  <2> QED  BY <2>4, <2>5 DEF ReachInv, PlacesHold
<1>4. CASE What(c) = "insert" /\ Insert(c)
  <2>1. Becomes(c, call[c].command, call[c].at + 1, Nothing)
    BY <1>4, InsertingKeepsShape
  <2>2. UNCHANGED <<locks, fence, policy, access, withdrawn>>
    BY <1>4 DEF Insert
  <2>3. withdrawn # "here"
    BY <1>4, <2>1, PlacesAfter DEF ReachInv, PlacesHold, PlaceOf
  <2>4. ASSUME NEW d \in Callers PROVE PlaceOf(d)'
    BY <1>4, <2>1, <2>2, PlacesAfter DEF ReachInv, PlacesHold, PlaceOf
  <2>5. FenceExcludes' /\ OutOfReach'
    BY <2>2, <2>3 DEF ReachInv, FenceExcludes, OutOfReach
  <2> QED  BY <2>4, <2>5 DEF ReachInv, PlacesHold
<1>5. CASE What(c) = "take" /\ Take(c)
  <2>1. /\ UNCHANGED <<locks, fence, policy, access, made, withdrawn, applied>>
        /\ \A kind \in Registries : previews[kind] = <<>> => previews'[kind] = <<>>
        /\ \E p : \/ Becomes(c, call[c].command, call[c].at + 1, p)
                  \/ Becomes(c, "none", 0, p)
    <3>1. PICK i \in 1 .. Len(previews[RegistryOf(c)]) :
             /\ previews' = [previews EXCEPT ![RegistryOf(c)] = RemoveAt(previews[RegistryOf(c)], i)]
             /\ \/ Becomes(c, call[c].command, call[c].at + 1, previews[RegistryOf(c)][i])
                \/ Becomes(c, "none", 0, IdleCall.preview)
      BY <1>5, TakingKeepsShape
    <3>2. previews[RegistryOf(c)] # <<>>
      BY <3>1
    <3>3. \A kind \in Registries : previews[kind] = <<>> => previews'[kind] = <<>>
      BY <3>1, <3>2 DEF HostShape, PreviewsShape
    <3> QED  BY <1>5, <3>1, <3>3, TakingKeepsShape
  <2>2. ASSUME NEW p, Becomes(c, call[c].command, call[c].at + 1, p)
        PROVE  ReachInv'
    BY <1>0, <1>5, <2>1, <2>2
  <2>3. ASSUME NEW p, Becomes(c, "none", 0, p)
        PROVE  ReachInv'
    <3>1. ~Withdrawing(c)
      BY <1>5, ScriptAt DEF Withdrawing, At
    <3>2. ASSUME NEW d \in Callers PROVE PlaceOf(d)'
      BY <2>1, <2>3, NoPlaceAfter DEF ReachInv, PlacesHold, PlaceOf
    <3>3. \A d \in Callers : Withdrawing(d)' <=> Withdrawing(d)
      BY <2>3, <3>1, NoPlaceAfter
    <3>4. FenceExcludes' /\ OutOfReach'
      BY <2>1, <3>3 DEF ReachInv, FenceExcludes, OutOfReach
    <3> QED  BY <3>2, <3>4 DEF ReachInv, PlacesHold
  <2> QED  BY <2>1, <2>2, <2>3
<1>6. CASE What(c) = "share" /\ Share(c)
  <2>1. Becomes(c, call[c].command, call[c].at + 1, call[c].preview)
    BY <1>6, Gone DEF HostShape, Share
  <2>2. /\ Granted /\ fence.alone = NoCaller
        /\ fence' = [fence EXCEPT !.shared = @ \cup {c}]
        /\ UNCHANGED <<locks, policy, access, previews, withdrawn>>
    BY <1>6 DEF Share
  <2>3. fence'.alone = NoCaller /\ fence'.shared = fence.shared \cup {c}
    BY <2>2 DEF HostShape, FenceShape
  <2>4. withdrawn = "no"
    BY <2>2 DEF ReachInv, OutOfReach, Granted
  <2>5. ASSUME NEW d \in Callers PROVE PlaceOf(d)'
    <3>1. PlaceOf(d)
      BY DEF ReachInv, PlacesHold
    <3>2. InDatabase(d)' => locks'["database"] = d
      BY <1>6, <2>1, <2>2, <3>1, PlacesAfter DEF PlaceOf
    <3>3. Changing(d)' => fence'.alone = d
      BY <1>6, <2>1, <2>2, <2>3, <3>1, PlacesAfter DEF PlaceOf
    <3>4. /\ At(d, "restore", {2})' => d \in fence'.shared
          /\ Inserting(d)' => withdrawn' # "here"
      BY <1>6, <2>1, <2>2, <2>3, <2>4, <3>1, PlacesAfter DEF PlaceOf
    <3> QED  BY <3>2, <3>3, <3>4 DEF PlaceOf
  <2>6. FenceExcludes' /\ OutOfReach'
    BY <2>2, <2>3, <2>4 DEF ReachInv, FenceExcludes, OutOfReach
  <2> QED  BY <2>5, <2>6 DEF ReachInv, PlacesHold
<1>7. CASE What(c) = "exclude" /\ Exclude(c)
  <2>1. Becomes(c, call[c].command, call[c].at + 1, call[c].preview)
    BY <1>7, Gone DEF HostShape, Exclude
  <2>2. /\ fence.shared = {} /\ fence.alone = NoCaller
        /\ fence' = [fence EXCEPT !.alone = c]
        /\ UNCHANGED <<locks, policy, access, previews, withdrawn>>
    BY <1>7 DEF Exclude, Drained
  <2>3. fence'.alone = c /\ fence'.shared = {}
    BY <2>2 DEF HostShape, FenceShape
  <2>4. ASSUME NEW d \in Callers PROVE PlaceOf(d)'
    <3>1. PlaceOf(d) /\ d # NoCaller
      BY HostAssumption DEF ReachInv, PlacesHold
    <3>2. InDatabase(d)' => locks'["database"] = d
      BY <1>7, <2>1, <2>2, <3>1, PlacesAfter DEF PlaceOf
    <3>3. Changing(d)' => fence'.alone = d
      BY <1>7, <2>1, <2>2, <2>3, <3>1, PlacesAfter DEF PlaceOf
    <3>4. /\ At(d, "restore", {2})' => d \in fence'.shared
          /\ Inserting(d)' => withdrawn' # "here"
      BY <1>7, <2>1, <2>2, <2>3, <3>1, PlacesAfter DEF PlaceOf
    <3> QED  BY <3>2, <3>3, <3>4 DEF PlaceOf
  <2>5. \A d \in Callers : Withdrawing(d)' <=> Withdrawing(d)
    BY <1>7, <2>1, PlacesAfter
  <2>6. FenceExcludes' /\ OutOfReach'
    BY <2>2, <2>3, <2>5 DEF ReachInv, FenceExcludes, OutOfReach
  <2> QED  BY <2>4, <2>6 DEF ReachInv, PlacesHold
<1>8. CASE What(c) = "revoke" /\ Revoke(c)
  <2>1. Becomes(c, call[c].command, call[c].at + 1, Nothing)
    BY <1>8, Carried, NothingIsAPreview DEF HostShape, Revoke
  <2>2. /\ policy' = [policy EXCEPT !.revision = @ + 1, !.grant = "revoked"]
        /\ withdrawn' = "here" /\ UNCHANGED <<locks, fence, access, previews>>
    BY <1>8 DEF Revoke
  <2>3. policy'.grant = "revoked"
    BY <2>2, ChangedPolicy DEF Grants
  <2>4. InDatabase(c) /\ Changing(c) /\ locks["database"] = c /\ fence.alone = c /\ fence.shared = {}
    BY <1>8, <2>1, PlacesAfter, HostAssumption DEF ReachInv, PlacesHold, PlaceOf, FenceExcludes
  <2>5. Withdrawing(c)'
    <3>1. At(c, "confirm_revocation", {6})
      BY <1>8, <2>1, PlacesAfter
    <3> QED  BY <2>1, <3>1 DEF Becomes, Withdrawing, At
  <2>6. \A d \in Callers \ {c} : ~InDatabase(d)
    BY <2>4 DEF ReachInv, PlacesHold, PlaceOf
  <2>7. ASSUME NEW d \in Callers PROVE PlaceOf(d)'
    <3>1. PlaceOf(d)
      BY DEF ReachInv, PlacesHold
    <3>2. InDatabase(d)' => locks'["database"] = d
      BY <1>8, <2>1, <2>2, <2>4, <3>1, PlacesAfter DEF PlaceOf
    <3>3. Changing(d)' => fence'.alone = d
      BY <1>8, <2>1, <2>2, <2>4, <3>1, PlacesAfter DEF PlaceOf
    <3>4. At(d, "restore", {2})' => d \in fence'.shared
      BY <1>8, <2>1, <2>2, <3>1, PlacesAfter DEF PlaceOf
    <3>5. ~Inserting(d)'
      <4>1. Inserting(d)' => InDatabase(d)'
        BY DEF Inserting, InDatabase, At
      <4> QED  BY <1>8, <2>1, <2>6, <4>1, PlacesAfter
    <3> QED  BY <3>2, <3>3, <3>4, <3>5 DEF PlaceOf
  <2>8. FenceExcludes' /\ OutOfReach'
    BY <2>2, <2>3, <2>4, <2>5 DEF ReachInv, FenceExcludes, OutOfReach
  <2> QED  BY <2>7, <2>8 DEF ReachInv, PlacesHold
<1>9. CASE What(c) = "apply" /\ Apply(c)
  <2>1. Becomes(c, call[c].command, call[c].at + 1, Nothing)
    BY <1>9, Carried, NothingIsAPreview DEF HostShape, Apply
  <2>2. policy'.grant = policy.grant
    BY <1>9, ChangedPolicy DEF Apply, Grants
  <2> QED  BY <1>0, <1>9, <2>1, <2>2 DEF Apply
<1>10. CASE What(c) = "withdraw" /\ Withdraw(c)
  <2>1. Becomes(c, call[c].command, call[c].at + 1, call[c].preview)
    BY <1>10, Gone DEF HostShape, Withdraw
  <2>2. /\ access' = FALSE /\ \A kind \in Registries : previews'[kind] = <<>>
        /\ UNCHANGED <<fence, policy, withdrawn>>
    BY <1>10 DEF Withdraw, HostShape, PreviewsShape
  <2>3. Withdrawing(c) /\ InDatabase(c) /\ locks["database"] = c
    BY <1>10, <2>1, PlacesAfter DEF ReachInv, PlacesHold, PlaceOf
  <2>4. \A d \in Callers : ~InDatabase(d)'
    BY <1>10, <2>1, <2>3, PlacesAfter DEF ReachInv, PlacesHold, PlaceOf
  <2>5. ASSUME NEW d \in Callers PROVE PlaceOf(d)'
    BY <1>10, <2>1, <2>2, <2>4, PlacesAfter DEF ReachInv, PlacesHold, PlaceOf
  <2>6. FenceExcludes' /\ OutOfReach'
    BY <2>2 DEF ReachInv, FenceExcludes, OutOfReach
  <2> QED  BY <2>5, <2>6 DEF ReachInv, PlacesHold
<1>11. CASE What(c) = "authorize" /\ Authorize(c)
  <2>1. Becomes(c, call[c].command, call[c].at + 1, call[c].preview)
    BY <1>11, Gone DEF HostShape, Authorize
  <2>2. withdrawn' = "no" /\ UNCHANGED <<locks, fence>>
    BY <1>11 DEF Authorize
  <2>3. ASSUME NEW d \in Callers PROVE PlaceOf(d)'
    BY <1>11, <2>1, <2>2, PlacesAfter DEF ReachInv, PlacesHold, PlaceOf
  <2>4. FenceExcludes' /\ OutOfReach'
    BY <2>2 DEF ReachInv, FenceExcludes, OutOfReach
  <2> QED  BY <2>3, <2>4 DEF ReachInv, PlacesHold
<1>12. CASE What(c) = "refresh" /\ Refresh(c)
  <2>1. Becomes(c, call[c].command, call[c].at + 1, call[c].preview)
    BY <1>12, Gone DEF HostShape, Refresh
  <2>2. UNCHANGED <<locks, fence, access, previews, withdrawn>>
    BY <1>12 DEF Refresh
  <2>3. withdrawn = "no"
    BY <1>12, <2>1, PlacesAfter DEF ReachInv, PlacesHold, PlaceOf, OutOfReach
  <2>4. ASSUME NEW d \in Callers PROVE PlaceOf(d)'
    BY <1>12, <2>1, <2>2, PlacesAfter DEF ReachInv, PlacesHold, PlaceOf
  <2>5. FenceExcludes' /\ OutOfReach'
    BY <2>2, <2>3 DEF ReachInv, FenceExcludes, OutOfReach
  <2> QED  BY <2>4, <2>5 DEF ReachInv, PlacesHold
<1> QED
  BY <1>1, <1>2, <1>3, <1>4, <1>5, <1>6, <1>7, <1>8, <1>9, <1>10, <1>11, <1>12 DEF Does

LEMMA ReachStep == HostShape /\ ReachInv /\ [HostNext]_hostVars => ReachInv'
<1> SUFFICES ASSUME HostShape, ReachInv, [HostNext]_hostVars PROVE ReachInv'
  OBVIOUS
<1>0. ASSUME UNCHANGED <<locks, fence, access, call, withdrawn>>, policy'.grant = policy.grant,
             \A kind \in Registries : previews[kind] = <<>> => previews'[kind] = <<>>
      PROVE  ReachInv'
  <2>1. PlacesHold'
    BY <1>0 DEF ReachInv, PlacesHold, PlaceOf, InDatabase, Changing, Inserting, At
  <2>2. \A d \in Callers : Withdrawing(d)' <=> Withdrawing(d)
    BY <1>0 DEF Withdrawing, At
  <2>3. FenceExcludes' /\ OutOfReach'
    BY <1>0, <2>2 DEF ReachInv, FenceExcludes, OutOfReach
  <2> QED  BY <2>1, <2>3 DEF ReachInv
<1>1. CASE UNCHANGED hostVars
  BY <1>0, <1>1 DEF hostVars
<1>2. CASE Discard
  <2>0. PICK kind \in Registries : \E i \in 1 .. Len(previews[kind]) :
           previews' = [previews EXCEPT ![kind] = RemoveAt(previews[kind], i)]
    BY <1>2, DiscardingKeepsShape
  <2>1. PICK i \in 1 .. Len(previews[kind]) :
           previews' = [previews EXCEPT ![kind] = RemoveAt(previews[kind], i)]
    BY <2>0
  <2>2. previews[kind] # <<>>
    BY <2>1
  <2>3. \A k \in Registries : previews[k] = <<>> => previews'[k] = <<>>
    BY <2>1, <2>2 DEF HostShape, PreviewsShape
  <2> QED  BY <1>0, <1>2, <2>3 DEF Discard
<1>3. CASE Derive
  <2>1. policy'.grant = policy.grant
    BY <1>3, ChangedPolicy DEF Derive, Grants
  <2> QED  BY <1>0, <1>3, <2>1 DEF Derive
<1>4. CASE ChangeElsewhere
  <2>1. PICK grant \in {"active", "revoked"} :
           /\ policy' = [policy EXCEPT !.revision = @ + 1, !.grant = grant]
           /\ withdrawn' = IF grant = "revoked" THEN "elsewhere" ELSE withdrawn
    BY <1>4 DEF ChangeElsewhere
  <2>2. policy'.grant = grant
    BY <2>1, ChangedPolicy DEF Grants
  <2>3. /\ Granted /\ fence.shared = {} /\ fence.alone = NoCaller
        /\ UNCHANGED <<locks, fence, access, previews, call>>
    BY <1>4 DEF ChangeElsewhere, Drained
  <2>4. withdrawn = "no" /\ withdrawn' # "here" /\ (withdrawn' # "no" => grant = "revoked")
    BY <2>1, <2>3 DEF ReachInv, OutOfReach, Granted
  <2>5. PlacesHold'
    BY <2>3, <2>4 DEF ReachInv, PlacesHold, PlaceOf, InDatabase, Changing, Inserting, At
  <2>6. FenceExcludes' /\ OutOfReach'
    BY <2>2, <2>3, <2>4 DEF ReachInv, FenceExcludes, OutOfReach
  <2> QED  BY <2>5, <2>6 DEF ReachInv
<1>5. ASSUME NEW c \in Callers, NEW k \in DOMAIN Program, Begin(c, k)
      PROVE  ReachInv'
  <2>1. Becomes(c, k, 1, Nothing)
    BY <1>5, BeginningKeepsShape
  <2>2. UNCHANGED <<locks, fence, policy, access, previews, withdrawn>>
    BY <1>5 DEF Begin
  <2>3. ASSUME NEW d \in Callers PROVE PlaceOf(d)'
    BY <2>1, <2>2, NoPlaceAfter DEF ReachInv, PlacesHold, PlaceOf
  <2>4. \A d \in Callers : Withdrawing(d)' <=> Withdrawing(d)
    BY <1>5, <2>1, NoPlaceAfter DEF Begin, Running, Withdrawing, At
  <2>5. FenceExcludes' /\ OutOfReach'
    BY <2>2, <2>4 DEF ReachInv, FenceExcludes, OutOfReach
  <2> QED  BY <2>3, <2>5 DEF ReachInv, PlacesHold
<1>6. ASSUME NEW c \in Callers, Ends(c),
             \/ AtStep(c) /\ What(c) # "withdraw"
             \/ call[c].at = Len(Program[call[c].command]) + 1
      PROVE  ReachInv'
  <2>1. ~Withdrawing(c)
    <3>1. AtStep(c) /\ Withdrawing(c) => What(c) = "withdraw"
      BY ScriptAt DEF Withdrawing, At
    <3>2. Withdrawing(c) => Len(Program[call[c].command]) = 7
      BY Listing, ConfirmRevocationSteps DEF Withdrawing, At
    <3>3. PICK n : n = Len(Program[call[c].command])
      OBVIOUS
    <3>4. Withdrawing(c) => n = 7 /\ call[c].at = 7
      BY <3>2, <3>3 DEF Withdrawing, At
    <3>5. \/ AtStep(c) /\ What(c) # "withdraw"
          \/ call[c].at = n + 1
      BY <1>6, <3>3
    <3> QED  BY <3>1, <3>4, <3>5
  <2> QED  BY <1>6, <2>1, EndingKeepsReach
<1>7. CASE HostSteps
  BY <1>2, <1>3, <1>4, <1>5, <1>6, <1>7, DoingKeepsReach DEF HostSteps
<1> QED  BY <1>1, <1>7, HostStepsAreAll

LEMMA ReachInvIsEnough ==
    ASSUME HostShape, ReachInv
    PROVE  RevokedIsOutOfReach
<1>1. locks["database"] = NoCaller => \A c \in Callers : ~Withdrawing(c)
  BY HostAssumption DEF ReachInv, PlacesHold, PlaceOf, InDatabase, Withdrawing, At
<1>2. DOMAIN previews = Registries
  BY DEF HostShape, PreviewsShape
<1> QED  BY <1>1, <1>2 DEF ReachInv, OutOfReach, RevokedIsOutOfReach, Granted

\* After a revocation nobody reads the folder, nothing but a new authorization brings its grant
\* back, and the host that revoked it is left with neither a capability nor a preview of it.
THEOREM RevocationWithdrawsReach == HostSpec => []RevokedIsOutOfReach
<1>1. HostInit => ReachInv
  BY ReachInvInit
<1>2. HostShape /\ ReachInv /\ [HostNext]_hostVars => ReachInv'
  BY ReachStep
<1>3. HostShape /\ ReachInv => RevokedIsOutOfReach
  BY ReachInvIsEnough
<1> QED  BY <1>1, <1>2, <1>3, HostIsWellTyped, PTL DEF HostSpec

-----------------------------------------------------------------------------
(* A preview is confirmed once, as it was shown.  Its number is in one place *)
(* at a time: in a registry, in the hand of the command that confirms it, or *)
(* among those applied.                                                      *)

Confirming(c) ==
    At(c, "confirm_revocation", {2, 3, 4, 5, 6}) \/ At(c, "confirm_exclusion", {2, 3, 4, 5, 6, 7})
Used(n) == \E a \in applied : a.number = n
Offered(n) == \E kind \in Registries : \E i \in 1 .. Len(previews[kind]) : previews[kind][i].number = n
InHandOf(c, n) == Confirming(c) /\ InHand(c).number = n

NumbersAreOnce ==
    /\ \A kind \in Registries : Distinct(previews[kind])
    /\ \A k, l \in Registries : k # l =>
          \A i \in 1 .. Len(previews[k]), j \in 1 .. Len(previews[l]) :
             previews[k][i].number # previews[l][j].number
    /\ \A n \in Nat : Used(n) => ~Offered(n)
    /\ \A c \in Callers, n \in Nat : InHandOf(c, n) => ~Used(n) /\ ~Offered(n)
    /\ \A c, d \in Callers, n \in Nat : InHandOf(c, n) /\ InHandOf(d, n) => c = d
NumbersAreMade ==
    \A n \in Nat : \/ Used(n) \/ Offered(n)
                   \/ \E c \in Callers : InHandOf(c, n)
                   => n <= made
ConfirmInv == NumbersAreOnce /\ NumbersAreMade /\ ConfirmedAsShown

\* Nothing new: previews leave the registries, and no other preview comes to hand.
LEMMA NumbersThin ==
    ASSUME HostShape, ConfirmInv, UNCHANGED <<made, applied>>,
           \A kind \in Registries : Thins(previews'[kind], previews[kind]),
           \A c \in Callers, n \in Nat : InHandOf(c, n)' => InHandOf(c, n)
    PROVE  ConfirmInv'
<1>1. \A n \in Nat : (Used(n)' <=> Used(n)) /\ (Offered(n)' => Offered(n))
  BY DEF Used, Offered, Thins
<1>2. \A kind \in Registries : Distinct(previews'[kind])
  BY DEF ConfirmInv, NumbersAreOnce, Thins
<1>3. \A k, l \in Registries : k # l =>
         \A i \in 1 .. Len(previews'[k]), j \in 1 .. Len(previews'[l]) :
            previews'[k][i].number # previews'[l][j].number
  <2> SUFFICES ASSUME NEW k \in Registries, NEW l \in Registries, k # l,
                      NEW i \in 1 .. Len(previews'[k]), NEW j \in 1 .. Len(previews'[l])
               PROVE  previews'[k][i].number # previews'[l][j].number
    OBVIOUS
  <2>1. PICK x \in 1 .. Len(previews[k]) : previews'[k][i] = previews[k][x]
    BY DEF Thins
  <2>2. PICK y \in 1 .. Len(previews[l]) : previews'[l][j] = previews[l][y]
    BY DEF Thins
  <2> QED  BY <2>1, <2>2 DEF ConfirmInv, NumbersAreOnce
<1>4. NumbersAreOnce'
  BY <1>1, <1>2, <1>3 DEF ConfirmInv, NumbersAreOnce
<1>5. NumbersAreMade'
  BY <1>1 DEF ConfirmInv, NumbersAreMade
<1> QED  BY <1>4, <1>5 DEF ConfirmInv, ConfirmedAsShown

LEMMA SameRegistriesThin ==
    ASSUME UNCHANGED previews
    PROVE  \A kind \in Registries : Thins(previews'[kind], previews[kind])
  BY DEF Thins

\* A call that goes on has nothing else in hand, unless it takes or looks.
LEMMA GoingOnKeepsHand ==
    ASSUME HostShape, NEW c \in Callers, AtStep(c), What(c) # "take", NEW p,
           Becomes(c, call[c].command, call[c].at + 1, p)
    PROVE  /\ Confirming(c)' => Confirming(c) /\ What(c) \in {"lock", "admit", "exclude"}
           /\ \A d \in Callers \ {c}, n \in Nat : InHandOf(d, n)' <=> InHandOf(d, n)
<1>1. PICK k, i, w : k = call[c].command /\ i = call[c].at /\ w = What(c)
  OBVIOUS
<1>2. i \in Nat /\ call'[c].command = k /\ call'[c].at = i + 1
  BY <1>1 DEF HostShape, CallShape, HostCalls, Becomes
<1>3. /\ k = "confirm_revocation" => \/ i = 1 /\ w = "take"
                                     \/ i \in {2, 4} /\ w = "lock"
                                     \/ i = 3 /\ w = "lock"
                                     \/ i = 5 /\ w = "exclude"
                                     \/ i = 6 /\ w = "revoke"
                                     \/ i = 7 /\ w = "withdraw"
      /\ k = "confirm_exclusion" => \/ i = 1 /\ w = "take"
                                    \/ i \in {2, 5} /\ w = "admit"
                                    \/ i \in {3, 4} /\ w = "lock"
                                    \/ i = 6 /\ w = "exclude"
                                    \/ i = 7 /\ w = "apply"
  BY <1>1, ScriptAt
<1>4. Confirming(c)' => Confirming(c) /\ w \in {"lock", "admit", "exclude"}
  BY <1>1, <1>2, <1>3 DEF Confirming, At
<1> QED  BY <1>1, <1>4 DEF Becomes, InHandOf, Confirming, InHand, At

LEMMA StoppingKeepsHand ==
    ASSUME HostShape, NEW c \in Callers, NEW k, NEW i, NEW p, Becomes(c, k, i, p),
           k = "none" \/ i = 1
    PROVE  \A d \in Callers, n \in Nat : InHandOf(d, n)' => d # c /\ InHandOf(d, n)
<1> SUFFICES ASSUME NEW d \in Callers, NEW n \in Nat, InHandOf(d, n)'
             PROVE  d # c /\ InHandOf(d, n)
  OBVIOUS
<1>1. d # c
  BY DEF InHandOf, Confirming, At, Becomes
<1> QED  BY <1>1 DEF InHandOf, Confirming, InHand, At, Becomes

LEMMA GoesOnThin ==
    ASSUME HostShape, ConfirmInv, NEW c \in Callers, AtStep(c),
           What(c) \notin {"take", "insert", "revoke", "apply"}, NEW p,
           Becomes(c, call[c].command, call[c].at + 1, p),
           What(c) = "look" \/ p = call[c].preview,
           UNCHANGED <<made, applied>>,
           \A kind \in Registries : Thins(previews'[kind], previews[kind])
    PROVE  ConfirmInv'
<1>1. ASSUME NEW d \in Callers, NEW n \in Nat, InHandOf(d, n)'
      PROVE  InHandOf(d, n)
  <2>1. CASE d = c
    <3>1. Confirming(c) /\ What(c) # "look"
      BY <1>1, <2>1, GoingOnKeepsHand DEF InHandOf
    <3> QED  BY <1>1, <2>1, <3>1 DEF InHandOf, InHand, Becomes
  <2>2. CASE d # c
    BY <1>1, <2>2, GoingOnKeepsHand
  <2> QED  BY <2>1, <2>2
<1> QED  BY <1>1, NumbersThin

LEMMA InsertingKeepsNumbers ==
    ASSUME HostShape, ConfirmInv, NEW c \in Callers, AtStep(c), What(c) = "insert", Insert(c)
    PROVE  ConfirmInv'
<1>1. /\ PreviewsShape' /\ Becomes(c, call[c].command, call[c].at + 1, Nothing)
      /\ RegistryOf(c) \in Registries /\ made' = made + 1
  BY InsertingKeepsShape
<1>2. PICK room \in Seq(PreviewRecords) : \E p \in PreviewRecords :
         /\ Thins(room, previews[RegistryOf(c)])
         /\ p.number = made + 1
         /\ previews' = [previews EXCEPT ![RegistryOf(c)] = Append(room, p)]
  BY InsertingKeepsShape
<1>3. PICK p \in PreviewRecords :
         /\ Thins(room, previews[RegistryOf(c)])
         /\ p.number = made + 1
         /\ previews' = [previews EXCEPT ![RegistryOf(c)] = Append(room, p)]
  BY <1>2
<1>4. PICK kind, list : kind = RegistryOf(c) /\ list = Append(room, p) /\ kind \in Registries
  BY <1>1
<1>5. /\ previews'[kind] = list
      /\ \A k \in Registries : k # kind => previews'[k] = previews[k]
  BY <1>3, <1>4 DEF HostShape, PreviewsShape
<1>6. /\ Len(list) = Len(room) + 1 /\ Len(room) \in Nat
      /\ \A i \in 1 .. Len(room) : list[i] = room[i]
      /\ list[Len(room) + 1] = p
  BY <1>4, AppendedEntries
\* An entry of the new registry is an entry of the old one, or the new preview, the last.
<1>7. /\ \A i \in 1 .. Len(list) : \/ i = Len(room) + 1 /\ list[i].number = made + 1
                                   \/ i \in 1 .. Len(room) /\ list[i] = room[i]
      /\ made \in Nat
  BY <1>3, <1>6 DEF HostShape, PreviewsShape
<1>8. \A k \in Registries : previews[k] \in Seq(PreviewRecords)
  BY DEF HostShape, PreviewsShape
<1>9. \A k \in Registries : \A i \in 1 .. Len(previews[k]) :
         previews[k][i].number \in Nat /\ previews[k][i].number <= made
  <2> SUFFICES ASSUME NEW k \in Registries, NEW i \in 1 .. Len(previews[k])
               PROVE  previews[k][i].number \in Nat /\ previews[k][i].number <= made
    OBVIOUS
  <2>1. previews[k][i] \in PreviewRecords
    BY <1>8
  <2>2. previews[k][i].number \in Nat
    BY <2>1 DEF PreviewRecords
  <2>3. Offered(previews[k][i].number)
    BY DEF Offered
  <2> QED  BY <2>2, <2>3 DEF ConfirmInv, NumbersAreMade
<1>10. \A i \in 1 .. Len(list) : \/ i = Len(room) + 1 /\ list[i].number = made + 1
                                 \/ /\ i \in 1 .. Len(room)
                                    /\ \E j \in 1 .. Len(previews[kind]) : list[i] = previews[kind][j]
  BY <1>3, <1>4, <1>7 DEF Thins
<1>11. \A i \in 1 .. Len(room) : list[i].number <= made /\ list[i].number \in Nat
  <2> SUFFICES ASSUME NEW i \in 1 .. Len(room)
               PROVE  list[i].number <= made /\ list[i].number \in Nat
    OBVIOUS
  <2>1. PICK j \in 1 .. Len(previews[kind]) : room[i] = previews[kind][j]
    BY <1>3, <1>4 DEF Thins
  <2>2. list[i] = previews[kind][j]
    BY <1>6, <2>1
  <2>3. previews[kind][j].number <= made /\ previews[kind][j].number \in Nat
    BY <1>4, <1>9
  <2> QED  BY <2>2, <2>3
<1>12. Distinct(room)
  BY <1>3, <1>4 DEF Thins, ConfirmInv, NumbersAreOnce
<1>13. Distinct(list)
  <2> SUFFICES ASSUME NEW i \in 1 .. Len(list), NEW j \in 1 .. Len(list),
                      list[i].number = list[j].number
               PROVE  i = j
    BY DEF Distinct
  <2>1. CASE i \in 1 .. Len(room) /\ j \in 1 .. Len(room)
    BY <1>6, <1>12, <2>1 DEF Distinct
  <2>2. CASE i \in 1 .. Len(room) /\ j \notin 1 .. Len(room)
    BY <1>7, <1>11, <2>2
  <2>3. CASE i \notin 1 .. Len(room) /\ j \in 1 .. Len(room)
    BY <1>7, <1>11, <2>3
  <2>4. CASE i \notin 1 .. Len(room) /\ j \notin 1 .. Len(room)
    BY <1>7, <2>4
  <2> QED  BY <2>1, <2>2, <2>3, <2>4
<1>14. ASSUME NEW k \in Registries, NEW l \in Registries, k # l,
              NEW i \in 1 .. Len(previews'[k]), NEW j \in 1 .. Len(previews'[l])
       PROVE  previews'[k][i].number # previews'[l][j].number
  <2>0. \A a, b \in Registries : a # b =>
           \A x \in 1 .. Len(previews[a]), y \in 1 .. Len(previews[b]) :
              previews[a][x].number # previews[b][y].number
    BY DEF ConfirmInv, NumbersAreOnce
  <2>1. CASE k = kind
    <3>1. previews'[l] = previews[l] /\ previews'[k] = list
      BY <1>5, <1>14, <2>1
    <3>2. previews[l][j].number <= made /\ previews[l][j].number \in Nat
      BY <1>9, <1>14, <3>1
    <3>3. CASE list[i].number = made + 1
      BY <1>7, <3>1, <3>2, <3>3
    <3>4. CASE \E x \in 1 .. Len(previews[kind]) : list[i] = previews[kind][x]
      BY <1>14, <2>0, <2>1, <3>1, <3>4
    <3> QED  BY <1>10, <1>14, <3>1, <3>3, <3>4
  <2>2. CASE l = kind
    <3>1. previews'[k] = previews[k] /\ previews'[l] = list
      BY <1>5, <1>14, <2>2
    <3>2. previews[k][i].number <= made /\ previews[k][i].number \in Nat
      BY <1>9, <1>14, <3>1
    <3>3. CASE list[j].number = made + 1
      BY <1>7, <3>1, <3>2, <3>3
    <3>4. CASE \E x \in 1 .. Len(previews[kind]) : list[j] = previews[kind][x]
      BY <1>14, <2>0, <2>2, <3>1, <3>4
    <3> QED  BY <1>10, <1>14, <3>1, <3>3, <3>4
  <2>3. CASE k # kind /\ l # kind
    BY <1>5, <1>14, <2>0, <2>3
  <2> QED  BY <2>1, <2>2, <2>3
<1>15. \A n \in Nat : Offered(n)' => Offered(n) \/ n = made + 1
  <2> SUFFICES ASSUME NEW n \in Nat, NEW k \in Registries, NEW i \in 1 .. Len(previews'[k]),
                      previews'[k][i].number = n
               PROVE  Offered(n) \/ n = made + 1
    BY DEF Offered
  <2>1. CASE k = kind
    BY <1>5, <1>10, <2>1 DEF Offered
  <2>2. CASE k # kind
    BY <1>5, <2>2 DEF Offered
  <2> QED  BY <2>1, <2>2
<1>16. \A d \in Callers, n \in Nat : InHandOf(d, n)' => InHandOf(d, n)
  BY <1>1, GoingOnKeepsHand DEF InHandOf
<1>17. UNCHANGED applied /\ \A n \in Nat : Used(n)' <=> Used(n)
  BY DEF Insert, Used
<1>18. \A n \in Nat : Used(n) \/ (\E d \in Callers : InHandOf(d, n)) => n # made + 1
  <2> SUFFICES ASSUME NEW n \in Nat, Used(n) \/ (\E d \in Callers : InHandOf(d, n))
               PROVE  n # made + 1
    OBVIOUS
  <2>1. n <= made
    BY DEF ConfirmInv, NumbersAreMade
  <2> QED  BY <1>7, <2>1
<1>19. NumbersAreOnce'
  <2>1. \A k \in Registries : Distinct(previews'[k])
    BY <1>5, <1>13 DEF ConfirmInv, NumbersAreOnce
  <2>2. \A n \in Nat : Used(n)' => ~Offered(n)'
    BY <1>15, <1>17, <1>18 DEF ConfirmInv, NumbersAreOnce
  <2>3. \A d \in Callers, n \in Nat : InHandOf(d, n)' => ~Used(n)' /\ ~Offered(n)'
    BY <1>15, <1>16, <1>17, <1>18 DEF ConfirmInv, NumbersAreOnce
  <2>4. \A d, e \in Callers, n \in Nat : InHandOf(d, n)' /\ InHandOf(e, n)' => d = e
    BY <1>16 DEF ConfirmInv, NumbersAreOnce
  <2> QED  BY <1>14, <2>1, <2>2, <2>3, <2>4 DEF NumbersAreOnce
<1>20. NumbersAreMade'
  <2> SUFFICES ASSUME NEW n \in Nat,
                      \/ Used(n)' \/ Offered(n)'
                      \/ \E d \in Callers : InHandOf(d, n)'
               PROVE  n <= made + 1
    BY <1>1 DEF NumbersAreMade
  <2>1. n <= made \/ n = made + 1
    BY <1>15, <1>16, <1>17 DEF ConfirmInv, NumbersAreMade
  <2> QED  BY <1>7, <2>1
<1> QED  BY <1>17, <1>19, <1>20 DEF ConfirmInv, ConfirmedAsShown

LEMMA TakingKeepsNumbers ==
    ASSUME HostShape, ConfirmInv, NEW c \in Callers, AtStep(c), What(c) = "take", Take(c), ~Ends(c)
    PROVE  ConfirmInv'
<1>1. PICK kind : kind = RegistryOf(c) /\ kind \in Registries
  BY TakingKeepsShape
<1>2. PICK i \in 1 .. Len(previews[kind]) :
         /\ previews' = [previews EXCEPT ![kind] = RemoveAt(previews[kind], i)]
         /\ \/ Becomes(c, call[c].command, call[c].at + 1, previews[kind][i])
            \/ Becomes(c, "none", 0, IdleCall.preview)
  BY <1>1, TakingKeepsShape
<1>3. UNCHANGED <<made, applied>>
  BY TakingKeepsShape
<1>4. previews[kind] \in Seq(PreviewRecords)
  BY <1>1 DEF HostShape, PreviewsShape
<1>5. /\ Thins(previews'[kind], previews[kind])
      /\ \A k \in Registries : k # kind => previews'[k] = previews[k]
      /\ Distinct(previews[kind]) =>
            \A j \in 1 .. Len(previews'[kind]) : previews'[kind][j].number # previews[kind][i].number
  BY <1>1, <1>2, <1>4, RemovalThins DEF HostShape, PreviewsShape
<1>6. \A k \in Registries : Thins(previews'[k], previews[k])
  BY <1>5 DEF Thins
<1>7. CASE Becomes(c, "none", 0, IdleCall.preview)
  BY <1>3, <1>6, <1>7, StoppingKeepsHand, NumbersThin
<1>8. CASE Becomes(c, call[c].command, call[c].at + 1, previews[kind][i])
  <2>0. previews[kind][i] \in PreviewRecords
    BY <1>4
  <2>1. PICK m : m = previews[kind][i].number /\ m \in Nat
    BY <2>0 DEF PreviewRecords
  <2>2. Offered(m)
    BY <1>1, <2>1 DEF Offered
  <2>3. \A n \in Nat : (Used(n)' <=> Used(n)) /\ (Offered(n)' => Offered(n))
    BY <1>3, <1>6 DEF Used, Offered, Thins
  <2>4. ~Offered(m)'
    <3> SUFFICES ASSUME NEW k \in Registries, NEW j \in 1 .. Len(previews'[k]),
                        previews'[k][j].number = m
                 PROVE  FALSE
      BY DEF Offered
    <3>1. CASE k = kind
      BY <1>1, <1>5, <2>1, <3>1 DEF ConfirmInv, NumbersAreOnce
    <3>2. CASE k # kind
      BY <1>1, <1>5, <2>1, <3>2 DEF ConfirmInv, NumbersAreOnce
    <3> QED  BY <3>1, <3>2
  <2>5. \A d \in Callers \ {c}, n \in Nat : InHandOf(d, n)' <=> InHandOf(d, n)
    BY <1>8 DEF InHandOf, Confirming, InHand, At, Becomes
  <2>6. \A n \in Nat : InHandOf(c, n)' => n = m
    BY <1>8, <2>1 DEF InHandOf, InHand, Becomes
  <2>7. \A d \in Callers : ~InHandOf(d, m) /\ ~Used(m)
    BY <2>1, <2>2 DEF ConfirmInv, NumbersAreOnce
  <2>8. \A k \in Registries : Distinct(previews'[k])
    BY <1>6 DEF ConfirmInv, NumbersAreOnce, Thins
  <2>9. ASSUME NEW k \in Registries, NEW l \in Registries, k # l,
               NEW x \in 1 .. Len(previews'[k]), NEW y \in 1 .. Len(previews'[l])
        PROVE  previews'[k][x].number # previews'[l][y].number
    <3>1. PICK v \in 1 .. Len(previews[k]) : previews'[k][x] = previews[k][v]
      BY <1>6 DEF Thins
    <3>2. PICK w \in 1 .. Len(previews[l]) : previews'[l][y] = previews[l][w]
      BY <1>6 DEF Thins
    <3> QED  BY <2>9, <3>1, <3>2 DEF ConfirmInv, NumbersAreOnce
  <2>10. NumbersAreOnce'
    <3>1. \A n \in Nat : Used(n)' => ~Offered(n)'
      BY <2>3 DEF ConfirmInv, NumbersAreOnce
    <3>2. \A d \in Callers, n \in Nat : InHandOf(d, n)' => ~Used(n)' /\ ~Offered(n)'
      BY <2>1, <2>3, <2>4, <2>5, <2>6, <2>7 DEF ConfirmInv, NumbersAreOnce
    <3>3. \A d, e \in Callers, n \in Nat : InHandOf(d, n)' /\ InHandOf(e, n)' => d = e
      BY <2>1, <2>5, <2>6, <2>7 DEF ConfirmInv, NumbersAreOnce
    <3> QED  BY <2>8, <2>9, <3>1, <3>2, <3>3 DEF NumbersAreOnce
  <2>11. NumbersAreMade'
    BY <1>3, <2>1, <2>2, <2>3, <2>5, <2>6 DEF ConfirmInv, NumbersAreMade
  <2> QED  BY <1>3, <2>10, <2>11 DEF ConfirmInv, ConfirmedAsShown
<1> QED  BY <1>2, <1>7, <1>8

\* What is confirmed leaves the hand for good.
LEMMA ConfirmingKeepsNumbers ==
    ASSUME HostShape, ConfirmInv, NEW c \in Callers, AtStep(c), What(c) \in {"revoke", "apply"},
           Becomes(c, call[c].command, call[c].at + 1, Nothing), NEW b \in BOOLEAN,
           Confirms(c, b), b, UNCHANGED <<made, previews>>
    PROVE  ConfirmInv'
<1>1. Confirming(c)
  BY ScriptAt DEF Confirming, At
<1>2. PICK m : m = InHand(c).number /\ m \in Nat
  BY InHandIsAPreview DEF PreviewRecords
<1>3. InHandOf(c, m)
  BY <1>1, <1>2 DEF InHandOf
<1>4. PICK new : /\ new.number = m /\ new.asShown = b
                 /\ applied' = applied \cup {new}
  <2>1. PICK new : new = [number |-> InHand(c).number, at |-> policy.revision, asShown |-> b]
    OBVIOUS
  <2>2. new.number = m /\ new.asShown = b
    BY <1>2, <2>1
  <2>3. applied' = applied \cup {new}
    BY <2>1 DEF Confirms
  <2> QED  BY <2>2, <2>3
<1>5. \A n \in Nat : (Used(n)' <=> Used(n) \/ n = m) /\ (Offered(n)' <=> Offered(n))
  BY <1>4 DEF Used, Offered
<1>6. \A d \in Callers, n \in Nat : InHandOf(d, n)' => d # c /\ InHandOf(d, n)
  BY GoingOnKeepsHand DEF InHandOf
<1>7. NumbersAreOnce'
  <2>1. \A n \in Nat : Used(n)' => ~Offered(n)'
    BY <1>3, <1>5 DEF ConfirmInv, NumbersAreOnce
  <2>2. \A d \in Callers, n \in Nat : InHandOf(d, n)' => ~Used(n)' /\ ~Offered(n)'
    BY <1>2, <1>3, <1>5, <1>6 DEF ConfirmInv, NumbersAreOnce
  <2>3. \A d, e \in Callers, n \in Nat : InHandOf(d, n)' /\ InHandOf(e, n)' => d = e
    BY <1>6 DEF ConfirmInv, NumbersAreOnce
  <2>4. /\ \A k \in Registries : Distinct(previews'[k])
        /\ \A k, l \in Registries : k # l =>
              \A i \in 1 .. Len(previews'[k]), j \in 1 .. Len(previews'[l]) :
                 previews'[k][i].number # previews'[l][j].number
    BY DEF ConfirmInv, NumbersAreOnce
  <2> QED  BY <2>1, <2>2, <2>3, <2>4 DEF NumbersAreOnce
<1>8. NumbersAreMade'
  BY <1>3, <1>5, <1>6 DEF ConfirmInv, NumbersAreMade
<1>9. ConfirmedAsShown'
  <2>1. ~Used(m)
    BY <1>2, <1>3 DEF ConfirmInv, NumbersAreOnce
  <2>2. \A a \in applied : a.number # m
    BY <2>1 DEF Used
  <2> QED  BY <1>4, <2>2 DEF ConfirmInv, ConfirmedAsShown
<1> QED  BY <1>7, <1>8, <1>9 DEF ConfirmInv

LEMMA DoingKeepsNumbers ==
    ASSUME HostShape, ConfirmInv, NEW c \in Callers, AtStep(c), Does(c), ~Ends(c)
    PROVE  ConfirmInv'
<1>1. ASSUME What(c) \notin {"take", "insert", "revoke", "apply", "look"}, CommandGoes(c),
             UNCHANGED <<made, applied, previews>>
      PROVE  ConfirmInv'
  BY <1>1, Gone, SameRegistriesThin, GoesOnThin DEF HostShape
<1>2. CASE \E m \in Mutexes : /\ What(c) \in Takes /\ Wanted(c) = m /\ locks[m] = NoCaller
                              /\ Lock(c, m)
  BY <1>1, <1>2 DEF Lock, Takes
<1>3. CASE What(c) = "admit" /\ Admit(c)
  BY <1>1, <1>3 DEF Admit
<1>4. CASE What(c) = "look" /\ LookAtImpact(c)
  <2>1. PICK p : Becomes(c, call[c].command, call[c].at + 1, p)
    BY <1>4, Carried, InHandIsAPreview DEF HostShape, LookAtImpact
  <2> QED  BY <1>4, <2>1, SameRegistriesThin, GoesOnThin DEF LookAtImpact
<1>5. CASE What(c) = "insert" /\ Insert(c)
  BY <1>5, InsertingKeepsNumbers
<1>6. CASE What(c) = "take" /\ Take(c)
  BY <1>6, TakingKeepsNumbers
<1>7. CASE What(c) = "share" /\ Share(c)
  BY <1>1, <1>7 DEF Share
<1>8. CASE What(c) = "exclude" /\ Exclude(c)
  BY <1>1, <1>8 DEF Exclude
<1>9. CASE What(c) = "revoke" /\ Revoke(c)
  <2>1. /\ Confirms(c, InHand(c).rows = policy.rows) /\ InHand(c).rows = policy.rows
        /\ Carries(c, Nothing) /\ UNCHANGED <<made, previews>>
    BY <1>9 DEF Revoke, ImpactIsShown
  <2>2. Confirms(c, TRUE)
    BY <2>1 DEF Confirms
  <2>3. Becomes(c, call[c].command, call[c].at + 1, Nothing)
    BY <2>1, Carried, NothingIsAPreview DEF HostShape
  <2> QED  BY <1>9, <2>1, <2>2, <2>3, ConfirmingKeepsNumbers
<1>10. CASE What(c) = "apply" /\ Apply(c)
  <2>1. Confirms(c, TRUE) /\ Carries(c, Nothing) /\ UNCHANGED <<made, previews>>
    BY <1>10 DEF Apply
  <2>2. Becomes(c, call[c].command, call[c].at + 1, Nothing)
    BY <2>1, Carried, NothingIsAPreview DEF HostShape
  <2> QED  BY <1>10, <2>1, <2>2, ConfirmingKeepsNumbers
<1>11. CASE What(c) = "withdraw" /\ Withdraw(c)
  <2>1. Becomes(c, call[c].command, call[c].at + 1, call[c].preview)
    BY <1>11, Gone DEF HostShape, Withdraw
  <2>2. ASSUME NEW kind \in Registries PROVE Thins(previews'[kind], previews[kind])
    <3>1. previews'[kind] = <<>>
      BY <1>11 DEF Withdraw, HostShape, PreviewsShape
    <3> QED  BY <3>1 DEF Thins, Distinct
  <2> QED  BY <1>11, <2>1, <2>2, GoesOnThin DEF Withdraw
<1>12. CASE What(c) = "authorize" /\ Authorize(c)
  BY <1>1, <1>12 DEF Authorize
<1>13. CASE What(c) = "refresh" /\ Refresh(c)
  BY <1>1, <1>13 DEF Refresh
<1> QED
  BY <1>2, <1>3, <1>4, <1>5, <1>6, <1>7, <1>8, <1>9, <1>10, <1>11, <1>12, <1>13 DEF Does

LEMMA ConfirmStep == HostShape /\ ConfirmInv /\ [HostNext]_hostVars => ConfirmInv'
<1> SUFFICES ASSUME HostShape, ConfirmInv, [HostNext]_hostVars PROVE ConfirmInv'
  OBVIOUS
<1>0. ASSUME UNCHANGED <<call, made, applied>>,
             \A kind \in Registries : Thins(previews'[kind], previews[kind])
      PROVE  ConfirmInv'
  BY <1>0, NumbersThin DEF InHandOf, Confirming, InHand, At
<1>1. CASE UNCHANGED hostVars \/ Derive \/ ChangeElsewhere
  BY <1>0, <1>1, SameRegistriesThin DEF hostVars, Derive, ChangeElsewhere
<1>2. CASE Discard
  <2>1. PICK kind \in Registries : \E i \in 1 .. Len(previews[kind]) :
           previews' = [previews EXCEPT ![kind] = RemoveAt(previews[kind], i)]
    BY <1>2, DiscardingKeepsShape
  <2>2. PICK i \in 1 .. Len(previews[kind]) :
           previews' = [previews EXCEPT ![kind] = RemoveAt(previews[kind], i)]
    BY <2>1
  <2>3. Thins(RemoveAt(previews[kind], i), previews[kind])
    BY RemovalThins DEF HostShape, PreviewsShape
  <2>4. \A k \in Registries : Thins(previews'[k], previews[k])
    BY <2>2, <2>3 DEF HostShape, PreviewsShape, Thins
  <2> QED  BY <1>0, <1>2, <2>4 DEF Discard
<1>3. ASSUME NEW c \in Callers, NEW k \in DOMAIN Program, Begin(c, k)
      PROVE  ConfirmInv'
  BY <1>3, BeginningKeepsShape, StoppingKeepsHand, SameRegistriesThin, NumbersThin DEF Begin
<1>4. ASSUME NEW c \in Callers, Ends(c)
      PROVE  ConfirmInv'
  <2>1. Becomes(c, "none", 0, IdleCall.preview)
    BY <1>4, Stopped DEF HostShape, Ends
  <2> QED  BY <1>4, <2>1, StoppingKeepsHand, SameRegistriesThin, NumbersThin DEF Ends
<1>5. CASE HostSteps
  BY <1>1, <1>2, <1>3, <1>4, <1>5, DoingKeepsNumbers DEF HostSteps
<1> QED  BY <1>1, <1>5, HostStepsAreAll

LEMMA ConfirmInvInit == HostInit => ConfirmInv
<1> SUFFICES ASSUME HostInit PROVE ConfirmInv
  OBVIOUS
<1>1. /\ \A kind \in Registries : Len(previews[kind]) = 0
      /\ applied = {} /\ \A c \in Callers : call[c].command = "none"
  BY IdleIsACall DEF HostInit
<1>2. \A n \in Nat : ~Used(n) /\ ~Offered(n) /\ \A c \in Callers : ~InHandOf(c, n)
  BY <1>1 DEF Used, Offered, InHandOf, Confirming, At
<1> QED
  BY <1>1, <1>2 DEF ConfirmInv, NumbersAreOnce, NumbersAreMade, ConfirmedAsShown, Distinct

\* No preview is applied twice, and a revocation purges what its preview counted.
THEOREM ConfirmationsAreAsShown == HostSpec => []ConfirmedAsShown
<1>1. HostInit => ConfirmInv
  BY ConfirmInvInit
<1>2. HostShape /\ ConfirmInv /\ [HostNext]_hostVars => ConfirmInv'
  BY ConfirmStep
<1>3. ConfirmInv => ConfirmedAsShown
  BY DEF ConfirmInv
<1> QED  BY <1>1, <1>2, <1>3, HostIsWellTyped, PTL DEF HostSpec

-----------------------------------------------------------------------------
(* Native sources: the shape of the state.                                 *)
LoopSteps == {"pass", "registry", "source", "sync", "cycle", "begin", "drain", "apply", "rest",
              "retry", "ended"}
RevocationSteps == {"idle", "locked", "committed", "requested", "waking", "waiting", "confirmed",
                    "retired", "cleared", "stopping", "stopped", "gaveUp"}
Callbacks == [pc : {"idle", "admitted", "rescan", "error", "wake", "leave"},
              file : Files \cup {NoFolder}, stale : BOOLEAN]
Batches == [files : SUBSET Files, all : BOOLEAN, failed : BOOLEAN]

LifecycleShape == /\ lifecycle \in [retired : BOOLEAN, callback : Callbacks]
                  /\ lifecycle.callback.pc = "admitted" => lifecycle.callback.file \in Files
QueueKept == /\ signals \in Seq(Files) /\ Len(signals) <= QueueCapacity
             /\ flags \in [all : BOOLEAN, failed : BOOLEAN]
LoopShape ==
    /\ source \in [open : BOOLEAN, folders : SUBSET Folders]
    /\ loop \in [pc : LoopSteps, pass : Nat, only : BOOLEAN, live : SUBSET Folders, gap : BOOLEAN,
                 stop : BOOLEAN, batch : Batches]
    /\ barrier \in [requested : Nat, acknowledged : Nat]
    /\ gate \in {"free", "loop", "revocation"}
ScopeShape ==
    /\ registry \subseteq Folders /\ granted \subseteq Folders
    /\ revocation \in [pc : RevocationSteps, ticket : Nat, retired : BOOLEAN]
NativeShape == LifecycleShape /\ QueueKept /\ raised \subseteq Files /\ LoopShape /\ ScopeShape

\* Steps of a revocation after its commit, with a ticket, and after the queue was cleared.
Cleared == {"cleared", "stopping", "stopped", "gaveUp"}
Ticketed == {"requested", "waking", "waiting", "confirmed", "retired"} \cup Cleared
Committed == {"committed"} \cup Ticketed

Barrier ==
    /\ loop.pass <= barrier.requested /\ barrier.acknowledged <= barrier.requested
    /\ revocation.pc \in Committed => Revoked \notin granted
    /\ revocation.pc \in Ticketed /\ barrier.acknowledged >= revocation.ticket
         => Revoked \notin source.folders
    /\ revocation.pc = "confirmed" => barrier.acknowledged >= revocation.ticket
Closing ==
    /\ ~source.open => source.folders = {}
    /\ loop.pc = "ended" => ~source.open
    /\ revocation.pc = "stopped" => loop.pc = "ended"
Silence ==
    /\ revocation.pc \in Cleared \cup {"retired"} => lifecycle.retired
    /\ revocation.pc \in Cleared => signals = <<>> /\ ~flags.all /\ ~flags.failed
NativeInv == NativeShape /\ Barrier /\ Closing /\ Silence

LEMMA InitNative == ASSUME QueueCapacity \in Nat, Init PROVE NativeInv
<1>1. LifecycleShape /\ QueueKept /\ raised \subseteq Files
  BY DEF Init, LifecycleShape, QueueKept, Callbacks, NoCallback
<1>2. LoopShape
  BY DEF Init, LoopShape, NoSource, LoopSteps, Batches, NoBatch, Folders
<1>3. ScopeShape
  BY DEF Init, ScopeShape, RevocationSteps
<1>4. Barrier /\ Closing /\ Silence
  BY DEF Init, Barrier, Closing, Silence, NoSource, Committed, Ticketed, Cleared
<1> QED  BY <1>1, <1>2, <1>3, <1>4 DEF NativeInv, NativeShape

LEMMA EmptyRecords ==
    /\ NoSource \in [open : BOOLEAN, folders : SUBSET Folders] /\ ~NoSource.open
    /\ NoSource.folders = {}
    /\ NoBatch \in Batches
    /\ NoCallback \in Callbacks /\ NoCallback.pc = "idle"
    /\ \A f \in Files : LET entered == [NoCallback EXCEPT !.pc = "admitted", !.file = f]
                        IN  entered \in Callbacks /\ entered.pc = "admitted" /\ entered.file = f
    /\ \A kind \in {"rescan", "error"} : LET entered == [NoCallback EXCEPT !.pc = kind]
                                         IN  entered \in Callbacks /\ entered.pc = kind
  BY DEF NoSource, NoBatch, NoCallback, Batches, Callbacks

\* A callback enters, with the change of a file or with trouble.
LEMMA CallbackEnters ==
    ASSUME LifecycleShape,
           \/ \E f \in Files : BeginCallback(f)
           \/ \E kind \in {"rescan", "error"} : SourceTrouble(kind)
    PROVE  /\ LifecycleShape' /\ lifecycle'.retired = lifecycle.retired
           /\ UNCHANGED <<signals, flags>> /\ raised' \subseteq raised
<1>1. ASSUME NEW f \in Files, BeginCallback(f)
      PROVE  LifecycleShape' /\ lifecycle'.retired = lifecycle.retired
  <2>1. CASE lifecycle.retired
    BY <1>1, <2>1 DEF BeginCallback, LifecycleShape
  <2>2. CASE ~lifecycle.retired
    <3>1. lifecycle' = [lifecycle EXCEPT !.callback = [NoCallback EXCEPT !.pc = "admitted",
                                                                         !.file = f]]
      BY <1>1, <2>2 DEF BeginCallback
    <3> DEFINE entered == [NoCallback EXCEPT !.pc = "admitted", !.file = f]
    <3>2. entered \in Callbacks /\ entered.file \in Files
      BY EmptyRecords
    <3> HIDE DEF entered
    <3>3. lifecycle' = [lifecycle EXCEPT !.callback = entered]
      BY <3>1 DEF entered
    <3> QED  BY <3>2, <3>3 DEF LifecycleShape
  <2> QED  BY <2>1, <2>2
<1>2. ASSUME NEW kind \in {"rescan", "error"}, SourceTrouble(kind)
      PROVE  LifecycleShape' /\ lifecycle'.retired = lifecycle.retired
  <2> DEFINE entered == [NoCallback EXCEPT !.pc = kind]
  <2>1. entered \in Callbacks /\ entered.pc = kind
    BY EmptyRecords
  <2>2. lifecycle' = [lifecycle EXCEPT !.callback = entered]
    BY <1>2 DEF SourceTrouble
  <2> HIDE DEF entered
  <2> QED  BY <2>1, <2>2 DEF LifecycleShape
<1> QED  BY <1>1, <1>2 DEF BeginCallback, SourceTrouble, callbackVars

LEMMA CallbackEnqueues ==
    ASSUME QueueCapacity \in Nat, LifecycleShape, QueueKept, Enqueue
    PROVE  /\ LifecycleShape' /\ lifecycle'.retired = lifecycle.retired
           /\ QueueKept' /\ UNCHANGED raised
           /\ lifecycle.retired => UNCHANGED <<signals, flags>>
<1>1. LifecycleShape' /\ lifecycle'.retired = lifecycle.retired
  <2> DEFINE left == IF Admitted THEN "wake" ELSE "leave"
  <2>1. left \in {"wake", "leave"} /\ lifecycle' = [lifecycle EXCEPT !.callback.pc = left]
    BY DEF Enqueue
  <2> HIDE DEF left
  <2>2. /\ lifecycle'.callback = [lifecycle.callback EXCEPT !.pc = left]
        /\ lifecycle' \in [retired : BOOLEAN, callback : Callbacks]
        /\ lifecycle'.retired = lifecycle.retired
    BY <2>1 DEF LifecycleShape, Callbacks
  <2>3. lifecycle'.callback.pc = left
    BY <2>2 DEF LifecycleShape, Callbacks
  <2> QED  BY <2>1, <2>2, <2>3 DEF LifecycleShape
<1>2. lifecycle.retired => UNCHANGED <<signals, flags>>
  BY DEF Enqueue, Admitted
<1>3. QueueKept'
  <2>1. CASE UNCHANGED <<signals, flags>>
    BY <2>1 DEF QueueKept
  <2>2. CASE /\ lifecycle.callback.pc = "admitted" /\ Len(signals) < QueueCapacity
             /\ signals' = Append(signals, lifecycle.callback.file)
             /\ UNCHANGED flags
    BY <2>2 DEF QueueKept, LifecycleShape
  <2>3. CASE UNCHANGED signals /\ \E failed \in BOOLEAN : Raise(TRUE, failed)
    BY <2>3 DEF QueueKept, Raise
  <2>4. (lifecycle.callback.pc = "error") \in BOOLEAN
    OBVIOUS
  <2> QED  BY <2>1, <2>2, <2>3, <2>4 DEF Enqueue
<1> QED  BY <1>1, <1>2, <1>3 DEF Enqueue

LEMMA CallbackLeaves ==
    ASSUME LifecycleShape, Wake \/ LeaveCallback
    PROVE  /\ LifecycleShape' /\ lifecycle'.retired = lifecycle.retired
           /\ UNCHANGED <<signals, flags, raised>>
<1>1. CASE Wake
  <2>1. lifecycle' = [lifecycle EXCEPT !.callback.pc = "leave"]
    BY <1>1 DEF Wake
  <2>2. /\ lifecycle'.callback = [lifecycle.callback EXCEPT !.pc = "leave"]
        /\ lifecycle' \in [retired : BOOLEAN, callback : Callbacks]
    BY <2>1 DEF LifecycleShape, Callbacks
  <2>3. lifecycle'.callback.pc = "leave"
    BY <2>2 DEF LifecycleShape, Callbacks
  <2> QED  BY <1>1, <2>1, <2>2, <2>3 DEF LifecycleShape, Wake
<1>2. CASE LeaveCallback
  BY <1>2, EmptyRecords DEF LifecycleShape, LeaveCallback
<1> QED  BY <1>1, <1>2

CallbackActions ==
    \/ Enqueue \/ Wake \/ LeaveCallback
    \/ \E f \in Files : BeginCallback(f)
    \/ \E kind \in {"rescan", "error"} : SourceTrouble(kind)

\* What the callback does leaves the thread and the revocation alone.
LEMMA CallbackKeeps ==
    ASSUME NativeInv, QueueCapacity \in Nat, CallbackActions
    PROVE  NativeInv'
<1>1. LifecycleShape /\ QueueKept /\ raised \subseteq Files /\ LoopShape /\ ScopeShape
      /\ Barrier /\ Closing /\ Silence
  BY DEF NativeInv, NativeShape
<1>2. UNCHANGED <<source, loop, barrier, registry, granted, revocation, gate>>
  BY DEF CallbackActions, Enqueue, Wake, LeaveCallback, BeginCallback, SourceTrouble, loopVars,
         scopeVars
<1>3. LoopShape' /\ ScopeShape' /\ Barrier' /\ Closing'
  BY <1>1, <1>2 DEF LoopShape, ScopeShape, Barrier, Closing
<1>4. /\ LifecycleShape' /\ lifecycle'.retired = lifecycle.retired
      /\ QueueKept' /\ raised' \subseteq raised
      /\ lifecycle.retired => UNCHANGED <<signals, flags>>
  <2>1. CASE Enqueue
    BY <1>1, <2>1, CallbackEnqueues
  <2>2. CASE Wake \/ LeaveCallback
    BY <1>1, <2>2, CallbackLeaves DEF QueueKept
  <2>3. CASE ~Enqueue /\ ~Wake /\ ~LeaveCallback
    BY <1>1, <2>3, CallbackEnters DEF QueueKept, CallbackActions
  <2> QED  BY <2>1, <2>2, <2>3
<1>5. Silence'
  BY <1>1, <1>2, <1>4 DEF Silence
<1> QED  BY <1>1, <1>3, <1>4, <1>5 DEF NativeInv, NativeShape

-----------------------------------------------------------------------------
(* What the thread does with the queue.                                    *)
Quiet == signals = <<>> /\ ~flags.all /\ ~flags.failed
QueueServed == /\ LifecycleShape' /\ lifecycle'.retired = lifecycle.retired
               /\ QueueKept' /\ raised' \subseteq raised
               /\ Quiet => Quiet'

\* Dropping the source leaves an empty queue, and no lifecycle is retired by it.
LEMMA DroppedSource ==
    ASSUME QueueCapacity \in Nat, LifecycleShape, DropSource
    PROVE  QueueServed /\ source' = NoSource
<1> DEFINE abandoned == (lifecycle.callback.pc # "idle")
<1>1. abandoned \in BOOLEAN /\ lifecycle' = [lifecycle EXCEPT !.callback.stale = abandoned]
  BY DEF DropSource
<1> HIDE DEF abandoned
<1>2. LifecycleShape' /\ lifecycle'.retired = lifecycle.retired
  <2>1. lifecycle'.callback = [lifecycle.callback EXCEPT !.stale = abandoned]
    BY <1>1 DEF LifecycleShape
  <2> QED  BY <1>1, <2>1 DEF LifecycleShape, Callbacks
<1>3. QueueKept' /\ Quiet' /\ raised' = {}
  BY DEF DropSource, QueueKept, Quiet
<1> QED  BY <1>2, <1>3 DEF QueueServed, DropSource

LEMMA UntouchedQueue ==
    ASSUME LifecycleShape, QueueKept, UNCHANGED callbackVars, raised' \subseteq raised
    PROVE  QueueServed
  BY DEF callbackVars, LifecycleShape, QueueKept, QueueServed, Quiet

LEMMA DrainedQueue ==
    ASSUME DrainLimit \in Nat, QueueCapacity \in Nat, LifecycleShape, QueueKept, Drain
    PROVE  QueueServed /\ (ToSet(Taken) \subseteq Files)
<1>1. signals \in Seq(Files) /\ Len(signals) \in Nat
  BY DEF QueueKept
<1> DEFINE count == IF Len(signals) < DrainLimit THEN Len(signals) ELSE DrainLimit
<1>2. count \in Nat /\ count <= Len(signals)
  BY <1>1
<1>3. Taken = SubSeq(signals, 1, count)
  BY DEF Taken
<1> HIDE DEF count
<1>4. Taken \in Seq(Files) /\ Len(Taken) = count
  BY <1>1, <1>2, <1>3, SubSeqProperties
<1>5. ToSet(Taken) \subseteq Files
  BY <1>4 DEF ToSet
<1>6. UNCHANGED <<lifecycle, raised>>
  BY DEF Drain
<1>7. QueueKept' /\ (Quiet => Quiet')
  <2>1. CASE UNCHANGED <<signals, flags>>
    BY <2>1 DEF QueueKept, Quiet
  <2>2. CASE /\ signals' = SubSeq(signals, Len(Taken) + 1, Len(signals))
             /\ flags' = [flags EXCEPT !.all = FALSE]
    <3>1. signals' \in Seq(Files) /\ Len(signals') <= Len(signals)
      BY <1>1, <1>2, <1>4, <2>2, SubSeqProperties
    <3>2. signals = <<>> => signals' = <<>>
      BY <1>1, <3>1, EmptySeq
    <3>3. /\ flags' \in [all : BOOLEAN, failed : BOOLEAN]
          /\ flags'.all = FALSE /\ flags'.failed = flags.failed
      BY <2>2 DEF QueueKept
    <3> QED  BY <1>1, <3>1, <3>2, <3>3 DEF QueueKept, Quiet
  <2> QED  BY <2>1, <2>2 DEF Drain
<1> QED  BY <1>5, <1>6, <1>7 DEF QueueServed, LifecycleShape

LEMMA OpenedQueue ==
    ASSUME QueueCapacity \in Nat, LifecycleShape, QueueKept, OpenSource
    PROVE  QueueServed
<1>1. UNCHANGED <<lifecycle, raised>>
  BY DEF OpenSource
<1>2. QueueKept' /\ (Quiet => Quiet')
  <2>1. CASE UNCHANGED <<signals, flags>>
    BY <2>1 DEF QueueKept, Quiet
  <2>2. CASE signals' = <<>> /\ flags' = [all |-> FALSE, failed |-> FALSE]
    BY <2>2, EmptySeq DEF QueueKept, Quiet
  <2> QED  BY <2>1, <2>2 DEF OpenSource
<1> QED  BY <1>1, <1>2 DEF QueueServed, LifecycleShape

LEMMA EndedCycle ==
    ASSUME QueueCapacity \in Nat, LifecycleShape, QueueKept, LoopShape, EndCycle("rest"), UNCHANGED barrier
    PROVE  /\ QueueServed /\ LoopShape'
           /\ source' = source \/ source' = NoSource
           /\ loop'.pc = "rest" /\ loop'.pass = loop.pass /\ gate' = "free"
<1>1. QueueServed /\ (source' = source \/ source' = NoSource)
  BY DroppedSource, UntouchedQueue DEF EndCycle, callbackVars
<1>2. /\ loop' \in [pc : LoopSteps, pass : Nat, only : BOOLEAN, live : SUBSET Folders,
                    gap : BOOLEAN, stop : BOOLEAN, batch : Batches]
      /\ loop'.pc = "rest" /\ loop'.pass = loop.pass /\ gate' = "free"
  <2>1. CASE loop' = [loop EXCEPT !.pc = "rest", !.batch = NoBatch, !.gap = TRUE]
    BY <2>1, EmptyRecords DEF EndCycle, LoopShape, LoopSteps
  <2>2. CASE loop' = [loop EXCEPT !.pc = "rest", !.batch = NoBatch]
    BY <2>2, EmptyRecords DEF EndCycle, LoopShape, LoopSteps
  <2> QED  BY <2>1, <2>2 DEF EndCycle
<1> QED  BY <1>1, <1>2, EmptyRecords DEF LoopShape

ThreadActions == LoopStep \/ CycleFails
LEMMA ThreadQueue ==
    ASSUME DrainLimit \in Nat, QueueCapacity \in Nat, LifecycleShape, QueueKept,
           raised \subseteq Files, LoopShape, ThreadActions
    PROVE  QueueServed
<1>1. CASE BeginPass \/ ReadRegistry \/ TryGate \/ ServeGap \/ WaitEnds \/ CycleFails
  <2>1. UNCHANGED callbackVars /\ raised' \subseteq raised
    BY <1>1 DEF BeginPass, ReadRegistry, TryGate, ServeGap, WaitEnds, CycleFails
  <2> QED  BY <2>1, UntouchedQueue
<1>2. CASE Synchronize
  <2>1. DropSource \/ (UNCHANGED callbackVars /\ raised' \subseteq raised)
    BY <1>2 DEF Synchronize
  <2> QED  BY <2>1, DroppedSource, UntouchedQueue
<1>3. CASE ApplyBatch
  BY <1>3, EndedCycle DEF ApplyBatch
<1> QED  BY <1>1, <1>2, <1>3, OpenedQueue, DrainedQueue DEF ThreadActions, LoopStep

-----------------------------------------------------------------------------
(* What the thread does with its source and with the barrier.              *)
ThreadShaped ==
    /\ LoopShape'
    /\ UNCHANGED <<registry, granted, revocation>> /\ barrier'.requested = barrier.requested
    /\ loop'.pass <= barrier.requested /\ barrier'.acknowledged <= barrier.requested
    /\ barrier'.acknowledged >= barrier.acknowledged
    /\ \/ source'.folders \subseteq source.folders /\ barrier' = barrier
       \/ source'.folders \subseteq granted
    /\ ~source'.open => source'.folders = {}
    /\ loop.pc # "ended"
    /\ loop'.pc = "ended" => ~source'.open

LEMMA PassBegins ==
    ASSUME LoopShape, Barrier, Closing, BeginPass
    PROVE  ThreadShaped
<1>1. CASE loop.stop
  <2>1. loop' = [loop EXCEPT !.pc = "ended"] /\ source' = NoSource
    BY <1>1 DEF BeginPass
  <2>2. UNCHANGED <<registry, granted, revocation, barrier, gate>> /\ loop.pc = "pass"
    BY DEF BeginPass, scopeVars
  <2>0. barrier.acknowledged \in Nat
    BY DEF LoopShape
  <2>3. LoopShape' /\ loop'.pc = "ended" /\ loop'.pass = loop.pass
    BY <2>1, <2>2, EmptyRecords DEF LoopShape, LoopSteps
  <2>4. source'.folders = {} /\ ~source'.open
    BY <2>1, EmptyRecords
  <2> QED  BY <2>0, <2>2, <2>3, <2>4 DEF Barrier, Closing, ThreadShaped
<1>2. CASE ~loop.stop
  <2> DEFINE ahead == barrier.requested > barrier.acknowledged
  <2>1. /\ loop' = [loop EXCEPT !.pc = "registry", !.pass = barrier.requested, !.only = ahead]
        /\ source' = source /\ ahead \in BOOLEAN
    BY <1>2 DEF BeginPass, LoopShape
  <2> HIDE DEF ahead
  <2>2. UNCHANGED <<registry, granted, revocation, barrier, gate>> /\ loop.pc = "pass"
    BY DEF BeginPass, scopeVars
  <2>3. LoopShape' /\ loop'.pc = "registry" /\ loop'.pass = barrier.requested
    BY <2>1, <2>2 DEF LoopShape, LoopSteps
  <2>4. barrier.requested \in Nat /\ barrier.acknowledged \in Nat
    BY DEF LoopShape
  <2> QED  BY <2>1, <2>2, <2>3, <2>4 DEF Barrier, Closing, ThreadShaped
<1> QED  BY <1>1, <1>2

\* Steps that leave the registrations and the barrier as they are.
LEMMA ThreadMoves ==
    ASSUME LoopShape, Barrier, Closing, ScopeShape,
           ReadRegistry \/ TryGate \/ ServeGap \/ WaitEnds \/ CycleFails
    PROVE  ThreadShaped
<1>1. /\ UNCHANGED <<registry, granted, revocation, barrier, source>>
      /\ gate' \in {"free", "loop", "revocation"}
  BY DEF ReadRegistry, TryGate, ServeGap, WaitEnds, CycleFails, scopeVars, LoopShape
<1>2. /\ loop' \in [pc : LoopSteps, pass : Nat, only : BOOLEAN, live : SUBSET Folders,
                    gap : BOOLEAN, stop : BOOLEAN, batch : Batches]
      /\ loop'.pass = loop.pass /\ loop'.pc # "ended" /\ loop.pc # "ended"
  <2>1. CASE ReadRegistry
    BY <2>1 DEF ReadRegistry, LoopShape, LoopSteps, ScopeShape
  <2>2. CASE TryGate
    <3>0. loop.pc = "cycle"
      BY <2>2 DEF TryGate
    <3>1. PICK next \in {"retry", "pass", "begin"} : loop' = [loop EXCEPT !.pc = next]
      BY <2>2 DEF TryGate
    <3> QED  BY <3>0, <3>1 DEF LoopShape, LoopSteps
  <2>3. CASE ServeGap
    BY <2>3 DEF ServeGap, LoopShape, LoopSteps
  <2>4. CASE WaitEnds
    BY <2>4 DEF WaitEnds, LoopShape, LoopSteps
  <2>5. CASE CycleFails
    <3>1. loop' = [loop EXCEPT !.pc = "retry", !.batch = NoBatch] /\ loop.pc = "apply"
      BY <2>5 DEF CycleFails
    <3> QED  BY <3>1, EmptyRecords DEF LoopShape, LoopSteps
  <2> QED  BY <2>1, <2>2, <2>3, <2>4, <2>5
<1> QED  BY <1>1, <1>2 DEF LoopShape, Barrier, Closing, ThreadShaped

LEMMA SourceOpens ==
    ASSUME LoopShape, Barrier, Closing, OpenSource
    PROVE  ThreadShaped
<1>1. /\ UNCHANGED <<registry, granted, revocation, barrier, gate>>
      /\ loop.pc = "source"
  BY DEF OpenSource, scopeVars
<1>2. /\ loop' \in [pc : LoopSteps, pass : Nat, only : BOOLEAN, live : SUBSET Folders,
                    gap : BOOLEAN, stop : BOOLEAN, batch : Batches]
      /\ loop'.pass = loop.pass /\ loop'.pc = "sync"
  <2>1. CASE loop' = [loop EXCEPT !.pc = "sync", !.gap = TRUE]
    BY <2>1 DEF LoopShape, LoopSteps
  <2>2. CASE loop' = [loop EXCEPT !.pc = "sync"]
    BY <2>2 DEF LoopShape, LoopSteps
  <2> QED  BY <2>1, <2>2 DEF OpenSource
<1>3. /\ source' \in [open : BOOLEAN, folders : SUBSET Folders]
      /\ source'.folders \subseteq source.folders /\ (~source'.open => source'.folders = {})
  <2>1. CASE UNCHANGED source
    BY <2>1 DEF LoopShape, Closing
  <2>2. CASE source' = [NoSource EXCEPT !.open = TRUE]
    <3>1. source' = [open |-> TRUE, folders |-> {}]
      BY <2>2 DEF NoSource
    <3> QED  BY <3>1
  <2> QED  BY <2>1, <2>2 DEF OpenSource
<1> QED  BY <1>1, <1>2, <1>3 DEF LoopShape, Barrier, Closing, ThreadShaped

\* A pass answers for the barrier that it saw when it began, after it registered what is
\* still granted, and only that.
LEMMA SourceSynchronizes ==
    ASSUME LoopShape, Barrier, Closing, Synchronize
    PROVE  ThreadShaped
<1> DEFINE desired == loop.live \cap granted
           answered == IF loop.pass > barrier.acknowledged THEN loop.pass
                       ELSE barrier.acknowledged
           next == AfterSync
<1>1. /\ UNCHANGED <<registry, granted, revocation, gate>>
      /\ loop.pc = "sync" /\ next \in {"pass", "cycle"}
      /\ barrier' = [barrier EXCEPT !.acknowledged = answered]
  BY DEF Synchronize, scopeVars, Acknowledge, AfterSync
<1>2. answered \in Nat /\ answered <= barrier.requested /\ answered >= barrier.acknowledged
  BY DEF LoopShape, Barrier
<1> HIDE DEF answered
<1>3. /\ barrier' \in [requested : Nat, acknowledged : Nat]
      /\ barrier'.requested = barrier.requested /\ barrier'.acknowledged <= barrier.requested
      /\ barrier'.acknowledged >= barrier.acknowledged
  BY <1>1, <1>2 DEF LoopShape
<1>4. desired \subseteq Folders /\ desired \subseteq granted
  BY DEF LoopShape
<1>5. /\ source' \in [open : BOOLEAN, folders : SUBSET Folders]
      /\ source'.folders \subseteq granted /\ (~source'.open => source'.folders = {})
  <2>1. CASE source.open /\ source' = [source EXCEPT !.folders = desired]
    BY <1>4, <2>1 DEF LoopShape
  <2>2. CASE DropSource
    BY <2>2, EmptyRecords DEF DropSource
  <2>3. CASE ~source.open /\ UNCHANGED source
    BY <2>3 DEF LoopShape, Closing
  <2> QED  BY <2>1, <2>2, <2>3 DEF Synchronize, Registered
<1> HIDE DEF next, desired
<1>6. /\ loop' \in [pc : LoopSteps, pass : Nat, only : BOOLEAN, live : SUBSET Folders,
                    gap : BOOLEAN, stop : BOOLEAN, batch : Batches]
      /\ loop'.pass = loop.pass /\ loop'.pc = next
  <2>1. PICK open \in BOOLEAN : loop' = [loop EXCEPT !.pc = next, !.gap = open]
    <3>1. CASE loop' = [loop EXCEPT !.pc = next, !.gap = loop.gap \/ Registers(desired)]
      <4>1. (loop.gap \/ Registers(desired)) \in BOOLEAN
        BY DEF Registers
      <4> QED  BY <3>1, <4>1
    <3>2. CASE loop' = [loop EXCEPT !.pc = next, !.gap = TRUE]
      BY <3>2
    <3>3. CASE loop' = [loop EXCEPT !.pc = next]
      <4>1. loop' = [loop EXCEPT !.pc = next, !.gap = loop.gap] /\ loop.gap \in BOOLEAN
        BY <3>3 DEF LoopShape
      <4> QED  BY <4>1
    <3> QED  BY <3>1, <3>2, <3>3 DEF Synchronize, next, desired
  <2> QED  BY <1>1, <2>1 DEF LoopShape, LoopSteps
<1>7. LoopShape' /\ loop'.pc # "ended" /\ loop'.pass <= barrier.requested
  BY <1>1, <1>3, <1>5, <1>6 DEF LoopShape, Barrier
<1> QED  BY <1>1, <1>3, <1>5, <1>7 DEF ThreadShaped

LEMMA CycleDrainsAndApplies ==
    ASSUME QueueCapacity \in Nat, DrainLimit \in Nat, LifecycleShape, QueueKept,
           LoopShape, Barrier, Closing, Drain \/ ApplyBatch
    PROVE  ThreadShaped
<1>1. UNCHANGED <<registry, granted, revocation, barrier>> /\ loop.pc \in {"drain", "apply"}
  BY DEF Drain, ApplyBatch, scopeVars
<1>2. CASE Drain
  <2> DEFINE taken == [files |-> ToSet(Taken), all |-> flags.all, failed |-> flags.failed]
  <2>1. taken \in Batches
    BY <1>2, DrainedQueue DEF Batches, QueueKept
  <2> HIDE DEF taken
  <2>2. UNCHANGED <<source, gate>>
    BY <1>2 DEF Drain
  <2>3. \/ loop' = [loop EXCEPT !.pc = "apply", !.batch = taken]
        \/ loop' = [loop EXCEPT !.pc = "apply"]
    BY <1>2 DEF Drain, taken
  <2>4. /\ loop' \in [pc : LoopSteps, pass : Nat, only : BOOLEAN, live : SUBSET Folders,
                      gap : BOOLEAN, stop : BOOLEAN, batch : Batches]
        /\ loop'.pass = loop.pass /\ loop'.pc = "apply"
    <3>1. CASE loop' = [loop EXCEPT !.pc = "apply", !.batch = taken]
      BY <2>1, <3>1 DEF LoopShape, LoopSteps
    <3>2. CASE loop' = [loop EXCEPT !.pc = "apply"]
      BY <3>2 DEF LoopShape, LoopSteps
    <3> QED  BY <2>3, <3>1, <3>2
  <2> QED  BY <1>1, <2>2, <2>4 DEF LoopShape, Barrier, Closing, ThreadShaped
<1>3. CASE ApplyBatch
  <2>1. /\ LoopShape' /\ (source' = source \/ source' = NoSource)
        /\ loop'.pc = "rest" /\ loop'.pass = loop.pass
    BY <1>1, <1>3, EndedCycle DEF ApplyBatch
  <2>2. source'.folders \subseteq source.folders /\ (~source'.open => source'.folders = {})
    BY <2>1, EmptyRecords DEF Closing
  <2>3. barrier.acknowledged \in Nat
    BY DEF LoopShape
  <2> QED  BY <1>1, <2>1, <2>2, <2>3 DEF Barrier, ThreadShaped
<1> QED  BY <1>2, <1>3

LEMMA ThreadKeeps ==
    ASSUME QueueCapacity \in Nat, DrainLimit \in Nat, NativeInv, ThreadActions
    PROVE  NativeInv'
<1>1. LifecycleShape /\ QueueKept /\ raised \subseteq Files /\ LoopShape /\ ScopeShape
      /\ Barrier /\ Closing /\ Silence
  BY DEF NativeInv, NativeShape
<1>2. QueueServed
  BY <1>1, ThreadQueue
<1>3. ThreadShaped
  BY <1>1, PassBegins, ThreadMoves, SourceOpens, SourceSynchronizes, CycleDrainsAndApplies
     DEF ThreadActions, LoopStep
<1>4. ScopeShape' /\ Silence'
  BY <1>1, <1>2, <1>3 DEF ScopeShape, Silence, QueueServed, ThreadShaped, Quiet
<1>5. Barrier'
  <2>1. /\ barrier.acknowledged \in Nat /\ barrier'.acknowledged \in Nat
        /\ barrier.requested \in Nat /\ revocation.ticket \in Nat
    BY <1>1, <1>3 DEF LoopShape, ScopeShape, ThreadShaped
  <2> QED  BY <1>1, <1>3, <2>1 DEF Barrier, ThreadShaped, Ticketed, Committed
<1>6. Closing'
  BY <1>1, <1>3 DEF Closing, ThreadShaped
<1> QED  BY <1>1, <1>2, <1>3, <1>4, <1>5, <1>6 DEF NativeInv, NativeShape, QueueServed, ThreadShaped

-----------------------------------------------------------------------------
(* What the revocation does.                                               *)
RevocationMoves(to) ==
    /\ revocation' \in [pc : RevocationSteps, ticket : Nat, retired : BOOLEAN]
    /\ revocation'.pc = to
LEMMA Moving ==
    ASSUME ScopeShape, NEW from, NEW to \in RevocationSteps, Revoking(from, to)
    PROVE  RevocationMoves(to) /\ revocation'.ticket = revocation.ticket /\ revocation.pc = from
  BY DEF ScopeShape, Revoking, RevocationMoves

\* Before the commit: nothing that the invariant speaks of holds yet.
LEMMA EarlyRevocation ==
    ASSUME NativeInv, LockForRevocation \/ CommitRevocation
    PROVE  NativeInv'
<1>1. LifecycleShape /\ QueueKept /\ raised \subseteq Files /\ LoopShape /\ ScopeShape
      /\ Barrier /\ Closing /\ Silence
  BY DEF NativeInv, NativeShape
<1>2. UNCHANGED <<lifecycle, signals, flags, raised, source, loop, barrier, registry>>
      /\ gate' \in {"free", "loop", "revocation"} /\ granted' \subseteq granted
  BY <1>1 DEF LockForRevocation, CommitRevocation, callbackVars, KeepsLoop, loopVars, LoopShape
<1>3. \/ RevocationMoves("locked")
      \/ RevocationMoves("committed") /\ Revoked \notin granted'
  <2>1. CASE LockForRevocation
    BY <1>1, <2>1, Moving DEF LockForRevocation, RevocationSteps
  <2>2. CASE CommitRevocation
    BY <1>1, <2>2, Moving DEF CommitRevocation, RevocationSteps
  <2> QED  BY <2>1, <2>2
<1>4. LifecycleShape' /\ QueueKept' /\ raised' \subseteq Files /\ LoopShape' /\ ScopeShape'
  BY <1>1, <1>2, <1>3 DEF LifecycleShape, QueueKept, LoopShape, ScopeShape, RevocationMoves
<1>5. Barrier' /\ Closing' /\ Silence'
  BY <1>1, <1>2, <1>3 DEF Barrier, Closing, Silence, Committed, Ticketed, Cleared, RevocationMoves
<1> QED  BY <1>4, <1>5 DEF NativeInv, NativeShape

\* The ticket is one that no pass has answered for.
LEMMA TicketIsFresh ==
    ASSUME NativeInv, RequestTicket
    PROVE  NativeInv'
<1>1. LifecycleShape /\ QueueKept /\ raised \subseteq Files /\ LoopShape /\ ScopeShape
      /\ Barrier /\ Closing /\ Silence
  BY DEF NativeInv, NativeShape
<1>2. UNCHANGED <<lifecycle, signals, flags, raised, source, loop, registry, granted, gate>>
  BY DEF RequestTicket, callbackVars
<1>3. /\ barrier' = [barrier EXCEPT !.requested = barrier.requested + 1]
      /\ revocation' = [revocation EXCEPT !.pc = "requested", !.ticket = barrier.requested + 1]
      /\ revocation.pc = "committed"
  BY DEF RequestTicket
<1>4. barrier.requested \in Nat /\ barrier.acknowledged \in Nat /\ loop.pass \in Nat
  BY <1>1 DEF LoopShape
<1>5. /\ barrier' \in [requested : Nat, acknowledged : Nat]
      /\ barrier'.requested = barrier.requested + 1
      /\ barrier'.acknowledged = barrier.acknowledged
  BY <1>1, <1>3, <1>4 DEF LoopShape
<1>6. RevocationMoves("requested") /\ revocation'.ticket = barrier.requested + 1
  <2> DEFINE ticket == barrier.requested + 1
  <2>1. ticket \in Nat /\ revocation' = [revocation EXCEPT !.pc = "requested", !.ticket = ticket]
    BY <1>3, <1>4
  <2> HIDE DEF ticket
  <2>2. RevocationMoves("requested") /\ revocation'.ticket = ticket
    BY <1>1, <2>1 DEF ScopeShape, RevocationMoves, RevocationSteps
  <2> QED  BY <2>2 DEF ticket
<1>7. LifecycleShape' /\ QueueKept' /\ raised' \subseteq Files /\ LoopShape' /\ ScopeShape'
  BY <1>1, <1>2, <1>5, <1>6 DEF LifecycleShape, QueueKept, LoopShape, ScopeShape, RevocationMoves
<1>8. Barrier'
  BY <1>1, <1>2, <1>3, <1>4, <1>5, <1>6 DEF Barrier, Committed, RevocationMoves
<1>9. Closing' /\ Silence'
  BY <1>1, <1>2, <1>6 DEF Closing, Silence, Cleared, RevocationMoves
<1> QED  BY <1>7, <1>8, <1>9 DEF NativeInv, NativeShape

\* Steps that leave the thread alone, up to its stop flag, and the barrier.
LEMMA LateRevocation ==
    ASSUME QueueCapacity \in Nat, NativeInv,
           \/ DropCapability \/ WakeRuntime \/ SeeAcknowledged \/ Retire \/ ClearQueue
           \/ AwaitCallback \/ JoinRuntime
    PROVE  NativeInv'
<1>1. LifecycleShape /\ QueueKept /\ raised \subseteq Files /\ LoopShape /\ ScopeShape
      /\ Barrier /\ Closing /\ Silence
  BY DEF NativeInv, NativeShape
<1>2. UNCHANGED <<raised, source, barrier, granted>>
      /\ registry' \subseteq registry /\ gate' \in {"free", "loop", "revocation"}
  BY <1>1 DEF DropCapability, WakeRuntime, SeeAcknowledged, Retire, ClearQueue, AwaitCallback,
     JoinRuntime, KeepsLoop, loopVars, LoopShape
<1>3. /\ loop' \in [pc : LoopSteps, pass : Nat, only : BOOLEAN, live : SUBSET Folders,
                    gap : BOOLEAN, stop : BOOLEAN, batch : Batches]
      /\ loop'.pc = loop.pc /\ loop'.pass = loop.pass
  <2>1. CASE AwaitCallback
    BY <1>1, <2>1 DEF AwaitCallback, LoopShape
  <2>2. CASE UNCHANGED loop
    BY <1>1, <2>2 DEF LoopShape
  <2> QED  BY <2>1, <2>2 DEF DropCapability, WakeRuntime, SeeAcknowledged, Retire, ClearQueue,
              JoinRuntime, KeepsLoop, loopVars
<1>4. LoopShape' /\ ScopeShape'
      /\ revocation.pc \in Ticketed /\ revocation'.pc \in Ticketed
      /\ revocation'.ticket = revocation.ticket
  <2>1. ASSUME NEW from \in {"requested", "waking", "waiting", "retired"},
               NEW to \in {"waking", "waiting", "confirmed", "retired", "cleared"},
               Revoking(from, to)
        PROVE  RevocationMoves(to) /\ revocation.pc \in Ticketed /\ to \in Ticketed
               /\ revocation'.ticket = revocation.ticket
    BY <1>1, <2>1, Moving DEF RevocationSteps, Ticketed, Cleared
  <2>2. ASSUME AwaitCallback
        PROVE  RevocationMoves("stopping") /\ revocation.pc = "cleared"
               /\ revocation'.ticket = revocation.ticket
    <3> DEFINE returned == (lifecycle.callback.pc = "idle")
    <3>1. /\ revocation' = [revocation EXCEPT !.pc = "stopping", !.retired = returned]
          /\ returned \in BOOLEAN /\ revocation.pc = "cleared"
      BY <2>2 DEF AwaitCallback
    <3> HIDE DEF returned
    <3> QED  BY <1>1, <3>1 DEF ScopeShape, RevocationMoves, RevocationSteps
  <2>3. ASSUME JoinRuntime
        PROVE  /\ RevocationMoves("stopped") \/ RevocationMoves("gaveUp")
               /\ revocation.pc = "stopping" /\ revocation'.ticket = revocation.ticket
    <3> DEFINE end == IF loop.pc = "ended" THEN "stopped" ELSE "gaveUp"
               returned == (revocation.retired
                              \/ (loop.pc = "ended" /\ lifecycle.callback.pc = "idle"))
    <3>1. /\ revocation' = [revocation EXCEPT !.pc = end, !.retired = returned]
          /\ returned \in BOOLEAN /\ end \in {"stopped", "gaveUp"} /\ revocation.pc = "stopping"
      BY <1>1, <2>3 DEF JoinRuntime, ScopeShape
    <3> HIDE DEF returned, end
    <3> QED  BY <1>1, <3>1 DEF ScopeShape, RevocationMoves, RevocationSteps
  <2>4. /\ \E to \in Ticketed : RevocationMoves(to)
        /\ revocation.pc \in Ticketed /\ revocation'.ticket = revocation.ticket
    BY <2>1, <2>2, <2>3 DEF DropCapability, WakeRuntime, SeeAcknowledged, Retire, ClearQueue,
       Ticketed, Cleared
  <2> QED  BY <1>1, <1>2, <1>3, <2>4 DEF LoopShape, ScopeShape, RevocationMoves
<1>5. Barrier'
  <2>1. revocation'.pc = "confirmed" => barrier.acknowledged >= revocation.ticket
    BY <1>1 DEF DropCapability, WakeRuntime, SeeAcknowledged, Retire, ClearQueue, AwaitCallback,
       JoinRuntime, Revoking, ScopeShape
  <2> QED  BY <1>1, <1>2, <1>3, <1>4, <2>1 DEF Barrier, Committed
<1>6. Closing'
  <2>1. CASE JoinRuntime
    <3>1. revocation'.pc = "stopped" => loop.pc = "ended"
      BY <1>1, <2>1 DEF JoinRuntime, ScopeShape
    <3> QED  BY <1>1, <1>2, <1>3, <3>1 DEF Closing
  <2>2. CASE ~JoinRuntime
    <3>1. revocation'.pc # "stopped"
      BY <1>1, <2>2 DEF DropCapability, WakeRuntime, SeeAcknowledged, Retire, ClearQueue,
         AwaitCallback, Revoking, ScopeShape
    <3> QED  BY <1>1, <1>2, <1>3, <3>1 DEF Closing
  <2> QED  BY <2>1, <2>2
<1>7. LifecycleShape' /\ QueueKept' /\ Silence'
  <2>1. CASE Retire
    <3>1. /\ lifecycle' \in [retired : BOOLEAN, callback : Callbacks]
          /\ lifecycle'.retired /\ lifecycle'.callback = lifecycle.callback
      BY <1>1, <2>1 DEF Retire, LifecycleShape
    <3>2. UNCHANGED <<signals, flags>> /\ revocation'.pc = "retired"
      BY <1>1, <2>1 DEF Retire, Revoking, ScopeShape
    <3> QED  BY <1>1, <3>1, <3>2 DEF LifecycleShape, QueueKept, Silence, Cleared
  <2>2. CASE ClearQueue
    <3>1. /\ UNCHANGED lifecycle /\ signals' = <<>> /\ flags' = [all |-> FALSE, failed |-> FALSE]
          /\ revocation.pc = "retired"
      BY <2>2 DEF ClearQueue, Revoking
    <3> QED  BY <1>1, <3>1, EmptySeq DEF LifecycleShape, QueueKept, Silence
  <2>3. CASE ~Retire /\ ~ClearQueue
    <3>1. UNCHANGED <<lifecycle, signals, flags>>
      BY <2>3 DEF DropCapability, WakeRuntime, SeeAcknowledged, AwaitCallback, JoinRuntime,
         callbackVars
    <3>2. \/ revocation'.pc \in {"waking", "waiting", "confirmed"}
          \/ revocation.pc \in Cleared
      BY <1>1, <2>3 DEF DropCapability, WakeRuntime, SeeAcknowledged, AwaitCallback, JoinRuntime,
         Revoking, ScopeShape, Cleared
    <3> QED  BY <1>1, <3>1, <3>2 DEF LifecycleShape, QueueKept, Silence, Cleared
  <2> QED  BY <2>1, <2>2, <2>3
<1> QED  BY <1>1, <1>2, <1>4, <1>5, <1>6, <1>7 DEF NativeInv, NativeShape

LEMMA ChangeKeeps ==
    ASSUME NativeInv, NEW f \in Files, Change(f)
    PROVE  NativeInv'
<1>1. UNCHANGED <<lifecycle, signals, flags, source, loop, barrier, registry, granted, revocation,
                  gate>> /\ raised' \subseteq raised \cup {f}
  BY DEF Change, callbackVars, loopVars, scopeVars
<1> QED  BY <1>1 DEF NativeInv, NativeShape, LifecycleShape, QueueKept, LoopShape, ScopeShape,
            Barrier, Closing, Silence

LEMMA NativeStep ==
    ASSUME QueueCapacity \in Nat, DrainLimit \in Nat, NativeInv, [Next]_vars
    PROVE  NativeInv'
<1>1. CASE UNCHANGED vars
  BY <1>1 DEF vars, NativeInv, NativeShape, LifecycleShape, QueueKept, LoopShape, ScopeShape,
     Barrier, Closing, Silence
<1>2. CASE Next
  BY <1>2, CallbackKeeps, ThreadKeeps, EarlyRevocation, TicketIsFresh, LateRevocation, ChangeKeeps
     DEF Next, CallbackStep, CallbackActions, ThreadActions, RevocationStep
<1> QED  BY <1>1, <1>2

LEMMA NativeHolds ==
    ASSUME QueueCapacity \in Nat, DrainLimit \in Nat
    PROVE  Spec => []NativeInv
<1>1. Init => NativeInv
  BY InitNative
<1>2. NativeInv /\ [Next]_vars => NativeInv'
  BY NativeStep
<1> QED  BY <1>1, <1>2, PTL DEF Spec

\* NativeEventQueue::push, NativeWatchSynchronizationBarrier and NativeWatchSource::sync_roots:
\* the queue of raw events never exceeds its capacity and names only files, a source that is
\* closed has no registration, and no pass answers for a barrier that was not requested.
THEOREM NativeIsWellTyped ==
    ASSUME QueueCapacity \in Nat, DrainLimit \in Nat
    PROVE  Spec => []NativeTypeOK
<1>1. NativeInv => NativeTypeOK
  BY DEF NativeInv, NativeShape, QueueKept, LoopShape, LoopSteps, Barrier, Closing, NativeTypeOK,
     ToSet
<1> QED  BY <1>1, NativeHolds, PTL

\* confirm_scope_root_revocation: when the command reports the native source as synchronised, the
\* source has no registration of the revoked folder, in whatever order the passes of the thread,
\* its retries and the failures of the platform fell; when it reports the runtime as stopped there
\* is no source.
THEOREM RevokedFoldersAreUnregistered ==
    ASSUME QueueCapacity \in Nat, DrainLimit \in Nat
    PROVE  Spec => []RevokedIsUnregistered
<1>1. NativeInv => RevokedIsUnregistered
  BY DEF NativeInv, RevokedIsUnregistered, Barrier, Closing, Ticketed
<1> QED  BY <1>1, NativeHolds, PTL

\* retire_watch_runtime_after_revocation_timeout: once a retirement has cleared the queue, a
\* callback that was under way, however long it takes, cannot refill it.
THEOREM RetiredSourcesAreSilent ==
    ASSUME QueueCapacity \in Nat, DrainLimit \in Nat
    PROVE  Spec => []RetiredIsSilent
<1>1. NativeInv => RetiredIsSilent
  BY DEF NativeInv, Silence, Cleared, RetiredIsSilent
<1> QED  BY <1>1, NativeHolds, PTL
=============================================================================
