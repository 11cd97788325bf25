------------------------ MODULE RenamePreviewProofs -------------------------
(* What the plan of a rename was made of, for any number of folders, files,  *)
(* versions, moves and plans (RenamePreview).                                *)
EXTENDS RenamePreview, TLAPS

Bounds == /\ FirstFolder \in Folders
          /\ MaxVersion \in Nat \ {0} /\ MaxMoves \in Nat

-----------------------------------------------------------------------------
(* The shape of the state. *)
Steps == {"idle", "look", "row", "compare", "destination", "bind", "hash", "rest", "again",
          "insert"}
Versions == 1 .. MaxVersion
Entries == Files \cup {NoFile}
Rows == [file : Entries, version : Nat, folder : Folders]
Calls == [pc : Steps, strategy : {"direct", "staged"}, revision : Nat, stamp : Nat, row : Rows,
          hash : SUBSET Versions]
Manifests == [folder : Folders, at : [Names -> Entries], version : [Names -> Nat]]

DiskShape ==
    /\ place \in Folders /\ moves \in 0 .. MaxMoves
    /\ version \in [Files -> Versions]
    /\ entries \in [Folders -> [Names -> Entries]]
ManifestShape ==
    /\ manifest \in Manifests
    /\ policy \in [revision : Nat, granted : BOOLEAN, excluded : SUBSET Names]
CallShape == call \in Calls

\* From the row of the manifest on, the call is about a file; from its binding on, the file was
\* once in the state of its row, and what is read of it is no older.
RowSteps == {"compare", "destination", "bind", "hash", "rest", "again", "insert"}
BoundSteps == {"hash", "rest", "again"}
RowIsOfAFile == call.pc \in RowSteps => call.row.file \in Files \ {NoFile}
HashIsRecent ==
    /\ call.pc \in BoundSteps => call.row.version <= version[call.row.file]
    /\ call.pc \in {"rest", "again"} =>
         call.hash # {} /\ \A h \in call.hash :
                             call.row.version <= h /\ h <= version[call.row.file]
HashIsOfRow == call.pc = "insert" => call.hash = {call.row.version}

CallIsSound == RowIsOfAFile /\ HashIsRecent /\ HashIsOfRow
PreviewShape == DiskShape /\ ManifestShape /\ CallShape
PreviewInv == PreviewShape /\ CallIsSound /\ PlanHashesItsRow

LEMMA EmptyCall ==
    ASSUME Bounds
    PROVE  NoCall \in Calls /\ NoCall.pc = "idle"
  BY DEF Bounds, NoCall, NoRow, Calls, Rows, Steps, Entries

LEMMA ScannedShape ==
    ASSUME DiskShape
    PROVE  Scanned \in Manifests
<1>1. \A n \in Names : entries[place][n] \in Entries
  BY DEF DiskShape
<1>2. \A f \in Entries : f = NoFile \/ version[f] \in Nat
  BY DEF DiskShape, Entries, Versions
<1> QED  BY <1>1, <1>2 DEF Scanned, Manifests, DiskShape

LEMMA InitSound ==
    ASSUME Bounds, PreviewInit
    PROVE  PreviewInv
<1>1. DiskShape
  <2>1. ASSUME NEW f \in Files
        PROVE  [n \in Names |-> IF n = "source" THEN f ELSE NoFile] \in [Names -> Entries]
    BY DEF Entries
  <2>2. entries \in [Folders -> [Names -> Entries]]
    BY <2>1 DEF PreviewInit
  <2> QED  BY <2>2 DEF PreviewInit, DiskShape, Bounds, Versions
<1>2. ManifestShape
  BY <1>1, ScannedShape DEF PreviewInit, ManifestShape
<1>3. CallShape /\ CallIsSound /\ PlanHashesItsRow
  BY EmptyCall DEF PreviewInit, CallShape, CallIsSound, RowIsOfAFile, HashIsRecent, HashIsOfRow,
     RowSteps, BoundSteps, PlanHashesItsRow
<1> QED  BY <1>1, <1>2, <1>3 DEF PreviewInv, PreviewShape

-----------------------------------------------------------------------------
(* Other programs: no version ever falls. *)
LEMMA Writing ==
    ASSUME Bounds, PreviewInv, NEW f \in Files, Write(f)
    PROVE  PreviewInv'
<1>1. DiskShape /\ ManifestShape /\ CallShape /\ CallIsSound /\ PlanHashesItsRow
  BY DEF PreviewInv, PreviewShape
<1>2. /\ version' = [version EXCEPT ![f] = version[f] + 1] /\ version[f] < MaxVersion
      /\ UNCHANGED <<platform, place, entries, moves, manifest, policy, call, plans>>
  BY DEF Write
<1>3. /\ version' \in [Files -> Versions]
      /\ \A g \in Files : /\ version[g] <= version'[g]
                          /\ version[g] \in Nat /\ version'[g] \in Nat
  BY <1>1, <1>2 DEF DiskShape, Versions, Bounds
<1>4. DiskShape' /\ ManifestShape' /\ CallShape' /\ PlanHashesItsRow'
  BY <1>1, <1>2, <1>3 DEF DiskShape, ManifestShape, CallShape, PlanHashesItsRow
<1>5. CallIsSound'
  <2>1. call.row.version \in Nat /\ call.hash \subseteq Nat
    BY <1>1 DEF CallShape, Calls, Rows, Versions
  <2> QED  BY <1>1, <1>2, <1>3, <2>1 DEF CallIsSound, RowIsOfAFile, HashIsRecent, HashIsOfRow,
          RowSteps, BoundSteps
<1> QED  BY <1>4, <1>5 DEF PreviewInv, PreviewShape

LEMMA Moving ==
    ASSUME Bounds, PreviewInv,
           \/ \E n \in Names, f \in Entries : Put(n, f)
           \/ \E d \in Folders : Replace(d)
    PROVE  PreviewInv'
<1>1. DiskShape /\ ManifestShape /\ CallShape /\ CallIsSound /\ PlanHashesItsRow
  BY DEF PreviewInv, PreviewShape
<1>2. /\ UNCHANGED <<version, manifest, policy, call, plans>>
      /\ moves < MaxMoves /\ moves' = moves + 1
  BY DEF Put, Replace, Moves
<1>3. place' \in Folders /\ entries' \in [Folders -> [Names -> Entries]]
  <2>1. ASSUME NEW n \in Names, NEW f \in Entries, Put(n, f)
        PROVE  place' \in Folders /\ entries' \in [Folders -> [Names -> Entries]]
    BY <1>1, <2>1 DEF Put, DiskShape
  <2>2. ASSUME NEW d \in Folders, Replace(d)
        PROVE  place' \in Folders /\ entries' \in [Folders -> [Names -> Entries]]
    BY <1>1, <2>2 DEF Replace, DiskShape
  <2> QED  BY <2>1, <2>2
<1>4. DiskShape'
  BY <1>1, <1>2, <1>3 DEF DiskShape, Bounds
<1>5. ManifestShape' /\ CallShape' /\ PlanHashesItsRow' /\ CallIsSound'
  BY <1>1, <1>2 DEF ManifestShape, CallShape, PlanHashesItsRow, CallIsSound, RowIsOfAFile,
          HashIsRecent, HashIsOfRow
<1> QED  BY <1>4, <1>5 DEF PreviewInv, PreviewShape

LEMMA Publishing ==
    ASSUME Bounds, PreviewInv,
           \/ Publish
           \/ \E granted \in BOOLEAN, excluded \in SUBSET Names : ChangePolicy(granted, excluded)
    PROVE  PreviewInv'
<1>1. DiskShape /\ ManifestShape /\ CallShape /\ CallIsSound /\ PlanHashesItsRow
  BY DEF PreviewInv, PreviewShape
<1>2. UNCHANGED <<platform, place, entries, version, moves, call>> /\ plans' \subseteq plans
  BY DEF Publish, ChangePolicy, diskVars
<1>3. ManifestShape'
  <2>1. CASE Publish
    <3> DEFINE hidden == [n \in Names |-> IF n \in policy.excluded THEN NoFile ELSE Scanned.at[n]]
    <3>1. Scanned \in Manifests
      BY <1>1, ScannedShape
    <3>2. hidden \in [Names -> Entries]
      BY <3>1 DEF Manifests, Entries
    <3>3. manifest' = [Scanned EXCEPT !.at = hidden]
      BY <2>1, <3>1 DEF Publish, Manifests
    <3> HIDE DEF hidden
    <3>4. manifest' \in Manifests
      BY <3>1, <3>2, <3>3 DEF Manifests
    <3> QED  BY <1>1, <2>1, <3>4 DEF Publish, ManifestShape
  <2>2. ASSUME NEW granted \in BOOLEAN, NEW excluded \in SUBSET Names,
               ChangePolicy(granted, excluded)
        PROVE  ManifestShape'
    <3> DEFINE hidden == [n \in Names |-> IF n \in excluded THEN NoFile ELSE manifest.at[n]]
    <3>1. hidden \in [Names -> Entries]
      BY <1>1 DEF ManifestShape, Manifests, Entries
    <3>2. manifest' = [manifest EXCEPT !.at = hidden]
      BY <1>1, <2>2 DEF ChangePolicy, ManifestShape, Manifests
    <3> HIDE DEF hidden
    <3>3. manifest' \in Manifests
      BY <1>1, <3>1, <3>2 DEF ManifestShape, Manifests
    <3>4. policy' \in [revision : Nat, granted : BOOLEAN, excluded : SUBSET Names]
      BY <1>1, <2>2 DEF ChangePolicy, ManifestShape
    <3> QED  BY <3>3, <3>4 DEF ManifestShape
  <2> QED  BY <2>1, <2>2
<1>4. DiskShape' /\ CallShape' /\ CallIsSound' /\ PlanHashesItsRow'
  BY <1>1, <1>2 DEF DiskShape, CallShape, CallIsSound, RowIsOfAFile, HashIsRecent, HashIsOfRow,
          PlanHashesItsRow
<1> QED  BY <1>3, <1>4 DEF PreviewInv, PreviewShape

-----------------------------------------------------------------------------
(* The call. *)
CallSteps == \/ \E strategy \in {"direct", "staged"} : Begin(strategy)
             \/ Look \/ ReadRow \/ CompareSource \/ CompareDestination \/ Bind
             \/ Hash \/ HashTheRest \/ Revalidate

LEMMA ReadsAreVersions ==
    ASSUME DiskShape, NEW f \in Entries
    PROVE  /\ Reads(f) \in Nat
           /\ f \in Files \ {NoFile} => Reads(f) = version[f] /\ Reads(f) \in Versions
  BY DEF DiskShape, Reads, Versions, Entries

LEMMA Calling ==
    ASSUME Bounds, PreviewInv, CallSteps
    PROVE  CallShape' /\ CallIsSound'
<1>1. DiskShape /\ ManifestShape /\ CallShape /\ CallIsSound
  BY DEF PreviewInv, PreviewShape
<1>2. version' = version
  BY DEF CallSteps, Begin, Look, ReadRow, CompareSource, CompareDestination, Bind, Hash,
          HashTheRest,
     Revalidate, Go, GoIf, diskVars
<1>3. ASSUME call' = NoCall PROVE CallShape' /\ CallIsSound'
  BY <1>3, EmptyCall DEF CallShape, CallIsSound, RowIsOfAFile, HashIsRecent, HashIsOfRow,
          RowSteps, BoundSteps
<1>4. ASSUME NEW from \in Steps, NEW to \in Steps \ {"insert"}, call.pc = from,
             call' = [call EXCEPT !.pc = to], to \in RowSteps => from \in RowSteps,
             to \notin {"rest", "again"}, to = "hash" => Unchanged
      PROVE  CallShape' /\ CallIsSound'
  <2>1. CallShape' /\ call'.pc = to /\ call'.row = call.row
    BY <1>1, <1>4 DEF CallShape, Calls
  <2>2. RowIsOfAFile'
    BY <1>1, <1>4, <2>1 DEF CallIsSound, RowIsOfAFile
  <2>3. to = "hash" => call.row.version <= version[call.row.file]
    <3>1. ASSUME to = "hash" PROVE call.row.version <= version[call.row.file]
      <4>1. call.row.file \in Files \ {NoFile} /\ call.row.version \in Nat
        BY <1>1, <2>1, <2>2, <3>1 DEF RowIsOfAFile, RowSteps, CallShape, Calls, Rows
      <4>2. version[call.row.file] = call.row.version
        BY <1>1, <1>4, <3>1, <4>1, ReadsAreVersions DEF Unchanged, Entries
      <4> QED  BY <4>1, <4>2
    <3> QED  BY <3>1
  <2> QED  BY <1>2, <1>4, <2>1, <2>2, <2>3 DEF CallIsSound, HashIsRecent, HashIsOfRow, BoundSteps
<1>5. ASSUME NEW strategy \in {"direct", "staged"}, Begin(strategy) PROVE CallShape' /\ CallIsSound'
  <2>1. call' = [call EXCEPT !.pc = "look", !.strategy = strategy, !.revision = policy.revision]
    BY <1>5 DEF Begin, Go
  <2>2. CallShape' /\ call'.pc = "look"
    BY <1>1, <2>1 DEF CallShape, Calls, ManifestShape, Steps
  <2> QED  BY <2>2 DEF CallIsSound, RowIsOfAFile, HashIsRecent, HashIsOfRow, RowSteps, BoundSteps
<1>6. CASE Look
  <2>0. Reads(Source) \in Nat
    BY <1>1, ReadsAreVersions DEF Source, DiskShape, Names
  <2> DEFINE stamp == Reads(Source)
  <2>1. call' = [call EXCEPT !.pc = "row", !.stamp = stamp] \/ call' = NoCall
    BY <1>6 DEF Look, Go, GoIf
  <2> HIDE DEF stamp
  <2>2. CASE call' = [call EXCEPT !.pc = "row", !.stamp = stamp]
    <3>1. CallShape' /\ call'.pc = "row"
      BY <1>1, <2>0, <2>2 DEF CallShape, Calls, Steps, stamp
    <3> QED  BY <3>1 DEF CallIsSound, RowIsOfAFile, HashIsRecent, HashIsOfRow, RowSteps, BoundSteps
  <2> QED  BY <1>3, <2>1, <2>2
<1>7. CASE ReadRow
  <2> DEFINE row == RowOf(manifest)
  <2>0. row \in Rows /\ (HasRow(manifest) => row.file \in Files \ {NoFile})
    BY <1>1 DEF RowOf, Rows, HasRow, ManifestShape, Manifests, Names, Entries
  <2>1. \/ call' = [call EXCEPT !.pc = "compare", !.row = row] /\ HasRow(manifest)
        \/ call' = NoCall
    BY <1>7 DEF ReadRow, Go, GoIf
  <2> HIDE DEF row
  <2>2. CASE call' = [call EXCEPT !.pc = "compare", !.row = row] /\ HasRow(manifest)
    <3>1. CallShape' /\ call'.pc = "compare" /\ call'.row = row
      BY <1>1, <2>0, <2>2 DEF CallShape, Calls, Steps
    <3> QED  BY <2>0, <2>2, <3>1 DEF CallIsSound, RowIsOfAFile, HashIsRecent, HashIsOfRow,
            RowSteps, BoundSteps
  <2> QED  BY <1>3, <2>1, <2>2
<1>8. CASE CompareSource \/ CompareDestination \/ Bind
  <2>1. call.pc \in {"compare", "destination", "bind"} /\ call.pc \in Steps \cap RowSteps
    BY <1>8 DEF CompareSource, CompareDestination, Bind, Steps, RowSteps
  <2>2. \/ call' = NoCall
        \/ call' = [call EXCEPT !.pc = "destination"]
        \/ call' = [call EXCEPT !.pc = "bind"]
        \/ call' = [call EXCEPT !.pc = "hash"] /\ Unchanged
    BY <1>8 DEF CompareSource, CompareDestination, Bind, Go, GoIf
  <2> QED  BY <1>3, <1>4, <2>1, <2>2 DEF Steps
<1>9. CASE Hash \/ HashTheRest
  <2>1. /\ call.row.file \in Files \ {NoFile} /\ call.row.version \in Nat
        /\ call.row.version <= version[call.row.file] /\ version[call.row.file] \in Versions
        /\ Reads(call.row.file) = version[call.row.file]
    <3>1. call.pc \in BoundSteps /\ call.pc \in RowSteps
      BY <1>9 DEF Hash, HashTheRest, BoundSteps, RowSteps
    <3>2. call.row.file \in Files \ {NoFile} /\ call.row.version \in Nat
      BY <1>1, <3>1 DEF CallIsSound, RowIsOfAFile, CallShape, Calls, Rows
    <3> QED  BY <1>1, <3>1, <3>2, ReadsAreVersions DEF CallIsSound, HashIsRecent, Entries
  <2>2. PICK hash \in SUBSET Versions, to \in {"rest", "again"} :
          /\ call' = [call EXCEPT !.pc = to, !.hash = hash]
          /\ hash # {} /\ \A h \in hash : call.row.version <= h /\ h <= version[call.row.file]
    <3>1. CASE Hash
      <4>1. call' = [call EXCEPT !.pc = "rest", !.hash = {version[call.row.file]}]
        BY <2>1, <3>1 DEF Hash, Go
      <4>2. {version[call.row.file]} \in SUBSET Versions
        BY <2>1
      <4>3. \A h \in {version[call.row.file]} :
              call.row.version <= h /\ h <= version[call.row.file]
        BY <2>1 DEF Versions
      <4> QED  BY <4>1, <4>2, <4>3
    <3>2. CASE HashTheRest
      <4>1. call' = [call EXCEPT !.pc = "again", !.hash = call.hash \cup {version[call.row.file]}]
        BY <2>1, <3>2 DEF HashTheRest, Go
      <4>2. \A h \in call.hash : call.row.version <= h /\ h <= version[call.row.file]
        BY <1>1, <3>2 DEF HashTheRest, CallIsSound, HashIsRecent
      <4>3. call.hash \cup {version[call.row.file]} \in SUBSET Versions
        BY <1>1, <2>1 DEF CallShape, Calls
      <4>4. \A h \in call.hash \cup {version[call.row.file]} :
              call.row.version <= h /\ h <= version[call.row.file]
        BY <2>1, <4>2 DEF Versions
      <4> QED  BY <4>1, <4>3, <4>4
    <3> QED  BY <1>9, <3>1, <3>2
  <2>3. CallShape' /\ call'.pc = to /\ call'.row = call.row /\ call'.hash = hash
    BY <1>1, <2>2 DEF CallShape, Calls, Steps
  <2> QED  BY <1>2, <2>1, <2>2, <2>3 DEF CallIsSound, RowIsOfAFile, HashIsRecent, HashIsOfRow,
          RowSteps, BoundSteps
<1>10. CASE Revalidate
  <2>1. \/ call' = NoCall
        \/ call' = [call EXCEPT !.pc = "insert"] /\ Unchanged
    BY <1>10 DEF Revalidate, Go, GoIf, StillBound
  <2>2. CASE call' = [call EXCEPT !.pc = "insert"] /\ Unchanged
    <3>1. CallShape' /\ call'.pc = "insert" /\ call'.row = call.row /\ call'.hash = call.hash
      BY <1>1, <2>2 DEF CallShape, Calls, Steps
    <3>2. call.pc = "again"
      BY <1>10 DEF Revalidate
    <3>3. call.row.file \in Files \ {NoFile} /\ call.row.version \in Nat /\ call.hash \subseteq Nat
      BY <1>1, <3>2 DEF CallIsSound, RowIsOfAFile, RowSteps, CallShape, Calls, Rows, Versions
    <3>4. version[call.row.file] = call.row.version
      BY <1>1, <2>2, <3>3, ReadsAreVersions DEF Unchanged, Entries
    <3>5. call.hash = {call.row.version}
      BY <1>1, <3>2, <3>3, <3>4 DEF CallIsSound, HashIsRecent
    <3> QED  BY <3>1, <3>3, <3>5 DEF CallIsSound, RowIsOfAFile, HashIsRecent, HashIsOfRow,
            BoundSteps
  <2> QED  BY <1>3, <2>1, <2>2
<1> QED  BY <1>5, <1>6, <1>7, <1>8, <1>9, <1>10 DEF CallSteps

LEMMA Inserting ==
    ASSUME Bounds, PreviewInv, Insert
    PROVE  CallShape' /\ CallIsSound' /\ PlanHashesItsRow'
<1>1. CallShape' /\ CallIsSound'
  BY EmptyCall DEF Insert, CallShape, CallIsSound, RowIsOfAFile, HashIsRecent, HashIsOfRow,
          RowSteps, BoundSteps
<1>2. call.pc = "insert" /\ call.hash = {call.row.version} /\ PlanHashesItsRow
  BY DEF PreviewInv, CallIsSound, HashIsOfRow, Insert
<1>3. \/ plans' = plans
      \/ /\ RowOf(manifest) = call.row
         /\ plans' = plans \cup {[row |-> call.row, hash |-> call.hash,
                                  strategy |-> call.strategy, known |-> RowOf(manifest)]}
  BY DEF Insert, RowIsBound
<1>4. PlanHashesItsRow'
  BY <1>2, <1>3 DEF PlanHashesItsRow
<1> QED  BY <1>1, <1>4

LEMMA PreviewStep ==
    ASSUME Bounds, PreviewInv, [PreviewNext]_previewVars
    PROVE  PreviewInv'
<1>1. DiskShape /\ ManifestShape /\ PlanHashesItsRow
  BY DEF PreviewInv, PreviewShape
<1>2. CASE UNCHANGED previewVars
  BY <1>2 DEF previewVars, PreviewInv, PreviewShape, DiskShape, ManifestShape, CallShape,
          CallIsSound,
     RowIsOfAFile, HashIsRecent, HashIsOfRow, PlanHashesItsRow
<1>3. CASE CallSteps
  <2>1. UNCHANGED <<platform, place, entries, version, moves, manifest, policy, plans>>
    BY <1>3 DEF CallSteps, Begin, Look, ReadRow, CompareSource, CompareDestination, Bind, Hash,
       HashTheRest, Revalidate, Go, GoIf, diskVars
  <2>2. DiskShape' /\ ManifestShape' /\ PlanHashesItsRow'
    BY <1>1, <2>1 DEF DiskShape, ManifestShape, PlanHashesItsRow
  <2> QED  BY <1>3, <2>2, Calling DEF PreviewInv, PreviewShape
<1>4. CASE Insert
  <2>1. DiskShape' /\ ManifestShape'
    BY <1>1, <1>4 DEF Insert, diskVars, DiskShape, ManifestShape
  <2> QED  BY <1>4, <2>1, Inserting DEF PreviewInv, PreviewShape
<1>5. CASE \E f \in Files : Write(f)
  BY <1>5, Writing
<1>6. CASE \E n \in Names : ChangePolicy(TRUE, policy.excluded \cup {n})
  <2>1. PICK n \in Names : ChangePolicy(TRUE, policy.excluded \cup {n})
    BY <1>6
  <2>2. policy.excluded \cup {n} \in SUBSET Names
    BY <1>1, <2>1 DEF ManifestShape
  <2> QED  BY <2>1, <2>2, Publishing
<1>7. CASE Publish \/ ChangePolicy(FALSE, policy.excluded)
  BY <1>1, <1>7, Publishing DEF ManifestShape
<1>8. CASE \/ \E f \in Files, n \in Names : Put(n, f)
           \/ \E n \in Names : Put(n, NoFile)
           \/ \E d \in Folders : Replace(d)
  BY <1>8, Moving DEF Entries
<1> QED  BY <1>2, <1>3, <1>4, <1>5, <1>6, <1>7, <1>8 DEF PreviewNext, CallSteps

\* The state of a plan in the making and of what it reads, as the tables and records have it.
THEOREM PreviewIsWellTyped ==
    ASSUME Bounds
    PROVE  PreviewSpec => []PreviewTypeOK
<1>1. PreviewInit => PreviewInv
  BY InitSound
<1>2. PreviewInv /\ [PreviewNext]_previewVars => PreviewInv'
  BY PreviewStep
<1>3. PreviewInv => PreviewTypeOK
  BY DEF PreviewInv, PreviewShape, DiskShape, CallShape, Calls, Versions, Entries, PreviewTypeOK
<1> QED  BY <1>1, <1>2, <1>3, PTL DEF PreviewSpec

\* create_rename_preview: the file is bound to its row before it is hashed and bound again
\* after, and no write takes its size and time back; so the hash of every plan is of the whole
\* file in the state of its row, in whatever order writes, moves, scans and changes of the
\* policy fall between the steps of the call.
THEOREM PlansHashTheirRow ==
    ASSUME Bounds
    PROVE  PreviewSpec => []PlanHashesItsRow
<1>1. PreviewInit => PreviewInv
  BY InitSound
<1>2. PreviewInv /\ [PreviewNext]_previewVars => PreviewInv'
  BY PreviewStep
<1>3. PreviewInv => PlanHashesItsRow
  BY DEF PreviewInv
<1> QED  BY <1>1, <1>2, <1>3, PTL DEF PreviewSpec
=============================================================================
