-------------------------- MODULE SuggestionProofs ---------------------------
(* What is suggested to a user.                                              *)
(*   ProjectCandidates, for any number of folders, markers, callers and      *)
(*     scans: what is suggested to be a project (ProjectsInv).               *)
(*   CleanupInbox, for any images, clients and limits: the groups that the   *)
(*     screenshots are cut into (GoodGroups), what is observed of them, and  *)
(*     what calls and plans hold of it (CleanupSound).                       *)
EXTENDS ProjectCandidates, CleanupInbox,
        FiniteSetTheorems, SequenceTheorems, WellFoundedInduction, TLAPS

Bounds == MaxScans \in Nat /\ MaxRevision \in Nat \ {0}

-----------------------------------------------------------------------------
(* The greatest of finitely many numbers (see FileRelationsProofs).          *)

LEMMA LessIsWellFounded ==
    \E R : IsWellFoundedOn(R, Nat) /\ \A x, y \in Nat : <<x, y>> \in R <=> x < y
<1>1. IsWellFoundedOn(OpToRel(<, Nat), Nat)
  BY NatLessThanWellFounded
<1>2. \A x, y \in Nat : <<x, y>> \in OpToRel(<, Nat) <=> x < y
  BY Zenon DEF OpToRel
<1> QED  BY <1>1, <1>2, Zenon

LEMMA LeastNumber ==
    ASSUME NEW T, T \subseteq Nat, T # {}
    PROVE  \E m \in T : \A n \in T : m <= n
<1>1. PICK R : IsWellFoundedOn(R, Nat) /\ \A x, y \in Nat : <<x, y>> \in R <=> x < y
  BY LessIsWellFounded
<1>2. IsWellFoundedOn(R, Nat)
  BY <1>1
<1>3. PICK m \in T : \A n \in T : ~ (<<n, m>> \in R)
  BY <1>2, WFMin, Zenon
<1>4. m \in Nat /\ \A n \in T : n \in Nat /\ ~ (n < m)
  BY <1>1, <1>3
<1>5. \A n \in T : m <= n
  BY <1>4
<1> QED  BY <1>5

LEMMA GreatestNumber ==
    ASSUME NEW bound \in Nat, NEW T, T \subseteq 0 .. bound, T # {}
    PROVE  \E m \in T : \A n \in T : n <= m
<1> DEFINE below == {bound - n : n \in T}
<1>1. below \subseteq Nat /\ below # {}
  <2>1. \A n \in T : bound - n \in Nat
    OBVIOUS
  <2> QED  BY <2>1
<1>2. PICK l \in below : \A n \in below : l <= n
  BY <1>1, LeastNumber
<1>3. PICK m \in T : l = bound - m
  BY <1>2
<1>4. ASSUME NEW n \in T PROVE n <= m
  <2>1. bound - m <= bound - n
    BY <1>2, <1>3
  <2>2. m \in 0 .. bound /\ n \in 0 .. bound
    OBVIOUS
  <2> QED  BY <2>1, <2>2
<1> QED  BY <1>4

LEMMA MaxOfNumbers ==
    ASSUME NEW bound \in Nat, NEW T, T \subseteq 1 .. bound, T # {}
    PROVE  Max(T) \in T /\ \A n \in T : n <= Max(T)
<1>1. T \subseteq 0 .. bound
  OBVIOUS
<1>2. PICK m \in T : \A n \in T : n <= m
  BY <1>1, GreatestNumber
<1>3. \A n \in T : m >= n
  BY <1>2
<1>4. Max(T) \in T /\ \A n \in T : Max(T) >= n
  BY <1>3 DEF Max
<1>5. \A n \in T : n \in Nat
  OBVIOUS
<1> QED  BY <1>4, <1>5

-----------------------------------------------------------------------------
(* Project candidates: the shape of the state.                               *)

Signals == [at : Nat, markers : SUBSET Markers]
Answers == {"none", "accepted", "rejected"}
Rows == [root : Roots, suggestions : SUBSET Signals, decisions : Seq(Answers)]
Bound == {"time", "again", "timeAgain", "record", "show"}
Timed == {"again", "timeAgain", "record"}
Calls == [pc : {"idle", "facts", "rebind", "decide"} \cup Bound,
          op : {"none", "propose", "discover", "detail"},
          todo : SUBSET Roots, root : Roots \cup {0}, id : Nat, outer : Nat, inner : Nat,
          markers : SUBSET Markers, at : Nat, decision : Answers]

ScansShape == /\ published \in Seq([Roots -> Folders]) /\ Now <= MaxScans
              /\ policy \in [revision : 1 .. MaxRevision, granted : BOOLEAN]
IdsShape == \E bound \in Nat : DOMAIN projects \subseteq 1 .. bound
RowsShape == /\ projects = [i \in DOMAIN projects |-> projects[i]]
             /\ \A i \in DOMAIN projects : projects[i] \in Rows
CallShape == call \in [Callers -> Calls]
RootsAreUnique == \A i, j \in DOMAIN projects : projects[i].root = projects[j].root => i = j

\* The markers of r in the manifest of one scan.
Seen(at, r, markers) ==
    at \in 1 .. Now /\ Suggests(markers) /\ markers = published[at][r].markers
SignalsAreSound ==
    \A i \in DOMAIN projects : /\ projects[i].suggestions # {}
                               /\ \A s \in projects[i].suggestions :
                                    Seen(s.at, projects[i].root, s.markers)
\* What a call has read, as long as the policy is the one it is bound to: the markers are those
\* of the latest scan if that is still the scan whose time was read, and of that scan for good
\* once the time was compared again.
Sound(c) ==
    /\ c.pc \in Bound => c.root \in Roots /\ Scanned
    /\ c.inner <= policy.revision
    /\ c.pc \in Timed => c.at \in 1 .. Now /\ Suggests(c.markers)
    /\ c.pc = "timeAgain" /\ c.inner = policy.revision /\ Now = c.at =>
         c.markers = published[c.at][c.root].markers
    /\ c.pc = "record" /\ c.inner = policy.revision =>
         c.markers = published[c.at][c.root].markers
CallsAreSound == \A c \in Callers : Sound(call[c])

ProjectsInv == /\ ScansShape /\ IdsShape /\ RowsShape /\ CallShape
               /\ RootsAreUnique /\ SignalsAreSound /\ CallsAreSound

LEMMA NoCallIsIdle == NoCall \in Calls /\ NoCall.pc = "idle" /\ NoCall.inner = 0
  BY DEF NoCall, Calls, Bound, Answers

LEMMA ProjectsBegin ==
    ASSUME Bounds, ProjectsInit
    PROVE  ProjectsInv
<1>1. published = <<>> /\ Len(published) = 0 /\ policy = [revision |-> 1, granted |-> TRUE]
  BY DEF ProjectsInit
<1>2. ScansShape
  BY <1>1, EmptySeq DEF ScansShape, Now, Bounds
<1>3. DOMAIN projects = {} /\ projects = [i \in {} |-> Gone]
  BY DEF ProjectsInit
<1>4. IdsShape /\ RowsShape /\ RootsAreUnique /\ SignalsAreSound
  BY <1>3 DEF IdsShape, RowsShape, RootsAreUnique, SignalsAreSound
<1>5. CallShape /\ CallsAreSound
  BY <1>1, NoCallIsIdle DEF ProjectsInit, CallShape, CallsAreSound, Sound, Bound, Timed
<1> QED  BY <1>2, <1>4, <1>5 DEF ProjectsInv

-----------------------------------------------------------------------------
(* Scans and the policy.                                                     *)

LEMMA Manifests ==
    ASSUME ScansShape
    PROVE  /\ Now \in Nat /\ Now = Len(published) /\ DOMAIN published = 1 .. Now
           /\ \A n \in 1 .. Now : published[n] \in [Roots -> Folders]
           /\ policy.revision \in Nat
<1>1. published \in Seq([Roots -> Folders])
  BY DEF ScansShape
<1>2. policy.revision \in Nat
  BY DEF ScansShape
<1> QED  BY <1>1, <1>2, ElementOfSeq, LenProperties DEF Now

LEMMA CallOf ==
    ASSUME ProjectsInv, NEW c \in Callers
    PROVE  call[c] \in Calls /\ Sound(call[c])
  BY DEF ProjectsInv, CallShape, CallsAreSound

\* A scan that is published leaves the earlier ones alone.
LEMMA PublishKeeps ==
    ASSUME Bounds, ProjectsInv, NEW manifest \in [Roots -> Folders], Publish(manifest)
    PROVE  ProjectsInv'
<1>1. /\ published' = Append(published, manifest) /\ Now < MaxScans
      /\ UNCHANGED <<policy, projects, call>>
  BY DEF Publish
<1>2. ScansShape /\ Now \in Nat /\ MaxScans \in Nat /\ Now = Len(published)
      /\ published \in Seq([Roots -> Folders]) /\ Now' = Len(published')
  BY Manifests DEF ProjectsInv, ScansShape, Now, Bounds
<1>3. /\ published' \in Seq([Roots -> Folders]) /\ Now' = Now + 1
      /\ \A n \in 1 .. Now : published'[n] = published[n]
  BY <1>1, <1>2, AppendProperties
<1>4. ScansShape'
  BY <1>1, <1>2, <1>3 DEF ScansShape
<1>5. IdsShape' /\ RowsShape' /\ CallShape' /\ RootsAreUnique'
  BY <1>1 DEF ProjectsInv, IdsShape, RowsShape, CallShape, RootsAreUnique
<1>6. \A at, r, markers : Seen(at, r, markers) => Seen(at, r, markers)'
  BY <1>2, <1>3 DEF Seen
<1>7. SignalsAreSound'
  BY <1>1, <1>6 DEF ProjectsInv, SignalsAreSound
<1>8. ASSUME NEW c \in Callers PROVE Sound(call[c])'
  <2>1. call[c] \in Calls /\ Sound(call[c]) /\ call'[c] = call[c] /\ policy' = policy
    BY <1>1, CallOf
  <2>2. Scanned => Scanned'
    BY <1>2, <1>3 DEF Scanned
  <2>3. call[c].pc \in Timed => call[c].at \in 1 .. Now' /\ call[c].at \in 1 .. Now
    BY <1>2, <1>3, <2>1 DEF Sound
  <2>4. call[c].pc = "timeAgain" => Now' # call[c].at
    BY <1>2, <1>3, <2>3 DEF Timed
  <2>5. call[c].pc = "record" => published'[call[c].at] = published[call[c].at]
    BY <1>3, <2>3 DEF Timed
  <2> QED  BY <2>1, <2>2, <2>3, <2>4, <2>5 DEF Sound
<1>9. CallsAreSound'
  BY <1>8 DEF CallsAreSound
<1> QED  BY <1>4, <1>5, <1>7, <1>9 DEF ProjectsInv

\* A change of the policy: what is kept of the manifest is what the remaining projects saw, and
\* no call is bound to the policy that is now.
LEMMA PolicyChanges ==
    ASSUME Bounds, ProjectsInv, NEW gone, gone \subseteq DOMAIN projects,
           policy.revision < MaxRevision,
           policy' \in [revision : {policy.revision + 1}, granted : BOOLEAN],
           projects' = Without(gone), UNCHANGED call,
           published' \in Seq([Roots -> Folders]), Len(published') = Len(published),
           \A n \in 1 .. Now, r \in Roots :
              published'[n][r] = published[n][r] \/ OfRoot(r) \subseteq gone
    PROVE  ProjectsInv'
<1>1. /\ Now' = Now /\ Now \in Nat /\ policy.revision \in Nat /\ MaxRevision \in Nat
      /\ Now <= MaxScans /\ policy.revision >= 1
  BY Manifests DEF ProjectsInv, ScansShape, Now, Bounds
<1>2. ScansShape'
  BY <1>1 DEF ScansShape
<1>3. /\ DOMAIN projects' = DOMAIN projects \ gone
      /\ \A i \in DOMAIN projects' : i \in DOMAIN projects /\ projects'[i] = projects[i]
  BY DEF Without
<1>4. IdsShape' /\ RootsAreUnique'
  BY <1>3 DEF ProjectsInv, IdsShape, RootsAreUnique
<1>5. RowsShape' /\ CallShape'
  BY <1>3 DEF ProjectsInv, RowsShape, CallShape, Without
<1>6. SignalsAreSound'
  <2>1. ASSUME NEW i \in DOMAIN projects', NEW s \in projects'[i].suggestions
        PROVE  Seen(s.at, projects[i].root, s.markers)'
    <3>1. i \in DOMAIN projects /\ projects'[i] = projects[i] /\ i \notin gone
      BY <1>3
    <3>2. Seen(s.at, projects[i].root, s.markers) /\ projects[i].root \in Roots
      BY <2>1, <3>1 DEF ProjectsInv, SignalsAreSound, RowsShape, Rows
    <3>3. i \in OfRoot(projects[i].root)
      BY <3>1 DEF OfRoot
    <3>4. published'[s.at][projects[i].root] = published[s.at][projects[i].root]
      <4>1. s.at \in 1 .. Now
        BY <3>2 DEF Seen
      <4>2. ~ (OfRoot(projects[i].root) \subseteq gone)
        BY <3>1, <3>3
      <4> QED  BY <3>2, <4>1, <4>2
    <3> QED  BY <1>1, <3>1, <3>2, <3>4 DEF Seen
  <2>2. \A i \in DOMAIN projects' : projects'[i].suggestions # {}
    BY <1>3 DEF ProjectsInv, SignalsAreSound
  <2> QED  BY <2>1, <2>2 DEF SignalsAreSound
<1>7. ASSUME NEW c \in Callers PROVE Sound(call[c])'
  <2>1. call[c] \in Calls /\ Sound(call[c]) /\ call'[c] = call[c]
    BY CallOf
  <2>2. call[c].inner \in Nat /\ call[c].inner < policy'.revision
    BY <1>1, <2>1 DEF Sound, Calls
  <2> QED  BY <1>1, <2>1, <2>2 DEF Sound, Scanned
<1>8. CallsAreSound'
  BY <1>7 DEF CallsAreSound
<1> QED  BY <1>2, <1>4, <1>5, <1>6, <1>8 DEF ProjectsInv

LEMMA FolderIsFolder ==
    ASSUME ScansShape, NEW r \in Roots
    PROVE  /\ FolderNow(r) \in Folders
           /\ Scanned => Now \in 1 .. Now /\ FolderNow(r) = published[Now][r]
           /\ FolderNow(r).present \/ FolderNow(r).markers # {} => Scanned
<1>1. Gone \in Folders /\ ~ Gone.present /\ Gone.markers = {}
  BY DEF Folders, Gone
<1>2. Scanned => Now \in 1 .. Now /\ published[Now] \in [Roots -> Folders]
  BY Manifests DEF Scanned
<1> QED  BY <1>1, <1>2 DEF FolderNow

LEMMA PoliciesChange ==
    ASSUME Bounds, ProjectsInv,
           \/ \E r \in Roots : ExcludeFolder(r) \/ \E marker \in Markers : Exclude(r, marker)
           \/ Revoke
    PROVE  ProjectsInv'
<1>0. /\ Now \in Nat /\ Now = Len(published) /\ DOMAIN published = 1 .. Now
      /\ published \in Seq([Roots -> Folders])
      /\ \A n \in 1 .. Now : published[n] \in [Roots -> Folders]
      /\ policy \in [revision : 1 .. MaxRevision, granted : BOOLEAN]
      /\ Gone \in Folders
  BY Manifests DEF ProjectsInv, ScansShape, Folders
<1>1. ASSUME NEW r \in Roots, NEW marker \in Markers, Exclude(r, marker) PROVE ProjectsInv'
  <2> DEFINE folder == [FolderNow(r) EXCEPT !.markers = @ \ {marker}]
             row == [published[Now] EXCEPT ![r] = folder]
  <2>1. /\ Scanned /\ Now \in 1 .. Now /\ FolderNow(r) = published[Now][r]
        /\ FolderNow(r) \in Folders /\ marker \in FolderNow(r).markers
    BY <1>1, FolderIsFolder DEF Exclude, ProjectsInv
  <2>2. folder \in Folders
    <3>1. Gone.markers = {}
      BY DEF Gone
    <3>2. FolderNow(r) \in [present : {TRUE}, markers : SUBSET Markers]
      BY <2>1, <3>1 DEF Folders
    <3>3. folder \in [present : {TRUE}, markers : SUBSET Markers]
      BY <3>2
    <3> QED  BY <3>3 DEF Folders
  <2>3. published' = [published EXCEPT ![Now] = row]
    <3>1. published' = [published EXCEPT ![Now][r].markers = @ \ {marker}]
      BY <1>1 DEF Exclude
    <3>2. published \in [1 .. Now -> [Roots -> Folders]]
      BY <1>0
    <3>3. row = [published[Now] EXCEPT ![r] =
                   [published[Now][r] EXCEPT !.markers = published[Now][r].markers \ {marker}]]
      BY <2>1
    <3> QED  BY <3>1, <3>3, Zenon
  <2> HIDE DEF folder
  <2>4. row \in [Roots -> Folders] /\ \A q \in Roots : q # r => row[q] = published[Now][q]
    BY <1>0, <2>1, <2>2
  <2> HIDE DEF row
  <2>5. /\ published' \in Seq([Roots -> Folders]) /\ Len(published') = Len(published)
        /\ \A n \in 1 .. Now : published'[n] = IF n = Now THEN row ELSE published[n]
    BY <1>0, <2>1, <2>3, <2>4, ExceptSeq
  <2>6. \A n \in 1 .. Now, q \in Roots :
          published'[n][q] = published[n][q] \/ OfRoot(q) \subseteq OfRoot(r)
    BY <2>4, <2>5
  <2>7. /\ policy' \in [revision : {policy.revision + 1}, granted : BOOLEAN]
        /\ policy.revision < MaxRevision
        /\ projects' = Without(OfRoot(r)) /\ UNCHANGED call
    BY <1>0, <1>1 DEF Exclude
  <2>8. OfRoot(r) \subseteq DOMAIN projects
    BY DEF OfRoot
  <2> QED  BY <2>5, <2>6, <2>7, <2>8, PolicyChanges
<1>2. ASSUME NEW r \in Roots, ExcludeFolder(r) PROVE ProjectsInv'
  <2> DEFINE row == [published[Now] EXCEPT ![r] = Gone]
  <2>1. Scanned /\ Now \in 1 .. Now
    BY <1>2, FolderIsFolder DEF ExcludeFolder, ProjectsInv
  <2>2. row \in [Roots -> Folders] /\ \A q \in Roots : q # r => row[q] = published[Now][q]
    BY <1>0, <2>1
  <2>3. published' = [published EXCEPT ![Now] = row]
    BY <1>0, <1>2, <2>1 DEF ExcludeFolder
  <2> HIDE DEF row
  <2>4. /\ published' \in Seq([Roots -> Folders]) /\ Len(published') = Len(published)
        /\ \A n \in 1 .. Now : published'[n] = IF n = Now THEN row ELSE published[n]
    BY <1>0, <2>1, <2>2, <2>3, ExceptSeq
  <2>5. \A n \in 1 .. Now, q \in Roots :
          published'[n][q] = published[n][q] \/ OfRoot(q) \subseteq OfRoot(r)
    BY <2>2, <2>4
  <2>6. /\ policy' \in [revision : {policy.revision + 1}, granted : BOOLEAN]
        /\ policy.revision < MaxRevision
        /\ projects' = Without(OfRoot(r)) /\ UNCHANGED call
    BY <1>0, <1>2 DEF ExcludeFolder
  <2>7. OfRoot(r) \subseteq DOMAIN projects
    BY DEF OfRoot
  <2> QED  BY <2>4, <2>5, <2>6, <2>7, PolicyChanges
<1>3. ASSUME Revoke PROVE ProjectsInv'
  <2>1. /\ policy' \in [revision : {policy.revision + 1}, granted : BOOLEAN]
        /\ policy.revision < MaxRevision
        /\ projects' = Without(DOMAIN projects) /\ UNCHANGED call
    BY <1>0, <1>3 DEF Revoke
  <2>2. published' \in Seq([Roots -> Folders]) /\ Len(published') = Len(published)
    <3> DEFINE row == [r \in Roots |-> Gone]
    <3>1. row \in [Roots -> Folders]
      BY <1>0
    <3> HIDE DEF row
    <3>2. CASE Scanned
      <4>1. Now \in 1 .. Now
        BY <1>0, <3>2 DEF Scanned
      <4>2. published' = [published EXCEPT ![Now] = row]
        BY <1>3, <3>2 DEF Revoke, row
      <4> QED  BY <1>0, <3>1, <4>1, <4>2, ExceptSeq
    <3>3. CASE ~ Scanned
      BY <1>0, <1>3, <3>3 DEF Revoke
    <3> QED  BY <3>2, <3>3
  <2>3. \A n \in 1 .. Now, q \in Roots :
          published'[n][q] = published[n][q] \/ OfRoot(q) \subseteq DOMAIN projects
    BY DEF OfRoot
  <2> QED  BY <2>1, <2>2, <2>3, PolicyChanges
<1> QED  BY <1>1, <1>2, <1>3

-----------------------------------------------------------------------------
(* The service calls.                                                        *)

\* A call that goes on and writes nothing.
LEMMA CallGoesOn ==
    ASSUME ProjectsInv, NEW c \in Callers, NEW next \in Calls, Sound(next),
           call' = [call EXCEPT ![c] = next], UNCHANGED <<published, policy, projects>>
    PROVE  ProjectsInv'
<1>1. ScansShape' /\ IdsShape' /\ RowsShape' /\ RootsAreUnique' /\ SignalsAreSound'
  BY DEF ProjectsInv, ScansShape, IdsShape, RowsShape, RootsAreUnique, SignalsAreSound, Seen, Now
<1>2. CallShape' /\ call' = [call EXCEPT ![c] = next] /\ call \in [Callers -> Calls]
  BY DEF ProjectsInv, CallShape
<1>3. ASSUME NEW x \in Callers PROVE Sound(call[x])'
  <2>1. Sound(call'[x])
    BY <1>2, CallOf
  <2> QED  BY <2>1 DEF Sound, Now, Scanned
<1>4. CallsAreSound'
  BY <1>3 DEF CallsAreSound
<1> QED  BY <1>1, <1>2, <1>4 DEF ProjectsInv

LEMMA CallGoesOnIf ==
    ASSUME ProjectsInv, NEW c \in Callers, NEW condition, NEW next,
           Unless(c, condition, next), condition => next \in Calls /\ Sound(next)
    PROVE  ProjectsInv'
<1>1. NoCall \in Calls /\ Sound(NoCall)
  BY NoCallIsIdle, Manifests DEF Sound, Bound, Timed, ProjectsInv
<1>2. CASE condition
  BY <1>2, CallGoesOn DEF Unless
<1>3. CASE ~ condition
  BY <1>1, <1>3, CallGoesOn DEF Unless, Ends
<1> QED  BY <1>2, <1>3

LEMMA CallsGoOn ==
    ASSUME ProjectsInv, NEW c \in Callers,
           \/ \E r \in Roots : Propose(c, r)
           \/ Discover(c)
           \/ \E i \in DOMAIN projects, decision \in Answers : Ask(c, i, decision)
           \/ ReadMarkers(c) \/ ReadTime(c) \/ RereadMarkers(c) \/ RereadTime(c)
           \/ Show(c) \/ Rebind(c)
    PROVE  ProjectsInv'
<1>0. /\ call[c] \in Calls /\ Sound(call[c]) /\ ScansShape
      /\ Now \in Nat /\ policy.revision \in Nat
  BY CallOf, Manifests DEF ProjectsInv
<1>1. ASSUME NEW op \in {"propose", "discover", "detail"}, NEW todo \in SUBSET Roots,
             NEW i \in Nat, NEW decision \in Answers, Begins(c, op, todo, i, decision)
      PROVE  ProjectsInv'
  <2> DEFINE next == [NoCall EXCEPT !.pc = "facts", !.op = op, !.todo = todo, !.id = i,
                                    !.outer = policy.revision, !.decision = decision]
  <2>1. next \in Calls /\ next.pc = "facts" /\ next.inner = 0
    BY <1>0, NoCallIsIdle DEF Calls
  <2>2. Unless(c, Admitted, next)
    BY <1>1 DEF Begins
  <2> HIDE DEF next
  <2>3. Sound(next)
    BY <1>0, <2>1 DEF Sound, Bound, Timed
  <2> QED  BY <2>1, <2>2, <2>3, CallGoesOnIf
<1>2. ASSUME NEW r \in Roots, Propose(c, r) PROVE ProjectsInv'
  <2>1. {r} \in SUBSET Roots /\ 0 \in Nat /\ "none" \in Answers
    BY DEF Answers
  <2> QED  BY <1>1, <1>2, <2>1 DEF Propose
<1>3. ASSUME Discover(c) PROVE ProjectsInv'
  <2>1. PICK found \in SUBSET Suggested : Begins(c, "discover", found, 0, "none")
    BY <1>3 DEF Discover
  <2>2. found \in SUBSET Roots /\ 0 \in Nat /\ "none" \in Answers
    BY DEF Suggested, Answers
  <2> QED  BY <1>1, <2>1, <2>2
<1>4. ASSUME NEW i \in DOMAIN projects, NEW decision \in Answers, Ask(c, i, decision)
      PROVE  ProjectsInv'
  <2>1. i \in Nat /\ projects[i].root \in Roots
    BY DEF ProjectsInv, IdsShape, RowsShape, Rows
  <2>2. Begins(c, "detail", {projects[i].root}, i, decision)
    BY <1>4 DEF Ask
  <2> QED  BY <1>1, <2>1, <2>2
<1>5. ASSUME ReadMarkers(c) PROVE ProjectsInv'
  <2>1. PICK r \in call[c].todo :
          Unless(c, policy.granted /\ FolderNow(r).present,
                 [call[c] EXCEPT !.pc = "time", !.root = r, !.inner = policy.revision,
                                 !.markers = FolderNow(r).markers])
    BY <1>5 DEF ReadMarkers
  <2> DEFINE markers == FolderNow(r).markers
             next == [call[c] EXCEPT !.pc = "time", !.root = r, !.inner = policy.revision,
                                     !.markers = markers]
  <2>2. r \in Roots
    BY <1>0 DEF Calls
  <2>3. markers \in SUBSET Markers /\ (FolderNow(r).present => Scanned)
    <3>1. FolderNow(r) \in Folders /\ (FolderNow(r).present => Scanned)
      BY <1>0, <2>2, FolderIsFolder
    <3>2. ASSUME NEW f \in Folders PROVE f.markers \in SUBSET Markers
      <4>1. CASE f = Gone
        BY <4>1 DEF Gone
      <4>2. CASE f \in [present : {TRUE}, markers : SUBSET Markers]
        BY <4>2
      <4> QED  BY <4>1, <4>2 DEF Folders
    <3> QED  BY <3>1, <3>2
  <2> HIDE DEF markers
  <2>4. /\ next \in Calls /\ next.pc = "time" /\ next.root = r /\ next.inner = policy.revision
    BY <1>0, <2>2, <2>3 DEF Calls, Bound
  <2>5. Unless(c, policy.granted /\ FolderNow(r).present, next)
    BY <2>1 DEF markers
  <2> HIDE DEF next
  <2>6. FolderNow(r).present => Sound(next)
    BY <1>0, <2>2, <2>3, <2>4 DEF Sound, Bound, Timed
  <2> QED  BY <2>4, <2>5, <2>6, CallGoesOnIf
<1>6. ASSUME ReadTime(c) PROVE ProjectsInv'
  <2> DEFINE next == [call[c] EXCEPT !.pc = "again", !.at = Now]
  <2>1. call[c].pc = "time" /\ Unless(c, Current(call[c].inner) /\ Suggests(call[c].markers), next)
    BY <1>6 DEF ReadTime
  <2>2. /\ next \in Calls /\ next.pc = "again" /\ next.at = Now /\ next.root = call[c].root
        /\ next.inner = call[c].inner /\ next.markers = call[c].markers
    BY <1>0 DEF Calls, Bound
  <2> HIDE DEF next
  <2>3. Suggests(call[c].markers) => Sound(next)
    BY <1>0, <2>1, <2>2 DEF Sound, Bound, Timed, Scanned
  <2> QED  BY <2>1, <2>2, <2>3, CallGoesOnIf
<1>7. ASSUME RereadMarkers(c) PROVE ProjectsInv'
  <2> DEFINE next == [call[c] EXCEPT !.pc = "timeAgain"]
             same == FolderNow(call[c].root) = [present |-> TRUE, markers |-> call[c].markers]
  <2>1. call[c].pc = "again" /\ Unless(c, same, next)
    BY <1>7 DEF RereadMarkers
  <2>2. /\ next \in Calls /\ next.pc = "timeAgain" /\ next.at = call[c].at
        /\ next.root = call[c].root
        /\ next.inner = call[c].inner /\ next.markers = call[c].markers
    BY <1>0 DEF Calls, Bound
  <2>3. call[c].root \in Roots /\ Scanned
    BY <1>0, <2>1 DEF Sound, Bound
  <2>4. FolderNow(call[c].root) = published[Now][call[c].root]
    BY <1>0, <2>3, FolderIsFolder
  <2>5. same => published[Now][call[c].root].markers = call[c].markers
    BY <2>4
  <2> HIDE DEF next, same
  <2>6. same => Sound(next)
    BY <1>0, <2>1, <2>2, <2>3, <2>5 DEF Sound, Bound, Timed
  <2> QED  BY <2>1, <2>2, <2>6, CallGoesOnIf
<1>8. ASSUME RereadTime(c) PROVE ProjectsInv'
  <2> DEFINE next == [call[c] EXCEPT !.pc = "record"]
  <2>1. call[c].pc = "timeAgain" /\ Unless(c, SameTime(call[c].at), next)
    BY <1>8 DEF RereadTime
  <2>2. /\ next \in Calls /\ next.pc = "record" /\ next.at = call[c].at
        /\ next.root = call[c].root
        /\ next.inner = call[c].inner /\ next.markers = call[c].markers
    BY <1>0 DEF Calls, Bound
  <2> HIDE DEF next
  <2>3. SameTime(call[c].at) => Sound(next)
    BY <1>0, <2>1, <2>2 DEF Sound, Bound, Timed, SameTime
  <2> QED  BY <2>1, <2>2, <2>3, CallGoesOnIf
<1>9. ASSUME Show(c) PROVE ProjectsInv'
  <2> DEFINE rest == call[c].todo \ {call[c].root}
             next == IF rest # {} THEN [call[c] EXCEPT !.pc = "facts", !.todo = rest]
                     ELSE IF call[c].decision # "none" THEN [call[c] EXCEPT !.pc = "rebind"]
                     ELSE NoCall
  <2>1. Unless(c, Shows(call[c].id) /\ (rest = {} => Current(call[c].outer)), next)
    BY <1>9 DEF Show
  <2>2. rest \in SUBSET Roots
    BY <1>0 DEF Calls
  <2> HIDE DEF rest
  <2>3. next \in Calls /\ next.pc \in {"facts", "rebind", "idle"}
        /\ next.inner \in {call[c].inner, 0}
    BY <1>0, <2>2, NoCallIsIdle DEF Calls
  <2> HIDE DEF next
  <2>4. Sound(next)
    BY <1>0, <2>3 DEF Sound, Bound, Timed
  <2> QED  BY <2>1, <2>3, <2>4, CallGoesOnIf
<1>10. ASSUME Rebind(c) PROVE ProjectsInv'
  <2> DEFINE next == [call[c] EXCEPT !.pc = "decide", !.inner = policy.revision]
  <2>1. Unless(c, policy.granted, next)
    BY <1>10 DEF Rebind
  <2>2. next \in Calls /\ next.pc = "decide" /\ next.inner = policy.revision
    BY <1>0 DEF Calls
  <2> HIDE DEF next
  <2>3. Sound(next)
    BY <1>0, <2>2 DEF Sound, Bound, Timed
  <2> QED  BY <2>1, <2>2, <2>3, CallGoesOnIf
<1> QED  BY <1>2, <1>3, <1>4, <1>5, <1>6, <1>7, <1>8, <1>9, <1>10

\* A root that has a project keeps its id; another root takes an id that no project has.
LEMMA IdIsOfRoot ==
    ASSUME ProjectsInv, NEW r \in Roots
    PROVE  /\ IdOf(r) \in Nat \ {0}
           /\ IdOf(r) \in DOMAIN projects => projects[IdOf(r)].root = r
           /\ IdOf(r) \notin DOMAIN projects => \A i \in DOMAIN projects : projects[i].root # r
<1>1. PICK bound \in Nat : DOMAIN projects \subseteq 1 .. bound
  BY DEF ProjectsInv, IdsShape
<1>2. CASE \E i \in DOMAIN projects : projects[i].root = r
  <2>1. IdOf(r) \in DOMAIN projects /\ projects[IdOf(r)].root = r
    BY <1>2 DEF IdOf
  <2> QED  BY <1>1, <2>1
<1>3. CASE ~ \E i \in DOMAIN projects : projects[i].root = r
  <2>1. IdOf(r) = NewId
    BY <1>3 DEF IdOf
  <2>2. NewId \in Nat \ {0} /\ NewId \notin DOMAIN projects
    <3>1. CASE DOMAIN projects = {}
      BY <3>1 DEF NewId
    <3>2. CASE DOMAIN projects # {}
      <4>1. Max(DOMAIN projects) \in DOMAIN projects
            /\ \A n \in DOMAIN projects : n <= Max(DOMAIN projects)
        BY <1>1, <3>2, MaxOfNumbers
      <4>2. Max(DOMAIN projects) \in Nat /\ NewId = Max(DOMAIN projects) + 1
        BY <1>1, <3>2, <4>1 DEF NewId
      <4> QED  BY <4>1, <4>2
    <3> QED  BY <3>1, <3>2
  <2> QED  BY <1>3, <2>1, <2>2
<1> QED  BY <1>2, <1>3

\* A suggestion that is recorded.
LEMMA RecordKeeps ==
    ASSUME ProjectsInv, NEW c \in Callers, Record(c)
    PROVE  ProjectsInv'
<1> DEFINE r == call[c].root
           s == [at |-> call[c].at, markers |-> call[c].markers]
           rows == ProjectOf(r)
           added == [rows EXCEPT !.suggestions = @ \cup {s}]
           written == IF IsNew(s, rows.suggestions) THEN added ELSE rows
           id == IdOf(r)
           next == [call[c] EXCEPT !.pc = "show", !.id = id]
           records == /\ Current(call[c].inner)
                      /\ FolderNow(r) = [present |-> TRUE, markers |-> call[c].markers]
<1>1. /\ call[c] \in Calls /\ Sound(call[c]) /\ call[c].pc = "record"
      /\ UNCHANGED <<published, policy>> /\ call \in [Callers -> Calls]
  BY CallOf DEF Record, ProjectsInv, CallShape
<1>2. CASE ~ records
  <2>1. Unless(c, FALSE, NoCall)
    BY <1>2 DEF Record, Unless
  <2> QED  BY <2>1, CallGoesOnIf
<1>3. CASE records
  <2>1. /\ projects' = [i \in DOMAIN projects \cup {id} |-> IF i = id THEN written ELSE projects[i]]
        /\ call' = [call EXCEPT ![c].pc = "show", ![c].id = id]
    BY <1>3 DEF Record
  <2>2. r \in Roots /\ s \in Signals /\ s.at = call[c].at /\ s.markers = call[c].markers
        /\ Scanned
    BY <1>1 DEF Sound, Bound, Timed, Calls, Signals
  <2>3. Seen(s.at, r, s.markers)
    BY <1>1, <1>3, <2>2 DEF Seen, Sound, Timed, Current
  <2>4. /\ id \in Nat \ {0} /\ (id \in DOMAIN projects => projects[id].root = r)
        /\ (id \notin DOMAIN projects => \A i \in DOMAIN projects : projects[i].root # r)
    BY <2>2, IdIsOfRoot
  <2>5. /\ rows \in Rows /\ rows.root = r
        /\ \A t \in rows.suggestions : Seen(t.at, r, t.markers)
    <3>1. CASE id \in DOMAIN projects
      BY <2>4, <3>1 DEF ProjectOf, ProjectsInv, RowsShape, SignalsAreSound
    <3>2. CASE id \notin DOMAIN projects
      <4>1. rows = [root |-> r, suggestions |-> {}, decisions |-> <<>>]
        BY <3>2 DEF ProjectOf
      <4> QED  BY <2>2, <4>1, EmptySeq DEF Rows
    <3> QED  BY <3>1, <3>2
  <2> HIDE DEF r, s, id, rows, records
  <2>6. /\ written \in Rows /\ written.root = r /\ written.suggestions # {}
        /\ \A t \in written.suggestions : Seen(t.at, r, t.markers)
    <3>1. CASE IsNew(s, rows.suggestions)
      <4>1. written = added
        BY <3>1
      <4>2. added \in Rows /\ added.root = r /\ added.suggestions = rows.suggestions \cup {s}
        BY <2>2, <2>5 DEF Rows
      <4> HIDE DEF added
      <4> QED  BY <2>3, <2>5, <4>1, <4>2
    <3>2. CASE ~ IsNew(s, rows.suggestions)
      BY <2>5, <3>2 DEF IsNew
    <3> QED  BY <3>1, <3>2
  <2> HIDE DEF written
  <2>7. /\ DOMAIN projects' = DOMAIN projects \cup {id} /\ projects'[id] = written
        /\ \A i \in DOMAIN projects : i # id => projects'[i] = projects[i]
    BY <2>1
  <2>8. ScansShape' /\ Now' = Now /\ Scanned'
    BY <1>1, <2>2 DEF ProjectsInv, ScansShape, Now, Scanned
  <2>9. IdsShape'
    <3>1. PICK bound \in Nat : DOMAIN projects \subseteq 1 .. bound
      BY DEF ProjectsInv, IdsShape
    <3>2. bound + id \in Nat /\ DOMAIN projects' \subseteq 1 .. bound + id
      BY <2>4, <2>7, <3>1
    <3> QED  BY <3>2 DEF IdsShape
  <2>10. RowsShape'
    BY <2>1, <2>6, <2>7 DEF ProjectsInv, RowsShape
  <2>11. RootsAreUnique'
    <3>1. \A i \in DOMAIN projects : i # id => projects[i].root # r
      BY <2>4 DEF ProjectsInv, RootsAreUnique
    <3> QED  BY <2>6, <2>7, <3>1 DEF ProjectsInv, RootsAreUnique
  <2>12. SignalsAreSound'
    <3>1. ASSUME NEW i \in DOMAIN projects'
          PROVE  /\ projects'[i].suggestions # {}
                 /\ \A t \in projects'[i].suggestions : Seen(t.at, projects[i].root, t.markers)'
      <4>1. CASE i = id
        <5>1. projects'[i] = written /\ projects'[i].root = r
          BY <2>6, <2>7, <4>1
        <5>2. \A t \in written.suggestions : Seen(t.at, projects'[i].root, t.markers)
          BY <2>6, <5>1
        <5> QED  BY <1>1, <2>6, <2>8, <5>1, <5>2 DEF Seen
      <4>2. CASE i # id
        <5>1. i \in DOMAIN projects /\ projects'[i] = projects[i]
          BY <2>7, <4>2
        <5>2. /\ projects[i].suggestions # {}
              /\ \A t \in projects[i].suggestions : Seen(t.at, projects[i].root, t.markers)
          BY <5>1 DEF ProjectsInv, SignalsAreSound
        <5> QED  BY <1>1, <2>8, <5>1, <5>2 DEF Seen
      <4> QED  BY <4>1, <4>2
    <3> QED  BY <3>1 DEF SignalsAreSound
  <2>13. /\ call' = [call EXCEPT ![c] = next] /\ next \in Calls /\ next.pc = "show"
         /\ next.root = r /\ next.inner = call[c].inner
    BY <1>1, <2>1, <2>4 DEF Calls, Bound, r
  <2> HIDE DEF next
  <2>14. CallShape' /\ CallsAreSound'
    <3>1. CallShape'
      BY <1>1, <2>13 DEF CallShape
    <3>2. ASSUME NEW x \in Callers PROVE Sound(call[x])'
      <4>1. CASE x = c
        <5>1. call'[x] = next
          BY <1>1, <2>13, <4>1
        <5> QED  BY <1>1, <2>2, <2>8, <2>13, <5>1 DEF Sound, Bound, Timed
      <4>2. CASE x # c
        <5>1. call'[x] = call[x] /\ Sound(call[x])
          BY <1>1, <2>13, <4>2, CallOf
        <5> QED  BY <1>1, <2>8, <5>1 DEF Sound, Scanned
      <4> QED  BY <4>1, <4>2
    <3> QED  BY <3>1, <3>2 DEF CallsAreSound
  <2> QED  BY <2>8, <2>9, <2>10, <2>11, <2>12, <2>14 DEF ProjectsInv
<1> QED  BY <1>2, <1>3

\* A decision that is appended to the events of a project.
LEMMA DecideKeeps ==
    ASSUME ProjectsInv, NEW c \in Callers, Decide(c)
    PROVE  ProjectsInv'
<1> DEFINE i == call[c].id
           decided == Decided(i, call[c].decision)
<1>1. /\ call[c] \in Calls /\ call' = [call EXCEPT ![c] = NoCall] /\ call \in [Callers -> Calls]
      /\ UNCHANGED <<published, policy>>
  BY CallOf DEF Decide, Ends, ProjectsInv, CallShape
<1>2. CASE projects' = projects
  <2>1. Unless(c, FALSE, NoCall)
    BY <1>1, <1>2 DEF Unless, Ends
  <2> QED  BY <2>1, CallGoesOnIf
<1>3. CASE Shows(i) /\ projects' = [projects EXCEPT ![i].decisions = decided]
  <2> DEFINE row == [projects[i] EXCEPT !.decisions = decided]
  <2>1. i \in DOMAIN projects /\ projects[i] \in Rows /\ call[c].decision \in Answers
    BY <1>1, <1>3 DEF Shows, ProjectsInv, RowsShape, Calls
  <2>2. decided \in Seq(Answers)
    <3>1. projects[i].decisions \in Seq(Answers)
      BY <2>1 DEF Rows
    <3> QED  BY <2>1, <3>1, AppendProperties DEF Decided
  <2> HIDE DEF decided, i
  <2>3. /\ row \in Rows /\ row.root = projects[i].root
        /\ row.suggestions = projects[i].suggestions
    BY <2>1, <2>2 DEF Rows
  <2>4. projects' = [projects EXCEPT ![i] = row]
    BY <1>3
  <2> HIDE DEF row
  <2>5. /\ DOMAIN projects' = DOMAIN projects
        /\ \A j \in DOMAIN projects : /\ projects'[j] \in Rows
                                      /\ projects'[j].root = projects[j].root
                                      /\ projects'[j].suggestions = projects[j].suggestions
    BY <2>1, <2>3, <2>4 DEF ProjectsInv, RowsShape
  <2>6. ScansShape' /\ IdsShape' /\ RootsAreUnique'
    BY <1>1, <2>5 DEF ProjectsInv, ScansShape, IdsShape, RootsAreUnique, Now
  <2>7. RowsShape'
    BY <2>4, <2>5 DEF RowsShape
  <2>8. SignalsAreSound'
    BY <1>1, <2>5 DEF ProjectsInv, SignalsAreSound, Seen, Now
  <2>9. CallShape'
    BY <1>1, NoCallIsIdle DEF CallShape
  <2>10. ASSUME NEW x \in Callers PROVE Sound(call[x])'
    <3>1. CASE x = c
      <4>1. call'[x] = NoCall /\ policy'.revision \in Nat
        BY <1>1, <3>1, Manifests DEF ProjectsInv
      <4> QED  BY <4>1, NoCallIsIdle DEF Sound, Bound, Timed
    <3>2. CASE x # c
      <4>1. call'[x] = call[x] /\ Sound(call[x])
        BY <1>1, <3>2, CallOf
      <4> QED  BY <1>1, <4>1 DEF Sound, Scanned, Now
    <3> QED  BY <3>1, <3>2
  <2> QED  BY <2>6, <2>7, <2>8, <2>9, <2>10 DEF ProjectsInv, CallsAreSound
<1> QED  BY <1>1, <1>2, <1>3 DEF Decide

-----------------------------------------------------------------------------
LEMMA ProjectsStep ==
    ASSUME Bounds, ProjectsInv, [ProjectsNext]_projectVars
    PROVE  ProjectsInv'
<1>1. CASE UNCHANGED projectVars
  <2>1. UNCHANGED <<published, policy, projects, call>>
    BY <1>1 DEF projectVars
  <2>2. ScansShape' /\ IdsShape' /\ RowsShape' /\ CallShape' /\ RootsAreUnique'
    BY <2>1 DEF ProjectsInv, ScansShape, IdsShape, RowsShape, CallShape, RootsAreUnique, Now
  <2>3. SignalsAreSound' /\ CallsAreSound'
    BY <2>1 DEF ProjectsInv, SignalsAreSound, CallsAreSound, Seen, Sound, Scanned, Now
  <2> QED  BY <2>2, <2>3 DEF ProjectsInv
<1>2. ASSUME NEW manifest \in [Roots -> Folders], Publish(manifest) PROVE ProjectsInv'
  BY <1>2, PublishKeeps
<1>3. CASE \/ \E r \in Roots : ExcludeFolder(r) \/ \E marker \in Markers : Exclude(r, marker)
           \/ Revoke
  BY <1>3, PoliciesChange
<1>4. ASSUME NEW c \in Callers,
             \/ \E r \in Roots : Propose(c, r)
             \/ Discover(c)
             \/ \E i \in DOMAIN projects, decision \in {"none", "accepted", "rejected"} :
                   Ask(c, i, decision)
             \/ ReadMarkers(c) \/ ReadTime(c) \/ RereadMarkers(c) \/ RereadTime(c)
             \/ Show(c) \/ Rebind(c)
      PROVE  ProjectsInv'
  BY <1>4, CallsGoOn DEF Answers
<1>5. ASSUME NEW c \in Callers, Record(c) \/ Decide(c) PROVE ProjectsInv'
  BY <1>5, RecordKeeps, DecideKeeps
<1> QED  BY <1>1, <1>2, <1>3, <1>4, <1>5 DEF ProjectsNext

LEMMA ProjectsAreSound ==
    ASSUME Bounds
    PROVE  ProjectsSpec => []ProjectsInv
<1>1. ProjectsInit => ProjectsInv
  BY ProjectsBegin
<1>2. ProjectsInv /\ [ProjectsNext]_projectVars => ProjectsInv'
  BY ProjectsStep
<1> QED  BY <1>1, <1>2, PTL DEF ProjectsSpec

-----------------------------------------------------------------------------
\* However many callers record suggestions for a folder, it has one project, and a project that
\* exists has a suggestion.
THEOREM ProjectsAreWellTyped ==
    ASSUME Bounds
    PROVE  ProjectsSpec => []ProjectsTypeOK
<1>1. ProjectsInv => ProjectsTypeOK
  BY DEF ProjectsInv, ScansShape, RootsAreUnique, SignalsAreSound, ProjectsTypeOK
<1> QED  BY <1>1, ProjectsAreSound, PTL

\* The signals of a suggestion are the markers of its folder in the manifest of the very scan it
\* names, whatever is published or excluded between the queries of a call.
THEOREM SignalsAreOfOneScan ==
    ASSUME Bounds
    PROVE  ProjectsSpec => []SignalsAreOfTheirScan
<1>1. ProjectsInv => SignalsAreOfTheirScan
  BY DEF ProjectsInv, SignalsAreSound, Seen, SignalsAreOfTheirScan
<1> QED  BY <1>1, ProjectsAreSound, PTL

-----------------------------------------------------------------------------
(* The inbox: recursion over numbers, lists and the least of a set.           *)

\* The provers do not take an induction over a predicate; over a set they do.
LEMMA UpTo ==
    ASSUME NEW k \in Nat, NEW T, 0 \in T, \A n \in 1 .. k : n - 1 \in T => n \in T
    PROVE  0 .. k \subseteq T
<1> DEFINE out == (0 .. k) \ T
<1>1. SUFFICES ASSUME out # {} PROVE FALSE
  OBVIOUS
<1>2. PICK m \in out : \A n \in out : m <= n
  <2>1. out \subseteq Nat
    OBVIOUS
  <2> QED  BY <1>1, <2>1, LeastNumber
<1>3. m \in 1 .. k /\ m - 1 \in 0 .. k /\ m - 1 \notin out
  BY <1>2
<1>4. m - 1 \in T
  BY <1>3
<1> QED  BY <1>2, <1>3, <1>4

\* What a recursive function over 0 .. k is, when each of its steps is a function on T.
Recurses(T, base, k, step) ==
    \E f \in [0 .. k -> T] : f[0] = base /\ \A n \in 1 .. k : f[n] = step[n][f[n - 1]]
LEMMA Recursion ==
    ASSUME NEW T, NEW base \in T, NEW k \in Nat, NEW step \in [1 .. k -> [T -> T]]
    PROVE  Recurses(T, base, k, step)
<1> DEFINE Done(n, f) == f \in [0 .. n -> T] /\ f[0] = base
                           /\ \A m \in 1 .. n : f[m] = step[m][f[m - 1]]
           S == {n \in 0 .. k : \E f : Done(n, f)}
<1>1. 0 \in S
  <2> DEFINE one == [n \in 0 .. 0 |-> base]
  <2>1. one \in [0 .. 0 -> T] /\ one[0] = base
    OBVIOUS
  <2>2. 1 .. 0 = {}
    OBVIOUS
  <2> HIDE DEF one
  <2>3. Done(0, one)
    BY <2>1, <2>2
  <2> QED  BY <2>3
<1>2. ASSUME NEW n \in 1 .. k, n - 1 \in S PROVE n \in S
  <2>1. PICK f : Done(n - 1, f)
    BY <1>2
  <2> DEFINE g == [m \in 0 .. n |-> IF m = n THEN step[n][f[n - 1]] ELSE f[m]]
  <2>2. n \in Nat /\ n - 1 \in 0 .. n - 1 /\ 0 # n
    OBVIOUS
  <2>3. step[n][f[n - 1]] \in T
    BY <2>1, <2>2
  <2>4. g \in [0 .. n -> T]
    <3>1. \A m \in 0 .. n : m = n \/ m \in 0 .. n - 1
      BY <2>2
    <3> QED  BY <2>1, <2>3, <3>1
  <2>5. g[0] = base
    BY <2>1, <2>2
  <2>6. ASSUME NEW m \in 1 .. n PROVE g[m] = step[m][g[m - 1]]
    <3>1. m \in 0 .. n /\ m - 1 \in 0 .. n /\ m - 1 # n
      BY <2>2
    <3>2. g[m - 1] = f[m - 1]
      BY <3>1
    <3>3. CASE m = n
      <4>1. g[m] = step[n][f[n - 1]]
        BY <3>1, <3>3
      <4> QED  BY <3>2, <3>3, <4>1
    <3>4. CASE m # n
      <4>1. m \in 1 .. n - 1 /\ g[m] = f[m]
        BY <3>1, <3>4
      <4> QED  BY <2>1, <3>2, <4>1
    <3> QED  BY <3>3, <3>4
  <2> HIDE DEF g
  <2>7. Done(n, g)
    BY <2>4, <2>5, <2>6
  <2> QED  BY <2>7
<1>3. 0 .. k \subseteq S
  <2> HIDE DEF S
  <2> QED  BY <1>1, <1>2, UpTo
<1>4. k \in S
  BY <1>3
<1> QED  BY <1>4 DEF Recurses

LEMMA LeastBy ==
    ASSUME NEW S, S # {}, NEW val, \A e \in S : val[e] \in Nat
    PROVE  \E e \in S : \A d \in S : val[e] <= val[d]
<1> DEFINE T == {val[e] : e \in S}
<1>1. T \subseteq Nat /\ T # {}
  OBVIOUS
<1>2. PICK m \in T : \A n \in T : m <= n
  BY <1>1, LeastNumber
<1> QED  BY <1>2

LEMMA OneMore ==
    ASSUME NEW S, NEW b \in Seq(S), NEW x \in S
    PROVE  /\ Append(b, x) \in Seq(S) /\ Len(Append(b, x)) = Len(b) + 1 /\ Len(b) \in Nat
           /\ \A i \in 1 .. Len(b) : Append(b, x)[i] = b[i] /\ b[i] \in ToSet(b)
           /\ Append(b, x)[Len(b) + 1] = x
           /\ ToSet(Append(b, x)) = ToSet(b) \cup {x}
<1>1. /\ Append(b, x) \in Seq(S) /\ Len(Append(b, x)) = Len(b) + 1 /\ Len(b) \in Nat
      /\ \A i \in 1 .. Len(b) : Append(b, x)[i] = b[i] /\ b[i] \in ToSet(b)
      /\ Append(b, x)[Len(b) + 1] = x
  BY DEF ToSet
<1> DEFINE l == Append(b, x)
<1>2. DOMAIN l = 1 .. Len(b) + 1 /\ DOMAIN b = 1 .. Len(b)
  BY <1>1
<1> HIDE DEF l
<1>3. \A i \in 1 .. Len(b) + 1 : i \in 1 .. Len(b) \/ i = Len(b) + 1
  BY <1>1
<1>4. Len(b) + 1 \in 1 .. Len(b) + 1 /\ 1 .. Len(b) \subseteq 1 .. Len(b) + 1
  BY <1>1
<1>5. ToSet(l) = ToSet(b) \cup {x}
  BY <1>1, <1>2, <1>3, <1>4 DEF ToSet, l
<1> QED  BY <1>1, <1>5 DEF l

LEMMA CountOfList ==
    ASSUME NEW S, NEW b \in Seq(S), \A i, j \in 1 .. Len(b) : i < j => b[i] # b[j]
    PROVE  Cardinality(ToSet(b)) = Len(b) /\ IsFiniteSet(ToSet(b))
<1>1. Len(b) \in Nat /\ DOMAIN b = 1 .. Len(b)
  OBVIOUS
<1>2. b \in [1 .. Len(b) -> ToSet(b)]
  BY <1>1 DEF ToSet
<1>3. \A i, j \in 1 .. Len(b) : i # j => b[i] # b[j]
  <2>1. \A i, j \in 1 .. Len(b) : i # j => i < j \/ j < i
    OBVIOUS
  <2> QED  BY <2>1
<1>4. \A x \in ToSet(b) : \E i \in 1 .. Len(b) : b[i] = x
  BY <1>1 DEF ToSet
<1>5. ExistsBijection(1 .. Len(b), ToSet(b))
  BY <1>2, <1>3, <1>4 DEF ExistsBijection, Bijection, Injection, Surjection, IsInjective
<1>6. IsFiniteSet(1 .. Len(b))
  BY <1>1, FS_Interval
<1> QED  BY <1>1, <1>5, <1>6, FS_CountingElements, FS_Bijection

-----------------------------------------------------------------------------
(* The order of the sources of screenshot groups.                            *)

Row == [present : BOOLEAN, time : 0 .. MaxTime, proof : 0 .. MaxProofs]
Known == /\ Images \subseteq Nat /\ Shape \in [Images -> Nat] /\ MaxTime \in Nat
         /\ known \in [Images -> Row] /\ Window \in Nat /\ IsFiniteSet(Images)

LEMMA KnownParts ==
    ASSUME Known, NEW i \in Images
    PROVE  i \in Nat /\ Shape[i] \in Nat /\ known[i].time \in Nat /\ known[i] \in Row
<1>1. known[i] \in Row /\ i \in Nat /\ Shape[i] \in Nat
  BY DEF Known
<1>2. known[i].time \in 0 .. MaxTime /\ MaxTime \in Nat
  BY <1>1 DEF Row, Known
<1> QED  BY <1>1, <1>2

LEMMA BeforeIsOrder ==
    ASSUME Known
    PROVE  /\ \A i \in Images : ~Before(i, i)
           /\ \A i, j \in Images : i # j => Before(i, j) \/ Before(j, i)
           /\ \A i, j, k \in Images : Before(i, j) /\ Before(j, k) => Before(i, k)
<1> DEFINE t == [i \in Images |-> known[i].time]
<1>1. \A i \in Images :
        i \in Nat /\ Shape[i] \in Nat /\ t[i] \in Nat /\ known[i].time = t[i]
  BY KnownParts
<1> HIDE DEF t
<1> DEFINE Less(i, j) == \/ Shape[i] < Shape[j]
                         \/ (Shape[i] = Shape[j] /\ t[i] < t[j])
                         \/ (Shape[i] = Shape[j] /\ t[i] = t[j] /\ i < j)
<1>2. \A i, j \in Images : Before(i, j) <=> Less(i, j)
  <2> SUFFICES ASSUME NEW i \in Images, NEW j \in Images PROVE Before(i, j) <=> Less(i, j)
    OBVIOUS
  <2> QED  BY <1>1 DEF Before
<1>3. \A i \in Images : ~Before(i, i)
  BY <1>1, <1>2
<1>4. \A i, j \in Images : i # j => Before(i, j) \/ Before(j, i)
  BY <1>1, <1>2
<1>5. ASSUME NEW i \in Images, NEW j \in Images, NEW k \in Images, Before(i, j), Before(j, k)
      PROVE  Before(i, k)
  BY <1>1, <1>2, <1>5
<1> QED  BY <1>3, <1>4, <1>5

LEMMA SomeIsFirst ==
    ASSUME Known, NEW S \in SUBSET Images, S # {}
    PROVE  \E e \in S : \A d \in S \ {e} : Before(e, d)
<1> DEFINE t == [i \in Images |-> known[i].time]
<1>1. \A i \in Images : i \in Nat /\ Shape[i] \in Nat /\ t[i] \in Nat
  BY KnownParts
<1>2. \A i \in Images : known[i].time = t[i]
  OBVIOUS
<1> HIDE DEF t
<1> DEFINE S1 == {e \in S : \A d \in S : Shape[e] <= Shape[d]}
           S2 == {e \in S1 : \A d \in S1 : t[e] <= t[d]}
<1>3. S1 # {}
  <2>1. \A e \in S : Shape[e] \in Nat
    BY <1>1
  <2>2. \E e \in S : \A d \in S : Shape[e] <= Shape[d]
    BY <2>1, LeastBy
  <2> QED  BY <2>2
<1>4. S2 # {}
  <2>1. \A e \in S1 : t[e] \in Nat
    BY <1>1
  <2>2. \E e \in S1 : \A d \in S1 : t[e] <= t[d]
    <3> HIDE DEF S1
    <3> QED  BY <1>3, <2>1, LeastBy
  <2> QED  BY <2>2
<1>5. PICK e \in S2 : \A d \in S2 : e <= d
  <2>1. S2 \subseteq Nat
    BY <1>1
  <2> HIDE DEF S2
  <2> QED  BY <1>4, <2>1, LeastNumber
<1>6. e \in S
  OBVIOUS
<1>7. ASSUME NEW d \in S \ {e} PROVE Before(e, d)
  <2>1. /\ Shape[e] <= Shape[d] /\ Shape[e] \in Nat /\ Shape[d] \in Nat
        /\ t[e] \in Nat /\ t[d] \in Nat /\ e \in Nat /\ d \in Nat
    BY <1>1, <1>6
  <2>2. CASE Shape[e] < Shape[d]
    BY <2>1, <2>2 DEF Before
  <2>3. CASE Shape[e] = Shape[d]
    <3>1. d \in S1
      BY <2>3
    <3>2. t[e] <= t[d]
      BY <3>1
    <3>3. CASE t[e] < t[d]
      BY <1>2, <1>6, <2>1, <2>3, <3>3 DEF Before
    <3>4. CASE t[e] = t[d]
      <4>1. d \in S2
        BY <3>1, <3>4
      <4>2. e < d
        BY <1>5, <2>1, <4>1
      <4> QED  BY <1>2, <1>6, <2>1, <2>3, <3>4, <4>2 DEF Before
    <3> QED  BY <2>1, <3>2, <3>3, <3>4
  <2> QED  BY <2>1, <2>2, <2>3
<1> QED  BY <1>6, <1>7

Sorted(s) == \A m, n \in DOMAIN s : m < n => Before(s[m], s[n])

LEMMA SortedExists ==
    ASSUME Known, NEW S \in SUBSET Images
    PROVE  \E s \in [1 .. Cardinality(S) -> S] : Sorted(s)
<1> DEFINE Has(U) == \E s \in [1 .. Cardinality(U) -> U] : Sorted(s)
           k == Cardinality(S)
           T == {n \in 0 .. k : \A U \in SUBSET Images : Cardinality(U) = n => Has(U)}
<1>1. \A U \in SUBSET Images : IsFiniteSet(U) /\ Cardinality(U) \in Nat
  BY FS_Subset, FS_CardinalityType DEF Known
<1>2. 0 \in T
  <2>1. ASSUME NEW U \in SUBSET Images, Cardinality(U) = 0 PROVE Has(U)
    <3>1. U = {} /\ 1 .. Cardinality(U) = {}
      BY <1>1, <2>1, FS_EmptySet
    <3> DEFINE s == [m \in 1 .. Cardinality(U) |-> 0]
    <3>2. s \in [1 .. Cardinality(U) -> U] /\ Sorted(s)
      BY <3>1 DEF Sorted
    <3> QED  BY <3>2
  <2>2. 0 \in 0 .. k
    BY <1>1
  <2> QED  BY <2>1, <2>2
<1>3. ASSUME NEW n \in 1 .. k, n - 1 \in T PROVE n \in T
  <2>1. n \in 0 .. k /\ n \in Nat /\ n > 0
    BY <1>1
  <2>2. ASSUME NEW U \in SUBSET Images, Cardinality(U) = n PROVE Has(U)
    <3>1. U # {}
      BY <2>1, <2>2, FS_EmptySet
    <3>2. PICK e \in U : \A d \in U \ {e} : Before(e, d)
      BY <3>1, SomeIsFirst
    <3> DEFINE V == U \ {e}
    <3>3. V \in SUBSET Images /\ Cardinality(V) = n - 1
      BY <1>1, <2>2, FS_RemoveElement
    <3>4. PICK s \in [1 .. n - 1 -> V] : Sorted(s)
      <4> HIDE DEF V, Has
      <4>1. Has(V)
        BY <1>3, <3>3
      <4> QED  BY <3>3, <4>1 DEF Has
    <3> DEFINE r == [m \in 1 .. n |-> IF m = 1 THEN e ELSE s[m - 1]]
    <3>5. \A m \in 1 .. n : m = 1 \/ m - 1 \in 1 .. n - 1
      BY <2>1
    <3>6. \A m \in 1 .. n - 1 : s[m] \in V /\ s[m] \in U
      OBVIOUS
    <3>7. r \in [1 .. n -> U]
      BY <3>5, <3>6
    <3>8. ASSUME NEW m \in 1 .. n, NEW l \in 1 .. n, m < l PROVE Before(r[m], r[l])
      <4>1. l # 1 /\ l - 1 \in 1 .. n - 1 /\ r[l] = s[l - 1]
        BY <2>1, <3>8
      <4>2. CASE m = 1
        <5>1. r[m] = e
          BY <4>2
        <5> QED  BY <3>2, <3>6, <4>1, <5>1
      <4>3. CASE m # 1
        <5>1. m - 1 \in 1 .. n - 1 /\ r[m] = s[m - 1] /\ m - 1 < l - 1
          BY <2>1, <3>8, <4>3
        <5>2. DOMAIN s = 1 .. n - 1
          OBVIOUS
        <5> HIDE DEF r
        <5> QED  BY <3>4, <4>1, <5>1, <5>2 DEF Sorted
      <4> QED  BY <4>2, <4>3
    <3>9. DOMAIN r = 1 .. n
      OBVIOUS
    <3> HIDE DEF r
    <3>10. Sorted(r)
      BY <3>8, <3>9 DEF Sorted
    <3> QED  BY <2>2, <3>7, <3>10
  <2> QED  BY <2>1, <2>2
<1>4. 0 .. k \subseteq T
  <2> HIDE DEF T, k
  <2>1. k \in Nat
    BY <1>1 DEF k
  <2> QED  BY <1>2, <1>3, <2>1, UpTo
<1>5. k \in T
  <2>1. k \in 0 .. k
    BY <1>1
  <2> HIDE DEF T
  <2> QED  BY <1>4, <2>1
<1> QED  BY <1>5

\* The sources are all images that are eligible, in their order.
LEMMA SourcesAreSorted ==
    ASSUME Known
    PROVE  /\ Sources \in Seq(Images) /\ Sorted(Sources) /\ Len(Sources) \in Nat
           /\ \A n \in 1 .. Len(Sources) : Sources[n] \in Eligible
           /\ \A i \in Eligible : \E n \in 1 .. Len(Sources) : Sources[n] = i
<1> DEFINE k == Cardinality(Eligible)
<1>1. Eligible \in SUBSET Images /\ IsFiniteSet(Eligible) /\ k \in Nat
  <2>1. Eligible \in SUBSET Images
    BY DEF Eligible
  <2> QED  BY <2>1, FS_Subset, FS_CardinalityType DEF Known
<1> HIDE DEF k
<1>2. \E s \in [1 .. k -> Eligible] : Sorted(s)
  BY <1>1, SortedExists DEF k
<1>3. Sources \in [1 .. k -> Eligible] /\ Sorted(Sources)
  BY <1>2, Zenon DEF Sources, Sorted, k
<1>4. \A m, n \in 1 .. k : m # n => Sources[m] # Sources[n]
  <2> SUFFICES ASSUME NEW m \in 1 .. k, NEW n \in 1 .. k, m # n PROVE Sources[m] # Sources[n]
    OBVIOUS
  <2>1. Before(Sources[m], Sources[n]) \/ Before(Sources[n], Sources[m])
    <3>1. m < n \/ n < m
      BY <1>1
    <3> QED  BY <1>3, <3>1 DEF Sorted
  <2>2. Sources[m] \in Images /\ Sources[n] \in Images
    BY <1>1, <1>3
  <2> QED  BY <2>1, <2>2, BeforeIsOrder
<1>5. Sources \in Surjection(1 .. k, Eligible)
  <2>1. Sources \in Injection(1 .. k, Eligible)
    BY <1>3, <1>4 DEF Injection, IsInjective
  <2>2. Cardinality(1 .. k) = k
    BY <1>1, FS_Interval
  <2> QED  BY <1>1, <2>1, <2>2, FS_Injection DEF k
<1>6. Len(Sources) = k /\ Sources \in Seq(Images)
  BY <1>1, <1>3
<1> QED  BY <1>1, <1>3, <1>5, <1>6 DEF Surjection
-----------------------------------------------------------------------------
(* The groups that the sources are cut into.                                 *)

\* The image j comes after i, and would be in a group that i begins.
Absorbs(i, j) ==
    Shape[i] = Shape[j] /\ Before(i, j) /\ known[j].time - known[i].time <= Window
\* A group of images of P, in their order; all belong to it, and no image of P is left out.
GoodGroup(g, P) ==
    /\ g \in Seq(P) /\ g # <<>>
    /\ \A a, b \in 1 .. Len(g) : a < b => Before(g[a], g[b])
    /\ \A a \in 1 .. Len(g) : Belongs(g, g[a])
    /\ \A j \in P : \E a \in 1 .. Len(g) : ~Absorbs(g[a], j)
\* The group takes in nothing that comes after P.
Closed(g, P) == \E x \in P : Before(g[1], x) /\ ~Belongs(g, x)
GoodGroups(groups, P) ==
    /\ groups \in Seq(Seq(Images))
    /\ \A n \in 1 .. Len(groups) :
         /\ GoodGroup(groups[n], P)
         /\ n < Len(groups) => Closed(groups[n], P)
Follows(P, k) == P \subseteq Images /\ k \in Images /\ \A x \in P : Before(x, k)

LEMMA GroupBegins ==
    ASSUME Known, NEW P \in SUBSET Images, NEW g, GoodGroup(g, P)
    PROVE  /\ Len(g) \in Nat \ {0} /\ g \in Seq(Images) /\ g[1] \in P
           /\ \A a \in 1 .. Len(g) : g[a] \in P
           /\ \A a \in 1 .. Len(g) : a # 1 => Before(g[1], g[a])
<1>1. g \in Seq(P) /\ g # <<>>
  BY DEF GoodGroup
<1>2. Len(g) \in Nat \ {0} /\ \A a \in 1 .. Len(g) : g[a] \in P
  BY <1>1
<1>3. g \in Seq(Images)
  BY <1>1, SeqMonotonic
<1>4. 1 \in 1 .. Len(g) /\ \A a \in 1 .. Len(g) : a # 1 => 1 < a
  BY <1>2
<1> QED  BY <1>2, <1>3, <1>4 DEF GoodGroup

LEMMA GroupGrows ==
    ASSUME Known, NEW P, NEW k, Follows(P, k), NEW g, GoodGroup(g, P), Belongs(g, k)
    PROVE  GoodGroup(Append(g, k), P \cup {k})
<1>1. /\ P \in SUBSET Images /\ k \in Images /\ \A x \in P : Before(x, k)
  BY DEF Follows
<1>2. /\ Len(g) \in Nat \ {0} /\ g[1] \in P /\ \A a \in 1 .. Len(g) : g[a] \in P
  BY <1>1, GroupBegins
<1> DEFINE Q == P \cup {k}
           h == Append(g, k)
<1>3. g \in Seq(Q)
  <2>1. g \in Seq(P)
    BY DEF GoodGroup
  <2> QED  BY <2>1, SeqMonotonic
<1>4. /\ h \in Seq(Q) /\ Len(h) = Len(g) + 1
      /\ \A a \in 1 .. Len(g) : h[a] = g[a]
      /\ h[Len(g) + 1] = k
  <2>1. k \in Q
    OBVIOUS
  <2> HIDE DEF Q
  <2> QED  BY <1>3, <2>1, OneMore
<1> HIDE DEF h
<1>5. /\ h # <<>> /\ h[1] = g[1]
      /\ \A a \in 1 .. Len(h) : a \in 1 .. Len(g) \/ a = Len(g) + 1
      /\ Len(g) + 1 \in 1 .. Len(h)
  <2>1. 1 \in 1 .. Len(g) /\ Len(h) # 0
    BY <1>2, <1>4
  <2> QED  BY <1>2, <1>4, <2>1
<1>6. ASSUME NEW a \in 1 .. Len(h), NEW b \in 1 .. Len(h), a < b PROVE Before(h[a], h[b])
  <2>1. a \in 1 .. Len(g)
    BY <1>2, <1>4, <1>6
  <2>2. CASE b \in 1 .. Len(g)
    BY <1>4, <1>6, <2>1, <2>2 DEF GoodGroup
  <2>3. CASE b = Len(g) + 1
    <3>1. h[b] = k /\ h[a] \in P
      BY <1>2, <1>4, <2>1, <2>3
    <3> QED  BY <1>1, <3>1
  <2> QED  BY <1>5, <2>2, <2>3
<1>7. ASSUME NEW a \in 1 .. Len(h) PROVE Belongs(h, h[a])
  <2>1. Belongs(g, h[a])
    <3>1. CASE a \in 1 .. Len(g)
      BY <1>4, <3>1 DEF GoodGroup
    <3>2. CASE a = Len(g) + 1
      BY <1>4, <3>2
    <3> QED  BY <1>5, <3>1, <3>2
  <2> QED  BY <1>5, <2>1 DEF Belongs
<1>8. ASSUME NEW j \in Q PROVE ~Absorbs(h[Len(g) + 1], j)
  <2>1. j = k \/ Before(j, k)
    BY <1>1
  <2>2. j \in Images
    BY <1>1
  <2>3. ~Before(k, j)
    BY <1>1, <2>1, <2>2, BeforeIsOrder
  <2> QED  BY <1>4, <2>3 DEF Absorbs
<1> QED  BY <1>4, <1>5, <1>6, <1>7, <1>8 DEF GoodGroup, h

\* What does not belong to a group is not absorbed by its first image.
LEMMA NotAbsorbed ==
    ASSUME Known, NEW g, g[1] \in Images, NEW k \in Images, ~Belongs(g, k)
    PROVE  ~Absorbs(g[1], k)
BY DEF Absorbs, Belongs

LEMMA GroupStays ==
    ASSUME Known, NEW P, NEW k, Follows(P, k), NEW g, GoodGroup(g, P), ~Belongs(g, k)
    PROVE  GoodGroup(g, P \cup {k}) /\ Closed(g, P \cup {k})
<1>1. /\ P \in SUBSET Images /\ k \in Images /\ \A x \in P : Before(x, k)
  BY DEF Follows
<1>2. Len(g) \in Nat \ {0} /\ g[1] \in P
  BY <1>1, GroupBegins
<1>3. g \in Seq(P \cup {k})
  <2>1. g \in Seq(P)
    BY DEF GoodGroup
  <2> QED  BY <2>1, SeqMonotonic
<1>4. 1 \in 1 .. Len(g) /\ ~Absorbs(g[1], k)
  <2>1. g[1] \in Images
    BY <1>1, <1>2
  <2> QED  BY <1>1, <1>2, <2>1, NotAbsorbed
<1>5. \A j \in P \cup {k} : \E a \in 1 .. Len(g) : ~Absorbs(g[a], j)
  BY <1>4 DEF GoodGroup
<1>6. GoodGroup(g, P \cup {k})
  BY <1>3, <1>5 DEF GoodGroup
<1>7. Closed(g, P \cup {k})
  BY <1>1, <1>2 DEF Closed
<1> QED  BY <1>6, <1>7

LEMMA ClosedStays ==
    ASSUME Known, NEW P, NEW k, Follows(P, k), NEW g, GoodGroup(g, P), Closed(g, P)
    PROVE  GoodGroup(g, P \cup {k}) /\ Closed(g, P \cup {k})
<1>1. /\ P \in SUBSET Images /\ k \in Images /\ \A x \in P : Before(x, k)
  BY DEF Follows
<1>2. PICK x \in P : Before(g[1], x) /\ ~Belongs(g, x)
  BY DEF Closed
<1>3. x \in Images /\ g[1] \in Images /\ Before(x, k)
  BY <1>1, GroupBegins
<1>4. ~Belongs(g, k)
  <2> DEFINE tg == known[g[1]].time  tx == known[x].time  tk == known[k].time
  <2>1. /\ tg \in Nat /\ tx \in Nat /\ tk \in Nat
        /\ Shape[g[1]] \in Nat /\ Shape[x] \in Nat /\ Shape[k] \in Nat
    BY <1>1, <1>3, KnownParts
  <2>2. SUFFICES ASSUME Shape[k] = Shape[g[1]] PROVE ~(tk - tg <= Window)
    BY DEF Belongs
  <2>3. Shape[g[1]] <= Shape[x] /\ Shape[x] <= Shape[k]
    BY <1>2, <1>3, <2>1 DEF Before
  <2>4. Shape[x] = Shape[g[1]]
    BY <2>1, <2>2, <2>3
  <2>5. ~(tx - tg <= Window)
    BY <1>2, <2>4 DEF Belongs
  <2>6. tx <= tk
    BY <1>3, <2>1, <2>2, <2>4 DEF Before
  <2>7. Window \in Nat
    BY DEF Known
  <2> HIDE DEF tg, tx, tk
  <2> QED  BY <2>1, <2>5, <2>6, <2>7
<1> QED  BY <1>4, GroupStays

LEMMA GroupOfOne ==
    ASSUME Known, NEW P, NEW k, Follows(P, k)
    PROVE  GoodGroup(<<k>>, P \cup {k})
<1>1. /\ P \in SUBSET Images /\ k \in Images /\ \A x \in P : Before(x, k)
  BY DEF Follows
<1> DEFINE g == <<k>>
<1>2. g \in Seq(P \cup {k}) /\ g # <<>> /\ Len(g) = 1 /\ g[1] = k /\ 1 .. 1 = {1}
  OBVIOUS
<1> HIDE DEF g
<1>3. \A a, b \in 1 .. Len(g) : ~(a < b)
  BY <1>2
<1>4. Belongs(g, g[1])
  <2>1. known[k].time - known[k].time = 0 /\ Window \in Nat
    BY <1>1, KnownParts DEF Known
  <2> QED  BY <1>2, <2>1 DEF Belongs
<1>5. \A j \in P \cup {k} : ~Absorbs(g[1], j)
  <2>1. ASSUME NEW j \in P \cup {k} PROVE ~Before(k, j)
    BY <1>1, BeforeIsOrder
  <2> QED  BY <1>2, <2>1 DEF Absorbs
<1> QED  BY <1>2, <1>3, <1>4, <1>5 DEF GoodGroup, g
LEMMA LastReplaced ==
    ASSUME NEW S, NEW gs \in Seq(S), gs # <<>>, NEW h \in S, NEW hs,
           hs = [gs EXCEPT ![Len(gs)] = h]
    PROVE  /\ hs \in Seq(S) /\ Len(hs) = Len(gs) /\ Len(gs) \in Nat \ {0}
           /\ \A n \in 1 .. Len(gs) : n < Len(gs) => hs[n] = gs[n]
           /\ hs[Len(gs)] = h
<1> DEFINE k == Len(gs)
<1>1. k \in Nat \ {0} /\ k \in 1 .. k /\ gs \in [1 .. k -> S]
  BY LenProperties
<1>2. hs = [gs EXCEPT ![k] = h]
  OBVIOUS
<1> HIDE DEF k
<1>3. hs \in [1 .. k -> S] /\ hs[k] = h /\ \A n \in 1 .. k : n # k => hs[n] = gs[n]
  BY <1>1, <1>2
<1>4. hs \in Seq(S) /\ Len(hs) = k
  BY <1>1, <1>3
<1>5. \A n \in 1 .. k : n < k => hs[n] = gs[n]
  BY <1>1, <1>3
<1> QED  BY <1>1, <1>3, <1>4, <1>5 DEF k

LEMMA PlacedIsGood ==
    ASSUME Known, NEW P, NEW k, Follows(P, k), NEW gs, GoodGroups(gs, P)
    PROVE  GoodGroups(Placed(gs, k), P \cup {k})
<1>1. /\ P \in SUBSET Images /\ k \in Images
      /\ gs \in Seq(Seq(Images)) /\ Len(gs) \in Nat
  BY DEF Follows, GoodGroups
<1>2. ASSUME NEW n \in 1 .. Len(gs), n < Len(gs)
      PROVE  GoodGroup(gs[n], P \cup {k}) /\ Closed(gs[n], P \cup {k})
  <2>1. GoodGroup(gs[n], P) /\ Closed(gs[n], P)
    BY <1>2 DEF GoodGroups
  <2> QED  BY <2>1, ClosedStays
<1>3. CASE gs # <<>> /\ Belongs(gs[Len(gs)], k)
  <2> DEFINE g == gs[Len(gs)]
             h == Append(g, k)
             hs == [gs EXCEPT ![Len(gs)] = h]
  <2>1. Len(gs) \in 1 .. Len(gs)
    BY <1>1, <1>3
  <2>2. GoodGroup(g, P) /\ g \in Seq(Images)
    BY <1>1, <2>1 DEF GoodGroups
  <2>3. GoodGroup(h, P \cup {k}) /\ h \in Seq(Images)
    BY <1>1, <1>3, <2>2, GroupGrows
  <2>4. Placed(gs, k) = hs
    BY <1>3 DEF Placed
  <2>5. hs = [gs EXCEPT ![Len(gs)] = h]
    OBVIOUS
  <2> HIDE DEF h, hs
  <2>6. /\ hs \in Seq(Seq(Images)) /\ Len(hs) = Len(gs)
        /\ \A n \in 1 .. Len(gs) : n < Len(gs) => hs[n] = gs[n]
        /\ hs[Len(gs)] = h
    BY <1>1, <1>3, <2>3, <2>5, LastReplaced
  <2>7. \A n \in 1 .. Len(gs) : n < Len(gs) \/ n = Len(gs)
    BY <1>1
  <2>8. ASSUME NEW n \in 1 .. Len(hs)
        PROVE  /\ GoodGroup(hs[n], P \cup {k})
               /\ n < Len(hs) => Closed(hs[n], P \cup {k})
    <3>1. CASE n < Len(gs)
      BY <1>2, <2>6, <3>1
    <3>2. CASE n = Len(gs)
      BY <1>1, <2>3, <2>6, <3>2
    <3> QED  BY <2>6, <2>7, <3>1, <3>2
  <2> QED  BY <2>4, <2>6, <2>8 DEF GoodGroups
<1>4. CASE ~(gs # <<>> /\ Belongs(gs[Len(gs)], k))
  <2> DEFINE one == <<k>>
             hs == Append(gs, one)
  <2>1. one \in Seq(Images)
    BY <1>1
  <2>2. GoodGroup(one, P \cup {k})
    BY GroupOfOne
  <2>3. Placed(gs, k) = hs
    BY <1>4 DEF Placed
  <2> HIDE DEF one
  <2>4. /\ hs \in Seq(Seq(Images)) /\ Len(hs) = Len(gs) + 1
        /\ \A n \in 1 .. Len(gs) : hs[n] = gs[n]
        /\ hs[Len(gs) + 1] = one
    BY <1>1, <2>1, OneMore
  <2> HIDE DEF hs
  <2>5. ASSUME NEW n \in 1 .. Len(gs)
        PROVE  GoodGroup(gs[n], P \cup {k}) /\ Closed(gs[n], P \cup {k})
    <3>1. CASE n < Len(gs)
      BY <1>2, <3>1
    <3>2. CASE n = Len(gs)
      <4>1. gs # <<>> /\ ~Belongs(gs[n], k)
        BY <1>1, <1>4, <3>2
      <4>2. GoodGroup(gs[n], P)
        BY DEF GoodGroups
      <4> QED  BY <4>1, <4>2, GroupStays
    <3> QED  BY <1>1, <3>1, <3>2
  <2>6. ASSUME NEW n \in 1 .. Len(hs)
        PROVE  /\ GoodGroup(hs[n], P \cup {k})
               /\ n < Len(hs) => Closed(hs[n], P \cup {k})
    <3>1. n \in 1 .. Len(gs) \/ n = Len(gs) + 1
      BY <1>1, <2>4
    <3>2. CASE n \in 1 .. Len(gs)
      BY <2>4, <2>5, <3>2
    <3>3. CASE n = Len(gs) + 1
      BY <1>1, <2>2, <2>4, <3>3
    <3> QED  BY <3>1, <3>2, <3>3
  <2> QED  BY <2>3, <2>4, <2>6 DEF GoodGroups
<1> QED  BY <1>3, <1>4

LEMMA AllGroupsAreGood ==
    ASSUME Known
    PROVE  GoodGroups(AllGroups, Eligible)
<1> DEFINE s == Sources
           k == Len(s)
           T == Seq(Seq(Images))
           step == [n \in 1 .. k |-> [gs \in T |-> Placed(gs, s[n])]]
           Is(h) == h = [n \in 0 .. k |-> IF n = 0 THEN <<>> ELSE Placed(h[n - 1], s[n])]
           cut == CHOOSE f : Is(f)
<1>1. /\ s \in Seq(Images) /\ Sorted(s) /\ k \in Nat
      /\ \A n \in 1 .. k : s[n] \in Eligible /\ s[n] \in Images
      /\ \A i \in Eligible : \E n \in 1 .. k : s[n] = i
      /\ DOMAIN s = 1 .. k
  BY SourcesAreSorted DEF Eligible
<1>2. ASSUME NEW n \in 1 .. k, NEW gs \in T PROVE Placed(gs, s[n]) \in T
  <2> DEFINE i == s[n]
  <2>1. i \in Images
    BY <1>1
  <2> HIDE DEF i
  <2>2. CASE gs # <<>> /\ Belongs(gs[Len(gs)], i)
    <3> DEFINE g == gs[Len(gs)]
               h == Append(g, i)
    <3>1. g \in Seq(Images)
      <4>1. Len(gs) \in 1 .. Len(gs)
        BY <2>2
      <4> QED  BY <4>1
    <3>2. h \in Seq(Images)
      BY <2>1, <3>1
    <3>3. Placed(gs, i) = [gs EXCEPT ![Len(gs)] = h]
      BY <2>2 DEF Placed
    <3> HIDE DEF h
    <3> QED  BY <2>2, <3>2, <3>3, LastReplaced DEF i
  <2>3. CASE ~(gs # <<>> /\ Belongs(gs[Len(gs)], i))
    <3> DEFINE one == <<i>>
    <3>1. one \in Seq(Images)
      BY <2>1
    <3>2. Placed(gs, i) = Append(gs, one)
      BY <2>3 DEF Placed
    <3> HIDE DEF one
    <3> QED  BY <3>1, <3>2 DEF i
  <2> QED  BY <2>2, <2>3
<1>3. step \in [1 .. k -> [T -> T]]
  BY <1>2
<1>4. PICK f \in [0 .. k -> T] :
        f[0] = <<>> /\ \A n \in 1 .. k : f[n] = step[n][f[n - 1]]
  <2>1. <<>> \in T
    OBVIOUS
  <2> HIDE DEF step, k, Is, cut, T
  <2>2. Recurses(T, <<>>, k, step)
    BY <1>1, <1>3, <2>1, Recursion
  <2> QED  BY <2>2 DEF Recurses
<1>5. Is(f)
  <2>1. ASSUME NEW n \in 0 .. k PROVE f[n] = IF n = 0 THEN <<>> ELSE Placed(f[n - 1], s[n])
    <3>1. CASE n = 0
      BY <1>4, <3>1
    <3>2. CASE n # 0
      <4>1. n \in 1 .. k /\ n - 1 \in 0 .. k
        BY <1>1, <3>2
      <4>2. f[n - 1] \in T /\ f[n] = step[n][f[n - 1]]
        BY <1>4, <4>1
      <4>3. step[n][f[n - 1]] = Placed(f[n - 1], s[n])
        BY <4>1, <4>2
      <4> QED  BY <3>2, <4>2, <4>3
    <3> QED  BY <3>1, <3>2
  <2> DEFINE same == [n \in 0 .. k |-> f[n]]
             next == [n \in 0 .. k |-> IF n = 0 THEN <<>> ELSE Placed(f[n - 1], s[n])]
  <2>2. same = next
    BY <2>1, Zenon
  <2>3. f = same
    <3> HIDE DEF k
    <3> QED  BY <1>4
  <2> HIDE DEF same, next
  <2>4. f = next
    BY <2>2, <2>3
  <2> QED  BY <2>4 DEF next
<1>6. Is(cut)
  BY <1>5, Zenon
<1> HIDE DEF cut
<1>7. cut[0] = <<>>
  BY <1>1, <1>6
<1>8. \A n \in 1 .. k : cut[n] = Placed(cut[n - 1], s[n])
  <2>1. \A n \in 1 .. k : n \in 0 .. k /\ n # 0
    BY <1>1
  <2> HIDE DEF k
  <2> QED  BY <1>6, <2>1
<1> DEFINE To(n) == {s[m] : m \in 1 .. n}
           Fine == {n \in 0 .. k : GoodGroups(cut[n], To(n))}
<1>9. 0 \in Fine
  <2>1. 0 \in 0 .. k /\ 1 .. 0 = {} /\ Len(<<>>) = 0 /\ <<>> \in Seq(Seq(Images))
    BY <1>1
  <2>2. GoodGroups(<<>>, To(0))
    BY <2>1 DEF GoodGroups
  <2> QED  BY <1>7, <2>1, <2>2
<1>10. ASSUME NEW n \in 1 .. k, n - 1 \in Fine PROVE n \in Fine
  <2>1. n \in 0 .. k /\ GoodGroups(cut[n - 1], To(n - 1))
    BY <1>1, <1>10
  <2>2. Follows(To(n - 1), s[n])
    <3>1. ASSUME NEW m \in 1 .. n - 1 PROVE s[m] \in Images /\ Before(s[m], s[n])
      <4>1. m \in 1 .. k /\ m < n
        BY <1>1
      <4> QED  BY <1>1, <4>1 DEF Sorted
    <3>2. s[n] \in Images
      BY <1>1
    <3> HIDE DEF s
    <3> QED  BY <3>1, <3>2 DEF Follows
  <2>3. To(n) = To(n - 1) \cup {s[n]}
    <3>1. \A m \in 1 .. n : m \in 1 .. n - 1 \/ m = n
      BY <1>1
    <3>2. 1 .. n - 1 \subseteq 1 .. n /\ n \in 1 .. n
      BY <1>1
    <3> QED  BY <3>1, <3>2
  <2> HIDE DEF To, s
  <2>4. GoodGroups(Placed(cut[n - 1], s[n]), To(n - 1) \cup {s[n]})
    BY <2>1, <2>2, PlacedIsGood
  <2> QED  BY <1>8, <2>1, <2>3, <2>4
<1>11. GoodGroups(cut[k], To(k))
  <2> HIDE DEF Fine, k
  <2>1. k \in Nat
    BY <1>1
  <2>2. 0 .. k \subseteq Fine
    BY <1>9, <1>10, <2>1, UpTo
  <2>3. k \in Fine
    BY <2>1, <2>2
  <2> QED  BY <2>3 DEF Fine
<1>12. To(k) = Eligible
  BY <1>1
<1>13. AllGroups = cut[k]
  BY DEF AllGroups, cut
<1> QED  BY <1>11, <1>12, <1>13
Narrow(e) == \A i, j \in DOMAIN e : Shape[i] = Shape[j] /\ e[j].time - e[i].time <= Window
\* The evidence of a group: what the rows of its members said.
Evidences == UNION {[members -> Row] : members \in SUBSET Images}
Observable(e) == e \in Evidences /\ Cardinality(DOMAIN e) \in 2 .. MaxMembers /\ Narrow(e)

LEMMA GroupIsExact ==
    ASSUME Known, NEW members \in Groups
    PROVE  /\ members \subseteq Eligible /\ members \subseteq Images
           /\ \A i, j \in members : Shape[i] = Shape[j] /\ known[j].time - known[i].time <= Window
           /\ \A j \in Eligible : \E i \in members : ~Absorbs(i, j)
           /\ \E n \in DOMAIN AllGroups : /\ Cardinality(members) = Len(AllGroups[n])
                                          /\ Len(AllGroups[n]) >= 2
<1>1. PICK n \in DOMAIN AllGroups : Len(AllGroups[n]) >= 2 /\ members = ToSet(AllGroups[n])
  BY DEF Groups
<1> DEFINE g == AllGroups[n]
<1>2. GoodGroups(AllGroups, Eligible)
  BY AllGroupsAreGood
<1>3. n \in 1 .. Len(AllGroups)
  BY <1>2 DEF GoodGroups
<1>4. GoodGroup(g, Eligible)
  BY <1>2, <1>3 DEF GoodGroups
<1>5. Eligible \in SUBSET Images
  BY DEF Eligible
<1> HIDE DEF g
<1>6. /\ Len(g) \in Nat \ {0} /\ g \in Seq(Images) /\ g[1] \in Eligible
      /\ \A a \in 1 .. Len(g) : g[a] \in Eligible
      /\ \A a \in 1 .. Len(g) : a # 1 => Before(g[1], g[a])
  BY <1>4, <1>5, GroupBegins
<1>7. DOMAIN g = 1 .. Len(g) /\ members = {g[a] : a \in 1 .. Len(g)}
  BY <1>1, <1>6 DEF ToSet, g
<1>8. \A i \in members : \E a \in 1 .. Len(g) : g[a] = i
  BY <1>7
<1>9. members \subseteq Eligible /\ members \subseteq Images
  BY <1>5, <1>6, <1>8
<1>10. ASSUME NEW i \in members
       PROVE  Shape[i] = Shape[g[1]] /\ known[i].time - known[g[1]].time <= Window
              /\ known[g[1]].time <= known[i].time /\ known[i].time \in Nat
  <2>1. PICK a \in 1 .. Len(g) : g[a] = i
    BY <1>8
  <2>2. Belongs(g, i) /\ i \in Images /\ g[1] \in Images
    BY <1>4, <1>5, <1>6, <2>1 DEF GoodGroup
  <2>3. Shape[i] = Shape[g[1]] /\ known[i].time - known[g[1]].time <= Window
    BY <2>2 DEF Belongs
  <2> DEFINE ti == known[i].time  tg == known[g[1]].time
  <2>4. ti \in Nat /\ tg \in Nat /\ Shape[i] \in Nat
    BY <2>2, KnownParts
  <2>5. tg <= ti
    <3>1. CASE a = 1
      BY <2>1, <2>4, <3>1
    <3>2. CASE a # 1
      <4>1. Before(g[1], i)
        BY <1>6, <2>1, <3>2
      <4> QED  BY <2>3, <2>4, <4>1 DEF Before
    <3> QED  BY <3>1, <3>2
  <2> QED  BY <2>3, <2>4, <2>5
<1>11. ASSUME NEW i \in members, NEW j \in members
       PROVE  Shape[i] = Shape[j] /\ known[j].time - known[i].time <= Window
  <2> DEFINE ti == known[i].time  tj == known[j].time  tg == known[g[1]].time
  <2>1. Shape[i] = Shape[j]
    BY <1>10
  <2>2. ti \in Nat /\ tj \in Nat /\ tg <= ti /\ tj - tg <= Window
    BY <1>10
  <2>3. tg \in Nat /\ Window \in Nat
    BY <1>5, <1>6, KnownParts DEF Known
  <2> HIDE DEF ti, tj, tg
  <2>4. tj - ti <= Window
    BY <2>2, <2>3
  <2> QED  BY <2>1, <2>4 DEF ti, tj
<1>12. \A j \in Eligible : \E i \in members : ~Absorbs(i, j)
  BY <1>4, <1>7 DEF GoodGroup
<1>13. Cardinality(members) = Len(g)
  <2>1. \A a, b \in 1 .. Len(g) : a < b => g[a] # g[b]
    <3>1. \A a, b \in 1 .. Len(g) : a < b => Before(g[a], g[b])
      BY <1>4 DEF GoodGroup
    <3>2. \A a \in 1 .. Len(g) : g[a] \in Images
      BY <1>5, <1>6
    <3> QED  BY <3>1, <3>2, BeforeIsOrder
  <2>2. members = ToSet(g)
    BY <1>1 DEF g
  <2> QED  BY <1>6, <2>1, <2>2, CountOfList
<1> QED  BY <1>1, <1>9, <1>11, <1>12, <1>13 DEF g

LEMMA CurrentIsNarrow ==
    ASSUME Known, NEW members \in Groups
    PROVE  /\ Evidence(members) \in [members -> Row] /\ Evidence(members) \in Evidences
           /\ DOMAIN Evidence(members) = members
           /\ Narrow(Evidence(members))
           /\ \A i \in members : Evidence(members)[i] = known[i]
<1>1. /\ members \subseteq Images
      /\ \A i, j \in members : Shape[i] = Shape[j] /\ known[j].time - known[i].time <= Window
  BY GroupIsExact
<1>2. Evidence(members) \in [members -> Row]
  BY <1>1, KnownParts DEF Evidence
<1>3. DOMAIN Evidence(members) = members /\ \A i \in members : Evidence(members)[i] = known[i]
  BY DEF Evidence
<1>4. Evidence(members) \in Evidences
  BY <1>1, <1>2 DEF Evidences
<1> QED  BY <1>1, <1>2, <1>3, <1>4 DEF Narrow

LEMMA CurrentIsObservable ==
    ASSUME Known, MaxMembers \in Nat, WithinBounds, NEW members \in Groups
    PROVE  Observable(Evidence(members))
<1>1. PICK n \in DOMAIN AllGroups : /\ Cardinality(members) = Len(AllGroups[n])
                                    /\ Len(AllGroups[n]) >= 2
  BY GroupIsExact
<1>2. Len(AllGroups[n]) <= MaxMembers
  BY <1>1 DEF WithinBounds
<1>3. Len(AllGroups[n]) \in Nat
  <2>1. AllGroups \in Seq(Seq(Images))
    BY AllGroupsAreGood DEF GoodGroups
  <2>2. AllGroups[n] \in Seq(Images)
    BY <1>1, <2>1
  <2> QED  BY <2>2
<1>4. Cardinality(members) \in 2 .. MaxMembers
  BY <1>1, <1>2, <1>3
<1> QED  BY <1>4, CurrentIsNarrow DEF Observable

LEMMA CurrentIsFinite ==
    ASSUME Known
    PROVE  IsFiniteSet(CurrentEvidence)
<1> DEFINE D == {m \in DOMAIN AllGroups : Len(AllGroups[m]) >= 2}
           f == [n \in D |-> Evidence(ToSet(AllGroups[n]))]
<1>1. IsFiniteSet(D)
  <2>1. AllGroups \in Seq(Seq(Images))
    BY AllGroupsAreGood DEF GoodGroups
  <2>2. D \subseteq 1 .. Len(AllGroups) /\ Len(AllGroups) \in Nat
    BY <2>1
  <2>3. IsFiniteSet(1 .. Len(AllGroups))
    BY <2>2, FS_Interval
  <2> HIDE DEF D
  <2> QED  BY <2>2, <2>3, FS_Subset
<1>2. \A n \in D : f[n] \in CurrentEvidence
  BY DEF CurrentEvidence, Groups
<1>3. \A e \in CurrentEvidence : \E n \in D : f[n] = e
  BY DEF CurrentEvidence, Groups
<1>4. DOMAIN f = D /\ f = [n \in D |-> f[n]]
  OBVIOUS
<1> HIDE DEF f, D
<1>5. f \in Surjection(D, CurrentEvidence)
  BY <1>2, <1>3, <1>4 DEF Surjection
<1> QED  BY <1>1, <1>5, FS_Surjection

\* What SetToSeq lists.
LEMMA ListOfSet ==
    ASSUME NEW S, IsFiniteSet(S)
    PROVE  /\ SetToSeq(S) \in Seq(S) /\ Len(SetToSeq(S)) = Cardinality(S)
           /\ Cardinality(S) \in Nat
           /\ \A m, n \in 1 .. Len(SetToSeq(S)) : m # n => SetToSeq(S)[m] # SetToSeq(S)[n]
<1> DEFINE k == Cardinality(S)
<1>1. k \in Nat /\ ExistsBijection(1 .. k, S)
  BY FS_CardinalityType
<1>2. \E f \in [1 .. k -> S] : IsInjective(f)
  BY <1>1 DEF ExistsBijection, Bijection, Injection, IsInjective
<1>3. SetToSeq(S) \in [1 .. k -> S] /\ IsInjective(SetToSeq(S))
  BY <1>2, Zenon DEF SetToSeq
<1> DEFINE f == SetToSeq(S)
<1> HIDE DEF f, k
<1>4. f \in Seq(S) /\ Len(f) = k /\ \A m, n \in 1 .. k : m # n => f[m] # f[n]
  BY <1>1, <1>3 DEF IsInjective, f
<1> QED  BY <1>1, <1>4 DEF f, k
-----------------------------------------------------------------------------
(* The state.                                                                *)

InboxBounds ==
    /\ Images \subseteq 1 .. MaxTime /\ Images \subseteq 1 .. MaxProofs
    /\ Shape \in [Images -> Nat]
    /\ Window \in Nat /\ MaxTime \in Nat /\ MaxProofs \in Nat /\ MaxMembers \in Nat
    /\ InboxLimit \in Nat /\ Relations \in Nat

Listed == [relation : BOOLEAN, id : Nat]
Services ==
    [pc : {"idle", "bound", "items", "read", "again", "answer", "hash", "insert"},
     op : {"none", "refresh", "detail", "plan"}, revision : Nat, source : Nat,
     target : Images \cup {0}, keeper : Images \cup {0}, todo : Seq(Listed),
     images : SUBSET Images, items : Nat, lost : Nat, listed : Nat, complete : BOOLEAN]
WorldShape ==
    /\ disk \in [Images -> 0 .. MaxTime] /\ known \in [Images -> Row]
    /\ proofs \in 0 .. MaxProofs /\ access \in [revision : Nat, granted : BOOLEAN]
ObservationsAreSound ==
    /\ \E bound \in Nat : DOMAIN observations \subseteq 1 .. bound
    /\ \A o \in DOMAIN observations : Observable(observations[o])
    /\ \A o, q \in DOMAIN observations : observations[q] = observations[o] => q = o
PlansAreSound == \A p \in plans : p.evidence = p.rows /\ p.target \in DOMAIN p.evidence
\* What a call has read is present as long as the policy is the one it is bound to; and as
\* long as nothing was left out, what it listed is shown, lost or still to be evaluated.
Kept(rows, now, r) ==
    /\ r.revision <= now.revision
    /\ r.revision = now.revision => \A i \in r.images : rows[i].present
    /\ r.pc \in {"hash", "insert"} => r.target \in Images
    /\ r.op = "detail" \/ r.pc = "bound" => r.items = 0 /\ r.lost = 0
    /\ r.op = "detail" => r.listed = 0
    /\ r.pc = "items" /\ r.complete => r.items + r.lost + Len(r.todo) = r.listed
ServicesAreSound ==
    /\ service \in [Clients -> Services]
    /\ \A c \in Clients : Kept(known, access, service[c])
CleanupSound ==
    WorldShape /\ ObservationsAreSound /\ PlansAreSound /\ ServicesAreSound /\ AnswersArePermitted

LEMMA KnownIsTyped ==
    ASSUME InboxBounds, WorldShape
    PROVE  Known
<1>1. Images \subseteq 1 .. MaxTime /\ MaxTime \in Nat
  BY DEF InboxBounds
<1>2. IsFiniteSet(1 .. MaxTime) /\ 1 .. MaxTime \subseteq Nat
  BY <1>1, FS_Interval
<1>3. IsFiniteSet(Images) /\ Images \subseteq Nat
  BY <1>1, <1>2, FS_Subset
<1> QED  BY <1>3 DEF Known, InboxBounds, WorldShape

LEMMA NoServiceIsSound ==
    ASSUME NEW rows, NEW now, now.revision \in Nat
    PROVE  NoService \in Services /\ Kept(rows, now, NoService)
<1>1. <<>> \in Seq(Listed) /\ {} \in SUBSET Images
  OBVIOUS
<1>2. NoService \in Services
  BY <1>1 DEF NoService, Services
<1>3. Kept(rows, now, NoService)
  BY DEF NoService, Kept
<1> QED  BY <1>2, <1>3

LEMMA CleanupBegins ==
    ASSUME InboxBounds, CleanupInit
    PROVE  CleanupSound
<1>1. /\ Images \subseteq 1 .. MaxTime /\ Images \subseteq 1 .. MaxProofs
      /\ MaxTime \in Nat /\ MaxProofs \in Nat
  BY DEF InboxBounds
<1>2. Cardinality(Images) \in 0 .. MaxProofs
  <2>1. IsFiniteSet(1 .. MaxProofs) /\ Cardinality(1 .. MaxProofs) = MaxProofs
    BY <1>1, FS_Interval
  <2>2. IsFiniteSet(Images) /\ Cardinality(Images) <= MaxProofs
    BY <1>1, <2>1, FS_Subset
  <2>3. Cardinality(Images) \in Nat
    BY <2>2, FS_CardinalityType
  <2> QED  BY <1>1, <2>2, <2>3
<1>3. WorldShape
  <2>1. \A i \in Images : /\ i \in 0 .. MaxTime
                          /\ [present |-> TRUE, time |-> i, proof |-> i] \in Row
    BY <1>1 DEF Row
  <2> QED  BY <1>2, <2>1 DEF WorldShape, CleanupInit
<1>4. ObservationsAreSound
  <2>1. DOMAIN observations = {}
    BY DEF CleanupInit
  <2> QED  BY <2>1 DEF ObservationsAreSound
<1>5. PlansAreSound /\ AnswersArePermitted
  BY DEF CleanupInit, PlansAreSound, AnswersArePermitted
<1>6. ServicesAreSound
  <2>1. service = [c \in Clients |-> NoService] /\ access.revision \in Nat
    BY DEF CleanupInit
  <2>2. NoService \in Services /\ Kept(known, access, NoService)
    BY <2>1, NoServiceIsSound
  <2> QED  BY <2>1, <2>2 DEF ServicesAreSound
<1> QED  BY <1>3, <1>4, <1>5, <1>6 DEF CleanupSound

\* A step of the world that leaves the policy, and what is present, alone.
LEMMA WorldSteps ==
    ASSUME InboxBounds, CleanupSound,
           UNCHANGED <<access, observations, plans, service, shown>>,
           disk' \in [Images -> 0 .. MaxTime], known' \in [Images -> Row],
           proofs' \in 0 .. MaxProofs,
           \A i \in Images : known'[i].present = known[i].present
    PROVE  CleanupSound'
<1>1. WorldShape'
  BY DEF CleanupSound, WorldShape
<1>2. ObservationsAreSound'
  BY DEF CleanupSound, ObservationsAreSound, Observable, Narrow
<1>3. PlansAreSound' /\ AnswersArePermitted'
  BY DEF CleanupSound, PlansAreSound, AnswersArePermitted
<1>4. ServicesAreSound'
  <2>1. service \in [Clients -> Services] /\ \A c \in Clients : Kept(known, access, service[c])
    BY DEF CleanupSound, ServicesAreSound
  <2>2. ASSUME NEW c \in Clients PROVE Kept(known', access', service'[c])
    <3>1. service[c].images \subseteq Images
      BY <2>1 DEF Services
    <3> QED  BY <2>1, <3>1 DEF Kept
  <2> QED  BY <2>1, <2>2 DEF ServicesAreSound
<1> QED  BY <1>1, <1>2, <1>3, <1>4 DEF CleanupSound

LEMMA ImageSteps ==
    ASSUME InboxBounds, CleanupSound, NEW i \in Images, Edit(i) \/ Observe(i) \/ Extract(i)
    PROVE  CleanupSound'
<1>1. /\ disk \in [Images -> 0 .. MaxTime] /\ known \in [Images -> Row] /\ proofs \in 0 .. MaxProofs
      /\ MaxTime \in Nat /\ MaxProofs \in Nat
  BY DEF CleanupSound, WorldShape, InboxBounds
<1>2. CASE Edit(i)
  <2>1. /\ disk' = [disk EXCEPT ![i] = MaxTime]
        /\ UNCHANGED <<known, proofs, access, observations, plans, service, shown>>
    BY <1>2 DEF Edit
  <2>2. disk' \in [Images -> 0 .. MaxTime]
    BY <1>1, <2>1
  <2> QED  BY <1>1, <2>1, <2>2, WorldSteps
<1>3. CASE Observe(i)
  <2>1. /\ known' = [known EXCEPT ![i].time = disk[i], ![i].proof = 0]
        /\ UNCHANGED <<disk, proofs, access, observations, plans, service, shown>>
    BY <1>3 DEF Observe
  <2>2. disk[i] \in 0 .. MaxTime /\ 0 \in 0 .. MaxProofs /\ known[i] \in Row
    BY <1>1
  <2> DEFINE row == [known[i] EXCEPT !.time = disk[i], !.proof = 0]
  <2>3. row \in Row /\ row.present = known[i].present
    BY <2>2 DEF Row
  <2>4. known' = [known EXCEPT ![i] = row]
    BY <2>1
  <2> HIDE DEF row
  <2>5. known' \in [Images -> Row] /\ \A j \in Images : known'[j].present = known[j].present
    BY <1>1, <2>3, <2>4
  <2> QED  BY <1>1, <2>1, <2>5, WorldSteps
<1>4. CASE Extract(i)
  <2>1. /\ proofs' = proofs + 1 /\ proofs < MaxProofs
        /\ known' = [known EXCEPT ![i].proof = proofs']
        /\ UNCHANGED <<disk, access, observations, plans, service, shown>>
    BY <1>4 DEF Extract
  <2>2. proofs' \in 0 .. MaxProofs
    BY <1>1, <2>1
  <2>3. known' \in [Images -> Row] /\ \A j \in Images : known'[j].present = known[j].present
    BY <1>1, <2>1, <2>2 DEF Row
  <2> QED  BY <1>1, <2>1, <2>2, <2>3, WorldSteps
<1> QED  BY <1>2, <1>3, <1>4

LEMMA WithdrawSteps ==
    ASSUME InboxBounds, CleanupSound, NEW gone, NEW granted \in BOOLEAN, Withdraw(gone, granted)
    PROVE  CleanupSound'
<1>1. /\ access' = [revision |-> access.revision + 1, granted |-> granted]
      /\ known' = [i \in Images |-> IF i \in gone THEN [present |-> FALSE, time |-> 0, proof |-> 0]
                                    ELSE known[i]]
      /\ observations' = [o \in {q \in DOMAIN observations : Members(q) \cap gone = {}} |->
                            observations[o]]
      /\ plans' = {p \in plans : DOMAIN p.evidence \cap gone = {}}
      /\ UNCHANGED <<disk, proofs, service, shown>>
  BY DEF Withdraw
<1>2. WorldShape'
  <2>1. known \in [Images -> Row] /\ access.revision \in Nat /\ MaxTime \in Nat /\ MaxProofs \in Nat
    BY DEF CleanupSound, WorldShape, InboxBounds
  <2>2. [present |-> FALSE, time |-> 0, proof |-> 0] \in Row
    BY <2>1 DEF Row
  <2>3. known' \in [Images -> Row] /\ access' \in [revision : Nat, granted : BOOLEAN]
    BY <1>1, <2>1, <2>2
  <2> QED  BY <1>1, <2>3 DEF CleanupSound, WorldShape
<1>3. ObservationsAreSound'
  <2>1. /\ DOMAIN observations' \subseteq DOMAIN observations
        /\ \A o \in DOMAIN observations' : observations'[o] = observations[o]
    BY <1>1
  <2>2. \A o \in DOMAIN observations : Observable(observations[o])
    BY DEF CleanupSound, ObservationsAreSound
  <2>3. \A o \in DOMAIN observations' : Observable(observations'[o])
    BY <2>1, <2>2
  <2>4. (\A o \in DOMAIN observations : Observable(observations[o]))'
    BY <2>3 DEF Observable, Narrow
  <2>5. \E bound \in Nat : DOMAIN observations \subseteq 1 .. bound
    BY DEF CleanupSound, ObservationsAreSound
  <2>6. \A o, q \in DOMAIN observations : observations[q] = observations[o] => q = o
    BY DEF CleanupSound, ObservationsAreSound
  <2> QED  BY <2>1, <2>4, <2>5, <2>6 DEF ObservationsAreSound
<1>4. PlansAreSound' /\ AnswersArePermitted'
  BY <1>1 DEF CleanupSound, PlansAreSound, AnswersArePermitted
<1>5. ServicesAreSound'
  <2>1. service \in [Clients -> Services] /\ \A c \in Clients : Kept(known, access, service[c])
    BY DEF CleanupSound, ServicesAreSound
  <2>2. access.revision \in Nat /\ access'.revision = access.revision + 1
    BY <1>1 DEF CleanupSound, WorldShape
  <2>3. ASSUME NEW c \in Clients PROVE Kept(known', access', service'[c])
    <3>1. service'[c] = service[c] /\ service[c].revision \in Nat
      BY <1>1, <2>1 DEF Services
    <3> QED  BY <2>1, <2>2, <3>1 DEF Kept
  <2> QED  BY <1>1, <2>1, <2>3 DEF ServicesAreSound
<1> QED  BY <1>2, <1>3, <1>4, <1>5 DEF CleanupSound
-----------------------------------------------------------------------------
(* What is observed.                                                         *)

LEMMA FirstFreeIsFree ==
    ASSUME ObservationsAreSound
    PROVE  /\ FirstFree \in Nat \ {0} /\ DOMAIN observations \subseteq Nat
           /\ \A o \in DOMAIN observations : o < FirstFree
           /\ IsFiniteSet(DOMAIN observations)
<1>1. PICK bound \in Nat : DOMAIN observations \subseteq 1 .. bound
  BY DEF ObservationsAreSound
<1>2. IsFiniteSet(DOMAIN observations)
  <2>1. IsFiniteSet(1 .. bound)
    BY FS_Interval
  <2>2. DOMAIN observations \in SUBSET (1 .. bound)
    BY <1>1
  <2> QED  BY <2>1, <2>2, FS_Subset
<1>3. CASE DOMAIN observations = {}
  BY <1>2, <1>3 DEF FirstFree
<1>4. CASE DOMAIN observations # {}
  <2> DEFINE D == DOMAIN observations
  <2>1. D # {} /\ D \subseteq 1 .. bound
    BY <1>1, <1>4
  <2>2. FirstFree = Max(D) + 1
    BY <1>4 DEF FirstFree
  <2> HIDE DEF D
  <2>3. Max(D) \in D /\ \A o \in D : o <= Max(D)
    BY <2>1, MaxOfNumbers
  <2>4. Max(D) \in Nat /\ \A o \in D : o \in Nat
    <3>1. \A o \in 1 .. bound : o \in Nat
      OBVIOUS
    <3> QED  BY <2>1, <2>3, <3>1
  <2>5. FirstFree \in Nat \ {0} /\ D \subseteq Nat /\ \A o \in D : o < FirstFree
    BY <2>2, <2>3, <2>4
  <2> QED  BY <1>2, <2>5 DEF D
<1> QED  BY <1>3, <1>4

LEMMA DiscoverSteps ==
    ASSUME InboxBounds, CleanupSound, DiscoverGroups
    PROVE  CleanupSound'
<1> DEFINE new == SetToSeq(NewEvidence)
           D == DOMAIN observations
           first == FirstFree
           ids == first .. first + Len(new) - 1
<1>1. /\ WithinBounds
      /\ observations' = [o \in D \cup ids |->
                            IF o \in ids THEN new[o - first + 1] ELSE observations[o]]
      /\ UNCHANGED <<disk, known, proofs, access, plans, service, shown>>
  BY DEF DiscoverGroups, worldVars
<1>2. WorldShape /\ Known /\ ObservationsAreSound /\ MaxMembers \in Nat
  BY KnownIsTyped DEF CleanupSound, InboxBounds
<1>3. /\ first \in Nat \ {0} /\ D \subseteq Nat /\ \A o \in D : o < first
  BY <1>2, FirstFreeIsFree
<1>4. /\ new \in Seq(NewEvidence) /\ Len(new) \in Nat
      /\ \A m, n \in 1 .. Len(new) : m # n => new[m] # new[n]
  <2>1. IsFiniteSet(NewEvidence)
    <3>1. NewEvidence \subseteq CurrentEvidence
      BY DEF NewEvidence
    <3> QED  BY <1>2, <3>1, CurrentIsFinite, FS_Subset
  <2> QED  BY <2>1, ListOfSet
<1> HIDE DEF new, D, first
<1>5. /\ ids \subseteq Nat \ {0} /\ D \cap ids = {}
      /\ \A o \in ids : o - first + 1 \in 1 .. Len(new)
      /\ \A o, q \in ids : o # q => o - first + 1 # q - first + 1
  BY <1>3, <1>4
<1>6. /\ DOMAIN observations' = D \cup ids
      /\ \A o \in ids : observations'[o] = new[o - first + 1]
      /\ \A o \in D : observations'[o] = observations[o]
  BY <1>1, <1>5
<1>7. ASSUME NEW o \in ids
      PROVE  observations'[o] \in NewEvidence /\ Observable(observations'[o])
             /\ \A q \in D : observations[q] # observations'[o]
  <2>1. observations'[o] \in NewEvidence
    BY <1>4, <1>5, <1>6
  <2>2. PICK members \in Groups : observations'[o] = Evidence(members)
    BY <2>1 DEF NewEvidence, CurrentEvidence
  <2>3. Observable(Evidence(members))
    BY <1>1, <1>2, CurrentIsObservable
  <2> QED  BY <2>1, <2>2, <2>3 DEF NewEvidence, D
<1> HIDE DEF ids
<1>8. \E bound \in Nat : DOMAIN observations' \subseteq 1 .. bound
  <2>1. PICK bound \in Nat : D \subseteq 1 .. bound
    BY <1>2 DEF ObservationsAreSound, D
  <2> DEFINE larger == bound + first + Len(new)
  <2>2. larger \in Nat /\ bound <= larger /\ first + Len(new) - 1 <= larger /\ 1 <= first
    BY <1>3, <1>4
  <2> HIDE DEF larger
  <2>3. D \subseteq 1 .. larger
    BY <2>1, <2>2
  <2>4. ids \subseteq 1 .. larger
    BY <1>3, <1>4, <2>2 DEF ids
  <2> QED  BY <1>6, <2>2, <2>3, <2>4
<1>9. \A o \in D : Observable(observations[o])
  BY <1>2 DEF ObservationsAreSound, D
<1>10. \A o \in DOMAIN observations' : Observable(observations'[o])
  BY <1>6, <1>7, <1>9
<1>11. ASSUME NEW o \in D \cup ids, NEW q \in D \cup ids, observations'[q] = observations'[o]
       PROVE  q = o
  <2>1. CASE o \in D /\ q \in D
    BY <1>2, <1>6, <1>11, <2>1 DEF ObservationsAreSound, D
  <2>2. CASE o \in ids /\ q \in D
    BY <1>6, <1>7, <1>11, <2>2
  <2>3. CASE o \in D /\ q \in ids
    BY <1>6, <1>7, <1>11, <2>3
  <2>4. CASE o \in ids /\ q \in ids
    <3> DEFINE m == o - first + 1  n == q - first + 1
    <3>1. m \in 1 .. Len(new) /\ n \in 1 .. Len(new) /\ (o # q => m # n)
      BY <1>5, <2>4
    <3>2. new[m] = new[n]
      BY <1>6, <1>11, <2>4
    <3> HIDE DEF m, n
    <3> QED  BY <1>4, <3>1, <3>2
  <2> QED  BY <2>1, <2>2, <2>3, <2>4
<1>12. ObservationsAreSound'
  <2>1. (\A o \in DOMAIN observations : Observable(observations[o]))'
    BY <1>10 DEF Observable, Narrow
  <2> QED  BY <1>6, <1>8, <1>11, <2>1 DEF ObservationsAreSound
<1>13. WorldShape' /\ PlansAreSound' /\ AnswersArePermitted'
  BY <1>1 DEF CleanupSound, WorldShape, PlansAreSound, AnswersArePermitted
<1>14. ServicesAreSound'
  BY <1>1 DEF CleanupSound, ServicesAreSound
<1> QED  BY <1>12, <1>13, <1>14 DEF CleanupSound
-----------------------------------------------------------------------------
(* Calls.                                                                    *)

LEMMA CallSteps ==
    ASSUME CleanupSound, NEW c \in Clients, NEW next \in Services, Kept(known, access, next),
           service' = [service EXCEPT ![c] = next],
           UNCHANGED <<disk, known, proofs, access, observations>>,
           PlansAreSound', AnswersArePermitted'
    PROVE  CleanupSound'
<1>1. WorldShape'
  BY DEF CleanupSound, WorldShape
<1>2. ObservationsAreSound'
  BY DEF CleanupSound, ObservationsAreSound, Observable, Narrow
<1>3. ServicesAreSound'
  <2>1. service \in [Clients -> Services] /\ \A d \in Clients : Kept(known, access, service[d])
    BY DEF CleanupSound, ServicesAreSound
  <2>2. \A d \in Clients : service'[d] = IF d = c THEN next ELSE service[d]
    BY <2>1
  <2>3. service' \in [Clients -> Services]
    BY <2>1
  <2>4. \A d \in Clients : Kept(known, access, service'[d])
    BY <2>1, <2>2
  <2>5. known' = known /\ access' = access
    OBVIOUS
  <2>6. \A d \in Clients : Kept(known', access', service'[d])
    BY <2>4, <2>5
  <2> QED  BY <2>3, <2>6 DEF ServicesAreSound
<1> QED  BY <1>1, <1>2, <1>3 DEF CleanupSound

LEMMA GoSteps ==
    ASSUME CleanupSound, NEW c \in Clients, NEW next \in Services, Kept(known, access, next),
           Go(c, next), Reads
    PROVE  CleanupSound'
<1>1. /\ service' = [service EXCEPT ![c] = next]
      /\ UNCHANGED <<disk, known, proofs, access, observations, plans, shown>>
  BY DEF Go, Reads, worldVars
<1>2. PlansAreSound' /\ AnswersArePermitted'
  BY <1>1 DEF CleanupSound, PlansAreSound, AnswersArePermitted
<1> QED  BY <1>1, <1>2, CallSteps

LEMMA EndSteps ==
    ASSUME CleanupSound, NEW c \in Clients, Finishes(c), Reads
    PROVE  CleanupSound'
<1>1. access.revision \in Nat
  BY DEF CleanupSound, WorldShape
<1>2. NoService \in Services /\ Kept(known, access, NoService)
  BY <1>1, NoServiceIsSound
<1>3. Go(c, NoService)
  BY DEF Finishes, Go
<1> QED  BY <1>2, <1>3, GoSteps

LEMMA ServiceOf ==
    ASSUME CleanupSound, NEW c \in Clients
    PROVE  service[c] \in Services /\ Kept(known, access, service[c])
BY DEF CleanupSound, ServicesAreSound

LEMMA BeginSteps ==
    ASSUME CleanupSound, NEW c \in Clients, NEW op \in {"refresh", "detail", "plan"}, Begin(c, op)
    PROVE  CleanupSound'
<1> DEFINE next == [NoService EXCEPT !.pc = "bound", !.op = op, !.revision = access.revision]
<1>1. access.revision \in Nat
  BY DEF CleanupSound, WorldShape
<1>2. <<>> \in Seq(Listed) /\ {} \in SUBSET Images
  OBVIOUS
<1>3. next \in Services
  BY <1>1, <1>2 DEF NoService, Services
<1>4. Kept(known, access, next)
  BY <1>1 DEF NoService, Kept
<1>5. Go(c, next) /\ Reads
  BY DEF Begin
<1> HIDE DEF next
<1> QED  BY <1>3, <1>4, <1>5, GoSteps

LEMMA ListSteps ==
    ASSUME InboxBounds, CleanupSound, NEW c \in Clients, List(c)
    PROVE  CleanupSound'
<1> DEFINE observed == {[relation |-> FALSE, id |-> o] : o \in Recorded}
           related == {[relation |-> TRUE, id |-> n] : n \in 1 .. Relations}
           sources == observed \cup related
           r == service[c]
<1>1. PICK chosen \in SUBSET sources :
        /\ Cardinality(chosen) = Min({Cardinality(sources), InboxLimit})
        /\ Go(c, [r EXCEPT !.pc = "items", !.todo = SetToSeq(chosen),
                           !.listed = Cardinality(sources),
                           !.complete = Cardinality(sources) <= InboxLimit])
  BY DEF List
<1>2. Reads /\ At(c, "refresh", "bound")
  BY DEF List
<1>3. /\ DOMAIN observations \subseteq Nat /\ IsFiniteSet(DOMAIN observations)
      /\ Relations \in Nat /\ InboxLimit \in Nat
  BY FirstFreeIsFree DEF CleanupSound, InboxBounds
<1>4. sources \subseteq Listed
  <2>1. \A o \in Recorded : [relation |-> FALSE, id |-> o] \in Listed
    BY <1>3 DEF Listed, Recorded
  <2>2. \A n \in 1 .. Relations : [relation |-> TRUE, id |-> n] \in Listed
    BY <1>3 DEF Listed
  <2> QED  BY <2>1, <2>2
<1>5. IsFiniteSet(sources)
  <2>1. IsFiniteSet(Recorded)
    <3>1. Recorded \in SUBSET DOMAIN observations
      BY DEF Recorded
    <3> QED  BY <1>3, <3>1, FS_Subset
  <2>2. IsFiniteSet(observed)
    <3> DEFINE f == [o \in Recorded |-> [relation |-> FALSE, id |-> o]]
    <3>1. f \in Surjection(Recorded, observed)
      BY DEF Surjection
    <3> HIDE DEF f, observed
    <3> QED  BY <2>1, <3>1, FS_Surjection
  <2>3. IsFiniteSet(related)
    <3> DEFINE f == [n \in 1 .. Relations |-> [relation |-> TRUE, id |-> n]]
    <3>1. f \in Surjection(1 .. Relations, related)
      BY DEF Surjection
    <3>2. IsFiniteSet(1 .. Relations)
      BY <1>3, FS_Interval
    <3> HIDE DEF f, related
    <3> QED  BY <3>1, <3>2, FS_Surjection
  <2> HIDE DEF observed, related
  <2> QED  BY <2>2, <2>3, FS_Union
<1> HIDE DEF sources
<1> DEFINE list == SetToSeq(chosen)
           count == Cardinality(sources)
           full == count <= InboxLimit
           next == [r EXCEPT !.pc = "items", !.todo = list, !.listed = count, !.complete = full]
<1>6. /\ list \in Seq(Listed) /\ Len(list) = Cardinality(chosen) /\ count \in Nat
      /\ Cardinality(chosen) \in Nat
  <2>1. IsFiniteSet(chosen) /\ count \in Nat
    BY <1>5, FS_Subset, FS_CardinalityType
  <2>2. /\ SetToSeq(chosen) \in Seq(chosen) /\ Len(SetToSeq(chosen)) = Cardinality(chosen)
        /\ Cardinality(chosen) \in Nat
    BY <2>1, ListOfSet
  <2>3. Seq(chosen) \subseteq Seq(Listed)
    <3>1. chosen \subseteq Listed
      BY <1>4
    <3> QED  BY <3>1, SeqMonotonic
  <2> QED  BY <2>1, <2>2, <2>3
<1>7. count <= InboxLimit => Len(list) = count
  <2>1. SUFFICES ASSUME count <= InboxLimit PROVE Min({count, InboxLimit}) = count
    BY <1>1, <1>6
  <2>2. count \in {count, InboxLimit} /\ \A y \in {count, InboxLimit} : count <= y
    BY <1>3, <1>6, <2>1
  <2>3. \A x \in {count, InboxLimit} : (\A y \in {count, InboxLimit} : x <= y) => x = count
    BY <1>3, <1>6, <2>1
  <2> HIDE DEF count
  <2> QED  BY <2>2, <2>3 DEF Min
<1>8. r \in Services /\ Kept(known, access, r) /\ r.pc = "bound"
  BY <1>2, ServiceOf DEF At
<1>9. Go(c, next)
  BY <1>1
<1>10. full \in BOOLEAN /\ (full => Len(list) = count)
  BY <1>7
<1> HIDE DEF list, count, r, full
<1>11. next \in Services
  BY <1>6, <1>8, <1>10 DEF Services
<1>12. /\ next.revision = r.revision /\ next.images = r.images /\ next.pc = "items"
       /\ next.op = r.op /\ next.items = r.items /\ next.lost = r.lost
       /\ next.todo = list /\ next.listed = count /\ next.complete = full
  BY <1>8 DEF Services
<1>13. r.op = "refresh" /\ r.items = 0 /\ r.lost = 0
  BY <1>2, <1>8 DEF At, r, Kept
<1> HIDE DEF next
<1>14. Kept(known, access, next)
  <2>1. next.items + next.lost + Len(next.todo) = Len(list)
    BY <1>6, <1>12, <1>13
  <2> QED  BY <1>8, <1>10, <1>12, <1>13, <2>1 DEF Kept
<1> QED  BY <1>2, <1>9, <1>11, <1>14, GoSteps
\* The members of a group that can be shown are present.
LEMMA ShownArePresent ==
    ASSUME InboxBounds, CleanupSound, NEW members, ShownNow(members)
    PROVE  members \subseteq Images /\ \A i \in members : known[i].present
<1>1. Known
  BY KnownIsTyped DEF CleanupSound
<1>2. members \in Groups
  BY DEF ShownNow, ShowsGroup
<1>3. members \subseteq Eligible /\ members \subseteq Images
  BY <1>1, <1>2, GroupIsExact
<1> QED  BY <1>3 DEF Eligible, HasProof

LEMMA TakenSteps ==
    ASSUME CleanupSound, NEW c \in Clients, At(c, "refresh", "items"), service[c].todo # <<>>,
           StillBound(c), NEW images \in SUBSET Images, \A i \in images : known[i].present,
           NEW items \in Nat, NEW lost \in Nat, NEW complete \in BOOLEAN,
           complete => service[c].complete /\ items + lost = 1,
           Taken(c, images, items, lost, complete), Reads
    PROVE  CleanupSound'
<1> DEFINE r == service[c]
           rest == Tail(r.todo)
           all == r.images \cup images
           more == r.items + items
           less == r.lost + lost
           next == [r EXCEPT !.todo = rest, !.images = all, !.items = more, !.lost = less,
                             !.complete = complete]
<1>1. r \in Services /\ Kept(known, access, r) /\ r.op = "refresh" /\ r.pc = "items"
  BY ServiceOf DEF At
<1>2. r.revision = access.revision
  BY DEF StillBound
<1>3. Go(c, next)
  BY DEF Taken
<1>4. /\ r.todo # <<>> /\ r.todo \in Seq(Listed) /\ r.items \in Nat /\ r.lost \in Nat
      /\ r.images \subseteq Images /\ r.listed \in Nat
  BY <1>1 DEF Services
<1>5. rest \in Seq(Listed) /\ Len(rest) = Len(r.todo) - 1 /\ Len(r.todo) \in Nat
  BY <1>4, HeadTailProperties
<1>6. /\ more = r.items + items /\ less = r.lost + lost /\ more \in Nat /\ less \in Nat
      /\ all \in SUBSET Images /\ \A i \in all : i \in r.images \/ i \in images
      /\ complete => r.complete /\ items + lost = 1
  BY <1>4
<1> HIDE DEF r, rest, all, more, less
<1>7. next \in Services
  BY <1>1, <1>5, <1>6 DEF Services
<1>8. /\ next.revision = r.revision /\ next.images = all /\ next.pc = r.pc
      /\ next.op = r.op /\ next.items = more /\ next.lost = less
      /\ next.todo = rest /\ next.listed = r.listed /\ next.complete = complete
  BY <1>1 DEF Services
<1> HIDE DEF next
<1>9. Kept(known, access, next)
  <2>1. \A i \in all : known[i].present
    BY <1>1, <1>2, <1>6 DEF Kept
  <2>2. complete => next.items + next.lost + Len(next.todo) = next.listed
    <3>1. complete => r.items + r.lost + Len(r.todo) = r.listed
      BY <1>1, <1>6 DEF Kept
    <3> SUFFICES ASSUME complete PROVE next.items + next.lost + Len(next.todo) = next.listed
      OBVIOUS
    <3>2. r.items + r.lost + Len(r.todo) = r.listed /\ items + lost = 1
      BY <1>6, <3>1
    <3>3. more + less + Len(rest) = r.listed
      <4> DEFINE n == Len(r.todo)  a == r.items  b == r.lost  l == r.listed
      <4>1. n \in Nat /\ a \in Nat /\ b \in Nat /\ Len(rest) = n - 1
        BY <1>4, <1>5
      <4>2. more = a + items /\ less = b + lost /\ a + b + n = l /\ items + lost = 1
        BY <1>6, <3>2
      <4> HIDE DEF n, a, b, l
      <4>3. more + less + Len(rest) = l
        BY <4>1, <4>2
      <4> QED  BY <4>3 DEF l
    <3> QED  BY <1>8, <3>3
  <2> QED  BY <1>1, <1>2, <1>8, <2>1, <2>2 DEF Kept
<1> QED  BY <1>3, <1>7, <1>9, GoSteps

LEMMA EvaluateSteps ==
    ASSUME InboxBounds, CleanupSound, NEW c \in Clients, Evaluate(c)
    PROVE  CleanupSound'
<1> DEFINE source == Head(service[c].todo)
           complete == service[c].complete
<1>1. At(c, "refresh", "items") /\ service[c].todo # <<>> /\ Reads
  BY DEF Evaluate
<1>2. complete \in BOOLEAN
  BY ServiceOf DEF Services
<1>3. CASE /\ StillBound(c) /\ source.relation
           /\ \/ Taken(c, {}, 1, 0, complete) \/ Taken(c, {}, 0, 1, complete)
              \/ Taken(c, {}, 0, 0, AfterFailure(c))
  <2>1. CASE Taken(c, {}, 1, 0, complete)
    BY <1>1, <1>2, <1>3, <2>1, TakenSteps
  <2>2. CASE Taken(c, {}, 0, 1, complete)
    BY <1>1, <1>2, <1>3, <2>2, TakenSteps
  <2>3. CASE Taken(c, {}, 0, 0, AfterFailure(c))
    <3>1. Taken(c, {}, 0, 0, FALSE)
      BY <2>3 DEF AfterFailure
    <3> QED  BY <1>1, <1>3, <3>1, TakenSteps
  <2> QED  BY <1>3, <2>1, <2>2, <2>3
<1>4. CASE /\ StillBound(c)
           /\ IF ShownNow(Members(source.id))
              THEN Taken(c, Members(source.id), 1, 0, complete)
              ELSE Taken(c, {}, 0, 1, complete)
  <2>1. CASE ShownNow(Members(source.id))
    <3>1. /\ Members(source.id) \in SUBSET Images
          /\ \A i \in Members(source.id) : known[i].present
      BY <2>1, ShownArePresent
    <3>2. Taken(c, Members(source.id), 1, 0, complete)
      BY <1>4, <2>1
    <3> QED  BY <1>1, <1>2, <1>4, <3>1, <3>2, TakenSteps
  <2>2. CASE ~ShownNow(Members(source.id))
    <3>1. Taken(c, {}, 0, 1, complete)
      BY <1>4, <2>2
    <3> QED  BY <1>1, <1>2, <1>4, <3>1, TakenSteps
  <2> QED  BY <2>1, <2>2
<1>5. CASE Finishes(c)
  BY <1>1, <1>5, EndSteps
<1> QED  BY <1>3, <1>4, <1>5 DEF Evaluate

LEMMA AnswerSteps ==
    ASSUME CleanupSound, NEW c \in Clients, Answer(c)
    PROVE  CleanupSound'
<1> DEFINE r == service[c]
           given == [permitted |-> \A i \in r.images : known[i].present,
                     whole |-> r.complete => r.items + r.lost = r.listed]
<1>1. /\ At(c, "detail", "answer") \/ (At(c, "refresh", "items") /\ r.todo = <<>>)
      /\ shown' = IF ~StillAnswers(c) THEN shown ELSE {given}
      /\ service' = [service EXCEPT ![c] = NoService]
      /\ UNCHANGED <<disk, known, proofs, access, observations, plans>>
  BY DEF Answer, Finishes, worldVars
<1>2. r \in Services /\ Kept(known, access, r)
  BY ServiceOf
<1>3. AnswersArePermitted'
  <2>1. CASE ~StillAnswers(c)
    BY <1>1, <2>1 DEF CleanupSound, AnswersArePermitted
  <2>2. CASE StillAnswers(c)
    <3>1. shown' = {given}
      BY <1>1, <2>2
    <3>2. \A i \in r.images : known[i].present
      BY <1>2, <2>2 DEF StillAnswers, StillBound, Kept
    <3>3. r.complete => r.items + r.lost = r.listed
      <4>1. CASE At(c, "detail", "answer")
        BY <1>2, <4>1 DEF At, Kept
      <4>2. CASE At(c, "refresh", "items") /\ r.todo = <<>>
        <5>1. Len(r.todo) = 0 /\ r.items \in Nat /\ r.lost \in Nat
          BY <1>2, <4>2 DEF Services
        <5>2. r.complete => r.items + r.lost + Len(r.todo) = r.listed
          BY <1>2, <4>2 DEF At, Kept
        <5> HIDE DEF r
        <5> QED  BY <5>1, <5>2
      <4> QED  BY <1>1, <4>1, <4>2
    <3>4. given.permitted /\ given.whole
      BY <3>2, <3>3
    <3> QED  BY <3>1, <3>4 DEF AnswersArePermitted
  <2> QED  BY <2>1, <2>2
<1>4. NoService \in Services /\ Kept(known, access, NoService)
  BY NoServiceIsSound DEF CleanupSound, WorldShape
<1>5. PlansAreSound'
  BY <1>1 DEF CleanupSound, PlansAreSound
<1> QED  BY <1>1, <1>3, <1>4, <1>5, CallSteps
\* A call goes on with the same binding, and counts nothing.
LEMMA PcSteps ==
    ASSUME CleanupSound, NEW c \in Clients, NEW pc \in {"read", "again", "answer", "hash", "insert"},
           NEW source \in Nat, NEW target \in Images \cup {0}, NEW keeper \in Images \cup {0},
           NEW images \in SUBSET Images,
           images # service[c].images => \A i \in images : known[i].present,
           pc \in {"hash", "insert"} => target \in Images,
           Go(c, [service[c] EXCEPT !.pc = pc, !.source = source, !.target = target,
                                    !.keeper = keeper, !.images = images]), Reads
    PROVE  CleanupSound'
<1> DEFINE r == service[c]
           next == [r EXCEPT !.pc = pc, !.source = source, !.target = target,
                             !.keeper = keeper, !.images = images]
<1>1. r \in Services /\ Kept(known, access, r)
  BY ServiceOf
<1>2. Go(c, next) /\ (images # r.images => \A i \in images : known[i].present)
  OBVIOUS
<1> HIDE DEF r
<1>3. next \in Services
  BY <1>1 DEF Services
<1>4. /\ next.pc = pc /\ next.op = r.op /\ next.revision = r.revision /\ next.target = target
      /\ next.images = images /\ next.items = r.items /\ next.lost = r.lost
      /\ next.listed = r.listed /\ next.complete = r.complete /\ next.todo = r.todo
  BY <1>1 DEF Services
<1> HIDE DEF next
<1>5. Kept(known, access, next)
  <2>1. r.revision = access.revision => \A i \in images : known[i].present
    BY <1>1, <1>2 DEF Kept
  <2>2. pc # "bound" /\ pc # "items"
    OBVIOUS
  <2> QED  BY <1>1, <1>4, <2>1, <2>2 DEF Kept
<1> QED  BY <1>2, <1>3, <1>5, GoSteps

LEMMA DetailSteps ==
    ASSUME InboxBounds, CleanupSound, NEW c \in Clients,
           Reveal(c) \/ Confirm(c) \/ \E o \in DOMAIN observations : Choose(c, o)
    PROVE  CleanupSound'
<1> DEFINE r == service[c]
<1>1. r \in Services
  BY ServiceOf
<1>2. /\ r.source \in Nat /\ r.target \in Images \cup {0} /\ r.keeper \in Images \cup {0}
      /\ r.images \in SUBSET Images
  BY <1>1 DEF Services
<1>3. CASE \E o \in DOMAIN observations : Choose(c, o)
  <2>1. PICK o \in DOMAIN observations :
          /\ Go(c, [service[c] EXCEPT !.pc = "read", !.source = o]) \/ Finishes(c)
          /\ Reads
    BY <1>3 DEF Choose
  <2>2. o \in Nat
    BY FirstFreeIsFree DEF CleanupSound
  <2>3. [r EXCEPT !.pc = "read", !.source = o]
          = [r EXCEPT !.pc = "read", !.source = o, !.target = r.target, !.keeper = r.keeper,
                      !.images = r.images]
    <3> HIDE DEF r
    <3> QED  BY <1>1 DEF Services
  <2>4. CASE Go(c, [r EXCEPT !.pc = "read", !.source = o])
    <3>1. Go(c, [service[c] EXCEPT !.pc = "read", !.source = o, !.target = r.target,
                                   !.keeper = r.keeper, !.images = r.images])
      BY <2>3, <2>4
    <3> QED  BY <1>2, <2>1, <2>2, <3>1, PcSteps
  <2>5. CASE Finishes(c)
    BY <2>1, <2>5, EndSteps
  <2> QED  BY <2>1, <2>4, <2>5
<1>4. CASE Reveal(c)
  <2> DEFINE images == Members(r.source)
  <2>1. /\ (ShownNow(images) /\ Go(c, [r EXCEPT !.pc = "again", !.images = images]))
           \/ Finishes(c)
        /\ Reads
    BY <1>4 DEF Reveal
  <2>2. CASE ShownNow(images) /\ Go(c, [r EXCEPT !.pc = "again", !.images = images])
    <3>1. images \in SUBSET Images /\ \A i \in images : known[i].present
      BY <2>2, ShownArePresent
    <3>2. [r EXCEPT !.pc = "again", !.images = images]
            = [r EXCEPT !.pc = "again", !.source = r.source, !.target = r.target,
                        !.keeper = r.keeper, !.images = images]
      <4> HIDE DEF r, images
      <4> QED  BY <1>1 DEF Services
    <3>3. Go(c, [service[c] EXCEPT !.pc = "again", !.source = r.source, !.target = r.target,
                                   !.keeper = r.keeper, !.images = images])
      BY <2>2, <3>2
    <3> HIDE DEF images
    <3> QED  BY <1>2, <2>1, <3>1, <3>3, PcSteps
  <2>3. CASE Finishes(c)
    BY <2>1, <2>3, EndSteps
  <2> QED  BY <2>1, <2>2, <2>3
<1>5. CASE Confirm(c)
  <2>1. (Go(c, [r EXCEPT !.pc = "answer"]) \/ Finishes(c)) /\ Reads
    BY <1>5 DEF Confirm
  <2>2. CASE Go(c, [r EXCEPT !.pc = "answer"])
    <3>1. [r EXCEPT !.pc = "answer"]
            = [r EXCEPT !.pc = "answer", !.source = r.source, !.target = r.target,
                        !.keeper = r.keeper, !.images = r.images]
      <4> HIDE DEF r
      <4> QED  BY <1>1 DEF Services
    <3>2. Go(c, [service[c] EXCEPT !.pc = "answer", !.source = r.source, !.target = r.target,
                                   !.keeper = r.keeper, !.images = r.images])
      BY <2>2, <3>1
    <3> QED  BY <1>2, <2>1, <3>2, PcSteps
  <2>3. CASE Finishes(c)
    BY <2>1, <2>3, EndSteps
  <2> QED  BY <2>1, <2>2, <2>3
<1> QED  BY <1>3, <1>4, <1>5

LEMMA SelectSteps ==
    ASSUME InboxBounds, CleanupSound, NEW c \in Clients, NEW o \in DOMAIN observations,
           NEW target \in Images, NEW keeper \in Images \cup {0}, Select(c, o, target, keeper)
    PROVE  CleanupSound'
<1> DEFINE r == service[c]
<1>1. r \in Services
  BY ServiceOf
<1>2. r.images \in SUBSET Images /\ o \in Nat
  BY <1>1, FirstFreeIsFree DEF Services, CleanupSound
<1>3. /\ Go(c, [r EXCEPT !.pc = "hash", !.source = o, !.target = target, !.keeper = keeper])
         \/ Finishes(c)
      /\ Reads
  BY DEF Select
<1>4. CASE Go(c, [r EXCEPT !.pc = "hash", !.source = o, !.target = target, !.keeper = keeper])
  <2>1. [r EXCEPT !.pc = "hash", !.source = o, !.target = target, !.keeper = keeper]
          = [r EXCEPT !.pc = "hash", !.source = o, !.target = target, !.keeper = keeper,
                      !.images = r.images]
    <3> HIDE DEF r
    <3> QED  BY <1>1 DEF Services
  <2>2. Go(c, [service[c] EXCEPT !.pc = "hash", !.source = o, !.target = target,
                                 !.keeper = keeper, !.images = r.images])
    BY <1>4, <2>1
  <2> QED  BY <1>2, <1>3, <2>2, PcSteps
<1>5. CASE Finishes(c)
  BY <1>3, <1>5, EndSteps
<1> QED  BY <1>3, <1>4, <1>5

LEMMA HashSteps ==
    ASSUME CleanupSound, NEW c \in Clients, Hash(c)
    PROVE  CleanupSound'
<1> DEFINE r == service[c]
<1>1. r \in Services /\ Kept(known, access, r) /\ r.pc = "hash"
  BY ServiceOf DEF Hash, At
<1>2. /\ r.source \in Nat /\ r.target \in Images \cup {0} /\ r.keeper \in Images \cup {0}
      /\ r.images \in SUBSET Images /\ r.target \in Images
  BY <1>1 DEF Services, Kept
<1>3. (Go(c, [r EXCEPT !.pc = "insert"]) \/ Finishes(c)) /\ Reads
  BY DEF Hash
<1>4. CASE Go(c, [r EXCEPT !.pc = "insert"])
  <2>1. [r EXCEPT !.pc = "insert"]
          = [r EXCEPT !.pc = "insert", !.source = r.source, !.target = r.target,
                      !.keeper = r.keeper, !.images = r.images]
    <3> HIDE DEF r
    <3> QED  BY <1>1 DEF Services
  <2>2. Go(c, [service[c] EXCEPT !.pc = "insert", !.source = r.source, !.target = r.target,
                                 !.keeper = r.keeper, !.images = r.images])
    BY <1>4, <2>1
  <2> QED  BY <1>2, <1>3, <2>2, PcSteps
<1>5. CASE Finishes(c)
  BY <1>3, <1>5, EndSteps
<1> QED  BY <1>3, <1>4, <1>5

\* The plan is made of what the rows say as it is written.
LEMMA InsertSteps ==
    ASSUME InboxBounds, CleanupSound, NEW c \in Clients, Insert(c)
    PROVE  CleanupSound'
<1> DEFINE r == service[c]
           o == r.source
<1>1. r \in Services /\ Kept(known, access, r) /\ r.pc = "insert" /\ r.target \in Images
  BY ServiceOf DEF Insert, At, Kept
<1>2. /\ plans' = IF StillSelected(c) THEN plans \cup {PlanOf(c)} ELSE plans
      /\ service' = [service EXCEPT ![c] = NoService]
      /\ UNCHANGED <<disk, known, proofs, access, observations, shown>>
  BY DEF Insert, Finishes, worldVars
<1>3. ASSUME StillSelected(c)
      PROVE  PlanOf(c).evidence = PlanOf(c).rows /\ PlanOf(c).target \in DOMAIN PlanOf(c).evidence
  <2>1. ShowsGroup(o) /\ {r.target, r.keeper} \ {0} \subseteq Members(o)
    BY <1>3 DEF StillSelected, Selectable
  <2>2. o \in DOMAIN observations /\ \A i \in Members(o) : known[i] = observations[o][i]
    BY <2>1 DEF ShowsGroup, Matches
  <2> DEFINE e == observations[o]
  <2>3. e \in Evidences
    BY <2>2 DEF CleanupSound, ObservationsAreSound, Observable
  <2>4. Evidence(Members(o)) = e
    <3>1. PICK members \in SUBSET Images : e \in [members -> Row]
      BY <2>3 DEF Evidences
    <3>2. e = [i \in members |-> e[i]] /\ Members(o) = members
      BY <3>1 DEF Members
    <3>3. \A i \in members : known[i] = e[i]
      BY <2>2, <3>2
    <3>4. Evidence(members) = [i \in members |-> e[i]]
      <4> HIDE DEF e
      <4> QED  BY <3>3 DEF Evidence
    <3> QED  BY <3>2, <3>4
  <2>5. r.target \in Members(o)
    <3>1. r.target # 0
      BY <1>1 DEF InboxBounds
    <3> QED  BY <2>1, <3>1
  <2>6. PlanOf(c) = [target |-> r.target, keeper |-> r.keeper, evidence |-> e,
                     rows |-> Evidence(Members(o))]
    BY DEF PlanOf
  <2> QED  BY <2>4, <2>5, <2>6 DEF Members
<1>4. PlansAreSound'
  <2>1. PlansAreSound
    BY DEF CleanupSound
  <2> DEFINE p == PlanOf(c)
  <2>2. StillSelected(c) => p.evidence = p.rows /\ p.target \in DOMAIN p.evidence
    BY <1>3
  <2> HIDE DEF p
  <2>3. plans' = IF StillSelected(c) THEN plans \cup {p} ELSE plans
    BY <1>2 DEF p
  <2> QED  BY <2>1, <2>2, <2>3 DEF PlansAreSound
<1>5. AnswersArePermitted'
  BY <1>2 DEF CleanupSound, AnswersArePermitted
<1>6. NoService \in Services /\ Kept(known, access, NoService)
  BY NoServiceIsSound DEF CleanupSound, WorldShape
<1> QED  BY <1>2, <1>4, <1>5, <1>6, CallSteps

LEMMA CleanupSteps ==
    ASSUME InboxBounds, CleanupSound, [CleanupNext]_cleanupVars
    PROVE  CleanupSound'
<1>1. CASE UNCHANGED cleanupVars
  <2>1. UNCHANGED <<disk, known, proofs, access, observations, plans, service, shown>>
    BY <1>1 DEF cleanupVars
  <2>2. /\ disk' \in [Images -> 0 .. MaxTime] /\ known' \in [Images -> Row]
        /\ proofs' \in 0 .. MaxProofs
        /\ \A i \in Images : known'[i].present = known[i].present
    BY <2>1 DEF CleanupSound, WorldShape
  <2> QED  BY <2>1, <2>2, WorldSteps
<1>2. ASSUME NEW i \in Images, Edit(i) \/ Observe(i) \/ Extract(i) PROVE CleanupSound'
  BY <1>2, ImageSteps
<1>3. ASSUME NEW i \in Images, ExcludeImage(i) PROVE CleanupSound'
  BY <1>3, WithdrawSteps DEF ExcludeImage
<1>4. CASE RevokeAccess
  BY <1>4, WithdrawSteps DEF RevokeAccess
<1>5. CASE DiscoverGroups
  BY <1>5, DiscoverSteps
<1>6. ASSUME NEW c \in Clients, NEW op \in {"refresh", "detail", "plan"}, Begin(c, op)
      PROVE  CleanupSound'
  BY <1>6, BeginSteps
<1>7. ASSUME NEW c \in Clients, List(c) \/ Evaluate(c) \/ Answer(c) PROVE CleanupSound'
  BY <1>7, ListSteps, EvaluateSteps, AnswerSteps
<1>8. ASSUME NEW c \in Clients, Reveal(c) \/ Confirm(c) PROVE CleanupSound'
  BY <1>8, DetailSteps
<1>9. ASSUME NEW c \in Clients, Hash(c) \/ Insert(c) PROVE CleanupSound'
  BY <1>9, HashSteps, InsertSteps
<1>10. ASSUME NEW c \in Clients, NEW o \in DOMAIN observations, Choose(c, o) PROVE CleanupSound'
  BY <1>10, DetailSteps
<1>11. ASSUME NEW c \in Clients, NEW o \in DOMAIN observations, NEW target \in Images,
              NEW keeper \in Images \cup {0}, Select(c, o, target, keeper)
       PROVE  CleanupSound'
  BY <1>11, SelectSteps
<1> QED  BY <1>1, <1>2, <1>3, <1>4, <1>5, <1>6, <1>7, <1>8, <1>9, <1>10, <1>11 DEF CleanupNext

LEMMA InboxIsSound == ASSUME InboxBounds PROVE CleanupSpec => []CleanupSound
<1>1. CleanupInit => CleanupSound
  BY CleanupBegins
<1>2. CleanupSound /\ [CleanupNext]_cleanupVars => CleanupSound'
  BY CleanupSteps
<1> QED  BY <1>1, <1>2, PTL DEF CleanupSpec

\* The rows of images keep their shapes, each group that was observed has at least two members
\* and no more than the bound, and each plan names a member of the group it was made of.
THEOREM InboxIsWellTyped == ASSUME InboxBounds PROVE CleanupSpec => []CleanupTypeOK
<1>1. CleanupSound => CleanupTypeOK
  <2> SUFFICES ASSUME CleanupSound PROVE CleanupTypeOK
    OBVIOUS
  <2>1. WorldShape /\ ObservationsAreSound /\ PlansAreSound
    BY DEF CleanupSound
  <2>2. ASSUME NEW o \in DOMAIN observations
        PROVE  Members(o) \subseteq Images /\ Cardinality(Members(o)) \in 2 .. MaxMembers
    <3>1. observations[o] \in Evidences /\ Cardinality(DOMAIN observations[o]) \in 2 .. MaxMembers
      BY <2>1 DEF ObservationsAreSound, Observable
    <3> QED  BY <3>1 DEF Evidences, Members
  <2> QED  BY <2>1, <2>2 DEF CleanupTypeOK, WorldShape, Row, PlansAreSound
<1> QED  BY <1>1, InboxIsSound, PTL

\* Whatever the images are, group_screenshot_sources cuts them into groups that span no more than
\* the window from their first member and leave out no image that it would take in; and
\* discover_screenshot_group_candidates_with_policy observes no evidence twice (ADR-028).
THEOREM GroupsOfTheInboxAreExact == ASSUME InboxBounds PROVE CleanupSpec => []GroupsAreExact
<1>1. CleanupSound => GroupsAreExact
  <2> SUFFICES ASSUME CleanupSound PROVE GroupsAreExact
    OBVIOUS
  <2>1. Known /\ ObservationsAreSound
    BY KnownIsTyped DEF CleanupSound
  <2>2. ASSUME NEW e \in CurrentEvidence \cup {observations[o] : o \in DOMAIN observations}
        PROVE  \A i, j \in DOMAIN e : Shape[i] = Shape[j] /\ e[j].time - e[i].time <= Window
    <3>1. Narrow(e)
      <4>1. CASE e \in CurrentEvidence
        BY <2>1, <4>1, CurrentIsNarrow DEF CurrentEvidence
      <4>2. CASE e \in {observations[o] : o \in DOMAIN observations}
        BY <2>1, <4>2 DEF ObservationsAreSound, Observable
      <4> QED  BY <4>1, <4>2
    <3> QED  BY <3>1 DEF Narrow
  <2>3. ASSUME NEW members \in Groups, NEW j \in Eligible
        PROVE  ~ \A i \in members : /\ Shape[i] = Shape[j] /\ Before(i, j)
                                    /\ known[j].time - known[i].time <= Window
    <3>1. \E i \in members : ~Absorbs(i, j)
      BY <2>1, GroupIsExact
    <3> QED  BY <3>1 DEF Absorbs
  <2>4. \A o, q \in DOMAIN observations : observations[q] = observations[o] => q = o
    BY <2>1 DEF ObservationsAreSound
  <2> QED  BY <2>2, <2>3, <2>4 DEF GroupsAreExact
<1> QED  BY <1>1, InboxIsSound, PTL

\* create_cleanup_action_plan_with_policy writes no plan whose evidence is not what the rows of
\* its group say at that moment, however files, rows and the policy change while it is made.
THEOREM PlansAreOfCurrentEvidence ==
    ASSUME InboxBounds PROVE CleanupSpec => []PlanOfCurrentEvidence
<1>1. CleanupSound => PlanOfCurrentEvidence
  BY DEF CleanupSound, PlansAreSound, PlanOfCurrentEvidence
<1> QED  BY <1>1, InboxIsSound, PTL

\* However the policy changes while an inbox or a detail is read, an answer shows no image that
\* was excluded before it; and one that calls itself complete accounts for every source.
THEOREM InboxAnswersArePermitted == ASSUME InboxBounds PROVE CleanupSpec => []AnswersArePermitted
<1>1. CleanupSound => AnswersArePermitted
  BY DEF CleanupSound
<1> QED  BY <1>1, InboxIsSound, PTL
=============================================================================
