----------------------------- MODULE MCComponents ----------------------------
(* The safety of components that do not touch each other's state, side by    *)
(* side in one run: a behaviour belongs to one part, chosen in its initial   *)
(* state, and what the other parts keep stays as it began.                   *)
(*   watch        watch events and reconciliation, in its own variables      *)
(*   native       native sources, the coordinator and a revocation; a failure*)
(*   burst        the same, with more changes than the queue holds           *)
(*   fence        readers and a change of the policy                         *)
(*   purge        exclusions, revocation and what they purge                 *)
(*   duplicates, versions   two callers of the file relations                *)
(*   ocr          the one native OCR operation of a process                  *)
(*   reader       what a content reader makes of one file                    *)
(*   host         commands of the desktop host, their locks and previews     *)
(*   registry     one caller of them, with more previews than are kept       *)
(*   projects     project candidates read and decided while scans publish    *)
(*   inbox        screenshot groups, the cleanup inbox and its plans         *)
(*   search       a lexical search of two scopes while their policies change *)
(*   chunks       the same of one scope, where texts are found more than once*)
(*   preview      the plan of a rename, made of a file that others write     *)
(*   grants       selections, restorations and revocations of hosts          *)
(* The variables and constants of a module that is extended are its own; the *)
(* modules that are instances share u1 to u15, in the order of their          *)
(* declarations, since one of them at most is in use.                         *)
EXTENDS WatchEvents, ScopeFence, PrivacyPurge, OcrSlot, HostCommands, BoundedReader, TLC

CONSTANTS NoFile    \* of the parts "duplicates", "versions" and "preview"

VARIABLES
    part,
    u1, u2, u3, u4, u5, u6, u7, u8, u9, u10, u11, u12, u13, u14, u15

\* Files of every kind, with texts of one to three bytes a character; limits that some of
\* them meet, with and without an overlap, and limits that no caller may set.
Samples == {<<>>, <<1, 3, 3>>, <<3, 1, 1, 3>>, <<1, 1, 1, 1, 1>>}
UnitsOf(texts, sizes) == [text : texts, claimed : sizes, real : sizes]
FileOf(kind, units) == [kind |-> kind, size |-> 4, units |-> units]
ReaderFiles ==
    {FileOf("text", <<u>>) : u \in UnitsOf(Samples, {0})}
    \cup {FileOf(k, us) : k \in {"pdf", "ocr"}, us \in BoundedSeq(UnitsOf(Samples, {0}), 2)}
    \cup {FileOf("office", us) :
            us \in BoundedSeq([text : {<<1, 3>>}, claimed : {1, 4}, real : {1, 5}], 2)}
    \cup {[FileOf("image", <<>>) EXCEPT !.size = n] : n \in {0, 4}}
SomeLimits == [source |-> 3, output |-> 4, chunks |-> 1, chunkBytes |-> 4, overlap |-> 1,
               unpacked |-> 1, side |-> 1]
ReaderLimits ==
    {[source |-> 5, output |-> o, chunks |-> c, chunkBytes |-> 4, overlap |-> v,
      unpacked |-> 4, side |-> 2] : o \in {7, 30}, c \in {3, 9}, v \in {0, 3}}
    \cup {SomeLimits, [SomeLimits EXCEPT !.overlap = 4]}

N == INSTANCE NativeWatch WITH
    Files <- {"f", "g"}, FolderOf <- [f |-> "F", g |-> "G"], Revoked <- "G",
    QueueCapacity <- 1, DrainLimit <- 1, MaxChanges <- 1, MaxFailures <- 1,
    lifecycle <- u1, signals <- u2, flags <- u3, token <- u4,
    source <- u5, raised <- u6, loop <- u7, registry <- u8,
    granted <- u9, barrier <- u10, gate <- u11, revocation <- u12,
    spent <- u13, pending <- u14, lost <- u15
B == INSTANCE NativeWatch WITH
    Files <- {"f", "g"}, FolderOf <- [f |-> "F", g |-> "G"], Revoked <- "G",
    QueueCapacity <- 1, DrainLimit <- 1, MaxChanges <- 2, MaxFailures <- 0,
    lifecycle <- u1, signals <- u2, flags <- u3, token <- u4,
    source <- u5, raised <- u6, loop <- u7, registry <- u8,
    granted <- u9, barrier <- u10, gate <- u11, revocation <- u12,
    spent <- u13, pending <- u14, lost <- u15
D == INSTANCE FileRelations WITH
    Files <- {"a", "b"}, Placed <- [p |-> "a", q |-> "b"], Number <- [p |-> 1, q |-> 1],
    Kinds <- {"duplicate"}, MaxObservations <- 2, MaxDecisions <- 1, MaxPlans <- 1,
    MaxTime <- 0, MaxChanges <- 1,
    disk <- u1, written <- u2, located <- u3, known <- u4,
    clock <- u5, observations <- u6, decisions <- u7,
    plans <- u8, call <- u9, changed <- u10
V == INSTANCE FileRelations WITH
    Files <- {"a", "b"}, Placed <- [v1 |-> "a", v2 |-> "b", w1 |-> NoFile],
    Number <- [v1 |-> 1, v2 |-> 2, w1 |-> 1],
    Kinds <- {"version"}, MaxObservations <- 2, MaxDecisions <- 1, MaxPlans <- 1,
    MaxTime <- 1, MaxChanges <- 1,
    disk <- u1, written <- u2, located <- u3, known <- u4,
    clock <- u5, observations <- u6, decisions <- u7,
    plans <- u8, call <- u9, changed <- u10
J == INSTANCE ProjectCandidates WITH
    Roots <- {"r1"}, Markers <- {"cargo", "readme"}, Readme <- "readme",
    Callers <- {"c"}, MaxRoots <- 1, MaxScans <- 3, MaxRevision <- 2, MaxDecisions <- 1,
    published <- u1, policy <- u2, projects <- u3, call <- u4
I == INSTANCE CleanupInbox WITH
    Images <- 1 .. 3, Shape <- <<1, 1, 1>>, Relations <- 1, Window <- 1,
    MaxImages <- 3, MaxGroups <- 1, MaxMembers <- 2, InboxLimit <- 2, Clients <- {"c"},
    MaxTime <- 4, MaxEdits <- 1, MaxPlans <- 1, MaxProofs <- 4, MaxPolicies <- 2,
    disk <- u1, known <- u2, proofs <- u3, access <- u4,
    observations <- u5, plans <- u6, service <- u7, shown <- u8
S == INSTANCE LexicalSearch WITH
    Entries <- 1 .. 2, ScopeOf <- <<1, 2>>, Exact <- {2}, NoScope <- 0, Chunks <- {1},
    Limit <- 1, PerSource <- 2, Callers <- {"c"}, MaxChanges <- 1,
    policies <- u1, stored <- u2, call <- u3, shown <- u4
F == INSTANCE LexicalSearch WITH
    Entries <- 1 .. 2, ScopeOf <- <<1, 1>>, Exact <- {2}, NoScope <- 0, Chunks <- 1 .. 2,
    Limit <- 1, PerSource <- 2, Callers <- {"c"}, MaxChanges <- 1,
    policies <- u1, stored <- u2, call <- u3, shown <- u4
E == INSTANCE RenamePreview WITH
    Folders <- {"d1", "d2"}, FirstFolder <- "d1", Files <- {"f1", "f2"},
    MaxVersion <- 2, MaxMoves <- 1, MaxRevision <- 2, MaxPlans <- 1,
    platform <- u1, place <- u2, entries <- u3, version <- u4,
    moves <- u5, manifest <- u6, policy <- u7, call <- u8,
    plans <- u9

A == INSTANCE AccessGrants WITH
    Roots <- {"parent", "child"}, Overlapping <- {{"parent", "child"}}, Hosts <- {"h1", "h2"},
    grants <- u1, accesses <- u2, grantCall <- u3, withdrawn <- u4

G == INSTANCE HostCommands WITH
    Callers <- {CHOOSE c \in Callers : TRUE}, MaxPreviews <- 3

\* What a part does not use has no value.
Unused10 == u11 = 0 /\ u12 = 0 /\ u13 = 0 /\ u14 = 0 /\ u15 = 0
Unused9 == u10 = 0 /\ Unused10
Unused8 == u9 = 0 /\ Unused9
Unused4 == u5 = 0 /\ u6 = 0 /\ u7 = 0 /\ u8 = 0 /\ Unused8
Unused == u1 = 0 /\ u2 = 0 /\ u3 = 0 /\ u4 = 0 /\ Unused4

w == vars
f == fenceVars
p == purgeVars
o == slotVars
h == hostVars
r == readerVars
after10 == <<u11, u12, u13, u14, u15>>
after9 == <<u10, after10>>
after8 == <<u9, after9>>
after4 == <<u5, u6, u7, u8, after8>>
u == <<u1, u2, u3, u4, after4>>

Parts == {"watch", "native", "burst", "fence", "purge", "duplicates", "versions", "ocr", "reader",
          "host", "registry", "projects", "inbox", "search", "chunks", "preview", "grants"}

Own == {"watch", "fence", "purge", "ocr", "host", "registry", "reader"}

ComponentsInit ==
    /\ part \in Parts
    /\ Init /\ FenceInit /\ PurgeInit /\ HostInit
    /\ SlotInit /\ (part # "ocr" => platform = "macos")
    /\ part = "reader" \/ (file = FileOf("pdf", <<>>) /\ limits = SomeLimits)
    /\ ReaderInit
    /\ \/ part \in Own /\ Unused
       \/ part = "native" /\ N!Init
       \/ part = "burst" /\ B!Init
       \/ part = "duplicates" /\ D!RelationsInit /\ Unused10
       \/ part = "versions" /\ V!RelationsInit /\ Unused10
       \/ part = "projects" /\ J!ProjectsInit /\ Unused4
       \/ part = "inbox" /\ I!CleanupInit /\ Unused8
       \/ part = "search" /\ S!SearchInit /\ Unused4
       \/ part = "chunks" /\ F!SearchInit /\ Unused4
       \/ part = "preview" /\ E!PreviewInit /\ Unused9
       \/ part = "grants" /\ A!GrantsInit /\ Unused4

ComponentsNext ==
    /\ UNCHANGED part
    /\ \/ part = "watch" /\ Next /\ UNCHANGED <<f, p, o, h, r, u>>
       \/ part = "fence" /\ FenceNext /\ UNCHANGED <<w, p, o, h, r, u>>
       \/ part = "purge" /\ PurgeNext /\ UNCHANGED <<w, f, o, h, r, u>>
       \/ part = "ocr" /\ SlotNext /\ UNCHANGED <<w, f, p, h, r, u>>
       \/ part = "host" /\ HostNext /\ UNCHANGED <<w, f, p, o, r, u>>
       \/ part = "registry" /\ G!HostNext /\ UNCHANGED <<w, f, p, o, r, u>>
       \/ part = "native" /\ N!Next /\ UNCHANGED <<w, f, p, o, h, r>>
       \/ part = "burst" /\ B!Next /\ UNCHANGED <<w, f, p, o, h, r>>
       \/ part = "duplicates" /\ D!RelationsNext /\ UNCHANGED <<w, f, p, o, h, r, after10>>
       \/ part = "versions" /\ V!RelationsNext /\ UNCHANGED <<w, f, p, o, h, r, after10>>
       \/ part = "reader" /\ ReaderNext /\ UNCHANGED <<w, f, p, o, h, u>>
       \/ part = "projects" /\ J!ProjectsNext /\ UNCHANGED <<w, f, p, o, h, r, after4>>
       \/ part = "inbox" /\ I!CleanupNext /\ UNCHANGED <<w, f, p, o, h, r, after8>>
       \/ part = "search" /\ S!SearchNext /\ UNCHANGED <<w, f, p, o, h, r, after4>>
       \/ part = "chunks" /\ F!SearchNext /\ UNCHANGED <<w, f, p, o, h, r, after4>>
       \/ part = "preview" /\ E!PreviewNext /\ UNCHANGED <<w, f, p, o, h, r, after9>>
       \/ part = "grants" /\ A!GrantsNext /\ UNCHANGED <<w, f, p, o, h, r, after4>>

ComponentsSpec == ComponentsInit /\ [][ComponentsNext]_<<part, w, f, p, o, h, r, u>>

-----------------------------------------------------------------------------
(* The properties of the parts; an unused part keeps its initial state, and  *)
(* those of the modules that are extended are checked as they stand there.   *)

Part(name, property) == part = name => property

\* The type invariant of the module whose part the behaviour is.
TypesOK ==
    CASE part = "watch" -> TypeOK
      [] part = "native" -> N!NativeTypeOK
      [] part = "burst" -> B!NativeTypeOK
      [] part = "fence" -> FenceTypeOK
      [] part = "purge" -> PurgeTypeOK
      [] part = "duplicates" -> D!RelationsTypeOK
      [] part = "versions" -> V!RelationsTypeOK
      [] part = "ocr" -> SlotTypeOK
      [] part = "reader" -> ReaderTypeOK
      [] part = "host" -> HostTypeOK
      [] part = "registry" -> G!HostTypeOK
      [] part = "projects" -> J!ProjectsTypeOK
      [] part = "inbox" -> I!CleanupTypeOK
      [] part = "search" -> S!SearchTypeOK
      [] part = "chunks" -> F!SearchTypeOK
      [] part = "preview" -> E!PreviewTypeOK
      [] part = "grants" -> A!GrantsTypeOK
\* A revoked folder has no native registration once its ticket was honoured, and a callback
\* that comes after its source was retired queues nothing (NativeWatch).  Once the host has
\* confirmed a revocation, nothing in its process can reach the folder, and what it confirmed
\* is what was shown (HostCommands).  No restoration brings a revoked grant back, and no two
\* active folders lie one in the other (AccessGrants).
RevocationIsComplete ==
    /\ Part("native", N!RevokedIsUnregistered /\ N!RetiredIsSilent)
    /\ Part("burst", B!RevokedIsUnregistered /\ B!RetiredIsSilent)
    /\ Part("host", RevokedIsOutOfReach /\ ConfirmedAsShown)
    /\ Part("registry", RevokedIsOutOfReach /\ ConfirmedAsShown)
    /\ Part("grants", A!RevokedStaysRevoked /\ A!ActiveRootsAreDisjoint)
\* What a person sees and decides on is evidence of one state of the files: a decision stands
\* on an observation of the files as they were then (FileRelations), the signals of a project
\* are of one scan (ProjectCandidates), and a group of screenshots is exactly the images that
\* belong together (CleanupInbox).
EvidenceIsCurrent ==
    /\ Part("duplicates", D!DecisionIsFresh)
    /\ Part("versions", V!DecisionIsFresh)
    /\ Part("projects", J!SignalsAreOfTheirScan)
    /\ Part("inbox", I!GroupsAreExact)
\* A plan is only made of a pair nobody has decided about (FileRelations), of a screenshot whose
\* evidence is the current one (CleanupInbox), and with the hash of the file that its row in
\* the manifest describes (RenamePreview).
PlanIsBound ==
    /\ Part("duplicates", D!PlanIsUndecided)
    /\ Part("inbox", I!PlanOfCurrentEvidence)
    /\ Part("preview", E!PlanHashesItsRow)
\* What the cleanup inbox and a search answer was permitted when the policy was looked at for
\* the last time (CleanupInbox, LexicalSearch), and the best that a search found are in its
\* answer.
AnswerIsPermitted ==
    /\ Part("inbox", I!AnswersArePermitted)
    /\ Part("search", S!ResultsArePermitted /\ S!BestAreListed)
    /\ Part("chunks", F!ResultsArePermitted /\ F!BestAreListed)
=============================================================================
