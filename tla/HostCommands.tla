----------------------------- MODULE HostCommands -----------------------------
(* The commands of the desktop host (apps/desktop/src-tauri/src/lib.rs) as   *)
(* far as they touch one folder: the mutexes they take and in which order,   *)
(* the capability that the host holds for the folder, and the previews that  *)
(* a user confirms once, within their time, to exclude paths or to revoke    *)
(* the folder.  A command is a program of steps; what it holds is dropped    *)
(* when it ends, by success or by an error.  The registries of previews are  *)
(* locked for one step at a time.  The time of a preview may have run out    *)
(* whenever somebody asks.  The scope fence is here what ScopeFence shows it *)
(* to be: shared by readers of any process or held by one change.            *)
EXTENDS Naturals, FiniteSets, SequencesExt

CONSTANTS
    Callers, NoCaller,
    MaxPending,     \* MAX_PENDING_..._PREVIEWS
    MaxPreviews,    \* bound: previews ever made
    MaxRevision     \* bound: policy revisions

ASSUME HostAssumption ==
    /\ NoCaller \notin Callers
    /\ MaxPending \in Nat \ {0} /\ MaxPreviews \in Nat /\ MaxRevision \in Nat \ {0}

VARIABLES
    locks,          \* who holds path_read_gate, database_gate and scope_accesses
    fence,          \* shared: readers; alone: a change of the policy
    policy,         \* revision, grant, and the rows that a revocation would purge
    access,         \* does scope_accesses hold the folder?
    previews,       \* kind -> pending previews, the oldest first
    made,           \* ..._PREVIEW_SEQUENCE
    call,           \* command, position, the preview in hand
    withdrawn,      \* history: where a revocation committed that no new grant answered
    applied         \* history: what was confirmed, and whether as it was shown

hostVars == <<locks, fence, policy, access, previews, made, call, withdrawn, applied>>

Mutexes == {"path", "database", "accesses"}
Locks == [Mutexes -> Callers \cup {NoCaller}]
Policies == [revision : 1 .. MaxRevision, grant : {"active", "lapsed", "revoked"}, rows : 0 .. 1]
Previews == [number : 0 .. MaxPreviews, revision : 0 .. MaxRevision, rows : 0 .. 1]
Registries == {"exclusions", "revocations"}
Nothing == [number |-> 0, revision |-> 0, rows |-> 0]
IdleCall == [command |-> "none", at |-> 0, preview |-> Nothing]

HostInit ==
    /\ locks = [m \in Mutexes |-> NoCaller]
    /\ fence = [shared |-> {}, alone |-> NoCaller]
    /\ policy = [revision |-> 1, grant |-> "active", rows |-> 0]
    /\ access = TRUE
    /\ previews = [kind \in Registries |-> <<>>]
    /\ made = 0
    /\ call = [c \in Callers |-> IdleCall]
    /\ withdrawn = "no" /\ applied = {}

-----------------------------------------------------------------------------
(* The programs: "lock" waits for a mutex and keeps it, "try" does not wait; *)
(* any other step is done while nobody else holds the mutex it names.        *)

PreviewRevocation == <<<<"lock", "database">>, <<"look", "accesses">>, <<"insert", "">>>>
PreviewExclusion ==
    <<<<"admit", "accesses">>, <<"lock", "database">>, <<"look", "">>, <<"insert", "">>>>
ConfirmRevocation ==
    <<<<"take", "">>, <<"lock", "path">>, <<"lock", "database">>, <<"lock", "accesses">>,
      <<"exclude", "">>, <<"revoke", "">>, <<"withdraw", "">>>>
ConfirmExclusion ==
    <<<<"take", "">>, <<"admit", "accesses">>, <<"lock", "path">>, <<"lock", "database">>,
      <<"admit", "accesses">>, <<"exclude", "">>, <<"apply", "">>>>
Authorization == <<<<"lock", "database">>, <<"lock", "accesses">>, <<"authorize", "">>>>
\* with_active_scope_read_fence: extraction and OCR
PathRead ==
    <<<<"admit", "accesses">>, <<"lock", "path">>, <<"admit", "accesses">>, <<"share", "">>>>
\* Slip: the registry of capabilities is locked before the gate of the database.
RelationReadAccessesFirst ==
    <<<<"admit", "accesses">>, <<"lock", "accesses">>, <<"lock", "database">>, <<"share", "">>>>
\* projects, the detail and the preview of a cleanup
RelationRead ==
    <<<<"admit", "accesses">>, <<"lock", "database">>, <<"lock", "accesses">>,
      <<"admit", "">>, <<"share", "">>>>
\* one batch of run_manifest_scan_with_gate; the cleanup inbox
ScanBatch == <<<<"admit", "accesses">>, <<"lock", "database">>, <<"share", "">>>>
RenamePreview == <<<<"admit", "accesses">>, <<"share", "">>>>
WatchCycle == <<<<"admit", "accesses">>, <<"try", "database">>, <<"share", "">>>>
\* restore_scope_access_registry, of a host that starts beside this one
Restoration == <<<<"share", "">>, <<"refresh", "">>>>

Program == [
    preview_revocation |-> PreviewRevocation, preview_exclusion |-> PreviewExclusion,
    confirm_revocation |-> ConfirmRevocation, confirm_exclusion |-> ConfirmExclusion,
    authorize |-> Authorization, extraction |-> PathRead, relation |-> RelationRead,
    scan |-> ScanBatch, rename_preview |-> RenamePreview, watch |-> WatchCycle,
    restore |-> Restoration]

-----------------------------------------------------------------------------
(* What a step does. *)

RegistryOf(c) == IF call[c].command \in {"preview_revocation", "confirm_revocation"}
             THEN "revocations" ELSE "exclusions"
InHand(c) == call[c].preview
Granted == policy.grant = "active"
Running(c) == call[c].command # "none"
\* <<step, mutex>>, or <<"end", "">> when all steps are done
NextOf(c) == IF call[c].at <= Len(Program[call[c].command])
             THEN Program[call[c].command][call[c].at] ELSE <<"end", "">>

CommandGoes(c) == call' = [call EXCEPT ![c].at = @ + 1]
Carries(c, preview) == call' = [call EXCEPT ![c].at = @ + 1, ![c].preview = preview]

\* The guards, the fence and the database connection of a command go with it.
Ends(c) ==
    /\ locks' = [m \in Mutexes |-> IF locks[m] = c THEN NoCaller ELSE locks[m]]
    /\ fence' = [shared |-> fence.shared \ {c},
                 alone |-> IF fence.alone = c THEN NoCaller ELSE fence.alone]
    /\ call' = [call EXCEPT ![c] = IdleCall]
    /\ UNCHANGED <<policy, access, previews, made, withdrawn, applied>>

Admit(c) ==
    IF access
    THEN /\ CommandGoes(c)
         /\ UNCHANGED <<locks, fence, policy, access, previews, made, withdrawn, applied>>
    ELSE Ends(c)

\* bind_scope_policy_revision, and the impact that the preview's transaction finds; a
\* selection of exclusions is looked at under the fence.
LookAtImpact(c) ==
    IF Granted /\ IF RegistryOf(c) = "revocations" THEN access ELSE fence.alone = NoCaller
    THEN /\ Carries(c, [Nothing EXCEPT !.revision = policy.revision, !.rows = policy.rows])
         /\ UNCHANGED <<locks, fence, policy, access, previews, made, withdrawn, applied>>
    ELSE Ends(c)

\* insert_at: the expired ones go, then the oldest while the registry is full.
Insert(c) ==
    LET list == previews[RegistryOf(c)]
    IN /\ made < MaxPreviews /\ made' = made + 1
       /\ \E expired \in 0 .. Len(list) :
             LET kept == SubSeq(list, expired + 1, Len(list))
                 room == IF Len(kept) < MaxPending THEN kept ELSE Tail(kept)
             IN previews' = [previews EXCEPT ![RegistryOf(c)] =
                               Append(room, [InHand(c) EXCEPT !.number = made + 1])]
       /\ Carries(c, Nothing)
       /\ UNCHANGED <<locks, fence, policy, access, withdrawn, applied>>

\* take_for_confirmation_at: the preview is gone, expired or not, and whatever becomes of its
\* confirmation.
Take(c) ==
    LET list == previews[RegistryOf(c)]
    IN \/ \E i \in DOMAIN list :
             /\ previews' = [previews EXCEPT ![RegistryOf(c)] = RemoveAt(list, i)]
             /\ \/ Carries(c, list[i])
                \/ call' = [call EXCEPT ![c] = IdleCall]
             /\ UNCHANGED <<locks, fence, policy, access, made, withdrawn, applied>>
       \/ list = <<>> /\ Ends(c)

Share(c) ==
    IF Granted /\ fence.alone = NoCaller
    THEN /\ fence' = [fence EXCEPT !.shared = @ \cup {c}] /\ CommandGoes(c)
         /\ UNCHANGED <<locks, policy, access, previews, made, withdrawn, applied>>
    ELSE Ends(c)

\* Slip: readers that do not leave within two seconds are not waited for.
Undrained == TRUE
Drained == fence.shared = {} /\ fence.alone = NoCaller
\* acquire_scope_filesystem_revocation_fence gives up as busy after two seconds; before it a
\* preview whose time has run out is refused.
Exclude(c) ==
    \/ /\ call[c].command = "confirm_revocation" => access
       /\ Granted /\ Drained
       /\ fence' = [fence EXCEPT !.alone = c] /\ CommandGoes(c)
       /\ UNCHANGED <<locks, policy, access, previews, made, withdrawn, applied>>
    \/ Ends(c)

Confirms(c, asShown) ==
    applied' = applied \cup {[number |-> InHand(c).number, at |-> policy.revision,
                              asShown |-> asShown]}
\* Slip: the impact is shown, but not compared when it is confirmed.
ImpactIgnored(c) == TRUE
\* apply_scope_root_revocation_from_preview_with_fence: exactly what was shown
ImpactIsShown(c) == InHand(c).rows = policy.rows
Revoke(c) ==
    IF Granted /\ InHand(c).revision = policy.revision /\ ImpactIsShown(c)
    THEN /\ policy.revision < MaxRevision
         /\ policy' = [policy EXCEPT !.revision = @ + 1, !.grant = "revoked"]
         /\ withdrawn' = "here" /\ Confirms(c, InHand(c).rows = policy.rows) /\ Carries(c, Nothing)
         /\ UNCHANGED <<locks, fence, access, previews, made>>
    ELSE Ends(c)

\* The selection is prepared again; a path that changed meanwhile refuses it.
Apply(c) ==
    \/ /\ Granted /\ InHand(c).revision = policy.revision /\ policy.revision < MaxRevision
       /\ policy' = [policy EXCEPT !.revision = @ + 1]
       /\ Confirms(c, TRUE) /\ Carries(c, Nothing)
       /\ UNCHANGED <<locks, fence, access, previews, made, withdrawn>>
    \/ Ends(c)

\* The capability and the previews of the folder go before the mutexes are let go; the fence
\* is held on, until the native watch has followed.
Withdraw(c) ==
    /\ access' = FALSE
    /\ previews' = [kind \in DOMAIN previews |-> <<>>]
    /\ locks' = [m \in Mutexes |-> NoCaller] /\ CommandGoes(c)
    /\ UNCHANGED <<fence, policy, made, withdrawn, applied>>

Authorize(c) ==
    /\ policy' = [policy EXCEPT !.grant = "active"]
    /\ access' = TRUE /\ withdrawn' = "no" /\ CommandGoes(c)
    /\ UNCHANGED <<locks, fence, previews, made, applied>>

\* A bookmark that was renewed is stored as active; one that cannot be restored lapses.
Refresh(c) ==
    /\ \E grant \in {"active", "lapsed"} : policy' = [policy EXCEPT !.grant = grant]
    /\ CommandGoes(c)
    /\ UNCHANGED <<locks, fence, access, previews, made, withdrawn, applied>>

Lock(c, mutex) ==
    /\ locks' = [locks EXCEPT ![mutex] = c] /\ CommandGoes(c)
    /\ UNCHANGED <<fence, policy, access, previews, made, withdrawn, applied>>

-----------------------------------------------------------------------------
(* Steps. *)

Begin(c, command) ==
    /\ ~Running(c)
    /\ call' = [call EXCEPT ![c] = [IdleCall EXCEPT !.command = command, !.at = 1]]
    /\ UNCHANGED <<locks, fence, policy, access, previews, made, withdrawn, applied>>

Open(mutex) == mutex = "" \/ locks[mutex] = NoCaller
Step(c) ==
    LET what == NextOf(c)[1]
        mutex == NextOf(c)[2]
    IN IF Open(mutex)
       THEN CASE what \in {"lock", "try"} -> Lock(c, mutex)
              [] what = "admit" -> Admit(c)
              [] what = "look" -> LookAtImpact(c)
              [] what = "insert" -> Insert(c)
              [] what = "take" -> Take(c)
              [] what = "share" -> Share(c)
              [] what = "exclude" -> Exclude(c)
              [] what = "revoke" -> Revoke(c)
              [] what = "apply" -> Apply(c)
              [] what = "withdraw" -> Withdraw(c)
              [] what = "authorize" -> Authorize(c)
              [] what = "refresh" -> Refresh(c)
              [] what = "end" -> Ends(c)
       ELSE what = "try" /\ Ends(c)

\* discard_hard_exclusion_preview, discard_scope_root_revocation
Discard ==
    /\ \E kind \in DOMAIN previews : \E i \in DOMAIN previews[kind] :
          previews' = [previews EXCEPT ![kind] = RemoveAt(@, i)]
    /\ UNCHANGED <<locks, fence, policy, access, made, call, withdrawn, applied>>
\* Scans and extractions change what a revocation would purge, at the same revision.
Derive ==
    /\ policy.rows = 0 /\ policy' = [policy EXCEPT !.rows = 1]
    /\ UNCHANGED <<locks, fence, access, previews, made, call, withdrawn, applied>>
\* Another host excludes or revokes; its fence is alone for a moment.
ChangeElsewhere ==
    /\ Granted /\ Drained /\ policy.revision < MaxRevision
    /\ \E grant \in {"active", "revoked"} :
          /\ policy' = [policy EXCEPT !.revision = @ + 1, !.grant = grant]
          /\ withdrawn' = IF grant = "revoked" THEN "elsewhere" ELSE withdrawn
    /\ UNCHANGED <<locks, fence, access, previews, made, call, applied>>

HostNext ==
    \/ Discard \/ Derive \/ ChangeElsewhere
    \/ \E c \in Callers : \/ \E command \in DOMAIN Program : Begin(c, command)
                          \/ Running(c) /\ Step(c)

HostSpec == HostInit /\ [][HostNext]_hostVars

-----------------------------------------------------------------------------
(* Properties. *)

\* Everything has its type; a registry never holds more than its limit.
HostTypeOK ==
    /\ locks \in Locks /\ policy \in Policies /\ access \in BOOLEAN
    /\ fence \in [shared : SUBSET Callers, alone : Callers \cup {NoCaller}]
    /\ previews \in [Registries -> Seq(Previews)] /\ made \in 0 .. MaxPreviews
    /\ \A kind \in Registries : Len(previews[kind]) <= MaxPending
    /\ \A c \in Callers : Running(c) => call[c].at \in 1 .. Len(Program[call[c].command]) + 1

WaitsFor(c, d) == /\ Running(c) /\ NextOf(c)[1] # "try"
                  /\ NextOf(c)[2] # "" /\ locks[NextOf(c)[2]] = d
\* No commands wait for each other in a circle, nor one for itself, over mutexes that no wait
\* on has a limit; what is waited for besides them, the fence, has one.
NobodyWaitsInACircle ==
    \A S \in (SUBSET Callers) \ {{}} : \E c \in S : \A d \in S : ~WaitsFor(c, d)

\* Once a revocation has committed, nobody is still reading the folder and nothing brings its
\* grant back but a new authorization; when this host's own revocation lets go of the database,
\* no capability and no preview of the folder is left to confirm.
RevokedIsOutOfReach ==
    /\ withdrawn # "no" => ~Granted /\ fence.shared = {}
    /\ withdrawn = "here" /\ locks["database"] = NoCaller =>
          ~access /\ \A kind \in DOMAIN previews : previews[kind] = <<>>

\* What a user confirmed is what he was shown: no preview is applied twice, and a revocation
\* purges what its preview counted.
ConfirmedAsShown ==
    /\ \A a \in applied : a.asShown
    /\ \A a, b \in applied : a.number = b.number => a = b
=============================================================================
