----------------------------- MODULE ScopeFence -----------------------------
(* The cooperative fence between readers of a folder and changes of its       *)
(* policy: two lock files beside the database, the gate and the data file,     *)
(* and the policy revision that both sides read before and after they lock    *)
(* (acquire_scope_filesystem_read_fence and its exclusive counterpart).       *)
EXTENDS Naturals, FiniteSets

CONSTANTS
    Readers,        \* scanners, extractors, watchers, previews: any process
    Changers,       \* processes that exclude or revoke
    MaxPolicies,    \* bound: policy revisions
    MaxReplaced     \* bound: times that somebody removes the lock files

\* Every request for the fence is one of the two; a process that does both is two of them.
ASSUME FenceUsersAssumption == Readers \cap Changers = {}

FenceUsers == Readers \cup Changers

VARIABLES
    fencePolicy,    \* authorized_scopes.policy_revision and the state of the grant
    lockFiles,      \* the pair now in the fence folder (0: none) and those made so far
    bound,          \* scope_filesystem_fence_identities: the pair bound on first use
    fenceCall       \* each process: its step, binding, pair, held locks, outer fence

fenceVars == <<fencePolicy, lockFiles, bound, fenceCall>>

Outside == [pc |-> "idle", binding |-> 0, file |-> 0, gate |-> FALSE, data |-> FALSE,
         outer |-> [file |-> 0, binding |-> 0]]

FenceInit ==
    /\ fencePolicy = [revision |-> 1, granted |-> TRUE]
    /\ lockFiles = [now |-> 0, made |-> 0]
    /\ bound = 0
    /\ fenceCall = [p \in FenceUsers |-> Outside]

FenceGoes(p, pc) == fenceCall' = [fenceCall EXCEPT ![p].pc = pc]
\* An error drops every handle: the system closes the files, data before gate.
GivesUp(p) == fenceCall' = [fenceCall EXCEPT ![p] = Outside]

HoldsGate(file) == {p \in FenceUsers : fenceCall[p].gate /\ fenceCall[p].file = file}
\* A process may hold an outer fence of its own while it asks for another one.
Shares(file) == {p \in Readers : \/ fenceCall[p].data /\ fenceCall[p].file = file
                                 \/ fenceCall[p].outer.file = file}
Excludes(file) == {p \in Changers : fenceCall[p].data /\ fenceCall[p].file = file}

-----------------------------------------------------------------------------
(* Admission. *)

\* bind_scope_policy_revision, before any lock
BindPolicy(p) ==
    /\ fenceCall[p].pc \in {"idle", "reading"} /\ (p \in Readers \/ fenceCall[p].pc = "idle")
    /\ fenceCall[p].outer.file = 0
    /\ fencePolicy.granted
    /\ fenceCall' = [fenceCall EXCEPT ![p] =
                  [Outside EXCEPT !.pc = "open", !.binding = fencePolicy.revision,
                               !.outer = IF fenceCall[p].pc = "reading"
                                         THEN [file |-> fenceCall[p].file,
                                               binding |-> fenceCall[p].binding]
                                         ELSE @]]
    /\ UNCHANGED <<fencePolicy, lockFiles, bound>>

\* O_CREAT: what is missing is created.
FileNow == IF lockFiles.now = 0 THEN lockFiles.made + 1 ELSE lockFiles.now
\* open_scope_filesystem_fence_files
OpenFiles(p) ==
    /\ fenceCall[p].pc = "open"
    /\ lockFiles' = [now |-> FileNow, made |-> IF lockFiles.now = 0 THEN FileNow ELSE lockFiles.made]
    /\ fenceCall' = [fenceCall EXCEPT ![p].pc = "identify", ![p].file = FileNow]
    /\ UNCHANGED <<fencePolicy, bound>>

\* bind_scope_filesystem_fence_identity: the first pair stays the only one.
\* Slip: every pair that is found is a good one.
AcceptedAny(file) == TRUE
Accepted(file) == bound \in {0, file}
Identify(p) ==
    /\ fenceCall[p].pc = "identify"
    /\ IF Accepted(fenceCall[p].file)
       THEN bound' = (IF bound = 0 THEN fenceCall[p].file ELSE bound) /\ FenceGoes(p, "gate")
       ELSE GivesUp(p) /\ UNCHANGED bound
    /\ UNCHANGED <<fencePolicy, lockFiles>>

\* try_lock until it succeeds or two seconds are over
TakeGate(p) ==
    /\ fenceCall[p].pc = "gate" /\ HoldsGate(fenceCall[p].file) = {}
    /\ fenceCall' = [fenceCall EXCEPT ![p].pc = "data", ![p].gate = TRUE]
    /\ UNCHANGED <<fencePolicy, lockFiles, bound>>

\* Readers wait without a limit here, with the gate in their hands.
TakeShared(p) ==
    /\ p \in Readers /\ fenceCall[p].pc = "data" /\ Excludes(fenceCall[p].file) = {}
    /\ fenceCall' = [fenceCall EXCEPT ![p].pc = "check", ![p].data = TRUE]
    /\ UNCHANGED <<fencePolicy, lockFiles, bound>>

NobodyInside(file) == Shares(file) = {} /\ Excludes(file) = {}
TakeExclusive(p) ==
    /\ p \in Changers /\ fenceCall[p].pc = "data" /\ NobodyInside(fenceCall[p].file)
    /\ fenceCall' = [fenceCall EXCEPT ![p].pc = "check", ![p].data = TRUE]
    /\ UNCHANGED <<fencePolicy, lockFiles, bound>>

TimesOut(p) ==
    /\ \/ fenceCall[p].pc = "gate" /\ HoldsGate(fenceCall[p].file) # {}
       \/ p \in Changers /\ fenceCall[p].pc = "data" /\ Shares(fenceCall[p].file) # {}
    /\ GivesUp(p)
    /\ UNCHANGED <<fencePolicy, lockFiles, bound>>

\* The binding is read again under the lock; a reader then opens the gate.
StillBound(p) == fencePolicy.granted /\ fencePolicy.revision = fenceCall[p].binding
\* Slip: whoever holds the data file lets the next one through the gate.
OpensGate(p) == FALSE
KeepsGate(p) == p \in Changers
Check(p) ==
    /\ fenceCall[p].pc = "check"
    /\ IF StillBound(p)
       THEN fenceCall' = [fenceCall EXCEPT ![p].pc = IF p \in Readers THEN "reading" ELSE "changing",
                                 ![p].gate = KeepsGate(p)]
       ELSE GivesUp(p)
    /\ UNCHANGED <<fencePolicy, lockFiles, bound>>

-----------------------------------------------------------------------------
(* Under the fence. *)

\* An inner fence ends before the outer one.
Leave(p) ==
    /\ fenceCall[p].pc = "reading"
    /\ LET outer == fenceCall[p].outer
       IN fenceCall' = [fenceCall EXCEPT ![p] =
                     IF outer.file = 0 THEN Outside
                     ELSE [Outside EXCEPT !.pc = "reading", !.data = TRUE, !.file = outer.file,
                                       !.binding = outer.binding]]
    /\ UNCHANGED <<fencePolicy, lockFiles, bound>>

\* The transaction asserts the binding once more and moves to the next revision; a revocation
\* takes the grant with it.
Commit(p, revokes) ==
    /\ fenceCall[p].pc = "changing" /\ StillBound(p) /\ fencePolicy.revision < MaxPolicies
    /\ fencePolicy' = [revision |-> fencePolicy.revision + 1, granted |-> ~revokes]
    /\ FenceGoes(p, "changed")
    /\ UNCHANGED <<lockFiles, bound>>

\* Dropped after the commit, or when the change is refused.
Release(p) ==
    /\ fenceCall[p].pc \in {"changing", "changed"}
    /\ GivesUp(p)
    /\ UNCHANGED <<fencePolicy, lockFiles, bound>>

\* The system releases the locks of a process that dies.
ProcessDies(p) ==
    /\ fenceCall[p].pc # "idle"
    /\ GivesUp(p)
    /\ UNCHANGED <<fencePolicy, lockFiles, bound>>

\* mark_scope_access_grant_needs_reauthorization and upsert_scope_access_grant take no fence.
Regrant ==
    /\ fencePolicy' = [fencePolicy EXCEPT !.granted = ~fencePolicy.granted]
    /\ UNCHANGED <<lockFiles, bound, fenceCall>>

\* Somebody removes the folder of the lock files; open handles stay good.
Replace ==
    /\ lockFiles.now # 0 /\ lockFiles.made <= MaxReplaced
    /\ lockFiles' = [lockFiles EXCEPT !.now = 0]
    /\ UNCHANGED <<fencePolicy, bound, fenceCall>>

FenceNext ==
    \/ Regrant \/ Replace
    \/ \E p \in FenceUsers :
         \/ BindPolicy(p) \/ OpenFiles(p) \/ Identify(p) \/ TakeGate(p) \/ TakeShared(p)
         \/ TakeExclusive(p) \/ TimesOut(p) \/ Check(p) \/ Leave(p) \/ Release(p) \/ ProcessDies(p)
         \/ \E revokes \in BOOLEAN : Commit(p, revokes)

FenceSpec == FenceInit /\ [][FenceNext]_fenceVars

-----------------------------------------------------------------------------
(* Properties. *)

FenceTypeOK ==
    /\ fencePolicy \in [revision : 1..MaxPolicies, granted : BOOLEAN]
    /\ lockFiles \in [now : 0..lockFiles.made, made : 0..MaxReplaced + 1]
    /\ bound \in 0..lockFiles.made
    /\ \A p \in FenceUsers :
         fenceCall[p].pc \in {"idle", "open", "identify", "gate", "data", "check", "reading",
                         "changing", "changed"}

\* Whoever reads under the fence reads under the revision in force, in its outer fence too: no
\* exclusion and no revocation commits in the middle of a read.
NoReadAcrossRevisions ==
    \A p \in Readers :
        /\ fenceCall[p].pc = "reading" => fenceCall[p].binding = fencePolicy.revision
        /\ fenceCall[p].outer.file # 0 => fenceCall[p].outer.binding = fencePolicy.revision

\* A reader waits for the data file without a limit, with the gate in its hands. It never waits:
\* whoever holds the data file alone holds the gate as well.
GateHolderNeverWaits ==
    \A p \in Readers : fenceCall[p].pc = "data" => Excludes(fenceCall[p].file) = {}

\* A reader and the policy it was bound to stay together until it lets go, and whoever holds
\* the gate of the database waits for no file lock.
FenceHolds == NoReadAcrossRevisions /\ GateHolderNeverWaits
=============================================================================
