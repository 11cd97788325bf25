----------------------------- MODULE AccessGrants -----------------------------
(* The access grants of the folders that a person authorised: a selection in *)
(* the desktop host or in the command line makes them active, a host that    *)
(* starts restores them one by one, renews or loses them, and a revocation   *)
(* ends them (crates/scanner/src/lib.rs, crates/database/src/lib.rs,         *)
(* migration 0023 and apps/desktop/src-tauri).  What the system makes of a   *)
(* stored bookmark is decided when it is restored: it fails, it resolves, or *)
(* it resolves and has to be renewed.  Processes are hosts and the command   *)
(* line; each does one call at a time.  The read fence of a folder is held   *)
(* from Acquire to the end of its restoration, as ScopeFence models it.      *)
EXTENDS Naturals, FiniteSets, SequencesExt

CONSTANTS
    Roots,          \* folders that a person may authorise
    Overlapping,    \* the pairs of which one lies in the other
    Hosts           \* processes of the desktop host

VARIABLES
    grants,         \* scope_access_grants: root -> state, and who stored the bytes
    accesses,       \* host -> the folders that its scope_accesses hold
    grantCall,      \* host -> its position, and the call in hand
    withdrawn       \* history: folders that were revoked and not selected since

grantVars == <<grants, accesses, grantCall, withdrawn>>

GrantRows == [state : {"none", "active", "needs_reauthorization", "revoked"}, by : {"host", "cli"}]
Off == [pc |-> "off", todo |-> <<>>, restored |-> {}, renewed |-> FALSE, batch |-> {}]
ActiveFolders == {r \in Roots : grants[r].state = "active"}
\* list_active_scope_grants
Listed == {<<r, grants[r].by>> : r \in ActiveFolders}
Overlap(r, s) == {r, s} \in Overlapping

GrantsInit ==
    /\ grants = [r \in Roots |-> [state |-> "none", by |-> "host"]]
    /\ accesses = [h \in Hosts |-> {}]
    /\ grantCall = [h \in Hosts |-> Off]
    /\ withdrawn = {}

HostAt(h, pc) == grantCall[h].pc = pc
Go(h, pc) == grantCall' = [grantCall EXCEPT ![h].pc = pc]
\* The folder that a host is about to restore, and who stored the bytes that it listed.
NextFolder(h) == Head(grantCall[h].todo)[1]
ListedBy(h) == Head(grantCall[h].todo)[2]
HoldsFence(h, r) == grantCall[h].pc \in {"held", "resolved"} /\ NextFolder(h) = r

-----------------------------------------------------------------------------
(* What the database admits. *)

\* Slip: the triggers do not look at a grant that is renewed.
AnyRoot(r) == TRUE
\* scope_access_grants_reject_overlap_insert and _update
RootIsFree(r) == \A s \in ActiveFolders : ~Overlap(r, s)
\* coverage_paths_overlap: within a selection and with what is active
SetIsFree(batch) == \A r \in batch : \A s \in batch \cup ActiveFolders : ~Overlap(r, s)

\* add_coverage_roots_with_access_grants: all of a selection or nothing
Store(batch, who) ==
    grants' = [r \in Roots |-> IF r \in batch THEN [state |-> "active", by |-> who] ELSE grants[r]]
\* mark_scope_access_grant_needs_reauthorization, whatever the grant is by now
Lapse(r) == grants' = [grants EXCEPT ![r].state = "needs_reauthorization"]

-----------------------------------------------------------------------------
(* A host starts: restore_scope_access_registry. *)

StartHost(h) ==
    /\ HostAt(h, "off")
    /\ grantCall' = [grantCall EXCEPT ![h] =
                      [Off EXCEPT !.pc = "restore", !.todo = SetToSeq(Listed)]]
    /\ UNCHANGED <<grants, accesses, withdrawn>>

\* Whatever ends the process, and an error that ends its start.
Stop(h) ==
    /\ ~HostAt(h, "off")
    /\ accesses' = [accesses EXCEPT ![h] = {}]
    /\ grantCall' = [grantCall EXCEPT ![h] = Off]
    /\ UNCHANGED <<grants, withdrawn>>

Passes(h, restored) ==
    grantCall' = [grantCall EXCEPT ![h].pc = "restore", ![h].todo = Tail(@),
                                   ![h].restored = @ \cup restored]

\* A grant that is no longer active is passed over; a fence that is busy stops the host.
Acquire(h) ==
    /\ HostAt(h, "restore") /\ grantCall[h].todo # <<>>
    /\ IF NextFolder(h) \in ActiveFolders THEN Go(h, "held") ELSE Passes(h, {})
    /\ UNCHANGED <<grants, accesses, withdrawn>>

\* restore_scope_access of the bytes that were listed; those of the command line never resolve.
\* validated_scope_root wants the grant to be active still.
Fails(h) ==
    /\ HostAt(h, "held")
    /\ Lapse(NextFolder(h)) /\ Passes(h, {})
    /\ UNCHANGED <<accesses, withdrawn>>
Resolves(h, renewed) ==
    /\ HostAt(h, "held") /\ NextFolder(h) \in ActiveFolders /\ ListedBy(h) = "host"
    /\ grantCall' = [grantCall EXCEPT ![h].pc = "resolved", ![h].renewed = renewed]
    /\ UNCHANGED <<grants, accesses, withdrawn>>
\* upsert_scope_access_grant of a bookmark that was renewed; a trigger's refusal stops the host.
Keep(h) ==
    /\ HostAt(h, "resolved")
    /\ IF grantCall[h].renewed
       THEN RootIsFree(NextFolder(h)) /\ Store({NextFolder(h)}, "host") ELSE UNCHANGED grants
    /\ Passes(h, {NextFolder(h)})
    /\ UNCHANGED <<accesses, withdrawn>>

Run(h) ==
    /\ HostAt(h, "restore") /\ grantCall[h].todo = <<>>
    /\ accesses' = [accesses EXCEPT ![h] = grantCall[h].restored]
    /\ grantCall' = [grantCall EXCEPT ![h] = [Off EXCEPT !.pc = "running"]]
    /\ UNCHANGED <<grants, withdrawn>>

-----------------------------------------------------------------------------
(* Selections and revocations. *)

\* select_and_authorize_scopes: the set is compared with itself and with what is active now,
Select(h, batch) ==
    /\ HostAt(h, "running") /\ batch # {} /\ SetIsFree(batch)
    /\ grantCall' = [grantCall EXCEPT ![h].pc = "selected", ![h].batch = batch]
    /\ UNCHANGED <<grants, accesses, withdrawn>>
\* and once more in the transaction that stores it.
Authorize(h) ==
    LET batch == grantCall[h].batch
    IN /\ HostAt(h, "selected")
       /\ IF SetIsFree(batch) /\ \A r \in batch : RootIsFree(r)
          THEN /\ Store(batch, "host")
               /\ accesses' = [accesses EXCEPT ![h] = @ \cup batch]
               /\ withdrawn' = withdrawn \ batch
          ELSE UNCHANGED <<grants, accesses, withdrawn>>
       /\ grantCall' = [grantCall EXCEPT ![h] = [Off EXCEPT !.pc = "running"]]
\* "scope add" of the command line: one folder, and a receipt that no host can restore
AddByCommand(r) ==
    /\ SetIsFree({r}) /\ RootIsFree(r)
    /\ Store({r}, "cli") /\ withdrawn' = withdrawn \ {r}
    /\ UNCHANGED <<accesses, grantCall>>

\* Slip: the revocation does not wait for readers of the folder.
Unfenced(r) == TRUE
Drained(r) == \A h \in Hosts : ~HoldsFence(h, r)
Revoke(h, r) ==
    /\ HostAt(h, "running") /\ r \in accesses[h] \cap ActiveFolders /\ Drained(r)
    /\ grants' = [grants EXCEPT ![r].state = "revoked"]
    /\ accesses' = [accesses EXCEPT ![h] = @ \ {r}]
    /\ withdrawn' = withdrawn \cup {r}
    /\ UNCHANGED grantCall

GrantsNext ==
    \/ \E r \in Roots : AddByCommand(r)
    \/ \E h \in Hosts :
         \/ StartHost(h) \/ Stop(h) \/ Acquire(h) \/ Fails(h) \/ Keep(h) \/ Run(h) \/ Authorize(h)
         \/ \E renewed \in BOOLEAN : Resolves(h, renewed)
         \/ \E batch \in SUBSET Roots : Select(h, batch)
         \/ \E r \in Roots : Revoke(h, r)

GrantsSpec == GrantsInit /\ [][GrantsNext]_grantVars

-----------------------------------------------------------------------------
(* Properties. *)

GrantsTypeOK ==
    /\ grants \in [Roots -> GrantRows]
    /\ accesses \in [Hosts -> SUBSET Roots]

\* No two active folders lie one in the other, however selections and the restorations of other
\* hosts interleave: no file is indexed under two grants (migration 0023).
ActiveRootsAreDisjoint == \A r, s \in ActiveFolders : ~Overlap(r, s)

\* What was revoked stays revoked until it is selected again: a host that was just restoring the
\* folder neither renews its grant nor turns it into one that merely lapsed.
RevokedStaysRevoked == \A r \in withdrawn : grants[r].state = "revoked"
=============================================================================
