---------------------------- MODULE AtomicRename ----------------------------
(***************************************************************************)
(* What a caller of the rename coordinator is promised when nothing else   *)
(* touches the folder: one command of a plan at a time, a rename that      *)
(* happens at once or not at all, and an answer that says which.           *)
(***************************************************************************)
CONSTANTS Plans, Requests, Names, Source, Destination

VARIABLES
    place,   \* the name of the file
    kind,    \* [Plans -> [Requests -> "none", "execute" or "undo"]]
    phase    \* [Plans -> [Requests -> how far the request is]]

vars == <<place, kind, phase>>

From(p, k) == IF k = "execute" THEN Source[p] ELSE Destination[p]
To(p, k) == IF k = "execute" THEN Destination[p] ELSE Source[p]

Init ==
    /\ place \in {Source[p] : p \in Plans}
    /\ kind = [p \in Plans |-> [r \in Requests |-> "none"]]
    /\ phase = [p \in Plans |-> [r \in Requests |-> "new"]]

Becomes(p, r, f) == phase' = [phase EXCEPT ![p][r] = f]

\* A request opens when no other of its plan is open or unknown.
Open(p, r, k) ==
    /\ \A q \in Requests : phase[p][q] \in {"new", "applied", "not_applied"}
    /\ phase[p][r] = "new"
    /\ kind' = [kind EXCEPT ![p][r] = k]
    /\ Becomes(p, r, "open")
    /\ UNCHANGED place

Move(p, r) ==
    /\ phase[p][r] = "open"
    /\ place = From(p, kind[p][r])
    /\ place' = To(p, kind[p][r])
    /\ Becomes(p, r, "moved")
    /\ UNCHANGED kind

\* A power loss takes back renames that nobody was told of: the file is where it
\* was before one of them, and those it undid are open again.
Revert(back) ==
    /\ \A b \in back : phase[b[1]][b[2]] \in {"moved", "unknown"}
    /\ \E b \in back : place' = From(b[1], kind[b[1]][b[2]])
    /\ phase' = [p \in Plans |-> [r \in Requests |->
           IF <<p, r>> \in back /\ phase[p][r] = "moved" THEN "open" ELSE phase[p][r]]]
    /\ UNCHANGED kind

Answer(p, r) ==
    /\ \/ phase[p][r] = "moved" /\ Becomes(p, r, "applied")
       \/ phase[p][r] = "open" /\ Becomes(p, r, "not_applied")
       \/ phase[p][r] \in {"open", "moved"} /\ Becomes(p, r, "unknown")
    /\ UNCHANGED <<place, kind>>

Next ==
    \/ \E p \in Plans, r \in Requests :
         \/ \E k \in {"execute", "undo"} : Open(p, r, k)
         \/ Move(p, r)
         \/ Answer(p, r)
    \/ \E back \in SUBSET (Plans \X Requests) : Revert(back)

Spec == Init /\ [][Next]_vars
=============================================================================
