---------------------------- MODULE AtomicContent ----------------------------
(***************************************************************************)
(* What extraction promises to search about one file (ADR-012): the text   *)
(* it shows for an operation is the whole text of the file's current state *)
(* or nothing; a complete output replaces the previous one of its own      *)
(* operation at once, and a change of state drops what no longer fits.     *)
(***************************************************************************)
CONSTANTS Operations, Versions, Absent

VARIABLES
    current,    \* state of the file by the manifest
    shown       \* per operation, the state whose text is shown
vars == <<current, shown>>

Nothing == [o \in Operations |-> Absent]

Init == current \in Versions /\ shown = Nothing

\* A complete extraction of the current state replaces the one before.
Replace(o) ==
    /\ current # Absent
    /\ shown' = [shown EXCEPT ![o] = current]
    /\ UNCHANGED current

\* The manifest learns another state, or that the file is gone.
Change(state) ==
    /\ current' = state
    /\ \/ shown' = [o \in Operations |-> IF shown[o] = state THEN state ELSE Absent]
       \/ shown' = Nothing

\* The file was found not to be in the current state.
Withdraw == shown' = Nothing /\ UNCHANGED current

Next ==
    \/ \E o \in Operations : Replace(o)
    \/ \E state \in Versions \cup {Absent} : Change(state)
    \/ Withdraw

Spec == Init /\ [][Next]_vars
=============================================================================
