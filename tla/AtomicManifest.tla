--------------------------- MODULE AtomicManifest ---------------------------
(***************************************************************************)
(* What the resumable scanner promises to the readers of one scope: the    *)
(* live manifest never changes a row at a time.  It changes when one open  *)
(* scan is published as a whole, or when a policy change prunes it, and a  *)
(* published manifest is honest (every row was on disk at some time since  *)
(* the scan was opened) and complete (a path that was on disk all the time *)
(* since then, and that no directory read error hid, has a row).           *)
(* Queue, staging, leases, runners and pauses do not appear here.          *)
(***************************************************************************)
EXTENDS FiniteSets

CONSTANTS
    Paths,      \* the paths below (and including) the scope root
    Versions,   \* the states of a present path that a scan tells apart
    Absent,     \* "no such path" / "no live row for the path"
    Jobs        \* scan job ids

VARIABLES
    disk,       \* Paths -> Versions \cup {Absent}: the real file system
    manifest,   \* Paths -> Versions \cup {Absent}: rows with present = 1
    withheld,   \* paths that policy keeps out of the manifest
    scan,       \* Jobs -> {"idle", "open", "published", "closed"}
    seen,       \* Jobs -> pairs <<p, v>> that were on disk since it opened
    steady      \* Jobs -> paths on disk, and listed, ever since it opened

avars == <<disk, manifest, withheld, scan, seen, steady>>

Trees == [Paths -> Versions \cup {Absent}]
OnDisk(d) == {p \in Paths : d[p] # Absent}

TypeOK ==
    /\ disk \in Trees
    /\ manifest \in Trees
    /\ withheld \subseteq Paths
    /\ scan \in [Jobs -> {"idle", "open", "published", "closed"}]
    /\ seen \in [Jobs -> SUBSET (Paths \X Versions)]
    /\ steady \in [Jobs -> SUBSET Paths]

Init ==
    /\ disk \in Trees
    /\ manifest = [p \in Paths |-> Absent]
    /\ withheld = {}
    /\ scan = [j \in Jobs |-> "idle"]
    /\ seen = [j \in Jobs |-> {}]
    /\ steady = [j \in Jobs |-> {}]

Open(j) ==
    /\ scan[j] = "idle"
    /\ scan' = [scan EXCEPT ![j] = "open"]
    /\ seen' = [seen EXCEPT ![j] = {<<p, disk[p]>> : p \in OnDisk(disk)}]
    /\ steady' = [steady EXCEPT ![j] = OnDisk(disk) \ withheld]
    /\ UNCHANGED <<disk, manifest, withheld>>

\* The user's file system moves under every open scan.
Change ==
    /\ disk' \in Trees
    /\ seen' = [j \in Jobs |-> IF scan[j] = "open"
                               THEN seen[j] \cup {<<p, disk'[p]>> : p \in OnDisk(disk')}
                               ELSE seen[j]]
    /\ steady' = [j \in Jobs |-> IF scan[j] = "open"
                                 THEN steady[j] \cap OnDisk(disk')
                                 ELSE steady[j]]
    /\ UNCHANGED <<manifest, withheld, scan>>

\* A directory that cannot be read hides paths from the scan that reads it
\* (or did read it: a batch that lost its job does not know that yet).
Overlook(j) ==
    /\ \E hidden \in SUBSET Paths : steady' = [steady EXCEPT ![j] = @ \ hidden]
    /\ UNCHANGED <<disk, manifest, withheld, scan, seen>>

Publish(j) ==
    /\ scan[j] = "open"
    /\ manifest' \in Trees
    /\ \A p \in OnDisk(manifest') : <<p, manifest'[p]>> \in seen[j] /\ p \notin withheld
    /\ steady[j] \subseteq OnDisk(manifest')
    /\ scan' = [scan EXCEPT ![j] = "published"]
    /\ UNCHANGED <<disk, withheld, seen, steady>>

Abort(j) ==
    /\ scan[j] = "open"
    /\ scan' = [scan EXCEPT ![j] = "closed"]
    /\ UNCHANGED <<disk, manifest, withheld, seen, steady>>

\* A policy change withholds paths and closes every open scan in one step.
Purge ==
    /\ \E kept \in SUBSET Paths :
          manifest' = [p \in Paths |-> IF p \in kept THEN manifest[p] ELSE Absent]
    /\ withheld' \subseteq Paths
    /\ OnDisk(manifest') \cap withheld' = {}
    /\ \E closed \in SUBSET {j \in Jobs : scan[j] # "idle"} :
          /\ {j \in Jobs : scan[j] = "open"} \subseteq closed
          /\ scan' = [j \in Jobs |-> IF j \in closed THEN "closed" ELSE scan[j]]
    /\ UNCHANGED <<disk, seen, steady>>

Next ==
    \/ Change
    \/ Purge
    \/ \E j \in Jobs : Open(j) \/ Overlook(j) \/ Publish(j) \/ Abort(j)

Spec == Init /\ [][Next]_avars
=============================================================================
