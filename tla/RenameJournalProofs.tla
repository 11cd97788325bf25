------------------------ MODULE RenameJournalProofs ------------------------
(***************************************************************************)
(* Theorems about RenameJournal, for any plans, requests, processes, names *)
(* and bounds, and whether or not a lease can end under a working owner;   *)
(* at the end, that RenameJournal implements AtomicRename where none does  *)
(* and nobody else touches the folder.                                     *)
(***************************************************************************)
EXTENDS RenameJournal, TLAPS

(* What the tables of states and events say, as facts the provers can use  *)
(* without opening the tables.                                             *)
LEMMA Tables ==
    /\ \A k \in Kinds : StateAfter[k] \in States
    /\ Unfinished \subseteq States
    /\ Unfinished \cap {"none", "previewed", "executed", "undone", "needs_attention"} = {}
    /\ "none" \in States
    /\ "preview_created" \in Kinds
    /\ \A s \in Unfinished : Follow[s] \subseteq Kinds
    /\ Intents \subseteq Unfinished
  BY DEF Kinds, States, StateAfter, Unfinished, Follow, Intents

LEMMA CommandTables ==
    ASSUME NEW k \in Commands
    PROVE  /\ RequestedBy[k] \in Kinds
           /\ IntentOf[k] \in Kinds
           /\ NotStartedOf[k] \in Kinds
           /\ CompletedOf[k] \in Kinds
           /\ NotAppliedOf[k] \in Kinds
           /\ AttentionOf[k] \in Kinds
           /\ RequestedBy[k] \in Unfinished
           /\ IntentOf[k] \in Unfinished
           /\ StateAfter[RequestedBy[k]] = RequestedBy[k]
           /\ StateAfter[IntentOf[k]] = IntentOf[k]
           /\ StartsFrom[k] \in {"previewed", "executed"}
  BY DEF Commands, RequestedBy, IntentOf, NotStartedOf, CompletedOf, NotAppliedOf,
         AttentionOf, Kinds, StateAfter, Unfinished, Follow, StartsFrom

\* Only a request leads to an intent, and no event follows into a request.
LEMMA IntentTables ==
    /\ \A k \in Commands, s \in Unfinished : IntentOf[k] \in Follow[s] => s = RequestedBy[k]
    /\ \A k \in Commands, q \in Kinds : StateAfter[q] = RequestedBy[k] => q = RequestedBy[k]
    /\ \A k \in Commands, s \in Unfinished : RequestedBy[k] \notin Follow[s]
    /\ \A k, c \in Commands : RequestedBy[k] # IntentOf[c]
    /\ \A k \in Commands : RequestedBy[k] # "preview_created"
    /\ \A k \in Commands : StateAfter[IntentOf[k]] \in Intents
    /\ \A q \in Kinds : StateAfter[q] \in Intents => \E k \in Commands : q = IntentOf[k]
    /\ StateAfter["preview_created"] = "previewed"
  BY DEF Commands, RequestedBy, IntentOf, Kinds, StateAfter, Unfinished, Follow, Intents

LEMMA StateType ==
    ASSUME TypeOK, NEW p \in Plans
    PROVE  /\ State(p) \in States
           /\ State(p) \in Unfinished =>
                /\ journal[p] # <<>>
                /\ Len(journal[p]) \in DOMAIN journal[p]
                /\ Latest(p) \in Events
                /\ State(p) = StateAfter[Latest(p).kind]
<1>1. journal[p] \in Seq(Events)
  BY DEF TypeOK
<1>2. CASE journal[p] = <<>>
  BY <1>2, Tables DEF State
<1>3. CASE journal[p] # <<>>
  <2>1. Len(journal[p]) \in DOMAIN journal[p] /\ Len(journal[p]) \in 1..Len(journal[p])
    BY <1>1, <1>3
  <2>2. Latest(p) \in Events
    BY <1>1, <2>1 DEF Latest
  <2>3. State(p) = StateAfter[Latest(p).kind] /\ Latest(p).kind \in Kinds
    BY <1>3, <2>2 DEF State, Events
  <2> QED BY <1>3, <2>1, <2>2, <2>3, Tables
<1> QED BY <1>2, <1>3

-----------------------------------------------------------------------------
(* How a step changes the journal and the requests.                        *)
LEMMA JournalSteps ==
    ASSUME TypeOK, Next
    PROVE  \/ UNCHANGED <<journal, command>>
           \/ \E p \in Plans : CreatePreview(p)
           \/ \E e \in Processes : proc[e].pc = "start" /\ Accept(e)
           \/ \E e \in Processes, kind \in Kinds :
                Appendable(e, kind) /\ Appended(e, kind) /\ UNCHANGED command
<1>1. ASSUME NEW e \in Processes, NEW kind \in Kinds, AppendLast(e, kind)
      PROVE  \/ UNCHANGED <<journal, command>>
             \/ Appendable(e, kind) /\ Appended(e, kind) /\ UNCHANGED command
  BY <1>1 DEF AppendLast
<1>2. ASSUME NEW e \in Processes PROVE proc[e].kind \in Commands /\ proc[e].verdict \in Verdicts
  BY DEF TypeOK, Calls
<1>3. ASSUME NEW e \in Processes, Step(e) PROVE
           \/ UNCHANGED <<journal, command>>
           \/ \E f \in Processes : proc[f].pc = "start" /\ Accept(f)
           \/ \E f \in Processes, kind \in Kinds :
                Appendable(f, kind) /\ Appended(f, kind) /\ UNCHANGED command
  <2>1. CASE Start(e)
    BY <2>1 DEF Start, Replay, Reject
  <2>2. CASE Refuse(e)
    BY <2>2, <1>1, <1>2, CommandTables DEF Refuse
  <2>3. CASE AppendIntent(e)
    BY <2>3, <1>2, CommandTables DEF AppendIntent
  <2>4. CASE Complete(e)
    BY <2>4, <1>1, <1>2, CommandTables DEF Complete
  <2>5. CASE Conclude(e)
    <3>1. VerdictOf(proc[e].verdict, proc[e].kind) \in Kinds
      BY <1>2, CommandTables DEF VerdictOf, Verdicts
    <3> QED BY <2>5, <3>1, <1>1 DEF Conclude
  <2>6. CASE AcquireLease(e) \/ Bind(e) \/ Prepare(e) \/ Check(e) \/ Rename(e)
    BY <2>6 DEF AcquireLease, Bind, Prepare, Check, Rename, journalVars
  <2>7. CASE Settle(e) \/ Confirm(e) \/ Verify(e) \/ Renew(e) \/ Observe(e)
    BY <2>7 DEF Settle, Confirm, Verify, Renew, Renewed, Observe, journalVars
  <2>8. CASE ObserveAfter(e) \/ Inspect(e) \/ Release(e) \/ RecoverNext(e)
    BY <2>8 DEF ObserveAfter, Inspect, Release, RecoverNext, journalVars
  <2> QED BY <1>3, <2>1, <2>2, <2>3, <2>4, <2>5, <2>6, <2>7, <2>8 DEF Step
<1>4. CASE \E p \in Plans : CreatePreview(p) \/ ExpireLease(p)
  BY <1>4 DEF ExpireLease, journalVars
<1>5. CASE \E e \in Processes :
             \/ \E p \in Plans, r \in Requests, k \in Commands : Begin(e, p, r, k)
             \/ Recover(e) \/ FailedCall(e) \/ Crash(e)
  BY <1>5 DEF Begin, Recover, FailedCall, Crash, journalVars
<1>6. CASE PowerLoss \/ ChangeFolder
  BY <1>6 DEF PowerLoss, ChangeFolder, journalVars
<1> QED BY <1>3, <1>4, <1>5, <1>6 DEF Next, Actions

\* What one more event does to the chains of a plan.
LEMMA Grown ==
    ASSUME TypeOK, NEW p \in Plans, NEW event \in Events,
           journal' = [journal EXCEPT ![p] = Append(@, event)]
    PROVE  /\ Len(journal[p]) \in Nat
           /\ DOMAIN journal[p] = 1..Len(journal[p])
           /\ DOMAIN journal'[p] = 1..(Len(journal[p]) + 1)
           /\ Len(journal'[p]) = Len(journal[p]) + 1
           /\ \A i \in DOMAIN journal[p] : journal'[p][i] = journal[p][i]
           /\ journal'[p][Len(journal[p]) + 1] = event
           /\ \A q \in Plans : q # p => journal'[q] = journal[q]
           /\ event.request \in Requests =>
                Chain(p, event.request)' = Chain(p, event.request) \cup {Len(journal[p]) + 1}
<1> DEFINE n == Len(journal[p])
<1>1. journal[p] \in Seq(Events)
  BY DEF TypeOK
<1>2. journal'[p] = Append(journal[p], event) /\ \A q \in Plans : q # p => journal'[q] = journal[q]
  BY DEF TypeOK
<1>3. /\ n \in Nat
      /\ DOMAIN journal[p] = 1..n
      /\ DOMAIN journal'[p] = 1..(n + 1)
      /\ Len(journal'[p]) = n + 1
      /\ \A i \in DOMAIN journal[p] : journal'[p][i] = journal[p][i]
      /\ journal'[p][n + 1] = event
  BY <1>1, <1>2
<1> HIDE DEF n
<1>4. event.request \in Requests =>
        Chain(p, event.request)' = Chain(p, event.request) \cup {n + 1}
  BY <1>3 DEF Chain
<1> QED BY <1>2, <1>3, <1>4 DEF n

LEMMA OtherChain ==
    ASSUME TypeOK, NEW p \in Plans, NEW event \in Events,
           journal' = [journal EXCEPT ![p] = Append(@, event)],
           NEW q \in Plans, NEW r \in Requests, q # p \/ r # event.request
    PROVE  Chain(q, r)' = Chain(q, r)
<1>1. CASE q # p
  <2>1. journal'[q] = journal[q]
    BY <1>1, Grown
  <2> QED BY <2>1 DEF Chain
<1>2. CASE q = p
  <2>1. r # event.request
    BY <1>2
  <2> QED BY <1>2, <2>1, Grown DEF Chain
<1> QED BY <1>1, <1>2

-----------------------------------------------------------------------------
(* The chain of a request is empty before its command, and has a last      *)
(* event from then on.                                                     *)
HasLast(p, r) == \E i \in Chain(p, r) : \A j \in Chain(p, r) : j <= i
Chains ==
    \A p \in Plans, r \in Requests :
        IF command[p][r] = "none" THEN Chain(p, r) = {} ELSE HasLast(p, r)

LEMMA LastIs ==
    ASSUME TypeOK, NEW p \in Plans, NEW r \in Requests, HasLast(p, r)
    PROVE  /\ LastOf(p, r) \in Chain(p, r)
           /\ \A j \in Chain(p, r) : j <= LastOf(p, r)
           /\ \A i \in Chain(p, r) : (\A j \in Chain(p, r) : j <= i) => LastOf(p, r) = i
<1>1. \A i \in Chain(p, r) : i \in Nat
  BY DEF TypeOK, Chain
<1>2. LastOf(p, r) \in Chain(p, r) /\ \A j \in Chain(p, r) : j <= LastOf(p, r)
  BY DEF HasLast, LastOf
<1> QED BY <1>1, <1>2

LEMMA OutcomeType ==
    ASSUME TypeOK, NEW p \in Plans, NEW r \in Requests, HasLast(p, r)
    PROVE  /\ LastOf(p, r) \in Nat
           /\ LastOf(p, r) \in DOMAIN journal[p]
           /\ Outcome(p, r) \in States
<1>1. LastOf(p, r) \in DOMAIN journal[p] /\ journal[p] \in Seq(Events)
  BY LastIs DEF Chain, TypeOK
<1>2. journal[p][LastOf(p, r)] \in Events /\ LastOf(p, r) \in Nat
  BY <1>1
<1>3. journal[p][LastOf(p, r)].kind \in Kinds
  BY <1>2 DEF Events
<1> QED BY <1>1, <1>2, <1>3, Tables DEF Outcome

LEMMA ChainsInit == Init => Chains
  BY DEF Init, Chains, Chain

\* A later event is the last of its chain; every other chain stays.
LEMMA GrownChains ==
    ASSUME TypeOK, Chains, NEW p \in Plans, NEW event \in Events,
           event.request \in Requests,
           journal' = [journal EXCEPT ![p] = Append(@, event)],
           \A q \in Plans, r \in Requests :
               (q # p \/ r # event.request) => command'[q][r] = command[q][r],
           command'[p][event.request] # "none"
    PROVE  Chains'
<1>1. ASSUME NEW q \in Plans, NEW r \in Requests
      PROVE  IF command'[q][r] = "none" THEN Chain(q, r)' = {} ELSE HasLast(q, r)'
  <2>1. CASE q # p \/ r # event.request
    <3>1. Chain(q, r)' = Chain(q, r) /\ command'[q][r] = command[q][r]
      BY <2>1, OtherChain
    <3> QED BY <3>1 DEF Chains, HasLast
  <2>2. CASE q = p /\ r = event.request
    <3>1. Len(journal[q]) \in Nat /\ DOMAIN journal[q] = 1..Len(journal[q])
      BY <2>2, Grown
    <3>2. Chain(q, r)' = Chain(q, r) \cup {Len(journal[q]) + 1}
      BY <2>2, Grown
    <3>3. \A j \in Chain(q, r) : j \in 1..Len(journal[q])
      BY <3>1 DEF Chain
    <3>4. HasLast(q, r)'
      BY <3>1, <3>2, <3>3 DEF HasLast
    <3> QED BY <2>2, <3>4
  <2> QED BY <2>1, <2>2
<1> QED BY <1>1 DEF Chains

-----------------------------------------------------------------------------
(* Types.  TypeOK is taken apart by what an action writes.                 *)
JournalType ==
    /\ journal \in [Plans -> Seq(Events)]
    /\ command \in [Plans -> [Requests -> Commands \cup {"none"}]]
    /\ evidence \in [Plans -> Versions \cup {NoVersion}]
FolderType == disk \in Folders /\ file \in Versions /\ unsynced \subseteq Folders
BoundsType == changes \in 0..MaxChanges /\ faults \in 0..MaxFaults
ProcType == proc \in [Processes -> Calls]
LeaseType == lease \in [Plans -> Leases]
SyscallsType == syscalls \in [Plans -> [Requests -> Nat]]
SeenType == seen \in [Plans -> [Requests -> SUBSET FolderFacts]]

LEMMA TypeParts ==
    TypeOK <=> /\ JournalType /\ FolderType /\ BoundsType /\ ProcType
               /\ LeaseType /\ SyscallsType /\ SeenType
  BY DEF TypeOK, JournalType, FolderType, BoundsType, ProcType, LeaseType,
         SyscallsType, SeenType

LEMMA IdleType == Idle \in Calls
<1>1. \E p \in Plans : TRUE
  BY PlansAssumption DEF PlansAssumption
<1>2. (CHOOSE p \in Plans : TRUE) \in Plans
  BY <1>1
<1>3. "none" \in States
  BY Tables
<1> QED BY <1>2, <1>3 DEF Idle, Calls, Steps, Commands, Verdicts

\* A process is where it was, but at another step, or with fewer plans to recover.
LEMMA CallType ==
    ASSUME ProcType, NEW e \in Processes
    PROVE  /\ \A pc \in Steps : Goto(e, pc) => ProcType'
           /\ Returns(e) => ProcType'
           /\ Fails(e) => ProcType'
           /\ proc[e] \in Calls
<1>1. proc[e] \in Calls
  BY DEF ProcType
<1>2. \A pc \in Steps : Goto(e, pc) => ProcType'
  BY <1>1 DEF ProcType, Goto, Calls
<1>3. Returns(e) => ProcType'
  BY IdleType DEF ProcType, Returns
<1>4. Fails(e) => ProcType'
  <2>1. "release" \in Steps
    BY DEF Steps
  <2>2. [proc[e] EXCEPT !.pc = "release", !.todo = {}] \in Calls
    BY <1>1, <2>1 DEF Calls
  <2> QED BY <1>1, <2>2 DEF ProcType, Fails
<1> QED BY <1>1, <1>2, <1>3, <1>4

LEMMA LeaseTypes ==
    ASSUME LeaseType, NEW e \in Processes, NEW p \in Plans
    PROVE  /\ Taken(e, p) => LeaseType'
           /\ lease' = [lease EXCEPT ![p] = NoLease] => LeaseType'
<1>1. Taken(e, p) => LeaseType'
  BY DEF LeaseType, Leases, Taken
<1>2. lease' = [lease EXCEPT ![p] = NoLease] => LeaseType'
  BY DEF LeaseType, Leases, NoLease
<1> QED BY <1>1, <1>2

LEMMA OrphanedType ==
    ASSUME LeaseType, NEW gone, Orphaned(gone)
    PROVE  LeaseType'
<1>1. \A q \in Plans : lease[q] \in Leases
  BY DEF LeaseType
<1>2. \A q \in Plans : [lease[q] EXCEPT !.owner = Lost] \in Leases
  BY <1>1 DEF Leases
<1> QED BY <1>1, <1>2 DEF LeaseType, Orphaned

LEMMA AppendType ==
    ASSUME JournalType, NEW p \in Plans, NEW event \in Events,
           journal' = [journal EXCEPT ![p] = Append(@, event)]
    PROVE  journal' \in [Plans -> Seq(Events)]
<1>1. Append(journal[p], event) \in Seq(Events)
  BY DEF JournalType
<1> QED BY <1>1 DEF JournalType

\* All parts but the history, which Watch writes in every step.
Typed == JournalType /\ FolderType /\ BoundsType /\ ProcType /\ LeaseType /\ SyscallsType

LEMMA Unwritten ==
    /\ JournalType /\ UNCHANGED journalVars => JournalType'
    /\ FolderType /\ UNCHANGED folder => FolderType'
    /\ BoundsType /\ UNCHANGED bounds => BoundsType'
    /\ ProcType /\ UNCHANGED proc => ProcType'
    /\ LeaseType /\ UNCHANGED lease => LeaseType'
    /\ SyscallsType /\ UNCHANGED syscalls => SyscallsType'
  BY DEF JournalType, FolderType, BoundsType, ProcType, LeaseType, SyscallsType,
         journalVars, folder, bounds

\* A step that only moves the process on.
LEMMA QuietType ==
    ASSUME Typed, UNCHANGED <<journalVars, lease, folder, bounds, syscalls>>, ProcType'
    PROVE  Typed'
  BY Unwritten DEF Typed

LEMMA AppendLastType ==
    ASSUME TypeOK, Typed, NEW e \in Processes, NEW kind \in Kinds,
           AppendLast(e, kind)
    PROVE  Typed'
<1>1. proc[e] \in Calls
  BY CallType DEF Typed
<1>2. ProcType'
  <2>1. Goto(e, "release") => ProcType'
    BY CallType DEF Typed, Steps
  <2> QED BY <2>1, CallType DEF Typed, AppendLast
<1>3. JournalType'
  <2>1. CASE UNCHANGED journal
    BY <2>1 DEF AppendLast, Typed, JournalType
  <2>2. CASE Appended(e, kind)
    <3>1. proc[e].plan \in Plans /\ [kind |-> kind, request |-> proc[e].request] \in Events
      BY <1>1 DEF Calls, Events
    <3>2. journal' \in [Plans -> Seq(Events)]
      BY <3>1, <2>2, AppendType DEF Appended, Typed
    <3> QED BY <3>2 DEF AppendLast, Typed, JournalType
  <2> QED BY <2>1, <2>2 DEF AppendLast
<1> QED BY <1>2, <1>3, Unwritten DEF AppendLast, Typed

-----------------------------------------------------------------------------
\* A process that is asking for a command asks for a request.
Asking == \A e \in Processes : proc[e].pc = "start" => proc[e].request \in Requests
Base == TypeOK /\ Chains /\ LegalHistory /\ Asking

LEMMA TypedParts == TypeOK <=> Typed /\ SeenType
  BY TypeParts DEF Typed

LEMMA CommandValue == ASSUME NEW k \in Commands PROVE k # "none"
  BY DEF Commands

\* The step of Accept: the journal, the request and the caller's knowledge.
LEMMA AcceptType ==
    ASSUME Typed, Asking, NEW e \in Processes, proc[e].pc = "start", Accept(e),
           UNCHANGED <<evidence, lease, folder, bounds, syscalls>>
    PROVE  Typed'
<1>1. /\ proc[e] \in Calls
      /\ proc[e].plan \in Plans
      /\ proc[e].request \in Requests
      /\ proc[e].kind \in Commands
      /\ proc[e].sequence \in Nat
  BY CallType DEF Typed, Calls, Asking
<1>2. RequestedBy[proc[e].kind] \in Kinds /\ RequestedBy[proc[e].kind] \in States
  BY <1>1, CommandTables, Tables
<1>3. JournalType'
  <2>1. [kind |-> RequestedBy[proc[e].kind], request |-> proc[e].request] \in Events
    BY <1>1, <1>2 DEF Events
  <2>2. journal' \in [Plans -> Seq(Events)]
    BY <1>1, <2>1, AppendType DEF Accept, Typed
  <2>3. command' \in [Plans -> [Requests -> Commands \cup {"none"}]]
    BY <1>1 DEF Accept, Typed, JournalType
  <2> QED BY <2>2, <2>3 DEF Typed, JournalType
<1>4. ProcType'
  <2> DEFINE call == [proc[e] EXCEPT !.pc = "lease", !.state = RequestedBy[proc[e].kind],
                         !.sequence = @ + 1]
  <2>1. "lease" \in Steps /\ proc[e].sequence + 1 \in Nat
    BY <1>1 DEF Steps
  <2>2. call \in Calls
    BY <1>1, <1>2, <2>1 DEF Calls
  <2>3. proc' = [proc EXCEPT ![e] = call]
    BY DEF Accept
  <2> QED BY <2>2, <2>3 DEF Typed, ProcType
<1> QED BY <1>3, <1>4, Unwritten DEF Typed

LEMMA ReplayType ==
    ASSUME TypeOK, Typed, Chains, Asking, NEW e \in Processes, proc[e].pc = "start", Replay(e)
    PROVE  ProcType'
<1>1. /\ proc[e] \in Calls
      /\ proc[e].plan \in Plans
      /\ proc[e].request \in Requests
      /\ proc[e].kind \in Commands
  BY CallType DEF Typed, Calls, Asking
<1>2. HasLast(proc[e].plan, proc[e].request)
  BY <1>1, CommandValue DEF Replay, Chains
<1>3. /\ LastOf(proc[e].plan, proc[e].request) \in Nat
      /\ Outcome(proc[e].plan, proc[e].request) \in States
  BY <1>1, <1>2, OutcomeType
<1>4. CASE Returns(e)
  BY <1>4, CallType DEF Typed
<1>5. CASE proc' = [proc EXCEPT ![e].pc = "lease",
                        ![e].state = Outcome(proc[e].plan, proc[e].request),
                        ![e].sequence = LastOf(proc[e].plan, proc[e].request)]
  <2> DEFINE call == [proc[e] EXCEPT !.pc = "lease",
                         !.state = Outcome(proc[e].plan, proc[e].request),
                         !.sequence = LastOf(proc[e].plan, proc[e].request)]
  <2>1. "lease" \in Steps
    BY DEF Steps
  <2>2. call \in Calls
    BY <1>1, <1>3, <2>1 DEF Calls
  <2>3. proc' = [proc EXCEPT ![e] = call]
    BY <1>5
  <2> QED BY <2>2, <2>3 DEF Typed, ProcType
<1> QED BY <1>4, <1>5 DEF Replay

LEMMA StartType ==
    ASSUME TypeOK, Typed, Chains, Asking, NEW e \in Processes, Start(e)
    PROVE  Typed'
<1>1. CASE Replay(e)
  <2>1. ProcType'
    BY <1>1, ReplayType DEF Start
  <2> QED BY <1>1, <2>1, QuietType DEF Start, Replay, journalVars
<1>2. CASE Accept(e)
  BY <1>2, AcceptType DEF Start
<1>3. CASE Reject(e)
  <2>1. ProcType'
    BY <1>3, CallType DEF Reject, Typed
  <2> QED BY <1>3, <2>1, QuietType DEF Start, Reject, journalVars
<1> QED BY <1>1, <1>2, <1>3 DEF Start

LEMMA BeginType ==
    ASSUME TypeOK, Typed, NEW e \in Processes, NEW p \in Plans, NEW r \in Requests,
           NEW k \in Commands, Begin(e, p, r, k)
    PROVE  Typed'
<1>1. Len(journal[p]) \in Nat
  BY DEF TypeOK
<1>2. [Idle EXCEPT !.pc = "start", !.plan = p, !.request = r, !.kind = k,
          !.sequence = Len(journal[p])] \in Calls
  BY <1>1, IdleType DEF Calls, Steps
<1>3. ProcType'
  BY <1>2 DEF Typed, ProcType, Begin
<1> QED BY <1>3, QuietType DEF Begin

LEMMA MoveType ==
    ASSUME Typed, NEW e \in Processes,
           Bind(e) \/ Prepare(e) \/ Check(e) \/ Confirm(e) \/ Renew(e) \/ Verify(e)
    PROVE  Typed'
<1>1. \A pc \in Steps : Goto(e, pc) => ProcType'
  BY CallType DEF Typed
<1>2. Fails(e) => ProcType'
  BY CallType DEF Typed
<1>3. CASE Bind(e)
  <2>1. ProcType'
    BY <1>1, <1>3 DEF Bind, Steps
  <2> QED BY <1>3, <2>1, QuietType DEF Bind
<1>4. CASE Prepare(e)
  <2>1. ProcType'
    BY <1>1, <1>4 DEF Prepare, Steps
  <2> QED BY <1>4, <2>1, QuietType DEF Prepare
<1>5. CASE Check(e)
  <2>1. ProcType'
    BY <1>1, <1>5 DEF Check, Steps
  <2> QED BY <1>5, <2>1, QuietType DEF Check
<1>6. CASE Confirm(e) \/ Renew(e)
  <2>1. ProcType'
    BY <1>1, <1>2, <1>6 DEF Confirm, Renew, Renewed, Steps
  <2> QED BY <1>6, <2>1, QuietType DEF Confirm, Renew, Renewed
<1>7. CASE Verify(e)
  <2>1. ProcType'
    BY <1>1, <1>7 DEF Verify, Steps
  <2> QED BY <1>7, <2>1, QuietType DEF Verify
<1> QED BY <1>3, <1>4, <1>5, <1>6, <1>7

LEMMA LeaseStepType ==
    ASSUME Typed, NEW e \in Processes, AcquireLease(e) \/ Release(e)
    PROVE  Typed'
<1>1. proc[e] \in Calls /\ proc[e].plan \in Plans
  BY CallType DEF Typed, Calls
<1>2. CASE AcquireLease(e)
  <2>1. ProcType'
    BY <1>2, CallType DEF Typed, AcquireLease, Steps
  <2>2. LeaseType'
    BY <1>1, <1>2, LeaseTypes, Unwritten DEF Typed, AcquireLease
  <2> QED BY <1>2, <2>1, <2>2, Unwritten DEF Typed, AcquireLease
<1>3. CASE Release(e)
  <2>1. ProcType'
    BY <1>3, CallType DEF Typed, Release, Steps
  <2>2. LeaseType'
    BY <1>1, <1>3, LeaseTypes, Unwritten DEF Typed, Release
  <2> QED BY <1>3, <2>1, <2>2, Unwritten DEF Typed, Release
<1> QED BY <1>2, <1>3

\* A look at the folder leaves a verdict with the process.
LEMMA LookType ==
    ASSUME Typed, NEW e \in Processes, NEW pc \in Steps, NEW v \in Verdicts
    PROVE  proc' = [proc EXCEPT ![e].pc = pc, ![e].verdict = v] => ProcType'
<1>1. [proc[e] EXCEPT !.pc = pc, !.verdict = v] \in Calls
  BY CallType DEF Typed, Calls
<1> QED BY <1>1 DEF Typed, ProcType

LEMMA ObserveType ==
    ASSUME Typed, NEW e \in Processes, Observe(e) \/ ObserveAfter(e)
    PROVE  Typed'
<1>1. ProcType'
  <2>1. CASE Observe(e)
    BY <2>1, LookType, CallType DEF Typed, Observe, Steps, Verdicts
  <2>2. CASE ObserveAfter(e)
    BY <2>2, LookType DEF ObserveAfter, Steps, Verdicts
  <2> QED BY <2>1, <2>2
<1> QED BY <1>1, QuietType DEF Observe, ObserveAfter

-----------------------------------------------------------------------------
(* The folder.                                                             *)
LEMMA MovedType ==
    ASSUME FolderType, NEW from \in Names, NEW to \in Names
    PROVE  Moved(disk, from, to) \in Folders
  BY DEF FolderType, Folders, Moved

LEMMA NamesOf ==
    ASSUME NEW p \in Plans, NEW k \in Commands
    PROVE  From(p, k) \in Names /\ To(p, k) \in Names
  BY PlansAssumption DEF PlansAssumption, From, To

LEMMA FolderStepType ==
    ASSUME Typed, NEW e \in Processes, Settle(e) \/ Inspect(e) \/ Rename(e)
    PROVE  Typed'
<1>1. /\ proc[e] \in Calls
      /\ proc[e].plan \in Plans
      /\ proc[e].kind \in Commands
      /\ proc[e].request \in Requests \cup {NoRequest}
  BY CallType DEF Typed, Calls
<1>2. CASE Settle(e)
  <2>1. ProcType'
    BY <1>2, CallType DEF Typed, Settle, Steps
  <2>2. FolderType'
    BY <1>2 DEF Typed, FolderType, Settle
  <2> QED BY <1>2, <2>1, <2>2, Unwritten DEF Typed, Settle
<1>3. CASE Inspect(e)
  <2>1. ProcType'
    BY <1>3, CallType, LookType DEF Typed, Inspect, Steps, Verdicts
  <2>2. FolderType'
    BY <1>3 DEF Typed, FolderType, Inspect
  <2> QED BY <1>3, <2>1, <2>2, Unwritten DEF Typed, Inspect
<1>4. CASE Rename(e)
  <2>1. ProcType'
    BY <1>4, CallType DEF Typed, Rename, Steps
  <2>2. FolderType'
    <3>1. Moved(disk, From(proc[e].plan, proc[e].kind), To(proc[e].plan, proc[e].kind)) \in Folders
      BY <1>1, NamesOf, MovedType DEF Typed
    <3> QED BY <1>4, <3>1 DEF Typed, FolderType, Rename
  <2>3. SyscallsType'
    <3>1. syscalls[proc[e].plan] \in [Requests -> Nat]
      BY <1>1 DEF Typed, SyscallsType
    <3>2. CASE proc[e].request \in Requests
      BY <1>1, <1>4, <3>1, <3>2 DEF Typed, SyscallsType, Rename
    <3>3. CASE proc[e].request \notin Requests
      <4>1. [syscalls[proc[e].plan] EXCEPT ![proc[e].request] = @ + 1] = syscalls[proc[e].plan]
        BY <3>1, <3>3
      <4>2. syscalls' = syscalls
        BY <1>1, <1>4, <4>1 DEF Typed, SyscallsType, Rename
      <4> QED BY <4>2 DEF Typed, SyscallsType
    <3> QED BY <3>2, <3>3
  <2> QED BY <1>4, <2>1, <2>2, <2>3, Unwritten DEF Typed, Rename
<1> QED BY <1>2, <1>3, <1>4

LEMMA ChangeFolderType == ASSUME Typed, ChangeFolder PROVE Typed'
<1>1. changes \in Nat /\ changes + 1 \in 0..MaxChanges /\ changes' = changes + 1
  BY BoundsAssumption DEF BoundsAssumption, Typed, BoundsType, ChangeFolder
<1>2. FolderType'
  <2>1. file' \in Versions
    BY <1>1 DEF ChangeFolder, Typed, FolderType, Versions
  <2>2. disk' \in Folders
    <3>1. \A n \in Names : /\ [disk EXCEPT ![n] = Other] \in Folders
                           /\ [disk EXCEPT ![n] = Nothing] \in Folders
      BY DEF Typed, FolderType, Folders
    <3>2. disk \in Folders /\ FolderType
      BY DEF Typed, FolderType
    <3> QED BY <3>1, <3>2, MovedType DEF ChangeFolder
  <2> QED BY <2>1, <2>2 DEF FolderType, ChangeFolder
<1>3. BoundsType'
  BY <1>1 DEF BoundsType, ChangeFolder, Typed
<1> QED BY <1>2, <1>3, Unwritten DEF ChangeFolder, Typed

-----------------------------------------------------------------------------
(* Faults, expiry, preview and recovery.                                   *)
LEMMA FaultType == ASSUME Typed, Fault, UNCHANGED changes PROVE BoundsType'
  BY BoundsAssumption DEF BoundsAssumption, Typed, BoundsType, Fault

LEMMA FaultStepType ==
    ASSUME Typed, NEW e \in Processes, FailedCall(e) \/ Crash(e)
    PROVE  Typed'
<1>1. BoundsType'
  BY FaultType DEF FailedCall, Crash
<1>2. ProcType'
  BY CallType DEF Typed, FailedCall, Crash
<1>3. LeaseType'
  BY OrphanedType, Unwritten DEF Typed, FailedCall, Crash
<1> QED BY <1>1, <1>2, <1>3, Unwritten DEF Typed, FailedCall, Crash

LEMMA PowerLossType == ASSUME Typed, PowerLoss PROVE Typed'
<1>1. BoundsType'
  BY FaultType DEF PowerLoss
<1>2. ProcType'
  BY IdleType DEF ProcType, PowerLoss
<1>3. LeaseType'
  BY OrphanedType DEF Typed, PowerLoss
<1>4. FolderType'
  BY DEF Typed, FolderType, PowerLoss
<1> QED BY <1>1, <1>2, <1>3, <1>4, Unwritten DEF Typed, PowerLoss

LEMMA ExpireLeaseType == ASSUME Typed, NEW p \in Plans, ExpireLease(p) PROVE Typed'
<1>1. LeaseType'
  BY DEF Typed, LeaseType, Leases, ExpireLease
<1> QED BY <1>1, Unwritten DEF Typed, ExpireLease

LEMMA CreatePreviewType == ASSUME Typed, NEW p \in Plans, CreatePreview(p) PROVE Typed'
<1>1. [kind |-> "preview_created", request |-> NoRequest] \in Events
  BY Tables DEF Events
<1>2. <<[kind |-> "preview_created", request |-> NoRequest]>> \in Seq(Events)
  BY <1>1
<1>3. JournalType'
  BY <1>2 DEF Typed, JournalType, FolderType, CreatePreview
<1> QED BY <1>3, Unwritten DEF Typed, CreatePreview

\* Only a requested event leads to an unfinished state.
LEMMA LatestIsRequested ==
    ASSUME TypeOK, LegalHistory, NEW p \in Plans, State(p) \in Unfinished
    PROVE  /\ Len(journal[p]) \in Chain(p, Latest(p).request)
           /\ Latest(p).request \in Requests
<1>1. Len(journal[p]) \in DOMAIN journal[p] /\ State(p) = StateAfter[Latest(p).kind]
  BY StateType
<1>2. Len(journal[p]) # 1
  <2>1. SUFFICES ASSUME Len(journal[p]) = 1 PROVE FALSE
    OBVIOUS
  <2>2. Latest(p).kind = "preview_created"
    BY <1>1, <2>1 DEF LegalHistory, Latest
  <2>3. State(p) = "previewed"
    BY <1>1, <2>2, IntentTables
  <2> QED BY <2>3, Tables
<1>3. Latest(p).request \in Requests
  BY <1>1, <1>2 DEF LegalHistory, Latest
<1> QED BY <1>1, <1>3 DEF Chain, Latest

LEMMA RecoverType ==
    ASSUME TypeOK, Typed, LegalHistory, NEW e \in Processes, Recover(e)
    PROVE  Typed'
<1>1. \A p \in Abandoned : Listed(p) \in Items
  <2>1. TAKE p \in Abandoned
  <2>2. p \in Plans /\ State(p) \in Unfinished
    BY DEF Abandoned
  <2>3. Latest(p).request \in Requests /\ Len(journal[p]) \in Nat
    BY <2>2, LatestIsRequested DEF TypeOK
  <2> QED BY <2>2, <2>3 DEF Listed, Items
<1>2. {Listed(p) : p \in Abandoned} \in SUBSET Items
  BY <1>1
<1>3. [proc[e] EXCEPT !.pc = "next", !.todo = {Listed(p) : p \in Abandoned}] \in Calls
  BY <1>2, CallType DEF Typed, Calls, Steps
<1>4. ProcType'
  BY <1>3 DEF Typed, ProcType, Recover
<1> QED BY <1>4, QuietType DEF Recover

\* What recovery makes of one of the plans it listed.
Taking(e, item) ==
    [Idle EXCEPT !.pc = IF item.state \in Intents THEN "renew" ELSE "refuse",
        !.plan = item.plan, !.request = item.request, !.todo = proc[e].todo \ {item},
        !.kind = CommandOf(item.state), !.sequence = item.sequence, !.state = item.state]

LEMMA RecoverNextSteps ==
    ASSUME NEW e \in Processes, RecoverNext(e)
    PROVE  \E item \in proc[e].todo :
             \/ Taken(e, item.plan) /\ proc' = [proc EXCEPT ![e] = Taking(e, item)]
             \/ /\ UNCHANGED lease
                /\ Returns(e) \/ proc' = [proc EXCEPT ![e].todo = proc[e].todo \ {item}]
<1>1. PICK item \in proc[e].todo :
         LET p == item.plan
             rest == proc[e].todo \ {item}
         IN  CASE Leasable(p) ->
                    /\ Taken(e, p)
                    /\ proc' = [proc EXCEPT ![e] = [Idle EXCEPT
                         !.pc = IF item.state \in Intents THEN "renew" ELSE "refuse",
                         !.plan = p, !.request = item.request, !.todo = rest,
                         !.kind = CommandOf(item.state), !.sequence = item.sequence,
                         !.state = item.state]]
               [] State(p) \notin Unfinished -> Returns(e) /\ UNCHANGED lease
               [] OTHER ->
                    /\ IF rest = {} THEN Returns(e)
                       ELSE proc' = [proc EXCEPT ![e].todo = rest]
                    /\ UNCHANGED lease
  BY DEF RecoverNext
<1>2. CASE Leasable(item.plan)
  BY <1>1, <1>2 DEF Leasable, Taking
<1>3. CASE ~Leasable(item.plan)
  BY <1>1, <1>3
<1> QED BY <1>2, <1>3

LEMMA RecoverNextType ==
    ASSUME Typed, NEW e \in Processes, RecoverNext(e)
    PROVE  Typed'
<1>1. PICK item \in proc[e].todo :
             \/ Taken(e, item.plan) /\ proc' = [proc EXCEPT ![e] = Taking(e, item)]
             \/ /\ UNCHANGED lease
                /\ Returns(e) \/ proc' = [proc EXCEPT ![e].todo = proc[e].todo \ {item}]
  BY RecoverNextSteps
<1>2. proc[e] \in Calls /\ proc[e].todo \subseteq Items
  BY CallType DEF Typed, Calls
<1>3. /\ item.plan \in Plans
      /\ item.request \in Requests
      /\ item.sequence \in Nat
      /\ item.state \in Unfinished
  BY <1>1, <1>2 DEF Items
<1>4. item.state \in States /\ CommandOf(item.state) \in Commands
  BY <1>3, Tables DEF CommandOf, Commands
<1> DEFINE rest == proc[e].todo \ {item}
           step == IF item.state \in Intents THEN "renew" ELSE "refuse"
           less == [proc[e] EXCEPT !.todo = rest]
<1>5. Taking(e, item) \in Calls
  <2>1. step \in Steps /\ rest \subseteq Items
    BY <1>2 DEF Steps
  <2> QED BY <1>3, <1>4, <2>1, IdleType DEF Calls, Taking
<1>6. less \in Calls
  BY <1>2 DEF Calls
<1>7. CASE Taken(e, item.plan) /\ proc' = [proc EXCEPT ![e] = Taking(e, item)]
  <2>1. LeaseType'
    BY <1>3, <1>7, LeaseTypes DEF Typed
  <2>2. ProcType'
    BY <1>5, <1>7 DEF Typed, ProcType
  <2> QED BY <2>1, <2>2, Unwritten DEF Typed, RecoverNext
<1>8. CASE /\ UNCHANGED lease
           /\ Returns(e) \/ proc' = [proc EXCEPT ![e].todo = proc[e].todo \ {item}]
  <2>1. Returns(e) \/ proc' = [proc EXCEPT ![e] = less]
    BY <1>8
  <2>2. ProcType'
    BY <1>6, <2>1, CallType DEF Typed, ProcType
  <2> QED BY <1>8, <2>2, Unwritten DEF Typed, RecoverNext
<1> QED BY <1>1, <1>7, <1>8

-----------------------------------------------------------------------------
LEMMA AppendStepType ==
    ASSUME TypeOK, Typed, NEW e \in Processes,
           Refuse(e) \/ AppendIntent(e) \/ Complete(e) \/ Conclude(e)
    PROVE  Typed'
<1>1. /\ proc[e] \in Calls
      /\ proc[e].plan \in Plans
      /\ proc[e].kind \in Commands
      /\ proc[e].verdict \in Verdicts
      /\ proc[e].request \in Requests \cup {NoRequest}
      /\ proc[e].sequence \in Nat
  BY CallType DEF Typed, Calls
<1>2. CASE Refuse(e)
  BY <1>1, <1>2, CommandTables, AppendLastType DEF Refuse
<1>3. CASE Complete(e)
  BY <1>1, <1>3, CommandTables, AppendLastType DEF Complete
<1>4. CASE Conclude(e)
  <2>1. VerdictOf(proc[e].verdict, proc[e].kind) \in Kinds
    BY <1>1, CommandTables DEF VerdictOf, Verdicts
  <2> QED BY <1>4, <2>1, AppendLastType DEF Conclude
<1>5. CASE AppendIntent(e)
  <2> DEFINE k == IntentOf[proc[e].kind]
             call == [proc[e] EXCEPT !.pc = "check", !.state = k, !.sequence = @ + 1]
  <2>1. k \in Kinds /\ k \in States
    BY <1>1, CommandTables, Tables
  <2>2. CASE Appendable(e, k)
    <3>1. [kind |-> k, request |-> proc[e].request] \in Events
      BY <1>1, <2>1 DEF Events
    <3>2. journal' = [journal EXCEPT ![proc[e].plan] =
                        Append(@, [kind |-> k, request |-> proc[e].request])]
      BY <1>5, <2>2 DEF AppendIntent, Appended
    <3>3. JournalType'
      <4> HIDE DEF k
      <4>1. journal' \in [Plans -> Seq(Events)]
        BY <1>1, <3>1, <3>2, AppendType DEF Typed
      <4> QED BY <1>5, <4>1 DEF AppendIntent, Typed, JournalType
    <3>4. call \in Calls
      <4>1. "check" \in Steps /\ proc[e].sequence + 1 \in Nat
        BY <1>1 DEF Steps
      <4> HIDE DEF k
      <4> QED BY <1>1, <2>1, <4>1 DEF Calls
    <3>5. proc' = [proc EXCEPT ![e] = call]
      BY <1>5, <2>2 DEF AppendIntent
    <3>6. ProcType'
      BY <3>4, <3>5 DEF Typed, ProcType
    <3> QED BY <1>5, <3>3, <3>6, Unwritten DEF AppendIntent, Typed
  <2>3. CASE ~Appendable(e, k)
    <3>1. ProcType' /\ UNCHANGED journal
      BY <1>5, <2>3, CallType DEF AppendIntent, Typed
    <3> QED BY <1>5, <3>1, Unwritten DEF AppendIntent, Typed, journalVars
  <2> QED BY <2>2, <2>3
<1> QED BY <1>2, <1>3, <1>4, <1>5

LEMMA StepType ==
    ASSUME TypeOK, Typed, Chains, Asking, NEW e \in Processes, Step(e)
    PROVE  Typed'
<1>1. CASE Start(e)
  BY <1>1, StartType
<1>2. CASE Bind(e) \/ Prepare(e) \/ Check(e) \/ Confirm(e) \/ Renew(e) \/ Verify(e)
  BY <1>2, MoveType
<1>3. CASE AcquireLease(e) \/ Release(e)
  BY <1>3, LeaseStepType
<1>4. CASE Observe(e) \/ ObserveAfter(e)
  BY <1>4, ObserveType
<1>5. CASE Settle(e) \/ Inspect(e) \/ Rename(e)
  BY <1>5, FolderStepType
<1>6. CASE Refuse(e) \/ AppendIntent(e) \/ Complete(e) \/ Conclude(e)
  BY <1>6, AppendStepType
<1>7. CASE RecoverNext(e)
  BY <1>7, RecoverNextType
<1> QED BY <1>1, <1>2, <1>3, <1>4, <1>5, <1>6, <1>7 DEF Step

LEMMA WatchType == ASSUME SeenType, Watch PROVE SeenType'
<1>1. \A p \in Plans, r \in Requests : seen[p][r] \in SUBSET FolderFacts
  BY DEF SeenType
<1>2. \A p \in Plans : Facts(p, CommandOf(State(p)))' \in SUBSET FolderFacts
  BY DEF Facts
<1> QED BY <1>1, <1>2 DEF SeenType, Watch

LEMMA NextType == ASSUME Base, Next PROVE TypeOK'
<1>1. TypeOK /\ Typed /\ SeenType /\ Chains /\ Asking /\ LegalHistory
  BY TypedParts DEF Base
<1>2. SeenType'
  BY <1>1, WatchType DEF Next
<1>3. Typed'
  <2>1. CASE \E p \in Plans : CreatePreview(p) \/ ExpireLease(p)
    BY <1>1, <2>1, CreatePreviewType, ExpireLeaseType
  <2>2. ASSUME NEW e \in Processes,
               \/ \E p \in Plans, r \in Requests, k \in Commands : Begin(e, p, r, k)
               \/ Step(e)
               \/ Recover(e)
               \/ FailedCall(e)
               \/ Crash(e)
        PROVE  Typed'
    BY <1>1, <2>2, BeginType, StepType, RecoverType, FaultStepType
  <2>3. CASE PowerLoss
    BY <1>1, <2>3, PowerLossType
  <2>4. CASE ChangeFolder
    BY <1>1, <2>4, ChangeFolderType
  <2> QED BY <2>1, <2>2, <2>3, <2>4 DEF Next, Actions
<1> QED BY <1>2, <1>3 DEF TypeOK, Typed, JournalType, FolderType, BoundsType, ProcType,
       LeaseType, SyscallsType, SeenType

-----------------------------------------------------------------------------
(* The history.  One row follows from the rows before it; a row that is    *)
(* added leaves the earlier ones as they are.                              *)
RowFits(p, i) ==
    IF i = 1
    THEN journal[p][i] = [kind |-> "preview_created", request |-> NoRequest]
    ELSE /\ journal[p][i].request \in Requests
         /\ \/ /\ StateAfter[journal[p][i - 1].kind] \in Unfinished
               /\ journal[p][i].kind \in Follow[StateAfter[journal[p][i - 1].kind]]
               /\ journal[p][i].request = journal[p][i - 1].request
            \/ \E k \in Commands :
                 /\ journal[p][i].kind = RequestedBy[k]
                 /\ StateAfter[journal[p][i - 1].kind] = StartsFrom[k]
                 /\ command[p][journal[p][i].request] = k
                 /\ \A j \in 1..(i - 1) : journal[p][j].request # journal[p][i].request

LEMMA Rows == LegalHistory <=> \A p \in Plans : \A i \in DOMAIN journal[p] : RowFits(p, i)
  BY DEF LegalHistory, RowFits

LEMMA GrownHistory ==
    ASSUME TypeOK, LegalHistory, NEW p \in Plans, NEW event \in Events,
           journal' = [journal EXCEPT ![p] = Append(@, event)],
           \A q \in Plans, r \in Requests :
               command[q][r] # "none" => command'[q][r] = command[q][r],
           NEW n, n = Len(journal[p]) + 1, RowFits(p, n)'
    PROVE  LegalHistory'
<1>1. ASSUME NEW q \in Plans, NEW i \in DOMAIN journal[q] PROVE RowFits(q, i)'
  <2>1. Len(journal[q]) \in Nat /\ DOMAIN journal[q] = 1..Len(journal[q])
    BY DEF TypeOK
  <2>2. \A j \in 1..i : journal'[q][j] = journal[q][j]
    <3>1. \A j \in 1..i : j \in DOMAIN journal[q]
      BY <2>1
    <3> QED BY <3>1, Grown
  <2>3. i \in 1..i /\ (i # 1 => i - 1 \in 1..i) /\ \A j \in 1..(i - 1) : j \in 1..i
    BY <2>1
  <2>4. RowFits(q, i)
    BY Rows
  <2>5. CASE i = 1
    BY <2>2, <2>3, <2>4, <2>5 DEF RowFits
  <2>6. CASE i # 1
    <3>1. journal'[q][i] = journal[q][i] /\ journal'[q][i - 1] = journal[q][i - 1]
      BY <2>2, <2>3, <2>6
    <3>2. journal[q][i].request \in Requests
      BY <2>4, <2>6 DEF RowFits
    <3>3. \A k \in Commands : command[q][journal[q][i].request] = k =>
                                command'[q][journal[q][i].request] = k
      BY <3>2, CommandValue
    <3>4. \A j \in 1..(i - 1) : journal'[q][j] = journal[q][j]
      BY <2>2, <2>3
    <3>5. CASE /\ StateAfter[journal[q][i - 1].kind] \in Unfinished
               /\ journal[q][i].kind \in Follow[StateAfter[journal[q][i - 1].kind]]
               /\ journal[q][i].request = journal[q][i - 1].request
      BY <2>6, <3>1, <3>2, <3>5 DEF RowFits
    <3>6. CASE \E k \in Commands :
                 /\ journal[q][i].kind = RequestedBy[k]
                 /\ StateAfter[journal[q][i - 1].kind] = StartsFrom[k]
                 /\ command[q][journal[q][i].request] = k
                 /\ \A j \in 1..(i - 1) : journal[q][j].request # journal[q][i].request
      <4>1. PICK k \in Commands :
                 /\ journal[q][i].kind = RequestedBy[k]
                 /\ StateAfter[journal[q][i - 1].kind] = StartsFrom[k]
                 /\ command[q][journal[q][i].request] = k
                 /\ \A j \in 1..(i - 1) : journal[q][j].request # journal[q][i].request
        BY <3>6
      <4>2. /\ command'[q][journal'[q][i].request] = k
            /\ \A j \in 1..(i - 1) : journal'[q][j].request # journal'[q][i].request
        BY <3>1, <3>3, <3>4, <4>1
      <4>3. /\ journal'[q][i].kind = RequestedBy[k]
            /\ StateAfter[journal'[q][i - 1].kind] = StartsFrom[k]
            /\ journal'[q][i].request \in Requests
        BY <3>1, <3>2, <4>1
      <4> QED BY <2>6, <4>2, <4>3 DEF RowFits
    <3> QED BY <2>4, <2>6, <3>5, <3>6 DEF RowFits
  <2> QED BY <2>5, <2>6
<1>2. ASSUME NEW q \in Plans, NEW i \in DOMAIN journal'[q] PROVE RowFits(q, i)'
  <2>1. CASE i \in DOMAIN journal[q]
    BY <1>1, <2>1
  <2>2. CASE i \notin DOMAIN journal[q]
    <3>1. q = p /\ i = n
      BY <2>2, Grown
    <3> QED BY <3>1
  <2> QED BY <2>1, <2>2
<1> QED BY <1>2 DEF LegalHistory, RowFits

\* What an append is about: the request of the last event.
LEMMA AppendFacts ==
    ASSUME TypeOK, LegalHistory, Chains, NEW e \in Processes, NEW kind \in Kinds,
           Appendable(e, kind), Appended(e, kind), UNCHANGED command,
           NEW p, p = proc[e].plan, NEW r, r = proc[e].request,
           NEW event, event = [kind |-> kind, request |-> r]
    PROVE  /\ p \in Plans
           /\ r \in Requests
           /\ event \in Events
           /\ journal' = [journal EXCEPT ![p] = Append(@, event)]
           /\ State(p) \in Unfinished
           /\ kind \in Follow[State(p)]
           /\ Latest(p).request = r
           /\ command[p][r] # "none"
           /\ Len(journal[p]) \in DOMAIN journal[p]
           /\ State(p) = StateAfter[Latest(p).kind]
           /\ event.request = r /\ event.kind = kind
<1>1. proc[e] \in Calls /\ p \in Plans
  BY DEF TypeOK, Calls
<1>2. /\ State(p) \in Unfinished
      /\ kind \in Follow[State(p)]
      /\ Latest(p).request = r
  BY DEF Appendable
<1>3. r \in Requests /\ Len(journal[p]) \in Chain(p, r)
  BY <1>1, <1>2, LatestIsRequested
<1>4. event \in Events /\ event.request = r /\ event.kind = kind
  BY <1>3 DEF Events
<1>5. journal' = [journal EXCEPT ![p] = Append(@, event)]
  BY DEF Appended
<1>6. command[p][r] # "none"
  BY <1>1, <1>3 DEF Chains
<1>7. Len(journal[p]) \in DOMAIN journal[p] /\ State(p) = StateAfter[Latest(p).kind]
  BY <1>1, <1>2, StateType
<1> QED BY <1>1, <1>2, <1>3, <1>4, <1>5, <1>6, <1>7

\* What a new request finds, and the event it leaves.
Asked(e) == [kind |-> RequestedBy[proc[e].kind], request |-> proc[e].request]
LEMMA AcceptFacts ==
    ASSUME Base, NEW e \in Processes, proc[e].pc = "start", Accept(e)
    PROVE  /\ proc[e].plan \in Plans
           /\ proc[e].request \in Requests
           /\ proc[e].kind \in Commands
           /\ Asked(e) \in Events
           /\ Asked(e).request = proc[e].request
           /\ Asked(e).kind = RequestedBy[proc[e].kind]
           /\ journal' = [journal EXCEPT ![proc[e].plan] = Append(@, Asked(e))]
           /\ command'[proc[e].plan][proc[e].request] = proc[e].kind
           /\ \A q \in Plans, s \in Requests :
                (q # proc[e].plan \/ s # proc[e].request) => command'[q][s] = command[q][s]
           /\ command[proc[e].plan][proc[e].request] = "none"
           /\ Chain(proc[e].plan, proc[e].request) = {}
           /\ journal[proc[e].plan] # <<>>
           /\ StateAfter[Latest(proc[e].plan).kind] = StartsFrom[proc[e].kind]
<1> DEFINE p == proc[e].plan
           r == proc[e].request
           k == proc[e].kind
<1>1. proc[e] \in Calls /\ p \in Plans /\ r \in Requests /\ k \in Commands
  BY DEF Base, TypeOK, Calls, Asking
<1>2. Asked(e) \in Events /\ Asked(e).request = r /\ Asked(e).kind = RequestedBy[k]
  BY <1>1, CommandTables DEF Events, Asked
<1>3. /\ journal' = [journal EXCEPT ![p] = Append(@, Asked(e))]
      /\ command' = [command EXCEPT ![p][r] = k]
      /\ command[p][r] = "none"
      /\ State(p) = StartsFrom[k]
  BY DEF Accept, Accepts, Asked
<1>4. /\ command'[p][r] = k
      /\ \A q \in Plans, s \in Requests : (q # p \/ s # r) => command'[q][s] = command[q][s]
  BY <1>1, <1>3 DEF Base, TypeOK
<1>5. Chain(p, r) = {}
  BY <1>1, <1>3 DEF Base, Chains
<1>6. journal[p] # <<>> /\ State(p) = StateAfter[Latest(p).kind]
  <2>1. State(p) # "none"
    BY <1>1, <1>3, CommandTables
  <2> QED BY <2>1 DEF State
<1> QED BY <1>1, <1>2, <1>3, <1>4, <1>5, <1>6

LEMMA NextHistory == ASSUME Base, Next PROVE LegalHistory'
<1>1. TypeOK /\ LegalHistory /\ Chains
  BY DEF Base
<1>2. CASE UNCHANGED <<journal, command>>
  <2>1. ASSUME NEW p \in Plans, NEW i \in DOMAIN journal[p] PROVE RowFits(p, i)'
    <3>1. RowFits(p, i)
      BY <1>1, Rows
    <3> QED BY <1>2, <3>1 DEF RowFits
  <2> QED BY <1>2, <2>1 DEF LegalHistory, RowFits
<1>3. ASSUME NEW p \in Plans, CreatePreview(p) PROVE LegalHistory'
  <2>1. /\ journal'[p] = <<[kind |-> "preview_created", request |-> NoRequest]>>
        /\ \A q \in Plans : q # p => journal'[q] = journal[q]
        /\ UNCHANGED command
    BY <1>1, <1>3 DEF CreatePreview, TypeOK
  <2>2. ASSUME NEW q \in Plans, NEW i \in DOMAIN journal'[q] PROVE RowFits(q, i)'
    <3>1. CASE q = p
      BY <2>1, <2>2, <3>1 DEF RowFits
    <3>2. CASE q # p
      <4>1. RowFits(q, i)
        BY <1>1, <2>1, <2>2, <3>2, Rows
      <4> QED BY <2>1, <3>2, <4>1 DEF RowFits
    <3> QED BY <3>1, <3>2
  <2> QED BY <2>2 DEF LegalHistory, RowFits
<1>4. ASSUME NEW e \in Processes, proc[e].pc = "start", Accept(e) PROVE LegalHistory'
  <2>1. PICK q, s, c, v :
            q = proc[e].plan /\ s = proc[e].request /\ c = proc[e].kind /\ v = Asked(e)
    OBVIOUS
  <2>2. /\ q \in Plans
        /\ s \in Requests
        /\ c \in Commands
        /\ v \in Events
        /\ v.request = s /\ v.kind = RequestedBy[c]
        /\ journal' = [journal EXCEPT ![q] = Append(@, v)]
        /\ command'[q][s] = c
        /\ \A t \in Plans, u \in Requests : (t # q \/ u # s) => command'[t][u] = command[t][u]
        /\ command[q][s] = "none"
        /\ Chain(q, s) = {}
        /\ journal[q] # <<>>
        /\ StateAfter[Latest(q).kind] = StartsFrom[c]
    BY <1>4, <2>1, AcceptFacts
  <2>3. /\ Len(journal[q]) \in Nat
        /\ Len(journal[q]) # 0
        /\ DOMAIN journal[q] = 1..Len(journal[q])
        /\ \A i \in DOMAIN journal[q] : journal'[q][i] = journal[q][i]
        /\ journal'[q][Len(journal[q]) + 1] = v
    BY <1>1, <2>2, Grown DEF TypeOK
  <2>4. \A j \in 1..Len(journal[q]) : journal'[q][j].request # s
    BY <2>2, <2>3 DEF Chain
  <2>5. PICK m, n : m = Len(journal[q]) /\ n = m + 1
    OBVIOUS
  <2>6. n - 1 = m /\ n # 1 /\ m \in DOMAIN journal[q] /\ n = Len(journal[q]) + 1
    BY <2>3, <2>5
  <2>7. journal'[q][m] = Latest(q) /\ journal'[q][n] = v
    BY <2>3, <2>5, <2>6 DEF Latest
  <2>8. \A j \in 1..(n - 1) : journal'[q][j].request # s
    BY <2>4, <2>5, <2>6
  <2>9. RowFits(q, n)'
    BY <2>2, <2>6, <2>7, <2>8 DEF RowFits
  <2>10. \A t \in Plans, u \in Requests :
            command[t][u] # "none" => command'[t][u] = command[t][u]
    BY <2>2
  <2> QED BY <1>1, <2>2, <2>6, <2>9, <2>10, GrownHistory
<1>5. ASSUME NEW e \in Processes, NEW kind \in Kinds,
             Appendable(e, kind), Appended(e, kind), UNCHANGED command
      PROVE  LegalHistory'
  <2> DEFINE event == [kind |-> kind, request |-> proc[e].request]
  <2>1. PICK q, s, v : q = proc[e].plan /\ s = proc[e].request /\ v = event
    OBVIOUS
  <2>2. /\ q \in Plans
        /\ s \in Requests
        /\ v \in Events
        /\ journal' = [journal EXCEPT ![q] = Append(@, v)]
        /\ State(q) \in Unfinished
        /\ kind \in Follow[State(q)]
        /\ Latest(q).request = s
        /\ Len(journal[q]) \in DOMAIN journal[q]
        /\ State(q) = StateAfter[Latest(q).kind]
        /\ v.request = s /\ v.kind = kind
    BY <1>1, <1>5, <2>1, AppendFacts
  <2> HIDE DEF event
  <2>3. /\ Len(journal[q]) \in Nat
        /\ journal'[q][Len(journal[q])] = Latest(q)
        /\ journal'[q][Len(journal[q]) + 1] = v
        /\ DOMAIN journal[q] = 1..Len(journal[q])
    BY <1>1, <2>2, Grown DEF Latest
  <2>4. PICK m, n : m = Len(journal[q]) /\ n = m + 1
    OBVIOUS
  <2>5. n - 1 = m /\ n # 1 /\ n = Len(journal[q]) + 1
    BY <2>2, <2>3, <2>4
  <2>6. journal'[q][m] = Latest(q) /\ journal'[q][n] = v
    BY <2>3, <2>4
  <2>7. RowFits(q, n)'
    BY <2>2, <2>5, <2>6 DEF RowFits
  <2> QED BY <1>1, <1>5, <2>2, <2>5, <2>7, GrownHistory
<1> QED BY <1>1, <1>2, <1>3, <1>4, <1>5, JournalSteps

LEMMA NextChains == ASSUME Base, Next PROVE Chains'
<1>1. TypeOK /\ LegalHistory /\ Chains
  BY DEF Base
<1>2. CASE UNCHANGED <<journal, command>>
  BY <1>1, <1>2 DEF Chains, Chain, HasLast
<1>3. ASSUME NEW p \in Plans, CreatePreview(p) PROVE Chains'
  <2>1. /\ journal[p] = <<>>
        /\ journal'[p] = <<[kind |-> "preview_created", request |-> NoRequest]>>
        /\ \A q \in Plans : q # p => journal'[q] = journal[q]
        /\ UNCHANGED command
    BY <1>1, <1>3 DEF CreatePreview, TypeOK
  <2>2. ASSUME NEW q \in Plans, NEW r \in Requests PROVE Chain(q, r)' = Chain(q, r)
    <3>1. CASE q # p
      BY <2>1, <3>1 DEF Chain
    <3>2. CASE q = p
      <4>1. journal'[p][1].request # r /\ DOMAIN journal'[p] = {1} /\ DOMAIN journal[p] = {}
        BY <2>1, OwnersAssumption DEF OwnersAssumption
      <4> QED BY <3>2, <4>1 DEF Chain
    <3> QED BY <3>1, <3>2
  <2>3. ASSUME NEW q \in Plans, NEW r \in Requests
        PROVE  IF command'[q][r] = "none" THEN Chain(q, r)' = {} ELSE HasLast(q, r)'
    BY <1>1, <2>1, <2>2 DEF Chains, HasLast
  <2> QED BY <2>3 DEF Chains
<1>4. ASSUME NEW e \in Processes, proc[e].pc = "start", Accept(e) PROVE Chains'
  <2>1. proc[e].kind # "none"
    BY <1>4, AcceptFacts, CommandValue
  <2> QED BY <1>1, <1>4, <2>1, AcceptFacts, GrownChains
<1>5. ASSUME NEW e \in Processes, NEW kind \in Kinds,
             Appendable(e, kind), Appended(e, kind), UNCHANGED command
      PROVE  Chains'
  <2> DEFINE event == [kind |-> kind, request |-> proc[e].request]
  <2>1. PICK q, s, v : q = proc[e].plan /\ s = proc[e].request /\ v = event
    OBVIOUS
  <2>2. /\ q \in Plans
        /\ s \in Requests
        /\ v \in Events
        /\ journal' = [journal EXCEPT ![q] = Append(@, v)]
        /\ v.request = s
        /\ command[q][s] # "none"
    BY <1>1, <1>5, <2>1, AppendFacts
  <2> HIDE DEF event
  <2> QED BY <1>1, <1>5, <2>2, GrownChains
<1> QED BY <1>1, <1>2, <1>3, <1>4, <1>5, JournalSteps

-----------------------------------------------------------------------------
(* Where a call goes.  A call enters "start" with a request, "check" with  *)
(* an intent it has just appended, and "syscall" from "check".             *)
Hot == {"start", "check", "syscall"}
Cools(f) == proc'[f].pc \notin Hot \/ proc'[f] = proc[f]
Enters(f) ==
    \/ proc'[f].pc = "start" /\ proc'[f].request \in Requests
    \/ proc[f].pc = "check" /\ proc'[f] = [proc[f] EXCEPT !.pc = "syscall"]
    \/ AppendIntent(f) /\ Appendable(f, IntentOf[proc[f].kind])

LEMMA Cooling ==
    ASSUME ProcType, NEW e \in Processes
    PROVE  /\ \A pc \in Steps \ Hot : Goto(e, pc) => \A f \in Processes : Cools(f)
           /\ Returns(e) => \A f \in Processes : Cools(f)
           /\ Fails(e) => \A f \in Processes : Cools(f)
           /\ \A pc \in Steps \ Hot, v \in Verdicts :
                proc' = [proc EXCEPT ![e].pc = pc, ![e].verdict = v]
                  => \A f \in Processes : Cools(f)
<1>1. proc[e] \in Calls
  BY DEF ProcType
<1>2. \A pc \in Steps \ Hot : Goto(e, pc) => \A f \in Processes : Cools(f)
  BY <1>1 DEF ProcType, Goto, Cools, Calls
<1>3. Returns(e) => \A f \in Processes : Cools(f)
  BY DEF ProcType, Returns, Cools, Idle, Hot
<1>4. Fails(e) => \A f \in Processes : Cools(f)
  BY <1>1 DEF ProcType, Fails, Cools, Calls, Hot
<1>5. \A pc \in Steps \ Hot, v \in Verdicts :
          proc' = [proc EXCEPT ![e].pc = pc, ![e].verdict = v] => \A f \in Processes : Cools(f)
  BY <1>1 DEF ProcType, Cools, Calls
<1> QED BY <1>2, <1>3, <1>4, <1>5

LEMMA ColdSteps ==
    \A pc \in Steps : pc \notin Hot <=> pc \in Steps \ Hot
  OBVIOUS

LEMMA StepCalls ==
    ASSUME TypeOK, NEW e \in Processes, Step(e)
    PROVE  \A f \in Processes : Cools(f) \/ Enters(f)
<1>1. ProcType /\ proc[e] \in Calls
  BY TypedParts, CallType DEF Typed
<1>2. ASSUME NEW kind \in Kinds, AppendLast(e, kind) PROVE \A f \in Processes : Cools(f)
  BY <1>1, <1>2, Cooling DEF AppendLast, Steps, Hot
<1>3. CASE Start(e)
  <2>1. CASE Returns(e)
    BY <1>1, <2>1, Cooling
  <2>2. CASE ~Returns(e)
    <3>1. \E s, n : proc' = [proc EXCEPT ![e].pc = "lease", ![e].state = s, ![e].sequence = n]
      BY <1>3, <2>2 DEF Start, Replay, Accept, Reject
    <3> QED BY <1>1, <3>1 DEF Cools, Hot, ProcType, Calls
  <2> QED BY <2>1, <2>2
<1>4. CASE AppendIntent(e)
  <2>1. CASE Appendable(e, IntentOf[proc[e].kind])
    <3>1. \A f \in Processes : f # e => proc'[f] = proc[f]
      BY <1>1, <1>4, <2>1 DEF AppendIntent, ProcType
    <3> QED BY <1>4, <2>1, <3>1 DEF Cools, Enters
  <2>2. CASE ~Appendable(e, IntentOf[proc[e].kind])
    BY <1>1, <1>4, <2>2, Cooling DEF AppendIntent
  <2> QED BY <2>1, <2>2
<1>5. CASE Check(e)
  <2>1. CASE Goto(e, "renew")
    BY <1>1, <2>1, Cooling DEF Steps, Hot
  <2>2. CASE proc[e].pc = "check" /\ Goto(e, "syscall")
    <3>1. proc'[e] = [proc[e] EXCEPT !.pc = "syscall"] /\ \A f \in Processes : f # e => proc'[f] = proc[f]
      BY <1>1, <2>2 DEF Goto, ProcType
    <3> QED BY <2>2, <3>1 DEF Cools, Enters
  <2> QED BY <1>5, <2>1, <2>2 DEF Check
<1>6. CASE Refuse(e) \/ Complete(e) \/ Conclude(e)
  <2>1. proc[e].kind \in Commands /\ proc[e].verdict \in Verdicts
    BY <1>1 DEF Calls
  <2>2. VerdictOf(proc[e].verdict, proc[e].kind) \in Kinds
    BY <2>1, CommandTables DEF VerdictOf, Verdicts
  <2> QED BY <1>2, <1>6, <2>1, <2>2, CommandTables DEF Refuse, Complete, Conclude
<1>7. CASE AcquireLease(e)
  BY <1>1, <1>7, Cooling DEF AcquireLease, Steps, Hot
<1>8. CASE Bind(e) \/ Prepare(e) \/ Verify(e)
  BY <1>1, <1>8, Cooling DEF Bind, Prepare, Verify, Steps, Hot
<1>9. CASE Rename(e) \/ Settle(e)
  BY <1>1, <1>9, Cooling DEF Rename, Settle, Steps, Hot
<1>10. CASE Confirm(e) \/ Renew(e)
  BY <1>1, <1>10, Cooling DEF Confirm, Renew, Renewed, Steps, Hot
<1>11. CASE Observe(e)
  BY <1>1, <1>11, Cooling DEF Observe, Steps, Hot, Verdicts
<1>12. CASE ObserveAfter(e)
  BY <1>1, <1>12, Cooling DEF ObserveAfter, Steps, Hot, Verdicts
<1>13. CASE Inspect(e)
  BY <1>1, <1>13, Cooling DEF Inspect, Steps, Hot, Verdicts
<1>14. CASE Release(e)
  BY <1>1, <1>14, Cooling DEF Release, Steps, Hot
<1>15. CASE RecoverNext(e)
  <2>1. PICK item \in proc[e].todo :
             \/ proc' = [proc EXCEPT ![e] = Taking(e, item)]
             \/ Returns(e)
             \/ proc' = [proc EXCEPT ![e].todo = proc[e].todo \ {item}]
    BY <1>15, RecoverNextSteps
  <2>2. CASE proc' = [proc EXCEPT ![e] = Taking(e, item)]
    <3>1. Taking(e, item).pc \in {"renew", "refuse"}
      BY DEF Taking, Idle
    <3> QED BY <1>1, <2>2, <3>1 DEF ProcType, Cools, Hot
  <2>3. CASE Returns(e)
    BY <1>1, <2>3, Cooling
  <2>4. CASE proc' = [proc EXCEPT ![e].todo = proc[e].todo \ {item}]
    <3>1. proc[e].pc = "next"
      BY <1>15 DEF RecoverNext
    <3> QED BY <1>1, <2>4, <3>1 DEF ProcType, Calls, Cools, Hot
  <2> QED BY <2>1, <2>2, <2>3, <2>4
<1> QED BY <1>3, <1>4, <1>5, <1>6, <1>7, <1>8, <1>9, <1>10, <1>11, <1>12, <1>13, <1>14, <1>15
        DEF Step

LEMMA NextCalls ==
    ASSUME TypeOK, Next
    PROVE  \A f \in Processes : Cools(f) \/ Enters(f)
<1>1. ProcType
  BY TypedParts DEF Typed
<1>2. CASE (\E p \in Plans : CreatePreview(p) \/ ExpireLease(p)) \/ ChangeFolder
  BY <1>2 DEF CreatePreview, ExpireLease, ChangeFolder, Cools
<1>3. CASE PowerLoss
  BY <1>3 DEF PowerLoss, Cools, Hot, Idle
<1>4. ASSUME NEW e \in Processes, NEW p \in Plans, NEW r \in Requests, NEW k \in Commands,
             Begin(e, p, r, k)
      PROVE  \A f \in Processes : Cools(f) \/ Enters(f)
  <2>1. \A f \in Processes : f # e => proc'[f] = proc[f]
    BY <1>1, <1>4 DEF Begin, ProcType
  <2>2. proc'[e].pc = "start" /\ proc'[e].request = r
    BY <1>1, <1>4, IdleType DEF Begin, ProcType, Idle
  <2> QED BY <2>1, <2>2 DEF Cools, Enters
<1>5. ASSUME NEW e \in Processes, Recover(e) \/ FailedCall(e) \/ Crash(e)
      PROVE  \A f \in Processes : Cools(f)
  <2>1. CASE Recover(e)
    BY <1>1, <2>1 DEF Recover, ProcType, Calls, Cools, Hot
  <2>2. CASE FailedCall(e) \/ Crash(e)
    BY <1>1, <2>2, Cooling DEF FailedCall, Crash
  <2> QED BY <1>5, <2>1, <2>2
<1> QED BY <1>2, <1>3, <1>4, <1>5, StepCalls DEF Next, Actions

LEMMA NextAsking == ASSUME Base, Next PROVE Asking'
<1>1. ASSUME NEW f \in Processes, proc'[f].pc = "start" PROVE proc'[f].request \in Requests
  <2>1. TypeOK /\ Asking /\ proc[f] \in Calls
    BY DEF Base, TypeOK
  <2>2. CASE Cools(f)
    BY <1>1, <2>1, <2>2 DEF Cools, Hot, Asking
  <2>3. CASE Enters(f)
    <3>1. CASE AppendIntent(f) /\ Appendable(f, IntentOf[proc[f].kind])
      BY <1>1, <2>1, <3>1 DEF AppendIntent, TypeOK, Calls
    <3>2. CASE proc[f].pc = "check" /\ proc'[f] = [proc[f] EXCEPT !.pc = "syscall"]
      BY <1>1, <2>1, <3>2 DEF Calls
    <3> QED BY <2>3, <3>1, <3>2 DEF Enters
  <2> QED BY <2>1, <2>2, <2>3, NextCalls
<1> QED BY <1>1 DEF Asking

-----------------------------------------------------------------------------
LEMMA InitBase == Init => Base
<1> SUFFICES ASSUME Init PROVE Base
  OBVIOUS
<1>1. TypeOK
  <2>1. JournalType
    BY DEF Init, JournalType
  <2>2. FolderType
    BY BoundsAssumption, PlansAssumption
       DEF Init, FolderType, Folders, Versions, BoundsAssumption, PlansAssumption
  <2>3. BoundsType
    BY BoundsAssumption DEF Init, BoundsType, BoundsAssumption
  <2>4. ProcType
    BY IdleType DEF Init, ProcType
  <2>5. LeaseType
    BY DEF Init, LeaseType, Leases, NoLease
  <2>6. SyscallsType /\ SeenType
    BY DEF Init, SyscallsType, SeenType
  <2> QED BY <2>1, <2>2, <2>3, <2>4, <2>5, <2>6, TypeParts
<1>2. Chains
  BY ChainsInit
<1>3. LegalHistory
  BY DEF Init, LegalHistory
<1>4. Asking
  BY DEF Init, Asking, Idle
<1> QED BY <1>1, <1>2, <1>3, <1>4 DEF Base

LEMMA KeepBase == Base /\ UNCHANGED vars => Base'
<1> SUFFICES ASSUME Base, UNCHANGED vars PROVE Base'
  OBVIOUS
<1>1. TypeOK'
  BY DEF Base, TypeOK, vars, journalVars, folder, bounds
<1>2. Chains' /\ Asking'
  BY DEF Base, Chains, Chain, HasLast, Asking, vars, journalVars
<1>3. LegalHistory'
  BY DEF Base, LegalHistory, vars, journalVars
<1> QED BY <1>1, <1>2, <1>3 DEF Base

LEMMA NextBase == Base /\ [Next]_vars => Base'
  BY NextType, NextHistory, NextChains, NextAsking, KeepBase DEF Base

LEMMA BaseHolds == Spec => []Base
<1>1. Init => Base
  BY InitBase
<1>2. Base /\ [Next]_vars => Base'
  BY NextBase
<1> QED BY <1>1, <1>2, PTL DEF Spec

(* The variables have their types: what a process remembers of a journal   *)
(* is a state and a position there can be, in every reachable state.       *)
THEOREM JournalTypeCorrect == Spec => []TypeOK
<1>1. Base => TypeOK
  BY DEF Base
<1> QED BY <1>1, BaseHolds, PTL

(* No interleaving of callers, recoveries, lost leases and crashes writes  *)
(* a journal the reducer rejects.                                          *)
THEOREM HistoryIsLegal == Spec => []LegalHistory
<1>1. Base => LegalHistory
  BY DEF Base
<1> QED BY <1>1, BaseHolds, PTL

-----------------------------------------------------------------------------
(* One rename per request.  A process that may call renameat2 holds the    *)
(* intent of a request nobody has renamed for, and no other process holds  *)
(* it: an intent follows the request event of its own request, which is    *)
(* the first of its chain.                                                 *)
Armed(e) == proc[e].pc \in {"check", "syscall"}
IntentAt(p, r, i) == i \in Chain(p, r) /\ StateAfter[journal[p][i].kind] \in Intents
Holding ==
    \A e \in Processes : Armed(e) =>
        /\ proc[e].request \in Requests
        /\ IntentAt(proc[e].plan, proc[e].request, proc[e].sequence)
        /\ syscalls[proc[e].plan][proc[e].request] = 0
Apart ==
    \A e, f \in Processes : e # f /\ Armed(e) /\ Armed(f) =>
        proc[e].plan # proc[f].plan \/ proc[e].request # proc[f].request
Once == OneRenamePerRequest /\ Holding /\ Apart

LEMMA InitOnce == Init => Once
<1> SUFFICES ASSUME Init PROVE Once
  OBVIOUS
<1>1. \A e \in Processes : ~Armed(e)
  BY DEF Init, Armed, Idle
<1>2. OneRenamePerRequest
  BY DEF Init, OneRenamePerRequest
<1> QED BY <1>1, <1>2 DEF Once, Holding, Apart

\* Before an intent is appended there is no other of the same request.
LEMMA FreshIntent ==
    ASSUME Base, NEW e \in Processes, proc[e].kind \in Commands,
           Appendable(e, IntentOf[proc[e].kind])
    PROVE  /\ proc[e].plan \in Plans
           /\ proc[e].request \in Requests
           /\ \A i : ~IntentAt(proc[e].plan, proc[e].request, i)
<1> DEFINE p == proc[e].plan
           r == proc[e].request
           n == Len(journal[p])
<1>1. TypeOK /\ LegalHistory /\ proc[e] \in Calls /\ p \in Plans
  BY DEF Base, TypeOK, Calls
<1>2. /\ State(p) \in Unfinished
      /\ IntentOf[proc[e].kind] \in Follow[State(p)]
      /\ Latest(p).request = r
  BY DEF Appendable
<1>3. State(p) = RequestedBy[proc[e].kind]
  BY <1>2, IntentTables
<1>4. n \in DOMAIN journal[p] /\ State(p) = StateAfter[Latest(p).kind] /\ Latest(p).kind \in Kinds
  BY <1>1, <1>2, StateType DEF Events
<1>5. Latest(p).kind = RequestedBy[proc[e].kind]
  BY <1>3, <1>4, IntentTables
<1>6. r \in Requests /\ n # 1
  <2>1. r \in Requests
    BY <1>1, <1>2, LatestIsRequested
  <2>2. n # 1
    BY <1>1, <1>4, <1>5, IntentTables DEF LegalHistory, Latest
  <2> QED BY <2>1, <2>2
<1>7. \A j \in 1..(n - 1) : journal[p][j].request # r
  <2>1. RowFits(p, n)
    BY <1>1, <1>4, Rows
  <2>2. StateAfter[journal[p][n - 1].kind] \in Unfinished =>
            journal[p][n].kind \notin Follow[StateAfter[journal[p][n - 1].kind]]
    BY <1>5, IntentTables DEF Latest
  <2> QED BY <1>2, <1>6, <2>1, <2>2 DEF RowFits, Latest
<1>8. ASSUME NEW i, IntentAt(p, r, i) PROVE FALSE
  <2>1. n \in Nat /\ DOMAIN journal[p] = 1..n
    BY <1>1 DEF TypeOK
  <2>2. i \in 1..n /\ journal[p][i].request = r
    BY <1>8, <2>1 DEF IntentAt, Chain
  <2>3. i = n
    BY <1>7, <2>1, <2>2
  <2>4. StateAfter[RequestedBy[proc[e].kind]] \in Intents
    BY <1>5, <1>8, <2>3 DEF IntentAt, Latest
  <2>5. RequestedBy[proc[e].kind] \in Intents
    BY <2>4, CommandTables
  <2> QED BY <2>5 DEF Intents, RequestedBy, Commands
<1> QED BY <1>1, <1>6, <1>8

\* No step takes an event away.
LEMMA RowsStay ==
    ASSUME Base, Next, NEW p \in Plans, NEW i \in DOMAIN journal[p]
    PROVE  i \in DOMAIN journal'[p] /\ journal'[p][i] = journal[p][i]
<1>1. TypeOK /\ LegalHistory /\ Chains
  BY DEF Base
<1>2. CASE UNCHANGED <<journal, command>>
  BY <1>2
<1>3. ASSUME NEW q \in Plans, CreatePreview(q) PROVE journal'[p] = journal[p]
  BY <1>1, <1>3 DEF CreatePreview, TypeOK
<1>4. ASSUME NEW q \in Plans, NEW v \in Events, journal' = [journal EXCEPT ![q] = Append(@, v)]
      PROVE  i \in DOMAIN journal'[p] /\ journal'[p][i] = journal[p][i]
  <2>1. CASE p = q
    BY <1>1, <1>4, <2>1, Grown
  <2>2. CASE p # q
    BY <1>1, <1>4, <2>2, Grown
  <2> QED BY <2>1, <2>2
<1>5. ASSUME NEW e \in Processes, proc[e].pc = "start", Accept(e)
      PROVE  i \in DOMAIN journal'[p] /\ journal'[p][i] = journal[p][i]
  BY <1>4, <1>5, AcceptFacts
<1>6. ASSUME NEW e \in Processes, NEW kind \in Kinds,
             Appendable(e, kind), Appended(e, kind), UNCHANGED command
      PROVE  i \in DOMAIN journal'[p] /\ journal'[p][i] = journal[p][i]
  <2>1. PICK q, s, v : /\ q = proc[e].plan /\ s = proc[e].request
                       /\ v = [kind |-> kind, request |-> proc[e].request]
    OBVIOUS
  <2>2. q \in Plans /\ v \in Events /\ journal' = [journal EXCEPT ![q] = Append(@, v)]
    BY <1>1, <1>6, <2>1, AppendFacts
  <2> QED BY <1>4, <2>2
<1> QED BY <1>1, <1>2, <1>3, <1>5, <1>6, JournalSteps

LEMMA IntentsStay ==
    ASSUME Base, Next, NEW p \in Plans, NEW r \in Requests, NEW i, IntentAt(p, r, i)
    PROVE  IntentAt(p, r, i)'
<1>1. i \in DOMAIN journal[p]
  BY DEF IntentAt, Chain
<1> QED BY <1>1, RowsStay DEF IntentAt, Chain

LEMMA SyscallSteps ==
    ASSUME Next
    PROVE  UNCHANGED syscalls \/ \E e \in Processes : Rename(e)
<1>1. ASSUME NEW e \in Processes, Step(e) PROVE UNCHANGED syscalls \/ Rename(e)
  <2>1. CASE Start(e) \/ AcquireLease(e) \/ Bind(e) \/ Prepare(e) \/ Check(e) \/ Settle(e)
    BY <2>1 DEF Start, AcquireLease, Bind, Prepare, Check, Settle
  <2>2. CASE Refuse(e) \/ AppendIntent(e) \/ Complete(e) \/ Conclude(e)
    BY <2>2 DEF Refuse, AppendIntent, Complete, Conclude, AppendLast
  <2>3. CASE Confirm(e) \/ Verify(e) \/ Renew(e) \/ Observe(e) \/ ObserveAfter(e)
    BY <2>3 DEF Confirm, Verify, Renew, Renewed, Observe, ObserveAfter
  <2>4. CASE Inspect(e) \/ Release(e) \/ RecoverNext(e)
    BY <2>4 DEF Inspect, Release, RecoverNext
  <2> QED BY <1>1, <2>1, <2>2, <2>3, <2>4 DEF Step
<1>2. CASE \E p \in Plans : CreatePreview(p) \/ ExpireLease(p)
  BY <1>2 DEF CreatePreview, ExpireLease
<1>3. CASE \E e \in Processes :
             \/ \E p \in Plans, r \in Requests, k \in Commands : Begin(e, p, r, k)
             \/ Recover(e) \/ FailedCall(e) \/ Crash(e)
  BY <1>3 DEF Begin, Recover, FailedCall, Crash
<1>4. CASE PowerLoss \/ ChangeFolder
  BY <1>4 DEF PowerLoss, ChangeFolder
<1> QED BY <1>1, <1>2, <1>3, <1>4 DEF Next, Actions

\* How a process comes to be armed.
LEMMA Arming ==
    ASSUME Base, Next, NEW f \in Processes, Armed(f)'
    PROVE  \/ /\ Armed(f)
              /\ proc'[f].plan = proc[f].plan
              /\ proc'[f].request = proc[f].request
              /\ proc'[f].sequence = proc[f].sequence
           \/ /\ AppendIntent(f)
              /\ Appendable(f, IntentOf[proc[f].kind])
              /\ proc'[f].plan = proc[f].plan
              /\ proc'[f].request = proc[f].request
              /\ proc'[f].sequence = proc[f].sequence + 1
              /\ \A g \in Processes : g # f => proc'[g] = proc[g]
<1>1. TypeOK /\ proc[f] \in Calls
  BY DEF Base, TypeOK
<1>2. CASE Cools(f)
  BY <1>2 DEF Cools, Hot, Armed
<1>3. CASE Enters(f)
  <2>1. CASE proc[f].pc = "check" /\ proc'[f] = [proc[f] EXCEPT !.pc = "syscall"]
    BY <1>1, <2>1 DEF Armed, Calls
  <2>2. CASE AppendIntent(f) /\ Appendable(f, IntentOf[proc[f].kind])
    BY <1>1, <2>2 DEF AppendIntent, TypeOK, Calls
  <2> QED BY <1>3, <2>1, <2>2 DEF Enters, Armed
<1> QED BY <1>1, <1>2, <1>3, NextCalls

\* The rename itself: the process leaves, the others stay where they are.
LEMMA RenameFacts ==
    ASSUME Base, NEW e \in Processes, Rename(e)
    PROVE  /\ Armed(e)
           /\ ~Armed(e)'
           /\ \A f \in Processes : f # e => proc'[f] = proc[f]
           /\ UNCHANGED journal
           /\ syscalls' = [syscalls EXCEPT ![proc[e].plan][proc[e].request] = @ + 1]
           /\ proc[e].plan \in Plans
<1>1. proc \in [Processes -> Calls] /\ proc[e] \in Calls
  BY DEF Base, TypeOK
<1>2. Goto(e, "settle") \/ Goto(e, "renew")
  BY DEF Rename
<1>3. ~Armed(e)' /\ \A f \in Processes : f # e => proc'[f] = proc[f]
  BY <1>1, <1>2 DEF Goto, Armed, Calls
<1> QED BY <1>1, <1>3 DEF Rename, Armed, Calls, journalVars

LEMMA NextOnce == ASSUME Base, Once, Next PROVE Once'
<1>1. TypeOK /\ OneRenamePerRequest /\ Holding /\ Apart
  BY DEF Base, Once
<1>2. \A f \in Processes : proc[f].plan \in Plans /\ proc[f].kind \in Commands
  BY <1>1 DEF TypeOK, Calls
<1>3. Apart'
  <2>1. SUFFICES ASSUME NEW e \in Processes, NEW f \in Processes, e # f, Armed(e)', Armed(f)',
                        proc'[e].plan = proc'[f].plan, proc'[e].request = proc'[f].request
                 PROVE  FALSE
    BY DEF Apart
  <2>2. ASSUME NEW g \in Processes, NEW h \in Processes, g # h, AppendIntent(g),
               Appendable(g, IntentOf[proc[g].kind]), Armed(h),
               proc[g].plan = proc[h].plan, proc[g].request = proc[h].request
        PROVE  FALSE
    BY <1>1, <1>2, <2>2, FreshIntent DEF Holding
  <2>3. ASSUME NEW g \in Processes, NEW h \in Processes, g # h, AppendIntent(g),
               AppendIntent(h), proc'[h] = proc[h], Armed(h)'
        PROVE  FALSE
    BY <2>3 DEF AppendIntent, Armed
  <2> QED BY <1>1, <2>1, <2>2, <2>3, Arming DEF Apart
<1>4. CASE \E e \in Processes : Rename(e)
  <2>1. PICK e \in Processes : Rename(e)
    BY <1>4
  <2>2. PICK p, r : p = proc[e].plan /\ r = proc[e].request
    OBVIOUS
  <2>3. /\ p \in Plans /\ r \in Requests
        /\ syscalls[p][r] = 0
        /\ syscalls' = [syscalls EXCEPT ![p][r] = @ + 1]
        /\ IntentAt(p, r, proc[e].sequence)
        /\ UNCHANGED journal
    BY <1>1, <2>1, <2>2, RenameFacts DEF Holding
  <2>4. /\ syscalls'[p][r] = 1
        /\ \A q \in Plans, s \in Requests : (q # p \/ s # r) => syscalls'[q][s] = syscalls[q][s]
    BY <1>1, <2>3 DEF TypeOK
  <2>5. OneRenamePerRequest'
    BY <1>1, <2>3, <2>4 DEF OneRenamePerRequest, IntentAt, Chain
  <2>6. Holding'
    <3>1. SUFFICES ASSUME NEW f \in Processes, Armed(f)'
                   PROVE  /\ proc'[f].request \in Requests
                          /\ IntentAt(proc[f].plan, proc[f].request, proc[f].sequence)'
                          /\ syscalls'[proc'[f].plan][proc'[f].request] = 0
      BY DEF Holding
    <3>2. f # e /\ proc'[f] = proc[f] /\ Armed(f) /\ Armed(e)
      BY <2>1, <3>1, RenameFacts DEF Armed
    <3>3. proc[f].plan # p \/ proc[f].request # r
      BY <1>1, <2>2, <3>2 DEF Apart
    <3>4. /\ proc[f].request \in Requests
          /\ IntentAt(proc[f].plan, proc[f].request, proc[f].sequence)
          /\ syscalls[proc[f].plan][proc[f].request] = 0
      BY <1>1, <3>2 DEF Holding
    <3> QED BY <1>2, <2>3, <2>4, <3>2, <3>3, <3>4 DEF IntentAt, Chain
  <2> QED BY <1>3, <2>5, <2>6 DEF Once
<1>5. CASE UNCHANGED syscalls
  <2>1. OneRenamePerRequest'
    <3>1. SUFFICES ASSUME NEW p \in Plans, NEW r \in Requests
                   PROVE  /\ syscalls'[p][r] <= 1
                          /\ syscalls'[p][r] = 1 => \E i : IntentAt(p, r, i)'
      BY DEF OneRenamePerRequest, IntentAt
    <3>2. syscalls[p][r] <= 1 /\ (syscalls[p][r] = 1 => \E i : IntentAt(p, r, i))
      BY <1>1 DEF OneRenamePerRequest, IntentAt
    <3> QED BY <1>5, <3>2, IntentsStay
  <2>2. Holding'
    <3>1. SUFFICES ASSUME NEW f \in Processes, Armed(f)',
                          NEW p, p = proc'[f].plan, NEW r, r = proc'[f].request,
                          NEW i, i = proc'[f].sequence
                   PROVE  /\ r \in Requests
                          /\ IntentAt(p, r, i)'
                          /\ syscalls'[p][r] = 0
      BY DEF Holding, IntentAt, Chain
    <3>2. CASE Armed(f) /\ p = proc[f].plan /\ r = proc[f].request /\ i = proc[f].sequence
      <4>1. p \in Plans /\ r \in Requests /\ IntentAt(p, r, i) /\ syscalls[p][r] = 0
        BY <1>1, <1>2, <3>2 DEF Holding
      <4> QED BY <1>5, <4>1, IntentsStay
    <3>3. CASE /\ AppendIntent(f)
               /\ Appendable(f, IntentOf[proc[f].kind])
               /\ p = proc[f].plan /\ r = proc[f].request /\ i = proc[f].sequence + 1
      <4>1. p \in Plans /\ r \in Requests /\ \A j : ~IntentAt(p, r, j)
        BY <1>2, <3>3, FreshIntent
      <4>2. syscalls[p][r] = 0
        <5>1. syscalls[p][r] \in Nat /\ syscalls[p][r] <= 1 /\ syscalls[p][r] # 1
          BY <1>1, <4>1 DEF TypeOK, OneRenamePerRequest, IntentAt
        <5> QED BY <5>1
      <4>3. PICK k, v : k = IntentOf[proc[f].kind] /\ v = [kind |-> k, request |-> r]
        OBVIOUS
      <4>4. k \in Kinds /\ StateAfter[k] \in Intents
        BY <1>2, <4>3, CommandTables, IntentTables
      <4>5. v \in Events /\ v.kind = k /\ v.request = r
        BY <4>1, <4>3, <4>4 DEF Events
      <4>6. journal' = [journal EXCEPT ![p] = Append(@, v)] /\ i = Len(journal[p]) + 1
        BY <3>3, <4>3 DEF AppendIntent, Appended, Appendable
      <4>7. i \in DOMAIN journal'[p] /\ journal'[p][i] = v
        <5>1. /\ Len(journal[p]) \in Nat
              /\ DOMAIN journal'[p] = 1..(Len(journal[p]) + 1)
              /\ journal'[p][Len(journal[p]) + 1] = v
          BY <1>1, <4>1, <4>5, <4>6, Grown
        <5> QED BY <4>6, <5>1
      <4>8. IntentAt(p, r, i)'
        BY <4>4, <4>5, <4>7 DEF IntentAt, Chain
      <4> QED BY <1>5, <4>1, <4>2, <4>8
    <3> QED BY <3>1, <3>2, <3>3, Arming
  <2> QED BY <1>3, <2>1, <2>2 DEF Once
<1> QED BY <1>4, <1>5, SyscallSteps

(* However often a request is clicked, retried, recovered or overtaken,    *)
(* renameat2 is called at most once for it, after its intent is in the     *)
(* journal; also when leases end under working owners and processes crash. *)
THEOREM RequestsRenameOnce == Spec => []OneRenamePerRequest
<1>1. Init => Once
  BY InitOnce
<1>2. Base /\ Once /\ [Next]_vars => Once'
  <2>1. Base /\ Once /\ Next => Once'
    BY NextOnce
  <2>2. Once /\ UNCHANGED vars => Once'
    BY DEF Once, OneRenamePerRequest, Holding, Apart, Armed, IntentAt, Chain, vars, journalVars
  <2> QED BY <2>1, <2>2
<1>3. Once => OneRenamePerRequest
  BY DEF Once
<1> QED BY <1>1, <1>2, <1>3, BaseHolds, PTL DEF Spec

-----------------------------------------------------------------------------
(* Final outcomes.  A chain that ended is never the chain of the last      *)
(* event, or the plan is not in an unfinished state.                       *)
LEMMA ChainEnd ==
    ASSUME TypeOK, NEW p \in Plans, NEW r \in Requests, Len(journal[p]) \in Chain(p, r)
    PROVE  Outcome(p, r) = StateAfter[Latest(p).kind]
<1>1. Len(journal[p]) \in Nat /\ DOMAIN journal[p] = 1..Len(journal[p])
  BY DEF TypeOK
<1>2. \A j \in Chain(p, r) : j <= Len(journal[p])
  BY <1>1 DEF Chain
<1>3. HasLast(p, r)
  BY <1>2 DEF HasLast
<1>4. LastOf(p, r) = Len(journal[p])
  BY <1>2, <1>3, LastIs
<1> QED BY <1>4 DEF Outcome, Latest

LEMMA NextOutcome ==
    ASSUME Base, Next, NEW p \in Plans, NEW r \in Requests,
           Chain(p, r) # {}, Outcome(p, r) \notin Unfinished
    PROVE  LastOf(p, r)' = LastOf(p, r) /\ Outcome(p, r)' = Outcome(p, r)
<1>1. TypeOK /\ LegalHistory /\ Chains
  BY DEF Base
<1>2. HasLast(p, r)
  BY <1>1 DEF Chains
<1>3. Chain(p, r)' = Chain(p, r)
  <2>1. CASE UNCHANGED <<journal, command>>
    BY <2>1 DEF Chain
  <2>2. ASSUME NEW q \in Plans, CreatePreview(q) PROVE Chain(p, r)' = Chain(p, r)
    <3>1. q # p
      <4>1. SUFFICES ASSUME q = p PROVE FALSE
        OBVIOUS
      <4>2. journal[p] = <<>>
        BY <2>2, <4>1 DEF CreatePreview
      <4> QED BY <4>2 DEF Chain
    <3>2. journal'[p] = journal[p]
      BY <1>1, <2>2, <3>1 DEF CreatePreview, TypeOK
    <3> QED BY <3>2 DEF Chain
  <2>3. ASSUME NEW e \in Processes, proc[e].pc = "start", Accept(e)
        PROVE  Chain(p, r)' = Chain(p, r)
    <3>1. proc[e].plan # p \/ proc[e].request # r
      BY <2>3, AcceptFacts
    <3> QED BY <1>1, <2>3, <3>1, AcceptFacts, OtherChain
  <2>4. ASSUME NEW e \in Processes, NEW kind \in Kinds,
               Appendable(e, kind), Appended(e, kind), UNCHANGED command
        PROVE  Chain(p, r)' = Chain(p, r)
    <3>1. PICK q, s, v : /\ q = proc[e].plan /\ s = proc[e].request
                         /\ v = [kind |-> kind, request |-> proc[e].request]
      OBVIOUS
    <3>2. /\ q \in Plans /\ s \in Requests /\ v \in Events
          /\ journal' = [journal EXCEPT ![q] = Append(@, v)]
          /\ State(q) \in Unfinished /\ Latest(q).request = s
          /\ State(q) = StateAfter[Latest(q).kind]
          /\ v.request = s
      BY <1>1, <2>4, <3>1, AppendFacts
    <3>3. q # p \/ s # r
      <4>1. SUFFICES ASSUME q = p, s = r PROVE FALSE
        OBVIOUS
      <4>2. Len(journal[p]) \in Chain(p, r)
        BY <1>1, <3>2, <4>1, LatestIsRequested
      <4> QED BY <1>1, <3>2, <4>1, <4>2, ChainEnd
    <3>4. /\ q \in Plans /\ v \in Events /\ p \in Plans /\ r \in Requests
          /\ journal' = [journal EXCEPT ![q] = Append(@, v)]
          /\ p # q \/ r # v.request
      BY <3>2, <3>3
    <3> QED BY ONLY <1>1, <3>4, OtherChain
  <2> QED BY <1>1, <2>1, <2>2, <2>3, <2>4, JournalSteps
<1>4. LastOf(p, r)' = LastOf(p, r)
  BY <1>3 DEF LastOf
<1>5. LastOf(p, r) \in DOMAIN journal[p]
  BY <1>1, <1>2, OutcomeType
<1>6. journal'[p][LastOf(p, r)] = journal[p][LastOf(p, r)]
  BY <1>5, RowsStay
<1> QED BY <1>4, <1>6 DEF Outcome

(* What a finished request is answered never changes again, whatever later *)
(* commands, recoveries and stalled owners do to its plan.                 *)
THEOREM OutcomesAreFinal == Spec => OutcomeIsFinal
<1>1. Base /\ [Next]_vars =>
        [\A p \in Plans, r \in Requests :
           Chain(p, r) # {} /\ Outcome(p, r) \notin Unfinished
              => LastOf(p, r)' = LastOf(p, r) /\ Outcome(p, r)' = Outcome(p, r)]_vars
  BY NextOutcome
<1> QED BY <1>1, BaseHolds, PTL DEF Spec, OutcomeIsFinal


-----------------------------------------------------------------------------
(* What a call knows of the journal.  From its lease on, a call works for  *)
(* one row, which stays in the journal: an event of its own request whose  *)
(* state it remembers; and what recovery has listed are such rows.         *)
Late == {"check", "syscall", "settle", "confirm", "verify", "complete", "renew", "observe",
         "observe_after", "inspect", "conclude"}
Working == Late \cup {"lease", "bind", "prepare", "refuse", "intent"}
RowOf(p, r, n, s) ==
    /\ p \in Plans /\ r \in Requests /\ s \in Unfinished
    /\ n \in DOMAIN journal[p]
    /\ journal[p][n].request = r
    /\ StateAfter[journal[p][n].kind] = s
Backed ==
    \A e \in Processes :
        /\ proc[e].pc \in Working =>
             /\ RowOf(proc[e].plan, proc[e].request, proc[e].sequence, proc[e].state)
             /\ proc[e].kind = CommandOf(proc[e].state)
        /\ proc[e].pc \in Late => proc[e].state \in Intents
        /\ \A item \in proc[e].todo : RowOf(item.plan, item.request, item.sequence, item.state)
\* The unfinished events of a request are those of its command.
KindsFit ==
    \A p \in Plans : \A i \in DOMAIN journal[p] :
        StateAfter[journal[p][i].kind] \in Unfinished =>
            /\ journal[p][i].request \in Requests
            /\ command[p][journal[p][i].request] = CommandOf(StateAfter[journal[p][i].kind])

LEMMA KindTables ==
    /\ \A k \in Commands : CommandOf(RequestedBy[k]) = k /\ CommandOf(IntentOf[k]) = k
    /\ \A s \in Unfinished : \A k \in Follow[s] :
          StateAfter[k] \in Unfinished => CommandOf(StateAfter[k]) = CommandOf(s)
    /\ \A k \in Commands : RequestedBy[k] \notin Intents
    /\ \A s \in Unfinished : CommandOf(s) \in Commands
  BY DEF Commands, CommandOf, RequestedBy, IntentOf, Unfinished, Follow, StateAfter, Intents

LEMMA RowStays ==
    ASSUME Base, Next, NEW p, NEW r, NEW n, NEW s, RowOf(p, r, n, s)
    PROVE  RowOf(p, r, n, s)'
  BY RowsStay DEF RowOf

\* A step of one process leaves the calls of the others as they are.
LEMMA OthersStay ==
    ASSUME ProcType, NEW e \in Processes,
           \/ Step(e) \/ Recover(e) \/ FailedCall(e) \/ Crash(e)
           \/ \E p \in Plans, r \in Requests, k \in Commands : Begin(e, p, r, k),
           NEW f \in Processes, f # e
    PROVE  proc'[f] = proc[f]
<1> USE DEF ProcType, Goto, Fails, Returns
<1>1. CASE Start(e)
  BY <1>1 DEF Start, Replay, Accept, Reject
<1>2. CASE AcquireLease(e) \/ Bind(e) \/ Prepare(e) \/ Check(e) \/ Rename(e) \/ Settle(e)
  BY <1>2 DEF AcquireLease, Bind, Prepare, Check, Rename, Settle
<1>3. CASE Refuse(e) \/ AppendIntent(e) \/ Complete(e) \/ Conclude(e)
  BY <1>3 DEF Refuse, AppendIntent, Complete, Conclude, AppendLast
<1>4. CASE Confirm(e) \/ Verify(e) \/ Renew(e) \/ Observe(e) \/ ObserveAfter(e)
  BY <1>4 DEF Confirm, Verify, Renew, Renewed, Observe, ObserveAfter
<1>5. CASE Inspect(e) \/ Release(e)
  BY <1>5 DEF Inspect, Release
<1>6. CASE RecoverNext(e)
  BY <1>6, RecoverNextSteps
<1>7. CASE Recover(e) \/ FailedCall(e) \/ Crash(e)
  BY <1>7 DEF Recover, FailedCall, Crash
<1>8. CASE \E p \in Plans, r \in Requests, k \in Commands : Begin(e, p, r, k)
  BY <1>8 DEF Begin
<1> QED  BY <1>1, <1>2, <1>3, <1>4, <1>5, <1>6, <1>7, <1>8 DEF Step

(* How a step changes what its call knows: not at all, or the call is at   *)
(* an end, or it begins to work for another row.                           *)
Framed(e) ==
    /\ proc'[e].plan = proc[e].plan /\ proc'[e].request = proc[e].request
    /\ proc'[e].kind = proc[e].kind /\ proc'[e].sequence = proc[e].sequence
    /\ proc'[e].state = proc[e].state
    /\ proc'[e].todo \subseteq proc[e].todo
    /\ proc'[e].pc \in Working => proc[e].pc \in Working
    /\ proc'[e].pc \in Late =>
         proc[e].pc \in Late \/ (proc[e].pc = "lease" /\ proc[e].state \in Intents)
Ended(e) == proc'[e].pc \notin Working /\ proc'[e].todo \subseteq proc[e].todo

LEMMA Ending ==
    ASSUME ProcType, NEW e \in Processes
    PROVE  /\ Returns(e) => Ended(e)
           /\ Fails(e) => Ended(e)
           /\ Goto(e, "release") => Ended(e)
           /\ Goto(e, "next") => Ended(e)
<1>1. proc[e] \in Calls
  BY DEF ProcType
<1>2. Returns(e) => Ended(e)
  BY DEF Returns, Ended, Idle, ProcType, Working, Late
<1>3. Fails(e) => Ended(e)
  BY <1>1 DEF Fails, Ended, ProcType, Calls, Working, Late
<1>4. Goto(e, "release") \/ Goto(e, "next") => Ended(e)
  BY <1>1 DEF Goto, Ended, ProcType, Calls, Working, Late
<1> QED  BY <1>2, <1>3, <1>4

LEMMA Framing ==
    ASSUME ProcType, NEW e \in Processes
    PROVE  /\ \A pc \in Late : Goto(e, pc) /\ proc[e].pc \in Late => Framed(e)
           /\ \A pc \in {"bind", "prepare", "refuse", "intent"} :
                Goto(e, pc) /\ proc[e].pc \in Working => Framed(e)
           /\ \A pc \in Late, v \in Verdicts :
                proc' = [proc EXCEPT ![e].pc = pc, ![e].verdict = v] /\ proc[e].pc \in Late
                  => Framed(e)
<1>1. proc[e] \in Calls
  BY DEF ProcType
<1>2. ASSUME NEW pc \in Late, Goto(e, pc), proc[e].pc \in Late PROVE Framed(e)
  <2>1. proc'[e] = [proc[e] EXCEPT !.pc = pc]
    BY <1>2 DEF Goto, ProcType
  <2>2. proc[e].pc \in Working
    BY <1>2 DEF Working
  <2>3. /\ proc'[e].plan = proc[e].plan /\ proc'[e].request = proc[e].request
        /\ proc'[e].kind = proc[e].kind /\ proc'[e].sequence = proc[e].sequence
        /\ proc'[e].state = proc[e].state /\ proc'[e].todo = proc[e].todo
    BY <1>1, <2>1 DEF Calls
  <2> QED  BY <1>2, <2>2, <2>3 DEF Framed
<1>3. \A pc \in {"bind", "prepare", "refuse", "intent"} :
          Goto(e, pc) /\ proc[e].pc \in Working => Framed(e)
  BY <1>1 DEF Goto, Framed, ProcType, Calls, Working, Late
<1>4. ASSUME NEW pc \in Late, NEW v \in Verdicts,
             proc' = [proc EXCEPT ![e].pc = pc, ![e].verdict = v], proc[e].pc \in Late
      PROVE  Framed(e)
  <2>1. proc'[e] = [proc[e] EXCEPT !.pc = pc, !.verdict = v]
    BY <1>4 DEF ProcType
  <2>2. proc[e].pc \in Working
    BY <1>4 DEF Working
  <2>3. /\ proc'[e].plan = proc[e].plan /\ proc'[e].request = proc[e].request
        /\ proc'[e].kind = proc[e].kind /\ proc'[e].sequence = proc[e].sequence
        /\ proc'[e].state = proc[e].state /\ proc'[e].todo = proc[e].todo
    BY <1>1, <2>1 DEF Calls
  <2> QED  BY <1>4, <2>2, <2>3 DEF Framed
<1> QED  BY <1>2, <1>3, <1>4

Retakes(e) == \E item \in proc[e].todo : proc' = [proc EXCEPT ![e] = Taking(e, item)]

LEMMA FramedSteps ==
    ASSUME TypeOK, NEW e \in Processes, Step(e)
    PROVE  \/ Framed(e) \/ Ended(e)
           \/ Start(e) /\ ~Returns(e)
           \/ AppendIntent(e) /\ Appendable(e, IntentOf[proc[e].kind])
           \/ RecoverNext(e) /\ Retakes(e)
<1>1. ProcType /\ proc[e] \in Calls
  BY TypedParts, CallType DEF Typed
<1>2. ASSUME NEW kind \in Kinds, AppendLast(e, kind) PROVE Ended(e)
  BY <1>1, <1>2, Ending DEF AppendLast
<1>3. CASE Start(e)
  BY <1>1, <1>3, Ending
<1>4. CASE AppendIntent(e)
  BY <1>1, <1>4, Ending DEF AppendIntent
<1>5. CASE Refuse(e) \/ Complete(e) \/ Conclude(e)
  <2>1. proc[e].kind \in Commands /\ proc[e].verdict \in Verdicts
    BY <1>1 DEF Calls
  <2>2. VerdictOf(proc[e].verdict, proc[e].kind) \in Kinds
    BY <2>1, CommandTables DEF VerdictOf, Verdicts
  <2> QED BY <1>2, <1>5, <2>1, <2>2, CommandTables DEF Refuse, Complete, Conclude
<1>6. CASE AcquireLease(e)
  <2>1. CASE Goto(e, "observe") /\ proc[e].pc = "lease" /\ proc[e].state \in Intents
    BY <1>1, <2>1 DEF Goto, Framed, ProcType, Calls, Working, Late
  <2>2. CASE Goto(e, "bind")
    BY <1>1, <1>6, <2>2, Framing DEF AcquireLease, Working
  <2> QED  BY <1>1, <1>6, <2>1, <2>2, Ending DEF AcquireLease
<1>7. CASE Bind(e) \/ Prepare(e)
  BY <1>1, <1>7, Framing DEF Bind, Prepare, Working
<1>8. CASE Check(e) \/ Rename(e) \/ Settle(e) \/ Verify(e)
  BY <1>1, <1>8, Framing DEF Check, Rename, Settle, Verify, Late
<1>9. CASE Confirm(e) \/ Renew(e)
  BY <1>1, <1>9, Framing, Ending DEF Confirm, Renew, Renewed, Late
<1>10. CASE Observe(e) \/ ObserveAfter(e) \/ Inspect(e)
  BY <1>1, <1>10, Framing DEF Observe, ObserveAfter, Inspect, Late, Verdicts
<1>11. CASE Release(e)
  BY <1>1, <1>11, Ending DEF Release
<1>12. CASE RecoverNext(e)
  <2>1. PICK item \in proc[e].todo :
             \/ proc' = [proc EXCEPT ![e] = Taking(e, item)]
             \/ Returns(e)
             \/ proc' = [proc EXCEPT ![e].todo = proc[e].todo \ {item}]
    BY <1>12, RecoverNextSteps
  <2>2. CASE proc' = [proc EXCEPT ![e].todo = proc[e].todo \ {item}]
    <3>1. proc[e].pc = "next"
      BY <1>12 DEF RecoverNext
    <3> QED BY <1>1, <2>2, <3>1 DEF ProcType, Calls, Ended, Working, Late
  <2> QED  BY <1>1, <1>12, <2>1, <2>2, Ending DEF Retakes
<1> QED  BY <1>3, <1>4, <1>5, <1>6, <1>7, <1>8, <1>9, <1>10, <1>11, <1>12 DEF Step


LEMMA NextKinds == ASSUME Base, KindsFit, Next PROVE KindsFit'
<1> DEFINE Fits(p, i) ==
        StateAfter[journal[p][i].kind] \in Unfinished =>
            /\ journal[p][i].request \in Requests
            /\ command[p][journal[p][i].request] = CommandOf(StateAfter[journal[p][i].kind])
<1>1. TypeOK /\ LegalHistory /\ Chains /\ \A p \in Plans : \A i \in DOMAIN journal[p] : Fits(p, i)
  BY DEF Base, KindsFit
<1>2. CASE UNCHANGED <<journal, command>>
  BY <1>2 DEF KindsFit
<1>3. ASSUME NEW q \in Plans, CreatePreview(q) PROVE KindsFit'
  <2>1. journal' = [journal EXCEPT ![q] = <<[kind |-> "preview_created", request |-> NoRequest]>>]
        /\ UNCHANGED command
    BY <1>3 DEF CreatePreview
  <2>2. ASSUME NEW p \in Plans, NEW i \in DOMAIN journal'[p] PROVE Fits(p, i)'
    <3>1. CASE p = q
      <4>1. journal'[p][i].kind = "preview_created"
        BY <1>1, <2>1, <2>2, <3>1 DEF TypeOK
      <4> QED  BY <4>1, IntentTables, Tables
    <3>2. CASE p # q
      <4>1. journal'[p] = journal[p]
        BY <1>1, <2>1, <3>2 DEF TypeOK
      <4> QED  BY <1>1, <2>1, <2>2, <4>1
    <3> QED  BY <3>1, <3>2
  <2> QED  BY <2>2 DEF KindsFit
\* One more row, after which the rows there were still fit.
<1>4. ASSUME NEW q \in Plans, NEW v \in Events, journal' = [journal EXCEPT ![q] = Append(@, v)],
             \A p \in Plans : \A i \in DOMAIN journal[p] :
                StateAfter[journal[p][i].kind] \in Unfinished =>
                    command'[p][journal[p][i].request] = command[p][journal[p][i].request],
             StateAfter[v.kind] \in Unfinished =>
                v.request \in Requests /\ command'[q][v.request] = CommandOf(StateAfter[v.kind])
      PROVE  KindsFit'
  <2>1. ASSUME NEW p \in Plans, NEW i \in DOMAIN journal'[p] PROVE Fits(p, i)'
    <3>1. CASE i \in DOMAIN journal[p]
      <4>1. journal'[p][i] = journal[p][i]
        <5>1. CASE p = q  BY <1>1, <1>4, <3>1, <5>1, Grown
        <5>2. CASE p # q  BY <1>1, <1>4, <5>2, Grown
        <5> QED  BY <5>1, <5>2
      <4> QED  BY <1>1, <1>4, <3>1, <4>1
    <3>2. CASE i \notin DOMAIN journal[p]
      <4>1. p = q /\ journal'[p][i] = v
        <5>1. p = q  BY <1>1, <1>4, <2>1, <3>2, Grown
        <5>2. i = Len(journal[p]) + 1  BY <1>1, <1>4, <2>1, <3>2, <5>1, Grown
        <5>3. journal'[q][Len(journal[q]) + 1] = v  BY <1>1, <1>4, Grown
        <5> QED  BY <5>1, <5>2, <5>3
      <4> QED  BY <1>4, <4>1
    <3> QED  BY <3>1, <3>2
  <2> QED  BY <2>1 DEF KindsFit
<1>5. ASSUME NEW e \in Processes, proc[e].pc = "start", Accept(e) PROVE KindsFit'
  <2>1. PICK p, r, k : p = proc[e].plan /\ r = proc[e].request /\ k = proc[e].kind
    OBVIOUS
  <2>2. /\ p \in Plans /\ r \in Requests /\ k \in Commands
        /\ Asked(e) \in Events /\ Asked(e).request = r /\ Asked(e).kind = RequestedBy[k]
        /\ journal' = [journal EXCEPT ![p] = Append(@, Asked(e))]
        /\ command'[p][r] = k
        /\ \A q \in Plans, s \in Requests : (q # p \/ s # r) => command'[q][s] = command[q][s]
        /\ Chain(p, r) = {}
    BY SMTT(30), <1>5, <2>1, AcceptFacts
  <2>3. ASSUME NEW q \in Plans, NEW i \in DOMAIN journal[q], StateAfter[journal[q][i].kind] \in Unfinished
        PROVE  command'[q][journal[q][i].request] = command[q][journal[q][i].request]
    <3>1. journal[q][i].request \in Requests
      BY <1>1, <2>3
    <3>2. q # p \/ journal[q][i].request # r
      BY <2>2, <2>3 DEF Chain
    <3> QED  BY <2>2, <3>1, <3>2
  <2>4. CommandOf(StateAfter[RequestedBy[k]]) = k
    BY <2>2, CommandTables, KindTables
  <2> QED  BY <1>4, <2>2, <2>3, <2>4
<1>6. ASSUME NEW e \in Processes, NEW kind \in Kinds,
             Appendable(e, kind), Appended(e, kind), UNCHANGED command
      PROVE  KindsFit'
  <2>1. PICK p, r, v : /\ p = proc[e].plan /\ r = proc[e].request
                       /\ v = [kind |-> kind, request |-> r]
    OBVIOUS
  <2>2. /\ p \in Plans /\ r \in Requests /\ v \in Events
        /\ journal' = [journal EXCEPT ![p] = Append(@, v)]
        /\ State(p) \in Unfinished /\ kind \in Follow[State(p)] /\ Latest(p).request = r
        /\ Len(journal[p]) \in DOMAIN journal[p] /\ State(p) = StateAfter[Latest(p).kind]
        /\ v.request = r /\ v.kind = kind
    BY <1>1, <1>6, <2>1, AppendFacts
  <2>3. command[p][r] = CommandOf(State(p))
    BY <1>1, <2>2 DEF Latest
  <2>4. StateAfter[kind] \in Unfinished => CommandOf(StateAfter[kind]) = CommandOf(State(p))
    BY <2>2, KindTables
  <2> QED  BY <1>4, <1>6, <2>2, <2>3, <2>4
<1> QED  BY <1>1, <1>2, <1>3, <1>5, <1>6, JournalSteps

LEMMA NewRow ==
    ASSUME TypeOK, NEW p \in Plans, NEW event \in Events,
           journal' = [journal EXCEPT ![p] = Append(@, event)]
    PROVE  /\ Len(journal[p]) + 1 \in DOMAIN journal'[p]
           /\ journal'[p][Len(journal[p]) + 1] = event
<1>1. /\ Len(journal[p]) \in Nat
      /\ DOMAIN journal'[p] = 1..(Len(journal[p]) + 1)
      /\ journal'[p][Len(journal[p]) + 1] = event
  BY Grown
<1> QED  BY <1>1

LEMMA StartBacked ==
    ASSUME Base, KindsFit, Next, NEW e \in Processes, Start(e), ~Returns(e)
    PROVE  /\ proc'[e].pc = "lease" /\ proc'[e].todo = proc[e].todo
           /\ RowOf(proc[e].plan, proc[e].request, proc[e].sequence, proc[e].state)'
           /\ proc'[e].kind = CommandOf(proc'[e].state)
<1>1. TypeOK /\ Chains /\ Asking /\ proc[e] \in Calls /\ proc[e].pc = "start"
  BY DEF Base, TypeOK, Start
<1>2. PICK p, r, k : p = proc[e].plan /\ r = proc[e].request /\ k = proc[e].kind
  OBVIOUS
<1>3. p \in Plans /\ r \in Requests /\ k \in Commands
  BY <1>1, <1>2 DEF Calls, Asking
<1>4. CASE Replay(e)
  <2>1. /\ command[p][r] = k /\ Outcome(p, r) \in Unfinished /\ UNCHANGED journal
        /\ proc' = [proc EXCEPT ![e].pc = "lease", ![e].state = Outcome(p, r),
                             ![e].sequence = LastOf(p, r)]
    BY <1>2, <1>4 DEF Replay
  <2>2. /\ proc'[e].pc = "lease" /\ proc'[e].state = Outcome(p, r)
        /\ proc'[e].sequence = LastOf(p, r) /\ proc'[e].plan = p /\ proc'[e].request = r
        /\ proc'[e].kind = k /\ proc'[e].todo = proc[e].todo
    BY <1>1, <1>2, <2>1 DEF TypeOK, Calls
  <2>3. LastOf(p, r) \in Chain(p, r)
    BY <1>1, <1>3, <2>1, CommandValue, LastIs DEF Chains
  <2>4. RowOf(p, r, LastOf(p, r), Outcome(p, r))
    BY <1>3, <2>1, <2>3 DEF RowOf, Chain, Outcome
  <2>5. k = CommandOf(Outcome(p, r))
    BY <2>1, <2>3, <1>3 DEF KindsFit, Outcome, Chain
  <2> QED  BY <2>1, <2>2, <2>4, <2>5 DEF RowOf
<1>5. CASE Accept(e)
  <2>1. /\ Asked(e) \in Events /\ Asked(e).request = r /\ Asked(e).kind = RequestedBy[k]
        /\ journal' = [journal EXCEPT ![p] = Append(@, Asked(e))]
    BY <1>1, <1>2, <1>5, AcceptFacts
  <2>2. /\ proc' = [proc EXCEPT ![e].pc = "lease", ![e].state = RequestedBy[k],
                        ![e].sequence = @ + 1]
        /\ proc[e].sequence = Len(journal[p])
    BY <1>2, <1>5 DEF Accept, Accepts
  <2>3. /\ proc'[e].pc = "lease" /\ proc'[e].state = RequestedBy[k]
        /\ proc'[e].sequence = Len(journal[p]) + 1 /\ proc'[e].plan = p /\ proc'[e].request = r
        /\ proc'[e].kind = k /\ proc'[e].todo = proc[e].todo
    BY <1>1, <1>2, <2>2 DEF TypeOK, Calls
  <2>4. /\ Len(journal[p]) + 1 \in DOMAIN journal'[p]
        /\ journal'[p][Len(journal[p]) + 1] = Asked(e)
    BY <1>1, <1>3, <2>1, NewRow
  <2>5. RequestedBy[k] \in Unfinished /\ StateAfter[RequestedBy[k]] = RequestedBy[k]
    BY <1>3, CommandTables
  <2>6. CommandOf(RequestedBy[k]) = k
    BY <1>3, KindTables
  <2> QED  BY <1>3, <2>1, <2>3, <2>4, <2>5, <2>6 DEF RowOf
<1> QED  BY <1>4, <1>5 DEF Start, Reject

LEMMA IntentBacked ==
    ASSUME Base, Next, NEW e \in Processes, AppendIntent(e),
           Appendable(e, IntentOf[proc[e].kind])
    PROVE  /\ proc'[e].pc = "check" /\ proc'[e].todo = proc[e].todo
           /\ RowOf(proc[e].plan, proc[e].request, proc[e].sequence, proc[e].state)'
           /\ proc'[e].kind = CommandOf(proc'[e].state)
           /\ proc'[e].state \in Intents
<1>1. TypeOK /\ LegalHistory /\ Chains /\ proc[e] \in Calls /\ proc[e].kind \in Commands
  BY DEF Base, TypeOK, Calls
<1>2. PICK p, r, k, v : /\ p = proc[e].plan /\ r = proc[e].request /\ k = IntentOf[proc[e].kind]
                        /\ v = [kind |-> k, request |-> r]
  OBVIOUS
<1>3. /\ k \in Kinds /\ k \in Unfinished /\ StateAfter[k] = k /\ StateAfter[k] \in Intents
      /\ CommandOf(k) = proc[e].kind
  BY <1>1, <1>2, CommandTables, IntentTables, KindTables
<1>4. UNCHANGED command /\ Appended(e, k) /\ Appendable(e, k)
      /\ proc' = [proc EXCEPT ![e].pc = "check", ![e].state = k, ![e].sequence = @ + 1]
  BY <1>2 DEF AppendIntent
<1>5. /\ p \in Plans /\ r \in Requests /\ v \in Events /\ v.kind = k /\ v.request = r
      /\ journal' = [journal EXCEPT ![p] = Append(@, v)]
  BY <1>1, <1>2, <1>3, <1>4, AppendFacts
<1>6. /\ Len(journal[p]) + 1 \in DOMAIN journal'[p] /\ journal'[p][Len(journal[p]) + 1] = v
  BY <1>1, <1>5, NewRow
<1>7. proc[e].sequence = Len(journal[p])
  BY <1>2 DEF Appendable
<1>8. /\ proc'[e].pc = "check" /\ proc'[e].state = k /\ proc'[e].sequence = Len(journal[p]) + 1
      /\ proc'[e].plan = p /\ proc'[e].request = r /\ proc'[e].kind = proc[e].kind
      /\ proc'[e].todo = proc[e].todo
  BY <1>1, <1>2, <1>4, <1>7 DEF TypeOK, Calls
<1> QED  BY <1>3, <1>5, <1>6, <1>8 DEF RowOf

LEMMA NextBacked == ASSUME Base, KindsFit, Backed, Next PROVE Backed'
<1> DEFINE Good(f) ==
        /\ proc[f].pc \in Working =>
             /\ RowOf(proc[f].plan, proc[f].request, proc[f].sequence, proc[f].state)
             /\ proc[f].kind = CommandOf(proc[f].state)
        /\ proc[f].pc \in Late => proc[f].state \in Intents
        /\ \A item \in proc[f].todo : RowOf(item.plan, item.request, item.sequence, item.state)
<1>1. TypeOK /\ LegalHistory /\ ProcType /\ \A f \in Processes : Good(f) /\ proc[f] \in Calls
  BY TypedParts, CallType DEF Base, Backed, Typed
<1>2. ASSUME NEW f \in Processes, proc'[f] = proc[f] PROVE Good(f)'
  BY <1>1, <1>2, RowStays
<1>3. ASSUME NEW e \in Processes, Ended(e) PROVE Good(e)'
  BY <1>1, <1>3, RowStays DEF Ended, Working
<1>4. ASSUME NEW e \in Processes, Framed(e) PROVE Good(e)'
  <2>1. proc'[e].pc \in Late => proc'[e].state \in Intents
    BY <1>1, <1>4 DEF Framed
  <2>2. proc'[e].pc \in Working =>
             /\ RowOf(proc[e].plan, proc[e].request, proc[e].sequence, proc[e].state)
             /\ proc'[e].kind = CommandOf(proc'[e].state)
    BY <1>1, <1>4 DEF Framed
  <2>3. /\ proc'[e].plan = proc[e].plan /\ proc'[e].request = proc[e].request
        /\ proc'[e].sequence = proc[e].sequence /\ proc'[e].state = proc[e].state
        /\ proc'[e].todo \subseteq proc[e].todo
    BY <1>4 DEF Framed
  <2>4. proc'[e].pc \in Working =>
            RowOf(proc[e].plan, proc[e].request, proc[e].sequence, proc[e].state)'
    BY <2>2, <2>3, RowStays DEF RowOf
  <2>5. \A item \in proc'[e].todo : RowOf(item.plan, item.request, item.sequence, item.state)'
    BY <1>1, <2>3, RowStays DEF RowOf
  <2> QED  BY <2>1, <2>2, <2>4, <2>5
<1>5. ASSUME NEW e \in Processes, Step(e) PROVE Good(e)'
  <2>1. CASE Start(e) /\ ~Returns(e)
    <3>1. \A item \in proc[e].todo : RowOf(item.plan, item.request, item.sequence, item.state)'
      BY <1>1, RowStays DEF RowOf
    <3> QED  BY <2>1, <3>1, StartBacked DEF Late, RowOf
  <2>2. CASE AppendIntent(e) /\ Appendable(e, IntentOf[proc[e].kind])
    <3>1. \A item \in proc[e].todo : RowOf(item.plan, item.request, item.sequence, item.state)'
      BY <1>1, RowStays DEF RowOf
    <3> QED  BY <2>2, <3>1, IntentBacked DEF RowOf
  <2>3. CASE Retakes(e)
    <3>1. PICK item \in proc[e].todo : proc' = [proc EXCEPT ![e] = Taking(e, item)]
      BY <2>3 DEF Retakes
    <3>2. /\ proc'[e].pc = (IF item.state \in Intents THEN "renew" ELSE "refuse")
          /\ proc'[e].plan = item.plan /\ proc'[e].request = item.request
          /\ proc'[e].sequence = item.sequence /\ proc'[e].state = item.state
          /\ proc'[e].kind = CommandOf(item.state) /\ proc'[e].todo \subseteq proc[e].todo
      BY <1>1, <3>1 DEF Taking, Idle, ProcType
    <3>3. RowOf(item.plan, item.request, item.sequence, item.state)'
      BY <1>1, <3>1, RowStays DEF RowOf
    <3>4. \A other \in proc'[e].todo : RowOf(other.plan, other.request, other.sequence, other.state)'
      BY <1>1, <3>2, RowStays DEF RowOf
    <3> QED  BY <3>2, <3>3, <3>4 DEF Late, RowOf
  <2> QED  BY <1>1, <1>3, <1>4, <1>5, <2>1, <2>2, <2>3, FramedSteps
<1>6. ASSUME NEW e \in Processes, Recover(e) PROVE Good(e)'
  <2>1. /\ proc' = [proc EXCEPT ![e].pc = "next", ![e].todo = {Listed(p) : p \in Abandoned}]
        /\ UNCHANGED journal
    BY <1>6 DEF Recover, journalVars
  <2>2. proc'[e].pc = "next" /\ proc'[e].todo = {Listed(p) : p \in Abandoned}
    BY <1>1, <2>1 DEF ProcType, Calls
  <2>3. ASSUME NEW item \in proc'[e].todo
        PROVE  RowOf(item.plan, item.request, item.sequence, item.state)'
    <3>0. PICK p \in Abandoned : item = Listed(p)
      BY <2>2
    <3>1. p \in Plans /\ State(p) \in Unfinished
      BY DEF Abandoned
    <3>2. /\ Len(journal[p]) \in DOMAIN journal[p] /\ Latest(p).request \in Requests
          /\ State(p) = StateAfter[Latest(p).kind]
      BY <1>1, <3>1, StateType, LatestIsRequested
    <3>3. RowOf(p, Latest(p).request, Len(journal[p]), State(p))
      BY <3>1, <3>2 DEF RowOf, Latest
    <3>4. /\ item.plan = p /\ item.request = Latest(p).request
          /\ item.sequence = Len(journal[p]) /\ item.state = State(p)
      BY <3>0 DEF Listed
    <3> QED  BY <2>1, <3>3, <3>4 DEF RowOf
  <2> QED  BY <2>2, <2>3 DEF Working, Late
<1>7. ASSUME NEW e \in Processes, \/ FailedCall(e) \/ Crash(e)
                                  \/ \E p \in Plans, r \in Requests, k \in Commands : Begin(e, p, r, k)
      PROVE  Good(e)'
  <2>1. CASE FailedCall(e) \/ Crash(e)
    BY <1>1, <1>3, <2>1, Ending DEF FailedCall, Crash
  <2>2. CASE \E p \in Plans, r \in Requests, k \in Commands : Begin(e, p, r, k)
    <3>1. proc'[e].pc = "start" /\ proc'[e].todo = {}
      BY <1>1, <2>2 DEF Begin, Idle, ProcType
    <3> QED  BY <3>1 DEF Working, Late
  <2> QED  BY <1>7, <2>1, <2>2
<1>8. CASE PowerLoss
  <2>1. \A f \in Processes : proc'[f].pc = "idle" /\ proc'[f].todo = {}
    BY <1>8 DEF PowerLoss, Idle
  <2> QED  BY <2>1 DEF Backed, Working, Late
<1>9. CASE (\E p \in Plans : CreatePreview(p) \/ ExpireLease(p)) \/ ChangeFolder
  BY <1>2, <1>9 DEF CreatePreview, ExpireLease, ChangeFolder, Backed
<1> QED
  <2>1. ASSUME NEW e \in Processes,
               \/ Step(e) \/ Recover(e) \/ FailedCall(e) \/ Crash(e)
               \/ \E p \in Plans, r \in Requests, k \in Commands : Begin(e, p, r, k)
        PROVE  Backed'
    <3>1. \A f \in Processes : Good(f)'
      BY <1>1, <1>2, <1>5, <1>6, <1>7, <2>1, OthersStay
    <3> QED  BY <3>1 DEF Backed
  <2> QED  BY <1>8, <1>9, <2>1 DEF Next, Actions


-----------------------------------------------------------------------------
(* What a call has seen.  While its row is still the last of the plan, the *)
(* folder showed, since the intent, what the call is about to report.      *)
Seeing == {"confirm", "verify", "complete", "inspect", "conclude"}
Saw(e) ==
    LET s == seen[proc[e].plan][proc[e].request]
        pc == proc[e].pc
        verdict == proc[e].verdict
    IN  /\ pc \in {"confirm", "verify", "complete"} => "vacated" \in s
        /\ pc = "complete" \/ (pc \in {"inspect", "conclude"} /\ verdict = "applied") => "arrived" \in s
        /\ pc \in {"inspect", "conclude"} /\ verdict = "not_applied" => "at_source" \in s
        /\ pc = "conclude" /\ verdict = "applied" => "vacated" \in s
        /\ pc = "conclude" /\ verdict = "not_applied" => "free" \in s
Current(e) == Len(journal[proc[e].plan]) = proc[e].sequence
SawTheFolder == \A e \in Processes : proc[e].pc \in Seeing /\ Current(e) => Saw(e)
SeenIsNow ==
    \A p \in Plans, r \in Requests :
        InIntent(p, r) => Facts(p, CommandOf(State(p))) \subseteq seen[p][r]

LEMMA SeenGrows ==
    ASSUME TypeOK, Next, NEW p \in Plans, NEW r \in Requests
    PROVE  seen[p][r] \subseteq seen'[p][r]
  BY DEF Next, Watch

LEMMA NextSeen == ASSUME Next PROVE SeenIsNow'
  BY DEF Next, Watch, SeenIsNow

\* The folder as a call that works for the last row of its plan finds it has been seen.
LEMMA SeesFacts ==
    ASSUME TypeOK, Backed, SeenIsNow, NEW e \in Processes, proc[e].pc \in Late, Current(e)
    PROVE  /\ proc[e].plan \in Plans /\ proc[e].request \in Requests
           /\ Facts(proc[e].plan, proc[e].kind) \subseteq seen[proc[e].plan][proc[e].request]
<1> DEFINE p == proc[e].plan
           r == proc[e].request
<1>1. /\ RowOf(p, r, proc[e].sequence, proc[e].state)
      /\ proc[e].kind = CommandOf(proc[e].state)
      /\ proc[e].state \in Intents
  BY DEF Backed, Working
<1>2. /\ p \in Plans /\ r \in Requests
      /\ journal[p] # <<>> /\ Latest(p).request = r /\ StateAfter[Latest(p).kind] = proc[e].state
  BY <1>1 DEF RowOf, Current, Latest
<1>3. State(p) = proc[e].state
  BY <1>2 DEF State
<1>4. InIntent(p, r)
  BY <1>1, <1>2, <1>3 DEF InIntent
<1> QED  BY <1>1, <1>2, <1>3, <1>4 DEF SeenIsNow

\* Which steps lead to where something was seen.
LookSteps(e) ==
    /\ proc'[e].plan = proc[e].plan /\ proc'[e].request = proc[e].request
    /\ proc'[e].kind = proc[e].kind /\ proc'[e].sequence = proc[e].sequence
    /\ proc[e].pc \in Late /\ UNCHANGED journal
    /\ \/ proc[e].pc = "settle" /\ proc'[e].pc = "confirm"
          /\ disk[From(proc[e].plan, proc[e].kind)] = Nothing
       \/ proc[e].pc = "confirm" /\ proc'[e].pc = "verify"
       \/ proc[e].pc = "verify" /\ proc'[e].pc = "complete"
          /\ Exact(proc[e].plan, To(proc[e].plan, proc[e].kind))
       \/ proc'[e].pc = "inspect" /\ proc'[e].verdict = "not_applied"
          /\ Exact(proc[e].plan, From(proc[e].plan, proc[e].kind))
       \/ proc'[e].pc = "inspect" /\ proc'[e].verdict = "applied"
          /\ Exact(proc[e].plan, To(proc[e].plan, proc[e].kind))
       \/ proc[e].pc = "inspect" /\ proc'[e].pc = "conclude"
          /\ proc'[e].verdict = proc[e].verdict /\ disk[OtherName(e)] = Nothing
       \/ proc'[e].pc = "conclude" /\ proc'[e].verdict = "ambiguous"

LEMMA Looking ==
    ASSUME TypeOK, NEW e \in Processes, Step(e)
    PROVE  proc'[e].pc \notin Seeing \/ LookSteps(e)
<1>1. ProcType /\ proc[e] \in Calls
  BY TypedParts, CallType DEF Typed
<1>2. (Returns(e) \/ Fails(e)) => proc'[e].pc \notin Seeing
  BY <1>1 DEF ProcType, Returns, Fails, Idle, Seeing, Calls
<1>3. \A pc \in Steps \ Seeing : Goto(e, pc) => proc'[e].pc \notin Seeing
  BY <1>1 DEF ProcType, Goto, Calls
<1>4. ASSUME NEW kind \in Kinds, AppendLast(e, kind) PROVE proc'[e].pc \notin Seeing
  BY <1>2, <1>3, <1>4 DEF AppendLast, Steps, Seeing
<1>5. CASE Start(e) \/ AppendIntent(e)
  BY <1>1, <1>2, <1>5 DEF Start, Replay, Accept, Reject, AppendIntent, ProcType, Calls, Seeing
<1>6. CASE Refuse(e) \/ Complete(e) \/ Conclude(e)
  <2>1. proc[e].kind \in Commands /\ proc[e].verdict \in Verdicts
    BY <1>1 DEF Calls
  <2>2. VerdictOf(proc[e].verdict, proc[e].kind) \in Kinds
    BY <2>1, CommandTables DEF VerdictOf, Verdicts
  <2> QED BY <1>4, <1>6, <2>1, <2>2, CommandTables DEF Refuse, Complete, Conclude
<1>7. CASE AcquireLease(e) \/ Bind(e) \/ Prepare(e) \/ Check(e) \/ Rename(e) \/ Renew(e) \/ Release(e)
  BY <1>2, <1>3, <1>7
  DEF AcquireLease, Bind, Prepare, Check, Rename, Renew, Renewed, Release, Steps, Seeing
<1>8. ASSUME NEW pc, Goto(e, pc)
      PROVE  /\ proc'[e].plan = proc[e].plan /\ proc'[e].request = proc[e].request
             /\ proc'[e].kind = proc[e].kind /\ proc'[e].sequence = proc[e].sequence
             /\ proc'[e].verdict = proc[e].verdict /\ proc'[e].pc = pc
  BY <1>1, <1>8 DEF Goto, ProcType, Calls
<1>9. ASSUME NEW pc, NEW v, proc' = [proc EXCEPT ![e].pc = pc, ![e].verdict = v]
      PROVE  /\ proc'[e].plan = proc[e].plan /\ proc'[e].request = proc[e].request
             /\ proc'[e].kind = proc[e].kind /\ proc'[e].sequence = proc[e].sequence
             /\ proc'[e].verdict = v /\ proc'[e].pc = pc
  BY <1>1, <1>9 DEF ProcType, Calls
<1>10. CASE Settle(e)
  <2>1. CASE Goto(e, "renew")
    BY <1>3, <2>1 DEF Steps, Seeing
  <2>2. CASE Goto(e, "confirm") /\ disk[From(proc[e].plan, proc[e].kind)] = Nothing
    BY <1>8, <1>10, <2>2 DEF Settle, LookSteps, Late, journalVars
  <2> QED  BY <1>10, <2>1, <2>2 DEF Settle
<1>11. CASE Confirm(e)
  <2>1. CASE Goto(e, "verify")
    BY <1>8, <1>11, <2>1 DEF Confirm, Renewed, LookSteps, Late, journalVars
  <2> QED  BY <1>2, <1>11, <2>1 DEF Confirm, Renewed
<1>12. CASE Verify(e)
  <2>1. CASE Goto(e, "renew")
    BY <1>3, <2>1 DEF Steps, Seeing
  <2>2. CASE Goto(e, "complete") /\ Exact(proc[e].plan, To(proc[e].plan, proc[e].kind))
    BY <1>8, <1>12, <2>2 DEF Verify, LookSteps, Late, journalVars
  <2> QED  BY <1>12, <2>1, <2>2 DEF Verify
<1>13. CASE Observe(e)
  <2>1. CASE Goto(e, "observe_after")
    BY <1>3, <2>1 DEF Steps, Seeing
  <2>2. CASE /\ Exact(proc[e].plan, From(proc[e].plan, proc[e].kind))
             /\ proc' = [proc EXCEPT ![e].pc = "inspect", ![e].verdict = "not_applied"]
    BY <1>9, <1>13, <2>2 DEF Observe, LookSteps, Late, journalVars
  <2> QED  BY <1>13, <2>1, <2>2 DEF Observe
<1>14. CASE ObserveAfter(e)
  <2>1. CASE proc' = [proc EXCEPT ![e].pc = "conclude", ![e].verdict = "ambiguous"]
    BY <1>9, <1>14, <2>1 DEF ObserveAfter, LookSteps, Late, journalVars
  <2>2. CASE /\ Exact(proc[e].plan, To(proc[e].plan, proc[e].kind))
             /\ proc' = [proc EXCEPT ![e].pc = "inspect", ![e].verdict = "applied"]
    BY <1>9, <1>14, <2>2 DEF ObserveAfter, LookSteps, Late, journalVars
  <2> QED  BY <1>14, <2>1, <2>2 DEF ObserveAfter
<1>15. CASE Inspect(e)
  <2>1. CASE proc' = [proc EXCEPT ![e].pc = "conclude", ![e].verdict = "ambiguous"]
    BY <1>9, <1>15, <2>1 DEF Inspect, LookSteps, Late, journalVars
  <2>2. CASE Goto(e, "conclude") /\ disk[OtherName(e)] = Nothing
    BY <1>8, <1>15, <2>2 DEF Inspect, LookSteps, Late, journalVars
  <2> QED  BY <1>15, <2>1, <2>2 DEF Inspect
<1>16. CASE RecoverNext(e)
  <2>1. PICK item \in proc[e].todo :
             \/ proc' = [proc EXCEPT ![e] = Taking(e, item)]
             \/ Returns(e)
             \/ proc' = [proc EXCEPT ![e].todo = proc[e].todo \ {item}]
    BY <1>16, RecoverNextSteps
  <2>2. CASE proc' = [proc EXCEPT ![e] = Taking(e, item)]
    BY <1>1, <2>2 DEF Taking, Idle, ProcType, Seeing
  <2>3. CASE proc' = [proc EXCEPT ![e].todo = proc[e].todo \ {item}]
    <3>1. proc[e].pc = "next"
      BY <1>16 DEF RecoverNext
    <3> QED BY <1>1, <2>3, <3>1 DEF ProcType, Calls, Seeing
  <2> QED  BY <1>2, <2>1, <2>2, <2>3
<1> QED  BY <1>5, <1>6, <1>7, <1>10, <1>11, <1>12, <1>13, <1>14, <1>15, <1>16 DEF Step

\* A row that was the last of its plan before is all that can be the last after a step.
LEMMA StaysCurrent ==
    ASSUME Base, Next, NEW p, NEW r, NEW n, NEW s, RowOf(p, r, n, s), Len(journal'[p]) = n
    PROVE  Len(journal[p]) = n
<1>1. TypeOK /\ TypeOK'
  BY NextType DEF Base
<1>2. /\ Len(journal[p]) \in Nat /\ DOMAIN journal[p] = 1..Len(journal[p])
      /\ Len(journal'[p]) \in Nat /\ DOMAIN journal'[p] = 1..Len(journal'[p])
  BY <1>1 DEF TypeOK, RowOf
<1>3. n \in DOMAIN journal[p] /\ Len(journal[p]) \in DOMAIN journal[p]
  BY <1>2 DEF RowOf
<1>4. Len(journal[p]) \in DOMAIN journal'[p]
  BY <1>3, RowsStay DEF RowOf
<1> QED  BY <1>2, <1>3, <1>4

LEMMA NextSaw == ASSUME Base, Backed, SeenIsNow, SawTheFolder, Next PROVE SawTheFolder'
<1>1. TypeOK /\ ProcType
  BY TypedParts DEF Base, Typed
<1>2. ASSUME NEW f \in Processes, proc'[f] = proc[f], proc'[f].pc \in Seeing, Current(f)'
      PROVE  Saw(f)'
  <2>1. RowOf(proc[f].plan, proc[f].request, proc[f].sequence, proc[f].state)
    BY <1>2 DEF Backed, Seeing, Working, Late
  <2>2. Current(f)
    BY <1>2, <2>1, StaysCurrent DEF Current
  <2>3. Saw(f)
    BY <1>2, <2>2 DEF SawTheFolder
  <2>4. seen[proc[f].plan][proc[f].request] \subseteq seen'[proc[f].plan][proc[f].request]
    BY <1>1, <2>1, SeenGrows DEF RowOf
  <2> QED  BY <1>2, <2>3, <2>4 DEF Saw
<1>3. ASSUME NEW e \in Processes, Step(e), proc'[e].pc \in Seeing, Current(e)'
      PROVE  Saw(e)'
  <2>1. LookSteps(e)
    BY <1>1, <1>3, Looking
  <2>2. PICK p, r, k : p = proc[e].plan /\ r = proc[e].request /\ k = proc[e].kind
    OBVIOUS
  <2>3. Current(e) /\ proc[e].pc \in Late
    BY <1>3, <2>1 DEF LookSteps, Current
  <2>4. p \in Plans /\ r \in Requests /\ Facts(p, k) \subseteq seen[p][r]
    BY <1>1, <2>2, <2>3, SeesFacts
  <2>5. Facts(p, k) \subseteq seen'[p][r] /\ seen[p][r] \subseteq seen'[p][r]
    BY <1>1, <2>4, SeenGrows
  <2>6. /\ disk[From(p, k)] = Nothing => "vacated" \in Facts(p, k)
        /\ disk[To(p, k)] = Nothing => "free" \in Facts(p, k)
        /\ Exact(p, From(p, k)) => "at_source" \in Facts(p, k)
        /\ Exact(p, To(p, k)) => "arrived" \in Facts(p, k)
    BY DEF Facts, FolderFacts
  <2>7. proc[e].pc \in Seeing => Saw(e)
    BY <2>3 DEF SawTheFolder
  <2>8. proc'[e].plan = p /\ proc'[e].request = r
    BY <2>1, <2>2 DEF LookSteps
  <2>9. CASE proc'[e].pc \in {"confirm", "verify", "complete"}
    BY <2>1, <2>2, <2>5, <2>6, <2>7, <2>8, <2>9 DEF LookSteps, Saw, Seeing
  <2>10. CASE proc'[e].pc = "inspect"
    BY <2>1, <2>2, <2>5, <2>6, <2>8, <2>10 DEF LookSteps, Saw
  <2>11. CASE proc'[e].pc = "conclude"
    BY <2>1, <2>2, <2>5, <2>6, <2>7, <2>8, <2>11 DEF LookSteps, Saw, Seeing, OtherName
  <2> QED  BY <1>3, <2>9, <2>10, <2>11 DEF Seeing
<1>4. ASSUME NEW e \in Processes, \/ Recover(e) \/ FailedCall(e) \/ Crash(e)
                                  \/ \E p \in Plans, r \in Requests, k \in Commands : Begin(e, p, r, k)
      PROVE  proc'[e].pc \notin Seeing
  <2>1. proc[e] \in Calls
    BY <1>1 DEF TypeOK
  <2>2. CASE Returns(e) \/ Fails(e)
    BY <1>1, <2>1, <2>2 DEF Returns, Fails, Idle, ProcType, Calls, Seeing
  <2>3. CASE Recover(e)
    BY <1>1, <2>1, <2>3 DEF Recover, ProcType, Calls, Seeing
  <2>4. CASE \E p \in Plans, r \in Requests, k \in Commands : Begin(e, p, r, k)
    BY <1>1, <2>4 DEF Begin, Idle, ProcType, Seeing
  <2> QED  BY <1>4, <2>2, <2>3, <2>4 DEF FailedCall, Crash
<1>5. CASE PowerLoss
  BY <1>5 DEF PowerLoss, Idle, Seeing, SawTheFolder
<1>6. CASE (\E p \in Plans : CreatePreview(p) \/ ExpireLease(p)) \/ ChangeFolder
  BY <1>2, <1>6 DEF CreatePreview, ExpireLease, ChangeFolder, SawTheFolder
<1> QED
  <2>1. ASSUME NEW e \in Processes,
               \/ Step(e) \/ Recover(e) \/ FailedCall(e) \/ Crash(e)
               \/ \E p \in Plans, r \in Requests, k \in Commands : Begin(e, p, r, k)
        PROVE  SawTheFolder'
    BY <1>1, <1>2, <1>3, <1>4, <2>1, OthersStay DEF SawTheFolder
  <2> QED  BY <1>5, <1>6, <2>1 DEF Next, Actions


Answers == {CompletedOf[c] : c \in Commands} \cup {NotAppliedOf[c] : c \in Commands}
Reporting(e, kind) ==
    \/ proc[e].pc = "complete" /\ kind = CompletedOf[proc[e].kind]
    \/ proc[e].pc = "conclude" /\ kind = VerdictOf(proc[e].verdict, proc[e].kind)

LEMMA AnswerTables ==
    /\ \A k \in Commands : /\ RequestedBy[k] \notin Answers /\ IntentOf[k] \notin Answers
                           /\ NotStartedOf[k] \notin Answers /\ AttentionOf[k] \notin Answers
    /\ "preview_created" \notin Answers
    /\ {CompletedOf[c] : c \in Commands} \cap {NotAppliedOf[c] : c \in Commands} = {}
    /\ \A k \in Commands : /\ CompletedOf[k] \in {CompletedOf[c] : c \in Commands}
                           /\ NotAppliedOf[k] \in {NotAppliedOf[c] : c \in Commands}
  BY DEF Answers, Commands, RequestedBy, IntentOf, NotStartedOf, AttentionOf, CompletedOf, NotAppliedOf

\* A row that reports an outcome is the last append of a call that completed or concluded.
LEMMA ReportSteps ==
    ASSUME TypeOK, Next
    PROVE  \/ UNCHANGED journal
           \/ \E p \in Plans : CreatePreview(p)
           \/ \E e \in Processes : Start(e) /\ Accept(e)
           \/ \E e \in Processes, kind \in Kinds :
                /\ Appendable(e, kind) /\ Appended(e, kind) /\ UNCHANGED <<command, folder>>
                /\ Goto(e, "release") \/ AppendIntent(e)
                /\ kind \in Answers => Reporting(e, kind)
<1>1. ASSUME NEW e \in Processes PROVE proc[e].kind \in Commands /\ proc[e].verdict \in Verdicts
  BY DEF TypeOK, Calls
<1>2. ASSUME NEW e \in Processes, Step(e) PROVE
           \/ UNCHANGED journal
           \/ \E f \in Processes : Start(f) /\ Accept(f)
           \/ \E f \in Processes, kind \in Kinds :
                /\ Appendable(f, kind) /\ Appended(f, kind) /\ UNCHANGED <<command, folder>>
                /\ Goto(f, "release") \/ AppendIntent(f)
                /\ kind \in Answers => Reporting(f, kind)
  <2>1. CASE Start(e)
    BY <2>1 DEF Start, Replay, Reject
  <2>2. CASE Refuse(e)
    BY <2>2, <1>1, CommandTables, AnswerTables DEF Refuse, AppendLast
  <2>3. CASE AppendIntent(e)
    BY <2>3, <1>1, CommandTables, AnswerTables DEF AppendIntent
  <2>4. CASE Complete(e)
    BY <2>4, <1>1, CommandTables DEF Complete, AppendLast, Reporting
  <2>5. CASE Conclude(e)
    <3>1. VerdictOf(proc[e].verdict, proc[e].kind) \in Kinds
      BY <1>1, CommandTables DEF VerdictOf, Verdicts
    <3> QED BY <2>5, <3>1, <1>1 DEF Conclude, AppendLast, Reporting
  <2>6. CASE AcquireLease(e) \/ Bind(e) \/ Prepare(e) \/ Check(e) \/ Rename(e)
    BY <2>6 DEF AcquireLease, Bind, Prepare, Check, Rename, journalVars
  <2>7. CASE Settle(e) \/ Confirm(e) \/ Verify(e) \/ Renew(e) \/ Observe(e)
    BY <2>7 DEF Settle, Confirm, Verify, Renew, Renewed, Observe, journalVars
  <2>8. CASE ObserveAfter(e) \/ Inspect(e) \/ Release(e) \/ RecoverNext(e)
    BY <2>8 DEF ObserveAfter, Inspect, Release, RecoverNext, journalVars
  <2> QED BY <1>2, <2>1, <2>2, <2>3, <2>4, <2>5, <2>6, <2>7, <2>8 DEF Step
<1>3. CASE \E p \in Plans : CreatePreview(p) \/ ExpireLease(p)
  BY <1>3 DEF ExpireLease, journalVars
<1>4. CASE \E e \in Processes :
             \/ \E p \in Plans, r \in Requests, k \in Commands : Begin(e, p, r, k)
             \/ Recover(e) \/ FailedCall(e) \/ Crash(e)
  BY <1>4 DEF Begin, Recover, FailedCall, Crash, journalVars
<1>5. CASE PowerLoss \/ ChangeFolder
  BY <1>5 DEF PowerLoss, ChangeFolder, journalVars
<1> QED BY <1>2, <1>3, <1>4, <1>5 DEF Next, Actions

\* One row and what was seen for its request.
RowSeen(p, i) ==
    /\ journal[p][i].kind \in {CompletedOf[c] : c \in Commands}
         => {"vacated", "arrived"} \subseteq seen[p][journal[p][i].request]
    /\ journal[p][i].kind \in {NotAppliedOf[c] : c \in Commands}
         => {"at_source", "free"} \subseteq seen[p][journal[p][i].request]

LEMMA SeenRows == AnswersAreWitnessed <=> \A p \in Plans : \A i \in DOMAIN journal[p] : RowSeen(p, i)
  BY DEF AnswersAreWitnessed, RowSeen

LEMMA OldRowsSeen ==
    ASSUME Base, Next, NEW p \in Plans, NEW i \in DOMAIN journal[p], RowSeen(p, i)
    PROVE  RowSeen(p, i)'
<1>1. journal'[p][i] = journal[p][i]
  BY RowsStay
<1>2. CASE journal[p][i].kind \in Answers
  <2>1. journal[p][i].request \in Requests
    BY <1>2, AnswerTables DEF Base, LegalHistory
  <2>2. seen[p][journal[p][i].request] \subseteq seen'[p][journal[p][i].request]
    BY <2>1, SeenGrows DEF Base
  <2> QED  BY <1>1, <2>2 DEF RowSeen
<1>3. CASE journal[p][i].kind \notin Answers
  BY <1>1, <1>3 DEF RowSeen, Answers
<1> QED  BY <1>2, <1>3

LEMMA NextWitnessed ==
    ASSUME Base, Backed, SeenIsNow, SawTheFolder, AnswersAreWitnessed, Next
    PROVE  AnswersAreWitnessed'
<1>1. TypeOK /\ LegalHistory /\ Chains /\ \A p \in Plans : \A i \in DOMAIN journal[p] : RowSeen(p, i)
  BY SeenRows DEF Base
<1>2. ASSUME NEW q \in Plans, NEW v,
             journal' = [journal EXCEPT ![q] = Append(@, v)], v \in Events,
             v.kind \in Answers => /\ v.request \in Requests
                                   /\ v.kind \in {CompletedOf[c] : c \in Commands}
                                        => {"vacated", "arrived"} \subseteq seen[q][v.request]
                                   /\ v.kind \in {NotAppliedOf[c] : c \in Commands}
                                        => {"at_source", "free"} \subseteq seen[q][v.request]
      PROVE  AnswersAreWitnessed'
  <2>1. ASSUME NEW p \in Plans, NEW i \in DOMAIN journal'[p] PROVE RowSeen(p, i)'
    <3>1. CASE i \in DOMAIN journal[p]
      BY <1>1, <3>1, OldRowsSeen
    <3>2. CASE i \notin DOMAIN journal[p]
      <4>1. p = q  BY <1>1, <1>2, <2>1, <3>2, Grown
      <4>2. i = Len(journal[p]) + 1  BY <1>1, <1>2, <2>1, <3>2, <4>1, Grown
      <4>3. journal'[q][Len(journal[q]) + 1] = v  BY <1>1, <1>2, Grown
      <4>4. journal'[p][i] = v  BY <4>1, <4>2, <4>3
      <4>5. v.kind \in Answers => seen[q][v.request] \subseteq seen'[q][v.request]
        BY <1>1, <1>2, SeenGrows
      <4> QED  BY <1>2, <4>1, <4>4, <4>5 DEF RowSeen, Answers
    <3> QED  BY <3>1, <3>2
  <2> QED  BY <2>1 DEF AnswersAreWitnessed, RowSeen
<1>3. CASE UNCHANGED journal
  BY <1>1, <1>3, OldRowsSeen DEF AnswersAreWitnessed, RowSeen
<1>4. ASSUME NEW q \in Plans, CreatePreview(q) PROVE AnswersAreWitnessed'
  <2>1. journal' = [journal EXCEPT ![q] = <<[kind |-> "preview_created", request |-> NoRequest]>>]
    BY <1>4 DEF CreatePreview
  <2>2. ASSUME NEW p \in Plans, NEW i \in DOMAIN journal'[p] PROVE RowSeen(p, i)'
    <3>1. CASE p = q
      <4>1. journal'[p][i].kind = "preview_created"
        BY <1>1, <2>1, <2>2, <3>1 DEF TypeOK
      <4> QED  BY <4>1, AnswerTables DEF RowSeen, Answers
    <3>2. CASE p # q
      <4>1. journal'[p] = journal[p]
        BY <1>1, <2>1, <3>2 DEF TypeOK
      <4> QED  BY <1>1, <2>2, <4>1, OldRowsSeen
    <3> QED  BY <3>1, <3>2
  <2> QED  BY <2>2 DEF AnswersAreWitnessed, RowSeen
<1>5. ASSUME NEW e \in Processes, proc[e].pc = "start", Accept(e) PROVE AnswersAreWitnessed'
  <2>1. /\ proc[e].plan \in Plans /\ proc[e].kind \in Commands
        /\ Asked(e) \in Events /\ Asked(e).kind = RequestedBy[proc[e].kind]
        /\ journal' = [journal EXCEPT ![proc[e].plan] = Append(@, Asked(e))]
    BY <1>5, AcceptFacts
  <2>2. Asked(e).kind \notin Answers
    BY <2>1, AnswerTables
  <2> QED  BY <1>2, <2>1, <2>2
<1>6. ASSUME NEW e \in Processes, NEW kind \in Kinds,
             Appendable(e, kind), Appended(e, kind), UNCHANGED command,
             kind \in Answers => Reporting(e, kind)
      PROVE  AnswersAreWitnessed'
  <2>1. PICK p, r, v : /\ p = proc[e].plan /\ r = proc[e].request
                       /\ v = [kind |-> kind, request |-> r]
    OBVIOUS
  <2>2. /\ p \in Plans /\ r \in Requests /\ v \in Events
        /\ journal' = [journal EXCEPT ![p] = Append(@, v)]
        /\ v.request = r /\ v.kind = kind
    BY <1>1, <1>6, <2>1, AppendFacts
  <2>3. Current(e) /\ proc[e].kind \in Commands /\ proc[e].verdict \in Verdicts
    BY <1>1, <1>6 DEF Appendable, Current, TypeOK, Calls
  <2>4. kind \in Answers => Saw(e)
    BY <1>6, <2>3 DEF Reporting, SawTheFolder, Seeing
  <2>5. CASE kind \in {CompletedOf[c] : c \in Commands}
    <3>1. proc[e].pc = "complete" \/ (proc[e].pc = "conclude" /\ proc[e].verdict = "applied")
      BY <1>6, <2>3, <2>5, AnswerTables DEF Answers, Reporting, VerdictOf, Verdicts
    <3>2. {"vacated", "arrived"} \subseteq seen[p][r]
      BY <2>1, <2>4, <2>5, <3>1 DEF Saw, Answers
    <3> QED  BY <1>2, <2>2, <2>5, <3>2, AnswerTables
  <2>6. CASE kind \in {NotAppliedOf[c] : c \in Commands}
    <3>1. proc[e].pc = "conclude" /\ proc[e].verdict = "not_applied"
      BY <1>6, <2>3, <2>6, AnswerTables DEF Answers, Reporting, VerdictOf, Verdicts
    <3>2. {"at_source", "free"} \subseteq seen[p][r]
      BY <2>1, <2>4, <2>6, <3>1 DEF Saw, Answers
    <3> QED  BY <1>2, <2>2, <2>6, <3>2, AnswerTables
  <2>7. CASE kind \notin Answers
    BY <1>2, <2>2, <2>7
  <2> QED  BY <2>5, <2>6, <2>7 DEF Answers
<1> QED  BY <1>1, <1>3, <1>4, <1>5, <1>6, ReportSteps DEF Start

Witness == KindsFit /\ Backed /\ SeenIsNow /\ SawTheFolder /\ AnswersAreWitnessed

LEMMA InitWitness == Init => Witness
<1> SUFFICES ASSUME Init PROVE Witness
  OBVIOUS
<1>1. \A e \in Processes : proc[e].pc = "idle" /\ proc[e].todo = {}
  BY DEF Init, Idle
<1>2. \A p \in Plans : journal[p] = <<>> /\ State(p) = "none"
  BY DEF Init, State
<1>3. KindsFit /\ AnswersAreWitnessed
  BY <1>2 DEF KindsFit, AnswersAreWitnessed
<1>4. Backed /\ SawTheFolder
  BY <1>1 DEF Backed, SawTheFolder, Working, Late, Seeing
<1>5. SeenIsNow
  BY <1>2 DEF SeenIsNow, InIntent, Intents
<1> QED  BY <1>3, <1>4, <1>5 DEF Witness

LEMMA KeepWitness == Base /\ Witness /\ [Next]_vars => Witness'
<1>1. Base /\ Witness /\ Next => Witness'
  BY NextKinds, NextBacked, NextSeen, NextSaw, NextWitnessed DEF Witness
<1>2. Witness /\ UNCHANGED vars => Witness'
  <2> SUFFICES ASSUME Witness, UNCHANGED vars PROVE Witness'
    OBVIOUS
  <2>1. KindsFit' /\ AnswersAreWitnessed'
    BY DEF Witness, vars, journalVars, KindsFit, AnswersAreWitnessed
  <2>2. Backed'
    BY DEF Witness, vars, journalVars, Backed, RowOf
  <2>3. SawTheFolder'
    BY DEF Witness, vars, journalVars, SawTheFolder, Current, Saw
  <2>4. SeenIsNow'
    BY DEF Witness, vars, journalVars, folder, SeenIsNow, InIntent, State, Latest, Facts, Exact
  <2> QED  BY <2>1, <2>2, <2>3, <2>4 DEF Witness
<1> QED BY <1>1, <1>2

(* No journal claims what was not observed: also when leases end under     *)
(* working owners, calls fail, the power goes and others change the folder *)
(* between any two steps, a completed event stands for a moment since its  *)
(* intent when the exact file was under its new name and another when the  *)
(* old name was free, and a not-applied event for the reverse.             *)
THEOREM ReportsAreWitnessed == Spec => []AnswersAreWitnessed
<1>1. Witness => AnswersAreWitnessed
  BY DEF Witness
<1> QED BY <1>1, InitWitness, KeepWitness, BaseHolds, PTL DEF Spec


-----------------------------------------------------------------------------
(* Where the file is, when no lease ends under a working owner.  From its  *)
(* lease on, a call is the only one that works for its plan.               *)
Leased == Working \ {"lease"}
LeaseHeld == \A e \in Processes : proc[e].pc \in Leased => Owns(e, proc[e].plan)
LeaseLive == \A p \in Plans : lease[p].owner \in Processes => ~lease[p].expired

LEMMA RetakingSteps ==
    ASSUME NEW e \in Processes, RecoverNext(e)
    PROVE  \E item \in proc[e].todo :
             \/ /\ Leasable(item.plan) /\ Taken(e, item.plan)
                /\ proc' = [proc EXCEPT ![e] = Taking(e, item)]
             \/ /\ UNCHANGED lease
                /\ Returns(e) \/ proc' = [proc EXCEPT ![e].todo = proc[e].todo \ {item}]
<1>1. PICK item \in proc[e].todo :
         LET p == item.plan
             rest == proc[e].todo \ {item}
         IN  CASE Leasable(p) ->
                    /\ Taken(e, p)
                    /\ proc' = [proc EXCEPT ![e] = [Idle EXCEPT
                         !.pc = IF item.state \in Intents THEN "renew" ELSE "refuse",
                         !.plan = p, !.request = item.request, !.todo = rest,
                         !.kind = CommandOf(item.state), !.sequence = item.sequence,
                         !.state = item.state]]
               [] State(p) \notin Unfinished -> Returns(e) /\ UNCHANGED lease
               [] OTHER ->
                    /\ IF rest = {} THEN Returns(e)
                       ELSE proc' = [proc EXCEPT ![e].todo = rest]
                    /\ UNCHANGED lease
  BY DEF RecoverNext
<1>2. CASE Leasable(item.plan)
  BY <1>1, <1>2 DEF Leasable, Taking
<1>3. CASE ~Leasable(item.plan)
  BY <1>1, <1>3
<1> QED BY <1>2, <1>3

LEMMA NextLease ==
    ASSUME TypeOK, LeaseHeld, LeaseLive, ~StalledOwners, Next
    PROVE  LeaseHeld' /\ LeaseLive'
<1>1. /\ ProcType /\ \A f \in Processes : proc[f] \in Calls /\ proc[f].plan \in Plans
      /\ lease \in [Plans -> Leases]
  BY TypedParts DEF Typed, TypeOK, Calls
\* A plan that somebody works for is not free.
<1>2. ASSUME NEW f \in Processes, proc[f].pc \in Leased PROVE ~LeaseFree(proc[f].plan)
  <2>1. lease[proc[f].plan] = [owner |-> f, expired |-> FALSE]
    BY <1>2 DEF LeaseHeld, Owns
  <2>2. lease[proc[f].plan].owner = f /\ lease[proc[f].plan].expired = FALSE
    BY <2>1
  <2>3. f # NoProcess
    BY OwnersAssumption DEF OwnersAssumption
  <2> QED  BY <2>2, <2>3 DEF LeaseFree
<1>3. ASSUME NEW e \in Processes, NEW p \in Plans, LeaseFree(p), Taken(e, p),
             \A f \in Processes : f # e => proc'[f] = proc[f],
             proc'[e].pc \in Leased => proc'[e].plan = p
      PROVE  LeaseHeld' /\ LeaseLive'
  <2>1. lease'[p] = [owner |-> e, expired |-> FALSE] /\ \A q \in Plans : q # p => lease'[q] = lease[q]
    BY <1>1, <1>3 DEF Taken
  <2>2. LeaseLive'
    BY <2>1 DEF LeaseLive
  <2>3. ASSUME NEW f \in Processes, proc'[f].pc \in Leased PROVE Owns(f, proc[f].plan)'
    <3>1. CASE f = e
      BY <1>3, <2>1, <2>3, <3>1 DEF Owns
    <3>2. CASE f # e
      <4>1. proc'[f] = proc[f] /\ proc[f].plan # p
        BY <1>2, <1>3, <2>3, <3>2
      <4> QED  BY <1>1, <2>1, <2>3, <4>1 DEF LeaseHeld, Owns
    <3> QED  BY <3>1, <3>2
  <2> QED  BY <2>2, <2>3 DEF LeaseHeld, Owns
<1>4. ASSUME NEW e \in Processes, UNCHANGED lease, \A f \in Processes : f # e => proc'[f] = proc[f],
             proc'[e].pc \in Leased => proc[e].pc \in Leased /\ proc'[e].plan = proc[e].plan
      PROVE  LeaseHeld' /\ LeaseLive'
  <2>1. LeaseLive'
    BY <1>4 DEF LeaseLive
  <2>2. ASSUME NEW f \in Processes, proc'[f].pc \in Leased PROVE Owns(f, proc[f].plan)'
    BY <1>4, <2>2 DEF LeaseHeld, Owns
  <2> QED  BY <2>1, <2>2 DEF LeaseHeld, Owns
<1>5. ASSUME NEW e \in Processes, Step(e) PROVE LeaseHeld' /\ LeaseLive'
  <2>1. \A f \in Processes : f # e => proc'[f] = proc[f]
    BY <1>1, <1>5, OthersStay
  <2>2. CASE AcquireLease(e)
    <3>1. CASE Leasable(proc[e].plan)
      <4>1. Taken(e, proc[e].plan) /\ \E pc \in {"observe", "bind"} : Goto(e, pc)
        BY <2>2, <3>1 DEF AcquireLease
      <4>2. proc'[e].plan = proc[e].plan
        BY <1>1, <4>1 DEF Goto, ProcType, Calls
      <4> QED  BY <1>1, <1>3, <2>1, <3>1, <4>1, <4>2 DEF Leasable
    <3>2. CASE ~Leasable(proc[e].plan)
      BY <1>1, <1>4, <2>1, <2>2, <3>2, Ending DEF AcquireLease, Ended, Leased
    <3> QED  BY <3>1, <3>2
  <2>3. CASE RecoverNext(e)
    <3>1. PICK item \in proc[e].todo :
             \/ Leasable(item.plan) /\ Taken(e, item.plan) /\ proc' = [proc EXCEPT ![e] = Taking(e, item)]
             \/ /\ UNCHANGED lease
                /\ Returns(e) \/ proc' = [proc EXCEPT ![e].todo = proc[e].todo \ {item}]
      BY <2>3, RetakingSteps
    <3>2. CASE Leasable(item.plan) /\ Taken(e, item.plan) /\ proc' = [proc EXCEPT ![e] = Taking(e, item)]
      <4>1. item.plan \in Plans
        BY <1>1 DEF Calls, Items
      <4>2. proc'[e].plan = item.plan
        BY <1>1, <3>2 DEF Taking, Idle, ProcType
      <4> QED  BY <1>3, <2>1, <3>2, <4>1, <4>2 DEF Leasable
    <3>3. CASE UNCHANGED lease /\ Returns(e)
      BY <1>1, <1>4, <2>1, <3>3, Ending DEF Ended, Leased
    <3>4. CASE UNCHANGED lease /\ proc' = [proc EXCEPT ![e].todo = proc[e].todo \ {item}]
      <4>1. proc'[e].pc = "next"
        BY <1>1, <2>3, <3>4 DEF RecoverNext, ProcType, Calls
      <4> QED  BY <1>4, <2>1, <3>4, <4>1 DEF Leased, Working, Late
    <3> QED  BY <3>1, <3>2, <3>3, <3>4
  <2>4. CASE Release(e)
    <3>1. proc'[e].pc \notin Leased
      BY <1>1, <2>4, Ending DEF Release, Ended, Leased
    <3>2. CASE lease[proc[e].plan].owner # e
      BY <1>4, <2>1, <2>4, <3>1, <3>2 DEF Release
    <3>3. CASE lease[proc[e].plan].owner = e
      <4>1. lease' = [lease EXCEPT ![proc[e].plan] = NoLease]
        BY <2>4, <3>3 DEF Release
      <4>2. LeaseLive'
        BY <1>1, <4>1, OwnersAssumption DEF LeaseLive, NoLease, OwnersAssumption
      <4>3. ASSUME NEW f \in Processes, proc'[f].pc \in Leased PROVE Owns(f, proc[f].plan)'
        <5>1. f # e /\ proc'[f] = proc[f] /\ Owns(f, proc[f].plan)
          BY <2>1, <3>1, <4>3 DEF LeaseHeld
        <5>2. proc[f].plan # proc[e].plan
          BY <3>3, <5>1 DEF Owns
        <5> QED  BY <1>1, <4>1, <5>1, <5>2 DEF Owns
      <4> QED  BY <4>2, <4>3 DEF LeaseHeld, Owns
    <3> QED  BY <3>2, <3>3
  <2>5. CASE Start(e)
    <3>1. proc'[e].pc \notin Leased /\ UNCHANGED lease
      BY <1>1, <2>5 DEF Start, Replay, Accept, Reject, Returns, Idle, ProcType, Calls, Leased, Working, Late
    <3> QED  BY <1>4, <2>1, <3>1
  <2>6. CASE AppendIntent(e) /\ Appendable(e, IntentOf[proc[e].kind])
    <3>1. UNCHANGED lease /\ proc[e].pc \in Leased /\ proc'[e].plan = proc[e].plan
      BY <1>1, <2>6 DEF AppendIntent, ProcType, Calls, Leased, Working
    <3> QED  BY <1>4, <2>1, <3>1
  <2>7. CASE /\ ~AcquireLease(e) /\ ~RecoverNext(e) /\ ~Release(e)
             /\ Framed(e) \/ Ended(e)
    <3>1. UNCHANGED lease /\ proc[e].pc # "lease"
      <4>1. CASE Start(e) \/ Bind(e) \/ Prepare(e) \/ Check(e) \/ Rename(e) \/ Settle(e)
        BY <4>1 DEF Start, Bind, Prepare, Check, Rename, Settle
      <4>2. CASE Refuse(e) \/ AppendIntent(e) \/ Complete(e) \/ Conclude(e)
        BY <4>2 DEF Refuse, AppendIntent, Complete, Conclude, AppendLast
      <4>3. CASE Confirm(e) \/ Verify(e) \/ Renew(e) \/ Observe(e) \/ ObserveAfter(e) \/ Inspect(e)
        BY <4>3 DEF Confirm, Verify, Renew, Renewed, Observe, ObserveAfter, Inspect
      <4> QED  BY <1>5, <2>7, <4>1, <4>2, <4>3 DEF Step
    <3> QED  BY <1>4, <2>1, <2>7, <3>1 DEF Framed, Ended, Leased
  <2> QED  BY <1>5, <2>2, <2>3, <2>4, <2>5, <2>6, <2>7, FramedSteps
<1>6. ASSUME NEW p \in Plans, CreatePreview(p) \/ ExpireLease(p) PROVE LeaseHeld' /\ LeaseLive'
  <2>1. CASE CreatePreview(p)
    BY <2>1 DEF CreatePreview, LeaseHeld, LeaseLive, Owns
  <2>2. CASE ExpireLease(p)
    <3>1. /\ lease' = [lease EXCEPT ![p].expired = TRUE] /\ lease[p].owner = Lost /\ UNCHANGED proc
      BY <2>2 DEF ExpireLease
    <3>2. lease'[p].owner = Lost /\ \A q \in Plans : q # p => lease'[q] = lease[q]
      BY <1>1, <3>1 DEF Leases
    <3>3. LeaseLive'
      BY <3>2, OwnersAssumption DEF LeaseLive, OwnersAssumption
    <3>4. \A f \in Processes : proc[f].pc \in Leased => proc[f].plan # p
      <4>1. ASSUME NEW f \in Processes, proc[f].pc \in Leased, proc[f].plan = p PROVE FALSE
        <5>1. lease[p] = [owner |-> f, expired |-> FALSE]
          BY <4>1 DEF LeaseHeld, Owns
        <5>2. lease[p].owner = f
          BY <5>1
        <5> QED  BY <3>1, <5>2, OwnersAssumption DEF OwnersAssumption
      <4> QED  BY <4>1
    <3> QED  BY <1>1, <3>1, <3>2, <3>3, <3>4 DEF LeaseHeld, Owns
  <2> QED  BY <1>6, <2>1, <2>2
<1>7. ASSUME NEW gone \in SUBSET Processes, Orphaned(gone),
             \A f \in Processes : proc'[f].pc \in Leased => f \notin gone /\ proc'[f] = proc[f]
      PROVE  LeaseHeld' /\ LeaseLive'
  <2>1. \A p \in Plans : lease[p].owner \notin gone => lease'[p] = lease[p]
    BY <1>7 DEF Orphaned
  <2>2. \A p \in Plans : lease[p].owner \in gone => lease'[p].owner = Lost
    BY <1>1, <1>7 DEF Orphaned, Leases
  <2>3. LeaseLive'
    BY <2>1, <2>2, OwnersAssumption DEF LeaseLive, OwnersAssumption
  <2>4. ASSUME NEW f \in Processes, proc'[f].pc \in Leased PROVE Owns(f, proc[f].plan)'
    BY <1>1, <1>7, <2>1, <2>4 DEF LeaseHeld, Owns
  <2> QED  BY <2>3, <2>4 DEF LeaseHeld, Owns
<1>8. ASSUME NEW e \in Processes, \/ Recover(e) \/ FailedCall(e) \/ Crash(e)
                                  \/ \E p \in Plans, r \in Requests, k \in Commands : Begin(e, p, r, k)
      PROVE  LeaseHeld' /\ LeaseLive'
  <2>1. \A f \in Processes : f # e => proc'[f] = proc[f]
    BY <1>1, <1>8, OthersStay
  <2>2. CASE Returns(e) /\ Orphaned({e})
    <3>1. proc'[e].pc \notin Leased
      BY <1>1, <2>2, Ending DEF Ended, Leased
    <3> QED  BY <1>7, <2>1, <2>2, <3>1
  <2>3. CASE Fails(e) /\ UNCHANGED lease
    BY <1>1, <1>4, <2>1, <2>3, Ending DEF Ended, Leased
  <2>4. CASE Recover(e)
    <3>1. proc'[e].pc = "next" /\ UNCHANGED lease
      BY <1>1, <2>4 DEF Recover, ProcType, Calls
    <3> QED  BY <1>4, <2>1, <3>1 DEF Leased, Working, Late
  <2>5. CASE \E p \in Plans, r \in Requests, k \in Commands : Begin(e, p, r, k)
    <3>1. proc'[e].pc = "start" /\ UNCHANGED lease
      BY <1>1, <2>5 DEF Begin, Idle, ProcType
    <3> QED  BY <1>4, <2>1, <3>1 DEF Leased, Working, Late
  <2> QED  BY <1>8, <2>2, <2>3, <2>4, <2>5 DEF FailedCall, Crash
<1>9. CASE PowerLoss
  <2>1. Orphaned(Processes) /\ \A f \in Processes : proc'[f].pc = "idle"
    BY <1>9 DEF PowerLoss, Idle
  <2> QED  BY <1>7, <2>1 DEF Leased, Working, Late
<1>10. CASE ChangeFolder
  BY <1>10 DEF ChangeFolder, LeaseHeld, LeaseLive, Owns
<1> QED  BY <1>5, <1>6, <1>8, <1>9, <1>10 DEF Next, Actions


-----------------------------------------------------------------------------
(* Where the file can be.  Nobody else touches the folder, and no plan's   *)
(* source or destination is the destination of another.                    *)
Distinct == \A p, q \in Plans : /\ Source[q] # Destination[p]
                                /\ p # q => Destination[q] # Destination[p]
Renaming == {"check", "syscall", "settle", "confirm", "verify", "complete"}
Trail == \A e \in Processes : proc[e].pc \in Renaming => Current(e)

Images == unsynced \cup {disk}
Solo(d) == \E n \in Names : d = [m \in Names |-> IF m = n THEN Target ELSE Nothing]
Alone == \A d \in Images : Solo(d)
At(d, p) == d[Destination[p]] = Target
Settled(p) == \A d \in Images : At(d, p)

\* An executed plan's file is in place; an undo that has not renamed leaves it there; and
\* so it is for what a call is about to report.
Executed == \A p \in Plans : State(p) \in {"executed", "undo_requested"} => Settled(p)
Undoing == \A p \in Plans : State(p) = "undo_rename_intent" /\ At(disk, p) => Settled(p)
Reports(e) ==
    LET p == proc[e].plan
        k == proc[e].kind
        pc == proc[e].pc
        verdict == proc[e].verdict
    IN  /\ k = "execute" /\ pc \in {"confirm", "verify", "complete"} => Settled(p)
        /\ k = "execute" /\ pc = "conclude" /\ verdict = "applied" => Settled(p)
        /\ k = "execute" /\ pc = "inspect" /\ verdict = "applied" => At(disk, p)
        /\ k = "undo" /\ pc \in {"inspect", "conclude"} /\ verdict = "not_applied" => At(disk, p)
Calling == \A e \in Processes : Current(e) => Reports(e)

\* How a step changes the folder.
LEMMA FolderSteps ==
    ASSUME MaxChanges = 0, TypeOK, Next
    PROVE  \/ UNCHANGED <<disk, unsynced>>
           \/ PowerLoss
           \/ \E e \in Processes : Rename(e)
           \/ \E e \in Processes : /\ Step(e) /\ proc[e].pc \in {"settle", "inspect"}
                                   /\ disk' = disk /\ unsynced' = {}
<1>1. ASSUME NEW e \in Processes, Step(e)
      PROVE  \/ UNCHANGED <<disk, unsynced>> \/ Rename(e)
             \/ proc[e].pc \in {"settle", "inspect"} /\ disk' = disk /\ unsynced' = {}
  <2>1. CASE Start(e) \/ AcquireLease(e) \/ Bind(e) \/ Prepare(e) \/ Check(e) \/ RecoverNext(e)
    BY <2>1 DEF Start, AcquireLease, Bind, Prepare, Check, RecoverNext, folder
  <2>2. CASE Refuse(e) \/ AppendIntent(e) \/ Complete(e) \/ Conclude(e) \/ Release(e)
    BY <2>2 DEF Refuse, AppendIntent, Complete, Conclude, AppendLast, Release, folder
  <2>3. CASE Confirm(e) \/ Verify(e) \/ Renew(e) \/ Observe(e) \/ ObserveAfter(e)
    BY <2>3 DEF Confirm, Verify, Renew, Renewed, Observe, ObserveAfter, folder
  <2>4. CASE Settle(e)
    BY <2>4 DEF Settle
  <2>5. CASE Inspect(e)
    BY <2>5 DEF Inspect
  <2> QED  BY <1>1, <2>1, <2>2, <2>3, <2>4, <2>5 DEF Step
<1>2. CASE \E p \in Plans : CreatePreview(p) \/ ExpireLease(p)
  BY <1>2 DEF CreatePreview, ExpireLease, folder
<1>3. CASE \E e \in Processes :
             \/ \E p \in Plans, r \in Requests, k \in Commands : Begin(e, p, r, k)
             \/ Recover(e) \/ FailedCall(e) \/ Crash(e)
  BY <1>3 DEF Begin, Recover, FailedCall, Crash, folder
<1>4. ~ChangeFolder
  BY DEF ChangeFolder, TypeOK
<1> QED  BY <1>1, <1>2, <1>3, <1>4 DEF Next, Actions

LEMMA RenameEffect ==
    ASSUME TypeOK, Alone, Distinct, NEW e \in Processes, Rename(e), NEW p \in Plans
    PROVE  /\ unsynced' \subseteq Images
           /\ Solo(disk')
           /\ At(disk, p) /\ ~(proc[e].plan = p /\ proc[e].kind = "undo")
                => UNCHANGED <<disk, unsynced>>
           /\ At(disk, p) => UNCHANGED <<disk, unsynced>> \/ ~At(disk', p)
           /\ ~At(disk, p) /\ ~(proc[e].plan = p /\ proc[e].kind = "execute") => ~At(disk', p)
<1> DEFINE q == proc[e].plan
           k == proc[e].kind
           from == From(q, k)
           to == To(q, k)
<1>1. q \in Plans /\ k \in {"execute", "undo"}
  BY DEF TypeOK, Calls, Commands
<1>2. /\ Source \in [Plans -> Names] /\ Destination \in [Plans -> Names]
      /\ Target # Nothing
  BY PlansAssumption, EntriesAssumption DEF PlansAssumption, EntriesAssumption
<1>3. /\ k = "execute" => from = Source[q] /\ to = Destination[q]
      /\ k = "undo" => from = Destination[q] /\ to = Source[q]
      /\ from \in Names /\ to \in Names
  BY <1>1, <1>2 DEF From, To
<1>4. PICK n \in Names : disk = [m \in Names |-> IF m = n THEN Target ELSE Nothing]
  BY DEF Alone, Images, Solo
<1>5. Source[q] # Destination[p] /\ (p # q => Destination[q] # Destination[p])
  BY <1>1 DEF Distinct
<1>6. CASE disk[from] # Nothing /\ disk[to] = Nothing
  <2>1. disk' = Moved(disk, from, to) /\ unsynced' = unsynced \cup {disk}
    BY <1>6 DEF Rename
  <2>2. from = n /\ to # n
    BY <1>2, <1>3, <1>4, <1>6
  <2>3. disk' = [m \in Names |-> IF m = to THEN Target ELSE Nothing]
    BY <1>3, <1>4, <2>1, <2>2 DEF Moved
  <2>4. Solo(disk')
    BY <1>3, <2>3 DEF Solo
  <2>5. At(disk, p) => Destination[p] = from /\ k = "undo" /\ q = p
    BY <1>1, <1>2, <1>3, <1>4, <1>5, <2>2 DEF At
  <2>6. At(disk', p) => Destination[p] = to /\ k = "execute" /\ q = p
    BY <1>1, <1>2, <1>3, <1>5, <2>3 DEF At
  <2> QED  BY <2>1, <2>4, <2>5, <2>6 DEF Images
<1>7. CASE ~(disk[from] # Nothing /\ disk[to] = Nothing)
  <2>1. UNCHANGED <<disk, unsynced>>
    BY <1>7 DEF Rename
  <2>2. Solo(disk') /\ (At(disk', p) <=> At(disk, p))
    BY <2>1 DEF Alone, Images, At
  <2> QED  BY <2>1, <2>2 DEF Images
<1> QED  BY <1>6, <1>7

LEMMA NextAlone == ASSUME MaxChanges = 0, TypeOK, Alone, Distinct, Next PROVE Alone'
<1>1. ASSUME NEW e \in Processes, Rename(e) PROVE Alone'
  <2>1. PICK p \in Plans : TRUE
    BY PlansAssumption DEF PlansAssumption
  <2> QED  BY <1>1, <2>1, RenameEffect DEF Alone, Images
<1>2. CASE PowerLoss
  BY <1>2 DEF PowerLoss, Alone, Images
<1>3. CASE disk' = disk /\ unsynced' \subseteq unsynced
  BY <1>3 DEF Alone, Images, Solo
<1> QED  BY <1>1, <1>2, <1>3, FolderSteps

\* Where the file stays, and where it does not come back to.
UndoneBy(e, p) == Rename(e) /\ proc[e].plan = p /\ proc[e].kind = "undo"
LEMMA StaysThere ==
    ASSUME MaxChanges = 0, TypeOK, Alone, Distinct, Next, NEW p \in Plans,
           \A e \in Processes : ~UndoneBy(e, p)
    PROVE  /\ Settled(p) => Settled(p)'
           /\ At(disk, p) => At(disk', p) \/ PowerLoss
<1>1. ASSUME NEW e \in Processes, Rename(e)
      PROVE  (Settled(p) => Settled(p)') /\ (At(disk, p) => At(disk', p))
  <2>1. At(disk, p) => UNCHANGED <<disk, unsynced>>
    BY <1>1, RenameEffect DEF UndoneBy
  <2>2. Settled(p) => At(disk, p)
    BY DEF Settled, Images
  <2> QED  BY <2>1, <2>2 DEF Settled, Images, At
<1>2. CASE PowerLoss
  BY <1>2 DEF PowerLoss, Settled, Images, At
<1>3. CASE disk' = disk /\ unsynced' \subseteq unsynced
  BY <1>3 DEF Settled, Images, At
<1> QED  BY <1>1, <1>2, <1>3, FolderSteps


\* A call that works for the last row of its plan knows the plan's state.
LEMMA KnownState ==
    ASSUME TypeOK, Backed, NEW e \in Processes, proc[e].pc \in Late, Current(e)
    PROVE  /\ proc[e].plan \in Plans /\ proc[e].request \in Requests
           /\ journal[proc[e].plan] # <<>>
           /\ State(proc[e].plan) = proc[e].state
           /\ proc[e].state \in Intents
           /\ proc[e].kind = CommandOf(proc[e].state)
           /\ Latest(proc[e].plan).request = proc[e].request
<1> DEFINE p == proc[e].plan
           r == proc[e].request
<1>1. /\ RowOf(p, r, proc[e].sequence, proc[e].state)
      /\ proc[e].kind = CommandOf(proc[e].state)
      /\ proc[e].state \in Intents
  BY DEF Backed, Working
<1>2. /\ p \in Plans /\ r \in Requests
      /\ journal[p] # <<>> /\ Latest(p).request = r /\ StateAfter[Latest(p).kind] = proc[e].state
  BY <1>1 DEF RowOf, Current, Latest
<1> QED  BY <1>1, <1>2 DEF State

\* Its row stays the last one until it writes the next: nobody else can.
LEMMA Steadfast ==
    ASSUME Base, Backed, LeaseHeld, Next, NEW f \in Processes,
           proc[f].pc \in Late, Current(f), UNCHANGED proc[f]
    PROVE  journal'[proc[f].plan] = journal[proc[f].plan]
<1> DEFINE p == proc[f].plan
<1>1. /\ TypeOK /\ p \in Plans /\ journal[p] # <<>> /\ State(p) \in Intents
      /\ proc[f] \in Calls /\ Owns(f, p) /\ f # NoProcess
  BY KnownState, OwnersAssumption DEF Base, TypeOK, LeaseHeld, Leased, Working, Late, OwnersAssumption
<1>2. CASE UNCHANGED journal
  BY <1>2
<1>3. ASSUME NEW q \in Plans, CreatePreview(q) PROVE journal'[p] = journal[p]
  BY <1>1, <1>3 DEF CreatePreview, TypeOK
<1>4. ASSUME NEW e \in Processes, Start(e) /\ Accept(e) PROVE journal'[p] = journal[p]
  <2>1. State(proc[e].plan) = StartsFrom[proc[e].kind] /\ proc[e].kind \in Commands
    BY <1>1, <1>4 DEF Accept, Accepts, TypeOK, Calls
  <2>2. StartsFrom[proc[e].kind] \notin Intents
    BY <2>1 DEF StartsFrom, Intents, Commands
  <2>3. proc[e].plan # p
    BY <1>1, <2>1, <2>2
  <2> QED  BY <1>1, <1>4, <2>3 DEF Accept, TypeOK
<1>5. ASSUME NEW e \in Processes, NEW kind \in Kinds, Appendable(e, kind), Appended(e, kind),
             Goto(e, "release") \/ AppendIntent(e)
      PROVE  journal'[p] = journal[p]
  <2>1. CASE proc[e].plan = p
    <3>1. e = f
      BY <1>1, <1>5, <2>1 DEF Appendable, Owns
    <3>2. proc[f].pc # "release" /\ (AppendIntent(f) => proc[f].pc = "intent") /\ proc[f].pc # "intent"
      BY DEF Late, AppendIntent
    <3>3. proc'[f].pc = "release"
      BY <1>1, <1>5, <3>1, <3>2 DEF Goto, TypeOK, Calls
    <3> QED  BY <3>2, <3>3
  <2>2. CASE proc[e].plan # p
    BY <1>1, <1>5, <2>2 DEF Appended, TypeOK
  <2> QED  BY <2>1, <2>2
<1> QED  BY <1>1, <1>2, <1>3, <1>4, <1>5, ReportSteps

\* How a call comes to each point of its rename.
LEMMA RenamingSteps ==
    ASSUME TypeOK, NEW e \in Processes, Step(e), proc'[e].pc \in Renaming
    PROVE  \/ AppendIntent(e) /\ Appendable(e, IntentOf[proc[e].kind])
           \/ /\ proc[e].pc \in Renaming /\ UNCHANGED journal
              /\ proc'[e].plan = proc[e].plan /\ proc'[e].sequence = proc[e].sequence
              /\ proc'[e].kind = proc[e].kind
<1>1. ProcType /\ proc[e] \in Calls
  BY TypedParts, CallType DEF Typed
<1>2. ~Returns(e) /\ ~Fails(e)
  BY <1>1 DEF Returns, Fails, Idle, ProcType, Calls, Renaming
<1>3. \A pc \in Steps : Goto(e, pc) => pc \in Renaming
  BY <1>1 DEF Goto, ProcType, Calls
<1>4. ASSUME NEW pc \in Steps, Goto(e, pc), proc[e].pc \in Renaming, UNCHANGED journal
      PROVE  /\ proc[e].pc \in Renaming /\ UNCHANGED journal
             /\ proc'[e].plan = proc[e].plan /\ proc'[e].sequence = proc[e].sequence
             /\ proc'[e].kind = proc[e].kind
  BY <1>1, <1>4 DEF Goto, ProcType, Calls
<1>5. CASE Start(e)
  BY <1>1, <1>2, <1>5 DEF Start, Replay, Accept, Reject, ProcType, Calls, Renaming
<1>6. CASE AcquireLease(e) \/ Bind(e) \/ Prepare(e) \/ Release(e)
  BY <1>2, <1>3, <1>6 DEF AcquireLease, Bind, Prepare, Release, Steps, Renaming
<1>7. CASE Refuse(e) \/ Complete(e) \/ Conclude(e)
  BY <1>2, <1>3, <1>7 DEF Refuse, Complete, Conclude, AppendLast, Steps, Renaming
<1>8. CASE AppendIntent(e)
  BY <1>2, <1>8 DEF AppendIntent
<1>9. CASE Check(e)
  BY <1>4, <1>9 DEF Check, Steps, Renaming, journalVars
<1>10. CASE Rename(e)
  BY <1>4, <1>10 DEF Rename, Steps, Renaming, journalVars
<1>11. CASE Settle(e) \/ Verify(e)
  BY <1>4, <1>11 DEF Settle, Verify, Steps, Renaming, journalVars
<1>12. CASE Confirm(e)
  BY <1>2, <1>4, <1>12 DEF Confirm, Renewed, Steps, Renaming, journalVars
<1>13. CASE Renew(e)
  BY <1>2, <1>3, <1>13 DEF Renew, Renewed, Steps, Renaming
<1>14. CASE Observe(e) \/ ObserveAfter(e) \/ Inspect(e)
  BY <1>1, <1>3, <1>14 DEF Observe, ObserveAfter, Inspect, Goto, ProcType, Calls, Steps, Renaming
<1>15. CASE RecoverNext(e)
  <2>1. PICK item \in proc[e].todo :
             \/ proc' = [proc EXCEPT ![e] = Taking(e, item)]
             \/ Returns(e)
             \/ proc' = [proc EXCEPT ![e].todo = proc[e].todo \ {item}]
    BY <1>15, RecoverNextSteps
  <2>2. proc[e].pc = "next"
    BY <1>15 DEF RecoverNext
  <2>3. CASE proc' = [proc EXCEPT ![e] = Taking(e, item)]
    <3>1. proc'[e].pc = IF item.state \in Intents THEN "renew" ELSE "refuse"
      BY <1>1, <2>3 DEF Taking, Idle, ProcType
    <3> QED  BY <3>1 DEF Renaming
  <2>4. CASE proc' = [proc EXCEPT ![e].todo = proc[e].todo \ {item}]
    BY <1>1, <2>2, <2>4 DEF ProcType, Calls, Renaming
  <2> QED  BY <1>2, <2>1, <2>3, <2>4
<1> QED  BY <1>5, <1>6, <1>7, <1>8, <1>9, <1>10, <1>11, <1>12, <1>13, <1>14, <1>15 DEF Step

\* The calls that a step does not end are the other ones and, if one goes on, that one.
LEMMA WhoSteps ==
    ASSUME TypeOK, Next, NEW f \in Processes, proc'[f].pc \in Late
    PROVE  Step(f) \/ UNCHANGED proc[f]
<1>1. ProcType
  BY TypedParts DEF Typed
<1>2. ASSUME NEW e \in Processes,
             \/ Step(e) \/ Recover(e) \/ FailedCall(e) \/ Crash(e)
             \/ \E p \in Plans, r \in Requests, k \in Commands : Begin(e, p, r, k)
      PROVE  Step(f) \/ UNCHANGED proc[f]
  <2>1. CASE e # f
    BY <1>1, <1>2, <2>1, OthersStay
  <2>2. CASE e = f
    <3>1. ~Returns(f) /\ ~Fails(f)
      BY <1>1 DEF Returns, Fails, Idle, ProcType, Calls, Late
    <3>2. proc'[f].pc # "next" /\ proc'[f].pc # "start"
      BY DEF Late
    <3>3. ~Recover(f)
      BY <1>1, <3>2 DEF Recover, ProcType, Calls
    <3>4. ~FailedCall(f) /\ ~Crash(f)
      BY <3>1 DEF FailedCall, Crash
    <3>5. ASSUME NEW p \in Plans, NEW r \in Requests, NEW k \in Commands, Begin(f, p, r, k) PROVE FALSE
      BY <1>1, <3>2, <3>5 DEF Begin, Idle, ProcType
    <3> QED  BY <1>2, <2>2, <3>3, <3>4, <3>5
  <2> QED  BY <2>1, <2>2
<1>3. ~PowerLoss
  BY <1>1 DEF PowerLoss, Idle, Late
<1>4. CASE (\E p \in Plans : CreatePreview(p) \/ ExpireLease(p)) \/ ChangeFolder
  BY <1>4 DEF CreatePreview, ExpireLease, ChangeFolder
<1> QED  BY <1>2, <1>3, <1>4 DEF Next, Actions

LEMMA NextTrail == ASSUME Base, Backed, LeaseHeld, Trail, Next PROVE Trail'
<1>1. TypeOK /\ ProcType
  BY TypedParts DEF Base, Typed
<1>2. SUFFICES ASSUME NEW f \in Processes, proc'[f].pc \in Renaming PROVE Current(f)'
  BY DEF Trail
<1>3. CASE UNCHANGED proc[f]
  <2>1. proc[f].pc \in Late /\ Current(f)
    BY <1>2, <1>3 DEF Trail, Renaming, Late
  <2> QED  BY <1>3, <2>1, Steadfast DEF Current
<1>4. CASE Step(f) /\ AppendIntent(f) /\ Appendable(f, IntentOf[proc[f].kind])
  <2>1. /\ proc[f] \in Calls /\ Len(journal[proc[f].plan]) = proc[f].sequence
        /\ Appended(f, IntentOf[proc[f].kind]) /\ proc'[f].plan = proc[f].plan
        /\ proc'[f].sequence = proc[f].sequence + 1
    BY <1>1, <1>4 DEF AppendIntent, Appendable, ProcType, Calls
  <2>2. Len(journal'[proc[f].plan]) = Len(journal[proc[f].plan]) + 1
    <3>1. journal[proc[f].plan] \in Seq(Events) /\ proc[f].plan \in Plans
      BY <1>1, <2>1 DEF TypeOK, Calls
    <3>2. [kind |-> IntentOf[proc[f].kind], request |-> proc[f].request] \in Events
      BY <1>1, <2>1, CommandTables DEF Calls, Events
    <3> QED  BY <1>1, <2>1, <3>1, <3>2, Grown DEF Appended
  <2> QED  BY <2>1, <2>2 DEF Current
<1>5. CASE /\ proc[f].pc \in Renaming /\ UNCHANGED journal
           /\ proc'[f].plan = proc[f].plan /\ proc'[f].sequence = proc[f].sequence
  BY <1>5 DEF Trail, Current
<1> QED
  <2>1. Step(f) \/ UNCHANGED proc[f]
    BY <1>1, <1>2, WhoSteps DEF Late, Renaming
  <2> QED  BY <1>1, <1>2, <1>3, <1>4, <1>5, <2>1, RenamingSteps


\* How the state of a plan moves.
LEMMA StateSteps ==
    ASSUME Base, Next, NEW p \in Plans
    PROVE  \/ UNCHANGED journal[p]
           \/ UNCHANGED folder /\ State(p) = "none" /\ State(p)' = "previewed"
           \/ /\ UNCHANGED folder
              /\ \E k \in Commands : State(p) = StartsFrom[k] /\ State(p)' = RequestedBy[k]
           \/ /\ UNCHANGED folder /\ State(p) \in Unfinished
              /\ \E e \in Processes, kind \in Follow[State(p)] :
                   /\ proc[e].plan = p /\ Current(e)
                   /\ State(p)' = StateAfter[kind]
                   /\ kind \in Answers => Reporting(e, kind)
<1>1. TypeOK /\ LegalHistory /\ Chains
  BY DEF Base
<1>2. ASSUME NEW v \in Events, journal' = [journal EXCEPT ![p] = Append(@, v)]
      PROVE  State(p)' = StateAfter[v.kind]
  <2>1. /\ Len(journal[p]) \in Nat /\ Len(journal'[p]) = Len(journal[p]) + 1
        /\ journal'[p][Len(journal[p]) + 1] = v /\ DOMAIN journal'[p] = 1..(Len(journal[p]) + 1)
    BY <1>1, <1>2, Grown
  <2>2. Latest(p)' = v /\ journal'[p] # <<>>
    BY <2>1 DEF Latest
  <2> QED  BY <2>2 DEF State
<1>3. ASSUME NEW q \in Plans, CreatePreview(q)
      PROVE  \/ UNCHANGED journal[p]
             \/ UNCHANGED folder /\ State(p) = "none" /\ State(p)' = "previewed"
  <2>1. CASE q = p
    <3>1. journal'[p] = <<[kind |-> "preview_created", request |-> NoRequest]>>
      BY <1>1, <1>3, <2>1 DEF CreatePreview, TypeOK
    <3>2. Latest(p)' = [kind |-> "preview_created", request |-> NoRequest] /\ journal'[p] # <<>>
      BY <3>1 DEF Latest
    <3>3. State(p) = "none" /\ UNCHANGED folder
      BY <1>3, <2>1 DEF CreatePreview, State
    <3> QED  BY <3>2, <3>3 DEF State, StateAfter
  <2>2. CASE q # p
    BY <1>1, <1>3, <2>2 DEF CreatePreview, TypeOK
  <2> QED  BY <2>1, <2>2
<1>4. ASSUME NEW e \in Processes, Start(e) /\ Accept(e)
      PROVE  \/ UNCHANGED journal[p]
             \/ /\ UNCHANGED folder
                /\ \E k \in Commands : State(p) = StartsFrom[k] /\ State(p)' = RequestedBy[k]
  <2>1. PICK q, k : q = proc[e].plan /\ k = proc[e].kind
    OBVIOUS
  <2>2. /\ k \in Commands /\ State(q) = StartsFrom[k] /\ UNCHANGED folder
        /\ Asked(e) \in Events /\ Asked(e).kind = RequestedBy[k]
        /\ journal' = [journal EXCEPT ![q] = Append(@, Asked(e))]
    BY <1>4, <2>1, AcceptFacts DEF Start, Accept, Accepts
  <2>3. CASE q = p
    <3>1. State(p)' = StateAfter[Asked(e).kind]
      BY <1>2, <2>2, <2>3
    <3>2. StateAfter[RequestedBy[k]] = RequestedBy[k]
      BY <2>2 DEF Commands, RequestedBy, StateAfter
    <3>3. State(p) = StartsFrom[k] /\ State(p)' = RequestedBy[k]
      BY <2>2, <2>3, <3>1, <3>2
    <3> QED  BY <2>2, <3>3
  <2>4. CASE q # p
    BY <1>1, <2>2, <2>4 DEF TypeOK
  <2> QED  BY <2>3, <2>4
<1>5. ASSUME NEW e \in Processes, NEW kind \in Kinds,
             Appendable(e, kind), Appended(e, kind), UNCHANGED <<command, folder>>,
             kind \in Answers => Reporting(e, kind)
      PROVE  \/ UNCHANGED journal[p]
             \/ /\ UNCHANGED folder /\ State(p) \in Unfinished
                /\ \E f \in Processes, new \in Follow[State(p)] :
                     /\ proc[f].plan = p /\ Current(f)
                     /\ State(p)' = StateAfter[new]
                     /\ new \in Answers => Reporting(f, new)
  <2>1. PICK q, r, v : /\ q = proc[e].plan /\ r = proc[e].request
                       /\ v = [kind |-> kind, request |-> r]
    OBVIOUS
  <2>2. /\ v \in Events /\ v.kind = kind /\ State(q) \in Unfinished /\ kind \in Follow[State(q)]
        /\ journal' = [journal EXCEPT ![q] = Append(@, v)]
    BY <1>1, <1>5, <2>1, AppendFacts
  <2>3. Current(e)
    BY <1>5 DEF Appendable, Current
  <2>4. CASE q = p
    BY <1>2, <1>5, <2>1, <2>2, <2>3, <2>4
  <2>5. CASE q # p
    BY <1>1, <2>2, <2>5 DEF TypeOK
  <2> QED  BY <2>4, <2>5
<1> QED  BY <1>1, <1>3, <1>4, <1>5, ReportSteps

LEMMA StateTables ==
    /\ \A k \in Commands :
         /\ RequestedBy[k] \in {"executed", "undo_requested"} => StartsFrom[k] = "executed"
         /\ RequestedBy[k] # "undo_rename_intent"
    /\ \A s \in Unfinished : \A kind \in Follow[s] :
         /\ StateAfter[kind] \in {"executed", "undo_requested"} =>
              \/ s = "undo_requested"
              \/ kind = "execution_completed"
              \/ kind = "undo_not_applied" /\ s = "undo_rename_intent"
         /\ StateAfter[kind] = "undo_rename_intent" => s = "undo_requested"
    /\ {"execution_completed", "undo_not_applied"} \subseteq Answers
    /\ \A k \in Commands : /\ CompletedOf[k] # "undo_not_applied" /\ AttentionOf[k] \notin Answers
                           /\ CompletedOf[k] = "execution_completed" => k = "execute"
                           /\ NotAppliedOf[k] # "execution_completed"
                           /\ NotAppliedOf[k] = "undo_not_applied" => k = "undo"
  BY DEF Commands, RequestedBy, StartsFrom, Unfinished, Follow, StateAfter, Answers, CompletedOf,
         NotAppliedOf, AttentionOf

\* A call that renames for a plan finds it in the state of its intent.
LEMMA Renamer ==
    ASSUME TypeOK, Backed, Trail, NEW e \in Processes, Rename(e)
    PROVE  /\ proc[e].kind = "undo" => State(proc[e].plan) = "undo_rename_intent"
           /\ proc[e].kind = "execute" => State(proc[e].plan) = "direct_rename_intent"
<1>1. proc[e].pc \in Late /\ Current(e)
  BY DEF Rename, Late, Trail, Renaming
<1>2. State(proc[e].plan) \in Intents /\ proc[e].kind = CommandOf(State(proc[e].plan))
  BY <1>1, KnownState
<1> QED  BY <1>2 DEF Intents, CommandOf

InPlace == LeaseHeld /\ LeaseLive /\ Trail /\ Alone /\ Executed /\ Undoing /\ Calling

LEMMA NextExecuted ==
    ASSUME MaxChanges = 0, Distinct, Base, Backed, InPlace, Next
    PROVE  Executed'
<1>1. TypeOK /\ Trail /\ Alone /\ Executed /\ Undoing /\ Calling
  BY DEF Base, InPlace
<1>2. SUFFICES ASSUME NEW p \in Plans, State(p)' \in {"executed", "undo_requested"}
               PROVE  Settled(p)'
  BY DEF Executed
<1>3. UNCHANGED folder /\ Settled(p) => Settled(p)'
  BY DEF folder, Settled, Images, At
<1>4. CASE UNCHANGED journal[p]
  <2>1. State(p) \in {"executed", "undo_requested"}
    BY <1>2, <1>4 DEF State, Latest
  <2>2. \A e \in Processes : ~UndoneBy(e, p)
    BY <1>1, <2>1, Renamer DEF UndoneBy
  <2> QED  BY <1>1, <2>1, <2>2, StaysThere DEF Executed
<1>5. ASSUME UNCHANGED folder, NEW k \in Commands, State(p) = StartsFrom[k], State(p)' = RequestedBy[k]
      PROVE  Settled(p)'
  BY <1>1, <1>2, <1>3, <1>5, StateTables DEF Executed
<1>6. ASSUME UNCHANGED folder, State(p) \in Unfinished,
             NEW e \in Processes, NEW kind \in Follow[State(p)],
             proc[e].plan = p, Current(e), State(p)' = StateAfter[kind],
             kind \in Answers => Reporting(e, kind)
      PROVE  Settled(p)'
  <2>1. Reports(e) /\ proc[e].kind \in Commands /\ proc[e].verdict \in Verdicts
    BY <1>1, <1>6 DEF Calling, TypeOK, Calls
  <2>2. CASE State(p) = "undo_requested"
    BY <1>1, <1>3, <1>6, <2>2 DEF Executed
  <2>3. CASE kind = "execution_completed"
    <3>1. Reporting(e, kind)
      BY <1>6, <2>3, StateTables
    <3>2. proc[e].kind = "execute" /\ (proc[e].pc = "complete"
                                       \/ (proc[e].pc = "conclude" /\ proc[e].verdict = "applied"))
      BY <2>1, <2>3, <3>1, StateTables DEF Reporting, VerdictOf, Verdicts
    <3> QED  BY <1>3, <1>6, <2>1, <3>2 DEF Reports
  <2>4. CASE kind = "undo_not_applied" /\ State(p) = "undo_rename_intent"
    <3>1. Reporting(e, kind)
      BY <1>6, <2>4, StateTables
    <3>2. proc[e].kind = "undo" /\ proc[e].pc = "conclude" /\ proc[e].verdict = "not_applied"
      BY <2>1, <2>4, <3>1, StateTables DEF Reporting, VerdictOf, Verdicts
    <3>3. At(disk, p)
      BY <1>6, <2>1, <3>2 DEF Reports
    <3> QED  BY <1>1, <1>3, <1>6, <2>4, <3>3 DEF Undoing
  <2> QED  BY <1>2, <1>6, <2>2, <2>3, <2>4, StateTables
<1> QED  BY <1>2, <1>4, <1>5, <1>6, StateSteps

LEMMA NextUndoing ==
    ASSUME MaxChanges = 0, Distinct, Base, Backed, InPlace, Next
    PROVE  Undoing'
<1>1. TypeOK /\ Trail /\ Alone /\ Executed /\ Undoing /\ Calling
  BY DEF Base, InPlace
<1>2. SUFFICES ASSUME NEW p \in Plans, State(p)' = "undo_rename_intent", At(disk', p)
               PROVE  Settled(p)'
  BY DEF Undoing, At
<1>3. UNCHANGED folder /\ Settled(p) => Settled(p)'
  BY DEF folder, Settled, Images, At
<1>4. CASE UNCHANGED journal[p]
  <2>1. State(p) = "undo_rename_intent" /\ (At(disk, p) => Settled(p))
    BY <1>1, <1>2, <1>4 DEF State, Latest, Undoing
  <2>2. CASE PowerLoss
    BY <1>2, <2>2 DEF PowerLoss, Settled, Images, At
  <2>3. ASSUME NEW e \in Processes, Rename(e) PROVE Settled(p)'
    <3>1. At(disk, p)
      BY <1>1, <1>2, <2>1, <2>3, Renamer, RenameEffect
    <3>2. UNCHANGED <<disk, unsynced>>
      BY <1>1, <1>2, <2>3, <3>1, RenameEffect
    <3> QED  BY <2>1, <3>1, <3>2 DEF Settled, Images, At
  <2>4. CASE disk' = disk /\ unsynced' \subseteq unsynced
    BY <1>2, <2>1, <2>4 DEF Settled, Images, At
  <2> QED  BY <1>1, <2>2, <2>3, <2>4, FolderSteps
<1>5. ASSUME UNCHANGED folder, NEW k \in Commands, State(p) = StartsFrom[k], State(p)' = RequestedBy[k]
      PROVE  Settled(p)'
  BY <1>2, <1>5, StateTables
<1>6. ASSUME UNCHANGED folder, State(p) \in Unfinished, NEW kind \in Follow[State(p)],
             State(p)' = StateAfter[kind]
      PROVE  Settled(p)'
  BY <1>1, <1>2, <1>3, <1>6, StateTables DEF Executed
<1> QED  BY <1>2, <1>4, <1>5, <1>6, StateSteps

\* What the folder showed a call that goes on to report.
LEMMA LookFolder ==
    ASSUME TypeOK, NEW e \in Processes, Step(e), proc'[e].pc \in Seeing
    PROVE  /\ disk' = disk /\ unsynced' \subseteq unsynced
           /\ proc[e].pc = "settle" =>
                unsynced' = {} /\ disk[To(proc[e].plan, proc[e].kind)] = Target
           /\ proc[e].pc = "inspect" /\ proc'[e].verdict = "applied" => unsynced' = {}
<1>1. ProcType /\ proc[e] \in Calls
  BY TypedParts, CallType DEF Typed
<1>2. CASE proc[e].pc \in {"start", "lease", "bind", "prepare", "check", "next", "refuse", "intent",
                           "complete", "conclude", "release"}
  <2>1. CASE Start(e) \/ AcquireLease(e) \/ Bind(e) \/ Prepare(e) \/ Check(e) \/ RecoverNext(e)
    BY <1>2, <2>1 DEF Start, AcquireLease, Bind, Prepare, Check, RecoverNext, folder
  <2>2. CASE Refuse(e) \/ AppendIntent(e) \/ Complete(e) \/ Conclude(e) \/ Release(e)
    BY <1>2, <2>2 DEF Refuse, AppendIntent, Complete, Conclude, AppendLast, Release, folder
  <2> QED  BY <1>2, <2>1, <2>2 DEF Step, Rename, Settle, Confirm, Verify, Renew, Observe,
                                   ObserveAfter, Inspect
<1>3. CASE proc[e].pc \in {"confirm", "verify", "renew", "observe", "observe_after"}
  <2>1. Confirm(e) \/ Verify(e) \/ Renew(e) \/ Observe(e) \/ ObserveAfter(e)
    BY <1>3 DEF Step, Start, AcquireLease, Bind, Prepare, Check, RecoverNext, Refuse, AppendIntent,
                Complete, Conclude, Release, Rename, Settle, Inspect
  <2> QED  BY <1>3, <2>1 DEF Confirm, Verify, Renew, Renewed, Observe, ObserveAfter, folder
<1>4. CASE proc[e].pc = "syscall"
  <2>1. Rename(e)
    BY <1>4 DEF Step, Start, AcquireLease, Bind, Prepare, Check, RecoverNext, Refuse, AppendIntent,
                Complete, Conclude, Release, Confirm, Verify, Renew, Observe, ObserveAfter, Settle, Inspect
  <2>2. Goto(e, "settle") \/ Goto(e, "renew")
    BY <2>1 DEF Rename
  <2> QED  BY <1>1, <2>2 DEF Goto, ProcType, Calls, Seeing
<1>5. CASE proc[e].pc = "settle"
  <2>1. Settle(e)
    BY <1>5 DEF Step, Start, AcquireLease, Bind, Prepare, Check, RecoverNext, Refuse, AppendIntent,
                Complete, Conclude, Release, Confirm, Verify, Renew, Observe, ObserveAfter, Rename, Inspect
  <2>2. ~Goto(e, "renew")
    BY <1>1 DEF Goto, ProcType, Calls, Seeing
  <2> QED  BY <1>5, <2>1, <2>2 DEF Settle, Unmoved
<1>6. CASE proc[e].pc = "inspect"
  <2>1. Inspect(e)
    BY <1>6 DEF Step, Start, AcquireLease, Bind, Prepare, Check, RecoverNext, Refuse, AppendIntent,
                Complete, Conclude, Release, Confirm, Verify, Renew, Observe, ObserveAfter, Rename, Settle
  <2>2. Goto(e, "conclude") => proc'[e].verdict = proc[e].verdict
    BY <1>1 DEF Goto, ProcType, Calls
  <2>3. disk' = disk
    BY <2>1 DEF Inspect
  <2>4. CASE /\ disk[OtherName(e)] = Nothing
             /\ unsynced' = IF proc[e].verdict = "applied" THEN {} ELSE unsynced
             /\ Goto(e, "conclude")
    BY <1>6, <2>2, <2>3, <2>4
  <2>5. CASE /\ proc' = [proc EXCEPT ![e].pc = "conclude", ![e].verdict = "ambiguous"]
             /\ UNCHANGED unsynced
    <3>1. proc'[e].verdict = "ambiguous"
      BY <1>1, <2>5 DEF ProcType, Calls
    <3> QED  BY <1>6, <2>3, <2>5, <3>1
  <2> QED  BY <2>1, <2>4, <2>5 DEF Inspect
<1> QED  BY <1>1, <1>2, <1>3, <1>4, <1>5, <1>6 DEF Step, Start, AcquireLease, Bind, Prepare, Check,
           RecoverNext, Refuse, AppendIntent, Complete, Conclude, Release, Confirm, Verify, Renew,
           Observe, ObserveAfter, Rename, Settle, Inspect

LEMMA NextCalling ==
    ASSUME MaxChanges = 0, Distinct, Base, Backed, InPlace, Next
    PROVE  Calling'
<1>1. TypeOK /\ TypeOK' /\ Trail /\ Alone /\ Executed /\ Undoing /\ Calling /\ LeaseHeld /\ ProcType
  BY NextType, TypedParts DEF Base, InPlace, Typed
<1>2. SUFFICES ASSUME NEW f \in Processes, Current(f)', proc'[f].pc \in Seeing PROVE Reports(f)'
  BY DEF Calling, Reports, Seeing
<1>3. PICK p, k : p = proc'[f].plan /\ k = proc'[f].kind
  OBVIOUS
<1>4. CASE UNCHANGED proc[f]
  <2>1. /\ proc[f].pc \in Seeing /\ proc[f].plan = p /\ proc[f].kind = k
        /\ RowOf(p, proc[f].request, proc[f].sequence, proc[f].state)
    BY <1>2, <1>3, <1>4 DEF Backed, Seeing, Working, Late
  <2>2. Current(f) /\ p \in Plans
    BY <1>2, <1>4, <2>1, StaysCurrent DEF Current, RowOf
  <2>3. Reports(f)
    BY <1>1, <2>2 DEF Calling
  <2>4. ~PowerLoss
    BY <1>2 DEF PowerLoss, Idle, Seeing
  <2>5. \A e \in Processes : ~UndoneBy(e, p)
    <3>1. SUFFICES ASSUME NEW e \in Processes, UndoneBy(e, p) PROVE FALSE
      OBVIOUS
    <3>2. Owns(e, p) /\ Owns(f, p) /\ proc[e].pc = "syscall"
      BY <1>1, <2>1, <3>1 DEF UndoneBy, Rename, LeaseHeld, Leased, Working, Late, Seeing
    <3>3. e = f
      BY <3>2 DEF Owns
    <3> QED  BY <2>1, <3>2, <3>3 DEF Seeing
  <2>6. (Settled(p) => Settled(p)') /\ (At(disk, p) => At(disk', p))
    BY <1>1, <2>2, <2>4, <2>5, StaysThere
  <2> QED  BY <1>3, <1>4, <2>1, <2>3, <2>6 DEF Reports, At
<1>5. CASE Step(f)
  <2>1. LookSteps(f)
    BY <1>1, <1>2, <1>5, Looking
  <2>2. /\ disk' = disk /\ unsynced' \subseteq unsynced
        /\ proc[f].pc = "settle" => unsynced' = {} /\ disk[To(p, k)] = Target
        /\ proc[f].pc = "inspect" /\ proc'[f].verdict = "applied" => unsynced' = {}
    BY <1>1, <1>2, <1>3, <1>5, <2>1, LookFolder DEF LookSteps
  <2>3. proc[f].plan = p /\ proc[f].kind = k /\ Current(f)
    BY <1>2, <1>3, <2>1 DEF LookSteps, Current
  <2>4. Reports(f)
    BY <1>1, <2>3 DEF Calling
  <2>5. /\ At(disk', p) <=> At(disk, p)
        /\ Settled(p) => Settled(p)'
        /\ At(disk, p) /\ unsynced' = {} => Settled(p)'
    BY <2>2 DEF At, Settled, Images
  <2>6. CASE k = "execute"
    <3>1. To(p, k) = Destination[p]
      BY <2>6 DEF To
    <3>2. disk[To(p, k)] = Target => At(disk, p)
      BY <3>1 DEF At
    <3> QED  BY <1>3, <2>1, <2>2, <2>3, <2>4, <2>5, <2>6, <3>2 DEF LookSteps, Reports, Exact, At
  <2>7. CASE k = "undo"
    <3>1. From(p, k) = Destination[p]
      BY <2>7 DEF From
    <3>2. Exact(p, From(p, k)) => At(disk, p)
      BY <3>1 DEF At, Exact
    <3> QED  BY <1>3, <2>1, <2>2, <2>3, <2>4, <2>5, <2>7, <3>2 DEF LookSteps, Reports, At
  <2>8. k \in Commands
    BY <1>1, <1>3 DEF TypeOK, Calls
  <2> QED  BY <2>6, <2>7, <2>8 DEF Commands
<1> QED
  <2>1. proc'[f].pc \in Late
    BY <1>2 DEF Seeing, Late
  <2> QED  BY <1>1, <1>4, <1>5, <2>1, WhoSteps


LEMMA InitInPlace == Init => InPlace
<1> SUFFICES ASSUME Init PROVE InPlace
  OBVIOUS
<1>1. \A e \in Processes : proc[e].pc = "idle"
  BY DEF Init, Idle
<1>2. \A p \in Plans : State(p) = "none" /\ lease[p] = NoLease
  BY DEF Init, State
<1>3. LeaseHeld /\ Trail /\ Calling
  BY <1>1 DEF LeaseHeld, Leased, Working, Late, Trail, Renaming, Calling, Reports
<1>4. LeaseLive
  BY <1>2, OwnersAssumption DEF LeaseLive, NoLease, OwnersAssumption
<1>5. Executed /\ Undoing
  BY <1>2 DEF Executed, Undoing
<1>6. Alone
  <2>1. PICK p \in Plans : disk = [n \in Names |-> IF n = Source[p] THEN Target ELSE Nothing]
    BY DEF Init
  <2>2. Source[p] \in Names /\ unsynced = {}
    BY <2>1, PlansAssumption DEF PlansAssumption, Init
  <2> QED  BY <2>1, <2>2 DEF Alone, Images, Solo
<1> QED  BY <1>3, <1>4, <1>5, <1>6 DEF InPlace

LEMMA NextInPlace ==
    ASSUME ~StalledOwners, MaxChanges = 0, Distinct
    PROVE  Base /\ Backed /\ InPlace /\ [Next]_vars => InPlace'
<1>1. Base /\ Backed /\ InPlace /\ Next => InPlace'
  <2> SUFFICES ASSUME Base, Backed, InPlace, Next PROVE InPlace'
    OBVIOUS
  <2>1. TypeOK /\ LeaseHeld /\ LeaseLive /\ Trail /\ Alone
    BY DEF Base, InPlace
  <2>2. LeaseHeld' /\ LeaseLive'
    BY <2>1, NextLease
  <2>3. Trail'
    BY <2>1, NextTrail
  <2>4. Alone'
    BY <2>1, NextAlone
  <2> QED  BY <2>2, <2>3, <2>4, NextExecuted, NextUndoing, NextCalling DEF InPlace
<1>2. InPlace /\ UNCHANGED vars => InPlace'
  <2> SUFFICES ASSUME InPlace, UNCHANGED vars PROVE InPlace'
    OBVIOUS
  <2>1. UNCHANGED <<journal, lease, disk, unsynced, proc>>
    BY DEF vars, journalVars, folder
  <2>2. LeaseHeld' /\ LeaseLive' /\ Trail'
    BY <2>1 DEF InPlace, LeaseHeld, LeaseLive, Trail, Owns, Current
  <2>3. \A p \in Plans : (State(p)' = State(p)) /\ (Settled(p) => Settled(p)') /\ (At(disk', p) <=> At(disk, p))
    BY <2>1 DEF State, Latest, Settled, Images, At
  <2>4. Alone' /\ Executed' /\ Undoing'
    BY <2>1, <2>3 DEF InPlace, Alone, Images, Solo, Executed, Undoing, At
  <2>5. Calling'
    BY <2>1 DEF InPlace, Calling, Current, Reports, Settled, Images, At
  <2> QED  BY <2>2, <2>4, <2>5 DEF InPlace
<1> QED  BY <1>1, <1>2

LEMMA BackedHolds == Spec => [](Base /\ Witness)
<1>1. Init => Witness
  BY InitWitness
<1>2. Base /\ Witness /\ [Next]_vars => Witness'
  BY KeepWitness
<1> QED  BY <1>1, <1>2, BaseHolds, PTL DEF Spec

(* Where no lease ends under a working owner and nobody else touches the   *)
(* folder, the file of an executed plan is under its new name in every     *)
(* image of the folder a power loss may bring back: whatever is retried,   *)
(* recovered or undone meanwhile, and wherever calls fail or processes     *)
(* crash.                                                                  *)
THEOREM ExecutedStaysInPlace ==
    ASSUME ~StalledOwners, MaxChanges = 0, Distinct
    PROVE  Spec => []ExecutedIsInPlace
<1>1. Base /\ Witness => Base /\ Backed
  BY DEF Witness
<1>2. InPlace => ExecutedIsInPlace
  BY DEF InPlace, Executed, Settled, Images, At, ExecutedIsInPlace
<1> QED  BY <1>1, <1>2, InitInPlace, NextInPlace, BackedHolds, PTL DEF Spec

(* Where no lease ends under a working owner, a call that works for a plan *)
(* holds its lease, and the lease of a process is live while it does.      *)
LEMMA LeasesHold ==
    ASSUME ~StalledOwners
    PROVE  Spec => [](LeaseHeld /\ LeaseLive)
<1>1. Init => LeaseHeld /\ LeaseLive
  BY InitInPlace DEF InPlace
<1>2. Base /\ LeaseHeld /\ LeaseLive /\ [Next]_vars => LeaseHeld' /\ LeaseLive'
  <2>1. Base /\ LeaseHeld /\ LeaseLive /\ Next => LeaseHeld' /\ LeaseLive'
    BY NextLease DEF Base
  <2>2. LeaseHeld /\ LeaseLive /\ UNCHANGED vars => LeaseHeld' /\ LeaseLive'
    BY DEF vars, LeaseHeld, LeaseLive, Owns
  <2> QED  BY <2>1, <2>2
<1> QED  BY <1>1, <1>2, BaseHolds, PTL DEF Spec

(* And then every system call to rename is made under the lease, as the    *)
(* comment of renew_action_executor_lease asks of its callers.             *)
THEOREM RenamesAreLeased ==
    ASSUME ~StalledOwners
    PROVE  Spec => RenameUnderLease
<1>1. LeaseHeld /\ LeaseLive /\ [Next]_vars =>
        [\A e \in Processes :
           proc[e].pc = "syscall" /\ proc'[e].pc \in {"settle", "renew"}
             => Owns(e, proc[e].plan)]_vars
  BY DEF LeaseHeld, Leased, Working, Late
<1> QED  BY <1>1, LeasesHold, PTL DEF Spec, RenameUnderLease

-----------------------------------------------------------------------------
(***************************************************************************)
(* RenameJournal implements AtomicRename where no lease ends under a       *)
(* working owner and nobody else touches the folder, for any number of     *)
(* plans whose new names are all different from each other and from every  *)
(* old name.  On top of what RenameJournalProofs knows of the folder:      *)
(*   Untouched    a plan that has not renamed is nowhere at its new name,  *)
(*   Executing    nor is an execute that is under way and has not renamed; *)
(*   Telling      what a call is about to answer is what the folder shows; *)
(*   Origins      what a power loss brings back is the place a rename that *)
(*                has no answer yet left;                                  *)
(*   RowsBelong   the events of a request are those of its command.        *)
(***************************************************************************)

Absent(p) == \A d \in Images : ~At(d, p)
Untouched == \A p \in Plans : State(p) \in {"none", "previewed", "execute_requested"} => Absent(p)
Executing == \A p \in Plans : State(p) = "direct_rename_intent" /\ ~At(disk, p) => Absent(p)
Tells(e) ==
    LET p == proc[e].plan
        k == proc[e].kind
        pc == proc[e].pc
        verdict == proc[e].verdict
    IN  /\ k = "undo" /\ pc \in {"confirm", "verify", "complete"} => Absent(p)
        /\ k = "undo" /\ pc = "conclude" /\ verdict = "applied" => Absent(p)
        /\ k = "undo" /\ pc = "inspect" /\ verdict = "applied" => ~At(disk, p)
        /\ k = "execute" /\ pc \in {"inspect", "conclude"} /\ verdict = "not_applied" => ~At(disk, p)
Telling == \A e \in Processes : Current(e) => Tells(e)

\* The command under way in a plan, and whether it has renamed.
KindAt(p) == command[p][Latest(p).request]
Made(p, k) == At(disk, p) <=> k = "execute"
Left(d, p) ==
    /\ State(p) \in Intents \cup {"needs_attention"}
    /\ d[From(p, KindAt(p))] = Target
    /\ State(p) \in Intents => Made(p, KindAt(p))
Origins == \A d \in unsynced : \E p \in Plans : Left(d, p)

Results(k) == {RequestedBy[k], IntentOf[k], StartsFrom[k], StateAfter[CompletedOf[k]], "needs_attention"}
Belongs(p, i) ==
    journal[p][i].request \in Requests =>
        /\ command[p][journal[p][i].request] \in Commands
        /\ StateAfter[journal[p][i].kind] \in Results(command[p][journal[p][i].request])
RowsBelong == \A p \in Plans : \A i \in DOMAIN journal[p] : Belongs(p, i)

-----------------------------------------------------------------------------
(* Rows.                                                                   *)
LEMMA ResultTables ==
    /\ \A k \in Commands : RequestedBy[k] \in Results(k) /\ StateAfter[RequestedBy[k]] = RequestedBy[k]
    /\ \A s \in Unfinished : \A kind \in Follow[s] : StateAfter[kind] \in Results(CommandOf(s))
    /\ \A s \in Unfinished : CommandOf(s) \in Commands
  BY DEF Commands, RequestedBy, Results, StateAfter, Unfinished, Follow, CommandOf, IntentOf,
         StartsFrom, CompletedOf

LEMMA NextRowsBelong == ASSUME Base, KindsFit, RowsBelong, Next PROVE RowsBelong'
<1>1. TypeOK /\ LegalHistory /\ Chains /\ \A p \in Plans : \A i \in DOMAIN journal[p] : Belongs(p, i)
  BY DEF Base, RowsBelong
<1>2. CASE UNCHANGED <<journal, command>>
  BY <1>2 DEF RowsBelong, Belongs
<1>3. ASSUME NEW q \in Plans, CreatePreview(q) PROVE RowsBelong'
  <2>1. journal' = [journal EXCEPT ![q] = <<[kind |-> "preview_created", request |-> NoRequest]>>]
        /\ UNCHANGED command
    BY <1>3 DEF CreatePreview
  <2>2. ASSUME NEW p \in Plans, NEW i \in DOMAIN journal'[p] PROVE Belongs(p, i)'
    <3>1. CASE p = q
      <4>1. journal'[p][i].request = NoRequest
        BY <1>1, <2>1, <2>2, <3>1 DEF TypeOK
      <4> QED  BY <4>1, OwnersAssumption DEF OwnersAssumption, Belongs
    <3>2. CASE p # q
      <4>1. journal'[p] = journal[p]
        BY <1>1, <2>1, <3>2 DEF TypeOK
      <4> QED  BY <1>1, <2>1, <2>2, <4>1 DEF Belongs
    <3> QED  BY <3>1, <3>2
  <2> QED  BY <2>2 DEF RowsBelong
\* One more row, after which the rows there were still fit.
<1>4. ASSUME NEW q \in Plans, NEW v \in Events, journal' = [journal EXCEPT ![q] = Append(@, v)],
             \A p \in Plans : \A i \in DOMAIN journal[p] :
                journal[p][i].request \in Requests =>
                    command'[p][journal[p][i].request] = command[p][journal[p][i].request],
             command'[q][v.request] \in Commands,
             StateAfter[v.kind] \in Results(command'[q][v.request])
      PROVE  RowsBelong'
  <2>1. ASSUME NEW p \in Plans, NEW i \in DOMAIN journal'[p] PROVE Belongs(p, i)'
    <3>1. CASE i \in DOMAIN journal[p]
      <4>1. journal'[p][i] = journal[p][i]
        <5>1. CASE p = q  BY <1>1, <1>4, <3>1, <5>1, Grown
        <5>2. CASE p # q  BY <1>1, <1>4, <5>2, Grown
        <5> QED  BY <5>1, <5>2
      <4> QED  BY <1>1, <1>4, <3>1, <4>1 DEF Belongs
    <3>2. CASE i \notin DOMAIN journal[p]
      <4>1. p = q /\ journal'[p][i] = v
        <5>1. p = q  BY <1>1, <1>4, <2>1, <3>2, Grown
        <5>2. i = Len(journal[p]) + 1  BY <1>1, <1>4, <2>1, <3>2, <5>1, Grown
        <5>3. journal'[q][Len(journal[q]) + 1] = v  BY <1>1, <1>4, Grown
        <5> QED  BY <5>1, <5>2, <5>3
      <4> QED  BY <1>4, <4>1 DEF Belongs
    <3> QED  BY <3>1, <3>2
  <2> QED  BY <2>1 DEF RowsBelong
<1>5. ASSUME NEW e \in Processes, proc[e].pc = "start", Accept(e) PROVE RowsBelong'
  <2>1. PICK p, r, k, v : p = proc[e].plan /\ r = proc[e].request /\ k = proc[e].kind /\ v = Asked(e)
    OBVIOUS
  <2>2. /\ p \in Plans /\ r \in Requests /\ k \in Commands
        /\ v \in Events /\ v.request = r /\ v.kind = RequestedBy[k]
        /\ journal' = [journal EXCEPT ![p] = Append(@, v)]
        /\ command'[p][r] = k
        /\ \A q \in Plans, s \in Requests : (q # p \/ s # r) => command'[q][s] = command[q][s]
        /\ Chain(p, r) = {}
    BY SMTT(30), <1>5, <2>1, AcceptFacts
  <2>3. ASSUME NEW q \in Plans, NEW i \in DOMAIN journal[q], journal[q][i].request \in Requests
        PROVE  command'[q][journal[q][i].request] = command[q][journal[q][i].request]
    <3>1. q # p \/ journal[q][i].request # r
      BY <2>2, <2>3 DEF Chain
    <3> QED  BY <2>2, <2>3, <3>1
  <2>4. StateAfter[RequestedBy[k]] \in Results(k)
    BY <2>2, ResultTables
  <2> QED  BY <1>4, <2>2, <2>3, <2>4
<1>6. ASSUME NEW e \in Processes, NEW kind \in Kinds,
             Appendable(e, kind), Appended(e, kind), UNCHANGED command
      PROVE  RowsBelong'
  <2>1. PICK p, r, v : /\ p = proc[e].plan /\ r = proc[e].request
                       /\ v = [kind |-> kind, request |-> r]
    OBVIOUS
  <2>2. /\ p \in Plans /\ r \in Requests /\ v \in Events
        /\ journal' = [journal EXCEPT ![p] = Append(@, v)]
        /\ State(p) \in Unfinished /\ kind \in Follow[State(p)] /\ Latest(p).request = r
        /\ Len(journal[p]) \in DOMAIN journal[p] /\ State(p) = StateAfter[Latest(p).kind]
        /\ v.request = r /\ v.kind = kind
    BY <1>1, <1>6, <2>1, AppendFacts
  <2>3. command[p][r] = CommandOf(State(p))
    BY <2>2 DEF Latest, KindsFit
  <2>4. StateAfter[kind] \in Results(command[p][r]) /\ command[p][r] \in Commands
    BY <2>2, <2>3, ResultTables
  <2> QED  BY <1>4, <1>6, <2>2, <2>4
<1> QED  BY <1>1, <1>2, <1>3, <1>5, <1>6, JournalSteps

(* A command that has no answer yet, or one that needs attention, is the   *)
(* last of its plan.                                                       *)
LEMMA OpenIsLatest ==
    ASSUME Base, NEW p \in Plans, NEW r \in Requests, command[p][r] # "none",
           Outcome(p, r) \in Unfinished \cup {"needs_attention"}
    PROVE  /\ journal[p] # <<>> /\ Latest(p).request = r
           /\ LastOf(p, r) = Len(journal[p]) /\ State(p) = Outcome(p, r)
<1>1. TypeOK /\ LegalHistory /\ HasLast(p, r)
  BY DEF Base, Chains
<1>2. PICK n : n = LastOf(p, r)
  OBVIOUS
<1>3. n \in Chain(p, r) /\ \A j \in Chain(p, r) : j <= n
  BY <1>1, <1>2, LastIs
<1>4. PICK len : /\ len = Len(journal[p]) /\ len \in Nat /\ DOMAIN journal[p] = 1..len
  <2>1. journal[p] \in Seq(Events)
    BY <1>1 DEF TypeOK
  <2>2. Len(journal[p]) \in Nat /\ DOMAIN journal[p] = 1..Len(journal[p])
    BY <2>1
  <2> QED  BY <2>2
<1>5. n \in 1..len /\ journal[p][n].request = r
  BY <1>3, <1>4 DEF Chain
<1>6. n = len
  <2>1. SUFFICES ASSUME n # len PROVE FALSE
    OBVIOUS
  <2>2. n + 1 \in DOMAIN journal[p] /\ n + 1 # 1 /\ (n + 1) - 1 = n
    BY <1>4, <1>5, <2>1
  <2>3. RowFits(p, n + 1)
    BY <1>1, <2>2, Rows
  <2>4. StateAfter[journal[p][n].kind] = Outcome(p, r)
    BY <1>2 DEF Outcome
  <2>5. \A k \in Commands : StartsFrom[k] \notin Unfinished \cup {"needs_attention"}
    BY DEF Commands, StartsFrom, Unfinished, Follow
  <2>6. journal[p][n + 1].request = r
    <3>1. CASE Outcome(p, r) \in Unfinished
      BY <1>5, <2>2, <2>3, <2>4, <2>5, <3>1 DEF RowFits
    <3>2. CASE Outcome(p, r) = "needs_attention"
      <4>1. "needs_attention" \notin Unfinished
        BY DEF Unfinished, Follow
      <4> QED  BY <1>5, <2>2, <2>3, <2>4, <2>5, <3>2, <4>1 DEF RowFits
    <3> QED  BY <3>1, <3>2
  <2>7. n + 1 \in Chain(p, r)
    BY <2>2, <2>6 DEF Chain
  <2> QED  BY <1>3, <1>5, <2>7
<1>7. journal[p] # <<>>
  BY <1>4, <1>5, <1>6
<1> QED  BY <1>2, <1>4, <1>5, <1>6, <1>7 DEF Latest, State, Outcome

-----------------------------------------------------------------------------
(* The folder of a plan that has not renamed, and of one that took its     *)
(* rename back.                                                            *)
LEMMA UntouchedTables ==
    /\ \A k \in Commands :
         /\ RequestedBy[k] \in {"none", "previewed", "execute_requested"} => StartsFrom[k] = "previewed"
         /\ RequestedBy[k] # "direct_rename_intent"
    /\ \A s \in Unfinished : \A kind \in Follow[s] :
         /\ StateAfter[kind] \in {"none", "previewed", "execute_requested"} =>
              \/ s = "execute_requested"
              \/ kind = "execution_not_applied" /\ s = "direct_rename_intent"
         /\ StateAfter[kind] = "direct_rename_intent" => s = "execute_requested"
    /\ "execution_not_applied" \in Answers
    /\ \A k \in Commands : /\ CompletedOf[k] # "execution_not_applied"
                           /\ AttentionOf[k] \notin Answers
                           /\ NotAppliedOf[k] = "execution_not_applied" => k = "execute"
  BY DEF Commands, RequestedBy, StartsFrom, Unfinished, Follow, StateAfter, Answers, CompletedOf,
         NotAppliedOf, AttentionOf

DoneBy(e, p) == Rename(e) /\ proc[e].plan = p /\ proc[e].kind = "execute"
LEMMA StaysAway ==
    ASSUME MaxChanges = 0, TypeOK, Alone, Distinct, Next, NEW p \in Plans,
           \A e \in Processes : ~DoneBy(e, p)
    PROVE  /\ Absent(p) => Absent(p)'
           /\ ~At(disk, p) => ~At(disk', p) \/ PowerLoss
<1>1. ASSUME NEW e \in Processes, Rename(e)
      PROVE  (Absent(p) => Absent(p)') /\ (~At(disk, p) => ~At(disk', p))
  <2>1. ~At(disk, p) => ~At(disk', p)
    BY <1>1, RenameEffect DEF DoneBy
  <2>2. unsynced' \subseteq Images
    BY <1>1, RenameEffect
  <2> QED  BY <2>1, <2>2 DEF Absent, Images, At
<1>2. CASE PowerLoss
  BY <1>2 DEF PowerLoss, Absent, Images, At
<1>3. CASE disk' = disk /\ unsynced' \subseteq unsynced
  BY <1>3 DEF Absent, Images, At
<1> QED  BY <1>1, <1>2, <1>3, FolderSteps

\* A file that is under its old name is not under its new one.
LEMMA SourceAway ==
    ASSUME NEW p \in Plans, NEW d, Solo(d)
    PROVE  d[Source[p]] = Target => ~At(d, p)
<1>1. /\ Source[p] \in Names /\ Destination[p] \in Names /\ Source[p] # Destination[p]
      /\ Target # Nothing
  BY PlansAssumption, EntriesAssumption DEF PlansAssumption, EntriesAssumption
<1>2. PICK n \in Names : d = [m \in Names |-> IF m = n THEN Target ELSE Nothing]
  BY DEF Solo
<1> QED  BY <1>1, <1>2 DEF At

LEMMA NextUntouched ==
    ASSUME MaxChanges = 0, Distinct, Base, Backed, InPlace, Untouched, Executing, Telling, Next
    PROVE  Untouched'
<1>1. TypeOK /\ Trail /\ Alone
  BY DEF Base, InPlace
<1>2. SUFFICES ASSUME NEW p \in Plans, State(p)' \in {"none", "previewed", "execute_requested"}
               PROVE  Absent(p)'
  BY DEF Untouched
<1>3. UNCHANGED folder /\ Absent(p) => Absent(p)'
  BY DEF folder, Absent, Images, At
<1>4. CASE UNCHANGED journal[p]
  <2>1. State(p) \in {"none", "previewed", "execute_requested"}
    BY <1>2, <1>4 DEF State, Latest
  <2>2. \A e \in Processes : ~DoneBy(e, p)
    BY <1>1, <2>1, Renamer DEF DoneBy
  <2> QED  BY <1>1, <2>1, <2>2, StaysAway DEF Untouched
<1>5. ASSUME UNCHANGED folder, NEW k \in Commands, State(p) = StartsFrom[k], State(p)' = RequestedBy[k]
      PROVE  Absent(p)'
  BY <1>2, <1>3, <1>5, UntouchedTables DEF Untouched
<1>6. ASSUME UNCHANGED folder, State(p) \in Unfinished,
             NEW e \in Processes, NEW kind \in Follow[State(p)],
             proc[e].plan = p, Current(e), State(p)' = StateAfter[kind],
             kind \in Answers => Reporting(e, kind)
      PROVE  Absent(p)'
  <2>1. Tells(e) /\ proc[e].kind \in Commands /\ proc[e].verdict \in Verdicts
    BY <1>1, <1>6 DEF Telling, TypeOK, Calls
  <2>2. CASE State(p) = "execute_requested"
    BY <1>3, <1>6, <2>2 DEF Untouched
  <2>3. CASE kind = "execution_not_applied" /\ State(p) = "direct_rename_intent"
    <3>1. Reporting(e, kind)
      BY <1>6, <2>3, UntouchedTables
    <3>2. proc[e].kind = "execute" /\ proc[e].pc = "conclude" /\ proc[e].verdict = "not_applied"
      BY <2>1, <2>3, <3>1, UntouchedTables DEF Reporting, VerdictOf, Verdicts
    <3>3. ~At(disk, p)
      BY <1>6, <2>1, <3>2 DEF Tells
    <3> QED  BY <1>3, <1>6, <2>3, <3>3 DEF Executing
  <2> QED  BY <1>2, <1>6, <2>2, <2>3, UntouchedTables
<1>7. CASE UNCHANGED folder /\ State(p) = "none"
  BY <1>3, <1>7 DEF Untouched
<1> QED  BY <1>4, <1>5, <1>6, <1>7, StateSteps

LEMMA NextExecuting ==
    ASSUME MaxChanges = 0, Distinct, Base, Backed, InPlace, Untouched, Executing, Next
    PROVE  Executing'
<1>1. TypeOK /\ Trail /\ Alone
  BY DEF Base, InPlace
<1>2. SUFFICES ASSUME NEW p \in Plans, State(p)' = "direct_rename_intent", ~At(disk', p)
               PROVE  Absent(p)'
  BY DEF Executing, At
<1>3. UNCHANGED folder /\ Absent(p) => Absent(p)'
  BY DEF folder, Absent, Images, At
<1>4. CASE UNCHANGED journal[p]
  <2>1. State(p) = "direct_rename_intent" /\ (~At(disk, p) => Absent(p))
    BY <1>2, <1>4 DEF State, Latest, Executing
  <2>2. CASE PowerLoss
    BY <1>2, <2>2 DEF PowerLoss, Absent, Images, At
  <2>3. ASSUME NEW e \in Processes, Rename(e) PROVE Absent(p)'
    <3>1. ~(proc[e].plan = p /\ proc[e].kind = "undo")
      BY <1>1, <2>1, <2>3, Renamer
    <3>2. ~At(disk, p)
      BY <1>1, <1>2, <2>3, <3>1, RenameEffect DEF At
    <3>3. unsynced' \subseteq Images
      BY <1>1, <2>3, RenameEffect
    <3> QED  BY <1>2, <2>1, <3>2, <3>3 DEF Absent, Images, At
  <2>4. CASE disk' = disk /\ unsynced' \subseteq unsynced
    BY <1>2, <2>1, <2>4 DEF Absent, Images, At
  <2> QED  BY <1>1, <2>2, <2>3, <2>4, FolderSteps
<1>5. ASSUME NEW k \in Commands, State(p)' = RequestedBy[k] PROVE FALSE
  BY <1>2, <1>5, UntouchedTables
<1>6. ASSUME UNCHANGED folder, State(p) \in Unfinished, NEW kind \in Follow[State(p)],
             State(p)' = StateAfter[kind]
      PROVE  Absent(p)'
  BY <1>2, <1>3, <1>6, UntouchedTables DEF Untouched
<1> QED  BY <1>2, <1>4, <1>5, <1>6, StateSteps

LEMMA NextTelling ==
    ASSUME MaxChanges = 0, Distinct, Base, Backed, InPlace, Telling, Next
    PROVE  Telling'
<1>1. TypeOK /\ TypeOK' /\ Trail /\ Alone /\ LeaseHeld /\ ProcType
  BY NextType, TypedParts DEF Base, InPlace, Typed
<1>2. SUFFICES ASSUME NEW f \in Processes, Current(f)', proc'[f].pc \in Seeing PROVE Tells(f)'
  BY DEF Telling, Tells, Seeing
<1>3. PICK p, k : p = proc'[f].plan /\ k = proc'[f].kind
  OBVIOUS
<1>4. CASE UNCHANGED proc[f]
  <2>1. /\ proc[f].pc \in Seeing /\ proc[f].plan = p /\ proc[f].kind = k
        /\ RowOf(p, proc[f].request, proc[f].sequence, proc[f].state)
    BY <1>2, <1>3, <1>4 DEF Backed, Seeing, Working, Late
  <2>2. Current(f) /\ p \in Plans
    BY <1>2, <1>4, <2>1, StaysCurrent DEF Current, RowOf
  <2>3. Tells(f)
    BY <2>2 DEF Telling
  <2>4. ~PowerLoss
    BY <1>2 DEF PowerLoss, Idle, Seeing
  <2>5. \A e \in Processes : ~DoneBy(e, p)
    <3>1. SUFFICES ASSUME NEW e \in Processes, DoneBy(e, p) PROVE FALSE
      OBVIOUS
    <3>2. Owns(e, p) /\ Owns(f, p) /\ proc[e].pc = "syscall"
      BY <1>1, <2>1, <3>1 DEF DoneBy, Rename, LeaseHeld, Leased, Working, Late, Seeing
    <3>3. e = f
      BY <3>2 DEF Owns
    <3> QED  BY <2>1, <3>2, <3>3 DEF Seeing
  <2>6. (Absent(p) => Absent(p)') /\ (~At(disk, p) => ~At(disk', p))
    BY <1>1, <2>2, <2>4, <2>5, StaysAway
  <2> QED  BY <1>3, <1>4, <2>1, <2>3, <2>6 DEF Tells, At
<1>5. CASE Step(f)
  <2>1. LookSteps(f)
    BY <1>1, <1>2, <1>5, Looking
  <2>2. /\ disk' = disk /\ unsynced' \subseteq unsynced
        /\ proc[f].pc = "settle" => unsynced' = {} /\ disk[To(p, k)] = Target
        /\ proc[f].pc = "inspect" /\ proc'[f].verdict = "applied" => unsynced' = {}
    BY <1>1, <1>2, <1>3, <1>5, <2>1, LookFolder DEF LookSteps
  <2>3. proc[f].plan = p /\ proc[f].kind = k /\ Current(f) /\ p \in Plans /\ k \in Commands
    BY <1>1, <1>2, <1>3, <2>1 DEF LookSteps, Current, TypeOK, Calls
  <2>4. Tells(f)
    BY <2>3 DEF Telling
  <2>5. /\ At(disk', p) <=> At(disk, p)
        /\ Absent(p) => Absent(p)'
        /\ ~At(disk, p) /\ unsynced' = {} => Absent(p)'
    BY <2>2 DEF At, Absent, Images
  <2>6. disk[Source[p]] = Target => ~At(disk, p)
    BY <1>1, <2>3, SourceAway DEF Alone, Images
  <2>7. CASE k = "execute"
    <3>1. From(p, k) = Source[p]
      BY <2>7 DEF From
    <3>2. Exact(p, From(p, k)) => ~At(disk, p)
      BY <2>6, <3>1 DEF Exact
    <3> QED  BY <1>3, <2>1, <2>2, <2>3, <2>4, <2>5, <2>7, <3>2 DEF LookSteps, Tells, At
  <2>8. CASE k = "undo"
    <3>1. To(p, k) = Source[p]
      BY <2>8 DEF To
    <3>2. (Exact(p, To(p, k)) => ~At(disk, p)) /\ (disk[To(p, k)] = Target => ~At(disk, p))
      BY <2>6, <3>1 DEF Exact
    <3> QED  BY <1>3, <2>1, <2>2, <2>3, <2>4, <2>5, <2>8, <3>2 DEF LookSteps, Tells, At
  <2> QED  BY <2>3, <2>7, <2>8 DEF Commands
<1> QED
  <2>1. proc'[f].pc \in Late
    BY <1>2 DEF Seeing, Late
  <2> QED  BY <1>1, <1>4, <1>5, <2>1, WhoSteps

-----------------------------------------------------------------------------
(* What a power loss may bring back.                                       *)
Pending == Unfinished \cup {"needs_attention"}

LEMMA PendingTables ==
    /\ \A k \in Commands : StartsFrom[k] \notin Pending /\ IntentOf[k] \in Intents
    /\ "none" \notin Pending /\ "previewed" \notin Pending
    /\ Intents \subseteq Unfinished /\ Unfinished \subseteq Pending
    /\ \A k \in Commands : \A s \in Intents \cap Results(k) : s = IntentOf[k]
    /\ \A k \in Commands : CommandOf(IntentOf[k]) = k
    /\ "needs_attention" \notin Intents
    /\ \A k \in Commands : Follow[IntentOf[k]] = {CompletedOf[k], NotAppliedOf[k], AttentionOf[k]}
    /\ \A k \in Commands : /\ CompletedOf[k] # NotAppliedOf[k] /\ CompletedOf[k] # AttentionOf[k]
                           /\ NotAppliedOf[k] # AttentionOf[k]
                           /\ StateAfter[AttentionOf[k]] = "needs_attention"
                           /\ CompletedOf[k] \in Answers /\ NotAppliedOf[k] \in Answers
    /\ \A k, c \in Commands : /\ CompletedOf[k] = CompletedOf[c] => k = c
                              /\ NotAppliedOf[k] = NotAppliedOf[c] => k = c
                              /\ CompletedOf[k] # NotAppliedOf[c]
                              /\ CompletedOf[k] # AttentionOf[c] /\ NotAppliedOf[k] # AttentionOf[c]
  BY DEF Pending, Commands, StartsFrom, IntentOf, Intents, Unfinished, Follow, Results, RequestedBy,
         StateAfter, CompletedOf, NotAppliedOf, AttentionOf, CommandOf, Answers

LEMMA LatestBelongs ==
    ASSUME Base, RowsBelong, NEW p \in Plans, State(p) \in Pending
    PROVE  /\ journal[p] # <<>> /\ Len(journal[p]) \in DOMAIN journal[p]
           /\ State(p) = StateAfter[Latest(p).kind]
           /\ Latest(p).request \in Requests
           /\ KindAt(p) \in Commands
           /\ State(p) \in Results(KindAt(p))
           /\ State(p) \in Intents => State(p) = IntentOf[KindAt(p)]
<1>1. TypeOK /\ LegalHistory
  BY DEF Base
<1>2. journal[p] # <<>> /\ State(p) = StateAfter[Latest(p).kind]
  BY PendingTables DEF State
<1>3. journal[p] \in Seq(Events)
  BY <1>1 DEF TypeOK
<1>4. PICK n : n = Len(journal[p])
  OBVIOUS
<1>5. n \in DOMAIN journal[p] /\ Latest(p) = journal[p][n]
  BY <1>2, <1>3, <1>4 DEF Latest
<1>6. RowFits(p, n) /\ Belongs(p, n)
  BY <1>1, <1>5, Rows DEF RowsBelong
<1>7. Latest(p).request \in Requests
  <2>1. CASE n = 1
    <3>1. Latest(p).kind = "preview_created"
      BY <1>5, <1>6, <2>1 DEF RowFits
    <3> QED  BY <1>2, <3>1, PendingTables, IntentTables
  <2>2. CASE n # 1
    BY <1>5, <1>6, <2>2 DEF RowFits
  <2> QED  BY <2>1, <2>2
<1>8. KindAt(p) \in Commands /\ State(p) \in Results(KindAt(p))
  BY <1>2, <1>5, <1>6, <1>7 DEF Belongs, KindAt
<1> QED  BY <1>2, <1>4, <1>5, <1>7, <1>8, PendingTables

\* A request keeps its command, and a plan the command that is under way.
LEMMA CommandStays ==
    ASSUME Base, Next, NEW p \in Plans, NEW r \in Requests, command[p][r] # "none"
    PROVE  command'[p][r] = command[p][r]
<1>1. ASSUME NEW e \in Processes, proc[e].pc = "start", Accept(e) PROVE command'[p][r] = command[p][r]
  <2>1. PICK q, s : q = proc[e].plan /\ s = proc[e].request
    OBVIOUS
  <2>2. /\ command[q][s] = "none"
        /\ \A q1 \in Plans, s1 \in Requests : (q1 # q \/ s1 # s) => command'[q1][s1] = command[q1][s1]
    BY <1>1, <2>1, AcceptFacts
  <2> QED  BY <2>2
<1> QED  BY <1>1, JournalSteps DEF Base, CreatePreview

LEMMA KindStays ==
    ASSUME Base, RowsBelong, Next, NEW p \in Plans, State(p) \in Pending, State(p)' \in Pending
    PROVE  KindAt(p)' = KindAt(p)
<1>1. TypeOK /\ LegalHistory /\ Chains
  BY DEF Base
<1>2. Latest(p).request \in Requests /\ KindAt(p) \in Commands /\ journal[p] # <<>>
  BY LatestBelongs
<1>3. Latest(p)'.request = Latest(p).request
  <2>1. CASE UNCHANGED journal[p]
    BY <2>1 DEF Latest
  <2>2. ASSUME NEW q \in Plans, CreatePreview(q) PROVE UNCHANGED journal[p]
    BY <1>1, <1>2, <2>2 DEF CreatePreview, TypeOK
  <2>3. ASSUME NEW e \in Processes, proc[e].pc = "start", Accept(e) PROVE UNCHANGED journal[p]
    <3>1. PICK q, k, v : q = proc[e].plan /\ k = proc[e].kind /\ v = Asked(e)
      OBVIOUS
    <3>2. /\ k \in Commands /\ State(q) = StartsFrom[k]
          /\ journal' = [journal EXCEPT ![q] = Append(@, v)]
      BY <2>3, <3>1, AcceptFacts DEF Accept, Accepts
    <3>3. q # p
      BY <3>2, PendingTables
    <3> QED  BY <1>1, <3>2, <3>3 DEF TypeOK
  <2>4. ASSUME NEW e \in Processes, NEW kind \in Kinds,
               Appendable(e, kind), Appended(e, kind), UNCHANGED command
        PROVE  Latest(p)'.request = Latest(p).request
    <3>1. PICK q, r, v : /\ q = proc[e].plan /\ r = proc[e].request
                         /\ v = [kind |-> kind, request |-> r]
      OBVIOUS
    <3>2. /\ q \in Plans /\ v \in Events /\ Latest(q).request = r /\ v.request = r
          /\ journal' = [journal EXCEPT ![q] = Append(@, v)]
      BY <1>1, <2>4, <3>1, AppendFacts
    <3>3. CASE q = p
      <4>1. Len(journal'[p]) = Len(journal[p]) + 1 /\ journal'[p][Len(journal[p]) + 1] = v
        BY <1>1, <3>2, <3>3, Grown
      <4> QED  BY <3>2, <3>3, <4>1 DEF Latest
    <3>4. CASE q # p
      BY <1>1, <3>2, <3>4 DEF TypeOK, Latest
    <3> QED  BY <3>3, <3>4
  <2> QED  BY <1>1, <2>1, <2>2, <2>3, <2>4, JournalSteps
<1>4. command'[p][Latest(p).request] = command[p][Latest(p).request]
  BY <1>2, CommandStays, CommandValue DEF KindAt
<1> QED  BY <1>3, <1>4 DEF KindAt

\* A rename that is made is still made after any step but a power loss.
LEMMA MadeStays ==
    ASSUME MaxChanges = 0, Distinct, Base, Backed, InPlace, Next, ~PowerLoss,
           NEW p \in Plans, NEW k \in Commands, State(p) = IntentOf[k], Made(p, k)
    PROVE  Made(p, k)'
<1>1. TypeOK /\ Trail /\ Alone
  BY DEF Base, InPlace
<1>2. CASE k = "execute"
  <2>1. State(p) = "direct_rename_intent"
    BY <1>2 DEF IntentOf
  <2>2. \A e \in Processes : ~UndoneBy(e, p)
    BY <1>1, <2>1, Renamer DEF UndoneBy
  <2> QED  BY <1>1, <1>2, <2>2, StaysThere DEF Made, At
<1>3. CASE k = "undo"
  <2>1. State(p) = "undo_rename_intent"
    BY <1>3 DEF IntentOf
  <2>2. \A e \in Processes : ~DoneBy(e, p)
    BY <1>1, <2>1, Renamer DEF DoneBy
  <2> QED  BY <1>1, <1>3, <2>2, StaysAway DEF Made, At
<1> QED  BY <1>2, <1>3 DEF Commands

\* What a rename that moves the file finds and leaves.
LEMMA MoveEffect ==
    ASSUME TypeOK, Alone, NEW e \in Processes, Rename(e),
           disk' # disk \/ unsynced' # unsynced,
           NEW p, p = proc[e].plan, NEW k, k = proc[e].kind
    PROVE  /\ p \in Plans /\ k \in Commands
           /\ disk[From(p, k)] = Target /\ disk'[To(p, k)] = Target
           /\ Solo(disk') /\ unsynced' = unsynced \cup {disk}
           /\ At(disk', p) <=> k = "execute"
           /\ At(disk, p) <=> k # "execute"
<1>1. p \in Plans /\ k \in {"execute", "undo"} /\ k \in Commands
  BY DEF TypeOK, Calls, Commands
<1>2. /\ Source[p] \in Names /\ Destination[p] \in Names /\ Source[p] # Destination[p]
      /\ Target # Nothing
  BY <1>1, PlansAssumption, EntriesAssumption DEF PlansAssumption, EntriesAssumption
<1>3. PICK from, to : from = From(p, k) /\ to = To(p, k)
  OBVIOUS
<1>4. /\ from \in Names /\ to \in Names /\ from # to
      /\ k = "execute" => from = Source[p] /\ to = Destination[p]
      /\ k = "undo" => from = Destination[p] /\ to = Source[p]
  BY <1>1, <1>2, <1>3 DEF From, To
<1>5. PICK n \in Names : disk = [m \in Names |-> IF m = n THEN Target ELSE Nothing]
  BY DEF Alone, Images, Solo
<1>6. /\ disk[from] # Nothing
      /\ disk' = Moved(disk, from, to) /\ unsynced' = unsynced \cup {disk}
  BY <1>3 DEF Rename
<1>7. n = from
  BY <1>4, <1>5, <1>6
<1>8. disk' = [m \in Names |-> IF m = to THEN Target ELSE Nothing]
  BY <1>4, <1>5, <1>6, <1>7 DEF Moved
<1>9. Solo(disk')
  BY <1>4, <1>8 DEF Solo
<1>10. disk[from] = Target /\ disk'[to] = Target
  BY <1>4, <1>5, <1>7, <1>8
<1>11. (At(disk', p) <=> k = "execute") /\ (At(disk, p) <=> k # "execute")
  BY <1>1, <1>2, <1>4, <1>5, <1>7, <1>8 DEF At
<1> QED  BY <1>1, <1>3, <1>6, <1>9, <1>10, <1>11

\* No answer can be given for a rename that a power loss may still take back.
LEMMA AnswerSettles ==
    ASSUME Base, RowsBelong, Alone, Calling, Telling, NEW e \in Processes, NEW p \in Plans,
           NEW k \in Commands, p = proc[e].plan, Current(e), State(p) = IntentOf[k],
           NEW kind \in Follow[State(p)], kind \in Answers => Reporting(e, kind)
    PROVE  /\ kind = CompletedOf[k] =>
                Made(p, k) /\ \A d \in unsynced : d[From(p, k)] # Target
           /\ kind = NotAppliedOf[k] => ~Made(p, k)
           /\ kind \in {CompletedOf[k], NotAppliedOf[k], AttentionOf[k]}
<1>1. proc[e].kind \in Commands /\ proc[e].verdict \in Verdicts /\ TypeOK
  BY DEF Base, TypeOK, Calls
<1>2. Reports(e) /\ Tells(e)
  BY DEF Calling, Telling
<1>3. kind \in {CompletedOf[k], NotAppliedOf[k], AttentionOf[k]}
  BY PendingTables
<1>4. disk \in Images /\ \A d \in unsynced : d \in Images
  BY DEF Images
<1>5. CASE kind = CompletedOf[k]
  <2>1. Reporting(e, kind)
    BY <1>5, PendingTables
  <2>2. proc[e].kind = k /\ (proc[e].pc = "complete" \/ (proc[e].pc = "conclude" /\ proc[e].verdict = "applied"))
    BY <1>1, <1>5, <2>1, PendingTables DEF Reporting, VerdictOf, Verdicts
  <2>3. CASE k = "execute"
    <3>1. Settled(p)
      BY <1>2, <2>2, <2>3 DEF Reports
    <3>2. From(p, k) = Source[p] /\ Made(p, k)
      BY <1>4, <2>3, <3>1 DEF From, Made, Settled
    <3>3. ASSUME NEW d \in unsynced PROVE d[From(p, k)] # Target
      <4>1. At(d, p) /\ Solo(d)
        BY <1>4, <3>1 DEF Settled, Alone
      <4> QED  BY <3>2, <4>1, SourceAway
    <3> QED  BY <1>3, <1>5, <3>2, <3>3, PendingTables
  <2>4. CASE k = "undo"
    <3>1. Absent(p)
      BY <1>2, <2>2, <2>4 DEF Tells
    <3>2. From(p, k) = Destination[p] /\ Made(p, k)
      BY <1>4, <2>4, <3>1 DEF From, Made, Absent
    <3>3. \A d \in unsynced : d[From(p, k)] # Target
      BY <1>4, <3>1, <3>2 DEF Absent, At
    <3> QED  BY <1>3, <1>5, <3>2, <3>3, PendingTables
  <2> QED  BY <2>3, <2>4 DEF Commands
<1>6. CASE kind = NotAppliedOf[k]
  <2>1. Reporting(e, kind)
    BY <1>6, PendingTables
  <2>2. proc[e].kind = k /\ proc[e].pc = "conclude" /\ proc[e].verdict = "not_applied"
    BY <1>1, <1>6, <2>1, PendingTables DEF Reporting, VerdictOf, Verdicts
  <2>3. ~Made(p, k)
    BY <1>2, <2>2 DEF Made, Reports, Tells, Commands
  <2> QED  BY <1>3, <1>6, <2>3, PendingTables
<1> QED  BY <1>3, <1>5, <1>6, PendingTables

LEMMA NextOrigins ==
    ASSUME MaxChanges = 0, Distinct, Base, Backed, KindsFit, RowsBelong, InPlace, Telling, Origins, Next
    PROVE  Origins'
<1>1. TypeOK /\ Trail /\ Alone /\ Calling
  BY DEF Base, InPlace
<1>2. SUFFICES ASSUME NEW d \in unsynced' PROVE \E p \in Plans : Left(d, p)'
  BY DEF Origins
<1>3. ~PowerLoss
  BY <1>2 DEF PowerLoss
<1>4. CASE d \in unsynced
  <2>1. PICK p \in Plans : Left(d, p)
    BY <1>4 DEF Origins
  <2>2. PICK k : k = KindAt(p)
    OBVIOUS
  <2>3. /\ State(p) \in Pending /\ d[From(p, k)] = Target
        /\ k \in Commands
        /\ State(p) \in Intents => Made(p, k) /\ State(p) = IntentOf[k]
    BY <2>1, <2>2, LatestBelongs, PendingTables DEF Left, Pending
  <2>4. State(p)' = State(p) \/ (State(p) \in Intents /\ State(p)' = "needs_attention")
    <3>1. CASE UNCHANGED journal[p]
      BY <3>1 DEF State, Latest
    <3>2. ASSUME NEW c \in Commands, State(p) = StartsFrom[c] PROVE FALSE
      BY <2>3, <3>2, PendingTables
    <3>3. State(p) # "none"
      BY <2>3, PendingTables
    <3>4. ASSUME State(p) \in Unfinished, NEW e \in Processes, NEW kind \in Follow[State(p)],
                 proc[e].plan = p, Current(e), State(p)' = StateAfter[kind],
                 kind \in Answers => Reporting(e, kind)
          PROVE  State(p) \in Intents /\ State(p)' = "needs_attention"
      <4>1. State(p) \in Intents
        BY <2>1, <3>4 DEF Left, Unfinished, Follow
      <4>2. State(p) = IntentOf[k] /\ Made(p, k)
        BY <2>3, <4>1
      <4>3. kind = AttentionOf[k]
        BY <1>1, <1>4, <2>3, <3>4, <4>2, AnswerSettles
      <4> QED  BY <2>3, <3>4, <4>1, <4>3, PendingTables
    <3> QED  BY <3>1, <3>2, <3>3, <3>4, StateSteps
  <2>5. State(p)' \in Pending
    BY <2>3, <2>4 DEF Pending
  <2>6. KindAt(p)' = k
    BY <2>2, <2>3, <2>5, KindStays
  <2>7. State(p)' \in Intents => Made(p, k)'
    <3>1. SUFFICES ASSUME State(p)' \in Intents PROVE Made(p, k)'
      OBVIOUS
    <3>2. State(p) \in Intents
      BY <2>4, <3>1
    <3> QED  BY <1>3, <2>3, <3>2, MadeStays
  <2>8. State(p)' \in Intents \cup {"needs_attention"}
    BY <2>1, <2>4 DEF Left
  <2>9. Left(d, p)'
    BY <2>3, <2>6, <2>7, <2>8 DEF Left, From, Made, At
  <2> QED  BY <2>9
<1>5. CASE d \notin unsynced
  <2>1. PICK e \in Processes : Rename(e)
    BY <1>1, <1>2, <1>3, <1>5, FolderSteps
  <2>2. PICK p, k : p = proc[e].plan /\ k = proc[e].kind
    OBVIOUS
  <2>3. /\ p \in Plans /\ k \in Commands /\ d[From(p, k)] = Target /\ d = disk
        /\ At(disk', p) <=> k = "execute"
    BY <1>1, <1>2, <1>5, <2>1, <2>2, MoveEffect
  <2>4. /\ State(p) = IntentOf[k]
        /\ UNCHANGED <<journal, command>>
    <3>1. UNCHANGED <<journal, command>>
      BY <2>1 DEF Rename, journalVars
    <3>2. State(p) = IF k = "execute" THEN "direct_rename_intent" ELSE "undo_rename_intent"
      BY <1>1, <2>1, <2>2, <2>3, Renamer DEF Commands
    <3> QED  BY <2>3, <3>1, <3>2 DEF IntentOf, Commands
  <2>5. State(p) \in Pending /\ State(p) \in Intents
    BY <2>3, <2>4, PendingTables
  <2>6. KindAt(p) = k
    BY <2>3, <2>4, <2>5, LatestBelongs, PendingTables
  <2>7. State(p)' = State(p) /\ KindAt(p)' = KindAt(p)
    BY <2>4 DEF State, KindAt, Latest
  <2>8. Left(d, p)'
    BY <2>3, <2>5, <2>6, <2>7 DEF Left, From, Made, At
  <2> QED  BY <2>3, <2>8
<1> QED  BY <1>4, <1>5

Mapped == Untouched /\ Executing /\ Telling /\ Origins /\ RowsBelong

LEMMA InitMapped == ASSUME Distinct, Init PROVE Mapped
<1>1. \A e \in Processes : proc[e].pc = "idle"
  BY DEF Init, Idle
<1>2. \A p \in Plans : State(p) = "none" /\ journal[p] = <<>>
  BY DEF Init, State
<1>3. Telling
  BY <1>1 DEF Telling, Tells
<1>4. Origins /\ RowsBelong /\ Executing
  BY <1>2 DEF Init, Origins, RowsBelong, Executing
<1>5. Untouched
  <2>1. PICK q \in Plans : disk = [n \in Names |-> IF n = Source[q] THEN Target ELSE Nothing]
    BY DEF Init
  <2>2. ASSUME NEW p \in Plans PROVE ~At(disk, p)
    <3>1. Destination[p] \in Names /\ Destination[p] # Source[q] /\ Target # Nothing
      BY PlansAssumption, EntriesAssumption DEF PlansAssumption, EntriesAssumption, Distinct
    <3> QED  BY <2>1, <3>1 DEF At
  <2> QED  BY <2>2 DEF Init, Untouched, Absent, Images
<1> QED  BY <1>3, <1>4, <1>5 DEF Mapped

-----------------------------------------------------------------------------
(* The phase of a request, by its command, its outcome and whether the     *)
(* plan's file is where the command puts it.                               *)
PhaseOf(k, o, made) ==
    IF k = "none" THEN "new"
    ELSE CASE o \in Intents -> IF made THEN "moved" ELSE "open"
           [] o \in Unfinished \ Intents -> "open"
           [] o = StateAfter[CompletedOf[k]] -> "applied"
           [] o = StartsFrom[k] -> "not_applied"
           [] o = "needs_attention" -> "unknown"

LEMMA PhaseIs ==
    ASSUME NEW p \in Plans, NEW r \in Requests
    PROVE  /\ Phase(p, r) = PhaseOf(command[p][r], Outcome(p, r), Made(p, command[p][r]))
           /\ Phase(p, r)' = PhaseOf(command'[p][r], Outcome(p, r)', Made(p, command[p][r])')
  BY DEF Phase, PhaseOf, Made, At

LEMMA PhaseTables ==
    /\ \A o, made : PhaseOf("none", o, made) = "new"
    /\ \A k \in Commands : \A o \in Results(k) \ Intents : \A made, other :
         PhaseOf(k, o, made) = PhaseOf(k, o, other)
    /\ \A k \in Commands : \A made :
         /\ PhaseOf(k, RequestedBy[k], made) = "open"
         /\ PhaseOf(k, IntentOf[k], made) = IF made THEN "moved" ELSE "open"
         /\ PhaseOf(k, StateAfter[CompletedOf[k]], made) = "applied"
         /\ PhaseOf(k, StartsFrom[k], made) = "not_applied"
         /\ PhaseOf(k, "needs_attention", made) = "unknown"
         /\ RequestedBy[k] \in Pending /\ RequestedBy[k] \notin Intents
         /\ StateAfter[NotStartedOf[k]] = StartsFrom[k]
         /\ StateAfter[NotAppliedOf[k]] = StartsFrom[k]
         /\ StateAfter[IntentOf[k]] = IntentOf[k]
         /\ Follow[RequestedBy[k]] = {IntentOf[k], NotStartedOf[k]}
         /\ \A s \in Unfinished : CommandOf(s) = k => s \in {RequestedBy[k], IntentOf[k]}
<1>1. \A o, made : PhaseOf("none", o, made) = "new"
  BY DEF PhaseOf
<1>4. ASSUME NEW k \in Commands, NEW o \in Results(k), o \notin Intents, NEW made, NEW other
      PROVE  PhaseOf(k, o, made) = PhaseOf(k, o, other)
  BY <1>4 DEF Commands, PhaseOf, Results, RequestedBy, IntentOf, StateAfter, CompletedOf, StartsFrom,
              Intents, Unfinished, Follow
<1>2. ASSUME NEW k \in Commands, NEW made
      PROVE  /\ PhaseOf(k, RequestedBy[k], made) = "open"
             /\ PhaseOf(k, IntentOf[k], made) = IF made THEN "moved" ELSE "open"
             /\ PhaseOf(k, StateAfter[CompletedOf[k]], made) = "applied"
             /\ PhaseOf(k, StartsFrom[k], made) = "not_applied"
             /\ PhaseOf(k, "needs_attention", made) = "unknown"
  BY DEF Commands, PhaseOf, RequestedBy, IntentOf, StateAfter, CompletedOf, StartsFrom, Intents,
         Unfinished, Follow
<1>3. ASSUME NEW k \in Commands
      PROVE  /\ RequestedBy[k] \in Pending /\ RequestedBy[k] \notin Intents
             /\ StateAfter[NotStartedOf[k]] = StartsFrom[k]
             /\ StateAfter[NotAppliedOf[k]] = StartsFrom[k]
             /\ StateAfter[IntentOf[k]] = IntentOf[k]
             /\ Follow[RequestedBy[k]] = {IntentOf[k], NotStartedOf[k]}
             /\ \A s \in Unfinished : CommandOf(s) = k => s \in {RequestedBy[k], IntentOf[k]}
  BY <1>1 DEF Commands, RequestedBy, IntentOf, StateAfter, NotStartedOf, NotAppliedOf, StartsFrom,
         Intents, Unfinished, Follow, Pending, CommandOf
<1> QED  BY <1>1, <1>2, <1>3, <1>4

LEMMA OutcomeBelongs ==
    ASSUME Base, RowsBelong, NEW p \in Plans, NEW r \in Requests, command[p][r] # "none"
    PROVE  command[p][r] \in Commands /\ Outcome(p, r) \in Results(command[p][r])
<1>1. TypeOK /\ HasLast(p, r)
  BY DEF Base, Chains
<1>2. PICK n : n = LastOf(p, r)
  OBVIOUS
<1>3. n \in DOMAIN journal[p] /\ journal[p][n].request = r
  BY <1>1, <1>2, LastIs DEF Chain
<1>4. Belongs(p, n)
  BY <1>3 DEF RowsBelong
<1> QED  BY <1>2, <1>3, <1>4 DEF Belongs, Outcome

\* Which phases mean what.
LEMMA PhaseCases ==
    ASSUME Base, RowsBelong, NEW p \in Plans, NEW r \in Requests
    PROVE  /\ Phase(p, r) \in {"new", "open", "moved", "applied", "not_applied", "unknown"}
           /\ command[p][r] = "none" => Phase(p, r) = "new"
           /\ Phase(p, r) \in {"open", "moved", "unknown"} =>
                command[p][r] # "none" /\ Outcome(p, r) \in Pending
           /\ command[p][r] # "none" /\ Outcome(p, r) \in Intents =>
                /\ Outcome(p, r) = IntentOf[command[p][r]]
                /\ Phase(p, r) = IF Made(p, command[p][r]) THEN "moved" ELSE "open"
<1>1. PICK k, o, made : /\ k = command[p][r] /\ o = Outcome(p, r) /\ made = Made(p, k)
                        /\ Phase(p, r) = PhaseOf(k, o, made)
  BY PhaseIs
<1>2. CASE k = "none"
  BY <1>1, <1>2, PhaseTables
<1>3. CASE k # "none"
  <2>1. k \in Commands /\ o \in Results(k)
    BY <1>1, <1>3, OutcomeBelongs
  <2>2. CASE o = RequestedBy[k]
    BY <1>1, <1>3, <2>1, <2>2, PhaseTables
  <2>3. CASE o = IntentOf[k]
    <3>1. o \in Pending
      BY <2>1, <2>3, PendingTables
    <3> QED  BY <1>1, <1>3, <2>1, <2>3, <3>1, PhaseTables
  <2>4. CASE o = StartsFrom[k]
    <3>1. o \notin Intents
      BY <2>1, <2>4, PendingTables
    <3> QED  BY <1>1, <1>3, <2>1, <2>4, <3>1, PhaseTables
  <2>5. CASE o = StateAfter[CompletedOf[k]]
    <3>1. o \notin Intents
      BY <2>1, <2>5 DEF Commands, CompletedOf, StateAfter, Intents
    <3> QED  BY <1>1, <1>3, <2>1, <2>5, <3>1, PhaseTables
  <2>6. CASE o = "needs_attention"
    <3>1. o \notin Intents /\ o \in Pending
      BY <2>6, PendingTables DEF Pending
    <3> QED  BY <1>1, <1>3, <2>1, <2>6, <3>1, PhaseTables
  <2> QED  BY <2>1, <2>2, <2>3, <2>4, <2>5, <2>6 DEF Results
<1> QED  BY <1>2, <1>3

\* A command with an intent has moved the file or it has not.
LEMMA IntentPhase ==
    ASSUME NEW p \in Plans, NEW r \in Requests, NEW k \in Commands
    PROVE  /\ command[p][r] = k /\ Outcome(p, r) = IntentOf[k] =>
                Phase(p, r) = IF Made(p, k) THEN "moved" ELSE "open"
           /\ command'[p][r] = k /\ Outcome(p, r)' = IntentOf[k] =>
                Phase(p, r)' = IF Made(p, k)' THEN "moved" ELSE "open"
<1>1. \A o, made : o = IntentOf[k] => PhaseOf(k, o, made) = IF made THEN "moved" ELSE "open"
  BY PhaseTables
<1>2. ASSUME command[p][r] = k, Outcome(p, r) = IntentOf[k]
      PROVE  Phase(p, r) = IF Made(p, k) THEN "moved" ELSE "open"
  <2>1. Phase(p, r) = PhaseOf(k, IntentOf[k], At(disk, p) <=> k = "execute")
    BY <1>2 DEF Phase, PhaseOf, At
  <2> QED  BY <1>1, <2>1 DEF Made
<1>3. ASSUME command'[p][r] = k, Outcome(p, r)' = IntentOf[k]
      PROVE  Phase(p, r)' = IF Made(p, k)' THEN "moved" ELSE "open"
  <2>1. Phase(p, r)' = PhaseOf(k, IntentOf[k], (At(disk, p) <=> k = "execute")')
    BY <1>3 DEF Phase, PhaseOf, At
  <2> QED  BY <1>1, <2>1 DEF Made, At
<1> QED  BY <1>2, <1>3

\* Where the journal and the commands stay, only a rename under way can change its phase.
LEMMA QuietPhase ==
    ASSUME Base, RowsBelong, UNCHANGED <<journal, command>>, NEW p \in Plans, NEW r \in Requests,
           \/ At(disk', p) <=> At(disk, p)
           \/ Outcome(p, r) \notin Intents
           \/ command[p][r] = "none"
    PROVE  Phase(p, r)' = Phase(p, r)
<1>1. Outcome(p, r)' = Outcome(p, r) /\ command'[p][r] = command[p][r]
  BY DEF Outcome, LastOf, Chain
<1>2. CASE At(disk', p) <=> At(disk, p)
  <2>1. Made(p, command[p][r])' = Made(p, command[p][r])
    BY <1>2 DEF Made, At
  <2> QED  BY <1>1, <2>1, PhaseIs
<1>3. CASE Outcome(p, r) \notin Intents /\ command[p][r] # "none"
  BY <1>1, <1>3, OutcomeBelongs, PhaseIs, PhaseTables
<1>4. CASE command[p][r] = "none"
  BY <1>1, <1>4, PhaseIs, PhaseTables
<1> QED  BY <1>2, <1>3, <1>4

\* A row of one request leaves the phase of every other.
LEMMA GrownPhases ==
    ASSUME Base, NEW p \in Plans, NEW v \in Events, NEW r \in Requests, v.request = r,
           journal' = [journal EXCEPT ![p] = Append(@, v)], UNCHANGED folder,
           \A q \in Plans, s \in Requests : (q # p \/ s # r) => command'[q][s] = command[q][s]
    PROVE  /\ Outcome(p, r)' = StateAfter[v.kind]
           /\ \A q \in Plans, s \in Requests : (q # p \/ s # r) => Phase(q, s)' = Phase(q, s)
<1>1. TypeOK /\ Chains
  BY DEF Base
<1>2. PICK len : /\ len = Len(journal[p]) /\ len \in Nat /\ DOMAIN journal[p] = 1..len
                 /\ journal'[p][len + 1] = v
                 /\ Chain(p, r)' = Chain(p, r) \cup {len + 1}
                 /\ \A q \in Plans : \A i \in DOMAIN journal[q] : journal'[q][i] = journal[q][i]
  BY <1>1, Grown
<1>3. Outcome(p, r)' = StateAfter[v.kind]
  <2>1. \A i \in Chain(p, r)' : i \in Nat /\ i <= len + 1
    BY <1>2 DEF Chain
  <2>2. LastOf(p, r)' = len + 1
    <3>1. len + 1 \in Chain(p, r)'
      BY <1>2
    <3>2. PICK c, l : /\ c = Chain(p, r)' /\ l = LastOf(p, r)'
                      /\ l = CHOOSE i \in c : \A j \in c : j <= i
      BY DEF LastOf
    <3>3. len + 1 \in c /\ \A i \in c : i \in Nat /\ i <= len + 1
      BY <2>1, <3>1, <3>2
    <3>4. l \in c /\ \A j \in c : j <= l
      BY <3>2, <3>3
    <3>5. l = len + 1
      BY ONLY <1>2, <3>3, <3>4
    <3> QED  BY <3>2, <3>5
  <2> QED  BY <1>2, <2>2 DEF Outcome
<1>4. ASSUME NEW q \in Plans, NEW s \in Requests, q # p \/ s # r
      PROVE  Phase(q, s)' = Phase(q, s)
  <2>1. command'[q][s] = command[q][s]
    BY <1>4
  <2>2. Made(q, command[q][s])' = Made(q, command[q][s])
    BY <2>1 DEF Made, At, folder
  <2>3. CASE command[q][s] = "none"
    BY <2>1, <2>3, PhaseIs, PhaseTables
  <2>4. CASE command[q][s] # "none"
    <3>1. HasLast(q, s)
      BY <1>1, <2>4 DEF Chains
    <3>2. Chain(q, s)' = Chain(q, s)
      BY <1>1, <1>4, OtherChain
    <3>3. LastOf(q, s)' = LastOf(q, s)
      BY <3>2 DEF LastOf
    <3>4. LastOf(q, s) \in DOMAIN journal[q]
      BY <1>1, <3>1, OutcomeType
    <3>5. Outcome(q, s)' = Outcome(q, s)
      BY <1>2, <3>3, <3>4 DEF Outcome
    <3> QED  BY <2>1, <2>2, <3>5, PhaseIs
  <2> QED  BY <2>3, <2>4
<1> QED  BY <1>3, <1>4

-----------------------------------------------------------------------------
(* The steps, one by one.                                                  *)
placeOf == CHOOSE n \in Names : disk[n] = Target
phaseOf == [p \in Plans |-> [r \in Requests |-> Phase(p, r)]]

LEMMA PlaceOf ==
    /\ \A n \in Names : Solo(disk) /\ disk[n] = Target => placeOf = n
    /\ \A n \in Names : Solo(disk') /\ disk'[n] = Target => placeOf' = n
<1>1. Target # Nothing
  BY EntriesAssumption DEF EntriesAssumption
<1>2. ASSUME NEW d, Solo(d), NEW n \in Names, d[n] = Target
      PROVE  n = CHOOSE m \in Names : d[m] = Target
  <2>1. PICK l \in Names : d = [m \in Names |-> IF m = l THEN Target ELSE Nothing]
    BY <1>2 DEF Solo
  <2>2. \A m \in Names : d[m] = Target <=> m = l
    BY <1>1, <2>1
  <2> QED  BY <1>2, <2>2
<1>3. /\ placeOf = CHOOSE m \in Names : disk[m] = Target
      /\ placeOf' = CHOOSE m \in Names : disk'[m] = Target
  BY DEF placeOf
<1> QED  BY <1>2, <1>3

\* Only the phase of one request changes.
LEMMA PhaseChange ==
    ASSUME NEW p \in Plans, NEW r \in Requests,
           \A q \in Plans, s \in Requests : (q # p \/ s # r) => Phase(q, s)' = Phase(q, s)
    PROVE  /\ phaseOf' = [phaseOf EXCEPT ![p][r] = Phase(p, r)']
           /\ phaseOf[p][r] = Phase(p, r)
           /\ \A s \in Requests : phaseOf[p][s] = Phase(p, s)
<1>1. PICK after : \A q \in Plans, s \in Requests : after[q][s] = Phase(q, s)'
  <2>1. WITNESS [q \in Plans |-> [s \in Requests |-> Phase(q, s)']]
  <2> QED  OBVIOUS
<1> QED  BY DEF phaseOf

LEMMA SamePhases ==
    ASSUME UNCHANGED <<command, disk>>, \A p \in Plans, r \in Requests : Phase(p, r)' = Phase(p, r)
    PROVE  UNCHANGED Abstract!vars
  BY DEF Abstract!vars, placeOf, phaseOf

\* The request that is under way in a plan.
LEMMA UnderWay ==
    ASSUME Base, RowsBelong, NEW p \in Plans, State(p) \in Pending, NEW r, r = Latest(p).request
    PROVE  /\ r \in Requests /\ command[p][r] \in Commands /\ command[p][r] = KindAt(p)
           /\ Outcome(p, r) = State(p)
           /\ \A s \in Requests : command[p][s] # "none" /\ s # r => Outcome(p, s) \notin Pending
<1>1. TypeOK
  BY DEF Base
<1>2. /\ r \in Requests /\ command[p][r] = KindAt(p) /\ KindAt(p) \in Commands
      /\ Len(journal[p]) \in DOMAIN journal[p] /\ State(p) = StateAfter[Latest(p).kind]
  BY LatestBelongs DEF KindAt
<1>3. Len(journal[p]) \in Chain(p, r)
  BY <1>2 DEF Chain, Latest
<1>4. Outcome(p, r) = State(p)
  BY <1>1, <1>2, <1>3, ChainEnd
<1>5. ASSUME NEW s \in Requests, command[p][s] # "none", s # r PROVE Outcome(p, s) \notin Pending
  BY <1>5, OpenIsLatest DEF Pending
<1> QED  BY <1>2, <1>4, <1>5

LEMMA RenameMoves ==
    ASSUME MaxChanges = 0, Distinct, Base, Backed, RowsBelong, InPlace,
           NEW e \in Processes, Rename(e), disk' # disk
    PROVE  \E p \in Plans, r \in Requests : Abstract!Move(p, r)
<1>1. TypeOK /\ Alone /\ Trail
  BY DEF Base, InPlace
<1>2. PICK p, k : p = proc[e].plan /\ k = proc[e].kind
  OBVIOUS
<1>3. /\ p \in Plans /\ k \in Commands
      /\ disk[From(p, k)] = Target /\ disk'[To(p, k)] = Target /\ Solo(disk')
      /\ At(disk', p) <=> k = "execute"
      /\ At(disk, p) <=> k # "execute"
  BY <1>1, <1>2, MoveEffect
<1>4. State(p) = IntentOf[k] /\ UNCHANGED <<journal, command>>
  <2>1. UNCHANGED <<journal, command>>
    BY DEF Rename, journalVars
  <2>2. State(p) = IF k = "execute" THEN "direct_rename_intent" ELSE "undo_rename_intent"
    BY <1>1, <1>2, <1>3, Renamer DEF Commands
  <2> QED  BY <1>3, <2>1, <2>2 DEF IntentOf, Commands
<1>5. State(p) \in Intents /\ State(p) \in Pending
  BY <1>3, <1>4, PendingTables
<1>6. PICK r : r = Latest(p).request
  OBVIOUS
<1>7. /\ r \in Requests /\ command[p][r] = k /\ Outcome(p, r) = IntentOf[k]
      /\ \A s \in Requests : command[p][s] # "none" /\ s # r => Outcome(p, s) \notin Intents
  <2>1. KindAt(p) = k
    BY <1>3, <1>4, <1>5, LatestBelongs, PendingTables
  <2> QED  BY <1>3, <1>4, <1>5, <1>6, <2>1, UnderWay, PendingTables
<1>8. Phase(p, r) = "open" /\ Phase(p, r)' = "moved"
  <2>1. ~Made(p, k) /\ Made(p, k)'
    BY <1>3 DEF Made, At
  <2>2. Outcome(p, r)' = IntentOf[k] /\ command'[p][r] = k
    BY <1>4, <1>7 DEF Outcome, LastOf, Chain
  <2> QED  BY <1>3, <1>7, <2>1, <2>2, IntentPhase
<1>9. ASSUME NEW q \in Plans, NEW s \in Requests, q # p \/ s # r
      PROVE  Phase(q, s)' = Phase(q, s)
  <2>1. CASE q = p
    BY <1>4, <1>7, <1>9, <2>1, QuietPhase
  <2>2. CASE q # p
    <3>1. At(disk', q) <=> At(disk, q)
      BY <1>1, <1>2, <2>2, RenameEffect
    <3> QED  BY <1>4, <3>1, QuietPhase
  <2> QED  BY <2>1, <2>2
<1>10. placeOf = From(p, k) /\ placeOf' = To(p, k)
  <2>1. From(p, k) \in Names /\ To(p, k) \in Names /\ Solo(disk)
    BY <1>1, <1>3, NamesOf DEF Alone, Images
  <2> QED  BY <1>3, <2>1, PlaceOf
<1>11. /\ phaseOf[p][r] = "open"
       /\ phaseOf' = [phaseOf EXCEPT ![p][r] = "moved"]
  BY <1>3, <1>7, <1>8, <1>9, PhaseChange
<1>12. Abstract!Move(p, r)
  BY <1>4, <1>7, <1>10, <1>11 DEF Abstract!Move, Abstract!From, Abstract!To, Abstract!Becomes, From,
     To, placeOf, phaseOf
<1> QED  BY <1>3, <1>7, <1>12

LEMMA PowerLossReverts ==
    ASSUME Distinct, Base, RowsBelong, InPlace, Executing, Origins, PowerLoss, disk' # disk
    PROVE  \E back \in SUBSET (Plans \X Requests) : Abstract!Revert(back)
<1>1. /\ TypeOK /\ Alone /\ UNCHANGED <<journal, command>> /\ disk' \in unsynced
      /\ disk' \in Images /\ disk \in Images
  BY DEF Base, InPlace, PowerLoss, journalVars, Images
<1>2. PICK w \in Plans : Left(disk', w)
  BY <1>1 DEF Origins
<1>3. PICK r, k : r = Latest(w).request /\ k = KindAt(w)
  OBVIOUS
<1>4. /\ State(w) \in Intents \cup {"needs_attention"}
      /\ disk'[From(w, k)] = Target
      /\ State(w) \in Intents => Made(w, k)
  BY <1>2, <1>3 DEF Left
<1>5. /\ r \in Requests /\ command[w][r] = k /\ k \in Commands /\ Outcome(w, r) = State(w)
      /\ State(w) \in Intents => State(w) = IntentOf[k]
  <2>1. State(w) \in Pending
    BY <1>4, PendingTables DEF Pending
  <2> QED  BY <1>3, <2>1, UnderWay, LatestBelongs
<1>6. ~Made(w, k)'
  <2>1. Solo(disk')
    BY <1>1 DEF Alone
  <2>2. CASE k = "execute"
    <3>1. ~At(disk', w)
      BY <1>4, <2>1, <2>2, SourceAway DEF From
    <3> QED  BY <2>2, <3>1 DEF Made, At
  <2>3. CASE k = "undo"
    BY <1>4, <2>3 DEF From, Made, At
  <2> QED  BY <1>5, <2>2, <2>3 DEF Commands
<1>7. ASSUME NEW q \in Plans, NEW s \in Requests, Phase(q, s)' # Phase(q, s)
      PROVE  Phase(q, s) = "moved" /\ Phase(q, s)' = "open"
  <2>1. PICK c : c = command[q][s]
    OBVIOUS
  <2>2. ~(At(disk', q) <=> At(disk, q)) /\ Outcome(q, s) \in Intents /\ c # "none"
    BY <1>1, <1>7, <2>1, QuietPhase
  <2>3. c \in Commands /\ Outcome(q, s) = IntentOf[c]
    BY <2>1, <2>2, OutcomeBelongs, PhaseCases
  <2>4. State(q) = IntentOf[c]
    BY <2>1, <2>2, <2>3, OpenIsLatest, PendingTables
  <2>5. Made(q, c)
    <3>1. CASE c = "execute"
      <4>1. State(q) = "direct_rename_intent"
        BY <2>4, <3>1 DEF IntentOf
      <4>2. At(disk, q)
        BY <1>1, <2>2, <4>1 DEF Executing, Absent
      <4> QED  BY <3>1, <4>2 DEF Made
    <3>2. CASE c = "undo"
      <4>1. State(q) = "undo_rename_intent"
        BY <2>4, <3>2 DEF IntentOf
      <4>2. ~At(disk, q)
        BY <1>1, <2>2, <4>1 DEF InPlace, Undoing, Settled
      <4> QED  BY <3>2, <4>2 DEF Made
    <3> QED  BY <2>3, <3>1, <3>2 DEF Commands
  <2>6. ~Made(q, c)'
    BY <2>2, <2>5 DEF Made, At
  <2>7. Outcome(q, s)' = IntentOf[c] /\ command'[q][s] = c
    BY <1>1, <2>1, <2>3 DEF Outcome, LastOf, Chain
  <2> QED  BY <2>1, <2>3, <2>5, <2>6, <2>7, IntentPhase
<1>8. PICK back : back = {b \in Plans \X Requests : b = <<w, r>> \/ Phase(b[1], b[2])' # Phase(b[1], b[2])}
  OBVIOUS
<1>9. <<w, r>> \in back /\ back \in SUBSET (Plans \X Requests)
  BY <1>5, <1>8
<1>10. \/ Phase(w, r) = "moved" /\ Phase(w, r)' = "open"
       \/ Phase(w, r) = "unknown" /\ Phase(w, r)' = "unknown"
  <2>2. Outcome(w, r)' = State(w) /\ command'[w][r] = k
    BY <1>1, <1>5 DEF Outcome, LastOf, Chain
  <2>3. CASE State(w) = "needs_attention"
    <3>1. Phase(w, r) = PhaseOf(k, "needs_attention", Made(w, k))
      BY <1>5, <2>3, PhaseIs
    <3>2. Phase(w, r)' = PhaseOf(k, "needs_attention", Made(w, k)')
      BY <1>5, <2>2, <2>3, PhaseIs
    <3> QED  BY <1>5, <3>1, <3>2, PhaseTables
  <2>4. CASE State(w) = IntentOf[k]
    <3>1. Made(w, k) /\ ~Made(w, k)'
      BY <1>4, <1>5, <1>6, <2>4, PendingTables
    <3> QED  BY <1>5, <2>2, <2>4, <3>1, IntentPhase
  <2> QED  BY <1>4, <1>5, <2>3, <2>4
<1>11. \A b \in back : phaseOf[b[1]][b[2]] \in {"moved", "unknown"}
  <2>1. SUFFICES ASSUME NEW b \in back PROVE phaseOf[b[1]][b[2]] \in {"moved", "unknown"}
    OBVIOUS
  <2>2. PICK q \in Plans, s \in Requests : b = <<q, s>>
    BY <1>9
  <2>3. Phase(q, s) \in {"moved", "unknown"}
    BY <1>7, <1>8, <1>10, <2>2
  <2> QED  BY <2>2, <2>3 DEF phaseOf
<1>12. placeOf' = From(w, k)
  <2>1. From(w, k) \in Names /\ Solo(disk')
    BY <1>1, <1>5, NamesOf DEF Alone
  <2> QED  BY <1>4, <2>1, PlaceOf
<1>13. phaseOf' = [q \in Plans |-> [s \in Requests |->
           IF <<q, s>> \in back /\ phaseOf[q][s] = "moved" THEN "open" ELSE phaseOf[q][s]]]
  <2>1. ASSUME NEW q \in Plans, NEW s \in Requests
        PROVE  Phase(q, s)' = IF <<q, s>> \in back /\ Phase(q, s) = "moved" THEN "open" ELSE Phase(q, s)
    <3>1. CASE Phase(q, s)' # Phase(q, s)
      <4>1. <<q, s>> \in back
        BY <1>8, <3>1
      <4> QED  BY <1>7, <3>1, <4>1
    <3>2. CASE Phase(q, s)' = Phase(q, s) /\ <<q, s>> \in back
      <4>1. q = w /\ s = r
        BY <1>8, <3>2
      <4> QED  BY <1>10, <3>2, <4>1
    <3>3. CASE Phase(q, s)' = Phase(q, s) /\ <<q, s>> \notin back
      BY <3>3
    <3> QED  BY <3>1, <3>2, <3>3
  <2> QED  BY <2>1 DEF phaseOf
<1>14. Abstract!Revert(back)
  <2>1. placeOf' = Abstract!From(w, command[w][r])
    BY <1>5, <1>12 DEF Abstract!From, From
  <2>2. \E b \in back : placeOf' = Abstract!From(b[1], command[b[1]][b[2]])
    BY <1>9, <2>1
  <2> QED  BY <1>1, <1>11, <1>13, <2>2 DEF Abstract!Revert, placeOf, phaseOf
<1> QED  BY <1>9, <1>14

LEMMA AcceptOpens ==
    ASSUME Base, RowsBelong, NEW e \in Processes, Start(e), Accept(e)
    PROVE  \E p \in Plans, r \in Requests, k \in {"execute", "undo"} : Abstract!Open(p, r, k)
<1>1. PICK p, r, k, v : p = proc[e].plan /\ r = proc[e].request /\ k = proc[e].kind /\ v = Asked(e)
  OBVIOUS
<1>2. proc[e].pc = "start" /\ UNCHANGED folder /\ command' = [command EXCEPT ![p][r] = k]
      /\ State(p) = StartsFrom[k]
  BY <1>1 DEF Start, Accept, Accepts
<1>3. /\ p \in Plans /\ r \in Requests /\ k \in Commands
      /\ v \in Events /\ v.request = r /\ v.kind = RequestedBy[k]
      /\ journal' = [journal EXCEPT ![p] = Append(@, v)]
      /\ command'[p][r] = k /\ command[p][r] = "none"
      /\ \A q \in Plans, s \in Requests : (q # p \/ s # r) => command'[q][s] = command[q][s]
  BY <1>1, <1>2, AcceptFacts
<1>4. /\ Outcome(p, r)' = StateAfter[v.kind]
      /\ \A q \in Plans, s \in Requests : (q # p \/ s # r) => Phase(q, s)' = Phase(q, s)
  BY <1>2, <1>3, GrownPhases
<1>5. Phase(p, r)' = "open"
  <2>1. StateAfter[RequestedBy[k]] = RequestedBy[k]
    BY <1>3, ResultTables
  <2>2. Phase(p, r)' = PhaseOf(k, RequestedBy[k], Made(p, k)')
    BY <1>3, <1>4, <2>1, PhaseIs
  <2> QED  BY <1>3, <2>2, PhaseTables
<1>6. Phase(p, r) = "new"
  BY <1>3, PhaseCases
<1>7. ASSUME NEW s \in Requests PROVE Phase(p, s) \in {"new", "applied", "not_applied"}
  <2>1. SUFFICES ASSUME Phase(p, s) \in {"open", "moved", "unknown"} PROVE FALSE
    BY <1>3, PhaseCases
  <2>2. command[p][s] # "none" /\ Outcome(p, s) \in Pending
    BY <1>3, <2>1, PhaseCases
  <2>3. State(p) \in Pending
    BY <1>3, <2>2, OpenIsLatest DEF Pending
  <2> QED  BY <1>2, <1>3, <2>3, PendingTables
<1>8. /\ phaseOf' = [phaseOf EXCEPT ![p][r] = "open"]
      /\ \A s \in Requests : phaseOf[p][s] = Phase(p, s)
  BY <1>3, <1>4, <1>5, PhaseChange
<1>9. placeOf' = placeOf
  BY <1>2 DEF placeOf, folder
<1>10. Abstract!Open(p, r, k)
  BY <1>2, <1>3, <1>6, <1>7, <1>8, <1>9 DEF Abstract!Open, Abstract!Becomes, placeOf, phaseOf
<1> QED  BY <1>3, <1>10 DEF Commands

LEMMA AppendAnswers ==
    ASSUME Base, KindsFit, RowsBelong, InPlace, Untouched, Telling,
           NEW e \in Processes, NEW kind \in Kinds,
           Appendable(e, kind), Appended(e, kind), UNCHANGED <<command, folder>>,
           kind \in Answers => Reporting(e, kind)
    PROVE  \/ \E p \in Plans, r \in Requests : Abstract!Answer(p, r)
           \/ UNCHANGED Abstract!vars
<1>1. TypeOK /\ LegalHistory /\ Chains /\ Alone /\ Calling
  BY DEF Base, InPlace
<1>2. PICK p, r, v : /\ p = proc[e].plan /\ r = proc[e].request
                     /\ v = [kind |-> kind, request |-> r]
  OBVIOUS
<1>3. /\ p \in Plans /\ r \in Requests /\ v \in Events /\ v.request = r /\ v.kind = kind
      /\ journal' = [journal EXCEPT ![p] = Append(@, v)]
      /\ State(p) \in Unfinished /\ kind \in Follow[State(p)] /\ Latest(p).request = r
      /\ Len(journal[p]) \in DOMAIN journal[p] /\ State(p) = StateAfter[Latest(p).kind]
  BY <1>1, <1>2, AppendFacts
<1>4. PICK k : k = command[p][r]
  OBVIOUS
<1>5. k \in Commands /\ Outcome(p, r) = State(p) /\ State(p) \in {RequestedBy[k], IntentOf[k]}
  <2>1. k = CommandOf(State(p))
    BY <1>3, <1>4 DEF Latest, KindsFit
  <2>2. State(p) \in Pending
    BY <1>3, PendingTables
  <2>3. k \in Commands /\ Outcome(p, r) = State(p)
    BY <1>1, <1>3, <1>4, <2>2, UnderWay
  <2> QED  BY <1>3, <2>1, <2>3, PhaseTables
<1>6. /\ Outcome(p, r)' = StateAfter[kind] /\ command'[p][r] = k
      /\ \A q \in Plans, s \in Requests : (q # p \/ s # r) => Phase(q, s)' = Phase(q, s)
  BY <1>3, <1>4, GrownPhases
<1>7. placeOf' = placeOf /\ (Made(p, k)' <=> Made(p, k)) /\ UNCHANGED disk
  BY DEF placeOf, folder, Made, At
\* What the request is told decides the step.
<1>8. ASSUME NEW f, Phase(p, r)' = f,
             \/ Phase(p, r) = "moved" /\ f = "applied"
             \/ Phase(p, r) = "open" /\ f = "not_applied"
             \/ Phase(p, r) \in {"open", "moved"} /\ f = "unknown"
      PROVE  Abstract!Answer(p, r)
  <2>1. phaseOf' = [phaseOf EXCEPT ![p][r] = f] /\ phaseOf[p][r] = Phase(p, r)
    BY <1>3, <1>6, <1>8, PhaseChange
  <2> QED  BY <1>7, <1>8, <2>1 DEF Abstract!Answer, Abstract!Becomes, placeOf, phaseOf
<1>9. ASSUME Phase(p, r)' = Phase(p, r) PROVE UNCHANGED Abstract!vars
  <2>1. \A q \in Plans, s \in Requests : Phase(q, s)' = Phase(q, s)
    BY <1>6, <1>9
  <2> QED  BY <1>7, <2>1, SamePhases
<1>10. Phase(p, r)' = PhaseOf(k, StateAfter[kind], Made(p, k)')
  BY <1>3, <1>6, PhaseIs
<1>11. CASE State(p) = RequestedBy[k]
  <2>1. Phase(p, r) = "open"
    <3>1. Phase(p, r) = PhaseOf(k, RequestedBy[k], Made(p, k))
      BY <1>3, <1>4, <1>5, <1>11, PhaseIs
    <3> QED  BY <1>5, <3>1, PhaseTables
  <2>2. CASE kind = NotStartedOf[k]
    <3>1. Phase(p, r)' = "not_applied"
      BY <1>5, <1>10, <2>2, PhaseTables
    <3> QED  BY <1>3, <1>8, <2>1, <3>1
  <2>3. CASE kind = IntentOf[k]
    <3>1. ~Made(p, k)
      <4>1. CASE k = "execute"
        <5>1. State(p) = "execute_requested"
          BY <1>11, <4>1 DEF RequestedBy
        <5>2. ~At(disk, p)
          BY <1>3, <5>1 DEF Untouched, Absent, Images
        <5> QED  BY <4>1, <5>2 DEF Made
      <4>2. CASE k = "undo"
        <5>1. State(p) = "undo_requested"
          BY <1>11, <4>2 DEF RequestedBy
        <5>2. At(disk, p)
          BY <1>3, <5>1 DEF InPlace, Executed, Settled, Images
        <5> QED  BY <4>2, <5>2 DEF Made
      <4> QED  BY <1>5, <4>1, <4>2 DEF Commands
    <3>2. Outcome(p, r)' = IntentOf[k]
      BY <1>5, <1>6, <2>3, PhaseTables
    <3>3. Phase(p, r)' = "open"
      BY <1>3, <1>5, <1>6, <1>7, <3>1, <3>2, IntentPhase
    <3> QED  BY <1>9, <2>1, <3>3
  <2> QED  BY <1>3, <1>5, <1>11, <2>2, <2>3, PhaseTables
<1>12. CASE State(p) = IntentOf[k]
  <2>1. Phase(p, r) = IF Made(p, k) THEN "moved" ELSE "open"
    BY <1>3, <1>4, <1>5, <1>12, IntentPhase
  <2>2. Current(e)
    BY DEF Appendable, Current
  <2>3. /\ kind = CompletedOf[k] => Made(p, k)
        /\ kind = NotAppliedOf[k] => ~Made(p, k)
        /\ kind \in {CompletedOf[k], NotAppliedOf[k], AttentionOf[k]}
    BY <1>1, <1>2, <1>3, <1>5, <1>12, <2>2, AnswerSettles
  <2>4. CASE kind = CompletedOf[k]
    <3>1. Phase(p, r)' = "applied"
      BY <1>5, <1>10, <2>4, PhaseTables
    <3>2. Phase(p, r) = "moved"
      BY <2>1, <2>3, <2>4
    <3> QED  BY <1>3, <1>8, <3>1, <3>2
  <2>5. CASE kind = NotAppliedOf[k]
    <3>1. Phase(p, r)' = "not_applied"
      BY <1>5, <1>10, <2>5, PhaseTables
    <3>2. Phase(p, r) = "open"
      BY <2>1, <2>3, <2>5
    <3> QED  BY <1>3, <1>8, <3>1, <3>2
  <2>6. CASE kind = AttentionOf[k]
    <3>1. StateAfter[kind] = "needs_attention"
      BY <1>5, <2>6, PendingTables
    <3>2. Phase(p, r)' = "unknown"
      BY <1>5, <1>10, <3>1, PhaseTables
    <3>3. Phase(p, r) \in {"open", "moved"}
      BY <2>1
    <3> QED  BY <1>3, <1>8, <3>2, <3>3
  <2> QED  BY <2>3, <2>4, <2>5, <2>6
<1> QED  BY <1>5, <1>11, <1>12

LEMMA PreviewStutters ==
    ASSUME Base, RowsBelong, NEW p \in Plans, CreatePreview(p)
    PROVE  UNCHANGED Abstract!vars
<1>1. /\ TypeOK /\ Chains /\ UNCHANGED <<command, disk>> /\ journal[p] = <<>>
      /\ \A q \in Plans : q # p => journal'[q] = journal[q]
  BY DEF Base, CreatePreview, folder, TypeOK
<1>2. ASSUME NEW q \in Plans, NEW r \in Requests PROVE Phase(q, r)' = Phase(q, r)
  <2>1. CASE q = p
    <3>1. Chain(p, r) = {}
      BY <1>1 DEF Chain
    <3>2. command[p][r] = "none"
      BY <1>1, <3>1 DEF Chains, HasLast
    <3>3. command'[p][r] = "none"
      BY <1>1, <3>2
    <3> QED  BY <2>1, <3>2, <3>3, PhaseIs, PhaseTables
  <2>2. CASE q # p
    <3>1. Outcome(q, r)' = Outcome(q, r)
      BY <1>1, <2>2 DEF Outcome, LastOf, Chain
    <3>2. Made(q, command[q][r])' = Made(q, command[q][r]) /\ command'[q][r] = command[q][r]
      BY <1>1 DEF Made, At
    <3> QED  BY <3>1, <3>2, PhaseIs
  <2> QED  BY <2>1, <2>2
<1> QED  BY <1>1, <1>2, SamePhases

LEMMA NextRefines ==
    ASSUME MaxChanges = 0, Distinct, Base, Backed, KindsFit, InPlace, Mapped, Next
    PROVE  Abstract!Next \/ UNCHANGED Abstract!vars
<1>1. /\ TypeOK /\ Untouched /\ Executing /\ Telling /\ Origins /\ RowsBelong
  BY DEF Base, Mapped
<1>2. CASE UNCHANGED <<journal, command>>
  <2>1. CASE disk' = disk
    <3>1. \A p \in Plans, r \in Requests : Phase(p, r)' = Phase(p, r)
      BY <1>1, <1>2, <2>1, QuietPhase
    <3> QED  BY <1>2, <2>1, <3>1, SamePhases
  <2>2. CASE disk' # disk /\ PowerLoss
    BY <1>1, <2>2, PowerLossReverts DEF Abstract!Next
  <2>3. ASSUME disk' # disk, NEW e \in Processes, Rename(e) PROVE Abstract!Next
    BY <1>1, <2>3, RenameMoves DEF Abstract!Next
  <2> QED  BY <1>1, <2>1, <2>2, <2>3, FolderSteps
<1>3. ASSUME NEW p \in Plans, CreatePreview(p) PROVE UNCHANGED Abstract!vars
  BY <1>1, <1>3, PreviewStutters
<1>4. ASSUME NEW e \in Processes, Start(e), Accept(e) PROVE Abstract!Next
  BY <1>1, <1>4, AcceptOpens DEF Abstract!Next
<1>5. ASSUME NEW e \in Processes, NEW kind \in Kinds,
             Appendable(e, kind), Appended(e, kind), UNCHANGED <<command, folder>>,
             kind \in Answers => Reporting(e, kind)
      PROVE  Abstract!Next \/ UNCHANGED Abstract!vars
  BY <1>1, <1>5, AppendAnswers DEF Abstract!Next
<1>6. CASE UNCHANGED journal
  <2>1. ASSUME NEW e \in Processes, proc[e].pc = "start", Accept(e) PROVE FALSE
    <3>1. PICK p, v : p = proc[e].plan /\ v = Asked(e)
      OBVIOUS
    <3>2. p \in Plans /\ v \in Events /\ journal' = [journal EXCEPT ![p] = Append(@, v)]
      BY <2>1, <3>1, AcceptFacts
    <3>3. Len(journal[p]) \in Nat /\ Len(journal'[p]) = Len(journal[p]) + 1
      BY <1>1, <3>2, Grown
    <3> QED  BY <1>6, <3>3
  <2>2. ASSUME NEW p \in Plans, CreatePreview(p) PROVE UNCHANGED command
    BY <2>2 DEF CreatePreview
  <2> QED  BY <1>1, <1>2, <1>6, <2>1, <2>2, JournalSteps
<1> QED  BY <1>1, <1>3, <1>4, <1>5, <1>6, ReportSteps

LEMMA InitRefines == ASSUME Init PROVE Abstract!Init
<1>1. PICK q \in Plans : disk = [n \in Names |-> IF n = Source[q] THEN Target ELSE Nothing]
  BY DEF Init
<1>2. placeOf = Source[q]
  <2>1. Source[q] \in Names /\ Target # Nothing
    BY PlansAssumption, EntriesAssumption DEF PlansAssumption, EntriesAssumption
  <2>2. Solo(disk) /\ disk[Source[q]] = Target
    BY <1>1, <2>1 DEF Solo
  <2> QED  BY <2>1, <2>2, PlaceOf
<1>3. command = [p \in Plans |-> [r \in Requests |-> "none"]]
  BY DEF Init
<1>4. phaseOf = [p \in Plans |-> [r \in Requests |-> "new"]]
  <2>1. \A p \in Plans, r \in Requests : Phase(p, r) = "new"
    BY <1>3 DEF Phase
  <2> QED  BY <2>1 DEF phaseOf
<1> QED  BY <1>2, <1>3, <1>4 DEF Abstract!Init, placeOf, phaseOf

LEMMA KeepMapped ==
    ASSUME MaxChanges = 0, Distinct
    PROVE  Base /\ Witness /\ InPlace /\ Mapped /\ [Next]_vars => Mapped'
<1>1. ASSUME Base, Witness, InPlace, Mapped, Next PROVE Mapped'
  <2>1. /\ Backed /\ KindsFit
        /\ Untouched /\ Executing /\ Telling /\ Origins /\ RowsBelong
    BY <1>1 DEF Witness, Mapped
  <2>2. Untouched' /\ Executing' /\ Telling'
    BY <1>1, <2>1, NextUntouched, NextExecuting, NextTelling
  <2>3. Origins' /\ RowsBelong'
    BY <1>1, <2>1, NextOrigins, NextRowsBelong
  <2> QED  BY <2>2, <2>3 DEF Mapped
<1>2. ASSUME Mapped, UNCHANGED vars PROVE Mapped'
  <2>1. UNCHANGED <<journal, command, disk, unsynced, proc>>
    BY <1>2 DEF vars, journalVars, folder
  <2>2. /\ \A p \in Plans : State(p)' = State(p) /\ KindAt(p)' = KindAt(p) /\ (Absent(p) => Absent(p)')
        /\ \A d, p : At(d, p)' <=> At(d, p)
    BY <2>1 DEF State, KindAt, Latest, Absent, Images, At
  <2>3. Untouched' /\ Executing'
    BY <1>2, <2>1, <2>2 DEF Mapped, Untouched, Executing, At
  <2>4. Telling'
    BY <1>2, <2>1 DEF Mapped, Telling, Tells, Current, Absent, Images, At
  <2>5. RowsBelong'
    BY <1>2, <2>1 DEF Mapped, RowsBelong, Belongs
  <2>6. Origins'
    BY <1>2, <2>1, <2>2 DEF Mapped, Origins, Left, Made, At, From
  <2> QED  BY <2>3, <2>4, <2>5, <2>6 DEF Mapped
<1> QED  BY <1>1, <1>2

(* Where no lease ends under a working owner and nobody else touches the   *)
(* folder, the coordinator's journal, leases, retries, recoveries and      *)
(* faults are commands that rename in one step or not at all, one of a     *)
(* plan at a time, and answer truthfully.                                  *)
THEOREM RenamesAreAtomic ==
    ASSUME ~StalledOwners, MaxChanges = 0, Distinct
    PROVE  Spec => ImplementsAtomicRename
<1>1. Init => Abstract!Init /\ InPlace /\ Mapped
  BY InitRefines, InitInPlace, InitMapped
<1>2. Base /\ Witness /\ InPlace /\ Mapped /\ [Next]_vars => InPlace' /\ Mapped'
  <2>1. Base /\ Backed /\ InPlace /\ [Next]_vars => InPlace'
    BY NextInPlace
  <2> QED  BY <2>1, KeepMapped DEF Witness
<1>3. Base /\ Witness /\ InPlace /\ Mapped /\ [Next]_vars => [Abstract!Next]_(Abstract!vars)
  <2>1. SUFFICES ASSUME Base, Witness, InPlace, Mapped, [Next]_vars
                 PROVE  Abstract!Next \/ UNCHANGED Abstract!vars
    OBVIOUS
  <2>2. CASE Next
    BY <2>1, <2>2, NextRefines DEF Witness
  <2>3. CASE UNCHANGED vars
    <3>1. UNCHANGED <<journal, command, disk>>
      BY <2>3 DEF vars, journalVars, folder
    <3>2. \A p \in Plans, r \in Requests : Phase(p, r)' = Phase(p, r)
      BY <2>1, <3>1, QuietPhase DEF Mapped
    <3> QED  BY <3>1, <3>2, SamePhases
  <2> QED  BY <2>1, <2>2, <2>3
<1> QED  BY <1>1, <1>2, <1>3, BackedHolds, PTL DEF Spec, ImplementsAtomicRename, Abstract!Spec
=============================================================================
