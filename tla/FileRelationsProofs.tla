------------------------ MODULE FileRelationsProofs -------------------------
(* What people decide about files and plan to clean up, for any number of    *)
(* files, paths, callers, observations, decisions and plans (FileRelations). *)
EXTENDS FileRelations, FiniteSetTheorems, SequenceTheorems, WellFoundedInduction, TLAPS

PlacedFiles == Placed \in [Places -> Files \cup {NoFile}]

-----------------------------------------------------------------------------
(* The last of finitely many numbers.  The provers do not take an induction  *)
(* principle with an operator; that < is well founded they do take.          *)
LEMMA LessIsWellFounded ==
    \E R : IsWellFoundedOn(R, Nat) /\ \A x, y \in Nat : <<x, y>> \in R <=> x < y
<1>1. IsWellFoundedOn(OpToRel(<, Nat), Nat)
  BY NatLessThanWellFounded
<1>2. \A x, y \in Nat : <<x, y>> \in OpToRel(<, Nat) <=> x < y
  BY Zenon DEF OpToRel
<1> QED  BY <1>1, <1>2, Zenon

LEMMA LeastNumber ==
    ASSUME NEW T, T \subseteq Nat, T # {}
    PROVE  \E m \in T : \A n \in T : m <= n
<1>1. PICK R : IsWellFoundedOn(R, Nat) /\ \A x, y \in Nat : <<x, y>> \in R <=> x < y
  BY LessIsWellFounded
<1>2. IsWellFoundedOn(R, Nat)
  BY <1>1
<1>3. PICK m \in T : \A n \in T : ~ (<<n, m>> \in R)
  BY <1>2, WFMin, Zenon
<1>4. m \in Nat /\ \A n \in T : n \in Nat /\ ~ (n < m)
  BY <1>1, <1>3
<1>5. \A n \in T : m <= n
  BY <1>4
<1> QED  BY <1>5

LEMMA GreatestNumber ==
    ASSUME NEW bound \in Nat, NEW T, T \subseteq 0 .. bound, T # {}
    PROVE  \E m \in T : \A n \in T : n <= m
<1> DEFINE below == {bound - n : n \in T}
<1>1. below \subseteq Nat /\ below # {}
  <2>1. \A n \in T : bound - n \in Nat
    OBVIOUS
  <2> QED  BY <2>1
<1>2. PICK l \in below : \A n \in below : l <= n
  BY <1>1, LeastNumber
<1>3. PICK m \in T : l = bound - m
  BY <1>2
<1>4. ASSUME NEW n \in T PROVE n <= m
  <2>1. bound - m <= bound - n
    BY <1>2, <1>3
  <2>2. m \in 0 .. bound /\ n \in 0 .. bound
    OBVIOUS
  <2> QED  BY <2>1, <2>2
<1> QED  BY <1>4

LEMMA MaxOfNumbers ==
    ASSUME NEW bound \in Nat, NEW T, T \subseteq 1 .. bound, T # {}
    PROVE  Max(T) \in T
<1>1. T \subseteq 0 .. bound
  OBVIOUS
<1>2. PICK m \in T : \A n \in T : n <= m
  BY <1>1, GreatestNumber
<1>3. \A n \in T : m >= n
  BY <1>2
<1> QED  BY <1>3 DEF Max

LEMMA PairOfTwo ==
    ASSUME NEW f, NEW g, f # g
    PROVE  Cardinality({f, g}) = 2
<1>1. IsFiniteSet({f}) /\ Cardinality({f}) = 1
  BY FS_Singleton
<1>2. {f, g} = {f} \cup {g} /\ g \notin {f}
  OBVIOUS
<1> QED  BY <1>1, <1>2, FS_AddElement

-----------------------------------------------------------------------------
(* The shape of the state.                                                 *)
Two(S) == {s \in Seq(S) : Len(s) = 2}
Entries == Files \cup {NoFile}
Waiting == {"opened", "timed", "decide"}
Planning == {"bind", "hash", "again", "plan"}
Steps == {"idle"} \cup Waiting \cup Planning
Observations == [kind : Kinds, pair : SUBSET Files, places : Two(Places), files : Two(Files),
                 meta : Two(Nat), at : Nat]
DecisionsMade == [kind : Kinds, pair : SUBSET Files, decision : {"accepted", "rejected"},
                  evidence : Nat, judged : Two(Entries), since : Nat]
Plans == [evidence : Nat, target : Files, keeper : Files, decided : Nat]
Calls == [pc : Steps, kind : Kinds \cup {"none"}, places : Seq(Places), files : Seq(Files),
          meta : Seq(Nat), digests : Seq(Nat), at : Nat,
          decision : {"none", "accepted", "rejected"}, since : Nat]

WorldShape ==
    /\ disk \in [Places -> Entries]
    /\ written \in [Files -> [meta : Nat, bytes : {0, 1}]]
    /\ located \in [Places -> [file : Entries, present : BOOLEAN]]
    /\ \A p \in Places : located[p].present => located[p].file \in Files
    /\ known \in [Files -> Nat]
TableShape ==
    /\ clock \in Nat
    /\ observations \in Seq(Observations)
    /\ decisions \in Seq(DecisionsMade)
    /\ plans \subseteq Plans
CallShape == call \in [Callers -> Calls]

\* An observation is about two files, and no later than the clock.
ObservationsAreOfTwo ==
    \A i \in 1 .. Len(observations) :
        /\ observations[i].at <= clock
        /\ \E f, g \in Files : f # g /\ observations[i].pair = {f, g}
DecisionsAreOfObservations ==
    \A d \in 1 .. Len(decisions) : /\ decisions[d].evidence \in 1 .. Len(observations)
                                   /\ decisions[d].evidence > decisions[d].since
PlansAreOfObservations ==
    \A p \in plans :
        /\ p.evidence \in 1 .. Len(observations) /\ p.decided \in 0 .. Len(decisions)
        /\ {p.target, p.keeper} = observations[p.evidence].pair

\* What a call knows: the files it opened are two; what it records is later than all that was
\* recorded before it began; what it decides about, it recorded.
Proper(c) ==
    /\ c.pc # "idle" => c.kind \in Kinds /\ c.files \in Two(Files)
    /\ c.pc \in Waiting => /\ c.places \in Two(Places) /\ c.meta \in Two(Nat)
                           /\ c.files[1] # c.files[2] /\ c.since <= Len(observations)
    /\ c.pc = "decide" => c.decision # "none"
    /\ c.pc \in Planning => /\ c.at \in 1 .. Len(observations)
                            /\ ToSet(c.files) = observations[c.at].pair
Timely(c) ==
    /\ c.pc \in {"timed", "decide"} =>
         c.at <= clock /\ \A i \in 1 .. c.since : observations[i].at <= c.at
    /\ c.pc = "decide" =>
         \E j \in 1 .. Len(observations) :
             /\ j > c.since /\ observations[j].at = c.at
             /\ observations[j].kind = c.kind /\ observations[j].pair = ToSet(c.files)
CallsAreSound == \A x \in Callers : Proper(call[x]) /\ Timely(call[x])

TablesAreSound == /\ ObservationsAreOfTwo /\ DecisionsAreOfObservations
                  /\ PlansAreOfObservations /\ PlanIsUndecided
RelationsShape == WorldShape /\ TableShape /\ CallShape
RelationsInv == RelationsShape /\ TablesAreSound /\ CallsAreSound

LEMMA TwoOf ==
    ASSUME NEW S, NEW a \in S, NEW b \in S
    PROVE  <<a, b>> \in Two(S) /\ <<a, b>>[1] = a /\ <<a, b>>[2] = b /\ ToSet(<<a, b>>) = {a, b}
<1>1. <<a, b>> \in Seq(S) /\ Len(<<a, b>>) = 2
  OBVIOUS
<1>2. DOMAIN <<a, b>> = 1 .. 2
  OBVIOUS
<1>3. ToSet(<<a, b>>) = {a, b}
  BY <1>2 DEF ToSet
<1> QED  BY <1>1, <1>3 DEF Two

LEMMA PairsOfTwo ==
    ASSUME NEW S, NEW s \in Two(S)
    PROVE  s[1] \in S /\ s[2] \in S /\ ToSet(s) = {s[1], s[2]} /\ s \in Seq(S)
<1>1. s \in Seq(S) /\ Len(s) = 2
  BY DEF Two
<1>2. DOMAIN s = 1 .. 2
  BY <1>1
<1>3. s[1] \in S /\ s[2] \in S
  BY <1>1, ElementOfSeq
<1>4. ToSet(s) = {s[1], s[2]}
  BY <1>2 DEF ToSet
<1> QED  BY <1>1, <1>3, <1>4

LEMMA Reversed ==
    ASSUME NEW S, NEW s \in Two(S)
    PROVE  Reverse(s) \in Two(S)
<1>1. Reverse(s) = [i \in 1 .. 2 |-> s[(2 - i) + 1]]
  BY DEF Two, Reverse
<1>2. \A i \in 1 .. 2 : s[(2 - i) + 1] \in S
  BY PairsOfTwo
<1> QED  BY <1>1, <1>2 DEF Two

LEMMA NoCallIsSound == NoCall \in Calls /\ NoCall.pc = "idle"
  BY DEF NoCall, Calls, Steps

LEMMA Elements ==
    ASSUME TableShape
    PROVE  /\ Len(observations) \in Nat /\ DOMAIN observations = 1 .. Len(observations)
           /\ \A i \in 1 .. Len(observations) : observations[i] \in Observations
           /\ Len(decisions) \in Nat /\ DOMAIN decisions = 1 .. Len(decisions)
           /\ \A d \in 1 .. Len(decisions) : decisions[d] \in DecisionsMade
<1>1. observations \in Seq(Observations) /\ decisions \in Seq(DecisionsMade)
  BY DEF TableShape
<1> QED  BY <1>1, ElementOfSeq, LenProperties

LEMMA InitSound ==
    ASSUME PlacedFiles, RelationsInit
    PROVE  RelationsInv
<1>1. WorldShape
  <2>1. disk \in [Places -> Entries]
    BY DEF RelationsInit, PlacedFiles, Entries
  <2>2. /\ located \in [Places -> [file : Entries, present : BOOLEAN]]
        /\ \A p \in Places : located[p].present => located[p].file \in Files
    BY <2>1 DEF RelationsInit, Entries
  <2> QED  BY <2>1, <2>2 DEF RelationsInit, WorldShape
<1>2. TableShape /\ CallShape
  BY NoCallIsSound, EmptySeq DEF RelationsInit, TableShape, CallShape
<1>3. TablesAreSound
  <2>1. Len(observations) = 0 /\ Len(decisions) = 0 /\ plans = {}
    BY DEF RelationsInit
  <2> QED  BY <2>1 DEF TablesAreSound, ObservationsAreOfTwo, DecisionsAreOfObservations,
              PlansAreOfObservations, PlanIsUndecided
<1>4. CallsAreSound
  BY NoCallIsSound DEF RelationsInit, CallsAreSound, Proper, Timely, Waiting, Planning
<1> QED  BY <1>1, <1>2, <1>3, <1>4 DEF RelationsInv, RelationsShape

-----------------------------------------------------------------------------
(* The latest observation of a pair.                                       *)
LEMMA LatestIsLast ==
    ASSUME TableShape, ObservationsAreOfTwo, NEW kind, NEW pair, Ids(kind, pair) # {}
    PROVE  /\ Latest(kind, pair) \in Ids(kind, pair)
           /\ \A j \in Ids(kind, pair) : NotAfter(Latest(kind, pair), j)
<1> DEFINE ids == Ids(kind, pair)
<1>1. /\ ids \subseteq 1 .. Len(observations) /\ Len(observations) \in Nat
      /\ \A i \in ids : observations[i].at \in 0 .. clock
  <2>1. DOMAIN observations = 1 .. Len(observations) /\ Len(observations) \in Nat
    BY Elements
  <2>2. \A i \in 1 .. Len(observations) : observations[i].at \in Nat /\ observations[i].at <= clock
    BY Elements DEF ObservationsAreOfTwo, Observations
  <2> QED  BY <2>1, <2>2 DEF TableShape, Ids
<1> DEFINE times == {observations[i].at : i \in ids}
<1> HIDE DEF ids
<1>2. times \subseteq 0 .. clock /\ times # {} /\ clock \in Nat
  BY <1>1 DEF TableShape, ids
<1>3. PICK time \in times : \A t \in times : t <= time
  BY <1>2, GreatestNumber
<1> DEFINE last == {i \in ids : observations[i].at = time}
<1>4. last \subseteq 0 .. Len(observations) /\ last # {}
  <2>1. \E i \in ids : observations[i].at = time
    BY <1>3
  <2>2. ids \subseteq 0 .. Len(observations)
    BY <1>1
  <2> QED  BY <2>1, <2>2
<1>5. PICK i \in last : \A j \in last : j <= i
  BY <1>1, <1>4, GreatestNumber
<1>6. \A j \in ids : NotAfter(i, j)
  <2>1. ASSUME NEW j \in ids PROVE NotAfter(i, j)
    <3>1. observations[j].at <= time /\ observations[i].at = time
      BY <1>3, <1>5
    <3>2. observations[j].at = time => j <= i
      BY <1>5
    <3>3. /\ i \in ids /\ i \in Nat /\ j \in Nat /\ time \in Nat /\ observations[j].at \in Nat
      BY <1>1, <1>2, <1>3, <1>5
    <3> QED  BY <3>1, <3>2, <3>3 DEF NotAfter
  <2> QED  BY <2>1
<1>7. i \in ids
  BY <1>5
<1> QED  BY <1>6, <1>7 DEF Latest, ids

\* What nobody decided about is what no decision applies to.
LEMMA SuggestedIsUndecided ==
    ASSUME TableShape, NEW i, State(i) = "suggested"
    PROVE  Applying(i) = {}
<1>1. Applying(i) \subseteq 1 .. Len(decisions) /\ Len(decisions) \in Nat
  BY Elements DEF Applying
<1>2. ASSUME Applying(i) # {} PROVE FALSE
  <2>1. Max(Applying(i)) \in 1 .. Len(decisions)
    BY <1>1, <1>2, MaxOfNumbers
  <2>2. decisions[Max(Applying(i))].decision \in {"accepted", "rejected"}
    BY <2>1, Elements DEF DecisionsMade
  <2> QED  BY <1>2, <2>2 DEF State
<1> QED  BY <1>2

-----------------------------------------------------------------------------
(* Tables only grow, and what a call knows of them stays true.             *)
Grown ==
    /\ clock <= clock'
    /\ Len(observations) <= Len(observations')
    /\ \A i \in 1 .. Len(observations) : observations'[i] = observations[i]

LEMMA OthersStay ==
    ASSUME TableShape, TableShape', Grown, CallShape, NEW x \in Callers, call'[x] = call[x],
           Proper(call[x]), Timely(call[x])
    PROVE  Proper(call[x])' /\ Timely(call[x])'
<1>1. /\ clock \in Nat /\ clock' \in Nat
      /\ Len(observations) \in Nat /\ Len(observations') \in Nat
  BY Elements DEF TableShape
<1>2. call[x] \in Calls
  BY DEF CallShape
<1>3. call[x].at \in Nat /\ call[x].since \in Nat
  BY <1>2 DEF Calls
<1>4. Proper(call[x])'
  BY <1>1, <1>3 DEF Proper, Grown
<1>5. Timely(call[x])'
  <2>1. ASSUME call[x].pc \in {"timed", "decide"}
        PROVE  /\ call[x].at <= clock'
               /\ \A i \in 1 .. call[x].since : observations'[i].at <= call[x].at
    <3>1. call[x].since <= Len(observations)
      BY <2>1 DEF Proper, Waiting
    <3>2. \A i \in 1 .. call[x].since : observations'[i] = observations[i]
      BY <1>1, <1>3, <3>1 DEF Grown
    <3>3. call[x].at <= clock /\ \A i \in 1 .. call[x].since : observations[i].at <= call[x].at
      BY <2>1 DEF Timely
    <3> QED  BY <1>1, <1>3, <3>2, <3>3 DEF Grown
  <2>2. ASSUME call[x].pc = "decide"
        PROVE  \E j \in 1 .. Len(observations') :
                 /\ j > call[x].since /\ observations'[j].at = call[x].at
                 /\ observations'[j].kind = call[x].kind
                 /\ observations'[j].pair = ToSet(call[x].files)
    <3>1. PICK j \in 1 .. Len(observations) :
                 /\ j > call[x].since /\ observations[j].at = call[x].at
                 /\ observations[j].kind = call[x].kind
                 /\ observations[j].pair = ToSet(call[x].files)
      BY <2>2 DEF Timely
    <3>2. j \in 1 .. Len(observations') /\ observations'[j] = observations[j]
      BY <1>1 DEF Grown
    <3> QED  BY <3>1, <3>2
  <2> QED  BY <2>1, <2>2 DEF Timely
<1> QED  BY <1>4, <1>5

\* A step of one caller, whose call is then as it should be, keeps all calls so.
LEMMA OneCaller ==
    ASSUME TableShape, TableShape', Grown, CallShape, CallsAreSound, NEW x \in Callers,
           NEW next, next \in Calls, call' = [call EXCEPT ![x] = next],
           Proper(call[x])' /\ Timely(call[x])'
    PROVE  CallShape' /\ CallsAreSound'
<1>1. CallShape'
  BY DEF CallShape
<1>2. ASSUME NEW y \in Callers PROVE Proper(call[y])' /\ Timely(call[y])'
  <2>1. CASE y = x
    BY <2>1
  <2>2. CASE y # x
    <3>1. call'[y] = call[y]
      BY <2>2 DEF CallShape
    <3> QED  BY <3>1, OthersStay DEF CallsAreSound
  <2> QED  BY <2>1, <2>2
<1> QED  BY <1>1, <1>2 DEF CallsAreSound

\* The files, the scanner and the policy.
LEMMA WorldChanges ==
    ASSUME WorldShape,
           \/ \E p, q \in Places : Move(p, q)
           \/ \E f \in Files, quiet \in BOOLEAN : Write(f, quiet)
           \/ Publish
    PROVE  WorldShape' /\ UNCHANGED <<clock, observations, decisions, plans, call>>
<1>1. ASSUME NEW p \in Places, NEW q \in Places, Move(p, q) PROVE WorldShape'
  BY <1>1 DEF Move, WorldShape, Entries
<1>2. ASSUME NEW f \in Files, NEW quiet \in BOOLEAN, Write(f, quiet) PROVE WorldShape'
  <2> DEFINE meta == IF quiet THEN written[f].meta ELSE written[f].meta + 1
             now == [written[f] EXCEPT !.bytes = 1, !.meta = meta]
  <2>1. written[f] \in [meta : Nat, bytes : {0, 1}] /\ meta \in Nat
    BY DEF WorldShape
  <2> HIDE DEF meta
  <2>2. now \in [meta : Nat, bytes : {0, 1}]
    BY <2>1
  <2>3. written' = [written EXCEPT ![f] = now]
    BY <1>2 DEF Write, WorldShape, meta
  <2> HIDE DEF now
  <2> QED  BY <1>2, <2>2, <2>3 DEF Write, WorldShape
<1>3. ASSUME Publish PROVE WorldShape'
  <2>1. located' = [p \in Places |->
                     IF disk[p] = NoFile THEN [located[p] EXCEPT !.present = FALSE]
                     ELSE [file |-> disk[p], present |-> TRUE]]
    BY <1>3 DEF Publish
  <2>2. /\ located' \in [Places -> [file : Entries, present : BOOLEAN]]
        /\ \A p \in Places : located'[p].present => located'[p].file \in Files
    <3>1. ASSUME NEW p \in Places
          PROVE  /\ located'[p] \in [file : Entries, present : BOOLEAN]
                 /\ located'[p].present => located'[p].file \in Files
      <4>1. disk[p] \in Entries /\ located[p] \in [file : Entries, present : BOOLEAN]
        BY DEF WorldShape
      <4>2. CASE disk[p] = NoFile
        <5>1. located'[p] = [located[p] EXCEPT !.present = FALSE]
          BY <2>1, <4>2
        <5> QED  BY <4>1, <5>1
      <4>3. CASE disk[p] # NoFile
        <5>1. located'[p] = [file |-> disk[p], present |-> TRUE]
          BY <2>1, <4>3
        <5> QED  BY <4>1, <4>3, <5>1 DEF Entries
      <4> QED  BY <4>2, <4>3
    <3>2. located' = [p \in Places |-> located'[p]]
      BY <2>1
    <3> QED  BY <3>1, <3>2
  <2>3. known' \in [Files -> Nat] /\ UNCHANGED <<disk, written>>
    BY <1>3 DEF Publish, WorldShape
  <2> QED  BY <2>2, <2>3 DEF WorldShape
<1> QED  BY <1>1, <1>2, <1>3 DEF Move, Write, Publish, tableVars

-----------------------------------------------------------------------------
(* A caller looks at files: its call changes and nothing else.             *)
Looks(x, next) == /\ call' = [call EXCEPT ![x] = next]
                  /\ UNCHANGED <<disk, written, located, known, changed, clock, observations,
                                 decisions, plans>>
Sound == /\ WorldShape /\ TableShape /\ CallShape /\ TablesAreSound /\ CallsAreSound
LEMMA SoundParts == RelationsInv <=> Sound
  BY DEF RelationsInv, RelationsShape, Sound

LEMMA Looking ==
    ASSUME Sound, NEW x \in Callers, NEW next, next \in Calls, Looks(x, next),
           Proper(next) /\ Timely(next)
    PROVE  Sound'
<1>1. UNCHANGED <<disk, written, located, known, changed, clock, observations, decisions, plans>>
  BY DEF Looks
<1>2. WorldShape' /\ TableShape' /\ TablesAreSound'
  <2>1. WorldShape' /\ TableShape'
    BY <1>1 DEF Sound, WorldShape, TableShape
  <2>2. ObservationsAreOfTwo' /\ DecisionsAreOfObservations'
    BY <1>1 DEF Sound, TablesAreSound, ObservationsAreOfTwo, DecisionsAreOfObservations
  <2>3. PlansAreOfObservations' /\ PlanIsUndecided'
    BY <1>1 DEF Sound, TablesAreSound, PlansAreOfObservations, PlanIsUndecided
  <2> QED  BY <2>1, <2>2, <2>3 DEF TablesAreSound
<1>3. Grown
  <2>1. clock \in Nat /\ Len(observations) \in Nat
    BY Elements DEF Sound, TableShape
  <2> QED  BY <1>1, <2>1 DEF Grown
<1>4. call' = [call EXCEPT ![x] = next] /\ call'[x] = next
  BY DEF Looks, Sound, CallShape
<1>5. Proper(call[x])' /\ Timely(call[x])'
  BY <1>1, <1>4 DEF Proper, Timely
<1> QED  BY <1>2, <1>3, <1>4, <1>5, OneCaller DEF Sound

LEMMA IdleIsSound == Proper(NoCall) /\ Timely(NoCall)
  BY NoCallIsSound DEF Proper, Timely, Waiting, Planning

\* What is opened: two present files.
LEMMA OpenedFiles ==
    ASSUME Sound, NEW kind \in Kinds, NEW p \in Places, NEW q \in Places, Related(kind, p, q),
           NEW decision \in {"none", "accepted", "rejected"}
    PROVE  LET next == [Opened(kind, p, q) EXCEPT !.pc = "opened", !.decision = decision]
           IN  /\ next \in Calls /\ Proper(next) /\ Timely(next)
               /\ Opened(kind, p, q) \in Calls /\ Opened(kind, p, q).decision = "none"
<1> DEFINE next == [Opened(kind, p, q) EXCEPT !.pc = "opened", !.decision = decision]
           f == FileAt(p)
           g == FileAt(q)
           places == <<p, q>>
           files == <<f, g>>
           meta == <<known[f], known[g]>>
           since == Len(observations)
<1>1. f \in Files /\ g \in Files /\ f # g
  BY DEF Related, Opens, FileAt, Sound, WorldShape
<1>2. known[f] \in Nat /\ known[g] \in Nat
  BY <1>1 DEF Sound, WorldShape
<1>3. /\ places \in Two(Places) /\ files \in Two(Files) /\ meta \in Two(Nat)
      /\ files[1] = f /\ files[2] = g
  BY <1>1, <1>2, TwoOf
<1>4. since \in Nat
  BY Elements DEF Sound
<1>0. Opened(kind, p, q) = [NoCall EXCEPT !.kind = kind, !.places = places, !.files = files,
                                          !.meta = meta, !.since = since]
  BY DEF Opened
<1> HIDE DEF f, g, places, files, meta, since
<1> DEFINE base == Opened(kind, p, q)
<1>5. /\ base \in Calls
      /\ base.kind = kind /\ base.places = places /\ base.files = files /\ base.meta = meta
      /\ base.since = since /\ base.decision = "none"
  <2>1. NoCall \in Calls /\ NoCall.decision = "none"
    BY NoCallIsSound DEF NoCall
  <2>2. places \in Seq(Places) /\ files \in Seq(Files) /\ meta \in Seq(Nat)
    BY <1>3, PairsOfTwo
  <2>3. base \in Calls
    BY <1>0, <1>4, <2>1, <2>2 DEF Calls
  <2>4. NoCall = [pc |-> NoCall.pc, kind |-> NoCall.kind, places |-> NoCall.places,
                  files |-> NoCall.files, meta |-> NoCall.meta, digests |-> NoCall.digests,
                  at |-> NoCall.at, decision |-> NoCall.decision, since |-> NoCall.since]
    BY DEF NoCall
  <2>5. /\ base.kind = kind /\ base.places = places /\ base.files = files /\ base.meta = meta
        /\ base.since = since /\ base.decision = "none"
    BY <1>0, <2>1, <2>4
  <2> QED  BY <2>3, <2>5
<1> HIDE DEF base
<1>6. /\ next \in Calls /\ next.pc = "opened" /\ next.decision = decision
      /\ next.kind = kind /\ next.places = places /\ next.files = files /\ next.meta = meta
      /\ next.since = since
  BY <1>5 DEF Calls, Steps, Waiting, base
<1> HIDE DEF next
<1>7. Proper(next) /\ Timely(next)
  BY <1>1, <1>3, <1>4, <1>6 DEF Proper, Timely, Waiting, Planning, since
<1> QED  BY <1>5, <1>6, <1>7 DEF next, base

LEMMA CallOf ==
    ASSUME Sound, NEW x \in Callers
    PROVE  call[x] \in Calls /\ Proper(call[x]) /\ Timely(call[x])
  BY DEF Sound, CallShape, CallsAreSound

LEMMA CallsOpen ==
    ASSUME Sound, NEW x \in Callers, NEW kind \in Kinds, NEW p \in Places, NEW q \in Places,
           \/ Check(x, kind, p, q)
           \/ \E decision \in {"accepted", "rejected"} : Verify(x, kind, p, q, decision)
    PROVE  Sound'
<1>1. Related(kind, p, q)
  BY DEF Check, Verify
<1>2. PICK decision \in {"none", "accepted", "rejected"} :
        Looks(x, [Opened(kind, p, q) EXCEPT !.pc = "opened", !.decision = decision])
  <2>1. CASE Check(x, kind, p, q)
    <3>1. [Opened(kind, p, q) EXCEPT !.pc = "opened"] =
            [Opened(kind, p, q) EXCEPT !.pc = "opened", !.decision = "none"]
      <4> DEFINE opened == Opened(kind, p, q)
      <4>1. opened \in Calls /\ opened.decision = "none"
        BY <1>1, OpenedFiles
      <4> HIDE DEF opened
      <4>2. [opened EXCEPT !.pc = "opened"] = [opened EXCEPT !.pc = "opened", !.decision = "none"]
        BY <4>1 DEF Calls
      <4> QED  BY <4>2 DEF opened
    <3>2. Looks(x, [Opened(kind, p, q) EXCEPT !.pc = "opened"])
      BY <2>1 DEF Check, Looks, worldVars, tableVars
    <3> QED  BY <3>1, <3>2
  <2>2. ASSUME NEW decision \in {"accepted", "rejected"}, Verify(x, kind, p, q, decision)
        PROVE  Looks(x, [Opened(kind, p, q) EXCEPT !.pc = "opened", !.decision = decision])
    BY <2>2 DEF Verify, Looks, worldVars, tableVars
  <2> QED  BY <2>1, <2>2
<1> QED  BY <1>1, <1>2, OpenedFiles, Looking

\* A call that goes on to bind, hash or write its plan.
LEMMA PlanGoesOn ==
    ASSUME Sound, NEW x \in Callers, call[x].pc \in Planning, NEW to \in Planning,
           NEW digests \in Seq(Nat),
           \/ Looks(x, [call[x] EXCEPT !.pc = to])
           \/ Looks(x, [call[x] EXCEPT !.pc = to, !.digests = digests])
    PROVE  Sound'
<1>1. call[x] \in Calls /\ Proper(call[x])
  BY CallOf
<1>2. ASSUME NEW next, Looks(x, next),
             \/ next = [call[x] EXCEPT !.pc = to]
             \/ next = [call[x] EXCEPT !.pc = to, !.digests = digests]
      PROVE  Sound'
  <2>1. /\ next \in Calls /\ next.pc = to /\ next.kind = call[x].kind
        /\ next.files = call[x].files /\ next.at = call[x].at
    BY <1>1, <1>2 DEF Calls, Steps
  <2>2. Proper(next) /\ Timely(next)
    BY <1>1, <2>1 DEF Proper, Timely, Waiting, Planning
  <2> QED  BY <1>2, <2>1, <2>2, Looking
<1> QED  BY <1>2

LEMMA PlansGoOn ==
    ASSUME Sound, NEW x \in Callers, BindFiles(x) \/ HashFiles(x) \/ Revalidate(x)
    PROVE  Sound'
<1>1. ASSUME Looks(x, NoCall) PROVE Sound'
  BY <1>1, Looking, IdleIsSound, NoCallIsSound
<1>2. CASE BindFiles(x)
  <2>1. Looks(x, NoCall) \/ Looks(x, [call[x] EXCEPT !.pc = "hash"])
    BY <1>2 DEF BindFiles, GoesIf, Looks, Leaves, worldVars, tableVars, Sound, CallShape
  <2>2. call[x].pc = "bind"
    BY <1>2 DEF BindFiles, At
  <2>3. call[x].digests \in Seq(Nat)
    BY CallOf DEF Calls
  <2> QED  BY <1>1, <2>1, <2>2, <2>3, PlanGoesOn DEF Planning
<1>3. CASE Revalidate(x)
  <2>1. Looks(x, NoCall) \/ Looks(x, [call[x] EXCEPT !.pc = "plan"])
    BY <1>3 DEF Revalidate, GoesIf, Looks, Leaves, worldVars, tableVars, Sound, CallShape
  <2>2. call[x].pc = "again"
    BY <1>3 DEF Revalidate, At
  <2>3. call[x].digests \in Seq(Nat)
    BY CallOf DEF Calls
  <2> QED  BY <1>1, <2>1, <2>2, <2>3, PlanGoesOn DEF Planning
<1>4. CASE HashFiles(x)
  <2> DEFINE digests == [n \in 1..2 |-> written[call[x].files[n]].bytes]
  <2>1. call[x].pc = "hash"
    BY <1>4 DEF HashFiles, At
  <2>2. call[x].files \in Two(Files)
    BY <2>1, CallOf DEF Proper
  <2>3. \A n \in 1 .. 2 : written[call[x].files[n]].bytes \in Nat
    <3>1. \A n \in 1 .. 2 : call[x].files[n] \in Files
      BY <2>2, PairsOfTwo
    <3>2. \A f \in Files : written[f] \in [meta : Nat, bytes : {0, 1}]
      BY DEF Sound, WorldShape
    <3>3. \A f \in Files : written[f].bytes \in Nat
      BY <3>2
    <3> QED  BY <3>1, <3>3
  <2>4. digests \in Seq(Nat)
    BY <2>3
  <2>5. Looks(x, [call[x] EXCEPT !.pc = "again", !.digests = digests])
    <3>1. call \in [Callers -> Calls] /\ call[x] \in Calls
      BY DEF Sound, CallShape
    <3>2. /\ call' = [call EXCEPT ![x].pc = "again", ![x].digests = digests]
          /\ UNCHANGED <<worldVars, clock, tableVars>>
      BY <1>4 DEF HashFiles
    <3> HIDE DEF digests
    <3>3. call' = [call EXCEPT ![x] = [call[x] EXCEPT !.pc = "again", !.digests = digests]]
      BY <3>1, <3>2 DEF Calls
    <3> QED  BY <3>2, <3>3 DEF Looks, worldVars, tableVars
  <2> HIDE DEF digests
  <2> QED  BY <2>1, <2>4, <2>5, PlanGoesOn DEF Planning
<1> QED  BY <1>2, <1>3, <1>4

\* A plan begins with an observation and its two files.
LEMMA PlanBegins ==
    ASSUME Sound, NEW x \in Callers, NEW i \in DOMAIN observations, NEW f \in Files,
           NEW g \in Files,
           BeginPlan(x, i, <<f, g>>)
    PROVE  Sound'
<1> DEFINE o == observations[i]
           selected == <<f, g>>
           places == IF selected = Ends(i) THEN o.places ELSE Reverse(o.places)
           meta == IF selected = Ends(i) THEN o.meta ELSE Reverse(o.meta)
           next == [NoCall EXCEPT !.pc = "bind", !.kind = o.kind, !.files = selected, !.at = i,
                                  !.places = places, !.meta = meta]
<1>1. i \in 1 .. Len(observations) /\ i \in Nat /\ o \in Observations
  BY Elements DEF Sound
<1>2. Looks(x, next) /\ ToSet(selected) = o.pair
  BY DEF BeginPlan, Looks, worldVars, tableVars
<1>3. selected \in Two(Files)
  BY TwoOf
<1>4. o.kind \in Kinds /\ places \in Two(Places) /\ meta \in Two(Nat)
  BY <1>1, Reversed DEF Observations
<1> DEFINE kind == o.kind
<1> HIDE DEF selected, places, meta, kind
<1>5. next = [NoCall EXCEPT !.pc = "bind", !.kind = kind, !.files = selected, !.at = i,
                            !.places = places, !.meta = meta]
  BY DEF kind
<1> HIDE DEF next
<1>6. /\ next \in Calls /\ next.pc = "bind" /\ next.kind = kind
      /\ next.files = selected /\ next.at = i
  <2>1. places \in Seq(Places) /\ selected \in Seq(Files) /\ meta \in Seq(Nat)
    BY <1>3, <1>4, PairsOfTwo
  <2> QED  BY <1>1, <1>4, <1>5, <2>1, NoCallIsSound DEF Calls, Steps, Planning, kind
<1>7. Proper(next) /\ Timely(next)
  BY <1>1, <1>2, <1>3, <1>4, <1>6 DEF Proper, Timely, Waiting, Planning, kind
<1> QED  BY <1>2, <1>6, <1>7, Looking

\* A time that is taken is no earlier than what was recorded.
LEMMA TimeIsTaken ==
    ASSUME Sound, NEW x \in Callers, NEW now \in Nat, TakeTime(x, now)
    PROVE  Sound'
<1> DEFINE next == [call[x] EXCEPT !.pc = "timed", !.at = now]
<1>1. call[x] \in Calls /\ Proper(call[x]) /\ call[x].pc = "opened"
  BY CallOf DEF TakeTime, At
<1>2. /\ UNCHANGED <<disk, written, located, known, changed, observations, decisions, plans>>
      /\ clock' = now /\ now >= clock /\ call' = [call EXCEPT ![x] = next]
  BY DEF TakeTime, worldVars, tableVars, Sound, CallShape
<1>3. clock \in Nat /\ Len(observations) \in Nat
      /\ \A i \in 1 .. Len(observations) : observations[i].at \in Nat /\ observations[i].at <= clock
  BY Elements DEF Sound, TableShape, TablesAreSound, ObservationsAreOfTwo, Observations
<1>4. WorldShape' /\ TableShape'
  BY <1>2 DEF Sound, WorldShape, TableShape
<1>5. Grown
  BY <1>2, <1>3 DEF Grown
<1>6. TablesAreSound'
  <2>1. ObservationsAreOfTwo'
    BY <1>2, <1>3 DEF Sound, TablesAreSound, ObservationsAreOfTwo
  <2>2. DecisionsAreOfObservations' /\ PlansAreOfObservations' /\ PlanIsUndecided'
    BY <1>2 DEF Sound, TablesAreSound, DecisionsAreOfObservations, PlansAreOfObservations,
            PlanIsUndecided
  <2> QED  BY <2>1, <2>2 DEF TablesAreSound
<1>7. /\ next \in Calls /\ next.pc = "timed" /\ next.at = now /\ next.since = call[x].since
      /\ next.kind = call[x].kind /\ next.files = call[x].files /\ next.places = call[x].places
      /\ next.meta = call[x].meta
  BY <1>1 DEF Calls, Steps, Waiting
<1>8. Proper(call[x])' /\ Timely(call[x])'
  <2> HIDE DEF next
  <2>1. call'[x] = next
    BY <1>2 DEF Sound, CallShape
  <2>2. next.since <= Len(observations) /\ next.since \in Nat
    BY <1>1, <1>7 DEF Proper, Waiting, Calls
  <2>3. \A i \in 1 .. next.since : observations[i].at <= now
    BY <1>2, <1>3, <2>2
  <2>4. Timely(call[x])'
    BY <1>2, <1>7, <2>1, <2>3 DEF Timely
  <2>5. Proper(call[x])'
    BY <1>1, <1>2, <1>7, <2>1 DEF Proper, Waiting, Planning
  <2> QED  BY <2>4, <2>5
<1> HIDE DEF next
<1> QED  BY <1>2, <1>4, <1>5, <1>6, <1>7, <1>8, OneCaller DEF Sound

\* Rows that are added disturb no row that points at others.
LEMMA RowsStay ==
    ASSUME Sound, TableShape', Grown, Len(decisions) <= Len(decisions'),
           \A d \in 1 .. Len(decisions) : decisions'[d] = decisions[d],
           plans' = plans
    PROVE  /\ PlansAreOfObservations' /\ PlanIsUndecided'
           /\ decisions' = decisions => DecisionsAreOfObservations'
<1>1. /\ Len(observations) \in Nat /\ Len(observations') \in Nat /\ Len(decisions) \in Nat
      /\ Len(decisions') \in Nat /\ Len(observations) <= Len(observations')
  BY Elements DEF Sound, Grown, TableShape
<1>2. ASSUME NEW p \in plans
      PROVE  /\ p.evidence \in 1 .. Len(observations) /\ p.decided \in 0 .. Len(decisions)
             /\ observations'[p.evidence] = observations[p.evidence]
             /\ {p.target, p.keeper} = observations[p.evidence].pair
             /\ \A d \in 1 .. p.decided : decisions'[d] = decisions[d]
  <2>1. /\ p.evidence \in 1 .. Len(observations) /\ p.decided \in 0 .. Len(decisions)
        /\ {p.target, p.keeper} = observations[p.evidence].pair
    BY DEF Sound, TablesAreSound, PlansAreOfObservations
  <2> QED  BY <1>1, <2>1 DEF Grown
<1>3. PlansAreOfObservations'
  <2>1. ASSUME NEW p \in plans
        PROVE  /\ p.evidence \in 1 .. Len(observations') /\ p.decided \in 0 .. Len(decisions')
               /\ {p.target, p.keeper} = observations'[p.evidence].pair
    BY <1>1, <1>2
  <2> QED  BY <2>1 DEF PlansAreOfObservations
<1>4. PlanIsUndecided'
  <2>1. ASSUME NEW p \in plans
        PROVE  /\ p.target # p.keeper
               /\ observations'[p.evidence].kind = "duplicate" =>
                    \A d \in 1 .. p.decided : ~ (/\ decisions'[d].kind = "duplicate"
                                                /\ decisions'[d].pair = {p.target, p.keeper})
    <3>1. /\ p.target # p.keeper
          /\ observations[p.evidence].kind = "duplicate" =>
               \A d \in 1 .. p.decided : ~ (/\ decisions[d].kind = "duplicate"
                                           /\ decisions[d].pair = {p.target, p.keeper})
      BY DEF Sound, TablesAreSound, PlanIsUndecided
    <3>2. /\ observations'[p.evidence] = observations[p.evidence]
          /\ \A d \in 1 .. p.decided : decisions'[d] = decisions[d]
      BY <1>2
    <3> QED  BY <3>1, <3>2
  <2> QED  BY <2>1 DEF PlanIsUndecided
<1>5. ASSUME decisions' = decisions PROVE DecisionsAreOfObservations'
  <2>1. ASSUME NEW d \in 1 .. Len(decisions)
        PROVE  /\ decisions[d].evidence \in 1 .. Len(observations')
               /\ decisions[d].evidence > decisions[d].since
    BY <1>1 DEF Sound, TablesAreSound, DecisionsAreOfObservations
  <2> QED  BY <1>5, <2>1 DEF DecisionsAreOfObservations
<1> QED  BY <1>3, <1>4, <1>5

\* The observation a call records.
LEMMA ObservationIsRecorded ==
    ASSUME Sound, NEW x \in Callers, Record(x)
    PROVE  Sound'
<1> DEFINE c == call[x]
           o == [kind |-> c.kind, pair |-> Pair(x), places |-> c.places,
                 files |-> c.files, meta |-> c.meta, at |-> c.at]
           last == Len(observations) + 1
<1>1. c \in Calls /\ Proper(c) /\ Timely(c) /\ c.pc = "timed"
  BY CallOf DEF Record, At
<1>2. /\ o \in Observations /\ o.at = c.at /\ o.kind = c.kind /\ o.pair = ToSet(c.files)
      /\ \E f, g \in Files : f # g /\ o.pair = {f, g}
  <2>1. /\ c.kind \in Kinds /\ c.files \in Two(Files) /\ c.places \in Two(Places)
        /\ c.meta \in Two(Nat) /\ c.files[1] # c.files[2] /\ c.at \in Nat
    BY <1>1 DEF Proper, Waiting, Calls
  <2>2. c.files[1] \in Files /\ c.files[2] \in Files /\ Pair(x) = {c.files[1], c.files[2]}
    BY <2>1, PairsOfTwo DEF Pair
  <2>3. o \in Observations
    BY <2>1, <2>2 DEF Observations
  <2> QED  BY <2>1, <2>2, <2>3 DEF Pair
<1> HIDE DEF o
<1>3. CASE ~ (Matches(x) /\ Len(observations) < MaxObservations)
  <2>1. Looks(x, NoCall)
    BY <1>3 DEF Record, Leaves, Looks, worldVars
  <2> QED  BY <2>1, Looking, IdleIsSound, NoCallIsSound
<1>4. CASE Matches(x) /\ Len(observations) < MaxObservations
  <2>1. /\ observations' = Append(observations, o)
        /\ UNCHANGED <<disk, written, located, known, changed, clock, decisions, plans>>
    BY <1>4 DEF Record, worldVars, o
  <2>2. PICK next : /\ \/ next = NoCall
                       \/ next = [c EXCEPT !.pc = "decide"] /\ c.decision # "none"
                    /\ call' = [call EXCEPT ![x] = next]
    <3>1. CASE c.decision = "none"
      BY <1>4, <3>1 DEF Record, Leaves
    <3>2. CASE c.decision # "none"
      <4>1. call' = [call EXCEPT ![x] = [c EXCEPT !.pc = "decide"]]
        BY <1>4, <3>2 DEF Record, Sound, CallShape
      <4> QED  BY <3>2, <4>1
    <3> QED  BY <3>1, <3>2
  <2>3. observations \in Seq(Observations) /\ Len(observations) \in Nat /\ clock \in Nat
    BY Elements DEF Sound, TableShape
  <2>4. /\ observations' \in Seq(Observations) /\ Len(observations') = last
        /\ \A i \in 1 .. Len(observations) : observations'[i] = observations[i]
        /\ observations'[last] = o
    BY <1>2, <2>1, <2>3, AppendProperties
  <2>5. WorldShape' /\ TableShape'
    BY <2>1, <2>4 DEF Sound, WorldShape, TableShape
  <2>6. Grown
    BY <2>1, <2>3, <2>4 DEF Grown
  <2>7. ObservationsAreOfTwo'
    <3>1. ASSUME NEW i \in 1 .. last
          PROVE  /\ observations'[i].at <= clock
                 /\ \E f, g \in Files : f # g /\ observations'[i].pair = {f, g}
      <4>1. CASE i = last
        BY <1>1, <1>2, <2>4, <4>1 DEF Timely
      <4>2. CASE i # last
        <5>1. i \in 1 .. Len(observations)
          BY <2>3, <4>2
        <5> QED  BY <2>4, <5>1 DEF Sound, TablesAreSound, ObservationsAreOfTwo
      <4> QED  BY <4>1, <4>2
    <3> QED  BY <2>1, <2>4, <3>1 DEF ObservationsAreOfTwo
  <2>8. TablesAreSound'
    <3>1. Len(decisions) <= Len(decisions') /\ decisions' = decisions /\ plans' = plans
      BY <2>1, Elements DEF Sound
    <3> QED  BY <2>5, <2>6, <2>7, <3>1, RowsStay DEF TablesAreSound
  <2>9. next \in Calls
    BY <1>1, <2>2, NoCallIsSound DEF Calls, Steps, Waiting
  <2>10. Proper(call[x])' /\ Timely(call[x])'
    <3>1. call'[x] = next
      BY <2>2 DEF Sound, CallShape
    <3>2. CASE next = NoCall
      BY <3>1, <3>2, NoCallIsSound DEF Proper, Timely, Waiting, Planning
    <3>3. CASE next = [c EXCEPT !.pc = "decide"] /\ c.decision # "none"
      <4>1. /\ next.pc = "decide" /\ next.kind = c.kind /\ next.files = c.files
            /\ next.places = c.places /\ next.meta = c.meta /\ next.at = c.at
            /\ next.since = c.since /\ next.decision # "none"
        BY <1>1, <3>3 DEF Calls
      <4>2. c.since <= Len(observations) /\ c.since \in Nat
        BY <1>1 DEF Proper, Waiting, Calls
      <4> HIDE DEF c
      <4>3. Proper(next)'
        <5>1. next.since <= Len(observations')
          BY <2>3, <2>4, <4>1, <4>2
        <5>2. /\ c.kind \in Kinds /\ c.files \in Two(Files) /\ c.places \in Two(Places)
              /\ c.meta \in Two(Nat) /\ c.files[1] # c.files[2]
          BY <1>1 DEF Proper, Waiting
        <5> QED  BY <4>1, <5>1, <5>2 DEF Proper, Waiting, Planning
      <4>4. Timely(next)'
        <5>1. next.at <= clock' /\ \A i \in 1 .. next.since : observations'[i].at <= next.at
          <6>1. \A i \in 1 .. c.since : i \in 1 .. Len(observations)
            BY <2>3, <4>2
          <6>2. c.at <= clock /\ \A i \in 1 .. c.since : observations[i].at <= c.at
            BY <1>1 DEF Timely
          <6> QED  BY <2>1, <2>4, <4>1, <6>1, <6>2
        <5>2. /\ last \in 1 .. Len(observations') /\ last > next.since
              /\ observations'[last].at = next.at /\ observations'[last].kind = next.kind
              /\ observations'[last].pair = ToSet(next.files)
          BY <1>2, <2>3, <2>4, <4>1, <4>2
        <5> QED  BY <5>1, <5>2 DEF Timely
      <4> QED  BY <3>1, <4>3, <4>4 DEF Proper, Timely
    <3> QED  BY <2>2, <3>2, <3>3
  <2> QED  BY <2>2, <2>5, <2>6, <2>8, <2>9, <2>10, OneCaller DEF Sound
<1> QED  BY <1>3, <1>4

\* The decision a call makes: it is about the latest observation of the pair, which is the one
\* the call recorded or a later one.
LEMMA DecisionIsMade ==
    ASSUME Sound, NEW x \in Callers, Decide(x)
    PROVE  Sound'
<1> DEFINE c == call[x]
           i == Latest(c.kind, Pair(x))
           made == [kind |-> c.kind, pair |-> Pair(x), decision |-> c.decision,
                    evidence |-> i, judged |-> Ends(i), since |-> c.since]
           last == Len(decisions) + 1
<1>1. c \in Calls /\ Proper(c) /\ Timely(c) /\ c.pc = "decide"
  BY CallOf DEF Decide, At
<1>2. /\ call' = [call EXCEPT ![x] = NoCall] /\ call'[x] = NoCall
      /\ UNCHANGED <<disk, written, located, known, changed, clock, observations, plans>>
  BY DEF Decide, Leaves, worldVars, Sound, CallShape
<1>3. CASE decisions' = decisions
  <2>1. Looks(x, NoCall)
    BY <1>2, <1>3 DEF Looks
  <2> QED  BY <2>1, Looking, IdleIsSound, NoCallIsSound
<1>4. CASE decisions' = Append(decisions, made)
  <2>1. /\ TableShape /\ ObservationsAreOfTwo
        /\ DOMAIN observations = 1 .. Len(observations) /\ Len(observations) \in Nat
        /\ Len(decisions) \in Nat /\ decisions \in Seq(DecisionsMade) /\ clock \in Nat
    BY Elements DEF Sound, TablesAreSound, TableShape
  <2>2. i \in 1 .. Len(observations) /\ i > c.since /\ i \in Nat
    <3>1. PICK j \in 1 .. Len(observations) :
             /\ j > c.since /\ observations[j].at = c.at
             /\ observations[j].kind = c.kind /\ observations[j].pair = ToSet(c.files)
      BY <1>1 DEF Timely
    <3>2. j \in Ids(c.kind, Pair(x))
      BY <2>1, <3>1 DEF Ids, Pair
    <3>3. i \in Ids(c.kind, Pair(x)) /\ NotAfter(i, j)
      BY <2>1, <3>2, LatestIsLast
    <3>4. i \in 1 .. Len(observations)
      BY <2>1, <3>3 DEF Ids
    <3>5. observations[i].at \in Nat /\ c.at \in Nat /\ c.since \in Nat
      BY <1>1, <2>1, <3>4, Elements DEF Observations, Calls
    <3>6. ASSUME i <= c.since PROVE FALSE
      <4>1. i \in 1 .. c.since
        BY <3>4, <3>5, <3>6
      <4>2. observations[i].at <= c.at
        BY <1>1, <4>1 DEF Timely
      <4>3. i >= j
        BY <3>1, <3>3, <3>5, <4>2 DEF NotAfter
      <4> QED  BY <2>1, <3>1, <3>4, <3>5, <3>6, <4>3
    <3> QED  BY <3>4, <3>5, <3>6
  <2>3. Ends(i) \in Two(Entries)
    <3>1. observations[i].places \in Two(Places)
      BY <2>1, <2>2, Elements DEF Observations
    <3>2. /\ FileAt(observations[i].places[1]) \in Entries
          /\ FileAt(observations[i].places[2]) \in Entries
      BY <3>1, PairsOfTwo DEF FileAt, Sound, WorldShape
    <3> QED  BY <3>2, TwoOf DEF Ends
  <2> HIDE DEF i
  <2>4. made \in DecisionsMade /\ made.evidence = i /\ made.since = c.since
    <3>1. /\ c.kind \in Kinds /\ c.files \in Two(Files) /\ c.since \in Nat
          /\ c.decision \in {"accepted", "rejected"}
      BY <1>1 DEF Proper, Calls
    <3>2. Pair(x) \in SUBSET Files
      BY <3>1, PairsOfTwo DEF Pair
    <3> QED  BY <2>2, <2>3, <3>1, <3>2 DEF DecisionsMade
  <2> HIDE DEF made, c
  <2>5. /\ decisions' \in Seq(DecisionsMade) /\ Len(decisions') = last
        /\ \A d \in 1 .. Len(decisions) : decisions'[d] = decisions[d]
        /\ decisions'[last] = made
    BY <1>4, <2>1, <2>4, AppendProperties
  <2>6. WorldShape' /\ TableShape' /\ Grown /\ ObservationsAreOfTwo'
    <3>1. WorldShape' /\ TableShape'
      BY <1>2, <2>5 DEF Sound, WorldShape, TableShape
    <3>2. Grown
      BY <1>2, <2>1 DEF Grown
    <3>3. ObservationsAreOfTwo'
      BY <1>2, <2>1 DEF ObservationsAreOfTwo
    <3> QED  BY <3>1, <3>2, <3>3
  <2>7. DecisionsAreOfObservations'
    <3>1. ASSUME NEW d \in 1 .. last
          PROVE  /\ decisions'[d].evidence \in 1 .. Len(observations)
                 /\ decisions'[d].evidence > decisions'[d].since
      <4>1. CASE d = last
        BY <2>2, <2>4, <2>5, <4>1
      <4>2. CASE d # last
        <5>1. d \in 1 .. Len(decisions)
          BY <2>1, <4>2
        <5> QED  BY <2>5, <5>1 DEF Sound, TablesAreSound, DecisionsAreOfObservations
      <4> QED  BY <4>1, <4>2
    <3> QED  BY <1>2, <2>5, <3>1 DEF DecisionsAreOfObservations
  <2>8. PlansAreOfObservations' /\ PlanIsUndecided'
    <3>1. Len(decisions) <= Len(decisions')
      BY <2>1, <2>5
    <3> QED  BY <1>2, <2>5, <2>6, <3>1, RowsStay
  <2>9. Proper(call[x])' /\ Timely(call[x])'
    BY <1>2, NoCallIsSound DEF Proper, Timely, Waiting, Planning
  <2>10. CallShape' /\ CallsAreSound'
    BY <1>2, <2>6, <2>9, NoCallIsSound, OneCaller DEF Sound
  <2> QED  BY <2>6, <2>7, <2>8, <2>10 DEF Sound, TablesAreSound
<1> QED  BY <1>3, <1>4 DEF Decide

\* The plan a call writes: nobody has decided about the observation it is made from.
LEMMA PlanIsWritten ==
    ASSUME Sound, NEW x \in Callers, InsertPlan(x)
    PROVE  Sound'
<1> DEFINE c == call[x]
           plan == [evidence |-> c.at, target |-> c.files[1], keeper |-> c.files[2],
                    decided |-> Len(decisions)]
<1>1. c \in Calls /\ Proper(c) /\ c.pc = "plan"
  BY CallOf DEF InsertPlan, At
<1>2. /\ call' = [call EXCEPT ![x] = NoCall] /\ call'[x] = NoCall
      /\ UNCHANGED <<disk, written, located, known, changed, clock, observations, decisions>>
  BY DEF InsertPlan, Leaves, worldVars, Sound, CallShape
<1>3. CASE plans' = plans
  <2>1. Looks(x, NoCall)
    BY <1>2, <1>3 DEF Looks
  <2> QED  BY <2>1, Looking, IdleIsSound, NoCallIsSound
<1>4. CASE plans' = plans \cup {plan} /\ PlanIsValid(x) /\ StillSelectable(x)
  <2>1. /\ TableShape /\ DOMAIN observations = 1 .. Len(observations)
        /\ DOMAIN decisions = 1 .. Len(decisions)
        /\ Len(observations) \in Nat /\ Len(decisions) \in Nat /\ clock \in Nat
    BY Elements DEF Sound, TableShape
  <2>2. /\ c.at \in 1 .. Len(observations) /\ c.at \in Nat /\ c.files \in Two(Files)
        /\ ToSet(c.files) = observations[c.at].pair
    BY <1>1 DEF Proper, Planning, Calls
  <2>3. c.files[1] \in Files /\ c.files[2] \in Files /\ ToSet(c.files) = {c.files[1], c.files[2]}
    BY <2>2, PairsOfTwo
  <2>4. /\ plan \in Plans /\ plan.evidence = c.at /\ plan.target = c.files[1]
        /\ plan.keeper = c.files[2] /\ plan.decided = Len(decisions)
    BY <2>1, <2>2, <2>3 DEF Plans
  <2>5. ASSUME observations[c.at].kind = "duplicate", NEW d \in 1 .. Len(decisions),
               decisions[d].kind = "duplicate", decisions[d].pair = observations[c.at].pair
        PROVE  FALSE
    <3>1. State(c.at) = "suggested"
      BY <1>4 DEF StillSelectable, Selectable
    <3>2. Applying(c.at) = {}
      BY <2>1, <3>1, SuggestedIsUndecided
    <3>3. d \in Applying(c.at)
      BY <2>1, <2>5 DEF Applying, Applies
    <3> QED  BY <3>2, <3>3
  <2>6. c.files[1] # c.files[2]
    BY <1>4 DEF PlanIsValid
  <2> HIDE DEF plan, c
  <2>7. WorldShape' /\ TableShape' /\ Grown
    <3>1. plans' \subseteq Plans
      BY <1>4, <2>4 DEF Sound, TableShape
    <3>2. WorldShape' /\ TableShape'
      BY <1>2, <3>1 DEF Sound, WorldShape, TableShape
    <3> QED  BY <1>2, <2>1, <3>2 DEF Grown
  <2>8. ObservationsAreOfTwo' /\ DecisionsAreOfObservations'
    BY <1>2 DEF Sound, TablesAreSound, ObservationsAreOfTwo, DecisionsAreOfObservations
  <2>9. ASSUME NEW p \in plans \cup {plan}
        PROVE  /\ p.evidence \in 1 .. Len(observations) /\ p.decided \in 0 .. Len(decisions)
               /\ {p.target, p.keeper} = observations[p.evidence].pair
               /\ p.target # p.keeper
               /\ observations[p.evidence].kind = "duplicate" =>
                    \A d \in 1 .. p.decided : ~ (/\ decisions[d].kind = "duplicate"
                                                /\ decisions[d].pair = {p.target, p.keeper})
    <3>1. CASE p \in plans
      BY <3>1 DEF Sound, TablesAreSound, PlansAreOfObservations, PlanIsUndecided
    <3>2. CASE p = plan
      <4>1. p.decided \in 0 .. Len(decisions)
        BY <2>1, <2>4, <3>2
      <4>2. {p.target, p.keeper} = observations[p.evidence].pair
        BY <2>2, <2>3, <2>4, <3>2
      <4> QED  BY <2>2, <2>4, <2>5, <2>6, <3>2, <4>1, <4>2
    <3> QED  BY <3>1, <3>2
  <2>10. PlansAreOfObservations' /\ PlanIsUndecided'
    BY <1>2, <1>4, <2>9 DEF PlansAreOfObservations, PlanIsUndecided
  <2>11. Proper(call[x])' /\ Timely(call[x])'
    BY <1>2, NoCallIsSound DEF Proper, Timely, Waiting, Planning
  <2>12. CallShape' /\ CallsAreSound'
    BY <1>2, <2>7, <2>11, NoCallIsSound, OneCaller DEF Sound
  <2> QED  BY <2>7, <2>8, <2>10, <2>12 DEF Sound, TablesAreSound
<1> QED  BY <1>3, <1>4 DEF InsertPlan

-----------------------------------------------------------------------------
LEMMA TheWorldMoves ==
    ASSUME Sound,
           \/ \E p, q \in Places : Move(p, q)
           \/ \E f \in Files, quiet \in BOOLEAN : Write(f, quiet)
           \/ Publish
    PROVE  Sound'
<1>1. WorldShape' /\ UNCHANGED <<clock, observations, decisions, plans, call>>
  BY WorldChanges DEF Sound
<1>2. TableShape' /\ CallShape'
  BY <1>1 DEF Sound, TableShape, CallShape
<1>3. TablesAreSound'
  <2>1. ObservationsAreOfTwo' /\ DecisionsAreOfObservations'
    BY <1>1 DEF Sound, TablesAreSound, ObservationsAreOfTwo, DecisionsAreOfObservations
  <2>2. PlansAreOfObservations' /\ PlanIsUndecided'
    BY <1>1 DEF Sound, TablesAreSound, PlansAreOfObservations, PlanIsUndecided
  <2> QED  BY <2>1, <2>2 DEF TablesAreSound
<1>4. Grown
  <2>1. clock \in Nat /\ Len(observations) \in Nat
    BY Elements DEF Sound, TableShape
  <2> QED  BY <1>1, <2>1 DEF Grown
<1>5. CallsAreSound'
  <2>1. ASSUME NEW x \in Callers PROVE Proper(call[x])' /\ Timely(call[x])'
    <3>1. call'[x] = call[x] /\ Proper(call[x]) /\ Timely(call[x])
      BY <1>1, CallOf
    <3> QED  BY <1>2, <1>4, <3>1, OthersStay DEF Sound
  <2> QED  BY <2>1 DEF CallsAreSound
<1> QED  BY <1>1, <1>2, <1>3, <1>5 DEF Sound

LEMMA RelationsStep ==
    ASSUME MaxTime \in Nat, RelationsInv, [RelationsNext]_relationVars
    PROVE  RelationsInv'
<1>0. Sound
  BY SoundParts
<1>1. SUFFICES Sound'
  BY <1>1, SoundParts DEF Sound, RelationsInv, RelationsShape
<1>2. CASE UNCHANGED relationVars
  <2>1. UNCHANGED <<disk, written, located, known, changed, clock, observations, decisions, plans,
                    call>>
    BY <1>2 DEF relationVars
  <2>2. WorldShape' /\ TableShape' /\ CallShape'
    BY <1>0, <2>1 DEF Sound, WorldShape, TableShape, CallShape
  <2>3. ObservationsAreOfTwo' /\ DecisionsAreOfObservations'
    BY <1>0, <2>1 DEF Sound, TablesAreSound, ObservationsAreOfTwo, DecisionsAreOfObservations
  <2>4. PlansAreOfObservations' /\ PlanIsUndecided'
    BY <1>0, <2>1 DEF Sound, TablesAreSound, PlansAreOfObservations, PlanIsUndecided
  <2>5. CallsAreSound'
    BY <1>0, <2>1 DEF Sound, CallsAreSound, Proper, Timely
  <2> QED  BY <2>2, <2>3, <2>4, <2>5 DEF Sound, TablesAreSound
<1>3. CASE \/ \E p, q \in Places : Move(p, q)
           \/ \E f \in Files, quiet \in BOOLEAN : Write(f, quiet)
           \/ Publish
  BY <1>0, <1>3, TheWorldMoves
<1>4. ASSUME NEW x \in Callers, NEW kind \in Kinds, NEW p \in Places, NEW q \in Places,
             \/ Check(x, kind, p, q)
             \/ \E decision \in {"accepted", "rejected"} : Verify(x, kind, p, q, decision)
      PROVE  Sound'
  BY <1>0, <1>4, CallsOpen
<1>5. ASSUME NEW x \in Callers, NEW now \in 0 .. MaxTime, TakeTime(x, now) PROVE Sound'
  BY <1>0, <1>5, TimeIsTaken
<1>6. ASSUME NEW x \in Callers, Record(x) PROVE Sound'
  BY <1>0, <1>6, ObservationIsRecorded
<1>7. ASSUME NEW x \in Callers, Decide(x) PROVE Sound'
  BY <1>0, <1>7, DecisionIsMade
<1>8. ASSUME NEW x \in Callers, BindFiles(x) \/ HashFiles(x) \/ Revalidate(x) PROVE Sound'
  BY <1>0, <1>8, PlansGoOn
<1>9. ASSUME NEW x \in Callers, InsertPlan(x) PROVE Sound'
  BY <1>0, <1>9, PlanIsWritten
<1>10. ASSUME NEW x \in Callers, NEW i \in DOMAIN observations, NEW f \in Files, NEW g \in Files,
              BeginPlan(x, i, <<f, g>>)
       PROVE  Sound'
  BY <1>0, <1>10, PlanBegins
<1> QED  BY <1>2, <1>3, <1>4, <1>5, <1>6, <1>7, <1>8, <1>9, <1>10 DEF RelationsNext

LEMMA RelationsAreSound ==
    ASSUME PlacedFiles, MaxTime \in Nat
    PROVE  RelationsSpec => []RelationsInv
<1>1. RelationsInit => RelationsInv
  BY InitSound
<1>2. RelationsInv /\ [RelationsNext]_relationVars => RelationsInv'
  BY RelationsStep
<1> QED  BY <1>1, <1>2, PTL DEF RelationsSpec

-----------------------------------------------------------------------------
\* The tables fit together: each observation is about two different files, each decision and each
\* cleanup plan is about an observation that exists, and a plan is about its two files (the
\* foreign keys and checks of file_relation_observations, feedback and cleanup_action_plans).
THEOREM RelationsAreWellTyped ==
    ASSUME PlacedFiles, MaxTime \in Nat
    PROVE  RelationsSpec => []RelationsTypeOK
<1>1. RelationsInv => RelationsTypeOK
  <2>1. ASSUME RelationsInv PROVE RelationsTypeOK
    <3>1. TableShape /\ disk \in [Places -> Files \cup {NoFile}]
      BY <2>1 DEF RelationsInv, RelationsShape, WorldShape, Entries
    <3>2. /\ DOMAIN observations = 1 .. Len(observations)
          /\ DOMAIN decisions = 1 .. Len(decisions)
      BY <3>1, Elements
    <3>3. ASSUME NEW i \in 1 .. Len(observations)
          PROVE  observations[i].pair \subseteq Files /\ Cardinality(observations[i].pair) = 2
      <4>1. PICK f \in Files, g \in Files : f # g /\ observations[i].pair = {f, g}
        BY <2>1 DEF RelationsInv, TablesAreSound, ObservationsAreOfTwo
      <4>2. Cardinality({f, g}) = 2
        BY <4>1, PairOfTwo
      <4>3. Cardinality(observations[i].pair) = 2
        BY <4>1, <4>2, Zenon
      <4> QED  BY <4>1, <4>3
    <3>4. /\ \A d \in 1 .. Len(decisions) : decisions[d].evidence \in 1 .. Len(observations)
          /\ \A p \in plans : {p.target, p.keeper} = observations[p.evidence].pair
      BY <2>1 DEF RelationsInv, TablesAreSound, DecisionsAreOfObservations, PlansAreOfObservations
    <3> QED  BY <3>1, <3>2, <3>3, <3>4 DEF RelationsTypeOK
  <2> QED  BY <2>1
<1> QED  BY <1>1, RelationsAreSound, PTL

\* Whatever others record meanwhile, and with any number of readings of the clock in one
\* millisecond, a decision is bound to an observation made after its call began
\* (decide_file_relation_candidate_with_policy, decide_file_version_candidate_with_policy).
THEOREM DecisionsAreFresh ==
    ASSUME PlacedFiles, MaxTime \in Nat
    PROVE  RelationsSpec => []DecisionIsFresh
<1>1. RelationsInv => DecisionIsFresh
  <2>1. ASSUME RelationsInv, NEW d \in DOMAIN decisions
        PROVE  decisions[d].evidence > decisions[d].since
    <3>1. d \in 1 .. Len(decisions)
      BY <2>1, Elements DEF RelationsInv, RelationsShape
    <3> QED  BY <2>1, <3>1 DEF RelationsInv, TablesAreSound, DecisionsAreOfObservations
  <2> QED  BY <2>1 DEF DecisionIsFresh
<1> QED  BY <1>1, RelationsAreSound, PTL

\* A cleanup plan of duplicates is made from a pair about which nobody had decided when the plan
\* was written, and it keeps the other file of the pair (create_cleanup_action_plan_with_policy).
THEOREM PlansAreUndecided ==
    ASSUME PlacedFiles, MaxTime \in Nat
    PROVE  RelationsSpec => []PlanIsUndecided
<1>1. RelationsInv => PlanIsUndecided
  BY DEF RelationsInv, TablesAreSound
<1> QED  BY <1>1, RelationsAreSound, PTL
=============================================================================
