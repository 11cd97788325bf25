----------------------------- MODULE LexicalSearch -----------------------------
(* A lexical search (crates/retrieval/src/lib.rs, the search queries of        *)
(* crates/database/src/lib.rs) of the command line, of the desktop host and of *)
(* the MCP server (apps/mcp/src/main.rs).  The query over paths and the query  *)
(* over texts are separate reads, and so is each look at the policy that       *)
(* decides whether what they found may be shown.  What the text and the        *)
(* filters of a request match is left open: a query finds any list of the      *)
(* rows that its conditions on the policy admit.                               *)
EXTENDS Naturals, Sequences, FiniteSets, FiniteSetsExt, SequencesExt

CONSTANTS
    Entries,        \* locations, as numbers
    ScopeOf,        \* entry -> its scope
    Exact,          \* entries whose file name is the query
    NoScope,        \* the request names no scope
    Chunks,         \* content chunks of an entry
    Limit,          \* results asked for
    PerSource,      \* candidates that a query returns at most
    Callers,
    MaxChanges      \* bound: exclusions and revocations of a scope

VARIABLES
    policies,       \* scope -> revision, grant and excluded entries
    stored,         \* entries with a present location, and those of them with active chunks
    call,           \* the search of each caller
    shown           \* history: what was just answered, and what the last checks permitted

searchVars == <<policies, stored, call, shown>>

Scopes == {ScopeOf[e] : e \in Entries}
EntriesOf(s) == {e \in Entries : ScopeOf[e] = s}
NoCall == [pc |-> "idle", op |-> "none", only |-> NoScope, served |-> 0, bound |-> 0,
           active |-> {}, paths |-> <<>>, texts |-> <<>>, evidence |-> [s \in {} |-> 0],
           todo |-> {}, results |-> <<>>, vouched |-> {}]

NothingShown == [listed |-> {}, vouched |-> {}]

SearchInit ==
    /\ policies = [s \in Scopes |-> [revision |-> 1, granted |-> TRUE, excluded |-> {}]]
    /\ stored = [present |-> Entries, extracted |-> Entries]
    /\ call = [c \in Callers |-> NoCall]
    /\ shown = NothingShown

-----------------------------------------------------------------------------
(* Fusing what the two queries found. *)

Unranked == PerSource + 1
AtPath(list, found, i) == [found EXCEPT ![list[i].entry].path = Min({@, i})]
AtText(list, found, i) ==
    [found EXCEPT ![list[i].entry].text = Min({@, i}),
                  ![list[i].entry].snippet = IF @ = 0 THEN list[i].chunk ELSE @]
Combined(paths, texts) ==
    LET none == [e \in Entries |-> [path |-> Unranked, text |-> Unranked, snippet |-> 0]]
        named[i \in 0 .. Len(paths)] == IF i = 0 THEN none ELSE AtPath(paths, named[i - 1], i)
        found[i \in 0 .. Len(texts)] ==
          IF i = 0 THEN named[Len(paths)] ELSE AtText(texts, found[i - 1], i)
    IN found[Len(texts)]

\* The key that rank_candidates sorts by, the least first.
SortKey(found, e) ==
    <<IF e \in Exact THEN 0 ELSE 1,
      IF found[e].path # Unranked /\ found[e].text # Unranked THEN 0 ELSE 1,
      found[e].path, found[e].text, e>>
Precedes(x, y) ==
    \E n \in DOMAIN x : x[n] < y[n] /\ \A m \in 1 .. n - 1 : x[m] = y[m]
EntriesIn(list) == {list[i].entry : i \in DOMAIN list}
\* combined.sort_by_key: the first of what is left comes next
Foremost(found, some) ==
    CHOOSE e \in some : \A d \in some : ~ Precedes(SortKey(found, d), SortKey(found, e))
RankCandidates(paths, texts) ==
    LET found == Combined(paths, texts)
        left(best) == (EntriesIn(paths) \cup EntriesIn(texts)) \ ToSet(best)
        best[n \in 0 .. Limit] ==
          IF n = 0 THEN <<>>
          ELSE IF left(best[n - 1]) = {} THEN best[n - 1]
               ELSE Append(best[n - 1], Foremost(found, left(best[n - 1])))
    IN [i \in DOMAIN best[Limit] |->
          [entry |-> best[Limit][i], snippet |-> found[best[Limit][i]].snippet]]

-----------------------------------------------------------------------------
(* Scans and changes of the policy, by other processes. *)

Permitted(e) == policies[ScopeOf[e]].granted /\ e \notin policies[ScopeOf[e]].excluded
Without(gone) == [present |-> stored.present \ gone, extracted |-> stored.extracted \ gone]
Publish(e) ==
    /\ Permitted(e) /\ e \notin stored.present
    /\ \E extracted \in {{}, {e}} :
         stored' = [present |-> stored.present \cup {e}, extracted |-> stored.extracted \cup extracted]
    /\ UNCHANGED <<policies, call, shown>>
Exclude(e) ==
    /\ Permitted(e) /\ policies[ScopeOf[e]].revision <= MaxChanges
    /\ policies' = [policies EXCEPT ![ScopeOf[e]].revision = @ + 1,
                                  ![ScopeOf[e]].excluded = @ \cup {e}]
    /\ stored' = Without({e})
    /\ UNCHANGED <<call, shown>>
Revoke(s) ==
    /\ policies[s].granted /\ policies[s].revision <= MaxChanges
    /\ policies' = [policies EXCEPT ![s].revision = @ + 1, ![s].granted = FALSE]
    /\ stored' = Without(EntriesOf(s))
    /\ UNCHANGED <<call, shown>>
\* Access that could not be restored, or was given again, leaves the revision alone.
Regrant(s) ==
    /\ policies' = [policies EXCEPT ![s].granted = ~@]
    /\ UNCHANGED <<stored, call, shown>>

-----------------------------------------------------------------------------
(* A search. *)

Go(c, next) == call' = [call EXCEPT ![c] = next] /\ UNCHANGED <<policies, stored, shown>>
Ends(c) == Go(c, NoCall)
At(c, pc) == call[c].pc = pc
Current(s, revision) == policies[s].granted /\ policies[s].revision = revision

\* search_local looks up which scopes are active in its process before it searches, and for the
\* command line all are; search_files binds the policy of the scope it was asked for.
BeginSearch(c, op, only) ==
    /\ At(c, "idle")
    /\ op = "mcp" => only # NoScope /\ policies[only].granted
    /\ \E active \in (IF op = "local" THEN SUBSET Scopes ELSE {Scopes}) :
         /\ only # NoScope => only \in active
         /\ call' = [call EXCEPT ![c] =
                       [NoCall EXCEPT !.pc = "bind", !.op = op, !.only = only, !.active = active,
                          !.served = IF op = "mcp" THEN policies[only].revision ELSE 0]]
    /\ shown' = NothingShown /\ UNCHANGED <<policies, stored>>
\* search_with
Bind(c) ==
    LET s == call[c].only
    IN /\ At(c, "bind")
       /\ IF s = NoScope THEN Go(c, [call[c] EXCEPT !.pc = "paths"])
          ELSE IF policies[s].granted
               THEN Go(c, [call[c] EXCEPT !.pc = "paths", !.bound = policies[s].revision])
          ELSE Ends(c)

\* What the conditions of a query admit: scopes with access, and no excluded location.
Visible(c, some) == {e \in some : Permitted(e) /\ call[c].only \in {NoScope, ScopeOf[e]}}
RowsFor(c, some, chunks) ==
    [entry : Visible(c, some), chunk : chunks, revision : 1 .. MaxChanges + 1]
Lists(c, some, chunks) ==
    {list \in BoundedSeq({r \in RowsFor(c, some, chunks) :
                            r.revision = policies[ScopeOf[r.entry]].revision}, PerSource) :
       IsInjective(list)}
ReadPaths(c) ==
    /\ At(c, "paths")
    /\ \E found \in Lists(c, stored.present, {0}) :
         Go(c, [call[c] EXCEPT !.pc = "texts", !.paths = found])
\* A request of the MCP server is for one of the two.
ReadTexts(c) ==
    /\ At(c, "texts")
    /\ \E found \in Lists(c, stored.extracted, Chunks) :
         /\ call[c].op = "mcp" /\ call[c].paths # <<>> => found = <<>>
         /\ Go(c, [call[c] EXCEPT !.pc = "compare", !.texts = found])

Candidates(c) == ToSet(call[c].paths) \cup ToSet(call[c].texts)
CandidatesOf(c, s) == {r \in Candidates(c) : ScopeOf[r.entry] = s}
\* The revision the row was read at, and the exclusions of the policy as it is now.
Accepted(c, s) ==
    /\ policies[s].granted
    /\ \A r \in CandidatesOf(c, s) :
         r.revision = policies[s].revision /\ r.entry \notin policies[s].excluded
Compare(c, s) ==
    /\ At(c, "compare") /\ CandidatesOf(c, s) # {} /\ s \notin DOMAIN call[c].evidence
    /\ IF Accepted(c, s)
       THEN Go(c, [call[c] EXCEPT !.evidence =
                     [t \in DOMAIN @ \cup {s} |-> IF t = s THEN policies[s].revision ELSE @[t]]])
       ELSE Ends(c)
Rank(c) ==
    /\ At(c, "compare")
    /\ \A r \in Candidates(c) : ScopeOf[r.entry] \in DOMAIN call[c].evidence
    /\ Go(c, [call[c] EXCEPT !.pc = "recheck", !.paths = <<>>, !.texts = <<>>,
              !.todo = DOMAIN call[c].evidence \cup ({call[c].only} \ {NoScope}),
              !.results = RankCandidates(call[c].paths, call[c].texts)])

\* Slip: what was compared once is not compared again.
HeldOnce(c, s) == TRUE
Holds(c, s) ==
    /\ s = call[c].only => Current(s, call[c].bound)
    /\ s \in DOMAIN call[c].evidence => Current(s, call[c].evidence[s])
LookAgain(c, s) ==
    /\ At(c, "recheck") /\ s \in call[c].todo
    /\ IF Holds(c, s)
       THEN Go(c, [call[c] EXCEPT !.todo = @ \ {s},
                     !.vouched = @ \cup {e \in EntriesOf(s) : Permitted(e)}])
       ELSE Ends(c)

Answers(c, listed, vouched) ==
    /\ shown' = [listed |-> listed, vouched |-> vouched]
    /\ call' = [call EXCEPT ![c] = NoCall]
    /\ UNCHANGED <<policies, stored>>
\* search_local keeps the results of the scopes that were active; project_response the first
\* that fit into a payload, and the policy is compared with the one bound at the start.
Answer(c) ==
    /\ At(c, "recheck") /\ call[c].todo = {}
    /\ \/ /\ call[c].op # "mcp"
          /\ Answers(c, {e \in EntriesIn(call[c].results) : ScopeOf[e] \in call[c].active},
                     call[c].vouched)
       \/ /\ call[c].op = "mcp" /\ Current(call[c].only, call[c].served)
          /\ \E n \in 0 .. Len(call[c].results) :
               Answers(c, EntriesIn(SubSeq(call[c].results, 1, n)), {e \in Entries : Permitted(e)})
       \/ call[c].op = "mcp" /\ ~Current(call[c].only, call[c].served) /\ Ends(c)

\* A query may fail, or run out of the time a read-only one has.
FailSearch(c) == call[c].pc \in {"paths", "texts"} /\ Ends(c)

SearchNext ==
    \/ \E e \in Entries : Publish(e) \/ Exclude(e)
    \/ \E s \in Scopes : Revoke(s) \/ Regrant(s)
    \/ \E c \in Callers :
         \/ \E op \in {"local", "mcp"}, only \in Scopes \cup {NoScope} : BeginSearch(c, op, only)
         \/ Bind(c) \/ ReadPaths(c) \/ ReadTexts(c) \/ Rank(c) \/ Answer(c) \/ FailSearch(c)
         \/ \E s \in Scopes : Compare(c, s) \/ LookAgain(c, s)

SearchSpec == SearchInit /\ [][SearchNext]_searchVars

-----------------------------------------------------------------------------
(* Properties. *)

SearchTypeOK ==
    /\ stored.extracted \subseteq stored.present
    /\ \A s \in Scopes : policies[s].revision \in 1 .. MaxChanges + 1
    /\ \A c \in Callers : /\ DOMAIN call[c].evidence \subseteq Scopes
                          /\ Len(call[c].results) <= Limit

\* Whatever changed between the reads of a search, each result was permitted when the policy
\* of its scope was looked at for the last time.
ResultsArePermitted == shown.listed \subseteq shown.vouched

\* No location is listed twice; each comes with the snippet of its best chunk; and none comes
\* after, or is left out for, one that it beats or equals in name, path and text.
FirstWith(list, e) ==
    Min({i \in DOMAIN list : list[i].entry = e} \cup {Unranked})
Beats(paths, texts, d, e) ==
    /\ e \in Exact => d \in Exact
    /\ FirstWith(paths, d) <= FirstWith(paths, e)
    /\ FirstWith(texts, d) <= FirstWith(texts, e)
    /\ FirstWith(paths, d) < FirstWith(paths, e) \/ FirstWith(texts, d) < FirstWith(texts, e)
ListsTheBest(results, paths, texts) ==
    LET found == EntriesIn(paths) \cup EntriesIn(texts)
        place(e) == Min({i \in DOMAIN results : results[i].entry = e} \cup {Limit + 1})
    IN /\ Cardinality(EntriesIn(results)) = Len(results)
       /\ Len(results) = Min({Limit, Cardinality(found)})
       /\ \A i \in DOMAIN results :
            LET first == FirstWith(texts, results[i].entry)
            IN results[i].snippet = IF first = Unranked THEN 0 ELSE texts[first].chunk
       /\ \A d, e \in found : Beats(paths, texts, d, e) => place(d) <= place(e)
BestAreListed ==
    \A c \in Callers : At(c, "compare") =>
      LET p == call[c].paths  t == call[c].texts IN ListsTheBest(RankCandidates(p, t), p, t)
=============================================================================
