----------------------------- MODULE Candidates -----------------------------
(***************************************************************************)
(* Phase 4 of the discovery pipeline (candidates.run_phase_4): from the    *)
(* columns of the inventory to the foreign-key candidates phase 5 will     *)
(* validate.  Two searches make a list each, five passes demote candidates *)
(* of each list on its own (the last one those of both), and the lists are *)
(* written one after the other, in batches, over whatever earlier runs     *)
(* left: a candidate found by both searches ends with the row of the       *)
(* second.                                                                 *)
(*                                                                         *)
(* A scene is what the inventory, the flags and the files say.  Names      *)
(* and values are abstracted to what the code compares: similarities and   *)
(* Jaccard indices in percent, and whether a name is "id", "<table>_id" or *)
(* follows a role pattern.                                                 *)
(***************************************************************************)
EXTENDS Integers, FiniteSets, SequencesExt

CONSTANTS
  Col,              \* column_id: the order of rows, of names and of ids
  Table,            \* table_id
  Scenes,           \* what phase 4 may find in its inputs, by name
  Caps,             \* values of max_relationships; 0 is no cap
  Stricts,          \* values of require_parent_pk
  ChildMin,         \* relationships.child_min_distinct_count
  LshThreshold,     \* relationships.lsh_threshold, in percent
  TopK,             \* relationships.top_k_per_child
  Batch,            \* _PERSIST_BATCH
  MaxLost,          \* bound: batches whose transaction raises
  MaxRuns           \* bound: runs of the phase

Stage == {"sql_prefilter", "lsh_search"}
Tier == {"none", "primary", "advisory_lowconf"}

\* (child, parent); a column is never paired with itself.
Pair == {p \in Col \X Col : p[1] # p[2]}

\* What a run may change of a column, and what it may not.
Flags == [eligible : BOOLEAN, unique : BOOLEAN, implicit : BOOLEAN]

Column == [table : Table, cls : STRING, distinct : Nat, dense : BOOLEAN,
           full : BOOLEAN, pk : BOOLEAN]

Scene == [col : [Col -> Column],
          flags : [Col -> Flags],
          bare : SUBSET Col,               \* columns named "id"
          refers : SUBSET (Col \X Table),  \* columns named "<table>_id"
          role : SUBSET Pair,              \* self-ref, role or suffix-id name
          outside : SUBSET Pair,           \* ranges known not to nest
          strangers : SUBSET (Table \X Table),
          sim : [Pair -> 0 .. 100],
          jaccard : [Pair -> 0 .. 100],
          rows : [Table -> Nat]]           \* 0: no readable file

ASSUME CandidatesAssumption ==
  /\ Col \subseteq Nat
  /\ Scenes \in [DOMAIN Scenes -> Scene]
  /\ Caps \subseteq Nat
  /\ Stricts \subseteq BOOLEAN
  /\ ChildMin \in Nat /\ LshThreshold \in 0 .. 100 /\ TopK \in Nat
  /\ Batch \in Nat \ {0} /\ MaxLost \in Nat /\ MaxRuns \in Nat

VARIABLES
  chosen,   \* the scene all runs are played in
  cap,      \* max_relationships
  strict,   \* require_parent_pk
  at,       \* where run_phase_4 stands
  flags,    \* cols: the flags of the columns in this run
  tier,     \* the two lists: the tier of each candidate, "none" outside
  left,     \* candidates of each list not written yet
  wrote,    \* total > 0
  missed,   \* errors > 0
  store,    \* fk_candidates: the tier of each row, "none" without a row
  fresh,    \* fk_candidates was empty when this run began
  lost,
  runs

\* What a run reads and no run changes.
inputs == <<chosen, cap, strict>>

candidateVars == <<inputs, at, flags, tier, left, wrote, missed, store,
                   fresh, lost, runs>>

scene == Scenes[chosen]

Point == {"idle", "keys", "direction", "generate", "dedup", "bridge", "range", "topk",
       "cap", "persist", "done", "failed"}

NoRows == [p \in Pair |-> "none"]

CandidateTypeOK ==
  /\ chosen \in DOMAIN Scenes /\ cap \in Caps /\ strict \in Stricts
  /\ at \in Point
  /\ flags \in [Col -> Flags]
  /\ tier \in [Stage -> [Pair -> Tier]]
  /\ left \in [Stage -> SUBSET Pair]
  /\ wrote \in BOOLEAN /\ missed \in BOOLEAN
  /\ store \in [Pair -> Tier]
  /\ fresh \in BOOLEAN
  /\ lost \in 0 .. MaxLost /\ runs \in 0 .. MaxRuns

CandidateInit ==
  /\ chosen \in DOMAIN Scenes /\ cap \in Caps /\ strict \in Stricts
  /\ at = "idle"
  /\ flags = scene.flags
  /\ tier = [s \in Stage |-> NoRows]
  /\ left = [s \in Stage |-> {}]
  /\ wrote = FALSE /\ missed = FALSE
  /\ store = NoRows
  /\ fresh = TRUE
  /\ lost = 0 /\ runs = 0
-----------------------------------------------------------------------------
(* Primary keys read off the data, and which side of a pair they make the parent. *)

Abs(n) == IF n < 0 THEN -n ELSE n

Unique(c) == flags[c].unique \/ flags[c].implicit

\* What makes a column fit to be a parent.
HasKey(c) == scene.col[c].pk \/ Unique(c)

\* Type classes a key may have.
Plausible == {"int", "uuid", "string", "date", "timestamp"}

\* As many values as rows, to 3 percent, and no nulls.
Qualifying(t) ==
  {c \in Col : /\ scene.col[c].table = t
               /\ ~scene.col[c].pk /\ ~flags[c].unique
               /\ scene.rows[t] >= 2
               /\ 100 * Abs(scene.col[c].distinct - scene.rows[t]) <= 3 * scene.rows[t]
               /\ scene.col[c].full
               /\ scene.col[c].cls \in Plausible}

\* How well the name of a column says "primary key"; 0 is best.
NameRank(c) ==
  IF c \in scene.bare THEN 0
  ELSE IF <<c, scene.col[c].table>> \in scene.refers THEN 1 ELSE 2

\* Named id, else named after the table, else the first one.
Chosen(t) ==
  CHOOSE c \in Qualifying(t) : \A d \in Qualifying(t) :
    NameRank(c) < NameRank(d) \/ (NameRank(c) = NameRank(d) /\ c <= d)

\* The tables other than its own that point at the table of c by name.
Inbound(c) ==
  Cardinality({scene.col[d].table : d \in {e \in Col :
      <<e, scene.col[c].table>> \in scene.refers /\ scene.col[e].table # scene.col[c].table}})

\* The side of two implicit keys that is demoted, if any.
Loser(a, b) ==
  CASE Inbound(a) # Inbound(b) -> IF Inbound(a) > Inbound(b) THEN {b} ELSE {a}
    [] Inbound(a) = Inbound(b) /\ NameRank(a) # NameRank(b) ->
         IF NameRank(a) > NameRank(b) THEN {a} ELSE {b}
    [] OTHER -> {}

Comparable(a, b) ==
  scene.col[a].table # scene.col[b].table /\ scene.col[a].cls = scene.col[b].cls

ImplicitKeys == {c \in Col : flags[c].implicit /\ ~scene.col[c].pk}

\* Every pair in turn, passing over columns already demoted.
Demoted ==
  LET ks == SetToSortSeq(ImplicitKeys, <)
      Meet(a, gone, b) ==
        IF b > a /\ b \notin gone /\ Comparable(a, b) THEN gone \cup Loser(a, b) ELSE gone
      Visit(gone, a) ==
        IF a \in gone THEN gone ELSE FoldLeft(LAMBDA g, b : Meet(a, g, b), gone, ks)
  IN  FoldLeft(Visit, {}, ks)

\* Still unique, but no longer the identity of its table.
Sibling(c) == [flags[c] EXCEPT !.implicit = FALSE, !.unique = TRUE]
-----------------------------------------------------------------------------
(* The two searches. *)

Keyed(t) == \E c \in Col : scene.col[c].table = t /\ HasKey(c)

\* The parent's whole table lacks key metadata.
ParentUnknown(p) == strict /\ ~HasKey(p[2])

\* A recognised role pointer at a key.
RoleBypass(p) == p \in scene.role /\ HasKey(p[2])

Locked(p) == RoleBypass(p) /\ ~ParentUnknown(p)

BothPk(p) == scene.col[p[1]].pk /\ scene.col[p[2]].pk
BothDense(p) == scene.col[p[1]].dense /\ scene.col[p[2]].dense

\* Few values are enough for a role pointer, or under a telling name.
EnoughValues(p) ==
  \/ scene.col[p[1]].distinct >= ChildMin
  \/ RoleBypass(p) /\ scene.col[p[1]].distinct >= 1
  \/ ~RoleBypass(p) /\ scene.sim[p] >= 85 /\ HasKey(p[2])

\* The gates both searches share.
Admissible(p) ==
  LET c == scene.col[p[1]]  q == scene.col[p[2]] IN
  /\ flags[p[1]].eligible /\ flags[p[2]].eligible
  /\ c.cls = q.cls
  /\ strict => HasKey(p[2]) \/ ~Keyed(q.table)
  /\ 100 * c.distinct <= 105 * q.distinct
  /\ 100 * q.distinct >= 95 * c.distinct
  /\ p \notin scene.outside
  /\ EnoughValues(p)

InPrefilter(p) ==
  /\ Admissible(p)
  /\ BothDense(p) /\ ~RoleBypass(p) =>
       /\ scene.sim[p] >= 40
       /\ ~(scene.sim[p] >= 85 /\ <<scene.col[p[1]].table, scene.col[p[2]].table>> \in scene.strangers)
  /\ BothPk(p) /\ ~RoleBypass(p) => scene.sim[p] > 85

\* _containment_from_jaccard, in percent.
Contained(p) ==
  LET cd == scene.col[p[1]].distinct
      pct == (scene.jaccard[p] * (cd + scene.col[p[2]].distinct) * 100)
               \div ((100 + scene.jaccard[p]) * cd)
  IN  IF cd = 0 THEN 0 ELSE IF pct > 100 THEN 100 ELSE pct

InLsh(p, near) ==
  /\ Admissible(p)
  /\ p \in near
  /\ Contained(p) >= LshThreshold
  /\ BothDense(p) /\ ~RoleBypass(p) => scene.sim[p] >= 40

\* The prefilter has seen no values.
Containment(s, p) == IF s = "lsh_search" THEN Contained(p) ELSE 0

\* _classify_tier, and the promotion of role pointers after it.
Primary(s, p) ==
  /\ ~ParentUnknown(p)
  /\ \/ RoleBypass(p)
     \/ /\ BothPk(p) => scene.sim[p] > 85
        /\ BothDense(p) /\ scene.sim[p] <= 60 =>
             HasKey(p[2]) /\ Containment(s, p) >= 95 /\ scene.sim[p] > 30
        /\ scene.sim[p] > 60 \/ Containment(s, p) > 90

Found(s, p, near) == IF s = "lsh_search" THEN InLsh(p, near) ELSE InPrefilter(p)

Searched(s, p, near) ==
  IF ~Found(s, p, near) THEN "none"
  ELSE IF Primary(s, p) THEN "primary" ELSE "advisory_lowconf"

\* compute_confidence, times ten thousand.
Confidence(s, p) ==
  LET c == scene.col[p[1]]  q == scene.col[p[2]] IN
    40 * Containment(s, p) + 30 * scene.sim[p]
    + (IF q.pk THEN 1500 ELSE IF Unique(p[2]) THEN 750 ELSE 0)
    + (IF c.distinct > 0 /\ q.distinct > 0 THEN 1000 ELSE 0)
    + (IF s = "lsh_search" THEN 5 * scene.jaccard[p] ELSE 0)
-----------------------------------------------------------------------------
(* The passes.  Each maps a list to the list it leaves. *)

\* Mutant of Demote: a tier the column does not know.
MutantDemote(list, out) == [p \in Pair |-> IF p \in out THEN "advisory" ELSE list[p]]

Demote(list, out) == [p \in Pair |-> IF p \in out THEN "advisory_lowconf" ELSE list[p]]

Rev(p) == <<p[2], p[1]>>

Primaries(list) == {p \in Pair : list[p] = "primary"}

\* One row per value, to 5 percent.
Identifier(c) ==
  LET n == scene.rows[scene.col[c].table] IN
    n > 0 /\ 100 * Abs(n - scene.col[c].distinct) <= 5 * n

Bit(b) == IF b THEN 1 ELSE 0

\* The rules of the dedup in their order: declared keys, then more values
\* among keys of one kind, then an identifier, then the name "id".
Anchor(c, d) ==
  << Bit(scene.col[c].pk),
     IF BothPk(<<c, d>>) \/ (Unique(c) /\ Unique(d)) THEN scene.col[c].distinct ELSE 0,
     Bit(Identifier(c)),
     Bit(c \in scene.bare) >>

Before(a, b) ==
  \E i \in 1 .. 4 : a[i] > b[i] /\ \A j \in 1 .. i - 1 : a[j] = b[j]

\* c rather than d is the parent of the two; the alphabet decides ties.
Parent(c, d) ==
  Before(Anchor(c, d), Anchor(d, c)) \/ (Anchor(c, d) = Anchor(d, c) /\ c < d)

\* dedup_bidirectional_candidates
Deduped(list) ==
  Demote(list, {p \in Primaries(list) : Rev(p) \in Primaries(list) /\ Parent(p[1], p[2])})

\* How far the size of the parent's table is from the child's values.
Distance(p) ==
  LET n == scene.rows[scene.col[p[2]].table]
      size == IF n > 0 THEN n ELSE scene.col[p[2]].distinct
  IN  IF size > 0 THEN Abs(size - scene.col[p[1]].distinct) ELSE 1000000

SameTable(p) == scene.col[p[1]].table = scene.col[p[2]].table

\* Mutant of Bridged: keys are not spared.
MutantBridged(s, list) ==
  LET rivals == {p \in Primaries(list) : Containment(s, p) >= 99} IN
    Demote(list, {p \in rivals : ~Locked(p) /\ ~SameTable(p) /\
                    \E r \in rivals : r[1] = p[1] /\ scene.sim[r] > scene.sim[p]})

\* filter_bridge_collisions
Bridged(s, list) ==
  LET rivals == {p \in Primaries(list) : Containment(s, p) >= 99}
      beaten == {p \in rivals : \E r \in rivals :
                   /\ r[1] = p[1]
                   /\ \/ scene.sim[r] > scene.sim[p]
                      \/ scene.sim[r] = scene.sim[p] /\ Distance(r) < Distance(p)}
  IN  Demote(list, {p \in beaten : ~Locked(p) /\ ~SameTable(p) /\ ~HasKey(p[2])})

\* apply_range_overlap_penalty
Ranged(list) ==
  Demote(list, {p \in Primaries(list) :
    /\ ~Locked(p) /\ ~SameTable(p)
    /\ scene.col[p[1]].distinct > 0 /\ scene.col[p[2]].distinct > 0
    /\ 10 * scene.col[p[1]].distinct <= scene.col[p[2]].distinct
    /\ scene.sim[p] < 50})

\* The order of a list: by child, then by parent (neighbours by distance, for
\* which the order of ids stands).
Earlier(p, r) == p[1] < r[1] \/ (p[1] = r[1] /\ p[2] < r[2])

\* The order of lists sorted by falling confidence; the sort is stable.
Ahead(s, p, t, r) ==
  \/ Confidence(s, p) > Confidence(t, r)
  \/ /\ Confidence(s, p) = Confidence(t, r)
     /\ IF s = t THEN Earlier(p, r) ELSE s = "sql_prefilter"

\* Mutant of Ranked: role pointers are ranked like the others.
MutantRanked(s, list) ==
  Demote(list, {p \in Primaries(list) :
    Cardinality({r \in Primaries(list) : r[1] = p[1] /\ Ahead(s, r, s, p)}) >= TopK})

\* apply_top_k_per_child
Ranked(s, list) ==
  Demote(list, {p \in Primaries(list) :
    /\ TopK > 0 /\ ~Locked(p)
    /\ Cardinality({r \in Primaries(list) : r[1] = p[1] /\ Ahead(s, r, s, p)}) >= TopK})

\* apply_global_cap, over both lists
Capped(s, list) ==
  LET Ahd(p) == {x \in Stage \X Pair : tier[x[1]][x[2]] = "primary" /\ Ahead(x[1], x[2], s, p)}
  IN  Demote(list, {p \in Primaries(list) : cap > 0 /\ Cardinality(Ahd(p)) >= cap})
-----------------------------------------------------------------------------
\* run_phase_4 loads the columns; a finding on a column whose name is not a
\* key's takes it out of the search.
Load ==
  /\ at \in {"idle", "done", "failed"}
  /\ runs < MaxRuns
  /\ \E pii \in SUBSET Col :
       flags' = [c \in Col |->
         IF /\ c \in pii
            /\ ~scene.col[c].pk /\ ~scene.flags[c].unique
            /\ c \notin scene.bare /\ \A t \in Table : <<c, t>> \notin scene.refers
           THEN [scene.flags[c] EXCEPT !.eligible = FALSE]
           ELSE scene.flags[c]]
  /\ at' = "keys"
  /\ tier' = [s \in Stage |-> NoRows]
  /\ left' = [s \in Stage |-> {}]
  /\ wrote' = FALSE /\ missed' = FALSE
  /\ fresh' = (store = NoRows)
  /\ runs' = runs + 1
  /\ UNCHANGED <<inputs, store, lost>>

\* detect_implicit_pks
DetectKeys ==
  /\ at = "keys"
  /\ flags' = [c \in Col |->
       LET t == scene.col[c].table IN
       IF c \notin Qualifying(t) THEN flags[c]
       ELSE IF c = Chosen(t) THEN [flags[c] EXCEPT !.implicit = TRUE]
       ELSE Sibling(c)]
  /\ at' = "direction"
  /\ UNCHANGED <<inputs, tier, left, wrote, missed, store, fresh, lost, runs>>

\* _reconcile_pk_direction
Reconcile ==
  /\ at = "direction"
  /\ flags' = [c \in Col |-> IF c \in Demoted THEN Sibling(c) ELSE flags[c]]
  /\ at' = "generate"
  /\ UNCHANGED <<inputs, tier, left, wrote, missed, store, fresh, lost, runs>>

\* generate_candidates.  The index returns some neighbours of each column,
\* top_k + 1 at most: a column may be a neighbour of another and not the reverse.
Generate ==
  /\ at = "generate"
  /\ \E near \in SUBSET {p \in Pair : scene.jaccard[p] > 0} :
       tier' = [s \in Stage |-> [p \in Pair |-> Searched(s, p, near)]]
  /\ at' = "dedup"
  /\ UNCHANGED <<inputs, flags, left, wrote, missed, store, fresh, lost, runs>>

\* One pass over both lists.
Pass(here, next, new) ==
  /\ at = here
  /\ at' = next
  /\ tier' = new
  /\ UNCHANGED <<inputs, flags, left, wrote, missed, store, fresh, lost, runs>>

\* Mutant of Dedup: only the first list is deduplicated.
MutantDedup ==
  Pass("dedup", "bridge", [tier EXCEPT !["sql_prefilter"] = Deduped(tier["sql_prefilter"])])

Dedup == Pass("dedup", "bridge", [s \in Stage |-> Deduped(tier[s])])
Bridge == Pass("bridge", "range", [s \in Stage |-> Bridged(s, tier[s])])
Shrink == Pass("range", "topk", [s \in Stage |-> Ranged(tier[s])])
Rank == Pass("topk", "cap", [s \in Stage |-> Ranked(s, tier[s])])

\* The cap, after which the lists are ready to be written.
Trim ==
  /\ at = "cap"
  /\ tier' = [s \in Stage |-> Capped(s, tier[s])]
  /\ left' = [s \in Stage |-> {p \in Pair : tier[s][p] # "none"}]
  /\ at' = "persist"
  /\ UNCHANGED <<inputs, flags, wrote, missed, store, fresh, lost, runs>>

\* The list being written: the second only after the first.
Writing == IF left["sql_prefilter"] # {} THEN "sql_prefilter" ELSE "lsh_search"

\* The next batch of that list.
NextBatch ==
  LET rest == left[Writing] IN
    {p \in rest : Cardinality({r \in rest : Earlier(r, p)}) < Batch}

Take ==
  /\ at = "persist"
  /\ NextBatch # {}
  /\ left' = [left EXCEPT ![Writing] = @ \ NextBatch]
  /\ UNCHANGED <<inputs, at, flags, tier, fresh, runs>>

\* A batch commits: each row is inserted or overwritten.
WriteBatch ==
  /\ Take
  /\ store' = [p \in Pair |-> IF p \in NextBatch THEN tier[Writing][p] ELSE store[p]]
  /\ wrote' = TRUE
  /\ UNCHANGED <<missed, lost>>

\* The transaction of a batch raises: the batch is left behind.
LoseBatch ==
  /\ Take
  /\ lost < MaxLost
  /\ lost' = lost + 1
  /\ missed' = TRUE
  /\ UNCHANGED <<store, wrote>>

\* The phase raises only when nothing at all was written.
EndSearch ==
  /\ at = "persist"
  /\ \A s \in Stage : left[s] = {}
  /\ at' = IF missed /\ ~wrote THEN "failed" ELSE "done"
  /\ UNCHANGED <<inputs, flags, tier, left, wrote, missed, store, fresh, lost, runs>>

\* The process is killed; the phase starts over.
Kill ==
  /\ at \notin {"idle", "done", "failed"}
  /\ at' = "failed"
  /\ flags' = scene.flags
  /\ tier' = [s \in Stage |-> NoRows]
  /\ left' = [s \in Stage |-> {}]
  /\ wrote' = FALSE /\ missed' = FALSE
  /\ UNCHANGED <<inputs, store, fresh, lost, runs>>

CandidateNext ==
  \/ Load \/ DetectKeys \/ Reconcile \/ Generate
  \/ Dedup \/ Bridge \/ Shrink \/ Rank \/ Trim
  \/ WriteBatch \/ LoseBatch \/ EndSearch \/ Kill

CandidateSpec == CandidateInit /\ [][CandidateNext]_candidateVars
-----------------------------------------------------------------------------

(***************************************************************************)
(* In the table itself both directions can be primary, because the lists   *)
(* are deduplicated apart and the second overwrites the first: but only    *)
(* where the index found exactly one of the two directions, whatever the   *)
(* order and the fate of the batches.                                      *)
(***************************************************************************)
OneWayStored ==
  at = "done" /\ fresh /\ ~missed =>
    \A p \in Pair :
      store[p] = "primary" /\ store[Rev(p)] = "primary" =>
        (tier["lsh_search"][p] = "none") # (tier["lsh_search"][Rev(p)] = "none")

(***************************************************************************)
(* With require_parent_pk nothing is primary whose parent has no key, so   *)
(* the gates in front of the passes leave filter_bridge_collisions nothing *)
(* to demote: it spares every parent with a key (candidates.py:1668-1675). *)
(***************************************************************************)
NothingToBridge ==
  [][at = "bridge" /\ at' = "range" /\ strict => UNCHANGED tier]_candidateVars

(***************************************************************************)
(* A recognised role pointer (manager_id, posted_by) survives the ranking: *)
(* found by either search, and not in the other direction as well, it is   *)
(* stored as primary, unless a global cap is set.                          *)
(***************************************************************************)
RolePointersKept ==
  at = "done" /\ ~missed /\ cap = 0 =>
    \A p \in Pair :
      /\ Locked(p)
      /\ \E s \in Stage : tier[s][p] # "none"
      /\ \A s \in Stage : tier[s][Rev(p)] = "none"
      => store[p] = "primary"
=============================================================================
