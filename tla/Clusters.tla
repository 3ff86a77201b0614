------------------------------ MODULE Clusters ------------------------------
(***************************************************************************)
(* The clustering phase (orchestrator.run_phase_clustering): for each      *)
(* schema, read the inventory and the relationships, group the tables      *)
(* (clustering.cluster_schema) and replace the stored clusters of the      *)
(* schema in one transaction.                                              *)
(*                                                                         *)
(* Empty tables get a cluster of their own.  A junction table (narrow,     *)
(* nothing but keys, two parents or more) is taken out of the graph, an    *)
(* edge between its two heaviest parents takes its place, and it joins the *)
(* cluster of the heavier one when the others have been grouped.           *)
(*                                                                         *)
(* Louvain and the similarity of names are external: a grouping is any     *)
(* that stays within the connected components of the graph, and any two    *)
(* groups with an edge between them may be merged.                         *)
(***************************************************************************)
EXTENDS Integers, FiniteSets, SequencesExt

CONSTANTS
  Table,            \* table_id
  SchemaOf,         \* tbl_inventory.schema_name
  Scenes,           \* what the phase may find in the database
  MaxKills,         \* bound: kills, and transactions that raise
  MaxRuns           \* bound: runs of the phase

Schema == {SchemaOf[t] : t \in Table}

Single == {"MANY_TO_ONE", "ONE_TO_ONE"}
Cardinal == Single \cup {"ONE_TO_MANY", "MANY_TO_MANY"}

\* A row of relationships between two tables; sure: its confidence reaches
\* clustering_confidence_floor; weight: what _edge_weight makes of it.
Link == [child : Table, parent : Table, card : Cardinal, weight : Nat, sure : BOOLEAN]

\* present: the rows of tbl_inventory; empty: row_count_estimate is 0 or
\* unknown; slim: at most four columns, keys and audit columns only.
Scene(x) ==
  /\ x = [present |-> x.present, empty |-> x.empty, slim |-> x.slim, link |-> x.link]
  /\ {x.present, x.empty, x.slim} \subseteq SUBSET Table
  /\ x.link \subseteq Link /\ IsFiniteSet(x.link)

ASSUME ClustersAssumption ==
  /\ Table \subseteq Nat \ {0} /\ IsFiniteSet(Table) /\ Table # {}
  /\ DOMAIN SchemaOf = Table
  /\ \A n \in DOMAIN Scenes : Scene(Scenes[n])
  /\ MaxKills \in Nat /\ MaxRuns \in Nat

Kind == {"none", "JUNCTION", "EMPTY", "ENTITY"}

VARIABLES
  now,        \* the scene the database shows
  stage,      \* where run_phase_clustering stands
  todo,       \* schemas it has not visited
  cur,        \* the schema it works on
  junctions,  \* its junction tables
  pending,    \* those not attached yet
  graph,      \* G: its undirected edges
  groups,     \* communities: a sequence of sets of tables
  rows,       \* clusters: per schema the rows by cluster_local_id
  home,       \* tbl_inventory.cluster_id, 0 for NULL
  kind,       \* tbl_inventory.archetype and junction_collapsed
  basis,      \* the scene the stored clusters of a schema were computed from
  serial,     \* the last cluster_id the database gave out
  kills,
  runs

memory == <<todo, cur, junctions, pending, graph, groups>>
stored == <<rows, home, kind, basis, serial>>
bounds == <<kills, runs>>
clusterVars == <<now, stage, memory, stored, bounds>>

ClusterTypeOK ==
  /\ now \in DOMAIN Scenes
  /\ stage \in {"down", "pick", "louvain", "merge", "attach", "store", "done"}
  /\ todo \subseteq Schema /\ cur \in Schema
  /\ pending \subseteq junctions /\ junctions \subseteq Table
  /\ graph \subseteq SUBSET Table /\ groups \in Seq(SUBSET Table)
  /\ rows \in [Schema -> Seq([pk : Nat, tables : SUBSET Table])]
  /\ home \in [Table -> 0 .. serial]
  /\ kind \in [Table -> Kind]
  /\ basis \in [Schema -> DOMAIN Scenes]
  /\ serial \in Nat /\ kills \in 0 .. MaxKills /\ runs \in 0 .. MaxRuns

Idle ==
  /\ todo = {} /\ cur = CHOOSE s \in Schema : TRUE
  /\ junctions = {} /\ pending = {} /\ graph = {} /\ groups = <<>>

ClusterInit ==
  /\ now \in DOMAIN Scenes
  /\ stage = "down" /\ Idle
  /\ rows = [s \in Schema |-> <<>>]
  /\ home = [t \in Table |-> 0] /\ kind = [t \in Table |-> "none"]
  /\ basis = [s \in Schema |-> now]
  /\ serial = 0 /\ kills = 0 /\ runs = 0
-----------------------------------------------------------------------------
(* The graph of a schema. *)

scene == Scenes[now]

Listed(s) == {t \in scene.present : SchemaOf[t] = s}
Full(s) == Listed(s) \ scene.empty
MutantHollow(s) == {}
Hollow(s) == Listed(s) \cap scene.empty

\* The links that count: sure, between two full tables of the schema.
Links(s) ==
  {l \in scene.link : l.sure /\ l.child # l.parent /\ {l.child, l.parent} \subseteq Full(s)}

Weight(L) == MapThenSumSet(LAMBDA l : l.weight, L)

Edge(s, p, c) == {l \in Links(s) : l.parent = p /\ l.child = c}
Parents(s, t) == {l.parent : l \in {m \in Links(s) : m.child = t}}

\* The cardinalities an edge may take: a heaviest group, and the order of
\* the rows breaks ties.
Dominant(s, p, c) ==
  LET Group(k) == {l \in Edge(s, p, c) : l.card = k}
      Present == {k \in Cardinal : Group(k) # {}} IN
  {k \in Present : \A j \in Present : Weight(Group(j)) <= Weight(Group(k))}

Narrow(s) == {t \in Full(s) \cap scene.slim : Cardinality(Parents(s, t)) >= 2}
MayCollapse(s) ==
  {t \in Narrow(s) : \A p \in Parents(s, t) : Dominant(s, p, t) \cap Single # {}}
MustCollapse(s) ==
  {t \in Narrow(s) : \A p \in Parents(s, t) : Dominant(s, p, t) \subseteq Single}

\* The two heaviest parents of a junction, the lower id first among equals.
Heavier(s, t, p, q) ==
  LET w(x) == Weight(Edge(s, x, t)) IN w(p) > w(q) \/ (w(p) = w(q) /\ p < q)
TopTwo(s, t) ==
  {p \in Parents(s, t) :
     Cardinality({q \in Parents(s, t) : Heavier(s, t, q, p)}) < 2}

\* What the edges between two tables weigh once the junctions J are gone.
Plain(s, J, a, b) ==
  IF {a, b} \cap J # {} THEN 0 ELSE Weight(Edge(s, a, b)) + Weight(Edge(s, b, a))
Bridges(s, J, a, b) ==
  IF {a, b} \cap J # {} THEN {} ELSE {j \in J : TopTwo(s, j) = {a, b}}
BridgeWeight(s, j) == LET W == {Weight(Edge(s, p, j)) : p \in TopTwo(s, j)} IN Min(W)

Joined(s, J, a, b) ==
  a # b /\ (Plain(s, J, a, b) > 0 \/ Bridges(s, J, a, b) # {})

Degree(s, J, a) ==
  IF a \in J THEN 0
  ELSE MapThenSumSet(LAMBDA b : Plain(s, J, a, b) + MapThenSumSet(LAMBDA j : BridgeWeight(s, j),
                                                                  Bridges(s, J, a, b)),
                     Full(s) \ {a})

\* The parent a junction follows: of its two, the one of greater degree.
Dominating(s, J, j) ==
  CHOOSE p \in TopTwo(s, j) : \A q \in TopTwo(s, j) \ {p} :
    Degree(s, J, p) > Degree(s, J, q) \/ (Degree(s, J, p) = Degree(s, J, q) /\ p < q)

\* The undirected edges of the graph without the junctions J.
Edges(s, J) ==
  {{p[1], p[2]} : p \in {q \in Full(s) \X Full(s) : Joined(s, J, q[1], q[2])}}

\* The nodes that edges of E lead to from a: those of every set around a that
\* no edge leaves.
Component(E, a) ==
  {b \in Table : \A W \in SUBSET Table :
     a \in W /\ (\A e \in E : e \cap W # {} => e \subseteq W) => b \in W}
-----------------------------------------------------------------------------
(* One run of the phase. *)

\* SELECT DISTINCT schema_name.
StartClustering ==
  /\ stage \in {"down", "done"} /\ runs < MaxRuns
  /\ stage' = "pick" /\ runs' = runs + 1
  /\ todo' = {SchemaOf[t] : t \in scene.present}
  /\ UNCHANGED <<now, cur, junctions, pending, graph, groups, stored, kills>>

\* Read one schema and tag its tables.
Pick ==
  /\ stage = "pick"
  /\ \E s \in todo : \E J \in SUBSET MayCollapse(s) :
       /\ MustCollapse(s) \subseteq J
       /\ cur' = s /\ todo' = todo \ {s}
       /\ junctions' = J /\ pending' = J
  /\ stage' = "louvain"
  /\ UNCHANGED <<now, graph, groups, stored, bounds>>

\* communities.sort: by the smallest member.
Rank(P, a) == Cardinality({b \in P : Min(b) < Min(a)})
Sorted(P) == [i \in 1 .. Cardinality(P) |-> CHOOSE a \in P : Rank(P, a) = i - 1]

\* The partitions of N into sets of nodes that E connects in some way: the
\* map from a node to the least one of its set.
Partitions(N, E) ==
  LET Near == {p \in N \X N : p[1] <= p[2] /\ p[2] \in Component(E, p[1])} IN
  {f \in [N -> N] : \A n \in N : <<f[n], n>> \in Near /\ f[f[n]] = f[n]}

\* louvain_communities on the tables that are not junctions.
Louvain ==
  /\ stage = "louvain"
  /\ graph' = Edges(cur, junctions)
  /\ LET N == Full(cur) \ junctions IN
     \E f \in Partitions(N, graph') :
       groups' = Sorted({{n \in N : f[n] = r} : r \in {f[n] : n \in N}})
  /\ stage' = "merge"
  /\ UNCHANGED <<now, todo, cur, junctions, pending, stored, bounds>>

\* Two groups _semantic_merge may put together.
MutantMergeable(a, b) == TRUE
Mergeable(a, b) == \E e \in graph : e \cap a # {} /\ e \cap b # {}

\* _semantic_merge accepts one more pair.
Merge ==
  /\ stage = "merge"
  /\ \E a, b \in Range(groups) :
       /\ a # b /\ Mergeable(a, b)
       /\ groups' = Sorted((Range(groups) \ {a, b}) \cup {a \cup b})
  /\ UNCHANGED <<now, stage, todo, cur, junctions, pending, graph, stored, bounds>>

Settle ==
  /\ stage = "merge" /\ stage' = "attach"
  /\ UNCHANGED <<now, memory, stored, bounds>>

\* The order in which _collapse_junctions met the junctions.
First ==
  CHOOSE j \in pending : \A k \in pending \ {j} :
    LET low(x) == Min(Parents(cur, x)) IN
    low(j) < low(k) \/ (low(j) = low(k) /\ j < k)

\* Where a junction goes: to the group of its dominating parent, or, when
\* that one has none yet, to a group of its own.
Place(G, j, p) ==
  IF \E i \in DOMAIN G : p \in G[i]
  THEN [i \in DOMAIN G |-> IF p \in G[i] THEN G[i] \cup {j} ELSE G[i]]
  ELSE Append(G, {j})

Attach ==
  /\ stage = "attach" /\ pending # {}
  /\ groups' = Place(groups, First, Dominating(cur, junctions, First))
  /\ pending' = pending \ {First}
  /\ UNCHANGED <<now, stage, todo, cur, junctions, graph, stored, bounds>>

\* The clusters of the schema, the one of its empty tables last.
Clusters == IF Hollow(cur) = {} THEN groups ELSE Append(groups, Hollow(cur))

\* The cluster_id of the i-th cluster, once inserted.
MutantKey(i) == i
MutantNextKey(i) == serial + i + 1
Key(i) == serial + i

\* tbl_inventory after clear_clusters: the tables of other schemas.
Cleared(f, null) == [t \in Table |-> IF SchemaOf[t] = cur THEN null ELSE f[t]]

\* clear_clusters, insert_clusters, update_table_assignments: one transaction.
Store ==
  /\ stage = "attach" /\ pending = {}
  /\ rows' = [rows EXCEPT ![cur] =
       [i \in DOMAIN Clusters |-> [pk |-> serial + i, tables |-> Clusters[i]]]]
  /\ home' = [t \in Table |->
       IF \E i \in DOMAIN Clusters : t \in Clusters[i]
       THEN Key(CHOOSE i \in DOMAIN Clusters : t \in Clusters[i])
       ELSE Cleared(home, 0)[t]]
  /\ kind' = [t \in Table |->
       IF t \in junctions THEN "JUNCTION"
       ELSE IF t \in Hollow(cur) THEN "EMPTY"
       ELSE IF t \in Full(cur) THEN "ENTITY" ELSE Cleared(kind, "none")[t]]
  /\ basis' = [basis EXCEPT ![cur] = now]
  /\ serial' = serial + Len(Clusters)
  /\ stage' = "pick"
  /\ UNCHANGED <<now, memory, bounds>>

EndPhase ==
  /\ stage = "pick" /\ todo = {}
  /\ stage' = "done"
  /\ UNCHANGED <<now, memory, stored, bounds>>

\* A kill, or an exception in a query: what is not committed is lost.
Abort ==
  /\ stage \notin {"down", "done"} /\ kills < MaxKills
  /\ kills' = kills + 1 /\ stage' = "down"
  /\ todo' = {} /\ cur' = CHOOSE s \in Schema : TRUE
  /\ junctions' = {} /\ pending' = {} /\ graph' = {} /\ groups' = <<>>
  /\ UNCHANGED <<now, stored, runs>>

\* Other phases run again: new tables, other row counts and relationships.
Rescan ==
  /\ stage \in {"down", "done"}
  /\ \E n \in DOMAIN Scenes \ {now} :
       scene.present \subseteq Scenes[n].present /\ now' = n
  /\ stage' = "down"
  /\ UNCHANGED <<memory, stored, bounds>>

ClusterNext ==
  \/ StartClustering \/ Pick \/ Louvain \/ Merge \/ Settle \/ Attach \/ Store \/ EndPhase
  \/ Abort \/ Rescan

ClusterSpec == ClusterInit /\ [][ClusterNext]_clusterVars
-----------------------------------------------------------------------------
(* Properties. *)

\* The two records of a cluster agree whatever was killed between two
\* schemas or two runs: a table points to the row that lists it, and no row
\* lists a table that points elsewhere.
StoredAgrees ==
  \A t \in Table :
    LET R == rows[SchemaOf[t]] IN
    /\ home[t] # 0 => \E i \in DOMAIN R : R[i].pk = home[t] /\ t \in R[i].tables
    /\ \A i \in DOMAIN R : t \in R[i].tables => R[i].pk = home[t]

\* Tables of one stored cluster are linked, directly or through others, in
\* the relationships the cluster was made from, or are all empty: neither the
\* merge by names nor the way junctions are put back joins strangers.
NoStrangers ==
  \A s \in Schema : \A i \in DOMAIN rows[s] :
    LET B == Scenes[basis[s]]
        S == rows[s][i].tables
        E == {{l.child, l.parent} : l \in {m \in B.link : m.sure}} IN
    \/ S \subseteq B.empty
    \/ \E a \in S : S \subseteq Component({e \in E : e \cap B.empty = {}}, a)

\* A run that ends leaves no schema as an earlier run left it, and no table
\* without a cluster: the branch that keeps the old clusters of a schema
\* without new ones is never taken.
Replaced ==
  stage = "done" =>
    \A t \in scene.present : home[t] # 0 /\ basis[SchemaOf[t]] = now
=============================================================================
