----------------------------- MODULE MCClusters -----------------------------
(* Instances of Clusters for TLC: a schema of five tables and one of one. *)
EXTENDS Clusters

Tables == 1 .. 6
Schemas == [t \in Tables |-> IF t = 6 THEN "b" ELSE "a"]

L(c, p, k, w) == [child |-> c, parent |-> p, card |-> k, weight |-> w, sure |-> TRUE]
Unsure(c, p) == [child |-> c, parent |-> p, card |-> "MANY_TO_ONE", weight |-> 1, sure |-> FALSE]
ManyToOne(c, p, w) == L(c, p, "MANY_TO_ONE", w)

\* Two pairs, a link between them that is not sure, one across schemas.
Pairs == {ManyToOne(2, 1, 2), ManyToOne(4, 3, 2), Unsure(3, 1), ManyToOne(6, 1, 1)}

MCScenes == <<
  [present |-> {1, 2, 3, 4, 6}, empty |-> {6}, slim |-> {}, link |-> Pairs],
  \* A junction of 1 and 3, by its heaviest cardinality or not.
  [present |-> Tables, empty |-> {4}, slim |-> {5},
   link |-> Pairs \cup {ManyToOne(5, 1, 2), ManyToOne(5, 3, 2), L(5, 3, "MANY_TO_MANY", 2)}],
  \* Junctions of junctions.
  [present |-> Tables, empty |-> {}, slim |-> {1, 2},
   link |-> {ManyToOne(1, 3, 1), ManyToOne(1, 4, 2), ManyToOne(2, 1, 2), ManyToOne(2, 5, 1)}],
  [present |-> Tables, empty |-> {2}, slim |-> {4, 5},
   link |-> {ManyToOne(4, 1, 1), ManyToOne(4, 3, 2), ManyToOne(5, 4, 2), ManyToOne(5, 3, 1),
             ManyToOne(5, 1, 1)}]>>
=============================================================================
