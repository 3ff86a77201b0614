---------------------------- MODULE MCCandidates ----------------------------
(* Instances of Candidates for TLC: three columns of three tables. *)
EXTENDS Candidates

Cols == 1 .. 3
Tables == {"a", "b", "c"}
AllPairs == {p \in Cols \X Cols : p[1] # p[2]}

At3(t, n, pk) ==
  [table |-> t, cls |-> "int", distinct |-> n, dense |-> TRUE, full |-> TRUE, pk |-> pk]

Flag(u) == [eligible |-> TRUE, unique |-> u, implicit |-> FALSE]

\* The first two columns alike, the third apart from both.
Mixed(n, m) == [p \in AllPairs |-> IF 3 \in {p[1], p[2]} THEN m ELSE n]

Keys == <<<<FALSE, FALSE, TRUE>>, <<TRUE, FALSE, TRUE>>, <<FALSE, FALSE, FALSE>>>>
Sizes == <<<<10, 50>>, <<100, 100>>, <<10, 10>>>>
Roles == <<{<<1, 3>>}, {<<1, 2>>, <<2, 1>>}>>
Sims == <<Mixed(100, 45), Mixed(20, 70), Mixed(100, 70)>>

\* The second and the third column never share values.
Jaccard == [p \in AllPairs |-> IF p \in {<<2, 3>>, <<3, 2>>} THEN 0 ELSE 100]

\* Which key the columns have, how large the third one is, which names
\* are roles, how alike the names are.
MCScenes ==
  [x \in (1 .. 3) \X (1 .. 3) \X (1 .. 2) \X (1 .. 3) |->
    LET k == Keys[x[1]]  z == Sizes[x[2]] IN
    [col |-> <<At3("a", 10, k[1]), At3("b", 10, k[3]), At3("c", z[1], FALSE)>>,
     flags |-> <<Flag(k[2]), Flag(k[2]), Flag(FALSE)>>,
     bare |-> {2}, refers |-> {<<1, "b">>},
     role |-> Roles[x[3]], outside |-> {}, strangers |-> {<<"a", "c">>},
     sim |-> Sims[x[4]], jaccard |-> Jaccard,
     rows |-> [t \in Tables |-> z[2]]]]
=============================================================================
