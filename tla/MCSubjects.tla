----------------------------- MODULE MCSubjects -----------------------------
(* Instances of Subjects for TLC. *)
EXTENDS Subjects

CONSTANTS email, iban

Kinds == {email, iban}
Tables == 1 .. 4
TwoSchemas == {{1, 2}, {3, 4}}

Sure(E) == {[child |-> e[1], parent |-> e[2], sure |-> TRUE] : e \in E}
Found(F) == {[table |-> f[1], kind |-> f[2], sure |-> TRUE] : f \in F}

\* Every graph of three tables, and on it an edge that is not sure, a
\* reference of a table to itself and a finding below the floor.
Three == 1 .. 3
Doubtful == {[child |-> 4, parent |-> 1, sure |-> FALSE], [child |-> 1, parent |-> 1, sure |-> TRUE]}
Weak == {[table |-> 3, kind |-> iban, sure |-> FALSE]}
Small ==
  {[link |-> Sure(E) \cup Doubtful, found |-> Found(F) \cup Weak] :
     E \in SUBSET {e \in Three \X Three : e[1] # e[2]},
     F \in {{<<1, email>>}, {<<1, email>>, <<2, iban>>}}}

\* Four tables: a kind that comes late by a longer way, below a table that was
\* tagged before; two cycles; a diamond; nothing found.
Four ==
  {[link |-> Sure(E), found |-> Found(F)] :
     E \in {{<<2, 1>>, <<3, 2>>, <<4, 3>>, <<1, 4>>},
            {<<2, 1>>, <<1, 2>>, <<3, 2>>, <<2, 3>>, <<4, 3>>},
            {<<2, 1>>, <<3, 1>>, <<4, 2>>, <<4, 3>>}},
     F \in {{}, {<<1, email>>}, {<<1, email>>, <<3, iban>>}, {<<2, email>>, <<2, iban>>, <<4, email>>}}}

MCScenes == Small \cup Four
=============================================================================
