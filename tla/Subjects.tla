------------------------------ MODULE Subjects ------------------------------
(***************************************************************************)
(* The propagation of personal data along the relationships                *)
(* (pii_propagation.run_phase_pii_propagation).  A table with a finding of *)
(* a direct identifier is a root; what refers to a tagged table, directly  *)
(* or through others, gets the kinds of its roots and the length of the    *)
(* shortest way to one.                                                    *)
(*                                                                         *)
(* The search is a queue of tables.  A table that got a new kind or a      *)
(* shorter way is queued again, so it may be visited more than once and in *)
(* cycles.  Clearing, reading and writing are one transaction.             *)
(*                                                                         *)
(* Between two runs of the phase another job may reset a schema and change *)
(* what the database shows (Submit).  It cannot do so during a run: the    *)
(* first statement of the transaction locks every row of tbl_inventory,    *)
(* and the reset that deletes rows of it waits and is not seen before.     *)
(***************************************************************************)
EXTENDS Integers, Sequences, FiniteSets

CONSTANTS
  Table,        \* table_id
  Kind,         \* DIRECT_IDENTIFIER_TYPES
  Scenes,       \* what the phase may find in the database
  Schemas,      \* the sets of tables a submission may reset
  MaxFaults,    \* bound: kills and exceptions
  MaxSubmits    \* bound: jobs submitted meanwhile

Absent == -1      \* no entry in distance, NULL in subject_link_distance

\* sure: the confidence of a relationship, or the score of a finding, reaches
\* its floor.
Link == [child : Table, parent : Table, sure : BOOLEAN]
Finding == [table : Table, kind : Kind, sure : BOOLEAN]

ASSUME SubjectsAssumption ==
  /\ IsFiniteSet(Table) /\ Absent \notin Table
  /\ Scenes # {} /\ Scenes \subseteq [link : SUBSET Link, found : SUBSET Finding]
  /\ Schemas \subseteq SUBSET Table
  /\ MaxFaults \in Nat /\ MaxSubmits \in Nat

\* inbound, without references of a table to itself.
Inbound(x, p) == {c \in Table \ {p} : [child |-> c, parent |-> p, sure |-> TRUE] \in x.link}

\* roots: what was found in the table itself.
Roots(x, t) == {k \in Kind : [table |-> t, kind |-> k, sure |-> TRUE] \in x.found}

VARIABLES
  db,           \* the scene the database shows
  tags,         \* tbl_inventory.subject_kinds, {} for NULL
  far,          \* tbl_inventory.subject_link_distance
  fresh,        \* history: nothing changed since tags and far were written
  step,         \* where run_phase_pii_propagation stands
  labels,       \* labels, {} for no entry
  distance,     \* distance
  queue,        \* queue
  cur,          \* t: the table in whose inbound edges the loop is
  left,         \* its children the loop has not come to
  faults, submits

stored == <<db, tags, far, fresh>>
bounds == <<faults, submits>>
vars == <<stored, step, labels, distance, queue, cur, left, bounds>>

Blank == [t \in Table |-> {}]
Nowhere == [t \in Table |-> Absent]

TypeOK ==
  /\ db \in Scenes /\ fresh \in BOOLEAN
  /\ tags \in [Table -> SUBSET Kind] /\ far \in [Table -> Nat \cup {Absent}]
  /\ step \in {"down", "pop", "visit"}
  /\ labels \in [Table -> SUBSET Kind] /\ distance \in [Table -> Nat \cup {Absent}]
  /\ queue \in Seq(Table) /\ cur \in Table \cup {Absent} /\ left \subseteq Table
  /\ step = "visit" => cur \in Table
  /\ faults \in 0 .. MaxFaults /\ submits \in 0 .. MaxSubmits

Init ==
  /\ db \in Scenes /\ fresh = FALSE /\ tags = Blank /\ far = Nowhere
  /\ step = "down" /\ labels = Blank /\ distance = Nowhere
  /\ queue = <<>> /\ cur = Absent /\ left = {}
  /\ faults = 0 /\ submits = 0

\* The end of a run, in whatever way: what it had in memory is gone.
Stop ==
  /\ step' = "down" /\ labels' = Blank /\ distance' = Nowhere
  /\ queue' = <<>> /\ cur' = Absent /\ left' = {}
-----------------------------------------------------------------------------
(* The phase. *)

RootTables == {t \in Table : Roots(db, t) # {}}

\* The roots, in the order in which the findings happen to come.
Orders ==
  LET n == Cardinality(RootTables) IN
  {q \in [1 .. n -> RootTables] : \A t \in RootTables : \E i \in 1 .. n : q[i] = t}

\* Called by run-all, or by 'discovery propagate-pii'.
MutantLaunch ==
  /\ step = "down" /\ tags = Blank
  /\ labels' = [t \in Table |-> Roots(db, t)]
  /\ distance' = [t \in Table |-> IF Roots(db, t) = {} THEN Absent ELSE 0]
  /\ queue' \in Orders
  /\ step' = "pop"
  /\ UNCHANGED <<stored, cur, left, bounds>>
Launch ==
  /\ step = "down"
  /\ labels' = [t \in Table |-> Roots(db, t)]
  /\ distance' = [t \in Table |-> IF Roots(db, t) = {} THEN Absent ELSE 0]
  /\ queue' \in Orders
  /\ step' = "pop"
  /\ UNCHANGED <<stored, cur, left, bounds>>

Pop ==
  /\ step = "pop" /\ queue # <<>>
  /\ cur' = Head(queue) /\ queue' = Tail(queue)
  /\ left' = Inbound(db, Head(queue))
  /\ step' = "visit"
  /\ UNCHANGED <<stored, labels, distance, bounds>>

Shorter(c) == distance[c] = Absent \/ distance[cur] + 1 < distance[c]

\* Whether what is known of c changes, so that its children must hear of it.
MutantChanges(c) == Shorter(c)
Changes(c) == Shorter(c) \/ ~(labels[cur] \subseteq labels[c])

Visit(c) ==
  /\ step = "visit" /\ c \in left
  /\ labels' = [labels EXCEPT ![c] = @ \cup labels[cur]]
  /\ distance' = [distance EXCEPT ![c] = IF Shorter(c) THEN distance[cur] + 1 ELSE @]
  /\ queue' = IF Changes(c) THEN Append(queue, c) ELSE queue
  /\ left' = left \ {c}
  /\ UNCHANGED <<stored, step, cur, bounds>>

Visited ==
  /\ step = "visit" /\ left = {}
  /\ step' = "pop"
  /\ UNCHANGED <<stored, labels, distance, queue, cur, left, bounds>>

\* The first and the last statements of the transaction: all tags are
\* cleared, and those of the search are written.
Persist ==
  /\ step = "pop" /\ queue = <<>>
  /\ tags' = [t \in Table |-> IF distance[t] = Absent THEN {} ELSE labels[t]]
  /\ far' = distance
  /\ fresh' = TRUE
  /\ Stop
  /\ UNCHANGED <<db, bounds>>

\* A kill, or an exception in a statement: the transaction is rolled back.
Abort ==
  /\ step # "down" /\ faults < MaxFaults
  /\ faults' = faults + 1
  /\ Stop
  /\ UNCHANGED <<stored, submits>>
-----------------------------------------------------------------------------
(* The other jobs. *)

\* A submission deletes the tables S of its schema, and its run inventories
\* them again, without tags, and finds what it finds; the tables of other
\* schemas keep their tags.
Submit(S, x) ==
  /\ step = "down" /\ submits < MaxSubmits
  /\ submits' = submits + 1
  /\ tags' = [t \in Table |-> IF t \in S THEN {} ELSE tags[t]]
  /\ far' = [t \in Table |-> IF t \in S THEN Absent ELSE far[t]]
  /\ db' = x
  /\ fresh' = FALSE
  /\ UNCHANGED <<step, labels, distance, queue, cur, left, faults>>

Next ==
  \/ Launch \/ Pop \/ Visited \/ Persist \/ Abort
  \/ \E c \in Table : Visit(c)
  \/ \E S \in Schemas, x \in Scenes : Submit(S, x)

Spec == Init /\ [][Next]_vars

\* The phase goes on, and is called again after a submission or a failure.
FairSpec ==
  Spec /\ WF_vars(Launch \/ Pop \/ Visited \/ Persist \/ \E c \in Table : Visit(c))
-----------------------------------------------------------------------------
(* Properties. *)

\* The tables that refer to a table of S, directly or through others, S
\* included: what every set has that contains S and all that refers to it.
Closed(x, X) == \A p \in X : Inbound(x, p) \subseteq X
Reaching(x, S) ==
  {t \in Table : \A X \in SUBSET Table : S \subseteq X /\ Closed(x, X) => t \in X}

(***************************************************************************)
(* What the last run wrote is the closure it promises, whatever the order  *)
(* of the findings and edges, the cycles, and the tags of earlier runs: a  *)
(* kind is a tag of the tables that reach a root of it and of no others,   *)
(* and the distance is that of the nearest root: 0 for roots, and for each *)
(* other table one more than the least of the tables it refers to.         *)
(***************************************************************************)
KindsAreClosure(x, L) ==
  \A k \in Kind :
    {t \in Table : k \in L[t]} = Reaching(x, {t \in Table : k \in Roots(x, t)})
NearestRoot(x, D) ==
  \A t \in Table :
    /\ D[t] = 0 <=> Roots(x, t) # {}
    /\ D[t] > 0 => \E p \in Table : t \in Inbound(x, p) /\ D[p] = D[t] - 1
    /\ D[t] # Absent => \A c \in Inbound(x, t) : D[c] # Absent /\ D[c] <= D[t] + 1
TagsAreClosure == fresh => KindsAreClosure(db, tags) /\ NearestRoot(db, far)

(***************************************************************************)
(* The search ends, on graphs with cycles too, and the tags catch up with  *)
(* the database after the last submission and failure.                     *)
(***************************************************************************)
EventuallyFresh == <>[]fresh
=============================================================================
