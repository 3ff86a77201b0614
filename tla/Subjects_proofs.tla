--------------------------- MODULE Subjects_proofs ---------------------------
(***************************************************************************)
(* Theorems about Subjects, for any tables, kinds, relationships, findings *)
(* and schemas, and any number of failures and submissions.                *)
(*                                                                         *)
(* The argument.  While the search runs, what it knows of a table is known *)
(* to its children, except for tables that are queued and for children the *)
(* loop has not come to (Covered); it knows the roots (Rooted); a kind is  *)
(* only where every closed set that has its roots has the table (Founded); *)
(* and a distance is founded on a smaller one (Linked).  When the queue is *)
(* empty nothing is excepted any more: the tables with a kind are a closed *)
(* set that has its roots, hence all that reach them, and by Founded they  *)
(* are no others.                                                          *)
(***************************************************************************)
EXTENDS Subjects, FiniteSetTheorems, TLAPS

InQueue(t) == \E i \in 1 .. Len(queue) : queue[i] = t
Ahead(t, c) == step = "visit" /\ cur = t /\ c \in left

Known == \A t \in Table : distance[t] = Absent <=> labels[t] = {}
Covered ==
  \A t \in Table : \A c \in Inbound(db, t) :
    labels[t] # {} /\ ~InQueue(t) /\ ~Ahead(t, c) =>
      labels[t] \subseteq labels[c] /\ distance[c] <= distance[t] + 1
Rooted == \A t \in Table :
  Roots(db, t) \subseteq labels[t] /\ (distance[t] = 0 <=> Roots(db, t) # {})
Founded ==
  \A k \in Kind, X \in SUBSET Table :
    {t \in Table : k \in Roots(db, t)} \subseteq X /\ Closed(db, X) =>
      \A t \in Table : k \in labels[t] => t \in X
Linked == \A t \in Table : distance[t] > 0 =>
  \E p \in Table : t \in Inbound(db, p) /\ distance[p] # Absent /\ distance[p] < distance[t]
Reached == \A i \in 1 .. Len(queue) : labels[queue[i]] # {}
Visiting == step = "visit" => cur \in Table /\ labels[cur] # {} /\ left \subseteq Inbound(db, cur)

Search == Known /\ Covered /\ Rooted /\ Founded /\ Linked /\ Reached /\ Visiting
IInv == TypeOK /\ (step # "down" => Search) /\ TagsAreClosure
-----------------------------------------------------------------------------
LEMMA Shapes ==
  ASSUME NEW x, NEW t \in Table
  PROVE  /\ Inbound(x, t) \subseteq Table /\ t \notin Inbound(x, t)
         /\ Roots(x, t) \subseteq Kind
BY DEF Inbound, Roots

\* An order of the roots is a queue of them all, and of nothing else.
LEMMA OrdersList ==
  ASSUME NEW q \in Orders
  PROVE  /\ q \in Seq(Table)
         /\ \A t \in RootTables : \E i \in 1 .. Len(q) : q[i] = t
         /\ \A i \in 1 .. Len(q) : q[i] \in RootTables
<1>1. RootTables \subseteq Table BY DEF RootTables
<1>2. IsFiniteSet(RootTables) BY <1>1, SubjectsAssumption, FS_Subset
<1>3. Cardinality(RootTables) \in Nat BY <1>2, FS_CardinalityType
<1>4. q \in [1 .. Cardinality(RootTables) -> RootTables] BY DEF Orders
<1>5. q \in Seq(RootTables) /\ Len(q) = Cardinality(RootTables) BY <1>3, <1>4
<1>6. \A t \in RootTables : \E i \in 1 .. Cardinality(RootTables) : q[i] = t BY DEF Orders
<1> QED BY <1>1, <1>4, <1>5, <1>6

(***************************************************************************)
(* Every variable keeps its type.                                          *)
(***************************************************************************)
LEMMA TypeInit == Init => TypeOK
<1> SUFFICES ASSUME Init PROVE TypeOK OBVIOUS
<1>1. Blank \in [Table -> SUBSET Kind] BY DEF Blank
<1>2. Nowhere \in [Table -> Nat \cup {Absent}] BY DEF Nowhere
<1>3. 0 \in 0 .. MaxFaults /\ 0 \in 0 .. MaxSubmits BY SubjectsAssumption
<1>4. <<>> \in Seq(Table) OBVIOUS
<1>5. /\ db \in Scenes /\ fresh \in BOOLEAN /\ step \in {"down", "pop", "visit"}
      /\ queue \in Seq(Table) /\ cur \in Table \cup {Absent} /\ left \subseteq Table
      /\ step = "visit" => cur \in Table
  BY <1>4 DEF Init
<1>6. /\ tags \in [Table -> SUBSET Kind] /\ far \in [Table -> Nat \cup {Absent}]
      /\ labels \in [Table -> SUBSET Kind] /\ distance \in [Table -> Nat \cup {Absent}]
  BY <1>1, <1>2 DEF Init
<1>7. faults \in 0 .. MaxFaults /\ submits \in 0 .. MaxSubmits BY <1>3 DEF Init
<1> QED BY <1>5, <1>6, <1>7 DEF TypeOK

LEMMA TypeStep == TypeOK /\ [Next]_vars => TypeOK'
<1> SUFFICES ASSUME TypeOK, [Next]_vars PROVE TypeOK' OBVIOUS
<1> USE DEF TypeOK, stored, bounds
<1>0. /\ Blank \in [Table -> SUBSET Kind] /\ Nowhere \in [Table -> Nat \cup {Absent}]
      /\ <<>> \in Seq(Table)
  BY DEF Blank, Nowhere
<1>1. CASE Launch
  <2>1. [t \in Table |-> Roots(db, t)] \in [Table -> SUBSET Kind] BY Shapes
  <2>2. [t \in Table |-> IF Roots(db, t) = {} THEN Absent ELSE 0] \in [Table -> Nat \cup {Absent}]
    OBVIOUS
  <2>3. queue' \in Seq(Table) BY <1>1, OrdersList DEF Launch
  <2>4. /\ db' \in Scenes /\ fresh' \in BOOLEAN /\ tags' \in [Table -> SUBSET Kind]
        /\ far' \in [Table -> Nat \cup {Absent}] /\ step' = "pop"
        /\ cur' \in Table \cup {Absent} /\ left' \subseteq Table
        /\ faults' \in 0 .. MaxFaults /\ submits' \in 0 .. MaxSubmits
    BY <1>1 DEF Launch
  <2>5. labels' \in [Table -> SUBSET Kind] /\ distance' \in [Table -> Nat \cup {Absent}]
    BY <1>1, <2>1, <2>2, Zenon DEF Launch
  <2> QED BY <2>3, <2>4, <2>5
<1>2. CASE Pop
  <2>1. Head(queue) \in Table /\ Tail(queue) \in Seq(Table) BY <1>2 DEF Pop
  <2>2. Inbound(db, Head(queue)) \subseteq Table BY <2>1, Shapes
  <2> QED BY <1>2, <2>1, <2>2 DEF Pop
<1>3. ASSUME NEW c \in Table, Visit(c) PROVE TypeOK'
  <2>1. cur \in Table BY <1>3 DEF Visit
  <2>2. labels' \in [Table -> SUBSET Kind] BY <1>3, <2>1 DEF Visit
  <2>3. distance[cur] + 1 \in Nat BY <2>1 DEF Absent
  <2>4. distance' \in [Table -> Nat \cup {Absent}] BY <1>3, <2>3 DEF Visit
  <2>5. queue' \in Seq(Table) BY <1>3 DEF Visit
  <2> QED BY <1>3, <2>2, <2>4, <2>5 DEF Visit
<1>4. CASE Visited BY <1>4 DEF Visited
<1>5. CASE Persist BY <1>5, <1>0 DEF Persist, Stop
<1>6. CASE Abort BY <1>6, <1>0, SubjectsAssumption DEF Abort, Stop
<1>7. ASSUME NEW S \in Schemas, NEW x \in Scenes, Submit(S, x) PROVE TypeOK'
  <2>1. /\ [t \in Table |-> IF t \in S THEN {} ELSE tags[t]] \in [Table -> SUBSET Kind]
        /\ [t \in Table |-> IF t \in S THEN Absent ELSE far[t]] \in [Table -> Nat \cup {Absent}]
    OBVIOUS
  <2>2. submits' \in 0 .. MaxSubmits BY <1>7, SubjectsAssumption DEF Submit
  <2> QED BY <1>7, <2>1, <2>2 DEF Submit
<1>8. CASE UNCHANGED vars BY <1>8 DEF vars
<1> QED BY <1>1, <1>2, <1>3, <1>4, <1>5, <1>6, <1>7, <1>8 DEF Next

(***************************************************************************)
(* Every variable keeps its type, whatever the queue, failures and jobs.   *)
(***************************************************************************)
THEOREM TypeCorrect == Spec => []TypeOK
BY TypeInit, TypeStep, PTL DEF Spec
-----------------------------------------------------------------------------
\* What a search is when it begins: every table with a kind is queued.
LEMMA LaunchSearch == TypeOK /\ Launch => Search'
<1> SUFFICES ASSUME TypeOK, Launch PROVE Search' OBVIOUS
<1> USE DEF Launch, stored
<1>1. db' = db /\ step' = "pop" OBVIOUS
<1>2. \A t \in Table : labels'[t] = Roots(db, t) OBVIOUS
<1>3. \A t \in Table : distance'[t] = IF Roots(db, t) = {} THEN Absent ELSE 0 OBVIOUS
<1>4. /\ \A t \in RootTables : \E i \in 1 .. Len(queue') : queue'[i] = t
      /\ \A i \in 1 .. Len(queue') : queue'[i] \in RootTables
  BY OrdersList
<1>5. Known' BY <1>2, <1>3 DEF Known, Absent
<1>6. Covered' BY <1>1, <1>2, <1>4 DEF Covered, InQueue, RootTables
<1>7. Rooted' BY <1>1, <1>2, <1>3 DEF Rooted, Absent
<1>8. Founded' BY <1>1, <1>2, Shapes DEF Founded
<1>9. Linked' BY <1>3 DEF Linked, Absent
<1>10. Reached' BY <1>2, <1>4 DEF Reached, RootTables
<1>11. Visiting' BY <1>1 DEF Visiting
<1> QED BY <1>5, <1>6, <1>7, <1>8, <1>9, <1>10, <1>11 DEF Search

\* The head leaves the queue, and all its children are ahead.
LEMMA PopSearch == TypeOK /\ Search /\ Pop => Search'
<1> SUFFICES ASSUME TypeOK, Search, Pop PROVE Search' OBVIOUS
<1> USE DEF Search, Pop, stored
<1>1. /\ db' = db /\ labels' = labels /\ distance' = distance /\ step = "pop" /\ step' = "visit"
      /\ cur' = Head(queue) /\ queue' = Tail(queue) /\ left' = Inbound(db, cur')
  OBVIOUS
<1>2. /\ Len(queue) \in Nat \ {0} /\ cur' = queue[1] /\ cur' \in Table
      /\ Len(queue') = Len(queue) - 1
      /\ \A i \in 1 .. Len(queue') : queue'[i] = queue[i + 1]
  BY DEF TypeOK
<1>3. \A t : InQueue(t) => t = cur' \/ InQueue(t)'
  <2> SUFFICES ASSUME NEW t, NEW i \in 1 .. Len(queue), queue[i] = t, t # cur'
               PROVE  InQueue(t)'
    BY DEF InQueue
  <2>1. i - 1 \in 1 .. Len(queue') /\ queue'[i - 1] = t BY <1>2
  <2> QED BY <2>1 DEF InQueue
<1>4. Covered'
  <2> SUFFICES ASSUME NEW t \in Table, NEW c \in Inbound(db, t),
                      labels[t] # {}, ~InQueue(t)', ~Ahead(t, c)'
               PROVE  labels[t] \subseteq labels[c] /\ distance[c] <= distance[t] + 1
    BY <1>1 DEF Covered
  <2>1. t # cur' BY <1>1 DEF Ahead
  <2>2. ~InQueue(t) BY <2>1, <1>3
  <2>3. ~Ahead(t, c) BY <1>1 DEF Ahead
  <2> QED BY <2>2, <2>3 DEF Covered
<1>5. Reached'
  <2> SUFFICES ASSUME NEW i \in 1 .. Len(queue') PROVE labels'[queue'[i]] # {}
    BY DEF Reached
  <2>1. i + 1 \in 1 .. Len(queue) /\ queue'[i] = queue[i + 1] BY <1>2
  <2> QED BY <2>1, <1>1 DEF Reached
<1>6. Visiting'
  <2>1. 1 \in 1 .. Len(queue) BY <1>2
  <2>2. labels[cur'] # {} BY <2>1, <1>2 DEF Reached
  <2> QED BY <2>2, <1>1, <1>2 DEF Visiting
<1>7. Known' BY <1>1 DEF Known
<1>8. Rooted' BY <1>1 DEF Rooted
<1>9. Founded' BY <1>1 DEF Founded
<1>10. Linked' BY <1>1 DEF Linked
<1> QED BY <1>4, <1>5, <1>6, <1>7, <1>8, <1>9, <1>10

\* When all its children were visited, nothing is excepted for cur any more.
LEMMA VisitedSearch == TypeOK /\ Search /\ Visited => Search'
<1> SUFFICES ASSUME TypeOK, Search, Visited PROVE Search' OBVIOUS
<1> USE DEF Search, Visited, stored
<1>1. /\ db' = db /\ labels' = labels /\ distance' = distance /\ queue' = queue
      /\ left = {} /\ step' = "pop"
  OBVIOUS
<1>2. \A t : InQueue(t)' <=> InQueue(t) BY <1>1 DEF InQueue
<1>3. Covered' BY <1>1, <1>2 DEF Covered, Ahead
<1>4. Known' BY <1>1 DEF Known
<1>5. Rooted' BY <1>1 DEF Rooted
<1>6. Founded' BY <1>1 DEF Founded
<1>7. Linked' BY <1>1 DEF Linked
<1>8. Reached' BY <1>1 DEF Reached
<1>9. Visiting' BY <1>1 DEF Visiting
<1> QED BY <1>3, <1>4, <1>5, <1>6, <1>7, <1>8, <1>9

\* A child learns what cur knows; if that is news, it is queued.
LEMMA VisitSearch == ASSUME NEW c \in Table PROVE TypeOK /\ Search /\ Visit(c) => Search'
<1> SUFFICES ASSUME TypeOK, Search, Visit(c) PROVE Search' OBVIOUS
<1> USE DEF Search
<1>1. /\ db' = db /\ step = "visit" /\ step' = step /\ cur' = cur
      /\ c \in left /\ left' = left \ {c}
  BY DEF Visit, stored
<1>2. /\ cur \in Table /\ c \in Inbound(db, cur) /\ c # cur /\ labels[cur] # {}
      /\ left \subseteq Inbound(db, cur)
  BY <1>1, Shapes DEF Visiting
<1>3. \A t \in Table : labels'[t] = IF t = c THEN labels[c] \cup labels[cur] ELSE labels[t]
  BY DEF Visit, TypeOK
<1>4. \A t \in Table :
        distance'[t] = IF t = c /\ Shorter(c) THEN distance[cur] + 1 ELSE distance[t]
  BY DEF Visit, TypeOK
<1>5. /\ \A t \in Table : distance[t] \in Nat \/ distance[t] = -1
      /\ Absent = -1 /\ distance[cur] \in Nat
  BY <1>2 DEF TypeOK, Known, Absent
<1>6. \A t \in Table : distance[t] # Absent =>
        distance'[t] # Absent /\ distance'[t] <= distance[t]
  BY <1>4, <1>5 DEF Shorter
<1>7. distance'[c] # Absent /\ distance'[c] <= distance[cur] + 1
  BY <1>4, <1>5 DEF Shorter
<1>8. /\ \A t : InQueue(t) => InQueue(t)'
      /\ Changes(c) => InQueue(c)'
      /\ \A i \in 1 .. Len(queue') : queue'[i] = c \/ \E j \in 1 .. Len(queue) : queue[j] = queue'[i]
  <2>1. CASE ~Changes(c)
    <3>1. queue' = queue BY <2>1 DEF Visit
    <3> QED BY <2>1, <3>1 DEF InQueue
  <2>2. CASE Changes(c)
    <3>1. queue' = Append(queue, c) BY <2>2 DEF Visit
    <3>2. /\ Len(queue) \in Nat /\ Len(queue') = Len(queue) + 1 /\ queue'[Len(queue')] = c
          /\ \A i \in 1 .. Len(queue) : queue'[i] = queue[i]
      BY <3>1 DEF TypeOK
    <3> QED BY <3>2 DEF InQueue
  <2> QED BY <2>1, <2>2
<1>9. Known'
  <2> SUFFICES ASSUME NEW t \in Table PROVE distance'[t] = Absent <=> labels'[t] = {}
    BY DEF Known, Absent
  <2>1. CASE t = c BY <2>1, <1>2, <1>3, <1>7
  <2>2. CASE t # c BY <2>2, <1>3, <1>4 DEF Known
  <2> QED BY <2>1, <2>2
<1>10. Covered'
  <2> SUFFICES ASSUME NEW t \in Table, NEW d \in Inbound(db, t),
                      labels'[t] # {}, ~InQueue(t)', ~Ahead(t, d)'
               PROVE  labels'[t] \subseteq labels'[d] /\ distance'[d] <= distance'[t] + 1
    BY <1>1 DEF Covered
  <2>0. d \in Table BY Shapes
  <2>1. labels'[t] = labels[t] /\ distance'[t] = distance[t]
    BY <1>3, <1>4, <1>8 DEF Changes
  <2>2. CASE Ahead(t, d)
    <3>1. t = cur /\ d = c BY <2>2, <1>1 DEF Ahead
    <3> QED BY <3>1, <2>1, <1>3, <1>7
  <2>3. CASE ~Ahead(t, d)
    <3>1. labels[t] \subseteq labels[d] /\ distance[d] <= distance[t] + 1
      BY <2>1, <2>3, <1>8 DEF Covered
    <3>2. labels[d] \subseteq labels'[d] BY <2>0, <1>3
    <3>3. distance[d] # Absent BY <2>0, <2>1, <3>1 DEF Known
    <3>4. distance'[d] <= distance[d] BY <2>0, <3>3, <1>6
    <3>5. /\ distance'[d] \in Int /\ distance[d] \in Int /\ distance[t] \in Int
      BY <2>0, <1>4, <1>5
    <3> QED BY <2>1, <3>1, <3>2, <3>4, <3>5
  <2> QED BY <2>2, <2>3
<1>11. Rooted'
  <2> SUFFICES ASSUME NEW t \in Table
               PROVE  Roots(db, t) \subseteq labels'[t] /\ (distance'[t] = 0 <=> Roots(db, t) # {})
    BY <1>1 DEF Rooted
  <2>1. labels[t] \subseteq labels'[t] BY <1>3
  <2>2. distance'[t] = 0 <=> distance[t] = 0 BY <1>4, <1>5 DEF Shorter
  <2> QED BY <2>1, <2>2 DEF Rooted
<1>12. Founded'
  <2> SUFFICES ASSUME NEW k \in Kind, NEW X \in SUBSET Table,
                      {t \in Table : k \in Roots(db, t)} \subseteq X, Closed(db, X),
                      NEW t \in Table, k \in labels'[t]
               PROVE  t \in X
    BY <1>1 DEF Founded
  <2>1. \A u \in Table : k \in labels[u] => u \in X BY DEF Founded
  <2>2. CASE k \in labels[t] BY <2>1, <2>2
  <2>3. CASE t = c /\ k \in labels[cur] BY <2>1, <2>3, <1>2 DEF Closed
  <2> QED BY <2>2, <2>3, <1>3
<1>13. Linked'
  <2> SUFFICES ASSUME NEW t \in Table, distance'[t] > 0
               PROVE  \E p \in Table : /\ t \in Inbound(db, p)
                                       /\ distance'[p] # Absent /\ distance'[p] < distance'[t]
    BY <1>1 DEF Linked, Absent
  <2>1. CASE t = c /\ Shorter(c)
    <3>1. distance'[cur] = distance[cur] /\ distance'[t] = distance[cur] + 1
      BY <2>1, <1>2, <1>4
    <3> QED BY <2>1, <3>1, <1>2, <1>5
  <2>2. CASE ~(t = c /\ Shorter(c))
    <3>1. distance'[t] = distance[t] BY <2>2, <1>4
    <3>2. PICK p \in Table : t \in Inbound(db, p) /\ distance[p] # Absent /\ distance[p] < distance[t]
      BY <3>1 DEF Linked
    <3>3. distance'[p] # Absent /\ distance'[p] <= distance[p] BY <3>2, <1>6
    <3>4. distance'[p] \in Int /\ distance[p] \in Int /\ distance[t] \in Int BY <1>4, <1>5
    <3> QED BY <3>1, <3>2, <3>3, <3>4
  <2> QED BY <2>1, <2>2
<1>14. Reached'
  <2> SUFFICES ASSUME NEW i \in 1 .. Len(queue') PROVE labels'[queue'[i]] # {} BY DEF Reached
  <2>1. CASE queue'[i] = c BY <2>1, <1>2, <1>3
  <2>2. CASE queue'[i] # c
    <3>1. PICK j \in 1 .. Len(queue) : queue[j] = queue'[i] BY <2>2, <1>8
    <3>2. queue[j] \in Table BY DEF TypeOK
    <3> QED BY <3>1, <3>2, <1>3 DEF Reached
  <2> QED BY <2>1, <2>2
<1>15. Visiting' BY <1>1, <1>2, <1>3 DEF Visiting
<1> QED BY <1>9, <1>10, <1>11, <1>12, <1>13, <1>14, <1>15

\* An empty queue: the tags are the closure.
LEMMA PersistClosure == TypeOK /\ Search /\ Persist => TagsAreClosure'
<1> SUFFICES ASSUME TypeOK, Search, Persist
             PROVE  KindsAreClosure(db, tags') /\ NearestRoot(db, far')
  BY DEF TagsAreClosure, Persist
<1> USE DEF Search
<1>1. \A t \in Table : \A c \in Inbound(db, t) :
        labels[t] # {} => labels[t] \subseteq labels[c] /\ distance[c] <= distance[t] + 1
  BY DEF Covered, InQueue, Ahead, Persist
<1>2. \A t \in Table : tags'[t] = labels[t] BY DEF Persist, Known
<1>3. far' = distance BY DEF Persist
<1>4. KindsAreClosure(db, tags')
  <2> SUFFICES ASSUME NEW k \in Kind
               PROVE  {t \in Table : k \in tags'[t]} =
                        Reaching(db, {t \in Table : k \in Roots(db, t)})
    BY DEF KindsAreClosure
  <2> DEFINE X == {t \in Table : k \in labels[t]}
             R == {t \in Table : k \in Roots(db, t)}
  <2>1. X \in SUBSET Table /\ R \subseteq X BY DEF Rooted
  <2>2. Closed(db, X)
    <3> SUFFICES ASSUME NEW p \in X, NEW c \in Inbound(db, p) PROVE c \in X BY DEF Closed
    <3>1. c \in Table BY Shapes
    <3> QED BY <3>1, <1>1
  <2>3. Reaching(db, R) \subseteq X BY <2>1, <2>2 DEF Reaching
  <2>4. X \subseteq Reaching(db, R)
    <3> SUFFICES ASSUME NEW t \in X, NEW Y \in SUBSET Table, R \subseteq Y, Closed(db, Y)
                 PROVE  t \in Y
      BY DEF Reaching
    <3> QED BY DEF Founded
  <2>5. {t \in Table : k \in tags'[t]} = X BY <1>2
  <2> QED BY <2>3, <2>4, <2>5
<1>5. NearestRoot(db, far')
  <2> SUFFICES ASSUME NEW t \in Table
               PROVE  /\ distance[t] = 0 <=> Roots(db, t) # {}
                      /\ distance[t] > 0 =>
                           \E p \in Table : t \in Inbound(db, p) /\ distance[p] = distance[t] - 1
                      /\ distance[t] # Absent =>
                           \A c \in Inbound(db, t) :
                             distance[c] # Absent /\ distance[c] <= distance[t] + 1
    BY <1>3 DEF NearestRoot
  <2>1. distance[t] = 0 <=> Roots(db, t) # {} BY DEF Rooted
  <2>2. ASSUME distance[t] > 0
        PROVE  \E p \in Table : t \in Inbound(db, p) /\ distance[p] = distance[t] - 1
    <3>1. PICK p \in Table : t \in Inbound(db, p) /\ distance[p] # Absent /\ distance[p] < distance[t]
      BY <2>2 DEF Linked
    <3>2. distance[t] <= distance[p] + 1 BY <3>1, <1>1 DEF Known
    <3>3. distance[p] \in Int /\ distance[t] \in Int BY DEF TypeOK, Absent
    <3> QED BY <3>1, <3>2, <3>3
  <2>3. ASSUME distance[t] # Absent, NEW c \in Inbound(db, t)
        PROVE  distance[c] # Absent /\ distance[c] <= distance[t] + 1
    <3>1. c \in Table /\ labels[t] # {} BY <2>3, Shapes DEF Known
    <3> QED BY <3>1, <1>1 DEF Known
  <2> QED BY <2>1, <2>2, <2>3
<1> QED BY <1>4, <1>5

LEMMA InitInv == Init => IInv
BY TypeInit DEF Init, IInv, TagsAreClosure

LEMMA StepInv == IInv /\ [Next]_vars => IInv'
<1> SUFFICES ASSUME IInv, [Next]_vars PROVE IInv' OBVIOUS
<1>0. /\ TypeOK /\ TagsAreClosure /\ TypeOK'
      /\ step # "down" => Search
  BY TypeStep DEF IInv
<1>1. UNCHANGED stored => TagsAreClosure' BY <1>0 DEF TagsAreClosure, stored
<1>2. CASE Launch BY <1>0, <1>1, <1>2, LaunchSearch DEF Launch, IInv
<1>3. CASE Pop BY <1>0, <1>1, <1>3, PopSearch DEF Pop, IInv
<1>4. ASSUME NEW c \in Table, Visit(c) PROVE IInv'
  BY <1>0, <1>1, <1>4, VisitSearch DEF Visit, IInv
<1>5. CASE Visited BY <1>0, <1>1, <1>5, VisitedSearch DEF Visited, IInv
<1>6. CASE Persist BY <1>0, <1>6, PersistClosure DEF Persist, Stop, IInv
<1>7. CASE Abort BY <1>0, <1>1, <1>7 DEF Abort, Stop, IInv
<1>8. ASSUME NEW S \in Schemas, NEW x \in Scenes, Submit(S, x) PROVE IInv'
  BY <1>0, <1>8 DEF Submit, TagsAreClosure, IInv
<1>9. CASE UNCHANGED vars
  <2>1. Search => Search'
    BY <1>9 DEF vars, stored, Search, Known, Covered, Rooted, Founded, Linked, Reached,
                Visiting, InQueue, Ahead
  <2> QED BY <1>0, <1>1, <1>9, <2>1 DEF vars, IInv
<1> QED BY <1>2, <1>3, <1>4, <1>5, <1>6, <1>7, <1>8, <1>9 DEF Next

(***************************************************************************)
(* The tags of a run are the closure of the roots over the relationships,  *)
(* and the distances those of the nearest roots, for any graph, any order  *)
(* of the queue, and whatever earlier runs and other schemas left behind.  *)
(***************************************************************************)
THEOREM TagsAreClosureHolds == Spec => []TagsAreClosure
<1>1. IInv => TagsAreClosure BY DEF IInv
<1> QED BY <1>1, InitInv, StepInv, PTL DEF Spec
=============================================================================
