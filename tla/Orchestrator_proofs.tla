------------------------ MODULE Orchestrator_proofs -------------------------
(***************************************************************************)
(* What is proved of orchestrator.py: of run-all (Orchestrator.tla), for   *)
(* every list of phases, every configuration and any number of faults,     *)
(* crashes and launches; and of the phase that lives in the same file, the *)
(* clustering (Clusters.tla), for every finite set of tables, whatever the *)
(* database shows from one run to the next.                                *)
(***************************************************************************)
EXTENDS Orchestrator, Clusters, FiniteSetTheorems, WellFoundedInduction, TLAPS

(* Run-all. *)

\* A phase whose row is "started" is being visited, by nobody's wish to skip.
Inside ==
  proc = "up" /\ step # "gate" =>
    /\ pos <= Len(Order)
    /\ log[Cur] = "started"
    /\ Cur \notin skip \cup Disabled

\* The needed phases behind the current position are complete.
Passed ==
  proc \in {"up", "done"} =>
    \A i \in 1 .. pos - 1 : Order[i] \in Needed \ skip => IsComplete(log, Order[i])

AtEnd == proc = "done" => pos = Len(Order) + 1

\* Nothing is complete whose function did not return.
Carried == \A p \in Phase : IsComplete(log, p) => p \in effects

Upstream(p) == (Before(p) \cap Needed) \ UNION SkipSets

\* Between the return of the function and the row that records it.
Closing ==
  proc = "up" /\ step = "close" => Cur \in effects /\ Upstream(Cur) \subseteq seen[Cur]

\* The inductive invariant.
Inv ==
  /\ TypeOK
  /\ Inside
  /\ Passed
  /\ AtEnd
  /\ Carried
  /\ Closing
  /\ BuiltOnUpstream
-----------------------------------------------------------------------------
(* A visited position is an index of Order, and its phase is a phase. *)
LEMMA CurIsPhase ==
  ASSUME TypeOK, pos <= Len(Order)
  PROVE  pos \in DOMAIN Order /\ Cur \in Phase
<1>1. pos \in 1 .. Len(Order)
  BY OrderAssumption DEF TypeOK
<1>2. DOMAIN Order = 1 .. Len(Order)
  BY OrderAssumption
<1>3. QED
  BY <1>1, <1>2 DEF Cur, Phase

(* No other position holds the phase being visited. *)
LEMMA CurIsUnique ==
  ASSUME TypeOK, pos <= Len(Order), NEW i \in 1 .. pos - 1
  PROVE  i \in DOMAIN Order /\ Order[i] \in Phase /\ Order[i] # Cur
<1>1. DOMAIN Order = 1 .. Len(Order) /\ Len(Order) \in Nat
  BY OrderAssumption
<1>2. pos \in 1 .. Len(Order)
  BY OrderAssumption DEF TypeOK
<1>3. i \in DOMAIN Order /\ i # pos
  BY <1>1, <1>2
<1>4. QED
  BY <1>1, <1>2, <1>3, OrderAssumption DEF Cur, Phase

(* The phases before the current one are those at smaller positions. *)
LEMMA BeforeCur ==
  ASSUME TypeOK, pos <= Len(Order), NEW q \in Before(Cur)
  PROVE  \E i \in 1 .. pos - 1 : q = Order[i]
<1>1. DOMAIN Order = 1 .. Len(Order) /\ Len(Order) \in Nat
  BY OrderAssumption
<1>2. pos \in DOMAIN Order
  BY CurIsPhase
<1>3. PICK j \in DOMAIN Order, k \in DOMAIN Order :
        j < k /\ Order[k] = Cur /\ q = Order[j]
  BY DEF Before
<1>4. k = pos
  BY <1>2, <1>3, OrderAssumption DEF Cur
<1>5. j \in 1 .. pos - 1
  BY <1>1, <1>2, <1>3, <1>4
<1>6. QED
  BY <1>3, <1>5

(* A needed phase is enabled, and mandatory unless fallbacks are off. *)
LEMMA NeededIsEnabled ==
  ASSUME NEW p \in Needed
  PROVE  p \in Phase /\ p \notin Disabled /\ ~(p \in Optional /\ Fallbacks)
BY ConfigAssumption DEF Needed
-----------------------------------------------------------------------------
LEMMA InitInv == Init => Inv
<1> SUFFICES ASSUME Init PROVE Inv
  OBVIOUS
<1>1. Len(Order) \in Nat
  BY OrderAssumption
<1>2. TypeOK
  BY <1>1, ConfigAssumption DEF Init, TypeOK, Status, Proc, Step
<1>3. QED
  BY <1>2 DEF Init, Inv, Inside, Passed, AtEnd, Carried, Closing, BuiltOnUpstream, IsComplete

LEMMA NextType == TypeOK /\ [Next]_vars => TypeOK'
<1> SUFFICES ASSUME TypeOK, [Next]_vars PROVE TypeOK'
  OBVIOUS
<1>1. Len(Order) \in Nat
  BY OrderAssumption
<1> USE DEF TypeOK, Status, Proc, Step
<1>2. CASE PassOver
  BY <1>1, <1>2 DEF PassOver, Running, Advance
<1>3. CASE StartPhase
  <2>1. log' \in [Phase -> Status]
    BY <1>3 DEF StartPhase, LogStart
  <2>2. proc' \in Proc /\ pos' \in 1 .. Len(Order) + 1 /\ step' \in Step
    BY <1>1, <1>3 DEF StartPhase, MustRun, Running
  <2>3. QED
    BY <1>3, <2>1, <2>2 DEF StartPhase
<1>4. CASE StartRaises
  BY <1>1, <1>4, ConfigAssumption DEF StartRaises, MustRun, Running, Fault, Raise, Advance
<1>5. CASE BodyReturns
  <2>1. Cur \in Phase
    BY <1>5, CurIsPhase DEF BodyReturns, Running
  <2>2. QED
    BY <1>1, <1>5, <2>1 DEF BodyReturns, Running
<1>6. CASE BodyRaises
  BY <1>1, <1>6, ConfigAssumption DEF BodyRaises, Running, Fault
<1>7. CASE SucceedPhase
  <2>1. log' \in [Phase -> Status]
    BY <1>7 DEF SucceedPhase, LogSucceed
  <2>2. proc' \in Proc /\ pos' \in 1 .. Len(Order) + 1 /\ step' \in Step
    BY <1>1, <1>7 DEF SucceedPhase, Running, Advance
  <2>3. QED
    BY <1>7, <2>1, <2>2 DEF SucceedPhase
<1>8. CASE SucceedRaises
  BY <1>1, <1>8, ConfigAssumption DEF SucceedRaises, Running, Fault
<1>9. CASE FailPhase
  <2>1. log' \in [Phase -> Status]
    BY <1>9 DEF FailPhase, LogFail
  <2>2. proc' \in Proc /\ pos' \in 1 .. Len(Order) + 1 /\ step' \in Step
    BY <1>1, <1>9 DEF FailPhase, Running, Raise, Advance
  <2>3. QED
    BY <1>9, <2>1, <2>2 DEF FailPhase
<1>10. CASE FailRaises
  BY <1>1, <1>10, ConfigAssumption DEF FailRaises, Running, Fault, Raise, Advance
<1>11. CASE Finish
  BY <1>11 DEF Finish
<1>12. CASE Crash
  BY <1>12, ConfigAssumption DEF Crash
<1>13. CASE Launch
  BY <1>1, <1>13 DEF Launch
<1>14. CASE UNCHANGED vars
  BY <1>14 DEF vars
<1>15. QED
  BY <1>2, <1>3, <1>4, <1>5, <1>6, <1>7, <1>8, <1>9, <1>10, <1>11, <1>12, <1>13, <1>14
     DEF Next, Proceed
-----------------------------------------------------------------------------
\* A step writes at most the row of the phase being visited.
OthersKept == \A p \in Phase \ {Cur} : log'[p] = log[p]

(* Passed survives a step that stays at the current phase ... *)
LEMMA PassedStay ==
  ASSUME TypeOK, Passed, proc = "up", pos <= Len(Order),
         pos' = pos, skip' = skip, OthersKept
  PROVE  Passed'
<1>1. SUFFICES ASSUME NEW i \in 1 .. pos - 1, Order[i] \in Needed \ skip
               PROVE  log'[Order[i]] \in {"succeeded", "skipped"}
  BY DEF Passed, IsComplete
<1>2. Order[i] \in Phase \ {Cur}
  BY CurIsUnique
<1>3. QED
  BY <1>1, <1>2 DEF Passed, IsComplete, OthersKept

(* ... and one that leaves it behind, complete or not needed. *)
LEMMA PassedAdvance ==
  ASSUME TypeOK, Passed, proc = "up", pos <= Len(Order),
         pos' = pos + 1, skip' = skip, OthersKept,
         Cur \in Needed \ skip => log'[Cur] \in {"succeeded", "skipped"}
  PROVE  Passed'
<1>1. SUFFICES ASSUME NEW i \in 1 .. pos' - 1, Order[i] \in Needed \ skip
               PROVE  log'[Order[i]] \in {"succeeded", "skipped"}
  BY DEF Passed, IsComplete
<1>2. pos \in Nat
  BY OrderAssumption DEF TypeOK
<1>3. CASE i = pos
  BY <1>1, <1>3 DEF Cur
<1>4. CASE i # pos
  <2>1. i \in 1 .. pos - 1
    BY <1>2, <1>4
  <2>2. Order[i] \in Phase \ {Cur}
    BY <2>1, CurIsUnique
  <2>3. QED
    BY <1>1, <2>1, <2>2 DEF Passed, IsComplete, OthersKept
<1>5. QED
  BY <1>3, <1>4

(* An exception that leaves _run_phase keeps the invariant: the phase left  *)
(* behind is optional, or the process ends.                                 *)
LEMMA RaiseInv ==
  ASSUME Inv, TypeOK', proc = "up", pos <= Len(Order), Raise, OthersKept,
         log' = log \/ log'[Cur] = "failed",
         UNCHANGED <<skip, effects, seen>>
  PROVE  Inv'
<1>1. pos \in 1 .. Len(Order) /\ Len(Order) \in Nat
  BY OrderAssumption DEF Inv, TypeOK
<1>2. Cur \in Phase
  BY CurIsPhase DEF Inv
<1>3. \/ /\ proc' = "up" /\ pos' = pos + 1 /\ step' = "gate"
         /\ Cur \in Optional /\ Fallbacks
      \/ proc' = "failed" /\ pos' = pos /\ step' = step
  BY DEF Raise, Advance
<1>4. Inside' /\ AtEnd' /\ Closing'
  BY <1>3 DEF Inside, AtEnd, Closing
<1>5. Passed'
  <2>1. CASE proc' = "failed"
    BY <2>1 DEF Passed
  <2>2. CASE proc' = "up" /\ pos' = pos + 1 /\ Cur \in Optional /\ Fallbacks
    <3>1. Cur \notin Needed
      BY <2>2, NeededIsEnabled
    <3>2. QED
      BY <2>2, <3>1, PassedAdvance DEF Inv
  <2>3. QED
    BY <1>3, <2>1, <2>2
<1>6. \A p \in Phase : IsComplete(log, p)' => IsComplete(log, p)
  BY <1>2 DEF IsComplete, OthersKept
<1>7. \A p \in Phase : log'[p] = "succeeded" => log[p] = "succeeded"
  BY <1>2 DEF OthersKept
<1>8. Carried'
  BY <1>6 DEF Inv, Carried
<1>9. BuiltOnUpstream'
  BY <1>7 DEF Inv, BuiltOnUpstream
<1>10. QED
  BY <1>4, <1>5, <1>8, <1>9 DEF Inv

LEMMA NextInv == Inv /\ [Next]_vars => Inv'
<1> SUFFICES ASSUME Inv, [Next]_vars PROVE Inv'
  OBVIOUS
<1>1. TypeOK'
  BY NextType DEF Inv
<1>2. Len(Order) \in Nat /\ pos \in 1 .. Len(Order) + 1
  BY OrderAssumption DEF Inv, TypeOK
<1>3. ASSUME pos <= Len(Order) PROVE Cur \in Phase
  BY <1>3, CurIsPhase DEF Inv
<1>4. \A p : p \in Needed => p \notin Disabled
  BY NeededIsEnabled
<1>5. CASE PassOver
  <2>1. /\ proc = "up" /\ proc' = "up" /\ pos <= Len(Order) /\ pos' = pos + 1
        /\ step' = "gate" /\ OthersKept
        /\ UNCHANGED <<log, skip, effects, seen>>
    BY <1>5 DEF PassOver, Running, Advance, OthersKept
  <2>2. Cur \in Needed \ skip => log'[Cur] \in {"succeeded", "skipped"}
    BY <1>4, <1>5 DEF PassOver, IsComplete
  <2>3. Passed'
    BY <2>1, <2>2, PassedAdvance DEF Inv
  <2>4. Inside' /\ AtEnd' /\ Closing'
    BY <2>1 DEF Inside, AtEnd, Closing
  <2>5. Carried' /\ BuiltOnUpstream'
    BY <2>1 DEF Inv, Carried, BuiltOnUpstream, IsComplete
  <2>6. QED
    BY <1>1, <2>3, <2>4, <2>5 DEF Inv
<1>6. CASE StartPhase
  <2>1. /\ proc = "up" /\ proc' = "up" /\ pos <= Len(Order) /\ pos' = pos
        /\ step' = "body" /\ Cur \notin skip' \cup Disabled
        /\ UNCHANGED <<skip, effects, seen>>
    BY <1>6 DEF StartPhase, MustRun, Running
  <2>2. log'[Cur] = "started" /\ OthersKept
    BY <1>3, <1>6, <2>1 DEF StartPhase, LogStart, OthersKept, Inv, TypeOK
  <2>3. Cur' = Cur
    BY <2>1 DEF Cur
  <2>4. Passed'
    BY <2>1, <2>2, PassedStay DEF Inv
  <2>5. Inside' /\ AtEnd' /\ Closing'
    BY <2>1, <2>2, <2>3 DEF Inside, AtEnd, Closing
  <2>6. \A p \in Phase : log'[p] = log[p] \/ log'[p] = "started"
    BY <2>2 DEF OthersKept
  <2>7. Carried' /\ BuiltOnUpstream'
    BY <2>1, <2>6 DEF Inv, Carried, BuiltOnUpstream, IsComplete
  <2>8. QED
    BY <1>1, <2>4, <2>5, <2>7 DEF Inv
<1>7. CASE StartRaises
  <2>1. proc = "up" /\ pos <= Len(Order) /\ Raise /\ UNCHANGED <<log, skip, effects, seen>>
    BY <1>7 DEF StartRaises, MustRun, Running
  <2>2. OthersKept
    BY <2>1 DEF OthersKept
  <2>3. QED
    BY <1>1, <2>1, <2>2, RaiseInv
<1>8. CASE BodyReturns
  <2>1. /\ proc = "up" /\ pos <= Len(Order) /\ step = "body"
        /\ UNCHANGED <<log, proc, pos, skip>>
        /\ step' = "close"
    BY <1>8 DEF BodyReturns, Running
  <2>2. Cur' = Cur /\ Cur \in Phase
    BY <1>3, <2>1 DEF Cur
  <2>3. effects' = effects \cup {Cur} /\ seen'[Cur] = effects
        /\ \A p \in Phase \ {Cur} : seen'[p] = seen[p]
    BY <1>8, <2>2 DEF BodyReturns, Inv, TypeOK
  <2>4. log[Cur] = "started"
    BY <2>1 DEF Inv, Inside
  <2>5. Passed'
    BY <2>1, PassedStay DEF Inv, OthersKept
  <2>6. Inside' /\ AtEnd'
    BY <2>1, <2>2 DEF Inv, Inside, AtEnd
  <2>7. Closing'
    <3>1. SUFFICES ASSUME NEW q \in Upstream(Cur) PROVE q \in effects
      BY <2>2, <2>3 DEF Closing, Upstream, Before
    <3>2. PICK i \in 1 .. pos - 1 : q = Order[i]
      BY <2>1, BeforeCur DEF Upstream, Inv
    <3>3. q \in Needed \ skip
      BY DEF Upstream, Inv, TypeOK
    <3>4. IsComplete(log, q) /\ q \in Phase
      BY <2>1, <3>2, <3>3, NeededIsEnabled DEF Inv, Passed
    <3>5. QED
      BY <3>4 DEF Inv, Carried
  <2>8. Carried'
    BY <2>1, <2>3 DEF Inv, Carried, IsComplete
  <2>9. BuiltOnUpstream'
    BY <2>1, <2>3, <2>4 DEF Inv, BuiltOnUpstream
  <2>10. QED
    BY <1>1, <2>5, <2>6, <2>7, <2>8, <2>9 DEF Inv
<1>9. CASE BodyRaises \/ SucceedRaises
  <2>1. /\ proc = "up" /\ pos <= Len(Order) /\ step \in {"body", "close"}
        /\ UNCHANGED <<log, proc, pos, skip, effects, seen>>
        /\ step' = "except"
    BY <1>9 DEF BodyRaises, SucceedRaises, Running
  <2>2. Passed'
    BY <2>1, PassedStay DEF Inv, OthersKept
  <2>3. Inside' /\ AtEnd' /\ Closing'
    BY <2>1 DEF Inv, Inside, AtEnd, Closing, Cur
  <2>4. Carried' /\ BuiltOnUpstream'
    BY <2>1 DEF Inv, Carried, BuiltOnUpstream, IsComplete
  <2>5. QED
    BY <1>1, <2>2, <2>3, <2>4 DEF Inv
<1>10. CASE SucceedPhase
  <2>1. /\ proc = "up" /\ proc' = "up" /\ pos <= Len(Order) /\ step = "close"
        /\ pos' = pos + 1 /\ step' = "gate"
        /\ UNCHANGED <<skip, effects, seen>>
    BY <1>10 DEF SucceedPhase, Running, Advance
  <2>2. log'[Cur] = "succeeded" /\ OthersKept
    BY <1>3, <1>10, <2>1 DEF SucceedPhase, LogSucceed, OthersKept, Inv, TypeOK
  <2>3. Passed'
    BY <2>1, <2>2, PassedAdvance DEF Inv
  <2>4. Inside' /\ AtEnd' /\ Closing'
    BY <2>1 DEF Inside, AtEnd, Closing
  <2>5. Cur \in effects /\ Upstream(Cur) \subseteq seen[Cur]
    BY <2>1 DEF Inv, Closing
  <2>6. Carried'
    BY <2>1, <2>2, <2>5 DEF Inv, Carried, IsComplete, OthersKept
  <2>7. BuiltOnUpstream'
    BY <2>1, <2>2, <2>5 DEF Inv, BuiltOnUpstream, OthersKept, Upstream
  <2>8. QED
    BY <1>1, <2>3, <2>4, <2>6, <2>7 DEF Inv
<1>11. CASE FailPhase
  <2>1. proc = "up" /\ pos <= Len(Order) /\ Raise /\ UNCHANGED <<skip, effects, seen>>
    BY <1>11 DEF FailPhase, Running
  <2>2. log'[Cur] = "failed" /\ OthersKept
    BY <1>3, <1>11, <2>1 DEF FailPhase, LogFail, OthersKept, Inv, TypeOK
  <2>3. QED
    BY <1>1, <2>1, <2>2, RaiseInv
<1>12. CASE FailRaises
  <2>1. proc = "up" /\ pos <= Len(Order) /\ Raise /\ UNCHANGED <<log, skip, effects, seen>>
    BY <1>12 DEF FailRaises, Running
  <2>2. OthersKept
    BY <2>1 DEF OthersKept
  <2>3. QED
    BY <1>1, <2>1, <2>2, RaiseInv
<1>13. CASE Finish
  <2>1. /\ proc = "up" /\ proc' = "done" /\ pos = Len(Order) + 1
        /\ UNCHANGED <<log, pos, step, skip, effects, seen>>
    BY <1>13 DEF Finish
  <2>2. Inside' /\ AtEnd' /\ Closing' /\ Passed'
    BY <2>1 DEF Inv, Inside, AtEnd, Closing, Passed, IsComplete
  <2>3. Carried' /\ BuiltOnUpstream'
    BY <2>1 DEF Inv, Carried, BuiltOnUpstream, IsComplete
  <2>4. QED
    BY <1>1, <2>2, <2>3 DEF Inv
<1>14. CASE Crash
  <2>1. proc' = "crashed" /\ UNCHANGED <<log, effects, seen>>
    BY <1>14 DEF Crash
  <2>2. Inside' /\ AtEnd' /\ Closing' /\ Passed'
    BY <2>1 DEF Inside, AtEnd, Closing, Passed
  <2>3. Carried' /\ BuiltOnUpstream'
    BY <2>1 DEF Inv, Carried, BuiltOnUpstream, IsComplete
  <2>4. QED
    BY <1>1, <2>2, <2>3 DEF Inv
<1>15. CASE Launch
  <2>1. proc' = "up" /\ pos' = 1 /\ step' = "gate" /\ UNCHANGED <<log, effects, seen>>
    BY <1>15 DEF Launch
  <2>2. Inside' /\ AtEnd' /\ Closing' /\ Passed'
    BY <2>1 DEF Inside, AtEnd, Closing, Passed
  <2>3. Carried' /\ BuiltOnUpstream'
    BY <2>1 DEF Inv, Carried, BuiltOnUpstream, IsComplete
  <2>4. QED
    BY <1>1, <2>2, <2>3 DEF Inv
<1>16. CASE UNCHANGED vars
  BY <1>1, <1>16 DEF vars, Inv, Inside, AtEnd, Closing, Passed, Carried, BuiltOnUpstream,
     IsComplete, Cur
<1>17. QED
  BY <1>5, <1>6, <1>7, <1>8, <1>9, <1>10, <1>11, <1>12, <1>13, <1>14, <1>15, <1>16
     DEF Next, Proceed
-----------------------------------------------------------------------------
(* Every reachable state satisfies the inductive invariant. *)
THEOREM Invariance == Spec => []Inv
BY InitInv, NextInv, PTL DEF Spec

(* The state of run-all keeps its types: a ledger of known statuses, a      *)
(* position inside the list of phases, counters within their bounds.        *)
THEOREM TypeCorrect == Spec => []TypeOK
<1>1. Inv => TypeOK
  BY DEF Inv
<1>2. QED
  BY <1>1, Invariance, PTL

(* Exit code 0 of run-all is truthful about every needed phase.             *)
THEOREM CleanExitHolds == Spec => []CleanExit
<1>1. Inv => CleanExit
  <2> SUFFICES ASSUME Inv, proc = "done", NEW p \in Needed \ skip
               PROVE  IsComplete(log, p)
    BY DEF CleanExit
  <2>1. Len(Order) \in Nat /\ DOMAIN Order = 1 .. Len(Order) /\ pos = Len(Order) + 1
    BY OrderAssumption DEF Inv, AtEnd
  <2>2. PICK i \in DOMAIN Order : p = Order[i]
    BY NeededIsEnabled DEF Phase
  <2>3. i \in 1 .. pos - 1
    BY <2>1, <2>2
  <2>4. QED
    BY <2>2, <2>3 DEF Inv, Passed
<1>2. QED
  BY <1>1, Invariance, PTL

(* A phase recorded as succeeded had all its needed inputs.                 *)
THEOREM UpstreamHolds == Spec => []BuiltOnUpstream
<1>1. Inv => BuiltOnUpstream
  BY DEF Inv
<1>2. QED
  BY <1>1, Invariance, PTL

(* A phase that is complete is never started, run or unrecorded again.      *)
THEOREM NoReworkHolds == Spec => NoRework
<1>1. Inv /\ [Next]_vars =>
        [\A p \in Phase : IsComplete(log, p) =>
            /\ IsComplete(log', p)
            /\ seen'[p] = seen[p]
            /\ ~(Running("body") /\ Cur = p)]_vars
  <2> SUFFICES ASSUME Inv, Next, NEW p \in Phase, IsComplete(log, p)
               PROVE  /\ log'[p] = log[p]
                      /\ seen'[p] = seen[p]
                      /\ ~(Running("body") /\ Cur = p)
    BY DEF IsComplete
  <2>1. ASSUME NEW s \in {"body", "close", "except"}, Running(s) PROVE Cur # p
    BY <2>1 DEF Inv, Inside, Running, IsComplete
  <2>2. ~(Running("body") /\ Cur = p)
    BY <2>1
  <2>3. CASE PassOver \/ StartRaises \/ BodyRaises \/ SucceedRaises \/ FailRaises
             \/ Finish \/ Crash \/ Launch
    BY <2>2, <2>3 DEF PassOver, StartRaises, BodyRaises, SucceedRaises, FailRaises,
       Finish, Crash, Launch
  <2>4. CASE StartPhase
    <3>1. Cur # p
      BY <2>4 DEF StartPhase, MustRun
    <3>2. QED
      BY <2>2, <2>4, <3>1 DEF StartPhase, LogStart, Inv, TypeOK
  <2>5. CASE BodyReturns
    <3>1. Cur # p
      BY <2>1, <2>5 DEF BodyReturns
    <3>2. QED
      BY <2>2, <2>5, <3>1 DEF BodyReturns, Inv, TypeOK
  <2>6. CASE SucceedPhase
    <3>1. Cur # p
      BY <2>1, <2>6 DEF SucceedPhase
    <3>2. QED
      BY <2>2, <2>6, <3>1 DEF SucceedPhase, LogSucceed, Inv, TypeOK
  <2>7. CASE FailPhase
    <3>1. Cur # p
      BY <2>1, <2>7 DEF FailPhase
    <3>2. QED
      BY <2>2, <2>7, <3>1 DEF FailPhase, LogFail, Inv, TypeOK
  <2>8. QED
    BY <2>3, <2>4, <2>5, <2>6, <2>7 DEF Next, Proceed
<1>2. QED
  BY <1>1, Invariance, PTL DEF Spec, NoRework
-----------------------------------------------------------------------------
\* What PhaseLedger sees of the ledger.
Settled == {p \in Phase : IsComplete(log, p)}

(* The needed phases before the current one are settled or waived: the     *)
(* condition under which PhaseLedger lets a phase work and be settled.     *)
LEMMA UpstreamSettled ==
  ASSUME Inv, proc = "up", pos <= Len(Order)
  PROVE  (Ledger!Earlier(Cur) \cap Needed) \ skip \subseteq Settled
<1>1. Ledger!Earlier(Cur) = Before(Cur)
  BY DEF Ledger!Earlier, Before
<1>2. SUFFICES ASSUME NEW q \in (Before(Cur) \cap Needed) \ skip PROVE q \in Settled
  BY <1>1
<1>3. PICK i \in 1 .. pos - 1 : q = Order[i]
  BY BeforeCur DEF Inv
<1>4. QED
  BY <1>3, NeededIsEnabled DEF Settled, Inv, Passed

(* run-all implements PhaseLedger: whatever faults, kills and relaunches   *)
(* do to it, the ledger it keeps settles a phase once, after its work and  *)
(* after the phases before it.                                             *)
THEOREM LedgerRefinement == Spec => LedgerSpec
<1>1. Init => Ledger!Init
  BY ConfigAssumption DEF Init, Ledger!Init, Ledger!Phase, Phase, IsComplete
<1>2. Inv /\ [Next]_vars => [Ledger!Next]_Ledger!vars
  <2> SUFFICES ASSUME Inv, [Next]_vars PROVE [Ledger!Next]_Ledger!vars
    OBVIOUS
  <2> USE DEF Ledger!vars, Settled
  <2>1. ASSUME UNCHANGED <<skip, effects>>,
               \A p \in Phase : IsComplete(log, p)' = IsComplete(log, p)
        PROVE  UNCHANGED Ledger!vars
    BY <2>1
  <2>2. CASE PassOver \/ StartRaises \/ BodyRaises \/ SucceedRaises \/ FailRaises
             \/ Finish \/ Crash \/ UNCHANGED vars
    BY <2>2 DEF PassOver, StartRaises, BodyRaises, SucceedRaises, FailRaises,
       Finish, Crash, vars, IsComplete
  <2>3. CASE StartPhase
    <3>1. Cur \in Phase /\ ~IsComplete(log, Cur)
      BY <2>3, CurIsPhase DEF StartPhase, MustRun, Running, Inv
    <3>2. \A p \in Phase : IsComplete(log, p)' = IsComplete(log, p)
      BY <2>3, <3>1 DEF StartPhase, LogStart, IsComplete, Inv, TypeOK
    <3>3. QED
      BY <2>1, <2>3, <3>2 DEF StartPhase
  <2>4. CASE FailPhase
    <3>1. Cur \in Phase /\ log[Cur] = "started"
      BY <2>4, CurIsPhase DEF FailPhase, Running, Inv, Inside
    <3>2. \A p \in Phase : IsComplete(log, p)' = IsComplete(log, p)
      BY <2>4, <3>1 DEF FailPhase, LogFail, IsComplete, Inv, TypeOK
    <3>3. QED
      BY <2>1, <2>4, <3>2 DEF FailPhase
  <2>5. CASE BodyReturns
    <3>1. Cur \in Phase /\ log[Cur] = "started" /\ Cur \notin skip
      BY <2>5, CurIsPhase DEF BodyReturns, Running, Inv, Inside
    <3>2. Cur \in Ledger!Phase
      BY <3>1 DEF Ledger!Phase, Phase
    <3>3. Ledger!Work(Cur)
      <4>1. Cur \notin Settled \cup skip
        BY <3>1 DEF IsComplete
      <4>2. (Ledger!Earlier(Cur) \cap Needed) \ skip \subseteq Settled
        BY <2>5, UpstreamSettled DEF BodyReturns, Running
      <4>3. effects' = effects \cup {Cur} /\ UNCHANGED <<skip, log>>
        BY <2>5 DEF BodyReturns
      <4>4. Settled' = Settled
        BY <4>3 DEF IsComplete
      <4>5. QED
        BY <4>1, <4>2, <4>3, <4>4 DEF Ledger!Work
    <3>4. QED
      BY <3>2, <3>3 DEF Ledger!Next
  <2>6. CASE SucceedPhase
    <3>1. Cur \in Phase /\ log[Cur] = "started" /\ Cur \in effects
      BY <2>6, CurIsPhase DEF SucceedPhase, Running, Inv, Inside, Closing
    <3>2. Cur \in Ledger!Phase
      BY <3>1 DEF Ledger!Phase, Phase
    <3>3. Ledger!Settle(Cur)
      <4>1. Cur \in effects \ Settled
        BY <3>1 DEF IsComplete
      <4>2. (Ledger!Earlier(Cur) \cap Needed) \ skip \subseteq Settled
        BY <2>6, UpstreamSettled DEF SucceedPhase, Running
      <4>3. UNCHANGED <<effects, skip>>
        BY <2>6 DEF SucceedPhase
      <4>4. Settled' = Settled \cup {Cur}
        BY <2>6, <3>1 DEF SucceedPhase, LogSucceed, IsComplete, Inv, TypeOK
      <4>5. QED
        BY <4>1, <4>2, <4>3, <4>4 DEF Ledger!Settle
    <3>4. QED
      BY <3>2, <3>3 DEF Ledger!Next
  <2>7. CASE Launch
    <3>1. skip' \in SUBSET Phase /\ UNCHANGED <<log, effects>>
      BY <2>7, ConfigAssumption DEF Launch
    <3>2. Settled' = Settled
      BY <3>1 DEF IsComplete
    <3>3. Ledger!Waive
      BY <3>1, <3>2 DEF Ledger!Waive, Ledger!Phase, Phase
    <3>4. QED
      BY <3>3 DEF Ledger!Next
  <2>8. QED
    BY <2>2, <2>3, <2>4, <2>5, <2>6, <2>7 DEF Next, Proceed
<1>3. QED
  BY <1>1, <1>2, Invariance, PTL DEF Spec, LedgerSpec, Ledger!Spec
-----------------------------------------------------------------------------
(* The clustering phase: its inductive invariant. *)

Grouping == stage \in {"merge", "attach"}
Working == stage = "louvain" \/ Grouping

\* While a schema is worked on, its junctions are tables with parents.
Tagged ==
  /\ Working => junctions \subseteq MayCollapse(cur)
  /\ stage \in {"louvain", "merge"} => pending = junctions

\* The groups share no table, and hold every full table but the junctions
\* not attached yet.
Apart ==
  Grouping =>
    /\ \A i \in DOMAIN groups : groups[i] # {}
    /\ \A i, j \in DOMAIN groups : i # j => groups[i] \cap groups[j] = {}

Covering == Grouping => UNION Range(groups) = Full(cur) \ pending

\* A table of this run's database that the run has not visited yet.
Waiting(t) == SchemaOf[t] \in todo \/ (Working /\ SchemaOf[t] = cur)

\* What the run has visited is stored, and from this run's database.
Visited ==
  /\ stage # "down" =>
       \A t \in scene.present : ~Waiting(t) => home[t] # 0 /\ basis[SchemaOf[t]] = now
  /\ stage = "done" => todo = {}

PhaseInv ==
  /\ ClusterTypeOK
  /\ Tagged /\ Apart /\ Covering /\ Visited
  /\ StoredAgrees

\* The relationships between tables that are not empty, as edges.
Solid(n) ==
  {e \in {{l.child, l.parent} : l \in {m \in Scenes[n].link : m.sure}} :
     e \cap Scenes[n].empty = {}}

\* Tables the relationships of this run connect.
Together(S) == \A a, b \in S : b \in Component(Solid(now), a)

\* No group, and no edge of the graph, joins tables they do not connect.
Chained ==
  /\ Grouping => \A i \in DOMAIN groups : Together(groups[i])
  /\ stage = "merge" => \A e \in graph : Together(e)

ChainInv == PhaseInv /\ Chained /\ NoStrangers
-----------------------------------------------------------------------------
(* Least members, and the order Sorted lists a set in. *)

(* Every set of natural numbers has a least one.                             *)
LEMMA LeastNatural ==
  ASSUME NEW S \in SUBSET Nat, S # {}
  PROVE  Min(S) \in S /\ \A n \in S : Min(S) <= n
<1>1. PICK m \in S : \A n \in S : ~(<<n, m>> \in OpToRel(<, Nat))
  BY NatLessThanWellFounded, WFMin
<1>2. \A n \in S : m <= n
  <2>1. SUFFICES ASSUME NEW n \in S, n < m PROVE FALSE
    OBVIOUS
  <2>2. <<n, m>> \in OpToRel(<, Nat)
    BY <2>1 DEF OpToRel
  <2>3. QED
    BY <1>1, <2>2
<1>3. QED
  BY <1>2 DEF Min

(* A finite set whose members are numbered apart is listed by Sorted.        *)
LEMMA RankedApart ==
  ASSUME NEW P, IsFiniteSet(P), \A a \in P : Min(a) \in Nat,
         \A a, b \in P : a # b => Min(a) # Min(b)
  PROVE  /\ \A a \in P : Rank(P, a) \in 0 .. Cardinality(P) - 1
         /\ \A a, b \in P : a # b => Rank(P, a) # Rank(P, b)
         /\ \A i \in 1 .. Cardinality(P) : \E a \in P : Rank(P, a) = i - 1
<1> DEFINE below(a) == {b \in P : Min(b) < Min(a)}
<1>1. \A a \in P : /\ below(a) \in SUBSET P /\ IsFiniteSet(below(a))
                   /\ Cardinality(below(a)) = Rank(P, a) /\ Rank(P, a) \in Nat
  <2>1. TAKE a \in P
  <2>2. below(a) \in SUBSET P
    OBVIOUS
  <2>3. QED
    BY <2>2, FS_Subset, FS_CardinalityType DEF Rank
<1>2. Cardinality(P) \in Nat
  BY FS_CardinalityType
<1>3. \A a \in P : Rank(P, a) \in 0 .. Cardinality(P) - 1
  <2>1. TAKE a \in P
  <2>2. a \notin below(a)
    OBVIOUS
  <2>3. below(a) \in SUBSET P /\ Cardinality(below(a)) = Rank(P, a) /\ Rank(P, a) \in Nat
    BY <1>1
  <2> HIDE DEF below
  <2>4. /\ Cardinality(below(a)) <= Cardinality(P)
        /\ Cardinality(P) = Cardinality(below(a)) => P = below(a)
    BY <2>3, FS_Subset
  <2>5. QED
    BY <1>2, <2>2, <2>3, <2>4
<1>4. ASSUME NEW a \in P, NEW b \in P, Min(a) < Min(b) PROVE Rank(P, a) # Rank(P, b)
  <2>1. below(a) \in SUBSET below(b) /\ a \in below(b) /\ a \notin below(a)
    BY <1>4
  <2>2. QED
    BY <1>1, <2>1, FS_Subset
<1>5. \A a, b \in P : a # b => Rank(P, a) # Rank(P, b)
  <2>1. TAKE a, b \in P
  <2>2. Min(a) # Min(b) => Min(a) < Min(b) \/ Min(b) < Min(a)
    OBVIOUS
  <2>3. QED
    BY <1>4, <2>2
<1> DEFINE T == 0 .. Cardinality(P) - 1
           f == [a \in P |-> Rank(P, a)]
<1>6. IsFiniteSet(T) /\ Cardinality(T) = Cardinality(P)
  BY <1>2, FS_Interval
<1>7. f \in Injection(P, T)
  BY <1>3, <1>5 DEF Injection, IsInjective
<1>8. f \in Surjection(P, T)
  <2> HIDE DEF f, T
  <2>1. QED
    BY <1>6, <1>7, FS_Injection
<1>9. \A i \in 1 .. Cardinality(P) : \E a \in P : Rank(P, a) = i - 1
  <2>1. TAKE i \in 1 .. Cardinality(P)
  <2>2. i - 1 \in T
    BY <1>2
  <2>3. PICK a \in P : f[a] = i - 1
    BY <1>8, <2>2 DEF Surjection
  <2>4. QED
    BY <2>3
<1>10. QED
  BY <1>3, <1>5, <1>9

LEMMA SortedFacts ==
  ASSUME NEW P \in SUBSET SUBSET Nat, IsFiniteSet(P), {} \notin P,
         \A a, b \in P : a # b => a \cap b = {}
  PROVE  /\ Sorted(P) \in Seq(P)
         /\ DOMAIN Sorted(P) = 1 .. Cardinality(P)
         /\ Range(Sorted(P)) = P
         /\ \A i, j \in DOMAIN Sorted(P) : i # j => Sorted(P)[i] \cap Sorted(P)[j] = {}
<1>1. \A a \in P : Min(a) \in a /\ Min(a) \in Nat
  BY LeastNatural
<1>2. \A a, b \in P : a # b => Min(a) # Min(b)
  BY <1>1
<1>3. /\ \A a \in P : Rank(P, a) \in 0 .. Cardinality(P) - 1
      /\ \A a, b \in P : a # b => Rank(P, a) # Rank(P, b)
      /\ \A i \in 1 .. Cardinality(P) : \E a \in P : Rank(P, a) = i - 1
  BY <1>1, <1>2, RankedApart
<1>4. Cardinality(P) \in Nat
  BY FS_CardinalityType
<1> DEFINE f == Sorted(P)
<1>5. \A i \in 1 .. Cardinality(P) : f[i] \in P /\ Rank(P, f[i]) = i - 1
  BY <1>3 DEF Sorted
<1>6. DOMAIN f = 1 .. Cardinality(P) /\ f = [i \in 1 .. Cardinality(P) |-> f[i]]
  BY DEF Sorted
<1> HIDE DEF f
<1>7. f \in Seq(P)
  BY <1>4, <1>5, <1>6
<1>8. ASSUME NEW a \in P PROVE a \in Range(f)
  <2>1. Rank(P, a) + 1 \in 1 .. Cardinality(P)
    BY <1>3, <1>4
  <2>2. Rank(P, f[Rank(P, a) + 1]) = Rank(P, a)
    BY <1>3, <1>5, <2>1
  <2>3. f[Rank(P, a) + 1] = a
    BY <1>3, <1>5, <2>1, <2>2
  <2>4. QED
    BY <1>6, <2>1, <2>3 DEF Range
<1>9. Range(f) = P
  BY <1>5, <1>6, <1>8 DEF Range
<1>10. \A i, j \in DOMAIN f : i # j => f[i] \cap f[j] = {}
  <2>1. TAKE i, j \in DOMAIN f
  <2>2. i # j => f[i] # f[j]
    BY <1>5, <1>6
  <2>3. QED
    BY <1>5, <1>6, <2>2
<1>11. QED
  BY <1>6, <1>7, <1>9, <1>10 DEF f
-----------------------------------------------------------------------------
(* What the definitions of the phase denote in a state. *)

(* What the database shows of a schema.                                      *)
LEMMA SceneFacts ==
  ASSUME now \in DOMAIN Scenes
  PROVE  /\ scene.present \in SUBSET Table /\ scene.link \in SUBSET Link
         /\ \A s : /\ Full(s) \cup Hollow(s) = Listed(s) /\ Full(s) \cap Hollow(s) = {}
                   /\ \A t \in Listed(s) : t \in Table /\ t \in Nat \ {0}
                                           /\ SchemaOf[t] = s /\ t \in scene.present
                   /\ \A t \in scene.present : SchemaOf[t] = s => t \in Listed(s)
                   /\ \A t : Parents(s, t) \in SUBSET Full(s)
<1>1. Scene(scene)
  BY ClustersAssumption DEF scene
<1>2. scene.present \in SUBSET Table /\ scene.link \in SUBSET Link
  BY <1>1 DEF Scene
<1>3. Table \subseteq Nat \ {0}
  BY ClustersAssumption
<1>4. QED
  BY <1>2, <1>3 DEF Full, Hollow, Listed, Parents, Links

LEMMA TableFinite == IsFiniteSet(Table) /\ \A N \in SUBSET Table : IsFiniteSet(N)
BY ClustersAssumption, FS_Subset

LEMMA SetsOfTables ==
  ASSUME NEW P \in SUBSET SUBSET Table
  PROVE  IsFiniteSet(P) /\ P \in SUBSET SUBSET Nat
<1>1. IsFiniteSet(SUBSET Table)
  BY TableFinite, FS_SUBSET
<1>2. IsFiniteSet(P)
  BY <1>1, FS_Subset
<1>3. QED
  BY <1>2, ClustersAssumption

LEMMA JunctionFacts ==
  ASSUME now \in DOMAIN Scenes, NEW s, NEW j \in MayCollapse(s)
  PROVE  /\ j \in Full(s) /\ Parents(s, j) # {}
         /\ Min(Parents(s, j)) \in Nat
<1>1. j \in Full(s) /\ Cardinality(Parents(s, j)) >= 2
  BY DEF MayCollapse, Narrow
<1>2. Parents(s, j) # {}
  BY <1>1, FS_EmptySet
<1>3. Parents(s, j) \in SUBSET Nat
  BY SceneFacts
<1>4. QED
  BY <1>1, <1>2, <1>3, LeastNatural

(* A next junction to attach exists while there are any.                     *)
LEMMA FirstPending ==
  ASSUME now \in DOMAIN Scenes, pending # {}, pending \subseteq MayCollapse(cur)
  PROVE  First \in pending
<1> DEFINE low(x) == Min(Parents(cur, x))
<1>1. \A x \in pending : x \in Nat /\ low(x) \in Nat
  BY JunctionFacts, SceneFacts
<1> HIDE DEF low
<1> DEFINE lows == {low(x) : x \in pending}
           S == {x \in pending : low(x) = Min(lows)}
<1>2. Min(lows) \in lows /\ \A n \in lows : Min(lows) <= n
  BY <1>1, LeastNatural
<1>3. S # {} /\ S \in SUBSET Nat
  BY <1>1, <1>2
<1> DEFINE j == Min(S)
<1>4. j \in S /\ \A k \in S : j <= k
  BY <1>3, LeastNatural
<1>5. \A k \in pending \ {j} : low(j) < low(k) \/ (low(j) = low(k) /\ j < k)
  <2>1. TAKE k \in pending \ {j}
  <2>2. low(j) = Min(lows) /\ j \in pending
    BY <1>4
  <2>3. low(k) \in lows /\ low(j) <= low(k)
    BY <1>2, <2>2
  <2>4. CASE low(k) = low(j)
    <3>1. k \in S /\ j <= k /\ j # k
      BY <1>4, <2>2, <2>4
    <3>2. QED
      BY <1>1, <2>2, <2>4, <3>1
  <2>5. CASE low(k) # low(j)
    BY <1>1, <2>2, <2>3, <2>5
  <2>6. QED
    BY <2>4, <2>5
<1>6. j \in pending
  BY <1>4
<1> HIDE DEF j
<1>7. QED
  BY <1>5, <1>6 DEF First, low

LEMMA EdgesType ==
  ASSUME now \in DOMAIN Scenes, NEW s, NEW J
  PROVE  Edges(s, J) \in SUBSET SUBSET Table
BY SceneFacts DEF Edges

LEMMA SchemaFacts ==
  /\ (CHOOSE s \in Schema : TRUE) \in Schema
  /\ \A t \in Table : SchemaOf[t] \in Schema
BY ClustersAssumption DEF Schema

(* Sets in the range of the groups are sets of tables.                       *)
LEMMA GroupsFacts ==
  ASSUME PhaseInv, Grouping
  PROVE  /\ groups \in Seq(SUBSET Table)
         /\ Range(groups) \in SUBSET SUBSET Table
         /\ {} \notin Range(groups)
         /\ \A a, b \in Range(groups) : a # b => a \cap b = {}
         /\ \A i \in DOMAIN groups : groups[i] \in Range(groups)
         /\ UNION Range(groups) = Full(cur) \ pending
<1>1. groups \in Seq(SUBSET Table)
  BY DEF PhaseInv, ClusterTypeOK
<1>2. \A i \in DOMAIN groups : groups[i] \in SUBSET Table
  BY <1>1
<1>3. QED
  BY <1>1, <1>2 DEF PhaseInv, Apart, Covering, Range
-----------------------------------------------------------------------------
(* One lemma per action of the phase. *)

LEMMA ClusterInitInv == ClusterInit => PhaseInv
<1> SUFFICES ASSUME ClusterInit PROVE PhaseInv
  OBVIOUS
<1>1. cur \in Schema /\ groups \in Seq(SUBSET Table)
  BY SchemaFacts DEF ClusterInit, Idle
<1>2. /\ rows \in [Schema -> Seq([pk : Nat, tables : SUBSET Table])]
      /\ home \in [Table -> 0 .. serial] /\ kind \in [Table -> Kind]
      /\ basis \in [Schema -> DOMAIN Scenes] /\ now \in DOMAIN Scenes
  BY DEF ClusterInit, Kind
<1>3. serial \in Nat /\ kills \in 0 .. MaxKills /\ runs \in 0 .. MaxRuns
  BY ClustersAssumption DEF ClusterInit
<1>4. ClusterTypeOK
  BY <1>1, <1>2, <1>3 DEF ClusterInit, Idle, ClusterTypeOK
<1>5. StoredAgrees
  BY SchemaFacts DEF ClusterInit, StoredAgrees
<1>6. QED
  BY <1>4, <1>5 DEF PhaseInv, ClusterInit, Tagged, Apart, Covering, Visited, Working, Grouping

(* What a step that stores nothing leaves of the stored clusters.            *)
LEMMA StoredStays ==
  ASSUME StoredAgrees, UNCHANGED stored
  PROVE  StoredAgrees'
BY DEF StoredAgrees, stored

LEMMA StartClusteringInv == PhaseInv /\ StartClustering => PhaseInv'
<1> SUFFICES ASSUME PhaseInv, StartClustering PROVE PhaseInv'
  OBVIOUS
<1>1. /\ stage' = "pick" /\ runs < MaxRuns /\ runs' = runs + 1
      /\ todo' = {SchemaOf[t] : t \in scene.present}
      /\ UNCHANGED <<now, cur, junctions, pending, graph, groups, kills>>
      /\ UNCHANGED <<rows, home, kind, basis, serial>>
  BY DEF StartClustering, stored
<1>2. todo' \subseteq Schema
  BY <1>1, SceneFacts, SchemaFacts DEF PhaseInv, ClusterTypeOK
<1>3. runs' \in 0 .. MaxRuns
  BY <1>1, ClustersAssumption DEF PhaseInv, ClusterTypeOK
<1>4. ClusterTypeOK'
  BY <1>1, <1>2, <1>3 DEF PhaseInv, ClusterTypeOK
<1>5. Visited'
  BY <1>1 DEF Visited, Waiting, scene
<1>6. StoredAgrees'
  BY <1>1, StoredStays DEF PhaseInv, stored
<1>7. QED
  BY <1>1, <1>4, <1>5, <1>6 DEF PhaseInv, Tagged, Apart, Covering, Working, Grouping

LEMMA PickInv == PhaseInv /\ Pick => PhaseInv'
<1> SUFFICES ASSUME PhaseInv, Pick PROVE PhaseInv'
  OBVIOUS
<1>1. PICK s \in todo : \E J \in SUBSET MayCollapse(s) :
        /\ cur' = s /\ todo' = todo \ {s} /\ junctions' = J /\ pending' = J
  BY DEF Pick
<1>2. PICK J \in SUBSET MayCollapse(s) :
        /\ cur' = s /\ todo' = todo \ {s} /\ junctions' = J /\ pending' = J
  BY <1>1
<1>3. /\ stage = "pick" /\ stage' = "louvain"
      /\ UNCHANGED <<now, graph, groups, kills, runs>>
      /\ UNCHANGED <<rows, home, kind, basis, serial>>
  BY DEF Pick, stored, bounds
<1>4. J \subseteq Table
  BY JunctionFacts, SceneFacts DEF PhaseInv, ClusterTypeOK
<1>5. ClusterTypeOK'
  BY <1>2, <1>3, <1>4 DEF PhaseInv, ClusterTypeOK
<1>6. \A x : MayCollapse(x)' = MayCollapse(x)
  BY <1>3 DEF MayCollapse, Narrow, Parents, Dominant, Edge, Links, Full, Listed, scene
<1>7. Tagged'
  BY <1>2, <1>3, <1>6 DEF Tagged, Working, Grouping
<1>8. Visited'
  <2>1. \A t : Waiting(t)' = Waiting(t)
    BY <1>2, <1>3 DEF Waiting, Working, Grouping
  <2>2. QED
    BY <1>3, <2>1 DEF PhaseInv, Visited, scene
<1>9. StoredAgrees'
  BY <1>3, StoredStays DEF PhaseInv, stored
<1>10. QED
  BY <1>3, <1>5, <1>7, <1>8, <1>9 DEF PhaseInv, Apart, Covering, Grouping

(* A step of the grouping of a schema need only look after its groups.       *)
LEMMA GroupingStep ==
  ASSUME PhaseInv, Working, Working',
         stage' \in {"merge", "attach"},
         UNCHANGED <<now, todo, cur, junctions, rows, home, kind, basis, serial, kills, runs>>,
         pending' \subseteq pending,
         stage' = "merge" => pending' = pending /\ stage # "attach",
         graph' \in SUBSET SUBSET Table,
         groups' \in Seq(SUBSET Table),
         Apart',
         UNION Range(groups') = Full(cur) \ pending'
  PROVE  PhaseInv'
<1>1. ClusterTypeOK'
  BY DEF PhaseInv, ClusterTypeOK
<1>2. \A x : MayCollapse(x)' = MayCollapse(x)
  BY DEF MayCollapse, Narrow, Parents, Dominant, Edge, Links, Full, Listed, scene
<1>3. Tagged'
  BY <1>2 DEF PhaseInv, Tagged, Working, Grouping
<1>4. Full(cur)' = Full(cur)
  BY DEF Full, Listed, scene
<1>5. Covering'
  BY <1>4 DEF Covering
<1>6. Visited'
  <2>1. \A t : Waiting(t)' = Waiting(t)
    BY DEF Waiting
  <2>2. QED
    BY <2>1 DEF PhaseInv, Visited, scene, Working, Grouping
<1>7. StoredAgrees'
  BY StoredStays DEF PhaseInv, stored
<1>8. QED
  BY <1>1, <1>3, <1>5, <1>6, <1>7 DEF PhaseInv

LEMMA SeqOfLess ==
  ASSUME NEW S, NEW T, S \subseteq T, NEW q \in Seq(S)
  PROVE  q \in Seq(T) /\ \A i \in DOMAIN q : q[i] \in S
OBVIOUS

(* Grouping by the value of a function, and putting two groups together.     *)
Classes(N, f) == {{n \in N : f[n] = r} : r \in {f[n] : n \in N}}
Fused(R, a, b) == (R \ {a, b}) \cup {a \cup b}

LEMMA ClassesFacts ==
  ASSUME NEW N \in SUBSET Table, NEW f \in [N -> N]
  PROVE  LET P == Classes(N, f) IN
         /\ P \in SUBSET SUBSET Table /\ {} \notin P /\ UNION P = N
         /\ Sorted(P) \in Seq(P) /\ Range(Sorted(P)) = P
         /\ \A i, j \in DOMAIN Sorted(P) : i # j => Sorted(P)[i] \cap Sorted(P)[j] = {}
<1> DEFINE P == Classes(N, f)
<1>1. P \in SUBSET SUBSET Table /\ {} \notin P
  BY DEF Classes
<1>2. \A a, b \in P : a # b => a \cap b = {}
  BY DEF Classes
<1>3. UNION P = N
  BY DEF Classes
<1> HIDE DEF P
<1>4. /\ Sorted(P) \in Seq(P) /\ Range(Sorted(P)) = P
      /\ \A i, j \in DOMAIN Sorted(P) : i # j => Sorted(P)[i] \cap Sorted(P)[j] = {}
  BY <1>1, <1>2, SetsOfTables, SortedFacts
<1>5. QED
  BY <1>1, <1>3, <1>4 DEF P

LEMMA FusedFacts ==
  ASSUME NEW R \in SUBSET SUBSET Table, {} \notin R,
         \A x, y \in R : x # y => x \cap y = {},
         NEW a \in R, NEW b \in R
  PROVE  LET P == Fused(R, a, b) IN
         /\ P \in SUBSET SUBSET Table /\ {} \notin P /\ UNION P = UNION R
         /\ Sorted(P) \in Seq(P) /\ Range(Sorted(P)) = P
         /\ \A i, j \in DOMAIN Sorted(P) : i # j => Sorted(P)[i] \cap Sorted(P)[j] = {}
<1> DEFINE P == Fused(R, a, b)
<1>1. P \in SUBSET SUBSET Table /\ {} \notin P
  <2>1. a \in SUBSET Table /\ b \in SUBSET Table /\ a # {}
    OBVIOUS
  <2>2. a \cup b \in SUBSET Table /\ a \cup b # {}
    BY <2>1
  <2>3. QED
    BY <2>2 DEF Fused
<1>2. \A x, y \in P : x # y => x \cap y = {}
  <2>1. \A x \in R \ {a, b} : x \cap (a \cup b) = {}
    OBVIOUS
  <2>2. \A x \in P : x \in R \ {a, b} \/ x = a \cup b
    BY DEF Fused
  <2> HIDE DEF P
  <2>3. QED
    BY <2>1, <2>2
<1>3. UNION P = UNION R
  <2>1. ASSUME NEW x PROVE (\E S \in P : x \in S) <=> (\E S \in R : x \in S)
    <3>1. \A S \in P : S \in R \ {a, b} \/ S = a \cup b
      BY DEF Fused
    <3>2. (\A S \in R : S \in P \/ S = a \/ S = b) /\ a \cup b \in P
      BY DEF Fused
    <3> HIDE DEF P
    <3>3. QED
      BY <3>1, <3>2
  <2>2. QED
    BY <2>1
<1> HIDE DEF P
<1>4. /\ Sorted(P) \in Seq(P) /\ Range(Sorted(P)) = P
      /\ \A i, j \in DOMAIN Sorted(P) : i # j => Sorted(P)[i] \cap Sorted(P)[j] = {}
  BY <1>1, <1>2, SetsOfTables, SortedFacts
<1>5. QED
  BY <1>1, <1>3, <1>4 DEF P

LEMMA LouvainInv == PhaseInv /\ Louvain => PhaseInv'
<1> SUFFICES ASSUME PhaseInv, Louvain PROVE PhaseInv'
  OBVIOUS
<1> DEFINE N == Full(cur) \ junctions
<1>1. /\ stage = "louvain" /\ stage' = "merge" /\ graph' = Edges(cur, junctions)
      /\ UNCHANGED <<now, todo, cur, junctions, pending, kills, runs>>
      /\ UNCHANGED <<rows, home, kind, basis, serial>>
  BY DEF Louvain, stored, bounds
<1>2. PICK f \in Partitions(N, graph') :
        groups' = Sorted({{n \in N : f[n] = r} : r \in {f[n] : n \in N}})
  BY DEF Louvain
<1>3. f \in [N -> N]
  BY DEF Partitions
<1>4. now \in DOMAIN Scenes /\ pending = junctions
  BY <1>1 DEF PhaseInv, ClusterTypeOK, Tagged
<1>5. N \in SUBSET Table
  BY <1>4, SceneFacts
<1> HIDE DEF N
<1> DEFINE P == Classes(N, f)
<1>6. groups' = Sorted(P)
  BY <1>2 DEF Classes
<1> HIDE DEF P
<1>7. /\ P \in SUBSET SUBSET Table /\ {} \notin P /\ UNION P = N
      /\ Sorted(P) \in Seq(P) /\ Range(Sorted(P)) = P
      /\ \A i, j \in DOMAIN Sorted(P) : i # j => Sorted(P)[i] \cap Sorted(P)[j] = {}
  BY <1>3, <1>5, ClassesFacts DEF P
<1>8. groups' \in Seq(SUBSET Table) /\ \A i \in DOMAIN groups' : groups'[i] # {}
  <2>1. groups' \in Seq(SUBSET Table) /\ \A i \in DOMAIN groups' : groups'[i] \in P
    BY <1>6, <1>7, SeqOfLess
  <2>2. QED
    BY <1>7, <2>1
<1>9. graph' \in SUBSET SUBSET Table
  BY <1>1, <1>4, EdgesType
<1>10. Apart'
  BY <1>6, <1>7, <1>8 DEF Apart
<1>11. UNION Range(groups') = Full(cur) \ pending'
  BY <1>1, <1>4, <1>6, <1>7 DEF N
<1>12. Working /\ Working'
  BY <1>1 DEF Working, Grouping
<1>13. QED
  BY <1>1, <1>8, <1>9, <1>10, <1>11, <1>12, GroupingStep

LEMMA MergeInv == PhaseInv /\ Merge => PhaseInv'
<1> SUFFICES ASSUME PhaseInv, Merge PROVE PhaseInv'
  OBVIOUS
<1>1. /\ stage = "merge"
      /\ UNCHANGED <<now, stage, todo, cur, junctions, pending, graph, kills, runs>>
      /\ UNCHANGED <<rows, home, kind, basis, serial>>
  BY DEF Merge, stored, bounds
<1>2. PICK a \in Range(groups), b \in Range(groups) :
        /\ a # b
        /\ groups' = Sorted((Range(groups) \ {a, b}) \cup {a \cup b})
  BY DEF Merge
<1>3. Grouping /\ Working /\ Working'
  BY <1>1 DEF Working, Grouping
<1>4. /\ Range(groups) \in SUBSET SUBSET Table /\ {} \notin Range(groups)
      /\ \A x, y \in Range(groups) : x # y => x \cap y = {}
      /\ UNION Range(groups) = Full(cur) \ pending
  BY <1>3, GroupsFacts
<1> DEFINE P == Fused(Range(groups), a, b)
<1>5. groups' = Sorted(P)
  BY <1>2 DEF Fused
<1> HIDE DEF P
<1>6. /\ P \in SUBSET SUBSET Table /\ {} \notin P /\ UNION P = UNION Range(groups)
      /\ Sorted(P) \in Seq(P) /\ Range(Sorted(P)) = P
      /\ \A i, j \in DOMAIN Sorted(P) : i # j => Sorted(P)[i] \cap Sorted(P)[j] = {}
  BY <1>4, FusedFacts DEF P
<1>7. groups' \in Seq(SUBSET Table) /\ \A i \in DOMAIN groups' : groups'[i] # {}
  <2>1. groups' \in Seq(SUBSET Table) /\ \A i \in DOMAIN groups' : groups'[i] \in P
    BY <1>5, <1>6, SeqOfLess
  <2>2. QED
    BY <1>6, <2>1
<1>8. Apart'
  BY <1>5, <1>6, <1>7 DEF Apart
<1>9. UNION Range(groups') = Full(cur) \ pending'
  BY <1>1, <1>4, <1>5, <1>6
<1>10. graph' \in SUBSET SUBSET Table
  BY <1>1 DEF PhaseInv, ClusterTypeOK
<1>11. QED
  BY <1>1, <1>3, <1>7, <1>8, <1>9, <1>10, GroupingStep

LEMMA SettleInv == PhaseInv /\ Settle => PhaseInv'
<1> SUFFICES ASSUME PhaseInv, Settle PROVE PhaseInv'
  OBVIOUS
<1>1. /\ stage = "merge" /\ stage' = "attach"
      /\ UNCHANGED <<now, todo, cur, junctions, pending, graph, groups, kills, runs>>
      /\ UNCHANGED <<rows, home, kind, basis, serial>>
  BY DEF Settle, memory, stored, bounds
<1>2. Grouping /\ Working /\ Working'
  BY <1>1 DEF Working, Grouping
<1>3. UNION Range(groups') = Full(cur) \ pending' /\ groups' \in Seq(SUBSET Table)
  BY <1>1, <1>2, GroupsFacts
<1>4. Apart'
  BY <1>1, <1>2 DEF PhaseInv, Apart
<1>5. graph' \in SUBSET SUBSET Table
  BY <1>1 DEF PhaseInv, ClusterTypeOK
<1>6. QED
  BY <1>1, <1>2, <1>3, <1>4, <1>5, GroupingStep

LEMMA UnionRange ==
  ASSUME NEW G, NEW x
  PROVE  x \in UNION Range(G) <=> \E i \in DOMAIN G : x \in G[i]
BY DEF Range

(* Putting a table that has no group into a group, or into one of its own.   *)
LEMMA PlaceFacts ==
  ASSUME NEW G \in Seq(SUBSET Table), NEW j \in Table, NEW p,
         j \notin UNION Range(G),
         \A i \in DOMAIN G : G[i] # {},
         \A i, k \in DOMAIN G : i # k => G[i] \cap G[k] = {}
  PROVE  /\ Place(G, j, p) \in Seq(SUBSET Table)
         /\ \A i \in DOMAIN Place(G, j, p) : Place(G, j, p)[i] # {}
         /\ \A i, k \in DOMAIN Place(G, j, p) :
              i # k => Place(G, j, p)[i] \cap Place(G, j, p)[k] = {}
         /\ UNION Range(Place(G, j, p)) = (UNION Range(G)) \cup {j}
<1> DEFINE H == Place(G, j, p)
<1>1. /\ DOMAIN G = 1 .. Len(G) /\ Len(G) \in Nat
      /\ \A i \in DOMAIN G : G[i] \in SUBSET Table /\ j \notin G[i]
  BY DEF Range
<1>2. CASE \E i \in DOMAIN G : p \in G[i]
  <2>1. H = [i \in DOMAIN G |-> IF p \in G[i] THEN G[i] \cup {j} ELSE G[i]]
    BY <1>2 DEF Place
  <2>2. DOMAIN H = DOMAIN G
    BY <2>1
  <2>3. \A i \in DOMAIN G : H[i] = IF p \in G[i] THEN G[i] \cup {j} ELSE G[i]
    BY <2>1
  <2> HIDE DEF H
  <2>4. H \in Seq(SUBSET Table)
    <3>1. \A i \in DOMAIN G :
            (IF p \in G[i] THEN G[i] \cup {j} ELSE G[i]) \in SUBSET Table
      BY <1>1
    <3>2. QED
      BY <1>1, <2>1, <3>1
  <2>5. \A i, k \in DOMAIN H : i # k => H[i] \cap H[k] = {}
    BY <1>1, <2>2, <2>3
  <2>6. UNION Range(H) = (UNION Range(G)) \cup {j}
    <3>1. \A i \in DOMAIN G : G[i] \subseteq H[i] /\ H[i] \subseteq G[i] \cup {j}
      BY <2>3
    <3>2. \E i \in DOMAIN G : j \in H[i]
      BY <1>2, <2>3
    <3>3. ASSUME NEW x
          PROVE  x \in UNION Range(H) <=> x \in (UNION Range(G)) \cup {j}
      <4>1. (\E i \in DOMAIN H : x \in H[i]) <=> (\E i \in DOMAIN G : x \in G[i]) \/ x = j
        BY <2>2, <3>1, <3>2
      <4>2. QED
        BY <4>1, UnionRange
    <3>4. QED
      BY <3>3
  <2>7. QED
    BY <2>2, <2>3, <2>4, <2>5, <2>6 DEF H
<1>3. CASE ~\E i \in DOMAIN G : p \in G[i]
  <2>1. H = Append(G, {j})
    BY <1>3 DEF Place
  <2>2. /\ H \in Seq(SUBSET Table) /\ DOMAIN H = 1 .. Len(G) + 1
        /\ H[Len(G) + 1] = {j} /\ \A i \in DOMAIN G : H[i] = G[i]
    <3>1. {j} \in SUBSET Table
      OBVIOUS
    <3>2. QED
      BY <1>1, <2>1, <3>1
  <2> HIDE DEF H
  <2>3. \A i \in DOMAIN H : i \in DOMAIN G \/ i = Len(G) + 1
    BY <1>1, <2>2
  <2>4. \A i \in DOMAIN H : H[i] # {}
    BY <2>2, <2>3
  <2>5. \A i, k \in DOMAIN H : i # k => H[i] \cap H[k] = {}
    BY <1>1, <2>2, <2>3
  <2>6. UNION Range(H) = (UNION Range(G)) \cup {j}
    <3>1. (\A i \in DOMAIN G : i \in DOMAIN H) /\ Len(G) + 1 \in DOMAIN H
      BY <1>1, <2>2
    <3>2. ASSUME NEW x
          PROVE  x \in UNION Range(H) <=> x \in (UNION Range(G)) \cup {j}
      <4>1. (\E i \in DOMAIN H : x \in H[i]) <=> (\E i \in DOMAIN G : x \in G[i]) \/ x = j
        BY <2>2, <2>3, <3>1
      <4>2. QED
        BY <4>1, UnionRange
    <3>3. QED
      BY <3>2
  <2>7. QED
    BY <2>2, <2>4, <2>5, <2>6 DEF H
<1>4. QED
  BY <1>2, <1>3

LEMMA AttachInv == PhaseInv /\ Attach => PhaseInv'
<1> SUFFICES ASSUME PhaseInv, Attach PROVE PhaseInv'
  OBVIOUS
<1> DEFINE j == First
           p == Dominating(cur, junctions, First)
<1>1. /\ stage = "attach" /\ pending # {}
      /\ groups' = Place(groups, j, p) /\ pending' = pending \ {j}
      /\ UNCHANGED <<now, stage, todo, cur, junctions, graph, kills, runs>>
      /\ UNCHANGED <<rows, home, kind, basis, serial>>
  BY DEF Attach, stored, bounds
<1>2. Grouping /\ Working /\ Working'
  BY <1>1 DEF Working, Grouping
<1>3. now \in DOMAIN Scenes /\ pending \subseteq MayCollapse(cur)
  BY <1>2 DEF PhaseInv, ClusterTypeOK, Tagged
<1>4. j \in pending
  BY <1>1, <1>3, FirstPending
<1>5. j \in Full(cur) /\ j \in Table
  BY <1>3, <1>4, JunctionFacts, SceneFacts
<1>6. /\ groups \in Seq(SUBSET Table)
      /\ UNION Range(groups) = Full(cur) \ pending
  BY <1>2, GroupsFacts
<1>7. /\ \A i \in DOMAIN groups : groups[i] # {}
      /\ \A i, k \in DOMAIN groups : i # k => groups[i] \cap groups[k] = {}
  BY <1>2 DEF PhaseInv, Apart
<1> HIDE DEF j, p
<1>8. /\ Place(groups, j, p) \in Seq(SUBSET Table)
      /\ \A i \in DOMAIN Place(groups, j, p) : Place(groups, j, p)[i] # {}
      /\ \A i, k \in DOMAIN Place(groups, j, p) :
           i # k => Place(groups, j, p)[i] \cap Place(groups, j, p)[k] = {}
      /\ UNION Range(Place(groups, j, p)) = (UNION Range(groups)) \cup {j}
  BY <1>4, <1>5, <1>6, <1>7, PlaceFacts
<1>9. Apart' /\ groups' \in Seq(SUBSET Table)
  BY <1>1, <1>8 DEF Apart
<1>10. UNION Range(groups') = Full(cur) \ pending'
  <2>1. UNION Range(groups') = (Full(cur) \ pending) \cup {j}
    BY <1>1, <1>6, <1>8
  <2>2. (Full(cur) \ pending) \cup {j} = Full(cur) \ (pending \ {j})
    BY <1>4, <1>5
  <2>3. QED
    BY <1>1, <2>1, <2>2
<1>11. graph' \in SUBSET SUBSET Table
  BY <1>1 DEF PhaseInv, ClusterTypeOK
<1>12. QED
  BY <1>1, <1>2, <1>9, <1>10, <1>11, GroupingStep

(* The clusters a schema ends with hold each of its tables once.             *)
LEMMA ClustersFacts ==
  ASSUME PhaseInv, stage = "attach", pending = {}
  PROVE  /\ Clusters \in Seq(SUBSET Table)
         /\ \A i, k \in DOMAIN Clusters : i # k => Clusters[i] \cap Clusters[k] = {}
         /\ \A i \in DOMAIN Clusters : Clusters[i] \subseteq Listed(cur)
         /\ \A t \in Listed(cur) : \E i \in DOMAIN Clusters : t \in Clusters[i]
<1>1. now \in DOMAIN Scenes /\ Grouping
  BY DEF PhaseInv, ClusterTypeOK, Grouping
<1>2. /\ groups \in Seq(SUBSET Table)
      /\ UNION Range(groups) = Full(cur)
  BY <1>1, GroupsFacts
<1>3. \A i, k \in DOMAIN groups : i # k => groups[i] \cap groups[k] = {}
  BY <1>1 DEF PhaseInv, Apart
<1>4. /\ \A i \in DOMAIN groups : groups[i] \subseteq Full(cur)
      /\ \A t \in Full(cur) : \E i \in DOMAIN groups : t \in groups[i]
  BY <1>2 DEF Range
<1>5. /\ Full(cur) \cup Hollow(cur) = Listed(cur) /\ Full(cur) \cap Hollow(cur) = {}
      /\ Hollow(cur) \in SUBSET Table
  BY <1>1, SceneFacts
<1>6. CASE Hollow(cur) = {}
  BY <1>2, <1>3, <1>4, <1>5, <1>6 DEF Clusters
<1>7. CASE Hollow(cur) # {}
  <2> DEFINE H == Append(groups, Hollow(cur))
             n == Len(groups)
  <2>1. Clusters = H
    BY <1>7 DEF Clusters
  <2>2. DOMAIN groups = 1 .. n /\ n \in Nat
    BY <1>2
  <2>3. /\ H \in Seq(SUBSET Table) /\ DOMAIN H = 1 .. n + 1
        /\ H[n + 1] = Hollow(cur) /\ \A i \in DOMAIN groups : H[i] = groups[i]
    BY <1>2, <1>5, <2>2
  <2> HIDE DEF H, n
  <2>4. /\ \A i \in DOMAIN H : i \in DOMAIN groups \/ i = n + 1
        /\ \A i \in DOMAIN groups : i \in DOMAIN H
        /\ n + 1 \in DOMAIN H
    BY <2>2, <2>3
  <2>5. \A i, k \in DOMAIN H : i # k => H[i] \cap H[k] = {}
    BY <1>3, <1>4, <1>5, <2>3, <2>4
  <2>6. \A i \in DOMAIN H : H[i] \subseteq Listed(cur)
    BY <1>4, <1>5, <2>3, <2>4
  <2>7. \A t \in Listed(cur) : \E i \in DOMAIN H : t \in H[i]
    BY <1>4, <1>5, <2>3, <2>4
  <2>8. QED
    BY <2>1, <2>3, <2>5, <2>6, <2>7
<1>8. QED
  BY <1>6, <1>7

(* The transaction of a schema: the rows, the pointers to them and the scene *)
(* they stand for change together, and for the tables of the schema only.    *)
LEMMA StoreFacts ==
  ASSUME PhaseInv, Store
  PROVE  /\ stage' = "pick" /\ now \in DOMAIN Scenes /\ cur \in Schema
         /\ UNCHANGED <<now, todo, cur, junctions, pending, graph, groups, kills, runs>>
         /\ serial' = serial + Len(Clusters)
         /\ rows' \in [Schema -> Seq([pk : Nat, tables : SUBSET Table])]
         /\ \A s \in Schema \ {cur} : rows'[s] = rows[s]
         /\ DOMAIN rows'[cur] = DOMAIN Clusters
         /\ \A i \in DOMAIN Clusters : rows'[cur][i] = [pk |-> serial + i, tables |-> Clusters[i]]
         /\ home' \in [Table -> 0 .. serial']
         /\ \A t \in Table : SchemaOf[t] # cur => home'[t] = home[t]
         /\ \A t \in Table, i \in DOMAIN Clusters : t \in Clusters[i] => home'[t] = serial + i
         /\ \A t \in Table : /\ SchemaOf[t] = cur
                             /\ \A i \in DOMAIN Clusters : t \notin Clusters[i]
                             => home'[t] = 0
<1>1. /\ stage = "attach" /\ pending = {} /\ stage' = "pick"
      /\ rows' = [rows EXCEPT ![cur] =
           [i \in DOMAIN Clusters |-> [pk |-> serial + i, tables |-> Clusters[i]]]]
      /\ serial' = serial + Len(Clusters)
      /\ UNCHANGED <<now, todo, cur, junctions, pending, graph, groups, kills, runs>>
  BY DEF Store, memory, bounds
<1>2. home' = [t \in Table |->
        IF \E i \in DOMAIN Clusters : t \in Clusters[i]
        THEN Key(CHOOSE i \in DOMAIN Clusters : t \in Clusters[i])
        ELSE Cleared(home, 0)[t]]
  BY DEF Store
<1>3. /\ now \in DOMAIN Scenes /\ cur \in Schema /\ serial \in Nat
      /\ rows \in [Schema -> Seq([pk : Nat, tables : SUBSET Table])]
      /\ home \in [Table -> 0 .. serial]
  BY DEF PhaseInv, ClusterTypeOK
<1>4. /\ Clusters \in Seq(SUBSET Table)
      /\ \A i, k \in DOMAIN Clusters : i # k => Clusters[i] \cap Clusters[k] = {}
      /\ \A i \in DOMAIN Clusters : Clusters[i] \subseteq Listed(cur)
  BY <1>1, ClustersFacts
<1> DEFINE C == Clusters
<1> HIDE DEF C
<1>5. C = Clusters
  BY DEF C
<1>6. DOMAIN C = 1 .. Len(C) /\ Len(C) \in Nat /\ \A i \in DOMAIN C : C[i] \in SUBSET Table
  BY <1>4, <1>5
<1>7. /\ rows' \in [Schema -> Seq([pk : Nat, tables : SUBSET Table])]
      /\ \A s \in Schema \ {cur} : rows'[s] = rows[s]
      /\ rows'[cur] = [i \in DOMAIN C |-> [pk |-> serial + i, tables |-> C[i]]]
  <2> DEFINE new == [i \in DOMAIN C |-> [pk |-> serial + i, tables |-> C[i]]]
  <2>1. \A i \in DOMAIN C : [pk |-> serial + i, tables |-> C[i]] \in [pk : Nat, tables : SUBSET Table]
    BY <1>3, <1>6
  <2>2. new \in Seq([pk : Nat, tables : SUBSET Table])
    BY <1>6, <2>1
  <2>3. rows' = [rows EXCEPT ![cur] = new]
    BY <1>1, <1>5
  <2> HIDE DEF new
  <2>4. /\ rows' \in [Schema -> Seq([pk : Nat, tables : SUBSET Table])]
        /\ \A s \in Schema \ {cur} : rows'[s] = rows[s]
        /\ rows'[cur] = new
    BY <1>3, <2>2, <2>3
  <2>5. QED
    BY <2>4 DEF new
<1>8. \A t \in Table, i \in DOMAIN C : t \in C[i] =>
        (CHOOSE k \in DOMAIN Clusters : t \in Clusters[k]) = i
  BY <1>4, <1>5
<1>9. \A t \in Table, i \in DOMAIN C : t \in C[i] => home'[t] = serial + i
  BY <1>2, <1>5, <1>8 DEF Key
<1>10. \A t \in Table : (\A i \in DOMAIN C : t \notin C[i]) =>
         home'[t] = IF SchemaOf[t] = cur THEN 0 ELSE home[t]
  BY <1>2, <1>5 DEF Cleared
<1>11. \A t \in Table : SchemaOf[t] # cur => \A i \in DOMAIN C : t \notin C[i]
  BY <1>3, <1>4, <1>5, SceneFacts
<1>12. home' \in [Table -> 0 .. serial']
  <2>1. \A t \in Table : home'[t] \in 0 .. serial'
    <3>1. TAKE t \in Table
    <3>2. ASSUME NEW i \in DOMAIN C, t \in C[i] PROVE home'[t] \in 0 .. serial'
      BY <1>1, <1>3, <1>5, <1>6, <1>9, <3>2
    <3>3. ASSUME \A i \in DOMAIN C : t \notin C[i] PROVE home'[t] \in 0 .. serial'
      <4>1. home[t] \in 0 .. serial
        BY <1>3
      <4>2. QED
        BY <1>1, <1>3, <1>5, <1>6, <1>10, <3>3, <4>1
    <3>4. QED
      BY <3>2, <3>3
  <2>2. home' = [t \in Table |-> home'[t]]
    BY <1>2
  <2>3. QED
    BY <2>1, <2>2
<1>13. DOMAIN rows'[cur] = DOMAIN Clusters
  BY <1>5, <1>7
<1>14. \A i \in DOMAIN Clusters : rows'[cur][i] = [pk |-> serial + i, tables |-> Clusters[i]]
  BY <1>5, <1>7
<1>15. QED
  BY <1>1, <1>3, <1>5, <1>7, <1>9, <1>10, <1>11, <1>12, <1>13, <1>14

LEMMA StoreInv == PhaseInv /\ Store => PhaseInv'
<1> SUFFICES ASSUME PhaseInv, Store PROVE PhaseInv'
  OBVIOUS
<1>1. /\ stage' = "pick" /\ now \in DOMAIN Scenes /\ cur \in Schema
      /\ UNCHANGED <<now, todo, cur, junctions, pending, graph, groups, kills, runs>>
      /\ serial' = serial + Len(Clusters)
      /\ rows' \in [Schema -> Seq([pk : Nat, tables : SUBSET Table])]
      /\ \A s \in Schema \ {cur} : rows'[s] = rows[s]
      /\ DOMAIN rows'[cur] = DOMAIN Clusters
      /\ \A i \in DOMAIN Clusters : rows'[cur][i] = [pk |-> serial + i, tables |-> Clusters[i]]
      /\ home' \in [Table -> 0 .. serial']
  BY StoreFacts
<1>2. /\ \A t \in Table : SchemaOf[t] # cur => home'[t] = home[t]
      /\ \A t \in Table, i \in DOMAIN Clusters : t \in Clusters[i] => home'[t] = serial + i
      /\ \A t \in Table : /\ SchemaOf[t] = cur
                          /\ \A i \in DOMAIN Clusters : t \notin Clusters[i]
                          => home'[t] = 0
  BY StoreFacts
<1>3. stage = "attach" /\ pending = {} /\ basis' = [basis EXCEPT ![cur] = now]
  BY DEF Store
<1>4. /\ Clusters \in Seq(SUBSET Table)
      /\ \A t \in Listed(cur) : \E i \in DOMAIN Clusters : t \in Clusters[i]
  BY <1>3, ClustersFacts
<1>5. DOMAIN Clusters = 1 .. Len(Clusters) /\ Len(Clusters) \in Nat
  BY <1>4
<1>6. serial \in Nat /\ basis \in [Schema -> DOMAIN Scenes]
  BY DEF PhaseInv, ClusterTypeOK
<1>7. basis' \in [Schema -> DOMAIN Scenes] /\ basis'[cur] = now
      /\ \A s \in Schema \ {cur} : basis'[s] = basis[s]
  BY <1>1, <1>3, <1>6
<1>8. kind' \in [Table -> Kind]
  <2>1. kind \in [Table -> Kind]
    BY DEF PhaseInv, ClusterTypeOK
  <2>2. \A t \in Table : Cleared(kind, "none")[t] \in Kind
    BY <2>1 DEF Cleared, Kind
  <2>3. QED
    BY <2>2 DEF Store, Kind
<1>9. ClusterTypeOK'
  <2>1. serial' \in Nat
    BY <1>1, <1>5, <1>6
  <2>2. QED
    BY <1>1, <1>7, <1>8, <2>1 DEF PhaseInv, ClusterTypeOK
<1>10. StoredAgrees'
  <2> DEFINE R(t) == rows'[SchemaOf[t]]
  <2>1. SUFFICES ASSUME NEW t \in Table
                 PROVE  /\ home'[t] # 0 =>
                             \E i \in DOMAIN R(t) : R(t)[i].pk = home'[t] /\ t \in R(t)[i].tables
                        /\ \A i \in DOMAIN R(t) : t \in R(t)[i].tables => R(t)[i].pk = home'[t]
    BY DEF StoredAgrees
  <2>2. CASE SchemaOf[t] # cur
    <3>1. rows'[SchemaOf[t]] = rows[SchemaOf[t]] /\ home'[t] = home[t]
      BY <1>1, <1>2, <2>2, SchemaFacts
    <3>2. QED
      BY <3>1 DEF PhaseInv, StoredAgrees
  <2>3. CASE SchemaOf[t] = cur
    <3>1. /\ DOMAIN R(t) = DOMAIN Clusters
          /\ \A i \in DOMAIN Clusters : R(t)[i].pk = serial + i /\ R(t)[i].tables = Clusters[i]
      BY <1>1, <2>3
    <3> HIDE DEF R
    <3>2. QED
      BY <1>2, <2>3, <3>1
  <2>4. QED
    BY <2>2, <2>3
<1>11. Visited'
  <2>1. SUFFICES ASSUME NEW t \in scene.present, ~Waiting(t)'
                 PROVE  home'[t] # 0 /\ basis'[SchemaOf[t]] = now
    BY <1>1 DEF Visited, scene
  <2>2. t \in Table /\ SchemaOf[t] \in Schema
    BY <1>1, SceneFacts, SchemaFacts
  <2>3. CASE SchemaOf[t] # cur
    <3>1. ~Waiting(t)
      BY <1>1, <2>1, <2>3 DEF Waiting
    <3>2. home[t] # 0 /\ basis[SchemaOf[t]] = now
      BY <1>3, <3>1 DEF PhaseInv, Visited
    <3>3. QED
      BY <1>2, <1>7, <2>2, <2>3, <3>2
  <2>4. CASE SchemaOf[t] = cur
    <3>1. t \in Listed(cur)
      BY <2>4 DEF Listed
    <3>2. PICK i \in DOMAIN Clusters : t \in Clusters[i]
      BY <1>4, <3>1
    <3>3. home'[t] = serial + i
      BY <1>2, <2>2, <3>2
    <3>4. QED
      BY <1>5, <1>6, <1>7, <2>4, <3>3
  <2>5. QED
    BY <2>3, <2>4
<1>12. QED
  BY <1>1, <1>9, <1>10, <1>11 DEF PhaseInv, Tagged, Apart, Covering, Working, Grouping

LEMMA EndPhaseInv == PhaseInv /\ EndPhase => PhaseInv'
<1> SUFFICES ASSUME PhaseInv, EndPhase PROVE PhaseInv'
  OBVIOUS
<1>1. /\ stage = "pick" /\ todo = {} /\ stage' = "done"
      /\ UNCHANGED <<now, todo, cur, junctions, pending, graph, groups, kills, runs>>
      /\ UNCHANGED <<rows, home, kind, basis, serial>>
  BY DEF EndPhase, memory, stored, bounds
<1>2. ClusterTypeOK'
  BY <1>1 DEF PhaseInv, ClusterTypeOK
<1>3. Visited'
  BY <1>1 DEF PhaseInv, Visited, Waiting, Working, Grouping, scene
<1>4. StoredAgrees'
  BY <1>1, StoredStays DEF PhaseInv, stored
<1>5. QED
  BY <1>1, <1>2, <1>3, <1>4 DEF PhaseInv, Tagged, Apart, Covering, Working, Grouping

LEMMA AbortInv == PhaseInv /\ Abort => PhaseInv'
<1> SUFFICES ASSUME PhaseInv, Abort PROVE PhaseInv'
  OBVIOUS
<1>1. /\ stage' = "down" /\ kills < MaxKills /\ kills' = kills + 1
      /\ todo' = {} /\ cur' = CHOOSE s \in Schema : TRUE
      /\ junctions' = {} /\ pending' = {} /\ graph' = {} /\ groups' = <<>>
      /\ UNCHANGED <<now, rows, home, kind, basis, serial, runs>>
  BY DEF Abort, stored
<1>2. kills' \in 0 .. MaxKills
  BY <1>1, ClustersAssumption DEF PhaseInv, ClusterTypeOK
<1>3. cur' \in Schema /\ groups' \in Seq(SUBSET Table)
  BY <1>1, SchemaFacts
<1>4. ClusterTypeOK'
  BY <1>1, <1>2, <1>3 DEF PhaseInv, ClusterTypeOK
<1>5. StoredAgrees'
  BY <1>1, StoredStays DEF PhaseInv, stored
<1>6. QED
  BY <1>1, <1>4, <1>5 DEF PhaseInv, Tagged, Apart, Covering, Visited, Working, Grouping

LEMMA RescanInv == PhaseInv /\ Rescan => PhaseInv'
<1> SUFFICES ASSUME PhaseInv, Rescan PROVE PhaseInv'
  OBVIOUS
<1>1. /\ stage' = "down" /\ now' \in DOMAIN Scenes
      /\ UNCHANGED <<todo, cur, junctions, pending, graph, groups, kills, runs>>
      /\ UNCHANGED <<rows, home, kind, basis, serial>>
  BY DEF Rescan, memory, stored, bounds
<1>2. ClusterTypeOK'
  BY <1>1 DEF PhaseInv, ClusterTypeOK
<1>3. StoredAgrees'
  BY <1>1, StoredStays DEF PhaseInv, stored
<1>4. QED
  BY <1>1, <1>2, <1>3 DEF PhaseInv, Tagged, Apart, Covering, Visited, Working, Grouping

LEMMA ClusterStutterInv == PhaseInv /\ UNCHANGED clusterVars => PhaseInv'
<1> SUFFICES ASSUME PhaseInv, UNCHANGED clusterVars PROVE PhaseInv'
  OBVIOUS
<1>1. /\ UNCHANGED <<now, stage, todo, cur, junctions, pending, graph, groups, kills, runs>>
      /\ UNCHANGED <<rows, home, kind, basis, serial>>
  BY DEF clusterVars, memory, stored, bounds
<1>2. ClusterTypeOK'
  BY <1>1 DEF PhaseInv, ClusterTypeOK
<1>3. StoredAgrees'
  BY <1>1, StoredStays DEF PhaseInv, stored
<1>4. /\ \A x : MayCollapse(x)' = MayCollapse(x)
      /\ Full(cur)' = Full(cur) /\ \A t : Waiting(t)' = Waiting(t)
  BY <1>1 DEF MayCollapse, Narrow, Parents, Dominant, Edge, Links, Full, Listed, scene,
              Waiting, Working, Grouping
<1>5. Tagged' /\ Apart' /\ Covering'
  BY <1>1, <1>4 DEF PhaseInv, Tagged, Apart, Covering, Working, Grouping
<1>6. Visited'
  BY <1>1, <1>4 DEF PhaseInv, Visited, scene
<1>7. QED
  BY <1>2, <1>3, <1>5, <1>6 DEF PhaseInv

(***************************************************************************)
(* The inductive invariant of the clustering phase.                        *)
(***************************************************************************)
THEOREM PhaseInvariance == ClusterSpec => []PhaseInv
<1>1. ClusterInit => PhaseInv
  BY ClusterInitInv
<1>2. PhaseInv /\ [ClusterNext]_clusterVars => PhaseInv'
  BY StartClusteringInv, PickInv, LouvainInv, MergeInv, SettleInv, AttachInv, StoreInv,
     EndPhaseInv, AbortInv, RescanInv, ClusterStutterInv DEF ClusterNext
<1>3. QED
  BY <1>1, <1>2, PTL DEF ClusterSpec

(***************************************************************************)
(* Every variable of the clustering phase keeps its type.                  *)
(***************************************************************************)
THEOREM ClusterTypes == ClusterSpec => []ClusterTypeOK
<1>1. PhaseInv => ClusterTypeOK
  BY DEF PhaseInv
<1>2. QED
  BY <1>1, PhaseInvariance, PTL

(***************************************************************************)
(* The two records of a cluster, the rows of clusters and the cluster_id   *)
(* of the tables, agree whatever was killed between two schemas.           *)
(***************************************************************************)
THEOREM TablesPointToTheirRow == ClusterSpec => []StoredAgrees
<1>1. PhaseInv => StoredAgrees
  BY DEF PhaseInv
<1>2. QED
  BY <1>1, PhaseInvariance, PTL

(***************************************************************************)
(* A run that ends has given every table of the inventory a cluster, made  *)
(* from what the database showed this run and not an earlier one.          *)
(***************************************************************************)
THEOREM EveryTableReplaced == ClusterSpec => []Replaced
<1>1. PhaseInv => Replaced
  BY DEF PhaseInv, Visited, Replaced, Waiting, Working, Grouping
<1>2. QED
  BY <1>1, PhaseInvariance, PTL
-----------------------------------------------------------------------------
(* Weights are natural numbers, so a junction has a dominating parent. *)

(* How the folds of the model sum over a finite set: it takes the members    *)
(* out one by one, in an order of its own.                                   *)
AnyOf(s) == CHOOSE x \in s : TRUE
SumOver(S, v, g) ==
  [s \in SUBSET S |-> IF s = {} THEN 0 ELSE v[AnyOf(s)] + g[s \ {AnyOf(s)}]]

LEMMA AnyFacts ==
  ASSUME NEW S, IsFiniteSet(S), NEW s \in SUBSET S, s # {}
  PROVE  /\ AnyOf(s) \in s /\ s \ {AnyOf(s)} \in SUBSET S
         /\ Cardinality(s) \in Nat \ {0}
         /\ Cardinality(s \ {AnyOf(s)}) = Cardinality(s) - 1
<1>1. AnyOf(s) \in s
  BY DEF AnyOf
<1>2. IsFiniteSet(s) /\ Cardinality(s) \in Nat
  BY FS_Subset, FS_CardinalityType
<1>3. Cardinality(s) # 0
  BY <1>2, FS_EmptySet
<1>4. QED
  BY <1>1, <1>2, <1>3, FS_RemoveElement

(* The sum exists: it is built for ever larger subsets.                      *)
LEMMA SumExists ==
  ASSUME NEW S, IsFiniteSet(S), NEW v \in [S -> Nat]
  PROVE  \E g : g = SumOver(S, v, g)
<1> DEFINE C(n) == {s \in SUBSET S : Cardinality(s) <= n}
           Upto(n, h) == \A s \in C(n) : h[s] = IF s = {} THEN 0
                                                ELSE v[AnyOf(s)] + h[s \ {AnyOf(s)}]
           Bad == {n \in Nat : ~\E h : Upto(n, h)}
<1>1. Bad = {}
  <2>1. SUFFICES ASSUME Bad # {} PROVE FALSE
    OBVIOUS
  <2> DEFINE m == Min(Bad)
  <2>2. m \in Bad /\ \A n \in Bad : m <= n
    BY <2>1, LeastNatural
  <2> HIDE DEF m
  <2>3. m \in Nat /\ ~\E h : Upto(m, h)
    BY <2>2
  <2>4. ASSUME NEW s \in SUBSET S, s # {} PROVE ~(Cardinality(s) <= 0)
    <3>1. Cardinality(s) \in Nat \ {0}
      BY <2>4, AnyFacts
    <3>2. QED
      BY <3>1
  <2>5. m # 0
    <3>1. ASSUME m = 0 PROVE FALSE
      <4>1. \A s \in C(m) : s = {}
        <5>1. TAKE s \in C(m)
        <5>2. s \in SUBSET S /\ Cardinality(s) <= 0
          BY <3>1
        <5>3. QED
          BY <2>4, <5>2
      <4> DEFINE h == [s \in C(m) |-> 0]
      <4>2. Upto(m, h)
        BY <4>1
      <4>3. QED
        BY <2>3, <4>2
    <3>2. QED
      BY <3>1
  <2>6. m - 1 \in Nat /\ m - 1 \notin Bad
    <3> HIDE DEF Bad
    <3>1. QED
      BY <2>2, <2>3, <2>5
  <2>7. PICK g : Upto(m - 1, g)
    BY <2>6
  <2> DEFINE h == [s \in C(m) |-> IF s \in C(m - 1) THEN g[s]
                                  ELSE v[AnyOf(s)] + g[s \ {AnyOf(s)}]]
  <2>8. \A s \in C(m) : s # {} => s \ {AnyOf(s)} \in C(m - 1) /\ s \ {AnyOf(s)} \in C(m)
    <3>1. TAKE s \in C(m)
    <3>2. ASSUME s # {} PROVE s \ {AnyOf(s)} \in C(m - 1) /\ s \ {AnyOf(s)} \in C(m)
      <4>1. /\ s \ {AnyOf(s)} \in SUBSET S /\ Cardinality(s) \in Nat \ {0}
            /\ Cardinality(s \ {AnyOf(s)}) = Cardinality(s) - 1
        BY <3>2, AnyFacts
      <4>2. QED
        BY <2>3, <4>1
    <3>3. QED
      BY <3>2
  <2>9. {} \in C(m - 1)
    BY <2>6, FS_EmptySet
  <2>10. Upto(m, h)
    <3>1. TAKE s \in C(m)
    <3>2. CASE s = {}
      BY <2>7, <2>9, <3>2
    <3>3. CASE s # {}
      <4>1. h[s \ {AnyOf(s)}] = g[s \ {AnyOf(s)}]
        BY <2>8, <3>3
      <4>2. s \in C(m - 1) => g[s] = v[AnyOf(s)] + g[s \ {AnyOf(s)}]
        BY <2>7, <3>3
      <4>3. h[s] = v[AnyOf(s)] + g[s \ {AnyOf(s)}]
        BY <4>2
      <4>4. QED
        BY <3>3, <4>1, <4>3
    <3>4. QED
      BY <3>2, <3>3
  <2>11. QED
    BY <2>3, <2>10
<1>2. Cardinality(S) \in Nat
  BY FS_CardinalityType
<1>3. PICK h : Upto(Cardinality(S), h)
  BY <1>1, <1>2
<1>4. \A s \in SUBSET S : s \in C(Cardinality(S))
  BY FS_Subset
<1> DEFINE g == [s \in SUBSET S |-> h[s]]
<1>5. \A s \in SUBSET S : s # {} => s \ {AnyOf(s)} \in SUBSET S
  OBVIOUS
<1>6. g = SumOver(S, v, g)
  <2>1. \A s \in SUBSET S : g[s] = IF s = {} THEN 0 ELSE v[AnyOf(s)] + g[s \ {AnyOf(s)}]
    BY <1>3, <1>4, <1>5
  <2>2. QED
    BY <2>1 DEF SumOver
<1>7. QED
  BY <1>6

LEMMA SumType ==
  ASSUME NEW S, IsFiniteSet(S), NEW v \in [S -> Nat], NEW g, g = SumOver(S, v, g)
  PROVE  g[S] \in Nat
<1>1. \A s \in SUBSET S : g[s] = IF s = {} THEN 0 ELSE v[AnyOf(s)] + g[s \ {AnyOf(s)}]
  BY DEF SumOver
<1> DEFINE Bad == {s \in SUBSET S : g[s] \notin Nat}
           sizes == {Cardinality(s) : s \in Bad}
<1>2. \A s \in SUBSET S : Cardinality(s) \in Nat
  BY FS_Subset, FS_CardinalityType
<1>3. ASSUME Bad # {} PROVE FALSE
  <2>1. Min(sizes) \in sizes /\ \A n \in sizes : Min(sizes) <= n
    <3>1. sizes \in SUBSET Nat /\ sizes # {}
      BY <1>2, <1>3
    <3>2. QED
      BY <3>1, LeastNatural
  <2>2. PICK s \in Bad : Cardinality(s) = Min(sizes)
    BY <2>1
  <2>3. s # {} /\ s \in SUBSET S
    <3>1. g[{}] = 0
      BY <1>1
    <3>2. g[s] \notin Nat /\ s \in SUBSET S
      OBVIOUS
    <3>3. QED
      BY <3>1, <3>2
  <2>4. /\ AnyOf(s) \in s /\ s \ {AnyOf(s)} \in SUBSET S
        /\ Cardinality(s) \in Nat \ {0}
        /\ Cardinality(s \ {AnyOf(s)}) = Cardinality(s) - 1
    BY <2>3, AnyFacts
  <2>5. s \ {AnyOf(s)} \notin Bad
    <3> HIDE DEF sizes
    <3>1. Cardinality(s \ {AnyOf(s)}) \notin sizes
      BY <2>1, <2>2, <2>4
    <3>2. QED
      BY <3>1 DEF sizes
  <2>6. g[s \ {AnyOf(s)}] \in Nat /\ v[AnyOf(s)] \in Nat
    BY <2>4, <2>5
  <2>7. g[s] \in Nat
    BY <1>1, <2>3, <2>6
  <2>8. QED
    BY <2>7
<1>4. QED
  BY <1>3

LEMMA SumIsNatural ==
  ASSUME NEW S, IsFiniteSet(S), NEW v \in [S -> Nat]
  PROVE  (CHOOSE g : g = SumOver(S, v, g))[S] \in Nat
<1> DEFINE iter == CHOOSE g : g = SumOver(S, v, g)
<1>1. iter = SumOver(S, v, iter)
  BY SumExists
<1> HIDE DEF iter
<1>2. iter[S] \in Nat
  BY <1>1, SumType
<1>3. QED
  BY <1>2 DEF iter

LEMMA WeightType ==
  ASSUME NEW L \in SUBSET Link, IsFiniteSet(L)
  PROVE  Weight(L) \in Nat
<1> DEFINE v == [l \in L |-> l.weight]
<1>1. v \in [L -> Nat]
  BY DEF Link
<1>2. \A g : SumOver(L, v, g) =
               [s \in SUBSET L |-> IF s = {} THEN 0
                  ELSE (CHOOSE x \in s : TRUE).weight + g[s \ {CHOOSE x \in s : TRUE}]]
  <2>1. \A s \in SUBSET L : s # {} => v[AnyOf(s)] = (CHOOSE x \in s : TRUE).weight
    BY DEF AnyOf
  <2>2. QED
    BY <2>1 DEF SumOver, AnyOf
<1>3. Weight(L) = (CHOOSE g : g = SumOver(L, v, g))[L]
  BY <1>2 DEF Weight, MapThenSumSet, MapThenFoldSet
<1>4. QED
  BY <1>1, <1>3, SumIsNatural

LEMMA EdgeWeight ==
  ASSUME now \in DOMAIN Scenes, NEW s, NEW p, NEW c
  PROVE  Weight(Edge(s, p, c)) \in Nat
<1>1. scene.link \in SUBSET Link /\ IsFiniteSet(scene.link)
  BY ClustersAssumption DEF scene, Scene
<1>2. Edge(s, p, c) \in SUBSET scene.link
  BY DEF Edge, Links
<1>3. Edge(s, p, c) \in SUBSET Link /\ IsFiniteSet(Edge(s, p, c))
  BY <1>1, <1>2, FS_Subset
<1>4. QED
  BY <1>3, WeightType

LEMMA BridgeType ==
  ASSUME now \in DOMAIN Scenes, NEW s, NEW j, TopTwo(s, j) # {}
  PROVE  BridgeWeight(s, j) \in Nat
<1> DEFINE W == {Weight(Edge(s, p, j)) : p \in TopTwo(s, j)}
<1>1. W \in SUBSET Nat
  BY EdgeWeight
<1>2. W # {}
  OBVIOUS
<1> HIDE DEF W
<1>3. Min(W) \in Nat
  BY <1>1, <1>2, LeastNatural
<1>4. QED
  BY <1>3 DEF BridgeWeight, W

LEMMA BridgesWeigh ==
  ASSUME now \in DOMAIN Scenes, NEW s, NEW J, IsFiniteSet(J), NEW a, NEW b
  PROVE  MapThenSumSet(LAMBDA j : BridgeWeight(s, j), Bridges(s, J, a, b)) \in Nat
<1> DEFINE B == Bridges(s, J, a, b)
           v == [j \in B |-> BridgeWeight(s, j)]
<1>1. B \in SUBSET J /\ \A j \in B : TopTwo(s, j) # {}
  BY DEF Bridges
<1>2. IsFiniteSet(B)
  BY <1>1, FS_Subset
<1>3. \A j \in B : BridgeWeight(s, j) \in Nat
  BY <1>1, BridgeType
<1> HIDE DEF B
<1>4. v \in [B -> Nat]
  BY <1>3
<1>5. \A g : SumOver(B, v, g) =
               [x \in SUBSET B |-> IF x = {} THEN 0
                  ELSE BridgeWeight(s, CHOOSE j \in x : TRUE) + g[x \ {CHOOSE j \in x : TRUE}]]
  <2>1. \A x \in SUBSET B : x # {} => v[AnyOf(x)] = BridgeWeight(s, CHOOSE j \in x : TRUE)
    BY DEF AnyOf
  <2>2. QED
    BY <2>1 DEF SumOver, AnyOf
<1>6. MapThenSumSet(LAMBDA j : BridgeWeight(s, j), B) = (CHOOSE g : g = SumOver(B, v, g))[B]
  BY <1>5 DEF MapThenSumSet, MapThenFoldSet
<1>7. QED
  BY <1>2, <1>4, <1>6, SumIsNatural DEF B

LEMMA DegreeType ==
  ASSUME now \in DOMAIN Scenes, NEW s, NEW J, IsFiniteSet(J), NEW a
  PROVE  Degree(s, J, a) \in Nat
<1> DEFINE F == Full(s) \ {a}
           near(b) == Plain(s, J, a, b)
                      + MapThenSumSet(LAMBDA j : BridgeWeight(s, j), Bridges(s, J, a, b))
           v == [b \in F |-> near(b)]
<1>1. IsFiniteSet(F)
  <2>1. F \in SUBSET Table
    BY SceneFacts
  <2>2. QED
    BY <2>1, TableFinite
<1>2. ASSUME NEW b PROVE near(b) \in Nat
  <2>1. Plain(s, J, a, b) \in Nat
    BY EdgeWeight DEF Plain
  <2>2. MapThenSumSet(LAMBDA j : BridgeWeight(s, j), Bridges(s, J, a, b)) \in Nat
    BY BridgesWeigh
  <2>3. QED
    BY <2>1, <2>2
<1>3. Degree(s, J, a) = IF a \in J THEN 0 ELSE MapThenSumSet(LAMBDA b : near(b), F)
  BY DEF Degree
<1> HIDE DEF F, near
<1>4. v \in [F -> Nat]
  BY <1>2
<1>5. \A g : SumOver(F, v, g) =
               [x \in SUBSET F |-> IF x = {} THEN 0
                  ELSE near(CHOOSE b \in x : TRUE) + g[x \ {CHOOSE b \in x : TRUE}]]
  <2>1. \A x \in SUBSET F : x # {} => v[AnyOf(x)] = near(CHOOSE b \in x : TRUE)
    BY DEF AnyOf
  <2>2. QED
    BY <2>1 DEF SumOver, AnyOf
<1>6. MapThenSumSet(LAMBDA b : near(b), F) = (CHOOSE g : g = SumOver(F, v, g))[F]
  BY <1>5 DEF MapThenSumSet, MapThenFoldSet
<1>7. MapThenSumSet(LAMBDA b : near(b), F) \in Nat
  BY <1>1, <1>4, <1>6, SumIsNatural
<1>8. QED
  BY <1>3, <1>7

(* A strict order on a finite set leaves one of its members without any      *)
(* ahead of it.                                                              *)
LEMMA Foremost ==
  ASSUME NEW S, IsFiniteSet(S), S # {}, NEW R,
         \A x \in S : <<x, x>> \notin R,
         \A x, y, z \in S : <<x, y>> \in R /\ <<y, z>> \in R => <<x, z>> \in R
  PROVE  \E p \in S : \A q \in S : <<q, p>> \notin R
<1> DEFINE before(p) == {q \in S : <<q, p>> \in R}
           sizes == {Cardinality(before(p)) : p \in S}
<1>1. \A p \in S : IsFiniteSet(before(p)) /\ Cardinality(before(p)) \in Nat
  <2>1. TAKE p \in S
  <2>2. before(p) \in SUBSET S
    OBVIOUS
  <2>3. QED
    BY <2>2, FS_Subset, FS_CardinalityType
<1>2. Min(sizes) \in sizes /\ \A n \in sizes : Min(sizes) <= n
  <2>1. PICK p \in S : TRUE
    OBVIOUS
  <2>2. Cardinality(before(p)) \in sizes
    OBVIOUS
  <2>3. ASSUME NEW n \in sizes PROVE n \in Nat
    <3>1. PICK q \in S : n = Cardinality(before(q))
      OBVIOUS
    <3>2. Cardinality(before(q)) \in Nat
      BY <1>1
    <3>3. QED
      BY <3>1, <3>2
  <2>4. QED
    BY <2>2, <2>3, LeastNatural
<1>3. PICK p \in S : Cardinality(before(p)) = Min(sizes)
  BY <1>2
<1>4. ASSUME NEW q \in S, <<q, p>> \in R PROVE FALSE
  <2>1. before(q) \in SUBSET before(p) /\ q \in before(p) /\ q \notin before(q)
    BY <1>4
  <2>2. Cardinality(before(q)) \in sizes
    OBVIOUS
  <2> HIDE DEF before, sizes
  <2>3. /\ Cardinality(before(q)) <= Cardinality(before(p))
        /\ Cardinality(before(q)) # Cardinality(before(p))
    BY <1>1, <2>1, FS_Subset
  <2>4. Cardinality(before(p)) <= Cardinality(before(q))
    BY <1>2, <1>3, <2>2
  <2>5. QED
    BY <1>1, <2>3, <2>4
<1>5. QED
  BY <1>4

(* The parent a junction follows is one of its own.                          *)
LEMMA DominatingIsParent ==
  ASSUME now \in DOMAIN Scenes, NEW s, NEW J, IsFiniteSet(J), NEW j \in MayCollapse(s)
  PROVE  Dominating(s, J, j) \in Parents(s, j)
<1> DEFINE P == Parents(s, j)
           w(x) == Weight(Edge(s, x, j))
           R == {x \in P \X P : Heavier(s, j, x[1], x[2])}
<1>1. /\ P # {} /\ IsFiniteSet(P) /\ \A p \in P : p \in Nat
  <2>1. P \in SUBSET Table /\ \A p \in P : p \in Nat
    BY SceneFacts
  <2>2. QED
    BY <2>1, JunctionFacts, TableFinite
<1>2. \A p : w(p) \in Nat
  BY EdgeWeight
<1>3. \A p, q \in P : <<p, q>> \in R <=> w(p) > w(q) \/ (w(p) = w(q) /\ p < q)
  BY DEF Heavier
<1> HIDE DEF w, R, P
<1>4. PICK p \in P : \A q \in P : <<q, p>> \notin R
  <2>1. \A x \in P : <<x, x>> \notin R
    BY <1>1, <1>2, <1>3
  <2>2. \A x, y, z \in P : <<x, y>> \in R /\ <<y, z>> \in R => <<x, z>> \in R
    BY <1>1, <1>2, <1>3
  <2>3. QED
    BY <1>1, <2>1, <2>2, Foremost
<1>5. p \in TopTwo(s, j)
  <2>1. {q \in P : Heavier(s, j, q, p)} = {}
    BY <1>4 DEF R
  <2>2. Cardinality({q \in P : Heavier(s, j, q, p)}) < 2
    BY <2>1, FS_EmptySet
  <2>3. QED
    BY <2>2 DEF TopTwo, P
<1> DEFINE T == TopTwo(s, j)
           d(x) == Degree(s, J, x)
           Q == {x \in T \X T : d(x[1]) > d(x[2]) \/ (d(x[1]) = d(x[2]) /\ x[1] < x[2])}
<1>6. T \in SUBSET P
  BY DEF TopTwo, P
<1>7. \A x : d(x) \in Nat
  BY DegreeType
<1>8. Dominating(s, J, j) =
        CHOOSE x \in T : \A q \in T \ {x} : d(x) > d(q) \/ (d(x) = d(q) /\ x < q)
  BY DEF Dominating
<1>9. \A x, q \in T : <<x, q>> \in Q <=> d(x) > d(q) \/ (d(x) = d(q) /\ x < q)
  OBVIOUS
<1>10. IsFiniteSet(T) /\ T # {} /\ \A x \in T : x \in Nat
  BY <1>1, <1>5, <1>6, FS_Subset
<1> HIDE DEF T, d, Q
<1>11. PICK x \in T : \A q \in T : <<q, x>> \notin Q
  <2>1. \A y \in T : <<y, y>> \notin Q
    BY <1>7, <1>9, <1>10
  <2>2. \A u, y, z \in T : <<u, y>> \in Q /\ <<y, z>> \in Q => <<u, z>> \in Q
    BY <1>7, <1>9, <1>10
  <2>3. QED
    BY <1>10, <2>1, <2>2, Foremost
<1>12. \A q \in T \ {x} : d(x) > d(q) \/ (d(x) = d(q) /\ x < q)
  <2>1. TAKE q \in T \ {x}
  <2>2. ~(d(q) > d(x) \/ (d(q) = d(x) /\ q < x))
    BY <1>9, <1>11
  <2>3. d(x) \in Nat /\ d(q) \in Nat /\ x \in Nat /\ q \in Nat /\ q # x
    BY <1>7, <1>10
  <2>4. QED
    BY <2>2, <2>3
<1>13. Dominating(s, J, j) \in T
  BY <1>8, <1>12
<1>14. QED
  BY <1>6, <1>13 DEF P
-----------------------------------------------------------------------------
(* What relationships connect, and what the groups keep of it. *)

(* What edges connect is an equivalence, and the least one they allow.       *)
LEMMA ComponentFacts ==
  ASSUME NEW E \in SUBSET SUBSET Table, NEW a \in Table
  PROVE  /\ Component(E, a) \in SUBSET Table /\ a \in Component(E, a)
         /\ \A e \in E : e \cap Component(E, a) # {} => e \subseteq Component(E, a)
         /\ \A W \in SUBSET Table :
              a \in W /\ (\A e \in E : e \cap W # {} => e \subseteq W) => Component(E, a) \subseteq W
<1> DEFINE Around(W) == a \in W /\ \A e \in E : e \cap W # {} => e \subseteq W
<1>1. \A b : b \in Component(E, a) <=> b \in Table /\ \A W \in SUBSET Table : Around(W) => b \in W
  BY DEF Component
<1>2. ASSUME NEW e \in E, NEW x \in e, x \in Component(E, a), NEW y \in e
      PROVE  y \in Component(E, a)
  <2>1. ASSUME NEW W \in SUBSET Table, Around(W) PROVE y \in W
    <3>1. x \in W
      BY <1>1, <1>2, <2>1
    <3>2. QED
      BY <2>1, <3>1
  <2>2. y \in Table
    OBVIOUS
  <2> HIDE DEF Around
  <2>3. QED
    BY <1>1, <2>1, <2>2
<1>3. \A e \in E : e \cap Component(E, a) # {} => e \subseteq Component(E, a)
  BY <1>2
<1>4. Component(E, a) \in SUBSET Table /\ a \in Component(E, a)
  BY <1>1
<1>5. \A W \in SUBSET Table : Around(W) => Component(E, a) \subseteq W
  BY <1>1
<1>6. QED
  BY <1>3, <1>4, <1>5

LEMMA ComponentTransitive ==
  ASSUME NEW E \in SUBSET SUBSET Table, NEW a \in Table, NEW b \in Component(E, a)
  PROVE  b \in Table /\ Component(E, b) \subseteq Component(E, a)
<1>1. b \in Table
  BY ComponentFacts
<1>2. /\ Component(E, a) \in SUBSET Table
      /\ \A e \in E : e \cap Component(E, a) # {} => e \subseteq Component(E, a)
  BY ComponentFacts
<1>3. QED
  BY <1>1, <1>2, ComponentFacts

LEMMA ComponentSymmetric ==
  ASSUME NEW E \in SUBSET SUBSET Table, NEW a \in Table, NEW b \in Component(E, a)
  PROVE  a \in Component(E, b)
<1>1. b \in Table
  BY ComponentFacts
<1> DEFINE W == Table \ Component(E, b)
<1>2. SUFFICES ASSUME a \notin Component(E, b) PROVE FALSE
  OBVIOUS
<1>3. \A e \in E : e \cap W # {} => e \subseteq W
  <2>1. ASSUME NEW e \in E, e \cap W # {} PROVE e \cap Component(E, b) = {}
    <3>1. e \cap Component(E, b) # {} => e \subseteq Component(E, b)
      BY <1>1, ComponentFacts
    <3>2. QED
      BY <2>1, <3>1
  <2>2. QED
    BY <2>1
<1>4. a \in W /\ W \in SUBSET Table
  BY <1>2
<1> HIDE DEF W
<1>5. Component(E, a) \subseteq W
  BY <1>3, <1>4, ComponentFacts
<1>6. b \in W
  BY <1>5
<1>7. b \in Component(E, b)
  BY <1>1, ComponentFacts
<1>8. QED
  BY <1>6, <1>7 DEF W

(* The edges of a scene, and those of the links the grouping counts.         *)
LEMMA SolidFacts ==
  ASSUME now \in DOMAIN Scenes
  PROVE  /\ Solid(now) \in SUBSET SUBSET Table
         /\ \A s : \A l \in Links(s) : {l.child, l.parent} \in Solid(now)
<1>1. Scene(scene) /\ scene = Scenes[now]
  BY ClustersAssumption DEF scene
<1>2. \A l \in scene.link : l.child \in Table /\ l.parent \in Table
  BY <1>1 DEF Scene, Link
<1>3. Solid(now) \in SUBSET SUBSET Table
  BY <1>1, <1>2 DEF Solid
<1>4. ASSUME NEW s, NEW l \in Links(s) PROVE {l.child, l.parent} \in Solid(now)
  <2>1. l \in scene.link /\ l.sure /\ {l.child, l.parent} \cap scene.empty = {}
    BY DEF Links, Full
  <2>2. QED
    BY <1>1, <2>1 DEF Solid
<1>5. QED
  BY <1>3, <1>4

(* Sets of connected tables with a table in common are connected.            *)
LEMMA TogetherJoin ==
  ASSUME now \in DOMAIN Scenes, NEW S \in SUBSET Table, NEW T \in SUBSET Table,
         Together(S), Together(T), NEW m \in S, m \in T
  PROVE  Together(S \cup T)
<1> DEFINE C(a) == Component(Solid(now), a)
<1>1. Solid(now) \in SUBSET SUBSET Table
  BY SolidFacts
<1>2. \A a \in S \cup T : a \in C(m)
  BY DEF Together
<1>3. ASSUME NEW a \in S \cup T, NEW b \in S \cup T PROVE b \in C(a)
  <2>1. a \in C(m) /\ b \in C(m) /\ m \in Table
    BY <1>2
  <2>2. m \in C(a) /\ a \in Table
    BY <1>1, <2>1, ComponentSymmetric
  <2>3. C(m) \subseteq C(a)
    BY <1>1, <2>2, ComponentTransitive
  <2>4. QED
    BY <2>1, <2>3
<1>4. QED
  BY <1>3 DEF Together

LEMMA TogetherLess ==
  ASSUME NEW S, NEW T \in SUBSET S, Together(S)
  PROVE  Together(T)
BY DEF Together

LEMMA TogetherEdge ==
  ASSUME now \in DOMAIN Scenes, NEW e \in Solid(now)
  PROVE  Together(e)
<1>1. Solid(now) \in SUBSET SUBSET Table
  BY SolidFacts
<1>2. ASSUME NEW a \in e, NEW b \in e PROVE b \in Component(Solid(now), a)
  <2>1. a \in Table
    BY <1>1
  <2>2. /\ a \in Component(Solid(now), a)
        /\ e \cap Component(Solid(now), a) # {} => e \subseteq Component(Solid(now), a)
    BY <1>1, <2>1, ComponentFacts
  <2>3. QED
    BY <2>2
<1>3. QED
  BY <1>2 DEF Together

LEMMA TogetherAlone ==
  ASSUME now \in DOMAIN Scenes, NEW a \in Table
  PROVE  Together({a})
<1>1. a \in Component(Solid(now), a)
  BY SolidFacts, ComponentFacts
<1>2. QED
  BY <1>1 DEF Together

LEMMA TogetherParent ==
  ASSUME now \in DOMAIN Scenes, NEW s, NEW j, NEW p \in Parents(s, j)
  PROVE  j \in Table /\ p \in Table /\ Together({j, p})
<1>1. PICK l \in Links(s) : l.child = j /\ l.parent = p
  BY DEF Parents
<1>2. {j, p} \in Solid(now)
  BY <1>1, SolidFacts
<1>3. j \in Table /\ p \in Table
  BY <1>2, SolidFacts
<1>4. QED
  BY <1>2, <1>3, TogetherEdge

(* An edge of the graph stands for links, or for a junction between them.    *)
LEMMA GraphTogether ==
  ASSUME now \in DOMAIN Scenes, NEW s, NEW J, NEW e \in Edges(s, J)
  PROVE  Together(e)
<1>1. PICK a \in Full(s), b \in Full(s) : e = {a, b} /\ Joined(s, J, a, b)
  BY DEF Edges
<1>2. a \in Table /\ b \in Table
  BY <1>1, SceneFacts
<1>3. CASE Plain(s, J, a, b) > 0
  <2>1. Weight({}) = 0
    BY DEF Weight, MapThenSumSet, MapThenFoldSet
  <2>2. Weight(Edge(s, a, b)) + Weight(Edge(s, b, a)) > 0
    BY <1>3 DEF Plain
  <2>3. Edge(s, a, b) # {} \/ Edge(s, b, a) # {}
    BY <2>1, <2>2
  <2>4. PICK l \in Links(s) : {l.child, l.parent} = e
    BY <1>1, <2>3 DEF Edge
  <2>5. QED
    BY <2>4, SolidFacts, TogetherEdge
<1>4. CASE Bridges(s, J, a, b) # {}
  <2>1. PICK j : TopTwo(s, j) = {a, b}
    BY <1>4 DEF Bridges
  <2>2. a \in Parents(s, j) /\ b \in Parents(s, j)
    BY <2>1 DEF TopTwo
  <2>3. /\ j \in Table /\ Together({j, a}) /\ Together({j, b})
    BY <2>2, TogetherParent
  <2>4. Together({j, a} \cup {j, b})
    BY <1>2, <2>3, TogetherJoin
  <2>5. QED
    BY <1>1, <2>4, TogetherLess
<1>5. QED
  BY <1>1, <1>3, <1>4 DEF Joined

LEMMA SameTogether ==
  ASSUME now' = now
  PROVE  \A S : Together(S)' <=> Together(S)
BY DEF Together

LEMMA StrangersStay ==
  ASSUME NoStrangers, UNCHANGED <<rows, basis>>
  PROVE  NoStrangers'
BY DEF NoStrangers

LEMMA LouvainChained ==
  ASSUME PhaseInv, Louvain
  PROVE  Chained'
<1> DEFINE N == Full(cur) \ junctions
           G == Edges(cur, junctions)
<1>1. now' = now /\ stage' = "merge" /\ graph' = G /\ now \in DOMAIN Scenes
  BY DEF Louvain, PhaseInv, ClusterTypeOK
<1>2. PICK f \in Partitions(N, graph') :
        groups' = Sorted({{n \in N : f[n] = r} : r \in {f[n] : n \in N}})
  BY DEF Louvain
<1>3. f \in [N -> N] /\ \A n \in N : n \in Component(G, f[n])
  BY <1>1, <1>2 DEF Partitions
<1>4. N \in SUBSET Table /\ G \in SUBSET SUBSET Table /\ Solid(now) \in SUBSET SUBSET Table
  BY <1>1, SceneFacts, EdgesType, SolidFacts
<1> HIDE DEF N, G
<1>5. ASSUME NEW r \in N PROVE Component(G, r) \subseteq Component(Solid(now), r)
  <2> DEFINE W == Component(Solid(now), r)
  <2>1. r \in Table /\ r \in W /\ W \in SUBSET Table
    BY <1>4, ComponentFacts
  <2>2. ASSUME NEW e \in G, NEW x \in e, x \in W, NEW y \in e PROVE y \in W
    <3>1. Together(e)
      BY <1>1, GraphTogether DEF G
    <3>2. y \in Component(Solid(now), x)
      BY <2>2, <3>1 DEF Together
    <3>3. QED
      BY <1>4, <2>1, <2>2, <3>2, ComponentTransitive
  <2> HIDE DEF W
  <2>3. Component(G, r) \subseteq W
    BY <1>4, <2>1, <2>2, ComponentFacts
  <2>4. QED
    BY <2>3 DEF W
<1> DEFINE P == Classes(N, f)
<1>6. ASSUME NEW S \in P PROVE Together(S)
  <2>1. PICK r \in N : \A n \in S : n \in N /\ f[n] = r
    BY <1>3 DEF Classes
  <2>2. r \in Table /\ \A n \in S : n \in Component(Solid(now), r)
    BY <1>3, <1>4, <1>5, <2>1
  <2>3. ASSUME NEW a \in S, NEW b \in S PROVE b \in Component(Solid(now), a)
    <3>1. r \in Component(Solid(now), a) /\ a \in Table
      BY <1>4, <2>2, ComponentSymmetric, ComponentTransitive
    <3>2. QED
      BY <1>4, <2>2, <3>1, ComponentTransitive
  <2>4. QED
    BY <2>3 DEF Together
<1> HIDE DEF P
<1>7. Sorted(P) \in Seq(P)
  BY <1>3, <1>4, ClassesFacts DEF P
<1>8. groups' = Sorted(P)
  BY <1>2 DEF P, Classes
<1>9. \A i \in DOMAIN groups' : groups'[i] \in P
  BY <1>7, <1>8
<1>10. \A e \in graph' : Together(e)
  BY <1>1, GraphTogether DEF G
<1>11. QED
  BY <1>1, <1>6, <1>9, <1>10, SameTogether DEF Chained

LEMMA MergeChained ==
  ASSUME PhaseInv, Chained, Merge
  PROVE  Chained'
<1>1. /\ stage = "merge" /\ UNCHANGED <<now, stage, graph>> /\ now \in DOMAIN Scenes
  BY DEF Merge, PhaseInv, ClusterTypeOK
<1>2. PICK a \in Range(groups), b \in Range(groups) :
        /\ a # b /\ Mergeable(a, b)
        /\ groups' = Sorted((Range(groups) \ {a, b}) \cup {a \cup b})
  BY DEF Merge
<1>3. /\ Range(groups) \in SUBSET SUBSET Table /\ {} \notin Range(groups)
      /\ \A x, y \in Range(groups) : x # y => x \cap y = {}
  BY <1>1, GroupsFacts DEF Grouping
<1>4. \A S \in Range(groups) : Together(S)
  BY <1>1 DEF Chained, Grouping, Range
<1>5. Together(a \cup b)
  <2>1. PICK e \in graph : e \cap a # {} /\ e \cap b # {}
    BY <1>2 DEF Mergeable
  <2>2. PICK u \in e : u \in a
    BY <2>1
  <2>3. PICK v \in e : v \in b
    BY <2>1
  <2>4. Together(e) /\ e \in SUBSET Table
    BY <1>1 DEF Chained, PhaseInv, ClusterTypeOK
  <2>5. a \in SUBSET Table /\ b \in SUBSET Table /\ Together(a) /\ Together(b)
    BY <1>3, <1>4
  <2>6. Together(a \cup e)
    BY <1>1, <2>2, <2>4, <2>5, TogetherJoin
  <2>7. Together((a \cup e) \cup b)
    <3>1. a \cup e \in SUBSET Table /\ v \in a \cup e
      BY <2>4, <2>5
    <3>2. QED
      BY <1>1, <2>3, <2>5, <2>6, <3>1, TogetherJoin
  <2>8. QED
    BY <2>7, TogetherLess
<1> DEFINE P == Fused(Range(groups), a, b)
<1>6. \A S \in P : Together(S)
  BY <1>4, <1>5 DEF Fused
<1>7. groups' = Sorted(P)
  BY <1>2 DEF Fused
<1> HIDE DEF P
<1>8. Sorted(P) \in Seq(P)
  BY <1>3, FusedFacts DEF P
<1>9. \A i \in DOMAIN groups' : groups'[i] \in P
  BY <1>7, <1>8
<1>10. QED
  BY <1>1, <1>6, <1>9, SameTogether DEF Chained

LEMMA AttachChained ==
  ASSUME PhaseInv, Chained, Attach
  PROVE  Chained'
<1> DEFINE j == First
           p == Dominating(cur, junctions, First)
<1>1. /\ stage = "attach" /\ stage' = "attach" /\ pending # {} /\ now' = now
      /\ groups' = Place(groups, j, p)
  BY DEF Attach
<1>2. /\ now \in DOMAIN Scenes /\ junctions \subseteq Table
      /\ pending \subseteq junctions /\ junctions \subseteq MayCollapse(cur)
  BY <1>1 DEF PhaseInv, ClusterTypeOK, Tagged, Working, Grouping
<1>3. j \in MayCollapse(cur)
  BY <1>1, <1>2, FirstPending
<1>4. p \in Parents(cur, j)
  BY <1>2, <1>3, TableFinite, DominatingIsParent
<1> HIDE DEF j, p
<1>5. j \in Table /\ p \in Table /\ Together({j, p}) /\ Together({j})
  BY <1>2, <1>4, TogetherParent, TogetherAlone
<1>6. /\ groups \in Seq(SUBSET Table)
      /\ \A i \in DOMAIN groups : Together(groups[i]) /\ groups[i] \in SUBSET Table
  BY <1>1 DEF PhaseInv, ClusterTypeOK, Chained, Grouping
<1>7. ASSUME NEW i \in DOMAIN groups, p \in groups[i] PROVE Together(groups[i] \cup {j})
  <2>1. Together(groups[i] \cup {j, p})
    <3>1. {j, p} \in SUBSET Table /\ p \in {j, p}
      BY <1>5
    <3>2. QED
      BY <1>2, <1>5, <1>6, <1>7, <3>1, TogetherJoin
  <2>2. QED
    BY <2>1, TogetherLess
<1>8. \A i \in DOMAIN groups' : Together(groups'[i])
  <2>1. CASE \E i \in DOMAIN groups : p \in groups[i]
    <3>1. groups' = [i \in DOMAIN groups |-> IF p \in groups[i] THEN groups[i] \cup {j} ELSE groups[i]]
      BY <1>1, <2>1 DEF Place
    <3>2. QED
      BY <1>6, <1>7, <3>1
  <2>2. CASE ~\E i \in DOMAIN groups : p \in groups[i]
    <3>1. groups' = Append(groups, {j})
      BY <1>1, <2>2 DEF Place
    <3>2. \A i \in DOMAIN groups' : groups'[i] = {j} \/ (i \in DOMAIN groups /\ groups'[i] = groups[i])
      BY <1>6, <3>1
    <3>3. QED
      BY <1>5, <1>6, <3>2
  <2>3. QED
    BY <2>1, <2>2
<1>9. QED
  BY <1>1, <1>8, SameTogether DEF Chained

LEMMA StoreStrangers ==
  ASSUME PhaseInv, Chained, NoStrangers, Store
  PROVE  NoStrangers'
<1>1. /\ now \in DOMAIN Scenes /\ cur \in Schema
      /\ \A s \in Schema \ {cur} : rows'[s] = rows[s]
      /\ DOMAIN rows'[cur] = DOMAIN Clusters
      /\ \A i \in DOMAIN Clusters : rows'[cur][i] = [pk |-> serial + i, tables |-> Clusters[i]]
  BY StoreFacts
<1>2. stage = "attach" /\ pending = {} /\ basis' = [basis EXCEPT ![cur] = now]
  BY DEF Store
<1>3. basis \in [Schema -> DOMAIN Scenes] /\ groups \in Seq(SUBSET Table)
  BY DEF PhaseInv, ClusterTypeOK
<1>4. basis'[cur] = now /\ \A s \in Schema \ {cur} : basis'[s] = basis[s]
  BY <1>1, <1>2, <1>3
<1>5. \A i \in DOMAIN groups : Together(groups[i]) /\ groups[i] # {}
  BY <1>2 DEF PhaseInv, Apart, Chained, Grouping
<1>6. \A i \in DOMAIN Clusters :
        \/ Clusters[i] \subseteq scene.empty
        \/ Together(Clusters[i]) /\ Clusters[i] # {}
  <2>1. Hollow(cur) \subseteq scene.empty
    BY DEF Hollow
  <2>2. \A i \in DOMAIN Append(groups, Hollow(cur)) :
          \/ Append(groups, Hollow(cur))[i] = Hollow(cur)
          \/ i \in DOMAIN groups /\ Append(groups, Hollow(cur))[i] = groups[i]
    BY <1>3
  <2>3. QED
    BY <1>5, <2>1, <2>2 DEF Clusters
<1>7. SUFFICES ASSUME NEW s \in Schema, NEW i \in DOMAIN rows'[s]
               PROVE  \/ rows'[s][i].tables \subseteq Scenes[basis'[s]].empty
                      \/ \E a \in rows'[s][i].tables :
                           rows'[s][i].tables \subseteq Component(Solid(basis'[s]), a)
  BY DEF NoStrangers, Solid
<1>8. CASE s # cur
  BY <1>1, <1>4, <1>8 DEF NoStrangers, Solid
<1>9. CASE s = cur
  <2>1. rows'[s][i].tables = Clusters[i] /\ i \in DOMAIN Clusters
    <3>1. i \in DOMAIN Clusters
      BY <1>1, <1>9
    <3>2. rows'[cur][i] = [pk |-> serial + i, tables |-> Clusters[i]]
      BY <1>1, <3>1
    <3>3. QED
      BY <1>9, <3>1, <3>2
  <2>2. \A S : Together(S) /\ S # {} => \E a \in S : S \subseteq Component(Solid(now), a)
    BY DEF Together
  <2>3. QED
    BY <1>4, <1>6, <1>9, <2>1, <2>2 DEF scene
<1>10. QED
  BY <1>8, <1>9

(***************************************************************************)
(* The groups of a schema being worked on stay within what relationships   *)
(* connect, and so do the clusters stored.                                 *)
(***************************************************************************)
THEOREM ChainInvariance == ClusterSpec => []ChainInv
<1>1. ClusterInit => ChainInv
  <2>1. ClusterInit => NoStrangers
    BY DEF ClusterInit, NoStrangers
  <2>2. ClusterInit => Chained
    BY DEF ClusterInit, Chained, Grouping
  <2>3. QED
    BY <2>1, <2>2, ClusterInitInv DEF ChainInv
<1>2. ASSUME ChainInv, [ClusterNext]_clusterVars PROVE Chained' /\ NoStrangers'
  <2>1. PhaseInv /\ Chained /\ NoStrangers
    BY <1>2 DEF ChainInv
  <2>2. CASE StartClustering \/ Pick \/ EndPhase \/ Abort \/ Rescan
    <3>1. UNCHANGED <<rows, basis>> /\ stage' \notin {"merge", "attach"}
      BY <2>2 DEF StartClustering, Pick, EndPhase, Abort, Rescan, stored
    <3>2. QED
      BY <2>1, <3>1, StrangersStay DEF Chained, Grouping
  <2>3. CASE Louvain
    BY <2>1, <2>3, LouvainChained, StrangersStay DEF Louvain, stored
  <2>4. CASE Merge
    BY <2>1, <2>4, MergeChained, StrangersStay DEF Merge, stored
  <2>5. CASE Settle
    <3>1. UNCHANGED <<now, groups, rows, basis>> /\ stage = "merge" /\ stage' = "attach"
      BY <2>5 DEF Settle, memory, stored
    <3>2. QED
      BY <2>1, <3>1, SameTogether, StrangersStay DEF Chained, Grouping
  <2>6. CASE Attach
    BY <2>1, <2>6, AttachChained, StrangersStay DEF Attach, stored
  <2>7. CASE Store
    <3>1. stage' = "pick"
      BY <2>7 DEF Store
    <3>2. QED
      BY <2>1, <2>7, <3>1, StoreStrangers DEF Chained, Grouping
  <2>8. CASE UNCHANGED clusterVars
    <3>1. UNCHANGED <<now, stage, groups, graph, rows, basis>>
      BY <2>8 DEF clusterVars, memory, stored
    <3>2. QED
      BY <2>1, <3>1, SameTogether, StrangersStay DEF Chained, Grouping
  <2>9. QED
    BY <1>2, <2>2, <2>3, <2>4, <2>5, <2>6, <2>7, <2>8 DEF ClusterNext
<1>3. ChainInv /\ [ClusterNext]_clusterVars => Chained' /\ NoStrangers'
  BY <1>2
<1>4. QED
  BY <1>1, <1>3, PhaseInvariance, PTL DEF ChainInv, ClusterSpec

(***************************************************************************)
(* Tables of one stored cluster are connected by the relationships the     *)
(* cluster was made from, or are all empty: neither the merge by names nor *)
(* the way junctions are put back joins strangers.                         *)
(***************************************************************************)
THEOREM NoStrangersStored == ClusterSpec => []NoStrangers
<1>1. ChainInv => NoStrangers
  BY DEF ChainInv
<1>2. QED
  BY <1>1, ChainInvariance, PTL
=============================================================================
