-------------------------- MODULE Extraction_proofs --------------------------
(***************************************************************************)
(* What Extraction.tla states of types, complete files and of tables that  *)
(* are done, proved for any number of tables, threads, permits and         *)
(* attempts, both callers and any number of faults and kills.              *)
(***************************************************************************)
EXTENDS Extraction, FiniteSetTheorems, TLAPS

\* Types of what the argument below looks at.
PhaseType ==
  /\ log \in [Table \cup {"global"} -> Status]
  /\ task \in [Table -> TaskState]
  /\ call \in [Table -> {"none", "waiting", "writing"}]
  /\ stray \in [Table \X {"waiting", "writing"} -> Nat]
  /\ file \in [Table -> File]
  /\ extracted \subseteq Table
  /\ abandons \in Nat

\* A table at work is marked as started, and only such a table is requested.
AtWork(t) ==
  /\ task[t] # "off" => proc = "up"
  /\ task[t] \in Busy => log[t] = "started"
  /\ call[t] # "none" => task[t] = "call"

\* What is on disk and in the inventory while no request is abandoned.
InStep(t) ==
  /\ stray[<<t, "waiting">>] = 0 /\ stray[<<t, "writing">>] = 0
  /\ call[t] = "writing" => file[t] = "partial"
  /\ task[t] \in {"mark", "types", "close"} => file[t] = "whole"
  /\ task[t] \in {"types", "close"} => t \in extracted
  /\ log[t] = "succeeded" => t \in extracted /\ file[t] = "whole"

\* The inductive invariant.
Inv ==
  /\ PhaseType
  /\ \A t \in Table : AtWork(t)
  /\ abandons = 0 => \A t \in Table : InStep(t)
-----------------------------------------------------------------------------
LEMMA InitInv == Init => Inv
BY ExtractionAssumption DEF Init, Inv, PhaseType, AtWork, InStep, Status, TaskState, Busy, File

(* The steps of the thread that works on a table. *)
LEMMA ClientStep ==
  ASSUME Inv, NEW t \in Table, Client(t)
  PROVE  Inv'
<1> USE ExtractionAssumption DEF Inv, PhaseType, AtWork, InStep, At, Goto
<1>1. CASE SkipComplete(t)
  BY <1>1 DEF SkipComplete, bounds, inventory, TaskState, Busy
<1>2. CASE StartTable(t)
  BY <1>2 DEF StartTable, LogStart, IsComplete, bounds, inventory, Status, TaskState, Busy
<1>3. CASE StartTableRaises(t)
  BY <1>3 DEF StartTableRaises, Fault, inventory, TaskState, Busy
<1>4. CASE Send(t)
  BY <1>4 DEF Send, bounds, inventory
<1>5. CASE MarkExtracted(t)
  BY <1>5 DEF MarkExtracted, bounds, TaskState, Busy
<1>6. CASE StoreTypes(t)
  BY <1>6 DEF StoreTypes, bounds, TaskState, Busy
<1>7. CASE SucceedTable(t)
  BY <1>7 DEF SucceedTable, LogSucceed, bounds, inventory, Status, TaskState, Busy
<1>8. CASE DatabaseRaises(t)
  BY <1>8 DEF DatabaseRaises, Fault, inventory, TaskState, Busy
<1>9. CASE FailTable(t)
  BY <1>9 DEF FailTable, LogFail, bounds, inventory, Status, TaskState, Busy
<1>10. CASE FailTableRaises(t)
  BY <1>10 DEF FailTableRaises, Fault, inventory, TaskState, Busy
<1>11. QED
  BY <1>1, <1>2, <1>3, <1>4, <1>5, <1>6, <1>7, <1>8, <1>9, <1>10 DEF Client

(* What the service does for a client that waits. *)
LEMMA ServiceStep ==
  ASSUME Inv, NEW t \in Table, Service(t)
  PROVE  Inv'
<1> USE ExtractionAssumption DEF Inv, PhaseType, AtWork, InStep, Goto, HangUp, RetryOrRaise
<1>1. CASE Admit(t)
  <2>1. call' = [call EXCEPT ![t] = "writing"] /\ UNCHANGED <<log, proc, task, stray, extracted, abandons>>
    BY <1>1 DEF Admit, bounds, inventory
  <2>2. call[t] = "waiting" /\ log[t] = "started" /\ task[t] = "call"
    BY <1>1 DEF Admit, Busy
  <2>3. file' = [file EXCEPT ![t] = IF Writers(t) = 0 THEN "partial" ELSE "mixed"]
    BY <1>1 DEF Admit, Opened
  <2>4. ASSUME abandons = 0 PROVE file'[t] = "partial"
    <3>1. stray[<<t, "writing">>] = 0 /\ call[t] # "writing"
      BY <2>2, <2>4
    <3> HIDE DEF Inv, PhaseType, AtWork, InStep
    <3>2. Writers(t) = 0
      BY <3>1 DEF Writers
    <3>3. QED
      BY <2>3, <3>2 DEF Inv, PhaseType
  <2>5. PhaseType'
    BY <2>1, <2>3 DEF File
  <2>6. \A u \in Table : AtWork(u)'
    BY <2>1, <2>2
  <2>7. ASSUME abandons = 0, NEW u \in Table PROVE InStep(u)'
    <3>1. CASE u = t
      BY <2>1, <2>2, <2>4, <2>7, <3>1
    <3>2. CASE u # t
      BY <2>1, <2>3, <2>7, <3>2
    <3>3. QED
      BY <3>1, <3>2
  <2>8. QED
    BY <2>1, <2>5, <2>6, <2>7
<1>2. CASE Throttled(t)
  BY <1>2 DEF Throttled, bounds, inventory, TaskState, Busy
<1>3. CASE Rejected(t)
  BY <1>3 DEF Rejected, Fault, inventory, TaskState, Busy
<1>4. CASE FailsEarly(t)
  BY <1>4 DEF FailsEarly, Fault, inventory, TaskState, Busy
<1>5. CASE FailsMidway(t)
  BY <1>5 DEF FailsMidway, Fault, ClosedEarly, inventory, TaskState, Busy, File
<1>6. CASE Responds(t)
  BY <1>6 DEF Responds, ClosedWhole, Writers, bounds, inventory, TaskState, Busy, File
<1>7. QED
  BY <1>1, <1>2, <1>3, <1>4, <1>5, <1>6 DEF Service

(* A request nobody waits for exists only once one was abandoned. *)
LEMMA StrayStep ==
  ASSUME Inv, NEW t \in Table, Stray(t)
  PROVE  Inv'
<1>1. abandons # 0 /\ abandons' = abandons
  BY DEF Inv, PhaseType, InStep, Stray, StrayAdmitted, StrayThrottled, StrayEnds, StrayFails, Fault, bounds
<1>2. UNCHANGED <<log, proc, task, call, extracted>>
  BY DEF Stray, StrayAdmitted, StrayThrottled, StrayEnds, StrayFails, inventory
<1>3. stray' \in [Table \X {"waiting", "writing"} -> Nat] /\ file' \in [Table -> File]
  BY DEF Inv, PhaseType, Stray, StrayAdmitted, StrayThrottled, StrayEnds, StrayFails,
         Opened, ClosedWhole, ClosedEarly, File
<1>4. QED
  BY <1>1, <1>2, <1>3 DEF Inv, PhaseType, AtWork

LEMMA TimesOutStep ==
  ASSUME Inv, NEW t \in Table, TimesOut(t)
  PROVE  Inv'
BY DEF Inv, PhaseType, AtWork, TimesOut, HangUp, RetryOrRaise, Goto, inventory, TaskState, Busy

(* The steps of the phase as a whole write the global row only. *)
LEMMA PhaseStep ==
  ASSUME Inv, Launch \/ PhaseReturns
  PROVE  Inv'
<1> USE ExtractionAssumption DEF Inv, PhaseType, AtWork, InStep
<1>1. log' \in [Table \cup {"global"} -> Status] /\ \A t \in Table : log'[t] = log[t]
  BY DEF Launch, PhaseReturns, LogStart, LogFail, LogSucceed, Status
<1>2. \A t \in Table : call[t] = "none"
  BY DEF Launch, PhaseReturns, Busy
<1>3. QED
  BY <1>1, <1>2 DEF Launch, PhaseReturns, bounds, inventory, TaskState, Busy

(* A kill abandons what is in flight; without a request in flight it leaves *)
(* no stray.                                                                *)
LEMMA CrashStep ==
  ASSUME Inv, Crash
  PROVE  Inv'
<1> DEFINE InFlight == {t \in Table : call[t] # "none"}
<1>1. IsFiniteSet(InFlight)
  BY FS_Subset, ExtractionAssumption
<1>2. Cardinality(InFlight) \in Nat
  BY <1>1, FS_CardinalityType
<1>3. abandons \in Nat /\ abandons' = abandons + Cardinality(InFlight)
  BY DEF Inv, PhaseType, Crash
<1>4. abandons' \in Nat /\ (abandons' = 0 => abandons = 0 /\ Cardinality(InFlight) = 0)
  BY <1>2, <1>3
<1>5. ASSUME abandons' = 0 PROVE \A t \in Table : InStep(t)'
  <2>1. \A t \in Table : call[t] = "none"
    BY <1>1, <1>4, <1>5, FS_EmptySet
  <2>2. \A t \in Table : InStep(t)
    BY <1>4, <1>5 DEF Inv
  <2>3. \A t \in Table : stray'[<<t, "waiting">>] = 0 /\ stray'[<<t, "writing">>] = 0
    <3> SUFFICES ASSUME NEW t \in Table, NEW s \in {"waiting", "writing"}
                 PROVE  stray'[<<t, s>>] = 0
      OBVIOUS
    <3>1. <<t, s>> \in DOMAIN stray
      BY DEF Inv, PhaseType
    <3>2. stray'[<<t, s>>] = stray[<<t, s>>] + IF call[t] = s THEN 1 ELSE 0
      BY <3>1 DEF Crash
    <3>3. stray[<<t, s>>] = 0 /\ call[t] # s
      BY <2>1, <2>2 DEF InStep
    <3>4. QED
      BY <3>2, <3>3
  <2>4. QED
    BY <2>2, <2>3 DEF InStep, Crash, inventory
<1>6. PhaseType'
  <2>1. stray' \in [Table \X {"waiting", "writing"} -> Nat]
    BY DEF Inv, PhaseType, Crash
  <2>2. QED
    BY <1>4, <2>1 DEF Inv, PhaseType, Crash, inventory, TaskState
<1>7. \A t \in Table : AtWork(t)'
  BY DEF AtWork, Crash, Busy
<1>8. QED
  BY <1>5, <1>6, <1>7 DEF Inv

LEMMA NextInv == Inv /\ [Next]_vars => Inv'
<1>1. ASSUME Inv, UNCHANGED vars PROVE Inv'
  BY <1>1 DEF Inv, PhaseType, AtWork, InStep, vars, inventory, bounds
<1>2. QED
  BY <1>1, ClientStep, ServiceStep, StrayStep, TimesOutStep, PhaseStep, CrashStep DEF Next

THEOREM Invariance == Spec => []Inv
BY InitInv, NextInv, PTL DEF Spec

(***************************************************************************)
(* While no request outlives its client, a succeeded row means an          *)
(* inventory row and a complete file: neither retries nor resumed runs     *)
(* overwrite the file of such a table (_extract_table_task).               *)
(***************************************************************************)
THEOREM WholeHolds == Spec => []WholeWithoutStrays
<1>1. Inv => WholeWithoutStrays
  BY DEF Inv, InStep, WholeWithoutStrays, SucceededIsWhole
<1>2. QED
  BY <1>1, Invariance, PTL

(***************************************************************************)
(* A table recorded as succeeded is not requested again, and its row stays *)
(* (_extract_table_task, run).                                             *)
(***************************************************************************)
THEOREM NoReExtractionHolds == Spec => NoReExtraction
<1>1. Inv /\ [Next]_vars =>
        [\A t \in Table : log[t] = "succeeded" =>
            log'[t] = "succeeded" /\ call'[t] = "none"]_vars
  <2> SUFFICES ASSUME Inv, Next, NEW u \in Table, log[u] = "succeeded"
               PROVE  log'[u] = "succeeded" /\ call'[u] = "none"
    OBVIOUS
  <2> USE DEF Inv, PhaseType, inventory, bounds
  <2>1. task[u] \notin Busy /\ call[u] = "none"
    BY DEF AtWork, Busy
  <2>2. ASSUME NEW t \in Table, Client(t) PROVE log'[u] = "succeeded" /\ call'[u] = "none"
    <3>1. CASE SkipComplete(t) \/ StartTable(t) \/ StartTableRaises(t)
      BY <2>1, <3>1 DEF SkipComplete, StartTable, StartTableRaises, LogStart, IsComplete
    <3>2. CASE Send(t) \/ MarkExtracted(t) \/ StoreTypes(t) \/ SucceedTable(t)
      BY <2>1, <3>2 DEF Send, MarkExtracted, StoreTypes, SucceedTable, LogSucceed, At, Busy
    <3>3. CASE DatabaseRaises(t) \/ FailTable(t) \/ FailTableRaises(t)
      BY <2>1, <3>3 DEF DatabaseRaises, FailTable, FailTableRaises, LogFail, At, Busy
    <3>4. QED
      BY <2>2, <3>1, <3>2, <3>3 DEF Client
  <2>3. ASSUME NEW t \in Table, Service(t) PROVE log'[u] = "succeeded" /\ call'[u] = "none"
    BY <2>1, <2>3 DEF Service, Admit, Throttled, Rejected, FailsEarly, FailsMidway, Responds,
       HangUp
  <2>4. ASSUME NEW t \in Table, TimesOut(t) \/ Stray(t)
        PROVE  log'[u] = "succeeded" /\ call'[u] = "none"
    BY <2>1, <2>4 DEF TimesOut, Stray, StrayAdmitted, StrayThrottled, StrayEnds, StrayFails,
       HangUp
  <2>5. CASE Launch \/ PhaseReturns
    <3>1. u # "global"
      BY ExtractionAssumption
    <3>2. QED
      BY <2>1, <2>5, <3>1 DEF Launch, PhaseReturns, LogStart, LogFail, LogSucceed
  <2>6. CASE Crash
    BY <2>6 DEF Crash
  <2>7. QED
    BY <2>2, <2>3, <2>4, <2>5, <2>6 DEF Next
<1>2. QED
  BY <1>1, Invariance, PTL DEF Spec, NoReExtraction
-----------------------------------------------------------------------------
(* What the type invariant needs beyond Inv: a table never makes more than *)
(* MaxTries attempts, and each stray was abandoned once.                   *)
Bounded ==
  /\ driver \in Drivers
  /\ proc \in {"idle", "up", "done", "failed", "crashed"}
  /\ tries \in [Table -> 0 .. MaxTries]
  /\ typed \subseteq extracted
  /\ \A t \in Table :
       /\ task[t] = "call" /\ call[t] = "none" => tries[t] < MaxTries
       /\ task[t] \in {"types", "close"} => t \in extracted
       /\ stray[<<t, "waiting">>] + stray[<<t, "writing">>] <= abandons
  /\ faults \in 0 .. MaxFaults
  /\ abandons \in 0 .. MaxAbandons
  /\ crashes \in 0 .. MaxCrashes

LEMMA InitBounded == Init => Bounded
BY ExtractionAssumption DEF Init, Bounded

(* Steps of one table that neither abandon a request nor touch a stray. *)
LEMMA ClientBounded ==
  ASSUME Inv, Bounded, NEW t \in Table, Client(t)
  PROVE  Bounded'
<1> USE ExtractionAssumption DEF Inv, PhaseType, Bounded, At, Goto
<1>1. CASE SkipComplete(t)
  BY <1>1 DEF SkipComplete, bounds, inventory
<1>2. CASE StartTable(t)
  BY <1>2 DEF StartTable, bounds, inventory
<1>3. CASE StartTableRaises(t)
  BY <1>3 DEF StartTableRaises, Fault, inventory
<1>4. CASE Send(t)
  <2>1. tries' = [tries EXCEPT ![t] = @ + 1] /\ tries[t] \in 0 .. MaxTries /\ tries[t] < MaxTries
    BY <1>4 DEF Send
  <2>2. tries' \in [Table -> 0 .. MaxTries]
    BY <2>1
  <2>3. QED
    BY <1>4, <2>1, <2>2 DEF Send, bounds, inventory
<1>5. CASE MarkExtracted(t)
  BY <1>5 DEF MarkExtracted, bounds
<1>6. CASE StoreTypes(t)
  BY <1>6 DEF StoreTypes, bounds
<1>7. CASE SucceedTable(t)
  BY <1>7 DEF SucceedTable, bounds, inventory
<1>8. CASE DatabaseRaises(t)
  BY <1>8 DEF DatabaseRaises, Fault, inventory
<1>9. CASE FailTable(t)
  BY <1>9 DEF FailTable, bounds, inventory
<1>10. CASE FailTableRaises(t)
  BY <1>10 DEF FailTableRaises, Fault, inventory
<1>11. QED
  BY <1>1, <1>2, <1>3, <1>4, <1>5, <1>6, <1>7, <1>8, <1>9, <1>10 DEF Client

LEMMA ServiceBounded ==
  ASSUME Inv, Bounded, NEW t \in Table, Service(t)
  PROVE  Bounded'
<1> USE ExtractionAssumption DEF Inv, PhaseType, Bounded, Goto, HangUp, RetryOrRaise
<1>1. CASE Admit(t)
  BY <1>1 DEF Admit, bounds, inventory
<1>2. CASE Throttled(t)
  BY <1>2 DEF Throttled, bounds, inventory
<1>3. CASE Rejected(t)
  BY <1>3 DEF Rejected, Fault, inventory
<1>4. CASE FailsEarly(t)
  BY <1>4 DEF FailsEarly, Fault, inventory
<1>5. CASE FailsMidway(t)
  BY <1>5 DEF FailsMidway, Fault, inventory
<1>6. CASE Responds(t)
  BY <1>6 DEF Responds, bounds, inventory
<1>7. QED
  BY <1>1, <1>2, <1>3, <1>4, <1>5, <1>6 DEF Service

(* A stray that is admitted or ends; a request that becomes one. *)
LEMMA StrayBounded ==
  ASSUME Inv, Bounded, NEW t \in Table, Stray(t) \/ TimesOut(t)
  PROVE  Bounded'
<1> USE DEF Inv, PhaseType, Bounded
<1>1. CASE StrayAdmitted(t)
  BY <1>1 DEF StrayAdmitted, bounds, inventory
<1>2. CASE StrayThrottled(t)
  BY <1>2 DEF StrayThrottled, bounds, inventory
<1>3. CASE StrayEnds(t)
  BY <1>3 DEF StrayEnds, bounds, inventory
<1>4. CASE StrayFails(t)
  <2>1. faults' \in 0 .. MaxFaults
    BY <1>4, ExtractionAssumption DEF StrayFails, Fault
  <2>2. UNCHANGED <<driver, proc, task, call, tries, extracted, typed, abandons, crashes>>
    BY <1>4 DEF StrayFails, Fault, inventory
  <2>3. stray' = [stray EXCEPT ![<<t, "writing">>] = @ - 1]
    BY <1>4 DEF StrayFails
  <2>4. ASSUME NEW u \in Table
        PROVE  stray'[<<u, "waiting">>] + stray'[<<u, "writing">>] <= abandons
    <3>1. /\ stray'[<<u, "waiting">>] = stray[<<u, "waiting">>]
          /\ stray'[<<u, "writing">>] \in {stray[<<u, "writing">>], stray[<<u, "writing">>] - 1}
      BY <2>3
    <3>2. /\ stray[<<u, "waiting">>] \in Nat /\ stray[<<u, "writing">>] \in Nat /\ abandons \in Nat
          /\ stray[<<u, "waiting">>] + stray[<<u, "writing">>] <= abandons
      OBVIOUS
    <3> HIDE DEF Inv, PhaseType, Bounded
    <3>3. QED
      BY <3>1, <3>2
  <2>5. QED
    BY <2>1, <2>2, <2>4
<1>5. CASE TimesOut(t)
  BY <1>5, ExtractionAssumption DEF TimesOut, HangUp, RetryOrRaise, Goto, inventory
<1>6. QED
  BY <1>1, <1>2, <1>3, <1>4, <1>5 DEF Stray

LEMMA PhaseBounded ==
  ASSUME Inv, Bounded, Launch \/ PhaseReturns
  PROVE  Bounded'
BY DEF Inv, PhaseType, Bounded, Launch, PhaseReturns, bounds, inventory

(* A kill turns each request in flight into a stray, and counts it. *)
LEMMA CrashBounded ==
  ASSUME Inv, Bounded, Crash
  PROVE  Bounded'
<1> DEFINE InFlight == {t \in Table : call[t] # "none"}
<1>1. IsFiniteSet(InFlight)
  BY FS_Subset, ExtractionAssumption
<1>2. Cardinality(InFlight) \in Nat
  BY <1>1, FS_CardinalityType
<1>3. abandons' = abandons + Cardinality(InFlight) /\ abandons' <= MaxAbandons
  BY DEF Crash
<1>4. ASSUME NEW t \in Table
      PROVE  stray'[<<t, "waiting">>] + stray'[<<t, "writing">>] <= abandons'
  <2>1. /\ stray'[<<t, "waiting">>] = stray[<<t, "waiting">>] + IF call[t] = "waiting" THEN 1 ELSE 0
        /\ stray'[<<t, "writing">>] = stray[<<t, "writing">>] + IF call[t] = "writing" THEN 1 ELSE 0
    BY DEF Inv, PhaseType, Crash
  <2>2. stray[<<t, "waiting">>] \in Nat /\ stray[<<t, "writing">>] \in Nat /\ abandons \in Nat
    BY DEF Inv, PhaseType
  <2>3. stray[<<t, "waiting">>] + stray[<<t, "writing">>] <= abandons
    BY DEF Bounded
  <2>4. CASE call[t] = "none"
    BY <1>2, <1>3, <2>1, <2>2, <2>3, <2>4
  <2>5. CASE call[t] # "none"
    <3>1. Cardinality(InFlight) >= 1
      BY <1>1, <1>2, <2>5, FS_EmptySet
    <3> HIDE DEF InFlight
    <3>2. QED
      BY <1>2, <1>3, <2>1, <2>2, <2>3, <3>1
  <2>6. QED
    BY <2>4, <2>5
<1>5. abandons' \in 0 .. MaxAbandons
  <2> HIDE DEF InFlight
  <2>1. QED
    BY <1>2, <1>3, ExtractionAssumption DEF Bounded
<1>6. crashes' \in 0 .. MaxCrashes
  BY ExtractionAssumption DEF Bounded, Crash
<1>7. UNCHANGED <<driver, tries, extracted, typed, faults>> /\ proc' = "crashed"
  BY DEF Crash, inventory
<1>8. \A t \in Table : task'[t] = "off"
  BY DEF Crash
<1>9. QED
  BY <1>4, <1>5, <1>6, <1>7, <1>8 DEF Bounded

LEMMA NextBounded == Inv /\ Bounded /\ [Next]_vars => Bounded'
<1>1. ASSUME Bounded, UNCHANGED vars PROVE Bounded'
  BY <1>1 DEF Bounded, vars, inventory, bounds
<1>2. QED
  BY <1>1, ClientBounded, ServiceBounded, StrayBounded, PhaseBounded, CrashBounded DEF Next

(***************************************************************************)
(* Every variable keeps its type: no table is requested more often than    *)
(* _post_with_retry allows, no table has types before it is in the         *)
(* inventory, and no stray appears that was not abandoned.                 *)
(***************************************************************************)
THEOREM TypeCorrect == Spec => []TypeOK
<1>1. Inv /\ Bounded => TypeOK
  <2> SUFFICES ASSUME Inv, Bounded PROVE TypeOK
    OBVIOUS
  <2>1. ASSUME NEW t \in Table, NEW s \in {"waiting", "writing"}
        PROVE  stray[<<t, s>>] \in 0 .. MaxAbandons
    <3>1. /\ stray[<<t, "waiting">>] \in Nat /\ stray[<<t, "writing">>] \in Nat
          /\ stray[<<t, "waiting">>] + stray[<<t, "writing">>] <= abandons
          /\ abandons \in 0 .. MaxAbandons /\ MaxAbandons \in Nat
      BY ExtractionAssumption DEF Inv, PhaseType, Bounded
    <3>2. CASE s = "waiting"
      BY <3>1, <3>2
    <3>3. CASE s = "writing"
      BY <3>1, <3>3
    <3>4. QED
      BY <3>2, <3>3
  <2>2. stray \in [Table \X {"waiting", "writing"} -> 0 .. MaxAbandons]
    <3>1. stray \in [Table \X {"waiting", "writing"} -> Nat]
      BY DEF Inv, PhaseType
    <3>2. ASSUME NEW p \in Table \X {"waiting", "writing"} PROVE stray[p] \in 0 .. MaxAbandons
      <4>1. p = <<p[1], p[2]>> /\ p[1] \in Table /\ p[2] \in {"waiting", "writing"}
        OBVIOUS
      <4>2. stray[<<p[1], p[2]>>] \in 0 .. MaxAbandons
        BY <2>1, <4>1
      <4>3. QED
        BY <4>1, <4>2
    <3>3. QED
      BY <3>1, <3>2
  <2>3. QED
    BY <2>2 DEF Inv, PhaseType, Bounded, TypeOK
<1>2. QED
  BY <1>1, Invariance, InitBounded, NextBounded, PTL DEF Spec
=============================================================================
