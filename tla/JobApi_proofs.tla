---------------------------- MODULE JobApi_proofs ----------------------------
(***************************************************************************)
(* What JobApi.tla states of a job that ran alone, of jobs shown in flight *)
(* and of recorded outcomes, and EventStream.tla of a page that is told    *)
(* its job is over, proved for any number of jobs, pages and schemas, any  *)
(* list of phases and any number of faults and restarts.                   *)
(***************************************************************************)
EXTENDS EventStream, TLAPS

Place == {"none", "registered", "reset", "spawn", "start", "announce", "wait",
          "decided", "counted", "off"}
Shown == {"absent"} \cup InFlight \cup Terminal

\* Types of the registry, and of what the subprocesses share.
RegistryType ==
  /\ api \in {"up", "down"}
  /\ mem \in [Job -> Shown]
  /\ row \in [Job -> Shown]
  /\ counts = [j \in Job |-> counts[j]]
  /\ saved = [j \in Job |-> saved[j]]
  /\ at \in [Job -> Place]

PipelineType ==
  /\ schema \in [Job -> Schema]
  /\ pipe \in [Job -> {"off", "ok", "bad"} \cup Live]
  /\ pos \in [Job -> 1 .. Len(Order) + 1]
  /\ log \in [Phase -> Status]
  /\ results \in [Schema -> SUBSET Phase]
  /\ spoiled \subseteq Job

\* What memory and the table say of a job follows from where its thread stands.
Stands(j) ==
  /\ at[j] \notin {"none", "off"} => api = "up"
  /\ at[j] = "none" => row[j] = "absent"
  /\ at[j] \in {"none", "off"} => mem[j] \notin InFlight
  /\ at[j] \notin {"none", "decided", "counted", "off"} => mem[j] \in InFlight
  /\ at[j] \in {"decided", "counted"} => mem[j] \in Terminal
  /\ at[j] \notin {"counted", "off"} => counts[j] = {} /\ saved[j] = {}
  /\ at[j] # "off" => row[j] \notin Terminal
  /\ at[j] = "off" /\ row[j] \in Terminal /\ mem[j] # "absent" =>
       mem[j] = row[j] /\ counts[j] = saved[j]
  /\ api = "down" => mem[j] = "absent"

Registry == RegistryType /\ \A j \in Job : Stands(j)
-----------------------------------------------------------------------------
LEMMA InitRegistry == Init => Registry
BY DEF Init, Registry, RegistryType, Stands, Place, Shown, InFlight, Terminal

(* A step of a subprocess leaves the registry alone. *)
LEMMA RunAllKeepsRegistry ==
  ASSUME NEW j \in Job, RunAll(j)
  PROVE  UNCHANGED <<api, mem, row, counts, saved, at, schema, spoiled>>
BY DEF RunAll, topline

LEMMA NextRegistry == Registry /\ [Next]_vars => Registry'
<1> SUFFICES ASSUME Registry, [Next]_vars PROVE Registry'
  OBVIOUS
<1> USE DEF Registry, RegistryType, Stands, Place, Shown, InFlight, Terminal, Goto, Show,
            topline
<1>1. CASE CrashApi
  BY <1>1 DEF CrashApi
<1>2. CASE StartApi
  BY <1>2 DEF StartApi, Restored
<1>3. ASSUME NEW j \in Job, Submit(j) PROVE Registry'
  BY <1>3 DEF Submit
<1>4. ASSUME NEW j \in Job, Serve(j) PROVE Registry'
  <2>1. CASE PersistQueued(j)
    BY <2>1 DEF PersistQueued, Persist
  <2>2. CASE Reset(j)
    BY <2>2 DEF Reset
  <2>3. CASE ResetFails(j)
    BY <2>3 DEF ResetFails
  <2>4. CASE SpawnRunner(j)
    BY <2>4 DEF SpawnRunner
  <2>5. CASE SpawnFails(j)
    BY <2>5 DEF SpawnFails
  <2>6. CASE Begin(j)
    BY <2>6 DEF Begin
  <2>7. CASE PersistRunning(j)
    BY <2>7 DEF PersistRunning, Persist
  <2>8. CASE Decide(j)
    BY <2>8 DEF Decide
  <2>9. CASE TimesOut(j)
    BY <2>9 DEF TimesOut
  <2>10. CASE Summarise(j)
    BY <2>10 DEF Summarise
  <2>11. CASE PersistFinal(j)
    BY <2>11 DEF PersistFinal, Persist
  <2>12. QED
    BY <1>4, <2>1, <2>2, <2>3, <2>4, <2>5, <2>6, <2>7, <2>8, <2>9, <2>10, <2>11 DEF Serve
<1>5. ASSUME NEW j \in Job, RunAll(j) PROVE Registry'
  BY <1>5, RunAllKeepsRegistry
<1>6. CASE UNCHANGED vars
  BY <1>6 DEF vars
<1>7. QED
  BY <1>1, <1>2, <1>3, <1>4, <1>5, <1>6 DEF Next

LEMMA RegistryHolds == Spec => []Registry
BY InitRegistry, NextRegistry, PTL DEF Spec

(***************************************************************************)
(* A job shown as queued or running has a thread that will take it further *)
(* (_load_jobs_from_db, submit_job).                                       *)
(***************************************************************************)
THEOREM NoZombiesHolds == Spec => []NoZombies
<1>1. Registry => NoZombies
  BY DEF Registry, RegistryType, Stands, NoZombies, Place
<1>2. QED
  BY RegistryHolds, <1>1, PTL

(***************************************************************************)
(* A recorded outcome is what is shown (_persist_job, _load_jobs_from_db). *)
(***************************************************************************)
THEOREM RecordedIsShownHolds == Spec => []RecordedIsShown
<1>1. Registry => RecordedIsShown
  BY DEF Registry, RegistryType, Stands, RecordedIsShown
<1>2. QED
  BY RegistryHolds, <1>1, PTL
-----------------------------------------------------------------------------
\* A job that did not overlap is the only one whose threads or subprocess run.
Alone(j) == j \notin spoiled /\ Active(j) => \A k \in Job \ {j} : ~Active(k)

\* Nothing is complete in the ledger whose output is not stored.
Faithful(s) == \A p \in Phase : IsComplete(log, p) => p \in results[s]

\* How far the subprocess of a job has come, in the results of its schema.
Built(j) ==
  /\ \A i \in 1 .. pos[j] - 1 : Order[i] \in results[schema[j]]
  /\ pipe[j] = "close" => pos[j] <= Len(Order) /\ Cur(j) \in results[schema[j]]
  /\ pipe[j] = "body" => pos[j] <= Len(Order)
  /\ pipe[j] = "ok" => Complete(j)

\* From its reset to its exit, a job that runs alone.
Progress(j) ==
  /\ at[j] \notin {"wait", "off"} => pipe[j] \notin Live
  /\ j \notin spoiled /\ at[j] \in {"spawn", "start", "announce", "wait"} =>
       Faithful(schema[j])
  /\ j \notin spoiled /\ at[j] = "wait" => Built(j)
  /\ j \notin spoiled /\ at[j] \in {"decided", "counted"} /\ mem[j] = "succeeded" =>
       Complete(j)

PipelineInv == PipelineType /\ \A j \in Job : Alone(j) /\ Progress(j)
-----------------------------------------------------------------------------
LEMMA InitPipeline == Init => PipelineInv
<1> SUFFICES ASSUME Init PROVE PipelineInv
  OBVIOUS
<1>1. Len(Order) \in Nat
  BY JobApiAssumption
<1>2. PipelineType
  BY <1>1 DEF Init, PipelineType, Live, Status
<1>3. \A j \in Job : Alone(j) /\ Progress(j)
  BY DEF Init, Alone, Active, Progress, Live
<1>4. QED
  BY <1>2, <1>3 DEF PipelineInv

(* Where a subprocess stands is a phase of the list. *)
LEMMA CurIsPhase ==
  ASSUME PipelineType, NEW j \in Job, pos[j] <= Len(Order)
  PROVE  pos[j] \in DOMAIN Order /\ Cur(j) \in Phase
<1>1. DOMAIN Order = 1 .. Len(Order) /\ Len(Order) \in Nat
  BY JobApiAssumption
<1>2. pos[j] \in 1 .. Len(Order) + 1
  BY DEF PipelineType
<1>3. pos[j] \in DOMAIN Order
  BY <1>1, <1>2
<1>4. QED
  BY <1>3 DEF Cur, Phase

LEMMA StepPipelineType ==
  ASSUME PipelineType, [Next]_vars
  PROVE  PipelineType'
<1>1. Len(Order) \in Nat
  BY JobApiAssumption
<1> USE DEF PipelineType, Goto, Show, Live
<1>2. CASE CrashApi
  BY <1>2 DEF CrashApi
<1>3. CASE StartApi
  BY <1>3 DEF StartApi, subprocess
<1>4. ASSUME NEW j \in Job, Submit(j) PROVE PipelineType'
  BY <1>4 DEF Submit, subprocess
<1>5. ASSUME NEW j \in Job, Serve(j) PROVE PipelineType'
  <2>1. CASE Reset(j)
    BY <2>1 DEF Reset, Status
  <2>2. CASE ResetFails(j)
    BY <2>2 DEF ResetFails, subprocess
  <2>3. CASE PersistRunning(j)
    BY <1>1, <2>3 DEF PersistRunning
  <2>4. CASE TimesOut(j)
    BY <2>4 DEF TimesOut
  <2>5. CASE PersistQueued(j) \/ SpawnRunner(j) \/ SpawnFails(j) \/ Begin(j) \/ Decide(j)
                \/ Summarise(j) \/ PersistFinal(j)
    BY <2>5 DEF PersistQueued, SpawnRunner, SpawnFails, Begin, Decide, Summarise,
                PersistFinal, subprocess
  <2>6. QED
    BY <1>5, <2>1, <2>2, <2>3, <2>4, <2>5 DEF Serve
<1>6. ASSUME NEW j \in Job, RunAll(j) PROVE PipelineType'
  <2>1. UNCHANGED <<schema, spoiled>>
    BY <1>6 DEF RunAll
  <2>2. pos[j] \in 1 .. Len(Order) + 1
    OBVIOUS
  <2>3. CASE PassOver(j)
    BY <1>1, <2>1, <2>2, <2>3 DEF PassOver, In, Proceed
  <2>4. CASE StartPhase(j)
    BY <2>1, <2>4 DEF StartPhase, LogStart, Status
  <2>5. CASE Work(j)
    <3>1. Cur(j) \in Phase
      BY <2>5, CurIsPhase DEF Work, In
    <3>2. results' \in [Schema -> SUBSET Phase]
      BY <2>5, <3>1 DEF Work
    <3>3. QED
      BY <2>1, <2>5, <3>2 DEF Work
  <2>6. CASE SucceedPhase(j)
    <3>1. log' \in [Phase -> Status]
      BY <2>6 DEF SucceedPhase, LogSucceed, Status
    <3>2. pos' \in [Job -> 1 .. Len(Order) + 1] /\ pipe' \in [Job -> {"off", "ok", "bad"} \cup Live]
      BY <1>1, <2>2, <2>6 DEF SucceedPhase, In, Proceed
    <3>3. QED
      BY <2>1, <2>6, <3>1, <3>2 DEF SucceedPhase
  <2>7. CASE Exit(j)
    BY <2>1, <2>7 DEF Exit
  <2>8. CASE Fails(j)
    BY <2>1, <2>8 DEF Fails, LogFail, Status
  <2>9. QED
    BY <1>6, <2>3, <2>4, <2>5, <2>6, <2>7, <2>8 DEF RunAll
<1>7. CASE UNCHANGED vars
  BY <1>7 DEF vars, subprocess
<1>8. QED
  BY <1>2, <1>3, <1>4, <1>5, <1>6, <1>7 DEF Next

(* Nobody becomes active but by a submission, which spoils who is there. *)
LEMMA StaysAlone ==
  ASSUME NEW k \in Job, Alone(k), spoiled \subseteq spoiled',
         \A j \in Job : Active(j)' => Active(j)
  PROVE  Alone(k)'
BY DEF Alone

(* A step of an active job does not concern a job that is alone. *)
LEMMA OthersProgress ==
  ASSUME NEW j \in Job, NEW k \in Job \ {j}, Alone(k), Progress(k), Active(j),
         spoiled \subseteq spoiled',
         at'[k] = at[k], pipe'[k] = pipe[k]
  PROVE  Progress(k)'
<1>1. k \notin spoiled => at[k] \in {"none", "off"}
  BY DEF Alone, Active
<1>2. QED
  BY <1>1 DEF Progress

LEMMA SubmitStep ==
  ASSUME Registry, PipelineInv, NEW j \in Job, Submit(j)
  PROVE  \A k \in Job : Alone(k)' /\ Progress(k)'
<1> USE DEF Registry, RegistryType, PipelineInv, PipelineType, Submit, Goto, subprocess
<1>1. ~Active(j) /\ pipe'[j] \notin Live
  BY DEF Active, Progress
<1>2. ASSUME NEW k \in Job PROVE Progress(k)'
  <2>1. CASE k = j
    BY <1>1, <2>1 DEF Progress
  <2>2. CASE k # j
    BY <2>2 DEF Progress, Faithful, Built, Complete, Cur, Show
  <2>3. QED
    BY <2>1, <2>2
<1>3. ASSUME NEW k \in Job, k \notin spoiled', Active(k)' PROVE \A i \in Job \ {k} : ~Active(i)'
  <2>1. \A i \in Job \ {j} : Active(i)' = Active(i)
    BY DEF Active
  <2>2. k = j
    BY <1>3, <2>1
  <2>3. QED
    BY <1>1, <1>3, <2>1, <2>2
<1>4. QED
  BY <1>2, <1>3 DEF Alone

LEMMA ServeStep ==
  ASSUME Registry, PipelineInv, NEW j \in Job, Serve(j)
  PROVE  \A k \in Job : Alone(k)' /\ Progress(k)'
<1> USE DEF Registry, RegistryType, PipelineInv, PipelineType, Goto, Show, subprocess
<1>1. Active(j) /\ spoiled \subseteq spoiled' /\ schema' = schema
  BY DEF Serve, Active, PersistQueued, Reset, ResetFails, SpawnRunner, SpawnFails, Begin,
         PersistRunning, Decide, TimesOut, Summarise, PersistFinal
<1>2. \A k \in Job \ {j} : at'[k] = at[k] /\ pipe'[k] = pipe[k]
  BY DEF Serve, PersistQueued, Reset, ResetFails, SpawnRunner, SpawnFails, Begin,
         PersistRunning, Decide, TimesOut, Summarise, PersistFinal
<1>3. \A k \in Job : Active(k)' => Active(k)
  BY <1>1, <1>2 DEF Active
<1>4. ASSUME NEW k \in Job \ {j} PROVE Progress(k)'
  BY <1>1, <1>2, OthersProgress
<1>5. Progress(j)'
  <2>1. CASE Reset(j)
    BY <2>1 DEF Reset, Progress, Faithful, IsComplete
  <2>2. CASE ResetFails(j)
    BY <2>2 DEF ResetFails, Progress
  <2>3. CASE PersistRunning(j)
    BY <2>3 DEF PersistRunning, Progress, Faithful, Built, Live
  <2>4. CASE TimesOut(j)
    BY <2>4 DEF TimesOut, Progress, Live
  <2>5. CASE Decide(j)
    BY <2>5 DEF Decide, Progress, Built, Complete, Live
  <2>6. CASE Summarise(j)
    BY <2>6 DEF Summarise, Progress, Complete
  <2>7. CASE PersistQueued(j) \/ SpawnRunner(j) \/ SpawnFails(j) \/ Begin(j) \/ PersistFinal(j)
    BY <2>7 DEF PersistQueued, SpawnRunner, SpawnFails, Begin, PersistFinal, Progress,
                Faithful
  <2>8. QED
    BY <2>1, <2>2, <2>3, <2>4, <2>5, <2>6, <2>7 DEF Serve
<1>6. QED
  BY <1>1, <1>3, <1>4, <1>5, StaysAlone

LEMMA RunAllStep ==
  ASSUME Registry, PipelineInv, NEW j \in Job, RunAll(j)
  PROVE  \A k \in Job : Alone(k)' /\ Progress(k)'
<1> USE DEF Registry, RegistryType, PipelineInv, PipelineType
<1>1. UNCHANGED <<api, mem, row, counts, saved, at, schema, spoiled>>
  BY RunAllKeepsRegistry
<1>2. pipe[j] \in Live /\ \A k \in Job \ {j} : pipe'[k] = pipe[k]
  BY DEF RunAll, PassOver, StartPhase, Work, SucceedPhase, Exit, Fails, In, Proceed, Live
<1>3. Active(j) /\ \A k \in Job : Active(k)' => Active(k)
  BY <1>1, <1>2 DEF Active
<1>4. ASSUME NEW k \in Job \ {j} PROVE Progress(k)'
  BY <1>1, <1>2, <1>3, OthersProgress
<1>5. at[j] \in {"wait", "off"}
  BY <1>2 DEF Progress
<1>6. ASSUME j \notin spoiled, at[j] = "wait"
      PROVE  Faithful(schema[j])' /\ Built(j)'
  <2>1. Faithful(schema[j]) /\ Built(j)
    BY <1>6 DEF Progress
  <2>2. pos[j] \in 1 .. Len(Order) + 1 /\ Len(Order) \in Nat
    BY JobApiAssumption
  <2>3. schema[j] \in Schema /\ results[schema[j]] \subseteq Phase
    OBVIOUS
  <2>4. CASE PassOver(j)
    <3>1. Cur(j) \in results[schema[j]]
      BY <2>1, <2>4, CurIsPhase DEF PassOver, In, Faithful
    <3>2. \A i \in 1 .. pos[j] : Order[i] \in results[schema[j]]
      BY <2>1, <2>2, <3>1 DEF Built, Cur
    <3>3. pos'[j] = pos[j] + 1 /\ pipe'[j] = "gate"
      BY <2>4 DEF PassOver, Proceed
    <3>4. UNCHANGED <<log, results, schema>>
      BY <1>1, <2>4 DEF PassOver
    <3>5. \A i \in 1 .. pos'[j] - 1 : i \in 1 .. pos[j]
      BY <2>2, <3>3
    <3>6. QED
      BY <2>1, <3>2, <3>3, <3>4, <3>5 DEF Built, Faithful
  <2>5. CASE StartPhase(j)
    BY <1>1, <2>1, <2>5 DEF StartPhase, In, LogStart, Built, Faithful, IsComplete, Cur
  <2>6. CASE Work(j)
    <3>1. Cur(j) \in Phase /\ pos[j] <= Len(Order)
      BY <2>6, CurIsPhase DEF Work, In
    <3>2. results'[schema[j]] = results[schema[j]] \cup {Cur(j)}
      BY <2>1, <2>3, <2>6 DEF Work, Built
    <3>3. pipe'[j] = "close" /\ UNCHANGED <<pos, log, schema>>
      BY <1>1, <2>6 DEF Work
    <3>4. QED
      BY <2>1, <3>1, <3>2, <3>3 DEF Built, Faithful, Cur
  <2>7. CASE SucceedPhase(j)
    <3>1. Cur(j) \in results[schema[j]] /\ Cur(j) \in Phase
      BY <2>1, <2>7, CurIsPhase DEF SucceedPhase, In, Built
    <3>2. \A i \in 1 .. pos[j] : Order[i] \in results[schema[j]]
      BY <2>1, <2>2, <3>1 DEF Built, Cur
    <3>3. pos'[j] = pos[j] + 1 /\ pipe'[j] = "gate"
      BY <2>7 DEF SucceedPhase, Proceed
    <3>4. \A i \in 1 .. pos'[j] - 1 : i \in 1 .. pos[j]
      BY <2>2, <3>3
    <3>5. UNCHANGED <<results, schema>>
      BY <1>1, <2>7 DEF SucceedPhase
    <3>6. Faithful(schema[j])'
      BY <2>1, <2>7, <3>1, <3>5 DEF SucceedPhase, LogSucceed, Faithful, IsComplete
    <3>7. QED
      BY <3>2, <3>3, <3>4, <3>5, <3>6 DEF Built
  <2>8. CASE Exit(j)
    <3>1. Phase \subseteq results[schema[j]]
      <4>1. DOMAIN Order = 1 .. Len(Order)
        BY JobApiAssumption
      <4>2. 1 .. pos[j] - 1 = 1 .. Len(Order)
        BY <2>2, <2>8 DEF Exit
      <4>3. QED
        BY <2>1, <4>1, <4>2 DEF Built, Phase
    <3>2. UNCHANGED <<pos, log, results, schema>> /\ pipe'[j] = "ok"
      BY <1>1, <2>8 DEF Exit
    <3>3. QED
      BY <2>1, <2>3, <3>1, <3>2 DEF Built, Faithful, Complete
  <2>9. CASE Fails(j)
    BY <1>1, <2>1, <2>9 DEF Fails, LogFail, Built, Faithful, IsComplete
  <2>10. QED
    BY <2>4, <2>5, <2>6, <2>7, <2>8, <2>9 DEF RunAll
<1>7. Progress(j)'
  BY <1>1, <1>5, <1>6 DEF Progress
<1>8. QED
  BY <1>1, <1>3, <1>4, <1>7, StaysAlone

LEMMA NextPipeline == Registry /\ PipelineInv /\ [Next]_vars => PipelineInv'
<1> SUFFICES ASSUME Registry, PipelineInv, [Next]_vars PROVE PipelineInv'
  OBVIOUS
<1>1. PipelineType'
  BY StepPipelineType DEF PipelineInv
<1>2. ASSUME NEW k \in Job PROVE Alone(k)' /\ Progress(k)'
  <2> USE DEF Registry, RegistryType, PipelineInv, PipelineType
  <2>1. CASE CrashApi
    <3>1. \A j \in Job : at'[j] \in {"none", "off"} /\ (at'[j] = "none" => at[j] = "none")
      BY <2>1 DEF CrashApi
    <3>2. \A j \in Job : pipe'[j] \in Live => pipe[j] \in Live
      BY <2>1 DEF CrashApi, Live
    <3>3. spoiled' = spoiled
      BY <2>1 DEF CrashApi
    <3>4. \A j \in Job : Active(j)' => Active(j)
      BY <3>1, <3>2 DEF Active
    <3>5. QED
      BY <3>1, <3>2, <3>3, <3>4, StaysAlone DEF Progress
  <2>2. CASE StartApi
    <3>1. at[k] \in {"none", "off"}
      BY <2>2 DEF StartApi, Stands
    <3>2. UNCHANGED <<at, pipe, spoiled>>
      BY <2>2 DEF StartApi, subprocess
    <3>3. QED
      BY <3>1, <3>2 DEF Progress, Alone, Active
  <2>3. CASE UNCHANGED vars
    BY <2>3 DEF vars, subprocess, Alone, Active, Progress, Faithful, Built, Complete, Cur
  <2>4. QED
    BY <2>1, <2>2, <2>3, SubmitStep, ServeStep, RunAllStep DEF Next
<1>3. QED
  BY <1>1, <1>2 DEF PipelineInv

(***************************************************************************)
(* A job that ran alone, after a reset that went through, is declared      *)
(* succeeded only with the output of every phase stored (submit_job,       *)
(* _reset_pipeline_state_for_schema, _run_pipeline).                       *)
(***************************************************************************)
THEOREM AloneIsCompleteHolds == Spec => []AloneIsComplete
<1>1. PipelineInv => AloneIsComplete
  BY DEF PipelineInv, Progress, AloneIsComplete
<1>2. Spec => []PipelineInv
  BY InitPipeline, NextPipeline, RegistryHolds, PTL DEF Spec
<1>3. QED
  BY <1>1, <1>2, PTL

(***************************************************************************)
(* From the counting of a job that ran alone to its row.                   *)
(***************************************************************************)
Whole(j) ==
  j \notin spoiled =>
    /\ at[j] = "counted" /\ mem[j] = "succeeded" => counts[j] \subseteq {Phase}
    /\ row[j] = "succeeded" => saved[j] \subseteq {Phase}

AllWhole == \A j \in Job : Whole(j)

LEMMA InitWhole == Init => AllWhole
BY DEF Init, Whole, AllWhole

(* The counts and the row of a job are written by its own thread. *)
LEMMA ServeWhole ==
  ASSUME Registry, PipelineInv, NEW j \in Job, Serve(j), \A k \in Job : Whole(k)
  PROVE  \A k \in Job : Whole(k)'
<1> USE DEF Registry, RegistryType, PipelineInv, PipelineType, Goto, Show, topline
<1>1. spoiled \subseteq spoiled'
  BY DEF Serve, PersistQueued, Reset, ResetFails, SpawnRunner, SpawnFails, Begin,
         PersistRunning, Decide, TimesOut, Summarise, PersistFinal
<1>2. \A k \in Job \ {j} : /\ at'[k] = at[k] /\ mem'[k] = mem[k] /\ row'[k] = row[k]
                           /\ counts'[k] = counts[k] /\ saved'[k] = saved[k]
  BY DEF Serve, PersistQueued, Persist, Reset, ResetFails, SpawnRunner, SpawnFails, Begin,
         PersistRunning, Decide, TimesOut, Summarise, PersistFinal
<1>3. Stands(j) /\ Whole(j) /\ Progress(j)
  OBVIOUS
<1>4. Whole(j)'
  <2>1. CASE Summarise(j)
    BY <1>3, <2>1 DEF Summarise, Whole, Stands, Progress, Complete
  <2>2. CASE PersistFinal(j)
    BY <1>3, <2>2 DEF PersistFinal, Persist, Whole
  <2>3. CASE PersistQueued(j) \/ PersistRunning(j)
    BY <1>3, <2>3 DEF PersistQueued, PersistRunning, Persist, Whole, Stands, InFlight
  <2>4. CASE Reset(j) \/ ResetFails(j) \/ SpawnRunner(j) \/ SpawnFails(j) \/ Begin(j)
    BY <1>1, <1>3, <2>4 DEF Reset, ResetFails, SpawnRunner, SpawnFails, Begin, Whole
  <2>5. CASE Decide(j) \/ TimesOut(j)
    BY <1>3, <2>5 DEF Decide, TimesOut, Whole
  <2>6. QED
    BY <2>1, <2>2, <2>3, <2>4, <2>5 DEF Serve
<1>5. QED
  BY <1>1, <1>2, <1>4 DEF Whole

LEMMA NextWhole == Registry /\ PipelineInv /\ AllWhole /\ [Next]_vars => AllWhole'
<1> SUFFICES ASSUME Registry, PipelineInv, AllWhole, [Next]_vars PROVE AllWhole'
  OBVIOUS
<1> USE DEF Registry, RegistryType, PipelineInv, PipelineType, Whole, AllWhole, topline
<1>1. CASE CrashApi
  BY <1>1 DEF CrashApi
<1>2. CASE StartApi
  BY <1>2 DEF StartApi, Stands
<1>3. ASSUME NEW j \in Job, Submit(j) PROVE AllWhole'
  BY <1>3 DEF Submit, Goto, Show, Stands
<1>4. ASSUME NEW j \in Job, RunAll(j) PROVE AllWhole'
  BY <1>4, RunAllKeepsRegistry
<1>5. CASE UNCHANGED vars
  BY <1>5 DEF vars
<1>6. QED
  BY <1>1, <1>2, <1>3, <1>4, <1>5, ServeWhole DEF Next

(***************************************************************************)
(* No job that overlapped with none is recorded as succeeded with counts   *)
(* of less than its full results (_run_pipeline, _job_stats_from_db).      *)
(***************************************************************************)
THEOREM CountsAreWholeHolds == Spec => []CountsAreWhole
<1>1. AllWhole => CountsAreWhole
  BY DEF AllWhole, Whole, CountsAreWhole
<1>2. Spec => []PipelineInv
  BY InitPipeline, NextPipeline, RegistryHolds, PTL DEF Spec
<1>3. Spec => []AllWhole
  BY <1>2, InitWhole, NextWhole, RegistryHolds, PTL DEF Spec
<1>4. QED
  BY <1>1, <1>3, PTL
-----------------------------------------------------------------------------
\* The counters stay within their bounds, and counts are sets of outputs.
Bounded ==
  /\ faults \in 0 .. MaxFaults /\ restarts \in 0 .. MaxRestarts
  /\ {counts, saved} \subseteq [Job -> SUBSET SUBSET Phase]

LEMMA InitBounded == Init => Bounded
BY JobApiAssumption DEF Init, Bounded

LEMMA NextBounded == PipelineInv /\ Bounded /\ [Next]_vars => Bounded'
<1> SUFFICES ASSUME PipelineInv, Bounded, [Next]_vars PROVE Bounded'
  OBVIOUS
<1> USE DEF Bounded, PipelineInv, PipelineType, Fault, bounds, topline
<1>0. MaxFaults \in Nat /\ MaxRestarts \in Nat
  BY JobApiAssumption
<1> USE <1>0
<1>1. CASE CrashApi
  BY <1>1 DEF CrashApi
<1>2. CASE StartApi
  BY <1>2 DEF StartApi
<1>3. ASSUME NEW j \in Job, Submit(j) PROVE Bounded'
  BY <1>3 DEF Submit
<1>4. ASSUME NEW j \in Job, Serve(j) PROVE Bounded'
  <2>1. CASE Summarise(j)
    <3>1. results[schema[j]] \in SUBSET Phase
      OBVIOUS
    <3>2. QED
      BY <2>1, <3>1 DEF Summarise
  <2>2. CASE PersistQueued(j) \/ PersistRunning(j) \/ PersistFinal(j)
    BY <2>2 DEF PersistQueued, PersistRunning, PersistFinal, Persist
  <2>3. CASE Reset(j) \/ ResetFails(j) \/ SpawnRunner(j) \/ SpawnFails(j) \/ Begin(j)
    BY <2>3 DEF Reset, ResetFails, SpawnRunner, SpawnFails, Begin
  <2>4. CASE Decide(j) \/ TimesOut(j)
    BY <2>4 DEF Decide, TimesOut
  <2>5. QED
    BY <1>4, <2>1, <2>2, <2>3, <2>4 DEF Serve
<1>5. ASSUME NEW j \in Job, RunAll(j) PROVE Bounded'
  BY <1>5 DEF RunAll, Fails
<1>6. CASE UNCHANGED vars
  BY <1>6 DEF vars
<1>7. QED
  BY <1>1, <1>2, <1>3, <1>4, <1>5, <1>6 DEF Next

(***************************************************************************)
(* Every variable of JobApi keeps its type.                                *)
(***************************************************************************)
THEOREM TypeCorrect == Spec => []TypeOK
<1>1. Spec => []PipelineInv
  BY InitPipeline, NextPipeline, RegistryHolds, PTL DEF Spec
<1>2. Registry /\ PipelineInv /\ Bounded => TypeOK
  BY DEF Registry, RegistryType, PipelineInv, PipelineType, Bounded, TypeOK, Place, Shown
<1>3. QED
  BY <1>1, <1>2, InitBounded, NextBounded, RegistryHolds, PTL DEF Spec
-----------------------------------------------------------------------------
(* The page of a job (EventStream). *)

\* What memory and the table say of the end of a subprocess.  A job is lost
\* that was in flight when the API died.
Lost(j) == restarts > 0 /\ at[j] = "off" /\ row[j] \in InFlight

Over(j, status) ==
  /\ status \in Terminal => pipe[j] \in {"ok", "bad"} \/ Lost(j)
  /\ status = "succeeded" => pipe[j] = "ok"

Ends(j) ==
  /\ at[j] \in {"none", "registered", "reset", "spawn", "start", "announce"} => pipe[j] = "off"
  /\ at[j] \in {"decided", "counted"} => pipe[j] \in {"ok", "bad"}
  /\ row[j] \in Terminal => pipe[j] \in {"ok", "bad"}
  /\ Over(j, row[j]) /\ Over(j, mem[j])
  /\ api = "down" => restarts > 0

\* A job on show that neither overlapped with another nor was followed by one.
Last(j) == j \notin spoiled \cup overtaken

Solo(j) == Last(j) /\ at[j] # "none" => \A k \in Job \ {j} : ~Active(k)

\* Its ledger: what its subprocess has passed is recorded as succeeded.
Recorded(j) ==
  Last(j) =>
    /\ pipe[j] \in Live => \A i \in 1 .. pos[j] - 1 : log[Order[i]] = "succeeded"
    /\ pipe[j] = "ok" => Rollup = Phase

\* What the page shows of the end of a job.
Shows(j) ==
  /\ stream[j] \in Reading \cup {"done"} => Over(j, page[j].status)
  /\ stream[j] = "done" =>
       /\ page[j].status \in Terminal
       /\ page[j].text \/ Lost(j)
       /\ page[j].status = "succeeded" /\ Last(j) => page[j].run_log \in {Phase, {}}

PageType ==
  /\ stream \in [Watched -> {"none", "done", "lost"} \cup Open]
  /\ page \in [Watched -> [status : Shown, counts : SUBSET SUBSET Phase,
                           run_log : SUBSET Phase, text : BOOLEAN]]

AllEnds == \A j \in Job : Ends(j)

PageInv == PageType /\ \A j \in Watched : Shows(j)

(* The streams leave the jobs alone, except that a failed read of theirs   *)
(* counts as a fault.                                                      *)
FailedRead ==
  /\ Fault
  /\ UNCHANGED <<api, schema, mem, row, topline, at, subprocess, spoiled>>

\* A step of the jobs, seen from the pages.
JobStep ==
  \/ CrashServer
  \/ StartApi /\ UNCHANGED watching
  \/ \E j \in Job : \/ SubmitWatched(j)
                    \/ (Serve(j) \/ RunAll(j)) /\ UNCHANGED watching

LEMMA PageStep ==
  ASSUME NEW j \in Watched,
         OpenPage(j) \/ Tick(j) \/ Expire(j) \/ Drop(j) \/ Reconnect(j) \/ Refuse(j)
  PROVE  (UNCHANGED vars \/ FailedRead) /\ UNCHANGED overtaken
<1> USE DEF bounds, FailedRead
<1>1. CASE OpenPage(j) \/ Reconnect(j)
  BY <1>1 DEF OpenPage, Reconnect, Hello
<1>2. CASE TickStatus(j) \/ JobGone(j) \/ Expire(j) \/ Refuse(j)
  BY <1>2 DEF TickStatus, JobGone, Expire, Refuse
<1>3. CASE Drop(j)
  BY <1>3 DEF Drop
<1>4. CASE TickViews(j)
  BY <1>4 DEF TickViews, Views, vars
<1>5. QED
  BY <1>1, <1>2, <1>3, <1>4 DEF Tick

LEMMA InnerStep == [WatchNext]_wvars => [Next]_vars \/ FailedRead
<1>1. JobStep => Next
  BY DEF JobStep, CrashServer, SubmitWatched, Next
<1>2. UNCHANGED wvars => UNCHANGED vars
  BY DEF wvars
<1>3. QED
  BY <1>1, <1>2, PageStep DEF WatchNext, JobStep

\* The invariants of JobApi, which hold with pages as well.
JobInv == Registry /\ PipelineInv /\ Bounded

LEMMA FailedReadKeeps == JobInv /\ FailedRead => JobInv'
<1> SUFFICES ASSUME JobInv, FailedRead PROVE JobInv'
  OBVIOUS
<1> USE DEF JobInv, FailedRead, topline, subprocess
<1>1. Registry'
  BY DEF Registry, RegistryType, Stands
<1>2. PipelineInv'
  BY DEF PipelineInv, PipelineType, Alone, Active, Progress, Faithful, Built, Complete, Cur
<1>3. Bounded'
  BY JobApiAssumption DEF Bounded, Fault
<1>4. QED
  BY <1>1, <1>2, <1>3

LEMMA NextJobInv == JobInv /\ [WatchNext]_wvars => JobInv'
BY InnerStep, FailedReadKeeps, NextRegistry, NextPipeline, NextBounded DEF JobInv

LEMMA InitEnds == Init => AllEnds
BY DEF Init, AllEnds, Ends, Over, Terminal

LEMMA NextEnds == JobInv /\ AllEnds /\ [WatchNext]_wvars => AllEnds'
<1> SUFFICES ASSUME JobInv, AllEnds, [WatchNext]_wvars PROVE AllEnds'
  OBVIOUS
<1> USE DEF JobInv, Registry, RegistryType, PipelineInv, PipelineType, AllEnds, Ends, Over, Lost,
            InFlight, Terminal, Live, Goto, Show, topline, subprocess, bounds
<1>1. CASE FailedRead
  BY <1>1 DEF FailedRead, Fault
<1>2. CASE CrashApi
  <2>1. restarts' > 0
    BY <1>2 DEF CrashApi, Bounded
  <2>2. \A j \in Job : /\ mem'[j] = "absent" /\ row'[j] = row[j]
                       /\ at'[j] = "none" => at[j] = "none"
                       /\ at'[j] \in {"none", "off"}
    BY <1>2 DEF CrashApi
  <2>3. \A j \in Job : pipe[j] \in {"off", "ok", "bad"} => pipe'[j] = pipe[j]
    BY <1>2 DEF CrashApi
  <2>4. ASSUME NEW j \in Job PROVE Ends(j)'
    <3>1. Ends(j) /\ Stands(j)
      OBVIOUS
    <3>2. row[j] \in Terminal => pipe'[j] = pipe[j] /\ pipe[j] \in {"ok", "bad"}
      BY <2>3, <3>1
    <3> HIDE DEF JobInv, Registry, RegistryType, PipelineInv, PipelineType, AllEnds
    <3>3. QED
      BY <2>1, <2>2, <2>3, <3>1, <3>2
  <2>5. QED
    BY <2>4
<1>3. CASE StartApi
  BY <1>3 DEF StartApi, Fault, Restored, Stands
<1>4. ASSUME NEW j \in Job, Submit(j) PROVE AllEnds'
  BY <1>4 DEF Submit, Stands
<1>5. ASSUME NEW j \in Job, Serve(j) PROVE AllEnds'
  <2>1. at[j] \notin {"none", "off"} /\ Stands(j) /\ api = "up"
    BY <1>5 DEF Serve, Stands, PersistQueued, Reset, ResetFails, SpawnRunner, SpawnFails, Begin,
           PersistRunning, Decide, TimesOut, Summarise, PersistFinal
  <2>2. UNCHANGED <<api, restarts>>
    BY <1>5 DEF Serve, PersistQueued, Reset, ResetFails, SpawnRunner, SpawnFails, Begin, Persist,
           PersistRunning, Decide, TimesOut, Summarise, PersistFinal, Fault
  <2>3. \A k \in Job \ {j} : /\ at'[k] = at[k] /\ mem'[k] = mem[k] /\ row'[k] = row[k]
                             /\ pipe'[k] = pipe[k]
    BY <1>5 DEF Serve, PersistQueued, Persist, Reset, ResetFails, SpawnRunner, SpawnFails, Begin,
           PersistRunning, Decide, TimesOut, Summarise, PersistFinal
  <2>4. \A k \in Job \ {j} : Ends(k)'
    BY <2>2, <2>3
  <2>5. Ends(j)'
    <3>1. CASE PersistQueued(j) \/ PersistRunning(j)
      BY <2>1, <2>2, <3>1 DEF PersistQueued, PersistRunning, Persist, Stands
    <3>2. CASE Reset(j) \/ ResetFails(j) \/ SpawnRunner(j) \/ SpawnFails(j) \/ Begin(j)
      BY <2>1, <2>2, <3>2 DEF Reset, ResetFails, SpawnRunner, SpawnFails, Begin, Stands
    <3>3. CASE Decide(j) \/ TimesOut(j)
      BY <2>1, <2>2, <3>3 DEF Decide, TimesOut, Stands
    <3>4. CASE Summarise(j) \/ PersistFinal(j)
      BY <2>1, <2>2, <3>4 DEF Summarise, PersistFinal, Persist, Stands
    <3>5. QED
      BY <1>5, <3>1, <3>2, <3>3, <3>4 DEF Serve
  <2>6. QED
    BY <2>4, <2>5
<1>6. ASSUME NEW j \in Job, RunAll(j) PROVE AllEnds'
  <2>1. UNCHANGED <<api, mem, row, at, restarts>>
    BY <1>6 DEF RunAll, Fails, Fault
  <2>2. pipe[j] \in Live /\ \A k \in Job \ {j} : pipe'[k] = pipe[k]
    BY <1>6 DEF RunAll, PassOver, StartPhase, Work, SucceedPhase, Exit, Fails, In, Proceed
  <2>3. pipe[j] \notin {"off", "ok", "bad"}
    BY <2>2
  <2>4. QED
    BY <2>1, <2>2, <2>3
<1>7. CASE UNCHANGED vars
  BY <1>7 DEF vars
<1>8. QED
  BY <1>1, <1>2, <1>3, <1>4, <1>5, <1>6, <1>7, InnerStep DEF Next

(* What no step takes back. *)
Onward ==
  /\ spoiled \subseteq spoiled'
  /\ \A j \in Job : /\ pipe[j] \in {"ok", "bad"} => pipe'[j] = pipe[j]
                    /\ Lost(j) => Lost(j)'
                    /\ at[j] # "none" => at'[j] # "none"
  /\ (\A p \in Phase : log[p] # "skipped") => \A p \in Phase : log'[p] # "skipped"

LEMMA JobOnward == JobInv /\ AllEnds /\ [WatchNext]_wvars => Onward
<1> SUFFICES ASSUME JobInv, AllEnds, [WatchNext]_wvars PROVE Onward
  OBVIOUS
<1> USE DEF JobInv, Registry, RegistryType, PipelineInv, PipelineType, AllEnds, Ends, Onward, Lost,
            InFlight, Live, Goto, Show, topline, subprocess, bounds
<1>1. CASE FailedRead
  BY <1>1 DEF FailedRead, Fault
<1>2. CASE CrashApi
  <2>1. UNCHANGED <<row, log, spoiled>> /\ restarts' = restarts + 1 /\ restarts \in Nat
    BY <1>2, JobApiAssumption DEF CrashApi, Bounded
  <2>2. \A j \in Job : /\ at[j] # "none" => at'[j] = "off"
                       /\ pipe[j] \in {"ok", "bad"} => pipe'[j] = pipe[j]
    BY <1>2 DEF CrashApi
  <2>3. QED
    BY <2>1, <2>2
<1>3. CASE StartApi
  BY <1>3 DEF StartApi, Fault
<1>4. ASSUME NEW j \in Job, Submit(j) PROVE Onward
  BY <1>4 DEF Submit
<1>5. ASSUME NEW j \in Job, Serve(j) PROVE Onward
  <2>1. CASE PersistQueued(j) \/ PersistRunning(j) \/ PersistFinal(j)
    BY <2>1 DEF PersistQueued, PersistRunning, PersistFinal, Persist, Fault
  <2>2. CASE Reset(j) \/ ResetFails(j) \/ SpawnRunner(j) \/ SpawnFails(j) \/ Begin(j)
    BY <2>2 DEF Reset, ResetFails, SpawnRunner, SpawnFails, Begin, Fault
  <2>3. CASE Decide(j) \/ TimesOut(j) \/ Summarise(j)
    BY <2>3 DEF Decide, TimesOut, Summarise, Fault
  <2>4. QED
    BY <1>5, <2>1, <2>2, <2>3 DEF Serve
<1>6. ASSUME NEW j \in Job, RunAll(j) PROVE Onward
  <2>1. UNCHANGED <<row, at, spoiled, restarts>>
    BY <1>6 DEF RunAll, Fails, Fault
  <2>2. pipe[j] \notin {"off", "ok", "bad"} /\ \A k \in Job \ {j} : pipe'[k] = pipe[k]
    BY <1>6 DEF RunAll, PassOver, StartPhase, Work, SucceedPhase, Exit, Fails, In, Proceed
  <2>3. (\A p \in Phase : log[p] # "skipped") => \A p \in Phase : log'[p] # "skipped"
    BY <1>6 DEF RunAll, PassOver, StartPhase, Work, SucceedPhase, Exit, Fails, LogStart,
       LogSucceed, LogFail
  <2>4. QED
    BY <2>1, <2>2, <2>3
<1>7. CASE UNCHANGED vars
  BY <1>7 DEF vars
<1>8. QED
  BY <1>1, <1>2, <1>3, <1>4, <1>5, <1>6, <1>7, InnerStep DEF Next

(* What was over stays over, and the exceptions only grow. *)
LEMMA OverStays ==
  ASSUME Onward, NEW j \in Job, NEW status, Over(j, status)
  PROVE  Over(j, status)'
BY DEF Onward, Over

(* Steps of a job that has a thread or a subprocess. *)
LEMMA WorkFacts ==
  ASSUME JobInv, NEW i \in Job, Serve(i) \/ RunAll(i)
  PROVE  /\ Active(i) /\ \A k \in Job \ {i} : at'[k] = at[k] /\ pipe'[k] = pipe[k] /\ pos'[k] = pos[k]
         /\ \A k \in Job : Active(k)' => Active(k)
         /\ at[i] = "none" => at'[i] = "none"
<1> USE DEF JobInv, Registry, RegistryType, PipelineInv, PipelineType, Goto, Show, subprocess
<1>1. CASE Serve(i)
  <2>1. at[i] \notin {"none", "off"}
    BY <1>1 DEF Serve, PersistQueued, Reset, ResetFails, SpawnRunner, SpawnFails, Begin,
           PersistRunning, Decide, TimesOut, Summarise, PersistFinal
  <2>2. \A k \in Job \ {i} : at'[k] = at[k] /\ pipe'[k] = pipe[k] /\ pos'[k] = pos[k]
    BY <1>1 DEF Serve, PersistQueued, Reset, ResetFails, SpawnRunner, SpawnFails, Begin,
           PersistRunning, Decide, TimesOut, Summarise, PersistFinal
  <2>3. QED
    BY <2>1, <2>2 DEF Active
<1>2. CASE RunAll(i)
  <2>1. at' = at
    BY <1>2, RunAllKeepsRegistry
  <2>2. pipe[i] \in Live /\ \A k \in Job \ {i} : pipe'[k] = pipe[k] /\ pos'[k] = pos[k]
    BY <1>2 DEF RunAll, PassOver, StartPhase, Work, SucceedPhase, Exit, Fails, In, Proceed, Live
  <2>3. QED
    BY <2>1, <2>2 DEF Active
<1>3. QED
  BY <1>1, <1>2

\* What the proof says of the job of a page, but for the page.
LedgerInv ==
  /\ \A p \in Phase : log[p] # "skipped"
  /\ overtaken \subseteq Watched
  /\ \A j \in Watched : Solo(j) /\ Recorded(j)

(* The subprocess of a job on its own. *)
LEMMA RecordedStep ==
  ASSUME JobInv, LedgerInv, NEW j \in Watched, RunAll(j), UNCHANGED overtaken
  PROVE  Recorded(j)'
<1> USE WatchedAssumption DEF JobInv, PipelineInv, PipelineType
<1>1. /\ Recorded(j) /\ pipe[j] \in Live /\ UNCHANGED <<spoiled, overtaken>>
      /\ j \in Job /\ \A p \in Phase : log[p] # "skipped"
  <2>1. pipe[j] \in Live
    BY DEF RunAll, PassOver, StartPhase, Work, SucceedPhase, Exit, Fails, In, Live
  <2>2. QED
    BY <2>1 DEF LedgerInv, RunAll
<1>2. SUFFICES ASSUME Last(j)
               PROVE  /\ pipe'[j] \in Live => \A i \in 1 .. pos'[j] - 1 : log'[Order[i]] = "succeeded"
                      /\ pipe'[j] = "ok" => Rollup' = Phase
  BY <1>1 DEF Recorded, Last
<1>3. \A i \in 1 .. pos[j] - 1 : log[Order[i]] = "succeeded"
  BY <1>1, <1>2 DEF Recorded
<1>4. pos[j] \in 1 .. Len(Order) + 1 /\ Len(Order) \in Nat /\ DOMAIN Order = 1 .. Len(Order)
  BY <1>1, JobApiAssumption
<1>5. CASE PassOver(j) \/ SucceedPhase(j)
  <2>1. pos[j] <= Len(Order) /\ pos'[j] = pos[j] + 1 /\ pipe'[j] = "gate"
    BY <1>1, <1>5 DEF PassOver, SucceedPhase, In, Proceed
  <2>2. Cur(j) \in Phase
    BY <1>1, <2>1, CurIsPhase
  <2>3. log'[Cur(j)] = "succeeded" /\ \A p \in Phase \ {Cur(j)} : log'[p] = log[p]
    BY <1>1, <1>5, <2>2 DEF PassOver, SucceedPhase, LogSucceed, IsComplete
  <2>4. \A i \in 1 .. pos[j] : Order[i] \in Phase /\ log'[Order[i]] = "succeeded"
    <3>1. \A i \in 1 .. pos[j] : i \in DOMAIN Order /\ (i = pos[j] \/ i \in 1 .. pos[j] - 1)
      BY <1>4, <2>1
    <3>2. QED
      BY <1>3, <2>3, <3>1 DEF Cur, Phase
  <2>5. pos'[j] - 1 = pos[j]
    BY <1>4, <2>1
  <2>6. QED
    BY <2>1, <2>4, <2>5
<1>6. CASE StartPhase(j)
  <2>1. pos[j] <= Len(Order) /\ pos'[j] = pos[j] /\ pipe'[j] = "body"
    BY <1>1, <1>6 DEF StartPhase, In
  <2>2. \A i \in 1 .. pos[j] - 1 : Order[i] \in Phase /\ Order[i] # Cur(j)
    <3>1. \A i \in 1 .. pos[j] - 1 : i \in DOMAIN Order /\ i # pos[j]
      BY <1>4, <2>1
    <3>2. pos[j] \in DOMAIN Order
      BY <1>4, <2>1
    <3>3. QED
      BY <3>1, <3>2, JobApiAssumption DEF Cur, Phase
  <2>3. \A p \in Phase \ {Cur(j)} : log'[p] = log[p]
    BY <1>6 DEF StartPhase, LogStart
  <2>4. QED
    BY <1>3, <2>1, <2>2, <2>3
<1>7. CASE Work(j)
  BY <1>1, <1>3, <1>7 DEF Work
<1>8. CASE Exit(j)
  <2>1. pipe'[j] = "ok" /\ log' = log /\ pos[j] = Len(Order) + 1
    BY <1>1, <1>8 DEF Exit
  <2>2. \A p \in Phase : log[p] = "succeeded"
    BY <1>3, <1>4, <2>1 DEF Phase
  <2>3. QED
    BY <2>1, <2>2 DEF Rollup, Live
<1>9. CASE Fails(j)
  BY <1>1, <1>9 DEF Fails, Live
<1>10. QED
  BY <1>5, <1>6, <1>7, <1>8, <1>9 DEF RunAll

LEMMA InitLedger == WatchInit => LedgerInv
BY WatchedAssumption DEF WatchInit, Init, LedgerInv, Solo, Recorded, Live

LEMMA NextLedger == JobInv /\ AllEnds /\ LedgerInv /\ [WatchNext]_wvars => LedgerInv'
<1> SUFFICES ASSUME JobInv, AllEnds, LedgerInv, [WatchNext]_wvars PROVE LedgerInv'
  OBVIOUS
<1> USE WatchedAssumption
<1>0. Onward /\ \A p \in Phase : log'[p] # "skipped"
  BY JobOnward DEF Onward, LedgerInv
<1>1. ASSUME UNCHANGED <<at, pipe, pos, log, spoiled, overtaken>> PROVE LedgerInv'
  BY <1>1 DEF LedgerInv, Solo, Recorded, Last, Active, Rollup
<1>2. CASE CrashServer
  <2>1. /\ UNCHANGED <<pos, log, spoiled, overtaken>>
        /\ \A k \in Job : /\ at'[k] \in {"none", "off"} /\ (at'[k] = "none" => at[k] = "none")
                          /\ at[k] = "none" => at'[k] = "none"
                          /\ pipe'[k] = pipe[k] \/ pipe'[k] = "off"
    BY <1>2 DEF CrashServer, CrashApi, JobInv, PipelineInv, PipelineType
  <2>2. \A k \in Job : Active(k)' => Active(k)
    BY <2>1 DEF Active, Live
  <2>3. ASSUME NEW j \in Watched PROVE Solo(j)' /\ Recorded(j)'
    BY <2>1, <2>2 DEF LedgerInv, Solo, Recorded, Last, Rollup, Live
  <2>4. QED
    BY <1>0, <2>1, <2>3 DEF LedgerInv
<1>3. CASE StartApi /\ UNCHANGED watching
  BY <1>1, <1>3 DEF StartApi, subprocess, watching
<1>4. ASSUME NEW i \in Job, SubmitWatched(i) PROVE LedgerInv'
  <2> USE <1>4 DEF SubmitWatched, Submit, Goto, subprocess
  <2>1. UNCHANGED <<pipe, pos, log>> /\ at[i] = "none" /\ \A k \in Job \ {i} : at'[k] = at[k]
    BY DEF JobInv, Registry, RegistryType
  <2>2. \A k \in Job \ {i} : Active(k)' = Active(k)
    BY <2>1 DEF Active
  <2>3. /\ overtaken \subseteq overtaken' /\ spoiled \subseteq spoiled'
        /\ overtaken' \subseteq Watched
    BY DEF LedgerInv
  <2>4. ASSUME NEW j \in Watched, Last(j)', at'[j] # "none" PROVE \A k \in Job \ {j} : ~Active(k)'
    <3>1. j = i
      BY <2>1, <2>4 DEF Last
    <3>2. {k \in Job : Active(k)} = {}
      BY <2>4, <3>1 DEF Last
    <3>3. QED
      BY <2>2, <3>1, <3>2
  <2>5. \A j \in Watched : Recorded(j)'
    BY <2>1, <2>3 DEF LedgerInv, Recorded, Last, Rollup
  <2>6. QED
    BY <1>0, <2>3, <2>4, <2>5 DEF LedgerInv, Solo
<1>5. ASSUME NEW i \in Job, Serve(i) \/ RunAll(i), UNCHANGED watching PROVE LedgerInv'
  <2>1. /\ Active(i) /\ \A k \in Job \ {i} : at'[k] = at[k] /\ pipe'[k] = pipe[k] /\ pos'[k] = pos[k]
        /\ \A k \in Job : Active(k)' => Active(k)
        /\ at[i] = "none" => at'[i] = "none"
    BY <1>5, WorkFacts
  <2>2. UNCHANGED overtaken /\ spoiled \subseteq spoiled'
    BY <1>0, <1>5 DEF watching, Onward
  <2>3. ASSUME NEW j \in Watched PROVE Solo(j)'
    BY <2>1, <2>2 DEF LedgerInv, Solo, Last
  <2>4. ASSUME NEW j \in Watched, j # i PROVE Recorded(j)'
    <3>1. Last(j) => at[j] = "none"
      BY <2>1, <2>4 DEF LedgerInv, Solo
    <3>2. Last(j) => pipe[j] = "off"
      BY <3>1 DEF AllEnds, Ends
    <3>3. pipe'[j] = pipe[j] /\ (Last(j)' => Last(j))
      BY <2>1, <2>2, <2>4 DEF Last
    <3>4. QED
      BY <3>2, <3>3 DEF Recorded, Live
  <2>5. ASSUME i \in Watched PROVE Recorded(i)'
    <3>1. CASE RunAll(i)
      BY <2>2, <2>5, <3>1, RecordedStep
    <3>2. CASE Reset(i)
      <4>1. pipe'[i] = "off"
        BY <3>2 DEF Reset, AllEnds, Ends
      <4>2. QED
        BY <4>1 DEF Recorded, Live
    <3>3. CASE PersistRunning(i)
      <4>1. pipe'[i] = "gate" /\ pos'[i] = 1
        BY <3>3 DEF PersistRunning, JobInv, PipelineInv, PipelineType
      <4>2. QED
        BY <4>1 DEF Recorded
    <3>4. CASE TimesOut(i)
      <4>1. pipe'[i] = "bad"
        BY <3>4 DEF TimesOut, JobInv, PipelineInv, PipelineType
      <4>2. QED
        BY <4>1 DEF Recorded, Live
    <3>5. CASE \/ PersistQueued(i) \/ ResetFails(i) \/ SpawnRunner(i) \/ SpawnFails(i)
               \/ Begin(i) \/ Decide(i) \/ Summarise(i) \/ PersistFinal(i)
      <4>1. UNCHANGED <<pipe, pos, log>>
        BY <3>5 DEF PersistQueued, ResetFails, SpawnRunner, SpawnFails, Begin, Decide,
           Summarise, PersistFinal, subprocess
      <4>2. QED
        BY <2>2, <2>5, <4>1 DEF LedgerInv, Recorded, Last, Rollup
    <3>6. QED
      BY <1>5, <3>1, <3>2, <3>3, <3>4, <3>5 DEF Serve
  <2>6. QED
    BY <1>0, <2>2, <2>3, <2>4, <2>5 DEF LedgerInv
<1>6. ASSUME NEW j \in Watched,
             OpenPage(j) \/ Tick(j) \/ Expire(j) \/ Drop(j) \/ Reconnect(j) \/ Refuse(j)
      PROVE  LedgerInv'
  <2>1. (UNCHANGED vars \/ FailedRead) /\ UNCHANGED overtaken
    BY <1>6, PageStep
  <2>2. QED
    BY <1>1, <2>1 DEF vars, subprocess, FailedRead
<1>7. CASE UNCHANGED wvars
  BY <1>1, <1>7 DEF wvars, vars, watching, subprocess
<1>8. QED
  BY <1>2, <1>3, <1>4, <1>5, <1>6, <1>7 DEF WatchNext

LEMMA InitPage == WatchInit => PageInv
BY DEF WatchInit, PageInv, PageType, Shows, BlankPage, Reading, Shown

(* A step of the jobs does not write the page, and takes nothing back that *)
(* it shows.                                                               *)
LEMMA PageStays ==
  ASSUME Onward, overtaken \subseteq overtaken', NEW j \in Watched, Shows(j),
         stream'[j] = stream[j], page'[j] = page[j]
  PROVE  Shows(j)'
<1>1. j \in Job
  BY WatchedAssumption
<1>2. Over(j, page[j].status) => Over(j, page[j].status)'
  BY <1>1, OverStays
<1>3. (Lost(j) => Lost(j)') /\ (Last(j)' => Last(j))
  BY <1>1 DEF Onward, Last
<1>4. QED
  BY <1>2, <1>3 DEF Shows, Over

(* A frame of the snapshot or of the status carries the job as it is. *)
LEMMA FrameShows ==
  ASSUME JobInv, AllEnds, PageType, NEW j \in Watched, Hello(j) \/ TickStatus(j)
  PROVE  PageType' /\ Shows(j)'
<1> USE WatchedAssumption DEF Hello, TickStatus, Stream, PageType, Reading, Open
<1>1. stream' = [stream EXCEPT ![j] = stream'[j]] /\ stream'[j] \in Reading
  OBVIOUS
<1>2. /\ page' = [page EXCEPT ![j] = page'[j]] /\ page'[j].status = mem[j]
      /\ page'[j] \in [status : Shown, counts : SUBSET SUBSET Phase, run_log : SUBSET Phase,
                       text : BOOLEAN]
  <2>1. mem[j] \in Shown /\ counts[j] \in SUBSET SUBSET Phase
    BY DEF JobInv, Registry, RegistryType, Bounded
  <2>2. QED
    BY <2>1
<1>3. Over(j, page[j].status)'
  <2>1. Over(j, mem[j])
    BY DEF AllEnds, Ends
  <2>2. UNCHANGED <<mem, pipe, at, row, restarts>>
    BY DEF vars, subprocess, bounds
  <2>3. QED
    BY <1>2, <2>1, <2>2 DEF Over, Lost
<1>4. QED
  BY <1>1, <1>2, <1>3 DEF Shows

LEMMA LoseShows ==
  ASSUME PageType, NEW j \in Watched, NEW s \in {"lost", "retry"}, Lose(j, s)
  PROVE  PageType' /\ Shows(j)'
<1>1. stream'[j] = s
  BY DEF Lose, Stream, PageType
<1>2. PageType'
  BY DEF Lose, Stream, PageType, BlankPage, Open, Shown
<1>3. QED
  BY <1>1, <1>2 DEF Shows, Reading

(* The tick that finds the job over reads the ledger and the log after it. *)
LEMMA ViewsShow ==
  ASSUME JobInv, AllEnds, LedgerInv, PageInv, NEW j \in Watched, TickViews(j)
  PROVE  PageType' /\ Shows(j)'
<1> USE WatchedAssumption DEF PageInv, PageType
<1>1. PICK entries \in {Rollup, {}} :
        /\ Views(j, entries)
        /\ IF Settled(page[j].status)
             THEN /\ page' = [page EXCEPT ![j].text = Text(j), ![j].run_log = entries]
                  /\ Stream(j, "done")
             ELSE Stream(j, "tick") /\ UNCHANGED page
  BY DEF TickViews
<1>2. UNCHANGED <<row, at, pipe, spoiled, overtaken>> /\ restarts' = restarts
  BY <1>1 DEF Views, subprocess, bounds, Fault
<1>3. Over(j, page[j].status)
  BY DEF TickViews, Shows, Reading
<1>4. \A status : Over(j, status) => Over(j, status)'
  BY <1>2 DEF Over, Lost
<1>5. CASE ~Settled(page[j].status)
  <2>1. stream' = [stream EXCEPT ![j] = "tick"] /\ page' = page
    BY <1>1, <1>5 DEF Stream
  <2>2. QED
    BY <1>3, <1>4, <2>1 DEF Shows, Open, Reading, Over
<1>6. CASE Settled(page[j].status)
  <2>1. stream' = [stream EXCEPT ![j] = "done"]
    BY <1>1, <1>6 DEF Stream
  <2>2. Text(j) \in BOOLEAN /\ entries \in SUBSET Phase
    BY DEF Text, Rollup
  <2>3. /\ page' = [page EXCEPT ![j] = page'[j]]
        /\ page'[j].status = page[j].status /\ page'[j].text = Text(j) /\ page'[j].run_log = entries
        /\ page'[j] \in [status : Shown, counts : SUBSET SUBSET Phase, run_log : SUBSET Phase,
                         text : BOOLEAN]
    BY <1>1, <1>6, <2>2
  <2>4. page[j].status \in Terminal
    BY <1>6 DEF Settled
  <2>5. Text(j) \/ Lost(j)'
    BY <1>2, <1>3, <2>4 DEF Over, Text, Lost
  <2>6. page[j].status = "succeeded" /\ Last(j)' => entries \in {Phase, {}}
    BY <1>2, <1>3 DEF Over, Last, LedgerInv, Recorded
  <2>7. PageType'
    BY <2>1, <2>3 DEF PageType
  <2>8. stream'[j] = "done"
    BY <2>1
  <2>9. Over(j, page[j].status)'
    BY <1>2, <1>3, <2>3 DEF Over, Lost
  <2>10. QED
    BY <2>3, <2>4, <2>5, <2>6, <2>7, <2>8, <2>9 DEF Shows
<1>7. QED
  BY <1>5, <1>6

LEMMA NextPage ==
  JobInv /\ AllEnds /\ LedgerInv /\ PageInv /\ [WatchNext]_wvars => PageInv'
<1> SUFFICES ASSUME JobInv, AllEnds, LedgerInv, PageInv, [WatchNext]_wvars PROVE PageInv'
  OBVIOUS
<1>0. Onward
  BY JobOnward
<1>1. ASSUME UNCHANGED <<stream, page>>, overtaken \subseteq overtaken' PROVE PageInv'
  BY <1>0, <1>1, PageStays DEF PageInv, PageType
<1>2. CASE CrashServer
  <2>1. overtaken' = overtaken
    BY <1>2 DEF CrashServer
  <2>2. PageType'
    BY <1>2 DEF CrashServer, PageInv, PageType, BlankPage, Open, Reading, Shown
  <2>3. ASSUME NEW j \in Watched PROVE Shows(j)'
    <3>1. CASE stream[j] \in Open
      <4>1. stream'[j] = "retry"
        BY <1>2, <3>1 DEF CrashServer
      <4>2. QED
        BY <4>1 DEF Shows, Reading
    <3>2. CASE stream[j] \notin Open
      <4>1. stream'[j] = stream[j] /\ page'[j] = page[j]
        BY <1>2, <3>2 DEF CrashServer
      <4>2. QED
        BY <1>0, <2>1, <4>1, PageStays DEF PageInv
    <3>3. QED
      BY <3>1, <3>2
  <2>4. QED
    BY <2>2, <2>3 DEF PageInv
<1>3. CASE \/ StartApi /\ UNCHANGED watching
           \/ \E i \in Job : \/ SubmitWatched(i)
                             \/ (Serve(i) \/ RunAll(i)) /\ UNCHANGED watching
  BY <1>1, <1>3 DEF SubmitWatched, watching
<1>4. ASSUME NEW j \in Watched,
             OpenPage(j) \/ Tick(j) \/ Expire(j) \/ Drop(j) \/ Reconnect(j) \/ Refuse(j)
      PROVE  PageInv'
  <2>1. overtaken' = overtaken
    BY <1>4, PageStep
  <2>2. \A k \in Watched \ {j} : stream'[k] = stream[k] /\ page'[k] = page[k]
    BY <1>4 DEF OpenPage, Tick, Expire, Drop, Reconnect, Refuse, Hello, TickStatus, JobGone,
       TickViews, Lose, Stream, PageInv, PageType
  <2>3. \A k \in Watched \ {j} : Shows(k)'
    BY <1>0, <2>1, <2>2, PageStays DEF PageInv
  <2>4. PageType' /\ Shows(j)'
    <3>1. CASE OpenPage(j) \/ Reconnect(j) \/ TickStatus(j)
      BY <3>1, FrameShows DEF OpenPage, Reconnect, PageInv
    <3>2. CASE JobGone(j) \/ Expire(j) \/ Drop(j)
      BY <3>2, LoseShows DEF JobGone, Expire, Drop, PageInv
    <3>3. CASE Refuse(j)
      <4>1. stream' = [stream EXCEPT ![j] = "lost"] /\ page' = page
        BY <3>3 DEF Refuse, Stream
      <4>2. QED
        BY <4>1 DEF PageInv, PageType, Shows, Reading
    <3>4. CASE TickViews(j)
      BY <3>4, ViewsShow
    <3>5. QED
      BY <1>4, <3>1, <3>2, <3>3, <3>4 DEF Tick
  <2>5. QED
    BY <2>3, <2>4 DEF PageInv
<1>5. CASE UNCHANGED wvars
  BY <1>1, <1>5 DEF wvars, watching
<1>6. QED
  BY <1>2, <1>3, <1>4, <1>5 DEF WatchNext

(***************************************************************************)
(* A page that was told its job is over shows the outcome, all that the    *)
(* pipeline wrote and, for a job that ran alone and succeeded, a ledger    *)
(* with every phase succeeded: whatever the order of the stream's reads    *)
(* and of the writes of the runner and of the subprocess, and through      *)
(* drops and restarts (_job_event_stream, _run_pipeline).                  *)
(***************************************************************************)
THEOREM DoneShowsAllHolds == WatchSpec => []DoneShowsAll
<1>1. WatchInit => JobInv /\ AllEnds
  BY InitRegistry, InitPipeline, InitBounded, InitEnds DEF WatchInit, JobInv
<1>2. WatchSpec => [](JobInv /\ AllEnds /\ LedgerInv /\ PageInv)
  BY <1>1, InitLedger, InitPage, NextJobInv, NextEnds, NextLedger, NextPage, PTL DEF WatchSpec
<1>3. PageInv => DoneShowsAll
  BY DEF PageInv, Shows, DoneShowsAll, Last, Lost
<1>4. QED
  BY <1>2, <1>3, PTL

(***************************************************************************)
(* Opening pages takes nothing from the jobs: what is proved of them above *)
(* holds with any number of streams reading beside them, whatever reads    *)
(* fail (_job_event_stream has no lock and writes nothing).                *)
(***************************************************************************)
THEOREM PagesDisturbNothing ==
  WatchSpec => [](TypeOK /\ NoZombies /\ RecordedIsShown /\ AloneIsComplete /\ CountsAreWhole)
<1>1. WatchInit => JobInv /\ AllWhole
  BY InitRegistry, InitPipeline, InitBounded, InitWhole DEF WatchInit, JobInv
<1>2. JobInv /\ AllWhole /\ [WatchNext]_wvars => AllWhole'
  <2>1. AllWhole /\ FailedRead => AllWhole'
    BY DEF AllWhole, Whole, FailedRead, topline
  <2>2. QED
    BY <2>1, InnerStep, NextWhole DEF JobInv
<1>3. JobInv => TypeOK /\ NoZombies /\ RecordedIsShown /\ AloneIsComplete
  <2> USE DEF JobInv, Registry, RegistryType, PipelineInv
  <2>1. JobInv => TypeOK
    BY DEF PipelineType, Bounded, TypeOK, Place, Shown
  <2>2. JobInv => NoZombies /\ RecordedIsShown
    BY DEF Stands, NoZombies, RecordedIsShown, Place
  <2>3. JobInv => AloneIsComplete
    BY DEF Progress, AloneIsComplete
  <2>4. QED
    BY <2>1, <2>2, <2>3
<1>4. AllWhole => CountsAreWhole
  BY DEF AllWhole, Whole, CountsAreWhole
<1>5. QED
  BY <1>1, <1>2, <1>3, <1>4, NextJobInv, PTL DEF WatchSpec
=============================================================================
