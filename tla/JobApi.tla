-------------------------------- MODULE JobApi --------------------------------
(***************************************************************************)
(* The job API (backend/python/api/main.py): a registry of jobs in memory, *)
(* written through to discovery.jobs; a request thread that resets the     *)
(* results of the schema and spawns a runner thread; a runner that waits   *)
(* for a run-all subprocess.  All jobs share one results database and one  *)
(* ledger, whose global rows carry no job and no schema.                   *)
(*                                                                         *)
(* run-all is Orchestrator with two phases, each building on the output of *)
(* the one before it in the results of the schema.                         *)
(***************************************************************************)
EXTENDS Naturals, Sequences, RunLog

CONSTANTS
  Job,          \* the submissions
  Schema,       \* the source schemas they may name
  Order,        \* the phases of run-all
  Patient,      \* TRUE: a job is submitted only when none is shown in flight
  MaxFaults,    \* bound: failed writes, failed phases, timeouts
  MaxRestarts   \* bound: deaths of the API process

ASSUME JobApiAssumption ==
  /\ Order \in Seq(STRING) /\ Order # <<>>
  /\ \A i, k \in DOMAIN Order : Order[i] = Order[k] => i = k
  /\ Patient \in BOOLEAN
  /\ {MaxFaults, MaxRestarts} \subseteq Nat

VARIABLES
  api,       \* "up" or "down"
  schema,    \* the schema each job names
  mem,       \* _jobs: status of each job in memory, or "absent"
  row,       \* discovery.jobs: status column of each job, or "absent"
  counts,    \* what the relationship, PII and cluster counts of each job in
             \* memory were counted from: {a set of stored outputs}, or {}
  saved,     \* the same in discovery.jobs
  at,        \* where submit_job or _run_pipeline stands for each job
  pipe,      \* the run-all subprocess of each job
  pos,       \* the phase that subprocess visits
  log,       \* the global rows of run_log
  results,   \* for each schema, the phases whose output is stored
  spoiled,   \* jobs that overlapped with another, or whose reset failed
  faults, restarts

subprocess == <<pipe, pos, log, results>>
topline == <<counts, saved>>
bounds == <<faults, restarts>>
vars == <<api, schema, mem, row, topline, at, subprocess, spoiled, bounds>>

Phase == {Order[i] : i \in DOMAIN Order}
InFlight == {"queued", "running"}
Terminal == {"succeeded", "failed"}
Live == {"gate", "body", "close"}

TypeOK ==
  /\ api \in {"up", "down"}
  /\ schema \in [Job -> Schema]
  /\ {mem[j] : j \in Job} \cup {row[j] : j \in Job}
       \subseteq {"absent"} \cup InFlight \cup Terminal
  /\ at \in [Job -> {"none", "registered", "reset", "spawn", "start", "announce",
                     "wait", "decided", "counted", "off"}]
  /\ {counts, saved} \subseteq [Job -> SUBSET SUBSET Phase]
  /\ pipe \in [Job -> {"off", "ok", "bad"} \cup Live]
  /\ pos \in [Job -> 1 .. Len(Order) + 1]
  /\ log \in [Phase -> Status]
  /\ results \in [Schema -> SUBSET Phase]
  /\ spoiled \subseteq Job
  /\ faults \in 0 .. MaxFaults /\ restarts \in 0 .. MaxRestarts

Init ==
  /\ api = "up"
  /\ schema \in [Job -> Schema]
  /\ mem = [j \in Job |-> "absent"] /\ row = [j \in Job |-> "absent"]
  /\ counts = [j \in Job |-> {}] /\ saved = [j \in Job |-> {}]
  /\ at = [j \in Job |-> "none"]
  /\ pipe = [j \in Job |-> "off"] /\ pos = [j \in Job |-> 1]
  /\ log = [p \in Phase |-> "none"]
  /\ results = [s \in Schema |-> {}]
  /\ spoiled = {}
  /\ faults = 0 /\ restarts = 0
-----------------------------------------------------------------------------
Fault == faults < MaxFaults /\ faults' = faults + 1 /\ UNCHANGED restarts

Goto(j, p) == at' = [at EXCEPT ![j] = p]

Show(j, s) == mem' = [mem EXCEPT ![j] = s]

\* _persist_job: an upsert of the row, whose failure is only printed.
Persist(j) ==
  /\ \/ /\ row' = [row EXCEPT ![j] = mem[j]]
        /\ saved' = [saved EXCEPT ![j] = counts[j]]
        /\ UNCHANGED bounds
     \/ Fault /\ UNCHANGED <<row, saved>>
  /\ UNCHANGED counts

Active(j) == at[j] \notin {"none", "off"} \/ pipe[j] \in Live

\* submit_job: the job enters the registry.
Submit(j) ==
  /\ api = "up" /\ at[j] = "none"
  /\ Patient => \A k \in Job : mem[k] \notin InFlight
  /\ Show(j, "queued")
  /\ Goto(j, "registered")
  /\ LET Others == {k \in Job : Active(k)}
     IN spoiled' = spoiled \cup Others \cup (IF Others = {} THEN {} ELSE {j})
  /\ UNCHANGED <<api, schema, row, topline, subprocess, bounds>>

PersistQueued(j) ==
  /\ at[j] = "registered"
  /\ Persist(j)
  /\ Goto(j, "reset")
  /\ UNCHANGED <<api, schema, mem, subprocess, spoiled>>

\* Mutant of Reset: only the rows of the schema are deleted.
MutantReset(j) ==
  /\ at[j] = "reset"
  /\ results' = [results EXCEPT ![schema[j]] = {}]
  /\ Goto(j, "spawn")
  /\ UNCHANGED <<api, schema, mem, row, topline, pipe, pos, log, spoiled, bounds>>

\* One transaction: the rows of the schema, and the whole of run_log.
Reset(j) ==
  /\ at[j] = "reset"
  /\ log' = [p \in Phase |-> "none"]
  /\ results' = [results EXCEPT ![schema[j]] = {}]
  /\ Goto(j, "spawn")
  /\ UNCHANGED <<api, schema, mem, row, topline, pipe, pos, spoiled, bounds>>

\* Best-effort: the transaction is rolled back and the job goes on.
ResetFails(j) ==
  /\ at[j] = "reset"
  /\ Fault
  /\ spoiled' = spoiled \cup {j}
  /\ Goto(j, "spawn")
  /\ UNCHANGED <<api, schema, mem, row, topline, subprocess>>

SpawnRunner(j) ==
  /\ at[j] = "spawn"
  /\ Goto(j, "start")
  /\ UNCHANGED <<api, schema, mem, row, topline, subprocess, spoiled, bounds>>

\* The thread cannot be started: the client gets a 500.
SpawnFails(j) ==
  /\ at[j] = "spawn"
  /\ Fault
  /\ Show(j, "absent")
  /\ Goto(j, "off")
  /\ UNCHANGED <<api, schema, row, topline, subprocess, spoiled>>
-----------------------------------------------------------------------------
\* _run_pipeline

Begin(j) ==
  /\ at[j] = "start"
  /\ Show(j, "running")
  /\ Goto(j, "announce")
  /\ UNCHANGED <<api, schema, row, topline, subprocess, spoiled, bounds>>

PersistRunning(j) ==
  /\ at[j] = "announce"
  /\ Persist(j)
  /\ pipe' = [pipe EXCEPT ![j] = "gate"]
  /\ pos' = [pos EXCEPT ![j] = 1]
  /\ Goto(j, "wait")
  /\ UNCHANGED <<api, schema, mem, log, results, spoiled>>

\* Mutant of Decide: the runner goes on waiting after a nonzero exit code.
MutantDecide(j) ==
  /\ at[j] = "wait" /\ pipe[j] = "ok"
  /\ Show(j, "succeeded")
  /\ Goto(j, "decided")
  /\ UNCHANGED <<api, schema, row, topline, subprocess, spoiled, bounds>>

\* The subprocess is over.
Decide(j) ==
  /\ at[j] = "wait" /\ pipe[j] \in {"ok", "bad"}
  /\ Show(j, IF pipe[j] = "ok" THEN "succeeded" ELSE "failed")
  /\ Goto(j, "decided")
  /\ UNCHANGED <<api, schema, row, topline, subprocess, spoiled, bounds>>

\* 24 hours: subprocess.run kills its child before it raises.
TimesOut(j) ==
  /\ at[j] = "wait" /\ pipe[j] \in Live
  /\ Fault
  /\ pipe' = [pipe EXCEPT ![j] = "bad"]
  /\ Show(j, "failed")
  /\ Goto(j, "decided")
  /\ UNCHANGED <<api, schema, row, topline, pos, log, results, spoiled>>

\* The end of the job and its counts, by queries on its schema that may fail.
Summarise(j) ==
  /\ at[j] = "decided"
  /\ \/ counts' = [counts EXCEPT ![j] = {results[schema[j]]}] /\ UNCHANGED bounds
     \/ Fault /\ UNCHANGED counts
  /\ Goto(j, "counted")
  /\ UNCHANGED <<api, schema, mem, row, saved, subprocess, spoiled>>

PersistFinal(j) ==
  /\ at[j] = "counted"
  /\ Persist(j)
  /\ Goto(j, "off")
  /\ UNCHANGED <<api, schema, mem, subprocess, spoiled>>
-----------------------------------------------------------------------------
\* The run-all subprocess (see Orchestrator).

Cur(j) == Order[pos[j]]

In(j, s) == pipe[j] = s /\ pos[j] <= Len(Order)

Proceed(j) == pos' = [pos EXCEPT ![j] = @ + 1] /\ pipe' = [pipe EXCEPT ![j] = "gate"]

PassOver(j) ==
  /\ In(j, "gate") /\ IsComplete(log, Cur(j))
  /\ Proceed(j)
  /\ UNCHANGED <<log, results>>

StartPhase(j) ==
  /\ In(j, "gate") /\ ~IsComplete(log, Cur(j))
  /\ log' = LogStart(log, Cur(j))
  /\ pipe' = [pipe EXCEPT ![j] = "body"]
  /\ UNCHANGED <<pos, results>>

\* A phase that finds the output of the earlier ones missing has nothing to do.
Work(j) ==
  /\ In(j, "body")
  /\ results' = [results EXCEPT ![schema[j]] =
       IF \A i \in 1 .. pos[j] - 1 : Order[i] \in @ THEN @ \cup {Cur(j)} ELSE @]
  /\ pipe' = [pipe EXCEPT ![j] = "close"]
  /\ UNCHANGED <<pos, log>>

SucceedPhase(j) ==
  /\ In(j, "close")
  /\ log' = LogSucceed(log, Cur(j))
  /\ Proceed(j)
  /\ UNCHANGED results

Exit(j) ==
  /\ pipe[j] = "gate" /\ pos[j] = Len(Order) + 1
  /\ pipe' = [pipe EXCEPT ![j] = "ok"]
  /\ UNCHANGED <<pos, log, results>>

\* A phase raises, or the subprocess is killed.
Fails(j) ==
  /\ In(j, "body")
  /\ Fault
  /\ \/ log' = LogFail(log, Cur(j))
     \/ UNCHANGED log
  /\ pipe' = [pipe EXCEPT ![j] = "bad"]
  /\ UNCHANGED <<pos, results>>

RunAll(j) ==
  /\ \/ UNCHANGED bounds /\ (PassOver(j) \/ StartPhase(j) \/ Work(j) \/ SucceedPhase(j)
                              \/ Exit(j))
     \/ Fails(j)
  /\ UNCHANGED <<api, schema, mem, row, topline, at, spoiled>>
-----------------------------------------------------------------------------
\* The API dies with its threads.  A subprocess may outlive it: stop.sh
\* signals the server alone.
CrashApi ==
  /\ api = "up"
  /\ restarts < MaxRestarts
  /\ restarts' = restarts + 1
  /\ api' = "down"
  /\ mem' = [j \in Job |-> "absent"] /\ counts' = [j \in Job |-> {}]
  /\ at' = [j \in Job |-> IF at[j] = "none" THEN "none" ELSE "off"]
  /\ \E Killed \in SUBSET {j \in Job : pipe[j] \in Live} :
       pipe' = [j \in Job |-> IF j \in Killed THEN "off" ELSE pipe[j]]
  /\ UNCHANGED <<schema, row, saved, pos, log, results, spoiled, faults>>

\* Mutants of Restored: a queued job is left as it was; every job is failed.
MutantRestored(status) == IF status = "running" THEN "failed" ELSE status
MutantRestoredAll(status) == IF status = "absent" THEN status ELSE "failed"

\* _load_jobs_from_db shows what was in flight as failed, in memory only.
Restored(status) == IF status \in InFlight THEN "failed" ELSE status

StartApi ==
  /\ api = "down"
  /\ api' = "up"
  /\ \/ mem' = [j \in Job |-> Restored(row[j])] /\ counts' = saved /\ UNCHANGED faults
     \/ Fault /\ UNCHANGED <<mem, counts>>
  /\ UNCHANGED <<schema, row, saved, at, subprocess, spoiled, restarts>>

Serve(j) ==
  \/ PersistQueued(j) \/ Reset(j) \/ ResetFails(j) \/ SpawnRunner(j) \/ SpawnFails(j)
  \/ Begin(j) \/ PersistRunning(j) \/ Decide(j) \/ TimesOut(j)
  \/ Summarise(j) \/ PersistFinal(j)

Next == CrashApi \/ StartApi \/ \E j \in Job : Submit(j) \/ Serve(j) \/ RunAll(j)

Spec == Init /\ [][Next]_vars

\* Threads and subprocesses run; an API that died is started again.
FairSpec ==
  /\ Spec
  /\ WF_vars(StartApi)
  /\ \A j \in Job : WF_vars(Serve(j)) /\ WF_vars(RunAll(j))
-----------------------------------------------------------------------------
Complete(j) == results[schema[j]] = Phase

(***************************************************************************)
(* A job that ran alone, after a reset that went through, is declared      *)
(* succeeded only with the output of every phase stored: no row that an    *)
(* earlier job left in the shared ledger, succeeded or not, of this schema *)
(* or of another, makes it pass over a phase ("without this reset [...]    *)
(* the new job produces 0 results", submit_job).                           *)
(***************************************************************************)
AloneIsComplete ==
  \A j \in Job :
    at[j] \in {"decided", "counted"} /\ mem[j] = "succeeded" /\ j \notin spoiled =>
      Complete(j)

(***************************************************************************)
(* The counts on the dashboard are those of the results the job is said to *)
(* have: they are taken after the job is shown as over, when the next      *)
(* submission may already reset what they are counted from, but no job     *)
(* that overlapped with none (its counting included) is recorded as        *)
(* succeeded with the counts of less than its full results                 *)
(* (_run_pipeline, _job_stats_from_db).                                    *)
(***************************************************************************)
CountsAreWhole ==
  \A j \in Job :
    row[j] = "succeeded" /\ j \notin spoiled => saved[j] \subseteq {Phase}

(***************************************************************************)
(* A job shown as queued or running has a thread that will take it         *)
(* further, whatever was persisted before a restart: "no zombies in the    *)
(* dashboard" (_load_jobs_from_db, submit_job).                            *)
(***************************************************************************)
NoZombies ==
  \A j \in Job : mem[j] \in InFlight => api = "up" /\ at[j] \notin {"none", "off"}

(***************************************************************************)
(* An outcome that reached discovery.jobs is what the dashboard shows from *)
(* then on, with its counts, across restarts: neither recovery nor a late  *)
(* thread turns it into another one (_persist_job, _load_jobs_from_db).    *)
(***************************************************************************)
RecordedIsShown ==
  \A j \in Job : row[j] \in Terminal /\ mem[j] # "absent" =>
    mem[j] = row[j] /\ counts[j] = saved[j]

(***************************************************************************)
(* Every job leaves the queued and running states for good: its subprocess *)
(* ends or is timed out, and failed writes hold nobody up (_run_pipeline). *)
(***************************************************************************)
EventuallySettled ==
  <>[](\A j \in Job : mem[j] \notin InFlight)
=============================================================================
