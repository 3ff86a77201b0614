# A verification development of the discovery pipeline

Archon-SuperNova discovers relationships between the columns of a relational
database. A Python pipeline (`src/backend/python/pipeline`) copies the tables
to Parquet files through a Java extraction service
(`src/backend/java/extraction-service`), fingerprints the columns, proposes
foreign-key candidates, validates them and writes the results to a PostgreSQL
schema called `discovery`. A FastAPI server (`src/backend/python/api/main.py`)
accepts jobs and runs the pipeline as a subprocess. Two Spring back ends and
three front ends present the results.

This directory holds TLA+ models of that system, the TLC configurations that
check them on small instances, and TLAPS proofs of what matters most. The
index of everything (components, runs, source lines of every definition,
hazards, findings, theorems) is `PROJECT.json`.

Tools: TLC and SANY with the community modules, TLAPS 1.4.5.
`tlc -config X.cfg MCModule` checks one configuration, `tlapm Module_proofs.tla`
the proofs of one module.

## 1. The system

Paths are relative to `src/backend/python/pipeline/src/discovery` unless they
start with `src/`.

| Component | State it keeps | Operations | Modelled in |
|---|---|---|---|
| Run ledger (`run_log.py`) | `discovery.run_log`: a row per (phase, scope, id) with a status | `start`, `succeed`, `fail`, `is_complete` | `RunLog`, `PhaseLedger` |
| Orchestrator (`orchestrator.py`) | none of its own; the position in the phase list lives in the process | `run_all`, `run_all_two_pass`, `_run_phase`, `_run_advanced_fk_phases` | `Orchestrator`, `ParquetFlow` |
| Extraction phase (`extraction.py`, `extraction_client.py`) | table rows of the ledger, `tbl_inventory.status` and `parquet_path`, physical types | `run_phase_2`, `_extract_table_task`, `_post_with_retry` | `Extraction`, `ParquetFlow` |
| Extraction service (`src/backend/java/extraction-service`) | permits, connection pools, the files, an audit trail | `POST /extract`, the eviction sweep | `ExtractionService`; files and permits as the client sees them in `Extraction` |
| Fingerprint, PII scan, validate (`fingerprint.py`, `pii_scan.py`, `validate.py`) | item rows of the ledger; sketches, findings, relationships | `run_phase_3a`, `run_phase_3b`, `run_phase_5` and their `_flush` | `BatchPhase` |
| Parquet files and the disk cap (`cleanup.py`) | the canonical file of each table | `enforce_disk_cap`, `gc_orphaned_parquet` | `ParquetFlow` |
| Candidate generation (`candidates.py`, `scoring.py`) | `fk_candidates` | `run_phase_4`: pre-filter, index search, direction, dedup, bridge filter, ranking, cap, upserts | `Candidates` |
| Clustering (`clustering.py`) | `clusters`, `tbl_inventory.cluster_id` | `run_phase_clustering`, `cluster_schema` | `Clusters` |
| Propagation of personal data (`pii_propagation.py`) | `tbl_inventory.subject_kinds`, `subject_link_distance` | `run_phase_pii_propagation` | `Subjects` |
| Job API (`src/backend/python/api/main.py`) | `_jobs` in memory, `discovery.jobs` | `submit_job`, `_run_pipeline`, `_persist_job`, `_load_jobs_from_db`, `_reset_pipeline_state_for_schema` | `JobApi` |
| Event stream and job page (`main.py`, `src/frontend/ui`) | what a page shows | `_job_event_stream`, `events()` of `job.service.ts` | `EventStream` |
| Metadata portal back end (`src/archon-open-metadata_be`) | jobs and the rows of a crawl | `processJobs`, creation, PUT, deletion | `PortalJobs` |
| Metadata engine back end and its page (`src/metadata_engine_be`, `src/metadata_engine_fe`) | jobs, answers, event history, the registered stream | `initiateJob`, `executeJobRealtime`, `subscribe`, `sendEvent`, completion by the page | `AnalysisJobs` |
| Inventory (`inventory.py`) | `tbl_inventory`, `col_inventory` | `run_phase_1` | not modelled |
| Other detectors (composite, polymorphic, JSONB, inheritance, leaks, quality, cardinality) | one result table each | one pass each | as phases in `Orchestrator` |
| CSV extractor, reporting, CLI, configuration, other pages, seeders, older copies | none that another part depends on | | not modelled |

How they interact. All pipeline components share one PostgreSQL schema and
nothing else: the ledger decides what a phase may skip, the inventory says
which file belongs to which table. The pipeline calls the extraction service
over HTTP and blocks a worker thread on each call; the service and the later
phases share the file system, not a protocol. The job API runs the pipeline as
a child process and learns only its exit code; it shares the results database
with it and truncates the ledger when a job is submitted. Its event stream polls
the registry, the ledger and the log file of a job and pushes what changed to
the page. The two Spring back ends are systems of their own, each with one
executor and one page protocol.

What is hard in it:

- *Resumption.* Any phase can be killed between any two transactions, and the
  next run decides from ledger rows alone what to skip. Rows live on three
  levels (phase, table, column or candidate) and each level can disagree with
  the data or with the level above.
- *Swallowed failures.* Optional detectors, flushes, the disk cap, the reset
  and every write of the job registry are best-effort.
- *Requests that outlive their caller.* A read timeout or a kill leaves an
  extraction running, or queued for a permit, that still writes in place.
- *One ledger for all jobs.* `run_log` has no job and no schema column.
- *Deleting inputs.* The disk cap removes files while the pipeline needs some
  of them later, and the sweep of the service closes pools it may just have
  handed out.
- *Passes that read what the one before left.* Candidates and clusters go
  through a sequence of passes, and are stored in batches or per schema over
  what earlier runs stored.
- *Streams.* A page is told of a job by polling, or by a broadcast with a
  history, while the job goes on and the stream may be replaced.

The properties that make each part correct are listed with its module below;
the hazards behind them, with source lines, are in `PROJECT.json`.

## 2. The modules

Every module follows one convention: an action is a step of one actor between
two points where another actor, an exception or a kill can intervene, which
for this code means one transaction, one HTTP exchange or one file operation.
Exceptions and kills are explicit actions with a budget (`MaxFaults`,
`MaxCrashes`, `MaxKills`, ...). Names that would clash in a proof module that
extends two components carry a prefix (`EngineNext`, `ClusterInit`,
`CandidateSpec`). Operators named `Mutant...` state how a plausible bug would
change the definition after them; nothing else uses them. They are there to
show that each property can fail.

### RunLog, PhaseLedger, Phases

`RunLog` has the operations of `run_log.py` as functions from ledger to
ledger, used by all other modules. `Phases` is the list `ALL_PHASES` and its
optional members. `PhaseLedger` is the abstract specification of a resumable
pipeline, without process, crash or retry: a phase works only when every needed
earlier phase that was not waived is settled, it is settled only after it
worked, and from then on it is neither reworked nor unsettled.

### Orchestrator

`run_all` over an arbitrary list `Order` of phases, `Optional` and `Disabled`
subsets and the value of `enable_phase_fallbacks`. `proc`, `pos` and `step` are
the control point of the process; `log` the global rows. One `_run_phase` is
`PassOver`, or `StartPhase`, `BodyReturns`/`BodyRaises`, `SucceedPhase`, and in
the handler `FailPhase`; each ledger write also has a raising form
(`StartRaises` stands before the `try`, `SucceedRaises` inside it, `FailRaises`
inside the handler). `Raise` is the wrapper `_run_optional`. `effects` and
`seen` are history variables: which phase functions returned, and what each
had upstream of it when it last did.

- `CleanExit`: exit code 0 means every needed phase is complete.
- `BuiltOnUpstream`: a succeeded phase ran on the output of all needed earlier
  phases, whatever was killed in between.
- `NoRework`: what is complete stays complete and does not run again.
- `EventuallySettled`: relaunching completes everything needed.
- `LedgerSpec`: the refinement of `PhaseLedger`.

### Extraction

Phase 2 in full mode with its thread pool, tenacity's retries and the service.
A table's task goes `queued`, `call`, `mark`, `types`, `close` and ends `done`
or `raised`; `call` is the request it waits for. When a client times out or
dies, its request becomes a `stray` that keeps its place in the permit queue or
its open file. `file` records what is on disk: `partial` after an interrupted
write (the Parquet writer closes the file all the same), `mixed` when two
writers had it open at once. A file with two writers may end up complete or
not; the model takes both. Under `run_all` the phase has a global row; under
`discovery extract` it has not, and every call attempts all tables.

- `WholeWithoutStrays`: a succeeded row means a complete file and an inventory
  row, provided no request outlived its client.
- `NoReExtraction`: a succeeded table is never requested again.
- `EventuallyExtracted`: repeated `discovery extract` gets every table.

The Parquet writer is not in the repository; what a file contains after each
way of ending is taken from how the service opens and closes it.

### BatchPhase

The scheme shared by phases 3a, 3b and 5: read what is pending, compute in a
pool, walk the results in order, flush batches. A flush is one data
transaction (`Commit`) followed by one ledger transaction per item (`Mark`),
with the handler of each phase (`GiveUpItem...`). The phases differ where the
code does: 3a resumes by `fingerprinted_at`, the others by the ledger; the
handler of phase 5 writes no ledger row; the batch of phase 5 may have no rows
to store. `todo` is any listing of the pending items, since the query has no
order.

- `LedgerImpliesStored`: the ledger never runs ahead of the data.
- `EventuallyStored`, `EventuallyRecorded`: relaunching completes data and
  ledger after anything but a give-up that `run_all` does not return to.

### ParquetFlow

The files across phases, under `run_all` and `run_all_two_pass` in any order on
the same results: full, sample and subset extraction, the disk cap before
fingerprinting, the loss of orphans, fingerprinting and validation on what is
there, and the second pass that rewrites the surviving tables in place.
`Program` is the list of steps of each command. The extraction of a table goes
from `BeginTable` through the request (`Send`, `Admit`, `Respond`, `TimeOut`) to
`MarkExtracted` and `SucceedTable`. The service is another process: a request
whose client timed out or was killed becomes a *stray* there (`Outlives`), which
may still open the canonical file, truncating it, and fill it while the pipeline
is launched again, takes the table again, deletes the file or reads it
(`StrayAdmitted`, `StrayRefused`, `StrayEnds`). A file that two writers had open
at once is `"mixed"` and may be anything to a reader (`Legible`). A death may also
take the service along, and leave the file without its footer.

- `CompleteDiscovery`: run-all that exits with 0 has validated every
  relationship, however often it was killed and whatever its strays went on
  doing, if no extraction failed and the cap is not exceeded.
- `SurvivorsKept`: no step removes a file on either side of a candidate.
- `FullForSurvivors`: the second pass validates on complete files.
- `TriageFindsAll`: what the docs say of the two-pass run (section 4).

`CompleteDiscovery` and `FullForSurvivors` hold as long as no table was asked for
while a stray of it was alive (`crossed`): the code does not look for one, and
then both write the same file, also after the new request was answered and
recorded. A stray that ends, or is refused, before the table is asked for again
does no harm, whatever it left: the ledger row of its table is not complete, or
the second pass takes the table again.

Left out here: phase 3b, which reads files as 3a does; sample files, which no
step reads and the cap counts along with the others; the order of the thread
pool (one table at a time, so that a death leaves one stray, where the pool may
leave one for each thread, of different tables); the number of permits (a request or stray waits as
long as it likes, as when others hold them; `Extraction` counts them); a repeated
attempt after an error response, which to the files is a stray that ends at once;
exceptions of phases other than extraction, which `Orchestrator` and `BatchPhase`
have. Sizes are counted in files. The sample
files add to the usage the cap sees; leaving them out makes the cap exceeded
less often for a given constant, and both cases are covered by the choice of
`Caps`.

### ExtractionService

The service from the inside. A request goes through the whitelist, the global
bulkhead, the map of pools and the writer, and leaves events in the audit trail
on the way (`trail`). Its end takes four steps, as in the code: the writer closes
the file (`CloseFile`), `extract` returns or throws (`Return`, `Break` and the
other `Decide`s), the event is written (`Record`), the response leaves
(`Reply`). The JVM may end between any two of them, and the client may be gone
when the response leaves. A failure after the file was closed (the move, the
manifest) leaves a whole file called failed. The map of pools (`entry`, `open`, `age`) is shared with the eviction sweep, which
tests, closes and removes an entry in three steps without the lock that
`compute` holds. `Malformed` sources are those for which no JDBC URL can be
built. `Extraction` has the same service as its client sees it; the two share no
variable, because nothing the client can observe depends on pools or trail.

- `TrailIsTrue`: no client got an answer the trail does not record or
  contradicts; what the trail calls completed is whole, what it calls rejected
  was never written. It says nothing of a request that was lost with the process
  except these two: such a request may have left a whole file that the trail
  leaves at accepted, or an event nobody was told of.
- `NoDeadPool`: a closed pool stays in the map only while the sweep stands at
  its entry, so a repeated request gets an open one. A request that asks between
  the closing and the removal is handed the closed pool and fails; the property
  does not forbid that.
- `EveryAnswered`: every request a thread took up is answered.

### Candidates

Phase 4. A *scene* is what inventory, flags and files say, reduced to what the
code compares: similarities and Jaccard indices in percent, and whether a name
follows a pattern. `DetectKeys` and `Reconcile` settle which columns are keys;
the two searches (`Generate`) make a list each; five passes (`Dedup`, `Bridge`,
`Shrink`, `Rank`, `Trim`) demote candidates; the lists are then written in
batches, one after the other, over what earlier runs left (`WriteBatch`,
`LoseBatch`).

- `OneWayStored`: both directions of a pair are primary only where the index
  search found exactly one of them.
- `NothingToBridge`: with `require_parent_pk` the gates before it leave the
  bridge filter nothing to demote.
- `RolePointersKept`: a recognised role pointer found in one direction only
  survives the ranking.

### Clusters

`run_phase_clustering` over all schemas: for each, read, group, and replace the
stored clusters in one transaction. `cluster_schema` is an operator over the
relationships of a schema: empty tables apart, junction tables collapsed into
an edge between their heaviest parents, a grouping, mergers, and the junctions
put back. Louvain and the merge by names are external: any grouping that stays
within the components of the graph is taken. `Component` is the least set around a
table that is closed under the edges, and `Sorted` numbers the groups by their least members;
both are stated without recursion so that they can be reasoned about.

- `StoredAgrees`: cluster rows and back pointers of tables agree at any time.
- `NoStrangers`: tables of a cluster are joined by relationships, or all empty.
- `Replaced`: a finished run leaves no cluster of an earlier one.

### Subjects

`run_phase_pii_propagation`: the search from the tables with findings of direct
identifiers along the relationships to them. The search is modelled edge by edge
(`Pop`, `Visit`, `Visited`) with its queue, in which a table may stand several
times; the order of findings and of children is arbitrary. `Persist` is the end
of the transaction, `Abort` its rollback, `Submit` what another job does to a
schema between two runs.

- `TagsAreClosure`: what was written is the closure of the roots, defined as the
  least set that contains them and all that refers to it, and the distances are
  those of the nearest root.
- `EventuallyFresh`: the search ends and the tags catch up with the database.

### JobApi and EventStream

The registry in memory (`mem`) and in `discovery.jobs` (`row`), the request
thread of `submit_job` and the runner thread of `_run_pipeline` (`at`), the
counts of the results (`counts`, `saved`), and the subprocess of each job
(`pipe`, `pos`), all jobs over one ledger (`log`) and the results of each
schema. A failed write of the registry is swallowed; the reset is one
transaction, and best-effort (`ResetFails`). `CrashApi` loses memory and threads
and leaves any subset of the subprocesses alive: `stop.sh` signals the server
only. The subprocess is the orchestrator reduced to two phases that build on
each other.

`EventStream` extends it with a page: one `Tick` of `_job_event_stream` reads the
registry, then ledger and log, between any two steps of the others, and what it
sends is applied to the page; a dropped stream is reopened by the browser, a
stream that said it is done is not.

- `AloneIsComplete`: a job that overlapped with no other and whose reset went
  through is declared succeeded only with all its results.
- `CountsAreWhole`: such a job is recorded with the counts of all its results
  or with none.
- `NoZombies`: a job shown in flight has a thread that will move it.
- `RecordedIsShown`: a recorded outcome is never shown as another one.
- `DoneShowsAll`: a page that was told the job is done has the outcome, the log
  and the ledger.
- `EventuallySettled`, `PagesSettle`: every job leaves the in-flight states, and
  the stream of every page comes to its end.

Left out: the limit of 200 restored jobs, the password file, the read-only
views, and failing reads of the log file, which the stream does not guard.

### PortalJobs

`JobExecutionService` takes all pending jobs and executes them in one
transaction; Hibernate holds writes back until the first query on tables. `row`
and `crawled` are what is committed (the status, and how many crawls have left
rows), `mine`, `wrote` and `flushed` what the transaction holds. `JobController`
lets clients create, overwrite (PUT) and delete a job at any moment, with any
status; a deletion (`waiting`) or a PUT (`put`) waits for rows that are locked.
Nothing guards a PUT: a job that is done and written `Pending` is crawled again,
its earlier rows stay, and `Running` is committed when a client writes it. The
portal's page only posts `Pending` and never sends a PUT. So the properties are
about what the executor adds to what clients wrote: `asked` counts how often they
wrote `Pending`, `edited` holds the jobs for which they wrote anything else.

- `StatusTellsRows`: never more crawls are committed than clients asked for, one
  of them still to come while the job is pending; a job that is gone has no rows;
  and as long as no client wrote another status, a job that is done has been
  crawled and none is seen running.
- `EveryJobSettles`: every pending job is executed in the end; only a client can
  write a status nobody takes up.

Left out: a PUT on the id of no job, which creates one, and the other entities.

### AnalysisJobs

`AnalysisService` with the thread of each job, the maps of the broadcaster
(history, registered emitter) access by access, and the page that follows the
stream and completes the job when it reads the last event.

- `NothingMissed`: the page of the registered stream has every event of the
  history, whatever replaced what.
- `CompletedIsWhole`: a completed job has every answer stored, unless a page
  read an error.
- `EventuallySettled`: a job with a connection does not stay RUNNING.

### How the modules fit together

`Orchestrator` treats a phase as a step that returns or raises. `Extraction`
and `BatchPhase` open that step up for the phases that keep ledger rows of
their own, with the global row written as `_run_phase` writes it; `Candidates`,
`Clusters` and `Subjects` open up three phases that keep none. `ParquetFlow`
joins the phases over the data they share. `ExtractionService` is the other side
of the requests of `Extraction`. `JobApi` runs several pipelines against one
ledger, and `EventStream` composes it with a page. The pipeline modules with a
ledger use `RunLog`. `PortalJobs` and `AnalysisJobs` stand alone, as the programs
do.

## 3. The runs

| Run | Instance | Question |
|---|---|---|
| `orchestrator` | 7 phases of every kind, 3 skip arguments, 2 exceptions, 2 kills | safety of the sequence, refinement of `PhaseLedger`, do relaunches get everything done? |
| `extraction` | 2 tables, 2 threads, 1 permit, 2 tries, 2 faults, 1 abandoned request, 1 kill, both callers | safety and progress of phase 2 |
| `extraction_service` | 2 requests, 2 sources (one without a JDBC URL), 1 permit, 2 pools per source, idle window of 1 tick, 1 restart | trail, pools and answers of the service |
| `batch` | 3 items, batches of 2, 1 worker failure, 2 exceptions, 2 kills, 3 phases, both callers | safety and progress of phases 3a, 3b, 5 |
| `parquet_flow` | 3 tables, 1 relationship, cap of 1 or 3 files, 3 failed extractions (all tables of a run), 1 request that outlives its client, 1 kill, both commands | safety of the file life |
| `parquet_two_pass` | as above, roomy cap, nothing goes wrong | the disagreement of section 4 that a run shows |
| `candidates` | 54 scenes of 3 columns in 3 tables, cap on and off, strict or not, 1 lost batch, 2 runs | what the passes may do to each other, and to what is stored |
| `clusters` | 2 schemas of 5 and 1 tables, 4 scenes with junctions and junctions of junctions, 1 fault, 2 runs | stored clusters against tables and relationships |
| `subjects` | every graph of 3 tables with an edge too weak and a reference of a table to itself, 12 scenes of 4 tables, 1 failure, 1 submission | is what is stored the closure? |
| `job_api` | 2 jobs, 2 schemas, 2 phases, 1 fault, 1 API restart, a page on one job | safety and progress of registry and page |
| `portal_jobs` | 2 jobs, 2 PUTs, 2 refused flushes or commits, 2 restarts | status against rows, progress |
| `analysis_jobs` | 1 job of 2 stages, 2 streams, 1 failed save, 1 restart | events, completion, progress |

Why these bounds are enough to be interesting. Two tables let one fail where
the other succeeds (the case the phase treats specially) and let one hold the
only permit while the other waits; one abandoned request already puts two
writers on a file. Two requests on one permit let one run while the other
waits, is throttled, or arrives while the sweep stands between closing and
removing. Three items in batches of two give a flush inside the walk and one after it, and a
batch of which one row is marked and one is not. Two exceptions reach an
exception in a handler; two kills reach a kill of the run that recovers from the
first. In `ParquetFlow` one kill and one timeout are alternatives for the one
stray, which can meet every later step of every relaunch; the theorems cover any
number of each. Three tables with one relationship give the disk cap an orphan it may
delete and two files it may not, and a cap of 1 is exceeded even by the two
survivors. Three columns are a child with two rivals for its parent, and both
directions of a pair; the second run meets the rows of the first. Five tables
hold two groups and a junction between them. Four tables hold a cycle with a
tail, a diamond, and a kind that arrives by a way longer than the one its table
was first reached by. Two jobs are one that leaves something behind and one that
meets it; one fault is enough for each swallowed write to be lost on its own
(the safety properties are proved for any number of faults). Two jobs of the
portal let one doom the work of the other in their transaction; two PUTs let the
second overwrite one that waits, or make a job pending that the first took back.
Two streams are one that is replaced and one that replaces it.

The bounds limit faults, kills, runs, submissions and PUTs only; launches are
unlimited except in `JobApi`, where a job is submitted once, and in `Candidates`
and `Clusters`, which count runs.

Deadlock is checked in `Orchestrator` and `ParquetFlow`, where a finished
pipeline can always be launched again. It is off elsewhere: a complete global
row, a settled job, an answered request or the last run ends the story.

### Fairness

- `Orchestrator`: the process keeps taking steps, and whoever launched it does
  so again until it exits with 0 (an operator following the docs, who is told
  that run-all resumes). A finished pipeline need not be launched again, and no
  fairness is given to kills or exceptions.
- `Extraction`: each thread, each request and each stray goes on (the client
  has read timeouts; the service bounds the wait for a permit). Which table
  gets the permit is left open. The phase is launched again while its global
  row is not complete.
- `ExtractionService`: a thread that has begun a request goes on, and the sweep
  ends what it began. No client has to send, no clock to advance.
- `BatchPhase`: the process runs; it is launched again while its global row is
  not complete.
- `Subjects`: the search goes on, and the phase is called again after a
  submission or a failure: by run-all of the next job, whose reset truncated the
  ledger, by the relaunch after a failure, or by `discovery propagate-pii`.
- `JobApi`, `EventStream`: threads and subprocesses run, a stopped API is started
  again, the event loop ticks, the browser reconnects or gives up. Submitting
  and opening a page are never obligatory.
- `PortalJobs`: the scheduler calls again (`@Scheduled`) and its thread runs.
- `AnalysisJobs`: the thread of a job runs. No page has to stay or to come.

In the last two a step of the thread can be a crawl of the source or a call of
the learning service. Fairness then assumes that it returns or raises, which the
code does not bound: both use a `RestTemplate` without a timeout
(`PythonMlIntegrationService.java:19`, the stage services of the portal). A
service that accepts a call and never answers leaves the job, and in the portal
every later poll, waiting; no property says otherwise.

`EventuallyStored` and `EventuallyRecorded` assume, under run-all only, that
nothing was given up (`NothingGivenUp`), because run-all does not return to a
phase that returned: point 2 of section 4.

## 4. Where the code and its comments disagree

The first is the counterexample of the run `parquet_two_pass`. The others are
preconditions or exceptions in properties of the passing runs, each at the place
named; without them the property does not hold.

1. The first pass of `run-all --two-pass` is said to fingerprint the sample
   (`orchestrator.py:13-33`). The sample is written to a path of its own and is
   not recorded (`extraction.py:448-457`), and phase 3a does not read it, so a
   two-pass run on an empty results database finds nothing and exits with 0.
   `TriageFindsAll` states the comment and is violated.
2. Candidates of a failed flush "will be re-validated" (`validate.py:1091-1093`).
   Under run-all they are not: the phase returns and is recorded as succeeded.
   Hence `NothingGivenUp` in `BatchPhase`.
3. "Failed tables from a previous run are retried" (`extraction.py:315-316`).
   After a partial failure the phase returns, run-all records it as succeeded
   and never tries the table again. Hence `EventuallyExtracted` is about
   `discovery extract`.
4. "Re-extraction is safe" (`run_phase_2`). A request that outlived its client
   can reopen a file that was complete and recorded as such. Hence the
   precondition of `WholeWithoutStrays`, and `~crossed` in `CompleteDiscovery` and
   `FullForSurvivors`: the relaunch asks for the table without waiting for the old
   request, and may read or record a file that both have written.
5. The disk cap deletes files "no longer needed by downstream phases"
   (`cleanup.py:13-14`), and is enforced before any candidate exists: a first
   run over the cap deletes files before they were read. Hence the precondition
   of `CompleteDiscovery`.
6. "Resubmit" after an API restart (`docs/process.md:208`). The subprocess of
   the lost job still writes the shared ledger; the new job can pass over phases
   the old one completed after the reset and succeed without results. Hence
   `AloneIsComplete` is about jobs that overlapped with none.
7. A stream that reached its longest life is closed for the client "to
   reconnect" (`main.py:1146`); the page stops at any end. Hence the exception
   in `PagesSettle`.
8. One direction of a pair is meant to stay primary (`config.py:323-327`). The
   two lists are deduplicated apart, and both directions may be stored as
   primary. `OneWayStored` says exactly when.
9. A page that reads `[ERROR]` completes the job, which is then stored as
   COMPLETED. Hence the exception in `CompletedIsWhole`.

Three more were met while reading and are not modelled: findings of a column
carry no table, so the clustering phase does not load them
(`orchestrator.py:334-341`); the docstring of `jsonb_fk.py` accepts short string
keys as parents that its list of parents excludes; `inventory.py` sets the
status of excluded tables "explicitly", which the upsert of an existing row
ignores.

## 5. What is proved

The eight modules named `..._proofs` are checked by TLAPS from the assumptions
stated in the modules they extend (`OrderAssumption`, `ConfigAssumption`,
`ExtractionAssumption`, `ServiceAssumption`, `BatchAssumption`,
`FlowAssumption`, `SubjectsAssumption`, `JobApiAssumption`, `WatchedAssumption`,
`PortalAssumption`, `CandidatesAssumption`, `ClustersAssumption`,
`AnalysisAssumption`: a list without repetitions, finite sets, natural bounds,
scenes of the right shape, tables that are not named like a phase) and the
standard library of facts on finite sets, sequences and well-founded orders. The
theorems hold for every number of phases, tables, columns, items, requests, jobs
and schemas and for any budget of faults and kills.

Every invariant and every action property of the passing runs is stated by a
theorem, and so is the safety of the refinement. Each inductive invariant was
checked by TLC on the run's instance before it was proved.

Three proof modules extend two components each, which share no variable:
`Orchestrator_proofs` has `Orchestrator` and `Clusters` (one source file),
`Discovery_proofs` has `BatchPhase` and `Candidates`, `BackEnds_proofs` has
`PortalJobs` and `AnalysisJobs`.

**Orchestrator.** `CleanExit` and `BuiltOnUpstream` are not inductive: nothing
in them says why the process got where it is. The inductive invariant `Inv`
adds `Inside` (a phase between its gate and its end is on the list, started,
and neither skipped nor disabled), `Passed` (every needed phase behind the
current position is complete), `AtEnd` (a finished process is past the last
phase), `Carried` (what is complete was carried out) and `Closing` (between the
return of a phase and its ledger row, its inputs were there). `Passed` is the
core: `Raise` advances only for optional phases with fallbacks on, and those
are not needed. From `Inv` follow `TypeCorrect`, `CleanExitHolds`,
`UpstreamHolds`, the action property `NoReworkHolds`, and `LedgerRefinement`:
initial states map to initial states of `PhaseLedger`, `BodyReturns` to `Work`,
`SucceedPhase` to `Settle`, `Launch` to `Waive`, everything else to a stutter.
The proofs cover the list of all sixteen phases and `Fallbacks = FALSE`, which
the run does not.

**Extraction.** `AtWork` ties the three actors of a table together: a table at
work has a row "started" and a live process, and only such a table has a
request. So nothing that touches a file or a row on behalf of the pipeline
concerns a succeeded table, which is `NoReExtractionHolds`. `InStep` says, under
`abandons = 0`, that there are no strays, that a file being written is partial,
and that a task past its response has a whole file; `WholeHolds` follows. The
only steps that could break it either raise `abandons` or need a stray.

**ExtractionService.** `NoDeadPool` is inductive with the types: only `Close`
closes a registered pool, and it leaves the sweep at that entry; `compute` never
registers a closed one. `TrailIsTrueHolds` goes through `Told`, the list of
trails a request may have at each place: `Unrecorded` and `Recorded` say what
trail and file go with each decision before and after its event, `EventTold`
that `Audited` leads from one to the other, and `Abandoned` that a service that
ends leaves a request at any of them.

**BatchPhase.** `LedgerBehindData` proves `LedgerImpliesStored`. The
strengthening is `MarkedBehind` (while ledger rows of a batch are written, its
data is stored) with the types of the ledger and of the two lists. It rests on
`Commit` being a transaction of its own before any `Mark`, and on which items
have rows to store being settled in advance (`HitIsFixed`).

**ParquetFlow.** `SurvivorsKeptHolds`: while files are being deleted, the list of
files to delete and the candidates are disjoint (`Sparing`), since candidates
are added at another step of the program and a relaunch starts the list anew.
Both other theorems rest on `Served`: as long as no table was asked for next to a
stray of it, the request in hand is the only writer of its file, so that the file
is open while it is filled and whole once it is answered. Strays touch no other
file (`StrayKeeps`), and only the table being extracted can get a new one.
`CompleteDiscoveryHolds`: the property speaks of the end, so the invariant
`CalmInv` says for every position what is already there. `TablesKept`: a table
whose row is complete has its whole file and no stray, and during the extraction
every table is complete, on the list or being written. `StepsDone`: a step whose
row is complete, or is about to be, left nothing to do. `GatesKept`: the program is
only past a gated step whose row is complete. The three together survive a kill,
which keeps rows and files and forgets the position, and every step of a stray,
whose table has no complete row. The room under the cap is used in one place: the
list of orphans is then empty. `FullForSurvivorsHolds`: from the choice of the
tables on, each is on the list, being written, or whole and without stray
(`Retaking`), and after it whole and without stray until `validate` ends, unless
`validate` was over before (`Retaken`); deletions of the second disk cap are
harmless by `Sparing`. What the
ledger says of earlier runs is not needed, so the theorem covers two-pass runs
after any commands.

**Subjects.** `TagsAreClosure` is about a finished search; the invariant is about
one that is under way. `Covered`: what is known of a table is known of its
children, except for tables in the queue and, for the table at hand, children
the loop has not come to. `Rooted`: roots have their kinds and distance 0.
`Founded`: a kind is only at tables that every closed set with its roots
contains. `Linked`: a distance rests on a smaller one. With the queue empty
nothing is excepted in `Covered`, so the tables with a kind are themselves a
closed set with its roots, and by `Founded` the least one; `Linked` and
`Covered` together make the distances exact. The step that needs the care is
`Visit`: a child that is not queued again is one of which nothing changed, so
what `Covered` says of it still holds (`VisitSearch`). Termination of the search
is not proved.

**JobApi.** Two invariants. `Registry` says, for each place a job's thread can
stand, what memory and table may hold; `NoZombiesHolds` and
`RecordedIsShownHolds` follow from it at once. `PipelineInv` is about jobs that
overlapped with no other: `Alone` (nobody else is active) and `Progress`
(nothing is complete in the shared ledger whose output is missing in this job's
schema, which the reset makes true by emptying both; and everything behind the
subprocess's position is stored). `AloneIsCompleteHolds` follows. That the reset
truncates the whole ledger and not only the rows of a schema is what makes it
true: global rows carry no schema. `CountsAreWholeHolds` adds that counts are
taken when the subprocess has ended and nobody else was submitted.

**EventStream** (in `JobApi_proofs`). The streams write nothing of the jobs, but
a failed read of theirs counts in the budget of faults: `InnerStep` says that
every step of jobs with pages is a step of the jobs, a stutter or such a fault,
so the invariants above carry over (`PagesDisturbNothing`). `DoneShowsAllHolds`
relates four clocks, thread, subprocess, stream and registry: `Ends` (what memory
or the table calls over has a subprocess that is over, or is a job that was lost
when the API died), `Solo` and `Recorded` (the subprocess of a job that neither
overlapped nor was followed by another is the only writer of the ledger, and has
recorded every phase behind it), and `Shows` (an outcome on a page has such an
end behind it). A `TickViews` that ends the stream reads ledger and log after
that end, and nothing takes the end back (`JobOnward`).

**PortalJobs.** Each `Pending` a client writes pays for one crawl. `Known` says of
each job who holds those not yet spent: the pending row, or the poll that took
the job up (whatever was done to the row meanwhile), and a PUT that waits for the
poll. A commit spends one, a rollback or restart gives it back to the row, if the
row is still pending. One that is settled as done was crawled, and one not yet
crawled left nothing. `StatusTellsRowsHolds` is the part about the committed row.

**Candidates** (in `Discovery_proofs`). `SearchInv` follows the two lists from
pass to pass. `OneWayListed`: behind the dedup no list is primary in both
directions; later passes only demote (`Demote`). `KeyedParents`: before the bridge
filter a primary has a keyed parent, in strict mode, which makes `NothingToBridge`
an action property that follows in one step (`BridgeIdle`). `LockedStay`: with no
cap, a role pointer its own list has in one direction only has not been demoted.
The rest is about the table: `InOrder` says that the second list is not written
before the first is done, and `TableFollows` what the row of a candidate holds at
that point, the second list having the last word. With these, both rows of a
pair being primary means that they came from different lists (`OneWayInTable`),
and what an earlier run left matters only where this run has no candidate or lost
a batch (`RolePointersStay`).

**Clusters** (in `Orchestrator_proofs`). Two inductive invariants. `PhaseInv` is
about the bookkeeping: `Tagged` (junctions are tables with parents, and all wait
while the grouping is made), `Apart` and `Covering` (groups share no table and
together hold every full table but the junctions that wait) and `Visited` (a table
whose schema was visited is stored, from what this run read). A transaction writes
`home` from disjoint groups, so no table loses its cluster to another group
(`TablesPointToTheirRow`), and a run that ends has visited everything
(`EveryTableReplaced`). `ChainInv` adds `Chained`: tables of a group, and the ends
of an edge of the collapsed graph, are connected by relationships of the run.
`NoStrangersStored` follows through every step that joins tables: the collapse of
a junction (both ends are its parents), a community (inside a component), a
merger (along an edge), and a junction put back (with its dominating parent,
`DominatingIsParent`). That `Component` is an equivalence
(`ComponentTransitive`, `ComponentSymmetric`) is derived from its being the
least closed set. Degrees are sums over finite sets; that such a sum exists and is
a natural number (`SumIsNatural`) is an induction over data, which the prover
cannot take from the library's induction theorems. It is proved from the
well-foundedness of the numbers instead, by a smallest set without a sum.

**AnalysisJobs** (in `BackEnds_proofs`). `EngineInv` ties thread, streams and
pages of a job together. `Told`: where the thread stands tells what it has said.
`Whole`: answers that are owed and not stored are at most the one of the stage in
hand, and none once the thread is past it; a thread that could not store one goes
to its handler and never says DONE. `CompletedHasAll` follows with the clause of
`Told` on COMPLETED, which a page that read `[ERROR]` may bring about. `Fed`: the
page of the registered stream lacks nothing but the event in hand, and only while
the thread is between history and map, or about to send it to this very stream. It
rests on `Own` (a stream is registered for its own job only) and on the order of
the two accesses: the event enters the history before the stream is looked up,
and the stream is registered before the history is replayed. `NoEventMissed`
follows.

What stays with TLC, and why. The liveness properties (`EventuallySettled` of
three modules, `EventuallyExtracted`, `EveryAnswered`, `EventuallyStored`,
`EventuallyRecorded`, `EventuallyFresh`, `PagesSettle`, `EveryJobSettles`): the
installed provers have no rules for fairness and ENABLED. `TriageFindsAll`, which
does not hold. What external code computes (Louvain, the search index, scores) is
a choice or a constant in the models, so that the theorems are about what the
repository's code does around it.

## 6. What is not modelled, and why

- What phases compute: sketches, similarity, containment, scores, patterns,
  modularity. They enter as data of a scene or as a choice.
- `Inventory`: one sequential pass of upserts per schema in one transaction;
  run-all does not repeat it once its row is complete, and the reset of the job API
  removes its rows. Repeated by hand, it overwrites statistics of columns whose
  `fingerprinted_at` stays (a hazard without a property).
- The composite, polymorphic, JSONB, inheritance, leak, quality and cardinality
  detectors: each reads the results, computes, and writes a table nobody else
  writes. Three of them log a failure of that write and return, so that the
  phase counts as done; in `Orchestrator` a phase that returns has done its work.
- The reports, metrics, the printing of the CLI, configuration, the read-only
  views of the API, the pages that only view, the CSV extractor and the seeders
  hold no state another part depends on. The CLI commands that call a phase are
  the drivers of `Extraction`, `BatchPhase`, `ParquetFlow` and `Subjects`.
- `src/archon-open-metadata-py` and `src/metadata_engine_py`: an older copy of the
  pipeline and per-request scripts. Much of the repository's text is this copy,
  pages and seeders; the share of all source lines that the models cover is
  small for that reason, and much larger for the pipeline, the API and the
  three Java services.
- The Parquet writer, PostgreSQL, DuckDB, tenacity, resilience4j, HikariCP,
  Spring and Hibernate are taken as the code uses them: a statement is atomic, a
  transaction commits or not, a permit is held by one request, closing a pool
  aborts its connections.
- Clocks. Timeouts are actions that may happen at any time within a budget; the
  age of a pool is counted in ticks.

`PROJECT.json` gives the status of each component and, for each hazard that no
property covers or covers in part, the reason.

## 7. What could come next

1. `Inventory` against the statuses, exclusions and fingerprints of later phases,
   and statistics that are newer than the sketches beside them.
2. The outputs of the optional detectors in `Orchestrator`: a report written
   before a detector that succeeded on a relaunch.
3. `ExtractionService` as an implementation of the service part of `Extraction`,
   with the permit queue as the refined state.
