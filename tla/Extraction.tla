----------------------------- MODULE Extraction -----------------------------
(***************************************************************************)
(* Phase 2: every table of the inventory is copied to a parquet file by    *)
(* the extraction service.  A pool of worker threads runs one task per     *)
(* table (_ExtractionRunner._extract_table_task): ledger row, request with *)
(* retries, inventory, physical types, ledger row.                         *)
(*                                                                         *)
(* The service writes each file in place and never learns that a client    *)
(* timed out or died: such a request becomes a stray that still waits for  *)
(* a permit, or still writes.                                              *)
(***************************************************************************)
EXTENDS Naturals, FiniteSets, FiniteSetsExt, RunLog

CONSTANTS
  Table,          \* rows of tbl_inventory that are not excluded
  Workers,        \* orchestration.workers.extract: threads of the pool
  Permits,        \* source_throttle.max_concurrent of the service
  MaxTries,       \* attempts of _post_with_retry
  Drivers,        \* "run_all", which keeps a global row of the phase, or the
                  \* "command" discovery extract, which does not
  MaxFaults,      \* bound: errors of the service or of the database
  MaxAbandons,    \* bound: requests whose client stops waiting
  MaxCrashes      \* bound: deaths of the pipeline process

ASSUME ExtractionAssumption ==
  /\ IsFiniteSet(Table)
  /\ Table # {}
  /\ "global" \notin Table
  /\ {Workers, Permits, MaxTries} \subseteq Nat \ {0}
  /\ Drivers \subseteq {"run_all", "command"}
  /\ {MaxFaults, MaxAbandons, MaxCrashes} \subseteq Nat

VARIABLES
  driver,     \* who calls run_phase_2
  log,        \* the extract rows of run_log: one per table, and the global one
  proc,       \* the pipeline process: how it ended, or "up"
  task,       \* where the task of each table stands
  tries,      \* attempts made by the current extract_sync of each table
  call,       \* the request the task of a table waits for
  stray,      \* how many requests nobody waits for, by table and state
  file,       \* the parquet file at the canonical path of each table
  extracted,  \* tables whose tbl_inventory.status is 'extracted'
  typed,      \* tables whose physical types were stored
  faults, abandons, crashes

inventory == <<extracted, typed>>
bounds == <<driver, faults, abandons, crashes>>
vars == <<log, proc, task, tries, call, stray, file, inventory, bounds>>

Gated == driver = "run_all"

Busy == {"call", "mark", "types", "close", "except"}
TaskState == {"off", "queued", "done", "raised"} \cup Busy

\* "mixed": two writers had the file open at once.
File == {"absent", "partial", "mixed", "whole"}

TypeOK ==
  /\ driver \in Drivers
  /\ log \in [Table \cup {"global"} -> Status]
  /\ proc \in {"idle", "up", "done", "failed", "crashed"}
  /\ task \in [Table -> TaskState]
  /\ tries \in [Table -> 0 .. MaxTries]
  /\ call \in [Table -> {"none", "waiting", "writing"}]
  /\ stray \in [Table \X {"waiting", "writing"} -> 0 .. MaxAbandons]
  /\ file \in [Table -> File]
  /\ extracted \subseteq Table
  /\ typed \subseteq extracted
  /\ faults \in 0 .. MaxFaults
  /\ abandons \in 0 .. MaxAbandons
  /\ crashes \in 0 .. MaxCrashes

Init ==
  /\ driver \in Drivers
  /\ log = [k \in Table \cup {"global"} |-> "none"]
  /\ proc = "idle"
  /\ task = [t \in Table |-> "off"]
  /\ tries = [t \in Table |-> 0]
  /\ call = [t \in Table |-> "none"]
  /\ stray = [s \in Table \X {"waiting", "writing"} |-> 0]
  /\ file = [t \in Table |-> "absent"]
  /\ extracted = {}
  /\ typed = {}
  /\ faults = 0 /\ abandons = 0 /\ crashes = 0
-----------------------------------------------------------------------------
Fault == faults < MaxFaults /\ faults' = faults + 1 /\ UNCHANGED <<driver, abandons, crashes>>

Goto(t, s) == task' = [task EXCEPT ![t] = s]

At(t, s) == proc = "up" /\ task[t] = s

Idle == Cardinality({t \in Table : task[t] \in Busy}) < Workers

\* Mutant of SkipComplete: a row of any status counts as complete.
MutantSkipComplete(t) ==
  /\ At(t, "queued") /\ Idle
  /\ log[t] # "none"
  /\ Goto(t, "done")
  /\ UNCHANGED <<log, proc, tries, call, stray, file, inventory, bounds>>

\* A pool thread takes the table; its row says the work was done before.
SkipComplete(t) ==
  /\ At(t, "queued") /\ Idle
  /\ IsComplete(log, t)
  /\ Goto(t, "done")
  /\ UNCHANGED <<log, proc, tries, call, stray, file, inventory, bounds>>

\* Mutant of StartTable: the ledger is not consulted.
MutantStartTable(t) ==
  /\ At(t, "queued") /\ Idle
  /\ log' = LogStart(log, t)
  /\ Goto(t, "call")
  /\ tries' = [tries EXCEPT ![t] = 0]
  /\ UNCHANGED <<proc, call, stray, file, inventory, bounds>>

StartTable(t) ==
  /\ At(t, "queued") /\ Idle
  /\ ~IsComplete(log, t)
  /\ log' = LogStart(log, t)
  /\ Goto(t, "call")
  /\ tries' = [tries EXCEPT ![t] = 0]
  /\ UNCHANGED <<proc, call, stray, file, inventory, bounds>>

\* is_complete and start stand before the try: nothing is recorded.
StartTableRaises(t) ==
  /\ At(t, "queued") /\ Idle
  /\ Fault
  /\ Goto(t, "raised")
  /\ UNCHANGED <<log, proc, tries, call, stray, file, inventory>>
-----------------------------------------------------------------------------
\* The request, as _post_with_retry sends it and the service serves it.

Send(t) ==
  /\ At(t, "call") /\ call[t] = "none"
  /\ call' = [call EXCEPT ![t] = "waiting"]
  /\ tries' = [tries EXCEPT ![t] = @ + 1]
  /\ UNCHANGED <<log, proc, task, stray, file, inventory, bounds>>

Writers(t) == (IF call[t] = "writing" THEN 1 ELSE 0) + stray[<<t, "writing">>]

InUse == MapThenSumSet(Writers, Table)

Opened(t) ==
  file' = [file EXCEPT ![t] = IF Writers(t) = 0 THEN "partial" ELSE "mixed"]

\* The file is closed after its last row.
ClosedWhole(t) ==
  \E f \in IF file[t] = "mixed" \/ Writers(t) > 1 THEN {"mixed", "whole"}
                                                   ELSE {"whole"} :
    file' = [file EXCEPT ![t] = f]

\* The file is closed before its last row; the footer is written all the same.
ClosedEarly(t) ==
  file' = [file EXCEPT ![t] = IF Writers(t) > 1 THEN "mixed" ELSE @]

\* A transport error, a timeout or a 5xx: tenacity tries again, or reraises.
RetryOrRaise(t) == IF tries[t] < MaxTries THEN UNCHANGED task ELSE Goto(t, "except")

HangUp(t) == call' = [call EXCEPT ![t] = "none"]

Admit(t) ==
  /\ call[t] = "waiting"
  /\ InUse < Permits
  /\ call' = [call EXCEPT ![t] = "writing"]
  /\ Opened(t)
  /\ UNCHANGED <<log, proc, task, tries, stray, inventory, bounds>>

\* 429, after max_wait_minutes without a permit: not a retryable status.
Throttled(t) ==
  /\ call[t] = "waiting"
  /\ InUse >= Permits
  /\ HangUp(t)
  /\ Goto(t, "except")
  /\ UNCHANGED <<log, proc, tries, stray, file, inventory, bounds>>

\* 4xx: the query or the connection is refused, before any file is opened.
Rejected(t) ==
  /\ call[t] = "waiting"
  /\ Fault
  /\ HangUp(t)
  /\ Goto(t, "except")
  /\ UNCHANGED <<log, proc, tries, stray, file, inventory>>

\* The service is down, or fails before it opens the file (5xx).
FailsEarly(t) ==
  /\ call[t] = "waiting"
  /\ Fault
  /\ HangUp(t)
  /\ RetryOrRaise(t)
  /\ UNCHANGED <<log, proc, tries, stray, file, inventory>>

\* Mutant of FailsMidway: the status of the response is not looked at.
MutantFailsMidway(t) ==
  /\ call[t] = "writing"
  /\ Fault
  /\ ClosedEarly(t)
  /\ HangUp(t)
  /\ Goto(t, "mark")
  /\ UNCHANGED <<log, proc, tries, stray, inventory>>

\* The source or the service fails while the file is written (5xx).
FailsMidway(t) ==
  /\ call[t] = "writing"
  /\ Fault
  /\ ClosedEarly(t)
  /\ HangUp(t)
  /\ RetryOrRaise(t)
  /\ UNCHANGED <<log, proc, tries, stray, inventory>>

Responds(t) ==
  /\ call[t] = "writing"
  /\ ClosedWhole(t)
  /\ HangUp(t)
  /\ Goto(t, "mark")
  /\ UNCHANGED <<log, proc, tries, stray, inventory, bounds>>

\* The read timeout of httpx, or a lost connection: the request goes on alone.
TimesOut(t) ==
  /\ call[t] # "none"
  /\ abandons < MaxAbandons
  /\ abandons' = abandons + 1
  /\ stray' = [stray EXCEPT ![<<t, call[t]>>] = @ + 1]
  /\ HangUp(t)
  /\ RetryOrRaise(t)
  /\ UNCHANGED <<log, proc, tries, file, inventory, driver, faults, crashes>>

StrayAdmitted(t) ==
  /\ stray[<<t, "waiting">>] > 0
  /\ InUse < Permits
  /\ stray' = [stray EXCEPT ![<<t, "waiting">>] = @ - 1, ![<<t, "writing">>] = @ + 1]
  /\ Opened(t)
  /\ UNCHANGED <<log, proc, task, tries, call, inventory, bounds>>

StrayThrottled(t) ==
  /\ stray[<<t, "waiting">>] > 0
  /\ InUse >= Permits
  /\ stray' = [stray EXCEPT ![<<t, "waiting">>] = @ - 1]
  /\ UNCHANGED <<log, proc, task, tries, call, file, inventory, bounds>>

StrayEnds(t) ==
  /\ stray[<<t, "writing">>] > 0
  /\ stray' = [stray EXCEPT ![<<t, "writing">>] = @ - 1]
  /\ ClosedWhole(t)
  /\ UNCHANGED <<log, proc, task, tries, call, inventory, bounds>>

StrayFails(t) ==
  /\ stray[<<t, "writing">>] > 0
  /\ Fault
  /\ stray' = [stray EXCEPT ![<<t, "writing">>] = @ - 1]
  /\ ClosedEarly(t)
  /\ UNCHANGED <<log, proc, task, tries, call, inventory>>
-----------------------------------------------------------------------------
\* The manifest came back: two transactions, then the ledger.

MarkExtracted(t) ==
  /\ At(t, "mark")
  /\ extracted' = extracted \cup {t}
  /\ Goto(t, "types")
  /\ UNCHANGED <<log, proc, tries, call, stray, file, typed, bounds>>

\* A file whose schema cannot be read stores no types and is no error.
StoreTypes(t) ==
  /\ At(t, "types")
  /\ \/ typed' = typed \cup {t}
     \/ file[t] # "whole" /\ UNCHANGED typed
  /\ Goto(t, "close")
  /\ UNCHANGED <<log, proc, tries, call, stray, file, extracted, bounds>>

SucceedTable(t) ==
  /\ At(t, "close")
  /\ log' = LogSucceed(log, t)
  /\ Goto(t, "done")
  /\ UNCHANGED <<proc, tries, call, stray, file, inventory, bounds>>

DatabaseRaises(t) ==
  /\ proc = "up" /\ task[t] \in {"mark", "types", "close"}
  /\ Fault
  /\ Goto(t, "except")
  /\ UNCHANGED <<log, proc, tries, call, stray, file, inventory>>

FailTable(t) ==
  /\ At(t, "except")
  /\ log' = LogFail(log, t)
  /\ Goto(t, "raised")
  /\ UNCHANGED <<proc, tries, call, stray, file, inventory, bounds>>

FailTableRaises(t) ==
  /\ At(t, "except")
  /\ Fault
  /\ Goto(t, "raised")
  /\ UNCHANGED <<log, proc, tries, call, stray, file, inventory>>
-----------------------------------------------------------------------------
\* Every table of the inventory is handed to the pool, extracted or not.
Launch ==
  /\ proc # "up"
  /\ ~IsComplete(log, "global")
  /\ proc' = "up"
  /\ log' = IF Gated THEN LogStart(log, "global") ELSE log
  /\ task' = [t \in Table |-> "queued"]
  /\ UNCHANGED <<tries, call, stray, file, inventory, bounds>>

\* The phase raises only when not a single task returned.
AllFailed == \A t \in Table : task[t] = "raised"

PhaseReturns ==
  /\ proc = "up"
  /\ \A t \in Table : task[t] \in {"done", "raised"}
  /\ proc' = IF AllFailed THEN "failed" ELSE "done"
  /\ log' = CASE ~Gated              -> log
              [] Gated /\ AllFailed  -> LogFail(log, "global")
              [] Gated /\ ~AllFailed -> LogSucceed(log, "global")
  /\ task' = [t \in Table |-> "off"]
  /\ UNCHANGED <<tries, call, stray, file, inventory, bounds>>

\* The process dies; the requests in flight become strays.
Crash ==
  /\ proc = "up"
  /\ crashes < MaxCrashes
  /\ crashes' = crashes + 1
  /\ abandons' = abandons + Cardinality({t \in Table : call[t] # "none"})
  /\ abandons' <= MaxAbandons
  /\ proc' = "crashed"
  /\ task' = [t \in Table |-> "off"]
  /\ stray' = [s \in DOMAIN stray |-> stray[s] + IF call[s[1]] = s[2] THEN 1 ELSE 0]
  /\ call' = [t \in Table |-> "none"]
  /\ UNCHANGED <<log, tries, file, inventory, driver, faults>>

Client(t) ==
  \/ SkipComplete(t) \/ StartTable(t) \/ StartTableRaises(t) \/ Send(t)
  \/ MarkExtracted(t) \/ StoreTypes(t) \/ SucceedTable(t) \/ DatabaseRaises(t)
  \/ FailTable(t) \/ FailTableRaises(t)

Service(t) ==
  \/ Admit(t) \/ Throttled(t) \/ Rejected(t) \/ FailsEarly(t)
  \/ FailsMidway(t) \/ Responds(t)

Stray(t) ==
  StrayAdmitted(t) \/ StrayThrottled(t) \/ StrayEnds(t) \/ StrayFails(t)

Next ==
  \/ \E t \in Table : Client(t) \/ Service(t) \/ TimesOut(t) \/ Stray(t)
  \/ Launch \/ PhaseReturns \/ Crash

Spec == Init /\ [][Next]_vars

\* Threads run, the service answers or loses the connection, and whoever
\* needs the tables launches the phase again.
FairSpec ==
  /\ Spec
  /\ \A t \in Table : WF_vars(Client(t)) /\ WF_vars(Service(t)) /\ WF_vars(Stray(t))
  /\ WF_vars(PhaseReturns)
  /\ WF_vars(Launch)
-----------------------------------------------------------------------------
(***************************************************************************)
(* Whatever the ledger calls extracted can be read by the later phases:    *)
(* status 'extracted' and a complete file at the canonical path.  "The     *)
(* Parquet file is written at a deterministic path so re-extraction is     *)
(* safe" (run_phase_2).                                                    *)
(***************************************************************************)
SucceededIsWhole ==
  \A t \in Table : log[t] = "succeeded" => t \in extracted /\ file[t] = "whole"

(***************************************************************************)
(* ... for as long as no request outlived the client that sent it: at the  *)
(* moments where a resumed run or a retry overwrites a file in place, the  *)
(* row of its table is not "succeeded" (_extract_table_task, extract).     *)
(***************************************************************************)
WholeWithoutStrays == abandons = 0 => SucceededIsWhole

(***************************************************************************)
(* A table recorded as succeeded is not requested from the source again,   *)
(* and no later failure of the phase takes its row back.                   *)
(***************************************************************************)
NoReExtraction ==
  [][\A t \in Table : log[t] = "succeeded" =>
        log'[t] = "succeeded" /\ call'[t] = "none"]_vars

(***************************************************************************)
(* Once faults stop, "discovery extract" called again and again extracts   *)
(* every table, through throttling, strays and kills.  (run-all does not   *)
(* return to the phase once a single table succeeded.)                     *)
(***************************************************************************)
EventuallyExtracted ==
  ~Gated => <>[](\A t \in Table : log[t] = "succeeded" /\ t \in extracted)
=============================================================================
