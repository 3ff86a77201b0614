----------------------------- MODULE BatchPhase -----------------------------
(***************************************************************************)
(* Phases 3a (fingerprint), 3b (PII scan) and 5 (validate) share one way   *)
(* of working through columns or candidates: read what is pending, let a   *)
(* process pool compute every result, then walk the results in order and   *)
(* persist them in batches, the data of a batch in one transaction and     *)
(* the ledger rows of its items after it, one transaction each.            *)
(*                                                                         *)
(* They differ in what they call pending, in which items have rows to      *)
(* store, and in what they do with a batch whose flush raised:             *)
(*                   pending            rows         flush error           *)
(*   run_phase_3a    nothing stored     every item   rows marked failed    *)
(*   run_phase_3b    not "succeeded"    findings     rows marked failed    *)
(*   run_phase_5     not "succeeded"    containment  dropped               *)
(***************************************************************************)
EXTENDS Naturals, Sequences, FiniteSets, Functions, RunLog

CONSTANTS
  Item,           \* the columns or candidates the phase works on
  Matching,       \* columns with findings, candidates over the threshold
  BatchSize,      \* _PERSIST_BATCH / batch_size
  Phases,         \* which of the three phases to consider
  Drivers,        \* "run_all", which keeps a global row of the phase, or the
                  \* "command" of the phase, which does not
  MaxBad,         \* bound: items whose worker returns no result
  MaxFaults,      \* bound: exceptions of the database
  MaxCrashes      \* bound: deaths of the process

ASSUME BatchAssumption ==
  /\ IsFiniteSet(Item)
  /\ "global" \notin Item
  /\ Matching \subseteq Item
  /\ BatchSize \in Nat \ {0}
  /\ Phases \subseteq {"fingerprint", "pii_scan", "validate"}
  /\ Drivers \subseteq {"run_all", "command"}
  /\ {MaxBad, MaxFaults, MaxCrashes} \subseteq Nat

VARIABLES
  phase,      \* the phase that runs
  driver,     \* who calls it
  log,        \* run_log: one row per item, and the global row of the phase
  stored,     \* items whose data rows are in the results database
  proc,       \* the process: how it ended, or "up"
  step,       \* where the phase function stands
  todo,       \* results not looked at yet, in the order of the tasks
  bad,        \* those among them that have no result
  queue,      \* pending_writes / pending_succeeds
  last,       \* TRUE during the flush after the loop
  bads, faults, crashes

caller == <<phase, driver>>
bounds == <<bads, faults, crashes>>
rest == <<caller, bounds>>
vars == <<log, stored, proc, step, todo, bad, queue, last, rest>>

Row == Item \cup {"global"}

\* The items whose result has rows to store: every column has a fingerprint.
Hit == IF phase = "fingerprint" THEN Item ELSE Matching

Gated == driver = "run_all"

TypeOK ==
  /\ phase \in Phases
  /\ driver \in Drivers
  /\ log \in [Row -> Status]
  /\ stored \subseteq Hit
  /\ proc \in {"idle", "up", "done", "failed", "crashed"}
  /\ step \in {"read", "walk", "commit", "mark", "except"}
  /\ todo \in Seq(Item)
  /\ bad \subseteq Item
  /\ queue \in Seq(Item)
  /\ last \in BOOLEAN
  /\ bads \in 0 .. MaxBad
  /\ faults \in 0 .. MaxFaults
  /\ crashes \in 0 .. MaxCrashes

Init ==
  /\ phase \in Phases
  /\ driver \in Drivers
  /\ log = [r \in Row |-> "none"]
  /\ stored = {}
  /\ proc = "idle"
  /\ step = "read"
  /\ todo = <<>>
  /\ bad = {}
  /\ queue = <<>>
  /\ last = FALSE
  /\ bads = 0 /\ faults = 0 /\ crashes = 0
-----------------------------------------------------------------------------
At(s) == proc = "up" /\ step = s

Fault == faults < MaxFaults /\ faults' = faults + 1 /\ UNCHANGED <<caller, bads, crashes>>

\* The phase function returns or raises; under run-all its global row follows.
Return ==
  /\ proc' = "done"
  /\ log' = IF Gated THEN LogSucceed(log, "global") ELSE log

Raise ==
  /\ proc' = "failed"
  /\ log' = IF Gated THEN LogFail(log, "global") ELSE log

\* Mutant of Pending: whatever has no row yet.
MutantPendingNew == {i \in Item : log[i] = "none"}

Pending ==
  IF phase = "fingerprint" THEN Item \ stored
                           ELSE {i \in Item : log[i] # "succeeded"}

\* The orders in which a query may return the rows of S.
Listings(S) ==
  {s \in [1 .. Cardinality(S) -> S] : Range(s) = S}

\* Mutant of Launch: only a phase that was never started is started.
MutantLaunch ==
  /\ proc # "up"
  /\ log["global"] = "none"
  /\ proc' = "up"
  /\ step' = "read"
  /\ log' = IF Gated THEN LogStart(log, "global") ELSE log
  /\ UNCHANGED <<stored, todo, bad, queue, last, rest>>

\* run_all calls the phase unless its global row is complete.
Launch ==
  /\ proc # "up"
  /\ ~IsComplete(log, "global")
  /\ proc' = "up"
  /\ step' = "read"
  /\ log' = IF Gated THEN LogStart(log, "global") ELSE log
  /\ UNCHANGED <<stored, todo, bad, queue, last, rest>>

NothingToDo ==
  /\ At("read")
  /\ Pending = {}
  /\ Return
  /\ UNCHANGED <<stored, step, todo, bad, queue, last, rest>>

\* The pool maps every pending item before the first result is looked at.
Compute ==
  /\ At("read")
  /\ Pending # {}
  /\ todo' \in Listings(Pending)
  /\ bad' \in SUBSET Pending
  /\ bads' = bads + Cardinality(bad')
  /\ bads' <= MaxBad
  /\ queue' = <<>>
  /\ last' = FALSE
  /\ step' = "walk"
  /\ UNCHANGED <<log, stored, proc, caller, faults, crashes>>

\* The query, or the pool itself, raises.
ComputeRaises ==
  /\ At("read")
  /\ Fault
  /\ Raise
  /\ UNCHANGED <<stored, step, todo, bad, queue, last>>

\* An item without a result is marked failed.
WalkBad ==
  /\ At("walk")
  /\ todo # <<>>
  /\ Head(todo) \in bad
  /\ log' = LogFail(log, Head(todo))
  /\ todo' = Tail(todo)
  /\ UNCHANGED <<stored, proc, step, bad, queue, last, rest>>

\* ... by a write no handler covers.
WalkBadRaises ==
  /\ At("walk")
  /\ todo # <<>>
  /\ Head(todo) \in bad
  /\ Fault
  /\ Raise
  /\ UNCHANGED <<stored, step, todo, bad, queue, last>>

\* Any other item joins the batch; a full batch is flushed.
WalkGood ==
  /\ At("walk")
  /\ todo # <<>>
  /\ Head(todo) \notin bad
  /\ queue' = Append(queue, Head(todo))
  /\ todo' = Tail(todo)
  /\ step' = IF Len(queue') >= BatchSize THEN "commit" ELSE "walk"
  /\ UNCHANGED <<log, stored, proc, bad, last, rest>>

\* The flush after the loop.
WalkEnds ==
  /\ At("walk")
  /\ todo = <<>>
  /\ last' = TRUE
  /\ step' = "commit"
  /\ UNCHANGED <<log, stored, proc, todo, bad, queue, rest>>

\* What follows a flush, ended well or not.
AfterFlush ==
  IF last THEN Return /\ UNCHANGED step
          ELSE step' = "walk" /\ UNCHANGED <<log, proc>>

FlushNothing ==
  /\ At("commit")
  /\ queue = <<>>
  /\ AfterFlush
  /\ UNCHANGED <<stored, todo, bad, queue, last, rest>>

\* _flush, first half: the data rows of the batch, in one transaction.
Commit ==
  /\ At("commit")
  /\ queue # <<>>
  /\ stored' = stored \cup (Range(queue) \cap Hit)
  /\ step' = "mark"
  /\ UNCHANGED <<log, proc, todo, bad, queue, last, rest>>

\* Mutant of CommitRaises: the ledger is written whether or not the
\* transaction committed.
MutantCommitRaises ==
  /\ At("commit")
  /\ queue # <<>>
  /\ Fault
  /\ step' = "mark"
  /\ UNCHANGED <<log, stored, proc, todo, bad, queue, last>>

\* run_phase_5 opens no transaction for a batch without rows.
CommitRaises ==
  /\ At("commit")
  /\ queue # <<>>
  /\ phase # "validate" \/ Range(queue) \cap Hit # {}
  /\ Fault
  /\ step' = "except"
  /\ UNCHANGED <<log, stored, proc, todo, bad, queue, last>>

\* _flush, second half: run_log.succeed, item by item.  The queue is cleared
\* after the loop, so the items marked already stay in it till then.
Marked == {i \in Range(queue) : log[i] = "succeeded"}

Mark ==
  /\ At("mark")
  /\ \E n \in DOMAIN queue :
       /\ queue[n] \notin Marked
       /\ \A m \in 1 .. n - 1 : queue[m] \in Marked
       /\ log' = LogSucceed(log, queue[n])
  /\ UNCHANGED <<stored, proc, step, todo, bad, queue, last, rest>>

MarkRaises ==
  /\ At("mark")
  /\ Marked # Range(queue)
  /\ Fault
  /\ step' = "except"
  /\ UNCHANGED <<log, stored, proc, todo, bad, queue, last>>

MarkEnds ==
  /\ At("mark")
  /\ Marked = Range(queue)
  /\ queue' = <<>>
  /\ AfterFlush
  /\ UNCHANGED <<stored, todo, bad, last, rest>>

\* except: the handlers of 3a and 3b mark the rows of the batch failed, one
\* transaction each, those _flush had already marked included.
GiveUpItem ==
  /\ At("except")
  /\ phase # "validate"
  /\ queue # <<>>
  /\ log' = LogFail(log, Head(queue))
  /\ queue' = Tail(queue)
  /\ UNCHANGED <<stored, proc, step, todo, bad, last, rest>>

\* ... with no handler of their own.
GiveUpItemRaises ==
  /\ At("except")
  /\ phase # "validate"
  /\ queue # <<>>
  /\ Fault
  /\ Raise
  /\ UNCHANGED <<stored, step, todo, bad, queue, last>>

\* Then, or at once in run_phase_5, the batch is cleared and forgotten.
GiveUpEnds ==
  /\ At("except")
  /\ phase = "validate" \/ queue = <<>>
  /\ queue' = <<>>
  /\ AfterFlush
  /\ UNCHANGED <<stored, todo, bad, last, rest>>

Crash ==
  /\ proc = "up"
  /\ crashes < MaxCrashes
  /\ crashes' = crashes + 1
  /\ proc' = "crashed"
  /\ UNCHANGED <<log, stored, step, todo, bad, queue, last, caller, bads, faults>>

Proceed ==
  \/ NothingToDo \/ Compute \/ ComputeRaises
  \/ WalkBad \/ WalkBadRaises \/ WalkGood \/ WalkEnds
  \/ FlushNothing \/ Commit \/ CommitRaises
  \/ Mark \/ MarkRaises \/ MarkEnds
  \/ GiveUpItem \/ GiveUpItemRaises \/ GiveUpEnds

Next == Launch \/ Proceed \/ Crash

Spec == Init /\ [][Next]_vars

\* The process runs, and is launched again for as long as it is of any use.
FairSpec == Spec /\ WF_vars(Proceed) /\ WF_vars(Launch)
-----------------------------------------------------------------------------
(***************************************************************************)
(* The ledger never runs ahead of the data: an item recorded as succeeded  *)
(* has its rows in the results database.  Otherwise a crash between the    *)
(* two would hide the item from every later run (F1.3 / E3 in validate).   *)
(***************************************************************************)
LedgerImpliesStored ==
  \A i \in Hit : log[i] = "succeeded" => i \in stored

\* run-all does not come back to a phase that returned, so what such a phase
\* gave up on stays undone.
NothingGivenUp == Gated => [](faults = 0 /\ bads = 0)

(***************************************************************************)
(* Once failures stop, launching the phase again stores every row there is *)
(* to store, whatever batch was lost, given up or only half recorded.      *)
(***************************************************************************)
EventuallyStored == NothingGivenUp => <>[](stored = Hit)

(***************************************************************************)
(* ... and the phases that resume by the ledger record every item as done, *)
(* as if nothing had happened.                                             *)
(***************************************************************************)
EventuallyRecorded ==
  NothingGivenUp /\ phase # "fingerprint" => <>[](\A i \in Item : log[i] = "succeeded")
=============================================================================
