---------------------------- MODULE Orchestrator ----------------------------
(***************************************************************************)
(* discovery run-all: the process that walks the phases in order, gating   *)
(* each on its global row of the ledger (orchestrator._run_phase), with    *)
(* the optional detectors wrapped so that their exceptions are logged and  *)
(* swallowed (_run_advanced_fk_phases).  What a phase does is abstracted   *)
(* to one step that returns or raises; Extraction, BatchPhase and          *)
(* ParquetFlow look inside.                                                *)
(*                                                                         *)
(* The process may die between any two steps and be launched again, with   *)
(* another --skip-phases; any write of the ledger may raise.               *)
(***************************************************************************)
EXTENDS Naturals, Sequences, RunLog

CONSTANTS
  Order,        \* ALL_PHASES: the phases, in the order they are visited
  Optional,     \* the phases run through _run_optional
  Disabled,     \* the optional phases whose config gate is off
  Fallbacks,    \* orchestration.enable_phase_fallbacks
  SkipSets,     \* the --skip-phases arguments an operator may pass
  MaxFaults,    \* bound: exceptions raised by a phase or a ledger write
  MaxCrashes    \* bound: deaths of the process

Phase == {Order[i] : i \in DOMAIN Order}

ASSUME OrderAssumption ==
  /\ Order \in Seq(STRING)
  /\ \A i, j \in DOMAIN Order : Order[i] = Order[j] => i = j

ASSUME ConfigAssumption ==
  /\ Optional \subseteq Phase
  /\ Disabled \subseteq Optional
  /\ Fallbacks \in BOOLEAN
  /\ SkipSets \subseteq SUBSET Phase
  /\ SkipSets # {}
  /\ MaxFaults \in Nat
  /\ MaxCrashes \in Nat

VARIABLES
  log,        \* the global rows of run_log, by phase
  proc,       \* the run-all process: how it ended, or "up"
  pos,        \* index in Order of the phase being visited
  step,       \* where _run_phase stands for that phase
  skip,       \* skip_phases of the current invocation
  effects,    \* phases whose function returned at least once
  seen,       \* for each phase, effects when its function last returned
  faults,     \* exceptions so far
  crashes     \* process deaths so far

vars == <<log, proc, pos, step, skip, effects, seen, faults, crashes>>

Proc == {"idle", "up", "done", "failed", "crashed"}
Step == {"gate", "body", "close", "except"}

TypeOK ==
  /\ log \in [Phase -> Status]
  /\ proc \in Proc
  /\ pos \in 1 .. Len(Order) + 1
  /\ step \in Step
  /\ skip \in SkipSets
  /\ effects \subseteq Phase
  /\ seen \in [Phase -> SUBSET Phase]
  /\ faults \in 0 .. MaxFaults
  /\ crashes \in 0 .. MaxCrashes

Init ==
  /\ log = [p \in Phase |-> "none"]
  /\ proc = "idle"
  /\ pos = 1
  /\ step = "gate"
  /\ skip \in SkipSets
  /\ effects = {}
  /\ seen = [p \in Phase |-> {}]
  /\ faults = 0
  /\ crashes = 0
-----------------------------------------------------------------------------
\* The phase being visited.
Cur == Order[pos]

Running(s) == proc = "up" /\ pos <= Len(Order) /\ step = s

\* An exception, within the bound.
Fault ==
  /\ faults < MaxFaults
  /\ faults' = faults + 1

\* run_all goes on with the next phase.
Advance ==
  /\ pos' = pos + 1
  /\ step' = "gate"
  /\ UNCHANGED proc

\* Mutant of Raise: every exception is swallowed.
MutantRaise == Advance

\* An exception leaves _run_phase: the wrapper of an optional phase swallows
\* it unless fallbacks are off; otherwise it leaves run_all, exit code 1.
Raise ==
  IF Cur \in Optional /\ Fallbacks
    THEN Advance
    ELSE proc' = "failed" /\ UNCHANGED <<pos, step>>

\* Mutant of PassOver: a row of any status counts as complete.
MutantPassOver ==
  /\ Running("gate")
  /\ Cur \in Disabled \/ Cur \in skip \/ log[Cur] # "none"
  /\ Advance
  /\ UNCHANGED <<log, skip, effects, seen, faults, crashes>>

\* Config gate off, phase named in skip_phases, or its row is complete.
PassOver ==
  /\ Running("gate")
  /\ Cur \in Disabled \/ Cur \in skip \/ IsComplete(log, Cur)
  /\ Advance
  /\ UNCHANGED <<log, skip, effects, seen, faults, crashes>>

\* Mutant of MustRun: the ledger is not consulted.
MutantMustRun == Running("gate") /\ Cur \notin Disabled /\ Cur \notin skip

MustRun ==
  /\ Running("gate")
  /\ Cur \notin Disabled
  /\ Cur \notin skip
  /\ ~IsComplete(log, Cur)

StartPhase ==
  /\ MustRun
  /\ log' = LogStart(log, Cur)
  /\ step' = "body"
  /\ UNCHANGED <<proc, pos, skip, effects, seen, faults, crashes>>

\* run_log.start stands before the try: its exception records nothing.
StartRaises ==
  /\ MustRun
  /\ Fault
  /\ Raise
  /\ UNCHANGED <<log, skip, effects, seen, crashes>>

BodyReturns ==
  /\ Running("body")
  /\ effects' = effects \cup {Cur}
  /\ seen' = [seen EXCEPT ![Cur] = effects]
  /\ step' = "close"
  /\ UNCHANGED <<log, proc, pos, skip, faults, crashes>>

\* Mutant of BodyRaises: succeed is written whether or not fn() raised.
MutantBodyRaises ==
  /\ Running("body")
  /\ Fault
  /\ step' = "close"
  /\ UNCHANGED <<log, proc, pos, skip, effects, seen, crashes>>

BodyRaises ==
  /\ Running("body")
  /\ Fault
  /\ step' = "except"
  /\ UNCHANGED <<log, proc, pos, skip, effects, seen, crashes>>

SucceedPhase ==
  /\ Running("close")
  /\ log' = LogSucceed(log, Cur)
  /\ Advance
  /\ UNCHANGED <<skip, effects, seen, faults, crashes>>

\* run_log.succeed stands inside the try.
SucceedRaises ==
  /\ Running("close")
  /\ Fault
  /\ step' = "except"
  /\ UNCHANGED <<log, proc, pos, skip, effects, seen, crashes>>

FailPhase ==
  /\ Running("except")
  /\ log' = LogFail(log, Cur)
  /\ Raise
  /\ UNCHANGED <<skip, effects, seen, faults, crashes>>

\* run_log.fail raises in its turn: the row keeps the status it had.
FailRaises ==
  /\ Running("except")
  /\ Fault
  /\ Raise
  /\ UNCHANGED <<log, skip, effects, seen, crashes>>

\* The last phase is over: run_all returns and the CLI exits with 0.
Finish ==
  /\ proc = "up"
  /\ pos = Len(Order) + 1
  /\ proc' = "done"
  /\ UNCHANGED <<log, pos, step, skip, effects, seen, faults, crashes>>

\* The process is killed.  Only the results database survives.
Crash ==
  /\ proc = "up"
  /\ crashes < MaxCrashes
  /\ crashes' = crashes + 1
  /\ proc' = "crashed"
  /\ UNCHANGED <<log, pos, step, skip, effects, seen, faults>>

\* An operator (or the job API) invokes run-all on the same results database.
Launch ==
  /\ proc # "up"
  /\ proc' = "up"
  /\ pos' = 1
  /\ step' = "gate"
  /\ skip' \in SkipSets
  /\ UNCHANGED <<log, effects, seen, faults, crashes>>

Proceed ==
  \/ PassOver \/ StartPhase \/ StartRaises
  \/ BodyReturns \/ BodyRaises
  \/ SucceedPhase \/ SucceedRaises
  \/ FailPhase \/ FailRaises
  \/ Finish

Next == Proceed \/ Crash \/ Launch

Spec == Init /\ [][Next]_vars

\* A launch after a run that did not end with exit code 0.
Relaunch == proc # "done" /\ Launch

\* The process keeps running, and whoever started it starts it again until
\* it exits with 0; nobody is obliged to run a finished pipeline once more.
FairSpec == Spec /\ WF_vars(Proceed) /\ WF_vars(Relaunch)
-----------------------------------------------------------------------------
Before(p) ==
  {Order[i] : i \in {j \in DOMAIN Order :
                       \E k \in DOMAIN Order : j < k /\ Order[k] = p}}

\* The phases run_all cannot get past without: the mandatory ones, and the
\* enabled optional ones too when fallbacks are off.
Needed == IF Fallbacks THEN Phase \ Optional ELSE Phase \ Disabled

(***************************************************************************)
(* Exit code 0 means that every phase run_all needs, and was not told to   *)
(* skip, is complete in the ledger: neither a swallowed exception nor a    *)
(* row left behind by an earlier crash hides an unfinished one             *)
(* (orchestrator.run_all, _run_advanced_fk_phases).                        *)
(***************************************************************************)
CleanExit ==
  proc = "done" => \A p \in Needed \ skip : IsComplete(log, p)

(***************************************************************************)
(* No phase is recorded as succeeded on inputs that were not there: when   *)
(* the function of a succeeded phase last returned, the function of every  *)
(* needed earlier phase had already returned.  Resuming after crashes and  *)
(* failures, with rows left "started" or "failed" by them, never reorders  *)
(* the flow of data.  (Under --skip-phases the operator gives this up for  *)
(* the phases skipped at some time.)                                       *)
(***************************************************************************)
BuiltOnUpstream ==
  \A p \in Phase : log[p] = "succeeded" =>
    (Before(p) \cap Needed) \ UNION SkipSets \subseteq seen[p]

(***************************************************************************)
(* A phase that is complete stays complete and its function is not called  *)
(* again, however often run-all is killed and launched ("no re-work").     *)
(***************************************************************************)
NoRework ==
  [][\A p \in Phase : IsComplete(log, p) =>
        /\ IsComplete(log', p)
        /\ seen'[p] = seen[p]
        /\ ~(Running("body") /\ Cur = p)]_vars

(***************************************************************************)
(* Once exceptions and kills stop (they are bounded here), relaunching     *)
(* until exit code 0 gets every needed phase done for good.                *)
(***************************************************************************)
EventuallySettled ==
  <>[](\A p \in Needed \ UNION SkipSets : IsComplete(log, p))

\* The ledger keeps the promise of PhaseLedger.
Ledger == INSTANCE PhaseLedger WITH
  settled <- {p \in Phase : IsComplete(log, p)},
  worked <- effects,
  waived <- skip

LedgerSpec == Ledger!Spec
=============================================================================
