---------------------------- MODULE PhaseLedger ----------------------------
(***************************************************************************)
(* What the phase ledger promises to whoever reads it, with no process,    *)
(* no crash and no retry in sight: a phase does its work some number of    *)
(* times, is settled once after its work was done and after every earlier  *)
(* phase it cannot do without was settled, and is neither reworked nor     *)
(* unsettled from then on.  Orchestrator.tla is shown to implement it.     *)
(***************************************************************************)
EXTENDS Naturals, Sequences

CONSTANTS
  Order,      \* the phases in the order run_all visits them
  Needed      \* the phases a later phase cannot start without

VARIABLES
  settled,    \* phases a resumed run will not visit again
  worked,     \* phases whose work was carried out at least once
  waived      \* phases the caller asked to leave out

vars == <<settled, worked, waived>>

Phase == {Order[i] : i \in DOMAIN Order}

\* The phases visited before p.
Earlier(p) ==
  {Order[i] : i \in {j \in DOMAIN Order :
                       \E k \in DOMAIN Order : j < k /\ Order[k] = p}}

Init ==
  /\ settled = {}
  /\ worked = {}
  /\ waived \in SUBSET Phase

\* The caller chooses what to leave out, before each run.
Waive ==
  /\ waived' \in SUBSET Phase
  /\ UNCHANGED <<settled, worked>>

\* The work of a phase that is not settled yet.
Work(p) ==
  /\ p \notin settled \cup waived
  /\ (Earlier(p) \cap Needed) \ waived \subseteq settled
  /\ worked' = worked \cup {p}
  /\ UNCHANGED <<settled, waived>>

Settle(p) ==
  /\ p \in worked \ settled
  /\ (Earlier(p) \cap Needed) \ waived \subseteq settled
  /\ settled' = settled \cup {p}
  /\ UNCHANGED <<worked, waived>>

Next == Waive \/ \E p \in Phase : Work(p) \/ Settle(p)

Spec == Init /\ [][Next]_vars
=============================================================================
