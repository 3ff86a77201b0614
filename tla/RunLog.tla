------------------------------- MODULE RunLog -------------------------------
(***************************************************************************)
(* The resumability ledger of the discovery pipeline (table                *)
(* discovery.run_log behind class RunLog).  A ledger is a function from    *)
(* the rows a module cares about (global phases, tables, columns,          *)
(* candidates) to the status column; "none" stands for the absent row.     *)
(* Every write of the class is an upsert in a transaction of its own, so   *)
(* each operator below is one atomic database step.                        *)
(***************************************************************************)

\* The values of run_log.status, plus "none" for a row that does not exist.
Status == {"none", "started", "succeeded", "failed", "skipped"}

\* RunLog.start: insert, or restart the row whatever its status was.
LogStart(log, k) == [log EXCEPT ![k] = "started"]

\* RunLog._set_terminal, reached through succeed and fail.
LogSucceed(log, k) == [log EXCEPT ![k] = "succeeded"]

LogFail(log, k) == [log EXCEPT ![k] = "failed"]

\* RunLog.is_complete: only succeeded and skipped rows are never redone.
IsComplete(log, k) == log[k] \in {"succeeded", "skipped"}
=============================================================================
