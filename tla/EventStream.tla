----------------------------- MODULE EventStream -----------------------------
(***************************************************************************)
(* The page of a job and the event stream that fills it: _job_event_stream *)
(* and GET /api/jobs/{id}/events in backend/python/api/main.py, and what   *)
(* the page does with the frames (job.service.ts, job-detail.component.ts  *)
(* of the user interface).  The stream has no lock in common with the      *)
(* runner thread or the run-all subprocess: either may move between any    *)
(* two of its reads.                                                       *)
(*                                                                         *)
(* A frame is applied to the page when it is sent: frames of a connection  *)
(* arrive in order, and nothing else writes the page.  Of the ledger and   *)
(* the log, only what the last frames carried is kept; a page without a    *)
(* stream is blank here: the next snapshot replaces all of it.             *)
(***************************************************************************)
EXTENDS JobApi

CONSTANT Watched    \* the jobs whose page somebody opens

ASSUME WatchedAssumption == Watched \subseteq Job

VARIABLES
  stream,     \* where the stream stands, or how the page lost it
  page,       \* what the page shows
  overtaken   \* watched jobs after which another was submitted

watching == <<stream, page, overtaken>>
wvars == <<vars, watching>>

Reading == {"tick", "views"}
Open == {"retry"} \cup Reading
Closed == {"done", "lost"}

\* The phases the roll-up of the ledger shows as succeeded.
Rollup == {p \in Phase : log[p] = "succeeded"}

\* Whether the tail of the log file has the end of what the subprocess writes.
Text(j) == pipe[j] \in {"ok", "bad"}

BlankPage == [status |-> "absent", counts |-> {}, run_log |-> {}, text |-> FALSE]

WatchInit ==
  /\ Init
  /\ stream = [j \in Watched |-> "none"]
  /\ page = [j \in Watched |-> BlankPage]
  /\ overtaken = {}

Stream(j, s) == stream' = [stream EXCEPT ![j] = s]

\* The page is without a stream, to get one again or not.
Lose(j, s) == Stream(j, s) /\ page' = [page EXCEPT ![j] = BlankPage]
-----------------------------------------------------------------------------
\* The snapshot: one frame with the job, the ledger and the log, the last two
\* read again by every tick.
Hello(j) ==
  /\ api = "up" /\ mem[j] # "absent"
  /\ page' = [page EXCEPT ![j].status = mem[j], ![j].counts = counts[j]]
  /\ Stream(j, "tick")
  /\ UNCHANGED <<vars, overtaken>>

OpenPage(j) == stream[j] = "none" /\ Hello(j)

\* The first thing a tick looks at.  A status frame carries the whole job, and
\* is sent when the status differs from the one sent last.
TickStatus(j) ==
  /\ stream[j] = "tick" /\ mem[j] # "absent"
  /\ page' = IF mem[j] # page[j].status
               THEN [page EXCEPT ![j].status = mem[j], ![j].counts = counts[j]]
               ELSE page
  /\ Stream(j, "views")
  /\ UNCHANGED <<vars, overtaken>>

JobGone(j) ==
  /\ stream[j] = "tick" /\ mem[j] = "absent"
  /\ Lose(j, "lost")
  /\ UNCHANGED <<vars, overtaken>>

\* 30 minutes: a frame 'done' with a reason, on which the page closes.
Expire(j) ==
  /\ stream[j] = "tick"
  /\ Lose(j, "lost")
  /\ UNCHANGED <<vars, overtaken>>

\* Mutant of Settled: only a success ends the stream.
MutantSettled(status) == status = "succeeded"

Settled(status) == status \in Terminal

\* The frames of the ledger, where a failed query counts as an empty one, and
\* of the log file.
Views(j, entries) ==
  /\ entries \in {Rollup, {}}
  /\ IF entries = Rollup THEN UNCHANGED bounds ELSE Fault
  /\ UNCHANGED <<api, schema, mem, row, topline, at, subprocess, spoiled, overtaken>>

\* Mutant of TickViews: whether to end is decided on a fresh look at the job.
MutantTickViews(j) ==
  /\ stream[j] = "views"
  /\ \E entries \in {Rollup, {}} :
       /\ Views(j, entries)
       /\ IF Settled(mem[j])
            THEN /\ page' = [page EXCEPT ![j].text = Text(j), ![j].run_log = entries]
                 /\ Stream(j, "done")
            ELSE Stream(j, "tick") /\ UNCHANGED page

\* Then the ledger and the log; last, the status that was sent decides whether
\* to go on.
TickViews(j) ==
  /\ stream[j] = "views"
  /\ \E entries \in {Rollup, {}} :
       /\ Views(j, entries)
       /\ IF Settled(page[j].status)
            THEN /\ page' = [page EXCEPT ![j].text = Text(j), ![j].run_log = entries]
                 /\ Stream(j, "done")
            ELSE Stream(j, "tick") /\ UNCHANGED page

\* The results database is unreachable when the stream opens, the generator
\* raises, or the network drops the connection: the browser opens it again.
Drop(j) ==
  /\ stream[j] \in Reading
  /\ Fault
  /\ Lose(j, "retry")
  /\ UNCHANGED <<api, schema, mem, row, topline, at, subprocess, spoiled, overtaken>>

Reconnect(j) == stream[j] = "retry" /\ Hello(j)

\* A job the registry does not have is a 404, which the browser takes for final.
Refuse(j) ==
  /\ stream[j] = "retry"
  /\ api = "up" /\ mem[j] = "absent"
  /\ Stream(j, "lost")
  /\ UNCHANGED <<vars, page, overtaken>>
-----------------------------------------------------------------------------
Tick(j) == TickStatus(j) \/ JobGone(j) \/ TickViews(j)

\* The connections of an API that dies are dropped.
CrashServer ==
  /\ CrashApi
  /\ stream' = [j \in Watched |-> IF stream[j] \in Open THEN "retry" ELSE stream[j]]
  /\ page' = [j \in Watched |-> IF stream[j] \in Open THEN BlankPage ELSE page[j]]
  /\ UNCHANGED overtaken

SubmitWatched(j) ==
  /\ Submit(j)
  /\ overtaken' = overtaken \cup {k \in Watched : at[k] # "none"}
  /\ UNCHANGED <<stream, page>>

WatchNext ==
  \/ CrashServer
  \/ StartApi /\ UNCHANGED watching
  \/ \E j \in Job : \/ SubmitWatched(j)
                    \/ (Serve(j) \/ RunAll(j)) /\ UNCHANGED watching
  \/ \E j \in Watched : OpenPage(j) \/ Tick(j) \/ Expire(j) \/ Drop(j) \/ Reconnect(j) \/ Refuse(j)

WatchSpec == WatchInit /\ [][WatchNext]_wvars

\* The fairness of JobApi; the event loop ticks and the browser reconnects.
FairWatchSpec ==
  /\ WatchSpec
  /\ WF_wvars(StartApi /\ UNCHANGED watching)
  /\ \A j \in Job : /\ WF_wvars(Serve(j) /\ UNCHANGED watching)
                    /\ WF_wvars(RunAll(j) /\ UNCHANGED watching)
  /\ \A j \in Watched : WF_wvars(Tick(j)) /\ WF_wvars(Reconnect(j) \/ Refuse(j))
-----------------------------------------------------------------------------
(***************************************************************************)
(* A page whose stream said it is done shows the outcome, all that the     *)
(* pipeline wrote, and, when the job ran alone and succeeded, a ledger     *)
(* with every phase succeeded: the tick that finds the job over reads the  *)
(* ledger and the file after it, never before.  Excepted are jobs after    *)
(* which another was submitted, ledgers that could not be read, and jobs   *)
(* that were in flight when the API died: they are shown as failed while   *)
(* their subprocess may still write (_job_event_stream).                   *)
(***************************************************************************)
DoneShowsAll ==
  \A j \in Watched : stream[j] = "done" =>
    /\ page[j].status \in Terminal
    /\ page[j].text \/ (restarts > 0 /\ row[j] \in InFlight)
    /\ page[j].status = "succeeded" /\ j \notin spoiled \cup overtaken =>
         page[j].run_log \in {Phase, {}}

(***************************************************************************)
(* The stream of every open page comes to an end, through failed reads,    *)
(* dropped connections and restarts of the API, and no page is left that   *)
(* shows a job in flight, except where the stream reached its lifetime or  *)
(* the job is gone from the registry (_job_event_stream, events() of       *)
(* job.service.ts).                                                        *)
(***************************************************************************)
PagesSettle ==
  <>[](\A j \in Watched :
         \/ stream[j] \in {"none", "lost"}
         \/ stream[j] = "done" /\ page[j].status \in Terminal)
=============================================================================
