----------------------------- MODULE PortalJobs -----------------------------
(***************************************************************************)
(* The job executor of the metadata portal (archon-open-metadata_be):      *)
(* JobExecutionService.processJobs, the crawl of SchemaExtractionService,  *)
(* and what JobController lets clients do: create, overwrite and delete.   *)
(*                                                                         *)
(* One scheduled thread takes all pending jobs and executes them one after *)
(* the other inside ONE transaction, so nothing a job writes is seen       *)
(* before the last of them has ended, and an exception that crosses a      *)
(* repository dooms the work of all.  Hibernate holds the writes back until*)
(* the first query on tables (flush); from then on the rows of the jobs    *)
(* are locked, and a deletion or PUT waits for the end of the poll.        *)
(* External: Spring's transactions, Hibernate, PostgreSQL, SchemaCrawler.  *)
(* Left out: the event stream, which the executor never reads; its sibling *)
(* with a history is in AnalysisJobs.                                      *)
(***************************************************************************)
EXTENDS Naturals

CONSTANTS
  Job,
  MaxUpdates,   \* bound: jobs overwritten by a client
  MaxFaults,    \* bound: flushes or commits the database refuses
  MaxCrashes    \* bound: restarts of the back end

ASSUME PortalAssumption == {MaxUpdates, MaxFaults, MaxCrashes} \subseteq Nat

\* A status the executor does not know is as good as "Running": never taken up.
Status == {"Pending", "Running", "Done", "Failed"}

VARIABLES
  row,      \* the committed status of a job; "new" before, "gone" after it
  crawled,  \* how many crawls of it are committed
  busy,     \* processJobs runs
  at,       \* where the running poll stands with each job
  mine,     \* the status of the job in its transaction
  wrote,    \* its crawl left entities in the transaction
  flushed,  \* jobs whose rows it has written and locked
  doomed,   \* marked for rollback
  waiting,  \* jobs whose deletion waits for such a lock
  put,      \* the status in the last PUT that waits for it, or "none"
  asked,    \* history: how often a client wrote "Pending"
  edited,   \* history: jobs for which a client wrote another status
  updates, faults, crashes

poll == <<busy, at, mine, wrote, flushed, doomed>>
locked == <<waiting, put>>
history == <<asked, edited, updates>>
vars == <<row, crawled, poll, locked, history, faults, crashes>>

TypeOK ==
  /\ row \in [Job -> Status \cup {"new", "gone"}]
  /\ crawled \in [Job -> Nat] /\ asked \in [Job -> Nat]
  /\ busy \in BOOLEAN
  /\ at \in [Job -> {"out", "queued", "crawl", "analyse", "settled"}]
  /\ mine \in [Job -> Status]
  /\ wrote \in [Job -> BOOLEAN]
  /\ flushed \subseteq Job /\ waiting \subseteq flushed
  /\ put \in [Job -> Status \cup {"none"}]
  /\ doomed \in BOOLEAN
  /\ edited \subseteq Job /\ updates \in 0 .. MaxUpdates
  /\ faults \in 0 .. MaxFaults /\ crashes \in 0 .. MaxCrashes

NoPoll ==
  /\ busy = FALSE /\ doomed = FALSE /\ flushed = {}
  /\ at = [j \in Job |-> "out"]
  /\ mine = [j \in Job |-> "Pending"]
  /\ wrote = [j \in Job |-> FALSE]

Init ==
  /\ row = [j \in Job |-> "new"] /\ crawled = [j \in Job |-> 0]
  /\ NoPoll
  /\ waiting = {} /\ put = [j \in Job |-> "none"]
  /\ asked = [j \in Job |-> 0] /\ edited = {} /\ updates = 0
  /\ faults = 0 /\ crashes = 0
-----------------------------------------------------------------------------
(* The scheduled thread. *)

Poll ==
  /\ ~busy /\ \E j \in Job : row[j] = "Pending"
  /\ busy' = TRUE
  /\ at' = [j \in Job |-> IF row[j] = "Pending" THEN "queued" ELSE "out"]
  /\ UNCHANGED <<row, crawled, mine, wrote, flushed, doomed, locked, history, faults, crashes>>

\* Jobs of the poll that executePipeline has taken up.
Touched == {j \in Job : at[j] \in {"crawl", "analyse", "settled"}}

Begin(j) ==
  /\ at[j] = "queued" /\ \A k \in Touched : at[k] = "settled"
  /\ at' = [at EXCEPT ![j] = "crawl"]
  /\ mine' = [mine EXCEPT ![j] = "Running"]
  /\ UNCHANGED <<row, crawled, busy, wrote, flushed, doomed, locked, history, faults, crashes>>

\* The end of executePipeline, with status s.
Settle(j, s) ==
  /\ at' = [at EXCEPT ![j] = "settled"]
  /\ mine' = [mine EXCEPT ![j] = s]

\* The source cannot be crawled: what was saved of it stays in the session.
CrawlFails(j) ==
  /\ at[j] = "crawl"
  /\ Settle(j, "Failed")
  /\ \E some \in BOOLEAN : wrote' = [wrote EXCEPT ![j] = some]
  /\ UNCHANGED <<row, crawled, busy, flushed, doomed, locked, history, faults, crashes>>

\* An UPDATE of a job that was deleted meanwhile finds no row.
Flushable == ~doomed /\ \A k \in Touched : row[k] # "gone"

\* tableService.findAll writes the session first: all jobs taken up so far.
Flush(j) ==
  /\ at[j] = "crawl" /\ Flushable
  /\ flushed' = Touched
  /\ wrote' = [wrote EXCEPT ![j] = TRUE]
  /\ at' = [at EXCEPT ![j] = "analyse"]
  /\ UNCHANGED <<row, crawled, busy, mine, doomed, locked, history, faults, crashes>>

\* The same, refused: the exception leaves a repository, which marks the
\* transaction; the handler of executePipeline still settles the job.
FlushFails(j) ==
  /\ at[j] = "crawl"
  /\ \/ ~Flushable /\ faults' = faults
     \/ faults < MaxFaults /\ faults' = faults + 1
  /\ doomed' = TRUE
  /\ Settle(j, "Failed")
  /\ UNCHANGED <<row, crawled, busy, wrote, flushed, locked, history, crashes>>

\* The ML stages answer or are passed over; their data can still be in the
\* way of the requests built from it.
Analyse(j) ==
  /\ at[j] = "analyse"
  /\ Settle(j, "Done") \/ Settle(j, "Failed")
  /\ UNCHANGED <<row, crawled, busy, wrote, flushed, doomed, locked, history, faults, crashes>>

EndPoll ==
  /\ busy' = FALSE /\ doomed' = FALSE /\ flushed' = {}
  /\ at' = [j \in Job |-> "out"]
  /\ mine' = [j \in Job |-> "Pending"]
  /\ wrote' = [j \in Job |-> FALSE]
  /\ waiting' = {} /\ put' = [j \in Job |-> "none"]
  /\ UNCHANGED history

\* What waited goes on.  A deletion fails on a foreign key if the poll left
\* rows of its job, which it did not see when it deleted them.  A PUT
\* overwrites the status the poll left; the last one stays.
Released(rows, crawls) ==
  LET Dropped == {j \in waiting : crawls[j] = crawled[j]} IN
  /\ crawled' = [j \in Job |-> IF j \in Dropped THEN 0 ELSE crawls[j]]
  /\ row' = [j \in Job |-> IF j \in Dropped THEN "gone"
                          ELSE IF put[j] # "none" THEN put[j] ELSE rows[j]]

LoopEnded == busy /\ \A j \in Job : at[j] \in {"out", "settled"}

Commit ==
  /\ LoopEnded /\ Flushable
  /\ Released([j \in Job |-> IF j \in Touched THEN mine[j] ELSE row[j]],
              [j \in Job |-> crawled[j] + (IF wrote[j] THEN 1 ELSE 0)])
  /\ EndPoll
  /\ UNCHANGED <<faults, crashes>>

\* The exception goes to the scheduler, which polls again.
MutantRollback ==
  /\ LoopEnded
  /\ \/ ~Flushable /\ faults' = faults
     \/ faults < MaxFaults /\ faults' = faults + 1
  /\ Released(row, [j \in Job |-> crawled[j] + (IF wrote[j] /\ j \in flushed THEN 1 ELSE 0)])
  /\ EndPoll
  /\ UNCHANGED crashes
Rollback ==
  /\ LoopEnded
  /\ \/ ~Flushable /\ faults' = faults
     \/ faults < MaxFaults /\ faults' = faults + 1
  /\ Released(row, crawled)
  /\ EndPoll
  /\ UNCHANGED crashes
-----------------------------------------------------------------------------
(* The portal's users, and restarts. *)

\* A client, not the service, chooses the status of a job it writes.
Chosen(j, s) ==
  IF s = "Pending"
  THEN asked' = [asked EXCEPT ![j] = @ + 1] /\ UNCHANGED edited
  ELSE edited' = edited \cup {j} /\ UNCHANGED asked

Create(j) ==
  /\ row[j] = "new"
  /\ \E s \in Status : Chosen(j, s) /\ row' = [row EXCEPT ![j] = s]
  /\ UNCHANGED <<crawled, poll, locked, updates, faults, crashes>>

\* The entity of the request replaces the row, whatever is in it or is being
\* done with the job; one that equals the committed row writes nothing.  (A PUT
\* on a job that is gone creates another one.)
Update(j) ==
  /\ row[j] \in Status
  /\ updates < MaxUpdates /\ updates' = updates + 1
  /\ \E s \in Status :
       /\ Chosen(j, s)
       /\ \/ row[j] = s /\ UNCHANGED <<row, put>>
          \/ j \in flushed /\ put' = [put EXCEPT ![j] = s] /\ UNCHANGED row
          \/ j \notin flushed /\ row' = [row EXCEPT ![j] = s] /\ UNCHANGED put
  /\ UNCHANGED <<crawled, poll, waiting, faults, crashes>>

Delete(j) ==
  /\ row[j] \in Status /\ j \notin waiting
  /\ IF j \in flushed
     THEN waiting' = waiting \cup {j} /\ UNCHANGED <<row, crawled>>
     ELSE /\ row' = [row EXCEPT ![j] = "gone"]
          /\ crawled' = [crawled EXCEPT ![j] = 0]
          /\ UNCHANGED waiting
  /\ UNCHANGED <<poll, put, history, faults, crashes>>

\* A mutant that saves "Running" outside the transaction.
MutantCrash ==
  /\ crashes < MaxCrashes /\ crashes' = crashes + 1
  /\ row' = [j \in Job |-> IF at[j] = "crawl" /\ row[j] = "Pending" THEN "Running" ELSE row[j]]
  /\ EndPoll
  /\ UNCHANGED <<crawled, faults>>
Crash ==
  /\ crashes < MaxCrashes /\ crashes' = crashes + 1
  /\ EndPoll
  /\ UNCHANGED <<row, crawled, faults>>

Execute(j) == Begin(j) \/ CrawlFails(j) \/ Flush(j) \/ FlushFails(j) \/ Analyse(j)

Next ==
  \/ Poll \/ Commit \/ Rollback \/ Crash
  \/ \E j \in Job : Execute(j) \/ Create(j) \/ Update(j) \/ Delete(j)

Spec == Init /\ [][Next]_vars

\* The scheduler calls processJobs again and again, and the thread goes on: it
\* is assumed that the source and the ML services answer or refuse, since
\* neither the crawl nor the RestTemplate of the stages has a timeout.
FairSpec ==
  Spec /\ WF_vars(Poll \/ Commit \/ Rollback \/ \E j \in Job : Execute(j))
-----------------------------------------------------------------------------
(* Properties. *)

(***************************************************************************)
(* The committed status of a job tells which rows of it exist, through     *)
(* rollbacks, kills, and deletions and PUTs that race with the poll: never *)
(* more crawls than clients asked for, one of them still to come while the *)
(* job is pending, none of a job that is gone.  And as long as no client   *)
(* wrote another status itself, a job that is done has been crawled, and   *)
(* none is ever seen running.                                              *)
(***************************************************************************)
StatusTellsRows ==
  \A j \in Job :
    /\ crawled[j] + (IF row[j] = "Pending" THEN 1 ELSE 0) <= asked[j]
    /\ row[j] = "gone" => crawled[j] = 0
    /\ j \notin edited => row[j] # "Running" /\ (row[j] = "Done" => crawled[j] > 0)

(***************************************************************************)
(* Every job is executed in the end, as long as the database refuses no    *)
(* job for ever: a poll that was rolled back or killed leaves its jobs     *)
(* pending, and the next one takes them again.  Only a client can write a  *)
(* status nobody takes up.                                                 *)
(***************************************************************************)
EveryJobSettles ==
  \A j \in Job :
    row[j] = "Pending" ~>
      row[j] \in {"Done", "Failed", "gone"} \/ (row[j] = "Running" /\ j \in edited)
=============================================================================
