---------------------------- MODULE AnalysisJobs ----------------------------
(***************************************************************************)
(* The analysis jobs of the metadata engine (metadata_engine_be):          *)
(* AnalysisService with the thread of each job, SseBroadcasterService with *)
(* the history and the one registered stream of each job, and the page     *)
(* that follows a stream and closes the job when it read the last event    *)
(* (job-analysis.component.ts).                                            *)
(*                                                                         *)
(* Nothing is locked: the maps of the broadcaster are atomic per access,   *)
(* and sendEvent, subscribe and clearHistory are sequences of accesses.    *)
(* executeJobRealtime is called inside its own class, so it runs without a *)
(* transaction: every save commits at once.                                *)
(* External: Spring's SseEmitter and its callbacks, JPA, the Python node.  *)
(* Left out: the POST endpoints for tables, relationships, domains and     *)
(* sensitive columns, which nothing in the repository calls.               *)
(***************************************************************************)
EXTENDS Naturals, Sequences

CONSTANTS
  JobId,
  Stages,       \* the calls of executeJobRealtime, in their order
  MaxStreams,   \* bound: streams opened over all jobs
  MaxFailures,  \* bound: accesses to its own database that fail
  MaxRestarts   \* bound: restarts of the back end

ASSUME AnalysisAssumption ==
  /\ Stages \in Seq(STRING) /\ Len(Stages) > 0
  /\ MaxStreams \in Nat /\ MaxFailures \in Nat /\ MaxRestarts \in Nat

\* Stages whose answer is stored; stages that report a failed call of the
\* Python node as an [ERROR] event.
Saving == {"crawl", "card", "pii", "clust", "class"}
Alarming == {"card", "pii", "clust", "graph", "class"}

Kind == {"note", "DONE", "ERROR"}
Stream == 1 .. MaxStreams

VARIABLES
  status,    \* status of the job; "new" before, "gone" after it
  linked,    \* a connection profile has its schema
  thread,    \* where its thread stands
  stored,    \* stages whose answer is stored
  owed,      \* stages that answered
  said,      \* the events of the job, in order
  cleared,   \* how many of them the history no longer has
  emitter,   \* the stream registered for the job, 0 for none
  stream,    \* each stream: job, state at the server, events its page holds
  page,      \* the page at its other end
  closed,    \* jobs a page has completed
  abandoned, \* jobs whose thread was killed or could not set the status
  failures, restarts

work == <<status, linked, thread, stored, owed>>
sse == <<said, cleared, emitter, stream>>
limits == <<failures, restarts>>
engineVars == <<work, sse, page, closed, abandoned, limits>>

\* A thread: the stage, the step in it, the event to send and its target.
Asleep == [at |-> 0, step |-> "sleep", kind |-> "note", to |-> 0]
Ended == [at |-> 0, step |-> "none", kind |-> "note", to |-> 0]
Last == Len(Stages) + 1
Failing == Last + 1
Unopened == [job |-> CHOOSE j \in JobId : TRUE, state |-> "unopened", seen |-> {}]

EngineTypeOK ==
  /\ status \in [JobId -> {"new", "RUNNING", "COMPLETED", "FAILED", "gone"}]
  /\ linked \in [JobId -> BOOLEAN]
  /\ thread \in [JobId -> [at : 0 .. Failing, kind : Kind, to : 0 .. MaxStreams,
                         step : {"none", "sleep", "call", "add", "get", "send", "save"}]]
  /\ \A j \in JobId : stored[j] \subseteq owed[j] /\ said[j] \in Seq(Kind)
  /\ \A j \in JobId : cleared[j] \in 0 .. Len(said[j]) /\ emitter[j] \in 0 .. MaxStreams
  /\ \A e \in Stream :
       /\ stream[e].state \in {"unopened", "put", "open", "closing", "over"}
       /\ stream[e].seen \subseteq 1 .. Len(said[stream[e].job])
  /\ page \in [Stream -> {"away", "reading", "ending"}]
  /\ closed \subseteq JobId /\ abandoned \subseteq JobId
  /\ failures \in 0 .. MaxFailures /\ restarts \in 0 .. MaxRestarts

EngineInit ==
  /\ status = [j \in JobId |-> "new"] /\ linked \in [JobId -> BOOLEAN]
  /\ thread = [j \in JobId |-> Ended]
  /\ stored = [j \in JobId |-> {}] /\ owed = [j \in JobId |-> {}]
  /\ said = [j \in JobId |-> <<>>] /\ cleared = [j \in JobId |-> 0]
  /\ emitter = [j \in JobId |-> 0]
  /\ stream = [e \in Stream |-> Unopened] /\ page = [e \in Stream |-> "away"]
  /\ closed = {} /\ abandoned = {} /\ failures = 0 /\ restarts = 0

History(j) == (cleared[j] + 1) .. Len(said[j])
-----------------------------------------------------------------------------
(* The thread of a job. *)

Go(j, at, step) == thread' = [thread EXCEPT ![j].at = at, ![j].step = step]
Say(j, at, kind) == thread' = [thread EXCEPT ![j].at = at, ![j].step = "add", ![j].kind = kind]
Is(j, step) == thread[j].step = step
Stage(j) == Stages[thread[j].at]
quiet == <<linked, sse, page, closed, restarts>>

\* After five seconds: the first event, or the end if there is no profile.
Wake(j) ==
  /\ Is(j, "sleep")
  /\ Say(j, 0, "note")
  /\ UNCHANGED <<status, stored, owed, quiet, abandoned, failures>>

\* Scores are asked for candidates only, cardinalities for scores only.
Workable(j) ==
  /\ Stage(j) = "score" => "match" \in owed[j]
  /\ Stage(j) = "card" => "score" \in owed[j]

\* The call of a stage answers, or yields nothing: it failed, or there was
\* nothing to ask.  Only the crawl, the first, raises.
Call(j) ==
  /\ Is(j, "call") /\ thread[j].at < Last
  /\ \/ /\ Workable(j)
        /\ owed' = [owed EXCEPT ![j] = @ \cup {Stage(j)}]
        /\ Say(j, thread[j].at, "note")
     \/ /\ owed' = owed
        /\ IF thread[j].at = 1 THEN Say(j, Failing, "ERROR")
           ELSE \/ Say(j, thread[j].at, "note")
                \/ /\ Stage(j) \in Alarming /\ Workable(j)
                   /\ Say(j, thread[j].at, "ERROR")
  /\ UNCHANGED <<status, stored, quiet, abandoned, failures>>

Announce(j) ==
  /\ Is(j, "call") /\ thread[j].at = Last
  /\ Say(j, Last, "DONE")
  /\ UNCHANGED <<status, stored, owed, quiet, abandoned, failures>>

\* sendEvent: into the history, then to the registered stream.
Add(j) ==
  /\ Is(j, "add")
  /\ said' = [said EXCEPT ![j] = Append(@, thread[j].kind)]
  /\ Go(j, thread[j].at, "get")
  /\ UNCHANGED <<status, linked, stored, owed, cleared, emitter, stream, page, closed, abandoned,
                 limits>>

Get(j) ==
  /\ Is(j, "get")
  /\ thread' = [thread EXCEPT ![j].step = "send", ![j].to = emitter[j]]
  /\ UNCHANGED <<status, stored, owed, quiet, abandoned, failures>>

\* A send fails when the stream is closing, or its page left: the stream
\* registered by now is removed, whichever it is.
Send(j) ==
  LET e == thread[j].to IN
  /\ Is(j, "send")
  /\ thread' = [thread EXCEPT ![j].step = "save", ![j].to = 0]
  /\ \/ e = 0 /\ UNCHANGED <<emitter, stream>>
     \/ /\ e # 0 /\ stream[e].state \in {"put", "open"}
        /\ stream' = [stream EXCEPT ![e].seen =
                        IF page[e] = "reading" THEN @ \cup {Len(said[j])} ELSE @]
        /\ UNCHANGED emitter
     \/ /\ e # 0 /\ (page[e] = "away" \/ stream[e].state \in {"closing", "over"})
        /\ emitter' = [emitter EXCEPT ![j] = 0]
        /\ stream' = [stream EXCEPT ![e].state = IF @ = "over" THEN @ ELSE "closing"]
  /\ UNCHANGED <<status, linked, stored, owed, said, cleared, page, closed, abandoned, limits>>

\* What follows an event: the answer is stored, then the next call.
MutantStore(j) ==
  /\ Is(j, "save") /\ thread[j].at < Last
  /\ IF thread[j].at = 0
     THEN /\ IF linked[j] THEN Go(j, 1, "call") ELSE Go(j, 0, "none")
          /\ UNCHANGED stored
     ELSE /\ Go(j, thread[j].at + 1, "call")
          /\ stored' = [stored EXCEPT ![j] = @ \cup {Stage(j)}]
  /\ UNCHANGED <<status, owed, quiet, abandoned, failures>>
MutantSave(j) ==
  /\ Is(j, "save") /\ thread[j].at < Last
  /\ IF thread[j].at = 0
     THEN /\ IF linked[j] THEN Go(j, 1, "call") ELSE Go(j, 0, "none")
          /\ UNCHANGED stored
     ELSE /\ Go(j, thread[j].at + 1, "call")
          /\ stored' = IF Stage(j) \in owed[j] \cap Saving /\ thread[j].at < Len(Stages)
                       THEN [stored EXCEPT ![j] = @ \cup {Stage(j)}] ELSE stored
  /\ UNCHANGED <<status, owed, quiet, abandoned, failures>>
Save(j) ==
  /\ Is(j, "save") /\ thread[j].at < Last
  /\ IF thread[j].at = 0
     THEN /\ IF linked[j] THEN Go(j, 1, "call") ELSE Go(j, 0, "none")
          /\ UNCHANGED stored
     ELSE /\ Go(j, thread[j].at + 1, "call")
          /\ stored' = IF Stage(j) \in owed[j] \cap Saving
                       THEN [stored EXCEPT ![j] = @ \cup {Stage(j)}] ELSE stored
  /\ UNCHANGED <<status, owed, quiet, abandoned, failures>>

MutantSaveFails(j) ==
  /\ Is(j, "save") /\ thread[j].at \in 1 .. Last
  /\ failures < MaxFailures /\ failures' = failures + 1
  /\ Go(j, 0, "none")
  /\ UNCHANGED <<status, stored, owed, quiet, abandoned>>
SaveFails(j) ==
  /\ Is(j, "save") /\ thread[j].at \in 1 .. Last
  /\ failures < MaxFailures /\ failures' = failures + 1
  /\ Say(j, Failing, "ERROR")
  /\ UNCHANGED <<status, stored, owed, quiet, abandoned>>

\* completeJob raises when the job is gone.
Complete(j) ==
  /\ Is(j, "save") /\ thread[j].at = Last
  /\ IF status[j] = "gone"
     THEN Say(j, Failing, "ERROR") /\ UNCHANGED status
     ELSE Go(j, 0, "none") /\ status' = [status EXCEPT ![j] = "COMPLETED"]
  /\ UNCHANGED <<stored, owed, quiet, abandoned, failures>>

\* The handler of executeJobRealtime; when it fails as well, the status stays.
Fail(j) ==
  /\ Is(j, "save") /\ thread[j].at = Failing
  /\ Go(j, 0, "none")
  /\ \/ /\ status' = [status EXCEPT ![j] = IF @ = "gone" THEN "gone" ELSE "FAILED"]
        /\ UNCHANGED <<failures, abandoned>>
     \/ /\ failures < MaxFailures /\ failures' = failures + 1
        /\ abandoned' = abandoned \cup {j}
        /\ status' = status
  /\ UNCHANGED <<stored, owed, quiet>>
-----------------------------------------------------------------------------
(* The streams. *)

\* subscribe, first half: a new emitter takes the place of the old one.
Subscribe(e, j) ==
  /\ stream[e].state = "unopened" /\ status[j] # "new"
  /\ \A d \in 1 .. e - 1 : stream[d].state # "unopened"
  /\ stream' = [stream EXCEPT ![e] = [job |-> j, state |-> "put", seen |-> {}]]
  /\ emitter' = [emitter EXCEPT ![j] = e]
  /\ page' = [page EXCEPT ![e] = "reading"]
  /\ UNCHANGED <<work, said, cleared, closed, abandoned, limits>>

\* Second half: the history as it is when the loop begins.  An event that was
\* added since the first half may be sent twice.
MutantReplay(e) ==
  LET j == stream[e].job IN
  /\ stream[e].state = "put"
  /\ stream' = [stream EXCEPT ![e].state = "open",
       ![e].seen = IF page[e] = "reading" THEN @ \cup (History(j) \ {Len(said[j])}) ELSE @]
  /\ UNCHANGED <<work, said, cleared, emitter, page, closed, abandoned, limits>>
Replay(e) ==
  LET j == stream[e].job IN
  /\ stream[e].state = "put"
  /\ \/ /\ stream' = [stream EXCEPT ![e].state = "open", ![e].seen =
                        IF page[e] = "reading" THEN @ \cup History(j) ELSE @]
        /\ UNCHANGED emitter
     \/ /\ page[e] = "away" /\ History(j) # {}
        /\ stream' = [stream EXCEPT ![e].state = "closing"]
        /\ emitter' = [emitter EXCEPT ![j] = 0]
  /\ UNCHANGED <<work, said, cleared, page, closed, abandoned, limits>>

\* onCompletion of a stream removes whatever stream is registered by now.
Completion(e) ==
  /\ stream[e].state = "closing" \/ (stream[e].state = "open" /\ page[e] = "away")
  /\ stream' = [stream EXCEPT ![e].state = "over"]
  /\ emitter' = [emitter EXCEPT ![stream[e].job] = 0]
  /\ UNCHANGED <<work, said, cleared, page, closed, abandoned, limits>>

\* The page has read a last event: it closes, and will report completion.
Kinds(e) == {said[stream[e].job][n] : n \in stream[e].seen}
ReadLast(e) ==
  /\ page[e] = "reading" /\ stream[e].state # "unopened"
  /\ Kinds(e) \cap {"DONE", "ERROR"} # {}
  /\ page' = [page EXCEPT ![e] = "ending"]
  /\ stream' = [stream EXCEPT ![e].seen = {}]
  /\ UNCHANGED <<work, said, cleared, emitter, closed, abandoned, limits>>

\* PUT /job/{id}/complete, with the logs of the page.
Finish(e) ==
  LET j == stream[e].job IN
  /\ page[e] = "ending"
  /\ page' = [page EXCEPT ![e] = "away"]
  /\ IF status[j] = "gone" THEN UNCHANGED <<status, closed>>
     ELSE status' = [status EXCEPT ![j] = "COMPLETED"] /\ closed' = closed \cup {j}
  /\ UNCHANGED <<linked, thread, stored, owed, sse, abandoned, limits>>

\* The user leaves, or the connection breaks.
Leave(e) ==
  /\ page[e] = "reading"
  /\ page' = [page EXCEPT ![e] = "away"]
  /\ stream' = [stream EXCEPT ![e].seen = {}]
  /\ UNCHANGED <<work, said, cleared, emitter, closed, abandoned, limits>>
-----------------------------------------------------------------------------
(* Jobs come and go; the back end restarts. *)

\* The thread starts before initiateJob has committed.
Initiate(j) ==
  /\ status[j] = "new"
  /\ \/ status' = [status EXCEPT ![j] = "RUNNING"] /\ failures' = failures
     \/ /\ failures < MaxFailures /\ failures' = failures + 1
        /\ status' = [status EXCEPT ![j] = "gone"]
  /\ thread' = [thread EXCEPT ![j] = Asleep]
  /\ UNCHANGED <<stored, owed, quiet, abandoned>>

\* clearHistory comes before the commit, which can fail.
DeleteJob(j) ==
  /\ status[j] \notin {"new", "gone"}
  /\ cleared' = [cleared EXCEPT ![j] = Len(said[j])]
  /\ emitter' = [emitter EXCEPT ![j] = 0]
  /\ stream' = IF emitter[j] = 0 THEN stream
               ELSE [stream EXCEPT ![emitter[j]].state = IF @ = "over" THEN @ ELSE "closing"]
  /\ \/ /\ status' = [status EXCEPT ![j] = "gone"]
        /\ stored' = [stored EXCEPT ![j] = {}]
        /\ failures' = failures
     \/ /\ failures < MaxFailures /\ failures' = failures + 1
        /\ UNCHANGED <<status, stored>>
  /\ UNCHANGED <<linked, thread, owed, said, page, closed, abandoned, restarts>>

Restart ==
  /\ restarts < MaxRestarts /\ restarts' = restarts + 1
  /\ abandoned' = abandoned \cup {j \in JobId : ~Is(j, "none")}
  /\ thread' = [j \in JobId |-> Ended]
  /\ cleared' = [j \in JobId |-> Len(said[j])]
  /\ emitter' = [j \in JobId |-> 0]
  /\ stream' = [e \in Stream |-> IF stream[e].state = "unopened" THEN stream[e]
                                 ELSE [stream[e] EXCEPT !.state = "over"]]
  /\ UNCHANGED <<status, linked, stored, owed, said, page, closed, failures>>

Run(j) ==
  \/ Wake(j) \/ Call(j) \/ Announce(j) \/ Add(j) \/ Get(j) \/ Send(j)
  \/ Save(j) \/ SaveFails(j) \/ Complete(j) \/ Fail(j)

EngineNext ==
  \/ \E j \in JobId : Run(j) \/ Initiate(j) \/ DeleteJob(j)
  \/ \E e \in Stream : Replay(e) \/ Completion(e) \/ ReadLast(e) \/ Finish(e) \/ Leave(e)
  \/ \E e \in Stream, j \in JobId : Subscribe(e, j)
  \/ Restart

EngineSpec == EngineInit /\ [][EngineNext]_engineVars

\* A thread that was started goes on: it is assumed that the crawl and the
\* learning service answer or refuse, since the RestTemplate of the calls has no
\* timeout.  No page has to stay or to come.
EngineFairSpec == EngineSpec /\ \A j \in JobId : WF_engineVars(Run(j))
-----------------------------------------------------------------------------
(* Properties. *)

(***************************************************************************)
(* The page of the stream registered for a job holds every event of the    *)
(* history, but for the one the thread is sending: between the event put   *)
(* into the history and the stream taken from the map, and the stream put  *)
(* into the map and the history replayed, none falls through.              *)
(***************************************************************************)
NothingMissed ==
  \A j \in JobId :
    LET e == emitter[j] IN
    (e # 0 /\ stream[e].state = "open" /\ page[e] = "reading" /\ ~Is(j, "get") /\ ~Is(j, "send"))
      => History(j) \subseteq stream[e].seen

(***************************************************************************)
(* A job is shown as completed only when its thread came to its end with   *)
(* every answer stored; the one exception is a job of which a page read an *)
(* [ERROR] event, because the page then completes it as well.              *)
(***************************************************************************)
Heard(j, kind) == \E n \in DOMAIN said[j] : said[j][n] = kind
CompletedIsWhole ==
  \A j \in JobId :
    status[j] = "COMPLETED" =>
      \/ Heard(j, "DONE") /\ owed[j] \cap Saving \subseteq stored[j]
      \/ Heard(j, "ERROR") /\ j \in closed

(***************************************************************************)
(* A job with a connection does not stay RUNNING, whatever stage failed or *)
(* page came and went, unless the back end was stopped under it or could   *)
(* not write the failure down.                                             *)
(***************************************************************************)
EventuallySettled ==
  \A j \in JobId :
    status[j] = "RUNNING" /\ linked[j] ~> status[j] # "RUNNING" \/ j \in abandoned
=============================================================================
