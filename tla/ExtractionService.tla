-------------------------- MODULE ExtractionService --------------------------
(***************************************************************************)
(* The Java extraction service from the inside: ExtractionService, the map *)
(* of connection pools with its scheduled sweep (ConnectionPoolManager),   *)
(* the global bulkhead (SourceThrottle) and the audit trail (AuditLogger). *)
(* Extraction models the same service as its client sees it; that two      *)
(* requests may name one path is its subject, here each has its own file.  *)
(*                                                                         *)
(* A request ends in several steps: the file is closed, extract returns,   *)
(* the audit event is written, the response leaves.  The JVM can end       *)
(* between any two of them.                                                *)
(*                                                                         *)
(* Request threads, the sweep and the clock interleave between any two     *)
(* accesses to the map, which are atomic each: compute locks the key, but  *)
(* the sweep tests, closes and removes an entry in three steps without     *)
(* that lock.  Time is the age of a pool since it was last handed out.     *)
(* External: HikariCP (closing a pool aborts its connections), PostgreSQL. *)
(***************************************************************************)
EXTENDS Integers, FiniteSets, Sequences

CONSTANTS
  Request,
  Source,          \* ConnectionConfig.hash(): one pool each
  Malformed,       \* those whose host or database build() refuses
  MaxConcurrent,   \* source-throttle.max-concurrent
  Window,          \* pool-defaults.idle-eviction-minutes, in ticks
  MaxPools,        \* bound: pools built per source
  MaxCrashes       \* bound: restarts of the service

ASSUME ServiceAssumption ==
  /\ Source # {} /\ Malformed \subseteq Source
  /\ MaxConcurrent \in Nat \ {0} /\ Window \in Nat
  /\ MaxPools \in Nat \ {0} /\ MaxCrashes \in Nat

Event == {"accepted", "rejected", "completed", "failed"}
Answer == {"none", "ok", "BAD_REQUEST", "QUERY_NOT_ALLOWED", "UNSUPPORTED_SOURCE",
           "SOURCE_THROTTLED", "INTERNAL_ERROR", "lost"}

VARIABLES
  at,       \* where extractSync stands with each request
  verdict,  \* the answer it has come to, before it is audited and sent
  source,   \* the source it names
  held,     \* the pool it was handed: its number, 0 for none
  answer,   \* what its client got
  trail,    \* its audit events
  output,   \* its file; whole once the last row and the footer are written
  entry,    \* pools: the number of the pool in the map, 0 for no entry
  open,     \* the numbers of the pools not closed
  age,      \* ticks since the entry was handed out, Window + 1 at most
  built,    \* pools built so far
  sweep,    \* the entry evictIdlePools is at: source, number, step
  crashes

requests == <<at, verdict, source, held, answer, trail, output>>
pools == <<entry, open, age, built>>
vars == <<requests, pools, sweep, crashes>>

Place == {"new", "accepted", "waiting", "running", "audit", "reply", "done"}

\* Between two entries, or between runs.
Resting == [step |-> "idle", source |-> CHOOSE s \in Source : TRUE, pool |-> 0]

TypeOK ==
  /\ at \in [Request -> Place]
  /\ verdict \in [Request -> Answer]
  /\ source \in [Request -> Source]
  /\ held \in [Request -> 0 .. MaxPools]
  /\ answer \in [Request -> Answer]
  /\ trail \in [Request -> Seq(Event)]
  /\ output \in [Request -> {"untouched", "partial", "whole"}]
  /\ entry \in [Source -> 0 .. MaxPools]
  /\ open \in [Source -> SUBSET (1 .. MaxPools)]
  /\ age \in [Source -> 0 .. Window + 1]
  /\ built \in [Source -> 0 .. MaxPools]
  /\ sweep \in [step : {"idle", "close", "remove"}, source : Source, pool : 0 .. MaxPools]
  /\ crashes \in 0 .. MaxCrashes

Init ==
  /\ at = [r \in Request |-> "new"]
  /\ verdict = [r \in Request |-> "none"]
  /\ source \in [Request -> Source]
  /\ held = [r \in Request |-> 0]
  /\ answer = [r \in Request |-> "none"]
  /\ trail = [r \in Request |-> <<>>]
  /\ output = [r \in Request |-> "untouched"]
  /\ entry = [s \in Source |-> 0] /\ open = [s \in Source |-> {}]
  /\ age = [s \in Source |-> 0] /\ built = [s \in Source |-> 0]
  /\ sweep = Resting /\ crashes = 0
-----------------------------------------------------------------------------
(* A request. *)

\* An exception or the result of extract: the request will be answered a.
Decide(r, a) ==
  /\ at' = [at EXCEPT ![r] = "audit"]
  /\ verdict' = [verdict EXCEPT ![r] = a]
  /\ UNCHANGED <<source, answer, trail>>

\* Something required is missing or blank.
Incomplete(r) ==
  /\ at[r] = "new"
  /\ Decide(r, "BAD_REQUEST")
  /\ UNCHANGED <<held, output, pools, sweep, crashes>>

Refuse(r) ==
  /\ at[r] = "new"
  /\ Decide(r, "QUERY_NOT_ALLOWED")
  /\ UNCHANGED <<held, output, pools, sweep, crashes>>

Accept(r) ==
  /\ at[r] = "new"
  /\ at' = [at EXCEPT ![r] = "accepted"]
  /\ trail' = [trail EXCEPT ![r] = Append(@, "accepted")]
  /\ UNCHANGED <<verdict, source, held, answer, output, pools, sweep, crashes>>

Unsupported(r) ==
  /\ at[r] = "accepted"
  /\ Decide(r, "UNSUPPORTED_SOURCE")
  /\ UNCHANGED <<held, output, pools, sweep, crashes>>

\* pools.compute: the entry is touched, or a new pool built.
Hand(s) ==
  /\ s \notin Malformed
  /\ \/ /\ entry[s] # 0
        /\ UNCHANGED <<entry, open, built>>
     \/ /\ entry[s] = 0 /\ built[s] < MaxPools
        /\ entry' = [entry EXCEPT ![s] = built[s] + 1]
        /\ open' = [open EXCEPT ![s] = @ \cup {built[s] + 1}]
        /\ built' = [built EXCEPT ![s] = @ + 1]
  /\ age' = [age EXCEPT ![s] = 0]

GetPool(r) ==
  /\ at[r] = "accepted"
  /\ Hand(source[r])
  /\ at' = [at EXCEPT ![r] = "waiting"]
  /\ held' = [held EXCEPT ![r] = entry'[source[r]]]
  /\ UNCHANGED <<verdict, source, answer, trail, output, sweep, crashes>>

\* build() raises: it refuses the address, or it cannot connect.
PoolFails(r) ==
  /\ at[r] = "accepted" /\ entry[source[r]] = 0
  /\ Decide(r, IF source[r] \in Malformed THEN "BAD_REQUEST" ELSE "INTERNAL_ERROR")
  /\ UNCHANGED <<held, output, pools, sweep, crashes>>

Running == {r \in Request : at[r] = "running"}
Full == Cardinality(Running) >= MaxConcurrent

\* A permit of the bulkhead.
Start(r) ==
  /\ at[r] = "waiting" /\ ~Full
  /\ at' = [at EXCEPT ![r] = "running"]
  /\ UNCHANGED <<verdict, source, held, answer, trail, output, pools, sweep, crashes>>

\* No permit for max-wait-minutes.
Throttle(r) ==
  /\ at[r] = "waiting" /\ Full
  /\ Decide(r, "SOURCE_THROTTLED")
  /\ UNCHANGED <<held, output, pools, sweep, crashes>>

\* The writer opens the file once a connection of the pool answered.
Write(r) ==
  /\ at[r] = "running" /\ output[r] = "untouched" /\ held[r] \in open[source[r]]
  /\ output' = [output EXCEPT ![r] = "partial"]
  /\ UNCHANGED <<at, verdict, source, held, answer, trail, pools, sweep, crashes>>

\* The last row, and writer.close in the finally.
CloseFile(r) ==
  /\ at[r] = "running" /\ output[r] = "partial" /\ held[r] \in open[source[r]]
  /\ output' = [output EXCEPT ![r] = "whole"]
  /\ UNCHANGED <<at, verdict, source, held, answer, trail, pools, sweep, crashes>>

\* extract returns and the permit is given back.  Nothing it does after
\* writer.close needs the pool: a commit that fails is logged.
Return(r) ==
  /\ at[r] = "running" /\ output[r] = "whole"
  /\ Decide(r, "ok")
  /\ UNCHANGED <<held, output, pools, sweep, crashes>>

\* A failure of the source or the disk, storage.upload or the manifest of a
\* file already closed among them, or the pool was closed meanwhile.
MutantBreak(r) ==
  /\ at[r] = "running" /\ held[r] \in open[source[r]]
  /\ Decide(r, "INTERNAL_ERROR")
  /\ UNCHANGED <<held, output, pools, sweep, crashes>>
Break(r) ==
  /\ at[r] = "running"
  /\ Decide(r, "INTERNAL_ERROR")
  /\ UNCHANGED <<held, output, pools, sweep, crashes>>

\* recordRejected, recordCompleted, recordFailed; a BAD_REQUEST is not audited.
MutantAudited(a) ==
  CASE a = "BAD_REQUEST" -> <<>>
    [] a = "ok" -> <<"completed">>
    [] a = "QUERY_NOT_ALLOWED" -> <<"rejected">>
    [] OTHER -> <<"failed">>
Audited(a) ==
  CASE a = "BAD_REQUEST" -> <<>>
    [] a = "ok" -> <<"completed">>
    [] a \in {"QUERY_NOT_ALLOWED", "SOURCE_THROTTLED"} -> <<"rejected">>
    [] OTHER -> <<"failed">>

Record(r) ==
  /\ at[r] = "audit"
  /\ at' = [at EXCEPT ![r] = "reply"]
  /\ trail' = [trail EXCEPT ![r] = @ \o Audited(verdict[r])]
  /\ UNCHANGED <<verdict, source, held, answer, output, pools, sweep, crashes>>

\* The response leaves; the client may be gone.
Reply(r) ==
  /\ at[r] = "reply"
  /\ at' = [at EXCEPT ![r] = "done"]
  /\ \E a \in {verdict[r], "lost"} : answer' = [answer EXCEPT ![r] = a]
  /\ UNCHANGED <<verdict, source, held, trail, output, pools, sweep, crashes>>
-----------------------------------------------------------------------------
(* The pools. *)

\* POST /test-connection and the cardinality probe take a pool as well,
\* without permit or audit event.
Probe(s) == Hand(s) /\ UNCHANGED <<requests, sweep, crashes>>

Tick ==
  /\ age' = [s \in Source |-> IF entry[s] # 0 /\ age[s] <= Window THEN age[s] + 1 ELSE age[s]]
  /\ age' # age
  /\ UNCHANGED <<requests, entry, open, built, sweep, crashes>>

\* lastTouched.isBefore(cutoff)
Inspect(s) ==
  /\ sweep.step = "idle" /\ entry[s] # 0 /\ age[s] > Window
  /\ sweep' = [step |-> "close", source |-> s, pool |-> entry[s]]
  /\ UNCHANGED <<requests, pools, crashes>>

Close ==
  /\ sweep.step = "close"
  /\ open' = [open EXCEPT ![sweep.source] = @ \ {sweep.pool}]
  /\ sweep' = [sweep EXCEPT !.step = "remove"]
  /\ UNCHANGED <<requests, entry, age, built, crashes>>

\* removeIf removes the entry it tested, if it is still there.
MutantRemove ==
  /\ sweep.step = "remove"
  /\ entry' = [entry EXCEPT ![sweep.source] = IF age[sweep.source] > Window THEN 0 ELSE @]
  /\ sweep' = Resting
  /\ UNCHANGED <<requests, open, age, built, crashes>>
Remove ==
  /\ sweep.step = "remove"
  /\ entry' = [entry EXCEPT ![sweep.source] = IF @ = sweep.pool THEN 0 ELSE @]
  /\ sweep' = Resting
  /\ UNCHANGED <<requests, open, age, built, crashes>>

\* The process ends and another takes its place: requests get no answer,
\* files and trails are left as they are.
Crash ==
  /\ crashes < MaxCrashes /\ crashes' = crashes + 1
  /\ at' = [r \in Request |-> IF at[r] = "new" THEN "new" ELSE "done"]
  /\ answer' = [r \in Request |->
       IF at[r] \in {"new", "done"} THEN answer[r] ELSE "lost"]
  /\ entry' = [s \in Source |-> 0] /\ open' = [s \in Source |-> {}]
  /\ age' = [s \in Source |-> 0]
  /\ sweep' = Resting
  /\ UNCHANGED <<verdict, source, held, trail, output, built>>

Serve(r) ==
  \/ Accept(r) \/ GetPool(r) \/ PoolFails(r) \/ Start(r) \/ Throttle(r)
  \/ Write(r) \/ CloseFile(r) \/ Return(r) \/ Break(r)
  \/ Record(r) \/ Reply(r)

Next ==
  \/ \E r \in Request : Serve(r) \/ Incomplete(r) \/ Refuse(r) \/ Unsupported(r)
  \/ \E s \in Source : Probe(s) \/ Inspect(s)
  \/ Tick \/ Close \/ Remove \/ Crash

Spec == Init /\ [][Next]_vars

\* A thread that has begun a request goes on; the sweep ends its run.  No
\* client has to send a request, nor the clock to advance.
FairSpec ==
  /\ Spec
  /\ \A r \in Request : WF_vars(at[r] # "new" /\ Serve(r))
  /\ WF_vars(Close \/ Remove)
-----------------------------------------------------------------------------
(* Properties. *)

(***************************************************************************)
(* The trail can be believed, also when the service ends between the file, *)
(* the event and the answer: no client was told what the trail does not    *)
(* say or contradicts, what it calls completed is whole, what it calls     *)
(* rejected was never written, and nothing is written before the request   *)
(* was accepted.  A whole file that the trail leaves at accepted belongs   *)
(* to a request that has no answer.                                        *)
(***************************************************************************)
TrailIsTrue ==
  \A r \in Request :
    LET says(e) == \E i \in DOMAIN trail[r] : trail[r][i] = e
        unanswered == answer[r] \in {"none", "lost"}
    IN
    /\ says("completed") => output[r] = "whole"
    /\ says("rejected") => output[r] = "untouched"
    /\ output[r] # "untouched" => trail[r][1] = "accepted"
    /\ ~unanswered =>
         /\ says("completed") <=> answer[r] = "ok"
         /\ says("rejected") <=> answer[r] \in {"QUERY_NOT_ALLOWED", "SOURCE_THROTTLED"}
         /\ says("failed") <=> answer[r] \in {"UNSUPPORTED_SOURCE", "INTERNAL_ERROR"}
         /\ output[r] = "whole" => says("completed") \/ says("failed")

(***************************************************************************)
(* A closed pool stays in the map only while the sweep is at its entry: a  *)
(* request that fails because its pool was closed gets an open one when it *)
(* is sent again.                                                          *)
(***************************************************************************)
NoDeadPool ==
  \A s \in Source :
    entry[s] # 0 /\ entry[s] \notin open[s] =>
      sweep = [step |-> "remove", source |-> s, pool |-> entry[s]]

(***************************************************************************)
(* Every request a thread took up is answered, whatever the sweep closed   *)
(* under it and however many wait for a permit.                            *)
(***************************************************************************)
EveryAnswered == \A r \in Request : at[r] = "accepted" ~> at[r] = "done"
=============================================================================
