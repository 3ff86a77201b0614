-------------------------- MODULE BackEnds_proofs --------------------------
(***************************************************************************)
(* Theorems about the two Java back ends, PortalJobs.tla and               *)
(* AnalysisJobs.tla, for any set of jobs, list of stages, number of        *)
(* streams, faults and restarts.  The two share no variable.               *)
(*                                                                         *)
(* PortalJobs: the status of a job tells its rows (StatusTellsRows)        *)
(* because a client's wish to have a job crawled pays for one crawl: it is *)
(* held by the pending row, by the poll that took the job up, or by a PUT  *)
(* that waits for the poll, and spent when a crawl is committed (Known).   *)
(*                                                                         *)
(* AnalysisJobs: EngineInv says that where a thread stands tells what it   *)
(* has said (Told), that it owes the answer of the stage in hand at most   *)
(* (Whole), and that the page of the registered stream lacks at most the   *)
(* event the thread is about to send to that very stream (Fed).            *)
(***************************************************************************)
EXTENDS PortalJobs, AnalysisJobs, TLAPS
-----------------------------------------------------------------------------
(* PortalJobs. *)

One(yes) == IF yes THEN 1 ELSE 0

\* A job, its rows, what the poll holds of it and what waits for the poll.
Known(j) ==
  /\ crawled[j] + One(row[j] = "Pending" \/ at[j] # "out") + One(put[j] = "Pending") <= asked[j]
  /\ row[j] \in {"new", "gone"} => crawled[j] = 0
  /\ j \notin edited => /\ row[j] # "Running" /\ put[j] \in {"none", "Pending"}
                        /\ row[j] = "Done" => crawled[j] > 0
  /\ at[j] \in {"out", "queued", "crawl"} => ~wrote[j]
  /\ at[j] = "analyse" => wrote[j]
  /\ at[j] = "settled" => mine[j] = "Failed" \/ (mine[j] = "Done" /\ wrote[j])
  /\ j \in flushed => at[j] \in {"crawl", "analyse", "settled"}
  /\ put[j] # "none" => j \in flushed

IInv ==
  /\ TypeOK
  /\ ~busy => \A j \in Job : at[j] = "out"
  /\ \A j \in Job : Known(j)

LEMMA InitInv == Init => IInv
<1> SUFFICES ASSUME Init PROVE IInv
  OBVIOUS
<1>1. 0 \in 0 .. MaxFaults /\ 0 \in 0 .. MaxCrashes /\ 0 \in 0 .. MaxUpdates
  BY PortalAssumption
<1>2. /\ row \in [Job -> Status \cup {"new", "gone"}]
      /\ crawled \in [Job -> Nat] /\ asked \in [Job -> Nat]
      /\ at \in [Job -> {"out", "queued", "crawl", "analyse", "settled"}]
      /\ mine \in [Job -> Status] /\ wrote \in [Job -> BOOLEAN]
      /\ put \in [Job -> Status \cup {"none"}]
  BY DEF Init, NoPoll, Status
<1>3. TypeOK
  BY <1>1, <1>2 DEF Init, TypeOK, NoPoll
<1>4. QED
  BY <1>3 DEF Init, IInv, Known, NoPoll, One

LEMMA PollInv == IInv /\ Poll => IInv'
<1> SUFFICES ASSUME IInv, Poll PROVE IInv'
  OBVIOUS
<1>1. TypeOK'
  BY DEF IInv, TypeOK, Poll, locked, history
<1>2. ASSUME NEW j \in Job PROVE Known(j)'
  <2>1. Known(j) /\ at[j] = "out"
    BY <1>2 DEF IInv, Poll
  <2>2. at'[j] = IF row[j] = "Pending" THEN "queued" ELSE "out"
    BY <1>2 DEF Poll
  <2>3. QED
    BY <2>1, <2>2 DEF Known, Poll, locked, history, One
<1>3. QED
  BY <1>1, <1>2 DEF IInv, Poll

(* What executePipeline does to one job leaves the others as they are.       *)
LEMMA ExecuteInv ==
  ASSUME IInv, NEW j \in Job, Execute(j)
  PROVE  IInv'
<1>1. /\ busy' = busy /\ row' = row /\ crawled' = crawled /\ crashes' = crashes
      /\ UNCHANGED <<waiting, put, asked, edited, updates>>
      /\ \A k \in Job \ {j} : at'[k] = at[k] /\ mine'[k] = mine[k] /\ wrote'[k] = wrote[k]
      /\ at[j] \in {"queued", "crawl", "analyse"}
  BY DEF Execute, Begin, CrawlFails, Flush, FlushFails, Analyse, Settle, IInv, TypeOK,
         locked, history
<1>2. busy
  BY <1>1 DEF IInv
<1>3. flushed \subseteq Touched /\ (flushed' = flushed \/ flushed' = Touched)
  <2>1. flushed \subseteq Touched
    BY DEF IInv, TypeOK, Known, Touched
  <2>2. QED
    BY <2>1 DEF Execute, Begin, CrawlFails, Flush, FlushFails, Analyse
<1>4. TypeOK'
  <2>1. /\ at' \in [Job -> {"out", "queued", "crawl", "analyse", "settled"}]
        /\ mine' \in [Job -> Status] /\ wrote' \in [Job -> BOOLEAN] /\ doomed' \in BOOLEAN
    BY DEF Execute, Begin, CrawlFails, Flush, FlushFails, Analyse, Settle, IInv, TypeOK, Status
  <2>2. faults' \in 0 .. MaxFaults
    BY PortalAssumption
       DEF Execute, Begin, CrawlFails, Flush, FlushFails, Analyse, IInv, TypeOK
  <2>3. flushed' \subseteq Job /\ waiting' \subseteq flushed'
    BY <1>1, <1>3 DEF IInv, TypeOK, Touched
  <2>4. QED
    BY <1>1, <2>1, <2>2, <2>3 DEF IInv, TypeOK
<1>5. ASSUME NEW k \in Job PROVE Known(k)'
  <2>1. Known(k)
    BY <1>5 DEF IInv
  <2>2. CASE k # j
    <3>1. at'[k] = at[k] /\ mine'[k] = mine[k] /\ wrote'[k] = wrote[k]
      BY <1>1, <1>5, <2>2
    <3>2. (k \in flushed => k \in flushed') /\ (k \in flushed' => k \in Touched)
      BY <1>3
    <3>3. QED
      BY <1>1, <2>1, <3>1, <3>2 DEF Known, Touched
  <2>3. CASE k = j
    <3>1. CASE Begin(j)
      BY <1>1, <2>1, <2>3, <3>1 DEF Begin, Known, One, IInv, TypeOK
    <3>2. CASE CrawlFails(j)
      BY <1>1, <2>1, <2>3, <3>2 DEF CrawlFails, Settle, Known, One, IInv, TypeOK
    <3>3. CASE Flush(j)
      BY <1>1, <2>1, <2>3, <1>3, <3>3 DEF Flush, Known, One, IInv, TypeOK, Touched
    <3>4. CASE FlushFails(j)
      BY <1>1, <2>1, <2>3, <3>4 DEF FlushFails, Settle, Known, One, IInv, TypeOK
    <3>5. CASE Analyse(j)
      BY <1>1, <2>1, <2>3, <3>5 DEF Analyse, Settle, Known, One, IInv, TypeOK
    <3>6. QED
      BY <3>1, <3>2, <3>3, <3>4, <3>5 DEF Execute
  <2>4. QED
    BY <2>2, <2>3
<1>6. QED
  BY <1>1, <1>2, <1>4, <1>5 DEF IInv

(* What the poll leaves of a job, before the deletions and PUTs that waited. *)
Left(j, rows, crawls) ==
  /\ crawls[j] + One(rows[j] = "Pending") + One(put[j] = "Pending") <= asked[j]
  /\ rows[j] \in {"new", "gone"} => crawls[j] = 0
  /\ j \notin edited => rows[j] # "Running" /\ (rows[j] = "Done" => crawls[j] > 0)

LEMMA EndInv ==
  ASSUME IInv, EndPoll,
         NEW rows \in [Job -> Status \cup {"new", "gone"}],
         NEW crawls \in [Job -> Nat], Released(rows, crawls),
         \A j \in Job : Left(j, rows, crawls),
         faults' \in 0 .. MaxFaults, crashes' \in 0 .. MaxCrashes
  PROVE  IInv'
<1>1. TypeOK'
  BY DEF EndPoll, Released, IInv, TypeOK, Status, history
<1>2. \A j \in Job : /\ at'[j] = "out" /\ ~wrote'[j] /\ j \notin flushed'
                     /\ put'[j] = "none" /\ asked'[j] = asked[j]
  BY DEF EndPoll, history
<1>3. ASSUME NEW j \in Job PROVE Known(j)'
  <2>1. /\ Left(j, rows, crawls) /\ asked[j] \in Nat /\ crawls[j] \in Nat
        /\ put[j] \in Status \cup {"none"}
        /\ j \notin edited => put[j] \in {"none", "Pending"}
    BY <1>3 DEF IInv, TypeOK, Known
  <2>2. \/ row'[j] = "gone" /\ crawled'[j] = 0
        \/ crawled'[j] = crawls[j] /\ row'[j] = IF put[j] # "none" THEN put[j] ELSE rows[j]
    BY <1>3 DEF Released
  <2>3. edited' = edited
    BY DEF EndPoll, history
  <2>4. QED
    BY <1>2, <1>3, <2>1, <2>2, <2>3 DEF Known, Left, One, Status
<1>4. QED
  BY <1>1, <1>2, <1>3 DEF IInv, EndPoll

LEMMA CommitInv == IInv /\ Commit => IInv'
<1> SUFFICES ASSUME IInv, Commit PROVE IInv'
  OBVIOUS
<1> DEFINE rows == [j \in Job |-> IF j \in Touched THEN mine[j] ELSE row[j]]
           crawls == [j \in Job |-> crawled[j] + (IF wrote[j] THEN 1 ELSE 0)]
<1>1. EndPoll /\ Released(rows, crawls) /\ UNCHANGED <<faults, crashes>>
  BY DEF Commit
<1>2. ASSUME NEW j \in Job
      PROVE  /\ rows[j] \in Status \cup {"new", "gone"} /\ crawls[j] \in Nat
             /\ Left(j, rows, crawls)
  <2>1. /\ Known(j) /\ row[j] \in Status \cup {"new", "gone"} /\ mine[j] \in Status
        /\ crawled[j] \in Nat /\ asked[j] \in Nat /\ wrote[j] \in BOOLEAN
    BY <1>2 DEF IInv, TypeOK
  <2>2. crawls[j] = crawled[j] + One(wrote[j])
    BY <1>2 DEF One
  <2>3. CASE j \in Touched
    <3>1. at[j] = "settled" /\ row[j] # "gone"
      BY <1>2, <2>3 DEF Commit, LoopEnded, Flushable, Touched
    <3>2. rows[j] = mine[j] /\ mine[j] \in {"Failed", "Done"} /\ (mine[j] = "Done" => wrote[j])
      BY <1>2, <2>1, <2>3, <3>1 DEF Known
    <3>3. QED
      BY <2>1, <2>2, <3>1, <3>2 DEF Left, Known, One, Status
  <2>4. CASE j \notin Touched
    <3>1. at[j] = "out"
      BY <1>2, <2>4 DEF Commit, LoopEnded, Touched
    <3>2. crawls[j] = crawled[j] /\ rows[j] = row[j]
      BY <1>2, <2>1, <2>2, <2>4, <3>1 DEF Known, One
    <3>3. QED
      BY <2>1, <3>1, <3>2 DEF Left, Known, One
  <2>5. QED
    BY <2>3, <2>4
<1>3. rows \in [Job -> Status \cup {"new", "gone"}] /\ crawls \in [Job -> Nat]
  BY <1>2
<1>4. faults' \in 0 .. MaxFaults /\ crashes' \in 0 .. MaxCrashes
  BY <1>1 DEF IInv, TypeOK
<1> HIDE DEF rows, crawls
<1>5. QED
  BY <1>1, <1>2, <1>3, <1>4, EndInv

LEMMA RollbackInv == IInv /\ (Rollback \/ Crash) => IInv'
<1> SUFFICES ASSUME IInv, Rollback \/ Crash PROVE IInv'
  OBVIOUS
<1>1. \A j \in Job : Known(j) /\ crawled[j] \in Nat /\ asked[j] \in Nat
  BY DEF IInv, TypeOK
<1>2. EndPoll /\ faults' \in 0 .. MaxFaults /\ crashes' \in 0 .. MaxCrashes
  BY PortalAssumption DEF Rollback, Crash, IInv, TypeOK
<1>3. CASE Rollback
  <2>1. ASSUME NEW j \in Job PROVE Left(j, row, crawled)
    BY <1>1, <2>1 DEF Left, Known, One
  <2>2. /\ row \in [Job -> Status \cup {"new", "gone"}] /\ crawled \in [Job -> Nat]
        /\ Released(row, crawled)
    BY <1>3 DEF Rollback, IInv, TypeOK
  <2>3. QED
    BY <1>2, <2>1, <2>2, EndInv
<1>4. CASE Crash
  <2>1. TypeOK'
    BY <1>2, <1>4 DEF Crash, EndPoll, IInv, TypeOK, Status, history
  <2>2. ASSUME NEW j \in Job PROVE Known(j)'
    BY <1>1, <1>4, <2>2 DEF Crash, EndPoll, Known, One, history
  <2>3. QED
    BY <2>1, <2>2, <1>4 DEF Crash, EndPoll, IInv
<1>5. QED
  BY <1>3, <1>4

(* A client who writes a status leaves a job of which Known holds.           *)
LEMMA UserInv ==
  ASSUME IInv, NEW j \in Job, Create(j) \/ Update(j) \/ Delete(j)
  PROVE  IInv'
<1>1. /\ Known(j) /\ row[j] \in Status \cup {"new", "gone"} /\ crawled[j] \in Nat
      /\ asked[j] \in Nat /\ put[j] \in Status \cup {"none"}
  BY DEF IInv, TypeOK
<1>2. UNCHANGED <<busy, at, mine, wrote, flushed, doomed, faults, crashes>>
  BY DEF Create, Update, Delete, poll
<1>3. CASE Create(j) \/ Update(j)
  <2>1. PICK s \in Status :
          /\ Chosen(j, s)
          /\ \/ row' = row /\ put' = put /\ s = row[j]
             \/ row' = [row EXCEPT ![j] = s] /\ put' = put
             \/ put' = [put EXCEPT ![j] = s] /\ row' = row /\ j \in flushed
    BY <1>3 DEF Create, Update, locked
  <2>2. crawled' = crawled /\ waiting' = waiting /\ updates' \in 0 .. MaxUpdates
    BY <1>3, PortalAssumption DEF Create, Update, locked, IInv, TypeOK
  <2>3. /\ asked' = IF s = "Pending" THEN [asked EXCEPT ![j] = @ + 1] ELSE asked
        /\ edited' = IF s = "Pending" THEN edited ELSE edited \cup {j}
    BY <2>1 DEF Chosen
  <2>4. TypeOK'
    BY <1>2, <2>1, <2>2, <2>3 DEF IInv, TypeOK
  <2>5. ASSUME NEW k \in Job PROVE Known(k)'
    <3>1. CASE k # j
      BY <1>2, <2>1, <2>2, <2>3, <2>5, <3>1 DEF Known, IInv, TypeOK
    <3>2. CASE k = j
      <4>1. /\ asked'[j] = asked[j] + One(s = "Pending")
            /\ j \notin edited' => j \notin edited /\ s = "Pending"
        BY <2>3 DEF IInv, TypeOK, One
      <4>2. CASE row' = row /\ put' = put
        BY <1>1, <1>2, <2>2, <3>2, <4>1, <4>2 DEF Known, One
      <4>3. CASE row'[j] = s /\ put' = put
        BY <1>1, <1>2, <2>2, <3>2, <4>1, <4>3 DEF Known, One, Status
      <4>4. CASE put'[j] = s /\ row' = row /\ j \in flushed
        BY <1>1, <1>2, <2>2, <3>2, <4>1, <4>4 DEF Known, One, Status
      <4>5. QED
        BY <2>1, <3>2, <4>2, <4>3, <4>4 DEF IInv, TypeOK
    <3>3. QED
      BY <3>1, <3>2
  <2>6. QED
    BY <1>2, <2>4, <2>5 DEF IInv
<1>4. CASE Delete(j)
  <2>1. UNCHANGED <<put, asked, edited, updates>>
    BY <1>4 DEF Delete, history
  <2>2. TypeOK'
    BY <1>2, <1>4, <2>1 DEF Delete, IInv, TypeOK
  <2>3. ASSUME NEW k \in Job PROVE Known(k)'
    <3>1. Known(k) /\ crawled[k] \in Nat /\ asked[k] \in Nat
      BY <2>3 DEF IInv, TypeOK
    <3>2. CASE row'[k] = row[k] /\ crawled'[k] = crawled[k]
      BY <1>2, <2>1, <3>1, <3>2 DEF Known
    <3>3. CASE k = j /\ row'[j] = "gone" /\ crawled'[j] = 0 /\ j \notin flushed
      BY <1>2, <2>1, <3>1, <3>3 DEF Known, One
    <3>4. QED
      BY <1>4, <2>3, <3>2, <3>3 DEF Delete, IInv, TypeOK
  <2>4. QED
    BY <1>2, <2>2, <2>3 DEF IInv
<1>5. QED
  BY <1>3, <1>4

LEMMA NextInv == IInv /\ [Next]_vars => IInv'
<1>1. IInv /\ UNCHANGED vars => IInv'
  BY DEF IInv, TypeOK, Known, vars, poll, locked, history
<1>2. QED
  BY <1>1, PollInv, ExecuteInv, CommitInv, RollbackInv, UserInv DEF Next

THEOREM Invariance == Spec => []IInv
BY InitInv, NextInv, PTL DEF Spec

(***************************************************************************)
(* Types of the portal's jobs; in particular deletions only wait for jobs  *)
(* the poll in hand has written (deleteById, processJobs).                 *)
(***************************************************************************)
THEOREM TypeCorrect == Spec => []TypeOK
<1>1. IInv => TypeOK
  BY DEF IInv
<1>2. QED
  BY <1>1, Invariance, PTL

(***************************************************************************)
(* The committed status tells the rows, through rollbacks, restarts, and   *)
(* deletions and PUTs that race with the poll (processJobs, deleteById,    *)
(* JobController.update): as many crawls at most as clients asked for.     *)
(***************************************************************************)
THEOREM StatusTellsRowsHolds == Spec => []StatusTellsRows
<1>1. IInv => StatusTellsRows
  <2> SUFFICES ASSUME IInv, NEW j \in Job
               PROVE  /\ crawled[j] + One(row[j] = "Pending") <= asked[j]
                      /\ row[j] = "gone" => crawled[j] = 0
                      /\ j \notin edited => /\ row[j] # "Running"
                                            /\ row[j] = "Done" => crawled[j] > 0
    BY DEF StatusTellsRows, One
  <2> QED
    BY DEF IInv, TypeOK, Known, One
<1>2. QED
  BY <1>1, Invariance, PTL
-----------------------------------------------------------------------------
(* AnalysisJobs: the invariant. *)

Record == [at : 0 .. Failing, kind : Kind, to : 0 .. MaxStreams,
           step : {"none", "sleep", "call", "add", "get", "send", "save"}]

\* Types, the domains included.
EngineShape ==
  /\ status \in [JobId -> {"new", "RUNNING", "COMPLETED", "FAILED", "gone"}]
  /\ linked \in [JobId -> BOOLEAN]
  /\ thread \in [JobId -> Record]
  /\ stored \in [JobId -> SUBSET STRING] /\ owed \in [JobId -> SUBSET STRING]
  /\ said \in [JobId -> Seq(Kind)] /\ cleared \in [JobId -> Nat]
  /\ emitter \in [JobId -> 0 .. MaxStreams]
  /\ stream \in [Stream -> [job : JobId \cup {Unopened.job}, seen : SUBSET Nat,
                            state : {"unopened", "put", "open", "closing", "over"}]]
  /\ page \in [Stream -> {"away", "reading", "ending"}]
  /\ closed \subseteq JobId /\ abandoned \subseteq JobId
  /\ failures \in 0 .. MaxFailures /\ restarts \in 0 .. MaxRestarts

\* Where the thread stands tells what it has said.
Told(j) ==
  LET t == thread[j] IN
  /\ status[j] = "new" => t.step = "none" /\ said[j] = <<>> /\ owed[j] = {}
  /\ t.step = "sleep" => t.at = 0
  /\ t.step = "call" => t.at \in 1 .. Last
  /\ t.step = "add" => (t.at = Last <=> t.kind = "DONE")
  /\ t.step \in {"get", "send", "save"} => said[j] # <<>>
  /\ t.step \in {"get", "send", "save"} /\ t.at = Last => Heard(j, "DONE")
  /\ t.step # "none" /\ t.at < Last => ~Heard(j, "DONE")
  /\ status[j] = "COMPLETED" => Heard(j, "DONE") \/ (Heard(j, "ERROR") /\ j \in closed)

\* Answers not stored: at most the one of the stage in hand, and none once
\* [DONE] is said.  A thread that stores one too few never comes to Last.
Owing(j) == (owed[j] \cap Saving) \ stored[j]
Whole(j) ==
  LET t == thread[j] IN
  /\ stored[j] \subseteq owed[j]
  /\ status[j] # "gone" =>
       /\ t.step \in {"sleep", "call"} \/ Heard(j, "DONE") => Owing(j) = {}
       /\ t.step # "none" /\ t.at \in {0, Last} => Owing(j) = {}
       /\ t.step # "none" /\ t.at \in 1 .. Len(Stages) => Owing(j) \subseteq {Stage(j)}

\* A stream a job refers to is one of its own.
Own(j, e) == e # 0 => stream[e].job = j /\ stream[e].state # "unopened"

\* What the page of the registered stream lacks: nothing, or the last event
\* while the thread is about to send it there.
Fed(j) ==
  LET e == emitter[j]  t == thread[j] IN
  (e # 0 /\ stream[e].state = "open" /\ page[e] = "reading") =>
    /\ History(j) \ {Len(said[j])} \subseteq stream[e].seen
    /\ t.step = "get" \/ (t.step = "send" /\ t.to = e) \/ History(j) \subseteq stream[e].seen

Streamed(j) ==
  /\ cleared[j] <= Len(said[j])
  /\ Own(j, emitter[j]) /\ Own(j, thread[j].to)
  /\ Fed(j)

Watched(e) ==
  LET j == stream[e].job IN
  /\ stream[e].state = "unopened" => page[e] = "away" /\ stream[e].seen = {}
  /\ stream[e].state # "unopened" => j \in JobId
  /\ stream[e].seen \subseteq 1 .. Len(said[j])
  /\ page[e] = "ending" => Heard(j, "DONE") \/ Heard(j, "ERROR")

EngineInv ==
  /\ EngineShape
  /\ \A j \in JobId : Told(j) /\ Whole(j) /\ Streamed(j)
  /\ \A e \in Stream : Watched(e)
-----------------------------------------------------------------------------
LEMMA EngineNumbers ==
  /\ Last \in Nat /\ Last > 1 /\ Failing = Last + 1 /\ Failing \in Nat
  /\ Len(Stages) \in Nat /\ Last = Len(Stages) + 1
  /\ \A i \in 1 .. Len(Stages) : Stages[i] \in STRING
  /\ MaxStreams \in Nat /\ MaxFailures \in Nat /\ MaxRestarts \in Nat
BY AnalysisAssumption DEF Last, Failing

LEMMA EngineInitInv == EngineInit => EngineInv
<1> SUFFICES ASSUME EngineInit PROVE EngineInv
  OBVIOUS
<1>1. EngineShape
  <2>1. Ended \in Record
    BY EngineNumbers DEF Ended, Record, Kind
  <2>2. Unopened \in [job : JobId \cup {Unopened.job}, seen : SUBSET Nat,
                      state : {"unopened", "put", "open", "closing", "over"}]
    BY DEF Unopened
  <2>3. QED
    BY <2>1, <2>2, EngineNumbers DEF EngineInit, EngineShape
<1>2. ASSUME NEW j \in JobId PROVE Told(j) /\ Whole(j) /\ Streamed(j)
  <2>1. /\ status[j] = "new" /\ thread[j] = Ended /\ said[j] = <<>> /\ owed[j] = {}
        /\ stored[j] = {} /\ cleared[j] = 0 /\ emitter[j] = 0
    BY DEF EngineInit
  <2>2. ~Heard(j, "DONE") /\ ~Heard(j, "ERROR")
    BY <2>1 DEF Heard
  <2>3. QED
    BY <2>1, <2>2 DEF Told, Whole, Streamed, Own, Fed, Owing, Ended
<1>3. ASSUME NEW e \in Stream PROVE Watched(e)
  BY <1>3 DEF EngineInit, Watched, Unopened
<1>4. QED
  BY <1>1, <1>2, <1>3 DEF EngineInv

(* A step of the thread of j, or of the request that starts it, that sends   *)
(* nothing: streams and events are as before, and so is every other job.     *)
LEMMA OneThread ==
  ASSUME EngineInv, EngineShape', UNCHANGED <<sse, page, closed>>,
         NEW j \in JobId, Told(j)', Whole(j)', Own(j, thread[j].to)', Fed(j)',
         \A k \in JobId \ {j} : /\ status'[k] = status[k] /\ thread'[k] = thread[k]
                                /\ owed'[k] = owed[k] /\ stored'[k] = stored[k]
  PROVE  EngineInv'
<1>1. ASSUME NEW k \in JobId, k # j PROVE (Told(k) /\ Whole(k) /\ Streamed(k))'
  <2>1. Told(k) /\ Whole(k) /\ Streamed(k)
    BY DEF EngineInv
  <2>2. /\ status'[k] = status[k] /\ thread'[k] = thread[k]
        /\ owed'[k] = owed[k] /\ stored'[k] = stored[k]
    BY <1>1
  <2>3. Told(k)'
    BY <2>1, <2>2 DEF Told, Heard, sse
  <2>4. Whole(k)'
    BY <2>1, <2>2 DEF Whole, Heard, Owing, Stage, sse
  <2>5. Streamed(k)'
    BY <2>1, <2>2 DEF Streamed, Own, Fed, History, sse
  <2>6. QED
    BY <2>3, <2>4, <2>5
<1>2. Streamed(j)'
  BY DEF EngineInv, Streamed, Own, sse
<1>3. \A e \in Stream : Watched(e)'
  BY DEF EngineInv, Watched, Heard, sse
<1>4. QED
  BY <1>1, <1>2, <1>3 DEF EngineInv

LEMMA GoFacts ==
  ASSUME thread \in [JobId -> Record], NEW j \in JobId, NEW pos \in 0 .. Failing,
         NEW step \in {"none", "sleep", "call", "add", "get", "send", "save"}, Go(j, pos, step)
  PROVE  /\ thread' \in [JobId -> Record]
         /\ thread'[j].at = pos /\ thread'[j].step = step
         /\ thread'[j].kind = thread[j].kind /\ thread'[j].to = thread[j].to
         /\ \A k \in JobId \ {j} : thread'[k] = thread[k]
BY DEF Go, Record

LEMMA SayFacts ==
  ASSUME thread \in [JobId -> Record], NEW j \in JobId, NEW pos \in 0 .. Failing,
         NEW kind \in Kind, Say(j, pos, kind)
  PROVE  /\ thread' \in [JobId -> Record]
         /\ thread'[j].at = pos /\ thread'[j].step = "add"
         /\ thread'[j].kind = kind /\ thread'[j].to = thread[j].to
         /\ \A k \in JobId \ {j} : thread'[k] = thread[k]
BY DEF Say, Record

LEMMA ThreadType ==
  ASSUME EngineInv, NEW j \in JobId
  PROVE  /\ thread \in [JobId -> Record]
         /\ thread[j].at \in 0 .. Failing /\ thread[j].kind \in Kind
         /\ thread[j].step \in {"none", "sleep", "call", "add", "get", "send", "save"}
BY DEF EngineInv, EngineShape, Record

LEMMA WakeInv ==
  ASSUME EngineInv, NEW j \in JobId, Wake(j)
  PROVE  EngineInv'
<1>1. /\ thread' \in [JobId -> Record]
      /\ thread'[j].at = 0 /\ thread'[j].step = "add"
      /\ thread'[j].kind = "note" /\ thread'[j].to = thread[j].to
      /\ \A k \in JobId \ {j} : thread'[k] = thread[k]
  BY ThreadType, SayFacts, EngineNumbers DEF Wake, Kind
<1>2. Told(j) /\ Whole(j) /\ Streamed(j) /\ EngineShape
  BY DEF EngineInv
<1>3. Is(j, "sleep") /\ UNCHANGED <<status, stored, owed, quiet, abandoned, failures>>
  BY DEF Wake
<1>4. EngineShape'
  BY <1>1, <1>2, <1>3 DEF EngineShape, quiet, sse
<1>5. Told(j)' /\ Whole(j)'
  BY <1>1, <1>2, <1>3, EngineNumbers DEF Told, Whole, Owing, Heard, Is, quiet, sse
<1>6. Own(j, thread[j].to)' /\ Fed(j)'
  BY <1>1, <1>2, <1>3 DEF Streamed, Own, Fed, History, Is, quiet, sse
<1>7. QED
  BY <1>1, <1>3, <1>4, <1>5, <1>6, OneThread DEF quiet

LEMMA CallInv ==
  ASSUME EngineInv, NEW j \in JobId, Call(j)
  PROVE  EngineInv'
<1>1. Told(j) /\ Whole(j) /\ Streamed(j) /\ EngineShape /\ thread[j].at \in 0 .. Failing
  BY ThreadType DEF EngineInv
<1>2. /\ Is(j, "call") /\ thread[j].at < Last
      /\ UNCHANGED <<status, stored, quiet, abandoned, failures>>
  BY DEF Call
<1>3. thread[j].at \in 1 .. Len(Stages) /\ Stage(j) \in STRING
  BY <1>1, <1>2, EngineNumbers DEF Told, Is, Stage
<1>4. PICK kind \in {"note", "ERROR"}, pos \in {thread[j].at, Failing} :
        /\ Say(j, pos, kind)
        /\ pos = Failing => owed' = owed
  <2>1. thread[j].at # Failing
    BY <1>3, EngineNumbers
  <2>2. CASE Workable(j) /\ Say(j, thread[j].at, "note")
    BY <2>1, <2>2
  <2>3. CASE owed' = owed /\ thread[j].at = 1 /\ Say(j, Failing, "ERROR")
    BY <2>3
  <2>4. CASE owed' = owed /\ Say(j, thread[j].at, "note")
    BY <2>1, <2>4
  <2>5. CASE owed' = owed /\ Say(j, thread[j].at, "ERROR")
    BY <2>1, <2>5
  <2>6. QED
    BY <2>2, <2>3, <2>4, <2>5 DEF Call
<1>5. owed' = owed \/ owed' = [owed EXCEPT ![j] = @ \cup {Stage(j)}]
  BY DEF Call
<1>6. /\ thread' \in [JobId -> Record]
      /\ thread'[j].at = pos /\ thread'[j].step = "add"
      /\ thread'[j].kind = kind /\ thread'[j].to = thread[j].to
      /\ \A k \in JobId \ {j} : thread'[k] = thread[k]
  <2>1. pos \in 0 .. Failing /\ kind \in Kind
    BY <1>3, EngineNumbers DEF Kind
  <2>2. QED
    BY <1>4, <2>1, ThreadType, SayFacts
<1>7. /\ owed' \in [JobId -> SUBSET STRING]
      /\ owed[j] \subseteq owed'[j] /\ owed'[j] \subseteq owed[j] \cup {Stage(j)}
      /\ \A k \in JobId \ {j} : owed'[k] = owed[k]
  BY <1>1, <1>3, <1>5 DEF EngineShape
<1>8. EngineShape'
  BY <1>1, <1>2, <1>6, <1>7 DEF EngineShape, quiet, sse
<1>9. ~Heard(j, "DONE") /\ Heard(j, "DONE")' = Heard(j, "DONE")
      /\ Heard(j, "ERROR")' = Heard(j, "ERROR")
  BY <1>1, <1>2, EngineNumbers DEF Told, Heard, Is, quiet, sse
<1>10. Told(j)'
  <2>1. status[j] # "new"
    BY <1>1, <1>2 DEF Told, Is
  <2>2. QED
    BY <1>1, <1>2, <1>3, <1>6, <1>9, <2>1, EngineNumbers DEF Told, Is, quiet
<1>11. Whole(j)'
  <2>1. pos = thread[j].at => Stage(j)' = Stage(j)
    BY <1>6 DEF Stage
  <2>2. status[j] # "gone" => Owing(j) = {}
    BY <1>1, <1>2 DEF Whole, Is
  <2>3. status[j] # "gone" => Owing(j)' \subseteq {Stage(j)}
    BY <1>2, <1>7, <2>2 DEF Owing
  <2>4. QED
    BY <1>1, <1>2, <1>3, <1>4, <1>6, <1>7, <1>9, <2>1, <2>3, EngineNumbers DEF Whole
<1>12. Own(j, thread[j].to)' /\ Fed(j)'
  BY <1>1, <1>2, <1>6 DEF Streamed, Own, Fed, History, Is, quiet, sse
<1>13. QED
  BY <1>2, <1>6, <1>7, <1>8, <1>10, <1>11, <1>12, OneThread DEF quiet

LEMMA AnnounceInv ==
  ASSUME EngineInv, NEW j \in JobId, Announce(j)
  PROVE  EngineInv'
<1>1. /\ thread' \in [JobId -> Record]
      /\ thread'[j].at = Last /\ thread'[j].step = "add"
      /\ thread'[j].kind = "DONE" /\ thread'[j].to = thread[j].to
      /\ \A k \in JobId \ {j} : thread'[k] = thread[k]
  BY ThreadType, SayFacts, EngineNumbers DEF Announce, Kind
<1>2. Told(j) /\ Whole(j) /\ Streamed(j) /\ EngineShape
  BY DEF EngineInv
<1>3. /\ Is(j, "call") /\ thread[j].at = Last
      /\ UNCHANGED <<status, stored, owed, quiet, abandoned, failures>>
  BY DEF Announce
<1>4. EngineShape'
  BY <1>1, <1>2, <1>3 DEF EngineShape, quiet, sse
<1>5. Told(j)' /\ Whole(j)'
  BY <1>1, <1>2, <1>3, EngineNumbers DEF Told, Whole, Owing, Heard, Is, quiet, sse
<1>6. Own(j, thread[j].to)' /\ Fed(j)'
  BY <1>1, <1>2, <1>3 DEF Streamed, Own, Fed, History, Is, quiet, sse
<1>7. QED
  BY <1>1, <1>3, <1>4, <1>5, <1>6, OneThread DEF quiet

LEMMA GetInv ==
  ASSUME EngineInv, NEW j \in JobId, Get(j)
  PROVE  EngineInv'
<1>1. Told(j) /\ Whole(j) /\ Streamed(j) /\ EngineShape
  BY DEF EngineInv
<1>2. /\ Is(j, "get") /\ UNCHANGED <<status, stored, owed, quiet, abandoned, failures>>
      /\ thread' = [thread EXCEPT ![j].step = "send", ![j].to = emitter[j]]
  BY DEF Get
<1>3. /\ thread' \in [JobId -> Record]
      /\ thread'[j].at = thread[j].at /\ thread'[j].step = "send"
      /\ thread'[j].kind = thread[j].kind /\ thread'[j].to = emitter[j]
      /\ \A k \in JobId \ {j} : thread'[k] = thread[k]
  <2>1. emitter[j] \in 0 .. MaxStreams /\ thread \in [JobId -> Record]
    BY <1>1 DEF EngineShape
  <2>2. thread' = [thread EXCEPT ![j] = [thread[j] EXCEPT !.step = "send", !.to = emitter[j]]]
    BY <1>2, <2>1
  <2>3. [thread[j] EXCEPT !.step = "send", !.to = emitter[j]] \in Record
    BY <2>1 DEF Record
  <2>4. QED
    BY <2>1, <2>2, <2>3 DEF Record
<1>4. EngineShape'
  BY <1>1, <1>2, <1>3 DEF EngineShape, quiet, sse
<1>5. Told(j)' /\ Whole(j)'
  BY <1>1, <1>2, <1>3, EngineNumbers
     DEF Told, Whole, Owing, Heard, Is, Stage, quiet, sse
<1>6. Own(j, thread[j].to)' /\ Fed(j)'
  BY <1>1, <1>2, <1>3 DEF Streamed, Own, Fed, History, Is, quiet, sse
<1>7. QED
  BY <1>2, <1>3, <1>4, <1>5, <1>6, OneThread DEF quiet

LEMMA SaveInv ==
  ASSUME EngineInv, NEW j \in JobId, Save(j)
  PROVE  EngineInv'
<1>1. Told(j) /\ Whole(j) /\ Streamed(j) /\ EngineShape /\ thread[j].at \in 0 .. Failing
  BY ThreadType DEF EngineInv
<1>2. /\ Is(j, "save") /\ thread[j].at < Last
      /\ UNCHANGED <<status, owed, quiet, abandoned, failures>>
  BY DEF Save
<1>3. Heard(j, "DONE")' = Heard(j, "DONE") /\ Heard(j, "ERROR")' = Heard(j, "ERROR")
      /\ ~Heard(j, "DONE")
  BY <1>1, <1>2 DEF Told, Heard, Is, quiet, sse
<1>4. CASE thread[j].at = 0
  <2>1. PICK pos \in {0, 1}, step \in {"none", "call"} :
          Go(j, pos, step) /\ stored' = stored /\ (step = "call" => pos = 1)
    BY <1>4 DEF Save
  <2>2. /\ thread' \in [JobId -> Record]
        /\ thread'[j].at = pos /\ thread'[j].step = step
        /\ thread'[j].kind = thread[j].kind /\ thread'[j].to = thread[j].to
        /\ \A k \in JobId \ {j} : thread'[k] = thread[k]
    BY <2>1, ThreadType, GoFacts, EngineNumbers
  <2>3. EngineShape'
    BY <1>1, <1>2, <2>1, <2>2 DEF EngineShape, quiet, sse
  <2>4. Told(j)'
    BY <1>1, <1>2, <1>3, <1>4, <2>1, <2>2, EngineNumbers DEF Told, Is, quiet, sse
  <2>5. Whole(j)'
    <3>1. status[j] # "gone" => Owing(j) = {}
      BY <1>1, <1>2, <1>4 DEF Whole, Is
    <3>2. Owing(j)' = Owing(j)
      BY <1>2, <2>1 DEF Owing
    <3>3. QED
      BY <1>1, <1>2, <2>1, <3>1, <3>2 DEF Whole
  <2>6. Own(j, thread[j].to)' /\ Fed(j)'
    BY <1>1, <1>2, <2>1, <2>2 DEF Streamed, Own, Fed, History, Is, quiet, sse
  <2>7. QED
    BY <1>2, <2>1, <2>2, <2>3, <2>4, <2>5, <2>6, OneThread DEF quiet
<1>5. CASE thread[j].at # 0
  <2>1. /\ Go(j, thread[j].at + 1, "call")
        /\ stored' = IF Stage(j) \in owed[j] \cap Saving
                     THEN [stored EXCEPT ![j] = @ \cup {Stage(j)}] ELSE stored
    BY <1>5 DEF Save
  <2>2. thread[j].at \in 1 .. Len(Stages) /\ Stage(j) \in STRING
        /\ thread[j].at + 1 \in 0 .. Failing /\ thread[j].at + 1 \in 1 .. Last
    BY <1>1, <1>2, <1>5, EngineNumbers DEF Stage
  <2>3. /\ thread' \in [JobId -> Record]
        /\ thread'[j].at = thread[j].at + 1 /\ thread'[j].step = "call"
        /\ thread'[j].kind = thread[j].kind /\ thread'[j].to = thread[j].to
        /\ \A k \in JobId \ {j} : thread'[k] = thread[k]
    BY <2>1, <2>2, ThreadType, GoFacts
  <2>4. /\ stored' \in [JobId -> SUBSET STRING]
        /\ \A k \in JobId \ {j} : stored'[k] = stored[k]
        /\ stored'[j] = stored[j] \cup ({Stage(j)} \cap owed[j] \cap Saving)
    BY <1>1, <2>1, <2>2 DEF EngineShape
  <2>5. EngineShape'
    BY <1>1, <1>2, <2>3, <2>4 DEF EngineShape, quiet, sse
  <2>6. Told(j)'
    BY <1>1, <1>2, <1>3, <2>2, <2>3, EngineNumbers DEF Told, Is, quiet, sse
  <2>7. Whole(j)'
    <3>1. status[j] # "gone" => Owing(j) \subseteq {Stage(j)}
      BY <1>1, <1>2, <2>2 DEF Whole, Is
    <3>2. status[j] # "gone" => Owing(j)' = {}
      BY <1>2, <2>4, <3>1 DEF Owing
    <3>3. stored'[j] \subseteq owed[j]
      BY <1>1, <2>4 DEF Whole
    <3>4. QED
      BY <1>2, <3>2, <3>3 DEF Whole
  <2>8. Own(j, thread[j].to)' /\ Fed(j)'
    BY <1>1, <1>2, <2>3 DEF Streamed, Own, Fed, History, Is, quiet, sse
  <2>9. QED
    BY <1>2, <2>3, <2>4, <2>5, <2>6, <2>7, <2>8, OneThread DEF quiet
<1>6. QED
  BY <1>4, <1>5

LEMMA SaveFailsInv ==
  ASSUME EngineInv, NEW j \in JobId, SaveFails(j)
  PROVE  EngineInv'
<1>1. Told(j) /\ Whole(j) /\ Streamed(j) /\ EngineShape
  BY DEF EngineInv
<1>2. /\ Is(j, "save") /\ Say(j, Failing, "ERROR")
      /\ thread[j].at \in 1 .. Last
      /\ UNCHANGED <<status, stored, owed, quiet, abandoned>>
      /\ failures < MaxFailures /\ failures' = failures + 1
  BY DEF SaveFails
<1>3. /\ thread' \in [JobId -> Record]
      /\ thread'[j].at = Failing /\ thread'[j].step = "add"
      /\ thread'[j].kind = "ERROR" /\ thread'[j].to = thread[j].to
      /\ \A k \in JobId \ {j} : thread'[k] = thread[k]
  BY <1>2, ThreadType, SayFacts, EngineNumbers DEF Kind
<1>4. EngineShape'
  <2>1. failures' \in 0 .. MaxFailures
    BY <1>1, <1>2, EngineNumbers DEF EngineShape
  <2>2. QED
    BY <1>1, <1>2, <1>3, <2>1 DEF EngineShape, quiet, sse
<1>5. Told(j)'
  BY <1>1, <1>2, <1>3, EngineNumbers DEF Told, Heard, Is, quiet, sse
<1>6. Whole(j)'
  BY <1>1, <1>2, <1>3, EngineNumbers DEF Whole, Owing, Heard, Is, quiet, sse
<1>7. Own(j, thread[j].to)' /\ Fed(j)'
  BY <1>1, <1>2, <1>3 DEF Streamed, Own, Fed, History, Is, quiet, sse
<1>8. QED
  BY <1>2, <1>3, <1>4, <1>5, <1>6, <1>7, OneThread DEF quiet

LEMMA CompleteInv ==
  ASSUME EngineInv, NEW j \in JobId, Complete(j)
  PROVE  EngineInv'
<1>1. Told(j) /\ Whole(j) /\ Streamed(j) /\ EngineShape
  BY DEF EngineInv
<1>2. /\ Is(j, "save") /\ thread[j].at = Last
      /\ UNCHANGED <<stored, owed, quiet, abandoned, failures>>
  BY DEF Complete
<1>3. Heard(j, "DONE") /\ Heard(j, "DONE")' /\ Heard(j, "ERROR")' = Heard(j, "ERROR")
  BY <1>1, <1>2 DEF Told, Heard, Is, quiet, sse
<1>4. Owing(j)' = Owing(j) /\ (status[j] # "gone" => Owing(j) = {})
  BY <1>1, <1>2, <1>3 DEF Whole, Owing
<1>5. CASE status[j] = "gone" /\ Say(j, Failing, "ERROR") /\ UNCHANGED status
  <2>1. /\ thread' \in [JobId -> Record]
        /\ thread'[j].at = Failing /\ thread'[j].step = "add"
        /\ thread'[j].kind = "ERROR" /\ thread'[j].to = thread[j].to
        /\ \A k \in JobId \ {j} : thread'[k] = thread[k]
    BY <1>5, ThreadType, SayFacts, EngineNumbers DEF Kind
  <2>2. EngineShape'
    BY <1>1, <1>2, <1>5, <2>1 DEF EngineShape, quiet, sse
  <2>3. Told(j)' /\ Whole(j)'
    BY <1>1, <1>2, <1>3, <1>5, <2>1, EngineNumbers DEF Told, Whole, Is, quiet, sse
  <2>4. Own(j, thread[j].to)' /\ Fed(j)'
    BY <1>1, <1>2, <2>1 DEF Streamed, Own, Fed, History, Is, quiet, sse
  <2>5. QED
    BY <1>2, <1>5, <2>1, <2>2, <2>3, <2>4, OneThread DEF quiet
<1>6. CASE /\ status[j] # "gone" /\ Go(j, 0, "none")
           /\ status' = [status EXCEPT ![j] = "COMPLETED"]
  <2>1. /\ thread' \in [JobId -> Record]
        /\ thread'[j].at = 0 /\ thread'[j].step = "none"
        /\ thread'[j].kind = thread[j].kind /\ thread'[j].to = thread[j].to
        /\ \A k \in JobId \ {j} : thread'[k] = thread[k]
    BY <1>6, ThreadType, GoFacts, EngineNumbers
  <2>2. status'[j] = "COMPLETED" /\ \A k \in JobId \ {j} : status'[k] = status[k]
    BY <1>1, <1>6 DEF EngineShape
  <2>3. EngineShape'
    BY <1>1, <1>2, <1>6, <2>1 DEF EngineShape, quiet, sse
  <2>4. Told(j)' /\ Whole(j)'
    BY <1>1, <1>2, <1>3, <1>4, <1>6, <2>1, <2>2, EngineNumbers DEF Told, Whole, Is, quiet, sse
  <2>5. Own(j, thread[j].to)' /\ Fed(j)'
    BY <1>1, <1>2, <2>1 DEF Streamed, Own, Fed, History, Is, quiet, sse
  <2>6. QED
    BY <1>2, <2>1, <2>2, <2>3, <2>4, <2>5, OneThread DEF quiet
<1>7. QED
  BY <1>5, <1>6 DEF Complete

LEMMA FailInv ==
  ASSUME EngineInv, NEW j \in JobId, Fail(j)
  PROVE  EngineInv'
<1>1. Told(j) /\ Whole(j) /\ Streamed(j) /\ EngineShape
  BY DEF EngineInv
<1>2. /\ Is(j, "save") /\ Go(j, 0, "none") /\ UNCHANGED <<stored, owed, quiet>>
  BY DEF Fail
<1>3. /\ failures' \in 0 .. MaxFailures /\ abandoned' \subseteq JobId
      /\ \/ status' = [status EXCEPT ![j] = IF @ = "gone" THEN "gone" ELSE "FAILED"]
         \/ status' = status
  BY <1>1, EngineNumbers DEF Fail, EngineShape
<1>4. /\ status' \in [JobId -> {"new", "RUNNING", "COMPLETED", "FAILED", "gone"}]
      /\ status'[j] \in {status[j], "FAILED"} /\ (status[j] = "gone" => status'[j] = "gone")
      /\ \A k \in JobId \ {j} : status'[k] = status[k]
  BY <1>1, <1>3 DEF EngineShape
<1>5. /\ thread' \in [JobId -> Record]
      /\ thread'[j].at = 0 /\ thread'[j].step = "none"
      /\ thread'[j].kind = thread[j].kind /\ thread'[j].to = thread[j].to
      /\ \A k \in JobId \ {j} : thread'[k] = thread[k]
  BY <1>2, ThreadType, GoFacts, EngineNumbers
<1>6. EngineShape'
  BY <1>1, <1>2, <1>3, <1>4, <1>5 DEF EngineShape, quiet, sse
<1>7. Told(j)' /\ Whole(j)'
  BY <1>1, <1>2, <1>4, <1>5, EngineNumbers DEF Told, Whole, Owing, Heard, Is, quiet, sse
<1>8. Own(j, thread[j].to)' /\ Fed(j)'
  BY <1>1, <1>2, <1>5 DEF Streamed, Own, Fed, History, Is, quiet, sse
<1>9. QED
  BY <1>2, <1>4, <1>5, <1>6, <1>7, <1>8, OneThread DEF quiet

LEMMA InitiateInv ==
  ASSUME EngineInv, NEW j \in JobId, Initiate(j)
  PROVE  EngineInv'
<1>1. Told(j) /\ Whole(j) /\ Streamed(j) /\ EngineShape
  BY DEF EngineInv
<1>2. /\ status[j] = "new" /\ thread' = [thread EXCEPT ![j] = Asleep]
      /\ UNCHANGED <<stored, owed, quiet, abandoned>>
  BY DEF Initiate
<1>3. failures' \in 0 .. MaxFailures
      /\ \E s \in {"RUNNING", "gone"} : status' = [status EXCEPT ![j] = s]
  BY <1>1, EngineNumbers DEF Initiate, EngineShape
<1>4. /\ status' \in [JobId -> {"new", "RUNNING", "COMPLETED", "FAILED", "gone"}]
      /\ status'[j] \in {"RUNNING", "gone"}
      /\ \A k \in JobId \ {j} : status'[k] = status[k]
  BY <1>1, <1>3 DEF EngineShape
<1>5. /\ thread' \in [JobId -> Record] /\ thread'[j] = Asleep
      /\ \A k \in JobId \ {j} : thread'[k] = thread[k]
  <2>1. Asleep \in Record
    BY EngineNumbers DEF Asleep, Record, Kind
  <2>2. QED
    BY <1>1, <1>2, <2>1 DEF EngineShape
<1>6. EngineShape'
  BY <1>1, <1>2, <1>3, <1>4, <1>5 DEF EngineShape, quiet, sse
<1>7. said[j] = <<>> /\ owed[j] = {} /\ stored[j] = {}
  BY <1>1, <1>2 DEF Told, Whole
<1>8. ~Heard(j, "DONE")'
  BY <1>2, <1>7 DEF Heard, quiet, sse
<1>9. Told(j)' /\ Whole(j)'
  BY <1>2, <1>4, <1>5, <1>7, <1>8, EngineNumbers DEF Told, Whole, Owing, Asleep, quiet, sse
<1>10. Own(j, thread[j].to)' /\ Fed(j)'
  BY <1>1, <1>2, <1>5, <1>7 DEF Streamed, Own, Fed, History, Told, Asleep, quiet, sse
<1>11. QED
  BY <1>2, <1>4, <1>5, <1>6, <1>9, <1>10, OneThread DEF quiet

LEMMA AppendHeard ==
  ASSUME NEW s \in Seq(Kind), NEW k \in Kind
  PROVE  /\ Append(s, k) \in Seq(Kind) /\ Len(Append(s, k)) = Len(s) + 1
         /\ Len(s) \in Nat
         /\ \A x : (\E n \in DOMAIN Append(s, k) : Append(s, k)[n] = x)
                     <=> (\E n \in DOMAIN s : s[n] = x) \/ x = k
<1> DEFINE r == Append(s, k)
<1>1. /\ r \in Seq(Kind) /\ Len(r) = Len(s) + 1 /\ Len(s) \in Nat
      /\ DOMAIN s = 1 .. Len(s) /\ DOMAIN r = 1 .. Len(r)
      /\ r[Len(s) + 1] = k /\ \A n \in 1 .. Len(s) : r[n] = s[n]
  OBVIOUS
<1> HIDE DEF r
<1>2. ASSUME NEW x, NEW n \in DOMAIN r, r[n] = x
      PROVE  (\E i \in DOMAIN s : s[i] = x) \/ x = k
  BY <1>1, <1>2
<1>3. ASSUME NEW x, NEW n \in DOMAIN s, s[n] = x
      PROVE  \E i \in DOMAIN r : r[i] = x
  BY <1>1, <1>3
<1>4. \E i \in DOMAIN r : r[i] = k
  BY <1>1
<1>5. QED
  BY <1>1, <1>2, <1>3, <1>4 DEF r

LEMMA AddInv ==
  ASSUME EngineInv, NEW j \in JobId, Add(j)
  PROVE  EngineInv'
<1>1. /\ EngineShape /\ \A k \in JobId : Told(k) /\ Whole(k) /\ Streamed(k)
      /\ \A e \in Stream : Watched(e)
  BY DEF EngineInv
<1>2. /\ Is(j, "add") /\ Go(j, thread[j].at, "get")
      /\ said' = [said EXCEPT ![j] = Append(@, thread[j].kind)]
      /\ UNCHANGED <<status, linked, stored, owed, cleared, emitter, stream, page, closed,
                     abandoned, limits>>
  BY DEF Add
<1>3. thread[j].at \in 0 .. Failing /\ thread[j].kind \in Kind /\ said[j] \in Seq(Kind)
  BY <1>1, ThreadType DEF EngineShape
<1>4. /\ thread' \in [JobId -> Record]
      /\ thread'[j].at = thread[j].at /\ thread'[j].step = "get"
      /\ thread'[j].kind = thread[j].kind /\ thread'[j].to = thread[j].to
      /\ \A k \in JobId \ {j} : thread'[k] = thread[k]
  BY <1>2, <1>3, ThreadType, GoFacts
<1>5. /\ said' \in [JobId -> Seq(Kind)] /\ Len(said[j]) \in Nat
      /\ Len(said'[j]) = Len(said[j]) + 1
      /\ \A x : Heard(j, x)' <=> Heard(j, x) \/ x = thread[j].kind
  <2>1. said'[j] = Append(said[j], thread[j].kind)
    BY <1>1, <1>2 DEF EngineShape
  <2>2. said' \in [JobId -> Seq(Kind)]
    BY <1>1, <1>2, <1>3, AppendHeard DEF EngineShape
  <2>3. ASSUME NEW x PROVE Heard(j, x)' <=> Heard(j, x) \/ x = thread[j].kind
    <3>1. (\E n \in DOMAIN said'[j] : said'[j][n] = x)
            <=> (\E n \in DOMAIN said[j] : said[j][n] = x) \/ x = thread[j].kind
      BY <1>3, <2>1, AppendHeard
    <3>2. QED
      BY <3>1 DEF Heard
  <2>4. Len(said[j]) \in Nat /\ Len(said'[j]) = Len(said[j]) + 1
    BY <1>3, <2>1, AppendHeard
  <2>5. QED
    BY <2>2, <2>3, <2>4
<1>6. \A k \in JobId \ {j} : said'[k] = said[k]
  BY <1>1, <1>2 DEF EngineShape
<1>7. EngineShape'
  BY <1>1, <1>2, <1>4, <1>5 DEF EngineShape, limits
<1>8. ASSUME NEW k \in JobId PROVE Told(k)' /\ Whole(k)' /\ Streamed(k)'
  <2>1. CASE k # j
    <3>1. Told(k) /\ Whole(k) /\ Streamed(k) /\ thread'[k] = thread[k] /\ said'[k] = said[k]
      BY <1>1, <1>4, <1>6, <2>1
    <3>2. Told(k)'
      BY <1>2, <3>1 DEF Told, Heard
    <3>3. Whole(k)'
      BY <1>2, <3>1 DEF Whole, Heard, Owing, Stage
    <3>4. Streamed(k)'
      BY <1>2, <3>1 DEF Streamed, Own, Fed, History
    <3>5. QED
      BY <3>2, <3>3, <3>4
  <2>2. CASE k = j
    <3>1. Told(j) /\ Whole(j) /\ Streamed(j)
      BY <1>1
    <3>2. Heard(j, "DONE")' <=> Heard(j, "DONE") \/ thread[j].at = Last
      BY <1>2, <1>5, <3>1 DEF Told, Is
    <3>3. Told(j)'
      <4>1. said'[j] # <<>>
        BY <1>5
      <4>2. status[j] # "new"
        BY <1>2, <3>1 DEF Told, Is
      <4>3. Heard(j, "ERROR") => Heard(j, "ERROR")'
        BY <1>5
      <4>4. QED
        BY <1>2, <1>3, <1>4, <3>1, <3>2, <4>1, <4>2, <4>3, EngineNumbers DEF Told, Is
    <3>4. Whole(j)'
      BY <1>2, <1>3, <1>4, <3>1, <3>2, EngineNumbers DEF Whole, Owing, Stage, Is
    <3>5. Streamed(j)'
      <4>1. cleared[j] \in Nat
        BY <1>1 DEF EngineShape
      <4>2. cleared'[j] <= Len(said'[j])
        BY <1>2, <1>5, <3>1, <4>1 DEF Streamed
      <4>3. (History(j) \ {Len(said[j])})' \subseteq History(j)
        BY <1>2, <1>5, <4>1 DEF History
      <4>4. Own(j, emitter[j])' /\ Own(j, thread[j].to)'
        BY <1>2, <1>4, <3>1 DEF Streamed, Own
      <4>5. Fed(j)'
        BY <1>2, <1>4, <3>1, <4>3 DEF Streamed, Fed, Is
      <4>6. QED
        BY <4>2, <4>4, <4>5 DEF Streamed
    <3>6. QED
      BY <2>2, <3>3, <3>4, <3>5
  <2>3. QED
    BY <2>1, <2>2
<1>9. ASSUME NEW e \in Stream PROVE Watched(e)'
  <2>1. Watched(e)
    BY <1>1
  <2>2. stream'[e] = stream[e] /\ page'[e] = page[e]
    BY <1>2
  <2>3. CASE stream[e].job = j
    <3>1. 1 .. Len(said[j]) \subseteq 1 .. Len(said'[j])
      BY <1>5
    <3>2. QED
      BY <1>5, <2>1, <2>2, <2>3, <3>1 DEF Watched
  <2>4. CASE stream[e].job # j /\ stream[e].job \in JobId
    BY <1>6, <2>1, <2>2, <2>4 DEF Watched, Heard
  <2>5. CASE stream[e].job \notin JobId
    BY <2>1, <2>2, <2>5 DEF Watched
  <2>6. QED
    BY <2>3, <2>4, <2>5
<1>10. QED
  BY <1>7, <1>8, <1>9 DEF EngineInv

LEMMA SendInv ==
  ASSUME EngineInv, NEW j \in JobId, Send(j)
  PROVE  EngineInv'
<1> DEFINE e == thread[j].to
<1>1. /\ EngineShape /\ \A k \in JobId : Told(k) /\ Whole(k) /\ Streamed(k)
      /\ \A d \in Stream : Watched(d)
  BY DEF EngineInv
<1>2. /\ Is(j, "send") /\ thread' = [thread EXCEPT ![j].step = "save", ![j].to = 0]
      /\ UNCHANGED <<status, linked, stored, owed, said, cleared, page, closed, abandoned, limits>>
  BY DEF Send
<1>3. /\ thread' \in [JobId -> Record]
      /\ thread'[j].at = thread[j].at /\ thread'[j].step = "save"
      /\ thread'[j].kind = thread[j].kind /\ thread'[j].to = 0
      /\ \A k \in JobId \ {j} : thread'[k] = thread[k]
  <2>1. thread \in [JobId -> Record] /\ 0 \in 0 .. MaxStreams
    BY <1>1, EngineNumbers DEF EngineShape
  <2>2. thread' = [thread EXCEPT ![j] = [thread[j] EXCEPT !.step = "save", !.to = 0]]
    BY <1>2, <2>1
  <2>3. [thread[j] EXCEPT !.step = "save", !.to = 0] \in Record
    BY <2>1 DEF Record
  <2>4. QED
    BY <2>1, <2>2, <2>3 DEF Record
<1>4. Told(j) /\ Whole(j) /\ Streamed(j)
  BY <1>1
<1>5. e # 0 => e \in Stream /\ stream[e].job = j /\ stream[e].state # "unopened"
  <2>1. e \in 0 .. MaxStreams
    BY <1>1 DEF EngineShape, Record
  <2>2. QED
    BY <1>4, <2>1, EngineNumbers DEF Streamed, Own, Stream
<1>6. ASSUME NEW k \in JobId PROVE Told(k)' /\ Whole(k)'
  <2>1. CASE k = j
    <3>1. Told(j)'
      BY <1>2, <1>3, <1>4 DEF Told, Heard, Is
    <3>2. Whole(j)'
      BY <1>2, <1>3, <1>4 DEF Whole, Owing, Heard, Stage, Is
    <3>3. QED
      BY <2>1, <3>1, <3>2
  <2>2. CASE k # j
    <3>1. thread'[k] = thread[k] /\ Told(k) /\ Whole(k)
      BY <1>1, <1>3, <2>2
    <3>2. QED
      BY <1>2, <3>1 DEF Told, Whole, Owing, Heard, Stage
  <2>3. QED
    BY <2>1, <2>2
<1>7. CASE UNCHANGED <<emitter, stream>> /\ e = 0
  <2>1. EngineShape'
    BY <1>1, <1>2, <1>3, <1>7 DEF EngineShape, limits
  <2>2. ASSUME NEW k \in JobId PROVE Streamed(k)'
    <3>1. Streamed(k)
      BY <1>1
    <3>2. CASE k = j
      BY <1>2, <1>3, <1>7, <3>1, <3>2 DEF Streamed, Own, Fed, History, Is
    <3>3. CASE k # j
      BY <1>2, <1>3, <1>7, <3>1, <3>3 DEF Streamed, Own, Fed, History
    <3>4. QED
      BY <3>2, <3>3
  <2>3. \A d \in Stream : Watched(d)'
    BY <1>1, <1>2, <1>7 DEF Watched, Heard
  <2>4. QED
    BY <1>6, <2>1, <2>2, <2>3 DEF EngineInv
<1>8. CASE /\ e # 0 /\ stream[e].state \in {"put", "open"} /\ UNCHANGED emitter
           /\ stream' = [stream EXCEPT ![e].seen =
                           IF page[e] = "reading" THEN @ \cup {Len(said[j])} ELSE @]
  <2>1. /\ e \in Stream /\ stream[e].job = j /\ Len(said[j]) \in 1 .. Len(said[j])
        /\ Len(said[j]) \in Nat
    <3>1. said[j] \in Seq(Kind) /\ said[j] # <<>>
      BY <1>1, <1>2, <1>4 DEF EngineShape, Told, Is
    <3>2. QED
      BY <1>5, <1>8, <3>1
  <2>2. /\ stream' \in [Stream -> [job : JobId \cup {Unopened.job}, seen : SUBSET Nat,
                            state : {"unopened", "put", "open", "closing", "over"}]]
        /\ \A d \in Stream : /\ stream'[d].job = stream[d].job
                             /\ stream'[d].state = stream[d].state
                             /\ stream[d].seen \subseteq stream'[d].seen
                             /\ stream'[d].seen \subseteq stream[d].seen
                                  \cup (IF d = e THEN {Len(said[j])} ELSE {})
        /\ stream[e].state # "unopened"
        /\ page[e] = "reading" => Len(said[j]) \in stream'[e].seen
    BY <1>1, <1>8, <2>1 DEF EngineShape
  <2>3. EngineShape'
    BY <1>1, <1>2, <1>3, <1>8, <2>2 DEF EngineShape, limits
  <2>4. ASSUME NEW k \in JobId PROVE Streamed(k)'
    <3>1. Streamed(k) /\ emitter[k] \in 0 .. MaxStreams /\ thread[k].to \in 0 .. MaxStreams
      BY <1>1 DEF EngineShape, Record
    <3>2. cleared'[k] <= Len(said'[k]) /\ emitter'[k] = emitter[k]
          /\ History(k)' = History(k)
      BY <1>2, <1>8, <3>1 DEF Streamed, History
    <3>3. \A d \in 0 .. MaxStreams : Own(k, d) => Own(k, d)'
      BY <2>2, EngineNumbers DEF Own, Stream
    <3>4. Own(k, emitter[k])' /\ Own(k, thread[k].to)'
      BY <1>3, <3>1, <3>2, <3>3 DEF Streamed, Own
    <3>5. Fed(k)'
      <4>1. SUFFICES ASSUME emitter[k] # 0, stream[emitter[k]].state = "open",
                            page[emitter[k]] = "reading"
                     PROVE  History(k) \subseteq stream'[emitter[k]].seen
                            \/ (k # j /\ thread[k].step = "get" /\
                                  History(k) \ {Len(said[k])} \subseteq stream'[emitter[k]].seen)
                            \/ (k # j /\ thread[k].step = "send" /\ thread[k].to = emitter[k] /\
                                  History(k) \ {Len(said[k])} \subseteq stream'[emitter[k]].seen)
        BY <1>2, <1>3, <2>2, <3>1, <3>2, EngineNumbers DEF Fed, Stream
      <4>2. stream[emitter[k]].seen \subseteq stream'[emitter[k]].seen
        BY <2>2, <3>1, <4>1, EngineNumbers DEF Stream
      <4>3. QED
        BY <1>2, <2>2, <3>1, <4>1, <4>2 DEF Streamed, Fed, Is
    <3>6. QED
      BY <3>2, <3>4, <3>5 DEF Streamed
  <2>5. ASSUME NEW d \in Stream PROVE Watched(d)'
    <3>1. Watched(d)
      BY <1>1
    <3>2. QED
      BY <1>2, <2>1, <2>2, <3>1 DEF Watched, Heard
  <2>6. QED
    BY <1>6, <2>3, <2>4, <2>5 DEF EngineInv
<1>9. CASE /\ e # 0 /\ emitter' = [emitter EXCEPT ![j] = 0]
           /\ stream' = [stream EXCEPT ![e].state = IF @ = "over" THEN @ ELSE "closing"]
  <2>1. e \in Stream /\ stream[e].job = j /\ stream[e].state # "unopened"
    BY <1>5, <1>9
  <2>2. /\ stream' \in [Stream -> [job : JobId \cup {Unopened.job}, seen : SUBSET Nat,
                            state : {"unopened", "put", "open", "closing", "over"}]]
        /\ \A d \in Stream \ {e} : stream'[d] = stream[d]
        /\ stream'[e].job = j /\ stream'[e].seen = stream[e].seen
        /\ stream'[e].state \in {"over", "closing"}
    BY <1>1, <1>9, <2>1 DEF EngineShape
  <2>3. /\ emitter' \in [JobId -> 0 .. MaxStreams] /\ emitter'[j] = 0
        /\ \A k \in JobId \ {j} : emitter'[k] = emitter[k]
    BY <1>1, <1>9, EngineNumbers DEF EngineShape
  <2>4. EngineShape'
    BY <1>1, <1>2, <1>3, <2>2, <2>3 DEF EngineShape, limits
  <2>5. ASSUME NEW k \in JobId PROVE Streamed(k)'
    <3>1. Streamed(k) /\ emitter[k] \in 0 .. MaxStreams /\ thread[k].to \in 0 .. MaxStreams
      BY <1>1 DEF EngineShape, Record
    <3>2. CASE k = j
      BY <1>2, <1>3, <2>3, <3>1, <3>2 DEF Streamed, Own, Fed
    <3>3. CASE k # j
      <4>1. emitter'[k] = emitter[k] /\ thread'[k] = thread[k]
        BY <1>3, <2>3, <3>3
      <4>2. \A d \in {emitter[k], thread[k].to} : d # 0 => d \in Stream \ {e}
        BY <2>1, <3>1, <3>3, EngineNumbers DEF Streamed, Own, Stream
      <4>3. QED
        BY <1>2, <2>2, <3>1, <4>1, <4>2 DEF Streamed, Own, Fed, History
    <3>4. QED
      BY <3>2, <3>3
  <2>6. ASSUME NEW d \in Stream PROVE Watched(d)'
    <3>1. Watched(d)
      BY <1>1
    <3>2. CASE d # e
      BY <1>2, <2>2, <3>1, <3>2 DEF Watched, Heard
    <3>3. CASE d = e
      BY <1>2, <2>1, <2>2, <3>1, <3>3 DEF Watched, Heard
    <3>4. QED
      BY <3>2, <3>3
  <2>7. QED
    BY <1>6, <2>4, <2>5, <2>6 DEF EngineInv
<1>10. QED
  BY <1>7, <1>8, <1>9 DEF Send

(* A step at the streams leaves the threads and the rows alone.              *)
LEMMA NoThread ==
  ASSUME EngineInv, UNCHANGED <<status, thread, owed, stored, said, closed>>, NEW k \in JobId
  PROVE  Told(k)' /\ Whole(k)'
<1>1. Told(k) /\ Whole(k)
  BY DEF EngineInv
<1>2. Told(k)'
  BY <1>1 DEF Told, Heard
<1>3. Whole(k)'
  BY <1>1 DEF Whole, Owing, Heard, Stage
<1>4. QED
  BY <1>2, <1>3

(* The streams of the job k other than e are as they were: so is what the    *)
(* job is to them, unless its registered stream is taken away.               *)
LEMMA OtherStreams ==
  ASSUME EngineInv, NEW e \in Stream, NEW k \in JobId, UNCHANGED <<said, thread>>,
         \A d \in Stream \ {e} : stream'[d] = stream[d] /\ page'[d] = page[d],
         stream[e].state # "unopened" =>
           stream'[e].job = stream[e].job /\ stream'[e].state # "unopened",
         emitter'[k] \in {0, emitter[k]}, emitter'[k] # e,
         cleared'[k] \in {cleared[k], Len(said[k])}
  PROVE  Streamed(k)'
<1>1. /\ Streamed(k) /\ emitter[k] \in 0 .. MaxStreams /\ thread[k].to \in 0 .. MaxStreams
      /\ cleared[k] \in Nat /\ Len(said[k]) \in Nat
  BY DEF EngineInv, EngineShape, Record
<1>2. ASSUME NEW d \in 0 .. MaxStreams, Own(k, d) PROVE Own(k, d)'
  BY <1>2, EngineNumbers DEF Own, Stream
<1>3. Own(k, thread[k].to)' /\ Own(k, emitter[k])'
  BY <1>1, <1>2, EngineNumbers DEF Streamed, Own
<1>4. cleared'[k] <= Len(said'[k])
  BY <1>1 DEF Streamed
<1>5. Fed(k)'
  <2>1. CASE emitter'[k] = 0
    BY <2>1 DEF Fed
  <2>2. CASE emitter'[k] = emitter[k] /\ emitter[k] # 0
    <3>1. emitter[k] \in Stream \ {e}
      BY <1>1, <2>2, EngineNumbers DEF Stream
    <3>2. History(k)' \subseteq History(k)
      BY <1>1 DEF Streamed, History
    <3>3. stream'[emitter[k]] = stream[emitter[k]] /\ page'[emitter[k]] = page[emitter[k]]
      BY <3>1
    <3>4. QED
      BY <1>1, <2>2, <3>2, <3>3 DEF Streamed, Fed
  <2>3. QED
    BY <2>1, <2>2
<1>6. QED
  BY <1>3, <1>4, <1>5 DEF Streamed

(* A stream ends, and its job has no registered stream any more.             *)
LEMMA StreamEnds ==
  ASSUME EngineInv, NEW e \in Stream, NEW over \in {"closing", "over"},
         stream[e].state # "unopened", stream[e].job \in JobId,
         emitter' = [emitter EXCEPT ![stream[e].job] = 0],
         stream' = [stream EXCEPT ![e].state = over],
         UNCHANGED <<work, said, cleared, page, closed, abandoned, limits>>
  PROVE  EngineInv'
<1> DEFINE j == stream[e].job
<1>1. EngineShape /\ \A d \in Stream : Watched(d)
  BY DEF EngineInv
<1>2. /\ stream' \in [Stream -> [job : JobId \cup {Unopened.job}, seen : SUBSET Nat,
                            state : {"unopened", "put", "open", "closing", "over"}]]
      /\ \A d \in Stream \ {e} : stream'[d] = stream[d]
      /\ stream'[e].job = j /\ stream'[e].seen = stream[e].seen /\ stream'[e].state = over
  BY <1>1 DEF EngineShape
<1>3. /\ emitter' \in [JobId -> 0 .. MaxStreams] /\ emitter'[j] = 0
      /\ \A k \in JobId \ {j} : emitter'[k] = emitter[k]
  BY <1>1, EngineNumbers DEF EngineShape
<1>4. EngineShape'
  BY <1>1, <1>2, <1>3 DEF EngineShape, work, limits
<1>5. \A k \in JobId : Told(k)' /\ Whole(k)'
  BY NoThread DEF work
<1>6. ASSUME NEW k \in JobId PROVE Streamed(k)'
  <2>1. emitter'[k] # e
    <3>1. Streamed(k)
      BY DEF EngineInv
    <3>2. e # 0
      BY EngineNumbers DEF Stream
    <3>3. CASE k = j
      BY <1>3, <3>2, <3>3
    <3>4. CASE k # j
      BY <1>3, <3>1, <3>2, <3>4 DEF Streamed, Own
    <3>5. QED
      BY <3>3, <3>4
  <2>2. emitter'[k] \in {0, emitter[k]}
    BY <1>3
  <2>3. QED
    BY <1>2, <2>1, <2>2, OtherStreams DEF work
<1>7. ASSUME NEW d \in Stream PROVE Watched(d)'
  <2>1. Watched(d)
    BY <1>1
  <2>2. CASE d = e
    BY <1>2, <2>1, <2>2 DEF Watched, Heard
  <2>3. CASE d # e
    BY <1>2, <2>1, <2>3 DEF Watched, Heard
  <2>4. QED
    BY <2>2, <2>3
<1>8. QED
  BY <1>4, <1>5, <1>6, <1>7 DEF EngineInv

LEMMA SubscribeInv ==
  ASSUME EngineInv, NEW e \in Stream, NEW j \in JobId, Subscribe(e, j)
  PROVE  EngineInv'
<1>1. EngineShape /\ \A d \in Stream : Watched(d)
  BY DEF EngineInv
<1>2. /\ stream[e].state = "unopened" /\ status[j] # "new"
      /\ stream' = [stream EXCEPT ![e] = [job |-> j, state |-> "put", seen |-> {}]]
      /\ emitter' = [emitter EXCEPT ![j] = e]
      /\ page' = [page EXCEPT ![e] = "reading"]
      /\ UNCHANGED <<work, said, cleared, closed, abandoned, limits>>
  BY DEF Subscribe
<1>3. /\ stream' \in [Stream -> [job : JobId \cup {Unopened.job}, seen : SUBSET Nat,
                            state : {"unopened", "put", "open", "closing", "over"}]]
      /\ stream'[e] = [job |-> j, state |-> "put", seen |-> {}]
      /\ \A d \in Stream \ {e} : stream'[d] = stream[d] /\ page'[d] = page[d]
      /\ page' \in [Stream -> {"away", "reading", "ending"}] /\ page'[e] = "reading"
  BY <1>1, <1>2 DEF EngineShape
<1>4. /\ emitter' \in [JobId -> 0 .. MaxStreams] /\ emitter'[j] = e /\ e # 0
      /\ \A k \in JobId \ {j} : emitter'[k] = emitter[k]
  BY <1>1, <1>2, EngineNumbers DEF EngineShape, Stream
<1>5. EngineShape'
  BY <1>1, <1>2, <1>3, <1>4 DEF EngineShape, work, limits
<1>6. \A k \in JobId : Told(k)' /\ Whole(k)'
  BY <1>2, NoThread DEF work
<1>7. ASSUME NEW k \in JobId PROVE Streamed(k)'
  <2>1. Streamed(k) /\ emitter[k] # e /\ thread[k].to # e
    <3>1. Streamed(k)
      BY DEF EngineInv
    <3>2. QED
      BY <1>2, <1>4, <3>1 DEF Streamed, Own
  <2>2. CASE k # j
    BY <1>2, <1>3, <1>4, <2>1, <2>2, OtherStreams DEF work
  <2>3. CASE k = j
    <3>1. Own(j, thread[j].to)'
      <4>1. thread[j].to \in 0 .. MaxStreams
        BY <1>1 DEF EngineShape, Record
      <4>2. QED
        BY <1>2, <1>3, <2>1, <2>3, <4>1, EngineNumbers DEF Streamed, Own, Stream, work
    <3>2. Own(j, emitter[j])' /\ Fed(j)'
      BY <1>3, <1>4 DEF Own, Fed
    <3>3. QED
      BY <1>2, <2>1, <2>3, <3>1, <3>2 DEF Streamed, work
  <2>4. QED
    BY <2>2, <2>3
<1>8. ASSUME NEW d \in Stream PROVE Watched(d)'
  <2>1. CASE d = e
    BY <1>3, <2>1 DEF Watched
  <2>2. CASE d # e
    BY <1>1, <1>2, <1>3, <2>2 DEF Watched, Heard
  <2>3. QED
    BY <2>1, <2>2
<1>9. QED
  BY <1>5, <1>6, <1>7, <1>8 DEF EngineInv

LEMMA ReplayInv ==
  ASSUME EngineInv, NEW e \in Stream, Replay(e)
  PROVE  EngineInv'
<1> DEFINE j == stream[e].job
<1>1. EngineShape /\ \A d \in Stream : Watched(d)
  BY DEF EngineInv
<1>2. /\ stream[e].state = "put" /\ j \in JobId
      /\ UNCHANGED <<work, said, cleared, page, closed, abandoned, limits>>
  BY <1>1 DEF Replay, Watched
<1>3. \A k \in JobId : Told(k)' /\ Whole(k)'
  BY <1>2, NoThread DEF work
<1>4. \A k \in JobId : Streamed(k)
  BY DEF EngineInv
<1>5. Len(said[j]) \in Nat /\ cleared[j] \in Nat /\ History(j) \subseteq 1 .. Len(said[j])
  BY <1>1, <1>2 DEF EngineShape, History
<1>6. CASE /\ UNCHANGED emitter
           /\ stream' = [stream EXCEPT ![e].state = "open", ![e].seen =
                           IF page[e] = "reading" THEN @ \cup History(j) ELSE @]
  <2>1. /\ stream' \in [Stream -> [job : JobId \cup {Unopened.job}, seen : SUBSET Nat,
                            state : {"unopened", "put", "open", "closing", "over"}]]
        /\ \A d \in Stream \ {e} : stream'[d] = stream[d]
        /\ stream'[e].job = j /\ stream'[e].state = "open"
        /\ stream'[e].seen \subseteq stream[e].seen \cup History(j)
        /\ page[e] = "reading" => History(j) \subseteq stream'[e].seen
    <3> DEFINE s == [stream[e] EXCEPT !.state = "open", !.seen =
                       IF page[e] = "reading" THEN @ \cup History(j) ELSE @]
    <3>1. stream' = [stream EXCEPT ![e] = s]
      BY <1>1, <1>6 DEF EngineShape
    <3>2. /\ s \in [job : JobId \cup {Unopened.job}, seen : SUBSET Nat,
                    state : {"unopened", "put", "open", "closing", "over"}]
          /\ s.job = j /\ s.state = "open" /\ s.seen \subseteq stream[e].seen \cup History(j)
          /\ page[e] = "reading" => History(j) \subseteq s.seen
      <4>1. stream[e] \in [job : JobId \cup {Unopened.job}, seen : SUBSET Nat,
                           state : {"unopened", "put", "open", "closing", "over"}]
        BY <1>1 DEF EngineShape
      <4>2. stream[e].seen \cup History(j) \in SUBSET Nat /\ stream[e].seen \in SUBSET Nat
        BY <1>5, <4>1
      <4> HIDE DEF j
      <4>3. CASE page[e] = "reading"
        BY <4>1, <4>2, <4>3 DEF j
      <4>4. CASE page[e] # "reading"
        BY <4>1, <4>2, <4>4 DEF j
      <4>5. QED
        BY <4>3, <4>4
    <3> HIDE DEF s
    <3>3. QED
      BY <1>1, <3>1, <3>2 DEF EngineShape
  <2>2. EngineShape'
    BY <1>1, <1>2, <1>6, <2>1 DEF EngineShape, work, limits
  <2>3. ASSUME NEW k \in JobId PROVE Streamed(k)'
    <3>1. CASE emitter[k] # e
      BY <1>2, <1>6, <2>1, <3>1, OtherStreams DEF work
    <3>2. CASE emitter[k] = e
      <4>1. k = j
        BY <1>4, <3>2, EngineNumbers DEF Streamed, Own, Stream
      <4>2. Own(k, emitter[k])'
        BY <1>6, <2>1, <3>2, <4>1 DEF Own
      <4>3. thread[k].to \in 0 .. MaxStreams /\ Own(k, thread[k].to)
        BY <1>1, <1>4 DEF EngineShape, Record, Streamed
      <4>4. Own(k, thread[k].to)'
        BY <1>2, <2>1, <4>1, <4>3, EngineNumbers DEF Own, Stream, work
      <4>5. Fed(k)'
        BY <1>2, <1>6, <2>1, <3>2, <4>1 DEF Fed, History, work
      <4>6. QED
        BY <1>2, <1>4, <4>2, <4>4, <4>5 DEF Streamed, work
    <3>3. QED
      BY <3>1, <3>2
  <2>4. ASSUME NEW d \in Stream PROVE Watched(d)'
    <3>1. Watched(d)
      BY <1>1
    <3>2. CASE d # e
      BY <1>2, <2>1, <3>1, <3>2 DEF Watched, Heard
    <3>3. CASE d = e
      BY <1>2, <1>5, <2>1, <3>1, <3>3 DEF Watched, Heard
    <3>4. QED
      BY <3>2, <3>3
  <2>5. QED
    BY <1>3, <2>2, <2>3, <2>4 DEF EngineInv
<1>7. CASE /\ emitter' = [emitter EXCEPT ![j] = 0]
           /\ stream' = [stream EXCEPT ![e].state = "closing"]
  BY <1>1, <1>2, <1>3, <1>7, StreamEnds DEF work
<1>8. QED
  BY <1>6, <1>7 DEF Replay

LEMMA CompletionInv ==
  ASSUME EngineInv, NEW e \in Stream, Completion(e)
  PROVE  EngineInv'
<1>1. EngineShape /\ Watched(e)
  BY DEF EngineInv
<1>2. stream[e].state # "unopened"
  BY DEF Completion
<1>3. stream[e].job \in JobId
  BY <1>1, <1>2 DEF Watched
<1>4. QED
  BY <1>2, <1>3, StreamEnds DEF Completion, work

LEMMA PageLeaves ==
  ASSUME EngineInv, NEW e \in Stream, NEW there \in {"away", "ending"},
         page[e] = "reading",
         there = "ending" => Heard(stream[e].job, "DONE") \/ Heard(stream[e].job, "ERROR"),
         page' = [page EXCEPT ![e] = there], stream' = [stream EXCEPT ![e].seen = {}],
         UNCHANGED <<work, said, cleared, emitter, closed, abandoned, limits>>
  PROVE  EngineInv'
<1>1. EngineShape /\ \A d \in Stream : Watched(d)
  BY DEF EngineInv
<1>2. /\ stream' \in [Stream -> [job : JobId \cup {Unopened.job}, seen : SUBSET Nat,
                            state : {"unopened", "put", "open", "closing", "over"}]]
      /\ \A d \in Stream \ {e} : stream'[d] = stream[d] /\ page'[d] = page[d]
      /\ stream'[e].job = stream[e].job /\ stream'[e].state = stream[e].state
      /\ stream'[e].seen = {}
      /\ page' \in [Stream -> {"away", "reading", "ending"}] /\ page'[e] = there
  BY <1>1 DEF EngineShape
<1>3. EngineShape'
  BY <1>1, <1>2 DEF EngineShape, work, limits
<1>4. \A k \in JobId : Told(k)' /\ Whole(k)'
  BY NoThread DEF work
<1>5. ASSUME NEW k \in JobId PROVE Streamed(k)'
  <2>1. Streamed(k) /\ emitter[k] \in 0 .. MaxStreams /\ thread[k].to \in 0 .. MaxStreams
    BY DEF EngineInv, EngineShape, Record
  <2>2. \A d \in 0 .. MaxStreams : Own(k, d) => Own(k, d)'
    BY <1>2, EngineNumbers DEF Own, Stream
  <2>3. Fed(k)'
    <3>1. CASE emitter[k] = e
      BY <1>2, <3>1 DEF Fed
    <3>2. CASE emitter[k] # e
      BY <1>2, <2>1, <3>2, EngineNumbers DEF Streamed, Fed, History, Stream, work
    <3>3. QED
      BY <3>1, <3>2
  <2>4. Own(k, emitter[k])' /\ Own(k, thread[k].to)'
    BY <2>1, <2>2 DEF Streamed, Own, work
  <2>5. QED
    BY <2>1, <2>3, <2>4 DEF Streamed, work
<1>6. ASSUME NEW d \in Stream PROVE Watched(d)'
  <2>1. Watched(d) /\ Watched(e)
    BY <1>1
  <2>2. CASE d = e
    BY <1>2, <2>1, <2>2 DEF Watched, Heard
  <2>3. CASE d # e
    BY <1>2, <2>1, <2>3 DEF Watched, Heard
  <2>4. QED
    BY <2>2, <2>3
<1>7. QED
  BY <1>3, <1>4, <1>5, <1>6 DEF EngineInv

LEMMA ReadLastInv ==
  ASSUME EngineInv, NEW e \in Stream, ReadLast(e)
  PROVE  EngineInv'
<1>1. Watched(e)
  BY DEF EngineInv
<1>2. stream[e].job \in JobId /\ said[stream[e].job] \in Seq(Kind)
  BY <1>1 DEF ReadLast, Watched, EngineInv, EngineShape
<1>3. PICK n \in stream[e].seen : said[stream[e].job][n] \in {"DONE", "ERROR"}
  BY DEF ReadLast, Kinds
<1>4. n \in DOMAIN said[stream[e].job]
  BY <1>1, <1>2 DEF Watched
<1>5. Heard(stream[e].job, "DONE") \/ Heard(stream[e].job, "ERROR")
  BY <1>3, <1>4 DEF Heard
<1>6. QED
  BY <1>5, PageLeaves DEF ReadLast

LEMMA LeaveInv ==
  ASSUME EngineInv, NEW e \in Stream, Leave(e)
  PROVE  EngineInv'
BY PageLeaves DEF Leave

LEMMA FinishInv ==
  ASSUME EngineInv, NEW e \in Stream, Finish(e)
  PROVE  EngineInv'
<1> DEFINE j == stream[e].job
<1>1. /\ EngineShape /\ \A d \in Stream : Watched(d)
      /\ \A k \in JobId : Told(k) /\ Whole(k) /\ Streamed(k)
  BY DEF EngineInv
<1>2. /\ page[e] = "ending" /\ page' = [page EXCEPT ![e] = "away"]
      /\ UNCHANGED <<linked, thread, stored, owed, sse, abandoned, limits>>
  BY DEF Finish, limits
<1>3. j \in JobId /\ (Heard(j, "DONE") \/ Heard(j, "ERROR"))
  BY <1>1, <1>2 DEF Watched
<1>4. /\ status' \in [JobId -> {"new", "RUNNING", "COMPLETED", "FAILED", "gone"}]
      /\ closed' \subseteq JobId /\ closed \subseteq closed'
      /\ \A k \in JobId \ {j} : status'[k] = status[k]
      /\ status[j] = "gone" => status'[j] = "gone"
      /\ status'[j] = "COMPLETED" => j \in closed' \/ status[j] = "COMPLETED"
      /\ status'[j] \in {status[j], "COMPLETED"}
  BY <1>1, <1>3 DEF Finish, EngineShape
<1>5. /\ page' \in [Stream -> {"away", "reading", "ending"}] /\ page'[e] = "away"
      /\ \A d \in Stream \ {e} : page'[d] = page[d]
  BY <1>1, <1>2 DEF EngineShape
<1>6. EngineShape'
  BY <1>1, <1>2, <1>4, <1>5 DEF EngineShape, sse, limits
<1>7. ASSUME NEW k \in JobId PROVE Told(k)' /\ Whole(k)'
  <2>1. Told(k) /\ Whole(k)
    BY <1>1
  <2>2. CASE k = j
    <3>1. Heard(k, "DONE")' = Heard(k, "DONE") /\ Heard(k, "ERROR")' = Heard(k, "ERROR")
      BY <1>2 DEF Heard, sse
    <3>2. Told(k)'
      <4>1. status'[k] = "new" => status[k] = "new"
        BY <1>4, <2>2
      <4>2. status'[k] = "COMPLETED" =>
              Heard(k, "DONE")' \/ (Heard(k, "ERROR")' /\ k \in closed')
        <5>1. CASE status[k] = "COMPLETED"
          BY <1>4, <2>1, <2>2, <3>1, <5>1 DEF Told
        <5>2. CASE status[k] # "COMPLETED"
          BY <1>3, <1>4, <2>2, <3>1, <5>2
        <5>3. QED
          BY <5>1, <5>2
      <4>3. QED
        BY <1>2, <2>1, <3>1, <4>1, <4>2 DEF Told, sse
    <3>3. Whole(k)'
      BY <1>2, <1>4, <2>1, <2>2, <3>1 DEF Whole, Owing, Stage
    <3>4. QED
      BY <3>2, <3>3
  <2>3. CASE k # j
    <3>1. status'[k] = status[k] /\ (k \in closed => k \in closed')
      BY <1>4, <2>3
    <3>2. Told(k)'
      BY <1>2, <2>1, <3>1 DEF Told, Heard, sse
    <3>3. Whole(k)'
      BY <1>2, <2>1, <3>1 DEF Whole, Owing, Heard, Stage, sse
    <3>4. QED
      BY <3>2, <3>3
  <2>4. QED
    BY <2>2, <2>3
<1>8. ASSUME NEW k \in JobId PROVE Streamed(k)'
  <2>1. Streamed(k) /\ emitter[k] \in 0 .. MaxStreams
    BY <1>1 DEF EngineShape
  <2>2. Fed(k)'
    BY <1>2, <1>5, <2>1, EngineNumbers DEF Streamed, Fed, History, Stream, sse
  <2>3. QED
    BY <1>2, <2>1, <2>2 DEF Streamed, Own, sse
<1>9. ASSUME NEW d \in Stream PROVE Watched(d)'
  <2>1. Watched(d)
    BY <1>1
  <2>2. CASE d = e
    BY <1>2, <1>5, <2>1, <2>2 DEF Watched, Heard, sse
  <2>3. CASE d # e
    BY <1>2, <1>5, <2>1, <2>3 DEF Watched, Heard, sse
  <2>4. QED
    BY <2>2, <2>3
<1>10. QED
  BY <1>6, <1>7, <1>8, <1>9 DEF EngineInv

LEMMA DeleteJobInv ==
  ASSUME EngineInv, NEW j \in JobId, DeleteJob(j)
  PROVE  EngineInv'
<1> DEFINE e == emitter[j]
<1>1. /\ EngineShape /\ \A d \in Stream : Watched(d)
      /\ \A k \in JobId : Told(k) /\ Whole(k) /\ Streamed(k)
  BY DEF EngineInv
<1>2. /\ status[j] \notin {"new", "gone"}
      /\ cleared' = [cleared EXCEPT ![j] = Len(said[j])]
      /\ emitter' = [emitter EXCEPT ![j] = 0]
      /\ stream' = IF e = 0 THEN stream
                   ELSE [stream EXCEPT ![e].state = IF @ = "over" THEN @ ELSE "closing"]
      /\ UNCHANGED <<linked, thread, owed, said, page, closed, abandoned, restarts>>
  BY DEF DeleteJob
<1>3. /\ failures' \in 0 .. MaxFailures
      /\ \/ /\ status' = [status EXCEPT ![j] = "gone"]
            /\ stored' = [stored EXCEPT ![j] = {}]
         \/ UNCHANGED <<status, stored>>
  BY <1>1, EngineNumbers DEF DeleteJob, EngineShape
<1>4. /\ status' \in [JobId -> {"new", "RUNNING", "COMPLETED", "FAILED", "gone"}]
      /\ stored' \in [JobId -> SUBSET STRING]
      /\ \A k \in JobId \ {j} : status'[k] = status[k] /\ stored'[k] = stored[k]
      /\ \/ status'[j] = "gone" /\ stored'[j] = {}
         \/ status'[j] = status[j] /\ stored'[j] = stored[j]
  BY <1>1, <1>3 DEF EngineShape
<1>5. Len(said[j]) \in Nat
  BY <1>1 DEF EngineShape
<1>6. /\ cleared' \in [JobId -> Nat] /\ cleared'[j] = Len(said[j])
      /\ emitter' \in [JobId -> 0 .. MaxStreams] /\ emitter'[j] = 0
      /\ \A k \in JobId \ {j} : cleared'[k] = cleared[k] /\ emitter'[k] = emitter[k]
  BY <1>1, <1>2, <1>5, EngineNumbers DEF EngineShape
<1>7. e # 0 => e \in Stream /\ stream[e].job = j /\ stream[e].state # "unopened"
  <2>1. e \in 0 .. MaxStreams /\ Own(j, e)
    BY <1>1 DEF EngineShape, Streamed
  <2>2. QED
    BY <2>1, EngineNumbers DEF Own, Stream
<1>8. /\ stream' \in [Stream -> [job : JobId \cup {Unopened.job}, seen : SUBSET Nat,
                          state : {"unopened", "put", "open", "closing", "over"}]]
      /\ \A d \in Stream : /\ stream'[d].job = stream[d].job
                           /\ stream'[d].seen = stream[d].seen
                           /\ stream'[d].state = "unopened" <=> stream[d].state = "unopened"
      /\ \A d \in Stream : d # e => stream'[d] = stream[d]
  <2>1. CASE e = 0
    BY <1>1, <1>2, <2>1 DEF EngineShape
  <2>2. CASE e # 0
    BY <1>1, <1>2, <1>7, <2>2 DEF EngineShape
  <2>3. QED
    BY <2>1, <2>2
<1>9. EngineShape'
  BY <1>1, <1>2, <1>3, <1>4, <1>6, <1>8 DEF EngineShape
<1>10. ASSUME NEW k \in JobId PROVE Told(k)' /\ Whole(k)'
  <2>1. Told(k) /\ Whole(k)
    BY <1>1
  <2>2. CASE status'[k] = status[k] /\ stored'[k] = stored[k]
    <3>1. Told(k)'
      BY <1>2, <2>1, <2>2 DEF Told, Heard
    <3>2. Whole(k)'
      BY <1>2, <2>1, <2>2 DEF Whole, Owing, Heard, Stage
    <3>3. QED
      BY <3>1, <3>2
  <2>3. CASE k = j /\ status'[j] = "gone" /\ stored'[j] = {}
    <3>1. Told(k)'
      BY <1>2, <2>1, <2>3 DEF Told, Heard
    <3>2. Whole(k)'
      BY <1>2, <2>1, <2>3 DEF Whole
    <3>3. QED
      BY <3>1, <3>2
  <2>4. QED
    BY <1>4, <2>2, <2>3
<1>11. ASSUME NEW k \in JobId PROVE Streamed(k)'
  <2>1. Streamed(k) /\ emitter[k] \in 0 .. MaxStreams /\ thread[k].to \in 0 .. MaxStreams
    BY <1>1 DEF EngineShape, Record
  <2>2. Own(k, thread[k].to)'
    BY <1>2, <1>8, <2>1, EngineNumbers DEF Streamed, Own, Stream
  <2>3. CASE k = j
    BY <1>2, <1>5, <1>6, <2>1, <2>2, <2>3 DEF Streamed, Own, Fed
  <2>4. CASE k # j
    <3>1. Own(k, emitter[k])'
      BY <1>6, <1>8, <2>1, <2>4, EngineNumbers DEF Streamed, Own, Stream
    <3>2. Fed(k)'
      <4>1. SUFFICES ASSUME emitter[k] # 0 PROVE Fed(k)'
        BY <1>6, <2>4 DEF Fed
      <4>2. emitter[k] # e /\ emitter[k] \in Stream
        BY <1>7, <2>1, <2>4, <4>1, EngineNumbers DEF Streamed, Own, Stream
      <4>3. stream'[emitter[k]] = stream[emitter[k]]
        BY <1>8, <4>2
      <4>4. QED
        BY <1>2, <1>6, <2>1, <2>4, <4>3 DEF Streamed, Fed, History
    <3>3. QED
      BY <1>2, <1>6, <2>1, <2>2, <2>4, <3>1, <3>2 DEF Streamed
  <2>5. QED
    BY <2>3, <2>4
<1>12. ASSUME NEW d \in Stream PROVE Watched(d)'
  BY <1>1, <1>2, <1>8 DEF Watched, Heard
<1>13. QED
  BY <1>9, <1>10, <1>11, <1>12 DEF EngineInv

LEMMA RestartInv == EngineInv /\ Restart => EngineInv'
<1> SUFFICES ASSUME EngineInv, Restart PROVE EngineInv'
  OBVIOUS
<1>1. /\ EngineShape /\ \A d \in Stream : Watched(d)
      /\ \A k \in JobId : Told(k) /\ Whole(k) /\ Streamed(k)
  BY DEF EngineInv
<1>2. /\ restarts' \in 0 .. MaxRestarts /\ abandoned' \subseteq JobId
      /\ thread' = [j \in JobId |-> Ended]
      /\ cleared' = [j \in JobId |-> Len(said[j])]
      /\ emitter' = [j \in JobId |-> 0]
      /\ stream' = [e \in Stream |-> IF stream[e].state = "unopened" THEN stream[e]
                                     ELSE [stream[e] EXCEPT !.state = "over"]]
      /\ UNCHANGED <<status, linked, stored, owed, said, page, closed, failures>>
  BY <1>1, EngineNumbers DEF Restart, EngineShape
<1>3. \A d \in Stream : /\ stream'[d] \in [job : JobId \cup {Unopened.job}, seen : SUBSET Nat,
                              state : {"unopened", "put", "open", "closing", "over"}]
                        /\ stream'[d].job = stream[d].job
                        /\ stream'[d].seen = stream[d].seen
                        /\ stream'[d].state = "unopened" <=> stream[d].state = "unopened"
  BY <1>1, <1>2 DEF EngineShape
<1>4. \A j \in JobId : Len(said[j]) \in Nat
  BY <1>1 DEF EngineShape
<1>5. EngineShape'
  <2>1. Ended \in Record
    BY EngineNumbers DEF Ended, Record, Kind
  <2>2. /\ thread' \in [JobId -> Record] /\ cleared' \in [JobId -> Nat]
        /\ emitter' \in [JobId -> 0 .. MaxStreams]
    BY <1>2, <1>4, <2>1, EngineNumbers
  <2>3. stream' \in [Stream -> [job : JobId \cup {Unopened.job}, seen : SUBSET Nat,
                          state : {"unopened", "put", "open", "closing", "over"}]]
    BY <1>2, <1>3
  <2>4. QED
    BY <1>1, <1>2, <2>2, <2>3 DEF EngineShape
<1>6. ASSUME NEW k \in JobId PROVE Told(k)' /\ Whole(k)' /\ Streamed(k)'
  <2>1. Told(k) /\ Whole(k)
    BY <1>1
  <2>2. thread'[k] = Ended /\ emitter'[k] = 0 /\ cleared'[k] = Len(said'[k])
    BY <1>2
  <2>3. Told(k)'
    BY <1>2, <2>1, <2>2 DEF Told, Heard, Ended
  <2>4. Whole(k)'
    BY <1>2, <2>1, <2>2 DEF Whole, Owing, Heard, Ended
  <2>5. Streamed(k)'
    BY <1>2, <1>4, <2>2 DEF Streamed, Own, Fed, Ended
  <2>6. QED
    BY <2>3, <2>4, <2>5
<1>7. ASSUME NEW d \in Stream PROVE Watched(d)'
  BY <1>1, <1>2, <1>3 DEF Watched, Heard
<1>8. QED
  BY <1>5, <1>6, <1>7 DEF EngineInv

LEMMA EngineStep == EngineInv /\ [EngineNext]_engineVars => EngineInv'
<1> SUFFICES ASSUME EngineInv, [EngineNext]_engineVars PROVE EngineInv'
  OBVIOUS
<1>1. ASSUME NEW j \in JobId, Run(j) PROVE EngineInv'
  BY <1>1, WakeInv, CallInv, AnnounceInv, AddInv, GetInv, SendInv, SaveInv, SaveFailsInv,
     CompleteInv, FailInv DEF Run
<1>2. ASSUME NEW j \in JobId, Initiate(j) \/ DeleteJob(j) PROVE EngineInv'
  BY <1>2, InitiateInv, DeleteJobInv
<1>3. ASSUME NEW e \in Stream,
             Replay(e) \/ Completion(e) \/ ReadLast(e) \/ Finish(e) \/ Leave(e)
      PROVE  EngineInv'
  BY <1>3, ReplayInv, CompletionInv, ReadLastInv, FinishInv, LeaveInv
<1>4. ASSUME NEW e \in Stream, NEW j \in JobId, Subscribe(e, j) PROVE EngineInv'
  BY <1>4, SubscribeInv
<1>5. CASE Restart
  BY <1>5, RestartInv
<1>6. CASE UNCHANGED engineVars
  <2>1. EngineShape'
    BY <1>6 DEF EngineInv, EngineShape, engineVars, work, sse, limits
  <2>2. ASSUME NEW k \in JobId PROVE Told(k)' /\ Whole(k)' /\ Streamed(k)'
    <3>1. Told(k)' /\ Whole(k)'
      BY <1>6, NoThread DEF engineVars, work, sse
    <3>2. Streamed(k)
      BY DEF EngineInv
    <3>3. Streamed(k)'
      BY <1>6, <3>2 DEF Streamed, Own, Fed, History, engineVars, work, sse
    <3>4. QED
      BY <3>1, <3>3
  <2>3. \A e \in Stream : Watched(e)'
    BY <1>6 DEF EngineInv, Watched, Heard, engineVars, work, sse
  <2>4. QED
    BY <2>1, <2>2, <2>3 DEF EngineInv
<1>7. QED
  BY <1>1, <1>2, <1>3, <1>4, <1>5, <1>6 DEF EngineNext

THEOREM EngineInvariant == EngineSpec => []EngineInv
BY EngineInitInv, EngineStep, PTL DEF EngineSpec

(* EngineTypeOK of AnalysisJobs: every variable has its type in every state. *)
THEOREM EngineTypes == EngineSpec => []EngineTypeOK
<1>1. EngineInv => EngineTypeOK
  <2> SUFFICES ASSUME EngineInv PROVE EngineTypeOK
    OBVIOUS
  <2>1. EngineShape
    BY DEF EngineInv
  <2>2. ASSUME NEW j \in JobId
        PROVE  /\ stored[j] \subseteq owed[j] /\ said[j] \in Seq(Kind)
               /\ cleared[j] \in 0 .. Len(said[j]) /\ emitter[j] \in 0 .. MaxStreams
    BY <2>1 DEF EngineInv, EngineShape, Whole, Streamed
  <2>3. ASSUME NEW e \in Stream
        PROVE  /\ stream[e].state \in {"unopened", "put", "open", "closing", "over"}
               /\ stream[e].seen \subseteq 1 .. Len(said[stream[e].job])
    BY <2>1 DEF EngineInv, EngineShape, Watched
  <2>4. thread \in [JobId -> [at : 0 .. Failing, kind : Kind, to : 0 .. MaxStreams,
                       step : {"none", "sleep", "call", "add", "get", "send", "save"}]]
    BY <2>1 DEF EngineShape, Record
  <2>5. QED
    BY <2>1, <2>2, <2>3, <2>4 DEF EngineShape, EngineTypeOK
<1>2. QED
  BY <1>1, EngineInvariant, PTL

(* NothingMissed of AnalysisJobs: the page of the registered stream holds    *)
(* every event of the history, but for the one the thread is sending.        *)
THEOREM NoEventMissed == EngineSpec => []NothingMissed
<1>1. EngineInv => NothingMissed
  BY DEF EngineInv, Streamed, Fed, NothingMissed, Is
<1>2. QED
  BY <1>1, EngineInvariant, PTL

(* CompletedIsWhole of AnalysisJobs: a job is shown as completed only when   *)
(* every answer is stored, or when a page has read that it failed.           *)
THEOREM CompletedHasAll == EngineSpec => []CompletedIsWhole
<1>1. EngineInv => CompletedIsWhole
  <2> SUFFICES ASSUME EngineInv, NEW j \in JobId, status[j] = "COMPLETED"
               PROVE  \/ Heard(j, "DONE") /\ owed[j] \cap Saving \subseteq stored[j]
                      \/ Heard(j, "ERROR") /\ j \in closed
    BY DEF CompletedIsWhole
  <2>1. Told(j) /\ Whole(j)
    BY DEF EngineInv
  <2>2. QED
    BY <2>1 DEF Told, Whole, Owing
<1>2. QED
  BY <1>1, EngineInvariant, PTL
=============================================================================
