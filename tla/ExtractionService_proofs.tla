---------------------- MODULE ExtractionService_proofs ----------------------
(***************************************************************************)
(* What ExtractionService.tla states of pools and audit trails, proved for *)
(* any number of requests, sources, permits, pools and restarts and any    *)
(* idle window.                                                            *)
(***************************************************************************)
EXTENDS ExtractionService, SequenceTheorems, TLAPS

LEMMA RestingType ==
  Resting \in [step : {"idle", "close", "remove"}, source : Source, pool : 0 .. MaxPools]
BY ServiceAssumption DEF Resting
-----------------------------------------------------------------------------
(* Types. *)

RequestType ==
  /\ at \in [Request -> Place]
  /\ verdict \in [Request -> Answer]
  /\ source \in [Request -> Source]
  /\ held \in [Request -> 0 .. MaxPools]
  /\ answer \in [Request -> Answer]
  /\ trail \in [Request -> Seq(Event)]
  /\ output \in [Request -> {"untouched", "partial", "whole"}]

PoolType ==
  /\ entry \in [Source -> 0 .. MaxPools]
  /\ open \in [Source -> SUBSET (1 .. MaxPools)]
  /\ age \in [Source -> 0 .. Window + 1]
  /\ built \in [Source -> 0 .. MaxPools]

LEMMA HandType ==
  ASSUME PoolType, NEW s \in Source, Hand(s)
  PROVE  PoolType' /\ entry'[s] \in 0 .. MaxPools
<1>1. age' \in [Source -> 0 .. Window + 1]
  BY ServiceAssumption DEF Hand, PoolType
<1>2. CASE UNCHANGED <<entry, open, built>>
  BY <1>1, <1>2 DEF PoolType
<1>3. CASE entry[s] = 0 /\ built[s] < MaxPools /\ ~UNCHANGED <<entry, open, built>>
  <2>1. built[s] + 1 \in 1 .. MaxPools
    BY <1>3, ServiceAssumption DEF PoolType
  <2>2. /\ entry' = [entry EXCEPT ![s] = built[s] + 1]
        /\ open' = [open EXCEPT ![s] = @ \cup {built[s] + 1}]
        /\ built' = [built EXCEPT ![s] = @ + 1]
    BY <1>3 DEF Hand
  <2>3. QED
    BY <1>1, <2>1, <2>2 DEF PoolType
<1>4. QED
  BY <1>2, <1>3 DEF Hand

(* A request is decided, with or without having had a pool. *)
LEMMA DecideType ==
  ASSUME TypeOK, NEW r \in Request,
         \/ Incomplete(r) \/ Refuse(r) \/ Unsupported(r)
         \/ PoolFails(r) \/ Throttle(r) \/ Return(r) \/ Break(r)
  PROVE  TypeOK'
<1>1. PICK a \in Answer : Decide(r, a)
  BY DEF Incomplete, Refuse, Unsupported, PoolFails, Throttle, Return, Break, Answer
<1>2. at' \in [Request -> Place] /\ verdict' \in [Request -> Answer]
  BY <1>1 DEF TypeOK, Decide, Place
<1>3. UNCHANGED <<source, held, answer, trail, output, entry, open, age, built, sweep, crashes>>
  BY <1>1 DEF Incomplete, Refuse, Unsupported, PoolFails, Throttle, Return, Break, Decide, pools
<1>4. QED
  BY <1>2, <1>3 DEF TypeOK

LEMMA AuditedType ==
  ASSUME NEW a \in Answer
  PROVE  Audited(a) \in Seq(Event)
<1>1. <<>> \in Seq(Event) /\ \A e \in Event : <<e>> \in Seq(Event)
  OBVIOUS
<1>2. Audited(a) = <<>> \/ \E e \in Event : Audited(a) = <<e>>
  BY Zenon DEF Audited, Event
<1>3. QED
  BY <1>1, <1>2

LEMMA ServeType ==
  ASSUME TypeOK, NEW r \in Request,
         \/ Accept(r) \/ GetPool(r) \/ Start(r) \/ Write(r) \/ CloseFile(r)
         \/ Record(r) \/ Reply(r)
  PROVE  TypeOK'
<1>1. CASE Accept(r)
  <2>1. trail[r] \in Seq(Event) /\ "accepted" \in Event
    BY DEF TypeOK, Event
  <2>2. Append(trail[r], "accepted") \in Seq(Event)
    BY <2>1
  <2>3. QED
    BY <1>1, <2>2 DEF TypeOK, Accept, pools, Place
<1>2. CASE GetPool(r)
  <2>1. source[r] \in Source /\ PoolType
    BY DEF TypeOK, PoolType
  <2>2. PoolType' /\ entry'[source[r]] \in 0 .. MaxPools
    BY <1>2, <2>1, HandType DEF GetPool
  <2>3. QED
    BY <1>2, <2>2 DEF TypeOK, PoolType, GetPool, Place
<1>3. CASE Start(r) \/ Write(r) \/ CloseFile(r)
  BY <1>3 DEF TypeOK, Start, Write, CloseFile, pools, Place
<1>4. CASE Record(r)
  <2>1. trail[r] \in Seq(Event) /\ verdict[r] \in Answer
    BY DEF TypeOK
  <2>2. trail[r] \o Audited(verdict[r]) \in Seq(Event)
    BY <2>1, AuditedType
  <2>3. QED
    BY <1>4, <2>2 DEF TypeOK, Record, pools, Place
<1>5. CASE Reply(r)
  <2>1. PICK a \in {verdict[r], "lost"} : answer' = [answer EXCEPT ![r] = a]
    BY <1>5 DEF Reply
  <2>2. a \in Answer
    BY <2>1 DEF TypeOK, Answer
  <2>3. QED
    BY <1>5, <2>1, <2>2 DEF TypeOK, Reply, pools, Place
<1>6. QED
  BY <1>1, <1>2, <1>3, <1>4, <1>5

LEMMA PoolsType ==
  ASSUME TypeOK, (\E s \in Source : Probe(s) \/ Inspect(s)) \/ Tick \/ Close \/ Remove
  PROVE  TypeOK'
<1>1. CASE \E s \in Source : Probe(s)
  <2>1. PoolType'
    BY <1>1, HandType DEF TypeOK, PoolType, Probe
  <2>2. QED
    BY <1>1, <2>1 DEF TypeOK, PoolType, Probe, requests
<1>2. CASE \E s \in Source : Inspect(s)
  BY <1>2 DEF TypeOK, Inspect, requests, pools
<1>3. CASE Tick
  <2>1. \A s \in Source : age[s] <= Window => age[s] + 1 \in 0 .. Window + 1
    BY ServiceAssumption DEF TypeOK
  <2>2. age' \in [Source -> 0 .. Window + 1]
    BY <1>3, <2>1 DEF Tick, TypeOK
  <2>3. QED
    BY <1>3, <2>2 DEF TypeOK, Tick, requests
<1>4. CASE Close
  BY <1>4 DEF TypeOK, Close, requests
<1>5. CASE Remove
  <2>1. sweep' \in [step : {"idle", "close", "remove"}, source : Source, pool : 0 .. MaxPools]
    BY <1>5, RestingType DEF Remove
  <2>2. entry' \in [Source -> 0 .. MaxPools]
    BY <1>5, ServiceAssumption DEF TypeOK, Remove
  <2>3. QED
    BY <1>5, <2>1, <2>2 DEF TypeOK, Remove, requests
<1>6. QED
  BY <1>1, <1>2, <1>3, <1>4, <1>5

LEMMA CrashType ==
  ASSUME TypeOK, Crash
  PROVE  TypeOK'
<1>1. sweep' \in [step : {"idle", "close", "remove"}, source : Source, pool : 0 .. MaxPools]
  BY RestingType DEF TypeOK, Crash
<1>2. crashes' \in 0 .. MaxCrashes
  BY ServiceAssumption DEF TypeOK, Crash
<1>3. 0 \in 0 .. MaxPools /\ 0 \in 0 .. Window + 1
  BY ServiceAssumption
<1>4. QED
  BY <1>1, <1>2, <1>3 DEF TypeOK, Crash, Place, Answer

LEMMA InitType == Init => TypeOK
<1>1. 0 \in 0 .. MaxPools /\ 0 \in 0 .. Window + 1 /\ 0 \in 0 .. MaxCrashes
  BY ServiceAssumption
<1>2. QED
  BY <1>1, RestingType DEF Init, TypeOK, Place, Answer

LEMMA NextType == TypeOK /\ [Next]_vars => TypeOK'
<1>1. ASSUME TypeOK, UNCHANGED vars PROVE TypeOK'
  BY <1>1 DEF TypeOK, vars, requests, pools
<1>2. QED
  BY <1>1, DecideType, ServeType, PoolsType, CrashType DEF Next, Serve

(***************************************************************************)
(* Every variable keeps its type; in particular the idle clock of a pool   *)
(* stops counting once the pool is due for eviction.                       *)
(***************************************************************************)
THEOREM TypeCorrect == Spec => []TypeOK
BY InitType, NextType, PTL DEF Spec
-----------------------------------------------------------------------------
(* The map of pools. *)

(* Handing a pool out leaves no closed pool in the map that was not there: *)
(* a new entry comes with an open pool.                                    *)
LEMMA HandKeepsPools ==
  ASSUME TypeOK, NoDeadPool, NEW s \in Source, Hand(s), UNCHANGED sweep
  PROVE  NoDeadPool'
<1>1. CASE UNCHANGED <<entry, open>>
  BY <1>1 DEF NoDeadPool
<1>2. CASE entry' = [entry EXCEPT ![s] = built[s] + 1] /\
           open' = [open EXCEPT ![s] = @ \cup {built[s] + 1}]
  <2>1. entry'[s] \in open'[s] /\ \A u \in Source \ {s} : entry'[u] = entry[u] /\ open'[u] = open[u]
    BY <1>2 DEF TypeOK
  <2>2. QED
    BY <2>1 DEF NoDeadPool
<1>3. QED
  BY <1>1, <1>2 DEF Hand

LEMMA NextPools == TypeOK /\ NoDeadPool /\ [Next]_vars => NoDeadPool'
<1> SUFFICES ASSUME TypeOK, NoDeadPool, [Next]_vars PROVE NoDeadPool'
  OBVIOUS
<1>1. CASE \E r \in Request : GetPool(r)
  <2>1. PICK r \in Request : GetPool(r)
    BY <1>1
  <2>2. source[r] \in Source /\ Hand(source[r]) /\ UNCHANGED sweep
    BY <2>1 DEF GetPool, TypeOK
  <2>3. QED
    BY <2>2, HandKeepsPools
<1>2. CASE \E s \in Source : Probe(s)
  BY <1>2, HandKeepsPools DEF Probe
<1>3. CASE \E s \in Source : Inspect(s)
  <2>1. \A s \in Source : entry[s] # 0 => entry[s] \in open[s]
    BY <1>3 DEF Inspect, NoDeadPool
  <2>2. QED
    BY <1>3, <2>1 DEF Inspect, NoDeadPool, pools
<1>4. CASE Close
  <2>1. \A s \in Source : entry[s] # 0 => entry[s] \in open[s]
    BY <1>4 DEF Close, NoDeadPool
  <2>2. sweep' = [step |-> "remove", source |-> sweep.source, pool |-> sweep.pool]
    BY <1>4 DEF Close, TypeOK
  <2>3. /\ entry' = entry
        /\ \A s \in Source : open'[s] = IF s = sweep.source THEN open[s] \ {sweep.pool} ELSE open[s]
    BY <1>4 DEF Close, TypeOK
  <2>4. QED
    BY <2>1, <2>2, <2>3 DEF NoDeadPool
<1>5. CASE Remove
  <2>1. /\ open' = open
        /\ \A s \in Source : entry'[s] = IF s = sweep.source /\ entry[s] = sweep.pool THEN 0 ELSE entry[s]
    BY <1>5 DEF Remove, TypeOK
  <2>2. ASSUME NEW s \in Source, entry'[s] # 0 PROVE entry'[s] \in open'[s]
    <3>1. entry'[s] = entry[s] /\ entry[s] # 0 /\ ~(s = sweep.source /\ entry[s] = sweep.pool)
      BY <2>1, <2>2
    <3>2. sweep # [step |-> "remove", source |-> s, pool |-> entry[s]]
      BY <3>1
    <3>3. QED
      BY <2>1, <3>1, <3>2 DEF NoDeadPool
  <2>3. QED
    BY <2>2 DEF NoDeadPool
<1>6. CASE Crash
  BY <1>6 DEF Crash, NoDeadPool
<1>7. CASE \/ Tick
           \/ \E r \in Request : \/ Accept(r) \/ PoolFails(r) \/ Start(r) \/ Throttle(r)
                                 \/ Write(r) \/ CloseFile(r) \/ Return(r) \/ Break(r)
                                 \/ Record(r) \/ Reply(r)
                                 \/ Incomplete(r) \/ Refuse(r) \/ Unsupported(r)
           \/ UNCHANGED vars
  <2>1. UNCHANGED <<entry, open, sweep>>
    BY <1>7 DEF Tick, Accept, PoolFails, Start, Throttle, Write, CloseFile, Return, Break,
       Record, Reply, Incomplete, Refuse, Unsupported, vars, pools
  <2>2. QED
    BY <2>1 DEF NoDeadPool
<1>8. QED
  BY <1>1, <1>2, <1>3, <1>4, <1>5, <1>6, <1>7 DEF Next, Serve

(***************************************************************************)
(* A closed pool is in the map only between two steps of the sweep at its  *)
(* entry, whatever requests were handed and when (evictIdlePools).         *)
(***************************************************************************)
THEOREM NoDeadPoolHolds == Spec => []NoDeadPool
<1>1. Init => NoDeadPool
  BY DEF Init, NoDeadPool
<1>2. QED
  BY <1>1, TypeCorrect, NextPools, PTL DEF Spec
-----------------------------------------------------------------------------
(* The audit trail. *)

\* What a request decided as a left behind, before and after its event.
Unrecorded(a, t, o) ==
  \/ a = "BAD_REQUEST" /\ t \in {<<>>, <<"accepted">>} /\ o = "untouched"
  \/ a = "QUERY_NOT_ALLOWED" /\ t = <<>> /\ o = "untouched"
  \/ a = "SOURCE_THROTTLED" /\ t = <<"accepted">> /\ o = "untouched"
  \/ a \in {"UNSUPPORTED_SOURCE", "INTERNAL_ERROR"} /\ t = <<"accepted">>
  \/ a = "ok" /\ t = <<"accepted">> /\ o = "whole"

Recorded(a, t, o) ==
  \/ a = "BAD_REQUEST" /\ t \in {<<>>, <<"accepted">>} /\ o = "untouched"
  \/ a = "QUERY_NOT_ALLOWED" /\ t = <<"rejected">> /\ o = "untouched"
  \/ a = "SOURCE_THROTTLED" /\ t = <<"accepted", "rejected">> /\ o = "untouched"
  \/ a \in {"UNSUPPORTED_SOURCE", "INTERNAL_ERROR"} /\ t = <<"accepted", "failed">>
  \/ a = "ok" /\ t = <<"accepted", "completed">> /\ o = "whole"

\* A service that ended may have left a request anywhere.
Abandoned(r) ==
  \/ trail[r] = <<"accepted">>
  \/ Unrecorded(verdict[r], trail[r], output[r])
  \/ Recorded(verdict[r], trail[r], output[r])

\* How far a request has come, by its trail, its answer and its file.
Story(r) ==
  \/ at[r] = "new" /\ trail[r] = <<>> /\ answer[r] = "none" /\ output[r] = "untouched"
  \/ /\ at[r] \in {"accepted", "waiting"}
     /\ trail[r] = <<"accepted">> /\ answer[r] = "none" /\ output[r] = "untouched"
  \/ at[r] = "running" /\ trail[r] = <<"accepted">> /\ answer[r] = "none"
  \/ at[r] = "audit" /\ answer[r] = "none" /\ Unrecorded(verdict[r], trail[r], output[r])
  \/ at[r] = "reply" /\ answer[r] = "none" /\ Recorded(verdict[r], trail[r], output[r])
  \/ at[r] = "done" /\ answer[r] = verdict[r] /\ Recorded(verdict[r], trail[r], output[r])
  \/ at[r] = "done" /\ answer[r] = "lost" /\ Abandoned(r)

Told == \A r \in Request : Story(r)

\* Nothing is said or done for another request.
Alone(r) ==
  \A q \in Request \ {r} :
    /\ at'[q] = at[q] /\ verdict'[q] = verdict[q]
    /\ trail'[q] = trail[q] /\ answer'[q] = answer[q] /\ output'[q] = output[q]

LEMMA StepTold ==
  ASSUME TypeOK, Told, NEW r \in Request, Alone(r), Story(r)'
  PROVE  Told'
BY DEF Told, Story, Alone, Abandoned, Unrecorded, Recorded

\* Two audit events, one after the other.
LEMMA TwoSaid ==
  ASSUME NEW a \in Event, NEW b \in Event
  PROVE  <<a>> \o <<b>> = <<a, b>>
<1> DEFINE s == <<a>>
           t == <<b>>
           u == s \o t
           v == <<a, b>>
<1>1. /\ s \in Seq(Event) /\ t \in Seq(Event) /\ v \in Seq(Event)
      /\ Len(s) = 1 /\ Len(t) = 1 /\ Len(v) = 2
      /\ s[1] = a /\ t[1] = b /\ v[1] = a /\ v[2] = b
  OBVIOUS
<1> HIDE DEF s, t, v
<1>2. u \in Seq(Event) /\ Len(u) = 2 /\ \A i \in 1 .. 2 : u[i] = IF i <= 1 THEN s[i] ELSE t[i - 1]
  BY <1>1, ConcatProperties
<1>3. u[1] = a /\ u[2] = b
  BY <1>1, <1>2
<1> HIDE DEF u
<1>4. \A i \in 1 .. Len(u) : u[i] = v[i]
  BY <1>1, <1>2, <1>3
<1>5. u = v
  BY <1>1, <1>2, <1>4, SeqEqual
<1>6. QED
  BY <1>5 DEF u, v, s, t

(* The event a decision calls for completes the trail. *)
LEMMA EventTold ==
  ASSUME NEW a \in Answer, NEW t \in Seq(Event), NEW o, Unrecorded(a, t, o)
  PROVE  Recorded(a, t \o Audited(a), o)
<1>1. <<"accepted">> \o <<"failed">> = <<"accepted", "failed">>
      /\ <<"accepted">> \o <<"rejected">> = <<"accepted", "rejected">>
      /\ <<"accepted">> \o <<"completed">> = <<"accepted", "completed">>
  BY TwoSaid DEF Event
<1>2. CASE a = "BAD_REQUEST"
  <2>1. Audited(a) = <<>> /\ t \o <<>> = t
    BY <1>2 DEF Audited
  <2>2. QED
    BY <1>2, <2>1 DEF Unrecorded, Recorded
<1>3. CASE a = "QUERY_NOT_ALLOWED"
  <2>1. Audited(a) = <<"rejected">> /\ t = <<>> /\ o = "untouched"
    BY <1>3 DEF Audited, Unrecorded
  <2>2. t \o <<"rejected">> = <<"rejected">>
    BY <2>1
  <2>3. QED
    BY <1>3, <2>1, <2>2 DEF Recorded
<1>4. CASE a = "SOURCE_THROTTLED"
  <2>1. Audited(a) = <<"rejected">> /\ t = <<"accepted">> /\ o = "untouched"
    BY <1>4 DEF Audited, Unrecorded
  <2>2. QED
    BY <1>1, <1>4, <2>1 DEF Recorded
<1>5. CASE a \in {"UNSUPPORTED_SOURCE", "INTERNAL_ERROR"}
  <2>1. Audited(a) = <<"failed">> /\ t = <<"accepted">>
    BY <1>5 DEF Audited, Unrecorded
  <2>2. QED
    BY <1>1, <1>5, <2>1 DEF Recorded
<1>6. CASE a = "ok"
  <2>1. Audited(a) = <<"completed">> /\ t = <<"accepted">> /\ o = "whole"
    BY <1>6 DEF Audited, Unrecorded
  <2>2. QED
    BY <1>1, <1>6, <2>1 DEF Recorded
<1>7. QED
  BY <1>2, <1>3, <1>4, <1>5, <1>6 DEF Unrecorded

LEMMA DecideTold ==
  ASSUME TypeOK, Told, NEW r \in Request,
         \/ Incomplete(r) \/ Refuse(r) \/ Unsupported(r)
         \/ PoolFails(r) \/ Throttle(r) \/ Return(r) \/ Break(r)
  PROVE  Told'
<1>0. Story(r)
  BY DEF Told
<1>1. PICK a \in Answer :
        /\ Decide(r, a)
        /\ \/ at[r] = "new" /\ a \in {"BAD_REQUEST", "QUERY_NOT_ALLOWED"}
           \/ /\ at[r] = "accepted"
              /\ a \in {"BAD_REQUEST", "UNSUPPORTED_SOURCE", "INTERNAL_ERROR"}
           \/ at[r] = "waiting" /\ a = "SOURCE_THROTTLED"
           \/ at[r] = "running" /\ a = "INTERNAL_ERROR"
           \/ at[r] = "running" /\ a = "ok" /\ output[r] = "whole"
  BY DEF Incomplete, Refuse, Unsupported, PoolFails, Throttle, Return, Break, Answer
<1>2. UNCHANGED output
  BY DEF Incomplete, Refuse, Unsupported, PoolFails, Throttle, Return, Break
<1>3. Alone(r) /\ at'[r] = "audit" /\ verdict'[r] = a /\ answer'[r] = answer[r]
      /\ trail'[r] = trail[r] /\ output'[r] = output[r]
  BY <1>1, <1>2 DEF TypeOK, Decide, Alone
<1>4. answer[r] = "none" /\ Unrecorded(a, trail[r], output[r])
  BY <1>0, <1>1 DEF Story, Unrecorded
<1>5. QED
  BY <1>3, <1>4, StepTold DEF Story

LEMMA ServeTold ==
  ASSUME TypeOK, Told, NEW r \in Request,
         \/ Accept(r) \/ GetPool(r) \/ Start(r) \/ Write(r) \/ CloseFile(r)
         \/ Record(r) \/ Reply(r)
  PROVE  Told'
<1>0. Story(r)
  BY DEF Told
<1>1. CASE Accept(r)
  <2>1. Alone(r) /\ at'[r] = "accepted" /\ answer'[r] = answer[r] /\ output'[r] = output[r]
        /\ trail'[r] = Append(trail[r], "accepted")
    BY <1>1 DEF Accept, Alone, TypeOK
  <2>2. trail[r] = <<>> /\ answer[r] = "none" /\ output[r] = "untouched"
    BY <1>0, <1>1 DEF Accept, Story
  <2>3. Append(trail[r], "accepted") = <<"accepted">>
    BY <2>2
  <2>4. QED
    BY <2>1, <2>2, <2>3, StepTold DEF Story
<1>2. CASE GetPool(r) \/ Start(r)
  <2>1. Alone(r) /\ UNCHANGED <<trail, answer, output>>
        /\ \/ at[r] = "accepted" /\ at'[r] = "waiting"
           \/ at[r] = "waiting" /\ at'[r] = "running"
    BY <1>2 DEF GetPool, Start, Alone, TypeOK
  <2>2. QED
    BY <1>0, <2>1, StepTold DEF Story
<1>3. CASE Write(r) \/ CloseFile(r)
  <2>1. Alone(r) /\ UNCHANGED <<at, trail, answer>> /\ at[r] = "running"
    BY <1>3 DEF Write, CloseFile, Alone, TypeOK
  <2>2. QED
    BY <1>0, <2>1, StepTold DEF Story
<1>4. CASE Record(r)
  <2>1. /\ Alone(r) /\ UNCHANGED <<verdict, answer, output>>
        /\ at[r] = "audit" /\ at'[r] = "reply"
        /\ trail'[r] = trail[r] \o Audited(verdict[r])
    BY <1>4 DEF Record, Alone, TypeOK
  <2>2. answer[r] = "none" /\ Unrecorded(verdict[r], trail[r], output[r])
    BY <1>0, <2>1 DEF Story
  <2>3. verdict[r] \in Answer /\ trail[r] \in Seq(Event)
    BY DEF TypeOK
  <2>4. Recorded(verdict[r], trail'[r], output[r])
    BY <2>1, <2>2, <2>3, EventTold
  <2>5. QED
    BY <2>1, <2>2, <2>4, StepTold DEF Story
<1>5. CASE Reply(r)
  <2>1. /\ Alone(r) /\ UNCHANGED <<verdict, trail, output>>
        /\ at[r] = "reply" /\ at'[r] = "done" /\ answer'[r] \in {verdict[r], "lost"}
    BY <1>5 DEF Reply, Alone, TypeOK
  <2>2. Recorded(verdict[r], trail[r], output[r])
    BY <1>0, <2>1 DEF Story
  <2>3. QED
    BY <2>1, <2>2, StepTold DEF Story, Abandoned
<1>6. QED
  BY <1>1, <1>2, <1>3, <1>4, <1>5

LEMMA NextTold == TypeOK /\ Told /\ [Next]_vars => Told'
<1>1. ASSUME TypeOK, Told, Crash PROVE Told'
  <2> SUFFICES ASSUME NEW r \in Request PROVE Story(r)'
    BY DEF Told
  <2>1. /\ at'[r] = (IF at[r] = "new" THEN "new" ELSE "done")
        /\ answer'[r] = (IF at[r] \in {"new", "done"} THEN answer[r] ELSE "lost")
        /\ UNCHANGED <<verdict, trail, output>>
    BY <1>1 DEF Crash
  <2>2. Story(r)
    BY <1>1 DEF Told
  <2>3. CASE at[r] \in {"new", "done"}
    BY <2>1, <2>2, <2>3 DEF Story, Abandoned
  <2>4. CASE at[r] \notin {"new", "done"}
    <3>1. Abandoned(r)
      BY <2>2, <2>4 DEF Story, Abandoned
    <3>2. Abandoned(r)' /\ at'[r] = "done" /\ answer'[r] = "lost"
      BY <2>1, <2>4, <3>1 DEF Abandoned
    <3>3. QED
      BY <3>2 DEF Story
  <2>5. QED
    BY <2>3, <2>4
<1>2. ASSUME Told, UNCHANGED requests PROVE Told'
  BY <1>2 DEF Told, Story, Abandoned, requests
<1>3. QED
  BY <1>1, <1>2, DecideTold, ServeTold DEF Next, Serve, Probe, Inspect, Tick, Close, Remove, vars

(* Seven trails, each with the answers and files it is found with. *)
LEMMA StoryIsTrue ==
  ASSUME Told
  PROVE  TrailIsTrue
<1> SUFFICES ASSUME NEW r \in Request
             PROVE  LET says(e) == \E i \in DOMAIN trail[r] : trail[r][i] = e
                        unanswered == answer[r] \in {"none", "lost"}
                    IN
                    /\ says("completed") => output[r] = "whole"
                    /\ says("rejected") => output[r] = "untouched"
                    /\ output[r] # "untouched" => trail[r][1] = "accepted"
                    /\ ~unanswered =>
                         /\ says("completed") <=> answer[r] = "ok"
                         /\ says("rejected") <=>
                              answer[r] \in {"QUERY_NOT_ALLOWED", "SOURCE_THROTTLED"}
                         /\ says("failed") <=>
                              answer[r] \in {"UNSUPPORTED_SOURCE", "INTERNAL_ERROR"}
                         /\ output[r] = "whole" => says("completed") \/ says("failed")
  BY DEF TrailIsTrue
<1> DEFINE says(e) == \E i \in DOMAIN trail[r] : trail[r][i] = e
           unanswered == answer[r] \in {"none", "lost"}
<1>0. Story(r)
  BY DEF Told
<1>1. CASE trail[r] = <<>>
  <2>1. ~says("completed") /\ ~says("rejected") /\ ~says("failed")
    BY <1>1
  <2>2. output[r] = "untouched" /\ (unanswered \/ answer[r] = "BAD_REQUEST")
    BY <1>0, <1>1 DEF Story, Abandoned, Unrecorded, Recorded
  <2>3. QED
    BY <2>1, <2>2
<1>2. CASE trail[r] = <<"rejected">>
  <2>1. ~says("completed") /\ says("rejected") /\ ~says("failed")
    BY <1>2
  <2>2. output[r] = "untouched" /\ (unanswered \/ answer[r] = "QUERY_NOT_ALLOWED")
    BY <1>0, <1>2 DEF Story, Abandoned, Unrecorded, Recorded
  <2>3. QED
    BY <2>1, <2>2
<1>3. CASE trail[r] = <<"accepted">>
  <2>1. ~says("completed") /\ ~says("rejected") /\ ~says("failed") /\ trail[r][1] = "accepted"
    BY <1>3
  <2>2. unanswered \/ (answer[r] = "BAD_REQUEST" /\ output[r] = "untouched")
    BY <1>0, <1>3 DEF Story, Abandoned, Unrecorded, Recorded
  <2>3. QED
    BY <2>1, <2>2
<1>4. CASE trail[r] = <<"accepted", "failed">>
  <2>1. ~says("completed") /\ ~says("rejected") /\ says("failed") /\ trail[r][1] = "accepted"
    BY <1>4
  <2>2. unanswered \/ answer[r] \in {"UNSUPPORTED_SOURCE", "INTERNAL_ERROR"}
    BY <1>0, <1>4 DEF Story, Abandoned, Unrecorded, Recorded
  <2>3. QED
    BY <2>1, <2>2
<1>5. CASE trail[r] = <<"accepted", "rejected">>
  <2>1. ~says("completed") /\ says("rejected") /\ ~says("failed") /\ trail[r][1] = "accepted"
    BY <1>5
  <2>2. output[r] = "untouched" /\ (unanswered \/ answer[r] = "SOURCE_THROTTLED")
    BY <1>0, <1>5 DEF Story, Abandoned, Unrecorded, Recorded
  <2>3. QED
    BY <2>1, <2>2
<1>6. CASE trail[r] = <<"accepted", "completed">>
  <2>1. says("completed") /\ ~says("rejected") /\ ~says("failed") /\ trail[r][1] = "accepted"
    BY <1>6
  <2>2. output[r] = "whole" /\ (unanswered \/ answer[r] = "ok")
    BY <1>0, <1>6 DEF Story, Abandoned, Unrecorded, Recorded
  <2>3. QED
    BY <2>1, <2>2
<1>7. QED
  BY <1>0, <1>1, <1>2, <1>3, <1>4, <1>5, <1>6 DEF Story, Abandoned, Unrecorded, Recorded

(***************************************************************************)
(* What the trail of a request says of its file and its answer is so,      *)
(* through throttling, failures, evicted pools, lost answers and a service *)
(* that ends between the file, the event and the answer (extractSync,      *)
(* AuditLogger).                                                           *)
(***************************************************************************)
THEOREM TrailIsTrueHolds == Spec => []TrailIsTrue
<1>1. Init => Told
  BY DEF Init, Told, Story
<1>2. Told => TrailIsTrue
  BY StoryIsTrue
<1>3. QED
  BY <1>1, <1>2, TypeCorrect, NextTold, PTL DEF Spec
=============================================================================
