-------------------------- MODULE ParquetFlow_proofs --------------------------
(***************************************************************************)
(* The collection of orphans in ParquetFlow.tla spares the candidates,     *)
(* run-all validates all there is, and the two-pass run validates on       *)
(* complete files, for any tables, candidates and disk caps, any number of *)
(* kills and of requests that outlive their client, and for the first also *)
(* of failed extractions.                                                  *)
(***************************************************************************)
EXTENDS ParquetFlow, FiniteSetTheorems, TLAPS

FlowType ==
  /\ file \in [Table -> File]
  /\ candidates \subseteq Related

\* What happens at the service, or between it and the client.
AtService ==
  \/ Send \/ Admit \/ Respond \/ TimeOut
  \/ \E s \in strays : StrayAdmitted(s) \/ StrayRefused(s) \/ StrayEnds(s)

LEMMA ServiceQuiet ==
  ASSUME AtService
  PROVE  UNCHANGED <<log, proc, command, used, cap, crashes, pos, point, left, raised, touched,
                     writing, marked, printed, candidates, validated, faults>>
BY DEF AtService, Send, Admit, Respond, TimeOut, Outlives, StrayAdmitted, StrayRefused, StrayEnds,
   control, service, disk, found

(* The service changes no file but by opening or leaving one. *)
LEMMA ServiceFiles ==
  ASSUME AtService
  PROVE  \/ file' = file
         \/ \E t : \E f \in File \ {"absent"} : file' = [file EXCEPT ![t] = f]
<1> USE DEF Opened, Left, File, disk
<1>1. CASE Send \/ TimeOut \/ \E s \in strays : StrayRefused(s)
  BY <1>1 DEF Send, TimeOut, StrayRefused
<1>2. CASE Admit
  BY <1>2 DEF Admit
<1>3. CASE Respond
  BY <1>3 DEF Respond
<1>4. CASE \E s \in strays : StrayAdmitted(s)
  BY <1>4 DEF StrayAdmitted
<1>5. CASE \E s \in strays : StrayEnds(s)
  BY <1>5 DEF StrayEnds
<1>6. QED
  BY <1>1, <1>2, <1>3, <1>4, <1>5 DEF AtService

\* While files are being deleted, those on the list have no candidate.
Sparing == At("cap", "body") => left \cap Surviving = {}

\* The inductive invariant.
Inv == FlowType /\ Sparing
-----------------------------------------------------------------------------
LEMMA InitInv == Init => Inv
BY DEF Init, Inv, FlowType, Sparing, At, File

(* Steps that stay at the current step of the program, which is not the    *)
(* disk cap, and steps that end at the gate of another.                    *)
LEMMA ElsewhereSpares ==
  ASSUME FlowType', \/ point' # "body"
                    \/ proc' # "up"
                    \/ UNCHANGED <<pos, command>> /\ Steps[pos] # "cap"
  PROVE  Inv'
BY DEF Inv, Sparing, At, Steps

LEMMA NextInv == Inv /\ [Next]_vars => Inv'
<1> SUFFICES ASSUME Inv, [Next]_vars PROVE Inv'
  OBVIOUS
<1> USE DEF control, request, service, disk, found
<1>1. FlowType'
  <2> USE DEF Inv, FlowType
  <2>1. CASE \E t \in Table : SkipTable(t) \/ SampleTable(t) \/ BeginTable(t) \/ DeleteFile(t)
    BY <2>1 DEF SkipTable, SampleTable, BeginTable, DeleteFile, File
  <2>2. CASE MarkExtracted \/ SucceedTable \/ FailTable \/ ExtractReturns \/ ExtractRaises
    BY <2>2 DEF MarkExtracted, SucceedTable, FailTable, ExtractReturns, ExtractRaises, Left, File
  <2>3. CASE PassOver \/ StartPhase \/ SucceedPhase \/ StartGC \/ EndGC
    BY <2>3 DEF PassOver, StartPhase, SucceedPhase, StartGC, EndGC
  <2>4. CASE Fingerprint \/ GenerateCandidates \/ Validate \/ ChooseTables
             \/ ResetFingerprints \/ Reprint
    BY <2>4 DEF Fingerprint, GenerateCandidates, Validate, ChooseTables,
       ResetFingerprints, Reprint
  <2>5. CASE Finish \/ Crash \/ Launch
    BY <2>5 DEF Finish, Crash, Launch
  <2>6. CASE UNCHANGED vars
    BY <2>6 DEF vars
  <2>7. CASE AtService
    BY <2>7, ServiceQuiet, ServiceFiles
  <2>8. QED
    BY <2>1, <2>2, <2>3, <2>4, <2>5, <2>6, <2>7 DEF Next, AtService
<1>2. CASE PassOver \/ SucceedPhase \/ EndGC \/ ResetFingerprints \/ Reprint
  <2>1. point' # "body"
    BY <1>2 DEF PassOver, SucceedPhase, EndGC, ResetFingerprints, Reprint, Advance
  <2>2. QED
    BY <1>1, <2>1, ElsewhereSpares
<1>3. CASE StartPhase
  <2>1. UNCHANGED <<pos, command>> /\ Steps[pos] # "cap"
    BY <1>3 DEF StartPhase, Gated, At
  <2>2. QED
    BY <1>1, <2>1, ElsewhereSpares
<1>4. CASE \E t \in Table : SkipTable(t) \/ SampleTable(t) \/ BeginTable(t)
  <2>1. UNCHANGED <<pos, command>> /\ Steps[pos] # "cap"
    BY <1>4 DEF SkipTable, SampleTable, BeginTable, Extracting, At
  <2>2. QED
    BY <1>1, <2>1, ElsewhereSpares
<1>5. CASE MarkExtracted \/ SucceedTable \/ FailTable \/ ExtractRaises
  <2>1. UNCHANGED <<pos, command>> /\ Steps[pos] # "cap"
    BY <1>5 DEF MarkExtracted, SucceedTable, FailTable, ExtractRaises, Extracting, At
  <2>2. QED
    BY <1>1, <2>1, ElsewhereSpares
<1>6. CASE ExtractReturns
  <2>1. point' # "body"
    BY <1>6 DEF ExtractReturns, Advance
  <2>2. QED
    BY <1>1, <2>1, ElsewhereSpares
<1>7. CASE StartGC
  <2>1. left' \cap Surviving' = {}
    BY <1>7 DEF StartGC, Surviving
  <2>2. QED
    BY <1>1, <2>1 DEF Inv, Sparing
<1>8. CASE \E t \in Table : DeleteFile(t)
  <2>1. left' \subseteq left /\ Surviving' = Surviving /\ At("cap", "body")
    BY <1>8 DEF DeleteFile, Surviving
  <2>2. QED
    BY <1>1, <2>1 DEF Inv, Sparing
<1>9. CASE Fingerprint \/ GenerateCandidates \/ Validate
  <2>1. point' # "body"
    BY <1>9 DEF Fingerprint, GenerateCandidates, Validate
  <2>2. QED
    BY <1>1, <2>1, ElsewhereSpares
<1>10. CASE ChooseTables
  <2>1. point' # "body" \/ (UNCHANGED <<pos, command>> /\ Steps[pos] # "cap")
    BY <1>10 DEF ChooseTables, Jump, At
  <2>2. QED
    BY <1>1, <2>1, ElsewhereSpares
<1>11. CASE Finish \/ Crash \/ Launch
  <2>1. point' # "body" \/ proc' # "up"
    BY <1>11 DEF Finish, Crash, Launch
  <2>2. QED
    BY <1>1, <2>1, ElsewhereSpares
<1>12. CASE UNCHANGED vars
  BY <1>1, <1>12 DEF vars, Inv, Sparing, At, Steps, Surviving
<1>13. CASE AtService
  BY <1>1, <1>13, ServiceQuiet DEF Inv, Sparing, At, Steps, Surviving
<1>14. QED
  BY <1>2, <1>3, <1>4, <1>5, <1>6, <1>7, <1>8, <1>9, <1>10, <1>11, <1>12, <1>13
     DEF Next, AtService

LEMMA Invariance == Spec => []Inv
BY InitInv, NextInv, PTL DEF Spec

(***************************************************************************)
(* No step deletes a file on either side of a candidate, also when the     *)
(* collection of orphans runs in a resumed process or after the second     *)
(* pass (gc_orphaned_parquet, run_all, run_all_two_pass).                  *)
(***************************************************************************)
THEOREM SurvivorsKeptHolds == Spec => SurvivorsKept
<1>1. Inv /\ [Next]_vars =>
        [\A pair \in candidates : \A t \in {pair[1], pair[2]} :
            file[t] # "absent" => file'[t] # "absent"]_vars
  <2> SUFFICES ASSUME Inv, Next, NEW pair \in candidates, NEW t \in {pair[1], pair[2]},
                      file[t] # "absent"
               PROVE  file'[t] # "absent"
    OBVIOUS
  <2> USE DEF control, request, service, disk, found
  <2>0. t \in Table
    BY FlowAssumption DEF Inv, FlowType
  <2>1. CASE \E u \in Table : DeleteFile(u)
    <3>1. PICK u \in Table : DeleteFile(u)
      BY <2>1
    <3>2. u # t
      <4>1. t \in Surviving
        BY DEF Surviving
      <4>2. QED
        BY <3>1, <4>1 DEF DeleteFile, Inv, Sparing
    <3>3. QED
      BY <2>0, <3>1, <3>2 DEF DeleteFile, Inv, FlowType
  <2>2. CASE \E u \in Table : SkipTable(u) \/ SampleTable(u) \/ BeginTable(u)
    BY <2>0, <2>2 DEF SkipTable, SampleTable, BeginTable, Inv, FlowType
  <2>3. CASE MarkExtracted \/ SucceedTable \/ FailTable \/ ExtractReturns \/ ExtractRaises
    BY <2>0, <2>3 DEF MarkExtracted, SucceedTable, FailTable, ExtractReturns, ExtractRaises,
       Left, Inv, FlowType
  <2>4. CASE PassOver \/ StartPhase \/ SucceedPhase \/ StartGC \/ EndGC
    BY <2>4 DEF PassOver, StartPhase, SucceedPhase, StartGC, EndGC
  <2>5. CASE Fingerprint \/ GenerateCandidates \/ Validate \/ ChooseTables
             \/ ResetFingerprints \/ Reprint
    BY <2>5 DEF Fingerprint, GenerateCandidates, Validate, ChooseTables,
       ResetFingerprints, Reprint
  <2>6. CASE Finish \/ Crash \/ Launch
    BY <2>6 DEF Finish, Crash, Launch
  <2>7. CASE AtService
    BY <2>0, <2>7, ServiceFiles DEF Inv, FlowType
  <2>8. QED
    BY <2>1, <2>2, <2>3, <2>4, <2>5, <2>6, <2>7 DEF Next, AtService
<1>2. QED
  BY <1>1, Invariance, PTL DEF Spec, SurvivorsKept
-----------------------------------------------------------------------------
(* The two programs, and where a step leads to in them.                    *)
LEMMA ProgramFacts ==
  ASSUME command \in Commands
  PROVE  /\ Len(Steps) \in Nat /\ DOMAIN Steps = 1 .. Len(Steps)
         /\ \E i \in DOMAIN Steps : Steps[i] = "validate"
<1>1. CASE command = "run_all"
  <2>1. Steps = <<"extract", "cap", "fingerprint", "candidate_gen", "validate">>
    BY <1>1 DEF Steps, Program
  <2>2. Len(Steps) = 5 /\ DOMAIN Steps = 1 .. 5 /\ Steps[5] = "validate"
    BY <2>1
  <2>3. 5 \in DOMAIN Steps
    BY <2>2
  <2>4. QED
    BY <2>2, <2>3
<1>2. CASE command = "two_pass"
  <2>1. Steps = <<"extract", "cap", "fingerprint", "candidate_gen",
                  "retake", "cap", "reset", "reprint", "validate">>
    BY <1>2 DEF Steps, Program
  <2>2. Len(Steps) = 9 /\ DOMAIN Steps = 1 .. 9 /\ Steps[9] = "validate"
    BY <2>1
  <2>3. 9 \in DOMAIN Steps
    BY <2>2
  <2>4. QED
    BY <2>2, <2>3
<1>3. QED
  BY <1>1, <1>2, FlowAssumption

LEMMA PosStep ==
  ASSUME TypeOK, command' = command,
         \/ pos' = pos
         \/ pos <= Len(Steps) /\ Advance
         \/ Jump("validate")
  PROVE  pos' \in 1 .. Len(Steps') + 1
<1>1. Steps' = Steps
  BY DEF Steps
<1>2. pos \in 1 .. Len(Steps) + 1 /\ command \in Commands
  BY DEF TypeOK
<1> DEFINE len == Len(Steps)
<1>3. len \in Nat /\ DOMAIN Steps = 1 .. len
  BY <1>2, ProgramFacts
<1>4. Jump("validate") => pos' \in DOMAIN Steps
  BY <1>2, ProgramFacts DEF Jump
<1>5. pos \in 1 .. len + 1 /\ (pos' = pos \/ (pos <= len /\ pos' = pos + 1) \/ pos' \in 1 .. len)
  BY <1>2, <1>3, <1>4 DEF Advance
<1> HIDE DEF len
<1>6. pos' \in 1 .. len + 1
  BY <1>3, <1>5
<1>7. QED
  BY <1>1, <1>6 DEF len

(* Steps that write nothing but the ledger, the program counter and the    *)
(* lists of the current step.                                              *)
LEMMA ControlType ==
  ASSUME TypeOK, PassOver \/ StartPhase \/ SucceedPhase \/ StartGC \/ EndGC
                 \/ ChooseTables \/ ExtractReturns
  PROVE  TypeOK'
<1> USE DEF control, request, service, disk, found
<1>1. pos' \in 1 .. Len(Steps') + 1
  BY PosStep DEF PassOver, StartPhase, SucceedPhase, StartGC, EndGC, ChooseTables, ExtractReturns,
     Extracting, At
<1>2. point' \in {"gate", "body", "close"}
  BY DEF TypeOK, PassOver, StartPhase, SucceedPhase, StartGC, EndGC, ChooseTables, ExtractReturns,
     Advance, Jump
<1>3. log' \in [Gated \cup Table -> Status]
  BY DEF TypeOK, PassOver, StartPhase, SucceedPhase, StartGC, EndGC, ChooseTables, ExtractReturns,
     LogStart, LogSucceed, Status
<1>4. /\ left' \subseteq Table /\ raised' \subseteq Table /\ touched' \subseteq Table
      /\ UNCHANGED <<proc, command, used, cap, crashes, request, file, marked,
                     printed, candidates, validated, faults>>
  <2>1. Surviving \subseteq Table
    BY FlowAssumption DEF TypeOK, Surviving
  <2>2. CASE ChooseTables
    BY <2>1, <2>2 DEF TypeOK, ChooseTables
  <2>3. CASE PassOver \/ StartPhase \/ SucceedPhase \/ StartGC \/ EndGC \/ ExtractReturns
    BY <2>3 DEF TypeOK, PassOver, StartPhase, SucceedPhase, StartGC, EndGC, ExtractReturns
  <2>4. QED
    BY <2>2, <2>3
<1>5. QED
  BY <1>1, <1>2, <1>3, <1>4 DEF TypeOK

LEMMA TableType ==
  ASSUME TypeOK, \/ \E t \in Table : SkipTable(t) \/ SampleTable(t) \/ BeginTable(t) \/ DeleteFile(t)
                 \/ MarkExtracted \/ SucceedTable \/ FailTable \/ ExtractRaises
  PROVE  TypeOK'
<1> USE DEF control, request, service, disk, found
<1>1. Steps' = Steps /\ pos' = pos
      /\ UNCHANGED <<command, used, crashes, cap, touched, point, crossed, abandons>>
  BY DEF SkipTable, SampleTable, BeginTable, DeleteFile, MarkExtracted, SucceedTable, FailTable,
     ExtractRaises, Steps
<1>2. CASE \E t \in Table : SkipTable(t) \/ SampleTable(t) \/ BeginTable(t) \/ DeleteFile(t)
  BY <1>1, <1>2 DEF TypeOK, SkipTable, SampleTable, BeginTable, DeleteFile, LogStart, Status, File
<1>3. CASE MarkExtracted \/ SucceedTable
  BY <1>1, <1>3 DEF TypeOK, MarkExtracted, SucceedTable, LogSucceed, Status
<1>4. CASE FailTable
  <2>1. faults' \in 0 .. MaxFaults
    BY <1>4, FlowAssumption DEF TypeOK, FailTable
  <2>2. QED
    BY <1>1, <1>4, <2>1 DEF TypeOK, FailTable, LogFail, Status, Left, File
<1>5. CASE ExtractRaises
  BY <1>1, <1>5 DEF TypeOK, ExtractRaises, LogFail, Status, Gated
<1>6. QED
  BY <1>2, <1>3, <1>4, <1>5

LEMMA PhaseType ==
  ASSUME TypeOK, \/ Fingerprint \/ GenerateCandidates \/ Validate
                 \/ ResetFingerprints \/ Reprint
  PROVE  TypeOK'
<1> USE DEF control, request, service, disk, found
<1>1. pos' \in 1 .. Len(Steps') + 1 /\ point' \in {"gate", "body", "close"}
  BY PosStep DEF Fingerprint, GenerateCandidates, Validate, ResetFingerprints, Reprint, At, Advance
<1>2. /\ printed' \subseteq marked' /\ validated' \subseteq candidates'
      /\ candidates' \subseteq Related
  BY DEF TypeOK, Fingerprint, GenerateCandidates, Validate, ResetFingerprints, Reprint, Sketch, Legible
<1>3. UNCHANGED <<log, proc, command, used, cap, crashes, left, raised, touched, request, file,
                  marked, faults>>
  BY DEF Fingerprint, GenerateCandidates, Validate, ResetFingerprints, Reprint
<1>4. QED
  BY <1>1, <1>2, <1>3 DEF TypeOK

\* A request that outlives its client becomes a stray.
LEMMA OutlivesType ==
  ASSUME TypeOK, Outlives
  PROVE  abandons' \in 0 .. MaxAbandons /\ strays' \subseteq Stray
<1>1. writing \in Table
  BY DEF TypeOK, Outlives
<1>2. abandons' \in 1 .. MaxAbandons
  BY FlowAssumption DEF TypeOK, Outlives
<1>3. [id |-> abandons', table |-> writing, state |-> call] \in Stray
  BY <1>1, <1>2 DEF Outlives, Stray
<1>4. QED
  BY <1>2, <1>3 DEF TypeOK, Outlives

LEMMA ServiceType ==
  ASSUME TypeOK, Inv', AtService
  PROVE  TypeOK'
<1>1. /\ UNCHANGED <<log, proc, command, used, cap, crashes, pos, point, left, raised, touched,
                     writing, marked, printed, candidates, validated, faults>>
      /\ Steps' = Steps /\ file' \in [Table -> File]
  BY ServiceQuiet DEF Steps, Inv, FlowType
<1>2. /\ call' \in {"none", "sent", "filling", "answered", "marked"}
      /\ strays' \subseteq Stray /\ crossed' \in BOOLEAN /\ abandons' \in 0 .. MaxAbandons
  <2> USE DEF request, service
  <2>1. CASE Send \/ Admit \/ Respond
    BY <2>1 DEF Send, Admit, Respond, TypeOK
  <2>2. CASE TimeOut
    BY <2>2, OutlivesType DEF TimeOut, TypeOK
  <2>3. CASE \E s \in strays : StrayRefused(s) \/ StrayEnds(s)
    BY <2>3 DEF StrayRefused, StrayEnds, TypeOK
  <2>4. CASE \E s \in strays : StrayAdmitted(s)
    <3>1. PICK s \in strays : StrayAdmitted(s)
      BY <2>4
    <3>2. [s EXCEPT !.state = "filling"] \in Stray
      BY DEF TypeOK, Stray
    <3>3. QED
      BY <3>1, <3>2 DEF StrayAdmitted, TypeOK
  <2>5. QED
    BY <2>1, <2>2, <2>3, <2>4 DEF AtService
<1>3. QED
  BY <1>1, <1>2 DEF TypeOK

LEMMA ProcessType ==
  ASSUME TypeOK, Finish \/ Crash \/ Launch
  PROVE  TypeOK'
<1> USE DEF control, request, service, disk, found
<1>1. CASE Finish \/ Crash
  <2>1. Steps' = Steps /\ crashes' \in 0 .. MaxCrashes
    BY <1>1, FlowAssumption DEF TypeOK, Finish, Crash, Steps
  <2>2. strays' \subseteq Stray /\ abandons' \in 0 .. MaxAbandons
    BY <1>1, OutlivesType DEF TypeOK, Finish, Crash
  <2>3. QED
    BY <1>1, <2>1, <2>2 DEF TypeOK, Finish, Crash
<1>2. CASE Launch
  <2>1. pos' \in 1 .. Len(Steps') + 1
    <3>1. command' \in Commands /\ pos' = 1
      BY <1>2 DEF Launch
    <3>2. CASE command' = "run_all"
      BY <3>1, <3>2 DEF Steps, Program
    <3>3. CASE command' = "two_pass"
      BY <3>1, <3>3 DEF Steps, Program
    <3>4. QED
      BY <3>1, <3>2, <3>3, FlowAssumption
  <2>2. QED
    BY <1>2, <2>1 DEF TypeOK, Launch
<1>3. QED
  BY <1>1, <1>2

LEMMA InitType == Init => TypeOK
<1> SUFFICES ASSUME Init PROVE TypeOK
  OBVIOUS
<1>1. Len(Steps) \in Nat
  BY ProgramFacts DEF Init
<1>2. pos \in 1 .. Len(Steps) + 1
  BY <1>1 DEF Init
<1>3. faults \in 0 .. MaxFaults /\ abandons \in 0 .. MaxAbandons /\ crashes \in 0 .. MaxCrashes
  BY FlowAssumption DEF Init
<1>4. log \in [Gated \cup Table -> Status] /\ file \in [Table -> File]
  BY DEF Init, Status, File
<1>5. QED
  BY <1>2, <1>3, <1>4 DEF Init, TypeOK

LEMMA NextType == TypeOK /\ Inv /\ [Next]_vars => TypeOK'
<1>1. ASSUME TypeOK, UNCHANGED vars PROVE TypeOK'
  BY <1>1 DEF TypeOK, vars, control, request, service, disk, found, Steps
<1>2. QED
  BY <1>1, NextInv, ControlType, TableType, ServiceType, PhaseType, ProcessType
     DEF Next, AtService

(***************************************************************************)
(* Every variable keeps its type: no column is fingerprinted of a table    *)
(* that is not in the inventory as extracted, nothing is validated that is *)
(* not a candidate, and the program counter stays in the program of the    *)
(* command.                                                                *)
(***************************************************************************)
THEOREM TypeCorrect == Spec => []TypeOK
BY InitType, NextType, Invariance, PTL DEF Spec
-----------------------------------------------------------------------------
(* The request of the table being extracted, at the service. *)

StrayOf(t) == \E s \in strays : s.table = t

\* As long as no table is asked for next to a stray of it, the request is the
\* only writer of its file, and what it reports is what the file is.
Served ==
  /\ writing # "none" => Extracting
  /\ call # "none" => writing # "none"
  /\ ~crossed =>
       /\ call # "none" => ~StrayOf(writing)
       /\ call = "filling" => file[writing] = "open"
       /\ call \in {"answered", "marked"} => file[writing] = "whole"

(* A stray touches no file but its own, and only the table being extracted *)
(* gets a new one.                                                         *)
LEMMA StrayKeeps ==
  ASSUME TypeOK, \E s \in strays : StrayAdmitted(s) \/ StrayRefused(s) \/ StrayEnds(s)
  PROVE  /\ UNCHANGED <<call, crossed>>
         /\ \A t \in Table : ~StrayOf(t) => ~StrayOf(t)' /\ file'[t] = file[t]
<1>1. PICK s \in strays : StrayAdmitted(s) \/ StrayRefused(s) \/ StrayEnds(s)
  OBVIOUS
<1>2. UNCHANGED <<call, crossed>>
  BY <1>1 DEF StrayAdmitted, StrayRefused, StrayEnds
<1>3. ASSUME NEW t \in Table, ~StrayOf(t) PROVE ~StrayOf(t)'
  <2>1. [s EXCEPT !.state = "filling"].table = s.table
    BY DEF TypeOK, Stray
  <2>2. \A r \in strays' : r \in strays \/ r = [s EXCEPT !.state = "filling"]
    BY <1>1 DEF StrayAdmitted, StrayRefused, StrayEnds
  <2>3. QED
    BY <1>3, <2>1, <2>2 DEF StrayOf
<1>4. ASSUME NEW t \in Table, ~StrayOf(t) PROVE file'[t] = file[t]
  <2>1. s.table # t
    BY <1>4 DEF StrayOf
  <2>2. QED
    BY <1>1, <2>1 DEF StrayAdmitted, StrayRefused, StrayEnds, Opened, Left, disk, TypeOK
<1>5. QED
  BY <1>2, <1>3, <1>4

LEMMA ServiceKeeps ==
  ASSUME TypeOK, AtService, NEW t \in Table, t # writing, ~StrayOf(t)
  PROVE  ~StrayOf(t)' /\ file'[t] = file[t]
<1>1. CASE Send
  BY <1>1 DEF Send, StrayOf, disk
<1>2. CASE Admit
  BY <1>2 DEF Admit, Opened, StrayOf, service, TypeOK
<1>3. CASE Respond
  BY <1>3 DEF Respond, Left, StrayOf, service, TypeOK
<1>4. CASE TimeOut
  BY <1>4 DEF TimeOut, Outlives, StrayOf, disk
<1>5. QED
  BY <1>1, <1>2, <1>3, <1>4, StrayKeeps DEF AtService

LEMMA NextServed ==
  ASSUME TypeOK, Served, [Next]_vars
  PROVE  Served'
<1> USE DEF control, request, service, disk, found
<1>1. ASSUME writing' = "none", call' = "none" PROVE Served'
  BY <1>1 DEF Served
<1>2. ~Extracting => writing = "none" /\ call = "none"
  BY DEF Served
<1>3. ASSUME UNCHANGED <<proc, command, pos, point>> PROVE Extracting' = Extracting
  BY <1>3 DEF Extracting, At, Steps
<1>4. CASE PassOver \/ StartPhase \/ SucceedPhase \/ StartGC \/ EndGC
  <2>1. ~Extracting
    BY <1>4 DEF PassOver, StartPhase, SucceedPhase, StartGC, EndGC, Extracting, At
  <2>2. QED
    BY <1>1, <1>2, <1>4, <2>1 DEF PassOver, StartPhase, SucceedPhase, StartGC, EndGC
<1>5. CASE Fingerprint \/ GenerateCandidates \/ Validate \/ ChooseTables
           \/ ResetFingerprints \/ Reprint \/ Finish \/ Launch \/ \E t \in Table : DeleteFile(t)
  <2>1. ~Extracting
    BY <1>5 DEF Fingerprint, GenerateCandidates, Validate, ChooseTables, ResetFingerprints,
       Reprint, Finish, Launch, DeleteFile, Extracting, At
  <2>2. QED
    BY <1>1, <1>2, <1>5, <2>1 DEF Fingerprint, GenerateCandidates, Validate, ChooseTables,
       ResetFingerprints, Reprint, Finish, Launch, DeleteFile
<1>6. CASE SucceedTable \/ FailTable \/ ExtractRaises \/ ExtractReturns \/ Crash
           \/ \E t \in Table : SkipTable(t) \/ SampleTable(t)
  <2>1. writing' = "none" /\ call' = "none"
    BY <1>6 DEF SucceedTable, FailTable, ExtractRaises, ExtractReturns, Crash, SkipTable,
       SampleTable, Served
  <2>2. QED
    BY <1>1, <2>1
<1>7. CASE \E t \in Table : BeginTable(t)
  <2>1. Extracting' /\ call' = "none"
    BY <1>3, <1>7 DEF BeginTable, Served
  <2>2. QED
    BY <2>1 DEF Served
<1>8. CASE MarkExtracted
  <2>1. /\ Extracting' /\ call = "answered" /\ call' = "marked" /\ writing # "none"
        /\ UNCHANGED <<writing, crossed, strays, file>>
    BY <1>3, <1>8 DEF MarkExtracted
  <2>2. QED
    BY <2>1 DEF Served, StrayOf
<1>9. CASE AtService
  <2>1. UNCHANGED <<proc, command, pos, point, writing>>
    BY <1>9, ServiceQuiet
  <2>2. writing' # "none" => Extracting'
    BY <1>3, <2>1 DEF Served
  <2>3. CASE Send
    BY <2>1, <2>2, <2>3 DEF Send, Served, StrayOf
  <2>4. CASE Admit
    <3>1. call = "sent" /\ call' = "filling" /\ writing \in Table
          /\ UNCHANGED <<strays, crossed>>
      BY <2>4 DEF Admit, Served, TypeOK
    <3>2. ~crossed => FillingStrays(writing) = {}
      BY <3>1 DEF Served, StrayOf, FillingStrays
    <3>3. ~crossed => file'[writing] = "open"
      BY <2>4, <3>1, <3>2 DEF Admit, Opened, TypeOK
    <3>4. QED
      BY <2>1, <2>2, <3>1, <3>3 DEF Served, StrayOf
  <2>5. CASE Respond
    <3>1. call = "filling" /\ call' = "answered" /\ writing \in Table
          /\ UNCHANGED <<strays, crossed>>
      BY <2>5 DEF Respond, Served, TypeOK
    <3>2. ~crossed => file'[writing] = "whole"
      BY <2>5, <3>1 DEF Respond, Left, Served, TypeOK
    <3>3. QED
      BY <2>1, <2>2, <3>1, <3>2 DEF Served, StrayOf
  <2>6. CASE TimeOut
    BY <2>1, <2>2, <2>6 DEF TimeOut, Served
  <2>7. CASE \E s \in strays : StrayAdmitted(s) \/ StrayRefused(s) \/ StrayEnds(s)
    <3>1. /\ UNCHANGED <<call, crossed>>
          /\ \A t \in Table : ~StrayOf(t) => ~StrayOf(t)' /\ file'[t] = file[t]
      BY <2>7, StrayKeeps
    <3>2. call # "none" => writing \in Table
      BY DEF Served, TypeOK
    <3>3. StrayOf(writing)' = \E s \in strays' : s.table = writing
      BY <2>1 DEF StrayOf
    <3>4. QED
      BY <2>1, <2>2, <3>1, <3>2, <3>3 DEF Served, StrayOf
  <2>8. QED
    BY <1>9, <2>3, <2>4, <2>5, <2>6, <2>7 DEF AtService
<1>10. CASE UNCHANGED vars
  BY <1>3, <1>10 DEF vars, Served, StrayOf
<1>11. QED
  BY <1>4, <1>5, <1>6, <1>7, <1>8, <1>9, <1>10 DEF Next, AtService

LEMMA ServedInvariance == Spec => []Served
<1>1. Init => Served
  BY DEF Init, Served
<1>2. TypeOK /\ Served /\ [Next]_vars => Served'
  BY NextServed
<1>3. QED
  BY <1>1, <1>2, TypeCorrect, PTL DEF Spec
-----------------------------------------------------------------------------
(* CompleteDiscovery: run-all alone, without a failed extraction, with     *)
(* room for every file, and with no table asked for next to a stray of it. *)

Calm == used \subseteq {"run_all"} /\ faults = 0 /\ Roomy /\ ~crossed

\* The command that runs, or ran last, is one of those launched.
Launched == IF proc = "idle" THEN used = {} ELSE command \in used

Stored(t) == file[t] = "whole" /\ t \in marked /\ ~StrayOf(t)

\* A complete row stands for a file that nobody writes any more.
TablesKept ==
  /\ raised = {}
  /\ \A t \in Table : IsComplete(log, t) => Stored(t)
  /\ writing # "none" => At("extract", "body") /\ ~IsComplete(log, writing)
  /\ call = "marked" => writing \in marked
  /\ At("extract", "body") =>
       \A t \in Table : t \in left \/ t = writing \/ IsComplete(log, t)

\* The row of the step is there, or will be with the next write.
Over(op) == IsComplete(log, op) \/ At(op, "close")

\* A step that is over left nothing to do.
StepsDone ==
  /\ Over("extract") => \A t \in Table : IsComplete(log, t)
  /\ At("cap", "body") => left = {}
  /\ Over("fingerprint") => printed = Table
  /\ Over("candidate_gen") => candidates = Related
  /\ Over("validate") => validated = Related

\* The program only passes a gated step whose row is complete.
GatesKept ==
  /\ proc \in {"up", "done"} =>
       /\ pos > 1 => IsComplete(log, "extract")
       /\ pos > 3 => IsComplete(log, "fingerprint")
       /\ pos > 4 => IsComplete(log, "candidate_gen")
       /\ pos > 5 => IsComplete(log, "validate")
  /\ proc = "done" => pos = 6

Parts == TablesKept /\ StepsDone /\ GatesKept

\* The inductive invariant, next to TypeOK.
CalmInv == Launched /\ (Calm => Parts)

LEMMA RunAllSteps ==
  ASSUME NEW i \in 1 .. 6
  PROVE  LET P == Program["run_all"] IN
         /\ Len(P) = 5
         /\ (i <= 5 /\ P[i] = "extract") <=> i = 1
         /\ (i <= 5 /\ P[i] = "cap") <=> i = 2
         /\ (i <= 5 /\ P[i] = "fingerprint") <=> i = 3
         /\ (i <= 5 /\ P[i] = "candidate_gen") <=> i = 4
         /\ (i <= 5 /\ P[i] = "validate") <=> i = 5
         /\ i <= 5 => P[i] \notin {"retake", "reset", "reprint"}
<1> DEFINE P == Program["run_all"]
<1>1. P = <<"extract", "cap", "fingerprint", "candidate_gen", "validate">>
  BY DEF Program
<1>2. Len(P) = 5 /\ P[1] = "extract" /\ P[2] = "cap" /\ P[3] = "fingerprint"
      /\ P[4] = "candidate_gen" /\ P[5] = "validate"
  BY <1>1
<1> HIDE DEF P
<1>3. i = 1 \/ i = 2 \/ i = 3 \/ i = 4 \/ i = 5 \/ i = 6
  OBVIOUS
<1>4. /\ Len(P) = 5
      /\ (i <= 5 /\ P[i] = "extract") <=> i = 1
      /\ (i <= 5 /\ P[i] = "cap") <=> i = 2
      /\ (i <= 5 /\ P[i] = "fingerprint") <=> i = 3
      /\ (i <= 5 /\ P[i] = "candidate_gen") <=> i = 4
      /\ (i <= 5 /\ P[i] = "validate") <=> i = 5
      /\ i <= 5 => P[i] \notin {"retake", "reset", "reprint"}
  BY <1>2, <1>3
<1>5. QED
  BY <1>4 DEF P

\* Where the process is, when it runs run-all.
Placed ==
  \A p :
    /\ At("extract", p) <=> proc = "up" /\ pos = 1 /\ point = p
    /\ At("cap", p) <=> proc = "up" /\ pos = 2 /\ point = p
    /\ At("fingerprint", p) <=> proc = "up" /\ pos = 3 /\ point = p
    /\ At("candidate_gen", p) <=> proc = "up" /\ pos = 4 /\ point = p
    /\ At("validate", p) <=> proc = "up" /\ pos = 5 /\ point = p
    /\ ~At("retake", p) /\ ~At("reset", p) /\ ~At("reprint", p)

LEMMA PlacedNow ==
  ASSUME TypeOK, command = "run_all"
  PROVE  Placed /\ pos \in 1 .. 6 /\ Len(Steps) = 5
<1>1. Len(Steps) = 5
  BY RunAllSteps DEF Steps
<1>2. pos \in 1 .. 6
  BY <1>1 DEF TypeOK
<1>3. QED
  BY <1>1, <1>2, RunAllSteps DEF Placed, At, Steps

LEMMA PlacedNext ==
  ASSUME TypeOK', command' = "run_all"
  PROVE  Placed' /\ pos' \in 1 .. 6
<1>1. Len(Steps') = 5
  BY RunAllSteps DEF Steps
<1>2. pos' \in 1 .. 6
  BY <1>1 DEF TypeOK
<1>3. QED
  BY <1>1, <1>2, RunAllSteps DEF Placed, At, Steps
(* Steps of run-all while it is up. *)
Running ==
  /\ TypeOK /\ TypeOK'
  /\ command = "run_all" /\ command' = "run_all"
  /\ Served /\ Calm /\ Parts

LEMMA RunningPlaced ==
  ASSUME Running
  PROVE  Placed /\ Placed' /\ pos \in 1 .. 6 /\ pos' \in 1 .. 6 /\ Mode = "full"
BY PlacedNow, PlacedNext DEF Running, Mode

\* The ledger, the inventory and the files in one bundle.
LEMMA GateParts ==
  ASSUME Running, PassOver \/ StartPhase \/ SucceedPhase
  PROVE  Parts'
<1> USE RunningPlaced DEF control, request, service, disk, found, Running
<1>0. /\ UNCHANGED <<proc, raised, writing, call, strays, file, marked, printed, candidates,
                     validated>>
      /\ \A t \in Table : log'[t] = log[t]
      /\ writing # "none" => writing \in Table
      /\ raised = {}
  BY FlowAssumption DEF PassOver, StartPhase, SucceedPhase, LogStart, LogSucceed, TypeOK,
     Parts, TablesKept
<1>1. CASE PassOver
  <2>1. UNCHANGED <<log, left>> /\ pos' = pos + 1 /\ point' = "gate" /\ point = "gate" /\ proc = "up"
    BY <1>1 DEF PassOver, Advance, At
  <2>2. \/ pos = 1 /\ IsComplete(log, "extract")
        \/ pos = 3 /\ IsComplete(log, "fingerprint")
        \/ pos = 4 /\ IsComplete(log, "candidate_gen")
        \/ pos = 5 /\ IsComplete(log, "validate")
    BY <1>1 DEF PassOver, Gated, Placed
  <2>3. TablesKept'
    BY <1>0, <2>1 DEF Parts, TablesKept, Placed, Stored, StrayOf, IsComplete
  <2>4. StepsDone'
    BY <1>0, <2>1 DEF Parts, StepsDone, Over, Placed, IsComplete
  <2>5. GatesKept'
    BY <1>0, <2>1, <2>2 DEF Parts, GatesKept, IsComplete
  <2>6. QED
    BY <2>3, <2>4, <2>5 DEF Parts
<1>2. CASE StartPhase
  <2>1. UNCHANGED pos /\ point = "gate" /\ point' = "body" /\ proc = "up"
    BY <1>2 DEF StartPhase, At
  <2>2. PICK op \in Gated : /\ At(op, "gate") /\ ~IsComplete(log, op)
                            /\ log' = LogStart(log, op)
                            /\ left' = IF op = "extract" THEN Table ELSE {}
    BY <1>2 DEF StartPhase
  <2>3. \A k \in Gated : IsComplete(log', k) => IsComplete(log, k) /\ k # op
    BY <2>2 DEF IsComplete, LogStart, TypeOK
  <2>4. \A k \in Gated : k # op => log'[k] = log[k]
    BY <2>2 DEF LogStart, TypeOK
  <2>5. writing = "none"
    BY <2>1 DEF Parts, TablesKept, Placed
  <2>6. TablesKept'
    BY <1>0, <2>1, <2>2, <2>5 DEF Parts, TablesKept, Placed, Stored, StrayOf, IsComplete, Gated
  <2>7. StepsDone'
    BY <1>0, <2>1, <2>2, <2>3 DEF Parts, StepsDone, Over, Placed, IsComplete, Gated
  <2>8. GatesKept'
    BY <1>0, <2>1, <2>2, <2>4 DEF Parts, GatesKept, IsComplete, Gated, Placed
  <2>9. QED
    BY <2>6, <2>7, <2>8 DEF Parts
<1>3. CASE SucceedPhase
  <2>1. UNCHANGED left /\ pos' = pos + 1 /\ point' = "gate" /\ point = "close" /\ proc = "up"
    BY <1>3 DEF SucceedPhase, Advance, At
  <2>2. PICK op \in Gated : At(op, "close") /\ log' = LogSucceed(log, op)
    BY <1>3 DEF SucceedPhase
  <2>3. \A k \in Gated : IsComplete(log', k) => Over(k)
    BY <2>2 DEF IsComplete, LogSucceed, TypeOK, Over
  <2>4. \A k \in Gated : IsComplete(log, k) \/ k = op => IsComplete(log', k)
    BY <2>2 DEF IsComplete, LogSucceed, TypeOK
  <2>5. writing = "none"
    BY <2>1 DEF Parts, TablesKept, Placed
  <2>6. TablesKept'
    BY <1>0, <2>1, <2>5 DEF Parts, TablesKept, Placed, Stored, StrayOf, IsComplete
  <2>7. StepsDone'
    BY <1>0, <2>1, <2>3 DEF Parts, StepsDone, Over, Placed, IsComplete, Gated
  <2>8. GatesKept'
    BY <1>0, <2>1, <2>2, <2>4 DEF Parts, GatesKept, Gated, Placed
  <2>9. QED
    BY <2>6, <2>7, <2>8 DEF Parts
<1>4. QED
  BY <1>1, <1>2, <1>3

LEMMA TableParts ==
  ASSUME Running, Calm',
         \/ \E t \in Table : SkipTable(t) \/ SampleTable(t) \/ BeginTable(t)
         \/ MarkExtracted \/ SucceedTable \/ FailTable
  PROVE  Parts'
<1> USE RunningPlaced DEF control, request, service, disk, found, Running
<1>1. /\ UNCHANGED <<proc, pos, point, printed, candidates, validated>>
      /\ At("extract", "body") /\ proc = "up" /\ pos = 1 /\ point = "body"
      /\ At("extract", "body")'
  <2>1. /\ UNCHANGED <<proc, pos, point, printed, candidates, validated>>
        /\ Extracting
    BY DEF SkipTable, SampleTable, BeginTable, MarkExtracted, SucceedTable, FailTable
  <2>2. QED
    BY <2>1 DEF Extracting, Placed
<1>2. GatesKept'
  BY <1>1 DEF GatesKept
<1>3. ASSUME \A k \in Gated : log'[k] = log[k],
             \A t \in Table : IsComplete(log, t) => IsComplete(log', t)
      PROVE  StepsDone'
  BY <1>1, <1>3 DEF Parts, StepsDone, Over, Placed, Gated, IsComplete
<1>4. CASE \E t \in Table : SkipTable(t) \/ SampleTable(t)
  <2>1. PICK t \in Table : IsComplete(log, t) /\ left' = left \ {t}
    BY <1>4 DEF SkipTable, SampleTable
  <2>2. UNCHANGED <<log, raised, writing, call, strays, file, marked>>
    BY <1>4 DEF SkipTable, SampleTable
  <2>3. TablesKept'
    BY <1>1, <2>1, <2>2 DEF Parts, TablesKept, Stored, StrayOf, IsComplete
  <2>4. QED
    BY <1>2, <1>3, <2>2, <2>3 DEF Parts, IsComplete
<1>5. CASE \E t \in Table : BeginTable(t)
  <2>1. PICK t \in Table : BeginTable(t)
    BY <1>5
  <2>2. /\ ~IsComplete(log, t) /\ writing = "none" /\ writing' = t /\ left' = left \ {t}
        /\ log' = LogStart(log, t) /\ call = "none"
        /\ UNCHANGED <<raised, marked, call, strays, file>>
    BY <2>1 DEF BeginTable, Served
  <2>3. ~IsComplete(log', t)
    BY <2>2 DEF IsComplete, LogStart, TypeOK
  <2>4. /\ \A k \in Gated : log'[k] = log[k]
        /\ \A u \in Table \ {t} : log'[u] = log[u]
    BY <2>2, FlowAssumption DEF LogStart, TypeOK
  <2>5. TablesKept'
    <3>1. \A u \in Table : IsComplete(log', u) => u # t /\ IsComplete(log, u) /\ Stored(u)
      BY <2>3, <2>4 DEF Parts, TablesKept, IsComplete
    <3>2. \A u \in Table : IsComplete(log', u) => Stored(u)'
      BY <2>2, <3>1 DEF Stored, StrayOf
    <3>3. \A u \in Table : u \in left' \/ u = t \/ IsComplete(log', u)
      BY <1>1, <2>2, <2>4, FlowAssumption DEF Parts, TablesKept, IsComplete
    <3>4. raised' = {}
      BY <2>2 DEF Parts, TablesKept
    <3>5. QED
      BY <1>1, <2>2, <2>3, <3>2, <3>3, <3>4 DEF TablesKept
  <2>6. StepsDone'
    BY <1>3, <2>2, <2>4 DEF IsComplete
  <2>7. QED
    BY <1>2, <2>5, <2>6 DEF Parts
<1>6. CASE MarkExtracted
  <2>1. marked' = marked \cup {writing} /\ UNCHANGED <<log, left, raised, writing, strays, file>>
    BY <1>6 DEF MarkExtracted
  <2>2. \A u \in Table : Stored(u) => Stored(u)'
    BY <2>1 DEF Stored, StrayOf
  <2>3. TablesKept'
    BY <1>1, <2>1, <2>2 DEF Parts, TablesKept, IsComplete
  <2>4. QED
    BY <1>2, <1>3, <2>1, <2>3 DEF Parts, IsComplete
<1>7. CASE SucceedTable
  <2>1. /\ writing \in Table /\ call = "marked" /\ writing' = "none" /\ call' = "none"
        /\ log' = LogSucceed(log, writing)
        /\ UNCHANGED <<left, raised, strays, file, marked>>
    BY <1>7 DEF SucceedTable, TypeOK
  <2>2. /\ \A k \in Gated : log'[k] = log[k]
        /\ \A u \in Table \ {writing} : log'[u] = log[u]
        /\ IsComplete(log', writing)
    BY <2>1, FlowAssumption DEF LogSucceed, TypeOK, IsComplete
  <2>3. Stored(writing)
    BY <2>1 DEF Parts, TablesKept, Stored, Served, Calm
  <2>4. \A u \in Table : Stored(u) => Stored(u)'
    BY <2>1 DEF Stored, StrayOf
  <2>5. TablesKept'
    BY <1>1, <2>1, <2>2, <2>3, <2>4 DEF Parts, TablesKept, IsComplete
  <2>6. StepsDone'
    BY <1>3, <2>1, <2>2 DEF IsComplete
  <2>7. QED
    BY <1>2, <2>5, <2>6 DEF Parts
<1>8. CASE FailTable
  BY <1>8 DEF FailTable, Calm, TypeOK
<1>9. QED
  BY <1>4, <1>5, <1>6, <1>7, <1>8

LEMMA ReturnParts ==
  ASSUME Running, ExtractReturns \/ ExtractRaises
  PROVE  Parts'
<1> USE RunningPlaced DEF control, request, service, disk, found, Running
<1>1. CASE ExtractReturns
  <2>1. /\ UNCHANGED <<log, proc, pos, left, raised, writing, call, strays, file, marked, printed,
                       candidates, validated>>
        /\ point' = "close" /\ Extracting /\ writing = "none" /\ left = {}
    BY <1>1 DEF ExtractReturns
  <2>2. proc = "up" /\ pos = 1 /\ \A t \in Table : IsComplete(log, t)
    <3>1. At("extract", "body")
      BY <2>1 DEF Extracting, Placed
    <3>2. proc = "up" /\ pos = 1
      BY <3>1 DEF Placed
    <3>3. "none" \notin Table
      BY FlowAssumption
    <3>4. QED
      BY <2>1, <3>1, <3>2, <3>3 DEF Parts, TablesKept
  <2>3. TablesKept'
    BY <2>1, <2>2 DEF Parts, TablesKept, Placed, Stored, StrayOf, IsComplete
  <2>4. StepsDone'
    BY <2>1, <2>2 DEF Parts, StepsDone, Over, Placed, IsComplete
  <2>5. GatesKept'
    BY <2>1, <2>2 DEF GatesKept
  <2>6. QED
    BY <2>3, <2>4, <2>5 DEF Parts
<1>2. CASE ExtractRaises
  <2>1. raised = Table
    BY <1>2 DEF ExtractRaises, Chosen
  <2>2. QED
    BY <2>1, FlowAssumption DEF Parts, TablesKept
<1>3. QED
  BY <1>1, <1>2

LEMMA CapParts ==
  ASSUME Running, StartGC \/ EndGC \/ \E t \in Table : DeleteFile(t)
  PROVE  Parts'
<1> USE RunningPlaced DEF control, request, service, disk, found, Running
<1>1. CASE StartGC
  <2>1. Usage <= cap
    <3> DEFINE Files == {t \in Table : file[t] # "absent"}
    <3>1. IsFiniteSet(Files) /\ Cardinality(Files) <= Cardinality(Table)
      BY FlowAssumption, FS_Subset
    <3>2. Cardinality(Files) \in Nat /\ Cardinality(Table) \in Nat /\ cap \in Nat
      BY <3>1, FlowAssumption, FS_CardinalityType DEF TypeOK
    <3>3. Cardinality(Table) <= cap
      BY DEF Calm, Roomy
    <3>4. QED
      BY <3>1, <3>2, <3>3 DEF Usage
  <2>2. cap \in Nat /\ Usage \in Nat
    <3>1. IsFiniteSet({t \in Table : file[t] # "absent"})
      BY FlowAssumption, FS_Subset
    <3>2. QED
      BY <3>1, FS_CardinalityType, FlowAssumption DEF Usage, TypeOK
  <2>3. /\ left' = {} /\ point' = "body" /\ proc = "up" /\ pos = 2 /\ point = "gate"
        /\ UNCHANGED <<log, proc, pos, raised, writing, call, strays, file, marked, printed,
                       candidates, validated>>
    BY <1>1, <2>1, <2>2 DEF StartGC, Placed
  <2>4. TablesKept'
    BY <2>3 DEF Parts, TablesKept, Placed, Stored, StrayOf, IsComplete
  <2>5. StepsDone'
    BY <2>3 DEF Parts, StepsDone, Over, Placed, IsComplete
  <2>6. GatesKept'
    BY <2>3 DEF Parts, GatesKept, IsComplete
  <2>7. QED
    BY <2>4, <2>5, <2>6 DEF Parts
<1>2. CASE EndGC
  <2>1. /\ point' = "gate" /\ proc = "up" /\ pos = 2 /\ pos' = 3 /\ point = "body"
        /\ UNCHANGED <<log, proc, left, raised, writing, call, strays, file, marked, printed,
                       candidates, validated>>
    BY <1>2 DEF EndGC, Advance, Placed
  <2>2. TablesKept'
    BY <2>1 DEF Parts, TablesKept, Placed, Stored, StrayOf, IsComplete
  <2>3. StepsDone'
    BY <2>1 DEF Parts, StepsDone, Over, Placed, IsComplete
  <2>4. GatesKept'
    BY <2>1 DEF Parts, GatesKept, IsComplete
  <2>5. QED
    BY <2>2, <2>3, <2>4 DEF Parts
<1>3. CASE \E t \in Table : DeleteFile(t)
  BY <1>3 DEF DeleteFile, Parts, StepsDone
<1>4. QED
  BY <1>1, <1>2, <1>3

LEMMA WorkParts ==
  ASSUME Running, Fingerprint \/ GenerateCandidates \/ Validate
  PROVE  Parts'
<1> USE RunningPlaced DEF control, request, service, disk, found, Running
<1>1. /\ UNCHANGED <<log, proc, pos, left, raised, writing, call, strays, file, marked>>
      /\ point = "body" /\ point' = "close" /\ proc = "up" /\ pos \in {3, 4, 5}
  BY DEF Fingerprint, GenerateCandidates, Validate, Placed
<1>2. TablesKept' /\ GatesKept'
  BY <1>1 DEF Parts, TablesKept, GatesKept, Placed, Stored, StrayOf, IsComplete
<1>3. \A t \in Table : file[t] = "whole" /\ t \in marked
  BY <1>1 DEF Parts, GatesKept, StepsDone, Over, TablesKept, Stored
<1>4. Related \subseteq Table \X Table
  BY FlowAssumption
<1>5. Legible = {Table}
  BY <1>3 DEF Legible
<1>6. CASE Fingerprint
  <2>1. pos = 3 /\ UNCHANGED <<candidates, validated>>
    BY <1>6 DEF Fingerprint, Placed
  <2>2. printed' = Table
    BY <1>3, <1>5, <1>6 DEF Fingerprint, Sketch, TypeOK
  <2>3. StepsDone'
    BY <1>1, <2>1, <2>2 DEF Parts, StepsDone, Over, Placed, IsComplete
  <2>4. QED
    BY <1>2, <2>3 DEF Parts
<1>7. CASE GenerateCandidates
  <2>1. pos = 4 /\ UNCHANGED <<printed, validated>>
    BY <1>7 DEF GenerateCandidates, Placed
  <2>2. printed = Table
    BY <1>1, <2>1 DEF Parts, GatesKept, StepsDone, Over
  <2>3. candidates' = Related
    <3>1. \A pair \in Related : pair[1] \in Table /\ pair[2] \in Table
      BY <1>4
    <3>2. {pair \in Related : {pair[1], pair[2]} \subseteq printed} = Related
      BY <2>2, <3>1
    <3>3. {pair \in Related : pair[2] \in Table} = Related /\ Related \ Related = {}
      BY <3>1
    <3>4. QED
      BY <1>5, <1>7, <3>2, <3>3 DEF GenerateCandidates, TypeOK
  <2>4. StepsDone'
    BY <1>1, <2>1, <2>3 DEF Parts, StepsDone, Over, Placed, IsComplete
  <2>5. QED
    BY <1>2, <2>4 DEF Parts
<1>8. CASE Validate
  <2>1. pos = 5 /\ UNCHANGED <<printed, candidates>>
    BY <1>8 DEF Validate, Placed
  <2>2. candidates = Related
    BY <1>1, <2>1 DEF Parts, GatesKept, StepsDone, Over
  <2>3. validated' = Related
    <3>1. {pair \in candidates : {pair[1], pair[2]} \subseteq Table} = Related
      BY <1>4, <2>2
    <3>2. QED
      BY <1>5, <1>8, <2>2, <3>1 DEF Validate, TypeOK
  <2>4. StepsDone'
    BY <1>1, <2>1, <2>3 DEF Parts, StepsDone, Over, Placed, IsComplete
  <2>5. QED
    BY <1>2, <2>4 DEF Parts
<1>9. QED
  BY <1>6, <1>7, <1>8

(* The steps of the second pass are not in the program of run-all. *)
LEMMA NoSecondPass ==
  ASSUME Running PROVE ~ChooseTables /\ ~ResetFingerprints /\ ~Reprint
BY RunningPlaced DEF ChooseTables, ResetFingerprints, Reprint, Placed

LEMMA EndParts ==
  ASSUME Running, Finish \/ Crash
  PROVE  Parts'
<1> USE RunningPlaced DEF control, request, service, disk, found, Running
<1>1. /\ UNCHANGED <<log, pos, point, left, raised, file, marked, printed, candidates, validated>>
      /\ proc = "up" /\ proc' \in {"done", "crashed"}
      /\ proc' = "done" => pos = 6
  <2>1. Len(Steps) = 5
    BY PlacedNow
  <2>2. QED
    BY <2>1 DEF Finish, Crash
<1>2. TablesKept'
  <2>1. writing' = "none" /\ call' = "none"
    <3>1. proc' = "done" => ~At("extract", "body")
      BY <1>1 DEF Placed
    <3>2. QED
      BY <1>1, <3>1 DEF Finish, Crash, Parts, TablesKept, Served
  <2>2. \A t \in Table : IsComplete(log, t) => Stored(t)'
    <3> SUFFICES ASSUME NEW t \in Table, IsComplete(log, t) PROVE Stored(t)'
      OBVIOUS
    <3>1. Stored(t) /\ t # writing
      BY FlowAssumption DEF Parts, TablesKept
    <3>2. \A s \in strays' : s \in strays \/ s.table = writing
      BY DEF Finish, Crash, Outlives
    <3>3. QED
      BY <1>1, <3>1, <3>2 DEF Stored, StrayOf
  <2>3. QED
    BY <1>1, <2>1, <2>2 DEF Parts, TablesKept, At, IsComplete
<1>3. StepsDone'
  BY <1>1 DEF Parts, StepsDone, Over, Placed, IsComplete
<1>4. GatesKept'
  BY <1>1 DEF Parts, GatesKept, IsComplete
<1>5. QED
  BY <1>2, <1>3, <1>4 DEF Parts

(* Requests at the service disturb no table whose row is complete, whether *)
(* the pipeline is up or not.                                              *)
LEMMA ServiceParts ==
  ASSUME TypeOK, Parts, AtService
  PROVE  Parts'
<1>1. /\ UNCHANGED <<log, proc, pos, left, raised, writing, marked, printed, candidates,
                     validated>>
      /\ \A op, p : At(op, p)' <=> At(op, p)
  BY ServiceQuiet DEF At, Steps
<1>2. \A t \in Table : IsComplete(log, t) => Stored(t)'
  <2> SUFFICES ASSUME NEW t \in Table, IsComplete(log, t) PROVE Stored(t)'
    OBVIOUS
  <2>1. Stored(t) /\ t # writing
    BY FlowAssumption DEF Parts, TablesKept
  <2>2. QED
    BY <1>1, <2>1, ServiceKeeps DEF Stored
<1>3. call' = "marked" => call = "marked"
  BY StrayKeeps DEF AtService, Send, Admit, Respond, TimeOut
<1>4. TablesKept'
  BY <1>1, <1>2, <1>3 DEF Parts, TablesKept, IsComplete
<1>5. StepsDone' /\ GatesKept'
  BY <1>1 DEF Parts, StepsDone, GatesKept, Over, IsComplete
<1>6. QED
  BY <1>4, <1>5 DEF Parts

LEMMA LaunchParts ==
  ASSUME TypeOK', Calm', Served, Parts, Launch
  PROVE  Parts'
<1> USE DEF control, request, service, disk, found
<1>1. command' = "run_all"
  BY DEF Launch, Calm
<1>2. Placed'
  BY <1>1, PlacedNext
<1>3. /\ proc # "up" /\ proc' = "up" /\ pos' = 1 /\ point' = "gate" /\ left' = {} /\ raised' = {}
      /\ UNCHANGED <<log, writing, call, strays, file, marked, printed, candidates, validated>>
  BY DEF Launch
<1>4. writing = "none" /\ call = "none"
  BY <1>3 DEF Parts, TablesKept, At, Served
<1>5. TablesKept'
  BY <1>2, <1>3, <1>4 DEF Parts, TablesKept, Placed, Stored, StrayOf, IsComplete
<1>6. StepsDone'
  BY <1>2, <1>3 DEF Parts, StepsDone, Over, Placed, IsComplete
<1>7. GatesKept'
  BY <1>3 DEF GatesKept
<1>8. QED
  BY <1>5, <1>6, <1>7 DEF Parts

LEMMA InitCalm == Init => CalmInv
BY FlowAssumption DEF Init, CalmInv, Launched, Calm, Parts, TablesKept, StepsDone, GatesKept,
   Over, At, Stored, StrayOf, IsComplete, Gated

LEMMA NextCalm == TypeOK /\ TypeOK' /\ Served /\ CalmInv /\ [Next]_vars => CalmInv'
<1> SUFFICES ASSUME TypeOK, TypeOK', Served, CalmInv, [Next]_vars PROVE CalmInv'
  OBVIOUS
<1>1. CASE UNCHANGED vars
  BY <1>1 DEF vars, control, request, service, disk, found, CalmInv, Launched, Calm, Roomy, Parts, TablesKept,
     StepsDone, GatesKept, Over, At, Steps, Stored, StrayOf
<1>2. CASE Launch
  <2>1. Launched'
    BY <1>2 DEF Launch, Launched
  <2>2. Calm' => Calm
    BY <1>2 DEF Launch, Calm, Roomy, request, service
  <2>3. QED
    BY <1>2, <2>1, <2>2, LaunchParts DEF CalmInv
<1>3. CASE AtService
  <2>1. UNCHANGED <<proc, command, used, cap, faults>>
    BY <1>3, ServiceQuiet
  <2>2. crossed => crossed'
    BY <1>3, StrayKeeps DEF AtService, Send, Admit, Respond, TimeOut, service
  <2>3. Calm' => Calm
    BY <2>1, <2>2 DEF Calm, Roomy
  <2>4. QED
    BY <1>3, <2>1, <2>3, ServiceParts DEF CalmInv, Launched
<1>4. ASSUME Next, ~Launch, ~AtService PROVE CalmInv'
  <2>1. /\ proc = "up" /\ proc' # "idle" /\ UNCHANGED <<command, used, cap, crossed>>
        /\ faults' \in {faults, faults + 1}
    <3> USE DEF control, request, service, disk, found
    <3>1. CASE \E t \in Table : SkipTable(t) \/ SampleTable(t) \/ BeginTable(t) \/ DeleteFile(t)
      BY <3>1 DEF SkipTable, SampleTable, BeginTable, DeleteFile, Extracting, At
    <3>2. CASE MarkExtracted \/ SucceedTable \/ FailTable \/ ExtractReturns \/ ExtractRaises
      BY <3>2 DEF MarkExtracted, SucceedTable, FailTable, ExtractReturns, ExtractRaises,
         Extracting, At
    <3>3. CASE PassOver \/ StartPhase \/ SucceedPhase \/ StartGC \/ EndGC
      BY <3>3 DEF PassOver, StartPhase, SucceedPhase, StartGC, EndGC, At
    <3>4. CASE Fingerprint \/ GenerateCandidates \/ Validate \/ ChooseTables
               \/ ResetFingerprints \/ Reprint
      BY <3>4 DEF Fingerprint, GenerateCandidates, Validate, ChooseTables,
         ResetFingerprints, Reprint, At
    <3>5. CASE Finish \/ Crash
      BY <3>5 DEF Finish, Crash
    <3>6. QED
      BY <1>4, <3>1, <3>2, <3>3, <3>4, <3>5 DEF Next, AtService
  <2>2. Launched'
    BY <2>1 DEF CalmInv, Launched
  <2>3. ASSUME Calm' PROVE Parts'
    <3>1. Calm
      BY <2>1, <2>3 DEF Calm, Roomy, TypeOK
    <3>2. Running
      BY <2>1, <3>1 DEF Running, CalmInv, Launched, Calm
    <3>3. QED
      BY <1>4, <2>3, <3>2, GateParts, TableParts, ReturnParts, CapParts, WorkParts, NoSecondPass,
         EndParts DEF Next, AtService
  <2>4. QED
    BY <2>2, <2>3 DEF CalmInv
<1>5. QED
  BY <1>1, <1>2, <1>3, <1>4

LEMMA CalmInvariance == Spec => []CalmInv
<1>1. Spec => []TypeOK
  BY TypeCorrect
<1>2. QED
  BY <1>1, InitCalm, NextCalm, ServedInvariance, PTL DEF Spec

(***************************************************************************)
(* A run-all that exits with 0 has validated every relationship there is,  *)
(* when no extraction failed, the disk cap holds all files and no table    *)
(* was asked for next to a request of it that had outlived its client:     *)
(* however often it was killed and launched again, whatever such requests  *)
(* did meanwhile, for any tables and any relationships between them        *)
(* (orchestrator.run_all).                                                 *)
(***************************************************************************)
THEOREM CompleteDiscoveryHolds == Spec => []CompleteDiscovery
<1>1. CalmInv => CompleteDiscovery
  <2> SUFFICES ASSUME CalmInv, proc = "done", used = {"run_all"}, faults = 0, Roomy, ~crossed
               PROVE  validated = Related
    BY DEF CompleteDiscovery
  <2>1. Parts
    BY DEF CalmInv, Calm
  <2>2. IsComplete(log, "validate")
    BY <2>1 DEF Parts, GatesKept
  <2>3. QED
    BY <2>1, <2>2 DEF Parts, StepsDone, Over
<1>2. QED
  BY <1>1, CalmInvariance, PTL
-----------------------------------------------------------------------------
(* FullForSurvivors: the two-pass run, without a failed extraction and     *)
(* with no table asked for next to a stray of it.                          *)

LEMMA TwoPassSteps ==
  ASSUME NEW i \in 1 .. 10
  PROVE  LET P == Program["two_pass"] IN
         /\ Len(P) = 9 /\ DOMAIN P = 1 .. 9
         /\ (i <= 9 /\ P[i] = "extract") <=> i = 1
         /\ (i <= 9 /\ P[i] = "cap") <=> i = 2 \/ i = 6
         /\ (i <= 9 /\ P[i] = "fingerprint") <=> i = 3
         /\ (i <= 9 /\ P[i] = "candidate_gen") <=> i = 4
         /\ (i <= 9 /\ P[i] = "retake") <=> i = 5
         /\ (i <= 9 /\ P[i] = "reset") <=> i = 7
         /\ (i <= 9 /\ P[i] = "reprint") <=> i = 8
         /\ (i <= 9 /\ P[i] = "validate") <=> i = 9
<1> DEFINE P == Program["two_pass"]
<1>1. P = <<"extract", "cap", "fingerprint", "candidate_gen",
            "retake", "cap", "reset", "reprint", "validate">>
  BY DEF Program
<1>2. /\ Len(P) = 9 /\ DOMAIN P = 1 .. 9
      /\ P[1] = "extract" /\ P[2] = "cap" /\ P[3] = "fingerprint" /\ P[4] = "candidate_gen"
      /\ P[5] = "retake" /\ P[6] = "cap" /\ P[7] = "reset" /\ P[8] = "reprint"
      /\ P[9] = "validate"
  BY <1>1
<1> HIDE DEF P
<1>3. \/ i = 1 \/ i = 2 \/ i = 3 \/ i = 4 \/ i = 5
      \/ i = 6 \/ i = 7 \/ i = 8 \/ i = 9 \/ i = 10
  OBVIOUS
<1>4. /\ Len(P) = 9 /\ DOMAIN P = 1 .. 9
      /\ (i <= 9 /\ P[i] = "extract") <=> i = 1
      /\ (i <= 9 /\ P[i] = "cap") <=> i = 2 \/ i = 6
      /\ (i <= 9 /\ P[i] = "fingerprint") <=> i = 3
      /\ (i <= 9 /\ P[i] = "candidate_gen") <=> i = 4
      /\ (i <= 9 /\ P[i] = "retake") <=> i = 5
      /\ (i <= 9 /\ P[i] = "reset") <=> i = 7
      /\ (i <= 9 /\ P[i] = "reprint") <=> i = 8
      /\ (i <= 9 /\ P[i] = "validate") <=> i = 9
  BY <1>2, <1>3
<1>5. QED
  BY <1>4 DEF P

SecondPass == faults = 0 /\ ~crossed /\ command = "two_pass" /\ proc = "up"

\* The file is complete, and nobody writes it any more.
Full(t) == file[t] = "whole" /\ ~StrayOf(t)

\* The tables of the candidates that the second pass has still to take.
Retaking ==
  pos = 5 /\ point = "body" =>
    /\ touched = Surviving
    /\ \A t \in touched : t \in left \/ t = writing \/ Full(t)

\* From there to the end of validate, unless validate was over before.
Retaken ==
  pos \in 6 .. 9 =>
    \/ pos = 9 /\ point = "gate" /\ IsComplete(log, "validate")
    \/ touched = Surviving /\ \A t \in touched : Full(t)

PassInv == SecondPass => Retaking /\ Retaken

\* Where the process is, when it runs the two passes.
PlacedTwice ==
  \A p :
    /\ At("extract", p) <=> proc = "up" /\ pos = 1 /\ point = p
    /\ At("cap", p) <=> proc = "up" /\ (pos = 2 \/ pos = 6) /\ point = p
    /\ At("fingerprint", p) <=> proc = "up" /\ pos = 3 /\ point = p
    /\ At("candidate_gen", p) <=> proc = "up" /\ pos = 4 /\ point = p
    /\ At("retake", p) <=> proc = "up" /\ pos = 5 /\ point = p
    /\ At("reset", p) <=> proc = "up" /\ pos = 7 /\ point = p
    /\ At("reprint", p) <=> proc = "up" /\ pos = 8 /\ point = p
    /\ At("validate", p) <=> proc = "up" /\ pos = 9 /\ point = p

LEMMA PlacedTwiceNow ==
  ASSUME TypeOK, command = "two_pass"
  PROVE  PlacedTwice /\ pos \in 1 .. 10 /\ (Jump("validate") => pos' = 9)
<1>1. Len(Steps) = 9 /\ DOMAIN Steps = 1 .. 9
  BY TwoPassSteps DEF Steps
<1>2. pos \in 1 .. 10
  BY <1>1 DEF TypeOK
<1>3. \A i \in 1 .. 9 : Steps[i] = "validate" <=> i = 9
  BY TwoPassSteps DEF Steps
<1>4. Jump("validate") => pos' = 9
  BY <1>1, <1>3 DEF Jump
<1>5. PlacedTwice
  BY <1>1, <1>2, TwoPassSteps DEF PlacedTwice, At, Steps
<1>6. QED
  BY <1>2, <1>4, <1>5

LEMMA NextPass == TypeOK /\ Inv /\ Served /\ PassInv /\ [Next]_vars => PassInv'
<1> SUFFICES ASSUME TypeOK, Inv, Served, PassInv, [Next]_vars, SecondPass'
             PROVE  Retaking' /\ Retaken'
  BY DEF PassInv
<1> USE DEF control, request, service, disk, found
<1>0. ASSUME NEW t \in Table, file'[t] = file[t], UNCHANGED strays
      PROVE  Full(t) => Full(t)'
  BY <1>0 DEF Full, StrayOf
<1>1. CASE UNCHANGED vars
  BY <1>1 DEF vars, PassInv, SecondPass, Retaking, Retaken, Full, StrayOf, Surviving, IsComplete
<1>2. CASE Launch
  BY <1>2 DEF Launch, Retaking, Retaken
<1>3. CASE Finish \/ Crash \/ ExtractRaises
  BY <1>3 DEF Finish, Crash, ExtractRaises, SecondPass
<1>4. CASE FailTable
  BY <1>4 DEF FailTable, SecondPass, TypeOK
<1> DEFINE Rest == \/ PassOver \/ StartPhase \/ SucceedPhase
                   \/ \E t \in Table : SkipTable(t) \/ SampleTable(t) \/ BeginTable(t) \/ DeleteFile(t)
                   \/ MarkExtracted \/ SucceedTable \/ ExtractReturns
                   \/ StartGC \/ EndGC
                   \/ Fingerprint \/ GenerateCandidates \/ Validate
                   \/ ChooseTables \/ ResetFingerprints \/ Reprint
<1>5. ASSUME Rest PROVE Retaking' /\ Retaken'
  <2>1. proc = "up" /\ UNCHANGED <<command, faults, crossed>>
    <3>1. CASE \E t \in Table : SkipTable(t) \/ SampleTable(t) \/ BeginTable(t) \/ DeleteFile(t)
      BY <3>1 DEF SkipTable, SampleTable, BeginTable, DeleteFile, Extracting, At
    <3>2. CASE MarkExtracted \/ SucceedTable \/ ExtractReturns
      BY <3>2 DEF MarkExtracted, SucceedTable, ExtractReturns, Extracting, At
    <3>3. CASE PassOver \/ StartPhase \/ SucceedPhase \/ StartGC \/ EndGC
      BY <3>3 DEF PassOver, StartPhase, SucceedPhase, StartGC, EndGC, At
    <3>4. CASE Fingerprint \/ GenerateCandidates \/ Validate \/ ChooseTables
               \/ ResetFingerprints \/ Reprint
      BY <3>4 DEF Fingerprint, GenerateCandidates, Validate, ChooseTables,
         ResetFingerprints, Reprint, At
    <3>5. QED
      BY <1>5, <3>1, <3>2, <3>3, <3>4
  <2>2. SecondPass /\ Retaking /\ Retaken
    BY <2>1 DEF SecondPass, PassInv
  <2>3. PlacedTwice /\ pos \in 1 .. 10 /\ (Jump("validate") => pos' = 9)
    BY <2>2, PlacedTwiceNow DEF SecondPass
  <2>4. /\ UNCHANGED candidates => Surviving' = Surviving
        /\ touched \subseteq Table
    BY DEF Surviving, TypeOK
  <2>5. CASE PassOver \/ SucceedPhase
    <3>1. pos' = pos + 1 /\ point' = "gate" /\ UNCHANGED <<touched, file, strays, candidates>>
          /\ pos \in {1, 3, 4, 9}
      BY <2>3, <2>5 DEF PassOver, SucceedPhase, Advance, PlacedTwice, Gated
    <3>2. QED
      BY <3>1 DEF Retaking, Retaken
  <2>6. CASE StartPhase
    <3>1. /\ pos' = pos /\ pos \in {1, 3, 4, 9} /\ point' = "body"
          /\ UNCHANGED <<touched, file, strays, candidates>>
          /\ pos = 9 => ~IsComplete(log, "validate")
      BY <2>3, <2>6 DEF StartPhase, PlacedTwice, Gated
    <3>2. QED
      BY <1>0, <2>2, <2>4, <3>1 DEF Retaking, Retaken
  <2>7. CASE \E t \in Table : SkipTable(t) \/ SampleTable(t)
    <3>1. Mode # "full_subset" /\ pos' = pos /\ (pos = 1 \/ pos = 5)
      BY <2>3, <2>7 DEF SkipTable, SampleTable, Extracting, PlacedTwice
    <3>2. pos = 1
      BY <2>2, <3>1 DEF Mode, SecondPass
    <3>3. QED
      BY <3>1, <3>2 DEF Retaking, Retaken
  <2>8. CASE \E t \in Table : BeginTable(t)
    <3>1. PICK t \in Table : BeginTable(t)
      BY <2>8
    <3>2. /\ pos' = pos /\ (pos = 1 \/ (pos = 5 /\ point = "body")) /\ writing = "none"
          /\ writing' = t /\ left' = left \ {t}
          /\ UNCHANGED <<point, file, strays, touched, candidates>>
      BY <2>3, <3>1 DEF BeginTable, Extracting, PlacedTwice
    <3>3. "none" \notin Table
      BY FlowAssumption
    <3>4. QED
      BY <1>0, <2>2, <2>4, <3>2, <3>3 DEF Retaking, Retaken
  <2>9. CASE MarkExtracted
    <3>1. /\ pos' = pos /\ (pos = 1 \/ (pos = 5 /\ point = "body"))
          /\ UNCHANGED <<point, left, writing, file, strays, touched, candidates>>
      BY <2>3, <2>9 DEF MarkExtracted, Extracting, PlacedTwice
    <3>2. QED
      BY <1>0, <2>2, <2>4, <3>1 DEF Retaking, Retaken
  <2>10. CASE SucceedTable
    <3>1. /\ pos' = pos /\ (pos = 1 \/ (pos = 5 /\ point = "body"))
          /\ UNCHANGED <<point, left, file, strays, touched, candidates>>
          /\ call = "marked"
      BY <2>3, <2>10 DEF SucceedTable, Extracting, PlacedTwice
    <3>2. Full(writing)
      BY <2>2, <3>1 DEF Served, Full, SecondPass
    <3>3. QED
      BY <1>0, <2>2, <2>4, <3>1, <3>2 DEF Retaking, Retaken
  <2>11. CASE ExtractReturns
    <3>1. /\ (pos = 1 \/ (pos = 5 /\ point = "body")) /\ left = {} /\ writing = "none"
          /\ UNCHANGED <<touched, file, strays, candidates>>
          /\ IF Mode = "full_subset" THEN Advance ELSE UNCHANGED pos
      BY <2>3, <2>11 DEF ExtractReturns, Extracting, PlacedTwice
    <3>2. Mode = IF pos = 1 THEN "sample" ELSE "full_subset"
      BY <2>2 DEF Mode, SecondPass
    <3>3. IF pos = 1 THEN pos' = 1 ELSE pos' = 6
      BY <3>1, <3>2 DEF Advance
    <3>4. "none" \notin Table
      BY FlowAssumption
    <3>5. QED
      BY <1>0, <2>2, <2>4, <3>1, <3>3, <3>4 DEF Retaking, Retaken
  <2>12. CASE StartGC \/ EndGC
    <3>1. /\ (pos = 2 \/ pos = 6) /\ (pos' = pos \/ pos' = pos + 1)
          /\ UNCHANGED <<touched, file, strays, candidates>>
      BY <2>3, <2>12 DEF StartGC, EndGC, Advance, PlacedTwice
    <3>2. QED
      BY <1>0, <2>2, <2>4, <3>1 DEF Retaking, Retaken
  <2>13. CASE \E t \in Table : DeleteFile(t)
    <3>1. PICK t \in Table : DeleteFile(t)
      BY <2>13
    <3>2. /\ (pos = 2 \/ pos = 6) /\ pos' = pos /\ UNCHANGED <<touched, candidates>>
          /\ \A u \in Table \ {t} : file'[u] = file[u]
          /\ strays' \subseteq strays
          /\ t \notin Surviving
      BY <2>3, <3>1 DEF DeleteFile, PlacedTwice, TypeOK, Inv, Sparing
    <3>3. \A u \in Table \ {t} : Full(u) => Full(u)'
      BY <3>2 DEF Full, StrayOf
    <3>4. QED
      BY <2>2, <2>4, <3>2, <3>3 DEF Retaking, Retaken
  <2>14. CASE Fingerprint \/ GenerateCandidates
    <3>1. pos' = pos /\ (pos = 3 \/ pos = 4)
      BY <2>3, <2>14 DEF Fingerprint, GenerateCandidates, PlacedTwice
    <3>2. QED
      BY <3>1 DEF Retaking, Retaken
  <2>15. CASE Validate
    <3>1. pos' = pos /\ pos = 9 /\ point = "body" /\ UNCHANGED <<touched, file, strays, candidates>>
      BY <2>3, <2>15 DEF Validate, PlacedTwice
    <3>2. QED
      BY <1>0, <2>2, <2>4, <3>1 DEF Retaking, Retaken
  <2>16. CASE ChooseTables
    <3>1. /\ pos = 5 /\ left' = touched' /\ UNCHANGED <<log, candidates>>
          /\ touched' = Surviving \/ (IsComplete(log, "validate") /\ touched' = {})
          /\ \/ touched' = {} /\ pos' = 9 /\ point' = "gate"
             \/ touched' # {} /\ pos' = 5
      BY <2>3, <2>16 DEF ChooseTables, PlacedTwice, Jump
    <3>2. QED
      BY <2>4, <3>1 DEF Retaking, Retaken, IsComplete
  <2>17. CASE ResetFingerprints \/ Reprint
    <3>1. /\ (pos = 7 \/ pos = 8) /\ pos' = pos + 1 /\ UNCHANGED <<touched, file, strays, candidates>>
      BY <2>3, <2>17 DEF ResetFingerprints, Reprint, Advance, PlacedTwice
    <3>2. QED
      BY <1>0, <2>2, <2>4, <3>1 DEF Retaking, Retaken
  <2>18. QED
    BY <1>5, <2>5, <2>6, <2>7, <2>8, <2>9, <2>10, <2>11, <2>12, <2>13, <2>14, <2>15, <2>16,
       <2>17
<1>6. CASE AtService
  <2>1. UNCHANGED <<log, proc, command, pos, point, left, touched, writing, candidates, faults>>
    BY <1>6, ServiceQuiet
  <2>2. SecondPass /\ Retaking /\ Retaken
    <3>1. crossed => crossed'
      BY <1>6, StrayKeeps DEF AtService, Send, Admit, Respond, TimeOut
    <3>2. QED
      BY <2>1, <3>1 DEF SecondPass, PassInv
  <2>3. PlacedTwice /\ pos \in 1 .. 10
    BY <2>2, PlacedTwiceNow DEF SecondPass
  <2>4. Surviving' = Surviving /\ touched \subseteq Table
    BY <2>1 DEF Surviving, TypeOK
  <2>5. \A t \in Table : t # writing /\ Full(t) => Full(t)'
    BY <1>6, ServiceKeeps DEF Full
  <2>6. pos \in 6 .. 9 => writing = "none"
    BY <2>3 DEF Served, Extracting, PlacedTwice
  <2>7. "none" \notin Table
    BY FlowAssumption
  <2>8. Retaking'
    BY <2>1, <2>2, <2>4, <2>5 DEF Retaking
  <2>9. Retaken'
    BY <2>1, <2>2, <2>4, <2>5, <2>6, <2>7 DEF Retaken, IsComplete
  <2>10. QED
    BY <2>8, <2>9
<1>7. QED
  BY <1>1, <1>2, <1>3, <1>4, <1>5, <1>6 DEF Next, AtService

(***************************************************************************)
(* Without a failed extraction, the two-pass run validates its candidates  *)
(* on complete files only, whatever kills interrupted either pass,         *)
(* whichever commands ran before and whatever the requests they left did   *)
(* meanwhile, as long as no table was asked for next to one of those       *)
(* (run_all_two_pass, steps 6 to 9).                                       *)
(***************************************************************************)
THEOREM FullForSurvivorsHolds == Spec => FullForSurvivors
<1>1. TypeOK /\ PassInv /\ [Next]_vars =>
        [Validate /\ command = "two_pass" /\ faults = 0 /\ ~crossed =>
           \A pair \in candidates : file[pair[1]] = "whole" /\ file[pair[2]] = "whole"]_vars
  <2> SUFFICES ASSUME TypeOK, PassInv, Validate, command = "two_pass", faults = 0, ~crossed,
                      NEW pair \in candidates
               PROVE  file[pair[1]] = "whole" /\ file[pair[2]] = "whole"
    OBVIOUS
  <2>1. SecondPass /\ pos = 9 /\ point = "body"
    <3>1. At("validate", "body")
      BY DEF Validate
    <3>2. QED
      BY <3>1, PlacedTwiceNow DEF PlacedTwice, SecondPass
  <2>2. {pair[1], pair[2]} \subseteq Surviving
    BY DEF Surviving
  <2>3. QED
    BY <2>1, <2>2 DEF PassInv, Retaken, Full
<1>2. Spec => []TypeOK
  BY TypeCorrect
<1>3. Init => PassInv
  BY DEF Init, PassInv, SecondPass
<1>4. QED
  BY <1>1, <1>2, <1>3, NextPass, Invariance, ServedInvariance, PTL DEF Spec, FullForSurvivors
=============================================================================
