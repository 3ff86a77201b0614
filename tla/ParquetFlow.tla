----------------------------- MODULE ParquetFlow -----------------------------
(***************************************************************************)
(* The life of the extracted files under run-all and run-all --two-pass:   *)
(* phase 2 writes them, the disk cap deletes those it takes for orphans,   *)
(* phases 3a and 5 read them, and the second pass overwrites some in       *)
(* place.  All of it resumes from the ledger after a kill.                 *)
(*                                                                         *)
(* The extraction service is a process of its own and fills the file at    *)
(* the canonical path in place.  A request whose client was killed, or     *)
(* stopped waiting, goes on there: it still waits for a permit or still    *)
(* writes, while the pipeline is launched again, asks for the same table   *)
(* or reads its file.                                                      *)
(*                                                                         *)
(* Extraction, BatchPhase and Orchestrator model each phase with its       *)
(* threads, batches and exceptions, and Extraction the permits; here the   *)
(* tables are taken one after another, a phase after extraction is a few   *)
(* steps, and only the extraction of a table can fail.  Phase 3b reads the *)
(* files as 3a does and is left out.                                       *)
(***************************************************************************)
EXTENDS Naturals, Sequences, FiniteSets, RunLog

CONSTANTS
  Table,        \* rows of tbl_inventory in the schemas of the job
  Related,      \* <<child, parent>> tables between which phase 4 proposes a key
                \* once both are fingerprinted
  Caps,         \* storage.parquet_cap_bytes, counted in files
  Commands,     \* how the pipeline is launched: "run_all", "two_pass"
  MaxFaults,    \* bound: extractions that fail
  MaxAbandons,  \* bound: requests that outlive their client
  MaxCrashes    \* bound: deaths of the process

\* The steps with a global row in the ledger.
Gated == {"extract", "fingerprint", "candidate_gen", "validate"}

ASSUME FlowAssumption ==
  /\ IsFiniteSet(Table)
  /\ Table # {}
  /\ Table \cap (Gated \cup {"none"}) = {}
  /\ Related \subseteq Table \X Table
  /\ Caps \subseteq Nat /\ Caps # {}
  /\ Commands \subseteq {"run_all", "two_pass"} /\ Commands # {}
  /\ {MaxFaults, MaxAbandons, MaxCrashes} \subseteq Nat

VARIABLES
  log,         \* run_log: global rows by phase, extract rows by table
  proc,        \* the pipeline process: how it ended, or "up"
  command,     \* what it was launched with
  used,        \* every command launched on these results so far
  pos,         \* index of the current step in Program[command]
  point,       \* "gate", "body" or "close" of that step
  left,        \* tables the step has still to handle
  raised,      \* tables whose extraction task raised
  touched,     \* touched_table_ids of the second pass
  writing,     \* the table being extracted, or "none"
  call,        \* how far its request is
  strays,      \* requests at the service that nobody waits for
  crossed,     \* history: a table was asked for while a stray of it was alive
  file,        \* the file at the canonical path of each table
  marked,      \* tables whose tbl_inventory.status is 'extracted'
  printed,     \* tables whose columns have fingerprinted_at set
  candidates,  \* rows of fk_candidates
  validated,   \* candidates with a row in relationships
  cap, faults, abandons, crashes

disk == <<file, marked>>
found == <<printed, candidates, validated>>
control == <<proc, command, used, cap, crashes>>
service == <<strays, crossed, abandons>>
request == <<writing, call, service>>
vars == <<log, control, pos, point, left, raised, touched, request, disk, found, faults>>

\* run_all and run_all_two_pass, between inventory and the advanced phases.
Program ==
  [run_all |->
     <<"extract", "cap", "fingerprint", "candidate_gen", "validate">>,
   two_pass |->
     <<"extract", "cap", "fingerprint", "candidate_gen",
       "retake", "cap", "reset", "reprint", "validate">>]

Steps == Program[command]
At(op, p) == proc = "up" /\ pos <= Len(Steps) /\ Steps[pos] = op /\ point = p

\* extraction.run_phase_2(mode=...): only "full" keeps rows by table.
Mode == CASE command = "run_all" -> "full"
          [] command = "two_pass" /\ pos = 1 -> "sample"
          [] OTHER -> "full_subset"

\* A request at the service waits for a permit ("sent") or fills the file.
Stray == [id : 1 .. MaxAbandons, table : Table, state : {"sent", "filling"}]

\* "open": being filled, or left without footer.  "partial": closed before the
\* last row.  "mixed": two writers had it open at once, and it may be anything.
File == {"absent", "open", "partial", "mixed", "whole"}

TypeOK ==
  /\ log \in [Gated \cup Table -> Status]
  /\ proc \in {"idle", "up", "done", "failed", "crashed"}
  /\ command \in Commands
  /\ used \subseteq Commands
  /\ pos \in 1 .. Len(Steps) + 1
  /\ point \in {"gate", "body", "close"}
  /\ left \subseteq Table /\ raised \subseteq Table /\ touched \subseteq Table
  /\ writing \in Table \cup {"none"}
  /\ call \in {"none", "sent", "filling", "answered", "marked"}
  /\ strays \subseteq Stray
  /\ crossed \in BOOLEAN
  /\ file \in [Table -> File]
  /\ marked \subseteq Table /\ printed \subseteq marked
  /\ validated \subseteq candidates /\ candidates \subseteq Related
  /\ cap \in Caps
  /\ faults \in 0 .. MaxFaults /\ abandons \in 0 .. MaxAbandons /\ crashes \in 0 .. MaxCrashes

Init ==
  /\ log = [k \in Gated \cup Table |-> "none"]
  /\ proc = "idle" /\ command \in Commands /\ used = {}
  /\ pos = 1 /\ point = "gate"
  /\ left = {} /\ raised = {} /\ touched = {}
  /\ writing = "none" /\ call = "none" /\ strays = {} /\ crossed = FALSE
  /\ file = [t \in Table |-> "absent"]
  /\ marked = {} /\ printed = {} /\ candidates = {} /\ validated = {}
  /\ cap \in Caps
  /\ faults = 0 /\ abandons = 0 /\ crashes = 0
-----------------------------------------------------------------------------
Advance == pos' = pos + 1 /\ point' = "gate"

Jump(op) == pos' = (CHOOSE i \in DOMAIN Steps : Steps[i] = op) /\ point' = "gate"

\* Mutant of Surviving: only the child side of the candidates.
MutantSurviving == {pair[1] : pair \in candidates}

\* Tables on either side of a candidate.
Surviving == UNION {{pair[1], pair[2]} : pair \in candidates}

\* The global row of the phase is complete: _run_phase passes over it.
PassOver ==
  /\ \E op \in Gated : At(op, "gate") /\ IsComplete(log, op)
  /\ Advance
  /\ UNCHANGED <<log, control, left, raised, touched, request, disk, found, faults>>

StartPhase ==
  /\ \E op \in Gated :
       /\ At(op, "gate")
       /\ ~IsComplete(log, op)
       /\ log' = LogStart(log, op)
       /\ left' = IF op = "extract" THEN Table ELSE {}
  /\ raised' = {}
  /\ point' = "body"
  /\ UNCHANGED <<control, pos, touched, request, disk, found, faults>>

\* The phase function returned.
SucceedPhase ==
  /\ \E op \in Gated : At(op, "close") /\ log' = LogSucceed(log, op)
  /\ Advance
  /\ UNCHANGED <<control, left, raised, touched, request, disk, found, faults>>
-----------------------------------------------------------------------------
\* Phase 2, the tables one after another.

Extracting == At("extract", "body") \/ At("retake", "body")

\* Mutant of SkipTable: a row of any status counts as complete.
MutantSkipTable(t) ==
  /\ Extracting /\ writing = "none" /\ t \in left
  /\ Mode = "full" /\ log[t] # "none"
  /\ left' = left \ {t}
  /\ UNCHANGED <<log, control, pos, point, raised, touched, request, disk, found, faults>>

SkipTable(t) ==
  /\ Extracting /\ writing = "none" /\ t \in left
  /\ Mode = "full" /\ IsComplete(log, t)
  /\ left' = left \ {t}
  /\ UNCHANGED <<log, control, pos, point, raised, touched, request, disk, found, faults>>

\* A sample goes to a file of its own, and the inventory is not updated.
SampleTable(t) ==
  /\ Extracting /\ writing = "none" /\ t \in left
  /\ Mode = "sample"
  /\ left' = left \ {t}
  /\ UNCHANGED <<log, control, pos, point, raised, touched, request, disk, found, faults>>

BeginTable(t) ==
  /\ Extracting /\ writing = "none" /\ t \in left
  /\ Mode = "full" => ~IsComplete(log, t)
  /\ Mode # "sample"
  /\ writing' = t
  /\ left' = left \ {t}
  /\ log' = IF Mode = "full" THEN LogStart(log, t) ELSE log
  /\ UNCHANGED <<control, pos, point, raised, touched, call, service, disk, found, faults>>

\* extract_sync: the first attempt, or one more after a timeout.
Send ==
  /\ Extracting /\ writing # "none" /\ call = "none"
  /\ call' = "sent"
  /\ crossed' = (crossed \/ \E s \in strays : s.table = writing)
  /\ UNCHANGED <<log, control, pos, point, left, raised, touched, writing, strays, abandons,
                 disk, found, faults>>

FillingStrays(t) == {s \in strays : s.table = t /\ s.state = "filling"}

\* A writer opens the file of t, truncating it; alone or next to another.
Opened(t, alone) == file' = [file EXCEPT ![t] = IF alone THEN "open" ELSE "mixed"]

\* A writer leaves the file of t in state f.
Left(t, f) == file' = [file EXCEPT ![t] = IF @ = "mixed" THEN "mixed" ELSE f]

Admit ==
  /\ call = "sent"
  /\ call' = "filling"
  /\ Opened(writing, FillingStrays(writing) = {})
  /\ UNCHANGED <<log, control, pos, point, left, raised, touched, writing, service, marked,
                 found, faults>>

\* The last row is written, the footer too, and the manifest comes back.
Respond ==
  /\ call = "filling"
  /\ call' = "answered"
  /\ Left(writing, "whole")
  /\ UNCHANGED <<log, control, pos, point, left, raised, touched, writing, service, marked,
                 found, faults>>

\* The request goes on at the service without its client.
Outlives ==
  /\ writing # "none" /\ call \in {"sent", "filling"}
  /\ abandons < MaxAbandons /\ abandons' = abandons + 1
  /\ strays' = strays \cup {[id |-> abandons', table |-> writing, state |-> call]}

\* The client stops waiting; it tries again, or gives up.
TimeOut ==
  /\ Extracting
  /\ Outlives
  /\ call' = "none"
  /\ UNCHANGED <<log, control, pos, point, left, raised, touched, writing, crossed, disk,
                 found, faults>>

MarkExtracted ==
  /\ Extracting /\ writing # "none" /\ call = "answered"
  /\ call' = "marked"
  /\ marked' = marked \cup {writing}
  /\ UNCHANGED <<log, control, pos, point, left, raised, touched, writing, service, file,
                 found, faults>>

SucceedTable ==
  /\ Extracting /\ writing # "none" /\ call = "marked"
  /\ log' = IF Mode = "full" THEN LogSucceed(log, writing) ELSE log
  /\ writing' = "none" /\ call' = "none"
  /\ UNCHANGED <<control, pos, point, left, raised, touched, service, disk, found, faults>>

\* The last attempt timed out, was refused, or broke off: the footer is
\* written all the same, unless the service itself ended.
FailTable ==
  /\ Extracting /\ writing # "none" /\ call \in {"none", "sent", "filling"}
  /\ faults < MaxFaults /\ faults' = faults + 1
  /\ IF call = "filling"
     THEN \E f \in {"partial", "open"} : Left(writing, f)
     ELSE UNCHANGED file
  /\ log' = IF Mode = "full" THEN LogFail(log, writing) ELSE log
  /\ raised' = raised \cup {writing}
  /\ writing' = "none" /\ call' = "none"
  /\ UNCHANGED <<control, pos, point, left, touched, service, marked, found>>

Chosen == IF Mode = "full_subset" THEN touched ELSE Table

ExtractReturns ==
  /\ Extracting /\ writing = "none" /\ left = {}
  /\ raised # Chosen
  /\ IF Mode = "full_subset" THEN Advance ELSE point' = "close" /\ UNCHANGED pos
  /\ UNCHANGED <<log, control, left, raised, touched, request, disk, found, faults>>

\* Every task raised.  The second pass runs outside _run_phase: no row.
ExtractRaises ==
  /\ Extracting /\ writing = "none" /\ left = {}
  /\ raised = Chosen
  /\ log' = IF Mode = "full_subset" THEN log ELSE LogFail(log, "extract")
  /\ proc' = "failed"
  /\ UNCHANGED <<command, used, cap, crashes, pos, point, left, raised, touched,
                 request, disk, found, faults>>
-----------------------------------------------------------------------------
\* The disk cap, checked whether or not the extraction ran in this process.

Usage == Cardinality({t \in Table : file[t] # "absent"})

StartGC ==
  /\ At("cap", "gate")
  /\ left' = IF Usage > cap THEN marked \ Surviving ELSE {}
  /\ point' = "body"
  /\ UNCHANGED <<log, control, pos, raised, touched, request, disk, found, faults>>

\* The inventory keeps calling the table extracted, at the same path.  A stray
\* that has the file open goes on in a file without a name.
DeleteFile(t) ==
  /\ At("cap", "body") /\ t \in left
  /\ file' = [file EXCEPT ![t] = "absent"]
  /\ strays' = strays \ FillingStrays(t)
  /\ left' = left \ {t}
  /\ UNCHANGED <<log, control, pos, point, raised, touched, writing, call, crossed, abandons,
                 marked, found, faults>>

\* Also early: a file that cannot be unlinked is passed over, and any other
\* exception of the collection is swallowed.
EndGC ==
  /\ At("cap", "body")
  /\ Advance
  /\ UNCHANGED <<log, control, left, raised, touched, request, disk, found, faults>>
-----------------------------------------------------------------------------
\* What a reader may get to read: a file without footer raises, one that two
\* writers left may do either.
Legible ==
  LET Closed == {t \in Table : file[t] \in {"partial", "whole"}}
      Mixed  == {t \in Table : file[t] = "mixed"}
  IN {Closed \cup M : M \in SUBSET Mixed}

\* Phase 3a: a column whose file cannot be read is left as it was.
Sketch == \E R \in Legible : printed' = printed \cup (marked \cap R)

Fingerprint ==
  /\ At("fingerprint", "body")
  /\ Sketch
  /\ point' = "close"
  /\ UNCHANGED <<log, control, pos, left, raised, touched, request, disk, candidates,
                 validated, faults>>

\* Phase 4 reads the sketches of the database, and row counts from the files:
\* a parent without declared key is only recognised if its file can be read.
GenerateCandidates ==
  /\ At("candidate_gen", "body")
  /\ LET Known == {pair \in Related : {pair[1], pair[2]} \subseteq printed} IN
     \E R \in Legible :
       LET Sure == {pair \in Known : pair[2] \in R} IN
       \E Keyless \in SUBSET (Known \ Sure) :
         candidates' = candidates \cup Sure \cup Keyless
  /\ point' = "close"
  /\ UNCHANGED <<log, control, pos, left, raised, touched, request, disk, printed,
                 validated, faults>>

\* Phase 5: a candidate with an unreadable file fails and is not stored.
Validate ==
  /\ At("validate", "body")
  /\ \E R \in Legible :
       validated' = validated \cup {pair \in candidates : {pair[1], pair[2]} \subseteq R}
  /\ point' = "close"
  /\ UNCHANGED <<log, control, pos, left, raised, touched, request, disk, printed,
                 candidates, faults>>
-----------------------------------------------------------------------------
\* Mutant of ChooseTables: the tables that were extracted once are left alone.
MutantChooseTables ==
  /\ At("retake", "gate")
  /\ touched' = IF IsComplete(log, "validate") THEN {} ELSE Surviving \ marked
  /\ left' = touched'
  /\ raised' = {}
  /\ IF touched' = {} THEN Jump("validate") ELSE point' = "body" /\ UNCHANGED pos
  /\ UNCHANGED <<log, control, request, disk, found, faults>>

\* The second pass takes the surviving tables again, unless phase 5 is over.
ChooseTables ==
  /\ At("retake", "gate")
  /\ touched' = IF IsComplete(log, "validate") THEN {} ELSE Surviving
  /\ left' = touched'
  /\ raised' = {}
  /\ IF touched' = {} THEN Jump("validate") ELSE point' = "body" /\ UNCHANGED pos
  /\ UNCHANGED <<log, control, request, disk, found, faults>>

ResetFingerprints ==
  /\ At("reset", "gate")
  /\ printed' = printed \ touched
  /\ Advance
  /\ UNCHANGED <<log, control, left, raised, touched, request, disk, candidates,
                 validated, faults>>

Reprint ==
  /\ At("reprint", "gate")
  /\ Sketch
  /\ Advance
  /\ UNCHANGED <<log, control, left, raised, touched, request, disk, candidates,
                 validated, faults>>

Finish ==
  /\ proc = "up" /\ pos = Len(Steps) + 1
  /\ proc' = "done"
  /\ UNCHANGED <<log, command, used, cap, crashes, pos, point, left, raised, touched,
                 request, disk, found, faults>>

-----------------------------------------------------------------------------
(* Requests whose client is gone, at the service. *)

StrayAdmitted(s) ==
  /\ s.state = "sent"
  /\ strays' = (strays \ {s}) \cup {[s EXCEPT !.state = "filling"]}
  /\ Opened(s.table, FillingStrays(s.table) = {} /\ ~(call = "filling" /\ writing = s.table))
  /\ UNCHANGED <<log, control, pos, point, left, raised, touched, writing, call, crossed,
                 abandons, marked, found, faults>>

\* It finds no permit, or is refused.
StrayRefused(s) ==
  /\ s.state = "sent"
  /\ strays' = strays \ {s}
  /\ UNCHANGED <<log, control, pos, point, left, raised, touched, writing, call, crossed,
                 abandons, disk, found, faults>>

StrayEnds(s) ==
  /\ s.state = "filling"
  /\ strays' = strays \ {s}
  /\ \E f \in {"whole", "partial", "open"} : Left(s.table, f)
  /\ UNCHANGED <<log, control, pos, point, left, raised, touched, writing, call, crossed,
                 abandons, marked, found, faults>>
-----------------------------------------------------------------------------
\* The pipeline dies: alone, and its request goes on, or with the service.
\* Files stay as they are.
Crash ==
  /\ proc = "up"
  /\ crashes < MaxCrashes
  /\ crashes' = crashes + 1
  /\ proc' = "crashed"
  /\ writing' = "none" /\ call' = "none"
  /\ \/ Outlives
     \/ call \notin {"sent", "filling"} /\ UNCHANGED <<strays, abandons>>
     \/ strays' = {} /\ UNCHANGED abandons
  /\ UNCHANGED <<log, command, used, cap, pos, point, left, raised, touched, crossed, disk,
                 found, faults>>

Launch ==
  /\ proc # "up"
  /\ proc' = "up"
  /\ command' \in Commands
  /\ used' = used \cup {command'}
  /\ pos' = 1 /\ point' = "gate"
  /\ left' = {} /\ raised' = {} /\ touched' = {}
  /\ UNCHANGED <<log, request, disk, found, cap, faults, crashes>>

Next ==
  \/ PassOver \/ StartPhase \/ SucceedPhase
  \/ \E t \in Table : SkipTable(t) \/ SampleTable(t) \/ BeginTable(t) \/ DeleteFile(t)
  \/ Send \/ Admit \/ Respond \/ TimeOut
  \/ MarkExtracted \/ SucceedTable \/ FailTable \/ ExtractReturns \/ ExtractRaises
  \/ \E s \in strays : StrayAdmitted(s) \/ StrayRefused(s) \/ StrayEnds(s)
  \/ StartGC \/ EndGC
  \/ Fingerprint \/ GenerateCandidates \/ Validate
  \/ ChooseTables \/ ResetFingerprints \/ Reprint
  \/ Finish \/ Crash \/ Launch

Spec == Init /\ [][Next]_vars
-----------------------------------------------------------------------------
Roomy == Cardinality(Table) <= cap

(***************************************************************************)
(* When run-all exits with 0 and no extraction failed, every relationship  *)
(* there is was validated, however often the process was killed on the     *)
(* way, and whatever its requests went on doing meanwhile: resuming skips  *)
(* nothing it still needs (orchestrator.run_all).  This takes a disk cap   *)
(* above the volume of the extracted files, and that no table was asked    *)
(* for again while an earlier request for it was alive at the service: the *)
(* code does not wait for it, and then two writers share the file.         *)
(***************************************************************************)
CompleteDiscovery ==
  proc = "done" /\ used = {"run_all"} /\ faults = 0 /\ Roomy /\ ~crossed =>
    validated = Related

(***************************************************************************)
(* The collection of orphans spares both sides of every candidate, also    *)
(* when it runs in a resumed process or after the second pass: "Tables     *)
(* that survive Phase 4 candidate generation are required by Phase 5       *)
(* validate [...] so they MUST be kept" (gc_orphaned_parquet).  So once a  *)
(* candidate has been validated its files stay, until a second pass        *)
(* rewrites them.                                                          *)
(***************************************************************************)
SurvivorsKept ==
  [][\A pair \in candidates : \A t \in {pair[1], pair[2]} :
        file[t] # "absent" => file'[t] # "absent"]_vars

(***************************************************************************)
(* Without a failed extraction, the two-pass run validates its candidates  *)
(* on complete files only: whatever kills interrupted the first or the     *)
(* second pass, the files they left half-written, and those their requests *)
(* went on writing, were taken again (run_all_two_pass, steps 6 to 9).  As *)
(* above, no table was asked for while an earlier request for it was alive.*)
(***************************************************************************)
FullForSurvivors ==
  [][Validate /\ command = "two_pass" /\ faults = 0 /\ ~crossed =>
       \A pair \in candidates : file[pair[1]] = "whole" /\ file[pair[2]] = "whole"]_vars

(***************************************************************************)
(* The two-pass run finds what run-all finds: "Phase 3a fingerprint on     *)
(* sampled parquet", "Phase 4 candidate generation on sampled              *)
(* fingerprints" (orchestrator.py), with nothing going wrong.              *)
(***************************************************************************)
TriageFindsAll ==
  proc = "done" /\ command = "two_pass" /\ faults + abandons + crashes = 0 => validated = Related
=============================================================================
