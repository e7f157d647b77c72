--------------------------- MODULE EvidenceBundle ----------------------------
(***************************************************************************)
(* What goes into a snapshot: create_snapshot copies five report files and *)
(* derives a briefing from them, while runs of the civicflow command, that *)
(* lock nothing, rewrite the same files one after the other.               *)
(***************************************************************************)
EXTENDS Naturals, Sequences

CONSTANTS
  Runs,       \* runs of the civicflow command; a file's content is its run
  Missing,    \* the file is not there
  Torn        \* not completely written, or written over by another run

ASSUME ContentAssumption == Missing # Torn /\ {Missing, Torn} \cap Runs = {}

(* cli.main, create_snapshot and _scheduled_briefing each in their order. *)
WriteOrder == <<"prediction", "scenario", "backtest", "monitoring", "audit">>
CopyOrder  == <<"audit", "monitoring", "prediction", "backtest", "scenario">>
BriefOrder == <<"scenario", "backtest", "monitoring", "audit", "prediction">>

Artifacts == {WriteOrder[i] : i \in DOMAIN WriteOrder}
Count     == Len(WriteOrder)

VARIABLES
  file,      \* the report files of the output directory
  stage,     \* of each run: between two reports, in one, not begun, or ended
  written,   \* how many of its report files each run has completed
  shared,    \* runs whose open report another run wrote since they opened it
  alone,     \* history: the newest run, if none was writing when it started
  command,   \* the snapshot command
  step,      \* the position in the order it follows
  copy,      \* artifacts: the bytes that go into the snapshot
  briefing,  \* the report each figure of the briefing was taken from
  overlapped \* history: a run was writing at some time of this snapshot

pipelineVars == <<file, stage, written, shared, alone>>
snapshotVars == <<command, step, copy, briefing, overlapped>>
bundleVars == <<pipelineVars, snapshotVars>>

Busy    == command \notin {"idle", "published", "failed"}
Writing == \E r \in Runs : stage[r] \in {"between", "open"}

(* Other runs that have the same report open. *)
Others(r) == {q \in Runs \ {r} : stage[q] = "open" /\ written[q] = written[r]}

(* Mutant: json.loads of a truncated report is taken for a report. *)
ParsesAnything(a) == file[a] # Missing

(* _read_json succeeds. *)
Parses(a) == file[a] \in Runs

BundleInit ==
  /\ file = [a \in Artifacts |-> Missing]
  /\ stage = [r \in Runs |-> "new"]
  /\ written = [r \in Runs |-> 0]
  /\ shared = {}
  /\ alone = Missing
  /\ command = "idle"
  /\ step = 1
  /\ copy = [a \in Artifacts |-> Missing]
  /\ briefing = [a \in Artifacts |-> Missing]
  /\ overlapped = FALSE

(* Mutant: a run resumes the list of reports where another run left it. *)
ResumeRun(r) ==
  /\ stage[r] = "new"
  /\ stage' = [stage EXCEPT ![r] = "between"]
  /\ \E q \in Runs : written' = [written EXCEPT ![r] = written[q]]
  /\ alone' = IF Writing THEN Missing ELSE r
  /\ overlapped' = (overlapped \/ Busy)
  /\ UNCHANGED <<file, shared, command, step, copy, briefing>>

(* Everything is computed, and may fail, before the first file is opened. *)
(* Nothing keeps a second run from starting while one is writing.         *)
StartRun(r) ==
  /\ stage[r] = "new"
  /\ stage' = [stage EXCEPT ![r] = "between"]
  /\ written' = [written EXCEPT ![r] = 0]
  /\ alone' = IF Writing THEN Missing ELSE r
  /\ overlapped' = (overlapped \/ Busy)
  /\ UNCHANGED <<file, shared, command, step, copy, briefing>>

(* open("w") truncates, under the hands of other runs too. *)
OpenReport(r) ==
  /\ stage[r] = "between" /\ written[r] < Count
  /\ stage' = [stage EXCEPT ![r] = "open"]
  /\ file' = [file EXCEPT ![WriteOrder[written[r] + 1]] = Torn]
  /\ shared' = (shared \ {r}) \cup Others(r)
  /\ UNCHANGED <<written, alone, snapshotVars>>

(* A full buffer goes to the file, maybe over what another run completed. *)
FlushReport(r) ==
  /\ stage[r] = "open"
  /\ file' = [file EXCEPT ![WriteOrder[written[r] + 1]] = Torn]
  /\ shared' = shared \cup Others(r)
  /\ UNCHANGED <<stage, written, alone, snapshotVars>>

(* The file is closed: the run's report, unless another run has truncated *)
(* or written the file meanwhile and holes or a longer rest remain.       *)
WriteReport(r) ==
  /\ stage[r] = "open"
  /\ \E bytes \in {r} \cup (IF r \in shared THEN {Torn} ELSE {}) :
       file' = [file EXCEPT ![WriteOrder[written[r] + 1]] = bytes]
  /\ stage' = [stage EXCEPT ![r] = "between"]
  /\ written' = [written EXCEPT ![r] = @ + 1]
  /\ shared' = (shared \cup Others(r)) \ {r}
  /\ UNCHANGED <<alone, snapshotVars>>

(* A run ends: completely, or killed between any two steps. *)
EndRun(r) ==
  /\ stage[r] \in {"between", "open"}
  /\ stage' = [stage EXCEPT ![r] = "ended"]
  /\ UNCHANGED <<file, written, shared, alone, snapshotVars>>

StartSnapshot ==
  /\ command = "idle"
  /\ overlapped' = Writing
  /\ command' = "copy"
  /\ UNCHANGED <<pipelineVars, step, copy, briefing>>

(* is_file and read_bytes of the next artifact. *)
CopyBytes ==
  /\ command = "copy"
  /\ file[CopyOrder[step]] # Missing
  /\ copy' = [copy EXCEPT ![CopyOrder[step]] = file[CopyOrder[step]]]
  /\ command' = "parse"
  /\ UNCHANGED <<pipelineVars, step, briefing, overlapped>>

(* _read_json opens the file a second time. *)
ParseFile ==
  /\ command = "parse"
  /\ Parses(CopyOrder[step])
  /\ IF step < Count THEN step' = step + 1 /\ command' = "copy"
                     ELSE step' = 1 /\ command' = "brief"
  /\ UNCHANGED <<pipelineVars, copy, briefing, overlapped>>

(* _scheduled_briefing opens it a third time. *)
BriefFile ==
  /\ command = "brief"
  /\ Parses(BriefOrder[step])
  /\ briefing' = [briefing EXCEPT ![BriefOrder[step]] = file[BriefOrder[step]]]
  /\ IF step < Count THEN step' = step + 1 /\ command' = "brief"
                     ELSE step' = 1 /\ command' = "published"
  /\ UNCHANGED <<pipelineVars, copy, overlapped>>

(* "required artifact is missing or unsafe", "cannot read required artifact". *)
RejectSource ==
  /\ \/ command = "copy" /\ file[CopyOrder[step]] = Missing
     \/ command = "parse" /\ ~Parses(CopyOrder[step])
     \/ command = "brief" /\ ~Parses(BriefOrder[step])
  /\ command' = "failed"
  /\ UNCHANGED <<pipelineVars, step, copy, briefing, overlapped>>

(* The next snapshot starts over, under another name. *)
NextSnapshot ==
  /\ command \in {"published", "failed"}
  /\ command' = "idle"
  /\ step' = 1
  /\ copy' = [a \in Artifacts |-> Missing]
  /\ briefing' = [a \in Artifacts |-> Missing]
  /\ UNCHANGED <<pipelineVars, overlapped>>

Pipeline ==
  \E r \in Runs :
    StartRun(r) \/ OpenReport(r) \/ FlushReport(r) \/ WriteReport(r) \/ EndRun(r)
Snapshot == \/ StartSnapshot \/ CopyBytes \/ ParseFile \/ BriefFile \/ RejectSource
            \/ NextSnapshot

BundleNext == Pipeline \/ Snapshot
BundleSpec == BundleInit /\ [][BundleNext]_bundleVars

-----------------------------------------------------------------------------
(* A published snapshot holds five complete reports, whatever run of the    *)
(* command was killed before it and in whatever file, as long as none was   *)
(* writing meanwhile: the bytes that are kept and the file that _read_json  *)
(* accepts come from two separate reads.  The figures of its briefing come  *)
(* from complete reports even while the command rewrites the files.         *)
ReportsReadable ==
  command = "published" => \A a \in Artifacts :
    briefing[a] \in Runs /\ (~overlapped => copy[a] \in Runs)

OneRun == \A a, b \in Artifacts : copy[a] = copy[b] /\ briefing[a] = copy[b]

(* docs/snapshot-retention.md: the command "turns a completed CivicFlow     *)
(* pipeline run into an immutable executive evidence snapshot": when the    *)
(* newest run wrote all its reports, and no run was writing when it started *)
(* or while the snapshot was taken, all that is published comes from that   *)
(* run, whatever runs were killed or interleaved before it.  The command    *)
(* does nothing to keep runs apart: that no run overlaps the newest one is  *)
(* the caller's to see to, a precondition.                                  *)
CompletedRunIsOneRun ==
  [][command # "published" /\ command' = "published"
       /\ ~overlapped /\ alone # Missing /\ written[alone] = Count
       => OneRun']_bundleVars
=============================================================================
