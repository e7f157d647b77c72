--------------------------- MODULE AssumptionAudit ---------------------------
(***************************************************************************)
(* The hash chain of approved staffing assumptions: which histories        *)
(* verify_assumption_history accepts after lines were approved, and after  *)
(* the file was altered, reordered, cut or merged by mistake; and what     *)
(* runs of the pipeline then say of the assumptions their reports used.    *)
(***************************************************************************)
EXTENDS Naturals, Sequences, SequencesExt

CONSTANTS
  Assumptions,  \* assumption snapshots
  Absent,       \* no assumptions
  Invalid,      \* snapshots that fail their own validation
  Runs,         \* runs of the civicflow command
  NoRun,        \* the run of a report that is not there
  MaxEntries,   \* bounds the file
  MaxMishaps    \* bounds the changes that are not approvals

ASSUME AuditAssumption ==
  /\ Invalid \subseteq Assumptions /\ Absent \notin Assumptions /\ NoRun \notin Runs
  /\ MaxEntries \in Nat /\ MaxMishaps \in Nat

VARIABLES
  file,       \* staffing_assumption_history.jsonl
  config,     \* staffing_assumptions.json
  approved,   \* history: the entries reviewers approved, in order
  branches,   \* history: the files approvals on other branches produced
  mishaps,
  stage,      \* of each run: the last of its steps, "new" before them
  loaded,     \* the assumptions each run computes with, or Absent
  verdict,    \* the status each run's audit came to, or "none"
  scenario,   \* staffing_scenario_report.json: whose, and from what assumptions
  audit       \* assumption_audit_report.json: whose, and its status

historyVars == <<file, config, approved, branches, mishaps>>
runVars     == <<stage, loaded, verdict, scenario, audit>>
auditVars   == <<historyVars, runVars>>

(* SHA-256 over the entry without its hash: no two entries share a digest. *)
Digest(e) == <<e.version, e.previous, e.assumptions>>

Entry(version, previous, a) ==
  LET unsigned == [version |-> version, previous |-> previous, assumptions |-> a]
  IN  [version |-> version, previous |-> previous, assumptions |-> a, hash |-> Digest(unsigned)]

PreviousHash(f, i) == IF i = 1 THEN <<>> ELSE Digest(f[i - 1])

(* Mutant: the entry's own hash is only used for the next one. *)
ChainedUnsigned(f) ==
  /\ f # <<>>
  /\ \A i \in DOMAIN f : /\ f[i].version = i
                         /\ f[i].previous = PreviousHash(f, i)
                         /\ f[i].assumptions \notin Invalid

Chained(f) ==
  /\ f # <<>>
  /\ \A i \in DOMAIN f : /\ f[i].version = i
                         /\ f[i].previous = PreviousHash(f, i)
                         /\ f[i].assumptions \notin Invalid
                         /\ f[i].hash = Digest(f[i])

(* Mutant: the configuration is read again. *)
VerdictReread(a) ==
  IF ~Chained(file) THEN "rejected"
  ELSE IF Last(file).assumptions = config THEN "verified" ELSE "action_required"

(* verify_assumption_history of the assumptions a *)
Verdict(a) ==
  IF ~Chained(file) THEN "rejected"
  ELSE IF Last(file).assumptions = a THEN "verified" ELSE "action_required"

-----------------------------------------------------------------------------
AuditInit ==
  /\ file = <<>>
  /\ config \in Assumptions \ Invalid
  /\ approved = <<>>
  /\ branches = {}
  /\ mishaps = 0
  /\ stage = [r \in Runs |-> "new"]
  /\ loaded = [r \in Runs |-> Absent]
  /\ verdict = [r \in Runs |-> "none"]
  /\ scenario = [run |-> NoRun, used |-> Absent]
  /\ audit = [run |-> NoRun, status |-> "none"]

(* A reviewer approves a snapshot on top of an undamaged file. *)
Approve(a) ==
  /\ file = approved /\ Len(file) < MaxEntries
  /\ file' = Append(file, Entry(Len(file) + 1, PreviousHash(file, Len(file) + 1), a))
  /\ approved' = file'
  /\ UNCHANGED <<config, branches, mishaps, runVars>>

Damage(f) ==
  /\ mishaps < MaxMishaps
  /\ mishaps' = mishaps + 1
  /\ file' = f
  /\ UNCHANGED <<config, approved, runVars>>

(* A snapshot is edited in place. *)
Alter(i, a) == Damage([file EXCEPT ![i].assumptions = a]) /\ UNCHANGED branches

(* A line is lost, or two change places. *)
DropLine(i)     == Damage(RemoveAt(file, i)) /\ UNCHANGED branches
SwapLines(i, j) == Damage([file EXCEPT ![i] = file[j], ![j] = file[i]]) /\ UNCHANGED branches

(* The line a branch approved on top of an older file is merged. *)
Merge(i, a) ==
  LET entry == Entry(i + 1, PreviousHash(approved, i + 1), a)
  IN  /\ Len(file) < MaxEntries /\ i < MaxEntries
      /\ Damage(Append(file, entry))
      /\ branches' = branches \cup {Append(SubSeq(approved, 1, i), entry)}

Configure(a) ==
  /\ config' = a
  /\ UNCHANGED <<file, approved, branches, mishaps, runVars>>

(* cli.main: load_department_assumptions refuses what does not validate. *)
LoadAssumptions(r) ==
  /\ stage[r] = "new"
  /\ stage' = [stage EXCEPT ![r] = "loaded"]
  /\ loaded' = [loaded EXCEPT ![r] = config]
  /\ UNCHANGED <<historyVars, verdict, scenario, audit>>

(* The reports are computed, then the history is read and judged; if that   *)
(* raises, the run ends and writes nothing.                                 *)
AuditHistory(r) ==
  /\ stage[r] = "loaded"
  /\ verdict' = [verdict EXCEPT ![r] = Verdict(loaded[r])]
  /\ stage' = [stage EXCEPT ![r] = IF verdict'[r] = "rejected" THEN "ended" ELSE "audited"]
  /\ UNCHANGED <<historyVars, loaded, scenario, audit>>

(* The staffing reports are written, and three reports later the audit's. *)
WriteScenario(r) ==
  /\ stage[r] = "audited"
  /\ stage' = [stage EXCEPT ![r] = "scenario"]
  /\ scenario' = [run |-> r, used |-> loaded[r]]
  /\ UNCHANGED <<historyVars, loaded, verdict, audit>>

WriteAudit(r) ==
  /\ stage[r] = "scenario"
  /\ stage' = [stage EXCEPT ![r] = "ended"]
  /\ audit' = [run |-> r, status |-> verdict[r]]
  /\ UNCHANGED <<historyVars, loaded, verdict, scenario>>

(* A run is killed, between the two reports too. *)
Kill(r) ==
  /\ stage[r] \notin {"new", "ended"}
  /\ stage' = [stage EXCEPT ![r] = "ended"]
  /\ UNCHANGED <<historyVars, loaded, verdict, scenario, audit>>

AuditNext ==
  \/ \E a \in Assumptions \ Invalid : Approve(a)
  \/ \E i \in DOMAIN file, a \in Assumptions : Alter(i, a)
  \/ \E i \in DOMAIN file : DropLine(i)
  \/ \E i, j \in DOMAIN file : i < j /\ SwapLines(i, j)
  \/ \E i \in 0..Len(approved), a \in Assumptions \ Invalid : Merge(i, a)
  \/ \E a \in Assumptions \ Invalid : Configure(a)
  \/ \E r \in Runs :
       LoadAssumptions(r) \/ AuditHistory(r) \/ WriteScenario(r) \/ WriteAudit(r) \/ Kill(r)

AuditSpec == AuditInit /\ [][AuditNext]_auditVars

-----------------------------------------------------------------------------
(* "Pipeline validation recomputes the chain and rejects altered history":  *)
(* an accepted file is one that approvals on one branch produced, or the    *)
(* beginning of one; and no history that reviewers approved is rejected.    *)
OnlyApprovedPasses ==
  /\ Chained(file) => IsPrefix(file, approved) \/ file \in branches
  /\ file = approved /\ file # <<>> => Chained(file)

(* When the audit report says verified and the staffing report beside it    *)
(* is the same run's, a reviewer approved the assumptions that report was   *)
(* computed with, whatever was configured, approved or damaged while the    *)
(* run went on and whatever other runs wrote.  Reports do not name their    *)
(* run: a killed or an overlapping run leaves two runs' reports side by     *)
(* side, and of those nothing is promised.                                  *)
VerifiedMeansApproved ==
  audit.status = "verified" /\ audit.run = scenario.run =>
    \E f \in branches \cup {approved} : \E i \in DOMAIN f : f[i].assumptions = scenario.used
=============================================================================
