---------------------------- MODULE SnapshotStore ----------------------------
(***************************************************************************)
(* The directory of executive snapshots: civicflow-snapshot jobs publish a *)
(* bundle (create_snapshot) and then apply the retention policy            *)
(* (enforce_retention) on the directory they share.                        *)
(*                                                                         *)
(* A bundle's directory is named by the UTC instant of its creation, so an *)
(* instant stands for the bundle.  Directories whose name starts with "."  *)
(* (bundles still being written) are invisible to every step below.        *)
(***************************************************************************)
EXTENDS Naturals, FiniteSets

CONSTANTS
  Jobs,             \* runs of the civicflow-snapshot command
  Earlier,          \* the publisher of bundles older than the model
  MaxTime,          \* the last instant: bounds the clock
  ExplicitTimes,    \* values given to --as-of; the default is the clock
  Fragile,          \* bundles the storage may damage
  RetentionDays,    \* SnapshotRetentionPolicy.retention_days, in instants
  MinimumSnapshots  \* SnapshotRetentionPolicy.minimum_snapshots

Instants == 1..MaxTime
None == 0   \* no instant, and no publisher

ASSUME PolicyAssumption ==
  /\ MaxTime \in Nat
  /\ RetentionDays \in Nat \ {0}
  /\ MinimumSnapshots \in Nat \ {0}
  /\ ExplicitTimes \subseteq Instants
  /\ Earlier \notin Jobs
  /\ None \notin Jobs \cup {Earlier}

VARIABLES
  clock,       \* datetime.now(UTC)
  bundle,      \* what is on disk under each name
  publisher,   \* the job that published that name last; None if nobody did
  pc,          \* "rejected": a check raised; "failed": anything else did
  asOf,        \* created_at of the job's bundle and evaluated_at of its retention
  applying,    \* --apply-retention
  todo,        \* directories listed and not verified yet
  records,     \* bundles verified: the input of the retention decisions
  candidates,  \* bundles decided "delete" and not removed yet
  deleted,     \* RetentionReport.deleted_snapshot_ids
  unfit        \* history: listed directories that were not whole

diskVars == <<clock, bundle, publisher>>
jobVars  == <<pc, asOf, applying, todo, records, candidates, deleted, unfit>>
vars     == <<diskVars, jobVars>>

(* "damaged": a file missing, added or changed; "torn": part of the files *)
(* unlinked by rmtree; "empty": all of them, the directory still there.   *)
Conditions == {"absent", "whole", "damaged", "torn", "empty"}
Kept(i)    == bundle[i] \in {"whole", "damaged"}
Labels     == {"idle", "rename", "check", "list", "scan", "remove", "unlink", "rmdir",
               "report", "done", "rejected", "failed"}
Removing   == {"remove", "unlink", "rmdir"}
Decided    == Removing \cup {"report", "done"}
NewerKept(i) == {n \in Instants : n > i /\ Kept(n)}
Protected(i) == Cardinality(NewerKept(i)) >= MinimumSnapshots

(* Mutant: the floor protects one bundle too few. *)
ExpiredShortFloor(seen, now) ==
  {i \in seen : /\ Cardinality({n \in seen : n > i}) + 1 >= MinimumSnapshots
                /\ i + RetentionDays < now}

(* Mutant: the cutoff excludes the bundle that is exactly retention_days old. *)
ExpiredAtCutoff(seen, now) ==
  {i \in seen : /\ Cardinality({n \in seen : n > i}) >= MinimumSnapshots
                /\ i + RetentionDays <= now}

(* decisions: sorted newest first, "delete" beyond the floor and the window. *)
Expired(seen, now) ==
  {i \in seen : /\ Cardinality({n \in seen : n > i}) >= MinimumSnapshots
                /\ i + RetentionDays < now}

(* Candidates are removed in the order of the decisions, newest first. *)
IsNext(j, c) == c \in candidates[j] /\ \A d \in candidates[j] : d <= c

-----------------------------------------------------------------------------
Init ==
  /\ clock \in Instants
  /\ \E old \in SUBSET {i \in Instants : i < clock} :
       /\ bundle = [i \in Instants |-> IF i \in old THEN "whole" ELSE "absent"]
       /\ publisher = [i \in Instants |-> IF i \in old THEN Earlier ELSE None]
  /\ pc = [j \in Jobs |-> "idle"]
  /\ asOf = [j \in Jobs |-> None]
  /\ applying = [j \in Jobs |-> FALSE]
  /\ todo = [j \in Jobs |-> {}]
  /\ records = [j \in Jobs |-> {}]
  /\ candidates = [j \in Jobs |-> {}]
  /\ deleted = [j \in Jobs |-> {}]
  /\ unfit = [j \in Jobs |-> {}]

Goto(j, label) == pc' = [pc EXCEPT ![j] = label]

Proceed(j, label) ==
  /\ Goto(j, label)
  /\ UNCHANGED <<diskVars, asOf, applying, todo, records, candidates, deleted, unfit>>

(* The name is free when the job looks; the bundle is then written aside. *)
Start(j, t, apply) ==
  /\ pc[j] = "idle"
  /\ t \in ExplicitTimes \cup {clock}
  /\ bundle[t] = "absent"
  /\ Goto(j, "rename")
  /\ asOf' = [asOf EXCEPT ![j] = t]
  /\ applying' = [applying EXCEPT ![j] = apply]
  /\ UNCHANGED <<diskVars, todo, records, candidates, deleted, unfit>>

(* FileExistsError: snapshot already exists. *)
RejectReusedId(j, t) ==
  /\ pc[j] = "idle"
  /\ t \in ExplicitTimes \cup {clock}
  /\ bundle[t] # "absent"
  /\ Proceed(j, "failed")

(* Mutant: the publication replaces whatever has the name (copytree, os.replace). *)
ReplaceBundle(j) ==
  /\ pc[j] = "rename"
  /\ bundle' = [bundle EXCEPT ![asOf[j]] = "whole"]
  /\ publisher' = [publisher EXCEPT ![asOf[j]] = j]
  /\ unfit' = [k \in Jobs |-> unfit[k] \ {asOf[j]}]
  /\ Goto(j, "check")
  /\ UNCHANGED <<clock, asOf, applying, todo, records, candidates, deleted>>

(* rename(2) takes a free name, or that of an empty directory. *)
Publish(j) ==
  /\ pc[j] = "rename"
  /\ bundle[asOf[j]] \in {"absent", "empty"}
  /\ bundle' = [bundle EXCEPT ![asOf[j]] = "whole"]
  /\ publisher' = [publisher EXCEPT ![asOf[j]] = j]
  /\ unfit' = [k \in Jobs |-> unfit[k] \ {asOf[j]}]
  /\ Goto(j, "check")
  /\ UNCHANGED <<clock, asOf, applying, todo, records, candidates, deleted>>

LoseRename(j) ==
  /\ pc[j] = "rename"
  /\ bundle[asOf[j]] \notin {"absent", "empty"}
  /\ Proceed(j, "failed")

(* verify_snapshot(destination), the last statement of create_snapshot. *)
CheckOwn(j) ==
  /\ pc[j] = "check"
  /\ Proceed(j, IF bundle[asOf[j]] = "whole" THEN "list" ELSE "rejected")

(* snapshot_root.iterdir() reads the whole directory at once. *)
List(j) ==
  /\ pc[j] = "list"
  /\ todo' = [todo EXCEPT ![j] = {i \in Instants : bundle[i] # "absent"}]
  /\ unfit' = [unfit EXCEPT ![j] = {i \in Instants : bundle[i] \notin {"absent", "whole"}}]
  /\ Goto(j, "scan")
  /\ UNCHANGED <<diskVars, asOf, applying, records, candidates, deleted>>

VerifyEntry(j, i) ==
  /\ pc[j] = "scan"
  /\ i \in todo[j]
  /\ bundle[i] = "whole"
  /\ i <= asOf[j]
  /\ todo' = [todo EXCEPT ![j] = @ \ {i}]
  /\ records' = [records EXCEPT ![j] = @ \cup {i}]
  /\ UNCHANGED <<diskVars, pc, asOf, applying, candidates, deleted, unfit>>

(* Mutant: an entry that does not verify is skipped. *)
SkipEntry(j, i) ==
  /\ pc[j] = "scan"
  /\ i \in todo[j]
  /\ bundle[i] # "whole" \/ i > asOf[j]
  /\ todo' = [todo EXCEPT ![j] = @ \ {i}]
  /\ UNCHANGED <<diskVars, pc, asOf, applying, records, candidates, deleted, unfit>>

(* An entry that is gone, does not verify, or is dated after evaluated_at. *)
RejectEntry(j, i) ==
  /\ pc[j] = "scan"
  /\ i \in todo[j]
  /\ bundle[i] # "whole" \/ i > asOf[j]
  /\ Proceed(j, "rejected")

DecideDryRun(j) ==
  /\ pc[j] = "scan"
  /\ todo[j] = {}
  /\ ~applying[j]
  /\ Proceed(j, "report")

DecideApply(j) ==
  /\ pc[j] = "scan"
  /\ todo[j] = {}
  /\ applying[j]
  /\ candidates' = [candidates EXCEPT ![j] = Expired(records[j], asOf[j])]
  /\ Goto(j, "remove")
  /\ UNCHANGED <<diskVars, asOf, applying, todo, records, deleted, unfit>>

(* The second verify_snapshot of a candidate. *)
Recheck(j, c) ==
  /\ pc[j] = "remove"
  /\ IsNext(j, c)
  /\ Proceed(j, IF bundle[c] = "whole" THEN "unlink" ELSE "rejected")

(* rmtree, some of the files. *)
UnlinkSome(j, c) ==
  /\ pc[j] = "unlink"
  /\ IsNext(j, c)
  /\ Kept(c)
  /\ bundle' = [bundle EXCEPT ![c] = "torn"]
  /\ UNCHANGED <<clock, publisher, jobVars>>

UnlinkAll(j, c) ==
  /\ pc[j] = "unlink"
  /\ IsNext(j, c)
  /\ bundle[c] # "absent"
  /\ bundle' = [bundle EXCEPT ![c] = "empty"]
  /\ Goto(j, "rmdir")
  /\ UNCHANGED <<clock, publisher, asOf, applying, todo, records, candidates, deleted, unfit>>

RemoveDirectory(j, c) ==
  /\ pc[j] = "rmdir"
  /\ IsNext(j, c)
  /\ bundle[c] = "empty"
  /\ bundle' = [bundle EXCEPT ![c] = "absent"]
  /\ candidates' = [candidates EXCEPT ![j] = @ \ {c}]
  /\ deleted' = [deleted EXCEPT ![j] = @ \cup {c}]
  /\ Goto(j, "remove")
  /\ UNCHANGED <<clock, publisher, asOf, applying, todo, records, unfit>>

(* Another job took files of the same bundle, or still does. *)
Contended(j, c) == \E k \in Jobs \ {j} : c \in deleted[k] \/ IsNext(k, c)

(* A file, or the directory, that another job's rmtree has taken. *)
LoseRemoval(j, c) ==
  /\ IsNext(j, c)
  /\ \/ pc[j] = "unlink" /\ bundle[c] \in {"torn", "empty"} /\ Contended(j, c)
     \/ pc[j] = "unlink" /\ bundle[c] = "absent"
     \/ pc[j] = "rmdir" /\ bundle[c] # "empty"
  /\ Proceed(j, "failed")

(* write_retention_report, the last statement of main. *)
Report(j) ==
  /\ pc[j] = "report" \/ (pc[j] = "remove" /\ candidates[j] = {})
  /\ Proceed(j, "done")

(* The job is killed, or one of its reads or writes fails. *)
Crash(j) ==
  /\ pc[j] \notin {"idle", "done", "rejected", "failed"}
  /\ Proceed(j, "failed")

(* The storage loses, adds or changes a file. *)
Damage(i) ==
  /\ i \in Fragile
  /\ bundle[i] = "whole"
  /\ bundle' = [bundle EXCEPT ![i] = "damaged"]
  /\ UNCHANGED <<clock, publisher, jobVars>>

Tick ==
  /\ clock < MaxTime
  /\ clock' = clock + 1
  /\ UNCHANGED <<bundle, publisher, jobVars>>

Step(j) ==
  \/ \E t \in Instants : RejectReusedId(j, t) \/ \E apply \in BOOLEAN : Start(j, t, apply)
  \/ Publish(j) \/ LoseRename(j) \/ CheckOwn(j) \/ List(j)
  \/ \E i \in Instants : VerifyEntry(j, i) \/ RejectEntry(j, i)
  \/ DecideDryRun(j) \/ DecideApply(j)
  \/ \E c \in Instants : \/ Recheck(j, c) \/ UnlinkSome(j, c) \/ UnlinkAll(j, c)
                          \/ RemoveDirectory(j, c) \/ LoseRemoval(j, c)
  \/ Report(j) \/ Crash(j)

Next == Tick \/ (\E i \in Instants : Damage(i)) \/ (\E j \in Jobs : Step(j))

Spec == Init /\ [][Next]_vars

-----------------------------------------------------------------------------
TypeOK ==
  /\ clock \in Instants
  /\ bundle \in [Instants -> Conditions]
  /\ publisher \in [Instants -> Jobs \cup {Earlier, None}]
  /\ pc \in [Jobs -> Labels]
  /\ asOf \in [Jobs -> Instants \cup {None}]
  /\ applying \in [Jobs -> BOOLEAN]
  /\ todo \in [Jobs -> SUBSET Instants]
  /\ records \in [Jobs -> SUBSET Instants]
  /\ candidates \in [Jobs -> SUBSET Instants]
  /\ deleted \in [Jobs -> SUBSET Instants]
  /\ unfit \in [Jobs -> SUBSET Instants]

(* The newest minimum_snapshots bundles are protected however many jobs     *)
(* apply retention at once, from decisions made on listings of different    *)
(* moments: a bundle that is gone, going or condemned has that many newer   *)
(* ones on disk.                                                            *)
FloorHolds ==
  /\ \A i \in Instants : publisher[i] # None /\ ~Kept(i) => Protected(i)
  /\ \A j \in Jobs : \A c \in candidates[j] : Protected(c)

(* One bundle that does not verify stops the job: a job decides, and        *)
(* deletes, only when every directory it listed was whole, or has since     *)
(* been published anew.                                                     *)
UnfitBlocksRetention == \A j \in Jobs : pc[j] \in Decided => unfit[j] = {}

(* snapshot_retention: no bundle is removed before it is retention_days old *)
(* by the clock, but by a job whose --as-of lies in the future, however     *)
(* long ago the job took its decision.                                      *)
WindowHolds ==
  [][\A i \in Instants : Kept(i) /\ ~Kept(i)' =>
       \/ i + RetentionDays < clock
       \/ \E j \in Jobs : i \in candidates[j] /\ clock < asOf[j]]_vars

(* Evidence is never overwritten, even by two jobs of the same second.      *)
Immutable ==
  [][\A i \in Instants : Kept(i) /\ Kept(i)' => publisher'[i] = publisher[i]]_vars
=============================================================================
