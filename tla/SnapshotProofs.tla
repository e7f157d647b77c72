---------------------------- MODULE SnapshotProofs ----------------------------
(***************************************************************************)
(* Proofs about the executive snapshots: about SnapshotStore, for any      *)
(* number of jobs, any clock and any retention policy, and about           *)
(* EvidenceBundle, for any number of runs of the pipeline.                 *)
(***************************************************************************)
EXTENDS SnapshotStore, EvidenceBundle, FiniteSetTheorems, TLAPS

(* What is on disk, and the records of every job, somebody published. *)
Published ==
  /\ \A i \in Instants : bundle[i] # "absent" => publisher[i] # None
  /\ \A j \in Jobs : \A i \in records[j] : publisher[i] # None

(* A set of instants counts at most what a larger one does. *)
LEMMA SubsetCounts ==
  ASSUME NEW S, NEW T \in SUBSET Instants, S \subseteq T
  PROVE  /\ Cardinality(S) \in Nat
         /\ Cardinality(T) \in Nat
         /\ Cardinality(S) <= Cardinality(T)
<1>1. IsFiniteSet(Instants)
  <2>1. MaxTime \in Int /\ 1 \in Int
    BY PolicyAssumption
  <2> QED BY <2>1, FS_Interval DEF Instants
<1>2. IsFiniteSet(T)
  BY <1>1, FS_Subset
<1>3. IsFiniteSet(S) /\ Cardinality(S) <= Cardinality(T)
  BY <1>2, FS_Subset
<1> QED BY <1>2, <1>3, FS_CardinalityType

(* Everything starts with values of its type. *)
LEMMA InitTyped == Init => TypeOK
<1> SUFFICES ASSUME Init PROVE TypeOK
  OBVIOUS
<1>1. \E old \in SUBSET {i \in Instants : i < clock} :
        /\ bundle = [i \in Instants |-> IF i \in old THEN "whole" ELSE "absent"]
        /\ publisher = [i \in Instants |-> IF i \in old THEN Earlier ELSE None]
  BY DEF Init
<1>2. bundle \in [Instants -> Conditions]
  BY <1>1 DEF Conditions
<1>3. publisher \in [Instants -> Jobs \cup {Earlier, None}]
  BY <1>1
<1> QED BY <1>2, <1>3 DEF Init, TypeOK, Labels

(* Every step keeps the types. *)
LEMMA NextTyped == TypeOK /\ [Next]_vars => TypeOK'
<1> SUFFICES ASSUME TypeOK, [Next]_vars PROVE TypeOK'
  OBVIOUS
<1> USE DEF TypeOK, Conditions, Labels, Goto, diskVars, jobVars, Proceed
<1>1. CASE Tick
  <2>1. clock' \in Instants
    BY <1>1, PolicyAssumption DEF Tick, Instants
  <2> QED BY <1>1, <2>1 DEF Tick
<1>2. ASSUME NEW i \in Instants, Damage(i) PROVE TypeOK'
  BY <1>2 DEF Damage
<1>3. ASSUME NEW j \in Jobs, Step(j) PROVE TypeOK'
  <2>1. ASSUME NEW t \in Instants, NEW apply \in BOOLEAN, Start(j, t, apply) PROVE TypeOK'
    BY <2>1 DEF Start
  <2>2. ASSUME NEW t \in Instants, RejectReusedId(j, t) PROVE TypeOK'
    BY <2>2 DEF RejectReusedId
  <2>3. CASE Publish(j)
    BY <2>3 DEF Publish
  <2>4. CASE LoseRename(j) \/ CheckOwn(j) \/ Report(j) \/ Crash(j) \/ DecideDryRun(j)
    BY <2>4 DEF LoseRename, CheckOwn, Report, Crash, DecideDryRun
  <2>5. CASE List(j)
    BY <2>5 DEF List
  <2>6. ASSUME NEW i \in Instants, VerifyEntry(j, i) PROVE TypeOK'
    BY <2>6 DEF VerifyEntry
  <2>7. ASSUME NEW i \in Instants, RejectEntry(j, i) PROVE TypeOK'
    BY <2>7 DEF RejectEntry
  <2>8. CASE DecideApply(j)
    BY <2>8 DEF DecideApply, Expired
  <2>9. ASSUME NEW c \in Instants, Recheck(j, c) \/ LoseRemoval(j, c) PROVE TypeOK'
    BY <2>9 DEF Recheck, LoseRemoval
  <2>10. ASSUME NEW c \in Instants, UnlinkSome(j, c) \/ UnlinkAll(j, c) PROVE TypeOK'
    BY <2>10 DEF UnlinkSome, UnlinkAll
  <2>11. ASSUME NEW c \in Instants, RemoveDirectory(j, c) PROVE TypeOK'
    BY <2>11 DEF RemoveDirectory
  <2> QED BY <1>3, <2>1, <2>2, <2>3, <2>4, <2>5, <2>6, <2>7, <2>8, <2>9, <2>10, <2>11 DEF Step
<1>4. CASE UNCHANGED vars
  BY <1>4 DEF vars
<1> QED BY <1>1, <1>2, <1>3, <1>4 DEF Next

(* The types of SnapshotStore hold in every reachable state. *)
THEOREM TypeCorrect == Spec => []TypeOK
BY InitTyped, NextTyped, PTL DEF Spec

-----------------------------------------------------------------------------
(* A bundle stays protected while no newer one goes. *)
LEMMA ProtectedStays ==
  ASSUME NEW i \in Instants, Protected(i),
         \A n \in Instants : n > i /\ Kept(n) => Kept(n)'
  PROVE  Protected(i)'
<1>1. NewerKept(i) \subseteq NewerKept(i)' /\ NewerKept(i)' \in SUBSET Instants
  BY DEF NewerKept
<1> QED BY <1>1, SubsetCounts, PolicyAssumption DEF Protected

(* What protects a bundle protects the older ones. *)
LEMMA ProtectedDown ==
  ASSUME NEW i \in Instants, NEW n \in Instants, i <= n, Protected(n)
  PROVE  Protected(i)
<1>1. NewerKept(n) \subseteq NewerKept(i) /\ NewerKept(i) \in SUBSET Instants
  BY DEF NewerKept, Instants
<1> QED BY <1>1, SubsetCounts, PolicyAssumption DEF Protected

(* The strengthening: a job's records were published by somebody, so those  *)
(* that are gone again are protected themselves.                            *)
FloorInv == TypeOK /\ FloorHolds /\ Published

(* A decision to delete is sound, whatever became of the records since.     *)
LEMMA ExpiredProtected ==
  ASSUME FloorInv, NEW j \in Jobs, NEW c \in Expired(records[j], asOf[j])
  PROVE  Protected(c)
<1> DEFINE Above == {n \in records[j] : n > c}
<1>1. records[j] \subseteq Instants /\ c \in Instants
  BY DEF FloorInv, TypeOK, Expired
<1>2. Cardinality(Above) >= MinimumSnapshots
  BY DEF Expired
<1>3. CASE \A n \in Above : Kept(n)
  <2>1. Above \subseteq NewerKept(c) /\ NewerKept(c) \in SUBSET Instants
    BY <1>1, <1>3 DEF NewerKept
  <2>2. Cardinality(Above) <= Cardinality(NewerKept(c)) /\ Cardinality(Above) \in Nat
        /\ Cardinality(NewerKept(c)) \in Nat
    BY <2>1, SubsetCounts
  <2> QED BY <1>2, <2>2, PolicyAssumption DEF Protected
<1>4. ASSUME NEW n \in Above, ~Kept(n) PROVE Protected(c)
  <2>1. n \in Instants /\ c <= n /\ publisher[n] # None
    BY <1>1 DEF FloorInv, Published, Instants
  <2>2. Protected(n)
    BY <1>4, <2>1 DEF FloorInv, FloorHolds
  <2> QED BY <1>1, <2>1, <2>2, ProtectedDown
<1> QED BY <1>3, <1>4

(* A step that removes no bundle and condemns none leaves the floor intact. *)
LEMMA FloorStays ==
  ASSUME FloorInv, TypeOK',
         \A i \in Instants : Kept(i) => Kept(i)',
         \A i \in Instants : publisher'[i] # None /\ ~Kept(i)' => publisher[i] # None,
         \A j \in Jobs : candidates'[j] \subseteq candidates[j]
  PROVE  FloorHolds'
<1>1. ASSUME NEW i \in Instants, publisher'[i] # None, ~Kept(i)' PROVE Protected(i)'
  <2>1. publisher[i] # None /\ ~Kept(i)
    BY <1>1
  <2>2. Protected(i)
    BY <2>1 DEF FloorInv, FloorHolds
  <2> QED BY <2>2, ProtectedStays
<1>2. ASSUME NEW j \in Jobs, NEW c \in candidates'[j] PROVE Protected(c)'
  <2>1. c \in candidates[j] /\ c \in Instants
    BY DEF FloorInv, TypeOK
  <2>2. Protected(c)
    BY <2>1 DEF FloorInv, FloorHolds
  <2> QED BY <2>1, <2>2, ProtectedStays
<1> QED BY <1>1, <1>2 DEF FloorHolds

(* Removing one protected bundle leaves every other protected. *)
LEMMA FloorAfterUnlink ==
  ASSUME FloorInv, NEW c \in Instants, NEW j \in Jobs, c \in candidates[j],
         \A i \in Instants \ {c} : Kept(i) => Kept(i)',
         UNCHANGED <<publisher, candidates>>
  PROVE  FloorHolds'
<1>1. Protected(c)'
  <2>1. Protected(c)
    BY DEF FloorInv, FloorHolds
  <2>2. \A n \in Instants : n > c /\ Kept(n) => Kept(n)'
    BY DEF Instants
  <2> QED BY <2>1, <2>2, ProtectedStays
<1>2. ASSUME NEW i \in Instants, Protected(i) PROVE Protected(i)'
  <2>1. CASE i <= c
    <3>1. NewerKept(c)' \subseteq NewerKept(i)' /\ NewerKept(i)' \in SUBSET Instants
      BY <2>1 DEF NewerKept, Instants
    <3> QED BY <1>1, <3>1, SubsetCounts, PolicyAssumption DEF Protected
  <2>2. CASE ~(i <= c)
    <3>1. \A n \in Instants : n > i /\ Kept(n) => Kept(n)'
      BY <2>2 DEF Instants
    <3> QED BY <1>2, <3>1, ProtectedStays
  <2> QED BY <2>1, <2>2
<1>3. ASSUME NEW i \in Instants, publisher'[i] # None, ~Kept(i)' PROVE Protected(i)'
  <2>1. CASE i = c
    BY <2>1, <1>1
  <2>2. CASE i # c
    BY <1>2, <1>3, <2>2 DEF FloorInv, FloorHolds
  <2> QED BY <2>1, <2>2
<1>4. ASSUME NEW k \in Jobs, NEW d \in candidates'[k] PROVE Protected(d)'
  BY <1>2 DEF FloorInv, FloorHolds, TypeOK
<1> QED BY <1>3, <1>4 DEF FloorHolds

-----------------------------------------------------------------------------
(* Every step keeps the floor and the record of what was published. *)
LEMMA FloorStep == FloorInv /\ [Next]_vars => FloorInv'
<1> SUFFICES ASSUME FloorInv, [Next]_vars PROVE FloorInv'
  OBVIOUS
<1>0. TypeOK /\ TypeOK'
  BY NextTyped DEF FloorInv
<1> USE <1>0 DEF TypeOK, Goto, Proceed, diskVars, jobVars
<1>a. None \notin Jobs
  BY PolicyAssumption
<1>b. ASSUME UNCHANGED <<bundle, publisher, candidates, records>> PROVE FloorInv'
  <2>1. FloorHolds'
    BY <1>b, FloorStays DEF Kept
  <2>2. Published'
    BY <1>b DEF FloorInv, Published
  <2> QED BY <2>1, <2>2 DEF FloorInv
<1>1. CASE Tick
  <2>1. FloorHolds' /\ Published'
    BY <1>1, <1>b DEF Tick, FloorInv
  <2> QED BY <2>1 DEF FloorInv
<1>2. ASSUME NEW i \in Instants, Damage(i) PROVE FloorInv'
  <2>1. \A n \in Instants : Kept(n) => Kept(n)'
    BY <1>2 DEF Damage, Kept
  <2>2. \A n \in Instants : publisher'[n] = publisher[n]
    BY <1>2 DEF Damage
  <2>3. FloorHolds'
    BY <1>2, <2>1, <2>2, FloorStays DEF Damage
  <2>4. Published'
    BY <1>2 DEF Damage, FloorInv, Published
  <2> QED BY <2>3, <2>4 DEF FloorInv
<1>3. ASSUME NEW j \in Jobs, Step(j) PROVE FloorInv'
  <2>1. ASSUME NEW t \in Instants, NEW apply \in BOOLEAN, Start(j, t, apply) PROVE FloorInv'
    BY <2>1, <1>b DEF Start
  <2>2. ASSUME NEW t \in Instants, RejectReusedId(j, t) PROVE FloorInv'
    BY <2>2, <1>b DEF RejectReusedId
  <2>3. CASE Publish(j)
    <3>1. \A n \in Instants : Kept(n) => Kept(n)'
      BY <2>3 DEF Publish, Kept
    <3>2. \A n \in Instants : publisher'[n] # None /\ ~Kept(n)' => publisher[n] # None
      BY <2>3 DEF Publish, Kept
    <3>3. FloorHolds'
      BY <2>3, <3>1, <3>2, FloorStays DEF Publish
    <3>4. Published'
      BY <2>3, <1>a DEF Publish, FloorInv, Published
    <3> QED BY <3>3, <3>4 DEF FloorInv
  <2>4. CASE LoseRename(j) \/ CheckOwn(j) \/ Report(j) \/ Crash(j) \/ DecideDryRun(j)
    BY <2>4, <1>b DEF LoseRename, CheckOwn, Report, Crash, DecideDryRun
  <2>5. CASE List(j)
    BY <2>5, <1>b DEF List
  <2>6. ASSUME NEW i \in Instants, VerifyEntry(j, i) PROVE FloorInv'
    <3>1. FloorHolds'
      BY <2>6, FloorStays DEF VerifyEntry, Kept
    <3>2. publisher[i] # None
      BY <2>6 DEF VerifyEntry, FloorInv, Published
    <3>3. Published'
      BY <2>6, <3>2 DEF VerifyEntry, FloorInv, Published
    <3> QED BY <3>1, <3>3 DEF FloorInv
  <2>7. ASSUME NEW i \in Instants, RejectEntry(j, i) PROVE FloorInv'
    BY <2>7, <1>b DEF RejectEntry
  <2>8. CASE DecideApply(j)
    <3>1. \A n \in Instants : NewerKept(n)' = NewerKept(n) /\ Kept(n)' = Kept(n)
      BY <2>8 DEF DecideApply, NewerKept, Kept
    <3>2. \A n \in Instants : Protected(n) => Protected(n)'
      BY <3>1 DEF Protected
    <3>3. ASSUME NEW k \in Jobs, NEW c \in candidates'[k] PROVE Protected(c)'
      <4>1. CASE k = j
        <5>1. c \in Expired(records[j], asOf[j]) /\ c \in Instants
          BY <2>8, <4>1 DEF DecideApply
        <5> QED BY <5>1, <3>2, ExpiredProtected
      <4>2. CASE k # j
        BY <2>8, <4>2, <3>2 DEF DecideApply, FloorInv, FloorHolds
      <4> QED BY <4>1, <4>2
    <3>4. ASSUME NEW i \in Instants, publisher'[i] # None, ~Kept(i)' PROVE Protected(i)'
      BY <2>8, <3>1, <3>2, <3>4 DEF DecideApply, FloorInv, FloorHolds
    <3>5. FloorHolds'
      BY <3>3, <3>4 DEF FloorHolds
    <3>6. Published'
      BY <2>8 DEF DecideApply, FloorInv, Published
    <3> QED BY <3>5, <3>6 DEF FloorInv
  <2>9. ASSUME NEW c \in Instants, Recheck(j, c) \/ LoseRemoval(j, c) PROVE FloorInv'
    BY <2>9, <1>b DEF Recheck, LoseRemoval
  <2>10. ASSUME NEW c \in Instants, UnlinkSome(j, c) \/ UnlinkAll(j, c) PROVE FloorInv'
    <3>0. bundle[c] # "absent"
      BY <2>10 DEF UnlinkSome, UnlinkAll, Kept
    <3>1. /\ c \in candidates[j]
          /\ UNCHANGED <<publisher, candidates, records>>
          /\ \A i \in Instants \ {c} : Kept(i) => Kept(i)'
      BY <2>10 DEF UnlinkSome, UnlinkAll, IsNext, Kept
    <3>2. FloorHolds'
      BY <3>1, FloorAfterUnlink
    <3>3. Published'
      BY <2>10, <3>0, <3>1 DEF UnlinkSome, UnlinkAll, FloorInv, Published
    <3> QED BY <3>2, <3>3 DEF FloorInv
  <2>11. ASSUME NEW c \in Instants, RemoveDirectory(j, c) PROVE FloorInv'
    <3>1. \A n \in Instants : Kept(n)' = Kept(n)
      BY <2>11 DEF RemoveDirectory, Kept
    <3>2. /\ \A k \in Jobs : candidates'[k] \subseteq candidates[k]
          /\ UNCHANGED <<publisher, records>>
      BY <2>11 DEF RemoveDirectory
    <3>3. FloorHolds'
      BY <3>1, <3>2, FloorStays
    <3>4. Published'
      BY <2>11, <3>2 DEF RemoveDirectory, FloorInv, Published
    <3> QED BY <3>3, <3>4 DEF FloorInv
  <2> QED BY <1>3, <2>1, <2>2, <2>3, <2>4, <2>5, <2>6, <2>7, <2>8, <2>9, <2>10, <2>11 DEF Step
<1>4. CASE UNCHANGED vars
  BY <1>4, <1>b DEF vars
<1> QED BY <1>1, <1>2, <1>3, <1>4 DEF Next

(* The newest minimum_snapshots bundles survive any number of jobs that    *)
(* list, decide and delete at the same time, and their crashes.            *)
THEOREM FloorAlwaysHolds == Spec => []FloorHolds
<1>1. Init => FloorInv
  <2> SUFFICES ASSUME Init PROVE FloorHolds /\ Published
    BY InitTyped DEF FloorInv
  <2>1. PICK old \in SUBSET {i \in Instants : i < clock} :
          /\ bundle = [i \in Instants |-> IF i \in old THEN "whole" ELSE "absent"]
          /\ publisher = [i \in Instants |-> IF i \in old THEN Earlier ELSE None]
    BY DEF Init
  <2>2. \A i \in Instants : (publisher[i] # None => Kept(i)) /\ (Kept(i) => publisher[i] # None)
    BY <2>1, PolicyAssumption DEF Kept
  <2>3. \A i \in Instants : bundle[i] # "absent" => Kept(i)
    BY <2>1 DEF Kept
  <2> QED BY <2>2, <2>3 DEF Init, FloorHolds, Published
<1>2. FloorInv => FloorHolds
  BY DEF FloorInv
<1> QED BY <1>1, <1>2, FloorStep, PTL DEF Spec

(* A bundle on disk never changes hands: its evidence is not overwritten. *)
THEOREM AlwaysImmutable == Spec => Immutable
<1> DEFINE Untouched == \A i \in Instants : Kept(i) /\ Kept(i)' => publisher'[i] = publisher[i]
<1>1. TypeOK /\ [Next]_vars => [Untouched]_vars
  <2> SUFFICES ASSUME TypeOK, Next PROVE Untouched
    OBVIOUS
  <2> USE DEF Goto, Proceed, diskVars, jobVars
  <2>1. CASE Tick
    BY <2>1 DEF Tick
  <2>2. ASSUME NEW i \in Instants, Damage(i) PROVE Untouched
    BY <2>2 DEF Damage
  <2>3. ASSUME NEW j \in Jobs, Step(j) PROVE Untouched
    <3>1. CASE Publish(j)
      <4>1. \A i \in Instants : Kept(i) => i # asOf[j]
        BY <3>1 DEF Publish, Kept
      <4>2. publisher' = [publisher EXCEPT ![asOf[j]] = j]
        BY <3>1 DEF Publish
      <4> QED BY <4>1, <4>2 DEF TypeOK
    <3>2. CASE ~Publish(j)
      BY <2>3, <3>2 DEF Step, Start, RejectReusedId, LoseRename, CheckOwn, List, VerifyEntry,
        RejectEntry, DecideDryRun, DecideApply, Recheck, UnlinkSome, UnlinkAll,
        RemoveDirectory, LoseRemoval, Report, Crash
    <3> QED BY <3>1, <3>2
  <2> QED BY <2>1, <2>2, <2>3 DEF Next
<1> QED BY <1>1, TypeCorrect, PTL DEF Spec, Immutable
-----------------------------------------------------------------------------
(* While a job scans, the unfit directories it listed are still before it:  *)
(* one is only mended by a publication, which takes it out of the history.  *)
Ahead(j) == pc[j] = "scan" => \A i \in unfit[j] : i \in todo[j] /\ bundle[i] # "whole"
Clear(j) == pc[j] \in Decided => unfit[j] = {}

(* Every step keeps the unfit directories ahead, and no decision passes one. *)
LEMMA UnfitStep ==
  ASSUME TypeOK, [Next]_vars, NEW k \in Jobs, Ahead(k), Clear(k)
  PROVE  Ahead(k)' /\ Clear(k)'
<1> USE DEF Ahead, Clear, Decided, Removing, Goto, Proceed, diskVars, jobVars
<1>t. /\ pc \in [Jobs -> Labels] /\ bundle \in [Instants -> Conditions]
      /\ todo \in [Jobs -> SUBSET Instants] /\ unfit \in [Jobs -> SUBSET Instants]
  BY DEF TypeOK
<1>1. CASE Tick \/ UNCHANGED vars
  BY <1>1 DEF Tick, vars
<1>2. ASSUME NEW i \in Instants, Damage(i) PROVE Ahead(k)' /\ Clear(k)'
  BY <1>t, <1>2 DEF Damage
<1>3. ASSUME NEW j \in Jobs, Step(j) PROVE Ahead(k)' /\ Clear(k)'
  <2>1. ASSUME NEW t \in Instants, (\E apply : Start(j, t, apply)) \/ RejectReusedId(j, t)
        PROVE  Ahead(k)' /\ Clear(k)'
    BY <1>t, <2>1 DEF Start, RejectReusedId
  <2>2. CASE Publish(j)
    <3>1. /\ pc' = [pc EXCEPT ![j] = "check"] /\ UNCHANGED todo
          /\ unfit'[k] = unfit[k] \ {asOf[j]}
          /\ \A i \in Instants \ {asOf[j]} : bundle'[i] = bundle[i]
      BY <1>t, <2>2 DEF Publish
    <3> QED BY <1>t, <3>1
  <2>3. CASE LoseRename(j) \/ CheckOwn(j) \/ Report(j) \/ Crash(j) \/ DecideDryRun(j)
    BY <1>t, <2>3 DEF LoseRename, CheckOwn, Report, Crash, DecideDryRun
  <2>4. CASE List(j)
    BY <1>t, <2>4 DEF List
  <2>5. ASSUME NEW i \in Instants, VerifyEntry(j, i) \/ RejectEntry(j, i) PROVE Ahead(k)' /\ Clear(k)'
    BY <1>t, <2>5 DEF VerifyEntry, RejectEntry
  <2>6. CASE DecideApply(j)
    BY <1>t, <2>6 DEF DecideApply
  <2>7. ASSUME NEW c \in Instants, Recheck(j, c) \/ LoseRemoval(j, c) PROVE Ahead(k)' /\ Clear(k)'
    BY <1>t, <2>7 DEF Recheck, LoseRemoval
  <2>8. ASSUME NEW c \in Instants, UnlinkSome(j, c) \/ UnlinkAll(j, c) \/ RemoveDirectory(j, c)
        PROVE  Ahead(k)' /\ Clear(k)'
    BY <1>t, <2>8 DEF UnlinkSome, UnlinkAll, RemoveDirectory
  <2> QED BY <1>3, <2>1, <2>2, <2>3, <2>4, <2>5, <2>6, <2>7, <2>8 DEF Step
<1> QED BY <1>1, <1>2, <1>3 DEF Next

(* One directory that does not verify when it is listed stops the job for   *)
(* good, whatever other jobs do to it meanwhile, short of a publication.    *)
THEOREM UnfitAlwaysBlocks == Spec => []UnfitBlocksRetention
<1> DEFINE UnfitInv == TypeOK /\ \A j \in Jobs : Ahead(j) /\ Clear(j)
<1>1. Init => UnfitInv
  BY InitTyped DEF Init, Ahead, Clear, Decided, Removing
<1>2. UnfitInv /\ [Next]_vars => UnfitInv'
  BY NextTyped, UnfitStep
<1>3. UnfitInv => UnfitBlocksRetention
  BY DEF Clear, UnfitBlocksRetention
<1> QED BY <1>1, <1>2, <1>3, PTL DEF Spec

-----------------------------------------------------------------------------
(* What a job has condemned is outside the window of its own evaluation     *)
(* instant, which does not change once there is something condemned.        *)
Windowed(j) ==
  /\ pc[j] = "idle" => candidates[j] = {}
  /\ \A c \in candidates[j] : c + RetentionDays < asOf[j]

(* Every step keeps it so. *)
LEMMA WindowStep ==
  ASSUME TypeOK, [Next]_vars, NEW k \in Jobs, Windowed(k)
  PROVE  Windowed(k)'
<1> USE DEF Windowed, Goto, Proceed, diskVars, jobVars
<1>t. /\ pc \in [Jobs -> Labels] /\ asOf \in [Jobs -> Instants \cup {None}]
      /\ candidates \in [Jobs -> SUBSET Instants]
  BY DEF TypeOK
<1>1. CASE Tick \/ UNCHANGED vars \/ \E i \in Instants : Damage(i)
  BY <1>1 DEF Tick, vars, Damage
<1>2. ASSUME NEW j \in Jobs, Step(j) PROVE Windowed(k)'
  <2>1. ASSUME NEW t \in Instants, (\E apply : Start(j, t, apply)) \/ RejectReusedId(j, t)
        PROVE  Windowed(k)'
    BY <1>t, <2>1 DEF Start, RejectReusedId
  <2>2. CASE DecideApply(j)
    BY <1>t, <2>2 DEF DecideApply, Expired
  <2>3. ASSUME NEW c \in Instants, RemoveDirectory(j, c) PROVE Windowed(k)'
    BY <1>t, <2>3 DEF RemoveDirectory
  <2>4. CASE UNCHANGED <<asOf, candidates>> /\ (pc'[k] = "idle" => pc[k] = "idle")
    BY <2>4
  <2>5. ASSUME \/ Publish(j) \/ LoseRename(j) \/ CheckOwn(j) \/ List(j) \/ DecideDryRun(j)
               \/ Report(j) \/ Crash(j)
               \/ \E i \in Instants : \/ VerifyEntry(j, i) \/ RejectEntry(j, i) \/ Recheck(j, i)
                                     \/ UnlinkSome(j, i) \/ UnlinkAll(j, i) \/ LoseRemoval(j, i)
        PROVE  UNCHANGED <<asOf, candidates>> /\ (pc'[k] = "idle" => pc[k] = "idle")
    BY <1>t, <2>5 DEF Publish, LoseRename, CheckOwn, List, DecideDryRun, Report, Crash, VerifyEntry,
      RejectEntry, Recheck, UnlinkSome, UnlinkAll, LoseRemoval
  <2> QED BY <1>2, <2>1, <2>2, <2>3, <2>4, <2>5 DEF Step
<1> QED BY <1>1, <1>2 DEF Next

(* Only a job's removal of what it condemned takes a bundle off the disk. *)
LEMMA GoneWasCondemned ==
  ASSUME TypeOK, [Next]_vars, NEW i \in Instants, Kept(i), ~Kept(i)'
  PROVE  \E j \in Jobs : i \in candidates[j]
<1> USE DEF Goto, Proceed, diskVars, jobVars, Kept
<1>1. ASSUME NEW j \in Jobs, NEW c \in Instants, UnlinkSome(j, c) \/ UnlinkAll(j, c) \/ RemoveDirectory(j, c)
      PROVE  i \in candidates[j]
  BY <1>1 DEF UnlinkSome, UnlinkAll, RemoveDirectory, IsNext, TypeOK
<1>2. ASSUME NEW j \in Jobs, Publish(j) PROVE FALSE
  BY <1>2 DEF Publish, TypeOK
<1>3. ASSUME NEW n \in Instants, Damage(n) PROVE FALSE
  BY <1>3 DEF Damage, TypeOK
<1>4. bundle' # bundle
  OBVIOUS
<1>5. ASSUME NEW j \in Jobs,
             \/ LoseRename(j) \/ CheckOwn(j) \/ List(j) \/ DecideDryRun(j) \/ DecideApply(j)
             \/ Report(j) \/ Crash(j)
             \/ \E n \in Instants : \/ VerifyEntry(j, n) \/ RejectEntry(j, n) \/ Recheck(j, n)
                                   \/ LoseRemoval(j, n) \/ RejectReusedId(j, n)
                                   \/ \E apply : Start(j, n, apply)
      PROVE  bundle' = bundle
  BY <1>5 DEF LoseRename, CheckOwn, List, DecideDryRun, DecideApply, Report, Crash, VerifyEntry,
    RejectEntry, Recheck, LoseRemoval, RejectReusedId, Start
<1>6. CASE Tick \/ UNCHANGED vars
  BY <1>4, <1>6 DEF Tick, vars
<1> QED BY <1>1, <1>2, <1>3, <1>4, <1>5, <1>6 DEF Next, Step

(* No bundle goes before it is retention_days old by the clock, but by a    *)
(* job whose --as-of lies in the future (snapshot_retention).               *)
THEOREM WindowAlwaysHolds == Spec => WindowHolds
<1> DEFINE Due == \A i \in Instants : Kept(i) /\ ~Kept(i)' =>
                     \/ i + RetentionDays < clock
                     \/ \E j \in Jobs : i \in candidates[j] /\ clock < asOf[j]
           WindowInv == TypeOK /\ \A j \in Jobs : Windowed(j)
<1>1. Init => WindowInv
  BY InitTyped DEF Init, Windowed
<1>2. WindowInv /\ [Next]_vars => WindowInv'
  BY NextTyped, WindowStep
<1>3. WindowInv /\ [Next]_vars => [Due]_vars
  <2> SUFFICES ASSUME WindowInv, [Next]_vars, NEW i \in Instants, Kept(i), ~Kept(i)',
                      ~(i + RetentionDays < clock)
               PROVE  \E j \in Jobs : i \in candidates[j] /\ clock < asOf[j]
    OBVIOUS
  <2>1. PICK j \in Jobs : i \in candidates[j]
    BY GoneWasCondemned
  <2>2. i + RetentionDays < asOf[j]
    BY <2>1 DEF Windowed
  <2>3. asOf[j] \in Nat /\ clock \in Nat /\ i \in Nat /\ RetentionDays \in Nat
    BY PolicyAssumption DEF TypeOK, Instants, None
  <2> QED BY <2>1, <2>2, <2>3
<1> QED BY <1>1, <1>2, <1>3, PTL DEF Spec, WindowHolds

-----------------------------------------------------------------------------
(* EvidenceBundle: what goes into a snapshot. *)
Contents == Runs \cup {Missing, Torn}
Commands == {"idle", "copy", "parse", "brief", "published", "failed"}

BundleTypeOK ==
  /\ file \in [Artifacts -> Contents]
  /\ stage \in [Runs -> {"new", "between", "open", "ended"}]
  /\ written \in [Runs -> 0..Count]
  /\ \A r \in Runs : stage[r] = "open" => written[r] < Count
  /\ shared \subseteq {r \in Runs : stage[r] \in {"open", "ended"}}
  /\ alone \in Runs \cup {Missing}
  /\ command \in Commands
  /\ step \in 1..Count
  /\ copy \in [Artifacts -> Contents]
  /\ briefing \in [Artifacts -> Contents]
  /\ overlapped \in BOOLEAN

(* How far the snapshot has come in each of its two passes. *)
Copied  == IF command \in {"brief", "published"} THEN Count
           ELSE IF command \in {"copy", "parse"} THEN step - 1 ELSE 0
Briefed == IF command = "published" THEN Count ELSE IF command = "brief" THEN step - 1 ELSE 0

(* While the newest run, started when none was writing, stays the newest,  *)
(* no other run writes, and the reports that it has completed are its own. *)
WrittenByOne ==
  alone \in Runs =>
    /\ stage[alone] # "new" /\ alone \notin shared
    /\ \A q \in Runs \ {alone} : stage[q] \in {"new", "ended"}
    /\ \A i \in 1..written[alone] : file[WriteOrder[i]] = alone

(* What the briefing has taken up is complete. *)
BriefedReadable == \A i \in 1..Briefed : briefing[BriefOrder[i]] \in Runs

(* What has been copied parsed when nobody was writing. *)
CopiedReadable == ~overlapped => \A i \in 1..Copied : copy[CopyOrder[i]] \in Runs

(* Unless a run interferes, the files stay what was read from them. *)
Undisturbed ==
  ~overlapped /\ Busy =>
    /\ ~Writing
    /\ \A i \in 1..Copied : copy[CopyOrder[i]] = file[CopyOrder[i]]
    /\ command = "parse" => copy[CopyOrder[step]] = file[CopyOrder[step]]
    /\ \A i \in 1..Briefed : briefing[BriefOrder[i]] = file[BriefOrder[i]]

StepsFromStart == command \in {"idle", "published"} => step = 1

BundleInv ==
  /\ BundleTypeOK
  /\ StepsFromStart
  /\ WrittenByOne
  /\ BriefedReadable
  /\ CopiedReadable
  /\ Undisturbed

LEMMA OrdersFit ==
  /\ Count = 5
  /\ Artifacts = {"prediction", "scenario", "backtest", "monitoring", "audit"}
  /\ \A i \in 1..5 : WriteOrder[i] \in Artifacts /\ CopyOrder[i] \in Artifacts /\ BriefOrder[i] \in Artifacts
  /\ \A i, j \in 1..5 : WriteOrder[i] = WriteOrder[j] => i = j
  /\ \A i, j \in 1..5 : CopyOrder[i] = CopyOrder[j] => i = j
  /\ \A i, j \in 1..5 : BriefOrder[i] = BriefOrder[j] => i = j
  /\ \A a \in Artifacts : \E i \in 1..5 : WriteOrder[i] = a
  /\ \A a \in Artifacts : \E i \in 1..5 : CopyOrder[i] = a
  /\ \A a \in Artifacts : \E i \in 1..5 : BriefOrder[i] = a
<1>1. Count = 5
  BY DEF Count, WriteOrder
<1>2. DOMAIN WriteOrder = 1..5
  BY DEF WriteOrder
<1>3. Artifacts = {"prediction", "scenario", "backtest", "monitoring", "audit"}
  <2>1. Artifacts = {WriteOrder[1], WriteOrder[2], WriteOrder[3], WriteOrder[4], WriteOrder[5]}
    BY <1>2 DEF Artifacts
  <2> QED BY <2>1 DEF WriteOrder
<1>4. \A i \in 1..5 : i = 1 \/ i = 2 \/ i = 3 \/ i = 4 \/ i = 5
  OBVIOUS
<1>5. \A i \in 1..5 : WriteOrder[i] \in Artifacts /\ CopyOrder[i] \in Artifacts /\ BriefOrder[i] \in Artifacts
  BY <1>3, <1>4 DEF WriteOrder, CopyOrder, BriefOrder
<1>6. \A i, j \in 1..5 : WriteOrder[i] = WriteOrder[j] => i = j
  BY <1>4 DEF WriteOrder
<1>7. \A i, j \in 1..5 : CopyOrder[i] = CopyOrder[j] => i = j
  BY <1>4 DEF CopyOrder
<1>8. \A i, j \in 1..5 : BriefOrder[i] = BriefOrder[j] => i = j
  BY <1>4 DEF BriefOrder
<1>9. \A a \in Artifacts : \E i \in 1..5 : WriteOrder[i] = a
  BY <1>3 DEF WriteOrder
<1>10. \A a \in Artifacts : \E i \in 1..5 : CopyOrder[i] = a
  BY <1>3 DEF CopyOrder
<1>11. \A a \in Artifacts : \E i \in 1..5 : BriefOrder[i] = a
  BY <1>3 DEF BriefOrder
<1> QED BY <1>1, <1>3, <1>5, <1>6, <1>7, <1>8, <1>9, <1>10, <1>11

LEMMA BundleInitially == BundleInit => BundleInv
<1> SUFFICES ASSUME BundleInit PROVE BundleInv
  OBVIOUS
<1>1. BundleTypeOK /\ StepsFromStart
  <2>1. step \in 1..Count /\ written \in [Runs -> 0..Count]
    BY OrdersFit DEF BundleInit
  <2> QED BY <2>1 DEF BundleInit, BundleTypeOK, StepsFromStart, Contents, Commands
<1>2. WrittenByOne
  BY ContentAssumption DEF BundleInit, WrittenByOne
<1>3. BriefedReadable /\ CopiedReadable /\ Undisturbed
  BY DEF BundleInit, BriefedReadable, CopiedReadable, Undisturbed, Briefed, Copied, Busy
<1> QED BY <1>1, <1>2, <1>3 DEF BundleInv

LEMMA BundleTyped == BundleInv /\ BundleNext => BundleTypeOK' /\ StepsFromStart'
<1> SUFFICES ASSUME BundleInv, BundleNext PROVE BundleTypeOK' /\ StepsFromStart'
  OBVIOUS
<1> USE OrdersFit DEF BundleInv, BundleTypeOK, Contents, Commands, StepsFromStart
<1>1. CASE Pipeline
  <2> PICK r \in Runs :
        StartRun(r) \/ OpenReport(r) \/ FlushReport(r) \/ WriteReport(r) \/ EndRun(r)
    BY <1>1 DEF Pipeline
  <2> Others(r) \subseteq {q \in Runs : q # r /\ stage[q] = "open"}
    BY DEF Others
  <2>1. CASE StartRun(r)
    <3>1. overlapped' \in BOOLEAN
      BY <2>1, Zenon DEF StartRun
    <3> QED BY <2>1, <3>1 DEF StartRun
  <2>2. CASE OpenReport(r)
    BY <2>2 DEF OpenReport, snapshotVars
  <2>3. CASE FlushReport(r)
    BY <2>3 DEF FlushReport, snapshotVars
  <2>4. CASE WriteReport(r)
    <3>1. PICK bytes \in {r} \cup (IF r \in shared THEN {Torn} ELSE {}) :
            file' = [file EXCEPT ![WriteOrder[written[r] + 1]] = bytes]
      BY <2>4, Zenon DEF WriteReport
    <3>2. bytes \in {r, Torn}
      OBVIOUS
    <3> QED BY <2>4, <3>1, <3>2 DEF WriteReport, snapshotVars
  <2>5. CASE EndRun(r)
    BY <2>5 DEF EndRun, snapshotVars
  <2> QED BY <2>1, <2>2, <2>3, <2>4, <2>5
<1>2. CASE Snapshot
  <2>1. CASE StartSnapshot
    <3>1. overlapped' \in BOOLEAN
      BY <2>1, Zenon DEF StartSnapshot, Writing
    <3> QED BY <2>1, <3>1 DEF StartSnapshot, pipelineVars
  <2>2. CASE CopyBytes
    BY <2>2 DEF CopyBytes, pipelineVars
  <2>3. CASE ParseFile
    BY <2>3 DEF ParseFile, pipelineVars
  <2>4. CASE BriefFile
    BY <2>4 DEF BriefFile, pipelineVars
  <2>5. CASE RejectSource
    BY <2>5 DEF RejectSource, pipelineVars
  <2>6. CASE NextSnapshot
    BY <2>6 DEF NextSnapshot, pipelineVars
  <2> QED BY <1>2, <2>1, <2>2, <2>3, <2>4, <2>5, <2>6 DEF Snapshot
<1> QED BY <1>1, <1>2 DEF BundleNext

(* A report is opened and written after those the run has completed. *)
LEMMA WritesInOrder == BundleInv /\ BundleNext => WrittenByOne'
<1> SUFFICES ASSUME BundleInv, BundleNext PROVE WrittenByOne'
  OBVIOUS
<1> USE OrdersFit, ContentAssumption DEF BundleInv, BundleTypeOK
<1>1. ASSUME NEW r \in Runs, StartRun(r) PROVE WrittenByOne'
  BY <1>1 DEF StartRun, WrittenByOne, Writing
<1>2. ASSUME NEW r \in Runs, OpenReport(r) \/ FlushReport(r) \/ WriteReport(r) PROVE WrittenByOne'
  <2> SUFFICES ASSUME alone' \in Runs PROVE WrittenByOne'
    BY DEF WrittenByOne
  <2>1. stage[r] \in {"between", "open"} /\ alone' = alone
    BY <1>2 DEF OpenReport, FlushReport, WriteReport
  <2>2. r = alone
    BY <2>1 DEF WrittenByOne
  <2>3. Others(r) = {}
    BY <2>2 DEF WrittenByOne, Others
  <2>4. CASE OpenReport(r)
    BY <2>2, <2>3, <2>4 DEF OpenReport, WrittenByOne
  <2>5. CASE FlushReport(r)
    BY <2>2, <2>3, <2>5 DEF FlushReport, WrittenByOne
  <2>6. CASE WriteReport(r)
    <3>1. file' = [file EXCEPT ![WriteOrder[written[r] + 1]] = r]
      BY <2>2, <2>6 DEF WriteReport, WrittenByOne
    <3> QED BY <2>2, <2>3, <2>6, <3>1 DEF WriteReport, WrittenByOne
  <2> QED BY <1>2, <2>4, <2>5, <2>6
<1>3. ASSUME NEW r \in Runs, EndRun(r) PROVE WrittenByOne'
  BY <1>3 DEF EndRun, WrittenByOne
<1>4. CASE Snapshot
  <2>1. UNCHANGED pipelineVars
    BY <1>4 DEF Snapshot, StartSnapshot, CopyBytes, ParseFile, BriefFile, RejectSource, NextSnapshot
  <2> QED BY <2>1 DEF WrittenByOne, pipelineVars
<1> QED BY <1>1, <1>2, <1>3, <1>4 DEF BundleNext, Pipeline

LEMMA ReadsStayReadable == BundleInv /\ BundleNext => BriefedReadable' /\ CopiedReadable' /\ Undisturbed'
<1> SUFFICES ASSUME BundleInv, BundleNext PROVE BriefedReadable' /\ CopiedReadable' /\ Undisturbed'
  OBVIOUS
<1> USE OrdersFit DEF BundleInv, BundleTypeOK, StepsFromStart, BriefedReadable, CopiedReadable, Undisturbed,
                      Briefed, Copied, Busy, Writing, Commands
<1>1. CASE \E r \in Runs : StartRun(r)
  <2>1. UNCHANGED <<file, command, step, copy, briefing>>
    BY <1>1 DEF StartRun
  <2>2. ~overlapped' => ~overlapped /\ ~Busy
    BY <1>1, Zenon DEF StartRun
  <2> QED BY <2>1, <2>2
<1>2. CASE \E r \in Runs : OpenReport(r) \/ FlushReport(r) \/ WriteReport(r) \/ EndRun(r)
  <2>1. UNCHANGED snapshotVars /\ Writing
    BY <1>2 DEF OpenReport, FlushReport, WriteReport, EndRun
  <2> QED BY <2>1 DEF snapshotVars
<1>3. CASE StartSnapshot
  <2>1. command' = "copy" /\ step' = 1 /\ (~overlapped' => ~Writing)
    BY <1>3, Zenon DEF StartSnapshot
  <2>2. UNCHANGED <<pipelineVars, copy, briefing>>
    BY <1>3 DEF StartSnapshot
  <2> QED BY <2>1, <2>2 DEF pipelineVars
<1>4. CASE CopyBytes
  BY <1>4 DEF CopyBytes, pipelineVars
<1>5. CASE ParseFile
  BY <1>5 DEF ParseFile, pipelineVars, Parses
<1>6. CASE BriefFile
  BY <1>6 DEF BriefFile, pipelineVars, Parses
<1>7. CASE RejectSource
  BY <1>7 DEF RejectSource, pipelineVars
<1>8. CASE NextSnapshot
  BY <1>8 DEF NextSnapshot, pipelineVars
<1> QED BY <1>1, <1>2, <1>3, <1>4, <1>5, <1>6, <1>7, <1>8 DEF BundleNext, Pipeline, Snapshot

(* ... and so do steps in which neither command moves. *)
LEMMA BundleStutters == BundleInv /\ UNCHANGED bundleVars => BundleInv'
BY DEF bundleVars, pipelineVars, snapshotVars, BundleInv, BundleTypeOK, StepsFromStart,
       WrittenByOne, BriefedReadable, CopiedReadable, Undisturbed, Briefed, Copied, Busy, Writing

(* Every reachable state of the two commands satisfies the inductive invariant. *)
THEOREM BundleInvariance == BundleSpec => []BundleInv
<1>1. BundleInv /\ [BundleNext]_bundleVars => BundleInv'
  BY BundleTyped, WritesInOrder, ReadsStayReadable, BundleStutters DEF BundleInv
<1> QED BY <1>1, BundleInitially, PTL DEF BundleSpec

(* Whatever runs of the civicflow command are killed and whenever they      *)
(* rewrite the reports: what is published was complete where it was read.   *)
THEOREM AlwaysReadable == BundleSpec => []ReportsReadable
<1>1. BundleInv => ReportsReadable
  BY OrdersFit DEF BundleInv, BundleTypeOK, BriefedReadable, CopiedReadable, Briefed, Copied, ReportsReadable
<1> QED BY <1>1, BundleInvariance, PTL

(* When the newest run completed, and no run was writing when it started or *)
(* while the snapshot was taken, the snapshot's files and its briefing are  *)
(* that run's, whatever runs overlapped or were killed before.              *)
THEOREM CompletedAlwaysOneRun == BundleSpec => CompletedRunIsOneRun
<1>1. ASSUME BundleInv, BundleNext, command # "published", command' = "published",
             ~overlapped, alone # Missing, written[alone] = Count
      PROVE  OneRun'
  <2> USE OrdersFit DEF BundleInv, BundleTypeOK
  <2>1. BriefFile /\ step = 5
    BY <1>1 DEF BundleNext, Pipeline, Snapshot, StartRun, OpenReport, FlushReport, WriteReport, EndRun,
                snapshotVars, StartSnapshot, CopyBytes, ParseFile, BriefFile, RejectSource, NextSnapshot
  <2>2. PICK r \in Runs : \A i \in 1..5 : file[WriteOrder[i]] = r
    BY <1>1 DEF WrittenByOne
  <2>3. \A a \in Artifacts : file[a] = r
    BY <2>2
  <2>4. \A a \in Artifacts : copy[a] = r
    BY <1>1, <2>1, <2>3 DEF BriefFile, Undisturbed, Busy, Copied
  <2>5. \A i \in 1..4 : briefing[BriefOrder[i]] = r
    BY <1>1, <2>1, <2>3 DEF BriefFile, Undisturbed, Busy, Briefed
  <2>6. \A i \in 1..5 : briefing'[BriefOrder[i]] = r
    <3>0. BriefOrder[5] \in Artifacts /\ file[BriefOrder[5]] = r
      <4>1. 5 \in 1..5
        OBVIOUS
      <4> QED BY <2>3, <4>1
    <3>1. briefing' = [briefing EXCEPT ![BriefOrder[5]] = r]
      BY <2>1, <3>0 DEF BriefFile
    <3>2. ASSUME NEW i \in 1..4 PROVE briefing'[BriefOrder[i]] = r
      BY <2>5, <3>1
    <3>3. briefing'[BriefOrder[5]] = r
      BY <1>1, <3>0, <3>1
    <3>4. \A i \in 1..5 : i \in 1..4 \/ i = 5
      OBVIOUS
    <3> QED BY <3>2, <3>3, <3>4
  <2>7. \A a \in Artifacts : briefing'[a] = r /\ copy'[a] = r
    BY <2>1, <2>4, <2>6 DEF BriefFile
  <2> QED BY <2>7 DEF OneRun
<1>2. BundleInv /\ [BundleNext]_bundleVars =>
        [command # "published" /\ command' = "published" /\ ~overlapped
           /\ alone # Missing /\ written[alone] = Count => OneRun']_bundleVars
  BY <1>1
<1> QED BY <1>2, BundleInvariance, PTL DEF BundleSpec, CompletedRunIsOneRun
=============================================================================
