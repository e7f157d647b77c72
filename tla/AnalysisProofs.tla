---------------------------- MODULE AnalysisProofs ----------------------------
(***************************************************************************)
(* What the readers promise of the data they read, for every history of    *)
(* it: the audit of approved assumptions, the weeks of the staffing        *)
(* planner, the pages of the API and the operations console.               *)
(***************************************************************************)
EXTENDS OperationsConsole, StaffingWindows, AssumptionAudit, FiniteSums

(* Of the naturals with a property, one is the least. *)
LEMMA LeastNatural ==
  ASSUME NEW S \in SUBSET Nat, S # {}
  PROVE  \E n \in S : \A m \in S : n <= m
<1>1. PICK n \in S : \A m \in S : <<m, n>> \notin OpToRel(<, Nat)
  BY NatLessThanWellFounded, WFMin
<1>2. \A m \in S : ~(m < n)
  BY <1>1 DEF OpToRel
<1> QED BY <1>2

-----------------------------------------------------------------------------
(* The audit of the staffing assumptions.                                   *)

(* A line of the file, as Entry makes them. *)
IsEntry(e) ==
  e = [version |-> e.version, previous |-> e.previous, assumptions |-> e.assumptions, hash |-> e.hash]

(* A chain as approvals make it; an empty one too. *)
Genuine(f) ==
  \A i \in DOMAIN f : /\ IsEntry(f[i])
                      /\ f[i].version = i
                      /\ f[i].previous = PreviousHash(f, i)
                      /\ f[i].assumptions \notin Invalid
                      /\ f[i].hash = Digest(f[i])

(* The entries that were ever signed: of the approved file and of branches. *)
Signed == Range(approved) \cup {b[Len(b)] : b \in branches}

(* Mishaps move lines and change snapshots, but sign nothing: each line has *)
(* the version, the predecessor and the hash of an entry that was signed.   *)
Traced(e) ==
  /\ IsEntry(e)
  /\ \E o \in Signed : e.version = o.version /\ e.previous = o.previous /\ e.hash = o.hash

AuditInv ==
  /\ file \in Seq(Range(file)) /\ approved \in Seq(Range(approved))
  /\ Genuine(approved)
  /\ \A b \in branches : b \in Seq(Range(b)) /\ b # <<>> /\ Genuine(b)
  /\ \A e \in Range(file) : Traced(e)

LEMMA DigestInjective ==
  ASSUME NEW e, NEW o, Digest(e) = Digest(o)
  PROVE  e.version = o.version /\ e.previous = o.previous /\ e.assumptions = o.assumptions
BY DEF Digest

(* The lines of a log are at 1..Len. *)
LEMMA LogShape ==
  ASSUME NEW f, f \in Seq(Range(f))
  PROVE  Len(f) \in Nat /\ DOMAIN f = 1..Len(f) /\ \A i \in 1..Len(f) : f[i] \in Range(f)
OBVIOUS

LEMMA IsLog ==
  ASSUME NEW S, NEW f \in Seq(S)
  PROVE  f \in Seq(Range(f)) /\ Range(f) \subseteq S
<1>1. Range(f) = {f[i] : i \in 1..Len(f)} /\ f \in [1..Len(f) -> S] /\ Len(f) \in Nat
  BY DEF Range
<1>2. f \in [1..Len(f) -> Range(f)]
  BY <1>1
<1> QED BY <1>1, <1>2

(* Chains with a common line have the same lines up to there: each line     *)
(* says what the one before it was.                                         *)
LEMMA ChainsMeet ==
  ASSUME NEW f, f \in Seq(Range(f)), Genuine(f), NEW g, g \in Seq(Range(g)), Genuine(g),
         NEW n \in Nat, n <= Len(f), n <= Len(g), f[n] = g[n]
  PROVE  \A i \in 1..n : f[i] = g[i]
<1> DEFINE B == {k \in 0..(n - 1) : f[n - k] # g[n - k]}
<1>0. Len(f) \in Nat /\ Len(g) \in Nat /\ DOMAIN f = 1..Len(f) /\ DOMAIN g = 1..Len(g)
  OBVIOUS
<1>1. SUFFICES ASSUME B # {} PROVE FALSE
  <2> SUFFICES ASSUME NEW i \in 1..n, f[i] # g[i] PROVE FALSE
    OBVIOUS
  <2>1. n - i \in 0..(n - 1) /\ n - (n - i) = i
    OBVIOUS
  <2> QED BY <1>1, <2>1
<1>2. B \in SUBSET Nat
  OBVIOUS
<1> HIDE DEF B
<1>3. PICK k \in B : \A m \in B : k <= m
  BY <1>1, <1>2, LeastNatural
<1> USE DEF B
<1>4. k \in 0..(n - 1) /\ f[n - k] # g[n - k] /\ k # 0
  BY <1>3
<1>5. k - 1 \in 0..(n - 1) /\ k - 1 \notin B
  BY <1>3, <1>4
<1> DEFINE j == n - (k - 1)
<1>6. f[j] = g[j] /\ j \in 2..n /\ j - 1 = n - k
  BY <1>4, <1>5
<1>7. j \in DOMAIN f /\ j \in DOMAIN g /\ j - 1 \in DOMAIN f /\ j - 1 \in DOMAIN g
  BY <1>0, <1>6
<1> HIDE DEF j, B
<1>8. Digest(f[j - 1]) = Digest(g[j - 1])
  BY <1>6, <1>7 DEF Genuine, PreviousHash
<1>9. /\ IsEntry(f[j - 1]) /\ IsEntry(g[j - 1])
      /\ f[j - 1].hash = Digest(f[j - 1]) /\ g[j - 1].hash = Digest(g[j - 1])
  BY <1>7 DEF Genuine
<1>10. f[j - 1] = g[j - 1]
  BY <1>8, <1>9, DigestInjective DEF IsEntry
<1> QED BY <1>4, <1>6, <1>10

(* A line whose own hash fits is the entry that was signed. *)
LEMMA FittingLineIsSigned ==
  ASSUME NEW e, Traced(e), e.hash = Digest(e),
         \A o \in Signed : IsEntry(o) /\ o.hash = Digest(o)
  PROVE  e \in Signed
<1>1. PICK o \in Signed : e.version = o.version /\ e.previous = o.previous /\ e.hash = o.hash
  BY DEF Traced
<1>2. Digest(e) = Digest(o)
  BY <1>1
<1>3. e = o
  BY <1>1, <1>2, DigestInjective DEF Traced, IsEntry
<1> QED BY <1>3

LEMMA SignedFits ==
  ASSUME AuditInv
  PROVE  \A o \in Signed : /\ IsEntry(o) /\ o.hash = Digest(o)
                           /\ \/ \E i \in DOMAIN approved : o = approved[i] /\ o.version = i
                              \/ \E b \in branches : o = b[Len(b)] /\ o.version = Len(b)
<1> SUFFICES ASSUME NEW o \in Signed
             PROVE  /\ IsEntry(o) /\ o.hash = Digest(o)
                    /\ \/ \E i \in DOMAIN approved : o = approved[i] /\ o.version = i
                       \/ \E b \in branches : o = b[Len(b)] /\ o.version = Len(b)
  OBVIOUS
<1>1. CASE o \in Range(approved)
  <2>1. PICK i \in DOMAIN approved : o = approved[i]
    BY <1>1 DEF Range
  <2> QED BY <2>1 DEF AuditInv, Genuine
<1>2. CASE \E b \in branches : o = b[Len(b)]
  <2>1. PICK b \in branches : o = b[Len(b)]
    BY <1>2
  <2>2. b \in Seq(Range(b)) /\ b # <<>> /\ Genuine(b)
    BY DEF AuditInv
  <2>3. Len(b) \in DOMAIN b
    BY <2>2
  <2> QED BY <2>1, <2>2, <2>3 DEF Genuine
<1> QED BY <1>1, <1>2 DEF Signed

(* What verify_assumption_history accepts was approved. *)
LEMMA AcceptedIsApproved ==
  ASSUME AuditInv, Chained(file)
  PROVE  IsPrefix(file, approved) \/ file \in branches
<1> DEFINE n == Len(file)
<1>1. /\ file \in Seq(Range(file)) /\ approved \in Seq(Range(approved)) /\ Genuine(approved)
      /\ \A e \in Range(file) : Traced(e)
  BY DEF AuditInv
<1>2. n \in Nat /\ n # 0 /\ DOMAIN file = 1..n /\ file[n] \in Range(file)
  BY <1>1 DEF Chained
<1>3. Genuine(file)
  <2>1. \A i \in DOMAIN file : IsEntry(file[i])
    BY <1>1, <1>2 DEF Traced, Range
  <2> QED BY <2>1 DEF Genuine, Chained
<1>4. file[n] \in Signed /\ file[n].version = n
  <2>1. file[n].hash = Digest(file[n]) /\ file[n].version = n /\ Traced(file[n])
    BY <1>1, <1>2 DEF Chained
  <2> QED BY <2>1, SignedFits, FittingLineIsSigned
<1>5. CASE \E i \in DOMAIN approved : file[n] = approved[i] /\ file[n].version = i
  <2>1. n \in DOMAIN approved /\ file[n] = approved[n] /\ n <= Len(approved)
    BY <1>1, <1>4, <1>5
  <2>2. \A i \in 1..n : file[i] = approved[i]
    BY <1>1, <1>2, <1>3, <2>1, ChainsMeet
  <2>3. SubSeq(file, 1, n) = SubSeq(approved, 1, n)
    BY <1>1, <1>2, <2>1, <2>2
  <2> QED BY <2>1, <2>3 DEF IsPrefix
<1>6. CASE \E b \in branches : file[n] = b[Len(b)] /\ file[n].version = Len(b)
  <2>1. PICK b \in branches : file[n] = b[Len(b)] /\ n = Len(b)
    BY <1>4, <1>6
  <2>2. b \in Seq(Range(b)) /\ Genuine(b)
    BY DEF AuditInv
  <2>3. \A i \in 1..n : file[i] = b[i]
    BY <1>1, <1>2, <1>3, <2>1, <2>2, ChainsMeet
  <2>4. file = b
    <3>1. DOMAIN b = 1..n /\ file = [i \in 1..n |-> file[i]] /\ b = [i \in 1..n |-> b[i]]
      BY <1>1, <1>2, <2>1, <2>2
    <3> QED BY <2>3, <3>1
  <2> QED BY <2>4
<1> QED BY <1>4, <1>5, <1>6, SignedFits

(* Another entry on top of a chain. *)
LEMMA GenuineAppend ==
  ASSUME NEW f, f \in Seq(Range(f)), Genuine(f), NEW a, a \notin Invalid,
         NEW e, e = Entry(Len(f) + 1, PreviousHash(f, Len(f) + 1), a)
  PROVE  /\ IsEntry(e) /\ e.version = Len(f) + 1 /\ e.hash = Digest(e)
         /\ Append(f, e) \in Seq(Range(Append(f, e))) /\ Genuine(Append(f, e))
         /\ Range(Append(f, e)) = Range(f) \cup {e}
         /\ Append(f, e)[Len(Append(f, e))] = e
<1> DEFINE n == Len(f)
           h == Append(f, e)
           p == PreviousHash(f, n + 1)
<1>1. n \in Nat /\ DOMAIN f = 1..n /\ f \in [1..n -> Range(f)]
  OBVIOUS
<1>2. /\ Len(h) = n + 1 /\ DOMAIN h = 1..(n + 1) /\ h[n + 1] = e /\ \A i \in 1..n : h[i] = f[i]
      /\ h \in Seq(Range(f) \cup {e})
  BY <1>1
<1> HIDE DEF h, n, p
<1>3. /\ e.version = n + 1 /\ e.previous = p /\ e.assumptions = a
      /\ e.hash = <<n + 1, p, a>>
      /\ e = [version |-> n + 1, previous |-> p, assumptions |-> a, hash |-> <<n + 1, p, a>>]
  BY DEF Entry, Digest, n, p
<1>4. IsEntry(e) /\ e.hash = Digest(e)
  BY <1>3 DEF IsEntry, Digest
<1>5. ASSUME NEW i \in 1..(n + 1)
      PROVE  /\ IsEntry(h[i]) /\ h[i].version = i /\ h[i].previous = PreviousHash(h, i)
             /\ h[i].assumptions \notin Invalid /\ h[i].hash = Digest(h[i])
  <2>1. PreviousHash(h, i) = PreviousHash(f, i)
    BY <1>1, <1>2 DEF PreviousHash
  <2>2. CASE i = n + 1
    BY <1>2, <1>3, <1>4, <2>1, <2>2 DEF p
  <2>3. CASE i # n + 1
    <3>1. i \in DOMAIN f /\ h[i] = f[i]
      BY <1>1, <1>2, <2>3
    <3> QED BY <2>1, <3>1 DEF Genuine
  <2> QED BY <2>2, <2>3
<1>6. Range(h) = Range(f) \cup {e}
  <2>1. Range(h) = {h[i] : i \in 1..(n + 1)} /\ Range(f) = {f[i] : i \in 1..n}
    BY <1>1, <1>2 DEF Range
  <2>2. \A i \in 1..(n + 1) : h[i] \in Range(f) \cup {e}
    <3> TAKE i \in 1..(n + 1)
    <3>1. CASE i = n + 1
      BY <1>2, <3>1
    <3>2. CASE i # n + 1
      <4>1. i \in 1..n
        BY <1>1, <3>2
      <4> QED BY <1>2, <2>1, <4>1
    <3> QED BY <3>1, <3>2
  <2>3. \A i \in 1..n : i \in 1..(n + 1) /\ h[i] = f[i]
    BY <1>1, <1>2
  <2>4. n + 1 \in 1..(n + 1)
    BY <1>1
  <2> QED BY <1>2, <2>1, <2>2, <2>3, <2>4
<1>7. Genuine(h)
  BY <1>2, <1>5 DEF Genuine
<1> QED BY <1>2, <1>3, <1>4, <1>6, <1>7 DEF h, n

(* The beginning of a chain is one. *)
LEMMA GenuineBegins ==
  ASSUME NEW f, f \in Seq(Range(f)), Genuine(f), NEW i \in 0..Len(f)
  PROVE  LET g == SubSeq(f, 1, i)
         IN  /\ g \in Seq(Range(g)) /\ Genuine(g) /\ Len(g) = i
             /\ PreviousHash(g, i + 1) = PreviousHash(f, i + 1)
<1> DEFINE g == SubSeq(f, 1, i)
<1>1. /\ Len(f) \in Nat /\ DOMAIN f = 1..Len(f) /\ g \in Seq(Range(f)) /\ Len(g) = i
      /\ DOMAIN g = 1..i /\ \A j \in 1..i : g[j] = f[j]
  OBVIOUS
<1>2. g \in Seq(Range(g))
  BY <1>1, IsLog
<1> HIDE DEF g
<1>3. \A j \in 1..(i + 1) : PreviousHash(g, j) = PreviousHash(f, j)
  BY <1>1 DEF PreviousHash
<1>4. Genuine(g)
  BY <1>1, <1>3 DEF Genuine
<1> QED BY <1>1, <1>2, <1>3, <1>4 DEF g

LEMMA TracedGrows ==
  ASSUME Signed \subseteq Signed', NEW e, Traced(e)
  PROVE  Traced(e)'
BY DEF Traced

(* An edit keeps a line's version, predecessor and hash; a lost or moved    *)
(* line takes them along.                                                   *)
LEMMA AlterTraced ==
  ASSUME AuditInv, NEW i \in DOMAIN file, NEW a, file' = [file EXCEPT ![i].assumptions = a]
  PROVE  file' \in Seq(Range(file')) /\ \A e \in Range(file') : Traced(e)
<1> DEFINE x == [file[i] EXCEPT !.assumptions = a]
<1>1. /\ file \in Seq(Range(file)) /\ \A e \in Range(file) : Traced(e)
  BY DEF AuditInv
<1>2. Traced(file[i]) /\ IsEntry(file[i])
  BY <1>1 DEF Traced, Range
<1>3. /\ x.version = file[i].version /\ x.previous = file[i].previous /\ x.hash = file[i].hash
      /\ IsEntry(x)
  <2> DEFINE v == file[i].version
             q == file[i].previous
             h == file[i].hash
             y == [version |-> v, previous |-> q, assumptions |-> file[i].assumptions, hash |-> h]
  <2>1. file[i] = y
    BY <1>2 DEF IsEntry
  <2>2. x = [y EXCEPT !.assumptions = a]
    BY <2>1
  <2>3. [y EXCEPT !.assumptions = a] = [version |-> v, previous |-> q, assumptions |-> a, hash |-> h]
    OBVIOUS
  <2> HIDE DEF x, y
  <2>4. x = [version |-> v, previous |-> q, assumptions |-> a, hash |-> h]
    BY <2>2, <2>3
  <2> QED BY <2>4 DEF IsEntry
<1> HIDE DEF x
<1>4. Traced(x)
  BY <1>2, <1>3 DEF Traced
<1>5. file' = [file EXCEPT ![i] = x]
  BY DEF x
<1>6. file' \in Seq(Range(file) \cup {x})
  BY <1>1, <1>5
<1>7. Range(file') \subseteq Range(file) \cup {x} /\ file' \in Seq(Range(file'))
  BY <1>6, IsLog
<1> QED BY <1>1, <1>4, <1>7

LEMMA MoveTraced ==
  ASSUME AuditInv,
         \/ \E i \in DOMAIN file : file' = RemoveAt(file, i)
         \/ \E i, j \in DOMAIN file : file' = [file EXCEPT ![i] = file[j], ![j] = file[i]]
  PROVE  file' \in Seq(Range(file')) /\ \A e \in Range(file') : Traced(e)
<1>1. /\ file \in Seq(Range(file)) /\ \A e \in Range(file) : Traced(e)
  BY DEF AuditInv
<1> DEFINE S == Range(file)
<1>2. file' \in Seq(S)
  <2> HIDE DEF S
  <2>0. file \in Seq(S) /\ DOMAIN file = 1..Len(file) /\ Len(file) \in Nat
    BY <1>1 DEF S
  <2>1. CASE \E i \in DOMAIN file : file' = RemoveAt(file, i)
    <3>1. PICK i \in 1..Len(file) : file' = SubSeq(file, 1, i - 1) \o SubSeq(file, i + 1, Len(file))
      BY <2>0, <2>1 DEF RemoveAt
    <3>2. SubSeq(file, 1, i - 1) \in Seq(S) /\ SubSeq(file, i + 1, Len(file)) \in Seq(S)
      BY <2>0
    <3> QED BY <3>1, <3>2
  <2>2. CASE \E i, j \in DOMAIN file : file' = [file EXCEPT ![i] = file[j], ![j] = file[i]]
    <3>1. PICK i, j \in 1..Len(file) : file' = [[file EXCEPT ![i] = file[j]] EXCEPT ![j] = file[i]]
      BY <2>0, <2>2
    <3>2. file[i] \in S /\ file[j] \in S
      BY <2>0
    <3>3. [file EXCEPT ![i] = file[j]] \in Seq(S)
      BY <2>0, <3>2
    <3> QED BY <2>0, <3>1, <3>2, <3>3
  <2> QED BY <2>1, <2>2
<1>3. Range(file') \subseteq S /\ file' \in Seq(Range(file'))
  BY <1>2, IsLog
<1> QED BY <1>1, <1>3

(* A step of a run of the pipeline. *)
RunStep ==
  \E r \in Runs :
    LoadAssumptions(r) \/ AuditHistory(r) \/ WriteScenario(r) \/ WriteAudit(r) \/ Kill(r)

(* What verify_assumption_history checks still holds after every step. *)
LEMMA AuditStep ==
  ASSUME AuditInv, [AuditNext]_auditVars
  PROVE  AuditInv'
<1>0. /\ file \in Seq(Range(file)) /\ approved \in Seq(Range(approved)) /\ Genuine(approved)
      /\ \A b \in branches : b \in Seq(Range(b)) /\ b # <<>> /\ Genuine(b)
      /\ \A e \in Range(file) : Traced(e)
  BY DEF AuditInv
<1>1. CASE UNCHANGED <<file, approved, branches>>
  <2>1. Signed' = Signed
    BY <1>1 DEF Signed
  <2>2. \A e : Traced(e) => Traced(e)'
    BY <2>1, TracedGrows
  <2> QED BY <1>0, <1>1, <2>2 DEF AuditInv, Genuine, PreviousHash
<1>2. ASSUME NEW a \in Assumptions \ Invalid, Approve(a)
      PROVE  AuditInv'
  <2>0. PICK e : e = Entry(Len(file) + 1, PreviousHash(file, Len(file) + 1), a)
    OBVIOUS
  <2>1. file = approved /\ file' = Append(approved, e) /\ approved' = file' /\ UNCHANGED branches
    BY <1>2, <2>0 DEF Approve
  <2>2. e = Entry(Len(approved) + 1, PreviousHash(approved, Len(approved) + 1), a) /\ a \notin Invalid
    BY <2>0, <2>1
  <2>3. /\ IsEntry(e)
        /\ Append(approved, e) \in Seq(Range(Append(approved, e))) /\ Genuine(Append(approved, e))
        /\ Range(Append(approved, e)) = Range(approved) \cup {e}
    BY <1>0, <2>2, GenuineAppend
  <2>4. Signed' = Signed \cup {e}
    BY <2>1, <2>3 DEF Signed
  <2>5. \A x : Traced(x) => Traced(x)'
    BY <2>4, TracedGrows
  <2>6. Traced(e)'
    BY <2>3, <2>4 DEF Traced
  <2>7. \A x \in Range(file') : Traced(x)'
    BY <1>0, <2>1, <2>3, <2>5, <2>6
  <2>8. Genuine(approved)'
    BY <2>1, <2>3 DEF Genuine, PreviousHash
  <2> QED BY <1>0, <2>1, <2>3, <2>7, <2>8 DEF AuditInv, Genuine, PreviousHash
<1>3. ASSUME UNCHANGED <<approved, branches>>, file' \in Seq(Range(file')),
             \A e \in Range(file') : Traced(e)
      PROVE  AuditInv'
  <2>1. Signed' = Signed
    BY <1>3 DEF Signed
  <2>2. \A e : Traced(e) => Traced(e)'
    BY <2>1, TracedGrows
  <2> QED BY <1>0, <1>3, <2>2 DEF AuditInv, Genuine, PreviousHash
<1>4. ASSUME NEW i \in DOMAIN file, NEW a \in Assumptions, Alter(i, a)
      PROVE  AuditInv'
  BY <1>3, <1>4, AlterTraced DEF Alter, Damage
<1>5. ASSUME NEW i \in DOMAIN file, DropLine(i)
      PROVE  AuditInv'
  BY <1>3, <1>5, MoveTraced DEF DropLine, Damage
<1>6. ASSUME NEW i \in DOMAIN file, NEW j \in DOMAIN file, SwapLines(i, j)
      PROVE  AuditInv'
  <2>1. file' = [file EXCEPT ![i] = file[j], ![j] = file[i]] /\ UNCHANGED <<approved, branches>>
    BY <1>6 DEF SwapLines, Damage
  <2> QED BY <1>3, <2>1, MoveTraced
<1>7. ASSUME NEW i \in 0..Len(approved), NEW a \in Assumptions \ Invalid, Merge(i, a)
      PROVE  AuditInv'
  <2>0. PICK e : e = Entry(i + 1, PreviousHash(approved, i + 1), a)
    OBVIOUS
  <2> DEFINE g == SubSeq(approved, 1, i)
             b == Append(g, e)
  <2>1. file' = Append(file, e) /\ branches' = branches \cup {b} /\ UNCHANGED approved
    BY <1>7, <2>0 DEF Merge, Damage
  <2>2. /\ g \in Seq(Range(g)) /\ Genuine(g) /\ Len(g) = i
        /\ PreviousHash(g, i + 1) = PreviousHash(approved, i + 1)
    BY <1>0, GenuineBegins
  <2>3. e = Entry(Len(g) + 1, PreviousHash(g, Len(g) + 1), a) /\ a \notin Invalid
    BY <2>0, <2>2
  <2> HIDE DEF g
  <2>4. IsEntry(e) /\ b \in Seq(Range(b)) /\ Genuine(b) /\ b[Len(b)] = e
        /\ Range(b) = Range(g) \cup {e}
    BY <2>2, <2>3, GenuineAppend
  <2>5. b # <<>>
    BY <2>4 DEF Range
  <2> HIDE DEF b
  <2>6. Signed' = Signed \cup {e}
    BY <2>1, <2>4 DEF Signed
  <2>7. \A x : Traced(x) => Traced(x)'
    BY <2>6, TracedGrows
  <2>8. Traced(e)'
    BY <2>4, <2>6 DEF Traced
  <2>9. file' \in Seq(Range(file')) /\ Range(file') \subseteq Range(file) \cup {e}
    <3>1. file' \in Seq(Range(file) \cup {e})
      BY <1>0, <2>1
    <3> QED BY <3>1, IsLog
  <2>10. \A x \in Range(file') : Traced(x)'
    BY <1>0, <2>7, <2>8, <2>9
  <2>11. \A x \in branches' : x \in Seq(Range(x)) /\ x # <<>> /\ Genuine(x)
    BY <1>0, <2>1, <2>4, <2>5
  <2> QED BY <1>0, <2>1, <2>9, <2>10, <2>11 DEF AuditInv, Genuine, PreviousHash
<1>8. CASE RunStep \/ \E a : Configure(a)
  BY <1>1, <1>8 DEF RunStep, LoadAssumptions, AuditHistory, WriteScenario, WriteAudit, Kill, historyVars,
                    Configure
<1> QED BY <1>1, <1>2, <1>4, <1>5, <1>6, <1>7, <1>8 DEF AuditNext, RunStep, auditVars, historyVars

LEMMA AuditStart == AuditInit => AuditInv
<1> SUFFICES ASSUME AuditInit PROVE AuditInv
  OBVIOUS
<1>1. file = <<>> /\ approved = <<>> /\ branches = {}
  BY DEF AuditInit
<1>2. Range(file) = {} /\ file \in Seq({})
  BY <1>1 DEF Range
<1> QED BY <1>1, <1>2 DEF AuditInv, Genuine

LEMMA AuditInvariance == AuditSpec => []AuditInv
BY AuditStart, AuditStep, PTL DEF AuditSpec

(* A history verify_assumption_history accepts is one that approvals on one *)
(* branch produced, or its beginning, for any number of edits, losses,      *)
(* swaps and merges; and an approved history is always accepted.            *)
THEOREM AuditAcceptsApproved == AuditSpec => []OnlyApprovedPasses
<1>1. AuditInv => OnlyApprovedPasses
  <2> SUFFICES ASSUME AuditInv PROVE OnlyApprovedPasses
    OBVIOUS
  <2>1. file = approved /\ file # <<>> => Chained(file)
    BY DEF AuditInv, Genuine, Chained
  <2> QED BY <2>1, AcceptedIsApproved DEF OnlyApprovedPasses
<1> QED BY <1>1, AuditInvariance, PTL

(* Some reviewer approved the assumptions a. *)
ApprovedOnce(a) == \E f \in branches \cup {approved} : \E i \in DOMAIN f : f[i].assumptions = a

(* What a run holds and what the two reports say of it: a run that came to  *)
(* "verified" loaded something approved, and the reports are what the runs  *)
(* they are from hold, which no later step of those runs changes.           *)
RunsInv ==
  /\ config \in Assumptions
  /\ stage \in [Runs -> {"new", "loaded", "audited", "scenario", "ended"}]
  /\ loaded \in [Runs -> Assumptions \cup {Absent}]
  /\ verdict \in [Runs -> {"none", "rejected", "verified", "action_required"}]
  /\ \A r \in Runs : stage[r] \in {"new", "loaded"} => verdict[r] = "none"
  /\ \A r \in Runs : verdict[r] = "verified" => ApprovedOnce(loaded[r])
  /\ scenario.run \in Runs =>
       stage[scenario.run] # "new" /\ scenario.used = loaded[scenario.run]
  /\ audit.run \in Runs =>
       stage[audit.run] = "ended" /\ audit.status = verdict[audit.run]
  /\ audit.run \notin Runs => audit.status = "none"

(* Approvals and branches are kept. *)
LEMMA ApprovedGrows ==
  ASSUME AuditInv, [AuditNext]_auditVars, NEW a, ApprovedOnce(a)
  PROVE  ApprovedOnce(a)'
<1>1. PICK f \in branches \cup {approved} : \E i \in DOMAIN f : f[i].assumptions = a
  BY DEF ApprovedOnce
<1>2. CASE f \in branches' \cup {approved'}
  BY <1>1, <1>2 DEF ApprovedOnce
<1>3. CASE f \notin branches' \cup {approved'}
  <2>1. f = approved /\ approved' # approved
    BY <1>3 DEF AuditNext, auditVars, historyVars, Approve, Alter, DropLine, SwapLines, Merge, Damage,
                Configure, LoadAssumptions, AuditHistory, WriteScenario, WriteAudit, Kill
  <2>2. PICK x : approved' = Append(approved, x)
    BY <2>1 DEF AuditNext, auditVars, historyVars, Approve, Alter, DropLine, SwapLines, Merge, Damage,
                Configure, LoadAssumptions, AuditHistory, WriteScenario, WriteAudit, Kill
  <2>3. approved \in Seq(Range(approved))
    BY DEF AuditInv
  <2>4. \A i \in DOMAIN approved : i \in DOMAIN approved' /\ approved'[i] = approved[i]
    <3>1. Append(approved, x) \in Seq(Range(approved) \cup {x}) /\ Len(approved) \in Nat
          /\ Len(Append(approved, x)) = Len(approved) + 1
      BY <2>3
    <3> QED BY <2>2, <2>3, <3>1
  <2> QED BY <1>1, <2>1, <2>4 DEF ApprovedOnce
<1> QED BY <1>2, <1>3

(* A history that verify_assumption_history finds to end in a was approved. *)
LEMMA VerifiedIsApproved ==
  ASSUME AuditInv, NEW a, Verdict(a) = "verified"
  PROVE  ApprovedOnce(a)
<1>1. Chained(file) /\ Last(file).assumptions = a
  BY DEF Verdict
<1>2. file \in Seq(Range(file)) /\ file # <<>>
  BY <1>1 DEF AuditInv, Chained
<1>3. Len(file) \in DOMAIN file /\ file[Len(file)].assumptions = a /\ Len(file) \in Nat \ {0}
  BY <1>1, <1>2 DEF Last
<1>4. CASE file \in branches
  BY <1>3, <1>4 DEF ApprovedOnce
<1>5. CASE IsPrefix(file, approved)
  <2> DEFINE n == Len(file)
  <2>1. approved \in Seq(Range(approved)) /\ n <= Len(approved)
    BY <1>5 DEF AuditInv, IsPrefix
  <2>2. n \in DOMAIN approved
    BY <1>3, <2>1
  <2>3. SubSeq(file, 1, n)[n] = file[n] /\ SubSeq(approved, 1, n)[n] = approved[n]
    BY <1>2, <1>3, <2>1
  <2>4. approved[n] = file[n]
    BY <1>5, <2>3 DEF IsPrefix
  <2> QED BY <1>3, <2>2, <2>4 DEF ApprovedOnce
<1> QED BY <1>1, <1>4, <1>5, AcceptedIsApproved

LEMMA RunsStep ==
  ASSUME AuditInv, RunsInv, [AuditNext]_auditVars
  PROVE  RunsInv'
<1>1. \A a : ApprovedOnce(a) => ApprovedOnce(a)'
  BY ApprovedGrows
<1>2. CASE UNCHANGED runVars /\ config' \in Assumptions
  BY <1>1, <1>2 DEF RunsInv, runVars
<1>3. ASSUME NEW r \in Runs, LoadAssumptions(r) PROVE RunsInv'
  BY <1>1, <1>3 DEF RunsInv, LoadAssumptions, historyVars
<1>4. ASSUME NEW r \in Runs, AuditHistory(r) PROVE RunsInv'
  <2>1. Verdict(loaded[r]) \in {"rejected", "verified", "action_required"}
    BY DEF Verdict
  <2>2. verdict' = [verdict EXCEPT ![r] = Verdict(loaded[r])] /\ verdict'[r] = Verdict(loaded[r])
    BY <1>4 DEF AuditHistory, RunsInv
  <2>3. PICK end \in {"ended", "audited"} : stage' = [stage EXCEPT ![r] = end]
    BY <1>4 DEF AuditHistory
  <2>4. UNCHANGED <<historyVars, loaded, scenario, audit>> /\ stage[r] = "loaded"
    BY <1>4 DEF AuditHistory
  <2>5. Verdict(loaded[r]) = "verified" => ApprovedOnce(loaded[r])
    BY VerifiedIsApproved
  <2>6. \A q \in Runs : verdict'[q] = "verified" => ApprovedOnce(loaded[q])
    BY <2>2, <2>5 DEF RunsInv
  <2> QED BY <1>1, <2>1, <2>2, <2>3, <2>4, <2>6 DEF RunsInv, historyVars
<1>5. ASSUME NEW r \in Runs, WriteScenario(r) PROVE RunsInv'
  BY <1>1, <1>5 DEF RunsInv, WriteScenario, historyVars
<1>6. ASSUME NEW r \in Runs, WriteAudit(r) PROVE RunsInv'
  BY <1>1, <1>6 DEF RunsInv, WriteAudit, historyVars
<1>7. ASSUME NEW r \in Runs, Kill(r) PROVE RunsInv'
  BY <1>1, <1>7 DEF RunsInv, Kill, historyVars
<1>8. CASE ~RunStep
  <2>1. UNCHANGED runVars /\ config' \in Assumptions
    BY <1>8 DEF AuditNext, auditVars, historyVars, Approve, Alter, DropLine, SwapLines, Merge, Damage,
                Configure, RunStep, RunsInv
  <2> QED BY <1>2, <2>1
<1> QED BY <1>3, <1>4, <1>5, <1>6, <1>7, <1>8 DEF RunStep

(* When the audit report says verified and the staffing report is the same  *)
(* run's, that run's assumptions were approved by somebody, for any number  *)
(* of runs that overlap or are killed between their reports, and whatever   *)
(* is configured, approved or damaged meanwhile.                            *)
THEOREM AuditVerifiesApproved == AuditSpec => []VerifiedMeansApproved
<1>1. AuditInit => RunsInv
  BY AuditAssumption DEF AuditInit, RunsInv
<1>2. RunsInv => VerifiedMeansApproved
  BY DEF RunsInv, VerifiedMeansApproved, ApprovedOnce
<1> QED BY <1>1, <1>2, RunsStep, AuditInvariance, PTL DEF AuditSpec

-----------------------------------------------------------------------------
(* The weeks of the staffing planner.                                       *)

LEMMA MinIsLeast ==
  ASSUME NEW S \in SUBSET Nat, S # {}
  PROVE  Min(S) \in S /\ \A m \in S : Min(S) <= m
BY LeastNatural DEF Min

LEMMA MaxIsGreatest ==
  ASSUME NEW n \in Nat, NEW S \in SUBSET (0..n), S # {}
  PROVE  Max(S) \in S /\ \A m \in S : m <= Max(S)
<1> DEFINE T == {n - m : m \in S}
<1>0. \A m \in S : n - m \in Nat
  OBVIOUS
<1>1. T \in SUBSET Nat /\ T # {}
  BY <1>0
<1>2. PICK k \in T : \A m \in T : k <= m
  BY <1>1, LeastNatural
<1>3. PICK x \in S : k = n - x
  BY <1>2
<1>4. \A m \in S : x >= m
  BY <1>2, <1>3
<1> QED BY <1>4 DEF Max

LEMMA MinOfInterval ==
  ASSUME NEW a \in Int, NEW b \in Int, a <= b
  PROVE  Min(a..b) = a
<1>1. a \in a..b /\ \A m \in a..b : a <= m
  OBVIOUS
<1>2. Min(a..b) \in a..b /\ \A m \in a..b : Min(a..b) <= m
  BY <1>1 DEF Min
<1> QED BY <1>1, <1>2

LEMMA WeekFacts ==
  /\ \A d \in Nat \ {0} : Week(d) \in Nat
  /\ \A d, e \in Nat \ {0} : d <= e => Week(d) <= Week(e)
  /\ \A d \in 1..MaxDays : Week(d) \in Weeks
<1> USE StaffingAssumption
<1>1. ASSUME NEW d \in Nat \ {0} PROVE Week(d) \in Nat
  BY DEF Week
<1>2. ASSUME NEW d \in Nat \ {0}, NEW e \in Nat \ {0}, d <= e PROVE Week(d) <= Week(e)
  BY <1>2 DEF Week
<1>3. ASSUME NEW d \in 1..MaxDays PROVE Week(d) \in Weeks
  <2>1. FirstWeekday + d - 1 \in Nat /\ FirstWeekday + d - 1 <= MaxDays + WeekDays
    OBVIOUS
  <2>2. (FirstWeekday + d - 1) \div WeekDays <= (MaxDays + WeekDays) \div WeekDays
    BY <2>1
  <2>3. (MaxDays + WeekDays) \div WeekDays = MaxDays \div WeekDays + 1
    OBVIOUS
  <2>4. MaxDays \div WeekDays \in Nat
    OBVIOUS
  <2>5. Week(d) \in Nat /\ Week(d) <= MaxDays \div WeekDays + 1
    BY <1>1, <2>2, <2>3 DEF Week
  <2> QED BY <2>4, <2>5 DEF Weeks
<1> QED BY <1>1, <1>2, <1>3

History ==
  /\ intake \in Seq(Nat) /\ Len(intake) <= MaxDays /\ delayed \in Nat
  /\ live = [w \in Weeks |-> live[w]]
  /\ arrived \in [Weeks -> [Weeks -> Nat]]
  /\ \A w \in Weeks : live[w] # <<>> => live[w] \in [ScenarioWeeks(w) -> Nat]

(* What the planner once forecast from is still what it would find, but for *)
(* the cases that have arrived since for weeks that were over.              *)
LiveInv ==
  \A w \in Weeks : live[w] # <<>> =>
    /\ Opened # {} /\ w <= Current
    /\ \A v \in ScenarioWeeks(w) \cap Weeks : Count(v) = live[w][v] + arrived[w][v]

StaffingInv == History /\ LiveInv

LEMMA DaysFacts ==
  ASSUME History
  PROVE  Days = 1..Len(intake) /\ Len(intake) \in Nat /\ Days \subseteq 1..MaxDays
BY StaffingAssumption DEF History, Days

LEMMA CurrentFacts ==
  ASSUME History, Opened # {}
  PROVE  /\ Max(Opened) \in Opened /\ Max(Opened) \in Days
         /\ \A d \in Opened : d <= Max(Opened) /\ Week(d) <= Current
         /\ Current \in Weeks /\ Current \in Nat
<1>1. Opened \in SUBSET (0..Len(intake)) /\ Opened \subseteq Days /\ Len(intake) \in Nat
  BY DaysFacts DEF Opened
<1>2. Max(Opened) \in Opened /\ \A d \in Opened : d <= Max(Opened)
  BY <1>1, MaxIsGreatest
<1>3. \A d \in Opened : d \in Nat \ {0}
  BY <1>1, DaysFacts
<1>4. \A d \in Opened : Week(d) <= Current
  BY <1>2, <1>3, WeekFacts DEF Current
<1>5. Current \in Weeks /\ Current \in Nat
  BY <1>1, <1>2, <1>3, WeekFacts, DaysFacts DEF Current
<1> QED BY <1>1, <1>2, <1>4, <1>5

NewestIsCurrent ==
  History /\ Opened # {} => Current \in Nat /\ Current \in Weeks /\ \A d \in Opened : Week(d) <= Current

LEMMA NewestIsCurrentNext == NewestIsCurrent'
<1>1. NewestIsCurrent
  BY CurrentFacts DEF NewestIsCurrent
<1> QED BY <1>1, PTL

LEMMA HistoryInit == StaffingInit => StaffingInv
BY StaffingAssumption DEF StaffingInit, StaffingInv, History, LiveInv, NoneLate

(* The counts of weeks are naturals, and only the first weeks have any. *)
LEMMA CountType ==
  ASSUME History, NEW u \in Int
  PROVE  /\ IsFiniteSet(DaysOf(u)) /\ DaysOf(u) \subseteq Days /\ Count(u) \in Nat
         /\ [d \in DaysOf(u) |-> intake[d]] \in [DaysOf(u) -> Nat]
<1>1. Days = 1..Len(intake) /\ Len(intake) \in Nat /\ DaysOf(u) \subseteq Days
  BY DaysFacts DEF DaysOf
<1>2. IsFiniteSet(DaysOf(u))
  <2>1. IsFiniteSet(1..Len(intake))
    BY <1>1, FS_Interval
  <2> QED BY <1>1, <2>1, FS_Subset
<1>3. [d \in DaysOf(u) |-> intake[d]] \in [DaysOf(u) -> Nat]
  BY <1>1 DEF History
<1>4. SumFunction([d \in DaysOf(u) |-> intake[d]]) \in Nat
  BY <1>2, <1>3, SumFunctionType
<1> QED BY <1>1, <1>2, <1>3, <1>4, Zenon DEF Count

LEMMA HistoryStep ==
  ASSUME History, StaffingNext
  PROVE  History'
<1>1. ASSUME NEW n \in {0, 1}, Day(n) PROVE History'
  BY <1>1, StaffingAssumption DEF History, Day, ScenarioWeeks
<1>2. ASSUME NEW d \in Days, ArriveLate(d) PROVE History'
  <2>1. Week(d) \in Weeks /\ d \in 1..Len(intake)
    BY DaysFacts, WeekFacts
  <2>2. intake' \in Seq(Nat) /\ Len(intake') <= MaxDays /\ delayed' \in Nat
    BY <1>2, <2>1 DEF History, ArriveLate
  <2>3. arrived' \in [Weeks -> [Weeks -> Nat]]
    BY <1>2, <2>1 DEF History, ArriveLate
  <2> QED BY <1>2, <2>2, <2>3 DEF History, ArriveLate, ScenarioWeeks
<1>3. CASE Forecast
  <2>1. Opened # {}
    BY <1>3 DEF Forecast, ScenarioAccepted
  <2>2. PICK c : c = Current
    OBVIOUS
  <2>3. c \in Weeks /\ c \in Nat
    BY <2>1, <2>2, CurrentFacts
  <2>4. [v \in ScenarioWeeks(c) |-> Count(v)] \in [ScenarioWeeks(c) -> Nat]
    BY CountType DEF ScenarioWeeks
  <2>5. PICK seen \in [ScenarioWeeks(c) -> Nat] : live' = [live EXCEPT ![c] = seen]
    <3>1. live' = [live EXCEPT ![c] = [v \in ScenarioWeeks(c) |-> Count(v)]]
      BY <1>3, <2>2 DEF Forecast
    <3> QED BY <2>4, <3>1
  <2>6. arrived' = [arrived EXCEPT ![c] = NoneLate] /\ NoneLate \in [Weeks -> Nat]
    BY <1>3, <2>2 DEF Forecast, NoneLate
  <2>7. arrived' \in [Weeks -> [Weeks -> Nat]] /\ live' = [w \in Weeks |-> live'[w]]
    BY <2>5, <2>6 DEF History
  <2>8. \A w \in Weeks : live'[w] # <<>> => live'[w] \in [ScenarioWeeks(w) -> Nat]
    BY <2>3, <2>5 DEF History
  <2> QED BY <1>3, <2>7, <2>8 DEF History, Forecast, ScenarioWeeks
<1> QED BY <1>1, <1>2, <1>3 DEF StaffingNext

(* A day only adds to the weeks that have begun. *)
LEMMA CountStays ==
  ASSUME History, NEW n \in {0, 1}, Day(n), Opened # {}, NEW u \in Int, u < Current
  PROVE  Count(u)' = Count(u)
<1> DEFINE k == Len(intake) + 1
<1>1. /\ intake \in Seq(Nat) /\ intake' = Append(intake, n)
      /\ Len(intake) \in Nat /\ Days = 1..Len(intake)
  BY DaysFacts DEF History, Day
<1>2. Days' = 1..k /\ \A d \in Days : intake'[d] = intake[d]
  BY <1>1 DEF Days
<1>3. Week(k) # u
  <2>1. Max(Opened) \in Days /\ Current \in Nat
    BY CurrentFacts
  <2>2. Max(Opened) \in Nat \ {0} /\ k \in Nat \ {0} /\ Max(Opened) <= k
    BY <1>1, <2>1
  <2>3. Current <= Week(k) /\ Week(k) \in Nat
    BY <2>2, WeekFacts DEF Current
  <2> QED BY <2>1, <2>3
<1>4. DaysOf(u)' = DaysOf(u) /\ DaysOf(u) \subseteq Days
  BY <1>1, <1>2, <1>3 DEF DaysOf
<1>5. [d \in DaysOf(u) |-> intake[d]]' = [d \in DaysOf(u) |-> intake[d]]
  BY <1>2, <1>4
<1> QED BY <1>5 DEF Count

(* A late case adds one to its own week. *)
LEMMA CountOfLate ==
  ASSUME History, NEW d \in Days, ArriveLate(d), NEW u \in Int
  PROVE  Count(u)' = IF Week(d) = u THEN Count(u) + 1 ELSE Count(u)
<1>1. /\ intake \in Seq(Nat) /\ intake' = [intake EXCEPT ![d] = @ + 1]
      /\ Days = 1..Len(intake) /\ Len(intake) \in Nat
  BY DaysFacts DEF History, ArriveLate
<1>2. Days' = Days
  BY <1>1 DEF Days
<1>3. DaysOf(u)' = DaysOf(u) /\ DaysOf(u) \subseteq Days
  BY <1>2 DEF DaysOf
<1> DEFINE S == DaysOf(u)
           f == [e \in S |-> intake[e]]
           g == [e \in S |-> intake'[e]]
<1>4. IsFiniteSet(S) /\ f \in [S -> Nat] /\ Count(u) \in Nat /\ Count(u) = SumFunction(f)
  BY CountType DEF Count
<1>5. Count(u)' = SumFunction(g)
  BY <1>3 DEF Count
<1>6. CASE Week(d) = u
  <2>1. d \in S /\ g \in [S -> Nat] /\ g[d] = f[d] + 1 /\ \A e \in S \ {d} : g[e] = f[e]
    BY <1>1, <1>3, <1>4, <1>6 DEF DaysOf
  <2> HIDE DEF S, f, g
  <2>2. SumFunction(g) + f[d] = SumFunction(f) + g[d]
    BY <1>4, <2>1, SumUpdate
  <2>3. SumFunction(g) \in Nat /\ f[d] \in Nat
    BY <1>4, <2>1, SumFunctionType
  <2> QED BY <1>4, <1>5, <1>6, <2>1, <2>2, <2>3
<1>7. CASE Week(d) # u
  <2>1. d \notin S
    BY <1>7 DEF DaysOf
  <2>2. f = g
    BY <1>1, <1>3, <2>1
  <2> QED BY <1>4, <1>5, <1>7, <2>2
<1> QED BY <1>6, <1>7

LEMMA CurrentGrows ==
  ASSUME History, StaffingNext, Opened # {}
  PROVE  (Opened # {})' /\ Current <= Current'
<1>1. Opened \subseteq Opened'
  <2>1. intake \in Seq(Nat) /\ Len(intake) \in Nat /\ Days = 1..Len(intake)
    BY DaysFacts DEF History
  <2>2. ASSUME NEW n \in {0, 1}, Day(n) PROVE Opened \subseteq Opened'
    BY <2>1, <2>2 DEF Day, Opened, Days
  <2>3. ASSUME NEW d \in Days, ArriveLate(d) PROVE Opened \subseteq Opened'
    BY <2>1, <2>3 DEF ArriveLate, Opened, Days
  <2>4. CASE Forecast
    BY <2>4 DEF Forecast, Opened, Days
  <2> QED BY <2>2, <2>3, <2>4 DEF StaffingNext
<1>2. Max(Opened) \in Opened
  BY CurrentFacts
<1>3. History'
  BY HistoryStep
<1>4. (Opened # {})'
  BY <1>1, <1>2
<1>5. (\A d \in Opened : Week(d) <= Current)'
  BY <1>3, <1>4, NewestIsCurrentNext DEF NewestIsCurrent
<1>6. PICK m : m = Max(Opened)
  OBVIOUS
<1>7. Week(m) <= Current'
  BY <1>1, <1>2, <1>5, <1>6
<1> QED BY <1>4, <1>6, <1>7 DEF Current

LEMMA LiveStep ==
  ASSUME History, LiveInv, StaffingNext
  PROVE  LiveInv'
<1>1. History'
  BY HistoryStep
<1>2. ASSUME NEW w \in Weeks, live[w] # <<>>
      PROVE  (Opened # {})' /\ w <= Current'
  <2>1. Opened # {} /\ w <= Current
    BY <1>2 DEF LiveInv
  <2>2. w \in Nat /\ Current \in Nat
    BY <2>1, CurrentFacts DEF Weeks
  <2>3. (Opened # {})' /\ Current <= Current'
    BY <2>1, CurrentGrows
  <2>4. Current' \in Nat
    BY <1>1, <2>3, NewestIsCurrentNext DEF NewestIsCurrent
  <2> QED BY <2>1, <2>2, <2>3, <2>4
<1>3. ASSUME NEW n \in {0, 1}, Day(n) PROVE LiveInv'
  <2>1. UNCHANGED <<live, arrived>>
    BY <1>3 DEF Day
  <2>2. ASSUME NEW w \in Weeks, live[w] # <<>>, NEW v \in ScenarioWeeks(w) \cap Weeks
        PROVE  Count(v)' = live[w][v] + arrived[w][v]
    <3>1. Opened # {} /\ w <= Current /\ Count(v) = live[w][v] + arrived[w][v]
      BY <2>2 DEF LiveInv
    <3>2. v \in Int /\ v < Current
      BY <3>1, CurrentFacts, StaffingAssumption DEF ScenarioWeeks, Weeks
    <3> QED BY <1>3, <3>1, <3>2, CountStays
  <2> QED BY <1>2, <2>1, <2>2 DEF LiveInv, ScenarioWeeks
<1>4. ASSUME NEW d \in Days, ArriveLate(d) PROVE LiveInv'
  <2>1. live' = live /\ Week(d) \in Weeks
    BY <1>4, DaysFacts, WeekFacts DEF ArriveLate
  <2>2. ASSUME NEW w \in Weeks, live[w] # <<>>, NEW v \in ScenarioWeeks(w) \cap Weeks
        PROVE  Count(v)' = live[w][v] + arrived'[w][v]
    <3>1. Count(v) = live[w][v] + arrived[w][v]
      BY <2>2 DEF LiveInv
    <3>2. arrived'[w] = [arrived[w] EXCEPT ![Week(d)] = @ + 1]
      BY <1>4, <2>2, Zenon DEF ArriveLate
    <3>3. live[w][v] \in Nat /\ arrived[w][v] \in Nat /\ arrived[w] \in [Weeks -> Nat] /\ v \in Int
      <4>1. live[w] \in [ScenarioWeeks(w) -> Nat] /\ arrived[w] \in [Weeks -> Nat]
        BY <2>2 DEF History
      <4>2. v \in Int
        BY DEF Weeks
      <4> QED BY <4>1, <4>2
    <3>4. Count(v)' = IF Week(d) = v THEN Count(v) + 1 ELSE Count(v)
      BY <1>4, <3>3, CountOfLate
    <3>5. arrived'[w][v] = IF Week(d) = v THEN arrived[w][v] + 1 ELSE arrived[w][v]
      BY <2>1, <2>2, <3>2, <3>3
    <3> QED BY <3>1, <3>3, <3>4, <3>5
  <2> QED BY <1>2, <2>1, <2>2 DEF LiveInv, ScenarioWeeks
<1>5. CASE Forecast
  <2>1. Opened # {} /\ UNCHANGED <<intake, delayed>>
    BY <1>5 DEF Forecast, ScenarioAccepted
  <2>2. UNCHANGED <<Days, Opened, Current>> /\ \A v : Count(v)' = Count(v)
    BY <2>1 DEF Days, Opened, Current, Count, DaysOf
  <2>3. PICK c : c = Current
    OBVIOUS
  <2>4. c \in Weeks /\ c \in Nat
    BY <2>1, <2>3, CurrentFacts
  <2>5. live' = [live EXCEPT ![c] = [v \in ScenarioWeeks(c) |-> Count(v)]]
        /\ arrived' = [arrived EXCEPT ![c] = NoneLate]
    BY <1>5, <2>3 DEF Forecast
  <2>6. ASSUME NEW w \in Weeks, live'[w] # <<>>, NEW v \in ScenarioWeeks(w) \cap Weeks
        PROVE  w <= Current /\ Count(v) = live'[w][v] + arrived'[w][v]
    <3>1. CASE w = c
      <4>1. live'[w][v] = Count(v) /\ arrived'[w][v] = 0
        BY <2>4, <2>5, <2>6, <3>1 DEF History, NoneLate
      <4>2. Count(v) \in Nat
        BY CountType DEF ScenarioWeeks
      <4> QED BY <2>3, <2>4, <3>1, <4>1, <4>2
    <3>2. CASE w # c
      <4>1. live'[w] = live[w] /\ arrived'[w] = arrived[w]
        BY <2>5, <3>2 DEF History
      <4> QED BY <2>6, <4>1 DEF LiveInv
    <3> QED BY <3>1, <3>2
  <2>7. ASSUME NEW w \in Weeks, live'[w] # <<>> PROVE w <= Current
    <3>1. CASE w = c
      BY <2>3, <2>4, <3>1
    <3>2. CASE w # c
      BY <2>5, <2>7, <3>2 DEF History, LiveInv
    <3> QED BY <3>1, <3>2
  <2> QED BY <2>1, <2>2, <2>6, <2>7 DEF LiveInv, ScenarioWeeks
<1> QED BY <1>3, <1>4, <1>5 DEF StaffingNext

LEMMA HistoryInvariance == StaffingSpec => []StaffingInv
<1>1. StaffingInv /\ [StaffingNext]_staffingVars => StaffingInv'
  <2>1. ASSUME StaffingInv, StaffingNext PROVE StaffingInv'
    BY <2>1, HistoryStep, LiveStep DEF StaffingInv
  <2>2. ASSUME StaffingInv, UNCHANGED staffingVars PROVE StaffingInv'
    BY <2>2 DEF StaffingInv, History, LiveInv, staffingVars, Opened, Days, Current, ScenarioWeeks,
                Count, DaysOf
  <2> QED BY <2>1, <2>2
<1> QED BY <1>1, HistoryInit, PTL DEF StaffingSpec

(* The history has at most MaxDays days, and a forecast for its weeks only. *)
THEOREM StaffingTypeCorrect == StaffingSpec => []History
<1>1. StaffingInv => History
  BY DEF StaffingInv
<1> QED BY <1>1, HistoryInvariance, PTL

-----------------------------------------------------------------------------
(* What the planner's checks let through. *)
LEMMA AcceptedFacts ==
  ASSUME History, Accepted
  PROVE  /\ Opened # {} /\ Current \in Nat /\ Current \in Weeks /\ FirstCompleteWeek \in Nat
         /\ Current - FirstCompleteWeek >= BacktestWeeks + ValidationWeeks
         /\ \E a \in Opened : Week(a) = FirstCompleteWeek - 1
<1>1. Opened # {} /\ Prepared # {}
      /\ Current - FirstCompleteWeek >= BacktestWeeks + ValidationWeeks
  BY DEF Accepted
<1>2. Prepared \subseteq Opened /\ Opened \subseteq Days
  BY DEF Prepared, Opened
<1>3. {Week(d) : d \in Prepared} \in SUBSET Nat /\ {Week(d) : d \in Prepared} # {}
  <2>1. \A d \in Prepared : d \in Nat \ {0}
    BY <1>2, DaysFacts
  <2> QED BY <1>1, <2>1, WeekFacts
<1>4. PICK a \in Prepared : Week(a) = Min({Week(d) : d \in Prepared})
  BY <1>3, MinIsLeast
<1>5. Min({Week(d) : d \in Prepared}) \in Nat
  BY <1>3, MinIsLeast
<1>6. FirstCompleteWeek \in Nat /\ Week(a) = FirstCompleteWeek - 1
  BY <1>4, <1>5 DEF FirstCompleteWeek
<1>7. a \in Opened
  BY <1>2
<1>8. Current \in Nat /\ Current \in Weeks
  BY <1>1, CurrentFacts
<1> QED BY <1>1, <1>6, <1>7, <1>8

LEMMA EvaluationFacts ==
  ASSUME History, Accepted, NEW w \in Evaluation
  PROVE  /\ w \in Nat /\ w \in Weeks /\ w < Current
         /\ FirstCompleteWeek <= w - BacktestWeeks
         /\ Training(w) = (w - BacktestWeeks)..(w - 1)
         /\ Cardinality(Training(w)) = BacktestWeeks
<1> USE StaffingAssumption
<1>1. /\ Current \in Nat /\ Current \in Weeks /\ FirstCompleteWeek \in Nat
      /\ Current - FirstCompleteWeek >= BacktestWeeks + ValidationWeeks
  BY AcceptedFacts
<1>2. w \in Int /\ Current - ValidationWeeks <= w /\ w < Current
  BY <1>1 DEF Evaluation
<1>3. FirstCompleteWeek <= w - BacktestWeeks /\ w \in Nat
  BY <1>1, <1>2
<1>4. w \in Weeks
  BY <1>1, <1>2, <1>3 DEF Weeks
<1>5. Training(w) = (w - BacktestWeeks)..(w - 1)
  BY <1>1, <1>2, <1>3 DEF Training, AllWeeks
<1>6. Cardinality((w - BacktestWeeks)..(w - 1)) = BacktestWeeks
  BY <1>3, FS_Interval
<1> QED BY <1>2, <1>3, <1>4, <1>5, <1>6

(* What the backtest trains on for a week is what the planner forecast from *)
(* when that week was the current one, in the weeks both windows have, and  *)
(* what has arrived late for these weeks since, however long the history.   *)
THEOREM BacktestSeesThePast == StaffingSpec => []BacktestIsLive
<1>1. ASSUME StaffingInv PROVE BacktestIsLive
  <2> DEFINE window(w) == (w - BacktestWeeks)..(w - 1)
  <2>1. SUFFICES ASSUME Accepted, NEW w \in Evaluation, live[w] # <<>>
                 PROVE  Trained(w) = [v \in window(w) |-> live[w][v] + arrived[w][v]]
    BY DEF BacktestIsLive
  <2>2. History /\ LiveInv
    BY <1>1 DEF StaffingInv
  <2>3. /\ w \in Nat /\ w \in Weeks /\ Training(w) = window(w)
        /\ FirstCompleteWeek <= w - BacktestWeeks /\ FirstCompleteWeek \in Nat
    BY <2>1, <2>2, EvaluationFacts, AcceptedFacts
  <2>4. ASSUME NEW v \in window(w) PROVE Count(v) = live[w][v] + arrived[w][v]
    <3>1. v \in ScenarioWeeks(w) \cap Weeks
      BY <2>3, StaffingAssumption DEF ScenarioWeeks, Weeks
    <3> QED BY <2>1, <2>2, <2>3, <3>1 DEF LiveInv
  <2> QED BY <2>3, <2>4 DEF Trained
<1> QED BY <1>1, HistoryInvariance, PTL

(* The weeks a backtest trains on and is judged on lie between the first    *)
(* and the newest case, and its windows are full.                           *)
THEOREM BacktestWeeksAreWhole == StaffingSpec => []BucketsAreWhole
<1>1. ASSUME StaffingInv PROVE BucketsAreWhole
  <2>1. SUFFICES ASSUME Accepted, NEW w \in Evaluation
                 PROVE  /\ Whole(w) /\ \A v \in Training(w) : Whole(v)
                        /\ Cardinality(Training(w)) = BacktestWeeks
    BY DEF BucketsAreWhole
  <2>2. History
    BY <1>1 DEF StaffingInv
  <2>3. /\ w \in Nat /\ w < Current /\ FirstCompleteWeek <= w - BacktestWeeks
        /\ Training(w) = (w - BacktestWeeks)..(w - 1) /\ Cardinality(Training(w)) = BacktestWeeks
    BY <2>1, <2>2, EvaluationFacts
  <2>4. Opened # {} /\ Current \in Nat /\ FirstCompleteWeek \in Nat
    BY <2>1, <2>2, AcceptedFacts
  <2>5. PICK a \in Opened : Week(a) = FirstCompleteWeek - 1
    BY <2>1, <2>2, AcceptedFacts
  <2>6. Max(Opened) \in Opened
    BY <2>2, <2>4, CurrentFacts
  <2>7. ASSUME NEW v \in Int, FirstCompleteWeek <= v, v < Current PROVE Whole(v)
    <3>1. Week(a) < v /\ v < Week(Max(Opened))
      BY <2>4, <2>5, <2>7 DEF Current
    <3> QED BY <2>6, <3>1 DEF Whole
  <2>8. Whole(w) /\ \A v \in Training(w) : Whole(v)
    BY <2>3, <2>4, <2>7, StaffingAssumption
  <2> QED BY <2>3, <2>8
<1> QED BY <1>1, HistoryInvariance, PTL

-----------------------------------------------------------------------------
(* The pages of the API and the console: what their variables hold.         *)

WalkRecord == [state : {"none", "count", "select", "ended"}, offset : Nat, total : Nat,
               seen : SUBSET Cases, again : SUBSET Cases, from : SUBSET Cases, edition : Nat]
ReportRecord == [at : Nat, cases : SUBSET Cases, edition : Nat]
ViewRecord == [state : {"none", "cases", "loaded", "shown"}, cases : SUBSET Cases, edition : Nat,
               events : SUBSET Cases, eventEdition : Nat, asOf : Nat,
               departments : SUBSET Departments(Cases), districts : SUBSET Districts(Cases),
               queue : SUBSET Cases]

ConsoleTypes ==
  /\ stored \in SUBSET Cases /\ edition \in Nat /\ walk \in WalkRecord
  /\ clock \in Nat /\ report \in ReportRecord /\ view \in ViewRecord

LEMMA EmptyRecords == NoWalk \in WalkRecord /\ NoReport \in ReportRecord /\ NoView \in ViewRecord
BY DEF NoWalk, WalkRecord, NoReport, ReportRecord, NoView, ViewRecord

LEMMA FiniteCases ==
  ASSUME NEW S \in SUBSET Cases
  PROVE  IsFiniteSet(S) /\ Cardinality(S) \in Nat
BY ReaderAssumption, FS_Subset, FS_CardinalityType

LEMMA ConsoleInit == Init => ConsoleTypes
BY EmptyRecords, ConsoleAssumption DEF Init, ReaderInit, ConsoleTypes

LEMMA SelectedFacts ==
  ASSUME NEW S \in SUBSET Cases, NEW departments, NEW districts
  PROVE  Selected(S, departments, districts) \subseteq S
BY DEF Selected

LEMMA QueueFacts ==
  ASSUME NEW S, NEW Q \in Queues(S, RiskLimit)
  PROVE  /\ Q \subseteq Open(S) /\ Cardinality(Q) = Min({RiskLimit, Cardinality(Open(S))})
         /\ \A c \in Q, d \in Open(S) \ Q : Facts[c].risk >= Facts[d].risk
BY DEF Queues, kSubset

LEMMA ConsoleTypesKept == ConsoleTypes /\ [Next]_vars => ConsoleTypes'
<1> SUFFICES ASSUME ConsoleTypes, [Next]_vars PROVE ConsoleTypes'
  OBVIOUS
<1> USE DEF ConsoleTypes
<1>1. ASSUME NEW t \in Instants, Tick(t) PROVE ConsoleTypes'
  BY <1>1, ConsoleAssumption DEF Tick, readerVars
<1>2. ASSUME NEW batch \in Batches, Arrive(batch) PROVE ConsoleTypes'
  BY <1>2, ConsoleAssumption DEF Arrive, Ingest
<1>3. ASSUME NEW cases \in Generated, WriteReports(cases) PROVE ConsoleTypes'
  BY <1>3, ConsoleAssumption DEF WriteReports, readerVars, ReportRecord
<1>4. ASSUME LoadWarehouse PROVE ConsoleTypes'
  BY <1>4 DEF LoadWarehouse, Refresh, ReportRecord
<1>5. ASSUME ReaderStep, UNCHANGED <<clock, report, view>> PROVE ConsoleTypes'
  <2>1. UNCHANGED <<stored, edition>>
    BY <1>5 DEF ReaderStep, BeginWalk, CountCases, SelectPage, LeaveWalk
  <2>2. walk' \in WalkRecord
    <3>1. CASE BeginWalk
      BY <3>1 DEF BeginWalk, WalkRecord, NoWalk
    <3>2. CASE CountCases
      BY <3>2, FiniteCases DEF CountCases, WalkRecord
    <3>3. CASE SelectPage
      <4>1. Page(walk.offset) \in SUBSET Cases
        BY DEF Page
      <4>2. walk.offset \in Nat /\ walk.offset + Limit \in Nat
        BY ReaderAssumption DEF WalkRecord
      <4>3. PICK state \in {"ended", "count"}, again \in SUBSET Cases :
              walk' = [walk EXCEPT !.state = state, !.offset = walk.offset + Limit,
                                   !.seen = walk.seen \cup Page(walk.offset), !.again = again]
        <5>1. walk.again \cup (Page(walk.offset) \cap walk.seen) \in SUBSET Cases
          BY <4>1 DEF WalkRecord
        <5>2. (IF Cardinality(Page(walk.offset)) < Limit THEN "ended" ELSE "count") \in {"ended", "count"}
          OBVIOUS
        <5> QED BY <3>3, <5>1, <5>2, Zenon DEF SelectPage
      <4>4. walk.seen \cup Page(walk.offset) \in SUBSET Cases
        BY <4>1 DEF WalkRecord
      <4> HIDE DEF ConsoleTypes
      <4>5. walk \in WalkRecord
        BY DEF ConsoleTypes
      <4> QED BY <4>2, <4>3, <4>4, <4>5 DEF WalkRecord
    <3>4. CASE LeaveWalk
      BY <3>4, EmptyRecords DEF LeaveWalk
    <3> QED BY <1>5, <3>1, <3>2, <3>3, <3>4 DEF ReaderStep
  <2> QED BY <1>5, <2>1, <2>2
<1>6. ASSUME LoadCases PROVE ConsoleTypes'
  BY <1>6 DEF LoadCases, ViewRecord, readerVars
<1>7. ASSUME LoadEvents PROVE ConsoleTypes'
  BY <1>7 DEF LoadEvents, FrameIsNext, ViewRecord, readerVars
<1>8. ASSUME Render PROVE ConsoleTypes'
  <2>1. view.cases \in SUBSET Cases
    BY DEF ViewRecord
  <2>2. CASE view' = NoView
    BY <1>8, <2>2, EmptyRecords DEF Render, readerVars
  <2>3. ASSUME NEW departments \in SUBSET Departments(view.cases),
               NEW districts \in SUBSET Districts(view.cases),
               NEW queue \in Queues(Selected(view.cases, departments, districts), RiskLimit),
               view' = [view EXCEPT !.state = "shown", !.asOf = clock, !.queue = queue,
                                    !.departments = departments, !.districts = districts]
        PROVE  ConsoleTypes'
    <3>1. departments \in SUBSET Departments(Cases) /\ districts \in SUBSET Districts(Cases)
      BY <2>1 DEF Departments, Districts
    <3>2. queue \in SUBSET Cases
      <4>1. Selected(view.cases, departments, districts) \in SUBSET Cases
        BY <2>1, SelectedFacts
      <4>2. queue \subseteq Open(Selected(view.cases, departments, districts))
        BY QueueFacts
      <4> QED BY <4>1, <4>2 DEF Open
    <3>3. view' \in ViewRecord
      BY <2>3, <3>1, <3>2 DEF ViewRecord
    <3> QED BY <1>8, <3>3 DEF Render, readerVars
  <2> QED BY <1>8, <2>2, <2>3 DEF Render
<1>9. ASSUME Rerun PROVE ConsoleTypes'
  BY <1>9, EmptyRecords DEF Rerun, readerVars
<1>10. ASSUME UNCHANGED vars PROVE ConsoleTypes'
  BY <1>10 DEF vars, readerVars
<1> QED BY <1>1, <1>2, <1>3, <1>4, <1>5, <1>6, <1>7, <1>8, <1>9, <1>10 DEF Next

-----------------------------------------------------------------------------
(* Ranks: the lower sets of a finite chain have the sizes 1, 2, and so on.  *)

IsChain(low, S) ==
  /\ \A c \in S : c \in low[c]
  /\ \A c, d \in S : c # d => low[c] # low[d] /\ (low[c] \subseteq low[d] \/ low[d] \subseteq low[c])

Sizes(low, S) == [c \in S |-> Cardinality(low[c])]

LEMMA RanksAreAll ==
  ASSUME NEW S, IsFiniteSet(S), NEW low \in [S -> SUBSET S], IsChain(low, S)
  PROVE  /\ Cardinality(S) \in Nat
         /\ \A c \in S : Cardinality(low[c]) \in 1..Cardinality(S)
         /\ \A k \in 1..Cardinality(S) : \E c \in S : Cardinality(low[c]) = k
         /\ \A c, d \in S : Cardinality(low[c]) = Cardinality(low[d]) => c = d
<1> DEFINE n == Cardinality(S)
           r == Sizes(low, S)
<1>1. n \in Nat
  BY FS_CardinalityType
<1>2. ASSUME NEW c \in S PROVE IsFiniteSet(low[c]) /\ Cardinality(low[c]) \in 1..n
  <2>1. low[c] \in SUBSET S /\ low[c] # {}
    BY DEF IsChain
  <2>2. IsFiniteSet(low[c]) /\ Cardinality(low[c]) <= n
    BY <2>1, FS_Subset
  <2>3. Cardinality(low[c]) \in Nat /\ Cardinality(low[c]) # 0
    BY <2>1, <2>2, FS_CardinalityType, FS_EmptySet
  <2> QED BY <1>1, <2>2, <2>3
<1>3. ASSUME NEW c \in S, NEW d \in S, c # d PROVE Cardinality(low[c]) # Cardinality(low[d])
  <2>1. low[c] # low[d] /\ (low[c] \subseteq low[d] \/ low[d] \subseteq low[c])
    BY <1>3 DEF IsChain
  <2>2. IsFiniteSet(low[c]) /\ IsFiniteSet(low[d])
    BY <1>2
  <2>3. CASE low[c] \subseteq low[d]
    BY <2>1, <2>2, <2>3, FS_Subset
  <2>4. CASE low[d] \subseteq low[c]
    BY <2>1, <2>2, <2>4, FS_Subset
  <2> QED BY <2>1, <2>3, <2>4
<1>4. r \in Injection(S, 1..n)
  BY <1>2, <1>3 DEF Injection, Sizes, IsInjective
<1>5. IsFiniteSet(1..n) /\ Cardinality(1..n) = n
  BY <1>1, FS_Interval
<1>6. r \in Surjection(S, 1..n)
  BY <1>4, <1>5, FS_Injection
<1>7. \A k \in 1..n : \E c \in S : r[c] = k
  BY <1>6 DEF Surjection
<1> QED BY <1>1, <1>2, <1>3, <1>7 DEF Sizes

LowSets(S) == [c \in S |-> {d \in S : d <= c}]

LEMMA NumbersAreChain ==
  ASSUME NEW S \in SUBSET Nat
  PROVE  LowSets(S) \in [S -> SUBSET S] /\ IsChain(LowSets(S), S)
<1>1. LowSets(S) \in [S -> SUBSET S] /\ \A c \in S : LowSets(S)[c] = {d \in S : d <= c}
  BY DEF LowSets
<1>2. \A c \in S : c \in LowSets(S)[c]
  BY <1>1
<1>3. ASSUME NEW c \in S, NEW d \in S, c < d
      PROVE  LowSets(S)[c] \subseteq LowSets(S)[d] /\ LowSets(S)[c] # LowSets(S)[d]
  <2>1. d \in LowSets(S)[d] /\ d \notin LowSets(S)[c]
    BY <1>1, <1>3
  <2>2. \A e \in S : e <= c => e <= d
    BY <1>3
  <2>3. LowSets(S)[c] \subseteq LowSets(S)[d]
    BY <1>1, <2>2, Zenon
  <2> QED BY <2>1, <2>3
<1>4. \A c, d \in S : c # d => c < d \/ d < c
  OBVIOUS
<1> QED BY <1>1, <1>2, <1>3, <1>4 DEF IsChain

(* Ranks are the numbers from 1 to the number of cases.                     *)
LEMMA RankFacts ==
  ASSUME stored \in SUBSET Cases
  PROVE  /\ Cardinality(stored) \in Nat
         /\ \A c \in stored : Rank(c) \in 1..Cardinality(stored)
         /\ \A k \in 1..Cardinality(stored) : \E c \in stored : Rank(c) = k
         /\ \A c, d \in stored : Rank(c) = Rank(d) => c = d
<1>1. stored \in SUBSET Nat /\ IsFiniteSet(stored)
  BY FiniteCases, ReaderAssumption
<1>2. \A c \in stored : Cardinality(LowSets(stored)[c]) = Rank(c)
  BY DEF LowSets, Rank
<1>3. /\ Cardinality(stored) \in Nat
      /\ \A c \in stored : Cardinality(LowSets(stored)[c]) \in 1..Cardinality(stored)
      /\ \A k \in 1..Cardinality(stored) : \E c \in stored : Cardinality(LowSets(stored)[c]) = k
      /\ \A c, d \in stored : Cardinality(LowSets(stored)[c]) = Cardinality(LowSets(stored)[d]) => c = d
  BY <1>1, NumbersAreChain, RanksAreAll
<1> QED BY <1>2, <1>3

(* A page that is not full is the last one.                                 *)
LEMMA ShortPageIsLast ==
  ASSUME stored \in SUBSET Cases, NEW offset \in Nat, Cardinality(Page(offset)) < Limit,
         NEW c \in stored
  PROVE  Rank(c) <= offset + Limit
<1> USE ReaderAssumption
<1>1. SUFFICES ASSUME Rank(c) > offset + Limit PROVE FALSE
  BY RankFacts
<1>2. (offset + 1)..(offset + Limit) \subseteq 1..Cardinality(stored)
  BY <1>1, RankFacts
<1> DEFINE page == Page(offset)
           places == (offset + 1)..(offset + Limit)
           rank == [d \in page |-> Rank(d)]
<1>3. page \in SUBSET Cases /\ IsFiniteSet(page) /\ Cardinality(page) \in Nat
  BY FiniteCases DEF Page
<1>4. rank \in [page -> places]
  <2>1. ASSUME NEW d \in page PROVE Rank(d) \in places
    <3>1. d \in stored /\ offset < Rank(d) /\ Rank(d) <= offset + Limit
      BY DEF Page
    <3>2. Rank(d) \in Nat
      BY <3>1, RankFacts
    <3> QED BY <3>1, <3>2
  <2> QED BY <2>1
<1>5. ASSUME NEW k \in places PROVE \E d \in page : rank[d] = k
  <2>1. PICK d \in stored : Rank(d) = k
    BY <1>2, RankFacts
  <2>2. d \in page
    BY <2>1 DEF Page
  <2> QED BY <2>1, <2>2
<1>6. rank \in Surjection(page, places)
  BY <1>4, <1>5 DEF Surjection
<1>7. Cardinality(places) <= Cardinality(page)
  BY <1>3, <1>6, FS_Surjection
<1>8. Cardinality(places) = Limit
  BY FS_Interval
<1> QED BY <1>3, <1>7, <1>8

-----------------------------------------------------------------------------
(* Until the warehouse is replaced, the cases the walk began with and has   *)
(* not seen are on the pages it has not read; and what it has seen are the  *)
(* pages before its offset, if the ledger has not grown.                    *)
WalkInv ==
  walk.state # "none" =>
    /\ walk.edition <= edition
    /\ walk.edition = edition =>
         /\ walk.from \subseteq stored
         /\ \A c \in walk.from : c \in walk.seen \/ Rank(c) > walk.offset
         /\ walk.state = "ended" => walk.from \subseteq walk.seen
         /\ walk.from = stored => /\ walk.again = {}
                                  /\ walk.seen = {c \in stored : Rank(c) <= walk.offset}

(* New rows move the others to later pages.                                 *)
LEMMA RankGrows ==
  ASSUME stored \in SUBSET Cases, stored' \in SUBSET Cases, stored \subseteq stored', NEW c \in stored
  PROVE  Rank(c) <= Rank(c)' /\ Rank(c) \in Nat /\ Rank(c)' \in Nat
<1>1. {d \in stored : d <= c} \subseteq {d \in stored' : d <= c}
  OBVIOUS
<1>2. {d \in stored : d <= c} \in SUBSET Cases /\ {d \in stored' : d <= c} \in SUBSET Cases
  OBVIOUS
<1>3. Cardinality({d \in stored : d <= c}) <= Cardinality({d \in stored' : d <= c})
  BY <1>1, <1>2, FiniteCases, FS_Subset
<1>4. Cardinality({d \in stored : d <= c}) \in Nat /\ Cardinality({d \in stored' : d <= c}) \in Nat
  BY <1>2, FiniteCases
<1> QED BY <1>3, <1>4 DEF Rank

LEMMA WalkReads ==
  ASSUME ConsoleTypes, WalkInv, SelectPage
  PROVE  WalkInv'
<1>1. /\ walk.state = "select" /\ UNCHANGED <<stored, edition>>
      /\ walk'.edition = walk.edition /\ walk'.from = walk.from
      /\ walk'.offset = walk.offset + Limit
      /\ walk'.seen = walk.seen \cup Page(walk.offset)
      /\ walk'.again = walk.again \cup (Page(walk.offset) \cap walk.seen)
      /\ walk'.state = IF Cardinality(Page(walk.offset)) < Limit THEN "ended" ELSE "count"
  BY DEF SelectPage, ConsoleTypes, WalkRecord
<1>2. walk.offset \in Nat /\ Limit \in Nat /\ stored \in SUBSET Cases
  BY ReaderAssumption DEF ConsoleTypes, WalkRecord
<1>3. walk.edition <= edition
  BY <1>1 DEF WalkInv
<1>4. ASSUME walk.edition = edition
      PROVE  /\ walk.from \subseteq stored
             /\ \A c \in walk.from : c \in walk'.seen \/ Rank(c) > walk.offset + Limit
             /\ Cardinality(Page(walk.offset)) < Limit => walk.from \subseteq walk'.seen
             /\ walk.from = stored =>
                  /\ walk'.again = {}
                  /\ walk'.seen = {c \in stored : Rank(c) <= walk.offset + Limit}
  <2>1. /\ walk.from \subseteq stored
        /\ \A c \in walk.from : c \in walk.seen \/ Rank(c) > walk.offset
        /\ walk.from = stored => /\ walk.again = {}
                                 /\ walk.seen = {c \in stored : Rank(c) <= walk.offset}
    BY <1>1, <1>4 DEF WalkInv
  <2>2. \A c \in stored : Rank(c) \in Nat
    BY <1>2, RankFacts
  <2>3. \A c \in stored : c \in Page(walk.offset) <=> walk.offset < Rank(c) /\ Rank(c) <= walk.offset + Limit
    BY DEF Page
  <2>4. \A c \in walk.from : c \in walk'.seen \/ Rank(c) > walk.offset + Limit
    BY <1>1, <1>2, <2>1, <2>2, <2>3
  <2>5. Cardinality(Page(walk.offset)) < Limit => walk.from \subseteq walk'.seen
    <3>1. SUFFICES ASSUME Cardinality(Page(walk.offset)) < Limit, NEW c \in walk.from
                   PROVE  c \in walk'.seen
      OBVIOUS
    <3>2. Rank(c) <= walk.offset + Limit
      BY <1>2, <2>1, <3>1, ShortPageIsLast
    <3> QED BY <1>2, <2>1, <2>2, <2>4, <3>2
  <2>6. ASSUME walk.from = stored
        PROVE  /\ walk'.again = {}
               /\ walk'.seen = {c \in stored : Rank(c) <= walk.offset + Limit}
    <3>1. Page(walk.offset) \subseteq stored
      BY DEF Page
    <3>2. walk'.again = {}
      BY <1>1, <1>2, <2>1, <2>2, <2>3, <2>6, <3>1
    <3>3. walk'.seen = {c \in stored : Rank(c) <= walk.offset + Limit}
      BY <1>1, <1>2, <2>1, <2>2, <2>3, <2>6, <3>1
    <3> QED BY <3>2, <3>3
  <2> QED BY <2>1, <2>4, <2>5, <2>6
<1>5. \A c : Rank(c)' = Rank(c)
  BY <1>1 DEF Rank
<1>6. walk'.state = "ended" => Cardinality(Page(walk.offset)) < Limit
  BY <1>1
<1> QED BY <1>1, <1>3, <1>4, <1>5, <1>6 DEF WalkInv

LEMMA WalkMeets ==
  ASSUME ConsoleTypes, ConsoleTypes', WalkInv, UNCHANGED <<walk, edition>>, stored \subseteq stored'
  PROVE  WalkInv'
<1>1. stored \in SUBSET Cases /\ stored' \in SUBSET Cases
  BY DEF ConsoleTypes
<1>2. \A c \in stored : Rank(c) <= Rank(c)' /\ Rank(c) \in Nat /\ Rank(c)' \in Nat
  BY <1>1, RankGrows
<1>3. walk.offset \in Nat
  BY DEF ConsoleTypes, WalkRecord
<1>4. SUFFICES ASSUME walk.state # "none", walk.edition = edition
               PROVE  /\ walk.from \subseteq stored'
                      /\ \A c \in walk.from : c \in walk.seen \/ Rank(c)' > walk.offset
                      /\ walk.state = "ended" => walk.from \subseteq walk.seen
                      /\ walk.from = stored' =>
                           /\ walk.again = {}
                           /\ walk.seen = {c \in stored' : Rank(c)' <= walk.offset}
  BY DEF WalkInv
<1>5. /\ walk.from \subseteq stored
      /\ \A c \in walk.from : c \in walk.seen \/ Rank(c) > walk.offset
      /\ walk.state = "ended" => walk.from \subseteq walk.seen
      /\ walk.from = stored => /\ walk.again = {}
                               /\ walk.seen = {c \in stored : Rank(c) <= walk.offset}
  BY <1>4 DEF WalkInv
<1>6. ASSUME walk.from = stored' PROVE stored' = stored /\ \A c : Rank(c)' = Rank(c)
  <2>1. stored' = stored
    BY <1>5, <1>6
  <2> QED BY <2>1 DEF Rank
<1> QED BY <1>2, <1>3, <1>5, <1>6

LEMMA WalkKept ==
  ASSUME ConsoleTypes, ConsoleTypes', WalkInv, [Next]_vars
  PROVE  WalkInv'
<1>1. ASSUME UNCHANGED <<stored, edition, walk>> PROVE WalkInv'
  BY <1>1 DEF WalkInv, Rank
<1>2. ASSUME NEW batch \in Batches, Arrive(batch) PROVE WalkInv'
  <2>1. UNCHANGED <<walk, edition>> /\ stored \subseteq stored'
    BY <1>2 DEF Arrive, Ingest
  <2> QED BY <2>1, WalkMeets
<1>3. ASSUME LoadWarehouse PROVE WalkInv'
  <2>1. edition' = edition + 1 /\ walk' = walk
    BY <1>3 DEF LoadWarehouse, Refresh
  <2>2. edition \in Nat /\ walk.edition \in Nat
    BY DEF ConsoleTypes, WalkRecord
  <2> QED BY <2>1, <2>2 DEF WalkInv
<1>4. ASSUME BeginWalk PROVE WalkInv'
  <2>1. /\ UNCHANGED <<stored, edition>> /\ walk'.state = "count" /\ walk'.edition = edition
        /\ walk'.from = stored /\ walk'.seen = {} /\ walk'.again = {} /\ walk'.offset = 0
    BY <1>4 DEF BeginWalk, NoWalk
  <2>2. \A c \in stored : Rank(c)' = Rank(c) /\ Rank(c) \in Nat /\ Rank(c) >= 1
    <3>1. \A c \in stored : Rank(c)' = Rank(c)
      BY <2>1 DEF Rank
    <3> QED BY <3>1, RankFacts DEF ConsoleTypes
  <2>3. edition \in Nat
    BY DEF ConsoleTypes
  <2> QED BY <2>1, <2>2, <2>3 DEF WalkInv
<1>5. ASSUME CountCases PROVE WalkInv'
  <2>1. /\ UNCHANGED <<stored, edition>> /\ walk.state = "count" /\ walk'.state = "select"
        /\ walk'.edition = walk.edition /\ walk'.from = walk.from /\ walk'.seen = walk.seen
        /\ walk'.again = walk.again /\ walk'.offset = walk.offset
    BY <1>5 DEF CountCases, ConsoleTypes, WalkRecord
  <2>2. \A c : Rank(c)' = Rank(c)
    BY <2>1 DEF Rank
  <2> QED BY <2>1, <2>2 DEF WalkInv
<1>6. ASSUME LeaveWalk PROVE WalkInv'
  BY <1>6 DEF LeaveWalk, WalkInv, NoWalk
<1>7. ASSUME ReaderStep PROVE WalkInv'
  BY <1>4, <1>5, <1>6, <1>7, WalkReads DEF ReaderStep
<1>8. ASSUME NEW t \in Instants, Tick(t) PROVE WalkInv'
  BY <1>1, <1>8 DEF Tick, readerVars
<1>9. ASSUME NEW cases \in Generated, WriteReports(cases) PROVE WalkInv'
  BY <1>1, <1>9 DEF WriteReports, readerVars
<1>10. ASSUME LoadCases \/ LoadEvents \/ Render \/ Rerun \/ UNCHANGED vars PROVE WalkInv'
  BY <1>1, <1>10 DEF LoadCases, LoadEvents, Render, Rerun, vars, readerVars
<1> QED BY <1>2, <1>3, <1>7, <1>8, <1>9, <1>10 DEF Next

(* A walk to the last page shows every case it began with, whatever was     *)
(* committed between its pages, and none twice unless the ledger grew.      *)
THEOREM WalkSkipsNothing == Spec => []NothingSkipped
<1>1. Init => ConsoleTypes /\ WalkInv
  BY ConsoleInit DEF Init, ReaderInit, WalkInv, NoWalk
<1>2. ConsoleTypes /\ WalkInv /\ [Next]_vars => (ConsoleTypes /\ WalkInv)'
  BY ConsoleTypesKept, WalkKept
<1>3. ConsoleTypes /\ WalkInv => NothingSkipped
  BY DEF WalkInv, NothingSkipped
<1> QED BY <1>1, <1>2, <1>3, PTL DEF Spec

-----------------------------------------------------------------------------
(* The console's frames: while the warehouse is the one its cases were read *)
(* from, it still holds them; events that were read from the same edition   *)
(* are of all of them; and the queue is one of the displayed cases.         *)
FrameInv ==
  /\ view.state # "none" =>
       /\ view.edition <= edition
       /\ view.edition = edition => view.cases \subseteq stored
  /\ view.state \in {"loaded", "shown"} /\ view.edition = view.eventEdition =>
       view.cases \subseteq view.events
  /\ view.state = "shown" => view.queue \in Queues(Shown, RiskLimit) /\ Shown # {}

LEMMA FrameKept ==
  ASSUME ConsoleTypes, FrameInv, [Next]_vars
  PROVE  FrameInv'
<1>1. ASSUME view' = view, edition' = edition, stored \subseteq stored' PROVE FrameInv'
  BY <1>1 DEF FrameInv, Shown
<1>2. ASSUME view' = NoView PROVE FrameInv'
  BY <1>2 DEF FrameInv, NoView
<1>3. ASSUME NEW batch \in Batches, Arrive(batch) PROVE FrameInv'
  <2>1. view' = view /\ edition' = edition /\ stored \subseteq stored'
    BY <1>3 DEF Arrive, Ingest
  <2> QED BY <1>1, <2>1
<1>4. ASSUME LoadWarehouse PROVE FrameInv'
  <2>1. edition' = edition + 1 /\ view' = view
    BY <1>4 DEF LoadWarehouse, Refresh
  <2>2. edition \in Nat /\ view.edition \in Nat
    BY DEF ConsoleTypes, ViewRecord
  <2> QED BY <2>1, <2>2 DEF FrameInv, Shown
<1>5. ASSUME LoadCases PROVE FrameInv'
  <2>1. /\ UNCHANGED <<stored, edition>> /\ view'.state = "cases" /\ view'.edition = edition
        /\ view'.cases = stored
    BY <1>5 DEF LoadCases, FrameIsNext, readerVars, ConsoleTypes, ViewRecord
  <2>2. edition \in Nat
    BY DEF ConsoleTypes
  <2> QED BY <2>1, <2>2 DEF FrameInv
<1>6. ASSUME LoadEvents PROVE FrameInv'
  <2>1. /\ UNCHANGED <<stored, edition>> /\ view.state = "cases" /\ view'.state = "loaded"
        /\ view'.edition = view.edition /\ view'.cases = view.cases
        /\ view'.events = stored /\ view'.eventEdition = edition
    BY <1>6 DEF LoadEvents, FrameIsNext, readerVars, ConsoleTypes, ViewRecord
  <2> QED BY <2>1 DEF FrameInv
<1>7. ASSUME NEW departments, NEW districts,
             NEW queue \in Queues(Selected(view.cases, departments, districts), RiskLimit),
             Selected(view.cases, departments, districts) # {}, Render,
             view' = [view EXCEPT !.state = "shown", !.asOf = clock, !.queue = queue,
                                  !.departments = departments, !.districts = districts]
      PROVE  FrameInv'
  <2>1. /\ UNCHANGED <<stored, edition>> /\ view.state = "loaded" /\ view'.state = "shown"
        /\ view'.edition = view.edition /\ view'.cases = view.cases
        /\ view'.events = view.events /\ view'.eventEdition = view.eventEdition
        /\ view'.queue = queue /\ view'.departments = departments /\ view'.districts = districts
    BY <1>7 DEF Render, readerVars, ConsoleTypes, ViewRecord
  <2>2. Shown' = Selected(view.cases, departments, districts)
    BY <2>1 DEF Shown, Selected
  <2>3. Queues(Shown', RiskLimit) = Queues(Shown, RiskLimit)'
    BY DEF Queues
  <2> QED BY <1>7, <2>1, <2>2, <2>3 DEF FrameInv
<1>8. ASSUME Render PROVE FrameInv'
  BY <1>2, <1>7, <1>8 DEF Render
<1>9. ASSUME ReaderStep, view' = view PROVE FrameInv'
  <2>1. UNCHANGED <<stored, edition>>
    BY <1>9 DEF ReaderStep, BeginWalk, CountCases, SelectPage, LeaveWalk
  <2> QED BY <1>1, <1>9, <2>1
<1>10. ASSUME NEW t \in Instants, Tick(t) PROVE FrameInv'
  BY <1>1, <1>10 DEF Tick, readerVars
<1>11. ASSUME NEW cases \in Generated, WriteReports(cases) PROVE FrameInv'
  BY <1>1, <1>11 DEF WriteReports, readerVars
<1>12. ASSUME Rerun PROVE FrameInv'
  BY <1>2, <1>12 DEF Rerun
<1>13. ASSUME UNCHANGED vars PROVE FrameInv'
  BY <1>1, <1>13 DEF vars, readerVars
<1> QED BY <1>3, <1>4, <1>5, <1>6, <1>8, <1>9, <1>10, <1>11, <1>12, <1>13 DEF Next

LEMMA FrameInvariance == Spec => [](ConsoleTypes /\ FrameInv)
<1>1. Init => ConsoleTypes /\ FrameInv
  BY ConsoleInit DEF Init, FrameInv, NoView
<1>2. ConsoleTypes /\ FrameInv /\ [Next]_vars => (ConsoleTypes /\ FrameInv)'
  BY ConsoleTypesKept, FrameKept
<1> QED BY <1>1, <1>2, PTL DEF Spec

(* The console and the walk read stored cases only, at hours that happened. *)
THEOREM ConsoleTypeCorrect == Spec => []ConsoleTypes
BY FrameInvariance, PTL

LEMMA MinOfTwo ==
  ASSUME NEW a \in Nat, NEW b \in Nat
  PROVE  Min({a, b}) = IF a <= b THEN a ELSE b
<1>1. {a, b} \in SUBSET Nat /\ {a, b} # {}
  OBVIOUS
<1>2. Min({a, b}) \in {a, b} /\ Min({a, b}) <= a /\ Min({a, b}) <= b
  BY <1>1, MinIsLeast
<1> QED BY <1>2

(* The head of the ranking has as many cases of the top band as there are,  *)
(* up to its length.                                                        *)
LEMMA HeadOfRanking ==
  ASSUME NEW S \in SUBSET Cases, NEW Q \in Queues(S, RiskLimit)
  PROVE  Cardinality({c \in Q : Band(c) = "high"}) =
           Min({RiskLimit, Cardinality({c \in Open(S) : Band(c) = "high"})})
<1> DEFINE open == Open(S)
           high == {c \in open : Band(c) = "high"}
           top  == {c \in Q : Band(c) = "high"}
<1>1. /\ Q \subseteq open /\ Cardinality(Q) = Min({RiskLimit, Cardinality(open)})
      /\ \A c \in Q, d \in open \ Q : Facts[c].risk >= Facts[d].risk
  BY QueueFacts
<1>2. \A T \in SUBSET open : IsFiniteSet(T) /\ Cardinality(T) \in Nat
  BY FiniteCases DEF Open
<1>3. \A c \in open : Facts[c].risk \in Nat /\ (Band(c) = "high" <=> Facts[c].risk > 65)
  BY ReportAssumption, ConsoleAssumption DEF Open, Band
<1>4. RiskLimit \in Nat /\ Cardinality(open) \in Nat /\ Cardinality(Q) \in Nat /\ Cardinality(high) \in Nat
  BY <1>1, <1>2, ConsoleAssumption
<1>5. Cardinality(Q) = IF RiskLimit <= Cardinality(open) THEN RiskLimit ELSE Cardinality(open)
  BY <1>1, <1>4, MinOfTwo
<1>6. Min({RiskLimit, Cardinality(high)}) =
        IF RiskLimit <= Cardinality(high) THEN RiskLimit ELSE Cardinality(high)
  BY <1>4, MinOfTwo
<1>7. CASE high \subseteq Q
  <2>1. top = high
    BY <1>1, <1>7
  <2>2. Cardinality(high) <= Cardinality(Q)
    BY <1>1, <1>2, <1>7, FS_Subset
  <2> QED BY <1>4, <1>5, <1>6, <2>1, <2>2
<1>8. ASSUME NEW d \in high \ Q PROVE Cardinality(top) = Min({RiskLimit, Cardinality(high)})
  <2>1. Facts[d].risk > 65 /\ d \in open \ Q
    BY <1>3
  <2>2. \A c \in Q : Band(c) = "high"
    BY <1>1, <1>3, <2>1
  <2>3. top = Q /\ Q \subseteq high
    BY <1>1, <2>2
  <2>4. Cardinality(Q) <= Cardinality(high)
    BY <1>2, <2>3, FS_Subset
  <2>5. Cardinality(Q) # Cardinality(open)
    BY <1>1, <1>2, <2>1, FS_Subset
  <2>6. Cardinality(Q) = RiskLimit
    BY <1>5, <2>5
  <2> QED BY <1>4, <1>6, <2>3, <2>4, <2>6
<1> QED BY <1>7, <1>8

(* The extract carries the history of each of its cases if both frames are  *)
(* of one edition; its briefing counts the high-risk cases of the queue.    *)
THEOREM ExtractsAreWhole == Spec => []ExtractIsWhole
<1>1. ASSUME ConsoleTypes, FrameInv PROVE ExtractIsWhole
  <2>1. SUFFICES ASSUME view.state = "shown", view.edition = view.eventEdition
                 PROVE  /\ Extract.cases \subseteq Extract.events
                        /\ Extract.brief.highRisk =
                             Min({RiskLimit, Cardinality({c \in Open(Extract.cases) : Band(c) = "high"})})
    BY DEF ExtractIsWhole
  <2>2. /\ Extract.cases = Shown /\ Extract.events = view.events \cap Shown
        /\ Extract.brief.highRisk = Cardinality({c \in view.queue : Band(c) = "high"})
    BY DEF Extract, Events, Brief
  <2>3. view.cases \in SUBSET Cases /\ Shown \subseteq view.cases
    BY <1>1 DEF ConsoleTypes, ViewRecord, Shown, Selected
  <2>4. view.cases \subseteq view.events /\ view.queue \in Queues(Shown, RiskLimit)
    BY <1>1, <2>1 DEF FrameInv
  <2>5. Shown \in SUBSET Cases
    BY <2>3
  <2>6. Cardinality({c \in view.queue : Band(c) = "high"}) =
          Min({RiskLimit, Cardinality({c \in Open(Shown) : Band(c) = "high"})})
    BY <2>4, <2>5, HeadOfRanking
  <2>7. Shown \subseteq view.events \cap Shown
    BY <2>3, <2>4
  <2> QED BY <2>2, <2>6, <2>7
<1> QED BY <1>1, FrameInvariance, PTL

-----------------------------------------------------------------------------
(* The rows of the reports count cases.                                     *)

LEMMA RowFacts ==
  ASSUME NEW c \in Cases
  PROVE  /\ Facts[c].opened \in Nat /\ Facts[c].target \in Nat \ {0}
         /\ Facts[c].closed # None =>
              /\ Facts[c].closed \in Nat /\ Facts[c].opened <= Facts[c].closed
              /\ Facts[c].started # None =>
                   /\ Facts[c].started \in Nat
                   /\ Facts[c].opened <= Facts[c].started /\ Facts[c].started <= Facts[c].closed
BY ReportAssumption, ConsoleAssumption

LEMMA ImageIsFinite ==
  ASSUME NEW f, IsFiniteSet(DOMAIN f), f = [x \in DOMAIN f |-> f[x]]
  PROVE  IsFiniteSet({f[x] : x \in DOMAIN f})
<1>1. f \in Surjection(DOMAIN f, {f[x] : x \in DOMAIN f})
  BY DEF Surjection
<1> QED BY <1>1, FS_Surjection

LEMMA GroupsAreFinite ==
  ASSUME NEW S \in SUBSET Cases
  PROVE  IsFiniteSet(Departments(S)) /\ IsFiniteSet(Districts(S))
<1> DEFINE f == [c \in S |-> Facts[c].department]
           g == [c \in S |-> Facts[c].district]
<1>1. DOMAIN f = S /\ DOMAIN g = S /\ IsFiniteSet(S)
  BY FiniteCases
<1>2. {f[x] : x \in S} = Departments(S) /\ {g[x] : x \in S} = Districts(S)
  BY DEF Departments, Districts
<1>3. IsFiniteSet({f[x] : x \in DOMAIN f}) /\ IsFiniteSet({g[x] : x \in DOMAIN g})
  BY <1>1, ImageIsFinite
<1> QED BY <1>1, <1>2, <1>3

LEMMA MembersOfBacklog ==
  ASSUME NEW S, NEW d, NEW asOf
  PROVE  /\ \A c : c \in Overdue(Of(S, d), asOf) <=>
                     /\ c \in S /\ Facts[c].closed = None /\ Facts[c].department = d
                     /\ Age(c, asOf) > Facts[c].target
         /\ \A c : c \in DueSoon(Of(S, d), asOf) <=>
                     /\ c \in S /\ Facts[c].closed = None /\ Facts[c].department = d
                     /\ 0 <= Facts[c].target - Age(c, asOf) /\ Facts[c].target - Age(c, asOf) <= 24
         /\ \A c : c \in Overdue(S, asOf) <=>
                     /\ c \in S /\ Facts[c].closed = None /\ Age(c, asOf) > Facts[c].target
         /\ \A c : c \in Open(S) <=> c \in S /\ Facts[c].closed = None
BY DEF Overdue, DueSoon, Of, Open, Closed

Late(S, at, asked) == UNION {Overdue(Of(S, d), at) : d \in asked}
Soon(S, at, asked) == UNION {DueSoon(Of(S, d), at) : d \in asked}

(* Backlog rows of some departments count disjoint sets of cases.           *)
LEMMA BacklogSums ==
  ASSUME NEW S \in SUBSET Cases, NEW at, NEW asked \in SUBSET Departments(Open(S))
  PROVE  /\ SumFunction([d \in asked |-> BacklogReport(S, at)[d].breached]) =
              Cardinality(Late(S, at, asked))
         /\ SumFunction([d \in asked |-> BacklogReport(S, at)[d].due]) =
              Cardinality(Soon(S, at, asked))
<1> DEFINE late == [d \in asked |-> Overdue(Of(S, d), at)]
           soon == [d \in asked |-> DueSoon(Of(S, d), at)]
<1>1. IsFiniteSet(asked) /\ IsFiniteSet(S)
  <2>1. Open(S) \in SUBSET Cases
    BY DEF Open
  <2> QED BY <2>1, FiniteCases, GroupsAreFinite, FS_Subset
<1>2. late \in [asked -> SUBSET S] /\ soon \in [asked -> SUBSET S]
  BY MembersOfBacklog
<1>3. Disjoint(late, asked) /\ Disjoint(soon, asked)
  BY MembersOfBacklog DEF Disjoint
<1>4. /\ SumFunction([d \in asked |-> Cardinality(late[d])]) = Cardinality(UNION {late[d] : d \in asked})
      /\ SumFunction([d \in asked |-> Cardinality(soon[d])]) = Cardinality(UNION {soon[d] : d \in asked})
  BY <1>1, <1>2, <1>3, SumOfCells
<1>5. [d \in asked |-> Cardinality(late[d])] = [d \in asked |-> BacklogReport(S, at)[d].breached]
  BY DEF BacklogReport
<1>6. [d \in asked |-> Cardinality(soon[d])] = [d \in asked |-> BacklogReport(S, at)[d].due]
  BY DEF BacklogReport
<1>7. /\ UNION {late[d] : d \in asked} = Late(S, at, asked)
      /\ UNION {soon[d] : d \in asked} = Soon(S, at, asked)
  BY DEF Late, Soon
<1> HIDE DEF late, soon
<1> QED BY <1>4, <1>5, <1>6, <1>7

LEMMA CountOfUnion ==
  ASSUME NEW A \in SUBSET Cases, NEW B \in SUBSET Cases
  PROVE  /\ Cardinality(A \cup B) <= Cardinality(A) + Cardinality(B)
         /\ A \subseteq B => Cardinality(A) <= Cardinality(B)
<1>1. IsFiniteSet(A) /\ IsFiniteSet(B) /\ Cardinality(A) \in Nat /\ Cardinality(B) \in Nat
  BY FiniteCases
<1>2. Cardinality(A \cap B) \in Nat
  <2>1. A \cap B \in SUBSET Cases
    OBVIOUS
  <2> QED BY <2>1, FiniteCases
<1>3. Cardinality(A \cup B) = Cardinality(A) + Cardinality(B) - Cardinality(A \cap B)
  BY <1>1, FS_Union
<1> QED BY <1>1, <1>2, <1>3, FS_Subset

(* Within 24 hours of a report, what is late was late then, fell due since, *)
(* or is not in it.                                                         *)
LEMMA BacklogForecasts ==
  ASSUME NEW S \in SUBSET Cases, NEW F \in SUBSET Cases, NEW departments,
         NEW at \in Nat, NEW asOf \in Nat, at <= asOf, asOf - at <= 24,
         \A c \in S : Facts[c].department \in departments => c \in F,
         \A c \in F : Facts[c].department \in departments
  PROVE  LET asked    == departments \cap Departments(Open(S))
             reported == SumFunction([d \in asked |-> BacklogReport(S, at)[d].breached])
             due      == SumFunction([d \in asked |-> BacklogReport(S, at)[d].due])
             breaches == Cardinality(Overdue(F, asOf))
         IN  reported <= breaches /\ breaches <= reported + due + Cardinality(Open(F \ S))
<1> DEFINE asked == departments \cap Departments(Open(S))
           late  == Late(S, at, asked)
           soon  == Soon(S, at, asked)
<1>1. asked \in SUBSET Departments(Open(S))
  OBVIOUS
<1> HIDE DEF asked
<1>2. /\ SumFunction([d \in asked |-> BacklogReport(S, at)[d].breached]) = Cardinality(late)
      /\ SumFunction([d \in asked |-> BacklogReport(S, at)[d].due]) = Cardinality(soon)
  BY <1>1, BacklogSums
<1>3. \A c \in Cases : Age(c, at) \in Int /\ Age(c, asOf) \in Int /\ Facts[c].target \in Nat
                       /\ Age(c, at) <= Age(c, asOf) /\ Age(c, asOf) <= Age(c, at) + 24
  BY RowFacts DEF Age
<1>4. ASSUME NEW c \in S, Facts[c].closed = None, Facts[c].department \in departments
      PROVE  Facts[c].department \in asked
  BY <1>4, MembersOfBacklog DEF Departments, asked
<1>5. \A d : \A c : c \in Overdue(Of(S, d), at) <=>
                     /\ c \in S /\ Facts[c].closed = None /\ Facts[c].department = d
                     /\ Age(c, at) > Facts[c].target
  BY MembersOfBacklog
<1>6. \A d : \A c : c \in DueSoon(Of(S, d), at) <=>
                     /\ c \in S /\ Facts[c].closed = None /\ Facts[c].department = d
                     /\ 0 <= Facts[c].target - Age(c, at) /\ Facts[c].target - Age(c, at) <= 24
  BY MembersOfBacklog
<1>7. \A c : c \in Overdue(F, asOf) <=>
                     /\ c \in F /\ Facts[c].closed = None /\ Age(c, asOf) > Facts[c].target
  BY MembersOfBacklog
<1>8. \A c : c \in Open(F \ S) <=> c \in F /\ c \notin S /\ Facts[c].closed = None
  BY DEF Open, Closed
<1>9. \A c : c \in late <=> /\ c \in S /\ Facts[c].closed = None /\ Facts[c].department \in asked
                            /\ Age(c, at) > Facts[c].target
  BY <1>5 DEF Late
<1>10. \A c : c \in soon <=>
                     /\ c \in S /\ Facts[c].closed = None /\ Facts[c].department \in asked
                     /\ 0 <= Facts[c].target - Age(c, at) /\ Facts[c].target - Age(c, at) <= 24
  BY <1>6 DEF Soon
<1> HIDE DEF late, soon
<1>11. late \subseteq S /\ soon \subseteq S
  BY <1>9, <1>10
<1>12. \A d \in asked : d \in departments
  BY DEF asked
<1>13. late \subseteq Overdue(F, asOf)
  <2>1. SUFFICES ASSUME NEW c \in late PROVE c \in Overdue(F, asOf)
    OBVIOUS
  <2>2. c \in Cases /\ c \in F
    BY <1>9, <1>12
  <2> QED BY <1>3, <1>7, <1>9, <2>2
<1>14. Overdue(F, asOf) \subseteq (late \cup soon) \cup Open(F \ S)
  <2>1. SUFFICES ASSUME NEW c \in Overdue(F, asOf), c \in S PROVE c \in late \cup soon
    BY <1>7, <1>8
  <2>2. /\ c \in F /\ Facts[c].closed = None /\ Age(c, asOf) > Facts[c].target
        /\ Facts[c].department \in departments
    BY <1>7
  <2>3. Facts[c].department \in asked
    BY <1>4, <2>1, <2>2
  <2>4. \/ Age(c, at) > Facts[c].target
        \/ 0 <= Facts[c].target - Age(c, at) /\ Facts[c].target - Age(c, at) <= 24
    BY <1>3, <2>1, <2>2
  <2> QED BY <1>9, <1>10, <2>1, <2>2, <2>3, <2>4
<1>15. late \in SUBSET Cases /\ soon \in SUBSET Cases /\ late \cup soon \in SUBSET Cases
      /\ Overdue(F, asOf) \in SUBSET Cases /\ Open(F \ S) \in SUBSET Cases
      /\ (late \cup soon) \cup Open(F \ S) \in SUBSET Cases
  <2>1. late \subseteq Cases /\ soon \subseteq Cases
    BY <1>11
  <2>2. Overdue(F, asOf) \subseteq Cases /\ Open(F \ S) \subseteq Cases
    BY <1>7, <1>8
  <2> QED BY <2>1, <2>2
<1>16. /\ Cardinality(late) <= Cardinality(Overdue(F, asOf))
      /\ Cardinality(Overdue(F, asOf)) <= Cardinality((late \cup soon) \cup Open(F \ S))
      /\ Cardinality((late \cup soon) \cup Open(F \ S)) <= Cardinality(late \cup soon) + Cardinality(Open(F \ S))
      /\ Cardinality(late \cup soon) <= Cardinality(late) + Cardinality(soon)
  BY <1>13, <1>14, <1>15, CountOfUnion
<1>17. /\ Cardinality(late) \in Nat /\ Cardinality(soon) \in Nat /\ Cardinality(late \cup soon) \in Nat
       /\ Cardinality(Overdue(F, asOf)) \in Nat /\ Cardinality(Open(F \ S)) \in Nat
       /\ Cardinality((late \cup soon) \cup Open(F \ S)) \in Nat
  BY <1>15, FiniteCases
<1> QED BY <1>2, <1>16, <1>17 DEF asked

(* The reports are of the cases that the warehouse holds while it is of     *)
(* their edition, and they are older than a page that shows it.             *)
ReportInv ==
  /\ report.at <= clock /\ report.edition <= edition + 1
  /\ report.edition = edition => report.cases \subseteq stored
  /\ view.state # "none" /\ view.edition = report.edition => report.cases \subseteq view.cases
  /\ view.state = "shown" /\ view.edition = report.edition => report.at <= view.asOf

LEMMA ReportKept ==
  ASSUME ConsoleTypes, FrameInv, ReportInv, [Next]_vars
  PROVE  ReportInv'
<1>0. edition \in Nat /\ report.at \in Nat /\ report.edition \in Nat /\ clock \in Nat
      /\ view.edition \in Nat
  BY DEF ConsoleTypes, ReportRecord, ViewRecord
<1>1. ASSUME UNCHANGED <<report, view, edition, clock>>, stored \subseteq stored' PROVE ReportInv'
  BY <1>1 DEF ReportInv
<1>2. ASSUME NEW t \in Instants, Tick(t) PROVE ReportInv'
  <2>1. UNCHANGED <<stored, edition, report, view>> /\ clock' = t /\ t > clock /\ t \in Nat
    BY <1>2, ConsoleAssumption DEF Tick, readerVars
  <2> QED BY <1>0, <2>1 DEF ReportInv
<1>3. ASSUME NEW batch \in Batches, Arrive(batch) PROVE ReportInv'
  <2>1. UNCHANGED <<report, view, edition, clock>> /\ stored \subseteq stored'
    BY <1>3 DEF Arrive, Ingest
  <2> QED BY <1>1, <2>1
<1>4. ASSUME NEW cases \in Generated, WriteReports(cases) PROVE ReportInv'
  <2>1. /\ UNCHANGED <<stored, edition, clock, view>>
        /\ report' = [at |-> clock, cases |-> cases, edition |-> edition + 1]
    BY <1>4 DEF WriteReports, readerVars
  <2>2. report'.at = clock /\ report'.edition = edition + 1
    BY <2>1
  <2>3. view.state # "none" => view.edition <= edition
    BY DEF FrameInv
  <2>4. report'.edition # edition /\ (view.state # "none" => view.edition # report'.edition)
    BY <1>0, <2>2, <2>3
  <2> QED BY <1>0, <2>1, <2>2, <2>4 DEF ReportInv
<1>5. ASSUME LoadWarehouse PROVE ReportInv'
  <2>1. /\ stored' = report.cases /\ edition' = edition + 1 /\ report.edition = edition + 1
        /\ UNCHANGED <<clock, report, view>>
    BY <1>5 DEF LoadWarehouse, Refresh
  <2> QED BY <1>0, <2>1 DEF ReportInv
<1>6. ASSUME ReaderStep, UNCHANGED <<clock, report, view>> PROVE ReportInv'
  <2>1. UNCHANGED <<stored, edition>>
    BY <1>6 DEF ReaderStep, BeginWalk, CountCases, SelectPage, LeaveWalk
  <2> QED BY <1>1, <1>6, <2>1
<1>7. ASSUME LoadCases PROVE ReportInv'
  <2>1. /\ UNCHANGED <<stored, edition, clock, report>> /\ view'.state = "cases"
        /\ view'.edition = edition /\ view'.cases = stored
    BY <1>7 DEF LoadCases, FrameIsNext, readerVars, ConsoleTypes, ViewRecord
  <2> QED BY <2>1 DEF ReportInv
<1>8. ASSUME LoadEvents PROVE ReportInv'
  <2>1. /\ UNCHANGED <<stored, edition, clock, report>> /\ view.state = "cases"
        /\ view'.state = "loaded" /\ view'.edition = view.edition /\ view'.cases = view.cases
    BY <1>8 DEF LoadEvents, FrameIsNext, readerVars, ConsoleTypes, ViewRecord
  <2> QED BY <2>1 DEF ReportInv
<1>9. ASSUME view' = NoView, UNCHANGED <<readerVars, clock, report>> PROVE ReportInv'
  BY <1>9 DEF ReportInv, NoView, readerVars
<1>10. ASSUME NEW departments, NEW districts, NEW queue, view.state = "loaded",
              UNCHANGED <<readerVars, clock, report>>,
              view' = [view EXCEPT !.state = "shown", !.asOf = clock, !.queue = queue,
                                   !.departments = departments, !.districts = districts]
       PROVE  ReportInv'
  <2>1. /\ UNCHANGED <<stored, edition, clock, report>> /\ view'.state = "shown"
        /\ view'.edition = view.edition /\ view'.cases = view.cases /\ view'.asOf = clock
    BY <1>10 DEF readerVars, ConsoleTypes, ViewRecord
  <2> QED BY <1>10, <2>1 DEF ReportInv
<1>11. ASSUME Render PROVE ReportInv'
  BY <1>9, <1>10, <1>11 DEF Render
<1>12. ASSUME Rerun PROVE ReportInv'
  BY <1>9, <1>12 DEF Rerun
<1>13. ASSUME UNCHANGED vars PROVE ReportInv'
  BY <1>1, <1>13 DEF vars, readerVars
<1> QED BY <1>2, <1>3, <1>4, <1>5, <1>6, <1>7, <1>8, <1>11, <1>12, <1>13 DEF Next

LEMMA ReportInvariance == Spec => []ReportInv
<1>1. Init => ReportInv
  BY ConsoleAssumption DEF Init, ReaderInit, ReportInv, NoReport, NoView
<1>2. ConsoleTypes /\ FrameInv /\ ReportInv /\ [Next]_vars => ReportInv'
  BY ReportKept
<1> QED BY <1>1, <1>2, FrameInvariance, PTL DEF Spec

(* The breaches the console shows are those the backlog report of the same  *)
(* edition had and those it announced, but for the cases ingested since.    *)
THEOREM BreachesWereAnnounced == Spec => []BreachesWereDue
<1>1. ASSUME ConsoleTypes, ReportInv PROVE BreachesWereDue
  <2>1. SUFFICES ASSUME view.state = "shown", view.edition = report.edition,
                        view.asOf - report.at <= 24, view.districts = Districts(view.cases)
        PROVE LET asked == view.departments \cap Departments(Open(report.cases))
                  reported == SumFunction([d \in asked |-> BacklogReport(report.cases, report.at)[d].breached])
                  due      == SumFunction([d \in asked |-> BacklogReport(report.cases, report.at)[d].due])
                  breaches == Cardinality(Overdue(Shown, view.asOf))
              IN  reported <= breaches
                  /\ breaches <= reported + due + Cardinality(Open(Shown \ report.cases))
    <3>1. DOMAIN BacklogReport(report.cases, report.at) = Departments(Open(report.cases))
      BY DEF BacklogReport
    <3>2. Kpis(Shown, view.asOf).breaches = Cardinality(Overdue(Shown, view.asOf))
      BY DEF Kpis
    <3> QED BY <2>1, <3>1, <3>2 DEF BreachesWereDue
  <2>2. report.cases \in SUBSET Cases /\ view.cases \in SUBSET Cases /\ report.at \in Nat
        /\ view.asOf \in Nat
    BY <1>1 DEF ConsoleTypes, ReportRecord, ViewRecord
  <2>3. report.cases \subseteq view.cases /\ report.at <= view.asOf
    BY <1>1, <2>1 DEF ReportInv
  <2>4. \A c : c \in Shown <=> c \in view.cases /\ Facts[c].department \in view.departments
    BY <2>1 DEF Shown, Selected, Districts
  <2>5. Shown \in SUBSET Cases
    BY <2>2, <2>4
  <2>6. /\ \A c \in report.cases : Facts[c].department \in view.departments => c \in Shown
        /\ \A c \in Shown : Facts[c].department \in view.departments
    BY <2>3, <2>4
  <2> QED BY <2>1, <2>2, <2>3, <2>5, <2>6, BacklogForecasts
<1> QED BY <1>1, FrameInvariance, ReportInvariance, PTL

-----------------------------------------------------------------------------
(* The figures of a page add up.                                            *)

Group(Q, key, g) == {c \in Q : key[c] = g}

(* Counting the cases of Q group by group counts Q.                         *)
LEMMA SumOfGroups ==
  ASSUME NEW Q \in SUBSET Cases, NEW G, IsFiniteSet(G), NEW key, \A c \in Q : key[c] \in G,
         NEW n, n = [g \in G |-> n[g]], \A g \in G : n[g] = Cardinality(Group(Q, key, g))
  PROVE  SumFunction(n) = Cardinality(Q)
<1> DEFINE cell == [g \in G |-> {c \in Q : key[c] = g}]
<1>1. IsFiniteSet(Q)
  BY FiniteCases
<1>2. cell \in [G -> SUBSET Q] /\ Disjoint(cell, G) /\ \A c \in Q : \E g \in G : c \in cell[g]
  BY DEF Disjoint
<1>3. n = [g \in G |-> Cardinality(cell[g])]
  BY DEF Group
<1> HIDE DEF cell
<1>4. SumFunction([g \in G |-> Cardinality(cell[g])]) = Cardinality(Q)
  BY <1>1, <1>2, SumOfPartition
<1> QED BY <1>3, <1>4

LEMMA SumOfColumn ==
  ASSUME NEW rows, NEW column, NEW G, DOMAIN rows = G, IsFiniteSet(G), NEW Q \in SUBSET Cases,
         NEW key, \A c \in Q : key[c] \in G,
         \A g \in G : rows[g][column] = Cardinality(Group(Q, key, g))
  PROVE  Summed(rows, column) = Cardinality(Q)
<1> DEFINE n == [g \in G |-> rows[g][column]]
<1>1. n = [g \in G |-> n[g]] /\ \A g \in G : n[g] = Cardinality(Group(Q, key, g))
  OBVIOUS
<1>2. Summed(rows, column) = SumFunction(n)
  BY DEF Summed
<1> HIDE DEF n
<1> QED BY <1>1, <1>2, SumOfGroups

DepartmentKey == [c \in Cases |-> Facts[c].department]
DistrictKey   == [c \in Cases |-> Facts[c].district]
CohortKey     == [c \in Cases |-> <<Month(c), Facts[c].department>>]

(* Cases are open or closed, closed ones in time or not.                    *)
LEMMA CountOfParts ==
  ASSUME NEW S \in SUBSET Cases
  PROVE  /\ Cardinality(Open(S)) = Cardinality(S) - Cardinality(Closed(S))
         /\ Cardinality({c \in Closed(S) : MetSla(c)})
              = Cardinality(Closed(S)) - Cardinality({c \in Closed(S) : ~MetSla(c)})
         /\ Cardinality({c \in Closed(S) : MetSla(c)}) <= Cardinality(Closed(S))
         /\ Cardinality(S) \in Nat /\ Cardinality(Closed(S)) \in Nat /\ Cardinality(Open(S)) \in Nat
         /\ Cardinality({c \in Closed(S) : MetSla(c)}) \in Nat
         /\ Cardinality({c \in Closed(S) : ~MetSla(c)}) \in Nat
<1> DEFINE met  == {c \in Closed(S) : MetSla(c)}
           late == {c \in Closed(S) : ~MetSla(c)}
<1>1. Closed(S) \in SUBSET Cases /\ Open(S) \in SUBSET Cases
      /\ met \in SUBSET Cases /\ late \in SUBSET Cases
  BY DEF Closed, Open
<1>2. Open(S) \cup Closed(S) = S /\ Open(S) \cap Closed(S) = {}
  BY DEF Closed, Open
<1>3. met \cup late = Closed(S) /\ met \cap late = {}
  OBVIOUS
<1> HIDE DEF met, late
<1>4. Cardinality({}) = 0
  BY FS_EmptySet
<1>5. Cardinality(S) = Cardinality(Open(S)) + Cardinality(Closed(S))
  <2>1. IsFiniteSet(Open(S)) /\ IsFiniteSet(Closed(S)) /\ Cardinality(Open(S)) \in Nat
        /\ Cardinality(Closed(S)) \in Nat
    BY <1>1, FiniteCases
  <2>2. Cardinality(Open(S) \cup Closed(S))
          = Cardinality(Open(S)) + Cardinality(Closed(S)) - Cardinality(Open(S) \cap Closed(S))
    BY <2>1, FS_Union
  <2>3. Cardinality(Open(S) \cap Closed(S)) = 0 /\ Cardinality(Open(S) \cup Closed(S)) = Cardinality(S)
    BY <1>2, <1>4
  <2> QED BY <2>1, <2>2, <2>3
<1>6. Cardinality(Closed(S)) = Cardinality(met) + Cardinality(late)
  <2>1. IsFiniteSet(met) /\ IsFiniteSet(late) /\ Cardinality(met) \in Nat /\ Cardinality(late) \in Nat
    BY <1>1, FiniteCases
  <2>2. Cardinality(met \cup late) = Cardinality(met) + Cardinality(late) - Cardinality(met \cap late)
    BY <2>1, FS_Union
  <2>3. Cardinality(met \cap late) = 0 /\ Cardinality(met \cup late) = Cardinality(Closed(S))
    BY <1>3, <1>4
  <2> QED BY <2>1, <2>2, <2>3
<1>7. Cardinality(S) \in Nat /\ Cardinality(Closed(S)) \in Nat /\ Cardinality(Open(S)) \in Nat
      /\ Cardinality(met) \in Nat /\ Cardinality(late) \in Nat
  BY <1>1, FiniteCases
<1> QED BY <1>5, <1>6, <1>7 DEF met, late

LEMMA SlaAddsUp ==
  ASSUME NEW S \in SUBSET Cases
  PROVE  /\ Summed(SlaReport(S), "total") = Cardinality(S)
         /\ Summed(SlaReport(S), "open") = Cardinality(Open(S))
         /\ Summed(SlaReport(S), "closed") = Cardinality(Closed(S))
         /\ Summed(SlaReport(S), "breached") = Cardinality({c \in Closed(S) : ~MetSla(c)})
<1> DEFINE sla  == SlaReport(S)
           G    == Departments(S)
           late == {c \in Closed(S) : ~MetSla(c)}
<1>1. DOMAIN sla = G /\ IsFiniteSet(G)
  BY GroupsAreFinite DEF SlaReport
<1>2. Open(S) \in SUBSET Cases /\ Closed(S) \in SUBSET Cases /\ late \in SUBSET Cases
  BY DEF Open, Closed
<1>3. \A c \in S : c \in Cases /\ DepartmentKey[c] = Facts[c].department /\ DepartmentKey[c] \in G
  BY DEF DepartmentKey, Departments
<1>4. \A c \in Open(S) : c \in S
  BY DEF Open
<1>5. \A c \in Closed(S) : c \in S
  BY DEF Closed
<1>6. ASSUME NEW d \in G
      PROVE  /\ sla[d].total = Cardinality(Group(S, DepartmentKey, d))
             /\ sla[d].open = Cardinality(Group(Open(S), DepartmentKey, d))
             /\ sla[d].closed = Cardinality(Group(Closed(S), DepartmentKey, d))
             /\ sla[d].breached = Cardinality(Group(late, DepartmentKey, d))
  <2>1. Of(S, d) \in SUBSET Cases
    BY DEF Of
  <2>2. /\ sla[d].total = Cardinality(Of(S, d))
        /\ sla[d].closed = Cardinality(Closed(Of(S, d)))
        /\ sla[d].open = Cardinality(Of(S, d)) - Cardinality(Closed(Of(S, d)))
        /\ sla[d].breached = Cardinality({c \in Closed(Of(S, d)) : ~MetSla(c)})
    BY DEF SlaReport
  <2>3. sla[d].open = Cardinality(Open(Of(S, d)))
    BY <2>1, <2>2, CountOfParts
  <2>4. /\ Of(S, d) = Group(S, DepartmentKey, d)
        /\ Closed(Of(S, d)) = Group(Closed(S), DepartmentKey, d)
        /\ Open(Of(S, d)) = Group(Open(S), DepartmentKey, d)
    BY <1>3 DEF Of, Closed, Open, Group
  <2>5. {c \in Closed(Of(S, d)) : ~MetSla(c)} = Group(late, DepartmentKey, d)
    BY <2>4 DEF Group
  <2> QED BY <2>2, <2>3, <2>4, <2>5
<1> HIDE DEF sla, G, late
<1>7. Summed(sla, "total") = Cardinality(S)
  BY <1>1, <1>3, <1>6, SumOfColumn
<1>8. Summed(sla, "open") = Cardinality(Open(S))
  BY <1>1, <1>2, <1>3, <1>4, <1>6, SumOfColumn
<1>9. Summed(sla, "closed") = Cardinality(Closed(S))
  BY <1>1, <1>2, <1>3, <1>5, <1>6, SumOfColumn
<1>10. Summed(sla, "breached") = Cardinality(late)
  <2>1. \A c \in late : DepartmentKey[c] \in G
    BY <1>3, <1>5 DEF late
  <2> QED BY <1>1, <1>2, <1>6, <2>1, SumOfColumn
<1> QED BY <1>7, <1>8, <1>9, <1>10 DEF sla, late

LEMMA CohortsAreFinite ==
  ASSUME NEW S \in SUBSET Cases
  PROVE  /\ IsFiniteSet({<<Month(c), Facts[c].department>> : c \in S})
         /\ \A c \in S : /\ CohortKey[c] = <<Month(c), Facts[c].department>>
                         /\ CohortKey[c] \in {<<Month(e), Facts[e].department>> : e \in S}
<1> DEFINE f == [c \in S |-> <<Month(c), Facts[c].department>>]
<1>1. DOMAIN f = S /\ IsFiniteSet(S) /\ f = [c \in DOMAIN f |-> f[c]]
  BY FiniteCases
<1>2. {f[x] : x \in DOMAIN f} = {<<Month(c), Facts[c].department>> : c \in S}
  OBVIOUS
<1>3. \A c \in S : CohortKey[c] = <<Month(c), Facts[c].department>>
  BY DEF CohortKey
<1> HIDE DEF f
<1>4. IsFiniteSet({f[x] : x \in DOMAIN f})
  BY <1>1, ImageIsFinite
<1> QED BY <1>2, <1>3, <1>4

(* The cohorts of a set of cases are its groups.                            *)
LEMMA CohortIsGroup ==
  ASSUME NEW S \in SUBSET Cases, NEW T,
         NEW g \in {<<Month(c), Facts[c].department>> : c \in T}
  PROVE  Cohort(S, g[1], g[2]) = Group(S, CohortKey, g) /\ Cohort(S, g[1], g[2]) \in SUBSET Cases
<1>1. PICK c \in T : g = <<Month(c), Facts[c].department>>
  OBVIOUS
<1>2. \A e \in S : CohortKey[e] = <<Month(e), Facts[e].department>>
  BY DEF CohortKey
<1>3. \A e \in S : CohortKey[e] = g <=> Month(e) = g[1] /\ Facts[e].department = g[2]
  BY <1>1, <1>2
<1> QED BY <1>3 DEF Cohort, Of, Group

LEMMA CohortsAddUp ==
  ASSUME NEW S \in SUBSET Cases
  PROVE  Summed(CohortReport(S), "total") = Cardinality(S)
<1> DEFINE rows == CohortReport(S)
           G    == {<<Month(c), Facts[c].department>> : c \in S}
<1>1. DOMAIN rows = G /\ IsFiniteSet(G) /\ \A c \in S : CohortKey[c] \in G
  BY CohortsAreFinite DEF CohortReport
<1>2. ASSUME NEW g \in G PROVE rows[g].total = Cardinality(Group(S, CohortKey, g))
  <2>1. rows[g].total = Cardinality(Cohort(S, g[1], g[2]))
    BY DEF CohortReport
  <2> QED BY <2>1, CohortIsGroup
<1> HIDE DEF rows, G
<1>3. Summed(rows, "total") = Cardinality(S)
  BY <1>1, <1>2, SumOfColumn
<1> QED BY <1>3 DEF rows

LEMMA MonthlyAddsUp ==
  ASSUME NEW S \in SUBSET Cases
  PROVE  Summed(DashboardCohorts(S), "met") = Cardinality({c \in Closed(S) : MetSla(c)})
<1> DEFINE rows == DashboardCohorts(S)
           G    == {<<Month(c), Facts[c].department>> : c \in Closed(S)}
           met  == {c \in Closed(S) : MetSla(c)}
<1>1. Closed(S) \in SUBSET Cases /\ met \in SUBSET Cases /\ met \subseteq Closed(S)
  BY DEF Closed
<1>2. DOMAIN rows = G /\ IsFiniteSet(G) /\ \A c \in met : CohortKey[c] \in G
  BY <1>1, CohortsAreFinite DEF DashboardCohorts
<1>3. ASSUME NEW g \in G PROVE rows[g].met = Cardinality(Group(met, CohortKey, g))
  <2>1. rows[g].met = Cardinality({c \in Closed(Cohort(S, g[1], g[2])) : MetSla(c)})
    BY DEF DashboardCohorts
  <2>2. Cohort(S, g[1], g[2]) = Group(S, CohortKey, g)
    BY CohortIsGroup
  <2>3. {c \in Closed(Cohort(S, g[1], g[2])) : MetSla(c)} = Group(met, CohortKey, g)
    BY <2>2 DEF Closed, Group
  <2> QED BY <2>1, <2>3
<1> HIDE DEF rows, G, met
<1>4. Summed(rows, "met") = Cardinality(met)
  BY <1>1, <1>2, <1>3, SumOfColumn
<1> QED BY <1>4 DEF rows, met

(* Both tables count the closed cases of a cohort, and those in time.       *)
LEMMA CohortsAgree ==
  ASSUME NEW S \in SUBSET Cases, NEW g \in DOMAIN CohortReport(S)
  PROVE  IF g \in DOMAIN DashboardCohorts(S)
           THEN /\ CohortReport(S)[g].closed = DashboardCohorts(S)[g].closed
                /\ CohortReport(S)[g].closed - CohortReport(S)[g].breached = DashboardCohorts(S)[g].met
           ELSE CohortReport(S)[g].closed = 0
<1> DEFINE rows == Cohort(S, g[1], g[2])
<1>1. g \in {<<Month(c), Facts[c].department>> : c \in S}
  BY DEF CohortReport
<1>2. /\ CohortReport(S)[g].closed = Cardinality(Closed(rows))
      /\ CohortReport(S)[g].breached = Cardinality({c \in Closed(rows) : ~MetSla(c)})
  BY <1>1 DEF CohortReport
<1>3. rows = Group(S, CohortKey, g) /\ rows \in SUBSET Cases
  BY <1>1, CohortIsGroup
<1>4. CASE g \in DOMAIN DashboardCohorts(S)
  <2>1. /\ DashboardCohorts(S)[g].closed = Cardinality(Closed(rows))
        /\ DashboardCohorts(S)[g].met = Cardinality({c \in Closed(rows) : MetSla(c)})
    BY <1>4 DEF DashboardCohorts
  <2>2. /\ Cardinality({c \in Closed(rows) : MetSla(c)})
             = Cardinality(Closed(rows)) - Cardinality({c \in Closed(rows) : ~MetSla(c)})
        /\ Cardinality(Closed(rows)) \in Nat /\ Cardinality({c \in Closed(rows) : ~MetSla(c)}) \in Nat
    BY <1>3, CountOfParts
  <2> QED BY <1>2, <1>4, <2>1, <2>2
<1>5. CASE g \notin DOMAIN DashboardCohorts(S)
  <2>1. g \notin {<<Month(c), Facts[c].department>> : c \in Closed(S)}
    BY <1>5 DEF DashboardCohorts
  <2>2. \A c \in Closed(rows) : c \in Closed(S) /\ c \in Cases /\ CohortKey[c] = g
    BY <1>3 DEF Closed, Group
  <2>3. Closed(rows) = {}
    BY <2>1, <2>2 DEF CohortKey
  <2> QED BY <1>2, <1>5, <2>3, FS_EmptySet
<1> QED BY <1>4, <1>5

LEMMA CityAddsUp ==
  ASSUME NEW S \in SUBSET Cases
  PROVE  /\ Summed(DistrictReport(S), "total") = Cardinality(S)
         /\ Summed(DistrictReport(S), "open") = Cardinality(Open(S))
<1> DEFINE rows == DistrictReport(S)
           G    == Districts(S)
<1>1. DOMAIN rows = G /\ IsFiniteSet(G)
  BY GroupsAreFinite DEF DistrictReport
<1>2. \A c \in S : c \in Cases /\ DistrictKey[c] = Facts[c].district /\ DistrictKey[c] \in G
  BY DEF DistrictKey, Districts
<1>3. Open(S) \in SUBSET Cases /\ \A c \in Open(S) : DistrictKey[c] \in G
  BY <1>2 DEF Open
<1>4. ASSUME NEW d \in G
      PROVE  /\ rows[d].total = Cardinality(Group(S, DistrictKey, d))
             /\ rows[d].open = Cardinality(Group(Open(S), DistrictKey, d))
  <2>1. /\ rows[d].total = Cardinality(In(S, d))
        /\ rows[d].open = Cardinality(In(S, d)) - Cardinality(Closed(In(S, d)))
    BY DEF DistrictReport, DistrictMetric
  <2>2. In(S, d) \in SUBSET Cases
    BY DEF In
  <2>3. rows[d].open = Cardinality(Open(In(S, d)))
    BY <2>1, <2>2, CountOfParts
  <2>4. In(S, d) = Group(S, DistrictKey, d) /\ Open(In(S, d)) = Group(Open(S), DistrictKey, d)
    BY <1>2 DEF In, Open, Closed, Group
  <2> QED BY <2>1, <2>3, <2>4
<1> HIDE DEF rows, G
<1>5. Summed(rows, "total") = Cardinality(S)
  BY <1>1, <1>2, <1>4, SumOfColumn
<1>6. Summed(rows, "open") = Cardinality(Open(S))
  BY <1>1, <1>3, <1>4, SumOfColumn
<1> QED BY <1>5, <1>6 DEF rows

LEMMA BacklogAddsUp ==
  ASSUME NEW S \in SUBSET Cases, NEW asOf
  PROVE  /\ Summed(BacklogReport(S, asOf), "open") = Cardinality(Open(S))
         /\ Summed(BacklogReport(S, asOf), "breached") = Cardinality(Overdue(S, asOf))
<1> DEFINE rows == BacklogReport(S, asOf)
           G    == Departments(Open(S))
<1>1. Open(S) \in SUBSET Cases /\ Overdue(S, asOf) \in SUBSET Cases /\ Overdue(S, asOf) \subseteq Open(S)
  BY DEF Open, Overdue
<1>2. DOMAIN rows = G /\ IsFiniteSet(G)
  BY <1>1, GroupsAreFinite DEF BacklogReport
<1>3. \A c \in Open(S) : c \in Cases /\ DepartmentKey[c] = Facts[c].department /\ DepartmentKey[c] \in G
  BY <1>1 DEF DepartmentKey, Departments
<1>4. ASSUME NEW d \in G
      PROVE  /\ rows[d].open = Cardinality(Group(Open(S), DepartmentKey, d))
             /\ rows[d].breached = Cardinality(Group(Overdue(S, asOf), DepartmentKey, d))
  <2>1. /\ rows[d].open = Cardinality(Open(Of(S, d)))
        /\ rows[d].breached = Cardinality(Overdue(Of(S, d), asOf))
    BY DEF BacklogReport
  <2>2. Open(Of(S, d)) = Group(Open(S), DepartmentKey, d)
    BY <1>3 DEF Of, Open, Closed, Group
  <2>3. Overdue(Of(S, d), asOf) = Group(Overdue(S, asOf), DepartmentKey, d)
    BY <1>3 DEF Of, Overdue, Open, Closed, Group
  <2> QED BY <2>1, <2>2, <2>3
<1> HIDE DEF rows, G
<1>5. Summed(rows, "open") = Cardinality(Open(S))
  BY <1>1, <1>2, <1>3, <1>4, SumOfColumn
<1>6. Summed(rows, "breached") = Cardinality(Overdue(S, asOf))
  BY <1>1, <1>2, <1>3, <1>4, SumOfColumn
<1> QED BY <1>5, <1>6 DEF rows

(* The age buckets divide the open cases.                                   *)
LEMMA AgesAddUp ==
  ASSUME NEW S \in SUBSET Cases, NEW asOf \in Nat
  PROVE  SumFunction(AgeBuckets(S, asOf)) = Cardinality(Open(S))
<1> DEFINE cell == <<{c \in Open(S) : Age(c, asOf) <= 24},
                     {c \in Open(S) : 24 < Age(c, asOf) /\ Age(c, asOf) <= 72},
                     {c \in Open(S) : 72 < Age(c, asOf) /\ Age(c, asOf) <= 168},
                     {c \in Open(S) : Age(c, asOf) > 168}>>
<1>1. \A c \in Open(S) : Age(c, asOf) \in Int
  BY RowFacts DEF Open, Age
<1>2. cell \in [1..4 -> SUBSET Open(S)]
  OBVIOUS
<1>3. Disjoint(cell, 1..4) /\ \A c \in Open(S) : \E k \in 1..4 : c \in cell[k]
  <2>1. ASSUME NEW c \in Open(S)
        PROVE  /\ c \in cell[1] <=> Age(c, asOf) <= 24
               /\ c \in cell[2] <=> 24 < Age(c, asOf) /\ Age(c, asOf) <= 72
               /\ c \in cell[3] <=> 72 < Age(c, asOf) /\ Age(c, asOf) <= 168
               /\ c \in cell[4] <=> Age(c, asOf) > 168
    OBVIOUS
  <2> HIDE DEF cell
  <2>2. \A c \in Open(S) : \A i, j \in 1..4 : c \in cell[i] /\ c \in cell[j] => i = j
    BY <1>1, <2>1
  <2>3. \A c \in Open(S) : \E k \in 1..4 : c \in cell[k]
    BY <1>1, <2>1
  <2>4. Disjoint(cell, 1..4)
    BY <1>2, <2>2 DEF Disjoint
  <2> QED BY <2>3, <2>4
<1>4. AgeBuckets(S, asOf) = [k \in 1..4 |-> Cardinality(cell[k])]
  BY DEF AgeBuckets
<1> HIDE DEF cell
<1>5. IsFiniteSet(1..4) /\ IsFiniteSet(Open(S))
  <2>1. Open(S) \in SUBSET Cases
    BY DEF Open
  <2>2. \A a, b \in Int : IsFiniteSet(a..b)
    BY FS_Interval
  <2>3. IsFiniteSet(1..4)
    <3>1. 1 \in Int /\ 4 \in Int
      OBVIOUS
    <3> QED BY <2>2, <3>1, Zenon
  <2> QED BY <2>1, <2>3, FiniteCases
<1>6. SumFunction([k \in 1..4 |-> Cardinality(cell[k])]) = Cardinality(Open(S))
  BY <1>2, <1>3, <1>5, SumOfPartition
<1> QED BY <1>4, <1>6

LEMMA BucketsAddUp ==
  ASSUME NEW S \in SUBSET Cases, NEW asOf \in Nat
  PROVE  LET backlog == BacklogReport(S, asOf)
         IN  SumFunction([d \in DOMAIN backlog |-> SumFunction(backlog[d].ages)]) = Cardinality(Open(S))
<1> DEFINE backlog == BacklogReport(S, asOf)
           G == Departments(Open(S))
           n == [d \in G |-> SumFunction(backlog[d].ages)]
<1>1. Open(S) \in SUBSET Cases
  BY DEF Open
<1>2. DOMAIN backlog = G /\ IsFiniteSet(G)
  BY <1>1, GroupsAreFinite DEF BacklogReport
<1>3. \A c \in Open(S) : c \in Cases /\ DepartmentKey[c] = Facts[c].department /\ DepartmentKey[c] \in G
  BY <1>1 DEF DepartmentKey, Departments
<1>4. ASSUME NEW d \in G PROVE n[d] = Cardinality(Group(Open(S), DepartmentKey, d))
  <2>1. backlog[d].ages = AgeBuckets(Of(S, d), asOf)
    BY DEF BacklogReport
  <2>2. Of(S, d) \in SUBSET Cases
    BY DEF Of
  <2>3. Open(Of(S, d)) = Group(Open(S), DepartmentKey, d)
    BY <1>3 DEF Of, Open, Closed, Group
  <2> QED BY <2>1, <2>2, <2>3, AgesAddUp
<1>5. n = [d \in G |-> n[d]]
  OBVIOUS
<1> HIDE DEF n, G
<1>6. SumFunction(n) = Cardinality(Open(S))
  BY <1>1, <1>2, <1>3, <1>4, <1>5, SumOfGroups
<1> QED BY <1>2, <1>6 DEF n

(* The overall rate is the mean of the districts', weighted by their closed *)
(* cases: they cannot all be below it.                                      *)
LEMMA NotAllAreLower ==
  ASSUME NEW S \in SUBSET Cases, S # {},
         \A d \in Districts(S) : DistrictReport(S)[d].comparison = "statistically_lower"
  PROVE  FALSE
<1> DEFINE G   == Districts(S)
           Met(R) == {c \in Closed(R) : MetSla(c)}
           all == Cardinality(Closed(S))
           met == Cardinality(Met(S))
           n   == [d \in G |-> Cardinality(Closed(In(S, d)))]
           s   == [d \in G |-> Cardinality(Met(In(S, d)))]
           sn  == [d \in G |-> all * s[d]]
           ns  == [d \in G |-> met * n[d]]
<1>1. IsFiniteSet(G) /\ G # {} /\ DOMAIN n = G /\ DOMAIN s = G
  BY GroupsAreFinite DEF Districts
<1>2. \A c \in S : c \in Cases /\ DistrictKey[c] = Facts[c].district /\ DistrictKey[c] \in G
  BY DEF DistrictKey, Districts
<1>3. Closed(S) \in SUBSET Cases /\ Met(S) \in SUBSET Cases /\ Met(S) \subseteq S /\ Closed(S) \subseteq S
  BY DEF Closed
<1>4. all \in Nat /\ met \in Nat
  BY <1>3, FiniteCases
<1>5. ASSUME NEW d \in G
      PROVE  /\ n[d] = Cardinality(Group(Closed(S), DistrictKey, d)) /\ n[d] \in Nat
             /\ s[d] = Cardinality(Group(Met(S), DistrictKey, d)) /\ s[d] \in Nat
             /\ all * s[d] < met * n[d]
  <2>1. In(S, d) \in SUBSET Cases
    BY DEF In
  <2>2. n[d] \in Nat /\ s[d] \in Nat
    BY <2>1, CountOfParts
  <2>3. Closed(In(S, d)) = Group(Closed(S), DistrictKey, d)
    BY <1>2 DEF In, Closed, Group
  <2>4. Met(In(S, d)) = Group(Met(S), DistrictKey, d)
    BY <2>3 DEF Group
  <2>5. DistrictReport(S)[d] = DistrictMetric(Cardinality(In(S, d)), n[d], s[d], met, all)
    BY DEF DistrictReport
  <2>6. DistrictReport(S)[d].comparison = "statistically_lower"
    OBVIOUS
  <2> HIDE DEF n, s, met, all, Met
  <2>7. DistrictReport(S)[d].comparison =
          IF n[d] < MinClosed THEN "suppressed" ELSE Compare(s[d], n[d], met, all)
    BY <2>5 DEF DistrictMetric
  <2>8. Compare(s[d], n[d], met, all) = "statistically_lower"
    BY <2>6, <2>7
  <2>9. s[d] * all < met * n[d]
    BY <2>8 DEF Compare
  <2>10. s[d] * all = all * s[d]
    BY <1>4, <2>2
  <2>11. n[d] = Cardinality(Group(Closed(S), DistrictKey, d))
         /\ s[d] = Cardinality(Group(Met(S), DistrictKey, d))
    BY <2>3, <2>4 DEF n, s
  <2> QED BY <2>2, <2>9, <2>10, <2>11
<1>6. n = [d \in G |-> n[d]] /\ s = [d \in G |-> s[d]] /\ (\A d \in G : sn[d] = all * s[d])
      /\ \A d \in G : ns[d] = met * n[d]
  OBVIOUS
<1> HIDE DEF n, s, sn, ns, G
<1>7. SumFunction(n) = all /\ SumFunction(s) = met
  <2>1. \A c \in Closed(S) : DistrictKey[c] \in G
    BY <1>2, <1>3
  <2>2. \A c \in Met(S) : DistrictKey[c] \in G
    BY <1>2, <1>3
  <2> HIDE DEF Met
  <2>3. SumFunction(n) = Cardinality(Closed(S))
    BY <1>1, <1>3, <1>5, <1>6, <2>1, SumOfGroups
  <2>4. SumFunction(s) = Cardinality(Met(S))
    BY <1>1, <1>3, <1>5, <1>6, <2>2, SumOfGroups
  <2> QED BY <2>3, <2>4
<1> HIDE DEF all, met
<1>8. Naturally(n, G) /\ Naturally(s, G)
  BY <1>5 DEF Naturally
<1>9. SumFunctionOnSet(n, G) = all /\ SumFunctionOnSet(s, G) = met
  BY <1>1, <1>7 DEF SumFunction
<1>10. SumFunctionOnSet(sn, G) = all * met
  BY <1>1, <1>4, <1>6, <1>8, <1>9, SumScale
<1>11. SumFunctionOnSet(ns, G) = met * all
  BY <1>1, <1>4, <1>6, <1>8, <1>9, SumScale
<1>12. \A d \in G : sn[d] \in Nat /\ ns[d] \in Nat /\ sn[d] < ns[d]
  <2>1. ASSUME NEW d \in G PROVE sn[d] \in Nat /\ ns[d] \in Nat /\ sn[d] < ns[d]
    <3>1. n[d] \in Nat /\ s[d] \in Nat /\ all * s[d] < met * n[d]
      BY <1>5
    <3>2. all * s[d] \in Nat /\ met * n[d] \in Nat
      BY <1>4, <3>1
    <3> QED BY <1>6, <3>1, <3>2
  <2> QED BY <2>1
<1>13. SumFunctionOnSet(sn, G) < SumFunctionOnSet(ns, G)
  BY <1>1, <1>12, SumStrict DEF Naturally
<1>14. all * met = met * all /\ all * met \in Int
  BY <1>4
<1> QED BY <1>10, <1>11, <1>13, <1>14

(* Whatever is selected, the tables of the page count the same cases.       *)
THEOREM TheFiguresAddUp == Spec => []FiguresAddUp
<1>1. ASSUME ConsoleTypes, FrameInv PROVE FiguresAddUp
  <2>1. SUFFICES ASSUME view.state = "shown" PROVE FiguresAddUp
    BY DEF FiguresAddUp
  <2>2. Shown \in SUBSET Cases /\ view.asOf \in Nat
    BY <1>1 DEF ConsoleTypes, ViewRecord, Shown, Selected
  <2>3. Shown # {}
    BY <1>1, <2>1 DEF FrameInv
  <2> DEFINE kpis    == Kpis(Shown, view.asOf)
             sla     == SlaReport(Shown)
             backlog == BacklogReport(Shown, view.asOf)
             cohorts == CohortReport(Shown)
             monthly == DashboardCohorts(Shown)
             city    == DistrictReport(Shown)
  <2>4. /\ kpis.total = Cardinality(Shown) /\ kpis.open = Cardinality(Open(Shown))
        /\ kpis.breaches = Cardinality(Overdue(Shown, view.asOf))
        /\ kpis.met = Cardinality({c \in Closed(Shown) : MetSla(c)})
    BY DEF Kpis
  <2>5. /\ Summed(sla, "total") = kpis.total /\ Summed(sla, "open") = kpis.open
        /\ Summed(sla, "closed") - Summed(sla, "breached") = kpis.met
    BY <2>2, <2>4, SlaAddsUp, CountOfParts
  <2>6. Summed(cohorts, "total") = kpis.total /\ Summed(monthly, "met") = kpis.met
    BY <2>2, <2>4, CohortsAddUp, MonthlyAddsUp
  <2>7. Summed(city, "total") = kpis.total /\ Summed(city, "open") = kpis.open
    BY <2>2, <2>4, CityAddsUp
  <2>8. Summed(backlog, "open") = kpis.open /\ Summed(backlog, "breached") = kpis.breaches
    BY <2>2, <2>4, BacklogAddsUp
  <2>9. SumFunction([d \in DOMAIN backlog |-> SumFunction(backlog[d].ages)]) = kpis.open
    BY <2>2, <2>4, BucketsAddUp
  <2>10. \A g \in DOMAIN cohorts :
           IF g \in DOMAIN monthly
             THEN /\ cohorts[g].closed = monthly[g].closed
                  /\ cohorts[g].closed - cohorts[g].breached = monthly[g].met
             ELSE cohorts[g].closed = 0
    BY <2>2, CohortsAgree
  <2>11. ~ \A d \in DOMAIN city : city[d].comparison = "statistically_lower"
    <3>1. DOMAIN city = Districts(Shown)
      BY DEF DistrictReport
    <3> HIDE DEF city
    <3>2. city = DistrictReport(Shown)
      BY DEF city
    <3> QED BY <2>2, <2>3, <3>1, <3>2, NotAllAreLower
  <2> HIDE DEF kpis, sla, backlog, cohorts, monthly, city
  <2>12. /\ \A total \in {Summed(sla, "total"), Summed(cohorts, "total"), Summed(city, "total")} :
              total = kpis.total
         /\ \A open \in {Summed(sla, "open"), Summed(city, "open"), Summed(backlog, "open")} :
              open = kpis.open
    BY <2>5, <2>6, <2>7, <2>8
  <2> QED BY <2>5, <2>6, <2>8, <2>9, <2>10, <2>11, <2>12
          DEF FiguresAddUp, kpis, sla, backlog, cohorts, monthly, city
<1> QED BY <1>1, FrameInvariance, PTL

-----------------------------------------------------------------------------
(* Percentiles: a value by its place in the order of values and cases.      *)

UpTo(v, c) == {d \in DOMAIN v : v[d] < v[c] \/ (v[d] = v[c] /\ d <= c)}
LowValues(v) == [c \in DOMAIN v |-> UpTo(v, c)]
Place(v, c) == Cardinality(UpTo(v, c))
NotAbove(v, x) == {d \in DOMAIN v : v[d] <= x}

LEMMA UpToMember ==
  ASSUME NEW S \in SUBSET Nat, NEW v \in [S -> Nat], NEW c \in S
  PROVE  /\ UpTo(v, c) \in SUBSET S
         /\ \A d \in S : d \in UpTo(v, c) <=> v[d] < v[c] \/ (v[d] = v[c] /\ d <= c)
BY DEF UpTo

LEMMA ValuesAreChain ==
  ASSUME NEW S \in SUBSET Nat, NEW v \in [S -> Nat]
  PROVE  LowValues(v) \in [S -> SUBSET S] /\ IsChain(LowValues(v), S)
<1>1. LowValues(v) \in [S -> SUBSET S] /\ \A c \in S : LowValues(v)[c] = UpTo(v, c)
  BY UpToMember DEF LowValues
<1>2. \A c \in S : c \in UpTo(v, c)
  BY UpToMember
<1>3. ASSUME NEW c \in S, NEW d \in S, v[c] < v[d] \/ (v[c] = v[d] /\ c < d)
      PROVE  UpTo(v, c) \subseteq UpTo(v, d) /\ UpTo(v, c) # UpTo(v, d)
  <2>1. d \in UpTo(v, d)
    BY <1>2
  <2>2. d \notin UpTo(v, c)
    BY <1>3, UpToMember
  <2>3. ASSUME NEW e \in UpTo(v, c) PROVE e \in UpTo(v, d)
    <3>1. e \in S /\ (v[e] < v[c] \/ (v[e] = v[c] /\ e <= c))
      BY UpToMember
    <3>2. v[e] < v[d] \/ (v[e] = v[d] /\ e <= d)
      BY <1>3, <3>1
    <3> QED BY <3>1, <3>2, UpToMember
  <2> QED BY <2>1, <2>2, <2>3
<1>4. ASSUME NEW c \in S, NEW d \in S, c # d
      PROVE  \/ v[c] < v[d] \/ (v[c] = v[d] /\ c < d)
             \/ v[d] < v[c] \/ (v[d] = v[c] /\ d < c)
  BY <1>4
<1> QED BY <1>1, <1>2, <1>3, <1>4 DEF IsChain

LEMMA PlaceFacts ==
  ASSUME NEW S \in SUBSET Cases, NEW v \in [S -> Nat]
  PROVE  /\ Cardinality(S) \in Nat
         /\ \A c \in S : Place(v, c) \in 1..Cardinality(S)
         /\ \A k \in 1..Cardinality(S) : \E c \in S : Place(v, c) = k
         /\ \A c, d \in S : Place(v, c) = Place(v, d) => c = d
         /\ \A c, d \in S : v[c] < v[d] => Place(v, c) < Place(v, d)
<1>1. S \in SUBSET Nat /\ IsFiniteSet(S) /\ S \in SUBSET Cases
  BY FiniteCases, ReaderAssumption
<1>2. LowValues(v) \in [S -> SUBSET S] /\ IsChain(LowValues(v), S)
  BY <1>1, ValuesAreChain
<1>3. \A c \in S : Cardinality(LowValues(v)[c]) = Place(v, c)
  BY DEF LowValues, Place
<1>4. /\ Cardinality(S) \in Nat
      /\ \A c \in S : Cardinality(LowValues(v)[c]) \in 1..Cardinality(S)
      /\ \A k \in 1..Cardinality(S) : \E c \in S : Cardinality(LowValues(v)[c]) = k
      /\ \A c, d \in S : Cardinality(LowValues(v)[c]) = Cardinality(LowValues(v)[d]) => c = d
  BY <1>1, <1>2, RanksAreAll
<1>5. ASSUME NEW c \in S, NEW d \in S, v[c] < v[d] PROVE Place(v, c) < Place(v, d)
  <2>1. UpTo(v, c) \subseteq UpTo(v, d)
    <3>1. ASSUME NEW e \in UpTo(v, c) PROVE e \in UpTo(v, d)
      <4>1. e \in S /\ (v[e] < v[c] \/ (v[e] = v[c] /\ e <= c))
        BY <1>1, UpToMember
      <4>2. v[e] < v[d]
        BY <1>5, <4>1
      <4> QED BY <1>1, <4>1, <4>2, UpToMember
    <3> QED BY <3>1
  <2>2. UpTo(v, d) \in SUBSET Cases
    BY <1>1, UpToMember
  <2>3. Place(v, c) <= Place(v, d)
    BY <2>1, <2>2, FiniteCases, FS_Subset DEF Place
  <2>4. Place(v, c) # Place(v, d)
    BY <1>3, <1>4, <1>5
  <2>5. Place(v, c) \in Nat /\ Place(v, d) \in Nat
    BY <1>3, <1>4
  <2> QED BY <2>3, <2>4, <2>5
<1> QED BY <1>3, <1>4, <1>5

LEMMA NthFacts ==
  ASSUME NEW S \in SUBSET Cases, NEW v \in [S -> Nat], NEW k \in 1..Cardinality(S)
  PROVE  \E c \in S : Place(v, c) = k /\ Nth(v, k) = v[c]
<1> DEFINE P(c) == k = Cardinality({d \in DOMAIN v : v[d] < v[c] \/ (v[d] = v[c] /\ d <= c)})
<1>1. \E c \in DOMAIN v : P(c)
  <2>1. PICK c \in S : Place(v, c) = k
    BY PlaceFacts
  <2>2. P(c)
    BY <2>1 DEF Place, UpTo
  <2> QED BY <2>2
<1>2. PICK c : c = CHOOSE x \in DOMAIN v : P(x)
  OBVIOUS
<1>3. c \in DOMAIN v /\ P(c)
  BY <1>1, <1>2
<1>4. Nth(v, k) = v[c]
  BY <1>2 DEF Nth
<1> QED BY <1>3, <1>4 DEF Place, UpTo

(* Where the values are, next to the k-th.                                  *)
LEMMA NthSplits ==
  ASSUME NEW S \in SUBSET Cases, NEW v \in [S -> Nat], NEW k \in 1..Cardinality(S)
  PROVE  /\ Nth(v, k) \in Nat
         /\ Cardinality(NotAbove(v, Nth(v, k))) \in Nat /\ k <= Cardinality(NotAbove(v, Nth(v, k)))
         /\ \A c \in S : v[c] < Nth(v, k) =>
              /\ Cardinality(NotAbove(v, v[c])) \in Nat /\ Cardinality(NotAbove(v, v[c])) < k
              /\ k - 1 \in 1..Cardinality(S) /\ v[c] <= Nth(v, k - 1)
         /\ \A c \in S : Nth(v, k) < v[c] => k + 1 \in 1..Cardinality(S) /\ Nth(v, k + 1) <= v[c]
<1>1. PICK x \in S : Place(v, x) = k /\ Nth(v, k) = v[x]
  BY NthFacts
<1>2. /\ Cardinality(S) \in Nat
      /\ \A c \in S : Place(v, c) \in 1..Cardinality(S)
      /\ \A c, d \in S : v[c] < v[d] => Place(v, c) < Place(v, d)
  BY PlaceFacts
<1>3. S \in SUBSET Nat
  BY ReaderAssumption
<1>4. \A a : NotAbove(v, a) \in SUBSET Cases
  BY DEF NotAbove
<1>5. UpTo(v, x) \in SUBSET S /\ x \in UpTo(v, x)
      /\ \A d \in S : d \in UpTo(v, x) <=> v[d] < v[x] \/ (v[d] = v[x] /\ d <= x)
  BY <1>3, UpToMember
<1>6. UpTo(v, x) \subseteq NotAbove(v, v[x])
  <2>1. ASSUME NEW e \in UpTo(v, x) PROVE e \in S /\ v[e] <= v[x]
    <3>1. e \in S
      BY <1>5
    <3> QED BY <1>5, <3>1
  <2> QED BY <2>1 DEF NotAbove
<1>7. k <= Cardinality(NotAbove(v, Nth(v, k))) /\ Cardinality(NotAbove(v, Nth(v, k))) \in Nat
  BY <1>1, <1>4, <1>6, FiniteCases, FS_Subset DEF Place
<1>8. ASSUME NEW c \in S, v[c] < v[x]
      PROVE  /\ Cardinality(NotAbove(v, v[c])) \in Nat /\ Cardinality(NotAbove(v, v[c])) < k
             /\ k - 1 \in 1..Cardinality(S) /\ v[c] <= Nth(v, k - 1)
  <2>1. NotAbove(v, v[c]) \subseteq UpTo(v, x) \ {x}
    <3>1. ASSUME NEW e \in NotAbove(v, v[c]) PROVE e \in UpTo(v, x) /\ e # x
      <4>1. e \in S /\ v[e] <= v[c]
        BY DEF NotAbove
      <4>2. v[e] < v[x]
        BY <1>8, <4>1
      <4> QED BY <1>3, <4>1, <4>2, UpToMember
    <3> QED BY <3>1
  <2>2. UpTo(v, x) \in SUBSET Cases /\ x \in UpTo(v, x)
    BY <1>5
  <2>3. IsFiniteSet(UpTo(v, x)) /\ Cardinality(UpTo(v, x)) = k
    BY <1>1, <2>2, FiniteCases DEF Place
  <2>4. IsFiniteSet(UpTo(v, x) \ {x}) /\ Cardinality(UpTo(v, x) \ {x}) = k - 1
    BY <2>2, <2>3, FS_RemoveElement
  <2>5. Cardinality(NotAbove(v, v[c])) <= k - 1
    BY <2>1, <2>4, FS_Subset
  <2>6. Cardinality(NotAbove(v, v[c])) \in Nat
    BY <1>4, FiniteCases
  <2>7. Place(v, c) \in 1..(k - 1) /\ k - 1 \in 1..Cardinality(S)
    BY <1>1, <1>2, <1>8
  <2>8. PICK y \in S : Place(v, y) = k - 1 /\ Nth(v, k - 1) = v[y]
    BY <2>7, NthFacts
  <2>9. ~(v[y] < v[c])
    BY <1>2, <2>7, <2>8
  <2> QED BY <2>5, <2>6, <2>7, <2>8, <2>9
<1>9. ASSUME NEW c \in S, v[x] < v[c] PROVE k + 1 \in 1..Cardinality(S) /\ Nth(v, k + 1) <= v[c]
  <2>1. Place(v, c) \in (k + 1)..Cardinality(S) /\ k + 1 \in 1..Cardinality(S)
    BY <1>1, <1>2, <1>9
  <2>2. PICK y \in S : Place(v, y) = k + 1 /\ Nth(v, k + 1) = v[y]
    BY <2>1, NthFacts
  <2>3. ~(v[c] < v[y])
    BY <1>2, <2>1, <2>2
  <2> QED BY <2>1, <2>2, <2>3
<1> QED BY <1>1, <1>7, <1>8, <1>9

LEMMA NthGrows ==
  ASSUME NEW S \in SUBSET Cases, NEW v \in [S -> Nat],
         NEW j \in 1..Cardinality(S), NEW k \in 1..Cardinality(S), j <= k
  PROVE  Nth(v, j) \in Nat /\ Nth(v, k) \in Nat /\ Nth(v, j) <= Nth(v, k)
<1>1. PICK x \in S : Place(v, x) = j /\ Nth(v, j) = v[x]
  BY NthFacts
<1>2. PICK y \in S : Place(v, y) = k /\ Nth(v, k) = v[y]
  BY NthFacts
<1>3. ~(v[y] < v[x])
  BY <1>1, <1>2, PlaceFacts
<1> QED BY <1>1, <1>2, <1>3

(* Of n cases, the ranks of the two definitions are next to each other.     *)
Below(n, p) == ((n - 1) * p) \div 100 + 1
Part(n, p)  == ((n - 1) * p) % 100

LEMMA RanksOfPercentiles ==
  ASSUME NEW n \in Nat \ {0}, NEW p, p = 50 \/ p = 90
  PROVE  /\ RankOf(n, p) \in 1..n /\ p * n <= 100 * RankOf(n, p) /\ 100 * (RankOf(n, p) - 1) < p * n
         /\ Below(n, p) \in 1..n /\ Part(n, p) \in 0..99
         /\ Below(n, p) = RankOf(n, p) \/ Below(n, p) = RankOf(n, p) - 1
         /\ Part(n, p) # 0 => Below(n, p) + 1 \in 1..n
<1>1. CASE p = 50
  BY <1>1 DEF RankOf, Below, Part
<1>2. CASE p = 90
  BY <1>2 DEF RankOf, Below, Part
<1> QED BY <1>1, <1>2

LEMMA Between ==
  ASSUME NEW a \in Nat, NEW b \in Nat, a <= b, NEW q \in 0..100
  PROVE  /\ (100 - q) * a + q * b \in Int
         /\ 100 * a <= (100 - q) * a + q * b /\ (100 - q) * a + q * b <= 100 * b
<1>1. PICK e \in Nat : b = a + e
  <2>1. b - a \in Nat /\ b = a + (b - a)
    OBVIOUS
  <2> QED BY <2>1
<1>2. q * e \in Nat /\ (100 - q) * e \in Nat
  OBVIOUS
<1>3. (100 - q) * a + q * b = 100 * a + q * e
  BY <1>1
<1>4. (100 - q) * a + q * b = 100 * b - (100 - q) * e
  BY <1>1
<1> QED BY <1>2, <1>3, <1>4

LEMMA PercentileFits ==
  ASSUME NEW S \in SUBSET Cases, S # {}, NEW v \in [S -> Nat], NEW p \in {50, 90}
  PROVE  Fits(v, p, NearestRank(v, p), Interpolated(v, p))
<1> DEFINE n     == Cardinality(S)
           k     == RankOf(n, p)
           below == Below(n, p)
           part  == Part(n, p)
           x     == Nth(v, k)
           y     == Interpolated(v, p)
<1>1. n \in Nat \ {0}
  BY FiniteCases, FS_EmptySet
<1> HIDE DEF n
<1>2. /\ k \in 1..n /\ p * n <= 100 * k /\ 100 * (k - 1) < p * n
      /\ below \in 1..n /\ part \in 0..99 /\ (below = k \/ below = k - 1)
      /\ part # 0 => below + 1 \in 1..n
  <2>1. p = 50 \/ p = 90
    OBVIOUS
  <2> QED BY <1>1, <2>1, RanksOfPercentiles
<1> USE DEF n
<1>3. NearestRank(v, p) = x
  BY DEF NearestRank
<1>4. y = IF part = 0 THEN 100 * Nth(v, below)
          ELSE (100 - part) * Nth(v, below) + part * Nth(v, below + 1)
  BY DEF Interpolated, Below, Part
<1> HIDE DEF y, below, part, k
<1>5. /\ x \in Nat
      /\ Cardinality(NotAbove(v, x)) \in Nat /\ k <= Cardinality(NotAbove(v, x))
      /\ \A c \in S : v[c] < x =>
           /\ Cardinality(NotAbove(v, v[c])) \in Nat /\ Cardinality(NotAbove(v, v[c])) < k
           /\ k - 1 \in 1..n /\ v[c] <= Nth(v, k - 1)
      /\ \A c \in S : x < v[c] => k + 1 \in 1..n /\ Nth(v, k + 1) <= v[c]
  BY <1>2, NthSplits
<1>6. y \in Int /\ Nth(v, below) \in Nat /\ 100 * Nth(v, below) <= y
      /\ (part = 0 => y = 100 * Nth(v, below))
      /\ (part # 0 => Nth(v, below + 1) \in Nat /\ y <= 100 * Nth(v, below + 1))
  <2>1. Nth(v, below) \in Nat
    BY <1>2, NthGrows
  <2>2. CASE part = 0
    BY <1>4, <2>1, <2>2
  <2>3. CASE part # 0
    <3>1. Nth(v, below) \in Nat /\ Nth(v, below + 1) \in Nat /\ Nth(v, below) <= Nth(v, below + 1)
      BY <1>1, <1>2, <2>3, NthGrows
    <3>2. part \in 0..100
      BY <1>2
    <3>3. y = (100 - part) * Nth(v, below) + part * Nth(v, below + 1)
      BY <1>4, <2>3
    <3> QED BY <2>3, <3>1, <3>2, <3>3, Between
  <2> QED BY <2>2, <2>3
<1>7. ASSUME NEW c \in S, x < v[c] PROVE y <= 100 * v[c]
  <2>1. k + 1 \in 1..n /\ Nth(v, k + 1) <= v[c] /\ v[c] \in Nat
    BY <1>5, <1>7
  <2>2. Nth(v, below) <= x
    BY <1>1, <1>2, NthGrows
  <2>3. part # 0 => Nth(v, below + 1) <= v[c]
    <3>1. CASE below = k
      BY <2>1, <3>1
    <3>2. CASE below = k - 1
      <4>1. below + 1 = k
        BY <1>1, <1>2, <3>2
      <4> QED BY <1>5, <1>7, <2>1, <4>1
    <3> QED BY <1>2, <3>1, <3>2
  <2> QED BY <1>5, <1>6, <1>7, <2>1, <2>2, <2>3
<1>8. ASSUME NEW c \in S, v[c] < x PROVE 100 * v[c] <= y
  <2>1. k - 1 \in 1..n /\ v[c] <= Nth(v, k - 1) /\ v[c] \in Nat
    BY <1>5, <1>8
  <2>2. v[c] <= Nth(v, below)
    BY <1>2, <1>5, <1>8, <2>1
  <2> QED BY <1>6, <2>1, <2>2
<1>9. DOMAIN v = S
  OBVIOUS
<1>10. p * n \in Int /\ 100 * Cardinality(NotAbove(v, x)) >= p * n
  BY <1>1, <1>2, <1>5
<1>11. ASSUME NEW c \in S, v[c] < x PROVE 100 * Cardinality(NotAbove(v, v[c])) < p * n
  BY <1>1, <1>2, <1>5, <1>10, <1>11
<1> HIDE DEF x, n
<1>12. n = Cardinality(DOMAIN v) /\ y = Interpolated(v, p)
  BY <1>9 DEF n, y
<1>13. 100 * Cardinality({d \in DOMAIN v : v[d] <= x}) >= p * n
  BY <1>10 DEF NotAbove
<1>14. ASSUME NEW c \in DOMAIN v
       PROVE  /\ v[c] < x => 100 * Cardinality({d \in DOMAIN v : v[d] <= v[c]}) < p * n
              /\ x < v[c] => y <= 100 * v[c]
              /\ v[c] < x => y >= 100 * v[c]
  <2>1. v[c] \in Nat /\ y \in Int
    BY <1>6, <1>9
  <2>2. v[c] < x => 100 * Cardinality({d \in DOMAIN v : v[d] <= v[c]}) < p * n
    BY <1>9, <1>11 DEF NotAbove
  <2> QED BY <1>7, <1>8, <1>9, <2>1, <2>2
<1> HIDE DEF y
<1>15. Fits(v, p, x, y)
  BY <1>12, <1>13, <1>14 DEF Fits
<1> QED BY <1>3, <1>12, <1>15

(* The durations of closed cases.                                           *)
LEMMA Durations ==
  ASSUME NEW S \in SUBSET Cases
  PROVE  /\ Closed(S) \in SUBSET Cases /\ Completed(S) \in SUBSET Cases
         /\ FirstAction(Completed(S)) \in [Completed(S) -> Nat]
         /\ ActiveWork(Completed(S)) \in [Completed(S) -> Nat]
         /\ Resolution(Closed(S)) \in [Closed(S) -> Nat]
<1>1. Closed(S) \in SUBSET Cases /\ \A c \in Closed(S) : c \in Cases /\ Facts[c].closed # None
  BY DEF Closed
<1>2. ASSUME NEW c \in Closed(S) PROVE Elapsed(c) \in Nat
  <2>1. Facts[c].opened \in Nat /\ Facts[c].closed \in Nat /\ Facts[c].opened <= Facts[c].closed
    BY <1>1, RowFacts
  <2> QED BY <2>1 DEF Elapsed
<1>3. Completed(S) \subseteq Closed(S) /\ \A c \in Completed(S) : Facts[c].started # None
  BY DEF Completed
<1>4. ASSUME NEW c \in Completed(S)
      PROVE  Facts[c].started - Facts[c].opened \in Nat /\ Facts[c].closed - Facts[c].started \in Nat
  <2>1. /\ Facts[c].opened \in Nat /\ Facts[c].started \in Nat /\ Facts[c].closed \in Nat
        /\ Facts[c].opened <= Facts[c].started /\ Facts[c].started <= Facts[c].closed
    BY <1>1, <1>3, RowFacts
  <2> QED BY <2>1
<1> QED BY <1>1, <1>2, <1>3, <1>4 DEF FirstAction, ActiveWork, Resolution

LEMMA GroupsAreThere ==
  ASSUME NEW S \in SUBSET Cases
  PROVE  /\ \A d \in Departments(Completed(S)) : Of(S, d) \in SUBSET Cases /\ Completed(Of(S, d)) # {}
         /\ \A g \in {<<Month(c), Facts[c].department>> : c \in Closed(S)} :
              /\ Cohort(S, g[1], g[2]) \in SUBSET Cases /\ Closed(Cohort(S, g[1], g[2])) # {}
              /\ g \in {<<Month(c), Facts[c].department>> : c \in S}
<1>1. ASSUME NEW d \in Departments(Completed(S))
      PROVE  Of(S, d) \in SUBSET Cases /\ Completed(Of(S, d)) # {}
  <2>1. PICK c \in Completed(S) : Facts[c].department = d
    BY DEF Departments
  <2>2. c \in Completed(Of(S, d))
    BY <2>1 DEF Completed, Closed, Of
  <2> QED BY <2>2 DEF Of
<1>2. ASSUME NEW g \in {<<Month(c), Facts[c].department>> : c \in Closed(S)}
      PROVE  /\ Cohort(S, g[1], g[2]) \in SUBSET Cases /\ Closed(Cohort(S, g[1], g[2])) # {}
             /\ g \in {<<Month(c), Facts[c].department>> : c \in S}
  <2>1. PICK c \in Closed(S) : g = <<Month(c), Facts[c].department>>
    OBVIOUS
  <2>2. c \in S /\ g[1] = Month(c) /\ g[2] = Facts[c].department
    BY <2>1 DEF Closed
  <2>3. c \in Closed(Cohort(S, g[1], g[2]))
    BY <2>1, <2>2 DEF Closed, Cohort, Of
  <2>4. Cohort(S, g[1], g[2]) \in SUBSET Cases
    BY DEF Cohort, Of
  <2> QED BY <2>1, <2>2, <2>3, <2>4
<1> QED BY <1>1, <1>2

(* The percentiles of the reports are nearest ranks of the cases shown, and *)
(* the page interpolates next to them.                                      *)
THEOREM ThePercentilesFit == Spec => []PercentilesFit
<1>1. ASSUME ConsoleTypes, FrameInv PROVE PercentilesFit
  <2>1. SUFFICES ASSUME view.state = "shown", view.edition = view.eventEdition PROVE PercentilesFit
    BY DEF PercentilesFit
  <2>2. Shown \in SUBSET Cases /\ Shown \subseteq view.cases
    BY <1>1 DEF ConsoleTypes, ViewRecord, Shown, Selected
  <2>3. Events = Shown
    BY <1>1, <2>1, <2>2 DEF FrameInv, Events
  <2>4. PICK S : S = Shown
    OBVIOUS
  <2>5. S \in SUBSET Cases
    BY <2>2, <2>4
  <2>6. ASSUME NEW d \in DOMAIN CycleReport(S)
        PROVE  LET rows == Completed(Of(S, d))
               IN  /\ Fits(FirstAction(rows), 50, CycleReport(S)[d].first[1], DashboardCycle(S)[d].first[1])
                   /\ Fits(FirstAction(rows), 90, CycleReport(S)[d].first[2], DashboardCycle(S)[d].first[2])
                   /\ Fits(ActiveWork(rows), 50, CycleReport(S)[d].active[1], DashboardCycle(S)[d].active[1])
    <3> DEFINE rows == Completed(Of(S, d))
    <3>1. d \in Departments(Completed(S))
      BY DEF CycleReport
    <3>2. /\ rows \in SUBSET Cases /\ rows # {}
          /\ FirstAction(rows) \in [rows -> Nat] /\ ActiveWork(rows) \in [rows -> Nat]
      BY <2>5, <3>1, GroupsAreThere, Durations
    <3>3. /\ CycleReport(S)[d].first[1] = NearestRank(FirstAction(rows), 50)
          /\ CycleReport(S)[d].first[2] = NearestRank(FirstAction(rows), 90)
          /\ CycleReport(S)[d].active[1] = NearestRank(ActiveWork(rows), 50)
      BY <3>1 DEF CycleReport
    <3>4. /\ DashboardCycle(S)[d].first[1] = Interpolated(FirstAction(rows), 50)
          /\ DashboardCycle(S)[d].first[2] = Interpolated(FirstAction(rows), 90)
          /\ DashboardCycle(S)[d].active[1] = Interpolated(ActiveWork(rows), 50)
      BY <3>1 DEF DashboardCycle
    <3> HIDE DEF rows
    <3>5. /\ Fits(FirstAction(rows), 50,
                  NearestRank(FirstAction(rows), 50), Interpolated(FirstAction(rows), 50))
          /\ Fits(FirstAction(rows), 90,
                  NearestRank(FirstAction(rows), 90), Interpolated(FirstAction(rows), 90))
          /\ Fits(ActiveWork(rows), 50,
                  NearestRank(ActiveWork(rows), 50), Interpolated(ActiveWork(rows), 50))
      BY <3>2, PercentileFits
    <3> QED BY <3>3, <3>4, <3>5 DEF rows
  <2>7. ASSUME NEW g \in DOMAIN DashboardCohorts(S)
        PROVE  Fits(Resolution(Closed(Cohort(S, g[1], g[2]))), 50,
                    CohortReport(S)[g].median, DashboardCohorts(S)[g].median)
    <3> DEFINE rows == Closed(Cohort(S, g[1], g[2]))
    <3>1. g \in {<<Month(c), Facts[c].department>> : c \in Closed(S)}
      BY DEF DashboardCohorts
    <3>2. /\ rows \in SUBSET Cases /\ rows # {} /\ Resolution(rows) \in [rows -> Nat]
          /\ g \in {<<Month(c), Facts[c].department>> : c \in S}
      BY <2>5, <3>1, GroupsAreThere, Durations
    <3>3. CohortReport(S)[g].median = NearestRank(Resolution(rows), 50)
      BY <3>2 DEF CohortReport
    <3>4. DashboardCohorts(S)[g].median = Interpolated(Resolution(rows), 50)
      BY <3>1 DEF DashboardCohorts
    <3> HIDE DEF rows
    <3>5. Fits(Resolution(rows), 50,
               NearestRank(Resolution(rows), 50), Interpolated(Resolution(rows), 50))
      BY <3>2, PercentileFits
    <3> QED BY <3>3, <3>4, <3>5 DEF rows
  <2> QED BY <2>3, <2>4, <2>6, <2>7 DEF PercentilesFit
<1> QED BY <1>1, FrameInvariance, PTL
=============================================================================
