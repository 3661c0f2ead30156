-------------------------- MODULE SnapshotSyncProofs --------------------------
(* Proofs about SnapshotSync, for every set of devices.                    *)
EXTENDS SnapshotSync, FiniteSetTheorems, TLAPS

-----------------------------------------------------------------------------
(* The inductive invariant.  Its parts are about the operation a device is *)
(* in (OperationInv), the revisions it names (NamedInv), the published     *)
(* commits and the counters (CommitInv), the revisions that are built and  *)
(* not published yet (StagedInv), what the causal order means (CausalInv)  *)
(* and what the local side knows (HistoryInv).                             *)

Staging == {"upload", "check", "commit", "validate", "publish"}
Staged == {d \in Device : pc[d] \in Staging}

\* The operations that build a revision.
Building == {"push", "keepLocal", "keepCloud", "recover"}

\* The edits that revision r holds or supersedes.
Hist(r) == IF r = 0 THEN {} ELSE revs[r].history

\* The edits that revision r, made by a recovery, passes over.
Lost(r) == IF r = 0 THEN {} ELSE revs[r].forgone

\* Every counter of s is covered by r.
Covers(r, s) == \A x \in Device : Clock(r)[x] >= Clock(s)[x]

OperationInv ==
  \A d \in Device :
    /\ pc[d] \in {"idle", "delete"} => control[d] = "preparing"
    /\ pc[d] \in {"validate", "publish", "pointer", "record"} => control[d] = "committing"
    /\ pc[d] \in Staging \cup {"pointer", "record", "apply"} => op[d].rev \in Revision
    /\ pc[d] \in Staging \cup {"pointer", "record"} => op[d].kind \in Building
    /\ pc[d] = "apply" => op[d].kind \in Pull \cup {"recover"}

NamedBy(d) ==
  /\ base[d] \in Published \cup {0}
  /\ op[d].chosen \in Published \cup {0}
  /\ op[d].observed \subseteq Published
  /\ pc[d] \in {"pointer", "record", "apply"} => op[d].rev \in Published
  /\ pc[d] = "delete" =>
       \E c \in Published : strictly_dominates(Clock(c), Clock(op[d].rev))

NamedInv == latest \in Published \cup {0} /\ \A d \in Device : NamedBy(d)

CommitInv ==
  \A d \in Device :
    /\ heads[d] \in past[d] \cup {0}
    /\ past[d] # {} => heads[d] # 0
    /\ \A r \in past[d] : Clock(r)[d] > 0
    /\ \A r \in Published : Clock(heads[d])[d] >= Clock(r)[d]

StagedInv ==
  \A d \in Staged :
    /\ Clock(op[d].rev)[d] > Clock(heads[d])[d]
    /\ \A e \in Device \ {d} : Clock(heads[e])[e] >= Clock(op[d].rev)[e]

CausalInv ==
  \A r \in Published \cup {op[d].rev : d \in Staged} :
    \A e \in Device : \A s \in past[e] :
      Clock(r)[e] >= Clock(s)[e] =>
        Hist(s) \subseteq Hist(r) \cup Lost(r) \cup Forgone /\ Covers(r, s)

KnownBy(d) ==
  /\ content[d] \in history[d] \cup {0}
  /\ Hist(base[d]) \subseteq history[d] \cup Forgone
  /\ pc[d] \in Staging \cup {"pointer", "apply"} =>
       /\ Hist(base[d]) \subseteq Hist(op[d].rev) \cup Forgone
       /\ op[d].kind \in {"pull", "recover"} =>
            op[d].local \in Hist(op[d].rev) \cup Forgone \cup {0}

HistoryInv ==
  /\ \A r \in Revision : Content(r) \in Hist(r) \cup {0}
  /\ \A d \in Device : KnownBy(d)

SyncInv ==
  /\ TypeOK /\ OperationInv /\ NamedInv
  /\ CommitInv /\ StagedInv /\ CausalInv /\ HistoryInv
  /\ CountersNameCommits /\ BranchesReadable /\ StagedSnapshotKept

-----------------------------------------------------------------------------
(* Finite sets: largest numbers, and heads that nobody dominates.          *)

(* Among finitely many sets, one contains no smaller one.  This is the     *)
(* induction over finite sets that the next lemmas need.                   *)
LEMMA SmallestSet ==
  ASSUME NEW S, IsFiniteSet(S), S # {}, NEW f \in [S -> SUBSET S]
  PROVE  \E s \in S : \A t \in S : f[t] \subseteq f[s] => f[t] = f[s]
  <1> DEFINE T == {f[s] : s \in S}
  <1>1. T \subseteq FiniteSubsetsOf(S)
    <2>1. \A A \in SUBSET S : IsFiniteSet(A)
      BY FS_Subset
    <2>2. QED
      BY <2>1 DEF FiniteSubsetsOf
  <1>2. T # {}
    OBVIOUS
  <1>3. PICK A \in T : \A B \in T : <<B, A>> \notin StrictSubsetOrdering(S)
    BY <1>1, <1>2, FS_StrictSubsetOrderingWellFounded, WFMin
  <1>4. PICK s \in S : A = f[s]
    OBVIOUS
  <1>5. ASSUME NEW t \in S, f[t] \subseteq f[s], f[t] # f[s]
        PROVE  FALSE
    <2>1. <<f[t], f[s]>> \in StrictSubsetOrdering(S)
      BY <1>5 DEF StrictSubsetOrdering
    <2>2. QED
      BY <1>3, <1>4, <2>1
  <1>6. QED
    BY <1>5

(* A finite set of natural numbers that is not empty has a largest one.    *)
LEMMA MaxOfFinite ==
  ASSUME NEW S, \A x \in S : x \in Nat, IsFiniteSet(S), S # {}
  PROVE  Max(S) \in S /\ \A y \in S : Max(S) >= y
  <1> DEFINE f == [s \in S |-> {x \in S : x > s}]
  <1>1. PICK s \in S : \A t \in S : f[t] \subseteq f[s] => f[t] = f[s]
    <2>1. f \in [S -> SUBSET S]
      OBVIOUS
    <2> HIDE DEF f
    <2>2. QED
      BY <2>1, SmallestSet
  <1>2. \A y \in S : s >= y
    <2>1. SUFFICES ASSUME NEW y \in S, y > s PROVE FALSE
      OBVIOUS
    <2>2. y \in f[s] /\ y \notin f[y]
      BY <2>1
    <2>3. ASSUME NEW x \in f[y] PROVE x \in f[s]
      <3>1. x \in Nat /\ y \in Nat /\ s \in Nat /\ x > y
        OBVIOUS
      <3>2. x > s
        BY <2>1, <3>1
      <3>3. QED
        BY <3>2
    <2>4. QED
      BY <1>1, <2>2, <2>3
  <1>3. \E x \in S : \A y \in S : x >= y
    BY <1>2
  <1>4. QED
    BY <1>3 DEF Max

(* The causal order is transitive.                                         *)
LEMMA DominatesTransitive ==
  ASSUME NEW a \in Clocks, NEW b \in Clocks, NEW c \in Clocks,
         strictly_dominates(a, b), \A d \in Device : b[d] >= c[d]
  PROVE  strictly_dominates(a, c)
  <1>1. \A d \in Device : a[d] \in Nat /\ b[d] \in Nat /\ c[d] \in Nat
    BY DEF Clocks
  <1>2. \A d \in Device : a[d] >= b[d] /\ a[d] >= c[d]
    BY <1>1 DEF strictly_dominates
  <1>3. ASSUME a = c PROVE FALSE
    <2>1. \A d \in Device : a[d] = b[d]
      BY <1>1, <1>2, <1>3
    <2>2. a = b
      BY <2>1 DEF Clocks
    <2>3. QED
      BY <2>2 DEF strictly_dominates
  <1>4. QED
    BY <1>2, <1>3 DEF strictly_dominates

(* Every head of a finite set is a branch or is dominated by one.          *)
LEMMA MaximalCovers ==
  ASSUME NEW H, IsFiniteSet(H), \A r \in H : Clock(r) \in Clocks, NEW h \in H
  PROVE  \E m \in Maximal(H) : Covers(m, h)
  <1> DEFINE S == {o \in H : o = h \/ strictly_dominates(Clock(o), Clock(h))}
             f == [o \in S |-> {p \in S : strictly_dominates(Clock(p), Clock(o))}]
  <1>1. PICK m \in S : \A t \in S : f[t] \subseteq f[m] => f[t] = f[m]
    <2>1. f \in [S -> SUBSET S] /\ S # {} /\ S \subseteq H
      OBVIOUS
    <2>2. IsFiniteSet(S)
      BY <2>1, FS_Subset
    <2> HIDE DEF f, S
    <2>3. QED
      BY <2>1, <2>2, SmallestSet
  <1>2. ASSUME NEW o \in H, strictly_dominates(Clock(o), Clock(m))
        PROVE  FALSE
    <2>1. strictly_dominates(Clock(o), Clock(h))
      BY <1>2, DominatesTransitive DEF strictly_dominates
    <2>2. o \in f[m]
      BY <1>2, <2>1
    <2>3. o \notin f[o]
      BY <2>1 DEF strictly_dominates
    <2>4. ASSUME NEW p \in f[o] PROVE p \in f[m]
      <3>1. p \in S /\ p \in H /\ strictly_dominates(Clock(p), Clock(o))
        BY <2>1
      <3>2. strictly_dominates(Clock(p), Clock(m))
        BY <1>2, <3>1, DominatesTransitive DEF strictly_dominates
      <3>3. QED
        BY <3>1, <3>2
    <2>5. QED
      BY <1>1, <2>1, <2>2, <2>3, <2>4
  <1>3. m \in Maximal(H)
    BY <1>2 DEF Maximal
  <1>4. Covers(m, h)
    BY DEF Covers, strictly_dominates, Clocks
  <1>5. QED
    BY <1>3, <1>4

(* The clock that a device builds is the join of the baseline and of the   *)
(* heads it saw, with its own counter advanced.                            *)
LEMMA NextClock ==
  ASSUME NEW d \in Device, NEW b, NEW H, IsFiniteSet(H),
         \A r \in H \cup {b} : Clock(r) \in Clocks
  PROVE  /\ next_clock(d, b, H) \in Clocks
         /\ \A x \in Device : \E h \in H \cup {b} :
              next_clock(d, b, H)[x] = Clock(h)[x] + (IF x = d THEN 1 ELSE 0)
         /\ \A x \in Device : \A h \in H \cup {b} :
              next_clock(d, b, H)[x] >= Clock(h)[x] + (IF x = d THEN 1 ELSE 0)
  <1> DEFINE J == H \cup {b}
             val(x) == {Clock(r)[x] : r \in J}
  <1>1. IsFiniteSet(J)
    BY FS_AddElement
  <1>2. ASSUME NEW x \in Device
        PROVE  /\ IsFiniteSet(val(x)) /\ val(x) # {}
               /\ \A v \in val(x) : v \in Nat
    <2> DEFINE f == [r \in J |-> Clock(r)[x]]
    <2>1. f \in Surjection(J, val(x))
      BY DEF Surjection
    <2>2. IsFiniteSet(val(x))
      BY <1>1, <2>1, FS_Surjection
    <2>3. QED
      BY <2>2 DEF Clocks
  <1>3. ASSUME NEW x \in Device
        PROVE  /\ Max(val(x)) \in val(x)
               /\ \A v \in val(x) : Max(val(x)) >= v
    <2> HIDE DEF val
    <2>1. QED
      BY <1>2, MaxOfFinite
  <1>4. ASSUME NEW x \in Device
        PROVE  next_clock(d, b, H)[x] = Max(val(x)) + (IF x = d THEN 1 ELSE 0)
    BY DEF next_clock
  <1>5. next_clock(d, b, H) \in Clocks
    <2>1. \A x \in Device : Max(val(x)) \in Nat
      BY <1>2, <1>3
    <2> HIDE DEF val
    <2>2. \A x \in Device : Max(val(x)) + (IF x = d THEN 1 ELSE 0) \in Nat
      BY <2>1
    <2>3. next_clock(d, b, H) = [x \in Device |-> Max(val(x)) + (IF x = d THEN 1 ELSE 0)]
      BY DEF next_clock, val
    <2>4. QED
      BY <2>2, <2>3 DEF Clocks
  <1>6. ASSUME NEW x \in Device
        PROVE  \E h \in J : next_clock(d, b, H)[x] = Clock(h)[x] + (IF x = d THEN 1 ELSE 0)
    BY <1>3, <1>4
  <1>7. ASSUME NEW x \in Device, NEW h \in J
        PROVE  next_clock(d, b, H)[x] >= Clock(h)[x] + (IF x = d THEN 1 ELSE 0)
    <2>1. Clock(h)[x] \in val(x)
      OBVIOUS
    <2>2. Max(val(x)) >= Clock(h)[x] /\ Max(val(x)) \in Nat /\ Clock(h)[x] \in Nat
      BY <1>2, <1>3, <2>1
    <2> HIDE DEF val
    <2>3. QED
      BY <1>4, <2>2
  <1>8. QED
    BY <1>5, <1>6, <1>7

-----------------------------------------------------------------------------
(* What the operators return in a state of the right types.                *)

(* Every revision has a clock, a content and a history.                    *)
LEMMA RevisionTypes ==
  ASSUME TypeOK
  PROVE  /\ Len(revs) \in Nat /\ 0 \notin Revision
         /\ \A r \in Revision \cup {0} :
              /\ Clock(r) \in Clocks
              /\ Content(r) \in 0 .. MaxEdits
              /\ Hist(r) \in SUBSET (1 .. MaxEdits)
              /\ Lost(r) \in SUBSET (1 .. MaxEdits)
  <1>1. Len(revs) \in Nat /\ \A r \in Revision : revs[r] \in Revisions
    BY DEF TypeOK, Revision
  <1>2. 0 \notin Revision
    BY <1>1 DEF Revision
  <1>3. /\ Clock(0) \in Clocks /\ Content(0) \in 0 .. MaxEdits
        /\ Hist(0) \in SUBSET (1 .. MaxEdits) /\ Lost(0) \in SUBSET (1 .. MaxEdits)
    BY SyncAssumption DEF Clock, Content, Hist, Lost, Clocks
  <1>4. ASSUME NEW r \in Revision
        PROVE  /\ Clock(r) \in Clocks /\ Content(r) \in 0 .. MaxEdits
               /\ Hist(r) \in SUBSET (1 .. MaxEdits) /\ Lost(r) \in SUBSET (1 .. MaxEdits)
    <2>1. revs[r] \in Revisions /\ r # 0
      BY <1>1, <1>2
    <2>2. QED
      BY <2>1 DEF Clock, Content, Hist, Lost, Revisions
  <1>5. QED
    BY <1>1, <1>2, <1>3, <1>4

(* A revision never changes once it was built.                             *)
LEMMA RevisionsKept ==
  ASSUME TypeOK, revs' = revs \/ \E rec : revs' = Append(revs, rec)
  PROVE  /\ Revision \subseteq Revision'
         /\ \A r \in Revision \cup {0} :
              /\ Clock(r)' = Clock(r) /\ Content(r)' = Content(r)
              /\ Hist(r)' = Hist(r) /\ Lost(r)' = Lost(r)
  <1>1. revs \in Seq(Revisions)
    BY DEF TypeOK
  <1>2. /\ Len(revs) \in Nat /\ Len(revs') \in Nat /\ Len(revs') >= Len(revs)
        /\ \A r \in Revision : revs'[r] = revs[r]
    BY <1>1 DEF Revision
  <1>3. Revision \subseteq Revision'
    BY <1>2 DEF Revision
  <1>4. QED
    BY <1>2, <1>3 DEF Clock, Content, Hist, Lost

(* A read returns finitely many built revisions, published ones if the     *)
(* pointer names one; a device sees its own head if the clock from which   *)
(* it starts does not record it.                                           *)
LEMMA ReadsTypes ==
  ASSUME TypeOK, NEW d \in Device, NEW known \in Revision \cup {0}, NEW H \in Reads(d, known)
  PROVE  /\ H \subseteq Revision /\ IsFiniteSet(H)
         /\ latest \in Published \cup {0} => H \subseteq Published
         /\ ~StaleAfterUnrecorded /\ Unrecorded(d, known) => heads[d] \in H
  <1>1. PICK L \in Listings(d, known) : H = (L \cup {latest}) \ {0}
    BY DEF Reads
  <1>2. Published \subseteq Revision
    BY DEF TypeOK, Published
  <1>3. L \subseteq Published /\ Seen(d, known) \subseteq L
    BY DEF Listings
  <1>4. H \subseteq Revision
    BY <1>1, <1>2, <1>3 DEF TypeOK
  <1>5. IsFiniteSet(H)
    <2>1. Len(revs) \in Nat
      BY RevisionTypes
    <2>2. IsFiniteSet(Revision)
      BY <2>1, FS_Interval DEF Revision
    <2>3. QED
      BY <1>4, <2>2, FS_Subset
  <1>6. ASSUME ~StaleAfterUnrecorded, Unrecorded(d, known) PROVE heads[d] \in H
    <2>1. heads[d] # 0
      <3>1. ASSUME heads[d] = 0 PROVE FALSE
        <4>1. Clock(heads[d])[d] = 0
          BY <3>1 DEF Clock
        <4>2. Clock(known)[d] \in Nat
          BY RevisionTypes DEF Clocks
        <4>3. QED
          BY <1>6, <4>1, <4>2 DEF Unrecorded
      <3>2. QED
        BY <3>1
    <2>2. QED
      BY <1>1, <1>3, <1>6, <2>1 DEF Seen
  <1>7. QED
    BY <1>1, <1>3, <1>4, <1>5, <1>6

(* The clock from which an operation starts is that of a built revision.   *)
LEMMA PreviousType ==
  ASSUME TypeOK, NEW d \in Device, NEW kind
  PROVE  base[d] \in Revision \cup {0} /\ previous_clock(d, kind) \in Revision \cup {0}
  BY DEF TypeOK, previous_clock

-----------------------------------------------------------------------------
(* Types, and where an operation stands.                                   *)

(* A device that continues with a revision it read.                        *)
LEMMA ContinueTypes ==
  ASSUME TypeOK, OperationInv, NEW d \in Device,
         NEW kind \in Building \cup {"pull"}, NEW label \in {"upload", "apply"},
         label = "upload" => kind # "pull", label = "apply" => kind \in Pull,
         NEW B, B \subseteq Revision, NEW chosen \in Revision \cup {0}, NEW r \in Revision',
         \/ revs' = revs
         \/ \E rec \in Revisions : revs' = Append(revs, rec) /\ Len(revs) < MaxRevisions,
         Continue(d, kind, label, B, chosen, r)
  PROVE  TypeOK' /\ OperationInv'
  <1>1. Len(revs) \in Nat
    BY RevisionTypes
  <1>2. /\ revs' \in Seq(Revisions) /\ Len(revs') <= MaxRevisions
        /\ Revision \subseteq Revision'
    <2>1. revs \in Seq(Revisions) /\ Len(revs) <= MaxRevisions /\ MaxRevisions \in Nat
      BY SyncAssumption DEF TypeOK
    <2>2. CASE revs' = revs
      BY <2>1, <2>2 DEF Revision
    <2>3. CASE \E rec \in Revisions : revs' = Append(revs, rec) /\ Len(revs) < MaxRevisions
      <3>1. PICK rec \in Revisions : revs' = Append(revs, rec) /\ Len(revs) < MaxRevisions
        BY <2>3
      <3> HIDE DEF Revisions
      <3>2. revs' \in Seq(Revisions) /\ Len(revs') = Len(revs) + 1
        BY <2>1, <3>1
      <3>3. QED
        BY <1>1, <2>1, <3>1, <3>2 DEF Revision
    <2>4. QED
      BY <2>2, <2>3
  <1>3. op'[d].rev = r /\ op'[d].kind = kind /\ pc'[d] = label
    BY DEF TypeOK, Continue, Goto
  <1>4. \A e \in Device \ {d} : op'[e] = op[e] /\ pc'[e] = pc[e]
    BY DEF TypeOK, Continue, Goto
  <1>5. op' \in [Device -> [kind : Kind, local : 0 .. MaxEdits,
                          latest : Revision' \cup {0}, observed : SUBSET Revision',
                          chosen : Revision' \cup {0}, rev : Revision' \cup {0}]]
    BY <1>2, SyncAssumption DEF TypeOK, Continue, Kind, Push, Pull, Building
  <1>6. pc' \in [Device -> Label]
    BY DEF TypeOK, Continue, Goto, Label
  <1>7. TypeOK'
    <2>1. Revisions' = Revisions
      BY DEF Revisions, Clocks
    <2>2. UNCHANGED <<local, remote, control>>
      BY DEF Continue
    <2>3. QED
      BY <1>2, <1>5, <1>6, <2>1, <2>2 DEF TypeOK, local, remote
  <1>8. OperationInv'
    BY <1>2, <1>3, <1>4 DEF OperationInv, Continue, Staging, Pull, Building
  <1>9. QED
    BY <1>7, <1>8

(* A device that builds a revision.                                        *)
LEMMA BuildTypes ==
  ASSUME TypeOK, OperationInv, NEW d \in Device, NEW kind \in Building,
         NEW H \in Reads(d, previous_clock(d, kind)), NEW B \in SUBSET Revision,
         NEW c \in 0 .. MaxEdits, NEW chosen \in Revision \cup {0}, NEW R \in SUBSET Revision,
         Room, Build(d, kind, H, B, c, chosen, R)
  PROVE  TypeOK' /\ OperationInv'
  <1> DEFINE previous == previous_clock(d, kind)
             rec == NewRevision(d, kind, H, c, R)
             known == history[d] \cup Held(R)
  <1>1. previous \in Revision \cup {0} /\ H \subseteq Revision /\ IsFiniteSet(H)
    BY PreviousType, ReadsTypes
  <1>2. next_clock(d, previous, H) \in Clocks
    <2>1. \A r \in H \cup {previous} : Clock(r) \in Clocks
      BY <1>1, RevisionTypes
    <2> HIDE DEF previous
    <2>2. QED
      BY <1>1, <2>1, NextClock
  <1>3. \A r \in Revision : revs[r].history \in SUBSET (1 .. MaxEdits)
    BY RevisionTypes DEF Hist
  <1>4. known \in SUBSET (1 .. MaxEdits)
    BY <1>3 DEF TypeOK, Held
  <1>5. Held(H) \ known \in SUBSET (1 .. MaxEdits)
    BY <1>1, <1>3 DEF Held
  <1>6. rec \in Revisions
    BY <1>2, <1>4, <1>5 DEF Revisions, NewRevision
  <1>7. revs' = Append(revs, rec) /\ Len(revs) < MaxRevisions
    BY DEF Build, Room
  <1>8. Len(revs) + 1 \in Revision'
    <2>1. revs \in Seq(Revisions) /\ Len(revs) \in Nat
      BY RevisionTypes DEF TypeOK
    <2> HIDE DEF rec
    <2>2. QED
      BY <1>7, <2>1 DEF Revision
  <1>9. Continue(d, kind, "upload", B, chosen, Len(revs) + 1)
    BY DEF Build
  <1> HIDE DEF rec
  <1>10. kind \in Building \cup {"pull"} /\ kind # "pull"
    BY DEF Building
  <1>11. QED
    BY <1>6, <1>7, <1>8, <1>9, <1>10, ContinueTypes

(* The decisions of an idle device keep the types.                         *)
LEMMA DecisionTypes ==
  ASSUME TypeOK, OperationInv, NEW d \in Device, pc[d] = "idle",
         NEW H \in Reads(d, base[d]), NEW B, B = Maximal(H),
         \/ UpToDate(d, B) \/ push(d, H, B) \/ pull(d, B)
         \/ keepLocal(d, H, B) \/ keepCloud(d, H, B)
         \/ LegacyMigrated(d, B) \/ Offer(d, B)
  PROVE  TypeOK' /\ OperationInv'
  <1>1. H \subseteq Revision /\ B \subseteq Revision /\ content[d] \in 0 .. MaxEdits
    BY PreviousType, ReadsTypes DEF Maximal, TypeOK
  <1> \A kind \in {"push", "keepLocal", "keepCloud"} : kind \in Building /\ previous_clock(d, kind) = base[d]
    BY DEF Building, previous_clock
  <1>2. ASSUME NEW r \in B
        PROVE  /\ r \in Revision /\ Content(r) \in 0 .. MaxEdits
               /\ revs[r].history \in SUBSET (1 .. MaxEdits)
    <2>1. r \in Revision /\ r # 0
      BY <1>1, RevisionTypes
    <2>2. QED
      BY <2>1, RevisionTypes DEF Hist
  <1>3. CASE UpToDate(d, B)
    <2>1. PICK r \in B :
            /\ base' = [base EXCEPT ![d] = r]
            /\ history' = [history EXCEPT ![d] = @ \cup revs[r].history]
      BY <1>3 DEF UpToDate
    <2>2. /\ UNCHANGED <<edits, content, revs, remote, pc, op, control>>
          /\ shown' = [shown EXCEPT ![d] = {}]
      BY <1>3 DEF UpToDate, complete_job
    <2>3. Revision' = Revision /\ Revisions' = Revisions
      BY <2>2 DEF Revision, Revisions, Clocks
    <2>4. base' \in [Device -> Revision \cup {0}]
      BY <1>2, <2>1 DEF TypeOK
    <2>5. history' \in [Device -> SUBSET (1 .. MaxEdits)]
      BY <1>2, <2>1 DEF TypeOK
    <2>6. TypeOK'
      BY <2>2, <2>3, <2>4, <2>5 DEF TypeOK, remote
    <2>7. OperationInv'
      BY <2>2, <2>3 DEF OperationInv
    <2>8. QED
      BY <2>6, <2>7
  <1>4. CASE push(d, H, B)
    <2>1. Room /\ Build(d, "push", H, B, content[d], 0, {r \in B : Content(r) = 0})
      BY <1>4 DEF push
    <2>2. QED
      BY <1>1, <2>1, BuildTypes
  <1>5. CASE pull(d, B)
    <2>1. PICK r \in B : Continue(d, "pull", "apply", B, 0, r)
      BY <1>5 DEF pull
    <2>2. revs' = revs /\ r \in Revision' /\ B \subseteq Revision
      BY <1>1, <1>2, <1>5 DEF pull, Revision
    <2>3. QED
      BY <2>1, <2>2, ContinueTypes DEF Pull, Building
  <1>6. CASE keepLocal(d, H, B)
    <2>1. Room /\ Build(d, "keepLocal", H, B, content[d], 0, B)
      BY <1>6 DEF keepLocal
    <2>2. QED
      BY <1>1, <2>1, BuildTypes
  <1>7. CASE keepCloud(d, H, B)
    <2>1. PICK r \in B :
            \/ Room /\ Build(d, "keepCloud", H, B, Content(r), r, B)
            \/ Continue(d, "keepCloud", "apply", B, r, r) /\ revs' = revs
      BY <1>7 DEF keepCloud
    <2>2. CASE Room /\ Build(d, "keepCloud", H, B, Content(r), r, B)
      BY <1>1, <1>2, <2>2, BuildTypes
    <2>3. CASE Continue(d, "keepCloud", "apply", B, r, r) /\ revs' = revs
      <3>1. r \in Revision' /\ B \subseteq Revision /\ r \in Revision
        BY <1>1, <1>2, <2>3 DEF Revision
      <3>2. QED
        BY <2>3, <3>1, ContinueTypes DEF Pull, Building
    <2>4. QED
      BY <2>1, <2>2, <2>3
  <1>8. CASE LegacyMigrated(d, B)
    <2>1. /\ snapshots' \subseteq snapshots \cup B
          /\ UNCHANGED <<local, revs, heads, past, latest, pc, op, control>>
      BY <1>8 DEF LegacyMigrated
    <2>2. Revision' = Revision /\ Revisions' = Revisions
      BY <2>1 DEF Revision, Revisions, Clocks
    <2>3. TypeOK'
      BY <1>1, <2>1, <2>2 DEF TypeOK, local
    <2>4. OperationInv'
      BY <2>1, <2>2 DEF OperationInv
    <2>5. QED
      BY <2>3, <2>4
  <1>9. CASE Offer(d, B)
    <2>1. /\ UNCHANGED <<edits, content, history, base, revs, remote, pc, op, control>>
          /\ shown' = [shown EXCEPT ![d] = B]
      BY <1>9 DEF Offer
    <2>2. Revision' = Revision /\ Revisions' = Revisions
      BY <2>1 DEF Revision, Revisions, Clocks
    <2>3. TypeOK'
      BY <1>1, <2>1, <2>2 DEF TypeOK, remote
    <2>4. OperationInv'
      BY <2>1, <2>2 DEF OperationInv
    <2>5. QED
      BY <2>3, <2>4
  <1>10. QED
    BY <1>3, <1>4, <1>5, <1>6, <1>7, <1>8, <1>9

(* A recovery keeps the types.                                             *)
LEMMA RecoverTypes ==
  ASSUME TypeOK, OperationInv, NEW d \in Device, NEW H \in Reads(d, 0), recover(d, H)
  PROVE  TypeOK' /\ OperationInv'
  <1>1. PICK current \in Published :
          Room /\ Build(d, "recover", H, {latest} \ {0}, Content(current), 0, shown[d] \cup {current})
    BY DEF recover, Copies
  <1>2. "recover" \in Building /\ previous_clock(d, "recover") = 0
    BY DEF Building, previous_clock
  <1>3. current \in Revision /\ Content(current) \in 0 .. MaxEdits
    <2>1. current \in Revision
      BY DEF TypeOK, Published
    <2>2. QED
      BY <2>1, RevisionTypes
  <1>4. {latest} \ {0} \in SUBSET Revision /\ shown[d] \cup {current} \in SUBSET Revision
    BY <1>3 DEF TypeOK
  <1>5. QED
    BY <1>1, <1>2, <1>3, <1>4, BuildTypes

(* Every step keeps the types.                                             *)
LEMMA TypeStep ==
  ASSUME TypeOK, OperationInv, NEW d \in Device, Step(d)
  PROVE  TypeOK' /\ OperationInv'
  <1>1. CASE pc[d] = "idle" /\ \E H \in Reads(d, base[d]) :
               \E B \in {Maximal(H)} :
               UpToDate(d, B) \/ push(d, H, B) \/ pull(d, B)
                 \/ keepLocal(d, H, B) \/ keepCloud(d, H, B)
                 \/ LegacyMigrated(d, B) \/ Offer(d, B)
    BY <1>1, DecisionTypes
  <1>2. CASE pc[d] = "idle" /\ shown[d] # {} /\ \E H \in Reads(d, 0) : recover(d, H)
    BY <1>2, RecoverTypes
  <1>3. CASE revs' = revs
    <2>1. Revision' = Revision /\ Revisions' = Revisions /\ Len(revs) \in Nat
      BY <1>3, RevisionTypes DEF Revision, Revisions, Clocks
    <2> DEFINE OpType == [kind : Kind, local : 0 .. MaxEdits,
                          latest : Revision \cup {0}, observed : SUBSET Revision,
                          chosen : Revision \cup {0}, rev : Revision \cup {0}]
    <2>2. NoOp \in OpType
      BY SyncAssumption DEF NoOp, Kind, Push
    <2>3. ASSUME End(d)
          PROVE  /\ pc' \in [Device -> Label] /\ op' \in [Device -> OpType]
                 /\ control' \in [Device -> {"preparing", "cancelled", "committing"}]
                 /\ OperationInv'
      <3>1. /\ pc' \in [Device -> Label] /\ op' \in [Device -> OpType]
            /\ control' \in [Device -> {"preparing", "cancelled", "committing"}]
        BY <2>2, <2>3 DEF End, Goto, TypeOK, Label
      <3>2. /\ pc'[d] = "idle" /\ control'[d] = "preparing"
            /\ \A e \in Device \ {d} :
                 pc'[e] = pc[e] /\ op'[e] = op[e] /\ control'[e] = control[e]
        BY <2>3 DEF End, Goto, TypeOK
      <3>3. OperationInv'
        BY <2>1, <3>2 DEF OperationInv, Staging
      <3>4. QED
        BY <3>1, <3>3
    <2>4. CASE Edit(d)
      <3>1. edits \in Nat /\ edits + 1 \in 1 .. MaxEdits
        BY <2>4, SyncAssumption DEF Edit, TypeOK
      <3>2. TypeOK'
        BY <2>1, <2>4, <3>1 DEF Edit, TypeOK, remote
      <3>3. OperationInv'
        BY <2>1, <2>4 DEF Edit, OperationInv
      <3>4. QED
        BY <3>2, <3>3
    <2>5. CASE Wipe(d)
      <3>1. edits \in Nat /\ edits + 1 \in 1 .. MaxEdits
        BY <2>5, SyncAssumption DEF Wipe, TypeOK
      <3>2. TypeOK'
        BY <2>1, <2>5, <3>1, SyncAssumption DEF Wipe, TypeOK, remote
      <3>3. OperationInv'
        BY <2>1, <2>5 DEF Wipe, OperationInv
      <3>4. QED
        BY <3>2, <3>3
    <2>6. CASE upload(d)
      <3>1. op[d].rev \in Revision
        BY <2>6 DEF upload, OperationInv, Staging
      <3>2. TypeOK'
        <4>1. op' \in [Device -> OpType]
          <5>1. op[d] \in OpType
            BY DEF TypeOK
          <5>2. op' \in {op, [op EXCEPT ![d] = [@ EXCEPT !.observed = {}]]}
            BY <2>6 DEF upload
          <5>3. [op[d] EXCEPT !.observed = {}] \in OpType
            BY <5>1
          <5>4. QED
            BY <5>2, <5>3 DEF TypeOK
        <4>2. pc' \in [Device -> Label]
          BY <2>6 DEF upload, Goto, TypeOK, Label
        <4>3. QED
          BY <2>1, <2>6, <3>1, <4>1, <4>2 DEF upload, TypeOK, local
      <3>3. OperationInv'
        BY <2>1, <2>6, <3>1 DEF upload, Goto, TypeOK, OperationInv, Staging
      <3>4. QED
        BY <3>2, <3>3
    <2>7. CASE ensure_remote_head_unchanged(d)
      <3>1. TypeOK'
        BY <2>1, <2>7 DEF ensure_remote_head_unchanged, Goto, TypeOK, Label, local, remote
      <3>2. OperationInv'
        BY <2>1, <2>7 DEF ensure_remote_head_unchanged, Goto, TypeOK, OperationInv, Staging
      <3>3. QED
        BY <3>1, <3>2
    <2>8. CASE BeginCommit(d)
      <3>1. TypeOK'
        BY <2>1, <2>8 DEF BeginCommit, begin_commit, Goto, TypeOK, Label, local, remote
      <3>2. OperationInv'
        BY <2>1, <2>8 DEF BeginCommit, begin_commit, Goto, TypeOK, OperationInv, Staging
      <3>3. QED
        BY <3>1, <3>2
    <2>9. CASE validate(d)
      <3>1. TypeOK'
        BY <2>1, <2>9 DEF validate, Goto, TypeOK, Label, local, remote
      <3>2. OperationInv'
        BY <2>1, <2>9 DEF validate, Goto, TypeOK, OperationInv, Staging
      <3>3. QED
        BY <3>1, <3>2
    <2>10. CASE publish(d)
      <3>1. op[d].rev \in Revision
        BY <2>10 DEF publish, OperationInv, Staging
      <3>2. TypeOK'
        <4>1. op' \in [Device -> OpType]
          <5>1. op[d] \in OpType
            BY DEF TypeOK
          <5>2. op' = [op EXCEPT ![d] = [@ EXCEPT !.latest = 0, !.observed = {}, !.chosen = 0]]
            BY <2>10 DEF publish
          <5>3. [op[d] EXCEPT !.latest = 0, !.observed = {}, !.chosen = 0] \in OpType
            BY <5>1
          <5>4. QED
            BY <5>2, <5>3 DEF TypeOK
        <4>2. pc' \in [Device -> Label]
          BY <2>10 DEF publish, Goto, TypeOK, Label
        <4>3. heads' \in [Device -> Revision \cup {0}] /\ past' \in [Device -> SUBSET Revision]
          BY <2>10, <3>1 DEF publish, TypeOK
        <4>4. QED
          BY <2>1, <2>10, <4>1, <4>2, <4>3 DEF publish, TypeOK, local
      <3>3. OperationInv'
        <4>1. /\ op'[d].rev = op[d].rev /\ op'[d].kind = op[d].kind /\ pc'[d] = "pointer"
              /\ \A e \in Device \ {d} : op'[e] = op[e] /\ pc'[e] = pc[e]
              /\ control' = control
          BY <2>10 DEF publish, Goto, TypeOK
        <4>2. pc[d] = "publish"
          BY <2>10 DEF publish
        <4>3. QED
          BY <2>1, <3>1, <4>1, <4>2 DEF OperationInv, Staging
      <3>4. QED
        BY <3>2, <3>3
    <2>11. CASE write_sync_pointer(d)
      <3>1. op[d].rev \in Revision /\ op[d].kind \in Building
        BY <2>11 DEF write_sync_pointer, OperationInv, Staging
      <3>2. TypeOK'
        BY <2>1, <2>11, <3>1 DEF write_sync_pointer, Goto, TypeOK, Label, local
      <3>3. OperationInv'
        BY <2>1, <2>11, <3>1 DEF write_sync_pointer, Goto, TypeOK, OperationInv, Staging, Push, Pull, Building
      <3>4. QED
        BY <3>2, <3>3
    <2>12. CASE record(d)
      <3>1. op[d].rev \in Revision
        BY <2>12 DEF record, OperationInv, Staging
      <3>2. revs[op[d].rev].history \in SUBSET (1 .. MaxEdits)
        BY <3>1, RevisionTypes DEF Hist
      <3>3. QED
        BY <2>1, <2>3, <2>12, <3>1, <3>2 DEF record, complete_job, TypeOK, remote
    <2>13. CASE apply_sync_snapshot_checked(d)
      <3>1. op[d].rev \in Revision
        BY <2>13 DEF apply_sync_snapshot_checked, OperationInv, Staging
      <3>2. revs[op[d].rev].history \in SUBSET (1 .. MaxEdits) /\ Content(op[d].rev) \in 0 .. MaxEdits
        BY <3>1, RevisionTypes DEF Hist
      <3>3. QED
        BY <2>1, <2>3, <2>13, <3>1, <3>2 DEF apply_sync_snapshot_checked, complete_job, TypeOK,
           remote
    <2>14. CASE GcPlan(d)
      <3>1. PICK r \in snapshots : op' = [op EXCEPT ![d] = [NoOp EXCEPT !.kind = "gc", !.rev = r]]
        BY <2>14 DEF GcPlan, Garbage
      <3>2. [NoOp EXCEPT !.kind = "gc", !.rev = r] \in OpType
        <4>1. r \in Revision
          BY DEF TypeOK
        <4>2. QED
          BY <2>2, <4>1 DEF Kind
      <3>3. TypeOK'
        BY <2>1, <2>14, <3>1, <3>2 DEF GcPlan, Goto, TypeOK, Label, local, remote
      <3>4. OperationInv'
        BY <2>1, <2>14, <3>1 DEF GcPlan, Goto, TypeOK, OperationInv, Staging
      <3>5. QED
        BY <3>3, <3>4
    <2>15. CASE GcDelete(d)
      BY <2>1, <2>3, <2>15 DEF GcDelete, TypeOK, local
    <2>16. CASE reserve_snapshot_capacity(d)
      <3>1. /\ snapshots' \subseteq snapshots
            /\ UNCHANGED <<local, revs, heads, past, latest, pc, op, control>>
        BY <2>16 DEF reserve_snapshot_capacity
      <3>2. TypeOK'
        BY <2>1, <3>1 DEF TypeOK, local
      <3>3. OperationInv'
        BY <2>1, <3>1 DEF OperationInv
      <3>4. QED
        BY <3>2, <3>3
    <2>17. CASE request_cancel(d)
      <3>1. TypeOK'
        BY <2>1, <2>17 DEF request_cancel, TypeOK, local, remote
      <3>2. OperationInv'
        <4>1. /\ pc[d] \notin {"idle", "delete", "validate", "publish", "pointer", "record"}
              /\ \A e \in Device \ {d} : control'[e] = control[e]
          BY <2>17 DEF request_cancel, TypeOK, OperationInv
        <4>2. UNCHANGED <<pc, op>>
          BY <2>17 DEF request_cancel
        <4>3. QED
          BY <2>1, <4>1, <4>2 DEF OperationInv
      <3>3. QED
        BY <3>1, <3>2
    <2>18. CASE Fail(d)
      BY <2>1, <2>3, <2>18 DEF Fail, TypeOK, local, remote
    <2>19. QED
      BY <1>1, <1>2, <2>4, <2>5, <2>6, <2>7, <2>8, <2>9, <2>10, <2>11, <2>12, <2>13,
         <2>14, <2>15, <2>16, <2>17, <2>18 DEF Step
  <1>4. QED
    <2>1. \/ revs' = revs
          \/ pc[d] = "idle" /\ shown[d] # {} /\ \E H \in Reads(d, 0) : recover(d, H)
          \/ pc[d] = "idle" /\ \E H \in Reads(d, base[d]) :
               \E B \in {Maximal(H)} :
               UpToDate(d, B) \/ push(d, H, B) \/ pull(d, B)
                 \/ keepLocal(d, H, B) \/ keepCloud(d, H, B)
                 \/ LegacyMigrated(d, B) \/ Offer(d, B)
      BY DEF Step, Edit, Wipe, upload, ensure_remote_head_unchanged, BeginCommit, validate,
         publish, write_sync_pointer, record, apply_sync_snapshot_checked, GcPlan,
         GcDelete, reserve_snapshot_capacity, request_cancel, Fail
    <2>2. QED
      BY <1>1, <1>2, <1>3, <2>1

LEMMA TypeInit ==
  ASSUME Init
  PROVE  TypeOK /\ OperationInv
  <1>1. Revision = {} /\ revs \in Seq(Revisions) /\ Len(revs) = 0
    BY DEF Init, Revision
  <1>2. TypeOK
    BY <1>1, SyncAssumption DEF Init, TypeOK, NoOp, Kind, Push, Label
  <1>3. OperationInv
    BY DEF Init, OperationInv, Staging
  <1>4. QED
    BY <1>2, <1>3

LEMMA TypeInvariant == Spec => [](TypeOK /\ OperationInv)
  <1>1. ASSUME TypeOK, OperationInv, [Next]_vars
        PROVE  TypeOK' /\ OperationInv'
    <2>1. CASE Next
      BY <1>1, <2>1, TypeStep DEF Next
    <2>2. CASE UNCHANGED vars
      <3>1. Revision' = Revision /\ Revisions' = Revisions
        BY <2>2 DEF vars, Revision, Revisions, Clocks
      <3>2. TypeOK'
        BY <1>1, <2>2, <3>1 DEF TypeOK, vars, local, remote
      <3>3. OperationInv'
        BY <1>1, <2>2, <3>1 DEF OperationInv, vars
      <3>4. QED
        BY <3>2, <3>3
    <2>3. QED
      BY <1>1, <2>1, <2>2
  <1>2. QED
    BY <1>1, TypeInit, PTL DEF Spec

(* Every variable keeps its type, and every revision that one names was    *)
(* built, whatever the listings omit.                                      *)
THEOREM TypeCorrect == Spec => []TypeOK
  BY TypeInvariant, PTL

(* What a step may do to a device whose operation was cancelled.           *)
LEMMA CancelStep ==
  ASSUME TypeOK, OperationInv, NEW e \in Device, Step(e),
         NEW d \in Device, control[d] = "cancelled"
  PROVE  /\ heads'[d] = heads[d] /\ base'[d] = base[d]
         /\ content'[d] \in {content[d], edits', 0}
  <1>1. pc[d] \in {"upload", "check", "commit", "apply"}
    BY DEF OperationInv, TypeOK, Label
  <1>2. CASE Edit(e) \/ Wipe(e)
    BY <1>2 DEF Edit, Wipe, TypeOK, remote
  <1>3. CASE pc[e] = "idle" /\ \E H \in Reads(e, base[e]) :
               \E B \in {Maximal(H)} :
               UpToDate(e, B) \/ push(e, H, B) \/ pull(e, B)
                 \/ keepLocal(e, H, B) \/ keepCloud(e, H, B)
                 \/ LegacyMigrated(e, B) \/ Offer(e, B)
    <2>1. e # d /\ content' = content /\ heads' = heads
      BY <1>1, <1>3 DEF UpToDate, push, pull, keepLocal, keepCloud, LegacyMigrated, Offer,
         Build, Continue, local, remote
    <2>2. base'[d] = base[d]
      BY <1>3, <2>1 DEF UpToDate, push, pull, keepLocal, keepCloud, LegacyMigrated, Offer,
         Build, Continue, local, TypeOK
    <2>3. QED
      BY <2>1, <2>2
  <1>4. CASE publish(e) \/ record(e) \/ apply_sync_snapshot_checked(e)
    <2>1. e # d
      BY <1>1, <1>4 DEF publish, record, apply_sync_snapshot_checked, checkpoint
    <2>2. QED
      BY <1>4, <2>1 DEF publish, record, apply_sync_snapshot_checked, local, remote, TypeOK
  <1>5. CASE \/ upload(e) \/ ensure_remote_head_unchanged(e) \/ BeginCommit(e) \/ validate(e)
             \/ write_sync_pointer(e) \/ GcPlan(e) \/ GcDelete(e)
             \/ reserve_snapshot_capacity(e) \/ request_cancel(e) \/ Fail(e)
    BY <1>5 DEF upload, ensure_remote_head_unchanged, BeginCommit, validate, write_sync_pointer,
       GcPlan, GcDelete, reserve_snapshot_capacity, request_cancel, Fail, local, remote
  <1>6. CASE pc[e] = "idle" /\ shown[e] # {} /\ \E H \in Reads(e, 0) : recover(e, H)
    BY <1>6 DEF recover, Build, Continue, local, remote
  <1>7. QED
    BY <1>2, <1>3, <1>4, <1>5, <1>6 DEF Step

(* Once an operation is cancelled it publishes nothing, moves no baseline  *)
(* and replaces no local content: the compare-and-swap of the control      *)
(* decides, whatever the other devices do.                                 *)
THEOREM CancellationIsFinal == Spec => CancelIsFinal
  <1>1. ASSUME TypeOK, OperationInv, [Next]_vars
        PROVE  [\A d \in Device :
                  control[d] = "cancelled" =>
                    /\ heads'[d] = heads[d] /\ base'[d] = base[d]
                    /\ content'[d] \in {content[d], edits', 0}]_vars
    BY <1>1, CancelStep DEF Next
  <1>2. QED
    BY <1>1, TypeInvariant, PTL DEF Spec, CancelIsFinal

-----------------------------------------------------------------------------
(* The causal order.                                                       *)

(* What is published was built, and each head is published.                *)
LEMMA PublishedTypes ==
  ASSUME TypeOK
  PROVE  /\ Published \subseteq Revision
         /\ \A d \in Device : past[d] \subseteq Published /\ heads[d] \in Revision \cup {0}
         /\ \A r \in Revision \cup {0} : \A x \in Device : Clock(r)[x] \in Nat
         /\ \A r \in Published \cup {0} : Lost(r) \subseteq Forgone
  <1>1. \A r \in Revision \cup {0} : \A x \in Device : Clock(r)[x] \in Nat
    BY RevisionTypes DEF Clocks
  <1>2. \A r \in Published \cup {0} : Lost(r) \subseteq Forgone
    BY DEF Lost, Forgone
  <1>3. /\ Published \subseteq Revision
        /\ \A d \in Device : past[d] \subseteq Published /\ heads[d] \in Revision \cup {0}
    BY DEF TypeOK, Published
  <1>4. QED
    BY <1>1, <1>2, <1>3

(* What recoveries passed over stays passed over.                          *)
LEMMA ForgoneKept ==
  ASSUME TypeOK, revs' = revs \/ \E rec : revs' = Append(revs, rec),
         \A d \in Device : past[d] \subseteq past'[d]
  PROVE  /\ Forgone \subseteq Forgone'
         /\ past' = past => Forgone' = Forgone
  <1>1. /\ Published \subseteq Revision
        /\ \A r \in Revision : revs'[r] = revs[r]
    <2>1. revs \in Seq(Revisions) /\ Len(revs) \in Nat
      BY RevisionTypes DEF TypeOK
    <2>2. QED
      BY <2>1, PublishedTypes DEF Revision
  <1>2. Published \subseteq Published'
    BY DEF Published
  <1>3. Forgone \subseteq Forgone'
    BY <1>1, <1>2 DEF Forgone
  <1>4. ASSUME past' = past PROVE Forgone' = Forgone
    <2>1. Published' = Published
      BY <1>4 DEF Published
    <2>2. QED
      BY <1>1, <2>1 DEF Forgone
  <1>5. QED
    BY <1>3, <1>4

(* An action that builds and publishes nothing keeps the order.            *)
LEMMA OrderKept ==
  ASSUME CommitInv, StagedInv, CausalInv, CountersNameCommits,
         UNCHANGED <<revs, heads, past>>,
         \A d \in Device : pc'[d] \in Staging => pc[d] \in Staging /\ op'[d].rev = op[d].rev
  PROVE  CommitInv' /\ StagedInv' /\ CausalInv' /\ CountersNameCommits'
  <1>1. /\ Published' = Published
        /\ \A r : Clock(r)' = Clock(r) /\ Hist(r)' = Hist(r) /\ Lost(r)' = Lost(r)
        /\ Forgone' = Forgone
        /\ \A r, s : Covers(r, s)' = Covers(r, s)
    BY DEF Published, Clock, Hist, Lost, Forgone, Covers
  <1>2. Staged' \subseteq Staged /\ \A d \in Staged' : op'[d].rev = op[d].rev
    BY DEF Staged
  <1>3. CommitInv' /\ CountersNameCommits'
    BY <1>1 DEF CommitInv, CountersNameCommits
  <1>4. StagedInv'
    BY <1>1, <1>2 DEF StagedInv
  <1>5. CausalInv'
    BY <1>1, <1>2 DEF CausalInv
  <1>6. QED
    BY <1>3, <1>4, <1>5

\* The clock k of d covers the revisions J, exceeds what d published, and counts
\* no publication that neither J nor the heads count.
Follows(d, J, k) ==
  /\ \A h \in J : \A x \in Device : k[x] >= Clock(h)[x]
  /\ k[d] > Clock(heads[d])[d]
  /\ \A e \in Device \ {d} : Clock(heads[e])[e] >= k[e]
  /\ \A e \in Device : \A s \in past[e] :
       k[e] >= Clock(s)[e] => \E h \in J \ {0} : Clock(h)[e] >= Clock(s)[e]

(* The revision that d builds covers everything that d saw, and everything *)
(* that d published before, also when that was never recorded.             *)
LEMMA BuildCovers ==
  ASSUME SyncInv, ~StaleAfterUnrecorded, NEW d \in Device, NEW known \in {0, base[d]},
         NEW H \in Reads(d, known), NEW c, c = next_clock(d, known, H)
  PROVE  H \cup {known} \subseteq Published \cup {0} /\ Follows(d, H \cup {known}, c)
  <1> DEFINE J == H \cup {known}
  <1>1. TypeOK /\ NamedInv /\ CommitInv
    BY DEF SyncInv
  <1>2. IsFiniteSet(H) /\ H \subseteq Published /\ (Unrecorded(d, known) => heads[d] \in H)
    <2>1. known \in Revision \cup {0}
      BY <1>1 DEF TypeOK
    <2>2. QED
      BY <1>1, <2>1, ReadsTypes DEF NamedInv, NamedBy
  <1>3. J \subseteq Published \cup {0}
    BY <1>1, <1>2 DEF NamedInv, NamedBy
  <1>4. \A h \in J : Clock(h) \in Clocks /\ \A x \in Device : Clock(h)[x] \in Nat
    <2>1. J \subseteq Revision \cup {0}
      BY <1>1, <1>3, PublishedTypes
    <2>2. QED
      BY <1>1, <2>1, RevisionTypes DEF Clocks
  <1>5. /\ \A x \in Device : c[x] \in Nat
        /\ \A x \in Device : \E h \in J : c[x] = Clock(h)[x] + (IF x = d THEN 1 ELSE 0)
        /\ \A x \in Device : \A h \in J : c[x] >= Clock(h)[x] + (IF x = d THEN 1 ELSE 0)
    BY <1>2, <1>4, NextClock DEF Clocks
  <1> HIDE DEF J
  <1>6. ASSUME NEW h \in J, NEW x \in Device PROVE c[x] >= Clock(h)[x]
    <2>1. c[x] >= Clock(h)[x] + (IF x = d THEN 1 ELSE 0)
      BY <1>5
    <2>2. QED
      BY <1>4, <1>5, <2>1
  <1>7. \E h \in J : Clock(h)[d] >= Clock(heads[d])[d]
    <2>1. heads[d] \in J \/ Clock(known)[d] >= Clock(heads[d])[d]
      <3>1. Clock(heads[d])[d] \in Nat /\ Clock(known)[d] \in Nat
        BY <1>1, PublishedTypes DEF TypeOK
      <3>2. QED
        BY <1>2, <3>1 DEF Unrecorded, J
    <2>2. Clock(heads[d])[d] \in Nat
      BY <1>1, PublishedTypes
    <2>3. QED
      BY <2>1, <2>2 DEF J
  <1>8. c[d] > Clock(heads[d])[d]
    <2>1. PICK h \in J : Clock(h)[d] >= Clock(heads[d])[d]
      BY <1>7
    <2>2. c[d] >= Clock(h)[d] + 1
      BY <1>5
    <2>3. Clock(heads[d])[d] \in Nat
      BY <1>1, PublishedTypes
    <2>4. QED
      BY <1>4, <1>5, <2>1, <2>2, <2>3
  <1>9. ASSUME NEW h \in J, NEW e \in Device PROVE Clock(heads[e])[e] >= Clock(h)[e]
    <2>1. CASE h = 0
      <3>1. Clock(h)[e] = 0 /\ Clock(heads[e])[e] \in Nat
        BY <1>1, <2>1, PublishedTypes DEF Clock
      <3>2. QED
        BY <3>1
    <2>2. CASE h \in Published
      BY <1>1, <2>2 DEF CommitInv
    <2>3. QED
      BY <1>3, <2>1, <2>2
  <1>10. ASSUME NEW e \in Device \ {d} PROVE Clock(heads[e])[e] >= c[e]
    <2>1. PICK h \in J : c[e] = Clock(h)[e] + 0
      BY <1>5
    <2>2. c[e] = Clock(h)[e]
      BY <1>4, <2>1
    <2>3. QED
      BY <1>9, <2>2
  <1>11. ASSUME NEW e \in Device, NEW s \in past[e], c[e] >= Clock(s)[e]
         PROVE  \E h \in J \ {0} : Clock(h)[e] >= Clock(s)[e]
    <2>1. Clock(s)[e] \in Nat /\ Clock(s)[e] > 0 /\ Clock(heads[e])[e] >= Clock(s)[e]
          /\ Clock(heads[e])[e] \in Nat
      <3>1. s \in Published /\ s \in Revision
        BY <1>1, PublishedTypes
      <3>2. QED
        BY <1>1, <3>1, PublishedTypes DEF CommitInv
    <2>2. \E h \in J : Clock(h)[e] >= Clock(s)[e]
      <3>1. CASE e = d
        BY <1>4, <1>7, <2>1, <3>1
      <3>2. CASE e # d
        <4>1. PICK h \in J : c[e] = Clock(h)[e] + 0
          BY <1>5, <3>2
        <4>2. QED
          BY <1>4, <1>11, <4>1
      <3>3. QED
        BY <3>1, <3>2
    <2>3. PICK h \in J : Clock(h)[e] >= Clock(s)[e]
      BY <2>2
    <2>4. h # 0
      <3>1. Clock(0)[e] = 0
        BY DEF Clock
      <3>2. QED
        BY <2>1, <2>3, <3>1
    <2>5. QED
      BY <2>3, <2>4
  <1>12. QED
    BY <1>3, <1>6, <1>8, <1>10, <1>11 DEF J, Follows

(* A revision that replaces the branches R knows the history of everything *)
(* that d saw: of the branches, of its baseline, and of what those         *)
(* supersede, up to what recoveries passed over.                           *)
LEMMA BuildKnows ==
  ASSUME SyncInv, NEW d \in Device, NEW H \in Reads(d, base[d]),
         NEW R, \A m \in Maximal(H) : m \in R \/ m = base[d],
         NEW h \in H \cup {base[d]}
  PROVE  Hist(h) \subseteq history[d] \cup Held(R) \cup Forgone
  <1> DEFINE y == history[d] \cup Held(R)
  <1>1. TypeOK /\ NamedInv /\ CausalInv /\ HistoryInv
    BY DEF SyncInv
  <1>2. IsFiniteSet(H) /\ H \subseteq Published /\ H \subseteq Revision /\ 0 \notin H
    BY <1>1, PreviousType, ReadsTypes, RevisionTypes DEF NamedInv, NamedBy
  <1>3. Hist(base[d]) \subseteq history[d] \cup Forgone
    BY <1>1 DEF HistoryInv, KnownBy
  <1>4. history[d] \subseteq y /\ \A m \in R : m # 0 => Hist(m) \subseteq y
    BY DEF Hist, Held
  <1> SUFFICES Hist(h) \subseteq y \cup Forgone
    OBVIOUS
  <1> HIDE DEF y
  <1>5. CASE h = base[d]
    BY <1>3, <1>4, <1>5
  <1>6. CASE h \in H
    <2>1. PICK m \in Maximal(H) : Covers(m, h)
      BY <1>1, <1>2, <1>6, RevisionTypes, MaximalCovers
    <2>2. m \in H /\ m \in Published /\ m # 0
      BY <1>2 DEF Maximal
    <2>3. PICK e \in Device : h \in past[e]
      BY <1>2, <1>6 DEF Published
    <2>4. Hist(h) \subseteq Hist(m) \cup Forgone
      <3>1. Hist(h) \subseteq Hist(m) \cup Lost(m) \cup Forgone
        BY <1>1, <2>1, <2>2, <2>3 DEF CausalInv, Covers
      <3>2. Lost(m) \subseteq Forgone
        BY <1>1, <2>2, PublishedTypes
      <3>3. QED
        BY <3>1, <3>2
    <2>5. Hist(m) \subseteq y \cup Forgone
      <3>1. CASE m \in R
        BY <1>4, <2>2, <3>1
      <3>2. CASE m = base[d]
        BY <1>3, <1>4, <3>2
      <3>3. QED
        BY <3>1, <3>2
    <2>6. QED
      BY <2>4, <2>5
  <1>7. QED
    BY <1>5, <1>6

(* Building a revision keeps the order: the edits of what the new clock    *)
(* follows are held by the revision, or it is a recovery and passes over   *)
(* them.                                                                   *)
LEMMA BuildOrder ==
  ASSUME SyncInv, ~StaleAfterUnrecorded, NEW d \in Device, NEW kind \in Building,
         NEW H \in Reads(d, previous_clock(d, kind)), NEW R,
         kind # "recover" => \A m \in Maximal(H) : m \in R \/ m = base[d],
         NEW B, NEW c, NEW chosen, Build(d, kind, H, B, c, chosen, R)
  PROVE  /\ CommitInv' /\ StagedInv' /\ CausalInv' /\ CountersNameCommits'
         /\ Forgone' = Forgone
         /\ Hist(base[d])' \subseteq Hist(op[d].rev)' \cup Forgone
         /\ Hist(op[d].rev)' = history[d] \cup Held(R)
  <1> DEFINE y == history[d] \cup Held(R)
             lost == IF kind = "recover" THEN Held(H) \ y ELSE {}
  <1>0. PICK n, known, k : /\ n = Len(revs) + 1
                          /\ known = previous_clock(d, kind) /\ k = next_clock(d, known, H)
    OBVIOUS
  <1>1. TypeOK /\ CommitInv /\ StagedInv /\ CausalInv /\ CountersNameCommits /\ OperationInv
        /\ NamedInv /\ HistoryInv
    BY DEF SyncInv
  <1>2. /\ revs' = Append(revs, [dev |-> d, content |-> c, history |-> y, forgone |-> lost,
                                 clock |-> k])
        /\ op'[d].rev = n /\ pc'[d] = "upload"
        /\ \A e \in Device \ {d} : op'[e] = op[e] /\ pc'[e] = pc[e]
        /\ UNCHANGED <<heads, past, base>>
    <2>1. revs' = Append(revs, NewRevision(d, kind, H, c, R))
      BY DEF Build
    <2>2. NewRevision(d, kind, H, c, R) =
            [dev |-> d, content |-> c, history |-> y, forgone |-> lost, clock |-> k]
      BY <1>0 DEF NewRevision
    <2>3. Continue(d, kind, "upload", B, chosen, n)
      BY <1>0 DEF Build
    <2>4. op'[d].rev = n /\ \A e \in Device \ {d} : op'[e] = op[e]
      BY <1>1, <2>3 DEF Continue, TypeOK
    <2>5. pc'[d] = "upload" /\ \A e \in Device \ {d} : pc'[e] = pc[e]
      BY <1>1, <2>3 DEF Continue, Goto, TypeOK
    <2>6. UNCHANGED <<heads, past, base>>
      BY <2>3 DEF Continue, local, remote
    <2>7. QED
      BY <2>1, <2>2, <2>4, <2>5, <2>6
  <1>3. /\ \A r \in Revision \cup {0} :
             Clock(r)' = Clock(r) /\ Hist(r)' = Hist(r) /\ Lost(r)' = Lost(r)
        /\ Forgone' = Forgone
    <2>1. \E rec : revs' = Append(revs, rec)
      BY <1>2
    <2>2. QED
      BY <1>1, <1>2, <2>1, RevisionsKept, ForgoneKept
  <1>4. Clock(n)' = k /\ Hist(n)' = y /\ Lost(n)' = lost
    <2>1. revs \in Seq(Revisions) /\ Len(revs) \in Nat
      BY <1>1, RevisionTypes DEF TypeOK
    <2> HIDE DEF y, lost
    <2>2. /\ revs'[n] = [dev |-> d, content |-> c, history |-> y, forgone |-> lost, clock |-> k]
          /\ n # 0
      BY <1>0, <1>2, <2>1
    <2>3. QED
      BY <2>2 DEF Clock, Hist, Lost
  <1>5. /\ known \in {0, base[d]} /\ known \in Revision \cup {0} /\ H \in Reads(d, known)
        /\ kind # "recover" => known = base[d]
        /\ kind = "recover" => known = 0
    BY <1>0, <1>1, PreviousType DEF previous_clock
  <1>6. /\ H \cup {known} \subseteq Published \cup {0}
        /\ \A h \in H \cup {known} : \A x \in Device : k[x] >= Clock(h)[x]
        /\ k[d] > Clock(heads[d])[d]
        /\ \A e \in Device \ {d} : Clock(heads[e])[e] >= k[e]
        /\ \A e \in Device : \A s \in past[e] :
             k[e] >= Clock(s)[e] =>
               \E h \in (H \cup {known}) \ {0} : Clock(h)[e] >= Clock(s)[e]
    <2>1. known \in {0, base[d]} /\ H \in Reads(d, known) /\ k = next_clock(d, known, H)
      BY <1>0, <1>5
    <2>2. H \cup {known} \subseteq Published \cup {0} /\ Follows(d, H \cup {known}, k)
      BY <2>1, BuildCovers
    <2>3. QED
      BY <2>2 DEF Follows
  <1>7. \A h \in H \cup {known} : Hist(h) \subseteq y \cup lost \cup Forgone
    <2>1. CASE kind # "recover"
      <3>1. H \in Reads(d, base[d]) /\ \A m \in Maximal(H) : m \in R \/ m = base[d]
        BY <1>5, <2>1
      <3>2. \A h \in H \cup {base[d]} : Hist(h) \subseteq y \cup Forgone
        BY <3>1, BuildKnows
      <3> HIDE DEF y, lost
      <3>3. QED
        BY <1>5, <2>1, <3>2
    <2>2. CASE kind = "recover"
      <3>1. \A h \in H : Hist(h) \subseteq y \cup lost
        <4>1. \A h \in H : h # 0
          BY <1>1, <1>5, ReadsTypes, RevisionTypes
        <4>2. lost = Held(H) \ y
          BY <2>2
        <4>3. \A h \in H : Hist(h) \subseteq Held(H)
          BY <4>1 DEF Hist, Held
        <4> HIDE DEF y, lost
        <4>4. QED
          BY <4>2, <4>3
      <3>2. Hist(known) = {}
        BY <1>5, <2>2 DEF Hist
      <3>3. QED
        BY <3>1, <3>2
    <2>3. QED
      BY <2>1, <2>2
  <1>8. /\ \A x \in Device : k[x] \in Nat
        /\ Published \subseteq Revision /\ \A e \in Device : past[e] \subseteq Published
        /\ \A e \in Device : heads[e] \in Revision \cup {0}
        /\ \A r \in Revision \cup {0} : \A x \in Device : Clock(r)[x] \in Nat
        /\ \A r \in Published : Lost(r) \subseteq Forgone
    <2>1. IsFiniteSet(H) /\ H \subseteq Revision
      BY <1>1, <1>5, ReadsTypes
    <2>2. \A r \in H \cup {known} : Clock(r) \in Clocks
      BY <1>1, <1>5, <2>1, RevisionTypes
    <2>3. k \in Clocks
      BY <1>0, <2>1, <2>2, NextClock
    <2>4. QED
      BY <1>1, <2>3, PublishedTypes DEF Clocks
  <1> HIDE DEF y, lost
  <1>9. ASSUME NEW e \in Device, NEW s \in past[e], k[e] >= Clock(s)[e]
        PROVE  Hist(s) \subseteq y \cup lost \cup Forgone /\ \A x \in Device : k[x] >= Clock(s)[x]
    <2>1. PICK h \in (H \cup {known}) \ {0} : Clock(h)[e] >= Clock(s)[e]
      BY <1>6, <1>9
    <2>2. h \in Published /\ h \in Revision /\ s \in Revision
      BY <1>6, <1>8
    <2>3. Hist(s) \subseteq Hist(h) \cup Lost(h) \cup Forgone /\ Covers(h, s)
      BY <1>1, <2>1, <2>2 DEF CausalInv
    <2>4. \A x \in Device : k[x] >= Clock(h)[x] /\ Clock(h)[x] >= Clock(s)[x]
      BY <1>6, <2>3 DEF Covers
    <2>5. \A x \in Device : k[x] >= Clock(s)[x]
      BY <1>8, <2>2, <2>4
    <2>6. Lost(h) \subseteq Forgone /\ Hist(h) \subseteq y \cup lost \cup Forgone
      BY <1>7, <1>8, <2>2
    <2>7. QED
      BY <2>3, <2>5, <2>6
  <1>10. Published' = Published /\ Staged' = Staged \cup {d}
    BY <1>2 DEF Published, Staged, Staging
  <1>11. \A e \in Staged \ {d} : op[e].rev \in Revision
    BY <1>1 DEF OperationInv, Staged
  <1>12. CommitInv' /\ CountersNameCommits'
    BY <1>1, <1>2, <1>3, <1>8, <1>10 DEF CommitInv, CountersNameCommits
  <1>13. StagedInv'
    <2>1. ASSUME NEW e \in Staged'
          PROVE  /\ (Clock(op[e].rev)[e] > Clock(heads[e])[e])'
                 /\ \A f \in Device \ {e} : (Clock(heads[f])[f] >= Clock(op[e].rev)[f])'
      <3>1. CASE e = d
        BY <1>2, <1>3, <1>4, <1>6, <1>8, <3>1
      <3>2. CASE e # d
        <4>1. e \in Staged /\ e \in Device /\ op'[e] = op[e] /\ op[e].rev \in Revision
          BY <1>2, <1>10, <1>11, <3>2 DEF Staged
        <4>2. Clock(op[e].rev)' = Clock(op[e].rev)
          BY <1>3, <4>1 DEF Clock
        <4>3. \A f \in Device : Clock(heads[f])' = Clock(heads[f])
          BY <1>2, <1>3, <1>8 DEF Clock
        <4>4. QED
          BY <1>1, <4>1, <4>2, <4>3 DEF StagedInv
      <3>3. QED
        BY <3>1, <3>2
    <2>2. QED
      BY <2>1 DEF StagedInv
  <1>14. CausalInv'
    <2>1. ASSUME NEW r \in Published' \cup {op'[e].rev : e \in Staged'},
                 NEW e \in Device, NEW s \in past[e], Clock(r)'[e] >= Clock(s)'[e]
          PROVE  Hist(s)' \subseteq Hist(r)' \cup Lost(r)' \cup Forgone /\ Covers(r, s)'
      <3>1. s \in Revision /\ Clock(s)' = Clock(s) /\ Hist(s)' = Hist(s)
        BY <1>3, <1>8
      <3>2. CASE r = n
        BY <1>4, <1>9, <2>1, <3>1, <3>2 DEF Covers
      <3>3. CASE r # n
        <4>1. r \in Published \cup {op[f].rev : f \in Staged} /\ r \in Revision
          <5>1. CASE r \in Published'
            BY <1>8, <1>10, <5>1
          <5>2. CASE r \in {op'[f].rev : f \in Staged'}
            <6>1. PICK f \in Staged' : r = op'[f].rev
              BY <5>2
            <6>2. f \in Staged \ {d} /\ op'[f] = op[f]
              BY <1>2, <1>10, <3>3, <6>1 DEF Staged
            <6>3. QED
              BY <1>11, <6>1, <6>2
          <5>3. QED
            BY <5>1, <5>2
        <4>2. Clock(r)' = Clock(r) /\ Hist(r)' = Hist(r) /\ Lost(r)' = Lost(r)
          BY <1>3, <4>1
        <4>3. Hist(s) \subseteq Hist(r) \cup Lost(r) \cup Forgone /\ Covers(r, s)
          BY <1>1, <2>1, <3>1, <4>1, <4>2 DEF CausalInv
        <4>4. QED
          BY <3>1, <4>2, <4>3 DEF Covers
      <3>4. QED
        BY <3>2, <3>3
    <2>2. QED
      BY <1>2, <1>3, <2>1 DEF CausalInv
  <1>15. Hist(base[d])' \subseteq Hist(op[d].rev)' \cup Forgone /\ Hist(op[d].rev)' = y
    <2>1. base[d] \in Revision \cup {0} /\ Hist(base[d]) \subseteq history[d] \cup Forgone
      BY <1>1 DEF TypeOK, HistoryInv, KnownBy
    <2>2. Hist(base[d])' = Hist(base[d]) /\ Hist(op[d].rev)' = Hist(n)'
      BY <1>2, <1>3, <2>1
    <2>3. QED
      BY <1>4, <2>1, <2>2 DEF y
  <1>16. QED
    BY <1>3, <1>12, <1>13, <1>14, <1>15 DEF y

(* The counter of a publication exceeds every counter its device has       *)
(* published and every one that another device holds of it; so the new     *)
(* head covers the old one, and nothing else becomes a branch.             *)
LEMMA PublishOrder ==
  ASSUME SyncInv, NEW d \in Device, publish(d)
  PROVE  /\ CommitInv' /\ StagedInv' /\ CausalInv' /\ CountersNameCommits'
         /\ BranchesReadable' /\ Published \subseteq Published'
         /\ op[d].rev \in Published' /\ Forgone \subseteq Forgone'
  <1>0. PICK n : n = op[d].rev
    OBVIOUS
  <1>1. TypeOK /\ CommitInv /\ StagedInv /\ CausalInv /\ CountersNameCommits /\ OperationInv
        /\ BranchesReadable /\ StagedSnapshotKept
    BY DEF SyncInv
  <1>2. /\ pc[d] = "publish" /\ n \in Revision /\ n # 0 /\ d \in Staged /\ n \in snapshots
    BY <1>0, <1>1, RevisionTypes DEF publish, OperationInv, Staged, Staging, StagedSnapshotKept
  <1>3. /\ revs' = revs /\ snapshots' = snapshots /\ pc'[d] = "pointer"
        /\ heads'[d] = n /\ past'[d] = past[d] \cup {n}
        /\ \A e \in Device \ {d} :
             pc'[e] = pc[e] /\ op'[e] = op[e] /\ heads'[e] = heads[e] /\ past'[e] = past[e]
    BY <1>0, <1>1 DEF publish, Goto, TypeOK
  <1>4. /\ \A r : Clock(r)' = Clock(r) /\ Hist(r)' = Hist(r) /\ Lost(r)' = Lost(r)
        /\ Forgone \subseteq Forgone'
    <2>1. \A r : Clock(r)' = Clock(r) /\ Hist(r)' = Hist(r) /\ Lost(r)' = Lost(r)
      BY <1>3 DEF Clock, Hist, Lost
    <2>2. \A e \in Device : past[e] \subseteq past'[e]
      BY <1>3
    <2>3. QED
      BY <1>1, <1>3, <2>1, <2>2, ForgoneKept
  <1>5. Published' = Published \cup {n}
    BY <1>3 DEF Published
  <1>6. Staged' = Staged \ {d}
    BY <1>3 DEF Staged, Staging
  <1>7. /\ Published \subseteq Revision
        /\ \A e \in Device : past[e] \subseteq Published /\ heads[e] \in Revision \cup {0}
        /\ \A r \in Revision \cup {0} : \A x \in Device : Clock(r)[x] \in Nat
    BY <1>1, PublishedTypes
  <1>8. /\ Clock(n)[d] > Clock(heads[d])[d]
        /\ \A e \in Device \ {d} : Clock(heads[e])[e] >= Clock(n)[e]
    BY <1>0, <1>1, <1>2 DEF StagedInv
  <1>9. \A r \in Published : Clock(n)[d] > Clock(r)[d]
    <2>1. \A r \in Published : Clock(heads[d])[d] >= Clock(r)[d]
      BY <1>1 DEF CommitInv
    <2>2. QED
      BY <1>2, <1>7, <1>8, <2>1
  <1>10. \A e \in Staged \ {d} : op[e].rev \in Revision /\ Clock(n)[d] > Clock(op[e].rev)[d]
    <2>1. \A e \in Staged \ {d} : op[e].rev \in Revision /\ Clock(heads[d])[d] >= Clock(op[e].rev)[d]
      BY <1>1 DEF StagedInv, OperationInv, Staged
    <2>2. QED
      BY <1>2, <1>7, <1>8, <2>1
  <1>11. CommitInv'
    <2>1. ASSUME NEW e \in Device
          PROVE  /\ heads'[e] \in past'[e] \cup {0}
                 /\ past'[e] # {} => heads'[e] # 0
                 /\ \A r \in past'[e] : Clock(r)'[e] > 0
                 /\ \A r \in Published' : Clock(heads[e])'[e] >= Clock(r)'[e]
      <3>1. CASE e = d
        <4>1. Clock(n)[d] > 0 /\ Clock(n)[d] \in Nat
          BY <1>2, <1>7, <1>8
        <4>2. \A r \in past[d] : Clock(r)[d] > 0
          BY <1>1 DEF CommitInv
        <4>3. Clock(heads[e])' = Clock(n)
          BY <1>3, <3>1 DEF Clock
        <4>4. \A r \in Published' : Clock(n)[d] >= Clock(r)[d]
          BY <1>5, <1>7, <1>9, <4>1
        <4>5. QED
          BY <1>2, <1>3, <1>4, <3>1, <4>1, <4>2, <4>3, <4>4
      <3>2. CASE e # d
        <4>1. Clock(heads[e])' = Clock(heads[e])
          BY <1>3, <3>2 DEF Clock
        <4>2. QED
          BY <1>1, <1>3, <1>4, <1>5, <1>8, <3>2, <4>1 DEF CommitInv
      <3>3. QED
        BY <3>1, <3>2
    <2>2. QED
      BY <2>1 DEF CommitInv
  <1>12. CountersNameCommits'
    <2>1. ASSUME NEW e \in Device, NEW r \in past'[e], NEW t \in past'[e], r # t
          PROVE  Clock(r)[e] # Clock(t)[e]
      <3>1. CASE e = d
        <4>1. \A q \in past[d] : Clock(n)[d] # Clock(q)[d]
          BY <1>2, <1>7, <1>9
        <4>2. QED
          BY <1>1, <1>3, <2>1, <3>1, <4>1 DEF CountersNameCommits
      <3>2. CASE e # d
        BY <1>1, <1>3, <2>1, <3>2 DEF CountersNameCommits
      <3>3. QED
        BY <3>1, <3>2
    <2>2. QED
      BY <1>4, <2>1 DEF CountersNameCommits
  <1>13. StagedInv'
    <2>1. ASSUME NEW e \in Staged'
          PROVE  /\ (Clock(op[e].rev)[e] > Clock(heads[e])[e])'
                 /\ \A f \in Device \ {e} : (Clock(heads[f])[f] >= Clock(op[e].rev)[f])'
      <3>1. e \in Staged \ {d} /\ e \in Device /\ op'[e] = op[e] /\ op[e].rev \in Revision
        BY <1>3, <1>6, <1>10 DEF Staged
      <3>2. Clock(op[e].rev)' = Clock(op[e].rev) /\ Clock(heads[d])' = Clock(n)
        BY <1>3, <3>1 DEF Clock
      <3>3. \A f \in Device \ {d} : Clock(heads[f])' = Clock(heads[f])
        BY <1>3 DEF Clock
      <3>4. Clock(n)[d] >= Clock(op[e].rev)[d]
        BY <1>2, <1>7, <1>10, <3>1
      <3>5. QED
        BY <1>1, <3>1, <3>2, <3>3, <3>4 DEF StagedInv
    <2>2. QED
      BY <2>1 DEF StagedInv
  <1>14. CausalInv'
    <2>1. ASSUME NEW r \in Published' \cup {op'[e].rev : e \in Staged'},
                 NEW e \in Device, NEW t \in past'[e], Clock(r)[e] >= Clock(t)[e]
          PROVE  Hist(t) \subseteq Hist(r) \cup Lost(r) \cup Forgone' /\ Covers(r, t)
      <3>1. r \in Published \cup {op[f].rev : f \in Staged}
        <4>1. CASE r \in Published'
          BY <1>0, <1>2, <1>5, <4>1
        <4>2. CASE r \in {op'[f].rev : f \in Staged'}
          BY <1>3, <1>6, <4>2 DEF Staged
        <4>3. QED
          BY <4>1, <4>2
      <3>2. r \in Revision
        BY <1>1, <1>7, <3>1 DEF OperationInv, Staged
      <3>3. CASE t \in past[e]
        BY <1>1, <1>4, <2>1, <3>1, <3>3 DEF CausalInv
      <3>4. CASE t \notin past[e]
        <4>1. e = d /\ t = n
          BY <1>3, <3>4
        <4>2. r = n
          <5>1. ASSUME r # n PROVE FALSE
            <6>1. Clock(n)[d] > Clock(r)[d]
              BY <1>0, <1>9, <1>10, <3>1, <5>1
            <6>2. QED
              BY <1>2, <1>7, <2>1, <3>2, <4>1, <6>1
          <5>2. QED
            BY <5>1
        <4>3. QED
          BY <1>2, <1>7, <4>1, <4>2 DEF Covers
      <3>5. QED
        BY <3>3, <3>4
    <2>2. \A r, t : Covers(r, t)' = Covers(r, t)
      BY <1>3 DEF Covers, Clock
    <2>3. QED
      BY <1>4, <2>1, <2>2 DEF CausalInv
  <1>15. BranchesReadable'
    <2> DEFINE old == {heads[e] : e \in Device} \ {0}
    <2>1. ASSUME NEW h, h \in Maximal({heads[e] : e \in Device} \ {0})' PROVE h \in snapshots
      <3>1. /\ h \in {heads'[e] : e \in Device} \ {0}
            /\ \A o \in {heads'[e] : e \in Device} \ {0} :
                 ~strictly_dominates(Clock(o), Clock(h))
        BY <1>4, <2>1 DEF Maximal, strictly_dominates
      <3>2. CASE h = n
        BY <1>2, <3>2
      <3>3. CASE h # n
        <4>1. PICK e \in Device \ {d} : h = heads[e]
          BY <1>3, <3>1, <3>3
        <4>2. ASSUME NEW o \in old, strictly_dominates(Clock(o), Clock(h)) PROVE FALSE
          <5>1. PICK f \in Device : o = heads[f]
            OBVIOUS
          <5>2. CASE f = d
            <6>1. o \in past[d] /\ o \in Revision /\ h \in Revision
              BY <1>1, <1>7, <3>1, <4>1, <5>1, <5>2 DEF CommitInv
            <6>2. Clock(n)[d] >= Clock(o)[d]
              BY <1>2, <1>7, <1>8, <5>1, <5>2, <6>1
            <6>3. Covers(n, o)
              BY <1>0, <1>1, <1>2, <6>1, <6>2 DEF CausalInv
            <6>4. Clock(n) # Clock(o)
              BY <1>2, <1>7, <1>8, <5>1, <5>2, <6>1
            <6>5. strictly_dominates(Clock(n), Clock(o))
              BY <6>3, <6>4 DEF Covers, strictly_dominates
            <6>6. Clock(n) \in Clocks /\ Clock(o) \in Clocks /\ Clock(h) \in Clocks
              BY <1>1, <1>2, <6>1, RevisionTypes
            <6>7. strictly_dominates(Clock(n), Clock(h))
              BY <4>2, <6>5, <6>6, DominatesTransitive DEF strictly_dominates
            <6>8. QED
              BY <1>2, <1>3, <3>1, <6>7
          <5>3. CASE f # d
            BY <1>3, <3>1, <4>2, <5>1, <5>3
          <5>4. QED
            BY <5>2, <5>3
        <4>3. h \in Maximal(old)
          BY <3>1, <4>1, <4>2 DEF Maximal
        <4>4. QED
          BY <1>1, <4>3 DEF BranchesReadable
      <3>4. QED
        BY <3>2, <3>3
    <2>2. QED
      BY <1>3, <2>1 DEF BranchesReadable
  <1>16. QED
    BY <1>0, <1>4, <1>5, <1>11, <1>12, <1>13, <1>14, <1>15

(* What a published commit dominates is neither a branch nor about to be   *)
(* published: collection may remove it.                                    *)
LEMMA Collectable ==
  ASSUME SyncInv, NEW r \in Revision, NEW c \in Published,
         strictly_dominates(Clock(c), Clock(r))
  PROVE  /\ \A e \in Staged : op[e].rev # r
         /\ r \notin Maximal({heads[d] : d \in Device} \ {0})
  <1>1. TypeOK /\ CommitInv /\ StagedInv /\ CausalInv
    BY DEF SyncInv
  <1>2. /\ c \in Revision
        /\ \A e \in Device : heads[e] \in Revision \cup {0}
        /\ \A q \in Revision \cup {0} : \A x \in Device : Clock(q)[x] \in Nat
    BY <1>1, PublishedTypes
  <1>3. ASSUME NEW e \in Staged, op[e].rev = r PROVE FALSE
    <2>1. e \in Device
      BY DEF Staged
    <2>2. /\ Clock(r)[e] > Clock(heads[e])[e] /\ Clock(heads[e])[e] >= Clock(c)[e]
          /\ Clock(c)[e] >= Clock(r)[e]
      BY <1>1, <1>3, <2>1 DEF StagedInv, CommitInv, strictly_dominates
    <2>3. QED
      BY <1>2, <2>1, <2>2
  <1>4. PICK f \in Device : c \in past[f]
    BY DEF Published
  <1>5. heads[f] \in past[f] /\ heads[f] \in Published /\ heads[f] # 0
    BY <1>1, <1>4 DEF CommitInv, Published
  <1>6. Covers(heads[f], c)
    BY <1>1, <1>4, <1>5 DEF CommitInv, CausalInv
  <1>7. strictly_dominates(Clock(heads[f]), Clock(r))
    <2>1. Clock(heads[f]) \in Clocks /\ Clock(c) \in Clocks /\ Clock(r) \in Clocks
      BY <1>1, <1>2, RevisionTypes
    <2>2. CASE Clock(heads[f]) = Clock(c)
      BY <2>2
    <2>3. CASE Clock(heads[f]) # Clock(c)
      <3>1. strictly_dominates(Clock(heads[f]), Clock(c))
        BY <1>6, <2>3 DEF Covers, strictly_dominates
      <3>2. QED
        BY <2>1, <3>1, DominatesTransitive DEF strictly_dominates
    <2>4. QED
      BY <2>2, <2>3
  <1>8. QED
    BY <1>3, <1>5, <1>7 DEF Maximal

-----------------------------------------------------------------------------
(* Every step keeps the invariant.                                         *)

(* A revision that is valid for the baseline knows the baseline's history, *)
(* up to what recoveries passed over.                                      *)
LEMMA FollowsBaseline ==
  ASSUME SyncInv, NEW d \in Device, NEW r \in Published, validate_remote_baseline(d, r)
  PROVE  Hist(base[d]) \subseteq Hist(r) \cup Forgone
  <1>1. base[d] \in Published \cup {0} /\ CausalInv /\ Lost(r) \subseteq Forgone
    BY PublishedTypes DEF SyncInv, NamedInv, NamedBy
  <1>2. CASE base[d] = 0 \/ base[d] = r
    BY <1>2 DEF Hist
  <1>3. CASE base[d] # 0 /\ base[d] # r
    <2>1. strictly_dominates(Clock(r), Clock(base[d]))
      BY <1>3 DEF validate_remote_baseline, remote_precedes_baseline,
         remote_concurrent_with_baseline
    <2>2. PICK e \in Device : base[d] \in past[e]
      BY <1>1, <1>3 DEF Published
    <2>3. QED
      BY <1>1, <2>1, <2>2 DEF CausalInv, strictly_dominates
  <1>4. QED
    BY <1>2, <1>3

(* A device that builds a revision.                                        *)
LEMMA BuildInv ==
  ASSUME SyncInv, ~StaleAfterUnrecorded, NEW d \in Device, NEW kind \in Building,
         NEW H \in Reads(d, previous_clock(d, kind)), NEW R,
         kind # "recover" => \A m \in Maximal(H) : m \in R \/ m = base[d],
         NEW y, y = history[d] \cup Held(R), NEW c \in y \cup {0},
         NEW B \in SUBSET Published, NEW chosen \in Published \cup {0},
         Build(d, kind, H, B, c, chosen, R), TypeOK', OperationInv'
  PROVE  SyncInv'
  <1>0. PICK n : n = Len(revs) + 1
    OBVIOUS
  <1>1. TypeOK /\ NamedInv /\ HistoryInv /\ BranchesReadable /\ StagedSnapshotKept /\ OperationInv
    BY DEF SyncInv
  <1>2. /\ CommitInv' /\ StagedInv' /\ CausalInv' /\ CountersNameCommits'
        /\ Forgone' = Forgone
        /\ Hist(base[d])' \subseteq Hist(op[d].rev)' \cup Forgone /\ Hist(op[d].rev)' = y
    BY BuildOrder
  <1>3. /\ \E rec : revs' = Append(revs, rec) /\ rec.content = c
        /\ op'[d].rev = n /\ op'[d].chosen = chosen /\ op'[d].observed \subseteq B
        /\ op'[d].local \in {0, content[d]} /\ pc'[d] = "upload"
        /\ \A e \in Device \ {d} : op'[e] = op[e] /\ pc'[e] = pc[e]
        /\ UNCHANGED <<content, history, base, heads, past, snapshots, latest>>
    <2>1. \E rec : revs' = Append(revs, rec) /\ rec.content = c
      BY DEF Build, NewRevision
    <2>2. Continue(d, kind, "upload", B, chosen, n)
      BY <1>0 DEF Build
    <2>3. /\ op'[d].rev = n /\ op'[d].chosen = chosen /\ op'[d].observed \subseteq B
          /\ op'[d].local \in {0, content[d]}
          /\ \A e \in Device \ {d} : op'[e] = op[e]
      BY <1>1, <2>2 DEF Continue, TypeOK
    <2>4. pc'[d] = "upload" /\ \A e \in Device \ {d} : pc'[e] = pc[e]
      BY <1>1, <2>2 DEF Continue, Goto, TypeOK
    <2>5. UNCHANGED <<content, history, base, heads, past, snapshots, latest>>
      BY <2>2 DEF Continue, local, remote
    <2>6. QED
      BY <2>1, <2>3, <2>4, <2>5
  <1>4. /\ Revision \subseteq Revision'
        /\ \A r \in Revision \cup {0} :
             Clock(r)' = Clock(r) /\ Hist(r)' = Hist(r) /\ Content(r)' = Content(r)
    BY <1>1, <1>3, RevisionsKept
  <1>5. Revision' = Revision \cup {n} /\ Content(n)' = c
    <2>1. PICK rec : revs' = Append(revs, rec) /\ rec.content = c
      BY <1>3
    <2>2. revs \in Seq(Revisions) /\ Len(revs) \in Nat
      BY <1>1, RevisionTypes DEF TypeOK
    <2>3. Len(revs') = Len(revs) + 1 /\ revs'[n] = rec /\ n # 0
      BY <1>0, <2>1, <2>2
    <2>4. QED
      BY <1>0, <2>1, <2>2, <2>3 DEF Revision, Content
  <1>6. /\ Published' = Published /\ Published \subseteq Revision
        /\ \A e \in Device : heads[e] \in Revision \cup {0}
    <2>1. Published' = Published
      BY <1>3 DEF Published
    <2>2. QED
      BY <1>1, <2>1, PublishedTypes
  <1>7. NamedInv'
    <2>1. ASSUME NEW e \in Device \ {d}, pc[e] = "delete"
          PROVE  \E q \in Published : strictly_dominates(Clock(q), Clock(op[e].rev))'
      <3>1. PICK q \in Published : strictly_dominates(Clock(q), Clock(op[e].rev))
        BY <1>1, <2>1 DEF NamedInv, NamedBy
      <3>2. q \in Revision /\ op[e].rev \in Revision \cup {0}
        BY <1>1, <1>6 DEF TypeOK
      <3>3. Clock(q)' = Clock(q) /\ Clock(op[e].rev)' = Clock(op[e].rev)
        BY <1>3, <1>4, <3>2 DEF Clock
      <3>4. QED
        BY <3>1, <3>3 DEF strictly_dominates
    <2>2. QED
      BY <1>1, <1>3, <1>6, <2>1 DEF NamedInv, NamedBy
  <1>8. HistoryInv'
    <2>1. \A r \in Revision' : Content(r)' \in Hist(r)' \cup {0}
      <3>1. Hist(n)' = y
        BY <1>2, <1>3 DEF Hist
      <3>2. \A r \in Revision : Content(r)' \in Hist(r)' \cup {0}
        BY <1>1, <1>4 DEF HistoryInv, KnownBy
      <3>3. Content(n)' \in Hist(n)' \cup {0}
        BY <1>5, <3>1
      <3>4. QED
        BY <1>5, <3>2, <3>3
    <2>2. ASSUME NEW e \in Device
          PROVE  Hist(base[e])' = Hist(base[e])
      <3>1. base[e] \in Revision \cup {0} /\ base'[e] = base[e]
        BY <1>1, <1>3 DEF TypeOK
      <3>2. \A b \in Revision \cup {0} : Hist(b)' = Hist(b)
        BY <1>4
      <3>3. QED
        BY <3>1, <3>2 DEF Hist
    <2>3. ASSUME NEW e \in Device \ {d} PROVE Hist(op[e].rev)' = Hist(op[e].rev)
      <3>1. op[e].rev \in Revision \cup {0}
        BY <1>1 DEF TypeOK
      <3>2. QED
        BY <1>3, <1>4, <3>1 DEF Hist
    <2>4. ASSUME NEW e \in Device PROVE KnownBy(e)'
      <3>1. content'[e] \in history'[e] \cup {0} /\ Hist(base[e])' \subseteq history'[e] \cup Forgone'
        BY <1>1, <1>2, <1>3, <2>2 DEF HistoryInv, KnownBy
      <3>2. CASE e = d
        <4>1. op'[d].local \in y \cup {0}
          BY <1>1, <1>3 DEF HistoryInv, KnownBy
        <4>2. QED
          BY <1>2, <3>1, <3>2, <4>1 DEF KnownBy
      <3>3. CASE e # d
        <4>1. KnownBy(e) /\ pc'[e] = pc[e] /\ op'[e] = op[e]
          BY <1>1, <1>3, <3>3 DEF HistoryInv
        <4>2. QED
          BY <1>2, <2>2, <2>3, <3>1, <3>3, <4>1 DEF KnownBy
      <3>4. QED
        BY <3>2, <3>3
    <2>5. QED
      BY <2>1, <2>4 DEF HistoryInv
  <1>9. BranchesReadable'
    <2>1. \A h \in {heads[e] : e \in Device} : Clock(h)' = Clock(h)
      BY <1>4, <1>6
    <2>2. Maximal({heads[e] : e \in Device} \ {0})' = Maximal({heads[e] : e \in Device} \ {0})
      BY <1>3, <2>1 DEF Maximal, strictly_dominates
    <2>3. QED
      BY <1>1, <1>3, <2>2 DEF BranchesReadable
  <1>10. StagedSnapshotKept'
    BY <1>1, <1>3 DEF StagedSnapshotKept
  <1>11. QED
    BY <1>2, <1>7, <1>8, <1>9, <1>10 DEF SyncInv

(* A step of d that builds and publishes nothing has to keep only what is  *)
(* about d, and the snapshots that somebody needs.                         *)
LEMMA QuietInv ==
  ASSUME SyncInv, TypeOK', OperationInv', NEW d \in Device, UNCHANGED <<revs, heads, past>>,
         \A e \in Device \ {d} :
           /\ content'[e] = content[e] /\ history'[e] = history[e] /\ base'[e] = base[e]
           /\ pc'[e] = pc[e] /\ op'[e] = op[e],
         pc'[d] \in Staging => pc[d] \in Staging /\ op'[d].rev = op[d].rev,
         latest' \in Published \cup {0}, NamedBy(d)', KnownBy(d)',
         pc'[d] \in {"check", "commit", "validate", "publish"} => op'[d].rev \in snapshots',
         \A r \in snapshots \ snapshots' :
           r \notin Maximal({heads[e] : e \in Device} \ {0}) /\ \A e \in Staged : op[e].rev # r
  PROVE  SyncInv'
  <1>1. NamedInv /\ HistoryInv /\ BranchesReadable /\ StagedSnapshotKept
    BY DEF SyncInv
  <1>2. /\ Published' = Published /\ Revision' = Revision /\ Forgone' = Forgone
        /\ \A r : Clock(r)' = Clock(r) /\ Hist(r)' = Hist(r) /\ Content(r)' = Content(r)
    BY DEF Published, Revision, Forgone, Clock, Hist, Content
  <1>3. \A e \in Device : pc'[e] \in Staging => pc[e] \in Staging /\ op'[e].rev = op[e].rev
    OBVIOUS
  <1>4. CommitInv' /\ StagedInv' /\ CausalInv' /\ CountersNameCommits'
    BY <1>3, OrderKept DEF SyncInv
  <1>5. NamedInv'
    <2>1. ASSUME NEW e \in Device \ {d} PROVE NamedBy(e)'
      <3>1. NamedBy(e) /\ op'[e] = op[e] /\ pc'[e] = pc[e] /\ base'[e] = base[e]
        BY <1>1 DEF NamedInv
      <3>2. ASSUME pc[e] = "delete"
            PROVE  \E c \in Published : strictly_dominates(Clock(c), Clock(op[e].rev))'
        <4>1. PICK c \in Published : strictly_dominates(Clock(c), Clock(op[e].rev))
          BY <3>1, <3>2 DEF NamedBy
        <4>2. Clock(op[e].rev)' = Clock(op[e].rev)
          BY <3>1 DEF Clock
        <4>3. QED
          BY <1>2, <4>1, <4>2 DEF strictly_dominates
      <3>3. QED
        BY <1>2, <3>1, <3>2 DEF NamedBy
    <2>2. QED
      BY <1>2, <2>1 DEF NamedInv
  <1>6. HistoryInv'
    <2>1. ASSUME NEW e \in Device \ {d} PROVE KnownBy(e)'
      <3>1. KnownBy(e) /\ op'[e] = op[e] /\ pc'[e] = pc[e] /\ base'[e] = base[e]
            /\ content'[e] = content[e] /\ history'[e] = history[e]
        BY <1>1 DEF HistoryInv
      <3>2. Hist(base[e])' = Hist(base[e]) /\ Hist(op[e].rev)' = Hist(op[e].rev)
        BY <3>1 DEF Hist
      <3>3. QED
        BY <1>2, <3>1, <3>2 DEF KnownBy
    <2>2. QED
      BY <1>1, <1>2, <2>1 DEF HistoryInv
  <1>7. BranchesReadable'
    <2>1. Maximal({heads[e] : e \in Device} \ {0})' = Maximal({heads[e] : e \in Device} \ {0})
      BY DEF Maximal, strictly_dominates, Clock
    <2>2. QED
      BY <1>1, <2>1 DEF BranchesReadable
  <1>8. StagedSnapshotKept'
    <2>1. ASSUME NEW e \in Device \ {d}, pc[e] \in {"check", "commit", "validate", "publish"}
          PROVE  op[e].rev \in snapshots'
      BY <1>1, <2>1 DEF StagedSnapshotKept, Staged, Staging
    <2>2. QED
      BY <2>1 DEF StagedSnapshotKept
  <1>9. QED
    BY <1>4, <1>5, <1>6, <1>7, <1>8 DEF SyncInv

(* A device that applies a revision it read.                               *)
LEMMA ApplyDecisionInv ==
  ASSUME SyncInv, NEW d \in Device, pc[d] = "idle", NEW H \in Reads(d, base[d]), NEW r \in Maximal(H),
         NEW kind \in Pull, NEW chosen \in {0, r}, validate_remote_baseline(d, r),
         kind = "pull" => content[d] \in {0, Content(base[d])},
         Continue(d, kind, "apply", Maximal(H), chosen, r), revs' = revs,
         TypeOK', OperationInv'
  PROVE  SyncInv'
  <1>1. TypeOK /\ NamedInv /\ HistoryInv
    BY DEF SyncInv
  <1>2. Maximal(H) \subseteq Published
    BY <1>1, PreviousType, ReadsTypes DEF NamedInv, Maximal
  <1>3. /\ op'[d].rev = r /\ op'[d].chosen = chosen /\ op'[d].kind = kind
        /\ op'[d].observed \subseteq Maximal(H)
        /\ (kind = "pull" => op'[d].local = content[d])
        /\ \A e \in Device \ {d} : op'[e] = op[e]
    BY <1>1 DEF Continue, TypeOK
  <1>4. pc'[d] = "apply" /\ \A e \in Device \ {d} : pc'[e] = pc[e]
    BY <1>1 DEF Continue, Goto, TypeOK
  <1>5. UNCHANGED <<content, history, base, heads, past, snapshots, latest>>
    BY DEF Continue, local, remote
  <1>6. Published' = Published /\ Forgone' = Forgone /\ \A q : Hist(q)' = Hist(q)
    BY <1>5 DEF Published, Forgone, Hist
  <1>7. NamedBy(d) /\ KnownBy(d) /\ latest \in Published \cup {0}
    BY <1>1 DEF NamedInv, HistoryInv
  <1>8. NamedBy(d)'
    BY <1>2, <1>3, <1>4, <1>5, <1>6, <1>7 DEF NamedBy
  <1>9. KnownBy(d)'
    <2>1. Hist(base[d]) \subseteq Hist(r) \cup Forgone
      BY <1>2, FollowsBaseline
    <2>2. Hist(base[d])' = Hist(base[d]) /\ Hist(op[d].rev)' = Hist(r)
      BY <1>3, <1>5 DEF Hist
    <2>3. Content(base[d]) \in Hist(base[d]) \cup {0}
      <3>1. base[d] \in Revision \cup {0}
        BY <1>1 DEF TypeOK
      <3>2. QED
        BY <1>1, <3>1 DEF HistoryInv, Content
    <2>4. kind = "pull" => content[d] \in Hist(r) \cup Forgone \cup {0}
      BY <2>1, <2>3
    <2>5. QED
      BY <1>3, <1>4, <1>5, <1>6, <1>7, <2>1, <2>2, <2>4 DEF KnownBy, Pull
  <1>10. QED
    BY <1>3, <1>4, <1>5, <1>7, <1>8, <1>9, QuietInv DEF Staging

(* The decisions of an idle device.                                        *)
LEMMA DecisionInv ==
  ASSUME SyncInv, ~StaleAfterUnrecorded, NEW d \in Device, pc[d] = "idle",
         NEW H \in Reads(d, base[d]), NEW B, B = Maximal(H),
         \/ UpToDate(d, B) \/ push(d, H, B) \/ pull(d, B)
         \/ keepLocal(d, H, B) \/ keepCloud(d, H, B)
         \/ LegacyMigrated(d, B) \/ Offer(d, B)
  PROVE  SyncInv'
  <1>1. TypeOK /\ OperationInv /\ NamedInv /\ HistoryInv
    BY DEF SyncInv
  <1>2. TypeOK' /\ OperationInv'
    BY <1>1, DecisionTypes
  <1>3. B \subseteq Published /\ B \subseteq Revision /\ 0 \notin B
    BY <1>1, PreviousType, ReadsTypes, RevisionTypes DEF NamedInv, Maximal
  <1> \A kind \in {"push", "keepLocal", "keepCloud"} : kind \in Building /\ previous_clock(d, kind) = base[d]
    BY DEF Building, previous_clock
  <1>4. NamedBy(d) /\ KnownBy(d) /\ latest \in Published \cup {0}
    BY <1>1 DEF NamedInv, HistoryInv
  <1>5. CASE UpToDate(d, B)
    <2>1. PICK r \in B :
            /\ base' = [base EXCEPT ![d] = r]
            /\ history' = [history EXCEPT ![d] = @ \cup revs[r].history]
      BY <1>5 DEF UpToDate
    <2>2. UNCHANGED <<content, revs, heads, past, snapshots, latest, pc, op>>
      BY <1>5 DEF UpToDate, remote
    <2>3. /\ base'[d] = r /\ history'[d] = history[d] \cup Hist(r)
          /\ \A e \in Device \ {d} : base'[e] = base[e] /\ history'[e] = history[e]
      BY <1>1, <1>3, <2>1 DEF TypeOK, Hist
    <2>4. Published' = Published /\ Forgone' = Forgone /\ Hist(base[d])' = Hist(r)
      BY <2>2, <2>3 DEF Published, Forgone, Hist
    <2>5. NamedBy(d)'
      BY <1>3, <1>4, <2>2, <2>3, <2>4 DEF NamedBy
    <2>6. KnownBy(d)'
      BY <1>4, <2>2, <2>3, <2>4 DEF KnownBy, Staging
    <2>7. QED
      BY <1>2, <1>4, <2>2, <2>3, <2>5, <2>6, QuietInv DEF Staging
  <1>6. CASE push(d, H, B)
    <2> DEFINE R == {r \in B : Content(r) = 0}
               y == history[d] \cup Held(R)
    <2>1. Build(d, "push", H, B, content[d], 0, R)
      BY <1>6 DEF push
    <2>2. \A m \in B : m \in R \/ m = base[d]
      BY <1>6 DEF push, MayPush, Resolvable, remote_changed
    <2>3. content[d] \in y \cup {0} /\ R \in SUBSET B
      BY <1>4 DEF KnownBy
    <2> HIDE DEF R
    <2>4. QED
      BY <1>2, <1>3, <2>1, <2>2, <2>3, BuildInv
  <1>7. CASE pull(d, B)
    <2>1. PICK r \in B : MayPull(d, B, r) /\ Continue(d, "pull", "apply", B, 0, r)
      BY <1>7 DEF pull
    <2>2. validate_remote_baseline(d, r) /\ content[d] \in {0, Content(base[d])} /\ revs' = revs
      BY <1>7, <2>1 DEF pull, MayPull, Resolvable, local_content_changed
    <2>3. QED
      BY <1>2, <2>1, <2>2, ApplyDecisionInv DEF Pull
  <1>8. CASE keepLocal(d, H, B)
    <2> DEFINE y == history[d] \cup Held(B)
    <2>1. Build(d, "keepLocal", H, B, content[d], 0, B)
      BY <1>8 DEF keepLocal
    <2>2. content[d] \in y \cup {0}
      BY <1>4 DEF KnownBy
    <2>3. QED
      BY <1>2, <1>3, <2>1, <2>2, BuildInv
  <1>9. CASE keepCloud(d, H, B)
    <2> DEFINE y == history[d] \cup Held(B)
    <2>1. PICK r \in B :
            \/ Build(d, "keepCloud", H, B, Content(r), r, B)
            \/ /\ ~requires_resolution(d, B, r)
               /\ Continue(d, "keepCloud", "apply", B, r, r) /\ revs' = revs
      BY <1>9 DEF keepCloud
    <2>2. CASE Build(d, "keepCloud", H, B, Content(r), r, B)
      <3>1. Content(r) \in y \cup {0}
        <4>1. Content(r) \in Hist(r) \cup {0} /\ Hist(r) = revs[r].history
          BY <1>1, <1>3 DEF HistoryInv, Hist
        <4>2. Hist(r) \subseteq y
          BY <4>1 DEF Held
        <4>3. QED
          BY <4>1, <4>2
      <3>2. QED
        BY <1>2, <1>3, <2>2, <3>1, BuildInv
    <2>3. CASE /\ ~requires_resolution(d, B, r)
               /\ Continue(d, "keepCloud", "apply", B, r, r) /\ revs' = revs
      <3>1. validate_remote_baseline(d, r)
        BY <2>3 DEF requires_resolution
      <3>2. QED
        BY <1>2, <2>3, <3>1, ApplyDecisionInv DEF Pull
    <2>4. QED
      BY <2>1, <2>2, <2>3
  <1>10. CASE LegacyMigrated(d, B)
    <2>1. /\ UNCHANGED <<content, history, base, revs, heads, past, latest, pc, op>>
          /\ snapshots \subseteq snapshots'
      BY <1>10 DEF LegacyMigrated, local
    <2>2. NamedBy(d)' = NamedBy(d) /\ KnownBy(d)' = KnownBy(d)
      BY <2>1 DEF NamedBy, KnownBy, Published, Forgone, Clock, Hist, strictly_dominates
    <2>3. QED
      BY <1>2, <1>4, <2>1, <2>2, QuietInv DEF Staging
  <1>11. CASE Offer(d, B)
    <2>1. UNCHANGED <<content, history, base, revs, heads, past, snapshots, latest, pc, op>>
      BY <1>11 DEF Offer, remote
    <2>2. NamedBy(d)' = NamedBy(d) /\ KnownBy(d)' = KnownBy(d)
      BY <2>1 DEF NamedBy, KnownBy, Published, Forgone, Clock, Hist, strictly_dominates
    <2>3. QED
      BY <1>2, <1>4, <2>1, <2>2, QuietInv DEF Staging
  <1>12. QED
    BY <1>5, <1>6, <1>7, <1>8, <1>9, <1>10, <1>11

(* A recovery: the copy was published, and what its revision neither holds *)
(* nor shows is counted as passed over.                                    *)
LEMMA RecoverInv ==
  ASSUME SyncInv, ~StaleAfterUnrecorded, NEW d \in Device, NEW H \in Reads(d, 0), recover(d, H)
  PROVE  SyncInv'
  <1>1. TypeOK /\ OperationInv /\ NamedInv /\ HistoryInv
    BY DEF SyncInv
  <1>2. TypeOK' /\ OperationInv'
    BY <1>1, RecoverTypes
  <1>3. PICK current \in Published :
          Build(d, "recover", H, {latest} \ {0}, Content(current), 0, shown[d] \cup {current})
    BY DEF recover, Copies
  <1>4. "recover" \in Building /\ previous_clock(d, "recover") = 0
    BY DEF Building, previous_clock
  <1> DEFINE R == shown[d] \cup {current}
             y == history[d] \cup Held(R)
  <1>5. Content(current) \in y \cup {0}
    <2>1. current \in Revision /\ current # 0
      BY <1>1, PublishedTypes, RevisionTypes
    <2>2. Content(current) \in Hist(current) \cup {0} /\ Hist(current) = revs[current].history
      BY <1>1, <2>1 DEF HistoryInv, Hist
    <2>3. Hist(current) \subseteq y
      BY <2>2 DEF Held
    <2>4. QED
      BY <2>2, <2>3
  <1>6. {latest} \ {0} \in SUBSET Published
    BY <1>1 DEF NamedInv
  <1> HIDE DEF R
  <1>7. Build(d, "recover", H, {latest} \ {0}, Content(current), 0, R)
    BY <1>3 DEF R
  <1>8. QED
    BY <1>2, <1>4, <1>5, <1>6, <1>7, BuildInv

(* A step that ends the operation of d.                                    *)
LEMMA EndInv ==
  ASSUME SyncInv, TypeOK', OperationInv', NEW d \in Device, End(d),
         UNCHANGED <<revs, heads, past, latest>>,
         \A e \in Device \ {d} :
           content'[e] = content[e] /\ history'[e] = history[e] /\ base'[e] = base[e],
         base'[d] \in Published \cup {0}, content'[d] \in history'[d] \cup {0},
         Hist(base[d])' \subseteq history'[d] \cup Forgone,
         \A r \in snapshots \ snapshots' :
           r \notin Maximal({heads[e] : e \in Device} \ {0}) /\ \A e \in Staged : op[e].rev # r
  PROVE  SyncInv'
  <1>1. /\ pc'[d] = "idle" /\ op'[d] = NoOp
        /\ \A e \in Device \ {d} : pc'[e] = pc[e] /\ op'[e] = op[e]
    BY DEF End, Goto, SyncInv, TypeOK
  <1>2. NamedBy(d)'
    <2>1. Published' = Published
      BY DEF Published
    <2>2. op'[d].chosen = 0 /\ op'[d].observed = {}
      BY <1>1 DEF NoOp
    <2>3. QED
      BY <1>1, <2>1, <2>2 DEF NamedBy
  <1>3. KnownBy(d)'
    <2>1. Forgone' = Forgone
      BY DEF Forgone, Published
    <2>2. QED
      BY <1>1, <2>1 DEF KnownBy, Staging
  <1>4. latest' \in Published \cup {0}
    BY DEF SyncInv, NamedInv
  <1>5. pc'[d] \notin Staging /\ pc'[d] \notin {"check", "commit", "validate", "publish"}
    BY <1>1 DEF Staging
  <1>6. QED
    BY <1>1, <1>2, <1>3, <1>4, <1>5, QuietInv

(* Every step keeps the invariant.                                         *)
LEMMA InvStep ==
  ASSUME SyncInv, ~StaleAfterUnrecorded, NEW d \in Device, Step(d)
  PROVE  SyncInv'
  <1>1. TypeOK /\ OperationInv /\ NamedInv /\ HistoryInv /\ StagedSnapshotKept
    BY DEF SyncInv
  <1>2. TypeOK' /\ OperationInv'
    BY <1>1, TypeStep
  <1>3. NamedBy(d) /\ KnownBy(d) /\ latest \in Published \cup {0}
    BY <1>1 DEF NamedInv, HistoryInv
  <1>4. ASSUME UNCHANGED <<revs, past>>
        PROVE  /\ Published' = Published /\ Forgone' = Forgone
               /\ \A r : Clock(r)' = Clock(r) /\ Hist(r)' = Hist(r)
    BY <1>4 DEF Published, Forgone, Clock, Hist
  <1>5. CASE pc[d] = "idle" /\ \E H \in Reads(d, base[d]) :
               \E B \in {Maximal(H)} :
               UpToDate(d, B) \/ push(d, H, B) \/ pull(d, B)
                 \/ keepLocal(d, H, B) \/ keepCloud(d, H, B)
                 \/ LegacyMigrated(d, B) \/ Offer(d, B)
    BY <1>5, DecisionInv
  <1>6. CASE Edit(d) \/ Wipe(d)
    <2>1. UNCHANGED <<base, revs, heads, past, snapshots, latest, pc, op>>
      BY <1>6 DEF Edit, Wipe, remote
    <2>2. /\ content'[d] \in history'[d] \cup {0} /\ history[d] \subseteq history'[d]
          /\ \A e \in Device \ {d} : content'[e] = content[e] /\ history'[e] = history[e]
      BY <1>1, <1>6 DEF Edit, Wipe, TypeOK
    <2>3. NamedBy(d)'
      <3>1. NamedBy(d)' = NamedBy(d)
        BY <2>1 DEF NamedBy, Published, Clock, strictly_dominates
      <3>2. QED
        BY <1>3, <3>1
    <2>4. KnownBy(d)'
      <3>1. Hist(base[d])' = Hist(base[d]) /\ Hist(op[d].rev)' = Hist(op[d].rev)
        BY <2>1 DEF Hist
      <3>2. QED
        BY <1>3, <1>4, <2>1, <2>2, <3>1 DEF KnownBy
    <2>5. pc'[d] \in {"check", "commit", "validate", "publish"} => op'[d].rev \in snapshots'
      BY <1>1, <2>1 DEF StagedSnapshotKept
    <2>6. QED
      BY <1>2, <1>3, <2>1, <2>2, <2>3, <2>4, <2>5, QuietInv
  <1>7. CASE \/ upload(d) \/ ensure_remote_head_unchanged(d) \/ BeginCommit(d) \/ validate(d)
    <2>1. UNCHANGED <<content, history, base, revs, heads, past, latest>>
      BY <1>7 DEF upload, ensure_remote_head_unchanged, BeginCommit, validate, local, remote
    <2>2. /\ pc[d] \in Staging /\ pc'[d] \in {"check", "commit", "validate", "publish"}
          /\ \A e \in Device \ {d} : pc'[e] = pc[e]
      BY <1>1, <1>7 DEF upload, ensure_remote_head_unchanged, BeginCommit, validate, Goto,
         TypeOK, Staging
    <2>3. /\ op'[d].rev = op[d].rev /\ op'[d].chosen = op[d].chosen
          /\ op'[d].observed \subseteq op[d].observed
          /\ op'[d].kind = op[d].kind /\ op'[d].local = op[d].local
          /\ \A e \in Device \ {d} : op'[e] = op[e]
      BY <1>1, <1>7 DEF upload, ensure_remote_head_unchanged, BeginCommit, validate, TypeOK
    <2>4. snapshots \subseteq snapshots' /\ op[d].rev \in snapshots'
      BY <1>1, <1>7 DEF upload, ensure_remote_head_unchanged, BeginCommit, validate, remote,
         StagedSnapshotKept
    <2>5. NamedBy(d)'
      BY <1>3, <1>4, <2>1, <2>2, <2>3 DEF NamedBy
    <2>6. KnownBy(d)'
      <3>1. Hist(base[d])' = Hist(base[d]) /\ Hist(op[d].rev)' = Hist(op[d].rev)
        BY <2>1, <2>3 DEF Hist
      <3>2. QED
        BY <1>3, <1>4, <2>1, <2>2, <2>3, <3>1 DEF KnownBy, Staging
    <2>7. QED
      BY <1>2, <1>3, <2>1, <2>2, <2>3, <2>4, <2>5, <2>6, QuietInv
  <1>8. CASE publish(d)
    <2>1. /\ CommitInv' /\ StagedInv' /\ CausalInv' /\ CountersNameCommits'
          /\ BranchesReadable' /\ Published \subseteq Published' /\ op[d].rev \in Published'
          /\ Forgone \subseteq Forgone'
      BY <1>8, PublishOrder
    <2>2. UNCHANGED <<content, history, base, revs, snapshots, latest>>
      BY <1>8 DEF publish, local
    <2>3. pc[d] = "publish" /\ pc'[d] = "pointer" /\ \A e \in Device \ {d} : pc'[e] = pc[e]
      BY <1>1, <1>8 DEF publish, Goto, TypeOK
    <2>4. /\ op'[d].rev = op[d].rev /\ op'[d].chosen = 0 /\ op'[d].observed = {}
          /\ op'[d].kind = op[d].kind /\ op'[d].local = op[d].local
          /\ \A e \in Device \ {d} : op'[e] = op[e]
      BY <1>1, <1>8 DEF publish, TypeOK
    <2>5. \A r : Clock(r)' = Clock(r) /\ Hist(r)' = Hist(r) /\ Content(r)' = Content(r)
      BY <2>2 DEF Clock, Hist, Content
    <2>6. ASSUME NEW e \in Device PROVE NamedBy(e)'
      <3>1. NamedBy(e)
        BY <1>1 DEF NamedInv
      <3>2. CASE e = d
        BY <2>1, <2>2, <2>3, <2>4, <3>1, <3>2 DEF NamedBy
      <3>3. CASE e # d
        <4>1. pc'[e] = pc[e] /\ op'[e] = op[e]
          BY <2>3, <2>4, <3>3
        <4>2. ASSUME pc[e] = "delete"
              PROVE  \E c \in Published' : strictly_dominates(Clock(c), Clock(op[e].rev))'
          <5>1. PICK c \in Published : strictly_dominates(Clock(c), Clock(op[e].rev))
            BY <3>1, <4>2 DEF NamedBy
          <5>2. Clock(op[e].rev)' = Clock(op[e].rev)
            BY <2>2, <4>1 DEF Clock
          <5>3. QED
            BY <2>1, <2>5, <5>1, <5>2 DEF strictly_dominates
        <4>3. QED
          BY <2>1, <2>2, <3>1, <4>1, <4>2 DEF NamedBy
      <3>4. QED
        BY <3>2, <3>3
    <2>7. NamedInv'
      BY <1>3, <2>1, <2>2, <2>6 DEF NamedInv
    <2>8. ASSUME NEW e \in Device PROVE KnownBy(e)'
      <3>1. KnownBy(e)
        BY <1>1 DEF HistoryInv
      <3>2. Hist(base[e])' = Hist(base[e]) /\ Hist(op[e].rev)' = Hist(op[e].rev)
        BY <2>2, <2>4 DEF Hist
      <3>3. CASE e = d
        BY <2>1, <2>2, <2>3, <2>4, <3>1, <3>2, <3>3 DEF KnownBy, Staging
      <3>4. CASE e # d
        BY <2>1, <2>2, <2>3, <2>4, <3>1, <3>2, <3>4 DEF KnownBy
      <3>5. QED
        BY <3>3, <3>4
    <2>9. HistoryInv'
      <3>1. Revision' = Revision
        BY <2>2 DEF Revision
      <3>2. QED
        BY <1>1, <2>5, <2>8, <3>1 DEF HistoryInv
    <2>10. StagedSnapshotKept'
      BY <1>1, <2>2, <2>3, <2>4 DEF StagedSnapshotKept
    <2>11. QED
      BY <1>2, <2>1, <2>7, <2>9, <2>10 DEF SyncInv
  <1>9. CASE write_sync_pointer(d)
    <2>1. /\ UNCHANGED <<content, history, base, revs, heads, past, snapshots, op>>
          /\ latest' \in {latest, op[d].rev} /\ pc[d] = "pointer"
      BY <1>9 DEF write_sync_pointer, local
    <2>2. pc'[d] \in {"record", "apply"} /\ \A e \in Device \ {d} : pc'[e] = pc[e]
      BY <1>1, <1>9 DEF write_sync_pointer, Goto, TypeOK
    <2>3. op[d].rev \in Published
      BY <1>3, <2>1 DEF NamedBy
    <2>4. NamedBy(d)'
      BY <1>3, <1>4, <2>1, <2>2, <2>3 DEF NamedBy
    <2>5. KnownBy(d)'
      <3>1. Hist(base[d])' = Hist(base[d]) /\ Hist(op[d].rev)' = Hist(op[d].rev)
        BY <2>1 DEF Hist
      <3>2. QED
        BY <1>3, <1>4, <2>1, <2>2, <2>3, <3>1 DEF KnownBy, Staging
    <2>6. QED
      BY <1>2, <1>3, <2>1, <2>2, <2>3, <2>4, <2>5, QuietInv DEF Staging
  <1>10. CASE record(d)
    <2>1. /\ UNCHANGED <<content, revs, heads, past, snapshots, latest>> /\ End(d)
          /\ pc[d] = "record"
      BY <1>10 DEF record, remote
    <2>2. op[d].rev \in Published /\ op[d].rev \in Revision /\ op[d].rev # 0
      BY <1>1, <1>3, <2>1, RevisionTypes DEF NamedBy, OperationInv
    <2>3. /\ base'[d] = op[d].rev /\ history'[d] = history[d] \cup Hist(op[d].rev)
          /\ \A e \in Device \ {d} : base'[e] = base[e] /\ history'[e] = history[e]
      BY <1>1, <1>10, <2>2 DEF record, TypeOK, Hist
    <2>4. Hist(base[d])' = Hist(op[d].rev)
      BY <2>1, <2>3 DEF Hist
    <2>5. content'[d] \in history'[d] \cup {0}
      BY <1>3, <2>1, <2>3 DEF KnownBy
    <2>6. QED
      BY <1>2, <2>1, <2>2, <2>3, <2>4, <2>5, EndInv
  <1>11. CASE apply_sync_snapshot_checked(d)
    <2>1. /\ UNCHANGED <<revs, heads, past, snapshots, latest>> /\ End(d)
          /\ pc[d] = "apply"
      BY <1>11 DEF apply_sync_snapshot_checked, remote
    <2>2. op[d].rev \in Published /\ op[d].rev \in Revision /\ op[d].rev # 0
      BY <1>1, <1>3, <2>1, RevisionTypes DEF NamedBy, OperationInv
    <2>3. /\ content'[d] = Content(op[d].rev) /\ history'[d] = Hist(op[d].rev)
          /\ base'[d] \in {base[d], op[d].rev}
          /\ \A e \in Device \ {d} :
               content'[e] = content[e] /\ base'[e] = base[e] /\ history'[e] = history[e]
      BY <1>1, <1>11, <2>2 DEF apply_sync_snapshot_checked, TypeOK, Hist
    <2>4. Hist(base[d])' \subseteq history'[d] \cup Forgone
      <3>1. Hist(base[d]) \subseteq Hist(op[d].rev) \cup Forgone
        BY <1>3, <2>1 DEF KnownBy
      <3>2. Hist(base[d])' \in {Hist(base[d]), Hist(op[d].rev)}
        BY <2>1, <2>3 DEF Hist
      <3>3. QED
        BY <2>3, <3>1, <3>2
    <2>5. content'[d] \in history'[d] \cup {0}
      BY <1>1, <2>2, <2>3 DEF HistoryInv
    <2>6. base'[d] \in Published \cup {0}
      BY <1>3, <2>2, <2>3 DEF NamedBy
    <2>7. QED
      BY <1>2, <2>1, <2>3, <2>4, <2>5, <2>6, EndInv
  <1>12. CASE GcPlan(d)
    <2>1. /\ UNCHANGED <<content, history, base, revs, heads, past, snapshots, latest>>
          /\ pc'[d] = "delete" /\ \A e \in Device \ {d} : pc'[e] = pc[e]
      BY <1>1, <1>12 DEF GcPlan, Goto, TypeOK, local, remote
    <2>2. PICK r \in snapshots, commits \in authenticated_commits(d, base[d]) :
            /\ causally_collectable(r, commits)
            /\ op' = [op EXCEPT ![d] = [NoOp EXCEPT !.kind = "gc", !.rev = r]]
      BY <1>12 DEF GcPlan, Garbage
    <2>3. /\ op'[d].rev = r /\ op'[d].chosen = 0 /\ op'[d].observed = {}
          /\ \A e \in Device \ {d} : op'[e] = op[e]
      BY <1>1, <2>2 DEF TypeOK, NoOp
    <2>4. commits \subseteq Published
      BY <1>3 DEF authenticated_commits, Listings, NamedBy
    <2>5. PICK c \in Published : strictly_dominates(Clock(c), Clock(r))
      BY <2>2, <2>4 DEF causally_collectable
    <2>6. NamedBy(d)'
      <3>1. Clock(op[d].rev)' = Clock(r) /\ Clock(c)' = Clock(c)
        BY <2>1, <2>3 DEF Clock
      <3>2. (strictly_dominates(Clock(c), Clock(op[d].rev)))'
        BY <2>5, <3>1 DEF strictly_dominates
      <3>3. QED
        BY <1>3, <1>4, <2>1, <2>3, <3>2 DEF NamedBy
    <2>7. KnownBy(d)'
      <3>1. Hist(base[d])' = Hist(base[d])
        BY <2>1 DEF Hist
      <3>2. QED
        BY <1>3, <1>4, <2>1, <3>1 DEF KnownBy, Staging
    <2>8. QED
      BY <1>2, <1>3, <2>1, <2>3, <2>6, <2>7, QuietInv DEF Staging
  <1>13. CASE GcDelete(d)
    <2>1. /\ UNCHANGED <<content, history, base, revs, heads, past, latest>> /\ End(d)
          /\ pc[d] = "delete" /\ snapshots' = snapshots \ {op[d].rev}
      BY <1>13 DEF GcDelete, local
    <2>2. PICK c \in Published : strictly_dominates(Clock(c), Clock(op[d].rev))
      BY <1>3, <2>1 DEF NamedBy
    <2>3. \A r \in snapshots \ snapshots' :
            r \notin Maximal({heads[e] : e \in Device} \ {0}) /\ \A e \in Staged : op[e].rev # r
      BY <1>1, <2>1, <2>2, Collectable DEF TypeOK
    <2>4. /\ base'[d] \in Published \cup {0} /\ content'[d] \in history'[d] \cup {0}
          /\ Hist(base[d])' \subseteq history'[d] \cup Forgone
      BY <1>3, <1>4, <2>1 DEF NamedBy, KnownBy, Hist
    <2>5. QED
      BY <1>2, <2>1, <2>3, <2>4, EndInv
  <1>14. CASE reserve_snapshot_capacity(d)
    <2>1. UNCHANGED <<content, history, base, revs, heads, past, latest, pc, op>> /\ pc[d] = "upload"
      BY <1>14 DEF reserve_snapshot_capacity, local
    <2>2. PICK expected \in IF op[d].chosen # 0 THEN {op[d].chosen}
                            ELSE IF op[d].observed = {} THEN {0} ELSE op[d].observed :
            \E r \in snapshots : \E commits \in authenticated_commits(d, expected) :
              causally_collectable(r, commits) /\ snapshots' = snapshots \ {r}
      BY <1>14 DEF reserve_snapshot_capacity, Garbage
    <2>3. PICK r \in snapshots, commits \in authenticated_commits(d, expected) :
            causally_collectable(r, commits) /\ snapshots' = snapshots \ {r}
      BY <2>2
    <2>4. expected \in Published \cup {0}
      BY <1>3 DEF NamedBy
    <2>5. commits \subseteq Published
      BY <2>4 DEF authenticated_commits, Listings
    <2>6. PICK c \in Published : strictly_dominates(Clock(c), Clock(r))
      BY <2>3, <2>5 DEF causally_collectable
    <2>7. \A q \in snapshots \ snapshots' :
            q \notin Maximal({heads[e] : e \in Device} \ {0}) /\ \A e \in Staged : op[e].rev # q
      BY <1>1, <2>3, <2>6, Collectable DEF TypeOK
    <2>8. NamedBy(d)' /\ KnownBy(d)'
      <3>1. NamedBy(d)' = NamedBy(d) /\ KnownBy(d)' = KnownBy(d)
        BY <2>1 DEF NamedBy, KnownBy, Published, Forgone, Clock, Hist, strictly_dominates
      <3>2. QED
        BY <1>3, <3>1
    <2>9. QED
      BY <1>2, <1>3, <2>1, <2>7, <2>8, QuietInv
  <1>15. CASE request_cancel(d)
    <2>1. UNCHANGED <<content, history, base, revs, heads, past, snapshots, latest, pc, op>>
      BY <1>15 DEF request_cancel, local, remote
    <2>2. NamedBy(d)' /\ KnownBy(d)'
      <3>1. NamedBy(d)' = NamedBy(d) /\ KnownBy(d)' = KnownBy(d)
        BY <2>1 DEF NamedBy, KnownBy, Published, Forgone, Clock, Hist, strictly_dominates
      <3>2. QED
        BY <1>3, <3>1
    <2>3. pc'[d] \in {"check", "commit", "validate", "publish"} => op'[d].rev \in snapshots'
      BY <1>1, <2>1 DEF StagedSnapshotKept
    <2>4. QED
      BY <1>2, <1>3, <2>1, <2>2, <2>3, QuietInv
  <1>16. CASE Fail(d)
    <2>1. UNCHANGED <<content, history, base, revs, heads, past, snapshots, latest>> /\ End(d)
      BY <1>16 DEF Fail, local, remote
    <2>2. /\ base'[d] \in Published \cup {0} /\ content'[d] \in history'[d] \cup {0}
          /\ Hist(base[d])' \subseteq history'[d] \cup Forgone
      BY <1>3, <1>4, <2>1 DEF NamedBy, KnownBy, Hist
    <2>3. QED
      BY <1>2, <2>1, <2>2, EndInv
  <1>17. CASE pc[d] = "idle" /\ shown[d] # {} /\ \E H \in Reads(d, 0) : recover(d, H)
    BY <1>17, RecoverInv
  <1>18. QED
    BY <1>5, <1>6, <1>7, <1>8, <1>9, <1>10, <1>11, <1>12, <1>13, <1>14, <1>15, <1>16,
       <1>17 DEF Step

LEMMA InvInit ==
  ASSUME Init
  PROVE  SyncInv
  <1>1. TypeOK /\ OperationInv
    BY TypeInit
  <1>2. Published = {} /\ Revision = {} /\ Staged = {} /\ \A d \in Device : heads[d] = 0
    BY DEF Init, Published, Revision, Staged, Staging
  <1>3. NamedInv /\ HistoryInv
    BY <1>2 DEF Init, NamedInv, NamedBy, HistoryInv, KnownBy, NoOp, Hist, Staging
  <1>4. CommitInv /\ StagedInv /\ CausalInv /\ CountersNameCommits /\ StagedSnapshotKept
    BY <1>2 DEF Init, CommitInv, StagedInv, CausalInv, CountersNameCommits, StagedSnapshotKept
  <1>5. BranchesReadable
    BY <1>2 DEF BranchesReadable, Maximal
  <1>6. QED
    BY <1>1, <1>3, <1>4, <1>5 DEF SyncInv

(* SyncInv holds in every reachable state if a device sees its own head    *)
(* whenever the clock from which its operation starts does not record it.  *)
LEMMA SyncInvariant ==
  ASSUME ~StaleAfterUnrecorded
  PROVE  Spec => []SyncInv
  <1>1. ASSUME SyncInv, [Next]_vars
        PROVE  SyncInv'
    <2>1. CASE Next
      BY <1>1, <2>1, InvStep DEF Next
    <2>2. CASE UNCHANGED vars
      <3>1. PICK d \in Device : TRUE
        BY SyncAssumption
      <3>2. /\ UNCHANGED <<edits, content, history, base, shown, revs, heads, past, snapshots, latest>>
            /\ UNCHANGED <<pc, op, control>>
        BY <2>2 DEF vars, local, remote
      <3>3. TypeOK' /\ OperationInv'
        <4>1. Revision' = Revision /\ Revisions' = Revisions
          BY <3>2 DEF Revision, Revisions, Clocks
        <4>2. TypeOK'
          BY <1>1, <3>2, <4>1 DEF SyncInv, TypeOK
        <4>3. OperationInv'
          BY <1>1, <3>2, <4>1 DEF SyncInv, OperationInv
        <4>4. QED
          BY <4>2, <4>3
      <3>4. NamedBy(d)' /\ KnownBy(d)' /\ latest \in Published \cup {0}
        <4>1. NamedBy(d)' = NamedBy(d) /\ KnownBy(d)' = KnownBy(d)
          BY <3>2 DEF NamedBy, KnownBy, Published, Forgone, Clock, Hist, strictly_dominates
        <4>2. QED
          BY <1>1, <4>1 DEF SyncInv, NamedInv, HistoryInv
      <3>5. pc'[d] \in {"check", "commit", "validate", "publish"} => op'[d].rev \in snapshots'
        BY <1>1, <3>2 DEF SyncInv, StagedSnapshotKept
      <3>6. QED
        BY <1>1, <3>2, <3>3, <3>4, <3>5, QuietInv
    <2>3. QED
      BY <1>1, <2>1, <2>2
  <1>2. QED
    BY <1>1, InvInit, PTL DEF Spec

-----------------------------------------------------------------------------
(* The theorems.                                                           *)

(* No two publications of a device carry the same counter, those of its    *)
(* recoveries included: a publication is seen, or its counter is in the    *)
(* clock that the next one follows.                                        *)
THEOREM CountersAreUnique ==
  ASSUME ~StaleAfterUnrecorded
  PROVE  Spec => []CountersNameCommits
  BY SyncInvariant, PTL DEF SyncInv

(* A commit dominates another one only if it knows the other one's edits,  *)
(* except for edits that a published recovery passed over.                 *)
THEOREM DominanceIsKnowledge ==
  ASSUME ~StaleAfterUnrecorded
  PROVE  Spec => []CausalOrderIsHistory
  <1>1. ASSUME SyncInv, NEW r \in Published, NEW s \in Published,
               strictly_dominates(Clock(r), Clock(s))
        PROVE  revs[s].history \subseteq revs[r].history \cup Forgone
    <2>1. PICK e \in Device : s \in past[e]
      BY DEF Published
    <2>2. Hist(s) \subseteq Hist(r) \cup Lost(r) \cup Forgone /\ Lost(r) \subseteq Forgone
      BY <1>1, <2>1, PublishedTypes DEF SyncInv, CausalInv, strictly_dominates
    <2>3. r # 0 /\ s # 0
      BY <1>1, PublishedTypes, RevisionTypes DEF SyncInv
    <2>4. QED
      BY <2>2, <2>3 DEF Hist
  <1>2. SyncInv => CausalOrderIsHistory
    BY <1>1 DEF CausalOrderIsHistory
  <1>3. QED
    BY <1>2, SyncInvariant, PTL

(* Collection, on any device and with any listing, leaves the snapshot of  *)
(* every branch in place.                                                  *)
THEOREM BranchesStayReadable ==
  ASSUME ~StaleAfterUnrecorded
  PROVE  Spec => []BranchesReadable
  BY SyncInvariant, PTL DEF SyncInv

(* Collection leaves every snapshot in place that a device has uploaded and *)
(* is about to publish, although no head names it yet.                     *)
THEOREM StagedSnapshotsStay ==
  ASSUME ~StaleAfterUnrecorded
  PROVE  Spec => []StagedSnapshotKept
  BY SyncInvariant, PTL DEF SyncInv

(* What a step may do to the last edit of a device.                        *)
LEMMA NoLossStep ==
  ASSUME SyncInv, NEW e \in Device, Step(e), NEW d \in Device
  PROVE  \/ content[d] \in history'[d] \cup {0}
         \/ op[d].kind = "keepCloud"
         \/ content[d] \in Forgone
  <1>1. TypeOK /\ OperationInv /\ KnownBy(d) /\ content[d] \in history[d] \cup {0}
    BY DEF SyncInv, HistoryInv, KnownBy
  <1>2. CASE e = d /\ apply_sync_snapshot_checked(d)
    <2>1. pc[d] = "apply" /\ content[d] = op[d].local
      BY <1>2 DEF apply_sync_snapshot_checked
    <2>2. op[d].rev \in Revision /\ op[d].rev # 0 /\ op[d].kind \in Pull \cup {"recover"}
      BY <1>1, <2>1, RevisionTypes DEF OperationInv
    <2>3. history'[d] = Hist(op[d].rev)
      BY <1>1, <1>2, <2>2 DEF apply_sync_snapshot_checked, TypeOK, Hist
    <2>4. QED
      BY <1>1, <2>1, <2>2, <2>3 DEF KnownBy, Pull
  <1>3. CASE e # d \/ ~apply_sync_snapshot_checked(e)
    <2>1. history[d] \subseteq history'[d]
      <3>1. CASE Edit(e) \/ Wipe(e) \/ record(e) \/ apply_sync_snapshot_checked(e)
        BY <1>1, <1>3, <3>1 DEF Edit, Wipe, record, apply_sync_snapshot_checked, TypeOK
      <3>2. CASE pc[e] = "idle" /\ \E H \in Reads(e, base[e]) :
                   \E B \in {Maximal(H)} :
                   UpToDate(e, B) \/ push(e, H, B) \/ pull(e, B)
                     \/ keepLocal(e, H, B) \/ keepCloud(e, H, B)
                     \/ LegacyMigrated(e, B) \/ Offer(e, B)
        <4>1. PICK H \in Reads(e, base[e]) :
                \/ UpToDate(e, Maximal(H)) \/ push(e, H, Maximal(H)) \/ pull(e, Maximal(H))
                \/ keepLocal(e, H, Maximal(H)) \/ keepCloud(e, H, Maximal(H))
                \/ LegacyMigrated(e, Maximal(H)) \/ Offer(e, Maximal(H))
          BY <3>2
        <4>2. CASE UpToDate(e, Maximal(H))
          BY <1>1, <4>2 DEF UpToDate, TypeOK
        <4>3. CASE \/ push(e, H, Maximal(H)) \/ pull(e, Maximal(H))
                   \/ keepLocal(e, H, Maximal(H)) \/ keepCloud(e, H, Maximal(H))
                   \/ LegacyMigrated(e, Maximal(H)) \/ Offer(e, Maximal(H))
          BY <4>3 DEF push, pull, keepLocal, keepCloud, LegacyMigrated, Offer, Build,
             Continue, local
        <4>4. QED
          BY <4>1, <4>2, <4>3
      <3>3. CASE \/ upload(e) \/ ensure_remote_head_unchanged(e) \/ BeginCommit(e) \/ validate(e)
                 \/ publish(e) \/ write_sync_pointer(e) \/ GcPlan(e) \/ GcDelete(e)
                 \/ reserve_snapshot_capacity(e) \/ request_cancel(e) \/ Fail(e)
        BY <3>3 DEF upload, ensure_remote_head_unchanged, BeginCommit, validate, publish,
           write_sync_pointer, GcPlan, GcDelete, reserve_snapshot_capacity, request_cancel,
           Fail, local
      <3>4. CASE pc[e] = "idle" /\ shown[e] # {} /\ \E H \in Reads(e, 0) : recover(e, H)
        BY <3>4 DEF recover, Build, Continue, local
      <3>5. QED
        BY <3>1, <3>2, <3>3, <3>4 DEF Step
    <2>2. QED
      BY <1>1, <2>1
  <1>4. QED
    BY <1>2, <1>3

(* No step replaces a configuration by one whose author did not know its   *)
(* last edit, unless the user of the device chose the cloud's side or a    *)
(* published recovery passed over that edit.                               *)
THEOREM NothingIsLostSilently ==
  ASSUME ~StaleAfterUnrecorded
  PROVE  Spec => NoSilentLoss
  <1>1. ASSUME SyncInv, [Next]_vars
        PROVE  [\A d \in Device :
                  \/ content[d] \in history'[d] \cup {0}
                  \/ op[d].kind = "keepCloud"
                  \/ content[d] \in Forgone]_vars
    BY <1>1, NoLossStep DEF Next
  <1>2. QED
    BY <1>1, SyncInvariant, PTL DEF Spec, NoSilentLoss

=============================================================================
