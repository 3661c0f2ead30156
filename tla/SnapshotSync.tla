---------------------------- MODULE SnapshotSync ----------------------------
(***************************************************************************)
(* Cloud snapshot synchronisation (crates/zzclawterm-core/src/cloud_sync). *)
(* Every device keeps its own configuration and the revision it last       *)
(* agreed on with the remote (its baseline).  The remote is a plain object *)
(* store without compare-and-swap: immutable snapshots, one head and one   *)
(* pending marker per device, a shared compatibility pointer and a         *)
(* recovery copy of one snapshot.  A revision carries a vector clock; a    *)
(* head that no other head dominates is a branch.                          *)
(*                                                                         *)
(* One action is one remote call (or one local store job) of an operation. *)
(* Any call may fail, the process may stop between two calls, and a        *)
(* listing of the heads may be out of date.  Operations of one device are  *)
(* serialised by lock_cloud_sync_operation.                                *)
(***************************************************************************)
EXTENDS Naturals, Sequences, FiniteSets, FiniteSetsExt

CONSTANTS
  Device,                \* the devices that share a remote namespace
  MaxEdits,              \* bound: edits the users make
  MaxRevisions,          \* bound: revisions the devices build
  Operations,            \* what the users do in this instance, see AllOperations
  StaleAfterUnrecorded   \* may a device miss its own head in a listing while the
                         \* clock its operation starts from does not record it?

AllOperations ==
  {"push", "pull", "keepLocal", "keepCloud", "recover", "gc", "reserve", "wipe",
   "cancel"}

ASSUME SyncAssumption ==
  /\ IsFiniteSet(Device) /\ Device # {}
  /\ MaxEdits \in Nat /\ MaxRevisions \in Nat
  /\ Operations \subseteq AllOperations
  /\ StaleAfterUnrecorded \in BOOLEAN

VARIABLES
  edits,      \* edits made so far: they name the contents
  content,    \* content[d]: d's configuration, 0 when it holds no user content
  history,    \* history[d]: the edits that d's configuration holds or
              \* supersedes (an observation of the run, no state of the code)
  base,       \* base[d]: CloudSyncState, the revision d last synchronised with
  shown,      \* shown[d]: CloudSyncFeatureState.conflict, the unreadable branch for
              \* which d offers a recovery
  revs,       \* the revisions built so far; 0 stands for none
  heads,      \* heads[d]: sync/heads/<d>.json
  past,       \* past[d]: every revision that was a head of d
  snapshots,  \* sync/snapshots/
  latest,     \* sync/latest.redb, the compatibility pointer
  pc,         \* pc[d]: where d's operation is
  op,         \* op[d]: what the operation has read and decided
  control     \* control[d]: CloudSyncOperationControl of the operation

local  == <<edits, content, history, base, shown>>
remote == <<heads, past, snapshots, latest>>
vars   == <<local, revs, remote, pc, op, control>>

Revision == 1 .. Len(revs)
Published == UNION {past[d] : d \in Device}
Clocks   == [Device -> Nat]
Push == {"push", "keepLocal"}
Pull == {"pull", "keepCloud"}
Kind == Push \cup Pull \cup {"recover", "gc"}
Allowed(operation) == operation \in Operations
Room == Len(revs) < MaxRevisions   \* a bound of the instance

NoOp == [kind |-> "push", local |-> 0, latest |-> 0, observed |-> {},
         chosen |-> 0, rev |-> 0]

-----------------------------------------------------------------------------
(* Vector clocks.  A device that is absent from a clock counts 0. *)

strictly_dominates(a, b) ==
  a # b /\ \A d \in Device : a[d] >= b[d]

\* The clock of a revision, and the clock of a baseline that has none.
Clock(r) == IF r = 0 THEN [d \in Device |-> 0] ELSE revs[r].clock

Content(r) == IF r = 0 THEN 0 ELSE revs[r].content

\* The edits that the revisions of S hold or supersede.
Held(S) == UNION {revs[r].history : r \in S}

\* Mistake: the clock forgets the baseline and follows only what was listed.
next_clock_listed(d, previous, H) ==
  [x \in Device |->
     Max({Clock(r)[x] : r \in H \cup {0}}) + (IF x = d THEN 1 ELSE 0)]

\* The clock of the revision that d builds: the join of its baseline and of
\* every head it saw, with its own counter advanced.
next_clock(d, previous, H) ==
  [x \in Device |->
     Max({Clock(r)[x] : r \in H \cup {previous}}) + (IF x = d THEN 1 ELSE 0)]

Maximal(H) ==
  {h \in H : ~\E o \in H : strictly_dominates(Clock(o), Clock(h))}

-----------------------------------------------------------------------------
(* What a listing may return.                                              *)

\* d published a revision whose counter is not in the clock of `known`, from
\* which its operation starts: the operation that published it ended before the
\* state was saved, or a recovery starts from no clock at all.
Unrecorded(d, known) == Clock(heads[d])[d] > Clock(known)[d]

\* The heads that no listing of d omits.
Seen(d, known) ==
  IF Unrecorded(d, known) /\ ~StaleAfterUnrecorded THEN {heads[d]} ELSE {}

\* A listing of the heads has at most one per device; an eventually consistent
\* provider omits a head or serves an earlier one.
Listings(d, known) ==
  LET seen == Seen(d, known) IN
  {L \in SUBSET Published :
     seen \subseteq L /\ \A x \in Device : Cardinality(L \cap past[x]) <= 1}

\* What a read of sync/current.redb.enc may return.  Every publication tries to
\* write its snapshot there, no failure is reported, and a provider may serve
\* an earlier copy.
Copies == Published

\* What heads::read returns: a listing and the compatibility pointer.
Reads(d, known) == {(L \cup {latest}) \ {0} : L \in Listings(d, known)}

-----------------------------------------------------------------------------
Init ==
  /\ edits = 0
  /\ content = [d \in Device |-> 0]
  /\ history = [d \in Device |-> {}]
  /\ base = [d \in Device |-> 0]
  /\ shown = [d \in Device |-> {}]
  /\ revs = <<>>
  /\ heads = [d \in Device |-> 0]
  /\ past = [d \in Device |-> {}]
  /\ snapshots = {}
  /\ latest = 0
  /\ pc = [d \in Device |-> "idle"]
  /\ op = [d \in Device |-> NoOp]
  /\ control = [d \in Device |-> "preparing"]

\* The user changes the configuration, also while an operation runs.
Edit(d) ==
  /\ edits < MaxEdits
  /\ edits' = edits + 1
  /\ content' = [content EXCEPT ![d] = edits + 1]
  /\ history' = [history EXCEPT ![d] = @ \cup {edits + 1}]
  /\ UNCHANGED <<base, shown, revs, remote, pc, op, control>>

\* The user removes everything the configuration held.
Wipe(d) ==
  /\ Allowed("wipe") /\ content[d] # 0 /\ edits < MaxEdits
  /\ edits' = edits + 1
  /\ content' = [content EXCEPT ![d] = 0]
  /\ UNCHANGED <<history, base, shown, revs, remote, pc, op, control>>

-----------------------------------------------------------------------------
(* Cancellation: one compare-and-swap decides between cancel and commit.   *)

\* Collection has a control of its own that never commits: cancelling it is
\* one of the ways it fails.
request_cancel(d) ==
  /\ Allowed("cancel") /\ pc[d] \notin {"idle", "delete"} /\ control[d] = "preparing"
  /\ control' = [control EXCEPT ![d] = "cancelled"]
  /\ UNCHANGED <<local, revs, remote, pc, op>>

\* Every remote call of an operation passes this test.
checkpoint(d) == control[d] # "cancelled"

\* Mistake: the publication starts without the transition.
begin_commit_skipped(d) == UNCHANGED control

\* The transition that opens the publication, also taken by the wrappers of
\* persist_cloud_sync_state and apply_sync_snapshot_checked.
begin_commit(d) ==
  /\ control[d] # "cancelled"
  /\ control' = [control EXCEPT ![d] = "committing"]

-----------------------------------------------------------------------------
(* Reading the remote and deciding.  An operation builds its local         *)
(* snapshot, reads the pointer, the heads and the snapshot of the branch,  *)
(* and decides; it changes nothing until the decision, and its view of the *)
(* heads may be out of date, so this is one action.                        *)

Goto(d, label) == pc' = [pc EXCEPT ![d] = label]

\* An operation that succeeds takes down the offer of a recovery.  Another
\* conflict and a restart do so too: an offer nobody accepts stands for that.
complete_job(d) == shown' = [shown EXCEPT ![d] = {}]

\* An operation ends; the control of the next one is new.
End(d) == /\ Goto(d, "idle")
          /\ op' = [op EXCEPT ![d] = NoOp]
          /\ control' = [control EXCEPT ![d] = "preparing"]

remote_precedes_baseline(d, r) == strictly_dominates(Clock(base[d]), Clock(r))

remote_concurrent_with_baseline(d, r) ==
  /\ base[d] # 0 /\ base[d] # r
  /\ ~strictly_dominates(Clock(base[d]), Clock(r))
  /\ ~strictly_dominates(Clock(r), Clock(base[d]))

\* Mistake: a remote revision is refused only if it is older.
validate_remote_baseline_older(d, r) == ~remote_precedes_baseline(d, r)

validate_remote_baseline(d, r) ==
  ~remote_precedes_baseline(d, r) /\ ~remote_concurrent_with_baseline(d, r)

local_content_changed(d) == base[d] = 0 \/ content[d] # Content(base[d])

remote_changed(d, r) == base[d] # r

\* There is a single branch r, it is valid for d's baseline, and its immutable
\* snapshot can be read.
Resolvable(d, B, r) == /\ B = {r} /\ r \in snapshots
                       /\ validate_remote_baseline(d, r)

\* The snapshot of the single branch cannot be read, and the recovery copy is
\* missing, unreadable or the copy of another revision.
Inconsistent(d, B) ==
  \E r \in B : B = {r} /\ r \notin snapshots /\ validate_remote_baseline(d, r)

\* The branches B show the user a conflict: several of them, one that does not
\* follow the baseline, one that cannot be read, or one that changed while
\* the local side changed too.
Conflicted(d, B) ==
  \/ Cardinality(B) > 1
  \/ Inconsistent(d, B)
  \/ \E r \in B :
       \/ remote_concurrent_with_baseline(d, r)
       \/ /\ remote_changed(d, r) /\ local_content_changed(d)
          /\ content[d] # Content(r) /\ Content(r) # 0
          /\ Resolvable(d, B, r)

\* Mistake: the branch that was selected is examined, concurrent ones are not.
MayPush_selected(d, B) ==
  \/ B = {}
  \/ \E r \in B :
       /\ r \in snapshots /\ validate_remote_baseline(d, r)
       /\ content[d] # Content(r) /\ local_content_changed(d)
       /\ remote_changed(d, r) => Content(r) = 0

\* push_snapshot_prepared goes on to an upload: the remote is empty, or only
\* the local side changed, or the unseen remote revision holds nothing.
MayPush(d, B) ==
  \/ B = {}
  \/ \E r \in B :
       /\ content[d] # Content(r) /\ local_content_changed(d)
       /\ remote_changed(d, r) => Content(r) = 0
       /\ Resolvable(d, B, r)

\* pull_snapshot_prepared goes on to apply r: only the remote side changed, or
\* the local side holds nothing to lose.
MayPull(d, B, r) ==
  /\ content[d] # Content(r) /\ remote_changed(d, r)
  /\ local_content_changed(d) => content[d] = 0
  /\ Resolvable(d, B, r)

\* The chosen cloud branch must be published again when it does not simply
\* follow the baseline.
requires_resolution(d, B, r) ==
  Cardinality(B) > 1 \/ ~validate_remote_baseline(d, r)

\* The operations that compare the pointer, and not the branches, before they
\* publish.
Checked == {"push", "recover"}

\* An operation of d goes on with revision r, and with what it compares again
\* later: the pointer, the local content, the branches.
Continue(d, kind, label, B, chosen, r) ==
  /\ op' = [op EXCEPT ![d] =
       [kind     |-> kind,
        local    |-> IF kind = "push" THEN 0 ELSE content[d],
        latest   |-> IF kind \in Checked THEN latest ELSE 0,
        observed |-> IF kind = "pull" THEN {} ELSE B,
        chosen   |-> chosen, rev |-> r]]
  /\ Goto(d, label)
  /\ UNCHANGED <<local, remote, control>>

\* The baseline whose clock the new one follows: a recovery passes none.
previous_clock(d, kind) == IF kind = "recover" THEN 0 ELSE base[d]

\* The revision of content c that d builds to replace the branches R, with the
\* clock that follows everything it saw.  A recovery does not compare what it
\* saw with what it replaces: `forgone` observes the edits it supersedes and
\* neither holds nor showed.
NewRevision(d, kind, H, c, R) ==
  LET known == history[d] \cup Held(R)
  IN  [dev |-> d, content |-> c, history |-> known,
       forgone |-> IF kind = "recover" THEN Held(H) \ known ELSE {},
       clock |-> next_clock(d, previous_clock(d, kind), H)]

\* Mistake: the operation publishes the revision after the one it built.
Build_next(d, kind, H, B, c, chosen, R) ==
  /\ revs' = Append(revs, NewRevision(d, kind, H, c, R))
  /\ Continue(d, kind, "upload", B, chosen, Len(revs) + 2)

\* d builds a revision with a new id and goes on to upload it.
Build(d, kind, H, B, c, chosen, R) ==
  /\ revs' = Append(revs, NewRevision(d, kind, H, c, R))
  /\ Continue(d, kind, "upload", B, chosen, Len(revs) + 1)

\* A push or a pull finds the remote equal to the local snapshot: the
\* baseline moves to the remote revision.
UpToDate(d, B) ==
  /\ \E r \in B :
       /\ content[d] = Content(r) /\ Resolvable(d, B, r)
       /\ base' = [base EXCEPT ![d] = r]
       /\ history' = [history EXCEPT ![d] = @ \cup revs[r].history]
  /\ complete_job(d)
  /\ UNCHANGED <<edits, content, revs, remote, pc, op, control>>

\* A plain push replaces nothing but a branch without user content.
push(d, H, B) ==
  /\ Allowed("push") /\ Room
  /\ MayPush(d, B)
  /\ Build(d, "push", H, B, content[d], 0, {r \in B : Content(r) = 0})

\* A pull applies the branch as it is.
pull(d, B) ==
  /\ Allowed("pull")
  /\ \E r \in B :
       /\ MayPull(d, B, r)
       /\ Continue(d, "pull", "apply", B, 0, r)
  /\ UNCHANGED revs

\* The user keeps the local side: every branch shown is replaced.
keepLocal(d, H, B) ==
  /\ Allowed("keepLocal") /\ Room
  /\ Conflicted(d, B)
  /\ Build(d, "keepLocal", H, B, content[d], 0, B)

\* The user keeps one branch of the cloud: the others are replaced by a new
\* revision of it, or it follows the baseline and is applied as it is.
keepCloud(d, H, B) ==
  /\ Allowed("keepCloud")
  /\ Conflicted(d, B)
  /\ \E r \in B \cap snapshots :
       \/ /\ Room /\ requires_resolution(d, B, r)
          /\ Build(d, "keepCloud", H, B, Content(r), r, B)
       \/ /\ ~requires_resolution(d, B, r)
          /\ Continue(d, "keepCloud", "apply", B, r, r)
          /\ UNCHANGED revs

-----------------------------------------------------------------------------
(* The recovery copy.                                                      *)

\* The snapshot of the single branch is gone and the recovery copy is a copy
\* of it: a push or a pull uploads it again before it goes on.
LegacyMigrated(d, B) ==
  /\ \E r \in B :
       /\ B = {r} /\ r \notin snapshots /\ r \in Copies
       /\ validate_remote_baseline(d, r)
       /\ snapshots' = snapshots \cup {r}
  /\ UNCHANGED <<local, revs, heads, past, latest, pc, op, control>>

\* A check, a push or a pull shows the user an unreadable branch and the copy
\* of another revision.
Offer(d, B) ==
  /\ Allowed("recover") /\ Room
  /\ Inconsistent(d, B) /\ Copies \ B # {}
  /\ shown' = [shown EXCEPT ![d] = B]
  /\ UNCHANGED <<edits, content, history, base, revs, remote, pc, op, control>>

\* The user accepts, at any later time: what the copy holds by then becomes a
\* new revision whose clock follows the heads listed by then.
recover(d, H) ==
  /\ Room
  /\ \E current \in Copies :
       Build(d, "recover", H, {latest} \ {0}, Content(current), 0, shown[d] \cup {current})

-----------------------------------------------------------------------------
(* Uploading and publishing.                                               *)

\* The snapshot is written and read back under its pending marker.
upload(d) ==
  /\ pc[d] = "upload" /\ checkpoint(d)
  /\ snapshots' = snapshots \cup {op[d].rev}
  /\ Goto(d, IF op[d].kind \in Checked THEN "check" ELSE "commit")
  /\ op' = IF op[d].kind \in Checked THEN [op EXCEPT ![d].observed = {}] ELSE op
  /\ UNCHANGED <<local, revs, heads, past, latest, control>>

ensure_remote_head_unchanged(d) ==
  /\ pc[d] = "check" /\ checkpoint(d)
  /\ latest = op[d].latest
  /\ Goto(d, "commit")
  /\ UNCHANGED <<local, revs, remote, op, control>>

BeginCommit(d) ==
  /\ pc[d] = "commit" /\ begin_commit(d)
  /\ Goto(d, IF op[d].kind \in Checked THEN "publish" ELSE "validate")
  /\ UNCHANGED <<local, revs, remote, op>>

\* ResolutionRemote::write: the branches and the local content the user saw
\* are compared once more before the head is written.
validate(d) ==
  /\ pc[d] = "validate"
  /\ op[d].observed \in {Maximal(H) : H \in Reads(d, base[d])}
  /\ content[d] = op[d].local
  /\ op[d].chosen \in snapshots \cup {0}
  /\ Goto(d, "publish")
  /\ UNCHANGED <<local, revs, remote, op, control>>

\* heads::publish writes the device head; the marker is deleted if possible.
\* What was compared is not used any more.
publish(d) ==
  /\ pc[d] = "publish"
  /\ heads' = [heads EXCEPT ![d] = op[d].rev]
  /\ past' = [past EXCEPT ![d] = @ \cup {op[d].rev}]
  /\ Goto(d, "pointer")
  /\ op' = [op EXCEPT ![d].latest = 0, ![d].observed = {}, ![d].chosen = 0]
  /\ UNCHANGED <<local, revs, snapshots, latest, control>>

\* The compatibility pointer and the recovery copy (see Copies) are written on
\* a best-effort basis.
write_sync_pointer(d) ==
  /\ pc[d] = "pointer"
  /\ latest' \in {latest, op[d].rev}
  /\ Goto(d, IF op[d].kind \in Push THEN "record" ELSE "apply")
  /\ UNCHANGED <<local, revs, heads, past, snapshots, op, control>>

\* persist_cloud_sync_state at the end of a push.
record(d) ==
  /\ pc[d] = "record"
  /\ base' = [base EXCEPT ![d] = op[d].rev]
  /\ history' = [history EXCEPT ![d] = @ \cup revs[op[d].rev].history]
  /\ complete_job(d) /\ End(d)
  /\ UNCHANGED <<edits, content, revs, remote>>

\* One store job compares the local content, replaces it and saves the
\* baseline; saving may fail after the replacement.
apply_sync_snapshot_checked(d) ==
  /\ pc[d] = "apply" /\ checkpoint(d)
  /\ content[d] = op[d].local
  /\ content' = [content EXCEPT ![d] = Content(op[d].rev)]
  /\ history' = [history EXCEPT ![d] = revs[op[d].rev].history]
  /\ \/ base' = [base EXCEPT ![d] = op[d].rev] /\ complete_job(d)
     \/ UNCHANGED <<base, shown>>
  /\ End(d)
  /\ UNCHANGED <<edits, revs, remote>>

\* Every other way an operation ends: a conflict or another refusal, a remote
\* call that fails, a cancellation that is noticed, a crash of the process.
Fail(d) ==
  /\ pc[d] # "idle"
  /\ End(d)
  /\ UNCHANGED <<local, revs, remote>>

-----------------------------------------------------------------------------
(* Garbage collection.  The age and number limits of plan_snapshot_gc, the *)
(* pending markers, which a listing may omit, and the recovery copy, which *)
(* may be read out of date, only narrow the choice.                        *)

\* Mistake: dominance is not strict, and a commit collects itself.
causally_collectable_reflexive(r, commits) ==
  \E c \in commits : \A d \in Device : Clock(c)[d] >= Clock(r)[d]

\* Mistake: what no head of the listing names is garbage.
causally_collectable_unnamed(r, commits) == TRUE

causally_collectable(r, commits) ==
  \E c \in commits : strictly_dominates(Clock(c), Clock(r))

\* Some listing of d does not name r.
Unprotected(d, r) == r \notin Seen(d, base[d])

\* The commits of a listing and the caller's pointer, each authenticated by
\* the snapshot it names.
authenticated_commits(d, known) ==
  {commits \in {(L \cup {known}) \ {0} : L \in Listings(d, base[d])} :
     commits \subseteq snapshots}

\* One listing protects, another one authorises.
Garbage(d, known) ==
  UNION {{r \in snapshots : Unprotected(d, r) /\ causally_collectable(r, commits)} :
         commits \in authenticated_commits(d, known)}

\* The caller adds the revision of its last result.
GcPlan(d) ==
  /\ Allowed("gc") /\ pc[d] = "idle"
  /\ \E r \in Garbage(d, base[d]) \ {base[d]} :
       op' = [op EXCEPT ![d] = [NoOp EXCEPT !.kind = "gc", !.rev = r]]
  /\ Goto(d, "delete")
  /\ UNCHANGED <<local, revs, remote, control>>

GcDelete(d) ==
  /\ pc[d] = "delete"
  /\ latest # op[d].rev
  /\ Unprotected(d, op[d].rev)
  /\ snapshots' = snapshots \ {op[d].rev}
  /\ End(d)
  /\ UNCHANGED <<local, revs, heads, past, latest>>

\* A store with a limit of files: an upload first makes room.  `expected` is
\* the branch that the new revision follows.
reserve_snapshot_capacity(d) ==
  /\ Allowed("reserve") /\ pc[d] = "upload" /\ checkpoint(d)
  /\ \E expected \in IF op[d].chosen # 0 THEN {op[d].chosen}
                     ELSE IF op[d].observed = {} THEN {0} ELSE op[d].observed :
     \E r \in Garbage(d, expected) \ {latest, expected} :
       snapshots' = snapshots \ {r}
  /\ UNCHANGED <<local, revs, heads, past, latest, pc, op, control>>

-----------------------------------------------------------------------------
Step(d) ==
  \/ Edit(d) \/ Wipe(d)
  \/ pc[d] = "idle" /\ \E H \in Reads(d, base[d]) :
       \E B \in {Maximal(H)} :
       UpToDate(d, B) \/ push(d, H, B) \/ pull(d, B)
         \/ keepLocal(d, H, B) \/ keepCloud(d, H, B)
         \/ LegacyMigrated(d, B) \/ Offer(d, B)
  \/ pc[d] = "idle" /\ shown[d] # {} /\ \E H \in Reads(d, 0) : recover(d, H)
  \/ upload(d) \/ ensure_remote_head_unchanged(d)
  \/ BeginCommit(d) \/ validate(d) \/ publish(d) \/ write_sync_pointer(d)
  \/ record(d) \/ apply_sync_snapshot_checked(d)
  \/ GcPlan(d) \/ GcDelete(d) \/ reserve_snapshot_capacity(d)
  \/ request_cancel(d) \/ Fail(d)

Next == \E d \in Device : Step(d)

Spec == Init /\ [][Next]_vars

-----------------------------------------------------------------------------
(* Properties.                                                             *)

Revisions == [dev : Device, content : 0 .. MaxEdits,
              history : SUBSET (1 .. MaxEdits), forgone : SUBSET (1 .. MaxEdits),
              clock : Clocks]

Label == {"idle", "upload", "check", "commit",
          "validate", "publish", "pointer", "record", "apply", "delete"}

\* The types of the variables; every revision a variable names was built.
TypeOK ==
  /\ edits \in 0 .. MaxEdits
  /\ content \in [Device -> 0 .. MaxEdits]
  /\ history \in [Device -> SUBSET (1 .. MaxEdits)]
  /\ revs \in Seq(Revisions) /\ Len(revs) <= MaxRevisions
  /\ base \in [Device -> Revision \cup {0}]
  /\ shown \in [Device -> SUBSET Revision]
  /\ heads \in [Device -> Revision \cup {0}]
  /\ past \in [Device -> SUBSET Revision]
  /\ snapshots \subseteq Revision
  /\ latest \in Revision \cup {0}
  /\ pc \in [Device -> Label]
  /\ op \in [Device -> [kind : Kind, local : 0 .. MaxEdits,
                        latest : Revision \cup {0}, observed : SUBSET Revision,
                        chosen : Revision \cup {0}, rev : Revision \cup {0}]]
  /\ control \in [Device -> {"preparing", "cancelled", "committing"}]

\* Two publications of one device never carry the same counter, whatever
\* failed between a publication and the saving of the baseline.
CountersNameCommits ==
  \A d \in Device : \A r, s \in past[d] :
    r # s => Clock(r)[d] # Clock(s)[d]

\* The edits that published recoveries superseded although the recovered copy
\* does not hold them and the user was not shown them.
Forgone == UNION {revs[r].forgone : r \in Published}

\* A revision supersedes another one in the causal order only if it holds the
\* edits of the other one, or its author chose to discard them: a branch never
\* disappears because a clock was joined with one nobody looked at.  The only
\* edits this does not hold for are those that a recovery passed over.
CausalOrderIsHistory ==
  \A r, s \in Published :
    strictly_dominates(Clock(r), Clock(s)) =>
      revs[s].history \subseteq revs[r].history \cup Forgone

\* No synchronisation step replaces a configuration by one whose author did
\* not know its last edit (and with it everything the edit was made on), unless
\* the user of the device chose the cloud's side, or a recovery passed over
\* that very edit.
NoSilentLoss ==
  [][\A d \in Device :
       \/ content[d] \in history'[d] \cup {0}
       \/ op[d].kind = "keepCloud"
       \/ content[d] \in Forgone]_vars

\* Collection never removes the snapshot of a branch: what a reader of the
\* current heads has to resolve or to show as a conflict can be read.
BranchesReadable ==
  Maximal({heads[d] : d \in Device} \ {0}) \subseteq snapshots

\* Collection never removes the snapshot that another device has uploaded
\* and verified and is about to publish.
StagedSnapshotKept ==
  \A d \in Device :
    pc[d] \in {"check", "commit", "validate", "publish"} => op[d].rev \in snapshots

\* Once the user was told that the operation is stopping, it publishes
\* nothing, moves no baseline and replaces no local content.
CancelIsFinal ==
  [][\A d \in Device :
       control[d] = "cancelled" =>
         /\ heads'[d] = heads[d] /\ base'[d] = base[d]
         /\ content'[d] \in {content[d], edits', 0}]_vars

=============================================================================
