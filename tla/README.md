# Verification of the ZzClawTerm sessions and cloud synchronisation

This directory holds TLA+ modules that model the concurrent core of
ZzClawTerm, a desktop terminal written in Rust, the TLC configurations that
check them on small instances, and proofs that TLAPS checks for every value of
the constants. Paths are relative to the repository; line numbers of every
modelled definition are in `PROJECT.json` under `map`.

    tlc -workers 2 -config MCQueueSafety.cfg MCSessionEventQueue
    tlapm SessionEventQueueProofs.tla

## 1. Inventory

ZzClawTerm is a Cargo workspace. `zzclawterm-transport` runs the sessions
(local PTY, SSH, telnet/TCP, serial, tmux control mode); `zzclawterm-desktop`
draws them and owns the event pump; `zzclawterm-core` and `zzclawterm-sync`
hold settings and synchronise them between devices; the rest are libraries
around those. The parts with state shared between threads, tasks or devices:

| part | state | operations | what makes it correct |
|---|---|---|---|
| session event queue (`transport/session_event_queue.rs`) | event deque, output byte count, backpressure flag, producers' turn, cancelled sessions, consumer of each session, closed flag | `push`, `push_async`, `drain*`, `cancel_session`, `resume_session`, `assign_consumer`, `clear_consumer`, `close`, `push_cleanup_failure` | one producer in turn; no lost wake-up; bytes within budget and counted right; per-session streams intact; a cancel releases everyone |
| SSH shell worker (`ssh_worker.rs`, `ssh_shell_integration.rs`, `tmux/detect.rs`) | locals of one `select!` loop: `pending_output`, pending send and resize, queued writes, integration phase, tmux detector | branches of the loop, deferred start, takeover, exit | ends when closed; gives its turn back; loses no byte; does not stop other sessions |
| native input path (`writer_mailbox.rs`, `transport_io.rs`) | queue, bytes, items, stopped, permit, writer thread | `send`, `wait_capacity`, `receive`, `stop`, keepalive, permit drop | budget kept until bytes are written; order kept; stop ends the writer; transfers progress |
| SSH input mailbox (`ssh_mailbox.rs`) | the same budget, a latest-size slot | `send`, `close`, `recv` | as above; the last size wins |
| tmux control mode (`tmux/session.rs`) | command queue, expected replies, and per pane: painted, seed in flight, generation, capture instant, output kept | handle a notification or a reply, send, poll, resume a paused pane | replies matched with their commands; a painted pane shows all its output; a pane is neither left paused nor blank |
| tmux pane mailbox (`tmux/mailbox.rs`) | queue with generations, suspension, an urgent control slot | reserve, enqueue, suspend, attach | a command never reaches an attachment it was not meant for |
| session manager and reaper (`session.rs`) | registry of sessions and panes, reaper queue | `start`, `close`, `close_detached`, `register_tmux_pane`, `remove`, drop | every worker is joined exactly once, also when a pane appears late |
| cloud snapshots V3 (`core/cloud_sync`) | remote: a head and a pending marker per device, immutable snapshots, a compatibility pointer, a recovery copy; local: configuration, baseline and the conflict shown | check, push, pull, resolve a conflict, recover, collect garbage, make room, cancel | no edit is lost without the user's choice; the causal order says what supersedes what; a snapshot that is needed is never deleted; a cancel is final |
| incremental sync V4 (`sync`) | changes, candidates, conflicts, trust | apply, isolate, materialise | isolation is sound; materialisation is deterministic |
| shared SSH connections (`desktop/app_shell/session_hub/ssh_connections.rs`) | weak registry, leases, disconnect worker | acquire, release, shutdown barrier | a lease is never of a connection being closed |

How they interact. A reader thread or an SSH task pushes `SessionEvent`s into
the one event queue; the desktop's pump and per-view consumers drain it. User
input goes through a bounded mailbox per session to a writer thread or to the
SSH worker's loop. The manager closes a session by cancelling it in the queue
(which releases a producer parked on it), closing its mailbox and joining its
worker. A tmux takeover runs inside the SSH worker and registers panes as
further sessions. Cloud synchronisation is apart from the sessions: the
devices meet only in the remote store, and one lock serialises the operations
of a device.

What is hard. The queue's waits are on three condition variables and a tokio
`Notify`, and every notification is sent after the unlock. A push is split into
chunks with the lock released in between, and the turn between chunks is a
Boolean that a destructor clears. Futures of pushes are dropped or replaced in
the middle. A `select!` handler that awaits suspends every other branch. Limits
are byte counts with two watermarks. Mailbox permits outlive the queue entry.
tmux replies carry no command id, and a compound command that fails answers
less than was asked. The remote store has no compare-and-swap, its listings are
out of date, and a device may stop between publishing a revision and saving
that it did. `PROJECT.json` lists 40 such hazards under `hazards`, each at its
line and with the properties that would catch it; the ones of parts not modelled
yet say so.

## 2. Modules

| module | models | composes |
|---|---|---|
| `SessionEventQueue` | the event queue and everything that calls it | |
| `SshShellWorker` | the SSH shell task, the thread that closes it, another session's reader, the pump | `SessionEventQueue` |
| `InputBudget` | abstract: what an input mailbox promises | |
| `WriterMailbox` | mailbox, writer thread, input threads, file transfers | refines `InputBudget` |
| `TmuxControl` | the control-mode client for one pane, the channel, and tmux as an external server | |
| `SnapshotSync` | the devices' cloud operations and the remote store | |
| `SessionEventQueueProofs` | theorems about the queue's turn, wake-ups and budget | |
| `SessionEventQueueStreamProofs` | theorems about what is in the queue | builds on `SessionEventQueueProofs` |
| `SshShellWorkerProofs` | theorems about the worker and the queue together | builds on `SessionEventQueueProofs` |
| `WriterMailboxProofs` | theorems about the mailbox, and that it implements `InputBudget` | |
| `SnapshotSyncProofs` | theorems about cloud snapshots | |
| `TmuxControlProofs` | theorems about the types and the replies of tmux control mode | uses `FlattenLemmas` |
| `TmuxOutputProofs` | the theorem about a pane's output | builds on `TmuxControlProofs` |
| `FlattenLemmas` | lemmas about `FlattenSeq` and short sequences | |
| `MC*` | instances for TLC | |

### SessionEventQueue

Each action is one region of the code that holds the mutex `inner`. The
notifications that follow an unlock are in `owed` and are sent by `Notify`, so
that any thread may run between the unlock and the notification. A producer's
`pc` is where its `push` is: `turn` and `turn_wait` are `begin_push`, `body` and
`space_wait` are the chunk loop with the turn held. An async producer differs
in what wakes it (`async_changed` for everything), in that its future may be
dropped (`DropPush`) and in the notification an abandoned event sends.

The deque is a set of events with increasing stamps: draining for one consumer
takes events from the middle, which a set states directly. Output is a byte
range of its producer's stream, so `StreamIntact` can compare what is queued
with what was taken (`sent`) and what was drained or discarded (`settled`; the
two are history variables). `Drain` covers all the drain functions: they differ
in which events belong to the caller (`Belongs`), in the limits and in whether
they wait (`ConsumerPark`). A producer's check and its parking are one step,
because the condition variable is waited for under the mutex and the `Notified`
is enabled before the check (line 187): a missing notification is seen by the
properties, an `enable()` moved behind the check would not be.

Abstracted: contents and wording of events, peak counters and test counters,
poisoned mutexes.

### SshShellWorker

`w` holds the locals of the loop in `run_open_ssh_shell_session`; one action per
branch, plus `LoopTop` for the statements before the `select!`. The worker has
two pushes in the queue. `Out` is `pending_output`: it takes steps only in
`poll`, between `PollOutput` and `PollReturns`. `Hnd` is a push that a branch's
handler awaits: while it runs (`at = "handler"`) no branch is polled, `Out`
included. `script` is what each still has to push. Assigning `pending_output`
while it is `Some` drops the old future (`Flush`), as ending the task does
(`Exit`); both are `DropPush` of the queue.

What the tmux detector withholds, what the OSC filter hides and what it finds
in the bytes is a choice, limited by the detector's state (`armed`, `quiet`,
`withheld`) and the integration phase. The tmux control session is external: it
ends by returning to the shell or by ending the worker. `Close` is
`SessionManager::close` for an SSH session, in its order.

### WriterMailbox and InputBudget

A step is a region under the mailbox's mutex; here the `notify_all` calls are
made by the same call, and the only waiter without a timeout is the writer, so
waking it is part of the step. The writer's program counter separates taking a
command (`Receive`), the write and the drop of the permit, because `stop`, a
failure or a send may come between any two of them. `InputBudget` says a command
is charged from acceptance until it is written or discarded, within two limits,
and that nothing is accepted after a stop; the refinement maps `charged` to the
queued commands and the one whose permit the writer has.

### TmuxControl

The client is `ControlSession`: `outgoing` and `pending` are its command lines
and `pending_responses`, `pane` is a `VirtualPane` with the same flags
(`seeding`, `seeded`, `reseed`, `seed_barrier` as `barrier`,
`seed_generation` as `gen`) together with the output that is kept before the pane is
mapped, `paused` and `timer` are `paused_panes` and `continue_deadline`. One
action handles one line or one whole reply block (`handle_message`), because the
parser hands a block over when it ends; `start_send`, the two-second poll, the
user's commands and the continue timer are the other branches of the loop. tmux
itself is external: it produces chunks of output, sends them with their age,
pauses and resumes the pane, and runs a command line up to its first error. A
block has the list of entries it settles, which only the property `Correlated`
reads. A free-form user command answers with any number of blocks (none or one
here) before its barrier.

A screen is the set of chunks it shows: a capture shows all chunks produced so
far. Instants are ticks. The code drops output with `at <= capture_at`; two
instants in one tick have no known order, and the model takes the side of the
comparison that shows such output (again); the other side occurs across ticks.
With `Lag = FALSE` a message is handled within the tick in which it was
sent; with `Lag = TRUE` any time may pass. A poll that was not sent is not queued
a second time, which bounds the queue without changing what it does. The loop's
other exits (channel closed, write timeout, tmux gone) only cut a behaviour
short and have no action.

Left out: several panes and windows (the flags are per pane and do not interact
except through the queue), pane removal and respawn, the bootstrap and the
detach, sizes, directory queries, input batching.

### SnapshotSync

An action is one remote call of an operation, or one store job. `revs` is the
log of all revisions built, with author, content, vector clock, and `history`,
the edits that the revision holds or that its author chose to discard (a ghost:
the code has no such field). `base` is `CloudSyncState`, `heads`, `snapshots` and
`latest` are the remote files; `past` records every head a device ever had,
because an eventually consistent listing (`Listings`) may serve any of them, or
none. Building the local snapshot, reading the remote and deciding are one
action: nothing changes before the decision, and what was read may be stale
anyway. `push`, `pull`, `keepLocal` and `keepCloud` have the guards of
`push_snapshot_prepared`, `pull_snapshot_prepared`, `check_snapshot_inner` and
`resolve_with_remote`; the automatic check chooses among the first two by the
same guards. Then follow the upload (after `reserve_snapshot_capacity` on stores
with a limit of files), the comparison of the pointer (a plain push) or of the
branches and the local content (a resolution), the commit transition, the head,
the pointer and the baseline or the replacement of the local content. `Fail` at
any point is every error, refusal, noticed cancellation and crash; a save that
fails after the content was replaced is in `apply_sync_snapshot_checked`.
Garbage collection takes one listing to protect, another to authorise, and
looks again before it deletes.

A branch whose snapshot cannot be read leads to the recovery copy
`sync/current.redb.enc`. Every publication tries to write its snapshot there and
ignores a failure, and a provider may serve an old version, so a read may return
any published revision (`Copies`). If the copy is of the branch itself, the
snapshot is uploaded again (`LegacyMigrated`). If it is of another revision, the
user is offered a recovery (`Offer`): `shown` is the conflict kept by the desktop,
which stays there after a failed operation and is taken down by a successful one
(`complete_job`). The user may accept much later. `recover` then reads the copy
and the heads again and compares neither with what was shown: it builds a
revision of whatever the copy is by now, with `next_clock(None, ..)`, the join of
all heads listed by now (`protocol.rs:391-400`). It goes on like a plain push up
to the pointer, and replaces the local content like a pull. `forgone` is a ghost:
the edits that the heads in that listing hold, and that neither the copy, nor the
branch shown, nor the device itself holds.

Abstracted: encryption and wrong passwords (they only refuse), pending markers
(they only protect more; a listing may omit them), the recovery copy as
protection from collection (it may be read out of date), pointers of older
versions without a clock, retention counts and ages. A snapshot is there or
missing; a damaged one is treated by the code like a missing one, and the model
has only missing ones. Making room during a migration is left out. A device
absent from a clock counts 0.

## 3. Runs

| run | instance | shows |
|---|---|---|
| `queue_safety` | a reader thread and a task, two sessions, two pushes of 3 bytes each; chunk 2, limit 4, low 2; two manager operations; the pump drains with budgets 1 and 4 | `TypeOK`, `TurnExclusive`, `NoLostWakeup`, `Hysteresis`, `Accounting`, `ChunksContiguous` |
| `queue_routing` | two symmetric consumers, three manager operations, drains of 1 byte | `StreamIntact`, `CancelledIsSilent`, `ConsumerIsWoken` |
| `queue_liveness` | as `queue_safety`, one push each, fair | `CancelReleases`, `PushReturns` |
| `worker_input` | integration and post-login on, no tmux detector, a 2-byte first output over a 1-byte limit, two reads, one input, one close | `TurnReturned`, `BytesAccounted`, `CloseEndsWorker`, `InputReleased` |
| `worker_progress` | tmux detector can be armed, one read of 2 bytes over a 1-byte limit, another session's reader, fair | `TurnReturned`, `BytesAccounted`, `OverloadEndsUnlessSelfBlocked` |
| `worker_overload` | as `worker_progress` | violates `OverloadEnds` (finding 1) |
| `worker_lossless` | as `worker_progress` | violates `Lossless` (finding 2) |
| `writer_mailbox` | a user with writes of 1 and 2 bytes, a transfer with frames of 3, 1 and 3, limits of 4 bytes and 2 items, two keepalives | `Counters`, `WrittenInOrder`, `FramesPreserved`, `WriterIsWoken`, `KeepsBudget`, `StopEndsWriter`, `TransferProceeds` |
| `snapshot_sync` | two symmetric devices, two edits, three revisions, every operation including recovery, stale listings and copies, failures at every step (2.2 million states) | `TypeOK`, `CountersNameCommits`, `CausalOrderIsHistory`, `BranchesReadable`, `StagedSnapshotKept`, `NoSilentLoss`, `CancelIsFinal` |
| `snapshot_unrecorded` | the same with push and pull, and a device that may miss its own head | violates `NoSilentLoss` (finding 3) |
| `tmux_control` | two chunks, one tick, two of: pause, foreign resume, layout, failed capture or cursor query, user command; 4 replies expected at most, 3 lines queued, 1 chunk kept; fair | `TypeOK`, `Correlated`, `NothingLost`, `PausedResumes`, `Painted` |
| `tmux_lag` | one chunk, one tick, messages handled late | violates `NothingLost` (finding 4) |

Why the bounds are enough. With an event of 3 bytes and chunks of 2, every
event has a full and a partial chunk; two of them exceed the limit of 4, so
producers are refused both with the flag on and because a chunk does not fit,
and a queue passes exactly through the low watermark. A drain budget of 1
splits every chunk. A manager with two operations can cancel and resume, or
cancel and close, while the producers are in any state; three let it reassign,
cancel and resume. In the worker runs a limit of 1 puts any read of 2 bytes
over budget, so `pending_output` is suspended both with the turn and waiting
for it. In the mailbox run both limits are reached separately and together.
Counters that the code does not bound (`MaxPushes`, `MaxOps`, `MaxReads`,
`MaxInputs`, `MaxOthers`, `MaxNops`) are bounds of the instance, named as such.
Three revisions are the fewest for which a commit is superseded while a third
one is staged (what garbage collection can get wrong), and for which a device
reuses a counter and is overtaken (finding 3, found with these bounds). They
are also enough for a recovery that supersedes a later head than the one whose
snapshot is gone. `worker_input` has no detector (`CanArm = FALSE`), so it cannot
reach the self-blocked state that `InputReleased` excepts. In
`tmux_control` two events let a pause meet a layout, a failure, a user command
or a second pause at every point of a seed; the queue of 3 can overflow, and 4
expected replies make a resuming seed of 3 wait for the poll's. The safety
properties were also explored with three events and all three commands failing
(2.5 million states) without a violation.

Deadlock is not checked: with bounded inputs every instance comes to a state
where all threads are idle. That nobody waits for ever is what the liveness
properties say.

Every property has a mutant of the modelled code (a dropped notification, a
guard removed, an off-by-one at the watermark, a permit that does not uncharge)
that violates it under the same configuration; `PROJECT.json` lists them.

### Fairness

- `SessionEventQueue!Fairness`: a producer whose next step is enabled takes it,
  and a thread that unlocked sends its notifications. Both are an OS thread or
  tokio task that keeps being scheduled. Nothing is assumed of consumers,
  managers or spurious wake-ups: `CancelReleases` holds with nobody draining.
- `SshShellWorker!WorkerFairness`: the task runs, the integration timers fire,
  a closed mailbox is noticed (weakly fair: `select!` picks among ready branches
  at random, and a closed mailbox stays ready), the other threads run. Nothing
  is assumed of the remote end or the user.
- `WriterMailbox!Fairness`: the writer and the input threads run.
- `TmuxControl!FairSpec`: the control loop handles what arrives and sends what is
  queued, its timers fire, and tmux runs the commands it received. The loop's
  `select!` is `biased` (`session.rs:1823`): control commands, the pending send
  and the timers come before the channel, which is last. None of the earlier
  branches stays ready: a send completes once per line, the poll ticks every two
  seconds, the other timers are set by what the loop handles, and commands are
  read only while the queue is less than half full, so the channel is reached
  unless the user issues commands without end, and the model's users do not.
  Nothing is assumed of the pane's output or of pauses.
- `SnapshotSync` has no fairness: an operation may stop anywhere for ever, and no
  property promises progress.
- Draining (`PushReturns`, `OverloadEnds*`, `InputReleased`) and writes that
  return (`StopEndsWriter`, `TransferProceeds`) are premises of the properties
  that need them, not of the specifications. A blocked native write is cancelled
  by platform code that is not modelled.

### Findings

1. `worker_overload`. Three branches of the loop are not guarded by
   `pending_output.is_none()` and their handlers await a push: a send error
   (`ssh_worker.rs:533`), the candidate deadline (619) and the silence deadline
   (639). If `pending_output` holds the queue's turn and waits for room, the
   handler waits for a turn that only an unpolled future can release. Draining
   does not help; all sessions' output stops until this session is cancelled.
   `OverloadEndsUnlessSelfBlocked` shows that this is the only way it happens.
2. `worker_lossless`. The candidate deadline assigns `pending_output` without
   checking that it is `None` (626); bytes the old future had not pushed are
   lost without a report. `BytesAccounted` shows that it is the only loss
   while the session is open.

3. `snapshot_unrecorded`. A head can be visible without being recorded: the
   read-back of `write_record` fails, saving the baseline fails (`mod.rs:968`), or
   the process stops in between. `next_clock` joins the baseline and what a
   listing shows; if the listing hides the device's own head, the counter is used
   a second time. Another device's revision built on the first commit then
   dominates the second, and the device pulls it over its own edit without a
   conflict. `sync-and-backup.md:28` promises that both commits are preserved and
   a later check shows the conflict. With `StaleAfterUnrecorded = FALSE` (a device
   sees its own head unless the clock its operation starts from records it, as
   stores that are consistent for their writer give) `NoSilentLoss` holds. A
   recovery starts from no clock, so it needs this even when the baseline records
   the head: if only recoveries may miss it, `CountersNameCommits` fails too.
4. `tmux_lag`. `capture_at` is when the client handles `%begin`
   (`session.rs:1190`, 1421), not when tmux captured. If the reply is handled
   late, output produced after the capture, and held back at the server so that it
   has an age, falls before that instant and is dropped, though the comment at
   304 asks to err toward replaying.

Met while modelling and not the subject of a run: a recovery can drop an edit
that nobody was asked about. `recover_current_remote_snapshot` joins the clocks of
all listed heads onto the copy (`protocol.rs:395-400`), which may be older than
those heads, and does not compare the heads with the conflict that was shown. The
pointer is compared (408), but only with what the recovery itself read. The
properties of `SnapshotSync` except just these edits (`Forgone`). Without the
exception TLC finds, within the bounds of `snapshot_sync`: a device publishes r1,
then r2 on top of it, and collects r1; the other device has an old listing, finds
r1 without a snapshot and is offered a recovery; it accepts, and the new revision
has the content of a copy of r1 and a clock that dominates r2's; the first device,
unchanged since r2, pulls it and loses its later edit without a conflict.
`sync-and-backup.md:28` says that causal records determine which changes
supersede others, and line 26 that the copy is not the sole authority; the test
of the recovery (`cloud_sync/tests.rs:1815`) has an up-to-date listing and
no head later than the one shown. A recovery that also required
the listed branches to be the one shown, as `ResolutionRemote::validate` does for
the other answers to a conflict, would pass over nothing: with that guard in
`recover`, TLC finds `Forgone` empty in every state of the same instance.

The comment at
`ssh_worker.rs:636` says detection stays armed after the silence notice, while
`tmux/detect.rs:344` disarms it; a failed resize ends the worker without any
event (`ssh_worker.rs:535`); events other than output are not bounded. In
`TmuxControl`, if the `continue` of a compound command fails (`Failing` with
"continue" and three events) while a reseed asked for by a layout is in flight,
the timer's `seed_pane` returns early and is not armed again: the pane stays
paused until its next layout or pause. That `continue` succeeds on a pane whose
capture and cursor query just succeeded in the same command line is an assumption
about tmux that `tmux_control` makes.

## 4. Proofs

Everything below is proved for every value of the constants that satisfies the
named assumptions: any number of producers, sessions, devices, revisions, bytes
and limits. All safety invariants and action properties of the passing runs are
proved.

### The event queue

Assumptions: `QueueLimits`, `QueueActors`.

| theorem | states |
|---|---|
| `TypeCorrect` | `TypeOK` |
| `TurnIsExclusive` | `TurnExclusive`: at most one producer has the turn, and the flag says so |
| `WakeupsAreNotLost` | `NoLostWakeup`: a parked producer has a reason or a wake-up on its way |
| `BackpressureHysteresis` | `Hysteresis`: the budget is kept and the flag is on only above the low watermark |
| `BytesAreCounted` | `Accounting`: the byte counter is the number of bytes queued |
| `StreamsStayIntact` | `StreamIntact`: of each stream the queue holds exactly what was pushed and not taken, in order |
| `ChunksStayTogether` | `ChunksContiguous`: chunks of one event are adjacent up to cleanup reports |
| `CancelSilences` | `CancelledIsSilent` |
| `ConsumersAreWoken` | `ConsumerIsWoken` |

The first four rest on
`QueueInv == TypeOK /\ TurnExclusive /\ NoLostWakeup /\ Hysteresis`. Each of the
last three needs the types of what it speaks about. The state of interest is the
one between an unlock and its notifications, which is why `NoLostWakeup` is
stated with what is `owed` and not just with what is true of the queue: without
that disjunct it is false after every release and every drain that lifts the
backpressure. `Hysteresis` is what makes the reason of a parked producer worth
having: backpressure implies more than `Low` bytes in the queue, so there is
something whose draining lifts it. It rests on the assumption
`Chunk <= Limit - Low` (256 KiB, 8 and 4 MiB in the code): without it a chunk
could be refused at or below the low watermark and no drain would ever lift the
backpressure. The proof has one lemma per group of actions, and under each one
step per conjunct that the action can disturb.

The other five are conjuncts of `StreamInv == QueueInv /\ ContentInv`.
`ContentInv` is these five and what ties the queue's contents to the producers.
`ShapeInv`: what an event of each kind looks like (its source, its session, a
non-empty range for output). `StampInv`: stamps are unique and not above `stamp`.
`PushInv`: an event's push is not later than its producer's current one, and
strictly earlier while that producer still awaits the turn; while a producer
holds the turn, what stands behind an event of its push is part of the same push
or a cleanup report. This is why the chunks stay together although the lock is
released between them. `SettledInv`: nothing is settled that was not sent.

### The SSH worker on the queue

Assumptions: those of the queue and `WorkerActors`.

| theorem | states |
|---|---|
| `QueueGuaranteesHold` | `TurnExclusive`, `NoLostWakeup`, `Hysteresis` in the composition |
| `WorkerLeavesNoTurn` | `TurnReturned`: an ended worker holds no turn |
| `EveryByteIsAccountedFor` | `BytesAccounted` |

`WorkerInv` is `QueueInv`, the types of the loop's locals, and four parts.
`ScriptInv`: a future's script is other events followed by at most one output.
`FutureInv`: a future exists only where the loop keeps one (the handler's inside
a handler, `pending_output` while it is `Some`), and a takeover starts without a
`pending_output`. `LocalsInv`: an idle push has nothing left, and the bytes a
failed attempt releases exist only inside its handler. `BytesAccounted` itself.
`TurnReturned` follows from `TurnExclusive`: the flag is on only if some producer
has the turn, and when the task has ended both of its own are idle. For the bytes,
each future has a credit, what it pushed and what it has still to push. A step of
a push keeps the credit while the session is accepted (`RunConserves`); the other
steps either leave the two futures alone (`ElsewhereKeeps`) or are one of three
kinds, each a lemma: a handler starts to await pushes (`AwaitStep`),
`pending_output` is assigned (`OutputStep`, the one step that adds to `lost`), or
only locals change (`LocalStep`). Since the loss is exactly what an overwritten
future had not pushed, finding 2 is the only loss for all sizes and limits.

### The native input path

Assumptions: those of `WriterMailbox`.

| theorem | states |
|---|---|
| `CountersAreExact` | `Counters`: both counters are what is charged |
| `WireIsPrefix` | `WrittenInOrder` |
| `TransfersKeepFrames` | `FramesPreserved` |
| `NoLostWakeup` | `WriterIsWoken` |
| `ImplementsBudget` | `KeepsBudget`: every step is a step of `InputBudget` or a stutter |

`MailboxInv` adds to the types and to `WriterIsWoken`: `HandInv` (what the writer
has in hand is the accepted command after the written ones, the last written one
while its permit is released, and otherwise nothing), `OrderInv` (what was written
is a prefix of what was accepted, the queue a suffix, and nothing is missing
between them unless the mailbox was stopped or is finishing), `SourceInv` (each
sender's commands were accepted in its order, and every frame before a transfer's
next one was accepted), `BudgetInv` (`Counters`, and the bytes are within the
limit) and `IdleInv` (a keepalive is being written only below the bound on them). The refinement needs `BudgetInv`: the code compares counters, the
abstract specification sums charges.

### Cloud snapshots

Assumptions: those of `SnapshotSync`; the theorems marked * also
`~StaleAfterUnrecorded`: a device sees its own head whenever the clock its
operation starts from does not record it, which a recovery, starting from no
clock, always needs. Run `snapshot_unrecorded` (finding 3) shows that
`NoSilentLoss` is false without it.

| theorem | states |
|---|---|
| `TypeCorrect` | `TypeOK` |
| `CancellationIsFinal` | `CancelIsFinal`: no step of a cancelled operation changes head, baseline or configuration |
| `CountersAreUnique` * | `CountersNameCommits` |
| `DominanceIsKnowledge` * | `CausalOrderIsHistory`: what supersedes a revision knows its edits, but for edits that a published recovery passed over |
| `BranchesStayReadable` * | `BranchesReadable` |
| `StagedSnapshotsStay` * | `StagedSnapshotKept` |
| `NothingIsLostSilently` * | `NoSilentLoss`: no step replaces a configuration by one whose author did not know its last edit, unless the user chose so or a published recovery passed over that edit |

`SyncInv` consists of the types, `OperationInv` (what an operation has read and
built, by its phase), `NamedInv` (heads, baselines and what an operation has
observed or chosen name published revisions, and what a deletion removes is
strictly dominated by a published one), `CommitInv` (a device's head is one of
its commits and has the largest counter for it of all published revisions),
`StagedInv` (a staged revision's own counter is above its head's, its other
counters are covered by the other heads), `CausalInv` (a published or staged
revision that counts a commit covers it and has its history, up to `Lost`, what
published recoveries and the revision itself passed over), `HistoryInv` (the
edits in a configuration are known to the history kept for it, a device knows its
baseline's history, a staged revision contains it, and what a pull applies
knows the local edit), and the three properties about counters, branches and
staged snapshots. They cannot be separated: a counter is fresh because the head
that used the last one is visible; clocks then mean history; garbage collection
spares what is dominated by nothing because dominance means knowledge.

### tmux control mode

Assumption: `TmuxAssumption`; `Lag` is arbitrary in the first two, and every set of
`Failing` commands is covered, `continue` included.

| theorem | states |
|---|---|
| `TypeCorrect` | `TypeOK` |
| `RepliesAreMatched` | `Correlated`: the entries the client waits for are those the replies on the wire and the lines not yet run will settle, in order |
| `NothingIsLost` | `~Lag` implies `NothingLost`: a painted pane shows what it produced, but for what is on its way or what the client is about to learn was discarded |

`TypeInv` adds to the types what a command line may be (`LineInv`) and that ages
do not exceed the clock (`AgeInv`). `CorrInv` adds `BlockInv`: the shape of
every reply on the wire (`Shaped`) and what stands next to it (`Adjacent`: a reply
of a free-form command is followed at once by a message that settles a user
entry, its barrier, and a reply to a resume that is not first on the wire stands
behind a successful reply that settles something). `Correlated` alone is not
inductive. A
failed reply settles as many entries as follow it in `pending` with the right
kinds and the same generation; that this is what the server skipped, no more,
holds because the entry after the skipped ones starts another command line
(`RestStarts`), and every command line starts with an entry that no failed part
can take for its own. Replies and lines are flattened sequences; the facts
about `FlattenSeq` (it distributes over concatenation, and the flattening of a
tail) are in `FlattenLemmas`.

`NothingIsLost` assumes that a message is handled within the tick in which it
was sent. The code does not guarantee that, and the assumption cannot be dropped:
the run `tmux_lag` shows what is lost without it (finding 4). Within a tick the
model compares instants on the side that shows the output, so the theorem does not
speak of output dropped because of the clock's resolution. It says that, these
two apart, nothing loses output. Its invariant `PaneInv` adds to `CorrInv`, while
the loop runs, the five parts of `OutputInv`:

- `SeedInv`: while a capture is in flight it is in exactly one place, a queued
  or sent line of the current generation, a capture reply on the wire followed at
  once by its cursor reply (or a failed one), or in `pane.seed` with the cursor
  reply first on the wire; otherwise no line or reply of the current generation
  exists. A painted pane has no seed line queued, and nothing belongs to a
  generation that is still to come.
- `PausedInv`: if the server has paused the pane, a `pause` without a later
  `continue` is on the wire, or there is no flow control on the wire and the
  client knows, or a resuming line of the current generation was not executed, or
  a failed reply that skips its `continue` is on the wire.
- `ContinueInv`: a `continue` on the wire follows a `pause`, or meets a client
  that knows of the pause, will learn that its resumption failed, or has captured
  nothing since.
- `TimeInv`: an output's age is what has passed since the chunk was produced,
  because no tick passes while a message waits; output in front of a capture reply
  is in the capture.
- `ShownInv`: what a painted screen, a capture on the wire or a kept capture does
  not show is still to come, and no older than the instant it is compared with,
  unless a `continue` is on the wire.

The last part alone is not inductive: chunks are skipped when the server
resumes the pane, and only the other parts say that the client then forgets the
screen and captures again. The parts are operators of the wire, the lines, the pane
and the server, so a step that removes a message and then calls `seed_pane` is
proved as two steps with a state in between that the program never stores.
Each step of the specification has a lemma (`ClockOutput`, `NotifyOutput`,
`ExecuteOutput`, `SendOutputs`, `PlainOutput`, `ContinueOutput`, `HandleOutput` with
one for each type of message). Before it was proved, TLC checked the invariant on
2.4 million states with three events and every command failing.

### What the prover cannot do here

The library's induction theorems take an operator as a parameter, and none of
the installed backends instantiates one. The few inductions needed (over the
length of a sequence for `FlattenSeq`, over a finite set for sums of charges)
are therefore by a least counterexample: the set of naturals at which the claim
fails, if not empty, has a least element, and the step contradicts it.

Only model-checked: all liveness properties (`CancelReleases`, `PushReturns`,
`CloseEndsWorker`, `InputReleased`, `OverloadEndsUnlessSelfBlocked`,
`StopEndsWriter`, `TransferProceeds`, `PausedResumes`, `Painted`), because the
prover has no fairness reasoning or ENABLED.

## 5. Not modelled

Dialling, authentication, agents and proxies; tunnels and X11; byte-level
parsers (telnet, tmux control protocol, OSC, modem transfers); terminal
emulation and rendering; the store, settings, plugins, MCP, recording, OTP,
remote desktop, remote operations and SFTP. They are sequential, or pure I/O
through a library; `PROJECT.json` gives the reason for each.

The pane mailbox, the registry of sessions and panes, the SSH mailbox's size
slot, the V4 engine and the pool of shared SSH connections have state worth
modelling and are in the plan; they are not modelled yet.

## 6. Plan

Done: the event queue, the SSH worker, the native input path, tmux control mode,
cloud snapshots, and the proofs of all their safety properties. Next, in order:

1. `TmuxMailbox` (generations and suspension, `tmux/mailbox.rs`) and
   `SessionRegistry` (close, detached close, late pane registration, reaper,
   drop of the manager), the latter composed with the queue's cancel and resume.
2. `SshMailbox` as a second implementation of `InputBudget`, with the
   latest-size slot.
3. `SyncEngine`: isolation of invalid changes against a reference definition.
4. `SshConnectionPool`: leases and the disconnect barrier.
