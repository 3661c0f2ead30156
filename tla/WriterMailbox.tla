---------------------------- MODULE WriterMailbox ----------------------------
(***************************************************************************)
(* The input path of the local, telnet/TCP and serial transports: the      *)
(* bounded mailbox of crates/zzclawterm-transport/src/writer_mailbox.rs,   *)
(* the writer thread that empties it (run_transport_writer in              *)
(* transport_io.rs) and the threads that fill it (write_slice, and the     *)
(* retry loop of write_raw_cancellable in session.rs).                     *)
(*                                                                         *)
(* A command is <<thread, i>>, the thread's i-th write, or a keepalive     *)
(* <<NopSender, i>>.  Every step is one region that holds the mailbox's    *)
(* mutex, and its notify_all calls wake the writer in the same step.       *)
(***************************************************************************)
EXTENDS Integers, Sequences, FiniteSets, SequencesExt

CONSTANTS Threads,    \* threads that write input
          Transfers,  \* of those, file transfers, which retry a refused write
          Plan,       \* thread -> the byte counts of its writes, in order
          NopSender,  \* the writer thread, as the sender of keepalives
          NopCost,    \* bytes of a keepalive
          MaxNops,    \* bound: keepalives (0 for a transport without them)
          ByteLimit, ItemLimit

Commands == (UNION {{t} \X (1 .. Len(Plan[t])) : t \in Threads})
              \cup ({NopSender} \X (1 .. MaxNops))
Cost == [x \in Commands |-> IF x[1] = NopSender THEN NopCost ELSE Plan[x[1]][x[2]]]

(* A transfer's frame larger than the mailbox is refused before it is sent *)
(* (write_raw_cancellable_measured), so none is in a transfer's plan.      *)
ASSUME MailboxConstants ==
  /\ Transfers \subseteq Threads /\ NopSender \notin Threads
  /\ Plan \in [Threads -> Seq(Nat)]
  /\ \A t \in Transfers : \A i \in 1 .. Len(Plan[t]) : Plan[t][i] <= ByteLimit
  /\ NopCost \in Nat /\ MaxNops \in Nat /\ ByteLimit \in Nat /\ ItemLimit \in Nat

VARIABLES
  queue, bytes, items, stopped,  \* State
  hand,       \* the command whose WritePermit the writer has (a set of at most one)
  writer,     \* what the writer thread does
  lifecycle,  \* TelnetWriterLifecycle: the socket was shut down
  sender,     \* thread -> [pc, next]
  nops,       \* keepalives sent
  accepted,   \* every command accepted, in order
  written,    \* every command written to the wire, in order
  reported    \* an Error event was pushed for the session

state == <<queue, bytes, items, stopped>>
vars  == <<state, hand, writer, lifecycle, sender, nops, accepted, written, reported>>

Init ==
  /\ queue = <<>> /\ bytes = 0 /\ items = 0 /\ stopped = FALSE
  /\ hand = {}
  /\ writer = "loop"
  /\ lifecycle = FALSE
  /\ sender = [t \in Threads |-> [pc |-> "send", next |-> 1]]
  /\ nops = 0
  /\ accepted = <<>> /\ written = <<>>
  /\ reported = FALSE

(* The commands that the mailbox has accepted and not yet uncharged.       *)
Charged == ToSet(queue) \cup hand

Budget == INSTANCE InputBudget WITH charged <- Charged, open <- ~stopped

-----------------------------------------------------------------------------
SaturatingSub(a, b) == IF b >= a THEN 0 ELSE a - b

Full_items_only(n) == items >= ItemLimit
Full(n) == n > SaturatingSub(ByteLimit, bytes) \/ items >= ItemLimit

(* A notify_all on the mailbox wakes the writer if it is parked.           *)
Wake == writer' = IF writer = "parked" THEN "receive" ELSE writer

(* WriterMailbox::send, when it accepts.                                   *)
Enqueue_in_front(x) ==
  /\ ~stopped /\ ~Full(Cost[x])
  /\ queue' = <<x>> \o queue
  /\ bytes' = bytes + Cost[x]
  /\ items' = items + 1
  /\ accepted' = Append(accepted, x)
  /\ UNCHANGED stopped
Enqueue(x) ==
  /\ ~stopped /\ ~Full(Cost[x])
  /\ queue' = Append(queue, x)
  /\ bytes' = bytes + Cost[x]
  /\ items' = items + 1
  /\ accepted' = Append(accepted, x)
  /\ UNCHANGED stopped

HasNext(t) == sender[t].next <= Len(Plan[t])

(* A write: accepted; refused for lack of room, which a transfer waits out *)
(* and others report to the user; or refused because the mailbox stopped.  *)
Send(t) ==
  /\ sender[t].pc = "send" /\ HasNext(t)
  /\ LET x == <<t, sender[t].next>>
     IN  \/ /\ Enqueue(x)
            /\ Wake
            /\ sender' = [sender EXCEPT ![t].next = @ + 1]
         \/ /\ ~stopped /\ Full(Cost[x])
            /\ sender' = IF t \in Transfers THEN [sender EXCEPT ![t].pc = "wait"]
                         ELSE [sender EXCEPT ![t].next = @ + 1]
            /\ UNCHANGED <<state, writer, accepted>>
         \/ /\ stopped
            /\ sender' = [sender EXCEPT ![t].pc = "end"]
            /\ UNCHANGED <<state, writer, accepted>>
  /\ UNCHANGED <<hand, lifecycle, nops, written, reported>>

(* wait_capacity re-checks at every notification and every 25 ms; when it  *)
(* returns, the same frame is sent again.                                  *)
WaitCapacity_gives_up(t) ==
  /\ sender[t].pc = "wait"
  /\ \/ /\ stopped
        /\ sender' = [sender EXCEPT ![t].pc = "end"]
     \/ /\ ~stopped /\ ~Full(Plan[t][sender[t].next])
        /\ sender' = [sender EXCEPT ![t].pc = "send", ![t].next = @ + 1]
  /\ UNCHANGED <<state, hand, writer, lifecycle, nops, accepted, written, reported>>
WaitCapacity(t) ==
  /\ sender[t].pc = "wait"
  /\ \/ /\ stopped
        /\ sender' = [sender EXCEPT ![t].pc = "end"]
     \/ /\ ~stopped /\ ~Full(Plan[t][sender[t].next])
        /\ sender' = [sender EXCEPT ![t].pc = "send"]
  /\ UNCHANGED <<state, hand, writer, lifecycle, nops, accepted, written, reported>>

CancelTransfer(t) ==
  /\ t \in Transfers /\ sender[t].pc # "end"
  /\ sender' = [sender EXCEPT ![t].pc = "end"]
  /\ UNCHANGED <<state, hand, writer, lifecycle, nops, accepted, written, reported>>

-----------------------------------------------------------------------------
(* WriterMailbox::stop: what is queued is discarded and uncharged, and the *)
(* writer is woken.                                                        *)
QueuedCost == Budget!Load(ToSet(queue))  \* no command is queued twice

StopNotifies_nobody == UNCHANGED writer
StopNotifies == Wake

StopMailbox ==
  /\ stopped' = TRUE
  /\ queue' = <<>>
  /\ bytes' = bytes - QueuedCost
  /\ items' = items - Len(queue)

(* QueuedTransportWriter::close by the manager, or the TCP reader's end.   *)
Stop ==
  /\ ~stopped
  /\ StopMailbox /\ StopNotifies
  /\ UNCHANGED <<hand, lifecycle, sender, nops, accepted, written, reported>>

Shutdown ==
  /\ ~lifecycle
  /\ lifecycle' = TRUE
  /\ UNCHANGED <<state, hand, writer, sender, nops, accepted, written, reported>>

-----------------------------------------------------------------------------
(* The writer thread.                                                      *)
Halted == stopped \/ lifecycle

Go(pc) == writer' = pc /\ UNCHANGED <<state, hand, lifecycle, sender, nops, accepted,
                                      written, reported>>

WriterLoop == writer = "loop" /\ Go(IF Halted THEN "finish" ELSE "receive")

Receive ==
  /\ writer = "receive"
  /\ \/ /\ stopped
        /\ writer' = "finish"
        /\ UNCHANGED <<queue, hand>>
     \/ /\ ~stopped /\ queue # <<>>
        /\ queue' = Tail(queue)
        /\ hand' = {Head(queue)}
        /\ writer' = "got"
     \/ /\ ~stopped /\ queue = <<>>
        /\ writer' = "parked"
        /\ UNCHANGED <<queue, hand>>
  /\ UNCHANGED <<bytes, items, stopped, lifecycle, sender, nops, accepted, written, reported>>

(* The idle deadline passed while the queue was empty.                     *)
IdleTimeout == writer = "parked" /\ nops < MaxNops /\ Go("keepalive")

(* The mailbox may have changed since receive returned: it may be full,    *)
(* and then the queued input goes first.                                   *)
Keepalive ==
  /\ writer = "keepalive"
  /\ \/ /\ Enqueue(<<NopSender, nops + 1>>)
        /\ writer' = "loop"
        /\ nops' = nops + 1
     \/ /\ ~stopped /\ Full(NopCost)
        /\ writer' = "loop"
        /\ UNCHANGED <<state, nops, accepted>>
     \/ /\ stopped
        /\ writer' = "finish"
        /\ UNCHANGED <<state, nops, accepted>>
  /\ UNCHANGED <<hand, lifecycle, sender, written, reported>>

BeginWrite == writer = "got" /\ Go(IF Halted THEN "drop" ELSE "write")

(* The bytes are on the wire; the permit is dropped after that.            *)
WriteDone ==
  /\ writer = "write"
  /\ written' = written \o SetToSeq(hand)
  /\ writer' = "release"
  /\ UNCHANGED <<state, hand, lifecycle, sender, nops, accepted, reported>>

(* The write fails, or stops half-way: reported unless it was asked for.   *)
WriteFails ==
  /\ writer = "write"
  /\ reported' = (reported \/ ~Halted)
  /\ writer' = "drop"
  /\ UNCHANGED <<state, hand, lifecycle, sender, nops, accepted, written>>

(* WritePermit::drop.                                                      *)
DropPermit_uncounted ==
  /\ writer \in {"release", "drop"}
  /\ items' = items - Cardinality(hand)
  /\ hand' = {}
  /\ writer' = IF writer = "release" THEN "loop" ELSE "finish"
  /\ UNCHANGED <<queue, bytes, stopped, lifecycle, sender, nops, accepted, written, reported>>
DropPermit ==
  /\ writer \in {"release", "drop"}
  /\ \E x \in hand : bytes' = bytes - Cost[x]
  /\ items' = items - Cardinality(hand)
  /\ hand' = {}
  /\ writer' = IF writer = "release" THEN "loop" ELSE "finish"
  /\ UNCHANGED <<queue, stopped, lifecycle, sender, nops, accepted, written, reported>>

WriterFinish ==
  /\ writer = "finish"
  /\ StopMailbox
  /\ lifecycle' = TRUE
  /\ writer' = "done"
  /\ UNCHANGED <<hand, sender, nops, accepted, written, reported>>

WriterStep == WriterLoop \/ Receive \/ Keepalive \/ BeginWrite \/ DropPermit \/ WriterFinish

Next ==
  \/ \E t \in Threads : Send(t) \/ WaitCapacity(t) \/ CancelTransfer(t)
  \/ Stop \/ Shutdown
  \/ WriterStep \/ IdleTimeout \/ WriteDone \/ WriteFails

(* The threads run.  A write is assumed to end only in the liveness        *)
(* property that needs it.                                                 *)
Fairness ==
  /\ WF_vars(WriterStep)
  /\ \A t \in Threads : WF_vars(Send(t)) /\ WF_vars(WaitCapacity(t))

Spec == Init /\ [][Next]_vars /\ Fairness

-----------------------------------------------------------------------------
(* The mailbox keeps the input budget: it implements InputBudget, which    *)
(* charges a command from its acceptance until it is written or discarded. *)
KeepsBudget == Budget!BudgetSpec

(* The counters are what is really charged, so no stop, failure or permit  *)
(* makes them leak or wrap around zero.                                    *)
Counters ==
  /\ bytes = Budget!Load(Charged)
  /\ items = Cardinality(Charged)

(* What reaches the wire is, in order, a prefix of what was accepted, with *)
(* nothing skipped or repeated: commands are only ever lost at the end.    *)
WrittenInOrder == IsPrefix(written, accepted)

(* write_raw_cancellable preserves each frame until it is accepted: the    *)
(* frames of a transfer are accepted in order, each of them once, however  *)
(* many attempts were refused and whatever else was sent in between.       *)
FramesPreserved ==
  \A t \in Transfers :
    /\ {x \in ToSet(accepted) : x[1] = t} = {t} \X (1 .. (sender[t].next - 1))
    /\ \A p, q \in DOMAIN accepted :
         p < q /\ accepted[p][1] = t /\ accepted[q][1] = t => accepted[p][2] < accepted[q][2]

(* The writer is parked only on an empty mailbox that is not stopped.      *)
WriterIsWoken == writer = "parked" => queue = <<>> /\ ~stopped

(* Stopping the mailbox ends the writer thread, if its writes return: what *)
(* lets close join it.                                                     *)
StopEndsWriter == WF_vars(WriteDone) => (stopped ~> writer = "done")

(* A transfer that waits for room is let through, or learns that the       *)
(* mailbox stopped, if writes return.                                      *)
TransferProceeds ==
  WF_vars(WriteDone) => \A t \in Transfers : sender[t].pc = "wait" ~> sender[t].pc # "wait"
=============================================================================
