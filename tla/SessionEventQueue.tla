-------------------------- MODULE SessionEventQueue --------------------------
(***************************************************************************)
(* The event queue between the transport workers and the desktop           *)
(* (crates/zzclawterm-transport/src/session_event_queue.rs).               *)
(*                                                                         *)
(* Producers (reader threads, which park on condition variables, and the   *)
(* SSH receive tasks, which park on a tokio Notify) push session events;   *)
(* an Output event is split into chunks and admitted under an 8 MiB budget *)
(* with a 4 MiB low watermark.  Every step of the model is one region of   *)
(* the code that holds the mutex `inner`; the notify_all calls that follow *)
(* an unlock are steps of their own, because any other thread may run      *)
(* between the unlock and the notification.                                *)
(*                                                                         *)
(* A producer is a source of events of one session.  A byte of output is   *)
(* the pair <<producer, position in its stream>>; its content is left out. *)
(***************************************************************************)
EXTENDS Integers, FiniteSets

CONSTANTS SyncProducers,  \* threads that call push
          AsyncProducers, \* tasks that await push_async
          Consumers,      \* event consumers (SessionEventConsumerId)
          Pump,           \* a consumer that drains every session (drain_events)
          Managers,       \* threads that call cancel/resume/assign/clear/close
          Sessions,       \* session ids
          SessionOf,      \* the session whose events a producer pushes
          Limit,          \* SESSION_EVENT_QUEUE_OUTPUT_LIMIT
          Low,            \* SESSION_EVENT_QUEUE_OUTPUT_LOW_WATERMARK
          Chunk,          \* SESSION_EVENT_QUEUE_OUTPUT_EVENT_LIMIT
          CleanupCap,     \* queued CleanupFailed events (256 in the code)
          Sizes,          \* bound: lengths of the Output events pushed
          Batches,        \* bound: the max_events arguments of the drains
          Budgets,        \* bound: the max_output_bytes arguments (Limit is None)
          MaxPushes,      \* bound: events one producer pushes
          MaxOps,         \* bound: operations of one manager thread
          NoOne           \* no owner, no consumer

Producers == SyncProducers \cup AsyncProducers
Actors    == Producers \cup Consumers \cup Managers

(* Chunk <= Limit - Low is what makes a refused chunk imply a queue above  *)
(* the low watermark: 256 KiB <= 8 MiB - 4 MiB in the code.                *)
ASSUME QueueLimits ==
  /\ Limit \in Nat /\ Low \in Nat /\ Chunk \in Nat \ {0}
  /\ Low < Limit /\ Chunk <= Limit - Low
  /\ CleanupCap \in Nat /\ MaxPushes \in Nat /\ MaxOps \in Nat
  /\ Sizes \subseteq Nat /\ Batches \subseteq Nat /\ Budgets \subseteq Nat

ASSUME QueueActors ==
  /\ SyncProducers \cap AsyncProducers = {}
  /\ Producers \cap (Consumers \cup Managers) = {}
  /\ Consumers \cap Managers = {}
  /\ SessionOf \in [Producers -> Sessions]
  /\ NoOne \notin Consumers \cup Producers

VARIABLES
  events,               \* the VecDeque: stamped events, front = least stamp
  stamp,                \* the stamp of the last event pushed
  queued_output_bytes,
  output_backpressured,
  producer_active,      \* the producers' turn is taken
  closed,
  cancelled_sessions,
  consumers,            \* session -> consumer or NoOne
  producer,             \* what each producer is doing (see TypeOK)
  owed,                 \* notifications an actor unlocked before sending
  parked,               \* consumers inside ready.wait_timeout
  ops,                  \* operations a manager thread has made
  sent,                 \* bytes of a producer's stream the queue has taken
  settled               \* ... of those, bytes drained or discarded by a cancel

inner == <<events, stamp, queued_output_bytes, output_backpressured, producer_active,
           closed, cancelled_sessions, consumers>>
stream == <<sent, settled>>
vars == <<inner, producer, owed, parked, ops, stream>>

-----------------------------------------------------------------------------
(* Condition variables, and the tokio Notify that async producers share.   *)
CondVars == {"producer_order", "ready", "output_space", "async_changed"}

Accepts_ignores_cancel(s) == ~closed
Accepts(s) == ~closed /\ s \notin cancelled_sessions

(* Output bytes held by a set of events; other kinds have lo = hi.         *)
EventBytes(e) == {e.src} \X ((e.lo + 1) .. e.hi)
Bytes(E) == UNION {EventBytes(e) : e \in E}
Size(E) == Cardinality(Bytes(E))

SaturatingSub(a, b) == IF b >= a THEN 0 ELSE a - b

(* resume_output_if_below_low_watermark, given the new byte count: whether *)
(* it lifts the backpressure.                                              *)
LiftsBackpressure_strict(bytes) == output_backpressured /\ bytes < Low
LiftsBackpressure(bytes) == output_backpressured /\ bytes <= Low

(* The notifications that follow a drain that lifted the backpressure, and *)
(* those that follow a cancellation or the closing of the queue.           *)
LiftNotifies_sync_only == {"output_space"}
LiftNotifies == {"output_space", "async_changed"}

CancelNotifies_no_space == CondVars \ {"output_space"}
CancelNotifies_no_async == CondVars \ {"async_changed"}
CancelNotifies_no_ready == CondVars \ {"ready"}
CancelNotifies == CondVars

(* What a producer does next when woken: it re-checks its loop condition.  *)
Runnable(pc) == IF pc = "turn_wait" THEN "turn" ELSE "body"

(* p has a ProducerOrderGuard.                                             *)
Holds(p) == producer[p].pc \in {"body", "space_wait"}

WaitsOn(p) ==
  IF producer[p].pc \notin {"turn_wait", "space_wait"} THEN "none"
  ELSE IF p \in AsyncProducers THEN "async_changed"
  ELSE IF producer[p].pc = "turn_wait" THEN "producer_order"
  ELSE "output_space"

(* consumers[s], with CleanupFailed routed to the consumer it names.       *)
Belongs(e, c) ==
  \/ c = Pump
  \/ /\ e.kind = "CleanupFailed"
     /\ e.owner = c
  \/ /\ e.kind # "CleanupFailed"
     /\ consumers[e.session] = c

Mine(c) == {e \in events : Belongs(e, c)}

-----------------------------------------------------------------------------
Init ==
  /\ events = {}
  /\ stamp = 0
  /\ queued_output_bytes = 0
  /\ output_backpressured = FALSE
  /\ producer_active = FALSE
  /\ closed = FALSE
  /\ cancelled_sessions = {}
  /\ consumers = [s \in Sessions |-> NoOne]
  /\ producer = [p \in Producers |-> [pc |-> "idle", kind |-> "Other", left |-> 0, count |-> 0]]
  /\ owed = [a \in Actors |-> {}]
  /\ parked = {}
  /\ ops = [m \in Managers |-> 0]
  /\ sent = [p \in Producers |-> 0]
  /\ settled = [p \in Producers |-> 0]

(***************************************************************************)
(* Producers.  pc is "turn" before begin_push has the lock, "turn_wait"    *)
(* while it waits for the turn, "body" while the turn is held, and         *)
(* "space_wait" while a chunk waits for room.  `left` counts what is still *)
(* to be enqueued: bytes of an Output event, or one event of another kind. *)
(***************************************************************************)
Push(p, kind, size) ==
  /\ producer[p].pc = "idle" /\ owed[p] = {}
  /\ producer[p].count < MaxPushes
  /\ producer' = [producer EXCEPT ![p] =
       [pc |-> "turn", kind |-> kind, left |-> size, count |-> @.count + 1]]
  /\ UNCHANGED <<inner, owed, parked, ops, stream>>

(* begin_push, and the loop of push_async that takes the turn.             *)
RefuseTurn(p) ==
  /\ ~Accepts(SessionOf[p])
  /\ producer' = [producer EXCEPT ![p].pc = "idle", ![p].left = 0]
  /\ UNCHANGED producer_active

TakeTurn_unordered(p) ==
  /\ Accepts(SessionOf[p])
  /\ producer_active' = TRUE
  /\ producer' = [producer EXCEPT ![p].pc = "body"]
TakeTurn(p) ==
  /\ Accepts(SessionOf[p]) /\ ~producer_active
  /\ producer_active' = TRUE
  /\ producer' = [producer EXCEPT ![p].pc = "body"]

AwaitTurn(p) ==
  /\ Accepts(SessionOf[p]) /\ producer_active
  /\ producer' = [producer EXCEPT ![p].pc = "turn_wait"]
  /\ UNCHANGED producer_active

AcquireTurn(p) ==
  /\ producer[p].pc = "turn" /\ owed[p] = {}
  /\ RefuseTurn(p) \/ TakeTurn(p) \/ AwaitTurn(p)
  /\ UNCHANGED <<events, stamp, queued_output_bytes, output_backpressured,
                 closed, cancelled_sessions, consumers, owed, parked, ops, stream>>

ChunkLen_untruncated(p) == Chunk
ChunkLen(p) == IF producer[p].left < Chunk THEN producer[p].left ELSE Chunk

Fits(len) == queued_output_bytes + len <= Limit

EnqueueChunk(p, len) ==
  /\ Accepts(SessionOf[p]) /\ ~output_backpressured /\ Fits(len)
  /\ events' = events \cup
       {[at |-> stamp + 1, kind |-> "Output", session |-> SessionOf[p], src |-> p,
         push |-> producer[p].count, lo |-> sent[p], hi |-> sent[p] + len, owner |-> NoOne]}
  /\ stamp' = stamp + 1
  /\ queued_output_bytes' = queued_output_bytes + len
  /\ output_backpressured' = (queued_output_bytes' >= Limit)
  /\ sent' = [sent EXCEPT ![p] = @ + len]
  /\ producer' = [producer EXCEPT ![p].left = @ - len]
  /\ owed' = [owed EXCEPT ![p] = {"ready"}]
  /\ UNCHANGED settled

RefuseChunk(p, len) ==
  /\ Accepts(SessionOf[p]) /\ (output_backpressured \/ ~Fits(len))
  /\ output_backpressured' = TRUE
  /\ producer' = [producer EXCEPT ![p].pc = "space_wait"]
  /\ UNCHANGED <<events, stamp, queued_output_bytes, owed, stream>>

(* The session went away: push returns, and the turn guard is dropped.     *)
AbandonPush(p) ==
  /\ ~Accepts(SessionOf[p])
  /\ producer' = [producer EXCEPT ![p].left = 0]
  /\ UNCHANGED <<events, stamp, queued_output_bytes, output_backpressured,
                 owed, stream>>

(* push_output_chunk, and the inner loop of push_async.                    *)
PushChunk(p) ==
  /\ producer[p].pc = "body" /\ producer[p].kind = "Output" /\ producer[p].left > 0
  /\ owed[p] = {}
  /\ \/ EnqueueChunk(p, ChunkLen(p))
     \/ RefuseChunk(p, ChunkLen(p))
     \/ AbandonPush(p)
  /\ UNCHANGED <<producer_active, closed, cancelled_sessions, consumers, parked, ops>>

(* The `other` arm of push and push_async: no byte budget applies.         *)
PushOther(p) ==
  /\ producer[p].pc = "body" /\ producer[p].kind = "Other" /\ producer[p].left > 0
  /\ owed[p] = {}
  /\ events' = IF Accepts(SessionOf[p])
               THEN events \cup
                 {[at |-> stamp + 1, kind |-> "Other", session |-> SessionOf[p], src |-> p,
                   push |-> producer[p].count, lo |-> sent[p], hi |-> sent[p],
                   owner |-> NoOne]}
               ELSE events
  /\ stamp' = IF Accepts(SessionOf[p]) THEN stamp + 1 ELSE stamp
  /\ owed' = [owed EXCEPT ![p] =
       IF Accepts(SessionOf[p]) \/ p \in AsyncProducers THEN {"ready"} ELSE {}]
  /\ producer' = [producer EXCEPT ![p].left = 0]
  /\ UNCHANGED <<queued_output_bytes, output_backpressured, producer_active,
                 closed, cancelled_sessions, consumers, parked, ops, stream>>

(* ProducerOrderGuard::drop at the end of push.                            *)
ReleaseTurn(p) ==
  /\ producer[p].pc = "body" /\ producer[p].left = 0 /\ owed[p] = {}
  /\ producer_active' = FALSE
  /\ producer' = [producer EXCEPT ![p].pc = "idle"]
  /\ owed' = [owed EXCEPT ![p] = {"producer_order", "async_changed"}]
  /\ UNCHANGED <<events, stamp, queued_output_bytes, output_backpressured,
                 closed, cancelled_sessions, consumers, parked, ops, stream>>

(* The future of a push_async is dropped while it is suspended (a worker's *)
(* select loop ends or replaces it): the rest of the event is lost, and    *)
(* the turn guard, if the future has it, gives the turn back.              *)
DropPush_keeps_turn(p) ==
  /\ producer[p].pc # "idle" /\ owed[p] = {}
  /\ producer' = [producer EXCEPT ![p].pc = "idle", ![p].left = 0]
  /\ UNCHANGED <<inner, owed, parked, ops, stream>>
DropPush(p) ==
  /\ producer[p].pc # "idle" /\ owed[p] = {}
  /\ producer' = [producer EXCEPT ![p].pc = "idle", ![p].left = 0]
  /\ producer_active' = (producer_active /\ ~Holds(p))
  /\ owed' = [owed EXCEPT ![p] = IF Holds(p) THEN {"producer_order", "async_changed"} ELSE {}]
  /\ UNCHANGED <<events, stamp, queued_output_bytes, output_backpressured,
                 closed, cancelled_sessions, consumers, parked, ops, stream>>

(* The notify_all / notify_waiters calls an actor makes after its unlock.  *)
(* They come one after the other; taken as one step because a woken waiter *)
(* only locks the queue again and re-checks its loop condition.            *)
Notify(a) ==
  /\ owed[a] # {}
  /\ owed' = [owed EXCEPT ![a] = {}]
  /\ producer' = [p \in Producers |->
       IF WaitsOn(p) \in owed[a] THEN [producer[p] EXCEPT !.pc = Runnable(@)] ELSE producer[p]]
  /\ parked' = IF "ready" \in owed[a] THEN {} ELSE parked
  /\ UNCHANGED <<inner, ops, stream>>

(* Condvar::wait may return without a notification, and a Notified enabled *)
(* before the lock was taken may already have been satisfied.              *)
SpuriousWake(p) ==
  /\ producer[p].pc \in {"turn_wait", "space_wait"}
  /\ producer' = [producer EXCEPT ![p].pc = Runnable(@)]
  /\ UNCHANGED <<inner, owed, parked, ops, stream>>

-----------------------------------------------------------------------------
(***************************************************************************)
(* Consumers.  A drain takes events that belong to the consumer from the   *)
(* front, at most maxEvents of them and at most `budget` output bytes; an  *)
(* Output event that does not fit in what is left of the budget is split.  *)
(***************************************************************************)
UpTo(c, e) == {f \in Mine(c) : f.at <= e.at}

(* The events drained whole: a prefix of Mine(c) in queue order.           *)
Whole(c, maxEvents, budget) ==
  {e \in Mine(c) : Cardinality(UpTo(c, e)) <= maxEvents /\ Size(UpTo(c, e)) <= budget}

(* The event that is split (at most one): the first that was not taken     *)
(* whole, when events and bytes are still allowed.                         *)
Split(c, maxEvents, budget) ==
  LET W == Whole(c, maxEvents, budget)
  IN  {e \in Mine(c) \ W : /\ UpTo(c, e) \ {e} = W
                           /\ Cardinality(W) < maxEvents
                           /\ Size(W) < budget}

(* The bytes taken of the split event, and what stays of it in the queue.  *)
SplitBytes(c, maxEvents, budget) ==
  IF Split(c, maxEvents, budget) = {} THEN 0
  ELSE budget - Size(Whole(c, maxEvents, budget))

Remainder_dropped(S, take) == {}
Remainder_uncut(S, take) == S
Remainder(S, take) == {[e EXCEPT !.lo = e.lo + take] : e \in S}

(* drain, drain_for_consumer and the low-watermark check that ends them.   *)
Drain(c, maxEvents, budget) ==
  LET W     == Whole(c, maxEvents, budget)
      S     == Split(c, maxEvents, budget)
      take  == SplitBytes(c, maxEvents, budget)
      cut   == {[e EXCEPT !.hi = e.lo + take] : e \in S}
      bytes == SaturatingSub(queued_output_bytes, Size(W) + take)
  IN  /\ c \notin parked /\ owed[c] = {}
      /\ W \cup S # {}
      /\ events' = (events \ (W \cup S)) \cup Remainder(S, take)
      /\ queued_output_bytes' = bytes
      /\ output_backpressured' = (output_backpressured /\ ~LiftsBackpressure(bytes))
      /\ owed' = [owed EXCEPT ![c] =
           IF LiftsBackpressure(bytes) THEN LiftNotifies ELSE {}]
      /\ settled' = [p \in Producers |-> settled[p] + Size({e \in W \cup cut : e.src = p})]
      /\ UNCHANGED <<stamp, producer_active, closed, cancelled_sessions, consumers,
                     producer, parked, ops, sent>>

(* drain_blocking*, wait_for_consumer: park while there is nothing to do.  *)
ConsumerPark(c) ==
  /\ c \notin parked /\ owed[c] = {}
  /\ Mine(c) = {} /\ ~closed
  /\ parked' = parked \cup {c}
  /\ UNCHANGED <<inner, producer, owed, ops, stream>>

ConsumerTimeout(c) ==
  /\ c \in parked
  /\ parked' = parked \ {c}
  /\ UNCHANGED <<inner, producer, owed, ops, stream>>

-----------------------------------------------------------------------------
(***************************************************************************)
(* Operations of the session manager's threads.                            *)
(***************************************************************************)
Ready(m) ==
  /\ owed[m] = {}
  /\ ops[m] < MaxOps
  /\ ops' = [ops EXCEPT ![m] = @ + 1]

cancel_session(m, s) ==
  LET gone  == {e \in events : e.session = s}
      bytes == SaturatingSub(queued_output_bytes, Size(gone))
  IN  /\ Ready(m)
      /\ cancelled_sessions' = cancelled_sessions \cup {s}
      /\ consumers' = [consumers EXCEPT ![s] = NoOne]
      /\ events' = events \ gone
      /\ queued_output_bytes' = bytes
      /\ output_backpressured' = (output_backpressured /\ ~LiftsBackpressure(bytes))
      /\ owed' = [owed EXCEPT ![m] = CancelNotifies]
      /\ settled' = [p \in Producers |-> IF SessionOf[p] = s THEN sent[p] ELSE settled[p]]
      /\ UNCHANGED <<stamp, producer_active, closed, producer, parked, sent>>

resume_session(m, s) ==
  /\ Ready(m) /\ s \in cancelled_sessions
  /\ cancelled_sessions' = cancelled_sessions \ {s}
  /\ owed' = [owed EXCEPT ![m] = {"producer_order", "async_changed"}]
  /\ UNCHANGED <<events, stamp, queued_output_bytes, output_backpressured,
                 producer_active, closed, consumers, producer, parked, stream>>

assign_consumer(m, s, c) ==
  /\ Ready(m)
  /\ consumers' = [consumers EXCEPT ![s] = c]
  /\ owed' = [owed EXCEPT ![m] = {"ready"}]
  /\ UNCHANGED <<events, stamp, queued_output_bytes, output_backpressured,
                 producer_active, closed, cancelled_sessions, producer, parked, stream>>

clear_consumer(m, s, c) ==
  /\ Ready(m)
  /\ consumers' = [consumers EXCEPT ![s] = IF @ = c THEN NoOne ELSE @]
  /\ owed' = [owed EXCEPT ![m] = {"ready"}]
  /\ UNCHANGED <<events, stamp, queued_output_bytes, output_backpressured,
                 producer_active, closed, cancelled_sessions, producer, parked, stream>>

close(m) ==
  /\ Ready(m) /\ ~closed
  /\ closed' = TRUE
  /\ owed' = [owed EXCEPT ![m] = CancelNotifies]
  /\ UNCHANGED <<events, stamp, queued_output_bytes, output_backpressured,
                 producer_active, cancelled_sessions, consumers, producer, parked, stream>>

(* The reaper reports a failed cleanup: past the turn, the byte budget and *)
(* the cancellation of the session, but never more than CleanupCap.        *)
push_cleanup_failure(m, s, c) ==
  /\ Ready(m) /\ ~closed
  /\ Cardinality({e \in events : e.kind = "CleanupFailed"}) < CleanupCap
  /\ events' = events \cup
       {[at |-> stamp + 1, kind |-> "CleanupFailed", session |-> s, src |-> NoOne,
         push |-> 0, lo |-> 0, hi |-> 0, owner |-> c]}
  /\ stamp' = stamp + 1
  /\ owed' = [owed EXCEPT ![m] = {"ready"}]
  /\ UNCHANGED <<queued_output_bytes, output_backpressured, producer_active,
                 closed, cancelled_sessions, consumers, producer, parked, stream>>

-----------------------------------------------------------------------------
ProducerStep(p) ==
  AcquireTurn(p) \/ PushChunk(p) \/ PushOther(p) \/ ReleaseTurn(p)

DrainSome(c) == \E n \in Batches, b \in Budgets : Drain(c, n, b)

ManagerStep(m) ==
  \/ \E s \in Sessions : cancel_session(m, s) \/ resume_session(m, s)
  \/ \E s \in Sessions, c \in Consumers \ {Pump} :
       assign_consumer(m, s, c) \/ clear_consumer(m, s, c)
  \/ \E s \in Sessions, c \in (Consumers \ {Pump}) \cup {NoOne} :
       push_cleanup_failure(m, s, c)
  \/ close(m)

Next ==
  \/ \E p \in Producers : \/ \E z \in Sizes : Push(p, "Output", z)
                          \/ Push(p, "Other", 1)
                          \/ ProducerStep(p)
                          \/ SpuriousWake(p)
  \/ \E p \in AsyncProducers : DropPush(p)
  \/ \E c \in Consumers : DrainSome(c) \/ ConsumerPark(c) \/ ConsumerTimeout(c)
  \/ \E m \in Managers : ManagerStep(m)
  \/ \E a \in Actors : Notify(a)

(* Threads keep running: a producer whose step is enabled takes it, and a  *)
(* thread that unlocked sends its notifications.  Nothing is assumed of    *)
(* the consumers or of the managers.                                       *)
Fairness ==
  /\ \A p \in Producers : WF_vars(ProducerStep(p))
  /\ \A a \in Actors : WF_vars(Notify(a))

Spec == Init /\ [][Next]_vars
FairSpec == Spec /\ Fairness

-----------------------------------------------------------------------------
Event == [at : Nat, kind : {"Output", "Other", "CleanupFailed"}, session : Sessions,
          src : Producers \cup {NoOne}, push : Nat, lo : Nat, hi : Nat,
          owner : Consumers \cup {NoOne}]

ProducerState == [pc : {"idle", "turn", "turn_wait", "body", "space_wait"},
                  kind : {"Output", "Other"}, left : Nat, count : Nat]

(* Every variable has its type.                                            *)
TypeOK ==
  /\ events \subseteq Event /\ IsFiniteSet(events) /\ stamp \in Nat
  /\ queued_output_bytes \in Nat
  /\ output_backpressured \in BOOLEAN /\ producer_active \in BOOLEAN /\ closed \in BOOLEAN
  /\ cancelled_sessions \subseteq Sessions
  /\ consumers \in [Sessions -> Consumers \cup {NoOne}]
  /\ producer \in [Producers -> ProducerState]
  /\ owed \in [Actors -> SUBSET CondVars]
  /\ parked \subseteq Consumers
  /\ ops \in [Managers -> Nat]
  /\ sent \in [Producers -> Nat] /\ settled \in [Producers -> Nat]

(* The turn is held by at most one producer, and producer_active says so:  *)
(* the turn is neither shared nor leaked, whatever is cancelled meanwhile. *)
TurnExclusive ==
  /\ \A p, q \in Producers : Holds(p) /\ Holds(q) => p = q
  /\ producer_active <=> \E p \in Producers : Holds(p)

Owed(cv) == \E a \in Actors : cv \in owed[a]

(* p is parked for a reason that some later step removes, or it is about   *)
(* to be woken.                                                            *)
ParkedForAReason(p) ==
  /\ producer[p].pc = "turn_wait" =>
       \/ producer_active /\ Accepts(SessionOf[p])
       \/ Owed(WaitsOn(p))
  /\ producer[p].pc = "space_wait" =>
       \/ output_backpressured /\ Accepts(SessionOf[p])
       \/ Owed(WaitsOn(p))

(* No lost wake-up: a producer that is parked has a reason to be, which    *)
(* some later step must remove, or a notification for it is on its way.    *)
NoLostWakeup == \A p \in Producers : ParkedForAReason(p)

(* Backpressure is on only above the low watermark, and on whenever the    *)
(* budget is used up: together with NoLostWakeup, a parked producer always *)
(* leaves bytes whose draining lifts the backpressure.                     *)
Hysteresis ==
  /\ queued_output_bytes <= Limit
  /\ output_backpressured => queued_output_bytes > Low
  /\ queued_output_bytes = Limit => output_backpressured

(* queued_output_bytes is the number of bytes really queued, through every *)
(* split, drain and cancellation, so the budget neither leaks nor grows.   *)
Accounting ==
  queued_output_bytes = Size(events)

Outputs(p) == {e \in events : e.kind = "Output" /\ e.src = p}

(* Of each producer's stream, the queue holds exactly the bytes between    *)
(* what was drained or discarded and what it took, in stream order: a      *)
(* drain, split or hand-off between consumers loses, repeats and reorders  *)
(* nothing.                                                                *)
StreamIntact ==
  \A p \in Producers :
    /\ UNION {(e.lo + 1) .. e.hi : e \in Outputs(p)} = (settled[p] + 1) .. sent[p]
    /\ \A e, f \in Outputs(p) : e.at < f.at => e.hi <= f.lo
    /\ \A e \in Outputs(p) : e.lo < e.hi

(* The chunks of one Output event are contiguous in the queue: only a      *)
(* cleanup diagnostic, which takes no turn, may stand between them.        *)
ChunksContiguous ==
  \A e, f, g \in events :
    e.kind = "Output" /\ e.src = f.src /\ e.push = f.push /\ e.at < g.at /\ g.at < f.at
      => g.kind = "CleanupFailed" \/ (g.src = e.src /\ g.push = e.push)

(* While a session is cancelled, none of its output or lifecycle events is *)
(* in the queue, although producers that started earlier are still running.*)
CancelledIsSilent ==
  \A e \in events : e.session \in cancelled_sessions => e.kind = "CleanupFailed"

(* A consumer is not left parked on events that belong to it, nor on a     *)
(* closed queue, once the pending `ready` notifications are sent.          *)
ConsumerIsWoken ==
  \A c \in parked : (Mine(c) # {} \/ closed) => Owed("ready")

(* Cancelling a session, or closing the queue, releases its producers      *)
(* whatever the consumers do: what makes joining a reader thread safe.     *)
CancelReleases ==
  \A p \in Producers :
    (producer[p].pc # "idle" /\ ~Accepts(SessionOf[p]))
      ~> (producer[p].pc = "idle" \/ Accepts(SessionOf[p]))

(* If events keep being drained, every push returns.                       *)
PushReturns ==
  WF_vars(\E c \in Consumers : DrainSome(c)) =>
    \A p \in Producers : producer[p].pc # "idle" ~> producer[p].pc = "idle"
=============================================================================
