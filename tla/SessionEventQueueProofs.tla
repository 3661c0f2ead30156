----------------------- MODULE SessionEventQueueProofs -----------------------
(* Proofs about SessionEventQueue, for every value of its constants.       *)
EXTENDS SessionEventQueue, FiniteSetTheorems, TLAPS

-----------------------------------------------------------------------------
(* Facts about sets of events and of bytes.                                *)

(* The image of a finite set of events under a map is finite.              *)
LEMMA FiniteImage ==
  ASSUME NEW S, IsFiniteSet(S), NEW f, f = [x \in S |-> f[x]]
  PROVE  IsFiniteSet({f[x] : x \in S})
  <1> DEFINE T == {f[x] : x \in S}
  <1>1. f \in Surjection(S, T)
    BY DEF Surjection
  <1>2. QED
    BY <1>1, FS_Surjection

(* An event holds hi - lo bytes.                                           *)
LEMMA EventBytesFinite ==
  ASSUME NEW e, e.lo \in Int, e.hi \in Int
  PROVE  /\ IsFiniteSet(EventBytes(e))
         /\ e.lo <= e.hi => Cardinality(EventBytes(e)) = e.hi - e.lo
  <1>1. /\ IsFiniteSet({e.src}) /\ Cardinality({e.src}) = 1
    BY FS_Singleton
  <1>2. /\ IsFiniteSet((e.lo + 1) .. e.hi)
        /\ Cardinality((e.lo + 1) .. e.hi) = IF e.lo + 1 > e.hi THEN 0 ELSE e.hi - (e.lo + 1) + 1
    BY FS_Interval
  <1>3. /\ IsFiniteSet(EventBytes(e))
        /\ Cardinality(EventBytes(e)) = 1 * Cardinality((e.lo + 1) .. e.hi)
    BY <1>1, <1>2, FS_Product DEF EventBytes
  <1>4. QED
    BY <1>2, <1>3

(* A finite set of events holds finitely many bytes.                       *)
LEMMA SizeType ==
  ASSUME NEW E, IsFiniteSet(E), \A e \in E : e.lo \in Int /\ e.hi \in Int
  PROVE  IsFiniteSet(Bytes(E)) /\ Size(E) \in Nat
  <1> DEFINE f == [e \in E |-> EventBytes(e)]
  <1>1. IsFiniteSet({f[e] : e \in E})
    BY FiniteImage
  <1>2. {f[e] : e \in E} = {EventBytes(e) : e \in E}
    OBVIOUS
  <1>3. \A T \in {EventBytes(e) : e \in E} : IsFiniteSet(T)
    BY EventBytesFinite
  <1>4. IsFiniteSet(Bytes(E))
    BY <1>1, <1>2, <1>3, FS_UNION DEF Bytes
  <1>5. QED
    BY <1>4, FS_CardinalityType DEF Size

(* What a drain takes is part of the queue, and its byte counts are        *)
(* natural numbers.                                                        *)
LEMMA DrainTypes ==
  ASSUME TypeOK, NEW c \in Consumers, NEW n \in Batches, NEW b \in Budgets
  PROVE  /\ Whole(c, n, b) \subseteq events /\ Split(c, n, b) \subseteq events
         /\ Size(Whole(c, n, b)) \in Nat
         /\ SplitBytes(c, n, b) \in Nat
         /\ Split(c, n, b) # {} => Size(Whole(c, n, b)) + SplitBytes(c, n, b) = b
  <1> DEFINE W == Whole(c, n, b)
             S == Split(c, n, b)
  <1>1. W \subseteq events /\ S \subseteq events
    BY DEF Whole, Split, Mine
  <1>2. IsFiniteSet(W) /\ \A e \in W : e.lo \in Int /\ e.hi \in Int
    BY <1>1, FS_Subset DEF TypeOK, Event
  <1>3. Size(W) \in Nat
    BY <1>2, SizeType
  <1>4. b \in Nat
    BY QueueLimits
  <1>5. S # {} => Size(W) < b
    BY DEF Split
  <1>6. SplitBytes(c, n, b) \in Nat
    BY <1>3, <1>4, <1>5 DEF SplitBytes
  <1>7. QED
    BY <1>1, <1>3, <1>4, <1>6 DEF SplitBytes

(* What stays of a split event is an event, and there are finitely many.   *)
LEMMA RemainderTypes ==
  ASSUME TypeOK, NEW S \in SUBSET events, NEW take \in Nat
  PROVE  Remainder(S, take) \subseteq Event /\ IsFiniteSet(Remainder(S, take))
  <1> DEFINE f == [e \in S |-> [e EXCEPT !.lo = e.lo + take]]
  <1>1. IsFiniteSet(S)
    BY FS_Subset DEF TypeOK
  <1>2. IsFiniteSet({f[e] : e \in S})
    <2>1. f = [e \in S |-> f[e]]
      OBVIOUS
    <2> HIDE DEF f
    <2>2. QED
      BY <1>1, <2>1, FiniteImage
  <1>3. {f[e] : e \in S} = Remainder(S, take)
    BY DEF Remainder
  <1>4. Remainder(S, take) \subseteq Event
    BY DEF Remainder, TypeOK, Event
  <1>5. QED
    BY <1>2, <1>3, <1>4

(* The part of a split event that a drain delivers is an event.            *)
LEMMA CutTypes ==
  ASSUME TypeOK, NEW W \in SUBSET events, NEW S \in SUBSET events, NEW take \in Nat,
         NEW p \in Producers
  PROVE  Size({e \in W \cup {[g EXCEPT !.hi = g.lo + take] : g \in S} : e.src = p}) \in Nat
  <1> DEFINE f == [g \in S |-> [g EXCEPT !.hi = g.lo + take]]
             C == {[g EXCEPT !.hi = g.lo + take] : g \in S}
             E == {e \in W \cup C : e.src = p}
  <1>1. IsFiniteSet(S) /\ IsFiniteSet(W)
    BY FS_Subset DEF TypeOK
  <1>2. IsFiniteSet({f[e] : e \in S})
    <2>1. f = [e \in S |-> f[e]]
      OBVIOUS
    <2> HIDE DEF f
    <2>2. QED
      BY <1>1, <2>1, FiniteImage
  <1>3. {f[e] : e \in S} = C
    OBVIOUS
  <1>4. IsFiniteSet(W \cup C)
    BY <1>1, <1>2, <1>3, FS_Union
  <1>5. IsFiniteSet(E)
    BY <1>4, FS_Subset
  <1>6. \A e \in E : e.lo \in Int /\ e.hi \in Int
    BY DEF TypeOK, Event
  <1>7. QED
    BY <1>5, <1>6, SizeType

-----------------------------------------------------------------------------
(* Type correctness.                                                       *)

(* The empty queue is well typed.                                          *)
LEMMA InitType == Init => TypeOK
  <1> SUFFICES ASSUME Init PROVE TypeOK
    OBVIOUS
  <1>1. producer \in [Producers -> ProducerState]
    BY DEF Init, ProducerState
  <1>2. QED
    BY <1>1, FS_EmptySet DEF Init, TypeOK

(* A step of a push (taking the turn, a chunk, the release) keeps types.   *)
LEMMA ProducerType ==
  ASSUME TypeOK, NEW p \in Producers, ProducerStep(p)
  PROVE  TypeOK'
  <1> p \in Actors /\ SessionOf[p] \in Sessions
    BY QueueActors DEF Actors
  <1>1. CASE AcquireTurn(p)
    <2>1. producer' \in [Producers -> ProducerState]
      <3>1. CASE RefuseTurn(p)
        BY <3>1 DEF RefuseTurn, TypeOK, ProducerState
      <3>2. CASE TakeTurn(p)
        BY <3>2 DEF TakeTurn, TypeOK, ProducerState
      <3>3. CASE AwaitTurn(p)
        BY <3>3 DEF AwaitTurn, TypeOK, ProducerState
      <3>4. QED
        BY <1>1, <3>1, <3>2, <3>3 DEF AcquireTurn
    <2>2. QED
      BY <1>1, <2>1 DEF AcquireTurn, RefuseTurn, TakeTurn, AwaitTurn, TypeOK, stream
  <1>2. CASE PushChunk(p)
    <2> DEFINE len == ChunkLen(p)
    <2>1. len \in Nat /\ producer[p].left - len \in Nat
      BY <1>2, QueueLimits DEF ChunkLen, TypeOK, ProducerState
    <2>2. CASE EnqueueChunk(p, len)
      <3> DEFINE e == [at |-> stamp + 1, kind |-> "Output", session |-> SessionOf[p], src |-> p,
                       push |-> producer[p].count, lo |-> sent[p], hi |-> sent[p] + len,
                       owner |-> NoOne]
      <3>1. e \in Event
        BY <2>1 DEF Event, TypeOK, ProducerState
      <3>2. events' = events \cup {e}
        BY <2>2 DEF EnqueueChunk
      <3>3. events' \subseteq Event /\ IsFiniteSet(events')
        BY <3>1, <3>2, FS_AddElement DEF TypeOK
      <3>4. producer' \in [Producers -> ProducerState]
        BY <2>1, <2>2 DEF EnqueueChunk, TypeOK, ProducerState
      <3>5. QED
        BY <1>2, <2>1, <2>2, <3>3, <3>4 DEF PushChunk, EnqueueChunk, TypeOK, CondVars
    <2>3. CASE RefuseChunk(p, len)
      <3>1. producer' \in [Producers -> ProducerState]
        BY <2>3 DEF RefuseChunk, TypeOK, ProducerState
      <3>2. QED
        BY <1>2, <2>3, <3>1 DEF PushChunk, RefuseChunk, TypeOK, stream
    <2>4. CASE AbandonPush(p)
      <3>1. producer' \in [Producers -> ProducerState]
        BY <2>4 DEF AbandonPush, TypeOK, ProducerState
      <3>2. QED
        BY <1>2, <2>4, <3>1 DEF PushChunk, AbandonPush, TypeOK, stream
    <2>5. QED
      BY <1>2, <2>2, <2>3, <2>4 DEF PushChunk
  <1>3. CASE PushOther(p)
    <2> DEFINE e == [at |-> stamp + 1, kind |-> "Other", session |-> SessionOf[p], src |-> p,
                     push |-> producer[p].count, lo |-> sent[p], hi |-> sent[p],
                     owner |-> NoOne]
    <2>1. e \in Event
      BY DEF Event, TypeOK, ProducerState
    <2>2. events' = events \/ events' = events \cup {e}
      BY <1>3 DEF PushOther
    <2> HIDE DEF e
    <2>3. events' \subseteq Event /\ IsFiniteSet(events')
      BY <2>1, <2>2, FS_AddElement DEF TypeOK
    <2>4. producer' \in [Producers -> ProducerState]
      BY <1>3 DEF PushOther, TypeOK, ProducerState
    <2>5. QED
      BY <1>3, <2>3, <2>4 DEF PushOther, TypeOK, CondVars, stream
  <1>4. CASE ReleaseTurn(p)
    <2>1. producer' \in [Producers -> ProducerState]
      BY <1>4 DEF ReleaseTurn, TypeOK, ProducerState
    <2>2. QED
      BY <1>4, <2>1 DEF ReleaseTurn, TypeOK, CondVars, stream
  <1>5. QED
    BY <1>1, <1>2, <1>3, <1>4 DEF ProducerStep

(* A drain keeps types: the only action that rewrites queued events.       *)
LEMMA DrainType ==
  ASSUME TypeOK, NEW c \in Consumers, NEW n \in Batches, NEW b \in Budgets, Drain(c, n, b)
  PROVE  TypeOK'
  <1> DEFINE W == Whole(c, n, b)
             S == Split(c, n, b)
             take == SplitBytes(c, n, b)
  <1>1. /\ W \in SUBSET events /\ S \in SUBSET events
        /\ Size(W) \in Nat /\ take \in Nat
    BY DrainTypes
  <1>2. events' = (events \ (W \cup S)) \cup Remainder(S, take)
    BY DEF Drain
  <1>3. Remainder(S, take) \subseteq Event /\ IsFiniteSet(Remainder(S, take))
    BY <1>1, RemainderTypes
  <1>4. events' \subseteq Event /\ IsFiniteSet(events')
    <2>1. IsFiniteSet(events \ (W \cup S))
      BY FS_Difference DEF TypeOK
    <2>2. QED
      BY <1>2, <1>3, <2>1, FS_Union DEF TypeOK
  <1>5. settled' \in [Producers -> Nat]
    <2> DEFINE D(p) ==
             Size({e \in W \cup {[g EXCEPT !.hi = g.lo + take] : g \in S} : e.src = p})
    <2>1. settled' = [p \in Producers |-> settled[p] + D(p)]
      BY DEF Drain
    <2>2. \A p \in Producers : D(p) \in Nat
      BY <1>1, CutTypes
    <2> HIDE DEF D
    <2>3. QED
      BY <2>1, <2>2 DEF TypeOK
  <1>6. queued_output_bytes' \in Nat
    <2>1. queued_output_bytes' = SaturatingSub(queued_output_bytes, Size(W) + take)
      BY DEF Drain
    <2>2. QED
      BY <1>1, <2>1 DEF SaturatingSub, TypeOK
  <1>7. owed' \in [Actors -> SUBSET CondVars]
    <2>1. \E v \in SUBSET CondVars : owed' = [owed EXCEPT ![c] = v]
      BY DEF Drain, LiftNotifies, CondVars
    <2>2. QED
      BY <2>1 DEF TypeOK, Actors
  <1>8. output_backpressured' \in BOOLEAN
    BY DEF Drain
  <1>9. QED
    BY <1>4, <1>5, <1>6, <1>7, <1>8 DEF TypeOK, Drain

(* Cancel, resume, assign, clear, close and cleanup reports keep types.    *)
LEMMA ManagerType ==
  ASSUME TypeOK, NEW m \in Managers, ManagerStep(m)
  PROVE  TypeOK'
  <1> m \in Actors
    BY DEF Actors
  <1>1. ASSUME NEW s \in Sessions, cancel_session(m, s)
        PROVE  TypeOK'
    <2> DEFINE gone == {e \in events : e.session = s}
    <2>1. IsFiniteSet(gone) /\ \A e \in gone : e.lo \in Int /\ e.hi \in Int
      BY FS_Subset DEF TypeOK, Event
    <2>2. Size(gone) \in Nat
      BY <2>1, SizeType
    <2>3. events' = events \ gone /\ queued_output_bytes' = SaturatingSub(queued_output_bytes, Size(gone))
      BY <1>1 DEF cancel_session
    <2> HIDE DEF gone
    <2>4. events' \subseteq Event /\ IsFiniteSet(events') /\ queued_output_bytes' \in Nat
      <3>1. IsFiniteSet(events \ gone)
        BY FS_Difference DEF TypeOK
      <3>2. QED
        BY <2>2, <2>3, <3>1 DEF TypeOK, SaturatingSub
    <2>5. settled' \in [Producers -> Nat]
      BY <1>1 DEF cancel_session, TypeOK
    <2>6. output_backpressured' \in BOOLEAN
      BY <1>1 DEF cancel_session
    <2>7. QED
      BY <1>1, <2>4, <2>5, <2>6
         DEF cancel_session, Ready, TypeOK, CancelNotifies, CondVars
  <1>2. ASSUME NEW s \in Sessions, resume_session(m, s)
        PROVE  TypeOK'
    BY <1>2 DEF resume_session, Ready, TypeOK, CondVars, stream
  <1>3. ASSUME NEW s \in Sessions, NEW c \in Consumers,
               assign_consumer(m, s, c) \/ clear_consumer(m, s, c)
        PROVE  TypeOK'
    BY <1>3 DEF assign_consumer, clear_consumer, Ready, TypeOK, CondVars, stream
  <1>4. ASSUME NEW s \in Sessions, NEW c \in Consumers \cup {NoOne}, push_cleanup_failure(m, s, c)
        PROVE  TypeOK'
    <2> DEFINE e == [at |-> stamp + 1, kind |-> "CleanupFailed", session |-> s, src |-> NoOne,
                     push |-> 0, lo |-> 0, hi |-> 0, owner |-> c]
    <2>1. e \in Event
      BY DEF Event, TypeOK
    <2>2. events' = events \cup {e}
      BY <1>4 DEF push_cleanup_failure
    <2> HIDE DEF e
    <2>3. events' \subseteq Event /\ IsFiniteSet(events')
      BY <2>1, <2>2, FS_AddElement DEF TypeOK
    <2>4. QED
      BY <1>4, <2>3 DEF push_cleanup_failure, Ready, TypeOK, CondVars, stream
  <1>5. CASE close(m)
    BY <1>5 DEF close, Ready, TypeOK, CancelNotifies, CondVars, stream
  <1>6. QED
    BY <1>1, <1>2, <1>3, <1>4, <1>5 DEF ManagerStep

(* Sending the notifications that are owed keeps types.                    *)
LEMMA NotifyType ==
  ASSUME TypeOK, NEW a \in Actors, Notify(a)
  PROVE  TypeOK'
  <1>1. producer' \in [Producers -> ProducerState]
    BY DEF Notify, TypeOK, ProducerState, Runnable
  <1>2. QED
    BY <1>1 DEF Notify, TypeOK, CondVars, stream, inner

(* Push, SpuriousWake, ConsumerPark, ConsumerTimeout and stuttering.       *)
LEMMA LocalType ==
  ASSUME TypeOK,
         \/ \E p \in Producers, z \in Sizes : Push(p, "Output", z)
         \/ \E p \in Producers : Push(p, "Other", 1) \/ SpuriousWake(p)
         \/ \E c \in Consumers : ConsumerPark(c) \/ ConsumerTimeout(c)
         \/ UNCHANGED vars
  PROVE  TypeOK'
  <1>1. ASSUME NEW p \in Producers, NEW k \in {"Output", "Other"}, NEW z \in Nat, Push(p, k, z)
        PROVE  TypeOK'
    <2>1. producer' \in [Producers -> ProducerState]
      BY <1>1 DEF Push, TypeOK, ProducerState
    <2>2. QED
      BY <1>1, <2>1 DEF Push, TypeOK, stream, inner
  <1>2. ASSUME NEW p \in Producers, SpuriousWake(p)
        PROVE  TypeOK'
    <2>1. producer' \in [Producers -> ProducerState]
      BY <1>2 DEF SpuriousWake, TypeOK, ProducerState, Runnable
    <2>2. QED
      BY <1>2, <2>1 DEF SpuriousWake, TypeOK, stream, inner
  <1>3. ASSUME NEW c \in Consumers, ConsumerPark(c) \/ ConsumerTimeout(c)
        PROVE  TypeOK'
    BY <1>3 DEF ConsumerPark, ConsumerTimeout, TypeOK, stream, inner
  <1>4. CASE UNCHANGED vars
    BY <1>4 DEF vars, TypeOK, stream, inner
  <1>5. QED
    BY <1>1, <1>2, <1>3, <1>4, QueueLimits

(* Dropping the future of a push keeps types.                              *)
LEMMA DropType ==
  ASSUME TypeOK, NEW p \in AsyncProducers, DropPush(p)
  PROVE  TypeOK'
  <1> p \in Producers /\ p \in Actors
    BY DEF Actors, Producers
  <1>1. producer' \in [Producers -> ProducerState]
    BY ZenonT(40) DEF DropPush, TypeOK, ProducerState
  <1>2. producer_active' \in BOOLEAN
    BY DEF DropPush
  <1>3. owed' \in [Actors -> SUBSET CondVars]
    BY DEF DropPush, TypeOK, CondVars
  <1>4. QED
    BY <1>1, <1>2, <1>3 DEF DropPush, TypeOK, stream

(* TypeOK is inductive.                                                    *)
LEMMA NextType == TypeOK /\ [Next]_vars => TypeOK'
  BY ProducerType, DrainType, ManagerType, NotifyType, LocalType, DropType
     DEF Next, DrainSome

(* The queue's variables keep their types in every execution.              *)
THEOREM TypeCorrect == Spec => []TypeOK
  BY InitType, NextType, PTL DEF Spec

-----------------------------------------------------------------------------
(***************************************************************************)
(* The turn, the wake-ups and the hysteresis: each is preserved by a step  *)
(* that starts in a state where all of them hold.                          *)
(***************************************************************************)
QueueInv == TypeOK /\ TurnExclusive /\ NoLostWakeup /\ Hysteresis

(* The empty queue satisfies the inductive invariant.                      *)
LEMMA InitInv == Init => QueueInv
  <1> SUFFICES ASSUME Init PROVE QueueInv
    OBVIOUS
  <1>1. TypeOK
    BY InitType
  <1>2. TurnExclusive
    BY DEF Init, TurnExclusive, Holds
  <1>3. NoLostWakeup
    BY DEF Init, NoLostWakeup, ParkedForAReason
  <1>4. Hysteresis
    BY QueueLimits DEF Init, Hysteresis
  <1>5. QED
    BY <1>1, <1>2, <1>3, <1>4 DEF QueueInv

(* A producer that waits, waits on a condition variable.                   *)
LEMMA WaitersWaitOnCondVars ==
  ASSUME NEW p, producer[p].pc \in {"turn_wait", "space_wait"}
  PROVE  WaitsOn(p) \in CondVars
  BY DEF WaitsOn, CondVars

(* Notifications already owed stay owed when an actor that owed none       *)
(* unlocks.                                                                *)
LEMMA OwedGrows ==
  ASSUME TypeOK, NEW a \in Actors, owed[a] = {}, NEW v,
         owed' = [owed EXCEPT ![a] = v]
  PROVE  /\ \A cv : Owed(cv) => Owed(cv)'
         /\ \A cv \in v : Owed(cv)'
  BY DEF Owed, TypeOK

(* A byte count only shrinks when something is taken off it.               *)
LEMMA ShrinkKeepsHysteresis ==
  ASSUME TypeOK, Hysteresis, NEW x \in Nat,
         queued_output_bytes' = SaturatingSub(queued_output_bytes, x),
         output_backpressured' =
           (output_backpressured /\ ~LiftsBackpressure(SaturatingSub(queued_output_bytes, x)))
  PROVE  Hysteresis'
  <1>1. queued_output_bytes' \in Nat /\ queued_output_bytes' <= queued_output_bytes
    BY DEF SaturatingSub, TypeOK
  <1>2. output_backpressured' <=> output_backpressured /\ ~(queued_output_bytes' <= Low)
    BY DEF LiftsBackpressure
  <1>3. QED
    BY <1>1, <1>2, QueueLimits DEF Hysteresis, TypeOK

(* Every step of a push keeps the turn, the watermarks and the wake-ups.   *)
LEMMA ProducerInv ==
  ASSUME QueueInv, NEW p \in Producers, ProducerStep(p)
  PROVE  TurnExclusive' /\ NoLostWakeup' /\ Hysteresis'
  <1> p \in Actors
    BY DEF Actors
  <1> USE DEF QueueInv
  <1>1. CASE AcquireTurn(p)
    <2>1. Hysteresis'
      BY <1>1 DEF AcquireTurn, Hysteresis
    <2>2. producer[p].pc = "turn" /\ ~Holds(p)
      BY <1>1 DEF AcquireTurn, Holds
    <2>3. \A q \in Producers : q # p => producer'[q] = producer[q]
      BY <1>1 DEF AcquireTurn, RefuseTurn, TakeTurn, AwaitTurn, TypeOK
    <2>4. ASSUME NEW q \in Producers, q # p, producer_active => producer_active'
          PROVE  ParkedForAReason(q)'
      BY <1>1, <2>3, <2>4 DEF AcquireTurn, NoLostWakeup, ParkedForAReason, Accepts, Owed, WaitsOn
    <2>5. CASE RefuseTurn(p)
      <3>1. producer'[p].pc = "idle" /\ producer_active' = producer_active
        BY <2>5 DEF RefuseTurn, TypeOK, ProducerState
      <3>2. TurnExclusive'
        BY <2>2, <2>3, <3>1 DEF TurnExclusive, Holds
      <3>3. NoLostWakeup'
        BY <2>4, <3>1 DEF NoLostWakeup, ParkedForAReason
      <3>4. QED
        BY <2>1, <3>2, <3>3
    <2>6. CASE TakeTurn(p)
      <3>1. producer'[p].pc = "body" /\ ~producer_active /\ producer_active'
        BY <2>6 DEF TakeTurn, TypeOK, ProducerState
      <3>2. TurnExclusive'
        BY <2>2, <2>3, <3>1 DEF TurnExclusive, Holds
      <3>3. NoLostWakeup'
        BY <2>4, <3>1 DEF NoLostWakeup, ParkedForAReason
      <3>4. QED
        BY <2>1, <3>2, <3>3
    <2>7. CASE AwaitTurn(p)
      <3>1. producer'[p].pc = "turn_wait" /\ producer_active' = producer_active
        BY <2>7 DEF AwaitTurn, TypeOK, ProducerState
      <3>2. TurnExclusive'
        BY <2>2, <2>3, <3>1 DEF TurnExclusive, Holds
      <3>3. ParkedForAReason(p)'
        BY <1>1, <2>7, <3>1 DEF AcquireTurn, AwaitTurn, ParkedForAReason, Accepts
      <3>4. NoLostWakeup'
        BY <2>4, <3>1, <3>3 DEF NoLostWakeup
      <3>5. QED
        BY <2>1, <3>2, <3>4
    <2>8. QED
      BY <1>1, <2>5, <2>6, <2>7 DEF AcquireTurn
  <1>2. CASE PushChunk(p)
    <2> DEFINE len == ChunkLen(p)
    <2>0. len \in Nat /\ len <= Chunk
      BY <1>2, QueueLimits DEF ChunkLen, TypeOK, ProducerState
    <2>1. CASE EnqueueChunk(p, len)
      <3>1. TurnExclusive'
        BY <1>2, <2>1 DEF PushChunk, EnqueueChunk, TurnExclusive, Holds, TypeOK
      <3>2. Hysteresis'
        <4>1. /\ queued_output_bytes' = queued_output_bytes + len
              /\ queued_output_bytes + len <= Limit
          BY <2>1 DEF EnqueueChunk, Fits
        <4>2. output_backpressured' <=> queued_output_bytes' >= Limit
          BY <2>1 DEF EnqueueChunk
        <4> HIDE DEF len
        <4>3. QED
          BY <2>0, <4>1, <4>2, QueueLimits DEF Hysteresis, TypeOK
      <3>3. ASSUME NEW q \in Producers PROVE ParkedForAReason(q)'
        <4>1. ParkedForAReason(q)
          BY DEF NoLostWakeup
        <4>2. \A cv : Owed(cv) => Owed(cv)'
          BY <1>2, <2>1, OwedGrows DEF PushChunk, EnqueueChunk
        <4>3. producer'[q].pc = producer[q].pc
          BY <2>1 DEF EnqueueChunk, TypeOK, ProducerState
        <4>4. QED
          BY <1>2, <2>1, <4>1, <4>2, <4>3
             DEF PushChunk, EnqueueChunk, ParkedForAReason, Accepts, WaitsOn
      <3>4. QED
        BY <3>1, <3>2, <3>3 DEF NoLostWakeup
    <2>2. CASE RefuseChunk(p, len)
      <3>1. TurnExclusive'
        BY <1>2, <2>2 DEF PushChunk, RefuseChunk, TurnExclusive, Holds, TypeOK
      <3>2. Hysteresis'
        BY <2>0, <2>2, QueueLimits DEF RefuseChunk, Hysteresis, Fits, TypeOK
      <3>3. ASSUME NEW q \in Producers PROVE ParkedForAReason(q)'
        <4>1. ParkedForAReason(q)
          BY DEF NoLostWakeup
        <4>2. CASE q = p
          BY <1>2, <2>2, <4>2 DEF PushChunk, RefuseChunk, ParkedForAReason, Accepts, TypeOK
        <4>3. CASE q # p
          BY <1>2, <2>2, <4>1, <4>3
             DEF PushChunk, RefuseChunk, ParkedForAReason, Accepts, Owed, WaitsOn, TypeOK
        <4>4. QED
          BY <4>2, <4>3
      <3>4. QED
        BY <3>1, <3>2, <3>3 DEF NoLostWakeup
    <2>3. CASE AbandonPush(p)
      <3>1. \A q \in Producers : producer'[q].pc = producer[q].pc
        BY <2>3 DEF AbandonPush, TypeOK, ProducerState
      <3>2. TurnExclusive' /\ Hysteresis'
        BY <1>2, <2>3, <3>1 DEF PushChunk, AbandonPush, TurnExclusive, Holds, Hysteresis
      <3>3. NoLostWakeup'
        BY <1>2, <2>3, <3>1
           DEF PushChunk, AbandonPush, NoLostWakeup, ParkedForAReason, Accepts, Owed, WaitsOn
      <3>4. QED
        BY <3>2, <3>3
    <2>4. QED
      BY <1>2, <2>1, <2>2, <2>3 DEF PushChunk
  <1>3. CASE PushOther(p)
    <2>1. \A q \in Producers : producer'[q].pc = producer[q].pc
      BY <1>3 DEF PushOther, TypeOK, ProducerState
    <2>2. TurnExclusive' /\ Hysteresis'
      BY <1>3, <2>1 DEF PushOther, TurnExclusive, Holds, Hysteresis
    <2>3. \A cv : Owed(cv) => Owed(cv)'
      BY <1>3, OwedGrows DEF PushOther
    <2>4. NoLostWakeup'
      BY <1>3, <2>1, <2>3 DEF PushOther, NoLostWakeup, ParkedForAReason, Accepts, WaitsOn
    <2>5. QED
      BY <2>2, <2>4
  <1>4. CASE ReleaseTurn(p)
    <2>1. TurnExclusive'
      BY <1>4 DEF ReleaseTurn, TurnExclusive, Holds, TypeOK, ProducerState
    <2>2. Hysteresis'
      BY <1>4 DEF ReleaseTurn, Hysteresis
    <2>3. /\ \A cv : Owed(cv) => Owed(cv)'
          /\ Owed("producer_order")' /\ Owed("async_changed")'
      <3>1. owed[p] = {} /\ owed' = [owed EXCEPT ![p] = {"producer_order", "async_changed"}]
        BY <1>4 DEF ReleaseTurn
      <3> DEFINE v == {"producer_order", "async_changed"}
      <3>2. owed' = [owed EXCEPT ![p] = v]
        BY <3>1
      <3>3. "producer_order" \in v /\ "async_changed" \in v
        OBVIOUS
      <3> HIDE DEF v
      <3>4. QED
        BY <3>1, <3>2, <3>3, OwedGrows
    <2>4. ASSUME NEW q \in Producers PROVE ParkedForAReason(q)'
      <3>1. ParkedForAReason(q)
        BY DEF NoLostWakeup
      <3>2. CASE q = p
        BY <1>4, <3>2 DEF ReleaseTurn, ParkedForAReason, TypeOK, ProducerState
      <3>3. CASE q # p
        <4>1. producer'[q] = producer[q]
          BY <1>4, <3>3 DEF ReleaseTurn, TypeOK
        <4>2. QED
          BY <1>4, <2>3, <3>1, <4>1
             DEF ReleaseTurn, ParkedForAReason, Accepts, WaitsOn
      <3>4. QED
        BY <3>2, <3>3
    <2>5. QED
      BY <2>1, <2>2, <2>4 DEF NoLostWakeup
  <1>5. QED
    BY <1>1, <1>2, <1>3, <1>4 DEF ProducerStep

(* A drain that lifts the backpressure owes the wake-ups it causes.        *)
LEMMA DrainInv ==
  ASSUME QueueInv, NEW c \in Consumers, NEW n \in Batches, NEW b \in Budgets, Drain(c, n, b)
  PROVE  TurnExclusive' /\ NoLostWakeup' /\ Hysteresis'
  <1> USE DEF QueueInv
  <1> c \in Actors
    BY DEF Actors
  <1> DEFINE x == Size(Whole(c, n, b)) + SplitBytes(c, n, b)
             bytes == SaturatingSub(queued_output_bytes, x)
             v == IF LiftsBackpressure(bytes) THEN LiftNotifies ELSE {}
  <1>1. x \in Nat
    BY DrainTypes
  <1>2. /\ queued_output_bytes' = bytes
        /\ output_backpressured' = (output_backpressured /\ ~LiftsBackpressure(bytes))
        /\ owed[c] = {} /\ owed' = [owed EXCEPT ![c] = v]
    BY DEF Drain
  <1>3. Hysteresis'
    BY <1>1, <1>2, ShrinkKeepsHysteresis
  <1>4. /\ producer' = producer /\ producer_active' = producer_active
        /\ closed' = closed /\ cancelled_sessions' = cancelled_sessions
    BY DEF Drain
  <1>5. TurnExclusive'
    BY <1>4 DEF TurnExclusive, Holds
  <1> HIDE DEF x, bytes
  <1>6. \/ output_backpressured' = output_backpressured
        \/ LiftNotifies = v
    BY <1>2 DEF TypeOK
  <1> HIDE DEF v
  <1>7. /\ \A cv : Owed(cv) => Owed(cv)'
        /\ \A cv \in v : Owed(cv)'
    BY <1>2, OwedGrows
  <1>8. ASSUME NEW p \in Producers PROVE ParkedForAReason(p)'
    <2>1. ParkedForAReason(p)
      BY DEF NoLostWakeup
    <2>2. producer[p].pc = "space_wait" => WaitsOn(p) \in LiftNotifies
      BY DEF WaitsOn, LiftNotifies
    <2>3. WaitsOn(p)' = WaitsOn(p) /\ Accepts(SessionOf[p])' = Accepts(SessionOf[p])
      BY <1>4 DEF WaitsOn, Accepts
    <2>4. QED
      BY <1>4, <1>6, <1>7, <2>1, <2>2, <2>3 DEF ParkedForAReason
  <1>9. QED
    BY <1>3, <1>5, <1>8 DEF NoLostWakeup

(* A manager step that wakes everyone may change what sessions are         *)
(* accepted and lift the backpressure.                                     *)
LEMMA WakeAllKeepsParked ==
  ASSUME TypeOK, NEW m \in Actors, owed[m] = {}, owed' = [owed EXCEPT ![m] = CancelNotifies],
         producer' = producer
  PROVE  NoLostWakeup'
  <1> DEFINE v == CancelNotifies
  <1>1. \A cv \in v : Owed(cv)'
    BY OwedGrows
  <1>2. ASSUME NEW p \in Producers, producer[p].pc \in {"turn_wait", "space_wait"}
        PROVE  Owed(WaitsOn(p))'
    <2>1. WaitsOn(p)' \in v
      BY <1>2, WaitersWaitOnCondVars DEF WaitsOn, CancelNotifies
    <2>2. QED
      BY <1>1, <2>1 DEF Owed
  <1>3. QED
    BY <1>2 DEF NoLostWakeup, ParkedForAReason, Owed

(* A manager step that leaves the turn, the backpressure and the producers *)
(* alone, and cancels nothing.                                             *)
LEMMA MildKeepsParked ==
  ASSUME TypeOK, NoLostWakeup, NEW m \in Actors, owed[m] = {}, NEW v,
         owed' = [owed EXCEPT ![m] = v],
         producer' = producer, producer_active' = producer_active,
         output_backpressured' = output_backpressured,
         \A s \in Sessions : Accepts(s) => Accepts(s)'
  PROVE  NoLostWakeup'
  <1>1. \A cv : Owed(cv) => Owed(cv)'
    BY OwedGrows
  <1>2. \A p \in Producers : SessionOf[p] \in Sessions
    BY QueueActors
  <1>3. QED
    BY <1>1, <1>2 DEF NoLostWakeup, ParkedForAReason, WaitsOn

(* Operations of the manager threads keep the invariant.                   *)
LEMMA ManagerInv ==
  ASSUME QueueInv, NEW m \in Managers, ManagerStep(m)
  PROVE  TurnExclusive' /\ NoLostWakeup' /\ Hysteresis'
  <1> USE DEF QueueInv
  <1> m \in Actors
    BY DEF Actors
  <1>0. producer' = producer /\ producer_active' = producer_active /\ owed[m] = {}
    BY DEF ManagerStep, cancel_session, resume_session, assign_consumer, clear_consumer,
           push_cleanup_failure, close, Ready
  <1>1. TurnExclusive'
    BY <1>0 DEF TurnExclusive, Holds
  <1>2. ASSUME NEW s \in Sessions, cancel_session(m, s)
        PROVE  NoLostWakeup' /\ Hysteresis'
    <2> DEFINE gone == {e \in events : e.session = s}
    <2>1. IsFiniteSet(gone) /\ \A e \in gone : e.lo \in Int /\ e.hi \in Int
      BY FS_Subset DEF TypeOK, Event
    <2>2. Size(gone) \in Nat
      BY <2>1, SizeType
    <2>3. /\ queued_output_bytes' = SaturatingSub(queued_output_bytes, Size(gone))
          /\ output_backpressured' = (output_backpressured /\
                ~LiftsBackpressure(SaturatingSub(queued_output_bytes, Size(gone))))
      BY <1>2 DEF cancel_session
    <2>4. Hysteresis'
      BY <2>2, <2>3, ShrinkKeepsHysteresis
    <2>5. NoLostWakeup'
      BY <1>0, <1>2, WakeAllKeepsParked DEF cancel_session
    <2>6. QED
      BY <2>4, <2>5
  <1>3. ASSUME NEW s \in Sessions, resume_session(m, s)
        PROVE  NoLostWakeup' /\ Hysteresis'
    <2>1. \A t \in Sessions : Accepts(t) => Accepts(t)'
      BY <1>3 DEF resume_session, Accepts
    <2>2. NoLostWakeup'
      BY <1>0, <1>3, <2>1, MildKeepsParked DEF resume_session
    <2>3. QED
      BY <1>3, <2>2 DEF resume_session, Hysteresis
  <1>4. ASSUME NEW s \in Sessions, NEW c \in Consumers,
               assign_consumer(m, s, c) \/ clear_consumer(m, s, c)
        PROVE  NoLostWakeup' /\ Hysteresis'
    <2>1. \A t \in Sessions : Accepts(t) => Accepts(t)'
      BY <1>4 DEF assign_consumer, clear_consumer, Accepts
    <2>2. NoLostWakeup'
      BY <1>0, <1>4, <2>1, MildKeepsParked DEF assign_consumer, clear_consumer
    <2>3. QED
      BY <1>4, <2>2 DEF assign_consumer, clear_consumer, Hysteresis
  <1>5. ASSUME NEW s \in Sessions, NEW c \in Consumers \cup {NoOne}, push_cleanup_failure(m, s, c)
        PROVE  NoLostWakeup' /\ Hysteresis'
    <2>1. \A t \in Sessions : Accepts(t) => Accepts(t)'
      BY <1>5 DEF push_cleanup_failure, Accepts
    <2>2. NoLostWakeup'
      BY <1>0, <1>5, <2>1, MildKeepsParked DEF push_cleanup_failure
    <2>3. QED
      BY <1>5, <2>2 DEF push_cleanup_failure, Hysteresis
  <1>6. CASE close(m)
    <2>1. owed' = [owed EXCEPT ![m] = CancelNotifies]
      BY <1>6 DEF close
    <2>2. NoLostWakeup'
      BY <1>0, <2>1, WakeAllKeepsParked
    <2>3. Hysteresis'
      BY <1>6 DEF close, Hysteresis
    <2>4. QED
      BY <1>1, <2>2, <2>3
  <1>7. QED
    BY <1>1, <1>2, <1>3, <1>4, <1>5, <1>6 DEF ManagerStep

(* A notification is only given up by waking whoever waits for it.         *)
LEMMA NotifyInv ==
  ASSUME QueueInv, NEW a \in Actors, Notify(a)
  PROVE  TurnExclusive' /\ NoLostWakeup' /\ Hysteresis'
  <1> USE DEF QueueInv
  <1>1. Hysteresis'
    BY DEF Notify, Hysteresis, inner
  <1>2. ASSUME NEW p \in Producers
        PROVE  /\ Holds(p)' <=> Holds(p)
               /\ \/ producer'[p] = producer[p] /\ WaitsOn(p) \notin owed[a]
                  \/ producer'[p].pc \notin {"turn_wait", "space_wait"}
    <2>1. owed[a] \subseteq CondVars
      BY DEF TypeOK
    <2>2. CASE WaitsOn(p) \in owed[a]
      <3>1. producer[p].pc \in {"turn_wait", "space_wait"}
        BY <2>1, <2>2 DEF WaitsOn, CondVars
      <3>2. producer'[p].pc = Runnable(producer[p].pc)
        BY <2>2 DEF Notify, TypeOK, ProducerState
      <3>3. QED
        BY <3>1, <3>2 DEF Holds, Runnable
    <2>3. CASE WaitsOn(p) \notin owed[a]
      BY <2>3 DEF Notify, Holds
    <2>4. QED
      BY <2>2, <2>3
  <1>3. TurnExclusive'
    BY <1>2 DEF TurnExclusive, Notify, inner
  <1>4. ASSUME NEW p \in Producers PROVE ParkedForAReason(p)'
    <2>1. CASE producer'[p].pc \notin {"turn_wait", "space_wait"}
      BY <2>1 DEF ParkedForAReason
    <2>2. CASE producer'[p] = producer[p] /\ WaitsOn(p) \notin owed[a]
      <3>1. Owed(WaitsOn(p)) => Owed(WaitsOn(p))'
        BY <2>2 DEF Owed, Notify, TypeOK, WaitsOn
      <3>2. ParkedForAReason(p)
        BY DEF NoLostWakeup
      <3>3. QED
        BY <2>2, <3>1, <3>2 DEF ParkedForAReason, Notify, inner, Accepts, Owed
    <2>3. QED
      BY <1>2, <2>1, <2>2
  <1>5. QED
    BY <1>1, <1>3, <1>4 DEF NoLostWakeup

(* Steps that touch neither the queue nor its notifications.               *)
LEMMA LocalInv ==
  ASSUME QueueInv,
         \/ \E p \in Producers, z \in Sizes : Push(p, "Output", z)
         \/ \E p \in Producers : Push(p, "Other", 1) \/ SpuriousWake(p)
         \/ \E c \in Consumers : ConsumerPark(c) \/ ConsumerTimeout(c)
         \/ UNCHANGED vars
  PROVE  TurnExclusive' /\ NoLostWakeup' /\ Hysteresis'
  <1> USE DEF QueueInv
  <1>1. UNCHANGED <<inner, owed>>
    BY DEF Push, SpuriousWake, ConsumerPark, ConsumerTimeout, vars
  <1>2. ASSUME NEW p \in Producers
        PROVE  /\ Holds(p)' <=> Holds(p)
               /\ \/ producer'[p].pc = producer[p].pc
                  \/ producer'[p].pc \notin {"turn_wait", "space_wait"}
    <2>1. ASSUME NEW q \in Producers, NEW k, NEW z, Push(q, k, z)
          PROVE  /\ Holds(p)' <=> Holds(p)
                 /\ \/ producer'[p].pc = producer[p].pc
                    \/ producer'[p].pc \notin {"turn_wait", "space_wait"}
      BY <2>1 DEF Push, Holds, TypeOK, ProducerState
    <2>2. ASSUME NEW q \in Producers, SpuriousWake(q)
          PROVE  /\ Holds(p)' <=> Holds(p)
                 /\ \/ producer'[p].pc = producer[p].pc
                    \/ producer'[p].pc \notin {"turn_wait", "space_wait"}
      BY <2>2 DEF SpuriousWake, Holds, TypeOK, ProducerState, Runnable
    <2>3. QED
      BY <2>1, <2>2 DEF ConsumerPark, ConsumerTimeout, vars, Holds
  <1>3. TurnExclusive' /\ Hysteresis'
    BY <1>1, <1>2 DEF TurnExclusive, Hysteresis, inner
  <1>4. NoLostWakeup'
    BY <1>1, <1>2 DEF NoLostWakeup, ParkedForAReason, Accepts, Owed, WaitsOn, inner
  <1>5. QED
    BY <1>3, <1>4

(* A dropped push gives its turn back and owes the wake-ups for it.        *)
LEMMA DropInv ==
  ASSUME QueueInv, NEW p \in AsyncProducers, DropPush(p)
  PROVE  TurnExclusive' /\ NoLostWakeup' /\ Hysteresis'
  <1> USE DEF QueueInv
  <1> p \in Producers /\ p \in Actors
    BY DEF Actors, Producers
  <1> DEFINE v == IF Holds(p) THEN {"producer_order", "async_changed"} ELSE {}
  <1>1. /\ \A q \in Producers : q # p => producer'[q] = producer[q]
        /\ producer'[p].pc = "idle"
    BY DEF DropPush, TypeOK, ProducerState
  <1>2. producer_active' <=> producer_active /\ ~Holds(p)
    BY DEF DropPush
  <1>3. \A q \in Producers : Holds(q)' <=> Holds(q) /\ q # p
    BY <1>1 DEF Holds
  <1>4. TurnExclusive'
    BY <1>2, <1>3 DEF TurnExclusive
  <1>5. Hysteresis'
    BY DEF DropPush, Hysteresis
  <1>6. owed[p] = {} /\ owed' = [owed EXCEPT ![p] = v]
    BY DEF DropPush
  <1>7. Holds(p) => "producer_order" \in v /\ "async_changed" \in v
    OBVIOUS
  <1> HIDE DEF v
  <1>8. /\ \A cv : Owed(cv) => Owed(cv)'
        /\ \A cv \in v : Owed(cv)'
    BY <1>6, OwedGrows
  <1>9. ASSUME NEW q \in Producers, q # p PROVE ParkedForAReason(q)'
    <2>1. ParkedForAReason(q)
      BY DEF NoLostWakeup
    <2>2. WaitsOn(q)' = WaitsOn(q) /\ Accepts(SessionOf[q])' = Accepts(SessionOf[q])
          /\ output_backpressured' = output_backpressured
      BY <1>1, <1>9 DEF WaitsOn, Accepts, DropPush
    <2>3. producer[q].pc = "turn_wait" => WaitsOn(q) \in {"producer_order", "async_changed"}
      BY DEF WaitsOn
    <2>4. QED
      BY <1>1, <1>2, <1>7, <1>8, <1>9, <2>1, <2>2, <2>3 DEF ParkedForAReason
  <1>10. ParkedForAReason(p)'
    BY <1>1 DEF ParkedForAReason
  <1>11. QED
    BY <1>4, <1>5, <1>9, <1>10 DEF NoLostWakeup

(* QueueInv is inductive.                                                  *)
LEMMA NextInv == QueueInv /\ [Next]_vars => QueueInv'
  <1> SUFFICES ASSUME QueueInv, [Next]_vars PROVE QueueInv'
    OBVIOUS
  <1>1. TypeOK'
    BY NextType DEF QueueInv
  <1>2. TurnExclusive' /\ NoLostWakeup' /\ Hysteresis'
    BY ProducerInv, DrainInv, ManagerInv, NotifyInv, LocalInv, DropInv DEF Next, DrainSome
  <1>3. QED
    BY <1>1, <1>2 DEF QueueInv

(* QueueInv holds in every reachable state of the queue.                   *)
LEMMA QueueInvariant == Spec => []QueueInv
  BY InitInv, NextInv, PTL DEF Spec

(* The producers' turn is neither shared nor leaked.                       *)
THEOREM TurnIsExclusive == Spec => []TurnExclusive
  BY QueueInvariant, PTL DEF QueueInv

(* No producer is parked without a reason or a notification on its way.    *)
THEOREM WakeupsAreNotLost == Spec => []NoLostWakeup
  BY QueueInvariant, PTL DEF QueueInv

(* The output budget is kept, and backpressure is on only above the low    *)
(* watermark.                                                              *)
THEOREM BackpressureHysteresis == Spec => []Hysteresis
  BY QueueInvariant, PTL DEF QueueInv

=============================================================================
