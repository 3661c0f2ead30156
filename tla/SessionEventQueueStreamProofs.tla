-------------------- MODULE SessionEventQueueStreamProofs --------------------
(* What the queue holds: proofs about the byte streams, the accounting and *)
(* the routing of SessionEventQueue.                                       *)
EXTENDS SessionEventQueueProofs, WellFoundedInduction

-----------------------------------------------------------------------------
(* The inductive invariant adds to QueueInv: what an event of each kind    *)
(* looks like (ShapeInv), that stamps order the events (StampInv), how the *)
(* push that has the turn stands to the queue (PushInv), and that nothing  *)
(* is settled before it is sent (SettledInv).                              *)

Shaped(e) ==
  \/ /\ e.kind = "Output" /\ e.src \in Producers
     /\ e.session = SessionOf[e.src] /\ e.lo < e.hi
  \/ /\ e.kind = "Other" /\ e.src \in Producers
     /\ e.session = SessionOf[e.src] /\ e.lo = e.hi
  \/ e.kind = "CleanupFailed" /\ e.src = NoOne /\ e.lo = e.hi

ShapeInv == \A e \in events : Shaped(e)

StampInv ==
  /\ \A e \in events : e.at <= stamp
  /\ \A e, f \in events : e.at = f.at => e = f

\* g is part of push n of p, or a report that takes no turn.
PartOf(g, p, n) == g.kind = "CleanupFailed" \/ (g.src = p /\ g.push = n)

PushInv ==
  \A e \in events, p \in Producers : e.src = p =>
    /\ e.push <= producer[p].count
    /\ producer[p].pc \in {"turn", "turn_wait"} => e.push < producer[p].count
    /\ Holds(p) /\ e.push = producer[p].count =>
         \A g \in events : e.at < g.at => PartOf(g, p, e.push)

SettledInv == \A p \in Producers : settled[p] <= sent[p]

ContentInv ==
  /\ ShapeInv /\ StampInv /\ PushInv /\ SettledInv
  /\ StreamIntact /\ Accounting /\ ChunksContiguous /\ CancelledIsSilent /\ ConsumerIsWoken

StreamInv == QueueInv /\ ContentInv

-----------------------------------------------------------------------------
(* Intervals and bytes.                                                    *)

(* A non-empty set of natural numbers has a least element.                 *)
LEMMA LeastNumber ==
  ASSUME NEW S, \A x \in S : x \in Nat, S # {}
  PROVE  \E m \in S : \A y \in S : m <= y
  <1>1. S \subseteq Nat
    OBVIOUS
  <1>2. PICK m \in S : \A y \in S : ~ (<<y, m>> \in OpToRel(<, Nat))
    BY <1>1, NatLessThanWellFounded, WFMin
  <1>3. ASSUME NEW y \in S, y < m PROVE FALSE
    <2>1. <<y, m>> \in OpToRel(<, Nat)
      BY <1>1, <1>3 DEF OpToRel
    <2>2. QED
      BY <1>2, <2>1
  <1>4. QED
    BY <1>1, <1>3

LEMMA IntervalAppend ==
  ASSUME NEW a \in Nat, NEW b \in Nat, NEW n \in Nat, a <= b
  PROVE  ((a + 1) .. b) \cup ((b + 1) .. (b + n)) = (a + 1) .. (b + n)
  OBVIOUS

(* What is taken from the front of an interval is an interval.             *)
LEMMA FrontOfInterval ==
  ASSUME NEW a \in Nat, NEW b \in Nat, a <= b, NEW A, NEW B, A \cup B = (a + 1) .. b,
         \A x \in A, y \in B : x < y
  PROVE  /\ IsFiniteSet(A) /\ Cardinality(A) \in Nat /\ a + Cardinality(A) <= b
         /\ B = (a + Cardinality(A) + 1) .. b
  <1>1. CASE B = {}
    <2>1. A = (a + 1) .. b
      BY <1>1
    <2>2. IsFiniteSet(A) /\ Cardinality(A) = IF a + 1 > b THEN 0 ELSE b - (a + 1) + 1
      <3>1. a + 1 \in Int /\ b \in Int
        OBVIOUS
      <3>2. QED
        BY <2>1, <3>1, FS_Interval
    <2>3. QED
      BY <1>1, <2>2
  <1>2. CASE B # {}
    <2>1. PICK m \in B : \A y \in B : m <= y
      BY <1>2, LeastNumber
    <2>2. m \in (a + 1) .. b
      BY <2>1
    <2>3. A = (a + 1) .. (m - 1)
      <3>1. \A x \in A : x \in (a + 1) .. b /\ x < m
        BY <2>1
      <3>2. \A x \in (a + 1) .. (m - 1) : x \in A \cup B /\ x \notin B
        BY <2>1, <2>2
      <3>3. \A x \in A : x \in (a + 1) .. (m - 1)
        BY <2>2, <3>1
      <3>4. QED
        BY <3>2, <3>3
    <2>4. B = m .. b
      <3>1. \A y \in B : y \in m .. b
        BY <2>1
      <3>2. \A y \in m .. b : y \in A \cup B /\ y \notin A
        BY <2>2, <2>3
      <3>3. QED
        BY <3>1, <3>2
    <2>5. IsFiniteSet(A) /\ Cardinality(A) = m - 1 - a
      BY <2>2, <2>3, FS_Interval
    <2>6. QED
      BY <2>2, <2>4, <2>5
  <1>3. QED
    BY <1>1, <1>2

(* Events without a byte in common hold together what each of them holds.  *)
LEMMA SizeSum ==
  ASSUME NEW A, NEW B, IsFiniteSet(A), IsFiniteSet(B),
         \A e \in A \cup B : e.lo \in Int /\ e.hi \in Int, Bytes(A) \cap Bytes(B) = {}
  PROVE  Size(A \cup B) = Size(A) + Size(B) /\ Size(A) \in Nat /\ Size(B) \in Nat
  <1>1. IsFiniteSet(Bytes(A)) /\ IsFiniteSet(Bytes(B)) /\ Size(A) \in Nat /\ Size(B) \in Nat
    BY SizeType
  <1>2. Bytes(A \cup B) = Bytes(A) \cup Bytes(B)
    BY DEF Bytes
  <1>3. Cardinality(Bytes(A) \cup Bytes(B))
          = Cardinality(Bytes(A)) + Cardinality(Bytes(B)) - Cardinality({})
    BY <1>1, FS_Union
  <1>4. Cardinality({}) = 0
    BY FS_EmptySet
  <1>5. Size(A \cup B) = Size(A) + Size(B) - 0
    BY <1>2, <1>3, <1>4 DEF Size
  <1>6. QED
    BY <1>1, <1>5

LEMMA SizeOne ==
  ASSUME NEW e, e.lo \in Int, e.hi \in Int, e.lo <= e.hi
  PROVE  Size({e}) = e.hi - e.lo /\ Bytes({e}) = EventBytes(e)
  <1>1. Bytes({e}) = EventBytes(e)
    BY DEF Bytes
  <1>2. QED
    BY <1>1, EventBytesFinite DEF Size

(* The positions in p's stream of the bytes that a set of events holds.    *)
Positions(E, p) == {x \in Nat : \E e \in E : e.src = p /\ e.lo < x /\ x <= e.hi}

LEMMA SourceSize ==
  ASSUME NEW E, NEW p, \A e \in E : e.lo \in Nat /\ e.hi \in Nat, IsFiniteSet(Positions(E, p))
  PROVE  Size({e \in E : e.src = p}) = Cardinality(Positions(E, p))
  <1> DEFINE P == Positions(E, p)
             F == {e \in E : e.src = p}
  <1>1. Bytes(F) = {p} \X P
    <2>1. ASSUME NEW y \in Bytes(F) PROVE y \in {p} \X P
      <3>1. PICK e \in F : y \in {e.src} \X ((e.lo + 1) .. e.hi)
        BY DEF Bytes, EventBytes
      <3>2. PICK x \in (e.lo + 1) .. e.hi : y = <<p, x>>
        BY <3>1
      <3>3. x \in P
        BY DEF Positions
      <3>4. QED
        BY <3>2, <3>3
    <2>2. ASSUME NEW x \in P PROVE <<p, x>> \in Bytes(F)
      <3>1. PICK e \in F : e.lo < x /\ x <= e.hi /\ x \in Nat
        BY DEF Positions
      <3>2. <<p, x>> \in EventBytes(e)
        BY <3>1 DEF EventBytes
      <3>3. QED
        BY <3>2 DEF Bytes
    <2>3. QED
      BY <2>1, <2>2
  <1> HIDE DEF P, F
  <1>2. IsFiniteSet({p}) /\ Cardinality({p}) = 1 /\ IsFiniteSet(P)
    BY FS_Singleton DEF P
  <1>3. Cardinality({p} \X P) = 1 * Cardinality(P)
    BY <1>2, FS_Product
  <1>4. Cardinality(P) \in Nat
    BY <1>2, FS_CardinalityType
  <1>5. Size(F) = Cardinality(P)
    BY <1>1, <1>3, <1>4 DEF Size
  <1>6. QED
    BY <1>5 DEF F, P

(* The first clause of StreamIntact, in terms of positions.                *)
LEMMA StreamPositions ==
  ASSUME NEW E \in SUBSET Event, \A e \in E : Shaped(e), NEW p \in Producers
  PROVE  UNION {(e.lo + 1) .. e.hi : e \in {x \in E : x.kind = "Output" /\ x.src = p}}
           = Positions(E, p)
  <1> DEFINE O == {x \in E : x.kind = "Output" /\ x.src = p}
  <1>1. ASSUME NEW e \in O, NEW x \in (e.lo + 1) .. e.hi PROVE x \in Positions(E, p)
    BY DEF Positions, Event
  <1>2. ASSUME NEW x \in Positions(E, p)
        PROVE  \E e \in O : x \in (e.lo + 1) .. e.hi
    <2>1. PICK e \in E : e.src = p /\ e.lo < x /\ x <= e.hi /\ x \in Nat
      BY DEF Positions
    <2>2. e.lo \in Nat /\ e.hi \in Nat
      BY DEF Event
    <2>3. e.kind = "Output"
      BY <2>1, <2>2 DEF Shaped
    <2>4. QED
      BY <2>1, <2>2, <2>3
  <1>3. QED
    BY <1>1, <1>2

(* Two events of the queue have no byte in common.                         *)
LEMMA BytesApart ==
  ASSUME TypeOK, ShapeInv, StampInv, StreamIntact,
         NEW A \in SUBSET events, NEW B \in SUBSET events, A \cap B = {}
  PROVE  /\ Bytes(A) \cap Bytes(B) = {}
         /\ Size(A \cup B) = Size(A) + Size(B) /\ Size(A) \in Nat /\ Size(B) \in Nat
  <1>1. ASSUME NEW e \in events, NEW f \in events, e # f PROVE EventBytes(e) \cap EventBytes(f) = {}
    <2>1. e.lo \in Nat /\ e.hi \in Nat /\ e.at \in Nat /\ f.lo \in Nat /\ f.hi \in Nat /\ f.at \in Nat
      BY DEF TypeOK, Event
    <2>2. SUFFICES ASSUME NEW y \in EventBytes(e), y \in EventBytes(f) PROVE FALSE
      OBVIOUS
    <2>3. PICK x \in (e.lo + 1) .. e.hi : y = <<e.src, x>>
      BY DEF EventBytes
    <2>4. PICK z \in (f.lo + 1) .. f.hi : y = <<f.src, z>>
      BY <2>2 DEF EventBytes
    <2>5. e.src = f.src /\ x = z /\ e.lo < e.hi /\ f.lo < f.hi
      BY <2>1, <2>3, <2>4
    <2>6. e.src \in Producers /\ e \in Outputs(e.src) /\ f \in Outputs(e.src)
      BY <2>1, <2>5 DEF ShapeInv, Shaped, Outputs
    <2>7. e.at < f.at \/ f.at < e.at
      BY <1>1, <2>1 DEF StampInv
    <2>8. e.hi <= f.lo \/ f.hi <= e.lo
      BY <2>6, <2>7 DEF StreamIntact
    <2>9. QED
      BY <2>1, <2>3, <2>4, <2>5, <2>8
  <1>2. Bytes(A) \cap Bytes(B) = {}
    BY <1>1 DEF Bytes
  <1>3. IsFiniteSet(A) /\ IsFiniteSet(B) /\ \A e \in A \cup B : e.lo \in Int /\ e.hi \in Int
    BY FS_Subset DEF TypeOK, Event
  <1>4. QED
    BY <1>2, <1>3, SizeSum

-----------------------------------------------------------------------------
(* Events of one push, and the order of pushes.                            *)

(* An event is added by the holder of the turn, or by the reaper.          *)
LEMMA AddedEvent ==
  ASSUME StreamInv, NEW e, events' = events \cup {e}, stamp' = stamp + 1, e.at = stamp + 1,
         \/ e.kind = "CleanupFailed" /\ e.src = NoOne
         \/ \E p \in Producers : e.src = p /\ Holds(p) /\ e.push = producer[p].count,
         \A q \in Producers : producer'[q].count = producer[q].count /\ producer'[q].pc = producer[q].pc
  PROVE  StampInv' /\ PushInv' /\ ChunksContiguous'
  <1>1. /\ TypeOK /\ TurnExclusive /\ ShapeInv /\ StampInv /\ PushInv /\ ChunksContiguous
    BY DEF StreamInv, ContentInv, QueueInv
  <1>2. /\ stamp \in Nat /\ \A x \in events : x.at \in Nat /\ x.at <= stamp
        /\ NoOne \notin Producers /\ \A q \in Producers : producer[q].count \in Nat
    BY <1>1, QueueActors DEF TypeOK, Event, StampInv, ProducerState
  <1>3. StampInv'
    BY <1>1, <1>2 DEF StampInv
  <1>4. \A x \in events : x.at < e.at /\ ~(e.at < x.at)
    BY <1>2
  <1>5. \A q \in Producers : Holds(q)' <=> Holds(q)
    BY DEF Holds
  <1>6. PushInv'
    <2>1. ASSUME NEW x \in events', NEW q \in Producers, x.src = q
          PROVE  /\ x.push <= producer'[q].count
                 /\ producer'[q].pc \in {"turn", "turn_wait"} => x.push < producer'[q].count
                 /\ Holds(q)' /\ x.push = producer'[q].count =>
                      \A g \in events' : x.at < g.at => PartOf(g, q, x.push)
      <3>1. CASE x \in events
        <4>1. /\ x.push <= producer[q].count
              /\ producer[q].pc \in {"turn", "turn_wait"} => x.push < producer[q].count
              /\ Holds(q) /\ x.push = producer[q].count =>
                   \A g \in events : x.at < g.at => PartOf(g, q, x.push)
          BY <1>1, <2>1, <3>1 DEF PushInv
        <4>2. Holds(q) /\ x.push = producer[q].count => PartOf(e, q, x.push)
          BY <1>1 DEF TurnExclusive, PartOf
        <4>3. QED
          BY <1>5, <4>1, <4>2
      <3>2. CASE x = e
        <4>1. Holds(q) /\ e.push = producer[q].count
          BY <1>2, <2>1, <3>2
        <4>2. \A g \in events' : ~(e.at < g.at)
          BY <1>2
        <4>3. QED
          BY <1>2, <3>2, <4>1, <4>2 DEF Holds
      <3>3. QED
        BY <3>1, <3>2
    <2>2. QED
      BY <2>1 DEF PushInv, PartOf
  <1>7. ChunksContiguous'
    <2>1. ASSUME NEW x \in events', NEW f \in events', NEW g \in events', x.kind = "Output",
                 x.src = f.src, x.push = f.push, x.at < g.at, g.at < f.at
          PROVE  g.kind = "CleanupFailed" \/ (g.src = x.src /\ g.push = x.push)
      <3>1. x \in events /\ g \in events
        BY <1>2, <2>1
      <3>2. CASE f \in events
        BY <1>1, <2>1, <3>1, <3>2 DEF ChunksContiguous
      <3>3. CASE f = e
        <4>1. x.src \in Producers
          BY <1>1, <2>1, <3>1 DEF ShapeInv, Shaped
        <4>2. Holds(x.src) /\ x.push = producer[x.src].count
          BY <1>2, <2>1, <3>3, <4>1
        <4>3. PartOf(g, x.src, x.push)
          BY <1>1, <2>1, <3>1, <4>1, <4>2 DEF PushInv
        <4>4. QED
          BY <4>3 DEF PartOf
      <3>4. QED
        BY <3>2, <3>3
    <2>2. QED
      BY <2>1 DEF ChunksContiguous
  <1>8. QED
    BY <1>3, <1>6, <1>7

\* e stands where o stood: the same event, perhaps without its first bytes.
Shadows(e, o) ==
  /\ e.at = o.at /\ e.kind = o.kind /\ e.session = o.session /\ e.src = o.src
  /\ e.push = o.push /\ e.owner = o.owner /\ e.hi = o.hi /\ o.lo <= e.lo

\* What p may do to its own push while the queue only shrinks.
Progresses(p) ==
  \/ /\ producer'[p].count = producer[p].count
     /\ producer'[p].pc \in {"turn", "turn_wait"} => producer[p].pc \in {"turn", "turn_wait"}
     /\ Holds(p)' => Holds(p) \/ producer[p].pc \in {"turn", "turn_wait"}
  \/ producer'[p].count = producer[p].count + 1 /\ producer'[p].pc = "turn"

(* The queue only shrinks.                                                 *)
LEMMA ShrunkPushes ==
  ASSUME StreamInv, \A e \in events' : \E o \in events : Shadows(e, o),
         \A p \in Producers : Progresses(p)
  PROVE  PushInv' /\ ChunksContiguous'
  <1>1. TypeOK /\ PushInv /\ ChunksContiguous
    BY DEF StreamInv, ContentInv, QueueInv
  <1>2. /\ \A q \in Producers : producer[q].count \in Nat
        /\ \A e \in events : e.push \in Nat
    BY <1>1 DEF TypeOK, ProducerState, Event
  <1>3. ASSUME NEW x \in events', NEW q \in Producers, x.src = q
        PROVE  /\ x.push <= producer'[q].count
               /\ producer'[q].pc \in {"turn", "turn_wait"} => x.push < producer'[q].count
               /\ Holds(q)' /\ x.push = producer'[q].count =>
                    \A g \in events' : x.at < g.at => PartOf(g, q, x.push)
    <2>1. PICK o \in events : Shadows(x, o)
      OBVIOUS
    <2>2. /\ o.push <= producer[q].count /\ o.push = x.push /\ o.push \in Nat
          /\ producer[q].pc \in {"turn", "turn_wait"} => o.push < producer[q].count
          /\ Holds(q) /\ o.push = producer[q].count =>
               \A g \in events : o.at < g.at => PartOf(g, q, o.push)
      BY <1>1, <1>2, <1>3, <2>1 DEF PushInv, Shadows
    <2>3. CASE producer'[q].count = producer[q].count + 1 /\ producer'[q].pc = "turn"
      <3>1. ~Holds(q)'
        BY <2>3 DEF Holds
      <3>2. x.push < producer'[q].count /\ x.push <= producer'[q].count
        BY <1>2, <2>2, <2>3
      <3>3. QED
        BY <3>1, <3>2
    <2>4. CASE /\ producer'[q].count = producer[q].count
               /\ producer'[q].pc \in {"turn", "turn_wait"} => producer[q].pc \in {"turn", "turn_wait"}
               /\ Holds(q)' => Holds(q) \/ producer[q].pc \in {"turn", "turn_wait"}
      <3>1. ASSUME Holds(q)', x.push = producer'[q].count, NEW g \in events', x.at < g.at
            PROVE  PartOf(g, q, x.push)
        <4>1. Holds(q) /\ o.push = producer[q].count
          BY <1>2, <2>2, <2>4, <3>1
        <4>2. PICK h \in events : Shadows(g, h)
          OBVIOUS
        <4>3. PartOf(h, q, o.push)
          BY <2>1, <2>2, <3>1, <4>1, <4>2 DEF Shadows
        <4>4. QED
          BY <2>2, <4>2, <4>3 DEF PartOf, Shadows
      <3>2. QED
        BY <2>2, <2>4, <3>1
    <2>5. QED
      BY <2>3, <2>4 DEF Progresses
  <1>4. PushInv'
    BY <1>3 DEF PushInv, PartOf
  <1>5. ASSUME NEW x \in events', NEW f \in events', NEW g \in events', x.kind = "Output",
               x.src = f.src, x.push = f.push, x.at < g.at, g.at < f.at
        PROVE  g.kind = "CleanupFailed" \/ (g.src = x.src /\ g.push = x.push)
    <2>1. PICK o1 \in events : Shadows(x, o1)
      OBVIOUS
    <2>2. PICK o2 \in events : Shadows(f, o2)
      OBVIOUS
    <2>3. PICK o3 \in events : Shadows(g, o3)
      OBVIOUS
    <2>4. /\ o1.kind = "Output" /\ o1.src = o2.src /\ o1.push = o2.push
          /\ o1.at < o3.at /\ o3.at < o2.at
      BY <1>5, <2>1, <2>2, <2>3 DEF Shadows
    <2>5. o3.kind = "CleanupFailed" \/ (o3.src = o1.src /\ o3.push = o1.push)
      BY <1>1, <2>4 DEF ChunksContiguous
    <2>6. QED
      BY <2>1, <2>3, <2>5 DEF Shadows
  <1>6. ChunksContiguous'
    BY <1>5 DEF ChunksContiguous
  <1>7. QED
    BY <1>4, <1>6

-----------------------------------------------------------------------------
(* The bytes in the queue.                                                 *)

(* The positions of p's bytes in the queue, and what bounds them.          *)
LEMMA QueuedPositions ==
  ASSUME StreamInv, NEW p \in Producers
  PROVE  /\ Positions(events, p) = (settled[p] + 1) .. sent[p]
         /\ settled[p] \in Nat /\ sent[p] \in Nat /\ settled[p] <= sent[p]
         /\ \A e \in events : e.src = p => e.lo >= e.hi \/ e.hi <= sent[p]
  <1>1. TypeOK /\ ShapeInv /\ StreamIntact /\ SettledInv
    BY DEF StreamInv, ContentInv, QueueInv
  <1>2. events \in SUBSET Event /\ settled[p] \in Nat /\ sent[p] \in Nat
    BY <1>1 DEF TypeOK
  <1>3. Positions(events, p) = (settled[p] + 1) .. sent[p]
    <2>1. UNION {(e.lo + 1) .. e.hi : e \in Outputs(p)} = (settled[p] + 1) .. sent[p]
      BY <1>1 DEF StreamIntact
    <2>2. UNION {(e.lo + 1) .. e.hi : e \in Outputs(p)} = Positions(events, p)
      BY <1>1, <1>2, StreamPositions DEF ShapeInv, Outputs
    <2>3. QED
      BY <2>1, <2>2
  <1>4. ASSUME NEW e \in events, e.src = p, e.lo < e.hi PROVE e.hi <= sent[p]
    <2>1. e.lo \in Nat /\ e.hi \in Nat
      BY <1>2 DEF Event
    <2>2. e.hi \in Positions(events, p)
      BY <1>4, <2>1 DEF Positions
    <2>3. QED
      BY <1>2, <1>3, <2>2
  <1>5. \A e \in events : e.lo \in Nat /\ e.hi \in Nat
    BY <1>2 DEF Event
  <1>6. QED
    BY <1>1, <1>2, <1>3, <1>4, <1>5 DEF SettledInv

(* StreamIntact of the next state, in terms of positions.                  *)
LEMMA IntactNext ==
  ASSUME TypeOK', ShapeInv',
         \A p \in Producers : Positions(events', p) = (settled'[p] + 1) .. sent'[p],
         \A e, f \in events' : e.kind = "Output" /\ f.kind = "Output" /\ e.src = f.src /\ e.at < f.at
                                 => e.hi <= f.lo
  PROVE  StreamIntact'
  <1>1. events' \in SUBSET Event /\ \A e \in events' : Shaped(e)
    BY DEF TypeOK, ShapeInv, Shaped
  <1>2. ASSUME NEW p \in Producers
        PROVE  /\ UNION {(e.lo + 1) .. e.hi : e \in Outputs(p)'} = (settled'[p] + 1) .. sent'[p]
               /\ \A e, f \in Outputs(p)' : e.at < f.at => e.hi <= f.lo
               /\ \A e \in Outputs(p)' : e.lo < e.hi
    <2>1. Outputs(p)' = {x \in events' : x.kind = "Output" /\ x.src = p}
      BY DEF Outputs
    <2>2. UNION {(e.lo + 1) .. e.hi : e \in Outputs(p)'} = Positions(events', p)
      BY <1>1, <2>1, StreamPositions
    <2>3. QED
      BY <1>1, <2>1, <2>2 DEF Shaped
  <1>3. QED
    BY <1>2 DEF StreamIntact

LEMMA EnqueuedContent ==
  ASSUME StreamInv, TypeOK', NEW p \in Producers, NEW len \in Nat \ {0}, EnqueueChunk(p, len)
  PROVE  ShapeInv' /\ SettledInv' /\ StreamIntact' /\ Accounting'
  <1>1. /\ TypeOK /\ ShapeInv /\ StampInv /\ StreamIntact /\ SettledInv /\ Accounting
    BY DEF StreamInv, ContentInv, QueueInv
  <1>2. PICK e : e = [at |-> stamp + 1, kind |-> "Output", session |-> SessionOf[p], src |-> p,
                      push |-> producer[p].count, lo |-> sent[p], hi |-> sent[p] + len,
                      owner |-> NoOne]
    OBVIOUS
  <1>3. /\ events' = events \cup {e} /\ sent' = [sent EXCEPT ![p] = @ + len]
        /\ queued_output_bytes' = queued_output_bytes + len /\ settled' = settled
    BY <1>2 DEF EnqueueChunk
  <1>4. /\ e.at = stamp + 1 /\ e.kind = "Output" /\ e.src = p /\ e.lo = sent[p]
        /\ e.hi = sent[p] + len /\ e.session = SessionOf[p]
    BY <1>2
  <1>5. /\ sent \in [Producers -> Nat] /\ settled \in [Producers -> Nat] /\ stamp \in Nat
        /\ sent'[p] = sent[p] + len /\ \A q \in Producers \ {p} : sent'[q] = sent[q]
        /\ events \subseteq Event /\ \A x \in events : x.lo \in Nat /\ x.hi \in Nat /\ x.at \in Nat
    BY <1>1, <1>3 DEF TypeOK, Event
  <1>6. ShapeInv'
    <2>1. Shaped(e)
      BY <1>4, <1>5 DEF Shaped
    <2>2. QED
      BY <1>1, <1>3, <2>1 DEF ShapeInv, Shaped
  <1>7. SettledInv'
    BY <1>1, <1>3, <1>5 DEF SettledInv
  <1>8. ASSUME NEW q \in Producers PROVE Positions(events', q) = (settled'[q] + 1) .. sent'[q]
    <2>1. /\ Positions(events, q) = (settled[q] + 1) .. sent[q]
          /\ settled[q] \in Nat /\ sent[q] \in Nat /\ settled[q] <= sent[q]
      BY QueuedPositions
    <2>2. CASE q = p
      <3>1. Positions(events', p) = Positions(events, p) \cup ((sent[p] + 1) .. (sent[p] + len))
        <4>1. \A x \in Nat : e.lo < x /\ x <= e.hi <=> x \in (sent[p] + 1) .. (sent[p] + len)
          BY <1>4, <1>5
        <4>2. \A x \in (sent[p] + 1) .. (sent[p] + len) : x \in Nat
          BY <1>5
        <4>3. QED
          BY <1>3, <1>4, <4>1, <4>2 DEF Positions
      <3>2. ((settled[p] + 1) .. sent[p]) \cup ((sent[p] + 1) .. (sent[p] + len))
              = (settled[p] + 1) .. (sent[p] + len)
        BY <2>1, <2>2, IntervalAppend
      <3>3. settled'[p] = settled[p] /\ sent'[p] = sent[p] + len
        BY <1>3, <1>5
      <3>4. QED
        BY <2>1, <2>2, <3>1, <3>2, <3>3
    <2>3. CASE q # p
      <3>1. Positions(events', q) = Positions(events, q)
        BY <1>3, <1>4, <2>3 DEF Positions
      <3>2. QED
        BY <1>3, <1>5, <2>1, <2>3, <3>1
    <2>4. QED
      BY <2>2, <2>3
  <1>9. ASSUME NEW x \in events', NEW y \in events', x.kind = "Output", y.kind = "Output",
               x.src = y.src, x.at < y.at
        PROVE  x.hi <= y.lo
    <2>1. x.at <= stamp /\ x \in events
      BY <1>1, <1>3, <1>4, <1>5, <1>9 DEF StampInv
    <2>2. x.src \in Producers /\ x.lo < x.hi
      BY <1>1, <1>9, <2>1 DEF ShapeInv, Shaped
    <2>3. CASE y \in events
      BY <1>1, <1>9, <2>1, <2>2, <2>3 DEF StreamIntact, Outputs
    <2>4. CASE y = e
      <3>1. x.lo >= x.hi \/ x.hi <= sent[p]
        BY <1>4, <1>9, <2>1, <2>4, QueuedPositions
      <3>2. QED
        BY <1>4, <1>5, <2>1, <2>2, <2>4, <3>1
    <2>5. QED
      BY <1>3, <2>3, <2>4
  <1>10. StreamIntact'
    BY <1>6, <1>8, <1>9, IntactNext
  <1>11. Accounting'
    <2>1. Bytes(events) \cap Bytes({e}) = {}
      <3>1. SUFFICES ASSUME NEW y \in Bytes(events), y \in Bytes({e}) PROVE FALSE
        OBVIOUS
      <3>2. PICK f \in events : y \in EventBytes(f)
        BY DEF Bytes
      <3>3. PICK x \in (f.lo + 1) .. f.hi : y = <<f.src, x>>
        BY <3>2 DEF EventBytes
      <3>4. PICK z \in (e.lo + 1) .. e.hi : y = <<p, z>>
        BY <1>4, <3>1 DEF Bytes, EventBytes
      <3>5. f.src = p /\ x = z /\ x > sent[p]
        BY <1>4, <1>5, <3>3, <3>4
      <3>6. f.lo < f.hi /\ f.hi > sent[p]
        BY <1>5, <3>5
      <3>7. QED
        BY <1>5, <3>5, <3>6, QueuedPositions
    <2>2. IsFiniteSet(events) /\ IsFiniteSet({e})
      BY <1>1, FS_Singleton DEF TypeOK
    <2>3. \A f \in events \cup {e} : f.lo \in Int /\ f.hi \in Int
      BY <1>4, <1>5
    <2>4. Size(events \cup {e}) = Size(events) + Size({e})
      BY <2>1, <2>2, <2>3, SizeSum
    <2>5. Size({e}) = len
      BY <1>4, <1>5, SizeOne
    <2>6. Size(events)' = Size(events \cup {e})
      BY <1>3 DEF Size, Bytes, EventBytes
    <2>7. QED
      BY <1>1, <1>3, <2>4, <2>5, <2>6 DEF Accounting
  <1>12. QED
    BY <1>6, <1>7, <1>10, <1>11

(* An event that carries no output.                                        *)
LEMMA SilentContent ==
  ASSUME StreamInv, TypeOK', NEW e, Shaped(e), e.kind # "Output", events' = events \cup {e},
         UNCHANGED <<queued_output_bytes, sent, settled>>
  PROVE  ShapeInv' /\ SettledInv' /\ StreamIntact' /\ Accounting'
  <1>1. /\ TypeOK /\ ShapeInv /\ StreamIntact /\ SettledInv /\ Accounting
    BY DEF StreamInv, ContentInv, QueueInv
  <1>2. ShapeInv' /\ SettledInv'
    BY <1>1 DEF ShapeInv, Shaped, SettledInv
  <1>3. e.lo = e.hi /\ e.lo \in Nat
    BY DEF Shaped, TypeOK, Event
  <1>4. ASSUME NEW q \in Producers PROVE Positions(events', q) = (settled'[q] + 1) .. sent'[q]
    <2>1. Positions(events', q) = Positions(events, q)
      BY <1>3 DEF Positions
    <2>2. QED
      BY <2>1, QueuedPositions
  <1>5. ASSUME NEW x \in events', NEW y \in events', x.kind = "Output", y.kind = "Output",
               x.src = y.src, x.at < y.at
        PROVE  x.hi <= y.lo
    <2>1. x \in events /\ y \in events /\ x.src \in Producers
      BY <1>1, <1>5 DEF ShapeInv, Shaped
    <2>2. QED
      BY <1>1, <1>5, <2>1 DEF StreamIntact, Outputs
  <1>6. StreamIntact'
    BY <1>2, <1>4, <1>5, IntactNext
  <1>7. Accounting'
    <2>1. EventBytes(e) = {}
      BY <1>3 DEF EventBytes
    <2>2. Bytes(events \cup {e}) = Bytes(events)
      BY <2>1 DEF Bytes
    <2>3. Size(events)' = Size(events)
      BY <2>2 DEF Size, Bytes, EventBytes
    <2>4. QED
      BY <1>1, <2>3 DEF Accounting
  <1>8. QED
    BY <1>2, <1>6, <1>7

(* What is left of a counter when a part of what it counts goes.           *)
LEMMA SubtractPart ==
  ASSUME NEW a \in Nat, NEW b \in Nat
  PROVE  SaturatingSub(a + b, a) = b
  BY DEF SaturatingSub

LEMMA CancelledContent ==
  ASSUME StreamInv, TypeOK', NEW m \in Managers, NEW s \in Sessions, cancel_session(m, s)
  PROVE  ShapeInv' /\ StampInv' /\ SettledInv' /\ StreamIntact' /\ Accounting'
  <1>1. /\ TypeOK /\ ShapeInv /\ StampInv /\ StreamIntact /\ SettledInv /\ Accounting
    BY DEF StreamInv, ContentInv, QueueInv
  <1> DEFINE gone == {e \in events : e.session = s}
  <1>2. /\ events' = events \ gone /\ stamp' = stamp /\ sent' = sent
        /\ queued_output_bytes' = SaturatingSub(queued_output_bytes, Size(gone))
        /\ settled' = [p \in Producers |-> IF SessionOf[p] = s THEN sent[p] ELSE settled[p]]
    BY DEF cancel_session
  <1>3. ShapeInv' /\ StampInv'
    BY <1>1, <1>2 DEF ShapeInv, Shaped, StampInv
  <1>4. SettledInv'
    BY <1>1, <1>2 DEF SettledInv, TypeOK
  <1>5. ASSUME NEW p \in Producers PROVE Positions(events', p) = (settled'[p] + 1) .. sent'[p]
    <2>1. /\ Positions(events, p) = (settled[p] + 1) .. sent[p]
          /\ settled[p] \in Nat /\ sent[p] \in Nat
      BY QueuedPositions
    <2>2. NoOne # p /\ \A e \in events : e.src = p => e.session = SessionOf[p]
      BY <1>1, QueueActors DEF ShapeInv, Shaped
    <2>3. CASE SessionOf[p] = s
      <3>1. Positions(events', p) = {}
        BY <1>2, <2>2, <2>3 DEF Positions
      <3>2. (sent[p] + 1) .. sent[p] = {}
        BY <2>1
      <3>3. QED
        BY <1>2, <2>3, <3>1, <3>2
    <2>4. CASE SessionOf[p] # s
      <3>1. Positions(events', p) = Positions(events, p)
        BY <1>2, <2>2, <2>4 DEF Positions
      <3>2. QED
        BY <1>2, <2>1, <2>4, <3>1
    <2>5. QED
      BY <2>3, <2>4
  <1>6. ASSUME NEW x \in events', NEW y \in events', x.kind = "Output", y.kind = "Output",
               x.src = y.src, x.at < y.at
        PROVE  x.hi <= y.lo
    <2>1. x \in events /\ y \in events /\ x.src \in Producers
      BY <1>1, <1>2, <1>6 DEF ShapeInv, Shaped
    <2>2. QED
      BY <1>1, <1>6, <2>1 DEF StreamIntact, Outputs
  <1>7. StreamIntact'
    BY <1>3, <1>5, <1>6, IntactNext
  <1>8. Accounting'
    <2> DEFINE kept == events \ gone
    <2>1. /\ gone \in SUBSET events /\ kept \in SUBSET events /\ gone \cap kept = {}
          /\ gone \cup kept = events
      OBVIOUS
    <2> HIDE DEF gone, kept
    <2>2. Size(events) = Size(gone) + Size(kept) /\ Size(gone) \in Nat /\ Size(kept) \in Nat
      BY <1>1, <2>1, BytesApart
    <2>3. queued_output_bytes' = Size(kept)
      BY <1>1, <1>2, <2>2, SubtractPart DEF Accounting
    <2>4. Size(events)' = Size(kept)
      BY <1>2 DEF Size, Bytes, EventBytes, kept
    <2>5. QED
      BY <2>3, <2>4 DEF Accounting
  <1>9. QED
    BY <1>3, <1>4, <1>7, <1>8

(* What a drain takes: whole events, oldest first among the events of the  *)
(* consumer, and of at most one further Output event its first bytes, but  *)
(* never all of them.                                                      *)
LEMMA DrainTakes ==
  ASSUME StreamInv, NEW c \in Consumers, NEW n \in Batches, NEW b \in Budgets
  PROVE  /\ \A e \in Whole(c, n, b) \cup Split(c, n, b), f \in Mine(c) :
              f.at < e.at => f \in Whole(c, n, b)
         /\ Whole(c, n, b) \cap Split(c, n, b) = {}
         /\ Whole(c, n, b) \cup Split(c, n, b) \subseteq Mine(c)
         /\ \A e, f \in Split(c, n, b) : e = f
         /\ \A e \in Split(c, n, b) :
              /\ e.kind = "Output" /\ SplitBytes(c, n, b) > 0
              /\ e.lo + SplitBytes(c, n, b) < e.hi
  <1> DEFINE W == Whole(c, n, b)
             S == Split(c, n, b)
             take == SplitBytes(c, n, b)
  <1>1. TypeOK /\ ShapeInv /\ StampInv /\ StreamIntact
    BY DEF StreamInv, ContentInv, QueueInv
  <1>2. b \in Nat /\ n \in Nat
    BY QueueLimits
  <1>3. W \cap S = {} /\ W \cup S \subseteq Mine(c) /\ Mine(c) \subseteq events
    BY DEF Whole, Split, Mine
  <1>4. \A e \in events : e.at \in Nat /\ e.lo \in Nat /\ e.hi \in Nat
    BY <1>1 DEF TypeOK, Event
  <1>5. ASSUME NEW e \in Mine(c)
        PROVE  /\ IsFiniteSet(UpTo(c, e)) /\ UpTo(c, e) \in SUBSET events
               /\ Cardinality(UpTo(c, e)) \in Nat
               /\ IsFiniteSet(Bytes(UpTo(c, e))) /\ Size(UpTo(c, e)) \in Nat
    <2>1. UpTo(c, e) \in SUBSET events
      BY <1>3 DEF UpTo
    <2>2. IsFiniteSet(UpTo(c, e))
      BY <1>1, <2>1, FS_Subset DEF TypeOK
    <2>3. \A f \in UpTo(c, e) : f.lo \in Int /\ f.hi \in Int
      BY <1>4, <2>1
    <2>4. QED
      BY <2>1, <2>2, <2>3, FS_CardinalityType, SizeType
  <1>6. ASSUME NEW e \in W, NEW f \in Mine(c), f.at < e.at PROVE f \in W
    <2>1. e \in Mine(c) /\ Cardinality(UpTo(c, e)) <= n /\ Size(UpTo(c, e)) <= b
      BY DEF Whole
    <2>2. UpTo(c, f) \subseteq UpTo(c, e)
      BY <1>3, <1>4, <1>6, <2>1 DEF UpTo
    <2>3. Cardinality(UpTo(c, f)) <= Cardinality(UpTo(c, e))
      BY <1>5, <2>1, <2>2, FS_Subset
    <2>4. Bytes(UpTo(c, f)) \subseteq Bytes(UpTo(c, e))
      BY <2>2 DEF Bytes
    <2>5. Size(UpTo(c, f)) <= Size(UpTo(c, e))
      BY <1>5, <2>1, <2>4, FS_Subset DEF Size
    <2>6. Cardinality(UpTo(c, f)) <= n /\ Size(UpTo(c, f)) <= b
      BY <1>2, <1>5, <2>1, <2>3, <2>5
    <2>7. QED
      BY <2>6 DEF Whole
  <1>7. ASSUME NEW e \in S, NEW f \in Mine(c), f.at < e.at PROVE f \in W
    <2>1. UpTo(c, e) \ {e} = W /\ e \in Mine(c)
      BY DEF Split
    <2>2. f \in UpTo(c, e) \ {e}
      BY <1>3, <1>4, <1>7, <2>1 DEF UpTo
    <2>3. QED
      BY <2>1, <2>2
  <1>8. ASSUME NEW e \in S, NEW f \in S PROVE e = f
    <2>1. e.at < f.at \/ f.at < e.at \/ e = f
      BY <1>1, <1>3, <1>4 DEF StampInv
    <2>2. QED
      BY <1>3, <1>7, <2>1
  <1>9. ASSUME NEW e \in S
        PROVE  e.kind = "Output" /\ take > 0 /\ e.lo + take < e.hi
    <2>1. /\ e \in Mine(c) /\ e \notin W /\ UpTo(c, e) \ {e} = W
          /\ Cardinality(W) < n /\ Size(W) < b
      BY DEF Split
    <2>2. e \in UpTo(c, e) /\ e \in events
      BY <1>3, <1>4, <2>1 DEF UpTo
    <2>3. UpTo(c, e) = W \cup {e}
      BY <2>1, <2>2
    <2>4. W \in SUBSET events /\ {e} \in SUBSET events /\ W \cap {e} = {}
      BY <1>3, <2>1, <2>2
    <2> HIDE DEF W, S, take
    <2>5. /\ Size(W \cup {e}) = Size(W) + Size({e}) /\ Size(W) \in Nat
      BY <1>1, <2>4, BytesApart
    <2>6. Cardinality(W \cup {e}) = Cardinality(W) + 1 /\ Cardinality(W) \in Nat
      <3>1. IsFiniteSet(W)
        BY <1>1, <2>4, FS_Subset DEF TypeOK
      <3>2. QED
        BY <2>1, <3>1, FS_AddElement, FS_CardinalityType
    <2>7. ~(Size(W \cup {e}) <= b)
      <3>1. Cardinality(UpTo(c, e)) <= n
        BY <1>2, <2>1, <2>3, <2>6
      <3>2. QED
        BY <2>1, <2>3, <3>1 DEF Whole, W
    <2>8. take = b - Size(W)
      BY <1>9 DEF take, SplitBytes, S, W
    <2>9. e.lo <= e.hi /\ e.lo \in Nat /\ e.hi \in Nat
      BY <1>1, <1>4, <2>2 DEF ShapeInv, Shaped
    <2>10. Size({e}) = e.hi - e.lo
      BY <2>9, SizeOne
    <2>11. take > 0 /\ e.lo + take < e.hi
      BY <1>2, <2>1, <2>5, <2>7, <2>8, <2>9, <2>10
    <2>12. e.kind = "Output"
      <3>1. take \in Nat
        BY <1>2, <2>1, <2>5, <2>8
      <3>2. e.lo # e.hi
        BY <2>9, <2>11, <3>1
      <3>3. QED
        BY <1>1, <2>2, <3>2 DEF ShapeInv, Shaped
    <2>13. QED
      BY <2>11, <2>12
  <1>10. QED
    BY <1>3, <1>6, <1>7, <1>8, <1>9

(* Every event that a drain leaves was there, and was not taken whole: it  *)
(* is untouched, or it is what remains of the event that was split.        *)
LEMMA DrainLeaves ==
  ASSUME StreamInv, NEW c \in Consumers, NEW n \in Batches, NEW b \in Budgets, Drain(c, n, b),
         NEW e \in events'
  PROVE  \E o \in events \ Whole(c, n, b) :
           /\ Shadows(e, o)
           /\ \/ o \notin Split(c, n, b) /\ e = o
              \/ /\ o \in Split(c, n, b) /\ e.lo = o.lo + SplitBytes(c, n, b)
                 /\ e = [o EXCEPT !.lo = o.lo + SplitBytes(c, n, b)]
  <1> DEFINE W == Whole(c, n, b)
             S == Split(c, n, b)
             take == SplitBytes(c, n, b)
  <1>1. events' = (events \ (W \cup S)) \cup {[g EXCEPT !.lo = g.lo + take] : g \in S}
    BY DEF Drain, Remainder
  <1>2. TypeOK /\ W \subseteq events /\ S \subseteq events /\ take \in Nat /\ W \cap S = {}
    BY DrainTypes, DrainTakes DEF StreamInv, ContentInv, QueueInv
  <1>3. \A g \in events : g \in Event /\ g.lo \in Nat
    BY <1>2 DEF TypeOK, Event
  <1>4. CASE e \in events \ (W \cup S)
    BY <1>3, <1>4 DEF Shadows
  <1>5. CASE e \in {[g EXCEPT !.lo = g.lo + take] : g \in S}
    <2>1. PICK g \in S : e = [g EXCEPT !.lo = g.lo + take]
      BY <1>5
    <2>2. g \in events \ W /\ g \in Event /\ g.lo \in Nat
      BY <1>2, <1>3
    <2>3. Shadows(e, g) /\ e.lo = g.lo + take
      BY <1>2, <2>1, <2>2 DEF Shadows, Event
    <2>4. QED
      BY <2>1, <2>2, <2>3
  <1>6. QED
    BY <1>1, <1>4, <1>5

\* What a drain delivers.
Delivered(c, n, b) ==
  Whole(c, n, b) \cup {[g EXCEPT !.hi = g.lo + SplitBytes(c, n, b)] : g \in Split(c, n, b)}

(* What a drain delivers and what it leaves are p's stream, cut in two.    *)
LEMMA DrainCuts ==
  ASSUME StreamInv, NEW c \in Consumers, NEW n \in Batches, NEW b \in Budgets, Drain(c, n, b),
         NEW p \in Producers
  PROVE  /\ Positions(Delivered(c, n, b), p) \cup Positions(events', p) = Positions(events, p)
         /\ \A x \in Positions(Delivered(c, n, b), p), y \in Positions(events', p) : x < y
         /\ \A e \in Delivered(c, n, b) : e.lo \in Nat /\ e.hi \in Nat
  <1> USE DEF Delivered
  <1> DEFINE W == Whole(c, n, b)
             S == Split(c, n, b)
             take == SplitBytes(c, n, b)
             D == Delivered(c, n, b)
  <1>1. TypeOK /\ ShapeInv /\ StampInv /\ StreamIntact
    BY DEF StreamInv, ContentInv, QueueInv
  <1>2. W \subseteq events /\ S \subseteq events /\ take \in Nat
    BY <1>1, DrainTypes
  <1>3. /\ \A e \in W \cup S, f \in Mine(c) : f.at < e.at => f \in W
        /\ W \cup S \subseteq Mine(c) /\ \A e, f \in S : e = f
        /\ \A e \in S : e.kind = "Output" /\ take > 0 /\ e.lo + take < e.hi
        /\ W \cap S = {}
    BY DrainTakes
  <1>4. \A e \in events : e \in Event /\ e.at \in Nat /\ e.lo \in Nat /\ e.hi \in Nat
    BY <1>1 DEF TypeOK, Event
  <1>5. ASSUME NEW e \in D
        PROVE  \E o \in W \cup S : /\ e.src = o.src /\ e.lo = o.lo /\ e.hi <= o.hi /\ e.hi \in Nat
                                   /\ \/ o \in W /\ e = o
                                      \/ o \in S /\ e.hi = o.lo + take
    <2>1. CASE e \in W
      BY <1>2, <1>4, <2>1
    <2>2. CASE e \in {[g EXCEPT !.hi = g.lo + take] : g \in S}
      <3>1. PICK g \in S : e = [g EXCEPT !.hi = g.lo + take]
        BY <2>2
      <3>2. g \in Event /\ g.lo \in Nat /\ g.hi \in Nat
        BY <1>2, <1>4
      <3>3. e.src = g.src /\ e.lo = g.lo /\ e.hi = g.lo + take
        BY <3>1, <3>2 DEF Event
      <3>4. e.hi <= g.hi /\ e.hi \in Nat
        BY <1>2, <1>3, <3>2, <3>3
      <3>5. QED
        BY <3>3, <3>4
    <2>3. QED
      BY <2>1, <2>2
  <1>6. ASSUME NEW o \in S PROVE [o EXCEPT !.hi = o.lo + take] \in D
    OBVIOUS
  <1>7. ASSUME NEW o \in events \ W PROVE
          \/ o \in events' /\ o \notin S
          \/ o \in S /\ [o EXCEPT !.lo = o.lo + take] \in events'
    BY DEF Drain, Remainder
  <1>8. ASSUME NEW x \in Positions(D, p), NEW y \in Positions(events', p) PROVE x < y
    <2>1. PICK e \in D : e.src = p /\ e.lo < x /\ x <= e.hi /\ x \in Nat
      BY DEF Positions
    <2>2. PICK f \in events' : f.src = p /\ f.lo < y /\ y <= f.hi /\ y \in Nat
      BY DEF Positions
    <2>3. PICK o \in W \cup S : /\ e.src = o.src /\ e.lo = o.lo /\ e.hi <= o.hi /\ e.hi \in Nat
                                /\ \/ o \in W /\ e = o
                                   \/ o \in S /\ e.hi = o.lo + take
      BY <1>5
    <2>4. PICK q \in events \ W : /\ Shadows(f, q)
                                  /\ \/ q \notin S /\ f = q
                                     \/ q \in S /\ f.lo = q.lo + take
      BY DrainLeaves
    <2>5. /\ o \in events /\ q \in events /\ o.src = p /\ q.src = p /\ f.hi = q.hi /\ q.lo <= f.lo
          /\ o.lo \in Nat /\ o.hi \in Nat /\ q.lo \in Nat /\ q.hi \in Nat /\ o.at \in Nat /\ q.at \in Nat
      BY <1>2, <1>4, <2>1, <2>2, <2>3, <2>4 DEF Shadows
    <2>6. f.lo \in Nat /\ o.lo < o.hi /\ q.lo < q.hi
      <3>1. f.lo \in Nat
        BY <1>2, <2>4, <2>5
      <3>2. QED
        BY <2>1, <2>2, <2>3, <2>5, <3>1
    <2>7. o \in Outputs(p) /\ q \in Outputs(p) /\ o.kind = "Output" /\ q.kind = "Output"
      BY <1>1, <2>5, <2>6 DEF ShapeInv, Shaped, Outputs
    <2>8. CASE o = q
      <3>1. o \in S /\ e.hi = o.lo + take /\ f.lo = o.lo + take
        BY <2>3, <2>4, <2>8, <1>3
      <3>2. QED
        BY <2>1, <2>2, <2>6, <3>1
    <2>9. CASE o.at < q.at
      <3>1. o.hi <= q.lo
        BY <1>1, <2>7, <2>9 DEF StreamIntact
      <3>2. QED
        BY <2>1, <2>2, <2>3, <2>5, <2>6, <3>1
    <2>10. CASE q.at < o.at
      <3>1. o \in Mine(c) /\ o.session = q.session
        BY <1>1, <1>3, <2>5, <2>7 DEF ShapeInv, Shaped
      <3>2. q \in Mine(c)
        BY <2>5, <2>7, <3>1 DEF Mine, Belongs
      <3>3. QED
        BY <1>3, <2>4, <2>10, <3>2
    <2>11. QED
      BY <1>1, <2>5, <2>8, <2>9, <2>10 DEF StampInv
  <1>9. ASSUME NEW x \in Positions(D, p) PROVE x \in Positions(events, p)
    <2>1. PICK e \in D : e.src = p /\ e.lo < x /\ x <= e.hi /\ x \in Nat
      BY DEF Positions
    <2>2. PICK o \in W \cup S : e.src = o.src /\ e.lo = o.lo /\ e.hi <= o.hi /\ e.hi \in Nat
      BY <1>5
    <2>3. o \in events /\ o.lo \in Nat /\ o.hi \in Nat
      BY <1>2, <1>4
    <2>4. o.src = p /\ o.lo < x /\ x <= o.hi
      BY <2>1, <2>2, <2>3
    <2>5. QED
      BY <2>1, <2>3, <2>4 DEF Positions
  <1>10. ASSUME NEW y \in Positions(events', p) PROVE y \in Positions(events, p)
    <2>1. PICK f \in events' : f.src = p /\ f.lo < y /\ y <= f.hi /\ y \in Nat
      BY DEF Positions
    <2>2. PICK q \in events \ W : Shadows(f, q) /\ (f = q \/ f.lo = q.lo + take)
      BY DrainLeaves
    <2>3. q.lo \in Nat /\ q.hi \in Nat /\ f.lo \in Nat
      BY <1>2, <1>4, <2>2
    <2>4. q.src = p /\ q.lo < y /\ y <= q.hi
      BY <2>1, <2>2, <2>3 DEF Shadows
    <2>5. QED
      BY <2>1, <2>4 DEF Positions
  <1>11. ASSUME NEW x \in Positions(events, p) PROVE x \in Positions(D, p) \cup Positions(events', p)
    <2>1. PICK o \in events : o.src = p /\ o.lo < x /\ x <= o.hi /\ x \in Nat
      BY DEF Positions
    <2>2. CASE o \in W
      BY <2>1, <2>2 DEF Positions
    <2>3. CASE o \in events' /\ o \notin S
      BY <2>1, <2>3 DEF Positions
    <2>4. CASE o \in S
      <3>1. PICK e \in D : e = [o EXCEPT !.hi = o.lo + take]
        BY <1>6, <2>4
      <3>2. PICK f \in events' : f = [o EXCEPT !.lo = o.lo + take]
        BY <1>3, <1>7, <2>4
      <3>3. /\ e.src = p /\ e.lo = o.lo /\ e.hi = o.lo + take
            /\ f.src = p /\ f.lo = o.lo + take /\ f.hi = o.hi /\ o.lo \in Nat
        BY <1>4, <2>1, <3>1, <3>2 DEF Event
      <3>4. CASE x <= o.lo + take
        BY <2>1, <3>1, <3>3, <3>4 DEF Positions
      <3>5. CASE x > o.lo + take
        BY <2>1, <3>2, <3>3, <3>5 DEF Positions
      <3>6. QED
        BY <1>2, <2>1, <3>3, <3>4, <3>5
    <2>5. QED
      BY <1>7, <2>2, <2>3, <2>4
  <1>12. \A e \in D : e.lo \in Nat /\ e.hi \in Nat
    BY <1>2, <1>4, <1>5
  <1>13. QED
    BY <1>8, <1>9, <1>10, <1>11, <1>12

(* A drain loses no byte and repeats none, and the counter follows it.     *)
LEMMA DrainedContent ==
  ASSUME StreamInv, TypeOK', NEW c \in Consumers, NEW n \in Batches, NEW b \in Budgets,
         Drain(c, n, b)
  PROVE  ShapeInv' /\ StampInv' /\ SettledInv' /\ StreamIntact' /\ Accounting'
  <1> DEFINE W == Whole(c, n, b)
             S == Split(c, n, b)
             take == SplitBytes(c, n, b)
             D == Delivered(c, n, b)
             R == Remainder(S, take)
             kept == events \ (W \cup S)
  <1>1. TypeOK /\ ShapeInv /\ StampInv /\ StreamIntact /\ Accounting
    BY DEF StreamInv, ContentInv, QueueInv
  <1>2. W \subseteq events /\ S \subseteq events /\ take \in Nat /\ Size(W) \in Nat
    BY <1>1, DrainTypes
  <1>3. /\ W \cap S = {} /\ \A e, f \in S : e = f
        /\ \A e \in S : e.kind = "Output" /\ take > 0 /\ e.lo + take < e.hi
    BY DrainTakes
  <1>4. /\ events' = kept \cup R /\ stamp' = stamp /\ sent' = sent
        /\ queued_output_bytes' = SaturatingSub(queued_output_bytes, Size(W) + take)
        /\ settled' = [p \in Producers |-> settled[p] + Size({e \in D : e.src = p})]
    BY DEF Drain, Delivered
  <1>5. ShapeInv'
    <2>1. ASSUME NEW e \in events' PROVE Shaped(e)
      <3>1. PICK o \in events \ W : /\ Shadows(e, o)
                                    /\ \/ e = o
                                       \/ o \in S /\ e.lo = o.lo + take
        BY DrainLeaves
      <3>2. Shaped(o)
        BY <1>1 DEF ShapeInv
      <3>3. CASE e = o
        BY <3>2, <3>3
      <3>4. CASE o \in S /\ e.lo = o.lo + take
        BY <1>3, <3>1, <3>2, <3>4 DEF Shaped, Shadows
      <3>5. QED
        BY <3>1, <3>3, <3>4
    <2>2. QED
      BY <2>1 DEF ShapeInv, Shaped
  <1>6. StampInv'
    <2>1. ASSUME NEW e \in events' PROVE e.at <= stamp
      BY <1>1, DrainLeaves DEF StampInv, Shadows
    <2>2. ASSUME NEW e \in events', NEW f \in events', e.at = f.at PROVE e = f
      <3>1. PICK o \in events \ W : /\ Shadows(e, o)
                                    /\ \/ o \notin S /\ e = o
                                       \/ o \in S /\ e = [o EXCEPT !.lo = o.lo + take]
        BY DrainLeaves
      <3>2. PICK q \in events \ W : /\ Shadows(f, q)
                                    /\ \/ q \notin S /\ f = q
                                       \/ q \in S /\ f = [q EXCEPT !.lo = q.lo + take]
        BY DrainLeaves
      <3>3. o = q
        <4>1. o.at = q.at
          BY <2>2, <3>1, <3>2 DEF Shadows
        <4>2. QED
          BY <1>1, <4>1 DEF StampInv
      <3>4. QED
        BY <3>1, <3>2, <3>3
    <2>3. QED
      BY <1>4, <2>1, <2>2 DEF StampInv
  <1>7. ASSUME NEW p \in Producers
        PROVE  /\ Positions(events', p) = (settled'[p] + 1) .. sent'[p]
               /\ settled'[p] <= sent'[p]
    <2>1. /\ Positions(D, p) \cup Positions(events', p) = Positions(events, p)
          /\ \A x \in Positions(D, p), y \in Positions(events', p) : x < y
          /\ \A e \in D : e.lo \in Nat /\ e.hi \in Nat
      BY DrainCuts
    <2>2. /\ Positions(events, p) = (settled[p] + 1) .. sent[p]
          /\ settled[p] \in Nat /\ sent[p] \in Nat /\ settled[p] <= sent[p]
      BY QueuedPositions
    <2> HIDE DEF D
    <2>3. /\ IsFiniteSet(Positions(D, p)) /\ Cardinality(Positions(D, p)) \in Nat
          /\ settled[p] + Cardinality(Positions(D, p)) <= sent[p]
          /\ Positions(events', p) = (settled[p] + Cardinality(Positions(D, p)) + 1) .. sent[p]
      BY <2>1, <2>2, FrontOfInterval, ZenonT(40)
    <2>4. Size({e \in D : e.src = p}) = Cardinality(Positions(D, p))
      BY <2>1, <2>3, SourceSize
    <2>5. settled'[p] = settled[p] + Cardinality(Positions(D, p)) /\ sent'[p] = sent[p]
      BY <1>4, <2>4
    <2>6. QED
      BY <2>3, <2>5
  <1>8. SettledInv'
    BY <1>7 DEF SettledInv
  <1>9. ASSUME NEW x \in events', NEW y \in events', x.kind = "Output", y.kind = "Output",
               x.src = y.src, x.at < y.at
        PROVE  x.hi <= y.lo
    <2>1. PICK o \in events : Shadows(x, o)
      BY DrainLeaves
    <2>2. PICK q \in events : Shadows(y, q) /\ (y = q \/ y.lo = q.lo + take)
      BY DrainLeaves
    <2>3. o.src \in Producers /\ o \in Outputs(o.src) /\ q \in Outputs(o.src) /\ o.at < q.at
      BY <1>1, <1>9, <2>1, <2>2 DEF ShapeInv, Shaped, Outputs, Shadows
    <2>4. o.hi <= q.lo /\ q.lo \in Nat /\ o.hi \in Nat
      BY <1>1, <2>3 DEF StreamIntact, TypeOK, Event
    <2>5. QED
      BY <1>2, <2>1, <2>2, <2>4 DEF Shadows
  <1>10. StreamIntact'
    BY <1>5, <1>7, <1>9, IntactNext
  <1>11. Accounting'
    <2>1. \A e \in events : e \in Event /\ e.lo \in Nat /\ e.hi \in Nat
      BY <1>1 DEF TypeOK, Event
    <2>2. /\ W \in SUBSET events /\ S \in SUBSET events /\ kept \in SUBSET events
          /\ W \cup S \in SUBSET events /\ W \cap S = {} /\ (W \cup S) \cap kept = {}
          /\ (W \cup S) \cup kept = events /\ S \cap kept = {}
      BY <1>2, <1>3
    <2>3. Bytes(R) \subseteq Bytes(S)
      <3>1. ASSUME NEW o \in S PROVE EventBytes([o EXCEPT !.lo = o.lo + take]) \subseteq EventBytes(o)
        <4>1. PICK g : g = [o EXCEPT !.lo = o.lo + take]
          OBVIOUS
        <4>2. /\ g.src = o.src /\ g.lo = o.lo + take /\ g.hi = o.hi
              /\ o.lo \in Nat /\ o.hi \in Nat
          BY <1>2, <2>1, <4>1 DEF Event
        <4>3. (g.lo + 1) .. g.hi \subseteq (o.lo + 1) .. o.hi
          BY <1>2, <4>2
        <4>4. EventBytes(g) \subseteq EventBytes(o)
          BY <4>2, <4>3 DEF EventBytes
        <4>5. QED
          BY <4>1, <4>4
      <3>2. QED
        BY <3>1 DEF Bytes, Remainder
    <2>4. Size(S) = take + Size(R)
      <3>1. CASE S = {}
        <4>1. R = {} /\ take = 0
          BY <3>1 DEF Remainder, SplitBytes
        <4>2. Bytes({}) = {}
          BY DEF Bytes
        <4>3. Size({}) = 0
          BY <4>2, FS_EmptySet DEF Size
        <4>4. QED
          BY <3>1, <4>1, <4>3
      <3>2. CASE S # {}
        <4>1. PICK o \in S : S = {o}
          BY <1>3, <3>2
        <4>2. PICK g : g = [o EXCEPT !.lo = o.lo + take]
          OBVIOUS
        <4>3. R = {g}
          BY <4>1, <4>2 DEF Remainder
        <4>4. /\ g.lo = o.lo + take /\ g.hi = o.hi
              /\ o.lo \in Nat /\ o.hi \in Nat /\ o.lo + take < o.hi
          BY <1>2, <1>3, <2>1, <4>2 DEF Event
        <4>5. Size({o}) = o.hi - o.lo
          BY <1>2, <4>4, SizeOne
        <4>6. Size({g}) = g.hi - g.lo
          BY <1>2, <4>4, SizeOne
        <4>7. Size(S) = o.hi - o.lo /\ Size(R) = o.hi - (o.lo + take)
          BY <4>1, <4>3, <4>4, <4>5, <4>6
        <4> HIDE DEF S, R, take
        <4>8. QED
          BY <1>2, <4>4, <4>7
      <3>3. QED
        BY <3>1, <3>2
    <2>5. IsFiniteSet(R) /\ IsFiniteSet(kept) /\ \A e \in kept \cup R : e.lo \in Int /\ e.hi \in Int
      <3>1. IsFiniteSet(R) /\ R \subseteq Event
        BY <1>1, <1>2, RemainderTypes
      <3>2. IsFiniteSet(kept)
        BY <1>1, <2>2, FS_Subset DEF TypeOK
      <3>3. QED
        BY <2>1, <2>2, <3>1, <3>2 DEF Event
    <2> HIDE DEF W, S, R, kept, take
    <2>6. Size(W \cup S) = Size(W) + Size(S) /\ Size(S) \in Nat
      BY <1>1, <2>2, BytesApart
    <2>7. Size(events) = Size(W \cup S) + Size(kept) /\ Size(kept) \in Nat
      BY <1>1, <2>2, BytesApart
    <2>8. Bytes(S) \cap Bytes(kept) = {}
      BY <1>1, <2>2, BytesApart
    <2>9. Size(kept \cup R) = Size(kept) + Size(R) /\ Size(R) \in Nat
      BY <2>3, <2>5, <2>8, SizeSum
    <2>10. Size(events) = (Size(W) + take) + Size(kept \cup R)
      BY <1>2, <2>4, <2>6, <2>7, <2>9
    <2>11. queued_output_bytes' = Size(kept \cup R)
      <3>1. Size(W) + take \in Nat /\ Size(kept \cup R) \in Nat
        BY <1>2, <2>7, <2>9
      <3>2. QED
        BY <1>1, <1>4, <2>10, <3>1, SubtractPart DEF Accounting
    <2>12. Size(events)' = Size(kept \cup R)
      BY <1>4 DEF Size, Bytes, EventBytes
    <2>13. QED
      BY <2>11, <2>12 DEF Accounting
  <1>12. QED
    BY <1>5, <1>6, <1>8, <1>10, <1>11

-----------------------------------------------------------------------------
(* Cancelled sessions and parked consumers.                                *)

LEMMA ShrunkSilent ==
  ASSUME StreamInv, \A e \in events' : \E o \in events : Shadows(e, o),
         \A e \in events' : e.session \in cancelled_sessions' => e.session \in cancelled_sessions
  PROVE  CancelledIsSilent'
  <1>1. ASSUME NEW e \in events', e.session \in cancelled_sessions' PROVE e.kind = "CleanupFailed"
    <2>1. PICK o \in events : Shadows(e, o)
      OBVIOUS
    <2>2. o.session \in cancelled_sessions
      BY <1>1, <2>1 DEF Shadows
    <2>3. QED
      BY <2>1, <2>2 DEF StreamInv, ContentInv, CancelledIsSilent, Shadows
  <1>2. QED
    BY <1>1 DEF CancelledIsSilent

(* No consumer is parked anew, and none gets an event.                     *)
LEMMA ShrunkWoken ==
  ASSUME StreamInv, \A e \in events' : \E o \in events : Shadows(e, o),
         consumers' = consumers, closed' = closed, parked' \subseteq parked,
         Owed("ready") => Owed("ready")'
  PROVE  ConsumerIsWoken'
  <1>1. ASSUME NEW k \in parked', Mine(k)' # {} PROVE Mine(k) # {}
    <2>1. PICK e \in events' : Belongs(e, k)'
      BY <1>1 DEF Mine
    <2>2. PICK o \in events : Shadows(e, o)
      OBVIOUS
    <2>3. Belongs(o, k)
      BY <2>1, <2>2 DEF Belongs, Shadows
    <2>4. QED
      BY <2>3 DEF Mine
  <1>2. QED
    BY <1>1 DEF StreamInv, ContentInv, ConsumerIsWoken

(* The queue holds the same events, and nothing is sent or settled.        *)
LEMMA SameEvents ==
  ASSUME StreamInv, UNCHANGED <<events, stamp, queued_output_bytes, sent, settled>>,
         cancelled_sessions' \subseteq cancelled_sessions, \A p \in Producers : Progresses(p),
         ConsumerIsWoken'
  PROVE  ContentInv'
  <1>1. TypeOK /\ ShapeInv /\ StampInv /\ SettledInv /\ StreamIntact /\ Accounting
    BY DEF StreamInv, ContentInv, QueueInv
  <1>2. ShapeInv' /\ StampInv' /\ SettledInv' /\ StreamIntact' /\ Accounting'
    BY <1>1 DEF ShapeInv, Shaped, StampInv, SettledInv, StreamIntact, Outputs, Accounting,
       Size, Bytes, EventBytes
  <1>3. \A e \in events' : \E o \in events : Shadows(e, o)
    BY <1>1 DEF Shadows, TypeOK, Event
  <1>4. PushInv' /\ ChunksContiguous'
    BY <1>3, ShrunkPushes
  <1>5. CancelledIsSilent'
    BY <1>3, ShrunkSilent
  <1>6. QED
    BY <1>2, <1>4, <1>5 DEF ContentInv

(* ... and no consumer is parked or gets an event either.                  *)
LEMMA QuietContent ==
  ASSUME StreamInv, UNCHANGED <<events, stamp, queued_output_bytes, sent, settled, consumers, closed>>,
         cancelled_sessions' \subseteq cancelled_sessions, \A p \in Producers : Progresses(p),
         parked' \subseteq parked, Owed("ready") => Owed("ready")'
  PROVE  ContentInv'
  <1>1. TypeOK
    BY DEF StreamInv, QueueInv
  <1>2. \A e \in events' : \E o \in events : Shadows(e, o)
    BY <1>1 DEF Shadows, TypeOK, Event
  <1>3. ConsumerIsWoken'
    BY <1>2, ShrunkWoken
  <1>4. QED
    BY <1>3, SameEvents

(* One producer moves on, whatever it does with its push.                  *)
LEMMA OneProgresses ==
  ASSUME NEW p \in Producers, \A q \in Producers \ {p} : producer'[q] = producer[q],
         \/ /\ producer'[p].count = producer[p].count
            /\ \/ producer'[p].pc = "idle" \/ producer'[p].pc = producer[p].pc
               \/ producer'[p].pc # "idle" /\ producer[p].pc \in {"turn", "turn_wait"}
               \/ producer'[p].pc \in {"body", "space_wait"} /\ Holds(p)
         \/ producer'[p].count = producer[p].count + 1 /\ producer'[p].pc = "turn"
  PROVE  \A q \in Producers : Progresses(q)
  <1>1. \A q \in Producers : q # p => Progresses(q)
    BY DEF Progresses, Holds
  <1>2. Progresses(p)
    BY DEF Progresses, Holds
  <1>3. QED
    BY <1>1, <1>2

(* Nobody's push changes.                                                  *)
LEMMA NoneProgresses ==
  ASSUME producer' = producer
  PROVE  \A q \in Producers : Progresses(q)
  BY DEF Progresses, Holds

-----------------------------------------------------------------------------
(* The steps.                                                              *)

LEMMA ProducerContent ==
  ASSUME StreamInv, TypeOK', NEW p \in Producers, ProducerStep(p)
  PROVE  ContentInv'
  <1>1. TypeOK /\ p \in Actors /\ CancelledIsSilent
    BY DEF StreamInv, ContentInv, QueueInv, Actors
  <1>2. producer \in [Producers -> ProducerState] /\ producer[p] \in ProducerState
    BY <1>1 DEF TypeOK
  <1>3. CASE AcquireTurn(p)
    <2>1. /\ producer[p].pc = "turn" /\ producer'[p].count = producer[p].count
          /\ \A q \in Producers \ {p} : producer'[q] = producer[q]
          /\ producer'[p].pc \in {"idle", "body", "turn_wait"}
      BY <1>2, <1>3 DEF AcquireTurn, RefuseTurn, TakeTurn, AwaitTurn, ProducerState
    <2>2. \A q \in Producers : Progresses(q)
      BY <2>1, OneProgresses
    <2>3. Owed("ready") => Owed("ready")'
      BY <1>3 DEF AcquireTurn, Owed
    <2>4. QED
      BY <1>3, <2>2, <2>3, QuietContent DEF AcquireTurn, stream
  <1>4. CASE PushChunk(p)
    <2>1. /\ Holds(p) /\ owed[p] = {}
          /\ UNCHANGED <<producer_active, closed, cancelled_sessions, consumers, parked, ops>>
      BY <1>4 DEF PushChunk, Holds
    <2>2. CASE EnqueueChunk(p, ChunkLen(p))
      <3>1. PICK len : len = ChunkLen(p)
        OBVIOUS
      <3>2. len \in Nat \ {0}
        BY <1>2, <1>4, <3>1, QueueLimits DEF PushChunk, ChunkLen, ProducerState
      <3>3. EnqueueChunk(p, len)
        BY <2>2, <3>1
      <3>4. PICK e : e = [at |-> stamp + 1, kind |-> "Output", session |-> SessionOf[p], src |-> p,
                          push |-> producer[p].count, lo |-> sent[p], hi |-> sent[p] + len,
                          owner |-> NoOne]
        OBVIOUS
      <3>5. /\ e.at = stamp + 1 /\ e.kind = "Output" /\ e.src = p /\ e.push = producer[p].count
            /\ e.session = SessionOf[p]
        BY <3>4
      <3>6. /\ events' = events \cup {e} /\ stamp' = stamp + 1
            /\ producer' = [producer EXCEPT ![p].left = @ - len]
            /\ owed' = [owed EXCEPT ![p] = {"ready"}] /\ Accepts(SessionOf[p])
        BY <3>3, <3>4 DEF EnqueueChunk
      <3>7. ShapeInv' /\ SettledInv' /\ StreamIntact' /\ Accounting'
        BY <3>2, <3>3, EnqueuedContent
      <3>8. \A q \in Producers : producer'[q].count = producer[q].count /\ producer'[q].pc = producer[q].pc
        BY <1>2, <3>6 DEF ProducerState
      <3>9. StampInv' /\ PushInv' /\ ChunksContiguous'
        BY <2>1, <3>5, <3>6, <3>8, AddedEvent
      <3>10. CancelledIsSilent'
        BY <1>1, <2>1, <3>5, <3>6 DEF CancelledIsSilent, Accepts
      <3>11. Owed("ready")'
        BY <1>1, <3>6 DEF Owed, TypeOK
      <3>12. QED
        BY <3>7, <3>9, <3>10, <3>11 DEF ContentInv, ConsumerIsWoken
    <2>3. CASE RefuseChunk(p, ChunkLen(p))
      <3>1. /\ producer'[p].count = producer[p].count /\ producer'[p].pc = "space_wait"
            /\ \A q \in Producers \ {p} : producer'[q] = producer[q]
        BY <1>2, <2>3 DEF RefuseChunk, ProducerState
      <3>2. \A q \in Producers : Progresses(q)
        BY <2>1, <3>1, OneProgresses
      <3>3. UNCHANGED <<events, stamp, queued_output_bytes, owed, sent, settled>>
        BY <2>3 DEF RefuseChunk, stream
      <3>4. Owed("ready") => Owed("ready")'
        BY <3>3 DEF Owed
      <3>5. QED
        BY <2>1, <3>2, <3>3, <3>4, QuietContent
    <2>4. CASE AbandonPush(p)
      <3>1. /\ producer'[p].count = producer[p].count /\ producer'[p].pc = producer[p].pc
            /\ \A q \in Producers \ {p} : producer'[q] = producer[q]
        BY <1>2, <2>4 DEF AbandonPush, ProducerState
      <3>2. \A q \in Producers : Progresses(q)
        BY <3>1, OneProgresses
      <3>3. UNCHANGED <<events, stamp, queued_output_bytes, owed, sent, settled>>
        BY <2>4 DEF AbandonPush, stream
      <3>4. Owed("ready") => Owed("ready")'
        BY <3>3 DEF Owed
      <3>5. QED
        BY <2>1, <3>2, <3>3, <3>4, QuietContent
    <2>5. QED
      BY <1>4, <2>2, <2>3, <2>4 DEF PushChunk
  <1>5. CASE PushOther(p)
    <2>1. /\ Holds(p) /\ owed[p] = {} /\ producer' = [producer EXCEPT ![p].left = 0]
          /\ UNCHANGED <<queued_output_bytes, closed, cancelled_sessions, consumers, parked,
                         sent, settled>>
      BY <1>5 DEF PushOther, Holds, stream
    <2>2. \A q \in Producers : producer'[q].count = producer[q].count /\ producer'[q].pc = producer[q].pc
      BY <1>2, <2>1 DEF ProducerState
    <2>3. CASE Accepts(SessionOf[p])
      <3>1. PICK e : e = [at |-> stamp + 1, kind |-> "Other", session |-> SessionOf[p], src |-> p,
                          push |-> producer[p].count, lo |-> sent[p], hi |-> sent[p],
                          owner |-> NoOne]
        OBVIOUS
      <3>2. /\ e.at = stamp + 1 /\ e.kind = "Other" /\ e.src = p /\ e.push = producer[p].count
            /\ e.session = SessionOf[p] /\ e.lo = e.hi
        BY <3>1
      <3>3. /\ events' = events \cup {e} /\ stamp' = stamp + 1
            /\ owed' = [owed EXCEPT ![p] = {"ready"}]
        BY <1>5, <2>3, <3>1 DEF PushOther
      <3>4. ShapeInv' /\ SettledInv' /\ StreamIntact' /\ Accounting'
        <4>1. Shaped(e)
          BY <3>2 DEF Shaped
        <4>2. e.kind # "Output"
          BY <3>2
        <4>3. QED
          BY <2>1, <3>3, <4>1, <4>2, SilentContent
      <3>5. StampInv' /\ PushInv' /\ ChunksContiguous'
        BY <2>1, <2>2, <3>2, <3>3, AddedEvent
      <3>6. CancelledIsSilent'
        BY <1>1, <2>1, <2>3, <3>2, <3>3 DEF CancelledIsSilent, Accepts
      <3>7. Owed("ready")'
        BY <1>1, <3>3 DEF Owed, TypeOK
      <3>8. QED
        BY <3>4, <3>5, <3>6, <3>7 DEF ContentInv, ConsumerIsWoken
    <2>4. CASE ~Accepts(SessionOf[p])
      <3>1. events' = events /\ stamp' = stamp
        BY <1>5, <2>4 DEF PushOther
      <3>2. PICK v : owed' = [owed EXCEPT ![p] = v]
        BY <1>5 DEF PushOther
      <3>3. Owed("ready") => Owed("ready")'
        BY <1>1, <2>1, <3>2, OwedGrows
      <3>4. \A q \in Producers : Progresses(q)
        BY <2>2 DEF Progresses, Holds
      <3>5. QED
        BY <2>1, <3>1, <3>3, <3>4, QuietContent
    <2>5. QED
      BY <2>3, <2>4
  <1>6. CASE ReleaseTurn(p)
    <2>1. /\ producer'[p].count = producer[p].count /\ producer'[p].pc = "idle"
          /\ \A q \in Producers \ {p} : producer'[q] = producer[q]
      BY <1>2, <1>6 DEF ReleaseTurn, ProducerState
    <2>2. \A q \in Producers : Progresses(q)
      BY <2>1, OneProgresses
    <2>3. owed[p] = {} /\ owed' = [owed EXCEPT ![p] = {"producer_order", "async_changed"}]
      BY <1>6 DEF ReleaseTurn
    <2>4. Owed("ready") => Owed("ready")'
      BY <1>1, <2>3, OwedGrows
    <2>5. QED
      BY <1>6, <2>2, <2>4, QuietContent DEF ReleaseTurn, stream
  <1>7. QED
    BY <1>3, <1>4, <1>5, <1>6 DEF ProducerStep

LEMMA DrainContent ==
  ASSUME StreamInv, TypeOK', NEW c \in Consumers, NEW n \in Batches, NEW b \in Budgets,
         Drain(c, n, b)
  PROVE  ContentInv'
  <1>1. TypeOK /\ c \in Actors
    BY DEF StreamInv, QueueInv, Actors
  <1>2. /\ UNCHANGED <<closed, cancelled_sessions, consumers, producer, parked>>
        /\ owed[c] = {} /\ \E v : owed' = [owed EXCEPT ![c] = v]
    BY DEF Drain
  <1>3. \A e \in events' : \E o \in events : Shadows(e, o)
    BY DrainLeaves
  <1>4. \A q \in Producers : Progresses(q)
    BY <1>2, NoneProgresses
  <1>5. PushInv' /\ ChunksContiguous'
    BY <1>3, <1>4, ShrunkPushes
  <1>6. CancelledIsSilent'
    BY <1>2, <1>3, ShrunkSilent
  <1>7. Owed("ready") => Owed("ready")'
    BY <1>1, <1>2, OwedGrows
  <1>8. ConsumerIsWoken'
    BY <1>2, <1>3, <1>7, ShrunkWoken
  <1>9. QED
    BY <1>5, <1>6, <1>8, DrainedContent DEF ContentInv

LEMMA ManagerContent ==
  ASSUME StreamInv, TypeOK', NEW m \in Managers, ManagerStep(m)
  PROVE  ContentInv'
  <1>1. TypeOK /\ m \in Actors /\ CancelledIsSilent
    BY DEF StreamInv, ContentInv, QueueInv, Actors
  <1>2. /\ producer' = producer /\ owed[m] = {} /\ parked' = parked
        /\ \A q \in Producers : Progresses(q)
    <2>1. producer' = producer /\ owed[m] = {} /\ parked' = parked
      BY DEF ManagerStep, cancel_session, resume_session, assign_consumer, clear_consumer,
             push_cleanup_failure, close, Ready
    <2>2. QED
      BY <2>1, NoneProgresses
  <1>3. ASSUME NEW v, owed' = [owed EXCEPT ![m] = v]
        PROVE  (Owed("ready") => Owed("ready")') /\ ("ready" \in v => ConsumerIsWoken')
    BY <1>1, <1>2, <1>3, OwedGrows DEF ConsumerIsWoken
  <1>4. ASSUME NEW s \in Sessions, cancel_session(m, s)
        PROVE  ContentInv'
    <2>1. /\ events' = events \ {e \in events : e.session = s}
          /\ cancelled_sessions' = cancelled_sessions \cup {s}
          /\ owed' = [owed EXCEPT ![m] = CancelNotifies]
      BY <1>4 DEF cancel_session
    <2>2. \A e \in events' : \E o \in events : Shadows(e, o)
      BY <1>1, <2>1 DEF Shadows, TypeOK, Event
    <2>3. PushInv' /\ ChunksContiguous'
      BY <1>2, <2>2, ShrunkPushes
    <2>4. CancelledIsSilent'
      BY <2>1, <2>2, ShrunkSilent
    <2>5. ConsumerIsWoken'
      <3>1. "ready" \in CancelNotifies
        BY DEF CancelNotifies, CondVars
      <3>2. QED
        BY <1>3, <2>1, <3>1
    <2>6. QED
      BY <1>4, <2>3, <2>4, <2>5, CancelledContent DEF ContentInv
  <1>5. ASSUME NEW s \in Sessions, resume_session(m, s)
        PROVE  ContentInv'
    <2>1. /\ UNCHANGED <<events, stamp, queued_output_bytes, sent, settled, consumers, closed>>
          /\ cancelled_sessions' \subseteq cancelled_sessions
          /\ owed' = [owed EXCEPT ![m] = {"producer_order", "async_changed"}]
      BY <1>5 DEF resume_session, stream
    <2>2. Owed("ready") => Owed("ready")'
      BY <1>3, <2>1
    <2>3. QED
      BY <1>2, <2>1, <2>2, QuietContent
  <1>6. ASSUME NEW s \in Sessions, NEW c \in Consumers,
               assign_consumer(m, s, c) \/ clear_consumer(m, s, c)
        PROVE  ContentInv'
    <2>1. /\ UNCHANGED <<events, stamp, queued_output_bytes, sent, settled, cancelled_sessions>>
          /\ owed' = [owed EXCEPT ![m] = {"ready"}]
      BY <1>6 DEF assign_consumer, clear_consumer, stream
    <2>2. ConsumerIsWoken'
      BY <1>3, <2>1
    <2>3. QED
      BY <1>2, <2>1, <2>2, SameEvents
  <1>7. ASSUME NEW s \in Sessions, NEW c \in Consumers \cup {NoOne}, push_cleanup_failure(m, s, c)
        PROVE  ContentInv'
    <2>1. PICK e : e = [at |-> stamp + 1, kind |-> "CleanupFailed", session |-> s, src |-> NoOne,
                        push |-> 0, lo |-> 0, hi |-> 0, owner |-> c]
      OBVIOUS
    <2>2. e.at = stamp + 1 /\ e.kind = "CleanupFailed" /\ e.src = NoOne /\ e.lo = e.hi
      BY <2>1
    <2>3. /\ events' = events \cup {e} /\ stamp' = stamp + 1
          /\ owed' = [owed EXCEPT ![m] = {"ready"}]
          /\ UNCHANGED <<queued_output_bytes, cancelled_sessions, sent, settled>>
      BY <1>7, <2>1 DEF push_cleanup_failure, stream
    <2>4. ShapeInv' /\ SettledInv' /\ StreamIntact' /\ Accounting'
      <3>1. Shaped(e) /\ e.kind # "Output"
        BY <2>2 DEF Shaped
      <3>2. QED
        BY <2>3, <3>1, SilentContent
    <2>5. StampInv' /\ PushInv' /\ ChunksContiguous'
      BY <1>2, <2>2, <2>3, AddedEvent
    <2>6. CancelledIsSilent'
      BY <1>1, <2>2, <2>3 DEF CancelledIsSilent
    <2>7. ConsumerIsWoken'
      BY <1>3, <2>3
    <2>8. QED
      BY <2>4, <2>5, <2>6, <2>7 DEF ContentInv
  <1>8. CASE close(m)
    <2>1. /\ UNCHANGED <<events, stamp, queued_output_bytes, sent, settled, cancelled_sessions>>
          /\ owed' = [owed EXCEPT ![m] = CancelNotifies]
      BY <1>8 DEF close, stream
    <2>2. "ready" \in CancelNotifies
      BY DEF CancelNotifies, CondVars
    <2>3. ConsumerIsWoken'
      BY <1>3, <2>1, <2>2
    <2>4. QED
      BY <1>2, <2>1, <2>3, SameEvents
  <1>9. QED
    BY <1>4, <1>5, <1>6, <1>7, <1>8 DEF ManagerStep

(* A `ready` notification that is sent wakes every parked consumer.        *)
LEMMA NotifyContent ==
  ASSUME StreamInv, NEW a \in Actors, Notify(a)
  PROVE  ContentInv'
  <1>1. TypeOK /\ ConsumerIsWoken
    BY DEF StreamInv, ContentInv, QueueInv
  <1>2. UNCHANGED <<events, stamp, queued_output_bytes, sent, settled, cancelled_sessions,
                    consumers, closed>>
    BY DEF Notify, inner, stream
  <1>3. ASSUME NEW p \in Producers PROVE Progresses(p)
    <2>1. CASE producer'[p] = producer[p]
      BY <2>1 DEF Progresses, Holds
    <2>2. CASE producer'[p] = [producer[p] EXCEPT !.pc = Runnable(@)] /\ WaitsOn(p) \in owed[a]
      <3>1. owed[a] \subseteq CondVars /\ producer[p] \in ProducerState
        BY <1>1 DEF TypeOK
      <3>2. producer[p].pc \in {"turn_wait", "space_wait"}
        BY <2>2, <3>1 DEF WaitsOn, CondVars
      <3>3. producer'[p].count = producer[p].count /\ producer'[p].pc = Runnable(producer[p].pc)
        BY <2>2, <3>1 DEF ProducerState
      <3>4. QED
        BY <3>2, <3>3 DEF Progresses, Holds, Runnable
    <2>3. QED
      BY <2>1, <2>2 DEF Notify
  <1>4. CASE "ready" \in owed[a]
    <2>1. ConsumerIsWoken'
      BY <1>4 DEF Notify, ConsumerIsWoken
    <2>2. QED
      BY <1>2, <1>3, <2>1, SameEvents
  <1>5. CASE "ready" \notin owed[a]
    <2>1. Owed("ready") => Owed("ready")'
      BY <1>1, <1>5 DEF Owed, Notify, TypeOK
    <2>2. parked' = parked
      BY <1>5 DEF Notify
    <2>3. QED
      BY <1>2, <1>3, <2>1, <2>2, QuietContent
  <1>6. QED
    BY <1>4, <1>5

(* Push, SpuriousWake, DropPush, parking and its timeout, stuttering.      *)
LEMMA LocalContent ==
  ASSUME StreamInv,
         \/ \E p \in Producers, z \in Sizes : Push(p, "Output", z)
         \/ \E p \in Producers : Push(p, "Other", 1) \/ SpuriousWake(p)
         \/ \E p \in AsyncProducers : DropPush(p)
         \/ \E c \in Consumers : ConsumerPark(c) \/ ConsumerTimeout(c)
         \/ UNCHANGED vars
  PROVE  ContentInv'
  <1>1. TypeOK /\ ConsumerIsWoken
    BY DEF StreamInv, ContentInv, QueueInv
  <1>2. UNCHANGED <<events, stamp, queued_output_bytes, sent, settled, cancelled_sessions,
                    consumers, closed>>
    BY DEF Push, SpuriousWake, DropPush, ConsumerPark, ConsumerTimeout, vars, inner, stream
  <1>3. ASSUME NEW p \in Producers, NEW k, NEW z, Push(p, k, z) PROVE ContentInv'
    <2>1. /\ producer'[p].count = producer[p].count + 1 /\ producer'[p].pc = "turn"
          /\ \A q \in Producers \ {p} : producer'[q] = producer[q]
      BY <1>1, <1>3 DEF Push, TypeOK, ProducerState
    <2>2. parked' = parked /\ (Owed("ready") => Owed("ready")')
      BY <1>3 DEF Push, Owed
    <2>3. \A q \in Producers : Progresses(q)
      BY <2>1, OneProgresses
    <2>4. QED
      BY <1>2, <2>2, <2>3, QuietContent
  <1>4. ASSUME NEW p \in Producers, SpuriousWake(p) PROVE ContentInv'
    <2>1. /\ producer'[p].count = producer[p].count
          /\ \A q \in Producers \ {p} : producer'[q] = producer[q]
          /\ \/ producer[p].pc = "turn_wait" /\ producer'[p].pc = "turn"
             \/ producer[p].pc = "space_wait" /\ producer'[p].pc = "body"
      BY <1>1, <1>4 DEF SpuriousWake, TypeOK, ProducerState, Runnable
    <2>2. parked' = parked /\ (Owed("ready") => Owed("ready")')
      BY <1>4 DEF SpuriousWake, Owed
    <2>3. \A q \in Producers : Progresses(q)
      BY <2>1, OneProgresses DEF Holds
    <2>4. QED
      BY <1>2, <2>2, <2>3, QuietContent
  <1>5. ASSUME NEW p \in AsyncProducers, DropPush(p) PROVE ContentInv'
    <2>1. p \in Producers /\ p \in Actors
      BY DEF Producers, Actors
    <2>2. /\ producer'[p].count = producer[p].count /\ producer'[p].pc = "idle"
          /\ \A q \in Producers \ {p} : producer'[q] = producer[q]
      BY <1>1, <1>5, <2>1 DEF DropPush, TypeOK, ProducerState
    <2>3. \A q \in Producers : Progresses(q)
      BY <2>1, <2>2, OneProgresses
    <2>4. parked' = parked /\ owed[p] = {}
      BY <1>5 DEF DropPush
    <2>5. PICK v : owed' = [owed EXCEPT ![p] = v]
      BY <1>5 DEF DropPush
    <2>6. Owed("ready") => Owed("ready")'
      BY <1>1, <2>1, <2>4, <2>5, OwedGrows
    <2>7. QED
      BY <1>2, <2>3, <2>4, <2>6, QuietContent
  <1>6. ASSUME NEW c \in Consumers, ConsumerPark(c) PROVE ContentInv'
    <2>1. /\ producer' = producer /\ owed' = owed /\ parked' = parked \cup {c}
          /\ Mine(c) = {} /\ ~closed
      BY <1>6 DEF ConsumerPark
    <2>2. \A q \in Producers : Progresses(q)
      BY <2>1, NoneProgresses
    <2>3. ConsumerIsWoken'
      BY <1>1, <1>2, <2>1 DEF ConsumerIsWoken, Mine, Belongs, Owed
    <2>4. QED
      BY <1>2, <2>2, <2>3, SameEvents
  <1>7. CASE (\E c \in Consumers : ConsumerTimeout(c)) \/ UNCHANGED vars
    <2>1. producer' = producer /\ owed' = owed /\ parked' \subseteq parked
      BY <1>7 DEF ConsumerTimeout, vars
    <2>2. \A q \in Producers : Progresses(q)
      BY <2>1, NoneProgresses
    <2>3. Owed("ready") => Owed("ready")'
      BY <2>1 DEF Owed
    <2>4. QED
      BY <1>2, <2>1, <2>2, <2>3, QuietContent
  <1>8. QED
    BY <1>3, <1>4, <1>5, <1>6, <1>7

(* The empty queue satisfies the invariant.                                *)
LEMMA InitStream == Init => StreamInv
  <1> SUFFICES ASSUME Init PROVE StreamInv
    OBVIOUS
  <1>1. QueueInv
    BY InitInv
  <1>2. events = {} /\ parked = {} /\ queued_output_bytes = 0
    BY DEF Init
  <1>3. ShapeInv /\ StampInv /\ PushInv /\ ChunksContiguous /\ CancelledIsSilent /\ ConsumerIsWoken
    BY <1>2 DEF ShapeInv, StampInv, PushInv, ChunksContiguous, CancelledIsSilent, ConsumerIsWoken
  <1>4. \A p \in Producers : settled[p] = 0 /\ sent[p] = 0
    BY DEF Init
  <1>5. SettledInv
    BY <1>4 DEF SettledInv
  <1>6. StreamIntact
    <2>1. ASSUME NEW p \in Producers
          PROVE  Outputs(p) = {} /\ (settled[p] + 1) .. sent[p] = {}
      BY <1>2, <1>4 DEF Outputs
    <2>2. QED
      BY <2>1 DEF StreamIntact
  <1>7. Accounting
    <2>1. Bytes(events) = {}
      BY <1>2 DEF Bytes
    <2>2. QED
      BY <1>2, <2>1, FS_EmptySet DEF Accounting, Size
  <1>8. QED
    BY <1>1, <1>3, <1>5, <1>6, <1>7 DEF StreamInv, ContentInv

(* StreamInv is inductive.                                                 *)
LEMMA NextStream == StreamInv /\ [Next]_vars => StreamInv'
  <1> SUFFICES ASSUME StreamInv, [Next]_vars PROVE StreamInv'
    OBVIOUS
  <1>1. QueueInv' /\ TypeOK'
    BY NextInv DEF StreamInv, QueueInv
  <1>2. ContentInv'
    BY <1>1, ProducerContent, DrainContent, ManagerContent, NotifyContent, LocalContent
       DEF Next, DrainSome
  <1>3. QED
    BY <1>1, <1>2 DEF StreamInv

LEMMA StreamInvariant == Spec => []StreamInv
  BY InitStream, NextStream, PTL DEF Spec

(* queued_output_bytes is, after any sequence of pushes, splits, drains    *)
(* and cancellations, the number of output bytes in the queue.             *)
THEOREM BytesAreCounted == Spec => []Accounting
  BY StreamInvariant, PTL DEF StreamInv, ContentInv

(* The queue loses, repeats and reorders no byte of a producer's stream,   *)
(* however drains split its events and sessions change hands.              *)
THEOREM StreamsStayIntact == Spec => []StreamIntact
  BY StreamInvariant, PTL DEF StreamInv, ContentInv

(* Nothing but a cleanup report stands between the chunks of one Output    *)
(* event, although the lock is released between them.                      *)
THEOREM ChunksStayTogether == Spec => []ChunksContiguous
  BY StreamInvariant, PTL DEF StreamInv, ContentInv

(* A cancelled session has no output or lifecycle event in the queue,      *)
(* although its producers may still be running.                            *)
THEOREM CancelSilences == Spec => []CancelledIsSilent
  BY StreamInvariant, PTL DEF StreamInv, ContentInv

(* A parked consumer that has something to do is about to be notified.     *)
THEOREM ConsumersAreWoken == Spec => []ConsumerIsWoken
  BY StreamInvariant, PTL DEF StreamInv, ContentInv

=============================================================================
