------------------------ MODULE SshShellWorkerProofs ------------------------
(* Proofs about SshShellWorker: what the queue guarantees still holds when *)
(* the worker drives two of its producers, the worker leaves no turn       *)
(* behind, and every byte it read is accounted for.                        *)
EXTENDS SshShellWorker, SessionEventQueueProofs

-----------------------------------------------------------------------------
(* The scripts of the two futures: other events, then at most one output.  *)
Item == {Other} \cup [kind : {"Output"}, size : Nat \ {0}]

Scripted(s) == s \in Seq(Item) /\ \A i \in 1 .. Len(s) : i < Len(s) => s[i] = Other

(* The bytes of the output that ends a script.                             *)
ScriptBytes(s) == IF s # <<>> /\ s[Len(s)].kind = "Output" THEN s[Len(s)].size ELSE 0

(* The bytes of the push that is under way.                                *)
PushLeft(f) == IF producer[f].kind = "Output" THEN producer[f].left ELSE 0

Idle(f) == producer[f].pc = "idle" /\ script[f] = <<>>

-----------------------------------------------------------------------------
(* The inductive invariant.                                                *)

Ledger == [due : Int, lost : Nat, reads : Nat, inputs : Nat]

WorkerType ==
  /\ w \in WorkerState
  /\ script \in [Futures -> Seq(Item)]
  /\ ledger \in Ledger

ScriptInv == \A f \in Futures : Scripted(script[f])

(* A future exists only where the loop keeps one: Hnd inside a handler,    *)
(* Out while pending_output is Some.                                       *)
FutureInv ==
  /\ w.at # "handler" => Idle(Hnd)
  /\ ~w.output => Idle(Out)
  /\ w.at \in {"deferred", "ended"} => ~w.output
  /\ w.at = "poll" => w.output
  /\ w.at = "handler" /\ w.then = "takeover" => ~w.output

LocalsInv ==
  /\ w.at = "deferred" => ledger.due = 0
  /\ w.flush # 0 => w.at = "handler" /\ w.then = "flush"
  /\ \A f \in Futures : producer[f].pc = "idle" => producer[f].left = 0

WorkerInv ==
  QueueInv /\ WorkerType /\ ScriptInv /\ FutureInv /\ LocalsInv /\ BytesAccounted

-----------------------------------------------------------------------------
(* Facts about scripts.                                                    *)

(* Other events followed by an output of n bytes, or by nothing.           *)
LEMMA ScriptOf ==
  ASSUME NEW s \in Seq({Other}), NEW n \in Nat
  PROVE  Scripted(s \o Output(n)) /\ ScriptBytes(s \o Output(n)) = n
  <1> Other.kind = "Other" /\ Other \in Item
    BY DEF Other, Item
  <1>0. s \in Seq(Item) /\ \A i \in 1 .. Len(s) : s[i] = Other
    OBVIOUS
  <1>1. CASE n = 0
    <2>1. s \o Output(n) = s
      BY <1>1 DEF Output
    <2>2. s # <<>> => s[Len(s)] = Other
      OBVIOUS
    <2>3. QED
      BY <1>0, <1>1, <2>1, <2>2 DEF Scripted, ScriptBytes
  <1>2. CASE n # 0
    <2> DEFINE o == [kind |-> "Output", size |-> n]
    <2>1. o \in Item /\ o.kind = "Output" /\ o.size = n
      BY <1>2 DEF Item
    <2>2. Output(n) = <<o>>
      BY <1>2 DEF Output
    <2> HIDE DEF o
    <2>3. /\ s \o <<o>> \in Seq(Item) /\ Len(s \o <<o>>) = Len(s) + 1
          /\ (s \o <<o>>)[Len(s) + 1] = o
          /\ \A i \in 1 .. Len(s) : (s \o <<o>>)[i] = s[i]
      BY <1>0, <2>1
    <2>4. s \o <<o>> # <<>>
      BY <2>3
    <2>5. QED
      BY <1>0, <2>1, <2>2, <2>3, <2>4 DEF Scripted, ScriptBytes
  <1>3. QED
    BY <1>1, <1>2

(* What may precede an output, and the one-event scripts.                  *)
LEMMA ShortScripts ==
  /\ Preceding \subseteq Seq({Other})
  /\ \A s \in Preceding : <<Other>> \o s \in Seq({Other})
  /\ <<>> \in Seq({Other})
  /\ Scripted(<<Other>>) /\ ScriptBytes(<<Other>>) = 0
  <1>1. \A k \in Nat : [i \in 1 .. k |-> Other] \in Seq({Other})
    OBVIOUS
  <1>2. Preceding \subseteq Seq({Other})
    BY <1>1, WorkerActors DEF Preceding
  <1>3. <<Other>> \in Seq({Other}) /\ Len(<<Other>>) = 1 /\ <<Other>>[1] = Other
    OBVIOUS
  <1>4. Other.kind = "Other" /\ Other \in Item
    BY DEF Other, Item
  <1>5. <<Other>> \in Seq(Item)
    BY <1>4
  <1>6. QED
    BY <1>2, <1>3, <1>4, <1>5 DEF Scripted, ScriptBytes

(* A sequence without elements is the empty one.                           *)
LEMMA EmptySeq == \A S : \A t \in Seq(S) : Len(t) = 0 => t = <<>>
  OBVIOUS

(* Taking the first event off a script.                                    *)
LEMMA ScriptTail ==
  ASSUME NEW s, Scripted(s), s # <<>>
  PROVE  /\ Head(s) \in Item /\ Scripted(Tail(s))
         /\ Head(s).kind = "Output" =>
              Head(s).size = ScriptBytes(s) /\ ScriptBytes(Tail(s)) = 0
         /\ Head(s).kind = "Other" => ScriptBytes(Tail(s)) = ScriptBytes(s)
  <1>1. /\ s \in Seq(Item) /\ Len(s) \in Nat \ {0} /\ Head(s) = s[1] /\ Head(s) \in Item
        /\ Tail(s) \in Seq(Item) /\ Len(Tail(s)) = Len(s) - 1
        /\ \A i \in 1 .. Len(s) - 1 : Tail(s)[i] = s[i + 1]
    BY DEF Scripted
  <1>2. Other.kind = "Other"
    BY DEF Other
  <1>3. CASE Len(s) = 1
    <2>1. Tail(s) \in Seq(Item) /\ Len(Tail(s)) = 0
      BY <1>1, <1>3
    <2>2. Tail(s) = <<>>
      BY <2>1, EmptySeq
    <2>3. QED
      BY <1>1, <1>3, <2>2 DEF Scripted, ScriptBytes
  <1>4. CASE Len(s) > 1
    <2>1. Head(s) = Other
      BY <1>1, <1>4 DEF Scripted
    <2>2. Tail(s) # <<>> /\ Tail(s)[Len(Tail(s))] = s[Len(s)]
      <3>1. Len(s) - 1 \in 1 .. Len(s) - 1 /\ Len(s) - 1 + 1 = Len(s)
        BY <1>1, <1>4
      <3>2. Tail(s)[Len(s) - 1] = s[Len(s) - 1 + 1]
        BY <1>1, <3>1
      <3>3. Len(Tail(s)) # 0
        BY <1>1, <1>4
      <3>4. QED
        <4>1. Len(<<>>) = 0
          OBVIOUS
        <4>2. QED
          BY <1>1, <3>1, <3>2, <3>3, <4>1, Zenon
    <2>3. Scripted(Tail(s))
      BY <1>1, <1>4 DEF Scripted
    <2>4. QED
      BY <1>1, <1>2, <2>1, <2>2, <2>3 DEF ScriptBytes
  <1>5. QED
    BY <1>1, <1>3, <1>4

(* An empty script and an item: sizes are natural numbers.                 *)
LEMMA ScriptTypes ==
  /\ Scripted(<<>>) /\ ScriptBytes(<<>>) = 0
  /\ \A s : Scripted(s) => ScriptBytes(s) \in Nat
  /\ \A e \in Item : e.size \in Nat /\ e.kind \in {"Output", "Other"}
  <1>1. \A e \in Item : e.size \in Nat /\ e.kind \in {"Output", "Other"}
    BY DEF Item, Other
  <1>2. ASSUME NEW s, Scripted(s) PROVE ScriptBytes(s) \in Nat
    <2>1. s # <<>> => s[Len(s)] \in Item
      BY <1>2 DEF Scripted
    <2>2. QED
      BY <1>1, <2>1 DEF ScriptBytes
  <1>3. QED
    BY <1>1, <1>2 DEF Scripted, ScriptBytes

(* filter_output shows at most the bytes it was given, and its pushes      *)
(* carry exactly what it shows.                                            *)
LEMMA FilterPushes ==
  ASSUME WorkerType, NEW n \in Nat, NEW o \in Filter(n)
  PROVE  /\ o.visible \in 0 .. n
         /\ o.phase \in {"WaitInitial", "Suppressing", "Normal"}
         /\ Scripted(o.pushes) /\ ScriptBytes(o.pushes) = o.visible
  <1> DEFINE V == IF w.phase # "Suppressing" THEN {<<w.phase, n>>}
                  ELSE {<<"Suppressing", 0>>} \cup ({"Normal"} \X (0 .. n))
             F == IF n = 0 THEN {<<>>} ELSE Preceding
  <1>1. PICK v \in V, found \in F :
          o = [phase |-> v[1], visible |-> v[2], pushes |-> found \o Output(v[2])]
    <2>1. Filter(n) = {[phase |-> v[1], visible |-> v[2], pushes |-> found \o Output(v[2])] :
                         v \in V, found \in F}
      BY DEF Filter
    <2> HIDE DEF V, F
    <2>2. QED
      BY <2>1
  <1>2. w.phase \in {"WaitInitial", "Suppressing", "Normal"}
    BY DEF WorkerType, WorkerState
  <1>3. v[1] \in {"WaitInitial", "Suppressing", "Normal"} /\ v[2] \in 0 .. n
    BY <1>2
  <1>4. found \in Seq({Other})
    BY ShortScripts
  <1>5. Scripted(found \o Output(v[2])) /\ ScriptBytes(found \o Output(v[2])) = v[2]
    <2>1. PICK k \in Nat : k = v[2]
      BY <1>3
    <2>2. QED
      BY <1>4, <2>1, ScriptOf
  <1>6. QED
    BY <1>1, <1>3, <1>5

-----------------------------------------------------------------------------
(* The queue under the worker.                                             *)

(* Starting a push touches neither the queue nor its notifications.        *)
LEMMA PushInv ==
  ASSUME QueueInv, NEW p \in Producers, NEW k \in {"Output", "Other"}, NEW z \in Nat,
         Push(p, k, z)
  PROVE  QueueInv'
  <1> USE DEF QueueInv
  <1>1. UNCHANGED <<inner, owed, parked, ops, stream>>
    BY DEF Push
  <1>2. producer' \in [Producers -> ProducerState]
    BY DEF Push, TypeOK, ProducerState
  <1>3. TypeOK'
    BY <1>1, <1>2 DEF TypeOK, stream, inner
  <1>4. ASSUME NEW q \in Producers
        PROVE  /\ Holds(q)' <=> Holds(q)
               /\ \/ producer'[q].pc = producer[q].pc
                  \/ producer'[q].pc \notin {"turn_wait", "space_wait"}
    BY DEF Push, Holds, TypeOK, ProducerState
  <1>5. TurnExclusive' /\ Hysteresis'
    BY <1>1, <1>4 DEF TurnExclusive, Hysteresis, inner
  <1>6. NoLostWakeup'
    BY <1>1, <1>4 DEF NoLostWakeup, ParkedForAReason, Accepts, Owed, WaitsOn, inner
  <1>7. QED
    BY <1>3, <1>5, <1>6

(* The actors of the worker are actors of the queue.                       *)
LEMMA WorkerNames ==
  /\ Futures \subseteq AsyncProducers /\ Futures \subseteq Producers
  /\ Out \in Futures /\ Hnd \in Futures /\ Out # Hnd
  /\ Producers \subseteq Actors /\ Consumers \subseteq Actors /\ Managers \subseteq Actors
  /\ Host \in Sessions /\ \A f \in Futures : SessionOf[f] = Host
  <1>1. /\ Futures \subseteq AsyncProducers /\ Out # Hnd
        /\ \A p \in Producers : p \in Futures <=> SessionOf[p] = Host
    BY WorkerActors
  <1>2. Out \in Futures /\ Hnd \in Futures
    BY DEF Futures
  <1>3. Futures \subseteq Producers
    BY <1>1 DEF Producers
  <1>4. Host \in Sessions
    BY <1>1, <1>2, <1>3, QueueActors
  <1>5. QED
    BY <1>1, <1>2, <1>3, <1>4 DEF Actors

(* The steps of the queue that others than the worker take, or that give   *)
(* notifications.                                                          *)
Elsewhere(f) ==
  \/ UNCHANGED queue
  \/ \E p \in Producers \ {f} : \/ ProducerStep(p) \/ DropPush(p)
                                \/ \E k, z : Push(p, k, z)
  \/ \E a \in Actors : Notify(a)
  \/ \E c \in Consumers : DrainSome(c)
  \/ \E m \in Managers : cancel_session(m, Host)

(* What a step keeps of a future it does not run.                          *)
Kept(f) ==
  /\ sent'[f] = sent[f]
  /\ producer'[f].left = producer[f].left /\ producer'[f].kind = producer[f].kind
  /\ producer'[f].pc = "idle" <=> producer[f].pc = "idle"

(* A future is only moved by its own steps.                                *)
LEMMA ElsewhereKeeps ==
  ASSUME QueueInv, NEW f \in Futures, Elsewhere(f)
  PROVE  Kept(f)
  <1> f \in Producers /\ producer[f] \in ProducerState
    BY WorkerNames DEF QueueInv, TypeOK
  <1>1. CASE UNCHANGED queue
    BY <1>1 DEF queue, vars, stream, Kept
  <1>2. ASSUME NEW p \in Producers \ {f},
               ProducerStep(p) \/ DropPush(p) \/ \E k, z : Push(p, k, z)
        PROVE  Kept(f)
    <2> USE DEF QueueInv, TypeOK, Kept
    <2>1. CASE AcquireTurn(p)
      BY <1>2, <2>1 DEF AcquireTurn, RefuseTurn, TakeTurn, AwaitTurn, stream
    <2>2. CASE PushChunk(p)
      BY <1>2, <2>2 DEF PushChunk, EnqueueChunk, RefuseChunk, AbandonPush, stream
    <2>3. CASE PushOther(p)
      BY <1>2, <2>3 DEF PushOther, stream
    <2>4. CASE ReleaseTurn(p)
      BY <1>2, <2>4 DEF ReleaseTurn, stream
    <2>5. CASE DropPush(p)
      BY <1>2, <2>5 DEF DropPush, stream
    <2>6. CASE \E k, z : Push(p, k, z)
      BY <1>2, <2>6 DEF Push, stream
    <2>7. QED
      BY <1>2, <2>1, <2>2, <2>3, <2>4, <2>5, <2>6 DEF ProducerStep
  <1>3. ASSUME NEW a \in Actors, Notify(a) PROVE Kept(f)
    <2>1. sent' = sent
      BY <1>3 DEF Notify, stream
    <2>2. CASE WaitsOn(f) \in owed[a]
      <3>1. producer[f].pc \in {"turn_wait", "space_wait"}
        <4>1. "none" \notin owed[a]
          BY DEF QueueInv, TypeOK, CondVars
        <4>2. QED
          BY <2>2, <4>1 DEF WaitsOn
      <3>2. producer'[f] = [producer[f] EXCEPT !.pc = Runnable(@)]
        BY <1>3, <2>2 DEF Notify
      <3>3. QED
        BY <2>1, <3>1, <3>2 DEF Kept, Runnable, ProducerState
    <2>3. CASE WaitsOn(f) \notin owed[a]
      BY <1>3, <2>1, <2>3 DEF Notify, Kept
    <2>4. QED
      BY <2>2, <2>3
  <1>4. ASSUME NEW c \in Consumers, DrainSome(c) PROVE Kept(f)
    BY <1>4 DEF DrainSome, Drain, Kept
  <1>5. ASSUME NEW m \in Managers, cancel_session(m, Host) PROVE Kept(f)
    BY <1>5 DEF cancel_session, Kept
  <1>6. QED
    BY <1>1, <1>2, <1>3, <1>4, <1>5 DEF Elsewhere

(* The bytes a future has pushed and those it has still to push.           *)
Credit(f) == sent[f] + Unsent(f)

(* Unsent, through the names of its two parts.                             *)
LEMMA UnsentParts ==
  /\ \A f : Unsent(f) = PushLeft(f) + ScriptBytes(script[f])
  /\ \A f : Unsent(f)' = PushLeft(f)' + ScriptBytes(script'[f])
  BY DEF Unsent, PushLeft, ScriptBytes

(* A push moves bytes from the producer to the queue, and loses none while *)
(* the session is accepted.                                                *)
LEMMA PushConserves ==
  ASSUME QueueInv, NEW f \in Futures, ProducerStep(f),
         producer[f].pc = "idle" => producer[f].left = 0
  PROVE  /\ UNCHANGED <<closed, cancelled_sessions>>
         /\ producer'[f].pc = "idle" => producer'[f].left = 0
         /\ sent'[f] \in Nat /\ PushLeft(f)' \in Nat /\ PushLeft(f) \in Nat
         /\ Accepts(Host) => sent'[f] + PushLeft(f)' = sent[f] + PushLeft(f)
  <1> f \in Producers /\ producer[f] \in ProducerState /\ sent[f] \in Nat
      /\ SessionOf[f] = Host
    BY WorkerNames DEF QueueInv, TypeOK
  <1> USE DEF QueueInv, TypeOK, ProducerState
  <1>0. PushLeft(f) \in Nat
    BY DEF PushLeft
  <1>1. CASE AcquireTurn(f)
    <2>1. UNCHANGED <<closed, cancelled_sessions, sent>>
      BY <1>1 DEF AcquireTurn, stream
    <2>2. CASE RefuseTurn(f)
      <3>1. producer'[f].left = 0 /\ ~Accepts(Host)
        BY <2>2 DEF RefuseTurn
      <3>2. QED
        BY <2>1, <3>1, <1>0 DEF PushLeft
    <2>3. CASE TakeTurn(f) \/ AwaitTurn(f)
      <3>1. /\ producer'[f].left = producer[f].left /\ producer'[f].kind = producer[f].kind
            /\ producer'[f].pc # "idle"
        BY <2>3 DEF TakeTurn, AwaitTurn
      <3>2. QED
        BY <2>1, <3>1, <1>0 DEF PushLeft
    <2>4. QED
      BY <1>1, <2>2, <2>3 DEF AcquireTurn
  <1>2. CASE PushChunk(f)
    <2> DEFINE len == ChunkLen(f)
    <2>1. len \in Nat /\ producer[f].left - len \in Nat
      BY <1>2, QueueLimits DEF ChunkLen
    <2>2. UNCHANGED <<closed, cancelled_sessions>> /\ producer[f].kind = "Output"
          /\ producer[f].pc = "body"
      BY <1>2 DEF PushChunk
    <2> HIDE DEF len
    <2>3. CASE EnqueueChunk(f, len)
      <3>1. /\ producer'[f].left = producer[f].left - len
            /\ producer'[f].kind = "Output" /\ producer'[f].pc = "body"
            /\ sent'[f] = sent[f] + len
        BY <2>2, <2>3 DEF EnqueueChunk
      <3>2. PushLeft(f)' = producer[f].left - len /\ PushLeft(f) = producer[f].left
        BY <2>2, <3>1 DEF PushLeft
      <3>3. QED
        BY <2>1, <2>2, <3>1, <3>2
    <2>4. CASE RefuseChunk(f, len)
      <3>1. /\ producer'[f].left = producer[f].left /\ producer'[f].kind = "Output"
            /\ producer'[f].pc = "space_wait" /\ sent'[f] = sent[f]
        BY <2>2, <2>4 DEF RefuseChunk, stream
      <3>2. QED
        BY <2>2, <3>1, <1>0 DEF PushLeft
    <2>5. CASE AbandonPush(f)
      <3>1. producer'[f].left = 0 /\ ~Accepts(Host) /\ sent'[f] = sent[f]
        BY <2>5 DEF AbandonPush, stream
      <3>2. QED
        BY <2>2, <3>1, <1>0 DEF PushLeft
    <2>6. QED
      BY <1>2, <2>3, <2>4, <2>5 DEF PushChunk, len
  <1>3. CASE PushOther(f)
    <2>1. /\ producer'[f].left = 0 /\ producer'[f].kind = "Other" /\ producer[f].kind = "Other"
          /\ sent'[f] = sent[f] /\ UNCHANGED <<closed, cancelled_sessions>>
      BY <1>3 DEF PushOther, stream
    <2>2. QED
      BY <2>1 DEF PushLeft
  <1>4. CASE ReleaseTurn(f)
    <2>1. /\ producer'[f].left = 0 /\ producer[f].left = 0
          /\ sent'[f] = sent[f] /\ UNCHANGED <<closed, cancelled_sessions>>
      BY <1>4 DEF ReleaseTurn, stream
    <2>2. QED
      BY <2>1 DEF PushLeft
  <1>5. QED
    BY <1>1, <1>2, <1>3, <1>4 DEF ProducerStep

(* A future that runs keeps its script well formed and loses no byte.      *)
LEMMA RunConserves ==
  ASSUME QueueInv, WorkerType, NEW f \in Futures, Scripted(script[f]), RunFuture(f),
         producer[f].pc = "idle" => producer[f].left = 0
  PROVE  /\ UNCHANGED <<closed, cancelled_sessions>>
         /\ script' = [script EXCEPT ![f] = script'[f]] /\ Scripted(script'[f])
         /\ producer'[f].pc = "idle" => producer'[f].left = 0
         /\ Accepts(Host) => Credit(f)' = Credit(f)
  <1> f \in Producers /\ producer[f] \in ProducerState /\ sent[f] \in Nat
      /\ SessionOf[f] = Host
    BY WorkerNames DEF QueueInv, TypeOK
  <1> script \in [Futures -> Seq(Item)]
    BY DEF WorkerType
  <1>1. CASE StartPush(f)
    <2> DEFINE h == Head(script[f])
    <2>1. /\ h \in Item /\ Scripted(Tail(script[f]))
          /\ h.kind = "Output" =>
               h.size = ScriptBytes(script[f]) /\ ScriptBytes(Tail(script[f])) = 0
          /\ h.kind = "Other" => ScriptBytes(Tail(script[f])) = ScriptBytes(script[f])
      BY <1>1, ScriptTail DEF StartPush
    <2>2. h.size \in Nat /\ h.kind \in {"Output", "Other"}
      BY <2>1, ScriptTypes
    <2>3. /\ producer[f].pc = "idle" /\ producer[f].left = 0
          /\ producer'[f].pc = "turn" /\ producer'[f].kind = h.kind
          /\ producer'[f].left = h.size
          /\ sent' = sent /\ UNCHANGED <<closed, cancelled_sessions>>
      BY <1>1 DEF StartPush, Push, QueueInv, TypeOK, stream, inner
    <2>4. script' = [script EXCEPT ![f] = Tail(script[f])] /\ script'[f] = Tail(script[f])
      BY <1>1 DEF StartPush
    <2>5. ScriptBytes(script[f]) \in Nat
      BY ScriptTypes
    <2> HIDE DEF h
    <2>6. PushLeft(f) = 0
      BY <2>3 DEF PushLeft
    <2>7. PushLeft(f)' + ScriptBytes(script'[f]) = ScriptBytes(script[f])
      <3>1. CASE h.kind = "Output"
        BY <2>1, <2>2, <2>3, <2>4, <2>5, <3>1 DEF PushLeft
      <3>2. CASE h.kind = "Other"
        BY <2>1, <2>2, <2>3, <2>4, <2>5, <3>2 DEF PushLeft
      <3>3. QED
        BY <2>2, <3>1, <3>2
    <2>8. Credit(f)' = Credit(f)
      BY <2>3, <2>5, <2>6, <2>7, UnsentParts DEF Credit
    <2>9. QED
      BY <2>1, <2>3, <2>4, <2>8
  <1>2. CASE ProducerStep(f) /\ UNCHANGED script
    <2>1. /\ UNCHANGED <<closed, cancelled_sessions>>
          /\ producer'[f].pc = "idle" => producer'[f].left = 0
          /\ sent'[f] \in Nat /\ PushLeft(f)' \in Nat /\ PushLeft(f) \in Nat
          /\ Accepts(Host) => sent'[f] + PushLeft(f)' = sent[f] + PushLeft(f)
      BY <1>2, PushConserves
    <2>2. ScriptBytes(script[f]) \in Nat
      BY ScriptTypes
    <2>3. ASSUME Accepts(Host) PROVE Credit(f)' = Credit(f)
      <3>1. ScriptBytes(script'[f]) = ScriptBytes(script[f])
        BY <1>2
      <3>2. Unsent(f) = PushLeft(f) + ScriptBytes(script[f])
            /\ Unsent(f)' = PushLeft(f)' + ScriptBytes(script[f])
        BY <3>1, UnsentParts
      <3>3. /\ Credit(f)' = sent'[f] + (PushLeft(f)' + ScriptBytes(script[f]))
            /\ Credit(f) = sent[f] + (PushLeft(f) + ScriptBytes(script[f]))
        BY <3>2 DEF Credit
      <3>4. sent'[f] + PushLeft(f)' = sent[f] + PushLeft(f)
        BY <2>1, <2>3
      <3>5. PICK a \in Nat, b \in Nat, c \in Nat, d \in Nat, n \in Nat :
              /\ a = sent'[f] /\ b = PushLeft(f)' /\ c = sent[f] /\ d = PushLeft(f)
              /\ n = ScriptBytes(script[f])
        BY <2>1, <2>2, Zenon
      <3>6. a + b = c + d
        BY <3>4, <3>5
      <3>7. a + (b + n) = c + (d + n)
        BY <3>6
      <3>8. QED
        BY <3>3, <3>5, <3>7
    <2>4. QED
      BY <1>2, <2>1, <2>3
  <1>3. QED
    BY <1>1, <1>2 DEF RunFuture

-----------------------------------------------------------------------------
(* The ledger, future by future.                                           *)

(* Everything that is counted is a natural number.                         *)
LEMMA CreditTypes ==
  ASSUME QueueInv, WorkerType, ScriptInv
  PROVE  /\ \A f \in Futures : /\ sent[f] \in Nat /\ PushLeft(f) \in Nat
                               /\ ScriptBytes(script[f]) \in Nat
                               /\ Unsent(f) \in Nat /\ Credit(f) \in Nat
         /\ w.withheld \in Nat /\ w.flush \in Nat
         /\ Delivered = Credit(Out) + Credit(Hnd) + (w.withheld + w.flush)
  <1>1. ASSUME NEW f \in Futures
        PROVE  /\ sent[f] \in Nat /\ PushLeft(f) \in Nat /\ ScriptBytes(script[f]) \in Nat
               /\ Unsent(f) \in Nat /\ Credit(f) \in Nat
    <2>1. sent[f] \in Nat /\ producer[f] \in ProducerState
      BY WorkerNames DEF QueueInv, TypeOK
    <2>2. PushLeft(f) \in Nat
      BY <2>1 DEF PushLeft, ProducerState
    <2>3. ScriptBytes(script[f]) \in Nat
      BY ScriptTypes DEF ScriptInv
    <2>4. Unsent(f) \in Nat
      BY <2>2, <2>3, UnsentParts
    <2>5. QED
      BY <2>1, <2>2, <2>3, <2>4 DEF Credit
  <1>2. w.withheld \in Nat /\ w.flush \in Nat
    BY DEF WorkerType, WorkerState
  <1>3. /\ sent[Out] \in Nat /\ sent[Hnd] \in Nat /\ Unsent(Out) \in Nat /\ Unsent(Hnd) \in Nat
    BY <1>1, WorkerNames
  <1>4. Delivered = Credit(Out) + Credit(Hnd) + (w.withheld + w.flush)
    BY <1>2, <1>3 DEF Delivered, Credit
  <1>5. QED
    BY <1>1, <1>2, <1>4

(* The same after a step, given what the two credits have become.          *)
LEMMA DeliveredNext ==
  ASSUME sent'[Out] \in Nat, sent'[Hnd] \in Nat, Unsent(Out)' \in Nat, Unsent(Hnd)' \in Nat,
         w'.withheld \in Nat, w'.flush \in Nat
  PROVE  Delivered' = Credit(Out)' + Credit(Hnd)' + (w'.withheld + w'.flush)
  BY DEF Delivered, Credit

(* A future that a step keeps, with its script.                            *)
LEMMA KeptCredit ==
  ASSUME QueueInv, WorkerType, ScriptInv, NEW f \in Futures, Kept(f), script'[f] = script[f]
  PROVE  /\ sent'[f] \in Nat /\ Unsent(f)' \in Nat
         /\ Credit(f)' = Credit(f) /\ Unsent(f)' = Unsent(f)
         /\ Idle(f) => Idle(f)'
  <1>1. /\ sent[f] \in Nat /\ PushLeft(f) \in Nat /\ ScriptBytes(script[f]) \in Nat
        /\ Unsent(f) \in Nat
    BY CreditTypes
  <1>2. PushLeft(f)' = PushLeft(f)
    BY DEF PushLeft, Kept
  <1>3. Unsent(f)' = Unsent(f)
    BY <1>2, UnsentParts
  <1>4. QED
    BY <1>1, <1>3 DEF Credit, Kept, Idle

(* A future that is given a new script.                                    *)
LEMMA ScriptedCredit ==
  ASSUME QueueInv, WorkerType, ScriptInv, NEW f \in Futures,
         producer'[f].left = 0, sent'[f] = sent[f], NEW s, Scripted(s), script'[f] = s
  PROVE  /\ sent'[f] \in Nat /\ Unsent(f)' = ScriptBytes(s) /\ Unsent(f)' \in Nat
         /\ Credit(f)' = (Credit(f) - Unsent(f)) + ScriptBytes(s)
  <1>1. sent[f] \in Nat /\ Unsent(f) \in Nat
    BY CreditTypes
  <1>2. PushLeft(f)' = 0
    BY DEF PushLeft
  <1>3. ScriptBytes(s) \in Nat
    BY ScriptTypes
  <1>4. Unsent(f)' = ScriptBytes(s)
    BY <1>2, <1>3, UnsentParts
  <1>5. QED
    BY <1>1, <1>3, <1>4 DEF Credit

(* A future that is neither pushing nor has anything to push.              *)
LEMMA IdleCredit ==
  ASSUME QueueInv, LocalsInv, NEW f \in Futures, Idle(f)
  PROVE  Unsent(f) = 0
  <1>1. PushLeft(f) = 0
    BY DEF PushLeft, LocalsInv, Idle
  <1>2. ScriptBytes(script[f]) = 0
    BY ScriptTypes DEF Idle
  <1>3. QED
    BY <1>1, <1>2, UnsentParts

(* Updating one future's script.                                           *)
LEMMA ScriptUpdate ==
  ASSUME WorkerType, ScriptInv, NEW f \in Futures, NEW s, Scripted(s),
         script' = [script EXCEPT ![f] = s]
  PROVE  /\ script' \in [Futures -> Seq(Item)] /\ ScriptInv'
         /\ script'[f] = s /\ \A g \in Futures : g # f => script'[g] = script[g]
  <1>1. s \in Seq(Item)
    BY DEF Scripted
  <1>2. /\ script' \in [Futures -> Seq(Item)] /\ script'[f] = s
        /\ \A g \in Futures : g # f => script'[g] = script[g]
    BY <1>1 DEF WorkerType
  <1>3. ScriptInv'
    <2>1. ASSUME NEW g \in Futures PROVE Scripted(script'[g])
      BY <1>2 DEF ScriptInv
    <2>2. QED
      BY <2>1 DEF ScriptInv, Scripted
  <1>4. QED
    BY <1>2, <1>3

-----------------------------------------------------------------------------
(* The kinds of steps the loop makes.                                      *)

(* A step that leaves the queue and the futures alone.                     *)
LEMMA LocalStep ==
  ASSUME WorkerInv, UNCHANGED <<queue, script>>, w' \in WorkerState,
         ledger' \in Ledger, ledger'.due = ledger.due, ledger'.lost = ledger.lost,
         w.at \notin {"exit", "ended"}, w'.at \notin {"handler", "ended"},
         w'.at = "deferred" => w.at = "deferred" /\ ~w'.output,
         w.at = "handler" => Idle(Hnd) /\ w.flush = 0,
         w'.at = "poll" => w'.output, ~w'.output => Idle(Out),
         w'.withheld = w.withheld, w'.flush = w.flush
  PROVE  WorkerInv'
  <1> QueueInv /\ WorkerType /\ ScriptInv /\ FutureInv /\ LocalsInv /\ BytesAccounted
    BY DEF WorkerInv
  <1>1. \A f : Kept(f)
    BY DEF Kept, queue, vars, stream
  <1>2. QueueInv'
    BY NextInv DEF queue
  <1>3. WorkerType' /\ ScriptInv'
    BY DEF WorkerType, ScriptInv
  <1>4. w.at # "handler" => Idle(Hnd)
    BY DEF FutureInv
  <1>5. Idle(Hnd)' /\ (Idle(Out) => Idle(Out)')
    BY <1>1, <1>4 DEF Kept, Idle
  <1>6. FutureInv'
    BY <1>5 DEF FutureInv
  <1>7. w.flush = 0
    BY DEF LocalsInv
  <1>8. LocalsInv'
    <2>1. \A f \in Futures : producer'[f].pc = "idle" => producer'[f].left = 0
      BY <1>1 DEF LocalsInv, Kept
    <2>2. QED
      BY <1>7, <2>1 DEF LocalsInv
  <1>9. BytesAccounted'
    <2>1. Running' => Running
      BY DEF Running, Accepts, queue, vars, inner
    <2>2. Delivered' = Delivered
      BY DEF Delivered, Unsent, queue, vars, stream
    <2>3. QED
      BY <2>1, <2>2 DEF BytesAccounted
  <1>10. QED
    BY <1>2, <1>3, <1>6, <1>8, <1>9 DEF WorkerInv

(* A handler that starts to await pushes.                                  *)
LEMMA AwaitStep ==
  ASSUME WorkerInv, UNCHANGED queue, Idle(Hnd), NEW pushes, Scripted(pushes),
         script' = [script EXCEPT ![Hnd] = pushes], w' \in WorkerState,
         w.at \notin {"exit", "ended"}, w'.at = "handler", w'.output <=> w.output,
         w'.then = "takeover" => ~w.output, w'.flush # 0 => w'.then = "flush",
         ledger'.lost = ledger.lost, ledger' \in Ledger,
         ledger'.due - ledger.due =
           ScriptBytes(pushes) + ((w'.withheld + w'.flush) - (w.withheld + w.flush))
  PROVE  WorkerInv'
  <1> QueueInv /\ WorkerType /\ ScriptInv /\ FutureInv /\ LocalsInv /\ BytesAccounted
    BY DEF WorkerInv
  <1> Hnd \in Futures /\ Out \in Futures /\ Out # Hnd
    BY WorkerNames
  <1>1. \A f : Kept(f)
    BY DEF Kept, queue, vars, stream
  <1>2. QueueInv'
    BY NextInv DEF queue
  <1>3. /\ script' \in [Futures -> Seq(Item)] /\ ScriptInv'
        /\ script'[Hnd] = pushes /\ script'[Out] = script[Out]
    BY ScriptUpdate
  <1>4. WorkerType'
    BY <1>3 DEF WorkerType
  <1>5. /\ Credit(Out)' = Credit(Out) /\ sent'[Out] \in Nat /\ Unsent(Out)' \in Nat
        /\ Idle(Out) => Idle(Out)'
    BY <1>1, <1>3, KeptCredit
  <1>6. FutureInv'
    BY <1>5 DEF FutureInv
  <1>7. LocalsInv'
    <2>1. \A f \in Futures : producer'[f].pc = "idle" => producer'[f].left = 0
      BY <1>1 DEF LocalsInv, Kept
    <2>2. QED
      BY <2>1 DEF LocalsInv
  <1>8. BytesAccounted'
    <2>1. Running' => Running
      BY DEF Running, Accepts, queue, vars, inner
    <2>2. producer'[Hnd].left = 0 /\ sent'[Hnd] = sent[Hnd]
      BY <1>1 DEF Kept, LocalsInv, Idle
    <2>3. Unsent(Hnd) = 0
      BY IdleCredit
    <2>4. /\ sent'[Hnd] \in Nat /\ Unsent(Hnd)' \in Nat
          /\ Credit(Hnd)' = (Credit(Hnd) - Unsent(Hnd)) + ScriptBytes(pushes)
      BY <1>3, <2>2, ScriptedCredit
    <2>5. /\ Credit(Out) \in Nat /\ Credit(Hnd) \in Nat /\ w.withheld \in Nat /\ w.flush \in Nat
          /\ Delivered = Credit(Out) + Credit(Hnd) + (w.withheld + w.flush)
      BY CreditTypes
    <2>6. w'.withheld \in Nat /\ w'.flush \in Nat /\ ScriptBytes(pushes) \in Nat
      BY ScriptTypes DEF WorkerState
    <2>7. Delivered' = Credit(Out)' + Credit(Hnd)' + (w'.withheld + w'.flush)
      BY <1>5, <2>4, <2>6, DeliveredNext
    <2>8. /\ Delivered \in Int /\ Delivered' \in Int
          /\ Delivered' - Delivered =
               ScriptBytes(pushes) + ((w'.withheld + w'.flush) - (w.withheld + w.flush))
      BY <1>5, <2>3, <2>4, <2>5, <2>6, <2>7
    <2>9. ledger.due \in Int /\ ledger.lost \in Nat
      BY DEF WorkerType, Ledger
    <2>10. ASSUME ledger.due = Delivered + ledger.lost
           PROVE  ledger'.due = Delivered' + ledger'.lost
      BY <2>8, <2>9, <2>10 DEF Ledger
    <2>11. QED
      BY <2>1, <2>10 DEF BytesAccounted
  <1>9. QED
    BY <1>2, <1>3, <1>4, <1>6, <1>7, <1>8 DEF WorkerInv

(* The ledger when pending_output is assigned: what the future before it   *)
(* had not pushed is lost, and what is due grows by the new pushes and by  *)
(* what is withheld from now on.                                           *)
Overwritten(pushes) ==
  /\ ledger'.lost = ledger.lost + Unsent(Out)
  /\ ledger'.due - ledger.due = ScriptBytes(pushes) + (w'.withheld - (w.withheld + w.flush))

(* pending_output is assigned.                                             *)
LEMMA OutputStep ==
  ASSUME WorkerInv, NEW pushes, Scripted(pushes), script' = [script EXCEPT ![Out] = pushes],
         IF producer[Out].pc = "idle" THEN UNCHANGED queue ELSE DropPush(Out),
         Idle(Hnd), w.at \notin {"exit", "ended"}, w' \in WorkerState,
         w'.at = "top", w'.output, w'.flush = 0,
         ledger' \in Ledger, Overwritten(pushes)
  PROVE  WorkerInv'
  <1> QueueInv /\ WorkerType /\ ScriptInv /\ FutureInv /\ LocalsInv /\ BytesAccounted
    BY DEF WorkerInv
  <1> Hnd \in Futures /\ Out \in Futures /\ Out # Hnd
    BY WorkerNames
  <1>1. UNCHANGED queue \/ DropPush(Out)
    OBVIOUS
  <1>2. QueueInv'
    <2>1. CASE UNCHANGED queue
      BY <2>1, NextInv DEF queue
    <2>2. CASE DropPush(Out)
      BY <2>2, DropInv, DropType, WorkerNames DEF QueueInv
    <2>3. QED
      BY <1>1, <2>1, <2>2
  <1>3. Kept(Hnd)
    <2>1. Elsewhere(Hnd)
      BY <1>1, WorkerNames DEF Elsewhere
    <2>2. QED
      BY <2>1, ElsewhereKeeps
  <1>4. /\ producer'[Out].left = 0 /\ sent'[Out] = sent[Out]
        /\ UNCHANGED <<closed, cancelled_sessions>>
    <2>1. CASE producer[Out].pc = "idle"
      BY <2>1 DEF queue, vars, inner, stream, LocalsInv
    <2>2. CASE producer[Out].pc # "idle"
      <3>1. DropPush(Out)
        BY <2>2
      <3>2. Out \in Producers
        BY WorkerNames
      <3>3. QED
        BY <3>1, <3>2 DEF DropPush, QueueInv, TypeOK, ProducerState, stream
    <2>3. QED
      BY <2>1, <2>2
  <1>5. /\ script' \in [Futures -> Seq(Item)] /\ ScriptInv'
        /\ script'[Out] = pushes /\ script'[Hnd] = script[Hnd]
    BY ScriptUpdate
  <1>6. Unsent(Out) \in Nat /\ ledger.due \in Int /\ ledger.lost \in Nat
    BY CreditTypes DEF WorkerType, Ledger
  <1>7. WorkerType'
    BY <1>5, <1>6 DEF WorkerType
  <1>8. /\ Credit(Hnd)' = Credit(Hnd) /\ sent'[Hnd] \in Nat /\ Unsent(Hnd)' \in Nat
        /\ Idle(Hnd)'
    BY <1>3, <1>5, KeptCredit
  <1>9. FutureInv'
    BY <1>8 DEF FutureInv
  <1>10. LocalsInv'
    <2>1. producer'[Hnd].pc = "idle" => producer'[Hnd].left = 0
      BY <1>3 DEF LocalsInv, Kept
    <2>2. QED
      BY <1>4, <2>1 DEF LocalsInv, Futures
  <1>11. BytesAccounted'
    <2>1. Running' => Running
      BY <1>4 DEF Running, Accepts
    <2>2. /\ sent'[Out] \in Nat /\ Unsent(Out)' \in Nat
          /\ Credit(Out)' = (Credit(Out) - Unsent(Out)) + ScriptBytes(pushes)
      BY <1>4, <1>5, ScriptedCredit
    <2>3. /\ Credit(Out) \in Nat /\ Credit(Hnd) \in Nat /\ w.withheld \in Nat /\ w.flush \in Nat
          /\ Delivered = Credit(Out) + Credit(Hnd) + (w.withheld + w.flush)
      BY CreditTypes
    <2>4. w'.withheld \in Nat /\ w'.flush \in Nat /\ ScriptBytes(pushes) \in Nat
      BY ScriptTypes DEF WorkerState
    <2>5. Delivered' = Credit(Out)' + Credit(Hnd)' + (w'.withheld + w'.flush)
      BY <1>8, <2>2, <2>4, DeliveredNext
    <2>6. /\ Delivered \in Int /\ Delivered' \in Int
          /\ Delivered' - Delivered =
               (ScriptBytes(pushes) + (w'.withheld - (w.withheld + w.flush))) - Unsent(Out)
      BY <1>6, <1>8, <2>2, <2>3, <2>4, <2>5
    <2>7. ASSUME ledger.due = Delivered + ledger.lost
          PROVE  ledger'.due = Delivered' + ledger'.lost
      <3>1. PICK x \in Int :
              x = ScriptBytes(pushes) + (w'.withheld - (w.withheld + w.flush))
        BY <2>3, <2>4
      <3>2. ledger'.due - ledger.due = x /\ ledger'.lost = ledger.lost + Unsent(Out)
        BY <3>1 DEF Overwritten
      <3>3. Delivered' - Delivered = x - Unsent(Out)
        BY <2>6, <3>1
      <3>4. ledger'.due \in Int
        BY DEF Ledger
      <3>5. QED
        BY <1>6, <2>6, <2>7, <3>2, <3>3, <3>4
    <2>8. QED
      BY <2>1, <2>7 DEF BytesAccounted
  <1>12. QED
    BY <1>2, <1>5, <1>7, <1>9, <1>10, <1>11 DEF WorkerInv

(* A future runs: Out while it is polled, Hnd inside a handler.            *)
LEMMA RunStep ==
  ASSUME WorkerInv, NEW f \in Futures, RunFuture(f),
         f = Out => w.at = "poll", f = Hnd => w.at = "handler"
  PROVE  WorkerInv'
  <1> QueueInv /\ WorkerType /\ ScriptInv /\ FutureInv /\ LocalsInv /\ BytesAccounted
    BY DEF WorkerInv
  <1> Hnd \in Futures /\ Out \in Futures /\ Out # Hnd /\ f \in Producers
    BY WorkerNames
  <1>0. w' = w /\ ledger' = ledger
    BY DEF RunFuture
  <1>1. PICK g \in Futures : g # f /\ {f, g} = {Out, Hnd}
    BY DEF Futures
  <1>2. /\ UNCHANGED <<closed, cancelled_sessions>>
        /\ script' = [script EXCEPT ![f] = script'[f]] /\ Scripted(script'[f])
        /\ producer'[f].pc = "idle" => producer'[f].left = 0
        /\ Accepts(Host) => Credit(f)' = Credit(f)
    <2>1. Scripted(script[f]) /\ (producer[f].pc = "idle" => producer[f].left = 0)
      BY DEF ScriptInv, LocalsInv
    <2>2. QED
      BY <2>1, RunConserves
  <1>3. QueueInv'
    <2>1. CASE StartPush(f)
      <3>1. PICK h \in Item : h = Head(script[f])
        BY <2>1, ScriptTail DEF StartPush, ScriptInv
      <3>2. h.size \in Nat /\ h.kind \in {"Output", "Other"}
        BY ScriptTypes
      <3>3. Push(f, h.kind, h.size)
        BY <2>1, <3>1 DEF StartPush
      <3>4. QED
        BY <3>2, <3>3, PushInv
    <2>2. CASE ProducerStep(f)
      BY <2>2, ProducerInv, ProducerType DEF QueueInv
    <2>3. QED
      BY <2>1, <2>2 DEF RunFuture
  <1>4. Kept(g)
    <2>1. f \in Producers \ {g}
      BY <1>1
    <2>2. Elsewhere(g)
      BY <2>1 DEF RunFuture, StartPush, Elsewhere
    <2>3. QED
      BY <2>2, ElsewhereKeeps
  <1>5. PICK s : s = script'[f]
    OBVIOUS
  <1>6. script' \in [Futures -> Seq(Item)] /\ ScriptInv' /\ script'[g] = script[g]
    BY <1>1, <1>2, <1>5, ScriptUpdate
  <1>7. WorkerType'
    BY <1>0, <1>6 DEF WorkerType
  <1>8. /\ Credit(g)' = Credit(g) /\ sent'[g] \in Nat /\ Unsent(g)' \in Nat
        /\ Idle(g) => Idle(g)'
    BY <1>4, <1>6, KeptCredit
  <1>9. FutureInv'
    <2>1. CASE f = Out
      BY <1>0, <1>1, <1>8, <2>1 DEF FutureInv
    <2>2. CASE f = Hnd
      BY <1>0, <1>1, <1>8, <2>2 DEF FutureInv
    <2>3. QED
      BY <2>1, <2>2 DEF Futures
  <1>10. LocalsInv'
    <2>1. producer'[g].pc = "idle" => producer'[g].left = 0
      BY <1>4 DEF LocalsInv, Kept
    <2>2. \A h \in Futures : producer'[h].pc = "idle" => producer'[h].left = 0
      BY <1>1, <1>2, <2>1 DEF Futures
    <2>3. QED
      BY <1>0, <2>2 DEF LocalsInv
  <1>11. ASSUME Running' PROVE ledger'.due = Delivered' + ledger'.lost
    <2>1. Running /\ Accepts(Host)
      BY <1>0, <1>2, <1>11 DEF Running, Accepts
    <2>2. Credit(Out)' = Credit(Out) /\ Credit(Hnd)' = Credit(Hnd)
      BY <1>1, <1>2, <1>8, <2>1
    <2>3. /\ sent'[f] \in Nat
      BY <1>3 DEF QueueInv, TypeOK
    <2>4. Unsent(f)' \in Nat
      <3>1. producer'[f] \in ProducerState
        BY <1>3 DEF QueueInv, TypeOK
      <3>2. PushLeft(f)' \in Nat
        BY <3>1 DEF PushLeft, ProducerState
      <3>3. ScriptBytes(script'[f]) \in Nat
        BY <1>2, <1>5, ScriptTypes
      <3>4. QED
        BY <3>2, <3>3, UnsentParts
    <2>5. w'.withheld \in Nat /\ w'.flush \in Nat
      BY <1>7 DEF WorkerType, WorkerState
    <2>6. Delivered' = Credit(Out)' + Credit(Hnd)' + (w'.withheld + w'.flush)
      BY <1>1, <1>8, <2>3, <2>4, <2>5, DeliveredNext
    <2>7. Delivered = Credit(Out) + Credit(Hnd) + (w.withheld + w.flush)
      BY CreditTypes
    <2>8. Delivered' = Delivered
      BY <1>0, <2>2, <2>6, <2>7
    <2>9. QED
      BY <1>0, <2>1, <2>8 DEF BytesAccounted
  <1>12. QED
    BY <1>3, <1>6, <1>7, <1>9, <1>10, <1>11 DEF WorkerInv, BytesAccounted

(* Steps of the queue that run neither future.                             *)
LEMMA ElsewhereStep ==
  ASSUME WorkerInv, UNCHANGED <<w, script, ledger>>, QueueInv',
         \A f \in Futures : Elsewhere(f), Accepts(Host)' => Accepts(Host)
  PROVE  WorkerInv'
  <1> QueueInv /\ WorkerType /\ ScriptInv /\ FutureInv /\ LocalsInv /\ BytesAccounted
    BY DEF WorkerInv
  <1> Hnd \in Futures /\ Out \in Futures
    BY WorkerNames
  <1>1. \A f \in Futures : Kept(f) /\ script'[f] = script[f]
    BY ElsewhereKeeps
  <1>2. \A f \in Futures : /\ sent'[f] \in Nat /\ Unsent(f)' \in Nat
                           /\ Unsent(f)' = Unsent(f) /\ (Idle(f) => Idle(f)')
    BY <1>1, KeptCredit
  <1>3. WorkerType' /\ ScriptInv'
    BY DEF WorkerType, ScriptInv
  <1>4. FutureInv'
    BY <1>2 DEF FutureInv
  <1>5. LocalsInv'
    <2>1. \A f \in Futures : producer'[f].pc = "idle" => producer'[f].left = 0
      BY <1>1 DEF LocalsInv, Kept
    <2>2. QED
      BY <2>1 DEF LocalsInv
  <1>6. BytesAccounted'
    <2>1. Running' => Running
      BY DEF Running
    <2>2. sent'[Out] = sent[Out] /\ sent'[Hnd] = sent[Hnd]
      BY <1>1 DEF Kept
    <2>3. Delivered' = Delivered
      BY <1>2, <2>2 DEF Delivered
    <2>4. QED
      BY <2>1, <2>3 DEF BytesAccounted
  <1>7. QED
    BY <1>3, <1>4, <1>5, <1>6 DEF WorkerInv

(* The end of the task drops pending_output.                               *)
LEMMA ExitStep ==
  ASSUME WorkerInv, Exit
  PROVE  WorkerInv'
  <1> QueueInv /\ WorkerType /\ ScriptInv /\ FutureInv /\ LocalsInv
    BY DEF WorkerInv
  <1> Hnd \in Futures /\ Out \in Futures /\ Out # Hnd
    BY WorkerNames
  <1>0. /\ w' = [w EXCEPT !.at = "ended", !.output = FALSE, !.send = "none",
                          !.resize = FALSE, !.upload = FALSE]
        /\ w.at = "exit" /\ ledger' = ledger
        /\ script' = [script EXCEPT ![Out] = <<>>]
        /\ UNCHANGED queue \/ DropPush(Out)
        /\ producer[Out].pc = "idle" => UNCHANGED queue
    BY DEF Exit
  <1>1. w' \in WorkerState /\ w'.at = "ended" /\ ~w'.output /\ w'.flush = w.flush
    BY <1>0 DEF WorkerType, WorkerState
  <1>2. QueueInv'
    <2>1. CASE UNCHANGED queue
      BY <2>1, NextInv DEF queue
    <2>2. CASE DropPush(Out)
      BY <2>2, DropInv, DropType, WorkerNames DEF QueueInv
    <2>3. QED
      BY <1>0, <2>1, <2>2
  <1>3. Kept(Hnd)
    <2>1. Elsewhere(Hnd)
      BY <1>0, WorkerNames DEF Elsewhere
    <2>2. QED
      BY <2>1, ElsewhereKeeps
  <1>4. producer'[Out].left = 0 /\ producer'[Out].pc = "idle"
    <2>1. CASE producer[Out].pc = "idle"
      BY <1>0, <2>1 DEF queue, vars, LocalsInv
    <2>2. CASE producer[Out].pc # "idle" /\ DropPush(Out)
      <3>1. Out \in Producers
        BY WorkerNames
      <3>2. QED
        BY <2>2, <3>1 DEF DropPush, QueueInv, TypeOK, ProducerState
    <2>3. QED
      BY <2>1, <2>2 DEF Exit
  <1>5. /\ script' \in [Futures -> Seq(Item)] /\ ScriptInv'
        /\ script'[Out] = <<>> /\ script'[Hnd] = script[Hnd]
    BY <1>0, ScriptUpdate, ScriptTypes
  <1>6. WorkerType'
    BY <1>0, <1>1, <1>5 DEF WorkerType
  <1>7. Idle(Hnd)' /\ Idle(Out)'
    BY <1>0, <1>3, <1>4, <1>5 DEF FutureInv, Idle, Kept
  <1>8. FutureInv'
    BY <1>1, <1>7 DEF FutureInv
  <1>9. LocalsInv'
    <2>1. producer'[Hnd].pc = "idle" => producer'[Hnd].left = 0
      BY <1>3 DEF LocalsInv, Kept
    <2>2. w.flush = 0
      BY <1>0 DEF LocalsInv
    <2>3. QED
      BY <1>1, <1>4, <2>1, <2>2 DEF LocalsInv, Futures
  <1>10. BytesAccounted'
    BY <1>1 DEF BytesAccounted, Running
  <1>11. QED
    BY <1>2, <1>5, <1>6, <1>8, <1>9, <1>10 DEF WorkerInv

-----------------------------------------------------------------------------
(* The actions.                                                            *)

(* A branch of the select that changes locals only, and keeps or assigns   *)
(* pending_output.                                                         *)
LEMMA SelectStep ==
  ASSUME WorkerInv, UNCHANGED <<queue, script>>, w' \in WorkerState,
         ledger' \in Ledger, ledger'.due = ledger.due, ledger'.lost = ledger.lost,
         w.at \in {"top", "select"}, w'.at \in {"top", "select", "exit"},
         w'.output \/ (w'.output <=> w.output),
         w'.withheld = w.withheld, w'.flush = w.flush
  PROVE  WorkerInv'
  <1>1. ~w'.output => Idle(Out)
    BY DEF WorkerInv, FutureInv
  <1>2. QED
    BY <1>1, LocalStep

(* Branches without pushes.                                                *)
LEMMA BranchActions ==
  ASSUME WorkerInv,
         \/ LoopTop \/ SendDone \/ ResizeDone \/ ResizeError \/ AttemptCancelled
         \/ PostLoginTimer \/ InitialInjectDelay \/ UploadDone \/ InjectTimeout
         \/ CommandWrite \/ CommandResize \/ CommandClose
  PROVE  WorkerInv'
  <1> w \in WorkerState /\ ledger \in Ledger
    BY DEF WorkerInv, WorkerType
  <1>1. CASE LoopTop
    <2>1. PICK send \in {"none", "write", "script", "post_login"}, n \in Nat,
               p \in {"none", "set", "armed"} :
            w' = [w EXCEPT !.at = "select", !.send = send, !.writes = n, !.post_login = p]
      <3> DEFINE start == w.phase = "Normal" /\ w.send = "none" /\ w.writes > 0
                 send == IF start THEN "write" ELSE w.send
                 n == IF start THEN w.writes - 1 ELSE w.writes
                 p == IF w.post_login = "set" /\ w.phase = "Normal" THEN "armed" ELSE w.post_login
      <3>1. /\ send \in {"none", "write", "script", "post_login"} /\ n \in Nat
            /\ p \in {"none", "set", "armed"}
        BY DEF WorkerState
      <3>2. w' = [w EXCEPT !.at = "select", !.send = send, !.writes = n, !.post_login = p]
        BY <1>1 DEF LoopTop
      <3> HIDE DEF send, n, p
      <3>3. QED
        BY <3>1, <3>2
    <2>2. /\ w' \in WorkerState /\ w'.at = "select" /\ w'.output = w.output
          /\ w'.withheld = w.withheld /\ w'.flush = w.flush
      BY <2>1 DEF WorkerState
    <2>3. QED
      BY <1>1, <2>2, SelectStep DEF LoopTop
  <1>2. CASE SendDone
    <2>1. w' = [w EXCEPT !.at = "top", !.send = "none"]
      BY <1>2 DEF SendDone, Branch
    <2>2. /\ w' \in WorkerState /\ w'.at = "top" /\ w'.output = w.output
          /\ w'.withheld = w.withheld /\ w'.flush = w.flush
      BY <2>1 DEF WorkerState
    <2>3. QED
      BY <1>2, <2>2, SelectStep DEF SendDone, Branch
  <1>3. CASE ResizeDone
    <2>1. w' = [w EXCEPT !.at = "top", !.resize = FALSE]
      BY <1>3 DEF ResizeDone, Branch
    <2>2. /\ w' \in WorkerState /\ w'.at = "top" /\ w'.output = w.output
          /\ w'.withheld = w.withheld /\ w'.flush = w.flush
      BY <2>1 DEF WorkerState
    <2>3. QED
      BY <1>3, <2>2, SelectStep DEF ResizeDone, Branch
  <1>4. CASE ResizeError
    <2>1. w' = [w EXCEPT !.at = "exit", !.resize = FALSE]
      BY <1>4 DEF ResizeError, Branch
    <2>2. /\ w' \in WorkerState /\ w'.at = "exit" /\ w'.output = w.output
          /\ w'.withheld = w.withheld /\ w'.flush = w.flush
      BY <2>1 DEF WorkerState
    <2>3. QED
      BY <1>4, <2>2, SelectStep DEF ResizeError, Branch
  <1>5. CASE AttemptCancelled \/ CommandClose
    <2>1. w' = [w EXCEPT !.at = "exit"]
      BY <1>5 DEF AttemptCancelled, CommandClose, Branch
    <2>2. /\ w' \in WorkerState /\ w'.at = "exit" /\ w'.output = w.output
          /\ w'.withheld = w.withheld /\ w'.flush = w.flush
      BY <2>1 DEF WorkerState
    <2>3. QED
      BY <1>5, <2>2, SelectStep DEF AttemptCancelled, CommandClose, Branch
  <1>6. \A a \in Arms : a[1] \in BOOLEAN /\ a[2] \in BOOLEAN
    <2>1. w.armed \in BOOLEAN /\ w.quiet \in BOOLEAN
      BY DEF WorkerState
    <2>2. PICK x \in BOOLEAN, y \in BOOLEAN : x = w.armed /\ y = w.quiet
      BY <2>1
    <2>3. Arms \subseteq {<<x, y>>, <<FALSE, TRUE>>, <<TRUE, TRUE>>}
      BY <2>2 DEF Arms
    <2>4. ASSUME NEW a \in Arms PROVE a[1] \in BOOLEAN /\ a[2] \in BOOLEAN
      <3>1. PICK b \in BOOLEAN, c \in BOOLEAN : a = <<b, c>>
        BY <2>3, Zenon
      <3>2. a[1] = b /\ a[2] = c
        BY <3>1
      <3>3. QED
        BY <3>2, Zenon
    <2>5. QED
      BY <2>4
  <1>7. CASE PostLoginTimer
    <2>1. PICK a \in Arms :
            /\ w.at = "select" /\ UNCHANGED <<queue, script, ledger>>
            /\ w' = [w EXCEPT !.at = "top", !.post_login = "none", !.send = "post_login",
                              !.armed = a[1], !.quiet = a[2]]
      BY <1>7 DEF PostLoginTimer, Branch
    <2>2. PICK x \in BOOLEAN, y \in BOOLEAN : x = a[1] /\ y = a[2]
      BY <1>6
    <2>3. w' = [w EXCEPT !.at = "top", !.post_login = "none", !.send = "post_login",
                         !.armed = x, !.quiet = y]
      BY <2>1, <2>2
    <2>4. /\ w' \in WorkerState /\ w'.at = "top" /\ w'.output = w.output
          /\ w'.withheld = w.withheld /\ w'.flush = w.flush
      BY <2>3 DEF WorkerState
    <2>5. QED
      BY <2>1, <2>4, SelectStep
  <1>8. CASE InitialInjectDelay
    <2>1. w' = [w EXCEPT !.at = "top", !.phase = "Suppressing",
                         !.integration = FALSE, !.upload = TRUE]
      BY <1>8 DEF InitialInjectDelay, Branch
    <2>2. /\ w' \in WorkerState /\ w'.at = "top" /\ w'.output = w.output
          /\ w'.withheld = w.withheld /\ w'.flush = w.flush
      BY <2>1 DEF WorkerState
    <2>3. QED
      BY <1>8, <2>2, SelectStep DEF InitialInjectDelay, Branch
  <1>9. CASE UploadDone
    <2>1. w' = [w EXCEPT !.at = "top", !.upload = FALSE, !.send = "script",
                         !.phase = "Suppressing"]
      BY <1>9 DEF UploadDone, Branch
    <2>2. /\ w' \in WorkerState /\ w'.at = "top" /\ w'.output = w.output
          /\ w'.withheld = w.withheld /\ w'.flush = w.flush
      BY <2>1 DEF WorkerState
    <2>3. QED
      BY <1>9, <2>2, SelectStep DEF UploadDone, Branch
  <1>10. CASE InjectTimeout
    <2>1. w' = [w EXCEPT !.at = "top", !.phase = "Normal", !.integration = FALSE,
                         !.output = TRUE]
      BY <1>10 DEF InjectTimeout, Branch
    <2>2. /\ w' \in WorkerState /\ w'.at = "top" /\ w'.output
          /\ w'.withheld = w.withheld /\ w'.flush = w.flush
      BY <2>1 DEF WorkerState
    <2>3. QED
      BY <1>10, <2>2, SelectStep DEF InjectTimeout, Branch
  <1>11. CASE CommandWrite
    <2>1. PICK a \in Arms :
            w' = [w EXCEPT !.at = "top", !.writes = @ + 1, !.armed = a[1], !.quiet = a[2]]
      BY <1>11 DEF CommandWrite
    <2>2. PICK x \in BOOLEAN, y \in BOOLEAN, n \in Nat : x = a[1] /\ y = a[2] /\ n = w.writes + 1
      BY <1>6 DEF WorkerState
    <2>3. w' = [w EXCEPT !.at = "top", !.writes = n, !.armed = x, !.quiet = y]
      BY <2>1, <2>2
    <2>4. /\ w' \in WorkerState /\ w'.at = "top" /\ w'.output = w.output
          /\ w'.withheld = w.withheld /\ w'.flush = w.flush
      BY <2>3 DEF WorkerState
    <2>5. ledger' \in Ledger /\ ledger'.due = ledger.due /\ ledger'.lost = ledger.lost
      <3>1. ledger' = [ledger EXCEPT !.inputs = @ + 1]
        BY <1>11 DEF CommandWrite
      <3>2. QED
        BY <3>1 DEF Ledger
    <2>6. QED
      BY <1>11, <2>4, <2>5, SelectStep DEF CommandWrite
  <1>12. CASE CommandResize
    <2>1. w' = [w EXCEPT !.at = "top", !.resize = TRUE]
      BY <1>12 DEF CommandResize
    <2>2. /\ w' \in WorkerState /\ w'.at = "top" /\ w'.output = w.output
          /\ w'.withheld = w.withheld /\ w'.flush = w.flush
      BY <2>1 DEF WorkerState
    <2>3. ledger' \in Ledger /\ ledger'.due = ledger.due /\ ledger'.lost = ledger.lost
      BY <1>12 DEF CommandResize, Ledger
    <2>4. QED
      BY <1>12, <2>2, <2>3, SelectStep DEF CommandResize
  <1>13. QED
    BY <1>1, <1>2, <1>3, <1>4, <1>5, <1>7, <1>8, <1>9, <1>10, <1>11, <1>12

(* The poll of pending_output, and the return of a handler to the loop.    *)
LEMMA PollActions ==
  ASSUME WorkerInv, PollOutput \/ PollReturns
  PROVE  WorkerInv'
  <1> w \in WorkerState /\ ledger \in Ledger
    BY DEF WorkerInv, WorkerType
  <1>1. CASE PollOutput
    <2>1. /\ w.at = "select" /\ w.output /\ w' = [w EXCEPT !.at = "poll"]
          /\ UNCHANGED <<queue, script, ledger>>
      BY <1>1 DEF PollOutput, Branch
    <2>2. /\ w' \in WorkerState /\ w'.at = "poll" /\ w'.output = w.output
          /\ w'.withheld = w.withheld /\ w'.flush = w.flush
      BY <2>1 DEF WorkerState
    <2>3. w'.output
      BY <2>1, <2>2
    <2>4. QED
      BY <2>1, <2>2, <2>3, LocalStep
  <1>2. CASE PollReturns
    <2>1. w.at = "poll" /\ UNCHANGED <<queue, script, ledger>>
      BY <1>2 DEF PollReturns
    <2>2. w.output
      BY <2>1 DEF WorkerInv, FutureInv
    <2>3. CASE Completed(Out)
      <3>1. w' = [w EXCEPT !.at = "top", !.fresh = FALSE, !.output = FALSE]
        BY <1>2, <2>3 DEF PollReturns
      <3>2. /\ w' \in WorkerState /\ w'.at = "top"
            /\ w'.withheld = w.withheld /\ w'.flush = w.flush
        BY <3>1 DEF WorkerState
      <3>3. Idle(Out)
        BY <2>3 DEF Completed, Idle
      <3>4. QED
        BY <2>1, <3>2, <3>3, LocalStep
    <2>4. CASE ~Completed(Out)
      <3>1. w' = [w EXCEPT !.at = "select", !.fresh = FALSE]
        BY <1>2, <2>4 DEF PollReturns
      <3>2. /\ w' \in WorkerState /\ w'.at = "select" /\ w'.output = w.output
            /\ w'.withheld = w.withheld /\ w'.flush = w.flush
        BY <3>1 DEF WorkerState
      <3>3. w'.output
        BY <2>2, <3>2
      <3>4. QED
        BY <2>1, <3>2, <3>3, LocalStep
    <2>5. QED
      BY <2>3, <2>4
  <1>3. QED
    BY <1>1, <1>2

(* A handler that reports one event and touches no byte.                   *)
LEMMA ReportStep ==
  ASSUME WorkerInv, UNCHANGED <<queue, ledger>>, Idle(Hnd), w.at \notin {"exit", "ended"},
         script' = [script EXCEPT ![Hnd] = <<Other>>], w' \in WorkerState,
         w'.at = "handler", w'.output <=> w.output, w'.then # "takeover",
         w'.flush # 0 => w'.then = "flush",
         w'.withheld + w'.flush = w.withheld + w.flush
  PROVE  WorkerInv'
  <1>1. Scripted(<<Other>>) /\ ScriptBytes(<<Other>>) = 0
    BY ShortScripts
  <1>2. PICK s : s = <<Other>>
    OBVIOUS
  <1>3. ledger' \in Ledger /\ ledger'.lost = ledger.lost /\ ledger'.due = ledger.due
    BY DEF WorkerInv, WorkerType
  <1>4. /\ w'.withheld \in Nat /\ w'.flush \in Nat /\ w.withheld \in Nat /\ w.flush \in Nat
        /\ ledger.due \in Int
    BY DEF WorkerInv, WorkerType, WorkerState, Ledger
  <1>5. ledger'.due - ledger.due =
          ScriptBytes(s) + ((w'.withheld + w'.flush) - (w.withheld + w.flush))
    <2>1. ledger'.due - ledger.due = 0 /\ ScriptBytes(s) = 0
      BY <1>1, <1>2, <1>3, <1>4
    <2>2. (w'.withheld + w'.flush) - (w.withheld + w.flush) = 0
      BY <1>4
    <2>3. QED
      BY <2>1, <2>2
  <1>6. QED
    BY <1>1, <1>2, <1>3, <1>5, AwaitStep

(* The branches of the select that report an event from their handler.     *)
LEMMA ReportActions ==
  ASSUME WorkerInv, SendError \/ SilenceDeadline \/ ChannelEnds
  PROVE  WorkerInv'
  <1> w \in WorkerState
    BY DEF WorkerInv, WorkerType
  <1>0. w.at = "select" /\ UNCHANGED <<queue, ledger>>
    BY DEF SendError, SilenceDeadline, ChannelEnds, CanRead
  <1>1. Idle(Hnd) /\ w.flush = 0
    BY <1>0 DEF WorkerInv, FutureInv, LocalsInv
  <1>2. script' = [script EXCEPT ![Hnd] = <<Other>>]
    BY DEF SendError, SilenceDeadline, ChannelEnds, Await
  <1>3. /\ w' \in WorkerState /\ w'.at = "handler" /\ w'.then \in {"loop", "break"}
        /\ w'.output = w.output /\ w'.withheld = w.withheld /\ w'.flush = w.flush
    <2>1. CASE SendError
      <3>1. w' = [w EXCEPT !.at = "handler", !.then = "break", !.send = "none"]
        BY <2>1 DEF SendError, Await, WorkerState
      <3>2. QED
        BY <3>1 DEF WorkerState
    <2>2. CASE SilenceDeadline
      <3>1. w' = [w EXCEPT !.at = "handler", !.then = "loop", !.armed = FALSE]
        BY <2>2 DEF SilenceDeadline, Await, WorkerState
      <3>2. QED
        BY <3>1 DEF WorkerState
    <2>3. CASE ChannelEnds
      <3>1. w' = [w EXCEPT !.at = "handler", !.then = "break"]
        BY <2>3 DEF ChannelEnds, Await
      <3>2. QED
        BY <3>1 DEF WorkerState
    <2>4. QED
      BY <2>1, <2>2, <2>3
  <1>4. QED
    BY <1>0, <1>1, <1>2, <1>3, ReportStep

(* Flush puts n bytes of what was withheld into a new pending_output.      *)
LEMMA FlushStep ==
  ASSUME WorkerInv, NEW n \in Nat, NEW l \in WorkerState, Flush(n, l), Idle(Hnd),
         w.at \notin {"exit", "ended"}, l.withheld + n = w.withheld + w.flush
  PROVE  WorkerInv'
  <1> w \in WorkerState /\ ledger \in Ledger /\ WorkerType
    BY DEF WorkerInv, WorkerType
  <1>1. PICK o \in Filter(n) :
          /\ w' = [l EXCEPT !.at = "top", !.output = TRUE, !.phase = o.phase, !.flush = 0]
          /\ script' = [script EXCEPT ![Out] = o.pushes]
          /\ ledger' = [ledger EXCEPT !.due = @ - (n - o.visible), !.lost = @ + Unsent(Out)]
          /\ IF producer[Out].pc = "idle" THEN UNCHANGED queue ELSE DropPush(Out)
    BY DEF Flush
  <1>2. /\ o.visible \in 0 .. n /\ o.phase \in {"WaitInitial", "Suppressing", "Normal"}
        /\ Scripted(o.pushes) /\ ScriptBytes(o.pushes) = o.visible
    BY FilterPushes
  <1>3. PICK ph \in {"WaitInitial", "Suppressing", "Normal"}, v \in 0 .. n :
          ph = o.phase /\ v = o.visible
    BY <1>2
  <1>3a. PICK s : s = o.pushes
    OBVIOUS
  <1>4. w' = [l EXCEPT !.at = "top", !.output = TRUE, !.phase = ph, !.flush = 0]
    BY <1>1, <1>3
  <1>5. /\ w' \in WorkerState /\ w'.at = "top" /\ w'.output /\ w'.flush = 0
        /\ w'.withheld = l.withheld
    BY <1>4 DEF WorkerState
  <1>6. PICK u \in Nat : u = Unsent(Out)
    BY CreditTypes, WorkerNames DEF WorkerInv
  <1>7. ledger' = [ledger EXCEPT !.due = @ - (n - v), !.lost = @ + u]
    BY <1>1, <1>3, <1>6
  <1>8. /\ ledger' \in Ledger /\ ledger'.due = ledger.due - (n - v)
        /\ ledger'.lost = ledger.lost + u
    <2>1. ledger.due \in Int /\ ledger.lost \in Nat
      BY DEF Ledger
    <2>2. PICK d \in Int, x \in Nat : d = ledger.due - (n - v) /\ x = ledger.lost + u
      BY <2>1
    <2>3. ledger' = [ledger EXCEPT !.due = d, !.lost = x]
      BY <1>7, <2>2
    <2>4. QED
      BY <2>2, <2>3 DEF Ledger
  <1>9. ledger'.due - ledger.due = ScriptBytes(s) + (w'.withheld - (w.withheld + w.flush))
    <2>1. /\ l.withheld \in Nat /\ w.withheld \in Nat /\ w.flush \in Nat /\ ledger.due \in Int
          /\ v \in Nat
      BY DEF WorkerState, Ledger
    <2>2. ScriptBytes(s) = v
      BY <1>2, <1>3, <1>3a
    <2>3. QED
      BY <1>5, <1>8, <2>1, <2>2
  <1>10. Scripted(s) /\ script' = [script EXCEPT ![Out] = s]
    BY <1>1, <1>2, <1>3a
  <1>11. ledger'.lost = ledger.lost + Unsent(Out)
    BY <1>6, <1>8
  <1>12. QED
    BY <1>1, <1>5, <1>8, <1>9, <1>10, <1>11, OutputStep DEF Overwritten

(* The deadline of a tmux candidate.                                       *)
LEMMA CandidateAction ==
  ASSUME WorkerInv, CandidateDeadline
  PROVE  WorkerInv'
  <1> w \in WorkerState
    BY DEF WorkerInv, WorkerType
  <1>0. w.at = "select"
    BY DEF CandidateDeadline
  <1>1. Idle(Hnd) /\ w.flush = 0
    BY <1>0 DEF WorkerInv, FutureInv, LocalsInv
  <1>2. PICK n \in Nat, l \in WorkerState :
          n = w.withheld /\ l = [w EXCEPT !.armed = FALSE, !.withheld = 0]
    BY DEF WorkerState
  <1>3. l \in WorkerState /\ l.withheld = 0 /\ l.output = w.output
    BY <1>2 DEF WorkerState
  <1>4. CASE Flush(n, l)
    <2>1. l.withheld + n = w.withheld + w.flush
      BY <1>1, <1>2, <1>3
    <2>2. QED
      BY <1>0, <1>1, <1>3, <1>4, <2>1, FlushStep
  <1>5. CASE /\ Await(<<Other>>, "flush", [l EXCEPT !.flush = n])
             /\ UNCHANGED <<queue, ledger>>
    <2>1. w' = [l EXCEPT !.flush = n, !.at = "handler", !.then = "flush"]
      BY <1>3, <1>5 DEF Await, WorkerState
    <2>2. /\ w' \in WorkerState /\ w'.at = "handler" /\ w'.then = "flush"
          /\ w'.output = w.output /\ w'.withheld = 0 /\ w'.flush = n
      BY <1>3, <2>1 DEF WorkerState
    <2>3. w'.withheld + w'.flush = w.withheld + w.flush
      BY <1>1, <1>2, <2>2
    <2>4. script' = [script EXCEPT ![Hnd] = <<Other>>]
      BY <1>5 DEF Await
    <2>5. QED
      BY <1>0, <1>1, <1>5, <2>2, <2>3, <2>4, ReportStep
  <1>6. \/ Flush(n, l)
        \/ Await(<<Other>>, "flush", [l EXCEPT !.flush = n]) /\ UNCHANGED <<queue, ledger>>
    <2>1. CASE Flush(w.withheld, [w EXCEPT !.armed = FALSE, !.withheld = 0])
      <3>1. Filter(w.withheld) = Filter(n)
        BY <1>2 DEF Filter
      <3>2. QED
        BY <1>2, <2>1, <3>1 DEF Flush
    <2>2. CASE /\ Await(<<Other>>, "flush",
                        [[w EXCEPT !.armed = FALSE, !.withheld = 0] EXCEPT !.flush = w.withheld])
               /\ UNCHANGED <<queue, ledger>>
      BY <1>2, <2>2 DEF Await
    <2>3. QED
      BY <2>1, <2>2 DEF CandidateDeadline
  <1>7. QED
    BY <1>4, <1>5, <1>6

(* A handler that awaits the pushes of what filter_output shows.           *)
LEMMA ShowStep ==
  ASSUME WorkerInv, UNCHANGED queue, Idle(Hnd), w.at \notin {"exit", "ended"},
         NEW n \in Nat, NEW o \in Filter(n),
         script' = [script EXCEPT ![Hnd] = o.pushes], w' \in WorkerState,
         w'.at = "handler", w'.output <=> w.output, w'.then = "takeover" => ~w.output,
         w'.flush = 0, w.flush = 0, ledger' \in Ledger, ledger'.lost = ledger.lost,
         ledger'.due = ledger.due + (o.visible + (w'.withheld - w.withheld))
  PROVE  WorkerInv'
  <1>1. Scripted(o.pushes) /\ ScriptBytes(o.pushes) = o.visible /\ o.visible \in 0 .. n
    BY FilterPushes DEF WorkerInv
  <1>2. PICK s : s = o.pushes
    OBVIOUS
  <1>3. /\ w'.withheld \in Nat /\ w.withheld \in Nat /\ ledger.due \in Int
        /\ o.visible \in Nat
    BY <1>1 DEF WorkerInv, WorkerType, WorkerState, Ledger
  <1>4. PICK v \in Nat, a \in Nat, b \in Nat, d \in Int :
          v = o.visible /\ a = w'.withheld /\ b = w.withheld /\ d = ledger.due
    BY <1>3, Zenon
  <1>5. (d + (v + (a - b))) - d = v + ((a + 0) - (b + 0))
    OBVIOUS
  <1>6. ledger'.due - ledger.due =
          ScriptBytes(s) + ((w'.withheld + w'.flush) - (w.withheld + w.flush))
    BY <1>1, <1>2, <1>4, <1>5
  <1>7. QED
    BY <1>1, <1>2, <1>6, AwaitStep

(* A read of the channel: what is not withheld becomes pending_output.     *)
LEMMA ReadAction ==
  ASSUME WorkerInv, ReadData
  PROVE  WorkerInv'
  <1> w \in WorkerState /\ ledger \in Ledger /\ WorkerType
    BY DEF WorkerInv, WorkerType
  <1>0. w.at = "select" /\ ~w.output /\ UNCHANGED queue
    BY DEF ReadData, CanRead
  <1>1. Idle(Hnd) /\ w.flush = 0 /\ Idle(Out)
    BY <1>0 DEF WorkerInv, FutureInv, LocalsInv
  <1> DEFINE inject == w.phase = "WaitInitial" /\ w.integration
  <1> DEFINE Reads(n, held, o, quiet, armed) ==
               /\ w' = [w EXCEPT !.at = "top", !.output = TRUE, !.withheld = held,
                          !.fresh = held \in 1 .. n, !.armed = armed,
                          !.quiet = @ /\ (w.armed => quiet),
                          !.phase = IF inject THEN "Suppressing" ELSE o.phase,
                          !.integration = @ /\ ~inject,
                          !.upload = @ \/ inject]
               /\ script' = [script EXCEPT ![Out] = o.pushes]
               /\ ledger' = [ledger EXCEPT
                               !.due = @ + n - ((w.withheld + n - held) - o.visible),
                               !.reads = @ + 1]
  <1>2. \E n \in ReadSizes : \E held \in Withhold(n) :
          \E o \in Filter(w.withheld + n - held), quiet \in BOOLEAN,
             armed \in {w.armed, w.armed /\ held > 0} : Reads(n, held, o, quiet, armed)
    BY Zenon DEF ReadData
  <1> HIDE DEF Reads
  <1>2a. PICK n \in ReadSizes : \E held \in Withhold(n) :
           \E o \in Filter(w.withheld + n - held), quiet \in BOOLEAN,
              armed \in {w.armed, w.armed /\ held > 0} : Reads(n, held, o, quiet, armed)
    BY <1>2
  <1>2b. PICK held \in Withhold(n) :
           \E o \in Filter(w.withheld + n - held), quiet \in BOOLEAN,
              armed \in {w.armed, w.armed /\ held > 0} : Reads(n, held, o, quiet, armed)
    BY <1>2a
  <1>3. PICK o \in Filter(w.withheld + n - held), quiet \in BOOLEAN,
             armed \in {w.armed, w.armed /\ held > 0} : Reads(n, held, o, quiet, armed)
    BY <1>2b
  <1>4. PICK h \in Nat : h = w.withheld
    BY DEF WorkerState
  <1>5. n \in Nat /\ held \in Nat /\ h + n - held \in Nat
    <2>1. n \in Nat
      BY WorkerActors
    <2>2. held \in 0 .. (h + n)
      BY <1>4, <2>1 DEF Withhold
    <2>3. QED
      BY <2>1, <2>2
  <1>6. PICK pass \in Nat : pass = h + n - held
    BY <1>5
  <1>7. o \in Filter(pass)
    BY <1>4, <1>6
  <1>8. /\ o.visible \in 0 .. pass /\ o.phase \in {"WaitInitial", "Suppressing", "Normal"}
        /\ Scripted(o.pushes) /\ ScriptBytes(o.pushes) = o.visible
    BY <1>7, FilterPushes
  <1>9. PICK ph \in {"WaitInitial", "Suppressing", "Normal"} :
          ph = IF inject THEN "Suppressing" ELSE o.phase
    BY <1>8
  <1>10. PICK fr \in BOOLEAN, ar \in BOOLEAN, qu \in BOOLEAN, int \in BOOLEAN, up \in BOOLEAN :
           /\ fr = (held \in 1 .. n) /\ ar = armed /\ qu = (w.quiet /\ (w.armed => quiet))
           /\ int = (w.integration /\ ~inject) /\ up = (w.upload \/ inject)
    <2>1. armed \in BOOLEAN
      <3>1. w.armed \in BOOLEAN
        BY DEF WorkerState
      <3>2. (w.armed /\ held > 0) \in BOOLEAN
        OBVIOUS
      <3>3. QED
        BY <3>1, <3>2
    <2>2. \A x : (x \in 1 .. n) \in BOOLEAN
      OBVIOUS
    <2>3. \A x, y : (x /\ y) \in BOOLEAN /\ (x \/ y) \in BOOLEAN
      OBVIOUS
    <2>4. QED
      BY <2>1, <2>2, <2>3, Zenon
  <1> HIDE DEF inject
  <1>11. w' = [w EXCEPT !.at = "top", !.output = TRUE, !.withheld = held, !.fresh = fr,
                        !.armed = ar, !.quiet = qu, !.phase = ph, !.integration = int,
                        !.upload = up]
    BY <1>3, <1>9, <1>10, Zenon DEF Reads
  <1>12. /\ w' \in WorkerState /\ w'.at = "top" /\ w'.output /\ w'.withheld = held
         /\ w'.flush = w.flush
    <2>1. held \in Nat
      BY <1>5
    <2>2. w' \in WorkerState
      <3>1. PICK w1 \in WorkerState :
              w1 = [w EXCEPT !.at = "top", !.output = TRUE, !.withheld = held, !.phase = ph]
        BY <2>1 DEF WorkerState
      <3>2. PICK w2 \in WorkerState : w2 = [w1 EXCEPT !.fresh = fr, !.armed = ar, !.quiet = qu]
        BY ZenonT(40) DEF WorkerState
      <3>3. PICK w3 \in WorkerState : w3 = [w2 EXCEPT !.integration = int, !.upload = up]
        BY DEF WorkerState
      <3>4. w' = w3
        BY <1>11, <3>1, <3>2, <3>3
      <3>5. QED
        BY <3>4
    <2>3. w'.at = "top" /\ w'.withheld = held /\ w'.flush = w.flush /\ w'.output = TRUE
      BY <1>11 DEF WorkerState
    <2>4. QED
      BY <2>2, <2>3
  <1>13. PICK v \in 0 .. pass : v = o.visible
    BY <1>8
  <1>14. /\ ledger' \in Ledger /\ ledger'.due = ledger.due + n - (pass - v)
         /\ ledger'.lost = ledger.lost
    <2>1. ledger.due \in Int /\ ledger.reads \in Nat
      BY DEF Ledger
    <2>2. PICK d \in Int, r \in Nat : d = ledger.due + n - (pass - v) /\ r = ledger.reads + 1
      BY <1>5, <2>1
    <2>3. ledger' = [ledger EXCEPT !.due = d, !.reads = r]
      <3>1. d = ledger.due + n - ((w.withheld + n - held) - o.visible)
        BY <1>4, <1>6, <1>13, <2>2
      <3>2. QED
        BY <1>3, <2>2, <3>1, Zenon DEF Reads
    <2>4. QED
      BY <2>2, <2>3 DEF Ledger
  <1>15. PICK s : s = o.pushes
    OBVIOUS
  <1>16. ledger'.due - ledger.due = ScriptBytes(s) + (w'.withheld - (w.withheld + w.flush))
    <2>1. ScriptBytes(s) = v
      BY <1>8, <1>13, <1>15
    <2>2. ledger.due \in Int
      BY DEF Ledger
    <2>3. PICK d \in Int : d = ledger.due
      BY <2>2
    <2>4. (d + n - (pass - v)) - d = v + (held - (h + 0))
      BY <1>5, <1>6
    <2>5. QED
      BY <1>1, <1>4, <1>12, <1>14, <2>1, <2>3, <2>4
  <1>17. Unsent(Out) = 0 /\ producer[Out].pc = "idle"
    BY <1>1, IdleCredit, WorkerNames DEF WorkerInv, Idle
  <1>18. ledger'.lost = ledger.lost + Unsent(Out)
    BY <1>14, <1>17 DEF Ledger
  <1>19. Scripted(s) /\ script' = [script EXCEPT ![Out] = s]
    BY <1>3, <1>8, <1>15 DEF Reads
  <1>20. w'.flush = 0
    BY <1>1, <1>12
  <1>21. QED
    BY <1>0, <1>1, <1>12, <1>14, <1>16, <1>17, <1>18, <1>19, <1>20, OutputStep DEF Overwritten

(* A confirmed control-mode startup.                                       *)
LEMMA DetectedAction ==
  ASSUME WorkerInv, TmuxDetected
  PROVE  WorkerInv'
  <1> w \in WorkerState /\ ledger \in Ledger /\ WorkerType
    BY DEF WorkerInv, WorkerType
  <1>0. w.at = "select" /\ ~w.output /\ UNCHANGED queue
    BY DEF TmuxDetected, CanRead
  <1>1. Idle(Hnd) /\ w.flush = 0
    BY <1>0 DEF WorkerInv, FutureInv, LocalsInv
  <1>2. PICK n \in ReadSizes : \E pass \in 0 .. (w.withheld + n - 1) : \E o \in Filter(pass) :
          /\ Await(o.pushes, "takeover",
                   [w EXCEPT !.phase = o.phase, !.upload = FALSE, !.withheld = 0])
          /\ ledger' = [ledger EXCEPT !.due = @ - w.withheld + o.visible, !.reads = @ + 1]
    BY DEF TmuxDetected
  <1>3. PICK pass \in 0 .. (w.withheld + n - 1) : \E o \in Filter(pass) :
          /\ Await(o.pushes, "takeover",
                   [w EXCEPT !.phase = o.phase, !.upload = FALSE, !.withheld = 0])
          /\ ledger' = [ledger EXCEPT !.due = @ - w.withheld + o.visible, !.reads = @ + 1]
    BY <1>2
  <1>4. pass \in Nat
    BY WorkerActors DEF WorkerState
  <1>5. PICK o \in Filter(pass) :
          /\ Await(o.pushes, "takeover",
                   [w EXCEPT !.phase = o.phase, !.upload = FALSE, !.withheld = 0])
          /\ ledger' = [ledger EXCEPT !.due = @ - w.withheld + o.visible, !.reads = @ + 1]
    BY <1>3
  <1>6. o.visible \in 0 .. pass /\ o.phase \in {"WaitInitial", "Suppressing", "Normal"}
    BY <1>4, FilterPushes
  <1>7. PICK ph \in {"WaitInitial", "Suppressing", "Normal"}, v \in Nat :
          ph = o.phase /\ v = o.visible
    BY <1>4, <1>6
  <1>8. w' = [w EXCEPT !.phase = ph, !.upload = FALSE, !.withheld = 0,
                       !.at = "handler", !.then = "takeover"]
    BY <1>5, <1>7 DEF Await
  <1>9. /\ w' \in WorkerState /\ w'.at = "handler" /\ w'.output = w.output
        /\ w'.withheld = 0 /\ w'.flush = w.flush
    BY <1>8 DEF WorkerState
  <1>10. /\ ledger' \in Ledger /\ ledger'.lost = ledger.lost
         /\ ledger'.due = ledger.due + (o.visible + (w'.withheld - w.withheld))
    <2>1. ledger.due \in Int /\ ledger.reads \in Nat /\ w.withheld \in Nat
      BY DEF Ledger, WorkerState
    <2>2. PICK d \in Int, r \in Nat :
            d = ledger.due - w.withheld + v /\ r = ledger.reads + 1
      BY <1>7, <2>1
    <2>3. ledger' = [ledger EXCEPT !.due = d, !.reads = r]
      BY <1>5, <1>7, <2>2
    <2>4. ledger' \in Ledger /\ ledger'.lost = ledger.lost /\ ledger'.due = d
      BY <2>3 DEF Ledger
    <2>5. d = ledger.due + (v + (0 - w.withheld))
      BY <2>1, <2>2
    <2>6. QED
      BY <1>7, <1>9, <2>4, <2>5
  <1>11. script' = [script EXCEPT ![Hnd] = o.pushes]
    BY <1>5 DEF Await
  <1>12. QED
    BY <1>0, <1>1, <1>4, <1>9, <1>10, <1>11, ShowStep

(* The takeover ends.                                                      *)
LEMMA TakeoverAction ==
  ASSUME WorkerInv, w.at = "handler", w.then = "takeover", Idle(Hnd), Takeover, UNCHANGED queue
  PROVE  WorkerInv'
  <1> w \in WorkerState /\ ledger \in Ledger /\ WorkerType
    BY DEF WorkerInv, WorkerType
  <1>1. w.flush = 0
    BY DEF WorkerInv, LocalsInv
  <1>2. ASSUME NEW n \in EarlySizes, NEW o \in Filter(n),
               Await(o.pushes, "loop",
                     [w EXCEPT !.send = "none", !.resize = FALSE, !.phase = o.phase,
                               !.armed = FALSE, !.quiet = TRUE]),
               ledger' = [ledger EXCEPT !.due = @ + o.visible]
        PROVE  WorkerInv'
    <2>1. n \in Nat
      BY WorkerActors
    <2>2. o.visible \in 0 .. n /\ o.phase \in {"WaitInitial", "Suppressing", "Normal"}
      BY <2>1, FilterPushes
    <2>3. PICK ph \in {"WaitInitial", "Suppressing", "Normal"}, v \in Nat :
            ph = o.phase /\ v = o.visible
      BY <2>1, <2>2
    <2>4. w' = [w EXCEPT !.send = "none", !.resize = FALSE, !.phase = ph,
                         !.armed = FALSE, !.quiet = TRUE, !.at = "handler", !.then = "loop"]
      BY <1>2, <2>3 DEF Await
    <2>5. w' \in WorkerState
      BY <2>4 DEF WorkerState
    <2>6. /\ w'.at = "handler" /\ w'.then = "loop" /\ w'.output = w.output
          /\ w'.withheld = w.withheld /\ w'.flush = w.flush
      BY <2>4 DEF WorkerState
    <2>7. /\ ledger' \in Ledger /\ ledger'.lost = ledger.lost
          /\ ledger'.due = ledger.due + (o.visible + (w'.withheld - w.withheld))
      <3>1. ledger.due \in Int /\ w.withheld \in Nat
        BY DEF Ledger, WorkerState
      <3>2. PICK d \in Int : d = ledger.due + v
        BY <2>3, <3>1
      <3>3. ledger' = [ledger EXCEPT !.due = d]
        BY <1>2, <2>3, <3>2
      <3>4. ledger' \in Ledger /\ ledger'.lost = ledger.lost /\ ledger'.due = d
        BY <3>3 DEF Ledger
      <3>5. d = ledger.due + (v + (w.withheld - w.withheld))
        BY <3>1, <3>2
      <3>6. QED
        BY <2>3, <2>6, <3>4, <3>5
    <2>8. script' = [script EXCEPT ![Hnd] = o.pushes]
      BY <1>2 DEF Await
    <2>9. QED
      BY <1>1, <2>1, <2>5, <2>6, <2>7, <2>8, ShowStep
  <1>3. CASE /\ Await(<<Other>>, "break", [w EXCEPT !.send = "none", !.resize = FALSE])
             /\ UNCHANGED ledger
    <2>1. w' = [w EXCEPT !.send = "none", !.resize = FALSE, !.at = "handler", !.then = "break"]
      BY <1>3 DEF Await
    <2>2. /\ w' \in WorkerState /\ w'.at = "handler" /\ w'.then = "break"
          /\ w'.output = w.output /\ w'.withheld = w.withheld /\ w'.flush = w.flush
      BY <2>1 DEF WorkerState
    <2>3. script' = [script EXCEPT ![Hnd] = <<Other>>]
      BY <1>3 DEF Await
    <2>4. QED
      BY <1>1, <1>3, <2>2, <2>3, ReportStep
  <1>4. QED
    BY <1>2, <1>3 DEF Takeover

(* A handler whose pushes have returned.                                   *)
LEMMA HandlerAction ==
  ASSUME WorkerInv, HandlerReturns
  PROVE  WorkerInv'
  <1> w \in WorkerState /\ ledger \in Ledger
    BY DEF WorkerInv, WorkerType
  <1>1. w.at = "handler" /\ Idle(Hnd)
    BY DEF HandlerReturns, Completed, Idle
  <1>2. CASE /\ w.then \in {"loop", "break"}
             /\ w' = [w EXCEPT !.at = IF w.then = "break" THEN "exit" ELSE "top"]
             /\ UNCHANGED <<queue, script, ledger>>
    <2>1. PICK a \in {"exit", "top"} : w' = [w EXCEPT !.at = a]
      BY <1>2
    <2>2. /\ w' \in WorkerState /\ w'.at = a /\ w'.output = w.output
          /\ w'.withheld = w.withheld /\ w'.flush = w.flush
      BY <2>1 DEF WorkerState
    <2>3. w.flush = 0 /\ (~w'.output => Idle(Out))
      BY <1>2, <2>2 DEF WorkerInv, LocalsInv, FutureInv
    <2>4. QED
      BY <1>1, <1>2, <2>2, <2>3, LocalStep
  <1>3. CASE w.then = "flush" /\ Flush(w.flush, w)
    <2>1. PICK n \in Nat, l \in WorkerState : n = w.flush /\ l = w
      BY DEF WorkerState
    <2>2. Flush(n, l)
      <3>1. Filter(w.flush) = Filter(n)
        BY <2>1 DEF Filter
      <3>2. QED
        BY <1>3, <2>1, <3>1 DEF Flush
    <2>3. l.withheld + n = w.withheld + w.flush
      BY <2>1
    <2>4. QED
      BY <1>1, <2>2, <2>3, FlushStep
  <1>4. CASE w.then = "takeover" /\ Takeover /\ UNCHANGED queue
    BY <1>1, <1>4, TakeoverAction
  <1>5. QED
    BY <1>2, <1>3, <1>4 DEF HandlerReturns

(* run_deferred_ssh_worker.                                                *)
LEMMA DeferredAction ==
  ASSUME WorkerInv, Deferred
  PROVE  WorkerInv'
  <1> w \in WorkerState /\ ledger \in Ledger
    BY DEF WorkerInv, WorkerType
  <1>1. w.at = "deferred" /\ UNCHANGED queue
    BY DEF Deferred
  <1>2. Idle(Hnd) /\ ~w.output /\ Idle(Out) /\ ledger.due = 0 /\ w.flush = 0
    BY <1>1 DEF WorkerInv, FutureInv, LocalsInv
  <1>3. CASE w' = [w EXCEPT !.at = "exit"] /\ UNCHANGED <<script, ledger>>
    <2>1. /\ w' \in WorkerState /\ w'.at = "exit" /\ w'.output = w.output
          /\ w'.withheld = w.withheld /\ w'.flush = w.flush
      BY <1>3 DEF WorkerState
    <2>2. QED
      BY <1>1, <1>2, <1>3, <2>1, LocalStep
  <1>4. CASE /\ w' = [w EXCEPT !.writes = @ + 1]
             /\ ledger' = [ledger EXCEPT !.inputs = @ + 1]
             /\ UNCHANGED script
    <2>1. /\ w' \in WorkerState /\ w'.at = w.at /\ w'.output = w.output
          /\ w'.withheld = w.withheld /\ w'.flush = w.flush
      BY <1>4 DEF WorkerState
    <2>2. ledger' \in Ledger /\ ledger'.due = ledger.due /\ ledger'.lost = ledger.lost
      BY <1>4 DEF Ledger
    <2>3. QED
      BY <1>1, <1>2, <1>4, <2>1, <2>2, LocalStep
  <1>5. ASSUME NEW early \in EarlySizes, NEW notice \in Preceding,
               Await(<<Other>> \o notice \o Output(early), "loop", w),
               ledger' = [ledger EXCEPT !.due = early]
        PROVE  WorkerInv'
    <2>1. early \in Nat
      BY WorkerActors
    <2>2. PICK t \in Seq({Other}) : t = <<Other>> \o notice
      BY ShortScripts
    <2>3. PICK s : s = t \o Output(early)
      OBVIOUS
    <2>4. Scripted(s) /\ ScriptBytes(s) = early
      BY <2>1, <2>3, ScriptOf
    <2>5. script' = [script EXCEPT ![Hnd] = s] /\ w' = [w EXCEPT !.at = "handler", !.then = "loop"]
      BY <1>5, <2>2, <2>3 DEF Await
    <2>6. /\ w' \in WorkerState /\ w'.at = "handler" /\ w'.then = "loop"
          /\ w'.output = w.output /\ w'.withheld = w.withheld /\ w'.flush = w.flush
      BY <2>5 DEF WorkerState
    <2>7. ledger' \in Ledger /\ ledger'.due = early /\ ledger'.lost = ledger.lost
      BY <1>5, <2>1 DEF Ledger
    <2>8. ledger'.due - ledger.due =
            ScriptBytes(s) + ((w'.withheld + w'.flush) - (w.withheld + w.flush))
      <3>1. w.withheld \in Nat /\ w.flush \in Nat
        BY DEF WorkerState
      <3>2. (w'.withheld + w'.flush) - (w.withheld + w.flush) = 0
        BY <2>6, <3>1
      <3>3. QED
        BY <1>2, <2>1, <2>4, <2>7, <3>2
    <2>9. QED
      BY <1>1, <1>2, <2>4, <2>5, <2>6, <2>7, <2>8, AwaitStep
  <1>6. CASE Await(<<Other>>, "break", w) /\ UNCHANGED ledger
    <2>1. /\ w' = [w EXCEPT !.at = "handler", !.then = "break"]
          /\ script' = [script EXCEPT ![Hnd] = <<Other>>]
      BY <1>6 DEF Await
    <2>2. /\ w' \in WorkerState /\ w'.at = "handler" /\ w'.then = "break"
          /\ w'.output = w.output /\ w'.withheld = w.withheld /\ w'.flush = w.flush
      BY <2>1 DEF WorkerState
    <2>3. QED
      BY <1>1, <1>2, <1>6, <2>1, <2>2, ReportStep
  <1>7. QED
    BY <1>3, <1>4, <1>5, <1>6 DEF Deferred

(* The other threads: readers of other sessions, the pump, notifications,  *)
(* and the thread that closes the session.                                 *)
LEMMA OtherActions ==
  ASSUME WorkerInv,
         \/ Others
         \/ \E f \in Futures : Notify(f) /\ UNCHANGED <<w, script, stopped, attempt, closing, ledger>>
         \/ \E m \in Managers : Close(m) /\ UNCHANGED <<w, script, attempt, ledger>>
         \/ CancelAttempt
         \/ UNCHANGED all
  PROVE  WorkerInv'
  <1> QueueInv
    BY DEF WorkerInv
  <1> USE WorkerNames
  <1>1. UNCHANGED <<w, script, ledger>>
    BY DEF Others, ReaderRuns, PumpDrains, Notifies, task, CancelAttempt, all
  <1>2. ASSUME NEW p \in Producers \ Futures,
               ProducerStep(p) \/ \E z \in Sizes : Push(p, "Output", z)
        PROVE  WorkerInv'
    <2>1. \A f \in Futures : Elsewhere(f)
      BY <1>2 DEF Elsewhere
    <2>2. QueueInv'
      <3>1. CASE ProducerStep(p)
        BY <3>1, ProducerInv, ProducerType DEF QueueInv
      <3>2. CASE \E z \in Sizes : Push(p, "Output", z)
        BY <3>2, PushInv, QueueLimits
      <3>3. QED
        BY <1>2, <3>1, <3>2
    <2>3. UNCHANGED <<closed, cancelled_sessions>>
      BY <1>2 DEF ProducerStep, AcquireTurn, PushChunk, PushOther, ReleaseTurn, Push, inner
    <2>4. QED
      BY <1>1, <2>1, <2>2, <2>3, ElsewhereStep DEF Accepts
  <1>3. ASSUME NEW a \in Actors, Notify(a) PROVE WorkerInv'
    <2>1. \A f \in Futures : Elsewhere(f)
      BY <1>3 DEF Elsewhere
    <2>2. QueueInv'
      BY <1>3, NotifyInv, NotifyType DEF QueueInv
    <2>3. UNCHANGED <<closed, cancelled_sessions>>
      BY <1>3 DEF Notify, inner
    <2>4. QED
      BY <1>1, <2>1, <2>2, <2>3, ElsewhereStep DEF Accepts
  <1>4. ASSUME NEW c \in Consumers, DrainSome(c) PROVE WorkerInv'
    <2>1. \A f \in Futures : Elsewhere(f)
      BY <1>4 DEF Elsewhere
    <2>2. QueueInv'
      BY <1>4, DrainInv, DrainType DEF QueueInv, DrainSome
    <2>3. UNCHANGED <<closed, cancelled_sessions>>
      BY <1>4 DEF DrainSome, Drain
    <2>4. QED
      BY <1>1, <2>1, <2>2, <2>3, ElsewhereStep DEF Accepts
  <1>5. ASSUME NEW m \in Managers, cancel_session(m, Host) PROVE WorkerInv'
    <2>1. \A f \in Futures : Elsewhere(f)
      BY <1>5 DEF Elsewhere
    <2>2. QueueInv'
      <3>1. ManagerStep(m)
        BY <1>5 DEF ManagerStep
      <3>2. QED
        BY <3>1, ManagerInv, ManagerType DEF QueueInv
    <2>3. ~Accepts(Host)'
      BY <1>5 DEF cancel_session, Accepts
    <2>4. QED
      BY <1>1, <2>1, <2>2, <2>3, ElsewhereStep
  <1>6. CASE UNCHANGED queue
    <2>1. \A f \in Futures : Elsewhere(f)
      BY <1>6 DEF Elsewhere
    <2>2. QueueInv'
      BY <1>6, NextInv DEF queue
    <2>3. UNCHANGED <<closed, cancelled_sessions>>
      BY <1>6 DEF queue, vars, inner
    <2>4. QED
      BY <1>1, <2>1, <2>2, <2>3, ElsewhereStep DEF Accepts
  <1>7. \/ \E p \in Producers \ Futures : ProducerStep(p) \/ \E z \in Sizes : Push(p, "Output", z)
        \/ \E a \in Actors : Notify(a)
        \/ \E c \in Consumers : DrainSome(c)
        \/ \E m \in Managers : cancel_session(m, Host)
        \/ UNCHANGED queue
    BY DEF Others, ReaderRuns, PumpDrains, Notifies, Close, CancelAttempt, all, queue
  <1>8. QED
    BY <1>2, <1>3, <1>4, <1>5, <1>6, <1>7

-----------------------------------------------------------------------------
(* The invariant holds initially: nothing was read and no push runs.       *)
LEMMA WorkerInitInv == WorkerInit => WorkerInv
  <1> SUFFICES ASSUME WorkerInit PROVE WorkerInv
    OBVIOUS
  <1>1. QueueInv
    BY InitInv DEF WorkerInit
  <1>2. PICK ph \in {"WaitInitial", "Normal"}, pl \in {"set", "none"} :
          w = [at |-> "deferred", then |-> "loop", output |-> FALSE, send |-> "none",
               resize |-> FALSE, writes |-> 0, phase |-> ph,
               integration |-> Integration, upload |-> FALSE, post_login |-> pl,
               armed |-> FALSE, quiet |-> TRUE, withheld |-> 0,
               fresh |-> FALSE, flush |-> 0]
    BY DEF WorkerInit
  <1>3. w \in WorkerState
    BY <1>2, WorkerActors DEF WorkerState
  <1>4. w.at = "deferred" /\ ~w.output /\ w.flush = 0 /\ w.withheld = 0
    BY <1>2
  <1>5. \A f \in Futures : script[f] = <<>> /\ script \in [Futures -> Seq(Item)]
    BY DEF WorkerInit
  <1>6. ledger \in Ledger /\ ledger.due = 0 /\ ledger.lost = 0
    BY DEF WorkerInit, Ledger
  <1>7. WorkerType /\ ScriptInv
    BY <1>3, <1>5, <1>6, ScriptTypes, WorkerNames DEF WorkerType, ScriptInv
  <1>8. \A f \in Futures : /\ producer[f].pc = "idle" /\ producer[f].left = 0
                           /\ sent[f] = 0 /\ Idle(f)
    BY <1>5, WorkerNames DEF WorkerInit, Init, Idle
  <1>9. FutureInv /\ LocalsInv
    BY <1>4, <1>6, <1>8, WorkerNames DEF FutureInv, LocalsInv
  <1>10. BytesAccounted
    <2>1. Unsent(Out) = 0 /\ Unsent(Hnd) = 0
      BY <1>1, <1>8, <1>9, IdleCredit, WorkerNames
    <2>2. QED
      BY <1>4, <1>6, <1>8, <2>1, WorkerNames DEF BytesAccounted, Delivered
  <1>11. QED
    BY <1>1, <1>7, <1>9, <1>10 DEF WorkerInv

(* Every step of the worker and of the threads beside it keeps it.         *)
LEMMA WorkerNextInv == WorkerInv /\ [WorkerNext]_all => WorkerInv'
  <1> SUFFICES ASSUME WorkerInv, [WorkerNext]_all PROVE WorkerInv'
    OBVIOUS
  <1>1. CASE Deferred
    BY <1>1, DeferredAction
  <1>2. CASE Run
    <2>1. CASE LoopTop
      BY <2>1, BranchActions
    <2>2. CASE w.at = "poll" /\ RunFuture(Out)
      BY <2>2, RunStep, WorkerNames
    <2>3. CASE PollReturns
      BY <2>3, PollActions
    <2>4. CASE w.at = "handler" /\ RunFuture(Hnd)
      BY <2>4, RunStep, WorkerNames
    <2>5. CASE HandlerReturns
      BY <2>5, HandlerAction
    <2>6. CASE Exit
      BY <2>6, ExitStep
    <2>7. CASE \E f \in Futures :
                 Notify(f) /\ UNCHANGED <<w, script, stopped, attempt, closing, ledger>>
      BY <2>7, OtherActions
    <2>8. QED
      BY <1>2, <2>1, <2>2, <2>3, <2>4, <2>5, <2>6, <2>7 DEF Run
  <1>3. CASE PollOutput
    BY <1>3, PollActions
  <1>4. CASE Timers
    BY <1>4, BranchActions, CandidateAction, ReportActions DEF Timers
  <1>5. CASE Channel
    BY <1>5, ReadAction, DetectedAction, ReportActions, BranchActions DEF Channel
  <1>6. CASE Commands
    BY <1>6, BranchActions DEF Commands
  <1>7. CASE \/ Others \/ CancelAttempt \/ UNCHANGED all
             \/ \E m \in Managers : Close(m) /\ UNCHANGED <<w, script, attempt, ledger>>
    BY <1>7, OtherActions
  <1>8. QED
    BY <1>1, <1>2, <1>3, <1>4, <1>5, <1>6, <1>7 DEF WorkerNext

(* WorkerInv holds in every reachable state of the worker.                 *)
LEMMA WorkerInvariant == WorkerSpec => []WorkerInv
  BY WorkerInitInv, WorkerNextInv, PTL DEF WorkerSpec

(* A worker that has ended, whichever of its exits it took and whatever    *)
(* its pushes were doing, holds no turn of the queue.                      *)
THEOREM WorkerLeavesNoTurn == WorkerSpec => []TurnReturned
  <1>1. WorkerInv => TurnReturned
    <2> SUFFICES ASSUME WorkerInv, w.at = "ended", producer_active
                 PROVE  \E p \in Producers \ Futures : Holds(p)
      BY DEF TurnReturned
    <2>1. PICK p \in Producers : Holds(p)
      BY DEF WorkerInv, QueueInv, TurnExclusive
    <2>2. Idle(Out) /\ Idle(Hnd)
      BY DEF WorkerInv, FutureInv
    <2>3. p \notin Futures
      BY <2>1, <2>2 DEF Idle, Holds, Futures
    <2>4. QED
      BY <2>1, <2>3
  <1>2. QED
    BY <1>1, WorkerInvariant, PTL

(* While the session is open, every byte read off the channel was pushed,  *)
(* is about to be, is withheld, was hidden on purpose, or belonged to a    *)
(* pending_output that was overwritten.                                    *)
THEOREM EveryByteIsAccountedFor == WorkerSpec => []BytesAccounted
  BY WorkerInvariant, PTL DEF WorkerInv

(* The queue's own guarantees survive the worker: pushes that it drives,   *)
(* overwrites and drops share and leak no turn, and lose no wake-up.       *)
THEOREM QueueGuaranteesHold == WorkerSpec => [](TurnExclusive /\ NoLostWakeup /\ Hysteresis)
  BY WorkerInvariant, PTL DEF WorkerInv, QueueInv
=============================================================================
