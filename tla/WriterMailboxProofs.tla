------------------------- MODULE WriterMailboxProofs -------------------------
(* Proofs about WriterMailbox, for every plan of writes and every limit.   *)
EXTENDS WriterMailbox, FiniteSetTheorems, TLAPS

-----------------------------------------------------------------------------
(* The inductive invariant: types (MailboxType), what the writer has in    *)
(* hand (HandInv), where the queue and the wire stand in the sequence of   *)
(* accepted commands (OrderInv), which commands were accepted (SourceInv), *)
(* the budget (BudgetInv), and that a keepalive is left to send (IdleInv). *)

Holding == {"got", "write", "drop"}

MailboxType ==
  /\ queue \in Seq(Commands) /\ accepted \in Seq(Commands) /\ written \in Seq(Commands)
  /\ bytes \in Int /\ items \in Int /\ stopped \in BOOLEAN /\ hand \in SUBSET Commands
  /\ writer \in {"loop", "receive", "parked", "keepalive", "release", "finish", "done"} \cup Holding
  /\ sender \in [Threads -> [pc : {"send", "wait", "end"}, next : Nat \ {0}]]
  /\ nops \in 0 .. MaxNops

HandInv ==
  /\ writer \in Holding => hand = {accepted[Len(written) + 1]}
  /\ writer = "release" => Len(written) > 0 /\ hand = {accepted[Len(written)]}
  /\ writer \notin Holding \cup {"release"} => hand = {}

\* How many of the accepted commands left the queue.
Taken == Len(written) + (IF writer \in Holding THEN 1 ELSE 0)

OrderInv ==
  /\ Taken + Len(queue) <= Len(accepted)
  /\ ~stopped /\ writer \notin {"finish", "done"} => Taken + Len(queue) = Len(accepted)
  /\ \A i \in 1 .. Len(written) : written[i] = accepted[i]
  /\ \A i \in 1 .. Len(queue) : queue[i] = accepted[Len(accepted) - Len(queue) + i]
  /\ stopped => queue = <<>>

\* Has the sender of x gone past it?
Past(x) == \/ x[1] = NopSender /\ x[2] <= nops
           \/ x[1] \in Threads /\ x[2] < sender[x[1]].next

SourceInv ==
  /\ \A p \in 1 .. Len(accepted) : Past(accepted[p])
  /\ \A p, q \in 1 .. Len(accepted) :
       p < q /\ accepted[p][1] = accepted[q][1] => accepted[p][2] < accepted[q][2]
  /\ \A t \in Transfers : \A i \in 1 .. (sender[t].next - 1) :
       \E p \in 1 .. Len(accepted) : accepted[p] = <<t, i>>

BudgetInv == Counters /\ bytes <= ByteLimit

IdleInv == writer = "keepalive" => nops < MaxNops

MailboxInv == /\ MailboxType /\ HandInv /\ OrderInv /\ SourceInv
              /\ BudgetInv /\ IdleInv /\ WriterIsWoken

-----------------------------------------------------------------------------
(* Commands, and what they cost.                                           *)

(* A write of a plan, or a keepalive, is a command with its cost.          *)
LEMMA PlannedCommand ==
  /\ \A t \in Threads : \A i \in 1 .. Len(Plan[t]) :
       <<t, i>> \in Commands /\ Cost[<<t, i>>] = Plan[t][i]
  /\ \A i \in 1 .. MaxNops : <<NopSender, i>> \in Commands
  /\ \A x \in Commands : x = <<x[1], x[2]>> /\ x[2] \in Nat /\ Cost[x] \in Nat
  <1>1. ASSUME NEW t \in Threads, NEW i \in 1 .. Len(Plan[t])
        PROVE  <<t, i>> \in Commands /\ Cost[<<t, i>>] = Plan[t][i]
    <2>1. <<t, i>> \in Commands
      <3>1. <<t, i>> \in {t} \X (1 .. Len(Plan[t]))
        OBVIOUS
      <3>2. {t} \X (1 .. Len(Plan[t])) \in {{u} \X (1 .. Len(Plan[u])) : u \in Threads}
        OBVIOUS
      <3>3. QED
        BY <3>1, <3>2 DEF Commands
    <2>2. t # NopSender
      BY MailboxConstants
    <2>3. QED
      BY <2>1, <2>2 DEF Cost
  <1>2. ASSUME NEW i \in 1 .. MaxNops PROVE <<NopSender, i>> \in Commands
    <2>1. <<NopSender, i>> \in {NopSender} \X (1 .. MaxNops)
      OBVIOUS
    <2>2. QED
      BY <2>1 DEF Commands
  <1>3. ASSUME NEW x \in Commands
        PROVE  x = <<x[1], x[2]>> /\ x[2] \in Nat /\ Cost[x] \in Nat
    <2>1. CASE \E t \in Threads : x \in {t} \X (1 .. Len(Plan[t]))
      <3>1. PICK t \in Threads : x \in {t} \X (1 .. Len(Plan[t]))
        BY <2>1
      <3>2. PICK i \in 1 .. Len(Plan[t]) : x = <<t, i>>
        BY <3>1
      <3>3. Plan[t] \in Seq(Nat)
        BY MailboxConstants
      <3>4. Plan[t][i] \in Nat /\ i \in Nat
        BY <3>3
      <3>5. QED
        BY <1>1, <3>2, <3>4
    <2>2. CASE x \in {NopSender} \X (1 .. MaxNops)
      <3>1. PICK i \in 1 .. MaxNops : x = <<NopSender, i>>
        BY <2>2
      <3>2. Cost[x] = NopCost
        BY <3>1 DEF Cost
      <3>3. QED
        BY <3>1, <3>2, MailboxConstants
    <2>3. \/ x \in {NopSender} \X (1 .. MaxNops)
          \/ \E U \in {{u} \X (1 .. Len(Plan[u])) : u \in Threads} : x \in U
      BY DEF Commands
    <2>4. QED
      BY <2>1, <2>2, <2>3
  <1>4. QED
    BY <1>1, <1>2, <1>3

(* Commands are counted from one.                                          *)
LEMMA PositiveIndex ==
  ASSUME NEW x \in Commands
  PROVE  x[2] \in Nat /\ x[2] > 0
  <1>1. \/ x \in {NopSender} \X (1 .. MaxNops)
        \/ \E U \in {{u} \X (1 .. Len(Plan[u])) : u \in Threads} : x \in U
    BY DEF Commands
  <1>2. QED
    BY <1>1

(* The bytes of one command.                                               *)
LEMMA CommandBytes ==
  ASSUME NEW x \in Commands
  PROVE  /\ IsFiniteSet({x} \X (1 .. Cost[x]))
         /\ Cardinality({x} \X (1 .. Cost[x])) = Cost[x]
  <1>1. Cost[x] \in Nat
    BY PlannedCommand
  <1>2. IsFiniteSet({x}) /\ Cardinality({x}) = 1
    BY FS_Singleton
  <1>3. IsFiniteSet(1 .. Cost[x]) /\ Cardinality(1 .. Cost[x]) = Cost[x]
    BY <1>1, FS_Interval
  <1>4. /\ IsFiniteSet({x} \X (1 .. Cost[x]))
        /\ Cardinality({x} \X (1 .. Cost[x])) = 1 * Cardinality(1 .. Cost[x])
    BY <1>2, <1>3, FS_Product
  <1>5. QED
    BY <1>1, <1>3, <1>4

(* InputBudget counts with the same operators.                             *)
LEMMA BudgetCounts ==
  ASSUME NEW S
  PROVE  /\ Budget!Cardinality(S) = Cardinality(S)
         /\ Budget!Load(S) = Cardinality(Budget!BytesOf(S))
  BY DEF Budget!Load, Budget!Cardinality, Cardinality

(* A finite set of commands has a finite load, and disjoint sets add up.   *)
LEMMA LoadType ==
  ASSUME NEW S \in SUBSET Commands, IsFiniteSet(S)
  PROVE  IsFiniteSet(Budget!BytesOf(S)) /\ Budget!Load(S) \in Nat
  <1> DEFINE f == [x \in S |-> {x} \X (1 .. Cost[x])]
             T == {f[x] : x \in S}
  <1>1. f \in Surjection(S, T)
    BY DEF Surjection
  <1>2. IsFiniteSet(T)
    BY <1>1, FS_Surjection
  <1>3. \A U \in T : IsFiniteSet(U)
    BY CommandBytes
  <1>4. Budget!BytesOf(S) = UNION T
    BY DEF Budget!BytesOf
  <1>5. IsFiniteSet(Budget!BytesOf(S))
    BY <1>2, <1>3, <1>4, FS_UNION
  <1>6. QED
    BY <1>5, FS_CardinalityType, BudgetCounts

LEMMA LoadSum ==
  ASSUME NEW S \in SUBSET Commands, NEW T \in SUBSET Commands,
         IsFiniteSet(S), IsFiniteSet(T), S \cap T = {}
  PROVE  Budget!Load(S \cup T) = Budget!Load(S) + Budget!Load(T)
  <1> DEFINE BS == Budget!BytesOf(S)
             BT == Budget!BytesOf(T)
  <1>1. IsFiniteSet(BS) /\ IsFiniteSet(BT)
    BY LoadType
  <1>2. Budget!BytesOf(S \cup T) = BS \cup BT
    BY DEF Budget!BytesOf
  <1>3. BS \cap BT = {}
    <2>1. \A b \in BS : b[1] \in S
      BY DEF Budget!BytesOf
    <2>2. \A b \in BT : b[1] \in T
      BY DEF Budget!BytesOf
    <2>3. QED
      BY <2>1, <2>2
  <1> HIDE DEF BS, BT
  <1>4. Cardinality(BS \cup BT) = Cardinality(BS) + Cardinality(BT) - Cardinality({})
    BY <1>1, <1>3, FS_Union
  <1>5. /\ Cardinality({}) = 0 /\ Cardinality(BS) \in Nat /\ Cardinality(BT) \in Nat
    BY <1>1, FS_EmptySet, FS_CardinalityType
  <1>6. Cardinality(BS \cup BT) = Cardinality(BS) + Cardinality(BT)
    BY <1>4, <1>5
  <1>7. QED
    BY <1>2, <1>6, BudgetCounts DEF BS, BT

LEMMA LoadOne ==
  ASSUME NEW x \in Commands
  PROVE  Budget!Load({x}) = Cost[x]
  <1>1. Budget!BytesOf({x}) = {x} \X (1 .. Cost[x])
    BY DEF Budget!BytesOf
  <1>2. QED
    BY <1>1, CommandBytes, BudgetCounts

(* A sequence without repetition has as many elements as positions.        *)
LEMMA DistinctSeq ==
  ASSUME NEW s \in Seq(Commands), \A i, j \in 1 .. Len(s) : i # j => s[i] # s[j]
  PROVE  /\ IsFiniteSet(ToSet(s)) /\ Cardinality(ToSet(s)) = Len(s)
         /\ ToSet(s) = {s[i] : i \in 1 .. Len(s)} /\ ToSet(s) \in SUBSET Commands
  <1>1. ToSet(s) = {s[i] : i \in 1 .. Len(s)} /\ Len(s) \in Nat
    BY DEF ToSet
  <1>2. ToSet(s) \in SUBSET Commands
    BY <1>1
  <1>3. s \in Bijection(1 .. Len(s), ToSet(s))
    BY <1>1 DEF Bijection, Injection, Surjection, IsInjective
  <1>4. ExistsBijection(1 .. Len(s), ToSet(s))
    BY <1>3 DEF ExistsBijection
  <1>5. Cardinality(ToSet(s)) = Len(s)
    BY <1>1, <1>4, FS_CountingElements
  <1>6. IsFiniteSet(ToSet(s))
    BY <1>1, <1>4, FS_NatBijection
  <1>7. QED
    BY <1>1, <1>2, <1>5, <1>6

LEMMA SingletonSeq ==
  ASSUME NEW x
  PROVE  SetToSeq({x}) = <<x>>
  <1>1. Cardinality({x}) = 1
    BY FS_Singleton
  <1>2. \A f \in [1 .. 1 -> {x}] : f = <<x>> /\ IsInjective(f)
    BY DEF IsInjective
  <1>3. <<x>> \in [1 .. 1 -> {x}] /\ IsInjective(<<x>>)
    BY DEF IsInjective
  <1>4. QED
    BY <1>1, <1>2, <1>3 DEF SetToSeq

-----------------------------------------------------------------------------
(* What is charged.                                                        *)

(* No command is accepted twice; so the queue holds each command once, and *)
(* never the one in the writer's hand.                                     *)
LEMMA ChargedOnce ==
  ASSUME MailboxType, HandInv, OrderInv, SourceInv
  PROVE  /\ \A p, q \in 1 .. Len(accepted) : p # q => accepted[p] # accepted[q]
         /\ IsFiniteSet(ToSet(queue)) /\ Cardinality(ToSet(queue)) = Len(queue)
         /\ ToSet(queue) = {queue[i] : i \in 1 .. Len(queue)}
         /\ ToSet(queue) \in SUBSET Commands
         /\ IsFiniteSet(hand) /\ hand \cap ToSet(queue) = {}
         /\ \A x \in Charged : \E p \in 1 .. Len(accepted) : x = accepted[p]
  <1>1. /\ Len(accepted) \in Nat /\ Len(queue) \in Nat /\ Len(written) \in Nat
        /\ \A p \in 1 .. Len(accepted) : accepted[p] \in Commands
    BY DEF MailboxType
  <1>2. ASSUME NEW p \in 1 .. Len(accepted), NEW q \in 1 .. Len(accepted), p < q
        PROVE  accepted[p] # accepted[q]
    <2>1. accepted[p][2] \in Nat
      BY <1>1, PlannedCommand
    <2>2. accepted[p][1] = accepted[q][1] => accepted[p][2] < accepted[q][2]
      BY <1>2 DEF SourceInv
    <2>3. QED
      BY <2>1, <2>2
  <1>3. \A p, q \in 1 .. Len(accepted) : p # q => accepted[p] # accepted[q]
    BY <1>1, <1>2
  <1>4. \A i \in 1 .. Len(queue) :
          /\ Len(accepted) - Len(queue) + i \in 1 .. Len(accepted)
          /\ queue[i] = accepted[Len(accepted) - Len(queue) + i]
    BY <1>1 DEF OrderInv, Taken
  <1>5. \A i, j \in 1 .. Len(queue) : i # j => queue[i] # queue[j]
    BY <1>1, <1>3, <1>4, SMTT(30)
  <1>6. /\ IsFiniteSet(ToSet(queue)) /\ Cardinality(ToSet(queue)) = Len(queue)
        /\ ToSet(queue) = {queue[i] : i \in 1 .. Len(queue)}
        /\ ToSet(queue) \in SUBSET Commands
    BY <1>5, DistinctSeq DEF MailboxType
  <1>7. ASSUME NEW x \in hand
        PROVE  \E p \in 1 .. Len(accepted) :
                 /\ x = accepted[p] /\ p <= Len(accepted) - Len(queue) /\ hand = {x}
    <2>1. CASE writer \in Holding
      <3>1. x = accepted[Len(written) + 1] /\ hand = {x}
        BY <2>1 DEF HandInv
      <3>2. Len(written) + 1 + Len(queue) <= Len(accepted)
        BY <1>1, <2>1 DEF OrderInv, Taken
      <3>3. QED
        BY <1>1, <3>1, <3>2
    <2>2. CASE writer = "release"
      <3>1. Len(written) > 0 /\ x = accepted[Len(written)] /\ hand = {x}
        BY <2>2 DEF HandInv
      <3>2. Len(written) + Len(queue) <= Len(accepted)
        BY <1>1, <2>2 DEF OrderInv, Taken, Holding
      <3>3. QED
        BY <1>1, <3>1, <3>2
    <2>3. QED
      BY <2>1, <2>2 DEF HandInv
  <1>8. IsFiniteSet(hand)
    <2>1. hand = {} \/ \E x \in hand : hand = {x}
      BY <1>7
    <2>2. IsFiniteSet({}) /\ \A x : IsFiniteSet({x})
      BY FS_EmptySet, FS_Singleton
    <2>3. QED
      BY <2>1, <2>2
  <1>9. hand \cap ToSet(queue) = {}
    <2>1. ASSUME NEW x \in hand, NEW i \in 1 .. Len(queue), x = queue[i] PROVE FALSE
      <3>1. PICK p \in 1 .. Len(accepted) : x = accepted[p] /\ p <= Len(accepted) - Len(queue)
        BY <1>7
      <3>2. p # Len(accepted) - Len(queue) + i
        BY <1>1, <3>1
      <3>3. QED
        BY <1>3, <1>4, <2>1, <3>1, <3>2
    <2>2. QED
      BY <1>6, <2>1
  <1>10. \A x \in Charged : \E p \in 1 .. Len(accepted) : x = accepted[p]
    BY <1>4, <1>6, <1>7, ZenonT(40) DEF Charged
  <1>11. QED
    BY <1>3, <1>6, <1>8, <1>9, <1>10

(* What is charged, split into what is queued and what is in hand.         *)
LEMMA ChargedSplit ==
  ASSUME MailboxType, HandInv, OrderInv, SourceInv
  PROVE  /\ IsFiniteSet(Charged) /\ Charged \in SUBSET Commands
         /\ Budget!Load(Charged) = Budget!Load(ToSet(queue)) + Budget!Load(hand)
         /\ Cardinality(Charged) = Len(queue) + Cardinality(hand)
         /\ Budget!Load(ToSet(queue)) \in Nat /\ Budget!Load(hand) \in Nat
         /\ Cardinality(hand) \in Nat /\ Len(queue) \in Nat
  <1>1. /\ IsFiniteSet(ToSet(queue)) /\ Cardinality(ToSet(queue)) = Len(queue)
        /\ ToSet(queue) \in SUBSET Commands
        /\ IsFiniteSet(hand) /\ hand \cap ToSet(queue) = {} /\ hand \in SUBSET Commands
    BY ChargedOnce DEF MailboxType
  <1>2. IsFiniteSet(Charged) /\ Charged \in SUBSET Commands
    BY <1>1, FS_Union DEF Charged
  <1>3. Budget!Load(Charged) = Budget!Load(ToSet(queue)) + Budget!Load(hand)
    BY <1>1, LoadSum DEF Charged
  <1>4. Cardinality(hand) \in Nat /\ Len(queue) \in Nat
    BY <1>1, FS_CardinalityType DEF MailboxType
  <1>5. Cardinality(Charged) = Len(queue) + Cardinality(hand)
    <2>1. Cardinality(ToSet(queue) \cup hand)
            = Cardinality(ToSet(queue)) + Cardinality(hand) - Cardinality(ToSet(queue) \cap hand)
      BY <1>1, FS_Union
    <2>2. ToSet(queue) \cap hand = {}
      BY <1>1
    <2>3. QED
      <3>1. Cardinality(ToSet(queue) \cap hand) = 0
        BY <2>2, FS_EmptySet
      <3>2. QED
        BY <1>1, <1>4, <2>1, <3>1 DEF Charged
  <1>6. QED
    BY <1>1, <1>2, <1>3, <1>4, <1>5, LoadType

-----------------------------------------------------------------------------
(* The steps.                                                              *)

BudgetStep == Budget!BudgetNext \/ UNCHANGED <<Charged, stopped>>

(* A new command is accepted by a sender that has not gone past it.        *)
LEMMA EnqueueInv ==
  ASSUME MailboxInv, NEW x \in Commands, Enqueue(x), UNCHANGED <<hand, written>>, ~Past(x),
         writer' \in Holding <=> writer \in Holding, writer' = "release" <=> writer = "release",
         writer \in {"finish", "done"} => writer' \in {"finish", "done"},
         Past(x)', \A y \in Commands : Past(y) => Past(y)',
         \A p \in 1 .. Len(accepted) : accepted[p][1] = x[1] => accepted[p][2] < x[2],
         \A t \in Transfers : \A i \in 1 .. (sender'[t].next - 1) :
           i \in 1 .. (sender[t].next - 1) \/ <<t, i>> = x
  PROVE  HandInv' /\ OrderInv' /\ SourceInv' /\ BudgetInv' /\ BudgetStep
         /\ queue' \in Seq(Commands) /\ accepted' \in Seq(Commands)
  <1>1. MailboxType /\ HandInv /\ OrderInv /\ SourceInv /\ BudgetInv
    BY DEF MailboxInv
  <1>2. /\ queue \in Seq(Commands) /\ accepted \in Seq(Commands) /\ written \in Seq(Commands)
        /\ Len(accepted) \in Nat /\ Len(queue) \in Nat /\ Len(written) \in Nat
    BY <1>1 DEF MailboxType
  <1>3. /\ ~stopped /\ stopped' = stopped
        /\ queue' = Append(queue, x) /\ accepted' = Append(accepted, x)
        /\ bytes' = bytes + Cost[x] /\ items' = items + 1 /\ ~Full(Cost[x])
    BY DEF Enqueue
  <1>4. /\ Len(queue') = Len(queue) + 1 /\ Len(accepted') = Len(accepted) + 1
        /\ \A i \in 1 .. Len(queue) : queue'[i] = queue[i]
        /\ \A i \in 1 .. Len(accepted) : accepted'[i] = accepted[i]
        /\ queue'[Len(queue) + 1] = x /\ accepted'[Len(accepted) + 1] = x
        /\ queue' \in Seq(Commands) /\ accepted' \in Seq(Commands)
    BY <1>2, <1>3
  <1>5. Taken' = Taken /\ Taken \in Nat /\ Taken >= Len(written)
        /\ (writer \in Holding => Taken = Len(written) + 1)
    BY <1>2 DEF Taken
  <1>6. OrderInv'
    <2>1. /\ Taken + Len(queue) <= Len(accepted)
          /\ writer \notin {"finish", "done"} => Taken + Len(queue) = Len(accepted)
          /\ \A i \in 1 .. Len(written) : written[i] = accepted[i]
          /\ \A i \in 1 .. Len(queue) : queue[i] = accepted[Len(accepted) - Len(queue) + i]
      BY <1>1, <1>3 DEF OrderInv
    <2>2. /\ (Taken + Len(queue) <= Len(accepted))'
          /\ writer' \notin {"finish", "done"} => (Taken + Len(queue) = Len(accepted))'
      BY <1>2, <1>4, <1>5, <2>1
    <2>3. \A i \in 1 .. Len(written) : written[i] = accepted'[i]
      BY <1>2, <1>4, <1>5, <2>1
    <2>4. ASSUME NEW i \in 1 .. Len(queue')
          PROVE  queue'[i] = accepted'[Len(accepted') - Len(queue') + i]
      <3>1. Len(accepted') - Len(queue') + i = Len(accepted) - Len(queue) + i
        BY <1>2, <1>4
      <3>2. CASE i \in 1 .. Len(queue)
        <4>1. Len(accepted) - Len(queue) + i \in 1 .. Len(accepted)
          BY <1>2, <1>5, <2>1, <3>2
        <4>2. QED
          BY <1>4, <2>1, <3>1, <3>2, <4>1
      <3>3. CASE i = Len(queue) + 1
        BY <1>2, <1>4, <3>1, <3>3
      <3>4. QED
        BY <1>2, <1>4, <3>2, <3>3
    <2>5. QED
      BY <1>3, <2>2, <2>3, <2>4 DEF OrderInv
  <1>7. HandInv'
    <2>1. Len(written) \in 0 .. Len(accepted)
          /\ (writer \in Holding => Len(written) + 1 \in 1 .. Len(accepted))
      BY <1>1, <1>2, <1>5 DEF OrderInv
    <2>2. CASE writer \in Holding
      <3>1. hand' = {accepted'[Len(written') + 1]}
        BY <1>1, <1>4, <2>1, <2>2 DEF HandInv
      <3>2. writer' \in Holding /\ writer' # "release"
        BY <2>2 DEF Holding
      <3>3. QED
        BY <3>1, <3>2 DEF HandInv
    <2>3. CASE writer = "release"
      <3>1. Len(written') > 0 /\ hand' = {accepted'[Len(written')]}
        BY <1>1, <1>2, <1>4, <2>1, <2>3 DEF HandInv
      <3>2. writer' = "release" /\ writer' \notin Holding
        BY <2>3 DEF Holding
      <3>3. QED
        BY <3>1, <3>2 DEF HandInv
    <2>4. CASE writer \notin Holding \cup {"release"}
      <3>1. hand' = {} /\ writer' \notin Holding \cup {"release"}
        BY <1>1, <2>4 DEF HandInv
      <3>2. QED
        BY <3>1 DEF HandInv
    <2>5. QED
      BY <2>2, <2>3, <2>4
  <1>8. SourceInv'
    <2>1. ASSUME NEW p \in 1 .. Len(accepted') PROVE Past(accepted[p])'
      <3>1. CASE p \in 1 .. Len(accepted)
        <4>1. Past(accepted[p]) /\ accepted[p] \in Commands /\ accepted'[p] = accepted[p]
          BY <1>1, <1>2, <1>4, <3>1 DEF SourceInv
        <4>2. QED
          BY <4>1 DEF Past
      <3>2. CASE p = Len(accepted) + 1
        BY <1>4, <3>2 DEF Past
      <3>3. QED
        BY <1>2, <1>4, <3>1, <3>2
    <2>2. ASSUME NEW p \in 1 .. Len(accepted'), NEW q \in 1 .. Len(accepted'), p < q,
                 accepted'[p][1] = accepted'[q][1]
          PROVE  accepted'[p][2] < accepted'[q][2]
      <3>1. p \in 1 .. Len(accepted)
        BY <1>2, <1>4, <2>2
      <3>2. CASE q \in 1 .. Len(accepted)
        BY <1>1, <1>4, <2>2, <3>1, <3>2 DEF SourceInv
      <3>3. CASE q = Len(accepted) + 1
        BY <1>4, <2>2, <3>1, <3>3
      <3>4. QED
        BY <1>2, <1>4, <3>2, <3>3
    <2>3. ASSUME NEW t \in Transfers, NEW i \in 1 .. (sender'[t].next - 1)
          PROVE  \E p \in 1 .. Len(accepted') : accepted'[p] = <<t, i>>
      <3>1. CASE i \in 1 .. (sender[t].next - 1)
        <4>1. PICK p \in 1 .. Len(accepted) : accepted[p] = <<t, i>>
          BY <1>1, <3>1 DEF SourceInv
        <4>2. p \in 1 .. Len(accepted') /\ accepted'[p] = <<t, i>>
          BY <1>2, <1>4, <4>1
        <4>3. QED
          BY <4>2
      <3>2. CASE <<t, i>> = x
        <4>1. Len(accepted) + 1 \in 1 .. Len(accepted')
          BY <1>2, <1>4
        <4>2. QED
          BY <1>4, <3>2, <4>1
      <3>3. QED
        BY <3>1, <3>2
    <2>4. QED
      BY <2>1, <2>2, <2>3 DEF SourceInv
  <1>9. Charged' = Charged \cup {x} /\ x \notin Charged
    <2>1. ToSet(queue) = {queue[i] : i \in 1 .. Len(queue)}
      BY <1>1, ChargedOnce
    <2>2. ToSet(queue)' = {queue'[i] : i \in 1 .. Len(queue')}
      BY <1>4 DEF ToSet
    <2>3. ToSet(queue)' = ToSet(queue) \cup {x}
      <3>1. ASSUME NEW i \in 1 .. Len(queue') PROVE queue'[i] \in ToSet(queue) \cup {x}
        <4>1. i \in 1 .. Len(queue) \/ i = Len(queue) + 1
          BY <1>2, <1>4
        <4>2. QED
          BY <1>4, <2>1, <4>1
      <3>2. ASSUME NEW i \in 1 .. Len(queue) PROVE queue[i] \in ToSet(queue)'
        <4>1. i \in 1 .. Len(queue') /\ queue'[i] = queue[i]
          BY <1>2, <1>4
        <4>2. QED
          BY <2>2, <4>1
      <3>3. x \in ToSet(queue)'
        <4>1. Len(queue) + 1 \in 1 .. Len(queue')
          BY <1>2, <1>4
        <4>2. QED
          BY <1>4, <2>2, <4>1
      <3>4. QED
        BY <2>1, <2>2, <3>1, <3>2, <3>3
    <2>4. \A y \in Charged : Past(y)
      BY <1>1, ChargedOnce DEF SourceInv
    <2>5. QED
      BY <2>3, <2>4 DEF Charged
  <1>10. Cost[x] \in Nat /\ bytes \in Int /\ items \in Int /\ ByteLimit \in Nat
    BY <1>1, PlannedCommand, MailboxConstants DEF MailboxType
  <1>11. /\ IsFiniteSet(Charged) /\ Charged \in SUBSET Commands
         /\ bytes = Budget!Load(Charged) /\ items = Cardinality(Charged)
    BY <1>1, ChargedSplit DEF BudgetInv, Counters
  <1>12. bytes + Cost[x] <= ByteLimit /\ items < ItemLimit
    <2>1. bytes <= ByteLimit
      BY <1>1 DEF BudgetInv
    <2>2. Cardinality(Charged) \in Nat
      BY <1>11, FS_CardinalityType
    <2>3. QED
      BY <1>3, <1>10, <1>11, <2>1, <2>2, MailboxConstants DEF Full, SaturatingSub
  <1>13. BudgetInv'
    <2>1. Budget!Load(Charged)' = Budget!Load(Charged) + Cost[x]
      <3>1. IsFiniteSet({x}) /\ Charged \cap {x} = {}
        BY <1>9, FS_Singleton
      <3>2. Budget!Load(Charged \cup {x}) = Budget!Load(Charged) + Budget!Load({x})
        BY <1>11, <3>1, LoadSum
      <3>3. Budget!Load(Charged)' = Budget!Load(Charged \cup {x})
        BY <1>9 DEF Budget!Load, Budget!BytesOf
      <3>4. QED
        BY <3>2, <3>3, LoadOne
    <2>2. Cardinality(Charged)' = Cardinality(Charged) + 1
      BY <1>9, <1>11, FS_AddElement
    <2>3. QED
      BY <1>3, <1>11, <1>12, <2>1, <2>2 DEF BudgetInv, Counters
  <1>14. BudgetStep
    <2>1. Budget!Accept(x)
      BY <1>3, <1>9, <1>11, <1>12, BudgetCounts DEF Budget!Accept
    <2>2. QED
      BY <2>1 DEF BudgetStep, Budget!BudgetNext
  <1>15. QED
    BY <1>4, <1>6, <1>7, <1>8, <1>13, <1>14

(* A step that moves no command: the writer goes on with what it has in    *)
(* hand, and a sender may go past a write that was refused, unless it is a *)
(* transfer.                                                               *)
LEMMA QuietInv ==
  ASSUME MailboxInv, MailboxType', UNCHANGED <<state, hand, nops, accepted, written>>,
         writer' \in Holding <=> writer \in Holding, writer' = "release" <=> writer = "release",
         writer \in {"finish", "done"} => writer' \in {"finish", "done"},
         writer' = "parked" => queue = <<>> /\ ~stopped, writer' = "keepalive" => nops < MaxNops,
         \A t \in Threads : sender[t].next <= sender'[t].next,
         \A t \in Transfers : sender'[t].next = sender[t].next
  PROVE  MailboxInv' /\ BudgetStep
  <1>1. MailboxType /\ HandInv /\ OrderInv /\ SourceInv /\ BudgetInv
    BY DEF MailboxInv
  <1>2. /\ queue' = queue /\ bytes' = bytes /\ items' = items /\ stopped' = stopped
        /\ hand' = hand /\ accepted' = accepted /\ written' = written /\ nops' = nops
    BY DEF state
  <1>3. HandInv'
    BY <1>1, <1>2 DEF HandInv
  <1>4. OrderInv'
    <2>1. Taken' = Taken
      BY <1>2 DEF Taken
    <2>2. QED
      BY <1>1, <1>2, <2>1 DEF OrderInv
  <1>5. SourceInv'
    <2>1. ASSUME NEW p \in 1 .. Len(accepted) PROVE Past(accepted[p])'
      <3>1. Past(accepted[p]) /\ accepted[p] \in Commands
        BY <1>1 DEF SourceInv, MailboxType
      <3>2. accepted[p][2] \in Nat
        BY <3>1, PlannedCommand
      <3>3. \A t \in Threads : sender[t].next \in Nat /\ sender'[t].next \in Nat
        BY <1>1 DEF MailboxType
      <3>4. QED
        BY <1>2, <3>1, <3>2, <3>3 DEF Past
    <2>2. QED
      BY <1>1, <1>2, <2>1 DEF SourceInv
  <1>6. Charged' = Charged
    BY <1>2 DEF Charged, ToSet
  <1>7. BudgetInv'
    <2>1. Budget!Load(Charged)' = Budget!Load(Charged) /\ Cardinality(Charged)' = Cardinality(Charged)
      BY <1>6 DEF Budget!Load, Budget!BytesOf
    <2>2. QED
      BY <1>1, <1>2, <2>1 DEF BudgetInv, Counters
  <1>8. WriterIsWoken' /\ IdleInv'
    BY <1>2 DEF WriterIsWoken, IdleInv
  <1>9. QED
    BY <1>2, <1>3, <1>4, <1>5, <1>6, <1>7, <1>8 DEF MailboxInv, BudgetStep

(* The mailbox is stopped: what is queued is uncharged, what is in hand is *)
(* not.                                                                    *)
LEMMA StopInv ==
  ASSUME MailboxInv, StopMailbox, UNCHANGED <<hand, sender, nops, accepted, written>>,
         writer' \in Holding <=> writer \in Holding, writer' = "release" <=> writer = "release",
         writer' # "parked", writer' = "keepalive" => writer = "keepalive",
         writer' \in {"loop", "receive", "keepalive", "release", "finish", "done"} \cup Holding
  PROVE  MailboxInv' /\ BudgetStep
  <1>1. MailboxType /\ HandInv /\ OrderInv /\ SourceInv /\ BudgetInv
    BY DEF MailboxInv
  <1>2. /\ queue' = <<>> /\ stopped' = TRUE /\ hand' = hand /\ accepted' = accepted
        /\ written' = written /\ nops' = nops /\ sender' = sender
        /\ bytes' = bytes - Budget!Load(ToSet(queue)) /\ items' = items - Len(queue)
    BY DEF StopMailbox, QueuedCost
  <1>3. /\ Len(accepted) \in Nat /\ Len(queue) \in Nat /\ Len(written) \in Nat
        /\ Len(queue') = 0 /\ queue' \in Seq(Commands)
    BY <1>1, <1>2 DEF MailboxType
  <1>4. HandInv'
    BY <1>1, <1>2 DEF HandInv
  <1>5. OrderInv'
    <2>1. Taken' = Taken /\ Taken \in Nat
      BY <1>2, <1>3 DEF Taken
    <2>2. Taken + Len(queue) <= Len(accepted)
      BY <1>1 DEF OrderInv
    <2>3. (Taken + Len(queue) <= Len(accepted))'
      BY <1>2, <1>3, <2>1, <2>2
    <2>4. \A i \in 1 .. Len(queue') : FALSE
      BY <1>3
    <2>5. QED
      BY <1>1, <1>2, <2>3, <2>4 DEF OrderInv
  <1>6. SourceInv'
    BY <1>1, <1>2 DEF SourceInv, Past
  <1>7. Charged' = hand /\ Charged' = Charged \ ToSet(queue) /\ ToSet(queue) \in SUBSET Charged
    <2>1. ToSet(queue)' = {}
      BY <1>2 DEF ToSet
    <2>2. hand \cap ToSet(queue) = {}
      BY <1>1, ChargedOnce
    <2>3. QED
      BY <1>2, <2>1, <2>2 DEF Charged
  <1>8. BudgetInv' /\ bytes' \in Int /\ items' \in Int
    <2>1. /\ bytes = Budget!Load(ToSet(queue)) + Budget!Load(hand)
          /\ items = Len(queue) + Cardinality(hand) /\ bytes <= ByteLimit
          /\ Budget!Load(ToSet(queue)) \in Nat /\ Budget!Load(hand) \in Nat
          /\ Cardinality(hand) \in Nat
      BY <1>1, ChargedSplit DEF BudgetInv, Counters
    <2>2. bytes' = Budget!Load(hand) /\ items' = Cardinality(hand) /\ bytes' <= ByteLimit
      BY <1>2, <1>3, <2>1, MailboxConstants
    <2>3. Budget!Load(Charged)' = Budget!Load(hand) /\ Cardinality(Charged)' = Cardinality(hand)
      BY <1>7 DEF Budget!Load, Budget!BytesOf
    <2>4. QED
      BY <2>1, <2>2, <2>3 DEF BudgetInv, Counters
  <1>9. BudgetStep
    <2>1. Budget!Release(ToSet(queue))
      BY <1>2, <1>7 DEF Budget!Release
    <2>2. QED
      BY <1>7, <2>1 DEF BudgetStep, Budget!BudgetNext
  <1>10. MailboxType'
    BY <1>1, <1>2, <1>3, <1>8 DEF MailboxType
  <1>11. WriterIsWoken' /\ IdleInv'
    BY <1>2 DEF WriterIsWoken, IdleInv, MailboxInv
  <1>12. QED
    BY <1>4, <1>5, <1>6, <1>8, <1>9, <1>10, <1>11 DEF MailboxInv

LEMMA SendInv ==
  ASSUME MailboxInv, NEW t \in Threads, Send(t)
  PROVE  MailboxInv' /\ BudgetStep
  <1>0. PICK n : n = sender[t].next
    OBVIOUS
  <1>1. MailboxType /\ SourceInv
    BY DEF MailboxInv
  <1>2. /\ sender \in [Threads -> [pc : {"send", "wait", "end"}, next : Nat \ {0}]]
        /\ n \in Nat \ {0} /\ Transfers \subseteq Threads
    BY <1>0, <1>1, MailboxConstants DEF MailboxType
  <1>3. n \in 1 .. Len(Plan[t]) /\ UNCHANGED <<hand, lifecycle, nops, written, reported>>
    <2>1. Plan[t] \in Seq(Nat)
      BY MailboxConstants
    <2>2. n <= Len(Plan[t]) /\ Len(Plan[t]) \in Nat
      BY <1>0, <2>1 DEF Send, HasNext
    <2>3. QED
      BY <1>2, <2>2 DEF Send
  <1>4. CASE Enqueue(<<t, n>>) /\ Wake /\ sender' = [sender EXCEPT ![t].next = @ + 1]
    <2>1. <<t, n>> \in Commands /\ t # NopSender
      BY <1>3, PlannedCommand, MailboxConstants
    <2>2. sender'[t].next = n + 1 /\ \A u \in Threads \ {t} : sender'[u].next = sender[u].next
      BY <1>0, <1>2, <1>4
    <2>3. /\ writer' \in Holding <=> writer \in Holding
          /\ writer' = "release" <=> writer = "release"
          /\ writer \in {"finish", "done"} => writer' \in {"finish", "done"}
          /\ writer' # "parked"
          /\ writer' \in {"loop", "receive", "keepalive", "release", "finish", "done"} \cup Holding
      <3>1. CASE writer = "parked"
        BY <1>4, <3>1 DEF Wake, Holding
      <3>2. CASE writer # "parked"
        <4>1. writer' = writer
          BY <1>4, <3>2 DEF Wake
        <4>2. writer \in {"loop", "receive", "keepalive", "release", "finish", "done"} \cup Holding
          BY <1>1, <3>2 DEF MailboxType
        <4>3. QED
          BY <3>2, <4>1, <4>2
      <3>3. QED
        BY <3>1, <3>2
    <2>4. ~Past(<<t, n>>) /\ Past(<<t, n>>)'
      BY <1>0, <1>2, <2>1, <2>2 DEF Past
    <2>5. \A y \in Commands : Past(y) => Past(y)'
      <3>1. ASSUME NEW y \in Commands, Past(y) PROVE Past(y)'
        <4>1. y[2] \in Nat
          BY PlannedCommand
        <4>2. QED
          BY <1>0, <1>2, <1>3, <2>2, <3>1, <4>1 DEF Past
      <3>2. QED
        BY <3>1
    <2>6. ASSUME NEW p \in 1 .. Len(accepted), accepted[p][1] = t PROVE accepted[p][2] < n
      <3>1. Past(accepted[p])
        BY <1>1 DEF SourceInv
      <3>2. QED
        BY <1>0, <2>1, <2>6, <3>1 DEF Past
    <2>7. ASSUME NEW u \in Transfers, NEW i \in 1 .. (sender'[u].next - 1)
          PROVE  i \in 1 .. (sender[u].next - 1) \/ <<u, i>> = <<t, n>>
      BY <1>0, <1>2, <2>2
    <2>8. PICK x : x = <<t, n>>
      OBVIOUS
    <2>9. /\ x[1] = t /\ x[2] = n
      BY <2>8
    <2>10. /\ HandInv' /\ OrderInv' /\ SourceInv' /\ BudgetInv' /\ BudgetStep
          /\ queue' \in Seq(Commands) /\ accepted' \in Seq(Commands)
      BY <1>3, <1>4, <2>1, <2>3, <2>4, <2>5, <2>6, <2>7, <2>8, <2>9, EnqueueInv
    <2>11. MailboxType'
      <3>1. bytes' \in Int /\ items' \in Int /\ stopped' \in BOOLEAN
        BY <1>1, <1>4, <2>1, PlannedCommand DEF Enqueue, MailboxType
      <3>2. sender' \in [Threads -> [pc : {"send", "wait", "end"}, next : Nat \ {0}]]
        BY <1>2, <1>4
      <3>3. QED
        BY <1>1, <1>3, <2>3, <2>10, <3>1, <3>2 DEF MailboxType
    <2>12. IdleInv'
      BY <1>3, <1>4 DEF MailboxInv, IdleInv, Wake
    <2>13. QED
      BY <2>3, <2>10, <2>11, <2>12 DEF MailboxInv, WriterIsWoken
  <1>5. CASE /\ sender' = IF t \in Transfers THEN [sender EXCEPT ![t].pc = "wait"]
                          ELSE [sender EXCEPT ![t].next = @ + 1]
             /\ UNCHANGED <<state, writer, accepted>>
    <2>1. /\ sender' \in [Threads -> [pc : {"send", "wait", "end"}, next : Nat \ {0}]]
          /\ \A u \in Threads : sender[u].next <= sender'[u].next
          /\ \A u \in Transfers : sender'[u].next = sender[u].next
      BY <1>2, <1>5
    <2>2. MailboxType'
      BY <1>1, <1>3, <1>5, <2>1 DEF MailboxType, state
    <2>3. (writer = "parked" => queue = <<>> /\ ~stopped) /\ (writer = "keepalive" => nops < MaxNops)
      BY DEF MailboxInv, WriterIsWoken, IdleInv
    <2>4. QED
      BY <1>3, <1>5, <2>1, <2>2, <2>3, QuietInv
  <1>6. CASE /\ sender' = [sender EXCEPT ![t].pc = "end"]
             /\ UNCHANGED <<state, writer, accepted>>
    <2>1. /\ sender' \in [Threads -> [pc : {"send", "wait", "end"}, next : Nat \ {0}]]
          /\ \A u \in Threads : sender'[u].next = sender[u].next
      BY <1>2, <1>6
    <2>2. /\ \A u \in Threads : sender[u].next <= sender'[u].next
          /\ \A u \in Transfers : sender'[u].next = sender[u].next
      BY <1>2, <2>1
    <2>3. MailboxType'
      BY <1>1, <1>3, <1>6, <2>1 DEF MailboxType, state
    <2>4. (writer = "parked" => queue = <<>> /\ ~stopped) /\ (writer = "keepalive" => nops < MaxNops)
      BY DEF MailboxInv, WriterIsWoken, IdleInv
    <2>5. QED
      BY <1>3, <1>6, <2>2, <2>3, <2>4, QuietInv
  <1>7. QED
    BY <1>0, <1>4, <1>5, <1>6 DEF Send

(* A sender that waits, or is cancelled, changes nothing but where it is.  *)
LEMMA WaitingInv ==
  ASSUME MailboxInv, NEW t \in Threads, WaitCapacity(t) \/ CancelTransfer(t)
  PROVE  MailboxInv' /\ BudgetStep
  <1>1. MailboxType
    BY DEF MailboxInv
  <1>2. PICK pc \in {"send", "end"} : sender' = [sender EXCEPT ![t].pc = pc]
    BY DEF WaitCapacity, CancelTransfer
  <1>3. UNCHANGED <<state, hand, writer, nops, accepted, written>>
    BY DEF WaitCapacity, CancelTransfer
  <1>4. /\ sender \in [Threads -> [pc : {"send", "wait", "end"}, next : Nat \ {0}]]
        /\ Transfers \subseteq Threads
    BY <1>1, MailboxConstants DEF MailboxType
  <1>5. /\ sender' \in [Threads -> [pc : {"send", "wait", "end"}, next : Nat \ {0}]]
        /\ \A u \in Threads : sender'[u].next = sender[u].next
    BY <1>2, <1>4
  <1>6. /\ \A u \in Threads : sender[u].next <= sender'[u].next
        /\ \A u \in Transfers : sender'[u].next = sender[u].next
    BY <1>4, <1>5
  <1>7. MailboxType'
    BY <1>1, <1>3, <1>5 DEF MailboxType, state
  <1>8. (writer = "parked" => queue = <<>> /\ ~stopped) /\ (writer = "keepalive" => nops < MaxNops)
    BY DEF MailboxInv, WriterIsWoken, IdleInv
  <1>9. QED
    BY <1>3, <1>6, <1>7, <1>8, QuietInv

(* The steps of the writer that only decide where it goes.                 *)
LEMMA DecisionInv ==
  ASSUME MailboxInv, UNCHANGED <<state, hand, sender, nops, accepted, written>>,
         \/ writer' = writer
         \/ writer = "loop" /\ writer' \in {"receive", "finish"}
         \/ writer = "receive" /\ writer' = "finish"
         \/ writer = "receive" /\ writer' = "parked" /\ queue = <<>> /\ ~stopped
         \/ writer = "parked" /\ writer' = "keepalive" /\ nops < MaxNops
         \/ writer = "keepalive" /\ writer' \in {"loop", "finish"}
         \/ writer = "got" /\ writer' \in {"write", "drop"}
         \/ writer = "write" /\ writer' = "drop"
  PROVE  MailboxInv' /\ BudgetStep
  <1>1. MailboxType /\ Transfers \subseteq Threads
    BY MailboxConstants DEF MailboxInv
  <1>2. MailboxType'
    <2>1. writer' \in {"loop", "receive", "parked", "keepalive", "release", "finish", "done"} \cup Holding
      BY <1>1 DEF MailboxType, Holding
    <2>2. QED
      BY <1>1, <2>1 DEF MailboxType, state
  <1>3. /\ \A u \in Threads : sender[u].next <= sender'[u].next
        /\ \A u \in Transfers : sender'[u].next = sender[u].next
    BY <1>1 DEF MailboxType
  <1>4. (writer' = "parked" => queue = <<>> /\ ~stopped) /\ (writer' = "keepalive" => nops < MaxNops)
    BY DEF MailboxInv, WriterIsWoken, IdleInv
  <1>5. /\ writer' \in Holding <=> writer \in Holding
        /\ writer' = "release" <=> writer = "release"
        /\ writer \in {"finish", "done"} => writer' \in {"finish", "done"}
    BY DEF Holding
  <1>6. QED
    BY <1>2, <1>3, <1>4, <1>5, QuietInv

LEMMA KeepaliveInv ==
  ASSUME MailboxInv, Keepalive
  PROVE  MailboxInv' /\ BudgetStep
  <1>1. MailboxType /\ SourceInv
    BY DEF MailboxInv
  <1>2. UNCHANGED <<hand, lifecycle, sender, written, reported>> /\ writer = "keepalive"
    BY DEF Keepalive
  <1>3. CASE /\ Enqueue(<<NopSender, nops + 1>>)
             /\ writer' = "loop" /\ nops' = nops + 1 /\ nops < MaxNops
    <2>1. PICK x : x = <<NopSender, nops + 1>>
      OBVIOUS
    <2>2. nops \in Nat /\ MaxNops \in Nat
      BY <1>1, MailboxConstants DEF MailboxType
    <2>3. x \in Commands /\ x[1] = NopSender /\ x[2] = nops + 1 /\ NopSender \notin Threads
      BY <1>3, <2>1, <2>2, PlannedCommand, MailboxConstants
    <2>4. ~Past(x) /\ Past(x)'
      BY <1>3, <2>2, <2>3 DEF Past
    <2>5. ASSUME NEW y \in Commands, Past(y) PROVE Past(y)'
      <3>1. y[2] \in Nat
        BY PlannedCommand
      <3>2. QED
        BY <1>2, <1>3, <2>2, <2>5, <3>1 DEF Past
    <2>6. ASSUME NEW p \in 1 .. Len(accepted), accepted[p][1] = x[1]
          PROVE  accepted[p][2] < x[2]
      <3>1. Past(accepted[p]) /\ accepted[p][2] \in Nat
        BY <1>1, PlannedCommand DEF SourceInv, MailboxType
      <3>2. QED
        BY <2>2, <2>3, <2>6, <3>1 DEF Past
    <2>7. \A t \in Transfers : \A i \in 1 .. (sender'[t].next - 1) :
            i \in 1 .. (sender[t].next - 1) \/ <<t, i>> = x
      BY <1>2
    <2>8. /\ writer' \in Holding <=> writer \in Holding
          /\ writer' = "release" <=> writer = "release"
          /\ writer \in {"finish", "done"} => writer' \in {"finish", "done"}
      BY <1>2, <1>3 DEF Holding
    <2>9. /\ HandInv' /\ OrderInv' /\ SourceInv' /\ BudgetInv' /\ BudgetStep
          /\ queue' \in Seq(Commands) /\ accepted' \in Seq(Commands)
      BY <1>2, <1>3, <2>1, <2>3, <2>4, <2>5, <2>6, <2>7, <2>8, EnqueueInv
    <2>10. MailboxType'
      <3>1. bytes' \in Int /\ items' \in Int /\ stopped' \in BOOLEAN
        BY <1>1, <1>3, <2>1, <2>3, PlannedCommand DEF Enqueue, MailboxType
      <3>2. nops' \in 0 .. MaxNops
        BY <1>3, <2>2
      <3>3. QED
        BY <1>1, <1>2, <1>3, <2>9, <3>1, <3>2 DEF MailboxType
    <2>11. QED
      BY <1>3, <2>9, <2>10 DEF MailboxInv, WriterIsWoken, IdleInv
  <1>4. CASE writer' \in {"loop", "finish"} /\ UNCHANGED <<state, nops, accepted>>
    BY <1>2, <1>4, DecisionInv
  <1>5. QED
    BY <1>2, <1>3, <1>4 DEF Keepalive, MailboxInv, IdleInv

(* The writer takes the oldest command; its charge stays.                  *)
LEMMA TakeInv ==
  ASSUME MailboxInv, writer = "receive", ~stopped, queue # <<>>,
         queue' = Tail(queue), hand' = {Head(queue)}, writer' = "got",
         UNCHANGED <<bytes, items, stopped, sender, nops, accepted, written>>
  PROVE  MailboxInv' /\ BudgetStep
  <1>1. MailboxType /\ HandInv /\ OrderInv /\ SourceInv /\ BudgetInv
    BY DEF MailboxInv
  <1>2. /\ Len(accepted) \in Nat /\ Len(queue) \in Nat \ {0} /\ Len(written) \in Nat
        /\ queue' \in Seq(Commands) /\ Len(queue') = Len(queue) - 1
        /\ \A i \in 1 .. Len(queue') : queue'[i] = queue[i + 1] /\ i + 1 \in 1 .. Len(queue)
        /\ Head(queue) = queue[1] /\ queue[1] \in Commands
    BY <1>1 DEF MailboxType
  <1>3. hand = {} /\ Taken = Len(written) /\ Taken' = Len(written) + 1
    BY <1>1, <1>2 DEF HandInv, Taken, Holding
  <1>4. /\ Len(written) + Len(queue) = Len(accepted)
        /\ \A i \in 1 .. Len(written) : written[i] = accepted[i]
        /\ \A i \in 1 .. Len(queue) : queue[i] = accepted[Len(written) + i]
    <2>1. Taken + Len(queue) = Len(accepted)
      BY <1>1 DEF OrderInv
    <2>2. Len(accepted) - Len(queue) = Len(written)
      BY <1>2, <1>3, <2>1
    <2>3. QED
      BY <1>1, <1>3, <2>1, <2>2 DEF OrderInv
  <1>5. HandInv'
    <2>1. hand' = {accepted[Len(written) + 1]}
      BY <1>2, <1>4
    <2>2. QED
      BY <2>1 DEF HandInv, Holding
  <1>6. OrderInv'
    <2>1. (Taken + Len(queue) = Len(accepted))' /\ (Taken + Len(queue) <= Len(accepted))'
      BY <1>2, <1>3, <1>4
    <2>2. ASSUME NEW i \in 1 .. Len(queue')
          PROVE  queue'[i] = accepted'[Len(accepted') - Len(queue') + i]
      <3>1. queue'[i] = accepted[Len(written) + (i + 1)]
        BY <1>2, <1>4
      <3>2. Len(accepted') = Len(written) + Len(queue) /\ Len(queue') = Len(queue) - 1
        BY <1>2, <1>4
      <3>3. Len(accepted') - Len(queue') + i = Len(written) + (i + 1)
        BY <1>2, <3>2
      <3>4. QED
        BY <3>1, <3>3
    <2>3. QED
      BY <1>4, <2>1, <2>2 DEF OrderInv
  <1>7. SourceInv'
    BY <1>1 DEF SourceInv, Past
  <1>8. Charged' = Charged
    <2>1. ToSet(queue) = {queue[i] : i \in 1 .. Len(queue)}
      BY <1>1, ChargedOnce
    <2>2. ToSet(queue)' = {queue'[i] : i \in 1 .. Len(queue')}
      BY <1>2 DEF ToSet
    <2>3. ASSUME NEW i \in 1 .. Len(queue), i # 1 PROVE queue[i] \in ToSet(queue)'
      <3>1. i - 1 \in 1 .. Len(queue') /\ (i - 1) + 1 = i
        BY <1>2, <2>3
      <3>2. queue'[i - 1] = queue[(i - 1) + 1]
        BY <1>2, <3>1
      <3>3. QED
        BY <2>2, <3>1, <3>2
    <2>4. ToSet(queue)' \subseteq ToSet(queue)
      BY <1>2, <2>1, <2>2
    <2>5. 1 \in 1 .. Len(queue)
      BY <1>2
    <2>6. QED
      BY <1>2, <1>3, <2>1, <2>3, <2>4, <2>5 DEF Charged
  <1>9. BudgetInv'
    <2>1. Budget!Load(Charged)' = Budget!Load(Charged) /\ Cardinality(Charged)' = Cardinality(Charged)
      BY <1>8 DEF Budget!Load, Budget!BytesOf
    <2>2. QED
      BY <1>1, <2>1 DEF BudgetInv, Counters
  <1>10. MailboxType'
    BY <1>1, <1>2 DEF MailboxType, Holding
  <1>11. QED
    BY <1>5, <1>6, <1>7, <1>8, <1>9, <1>10 DEF MailboxInv, BudgetStep, WriterIsWoken, IdleInv

LEMMA WriteDoneInv ==
  ASSUME MailboxInv, WriteDone
  PROVE  MailboxInv' /\ BudgetStep
  <1>1. MailboxType /\ HandInv /\ OrderInv /\ SourceInv /\ BudgetInv
    BY DEF MailboxInv
  <1>2. /\ writer = "write" /\ writer' = "release" /\ written' = written \o SetToSeq(hand)
        /\ queue' = queue /\ bytes' = bytes /\ items' = items /\ stopped' = stopped
        /\ hand' = hand /\ accepted' = accepted /\ nops' = nops /\ sender' = sender
    BY DEF WriteDone, state
  <1>3. /\ queue \in Seq(Commands) /\ accepted \in Seq(Commands) /\ written \in Seq(Commands)
        /\ Len(accepted) \in Nat /\ Len(queue) \in Nat /\ Len(written) \in Nat
    BY <1>1 DEF MailboxType
  <1>4. PICK x : x = accepted[Len(written) + 1]
    OBVIOUS
  <1>5. hand = {x} /\ written' = written \o <<x>>
    BY <1>1, <1>2, <1>4, SingletonSeq DEF HandInv, Holding
  <1>6. x \in Commands
    BY <1>1, <1>5 DEF MailboxType
  <1>7. /\ written' \in Seq(Commands) /\ Len(written') = Len(written) + 1
        /\ \A i \in 1 .. Len(written) : written'[i] = written[i]
        /\ written'[Len(written) + 1] = x
    BY <1>3, <1>5, <1>6
  <1>8. HandInv'
    <2>1. Len(written') = Len(written) + 1 /\ Len(written') > 0
      BY <1>3, <1>7
    <2>2. hand' = {accepted'[Len(written')]}
      BY <1>2, <1>4, <1>5, <2>1
    <2>3. QED
      BY <1>2, <2>1, <2>2 DEF HandInv, Holding
  <1>9. OrderInv'
    <2>1. Taken' = Taken
      BY <1>2, <1>3, <1>7 DEF Taken, Holding
    <2>2. ASSUME NEW i \in 1 .. Len(written') PROVE written'[i] = accepted[i]
      <3>1. i \in 1 .. Len(written) \/ i = Len(written) + 1
        BY <1>3, <1>7
      <3>2. \A j \in 1 .. Len(written) : written[j] = accepted[j]
        BY <1>1 DEF OrderInv
      <3>3. QED
        BY <1>4, <1>7, <3>1, <3>2
    <2>3. QED
      BY <1>1, <1>2, <2>1, <2>2 DEF OrderInv
  <1>10. SourceInv'
    BY <1>1, <1>2 DEF SourceInv, Past
  <1>11. Charged' = Charged
    BY <1>2 DEF Charged, ToSet
  <1>12. BudgetInv'
    <2>1. Budget!Load(Charged)' = Budget!Load(Charged) /\ Cardinality(Charged)' = Cardinality(Charged)
      BY <1>11 DEF Budget!Load, Budget!BytesOf
    <2>2. QED
      BY <1>1, <1>2, <2>1 DEF BudgetInv, Counters
  <1>13. MailboxType'
    BY <1>1, <1>2, <1>7 DEF MailboxType
  <1>14. QED
    BY <1>2, <1>8, <1>9, <1>10, <1>11, <1>12, <1>13
       DEF MailboxInv, BudgetStep, WriterIsWoken, IdleInv

(* The permit is dropped: what was in hand is uncharged.                   *)
LEMMA DropPermitInv ==
  ASSUME MailboxInv, DropPermit
  PROVE  MailboxInv' /\ BudgetStep
  <1>1. MailboxType /\ HandInv /\ OrderInv /\ SourceInv /\ BudgetInv
    BY DEF MailboxInv
  <1>2. /\ items' = items - Cardinality(hand) /\ hand' = {}
        /\ queue' = queue /\ stopped' = stopped /\ sender' = sender /\ nops' = nops
        /\ accepted' = accepted /\ written' = written
        /\ \/ writer = "release" /\ writer' = "loop"
           \/ writer = "drop" /\ writer' = "finish"
    BY DEF DropPermit
  <1>3. PICK x \in hand : bytes' = bytes - Cost[x]
    BY DEF DropPermit
  <1>4. hand = {x} /\ x \in Commands
    BY <1>1, <1>3 DEF HandInv, MailboxType
  <1>5. HandInv'
    BY <1>2 DEF HandInv, Holding
  <1>6. OrderInv'
    <2>1. Len(written) \in Nat /\ Len(queue) \in Nat /\ Len(accepted) \in Nat
      BY <1>1 DEF MailboxType
    <2>2. CASE writer = "release"
      <3>1. Taken' = Taken /\ writer' = "loop"
        BY <1>2, <2>2 DEF Taken, Holding
      <3>2. QED
        BY <1>1, <1>2, <2>2, <3>1 DEF OrderInv
    <2>3. CASE writer = "drop"
      <3>1. Taken = Len(written) + 1 /\ Taken' = Len(written) /\ writer' = "finish"
        BY <1>2, <2>1, <2>3 DEF Taken, Holding
      <3>2. (Taken + Len(queue) <= Len(accepted))'
        BY <1>1, <1>2, <2>1, <3>1 DEF OrderInv
      <3>3. QED
        BY <1>1, <1>2, <3>1, <3>2 DEF OrderInv
    <2>4. QED
      BY <1>2, <2>2, <2>3
  <1>7. SourceInv'
    BY <1>1, <1>2 DEF SourceInv, Past
  <1>8. Charged' = ToSet(queue) /\ Charged' = Charged \ hand /\ hand \in SUBSET Charged
    <2>1. hand \cap ToSet(queue) = {}
      BY <1>1, ChargedOnce
    <2>2. QED
      BY <1>2, <2>1 DEF Charged, ToSet
  <1>9. BudgetInv' /\ bytes' \in Int /\ items' \in Int
    <2>1. /\ bytes = Budget!Load(ToSet(queue)) + Budget!Load(hand)
          /\ items = Len(queue) + Cardinality(hand) /\ bytes <= ByteLimit
          /\ Budget!Load(ToSet(queue)) \in Nat /\ Budget!Load(hand) \in Nat
          /\ Cardinality(hand) \in Nat /\ Len(queue) \in Nat
      BY <1>1, ChargedSplit DEF BudgetInv, Counters
    <2>2. Budget!Load(hand) = Cost[x]
      BY <1>4, LoadOne
    <2>3. bytes' = Budget!Load(ToSet(queue)) /\ items' = Len(queue) /\ bytes' <= ByteLimit
      BY <1>2, <1>3, <2>1, <2>2, MailboxConstants, SMTT(30)
    <2>4. Cardinality(ToSet(queue)) = Len(queue)
      BY <1>1, ChargedOnce
    <2>5. Budget!Load(Charged)' = Budget!Load(ToSet(queue)) /\ Cardinality(Charged)' = Cardinality(ToSet(queue))
      BY <1>8 DEF Budget!Load, Budget!BytesOf
    <2>6. QED
      BY <2>1, <2>3, <2>4, <2>5 DEF BudgetInv, Counters
  <1>10. BudgetStep
    <2>1. Budget!Release(hand)
      BY <1>1, <1>2, <1>8 DEF Budget!Release, MailboxType
    <2>2. QED
      BY <1>8, <2>1 DEF BudgetStep, Budget!BudgetNext
  <1>11. MailboxType'
    BY <1>1, <1>2, <1>9 DEF MailboxType
  <1>12. QED
    BY <1>2, <1>5, <1>6, <1>7, <1>9, <1>10, <1>11 DEF MailboxInv, WriterIsWoken, IdleInv

LEMMA MailboxInit ==
  ASSUME Init
  PROVE  MailboxInv /\ Charged = {}
  <1>1. /\ queue = <<>> /\ accepted = <<>> /\ written = <<>> /\ bytes = 0 /\ items = 0
        /\ stopped = FALSE /\ hand = {} /\ writer = "loop" /\ nops = 0
        /\ sender = [t \in Threads |-> [pc |-> "send", next |-> 1]]
    BY DEF Init
  <1>2. MailboxType
    <2>1. nops \in 0 .. MaxNops
      BY <1>1, MailboxConstants
    <2>2. queue \in Seq(Commands) /\ accepted \in Seq(Commands) /\ written \in Seq(Commands)
      BY <1>1
    <2>3. sender \in [Threads -> [pc : {"send", "wait", "end"}, next : Nat \ {0}]]
      BY <1>1
    <2>4. bytes \in Int /\ items \in Int /\ stopped \in BOOLEAN /\ hand \in SUBSET Commands
      <3>1. bytes \in Int /\ items \in Int /\ hand \in SUBSET Commands
        BY <1>1
      <3>2. stopped \in BOOLEAN
        BY <1>1, Zenon
      <3>3. QED
        BY <3>1, <3>2
    <2>5. writer \in {"loop", "receive", "parked", "keepalive", "release", "finish", "done"} \cup Holding
      BY <1>1
    <2>6. QED
      BY <2>1, <2>2, <2>3, <2>4, <2>5 DEF MailboxType
  <1>3. HandInv /\ OrderInv
    BY <1>1 DEF HandInv, OrderInv, Taken, Holding
  <1>4. SourceInv
    <2>1. \A t \in Transfers : sender[t].next = 1
      BY <1>1, MailboxConstants
    <2>2. QED
      BY <1>1, <2>1 DEF SourceInv
  <1>5. Charged = {}
    BY <1>1 DEF Charged, ToSet
  <1>6. BudgetInv
    <2>1. Budget!Load({}) = 0 /\ Cardinality({}) = 0
      <3>1. Budget!BytesOf({}) = {}
        BY DEF Budget!BytesOf
      <3>2. QED
        BY <3>1, BudgetCounts, FS_EmptySet
    <2>2. QED
      BY <1>1, <1>5, <2>1, MailboxConstants DEF BudgetInv, Counters
  <1>7. QED
    BY <1>1, <1>2, <1>3, <1>4, <1>5, <1>6 DEF MailboxInv, WriterIsWoken, IdleInv

(* Every step keeps the invariant, and is a step of the budget.            *)
LEMMA MailboxNext ==
  ASSUME MailboxInv, [Next]_vars
  PROVE  MailboxInv' /\ BudgetStep
  <1>1. MailboxType
    BY DEF MailboxInv
  <1>2. ASSUME NEW t \in Threads, Send(t) \/ WaitCapacity(t) \/ CancelTransfer(t)
        PROVE  MailboxInv' /\ BudgetStep
    BY <1>2, SendInv, WaitingInv
  <1>3. CASE Stop
    <2>1. /\ writer' \in Holding <=> writer \in Holding
          /\ writer' = "release" <=> writer = "release"
          /\ writer' # "parked" /\ (writer' = "keepalive" => writer = "keepalive")
          /\ writer' \in {"loop", "receive", "keepalive", "release", "finish", "done"} \cup Holding
      <3>1. CASE writer = "parked"
        BY <1>3, <3>1 DEF Stop, StopNotifies, Wake, Holding
      <3>2. CASE writer # "parked"
        <4>1. writer' = writer
          BY <1>3, <3>2 DEF Stop, StopNotifies, Wake
        <4>2. writer \in {"loop", "receive", "keepalive", "release", "finish", "done"} \cup Holding
          BY <1>1, <3>2 DEF MailboxType
        <4>3. QED
          BY <3>2, <4>1, <4>2
      <3>3. QED
        BY <3>1, <3>2
    <2>2. QED
      BY <1>3, <2>1, StopInv DEF Stop
  <1>4. CASE Shutdown
    BY <1>4, DecisionInv DEF Shutdown
  <1>5. CASE WriterLoop \/ IdleTimeout \/ BeginWrite
    BY <1>5, DecisionInv DEF WriterLoop, IdleTimeout, BeginWrite, Go
  <1>6. CASE Receive
    <2>1. CASE ~stopped /\ queue # <<>>
      BY <1>6, <2>1, TakeInv DEF Receive
    <2>2. CASE stopped \/ queue = <<>>
      <3>1. /\ UNCHANGED <<state, hand, sender, nops, accepted, written>> /\ writer = "receive"
            /\ \/ writer' = "finish"
               \/ writer' = "parked" /\ queue = <<>> /\ ~stopped
        BY <1>6, <2>2 DEF Receive, state
      <3>2. QED
        BY <3>1, DecisionInv
    <2>3. QED
      BY <2>1, <2>2
  <1>7. CASE WriteFails
    BY <1>7, DecisionInv DEF WriteFails
  <1>8. CASE WriterFinish
    <2>1. writer = "finish" /\ writer' = "done"
      BY <1>8 DEF WriterFinish
    <2>2. /\ writer' \in Holding <=> writer \in Holding
          /\ writer' = "release" <=> writer = "release"
          /\ writer' # "parked" /\ (writer' = "keepalive" => writer = "keepalive")
          /\ writer' \in {"loop", "receive", "keepalive", "release", "finish", "done"} \cup Holding
      BY <2>1 DEF Holding
    <2>3. QED
      BY <1>8, <2>2, StopInv DEF WriterFinish
  <1>9. CASE UNCHANGED vars
    BY <1>9, DecisionInv DEF vars
  <1>10. QED
    BY <1>2, <1>3, <1>4, <1>5, <1>6, <1>7, <1>8, <1>9, KeepaliveInv, WriteDoneInv, DropPermitInv
       DEF Next, WriterStep

LEMMA MailboxInvariant == Spec => []MailboxInv
  <1>1. Init => MailboxInv
    BY MailboxInit
  <1>2. MailboxInv /\ [Next]_vars => MailboxInv'
    BY MailboxNext
  <1>3. QED
    BY <1>1, <1>2, PTL DEF Spec

-----------------------------------------------------------------------------
(* The byte and item counters of the mailbox are, whatever stops, fails or *)
(* is dropped in between, the cost and the number of the commands that are *)
(* queued or in the writer's hand.                                         *)
THEOREM CountersAreExact == Spec => []Counters
  <1>1. MailboxInv => Counters
    BY DEF MailboxInv, BudgetInv
  <1>2. QED
    BY <1>1, MailboxInvariant, PTL

(* What the writer thread puts on the wire is a prefix of what send        *)
(* accepted: nothing overtakes, is repeated or is skipped.                 *)
THEOREM WireIsPrefix == Spec => []WrittenInOrder
  <1>1. MailboxInv => WrittenInOrder
    <2> SUFFICES ASSUME MailboxInv PROVE WrittenInOrder
      OBVIOUS
    <2>1. MailboxType /\ OrderInv
      BY DEF MailboxInv
    <2>2. /\ written \in Seq(Commands) /\ accepted \in Seq(Commands)
          /\ Len(written) \in Nat /\ Len(accepted) \in Nat /\ Len(queue) \in Nat
      BY <2>1 DEF MailboxType
    <2>3. Len(written) <= Len(accepted)
      BY <2>1, <2>2 DEF OrderInv, Taken
    <2>4. \A i \in 1 .. Len(written) : written[i] = accepted[i]
      BY <2>1 DEF OrderInv
    <2>5. SubSeq(written, 1, Len(written)) = SubSeq(accepted, 1, Len(written))
      BY <2>2, <2>3, <2>4
    <2>6. QED
      BY <2>3, <2>5 DEF WrittenInOrder, IsPrefix
  <1>2. QED
    BY <1>1, MailboxInvariant, PTL

(* However often write_raw_cancellable is refused and retries, the frames  *)
(* of a transfer are accepted once each and in their order.                *)
THEOREM TransfersKeepFrames == Spec => []FramesPreserved
  <1>1. MailboxInv => FramesPreserved
    <2> SUFFICES ASSUME MailboxInv, NEW t \in Transfers
                 PROVE  /\ {x \in ToSet(accepted) : x[1] = t} = {t} \X (1 .. (sender[t].next - 1))
                        /\ \A p, q \in DOMAIN accepted :
                             p < q /\ accepted[p][1] = t /\ accepted[q][1] = t
                               => accepted[p][2] < accepted[q][2]
      BY DEF FramesPreserved
    <2>1. MailboxType /\ SourceInv
      BY DEF MailboxInv
    <2>2. /\ DOMAIN accepted = 1 .. Len(accepted)
          /\ t \in Threads /\ t # NopSender /\ sender[t].next \in Nat \ {0}
          /\ \A p \in 1 .. Len(accepted) : accepted[p] \in Commands
      BY <2>1, MailboxConstants DEF MailboxType
    <2>3. ToSet(accepted) = {accepted[p] : p \in 1 .. Len(accepted)}
      BY <2>2 DEF ToSet
    <2>4. ASSUME NEW p \in 1 .. Len(accepted), accepted[p][1] = t
          PROVE  accepted[p] \in {t} \X (1 .. (sender[t].next - 1))
      <3>1. Past(accepted[p])
        BY <2>1 DEF SourceInv
      <3>2. accepted[p] = <<t, accepted[p][2]>> /\ accepted[p][2] < sender[t].next
        BY <2>2, <2>4, <3>1, PlannedCommand DEF Past
      <3>3. accepted[p][2] \in Nat /\ accepted[p][2] > 0
        BY <2>2, PositiveIndex
      <3>4. PICK i : i = accepted[p][2]
        OBVIOUS
      <3>5. i \in 1 .. (sender[t].next - 1)
        BY <2>2, <3>2, <3>3, <3>4
      <3>6. accepted[p] = <<t, i>> /\ <<t, i>> \in {t} \X (1 .. (sender[t].next - 1))
        BY <3>2, <3>4, <3>5
      <3>7. QED
        BY <3>6
    <2>5. ASSUME NEW i \in 1 .. (sender[t].next - 1)
          PROVE  <<t, i>> \in ToSet(accepted)
      BY <2>1, <2>3 DEF SourceInv
    <2>6. {x \in ToSet(accepted) : x[1] = t} = {t} \X (1 .. (sender[t].next - 1))
      <3>1. \A x \in {t} \X (1 .. (sender[t].next - 1)) :
              x[1] = t /\ \E i \in 1 .. (sender[t].next - 1) : x = <<t, i>>
        OBVIOUS
      <3>2. \A x \in {t} \X (1 .. (sender[t].next - 1)) : x \in ToSet(accepted) /\ x[1] = t
        BY <2>5, <3>1
      <3>3. \A x \in ToSet(accepted) : x[1] = t => x \in {t} \X (1 .. (sender[t].next - 1))
        BY <2>3, <2>4
      <3>4. QED
        BY <3>2, <3>3
    <2>7. QED
      BY <2>1, <2>2, <2>6 DEF SourceInv
  <1>2. QED
    BY <1>1, MailboxInvariant, PTL

(* The writer thread never sleeps on a mailbox that has a command for it,  *)
(* or that was stopped: no notification is lost.                           *)
THEOREM NoLostWakeup == Spec => []WriterIsWoken
  <1>1. MailboxInv => WriterIsWoken
    BY DEF MailboxInv
  <1>2. QED
    BY <1>1, MailboxInvariant, PTL

(* The mailbox implements InputBudget: every step that changes what is     *)
(* charged accepts one command within both limits, or releases some.       *)
THEOREM ImplementsBudget == Spec => KeepsBudget
  <1>1. Init => Budget!BudgetInit
    BY MailboxInit DEF Budget!BudgetInit, Init
  <1>2. MailboxInv /\ [Next]_vars => [Budget!BudgetNext]_<<Charged, ~stopped>>
    BY MailboxNext DEF BudgetStep
  <1>3. QED
    BY <1>1, <1>2, MailboxInvariant, PTL DEF Spec, KeepsBudget, Budget!BudgetSpec

=============================================================================
