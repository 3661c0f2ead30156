-------------------------- MODULE TmuxControlProofs --------------------------
(* Proofs about TmuxControl, for every number of chunks, ticks and events,  *)
(* every limit and every set of commands that may fail.                     *)
EXTENDS TmuxControl, FlattenLemmas

-----------------------------------------------------------------------------
(* Command lines and replies: what the client queues (LineInv), what a     *)
(* reply settles and what stands next to it (BlockInv), and ages.          *)

SeedKinds == {"capture", "cursor", "continue"}

IsLine(l) ==
  l \in {<<Windows>>, <<User>>, SeedLine(l[1].gen, TRUE), SeedLine(l[1].gen, FALSE)}

LineInv ==
  /\ \A i \in 1 .. Len(cmds) : IsLine(cmds[i])
  /\ \A i \in 1 .. Len(outgoing) : IsLine(outgoing[i])

\* A reply is one of a free-form command, its barrier's, the poll's, or one to
\* a part of a seed; a failed one also settles the parts after it.
Shaped(m) ==
  \/ m.answers = <<>> /\ ~m.barrier
  \/ m.answers = <<User>> /\ m.barrier /\ m.ok
  \/ m.answers = <<Windows>> /\ ~m.barrier /\ m.ok
  \/ /\ m.ok /\ ~m.barrier
     /\ \E k \in SeedKinds, g \in Nat : m.answers = <<Seed(k, g)>>
  \/ /\ ~m.ok /\ ~m.barrier
     /\ \E g \in Nat : m.answers \in
          {SeedLine(g, TRUE), SeedLine(g, FALSE), <<Seed("cursor", g), Seed("continue", g)>>,
           <<Seed("cursor", g)>>, <<Seed("continue", g)>>}

Adjacent(w, i) ==
  /\ w[i].answers = <<>> => i < Len(w) /\ Settles(w[i + 1]) = <<User>>
  /\ i > 1 /\ w[i].answers # <<>> /\ w[i].answers[1].kind = "continue"
       => Settles(w[i - 1]) # <<>> /\ w[i - 1].ok

BlockInv ==
  \A i \in 1 .. Len(wire) : wire[i].type = "block" => Shaped(wire[i]) /\ Adjacent(wire, i)

AgeInv ==
  /\ \A k \in 1 .. Len(tmux.made) : tmux.made[k] <= now
  /\ \A i \in 1 .. Len(wire) : wire[i].type = "output" => wire[i].age <= now

-----------------------------------------------------------------------------
(* Messages and lines.                                                     *)

LEMMA MessageFields ==
  ASSUME NEW m \in Message
  PROVE  /\ m.type \in {"output", "pause", "continue", "layout", "block"}
         /\ m.type = "output" => m.chunk \in 1 .. MaxChunks /\ m.age \in 0 .. MaxTicks
         /\ m.type = "block" => /\ m.ok \in BOOLEAN /\ m.barrier \in BOOLEAN
                                /\ m.shown \in 0 .. MaxChunks /\ m.answers \in Seq(Entry)
         /\ Settles(m) \in Seq(Entry)
  BY DEF Message, Settles

LEMMA SeedFields ==
  ASSUME NEW k \in SeedKinds, NEW g \in Nat
  PROVE  Seed(k, g) \in Entry /\ Seed(k, g).kind = k /\ Seed(k, g).gen = g
  BY DEF Seed, Entry, SeedKinds

LEMMA SeedLineFields ==
  ASSUME NEW g \in Nat, NEW z \in BOOLEAN
  PROVE  /\ SeedLine(g, z) \in Seq(Entry) /\ IsLine(SeedLine(g, z))
         /\ Len(SeedLine(g, z)) = IF z THEN 3 ELSE 2
         /\ SeedLine(g, z)[1] = Seed("capture", g) /\ SeedLine(g, z)[2] = Seed("cursor", g)
         /\ z => SeedLine(g, z)[3] = Seed("continue", g)
  <1>1. /\ Seed("capture", g) \in Entry /\ Seed("cursor", g) \in Entry /\ Seed("continue", g) \in Entry
        /\ Seed("capture", g).gen = g
    BY SeedFields DEF SeedKinds
  <1>2. CASE z
    BY <1>1, <1>2 DEF SeedLine, IsLine
  <1>3. CASE ~z
    BY <1>1, <1>3 DEF SeedLine, IsLine
  <1>4. QED
    BY <1>2, <1>3

LEMMA LineFields ==
  ASSUME NEW l \in Seq(Entry), IsLine(l)
  PROVE  \/ l = <<Windows>> \/ l = <<User>>
         \/ \E g \in Nat, z \in BOOLEAN : l = SeedLine(g, z)
  <1>1. l # <<>>
    <2>1. CASE l = <<>>
      <3>1. l # <<Windows>> /\ l # <<User>>
        BY <2>1
      <3>2. \A x, y, z : <<x, y>> # <<>> /\ <<x, y, z>> # <<>>
        OBVIOUS
      <3>3. QED
        BY <2>1, <3>1, <3>2 DEF IsLine, SeedLine
    <2>2. QED
      BY <2>1
  <1>2. l[1] \in Entry /\ l[1].gen \in Nat
    BY <1>1 DEF Entry
  <1>3. QED
    BY <1>2 DEF IsLine

LEMMA PlainLines ==
  /\ Windows \in Entry /\ User \in Entry /\ Windows # User
  /\ Windows.kind = "windows" /\ User.kind = "user" /\ Windows.gen = 0 /\ User.gen = 0
  /\ <<Windows>> \in Seq(Entry) /\ <<User>> \in Seq(Entry)
  /\ IsLine(<<Windows>>) /\ IsLine(<<User>>) /\ <<Windows>> # <<User>>
  BY DEF Windows, User, Entry, IsLine

-----------------------------------------------------------------------------
(* Types.                                                                  *)

TypeInv == TypeOK /\ LineInv /\ AgeInv

\* What an operation of the client leaves typed.
ClientType ==
  /\ pane \in Pane /\ Len(pane.held) <= PENDING_PANE_OUTPUT_MAX
  /\ paused \in BOOLEAN /\ running \in BOOLEAN
  /\ outgoing \in Seq(Seq(Entry)) /\ \A i \in 1 .. Len(outgoing) : IsLine(outgoing[i])

LEMMA AppendLine ==
  ASSUME NEW q \in Seq(Seq(Entry)), \A i \in 1 .. Len(q) : IsLine(q[i]),
         NEW l \in Seq(Entry), IsLine(l)
  PROVE  /\ Append(q, l) \in Seq(Seq(Entry))
         /\ \A i \in 1 .. Len(Append(q, l)) : IsLine(Append(q, l)[i])
  <1>1. /\ Append(q, l) \in Seq(Seq(Entry)) /\ Len(Append(q, l)) = Len(q) + 1
        /\ Append(q, l)[Len(q) + 1] = l
        /\ \A i \in 1 .. Len(q) : Append(q, l)[i] = q[i]
    BY AppendProperties
  <1>2. Len(q) \in Nat
    OBVIOUS
  <1>3. \A i \in 1 .. (Len(q) + 1) : i \in 1 .. Len(q) \/ i = Len(q) + 1
    BY <1>2
  <1>4. QED
    BY <1>1, <1>3

LEMMA QueueBatch ==
  ASSUME TypeInv, NEW l \in Seq(Entry), IsLine(l), queue_batch(l)
  PROVE  /\ outgoing' \in Seq(Seq(Entry)) /\ running' \in BOOLEAN
         /\ \A i \in 1 .. Len(outgoing') : IsLine(outgoing'[i])
  <1>1. outgoing \in Seq(Seq(Entry)) /\ running \in BOOLEAN /\ \A i \in 1 .. Len(outgoing) : IsLine(outgoing[i])
    BY DEF TypeInv, TypeOK, LineInv
  <1>2. CASE outgoing' = outgoing /\ running' = FALSE
    BY <1>1, <1>2
  <1>3. CASE outgoing' = Append(outgoing, l) /\ running' = running
    BY <1>1, <1>3, AppendLine
  <1>4. QED
    BY <1>2, <1>3 DEF queue_batch

LEMMA SeedPane ==
  ASSUME TypeInv, NEW p \in Pane, Len(p.held) <= PENDING_PANE_OUTPUT_MAX,
         NEW z \in BOOLEAN, seed_pane(p, z)
  PROVE  ClientType'
  <1>1. outgoing \in Seq(Seq(Entry)) /\ running \in BOOLEAN /\ \A i \in 1 .. Len(outgoing) : IsLine(outgoing[i])
    BY DEF TypeInv, TypeOK, LineInv
  <1>2. CASE ~p.mapped \/ p.seeding
    BY <1>1, <1>2 DEF seed_pane, ClientType
  <1>3. CASE ~(~p.mapped \/ p.seeding)
    <2>1. /\ pane' = [p EXCEPT !.seeding = TRUE, !.seeded = FALSE, !.seed = None, !.barrier = z]
          /\ paused' = FALSE /\ queue_batch(SeedLine(p.gen, z))
      BY <1>3 DEF seed_pane
    <2>2. pane' \in Pane /\ pane'.held = p.held
      BY <2>1 DEF Pane
    <2>3. p.gen \in Nat
      BY DEF Pane
    <2>4. SeedLine(p.gen, z) \in Seq(Entry) /\ IsLine(SeedLine(p.gen, z))
      BY <2>3, SeedLineFields
    <2>5. /\ outgoing' \in Seq(Seq(Entry)) /\ running' \in BOOLEAN
          /\ \A i \in 1 .. Len(outgoing') : IsLine(outgoing'[i])
      BY <2>1, <2>4, QueueBatch
    <2>6. QED
      BY <2>1, <2>2, <2>5 DEF ClientType
  <1>4. QED
    BY <1>2, <1>3

LEMMA ClientUnchanged ==
  ASSUME TypeInv, pane' = pane, outgoing' = outgoing, running' = running, paused' \in BOOLEAN
  PROVE  ClientType'
  BY DEF TypeInv, TypeOK, LineInv, ClientType

LEMMA ReconcilePanes ==
  ASSUME TypeInv, NEW r \in BOOLEAN, reconcile_panes(r)
  PROVE  ClientType'
  <1> DEFINE p == IF ~pane.mapped THEN [pane EXCEPT !.mapped = TRUE]
                  ELSE IF r /\ pane.seeding THEN [pane EXCEPT !.reseed = TRUE]
                  ELSE IF r THEN [pane EXCEPT !.seeded = FALSE]
                  ELSE pane
  <1>1. pane \in Pane /\ Len(pane.held) <= PENDING_PANE_OUTPUT_MAX /\ paused \in BOOLEAN
    BY DEF TypeInv, TypeOK
  <1>2. p \in Pane /\ p.held = pane.held
    BY <1>1 DEF Pane
  <1>3. \/ p.seeded /\ pane' = p /\ UNCHANGED <<paused, outgoing, running>>
        \/ seed_pane(p, paused)
    BY DEF reconcile_panes
  <1> HIDE DEF p
  <1>4. CASE p.seeded /\ pane' = p /\ UNCHANGED <<paused, outgoing, running>>
    BY <1>1, <1>2, <1>4 DEF TypeInv, TypeOK, LineInv, ClientType
  <1>5. CASE seed_pane(p, paused)
    BY <1>1, <1>2, <1>5, SeedPane
  <1>6. QED
    BY <1>3, <1>4, <1>5

LEMMA ContinuePaused ==
  ASSUME TypeInv, NEW z \in BOOLEAN,
         IF paused THEN seed_pane(pane, z) ELSE UNCHANGED <<pane, paused, outgoing, running>>
  PROVE  ClientType'
  <1>1. pane \in Pane /\ Len(pane.held) <= PENDING_PANE_OUTPUT_MAX /\ paused \in BOOLEAN
    BY DEF TypeInv, TypeOK
  <1>2. CASE paused
    BY <1>1, <1>2, SeedPane
  <1>3. CASE ~paused
    BY <1>1, <1>3, ClientUnchanged
  <1>4. QED
    BY <1>2, <1>3

LEMMA SettledSome ==
  ASSUME NEW e, NEW ok \in BOOLEAN
  PROVE  Settled(e, ok) \in 1 .. 3
  BY DEF Settled

LEMMA LeftPausedBoolean ==
  ASSUME NEW e, NEW ok
  PROVE  LeftPaused(e, ok) \in BOOLEAN
  BY DEF LeftPaused

\* What handling a message leaves typed.
HandledType ==
  /\ ClientType /\ timer \in BOOLEAN /\ pending \in Seq(Entry) /\ screen \subseteq 1 .. MaxChunks

LEMMA Replays ==
  ASSUME TypeInv
  PROVE  Replayed(pane) \subseteq 1 .. MaxChunks
  <1>1. pane.held \in Seq([chunk : 1 .. MaxChunks, at : 0 .. MaxTicks])
    BY DEF TypeInv, TypeOK, Pane
  <1>2. \A i \in DOMAIN pane.held : pane.held[i].chunk \in 1 .. MaxChunks
    <2> DEFINE K == [chunk : 1 .. MaxChunks, at : 0 .. MaxTicks]
    <2>1. \A x \in K : x.chunk \in 1 .. MaxChunks
      OBVIOUS
    <2> HIDE DEF K
    <2>2. \A h \in Seq(K) : \A i \in DOMAIN h : h[i] \in K
      OBVIOUS
    <2>3. pane.held \in Seq(K)
      BY <1>1 DEF K
    <2>4. QED
      BY <2>1, <2>2, <2>3
  <1>3. QED
    BY <1>2 DEF Replayed

LEMMA CursorType ==
  ASSUME TypeInv, NEW z \in BOOLEAN, OnCursor(z)
  PROVE  ClientType' /\ screen' \subseteq 1 .. MaxChunks
  <1>1. /\ pane \in Pane /\ Len(pane.held) <= PENDING_PANE_OUTPUT_MAX
        /\ screen \subseteq 1 .. MaxChunks
        /\ outgoing \in Seq(Seq(Entry)) /\ running \in BOOLEAN
        /\ \A i \in 1 .. Len(outgoing) : IsLine(outgoing[i])
    BY DEF TypeInv, TypeOK, LineInv
  <1>2. CASE pane.reseed
    <2> DEFINE p == [pane EXCEPT !.seeding = FALSE, !.reseed = FALSE, !.seed = None]
    <2>1. p \in Pane /\ p.held = pane.held
      BY <1>1 DEF Pane
    <2>2. seed_pane(p, z) /\ screen' = screen
      BY <1>2 DEF OnCursor
    <2> HIDE DEF p
    <2>3. QED
      BY <1>1, <2>1, <2>2, SeedPane
  <1>3. CASE ~pane.reseed
    <2>1. /\ pane' = [pane EXCEPT !.seeding = FALSE, !.seeded = pane.seed # None,
                                  !.seed = None, !.held = <<>>]
          /\ screen' = (IF pane.seed = None THEN screen ELSE 1 .. pane.seed) \cup Replayed(pane)
          /\ paused' = z
          /\ UNCHANGED <<outgoing, running>>
      BY <1>3 DEF OnCursor
    <2>2. pane' \in Pane
      <3>1. PICK b \in BOOLEAN : b = (pane.seed # None)
        OBVIOUS
      <3>2. pane' = [pane EXCEPT !.seeding = FALSE, !.seeded = b, !.seed = None, !.held = <<>>]
        BY <2>1, <3>1
      <3>3. <<>> \in Seq([chunk : 1 .. MaxChunks, at : 0 .. MaxTicks])
        OBVIOUS
      <3>4. QED
        BY <1>1, <3>2, <3>3 DEF Pane
    <2>3. pane'.held = <<>> /\ Len(<<>>) <= PENDING_PANE_OUTPUT_MAX
      BY <1>1, <2>1, TmuxAssumption DEF Pane
    <2>4. pane.seed # None => 1 .. pane.seed \subseteq 1 .. MaxChunks
      BY <1>1, TmuxAssumption DEF Pane
    <2>5. screen' \subseteq 1 .. MaxChunks
      BY <1>1, <2>1, <2>4, Replays
    <2>6. QED
      BY <1>1, <2>1, <2>2, <2>3, <2>5 DEF ClientType
  <1>4. QED
    BY <1>2, <1>3

LEMMA ReplyType ==
  ASSUME TypeInv, NEW e \in Entry, NEW m \in Message, m.type = "block", OnReply(e, m)
  PROVE  HandledType'
  <1>1. /\ pane \in Pane /\ Len(pane.held) <= PENDING_PANE_OUTPUT_MAX
        /\ screen \subseteq 1 .. MaxChunks /\ paused \in BOOLEAN /\ timer \in BOOLEAN
        /\ pending \in Seq(Entry) /\ now \in 0 .. MaxTicks
    BY DEF TypeInv, TypeOK
  <1>2. m.ok \in BOOLEAN /\ m.shown \in 0 .. MaxChunks
    BY MessageFields
  <1> DEFINE z == paused \/ LeftPaused(e, m.ok)
  <1>3. z \in BOOLEAN /\ timer' \in BOOLEAN
    BY LeftPausedBoolean DEF OnReply
  <1>4. pending' \in Seq(Entry)
    <2>1. pending' = SubSeq(pending, Settled(e, m.ok) + 1, Len(pending))
      BY DEF OnReply
    <2>2. PICK n \in 1 .. 3 : n = Settled(e, m.ok)
      BY <1>2, SettledSome
    <2>3. QED
      BY <1>1, <2>1, <2>2
  <1>5. \/ OnCapture(m.shown)
        \/ OnCursor(z)
        \/ reconcile_panes(FALSE) /\ UNCHANGED screen
        \/ paused' = z /\ UNCHANGED <<pane, outgoing, screen, running>>
    BY DEF OnReply
  <1> HIDE DEF z
  <1>6. CASE OnCapture(m.shown)
    <2>1. pane' \in Pane /\ pane'.held = pane.held
      BY <1>1, <1>2, <1>6, TmuxAssumption DEF OnCapture, Pane
    <2>2. QED
      BY <1>1, <1>3, <1>4, <1>6, <2>1
         DEF OnCapture, HandledType, ClientType, TypeInv, TypeOK, LineInv
  <1>7. CASE OnCursor(z)
    BY <1>3, <1>4, <1>7, CursorType DEF HandledType
  <1>8. CASE reconcile_panes(FALSE) /\ UNCHANGED screen
    BY <1>1, <1>3, <1>4, <1>8, ReconcilePanes DEF HandledType
  <1>9. CASE paused' = z /\ UNCHANGED <<pane, outgoing, screen, running>>
    BY <1>1, <1>3, <1>4, <1>9, ClientUnchanged DEF HandledType
  <1>10. QED
    BY <1>5, <1>6, <1>7, <1>8, <1>9

LEMMA OutputType ==
  ASSUME TypeInv, NEW m \in Message, m.type = "output", m.age <= now, route_output(m)
  PROVE  HandledType'
  <1>1. /\ pane \in Pane /\ Len(pane.held) <= PENDING_PANE_OUTPUT_MAX
        /\ screen \subseteq 1 .. MaxChunks /\ paused \in BOOLEAN /\ timer \in BOOLEAN
        /\ pending \in Seq(Entry) /\ now \in 0 .. MaxTicks
        /\ outgoing \in Seq(Seq(Entry)) /\ running \in BOOLEAN
        /\ \A i \in 1 .. Len(outgoing) : IsLine(outgoing[i])
    BY DEF TypeInv, TypeOK, LineInv
  <1>2. m.chunk \in 1 .. MaxChunks /\ m.age \in 0 .. MaxTicks
    BY MessageFields
  <1> DEFINE K == [chunk : 1 .. MaxChunks, at : 0 .. MaxTicks]
             kept == [chunk |-> m.chunk, at |-> now - m.age]
             held == Append(pane.held, kept)
  <1>3. kept \in K /\ pane.held \in Seq(K)
    BY <1>1, <1>2, TmuxAssumption DEF Pane
  <1>4. /\ held \in Seq(K) /\ Len(held) = Len(pane.held) + 1 /\ held[1] \in K /\ held[1].chunk \in 1 .. MaxChunks
        /\ Tail(held) \in Seq(K) /\ Len(Tail(held)) = Len(pane.held)
    <2>1. PICK h \in Seq(K) : h = pane.held
      BY <1>3
    <2>2. Append(h, kept) \in Seq(K) /\ Len(Append(h, kept)) = Len(h) + 1 /\ Append(h, kept) # <<>>
      BY <1>3, AppendProperties
    <2>3. PICK a \in Seq(K) : a = Append(h, kept)
      BY <2>2
    <2>4. a[1] \in K /\ Tail(a) \in Seq(K) /\ Len(Tail(a)) = Len(a) - 1
      <3> HIDE DEF K
      <3>1. a # <<>>
        BY <2>2, <2>3
      <3>2. QED
        BY <3>1
    <2>5. Len(a) = Len(h) + 1 /\ Len(h) \in Nat
      BY <2>1, <2>2, <2>3
    <2>6. \A x \in K : x.chunk \in 1 .. MaxChunks
      OBVIOUS
    <2> HIDE DEF K, kept
    <2>7. held = a
      BY <2>1, <2>3
    <2>8. QED
      BY <2>1, <2>3, <2>4, <2>5, <2>6, <2>7
  <1>5. /\ paused' = paused /\ timer' = timer /\ outgoing' = outgoing /\ pending' = pending
        /\ running' = running
    BY DEF route_output
  <1>6. CASE pane.seeded
    <2>1. pane' = pane /\ screen' \in {screen, screen \cup {m.chunk}}
      BY <1>6 DEF route_output
    <2>2. QED
      BY <1>1, <1>2, <1>5, <2>1 DEF HandledType, ClientType
  <1>7. CASE ~pane.seeded
    <2>1. /\ pane' = [pane EXCEPT !.held = IF Spills(held) THEN Tail(held) ELSE held]
          /\ screen' \in {screen, screen \cup {held[1].chunk}}
      BY <1>7 DEF route_output
    <2> HIDE DEF held
    <2>2. /\ (IF Spills(held) THEN Tail(held) ELSE held) \in Seq(K)
          /\ Len(IF Spills(held) THEN Tail(held) ELSE held) <= PENDING_PANE_OUTPUT_MAX
      <3>1. CASE Spills(held)
        BY <1>1, <1>4, <3>1
      <3>2. CASE ~Spills(held)
        <4>1. Len(held) \in Nat
          BY <1>4
        <4>2. QED
          BY <1>4, <3>2, <4>1, TmuxAssumption DEF Spills
      <3>3. QED
        BY <3>1, <3>2
    <2>3. PICK new \in Seq(K) : new = (IF Spills(held) THEN Tail(held) ELSE held)
                                 /\ Len(new) <= PENDING_PANE_OUTPUT_MAX
      BY <2>2
    <2>4. pane' \in Pane /\ pane'.held = new
      BY <1>1, <2>1, <2>3 DEF Pane
    <2>5. QED
      BY <1>1, <1>4, <1>5, <2>1, <2>3, <2>4 DEF HandledType, ClientType
  <1>8. QED
    BY <1>6, <1>7

LEMMA HandledTypes ==
  ASSUME TypeInv, running, handle_message
  PROVE  HandledType'
  <1>1. /\ wire \in Seq(Message) /\ wire # <<>>
        /\ pane \in Pane /\ Len(pane.held) <= PENDING_PANE_OUTPUT_MAX
        /\ screen \subseteq 1 .. MaxChunks /\ paused \in BOOLEAN /\ timer \in BOOLEAN
        /\ pending \in Seq(Entry)
    BY DEF TypeInv, TypeOK, handle_message
  <1>2. PICK m \in Message : m = Head(wire) /\ m = wire[1] /\ 1 \in 1 .. Len(wire)
    BY <1>1
  <1>3. m.type = "output" => m.age <= now
    BY <1>2 DEF TypeInv, AgeInv
  <1>4. \/ m.type = "output" /\ route_output(m)
        \/ m.type = "layout" /\ reconcile_panes(TRUE) /\ UNCHANGED <<timer, pending, screen>>
        \/ m.type = "pause" /\ OnPause
        \/ m.type = "continue" /\ OnContinue
        \/ m.type = "block" /\ OnBlock(m)
    BY <1>2 DEF handle_message
  <1>5. CASE m.type = "output" /\ route_output(m)
    BY <1>3, <1>5, OutputType
  <1>6. CASE reconcile_panes(TRUE) /\ UNCHANGED <<timer, pending, screen>>
    BY <1>1, <1>6, ReconcilePanes DEF HandledType
  <1>7. CASE OnPause
    <2>1. pane' \in Pane /\ Len(pane'.held) <= PENDING_PANE_OUTPUT_MAX
      <3>1. CASE pane' = pane
        BY <1>1, <3>1
      <3>2. CASE pane' = [pane EXCEPT !.gen = @ + 1, !.seeded = FALSE, !.seeding = FALSE,
                            !.reseed = FALSE, !.seed = None, !.capture_at = None, !.held = <<>>]
        <4>1. <<>> \in Seq([chunk : 1 .. MaxChunks, at : 0 .. MaxTicks])
              /\ Len(<<>>) <= PENDING_PANE_OUTPUT_MAX
          BY TmuxAssumption
        <4>2. pane' \in Pane /\ pane'.held = <<>>
          <5>1. PICK g \in Nat : g = pane.gen + 1
            BY <1>1 DEF Pane
          <5>2. pane' = [pane EXCEPT !.gen = g, !.seeded = FALSE, !.seeding = FALSE,
                           !.reseed = FALSE, !.seed = None, !.capture_at = None, !.held = <<>>]
            BY <3>2, <5>1
          <5>3. QED
            BY <1>1, <5>2, <4>1 DEF Pane
        <4>3. QED
          BY <4>1, <4>2
      <3>3. QED
        BY <1>7, <3>1, <3>2 DEF OnPause, invalidate_seed
    <2>2. QED
      BY <1>1, <1>7, <2>1 DEF OnPause, HandledType, ClientType, TypeInv, TypeOK, LineInv
  <1>8. CASE OnContinue
    BY <1>1, <1>8, ContinuePaused DEF OnContinue, HandledType
  <1>9. CASE m.type = "block" /\ OnBlock(m)
    <2>1. CASE UNCHANGED client
      BY <1>1, <2>1, ClientUnchanged DEF HandledType, client
    <2>2. CASE pending # <<>> /\ OnReply(pending[1], m)
      <3>1. pending[1] \in Entry
        BY <1>1, <2>2
      <3>2. QED
        BY <1>9, <2>2, <3>1, ReplyType
    <2>3. QED
      BY <1>9, <2>1, <2>2 DEF OnBlock
  <1>10. QED
    BY <1>4, <1>5, <1>6, <1>7, <1>8, <1>9

\* Ages and lines survive a step that adds nothing to the wire.
LEMMA HandleType ==
  ASSUME TypeInv, running, handle_message
  PROVE  TypeInv'
  <1>1. HandledType'
    BY HandledTypes
  <1>2. /\ wire \in Seq(Message) /\ wire # <<>> /\ wire' = Tail(wire)
        /\ now' = now /\ tmux' = tmux /\ events' = events /\ cmds' = cmds
    BY DEF handle_message, TypeInv, TypeOK, server
  <1>3. /\ wire' \in Seq(Message) /\ Len(wire') = Len(wire) - 1
        /\ \A i \in 1 .. Len(wire') : i + 1 \in 1 .. Len(wire) /\ wire'[i] = wire[i + 1]
    BY <1>2
  <1>4. AgeInv'
    BY <1>2, <1>3 DEF AgeInv, TypeInv
  <1>5. QED
    BY <1>1, <1>2, <1>3, <1>4 DEF TypeInv, TypeOK, LineInv, HandledType, ClientType

(* The queue of start_send begins with a line that is not obsolete.        *)
LEMMA Skipped ==
  ASSUME NEW q \in Seq(Seq(Entry))
  PROVE  \E k \in 1 .. (Len(q) + 1) :
           /\ SkipStale(q) = SubSeq(q, k, Len(q))
           /\ \A i \in 1 .. (k - 1) : Stale(q[i])
           /\ k <= Len(q) => ~Stale(q[k])
  <1> DEFINE S == {i \in DOMAIN q : ~Stale(q[i])} \cup {Len(q) + 1}
  <1>1. Len(q) \in Nat /\ DOMAIN q = 1 .. Len(q)
    OBVIOUS
  <1>2. (\A x \in S : x \in 1 .. (Len(q) + 1)) /\ S # {}
    BY <1>1
  <1>3. \A x \in S : x \in Nat
    BY <1>1, <1>2
  <1>4. \E k \in S : \A y \in S : k <= y
    BY <1>2, <1>3, LeastNumber, Zenon
  <1>5. Min(S) \in S /\ \A y \in S : Min(S) <= y
    BY <1>4 DEF Min
  <1>6. PICK k \in S : k = Min(S) /\ \A y \in S : k <= y
    BY <1>5
  <1>7. SkipStale(q) = SubSeq(q, k, Len(q))
    BY <1>6 DEF SkipStale
  <1>8. k \in 1 .. (Len(q) + 1)
    BY <1>2
  <1>9. \A i \in 1 .. (k - 1) : Stale(q[i])
    <2> SUFFICES ASSUME NEW i \in 1 .. (k - 1), ~Stale(q[i]) PROVE FALSE
      OBVIOUS
    <2>1. i \in DOMAIN q /\ ~(k <= i)
      BY <1>1, <1>8
    <2>2. i \in S
      BY <2>1
    <2>3. QED
      BY <1>6, <2>1, <2>2
  <1>10. k <= Len(q) => ~Stale(q[k])
    BY <1>1, <1>8
  <1>11. QED
    BY <1>7, <1>8, <1>9, <1>10

LEMMA SendType ==
  ASSUME TypeInv, start_send
  PROVE  TypeInv'
  <1>1. /\ outgoing \in Seq(Seq(Entry)) /\ pending \in Seq(Entry) /\ cmds \in Seq(Seq(Entry))
        /\ \A i \in 1 .. Len(outgoing) : IsLine(outgoing[i])
        /\ \A i \in 1 .. Len(cmds) : IsLine(cmds[i])
    BY DEF TypeInv, TypeOK, LineInv
  <1>2. PICK k \in 1 .. (Len(outgoing) + 1) : SkipStale(outgoing) = SubSeq(outgoing, k, Len(outgoing))
    BY <1>1, Skipped
  <1>3. PICK q \in Seq(Seq(Entry)) : q = SkipStale(outgoing) /\ \A i \in 1 .. Len(q) : IsLine(q[i])
    <2>1. /\ SubSeq(outgoing, k, Len(outgoing)) \in Seq(Seq(Entry))
          /\ Len(SubSeq(outgoing, k, Len(outgoing))) = Len(outgoing) + 1 - k
          /\ \A i \in 1 .. (Len(outgoing) + 1 - k) :
               SubSeq(outgoing, k, Len(outgoing))[i] = outgoing[k - 1 + i]
      BY <1>1, <1>2
    <2>2. \A i \in 1 .. (Len(outgoing) + 1 - k) : k - 1 + i \in 1 .. Len(outgoing)
      BY <1>1, <1>2
    <2>3. QED
      BY <1>1, <1>2, <2>1, <2>2
  <1>4. CASE outgoing' = q /\ pending' = pending /\ cmds' = cmds
    BY <1>1, <1>3, <1>4 DEF start_send, TypeInv, TypeOK, LineInv, AgeInv, server
  <1>5. CASE /\ q # <<>> /\ outgoing' = Tail(q) /\ pending' = pending \o q[1]
             /\ cmds' = Append(cmds, q[1])
    <2>1. q[1] \in Seq(Entry) /\ IsLine(q[1]) /\ 1 \in 1 .. Len(q)
      BY <1>3, <1>5
    <2>2. /\ cmds' \in Seq(Seq(Entry)) /\ \A i \in 1 .. Len(cmds') : IsLine(cmds'[i])
      BY <1>1, <1>5, <2>1, AppendLine
    <2>3. pending' \in Seq(Entry)
      BY <1>1, <1>5, <2>1, ConcatProperties
    <2>4. /\ outgoing' \in Seq(Seq(Entry)) /\ Len(outgoing') = Len(q) - 1
          /\ \A i \in 1 .. Len(outgoing') : outgoing'[i] = q[i + 1] /\ i + 1 \in 1 .. Len(q)
      BY <1>3, <1>5
    <2>5. \A i \in 1 .. Len(outgoing') : IsLine(outgoing'[i])
      BY <1>3, <2>4
    <2>6. QED
      BY <2>2, <2>3, <2>4, <2>5 DEF start_send, TypeInv, TypeOK, LineInv, AgeInv, server
  <1>6. QED
    BY <1>3, <1>4, <1>5 DEF start_send

-----------------------------------------------------------------------------
(* The server's steps.                                                     *)

(* What Execute appends: the replies to a line, one after the other.       *)
LEMMA RepliesFields ==
  ASSUME TypeOK, NEW l \in Seq(Entry), NEW f \in 0 .. Len(l)
  PROVE  /\ Replies(l, f) \in Seq(Message)
         /\ f = 0 => Len(Replies(l, f)) = Len(l)
         /\ f # 0 => Len(Replies(l, f)) = f
         /\ \A i \in 1 .. Len(Replies(l, f)) :
              /\ i \in 1 .. Len(l)
              /\ Replies(l, f)[i].type = "block" /\ Replies(l, f)[i].ok = (i # f)
              /\ Replies(l, f)[i].barrier = FALSE
              /\ l[i].kind = "capture" => Replies(l, f)[i].shown = Len(tmux.made)
              /\ i = f => Replies(l, f)[i].answers = SubSeq(l, i, Len(l))
              /\ i # f => Replies(l, f)[i].answers = <<l[i]>>
  <1> DEFINE n == IF f = 0 THEN Len(l) ELSE f
             shown(i) == IF l[i].kind = "capture" THEN Len(tmux.made) ELSE 0
             answers(i) == IF i = f THEN SubSeq(l, i, Len(l)) ELSE <<l[i]>>
             r == [i \in 1 .. n |-> Block(i # f, FALSE, shown(i), answers(i))]
  <1>1. Replies(l, f) = r
    BY DEF Replies
  <1>2. n \in Nat /\ n <= Len(l) /\ Len(l) \in Nat
    OBVIOUS
  <1>3. \A i \in 1 .. n : Block(i # f, FALSE, shown(i), answers(i)) \in Message
    <2> TAKE i \in 1 .. n
    <2>1. i \in 1 .. Len(l)
      BY <1>2
    <2>2. shown(i) \in 0 .. MaxChunks
      BY TmuxAssumption DEF TypeOK
    <2>3. answers(i) \in Seq(Entry)
      <3>1. SubSeq(l, i, Len(l)) \in Seq(Entry) /\ <<l[i]>> \in Seq(Entry)
        BY <2>1
      <3>2. QED
        BY <3>1
    <2>4. PICK b \in BOOLEAN : b = (i # f)
      OBVIOUS
    <2> HIDE DEF shown, answers
    <2>5. Block(b, FALSE, shown(i), answers(i)) \in Message
      BY <2>2, <2>3, <2>4 DEF Block, Message
    <2>6. QED
      BY <2>4, <2>5
  <1>4. \A i \in 1 .. n : r[i] = Block(i # f, FALSE, shown(i), answers(i))
    OBVIOUS
  <1>5. r \in Seq(Message) /\ Len(r) = n
    <2> HIDE DEF n, shown, answers
    <2>1. r \in [1 .. n -> Message]
      BY <1>3
    <2>2. PICK s \in [1 .. n -> Message] : s = r
      BY <2>1
    <2> HIDE DEF r
    <2>3. s \in Seq(Message) /\ Len(s) = n
      BY <1>2
    <2>4. QED
      BY <2>2, <2>3
  <1>6. \A i \in 1 .. n : i \in 1 .. Len(l)
    BY <1>2
  <1>7. \A i \in 1 .. n : /\ r[i].type = "block" /\ r[i].ok = (i # f) /\ r[i].barrier = FALSE
                          /\ r[i].shown = shown(i) /\ r[i].answers = answers(i)
    <2> HIDE DEF n, r, shown, answers
    <2> TAKE i \in 1 .. n
    <2>2. PICK b : b = (i # f)
      OBVIOUS
    <2>3. PICK s, a : s = shown(i) /\ a = answers(i)
      OBVIOUS
    <2>4. r[i] = Block(b, FALSE, s, a)
      BY <1>4, <2>2, <2>3
    <2>5. /\ Block(b, FALSE, s, a).type = "block" /\ Block(b, FALSE, s, a).ok = b
          /\ Block(b, FALSE, s, a).barrier = FALSE
          /\ Block(b, FALSE, s, a).shown = s /\ Block(b, FALSE, s, a).answers = a
      BY DEF Block
    <2>6. r[i].type = "block" /\ r[i].ok = b /\ r[i].barrier = FALSE /\ r[i].shown = s /\ r[i].answers = a
      BY <2>4, <2>5, Zenon
    <2>7. r[i].ok = (i # f)
      BY <2>2, <2>6
    <2>8. QED
      BY <2>3, <2>6, <2>7
  <1>8. \A i \in 1 .. n : l[i].kind = "capture" => shown(i) = Len(tmux.made)
    OBVIOUS
  <1> HIDE DEF r, shown
  <1>9. QED
    BY <1>1, <1>5, <1>6, <1>7, <1>8

LEMMA RepliesLen ==
  ASSUME TypeOK, NEW l \in Seq(Entry), NEW f \in 0 .. Len(l)
  PROVE  Len(Replies(l, f)) = IF f = 0 THEN Len(l) ELSE f
  <1>1. PICK n \in Nat : n = IF f = 0 THEN Len(l) ELSE f
    OBVIOUS
  <1>2. PICK r \in Seq(Message) : r = Replies(l, f) /\ DOMAIN r = 1 .. n
    <2>1. Replies(l, f) \in Seq(Message)
      BY RepliesFields
    <2>2. DOMAIN Replies(l, f) = 1 .. n
      BY <1>1 DEF Replies
    <2>3. QED
      BY <2>1, <2>2
  <1>3. Len(r) = n
    BY <1>2
  <1>4. QED
    BY <1>1, <1>2, <1>3

LEMMA UserRepliesFields ==
  ASSUME TypeOK, NEW r \in UserReplies
  PROVE  /\ r \in Seq(Message)
         /\ \/ r = <<Block(TRUE, TRUE, 0, <<User>>)>>
            \/ \E ok \in BOOLEAN : r = <<Block(ok, FALSE, 0, <<>>), Block(TRUE, TRUE, 0, <<User>>)>>
  <1>1. Block(TRUE, TRUE, 0, <<User>>) \in Message
    BY PlainLines, TmuxAssumption DEF Block, Message
  <1>2. \A ok \in BOOLEAN : Block(ok, FALSE, 0, <<>>) \in Message
    BY TmuxAssumption DEF Block, Message
  <1>3. \A x, y \in Message : <<x>> \in Seq(Message) /\ <<x, y>> \in Seq(Message)
    OBVIOUS
  <1>4. \/ r = <<Block(TRUE, TRUE, 0, <<User>>)>>
        \/ \E ok \in BOOLEAN : r = <<Block(ok, FALSE, 0, <<>>), Block(TRUE, TRUE, 0, <<User>>)>>
    BY DEF UserReplies
  <1>5. QED
    BY <1>1, <1>2, <1>3, <1>4

LEMMA ExecuteType ==
  ASSUME TypeInv, Execute
  PROVE  TypeInv'
  <1>1. /\ cmds \in Seq(Seq(Entry)) /\ cmds # <<>> /\ cmds' = Tail(cmds) /\ wire \in Seq(Message)
        /\ now' = now /\ UNCHANGED client
    BY DEF Execute, TypeInv, TypeOK
  <1>2. PICK l \in Seq(Entry) : l = Head(cmds)
    BY <1>1
  <1>3. PICK r \in Seq(Message) :
          /\ wire' = wire \o r /\ \A i \in 1 .. Len(r) : r[i].type = "block"
          /\ tmux' \in {tmux, Resumed} /\ events' \in {events, events + 1}
          /\ events' # events => events < MaxEvents
    <2>1. CASE /\ \E r \in UserReplies : wire' = wire \o r
               /\ UNCHANGED <<tmux, events>>
      <3>1. PICK r \in UserReplies : wire' = wire \o r
        BY <2>1
      <3>2. r \in Seq(Message) /\ \A i \in 1 .. Len(r) : r[i].type = "block"
        BY UserRepliesFields DEF TypeInv, Block
      <3>3. QED
        BY <2>1, <3>1, <3>2
    <2>2. CASE \E f \in 0 .. Len(l) :
             /\ IF f = 0 THEN UNCHANGED events ELSE l[f].kind \in Failing /\ Event
             /\ wire' = wire \o Replies(l, f)
             /\ tmux' = IF f = 0 /\ l[Len(l)].kind = "continue" THEN Resumed ELSE tmux
      <3>1. PICK f \in 0 .. Len(l) :
             /\ IF f = 0 THEN UNCHANGED events ELSE l[f].kind \in Failing /\ Event
             /\ wire' = wire \o Replies(l, f)
             /\ tmux' = IF f = 0 /\ l[Len(l)].kind = "continue" THEN Resumed ELSE tmux
        BY <2>2
      <3>2. Replies(l, f) \in Seq(Message) /\ \A i \in 1 .. Len(Replies(l, f)) : Replies(l, f)[i].type = "block"
        BY RepliesFields DEF TypeInv
      <3>3. tmux' \in {tmux, Resumed}
        BY <3>1
      <3>4. events' \in {events, events + 1} /\ (events' # events => events < MaxEvents)
        BY <3>1 DEF Event
      <3>5. QED
        BY <3>1, <3>2, <3>3, <3>4
    <2>3. QED
      BY <1>2, <2>1, <2>2 DEF Execute
  <1>4. /\ wire' \in Seq(Message) /\ Len(wire') = Len(wire) + Len(r)
        /\ \A i \in 1 .. Len(wire') : IF i <= Len(wire) THEN i \in 1 .. Len(wire) /\ wire'[i] = wire[i]
                                      ELSE wire'[i].type = "block"
    <2>1. /\ wire \o r \in Seq(Message) /\ Len(wire \o r) = Len(wire) + Len(r)
          /\ \A i \in 1 .. (Len(wire) + Len(r)) : (wire \o r)[i] =
               IF i <= Len(wire) THEN wire[i] ELSE r[i - Len(wire)]
      BY <1>1, ConcatProperties
    <2>2. Len(wire) \in Nat /\ Len(r) \in Nat
      BY <1>1
    <2>3. \A i \in 1 .. (Len(wire) + Len(r)) :
            IF i <= Len(wire) THEN i \in 1 .. Len(wire) ELSE i - Len(wire) \in 1 .. Len(r)
      BY <2>2
    <2>4. QED
      BY <1>3, <2>1, <2>3
  <1>5. /\ tmux' \in [made : Seq(0 .. MaxTicks), sent : Nat, paused : BOOLEAN]
        /\ tmux'.made = tmux.made /\ tmux'.sent <= Len(tmux.made)
    <2>1. /\ tmux \in [made : Seq(0 .. MaxTicks), sent : Nat, paused : BOOLEAN]
          /\ tmux.sent <= Len(tmux.made)
      BY DEF TypeInv, TypeOK
    <2>2. PICK n \in Nat : n = Len(tmux.made)
      BY <2>1
    <2>3. CASE tmux' = tmux
      BY <2>1, <2>3
    <2>4. CASE tmux' = [tmux EXCEPT !.paused = FALSE, !.sent = n]
      <3>1. tmux'.made = tmux.made /\ tmux'.sent = n
        BY <2>1, <2>4
      <3>2. tmux' \in [made : Seq(0 .. MaxTicks), sent : Nat, paused : BOOLEAN]
        BY <2>1, <2>4
      <3>3. QED
        BY <2>2, <3>1, <3>2
    <2>5. QED
      BY <1>3, <2>2, <2>3, <2>4 DEF Resumed
  <1>6. cmds' \in Seq(Seq(Entry)) /\ \A i \in 1 .. Len(cmds') : IsLine(cmds'[i])
    <2>1. /\ cmds' \in Seq(Seq(Entry)) /\ Len(cmds') = Len(cmds) - 1
          /\ \A i \in 1 .. Len(cmds') : cmds'[i] = cmds[i + 1] /\ i + 1 \in 1 .. Len(cmds)
      BY <1>1
    <2>2. QED
      BY <2>1 DEF TypeInv, LineInv
  <1>7. AgeInv'
    BY <1>1, <1>4, <1>5 DEF AgeInv, TypeInv
  <1>8. events' \in 0 .. MaxEvents
    BY <1>3, TmuxAssumption DEF TypeInv, TypeOK
  <1>9. QED
    BY <1>1, <1>4, <1>5, <1>6, <1>7, <1>8 DEF TypeInv, TypeOK, LineInv, client

\* A message that is sent joins the end of the wire.
LEMMA NotifyType ==
  ASSUME wire \in Seq(Message), NEW m \in Message, Notify(m)
  PROVE  /\ wire' \in Seq(Message) /\ Len(wire') = Len(wire) + 1 /\ wire'[Len(wire) + 1] = m
         /\ \A i \in 1 .. Len(wire') : IF i <= Len(wire) THEN i \in 1 .. Len(wire) /\ wire'[i] = wire[i]
                                       ELSE i = Len(wire) + 1
  <1>1. /\ wire' \in Seq(Message) /\ Len(wire') = Len(wire) + 1 /\ wire'[Len(wire) + 1] = m
        /\ \A i \in 1 .. Len(wire) : wire'[i] = wire[i]
    BY AppendProperties DEF Notify
  <1>2. Len(wire) \in Nat
    OBVIOUS
  <1>3. QED
    BY <1>1, <1>2

LEMMA PlainMessages ==
  /\ [type |-> "pause"] \in Message /\ [type |-> "continue"] \in Message
  /\ [type |-> "layout"] \in Message
  BY DEF Message

LEMMA ServerType ==
  ASSUME TypeInv, Tick \/ Produce \/ SendOutput \/ PausePane \/ ResumePane \/ ChangeLayout
  PROVE  TypeInv'
  <1>1. /\ now \in 0 .. MaxTicks /\ wire \in Seq(Message) /\ Len(wire) \in Nat /\ Len(tmux.made) \in Nat
        /\ tmux \in [made : Seq(0 .. MaxTicks), sent : Nat, paused : BOOLEAN]
        /\ tmux.sent <= Len(tmux.made) /\ Len(tmux.made) <= MaxChunks /\ events \in 0 .. MaxEvents
        /\ \A i \in 1 .. Len(wire) : wire[i] \in Message
    BY DEF TypeInv, TypeOK
  <1>2. CASE Tick
    <2>1. now' \in 0 .. MaxTicks /\ now' = now + 1
      BY <1>1, <1>2, TmuxAssumption DEF Tick
    <2>2. \A i \in 1 .. Len(wire) : wire[i].type = "output" => wire[i].age \in Nat
      BY <1>1, MessageFields, TmuxAssumption
    <2>3. \A k \in 1 .. Len(tmux.made) : tmux.made[k] \in Nat
      <3>1. \A T : \A h \in Seq(T) : \A k \in 1 .. Len(h) : h[k] \in T
        OBVIOUS
      <3>2. \A k \in 1 .. Len(tmux.made) : tmux.made[k] \in 0 .. MaxTicks
        BY <1>1, <3>1
      <3>3. QED
        BY <3>2, TmuxAssumption
    <2>4. AgeInv'
      BY <1>1, <1>2, <2>1, <2>2, <2>3 DEF AgeInv, TypeInv, Tick, server
    <2>5. QED
      BY <1>2, <2>1, <2>4 DEF TypeInv, TypeOK, LineInv, Tick, server, client
  <1>3. CASE Produce
    <2>1. PICK h \in Seq(0 .. MaxTicks) : h = tmux.made
      BY <1>1
    <2>2. PICK a : a = Append(h, now)
      OBVIOUS
    <2>3. /\ a \in Seq(0 .. MaxTicks) /\ Len(a) = Len(h) + 1
          /\ a[Len(h) + 1] = now /\ \A i \in 1 .. Len(h) : a[i] = h[i]
      BY <1>1, <2>2, AppendProperties
    <2>4. tmux' = [tmux EXCEPT !.made = a]
      BY <1>3, <2>1, <2>2 DEF Produce
    <2>5. /\ tmux' \in [made : Seq(0 .. MaxTicks), sent : Nat, paused : BOOLEAN]
          /\ tmux'.made = a /\ tmux'.sent = tmux.sent
      BY <1>1, <2>3, <2>4
    <2>6. Len(h) + 1 <= MaxChunks /\ Len(h) \in Nat
      BY <1>1, <1>3, <2>1, TmuxAssumption DEF Produce
    <2>7. now' = now /\ wire' = wire /\ events' = events /\ cmds' = cmds /\ UNCHANGED client
      BY <1>3 DEF Produce
    <2>8. \A k \in 1 .. Len(a) : a[k] <= now
      <3>1. \A k \in 1 .. Len(a) : k \in 1 .. Len(h) \/ k = Len(h) + 1
        BY <2>3, <2>6
      <3>2. \A k \in 1 .. Len(h) : h[k] <= now
        BY <2>1 DEF TypeInv, AgeInv
      <3>3. QED
        BY <1>1, <2>3, <3>1, <3>2
    <2>9. AgeInv'
      BY <2>5, <2>7, <2>8 DEF AgeInv, TypeInv
    <2>10. tmux'.sent <= Len(tmux'.made) /\ Len(tmux'.made) <= MaxChunks
      BY <1>1, <2>1, <2>3, <2>5, <2>6
    <2>11. QED
      BY <2>5, <2>7, <2>9, <2>10 DEF TypeInv, TypeOK, LineInv, client
  <1>4. ASSUME NEW m \in Message, Notify(m), m.type = "output" => m.age <= now,
               now' = now, tmux' \in [made : Seq(0 .. MaxTicks), sent : Nat, paused : BOOLEAN],
               tmux'.made = tmux.made, tmux'.sent <= Len(tmux.made),
               events' \in 0 .. MaxEvents, cmds' = cmds, UNCHANGED client
        PROVE  TypeInv'
    <2>1. AgeInv'
      BY <1>1, <1>4, NotifyType DEF AgeInv, TypeInv
    <2>2. wire' \in Seq(Message)
      BY <1>1, <1>4, NotifyType
    <2>3. QED
      BY <1>1, <1>4, <2>1, <2>2 DEF TypeInv, TypeOK, LineInv, client
  <1>5. CASE SendOutput
    <2> DEFINE k == tmux.sent + 1
               m == [type |-> "output", chunk |-> k, age |-> now - tmux.made[k]]
    <2>1. k \in 1 .. Len(tmux.made) /\ k \in 1 .. MaxChunks /\ k \in Nat
      BY <1>1, <1>5, TmuxAssumption, SMTT(30) DEF SendOutput
    <2>2. tmux.made[k] \in 0 .. MaxTicks /\ tmux.made[k] <= now
      <3>1. \A T : \A h \in Seq(T) : \A i \in 1 .. Len(h) : h[i] \in T
        OBVIOUS
      <3>2. QED
        BY <1>1, <2>1, <3>1 DEF TypeInv, AgeInv
    <2>3. now - tmux.made[k] \in 0 .. MaxTicks /\ now - tmux.made[k] <= now
      BY <1>1, <2>2, TmuxAssumption
    <2>4. Notify(m) /\ tmux' = [tmux EXCEPT !.sent = k]
      BY <1>5 DEF SendOutput
    <2>5. now' = now /\ events' = events /\ cmds' = cmds /\ UNCHANGED client
      BY <1>5 DEF SendOutput
    <2>6. m \in Message /\ m.type = "output" /\ m.age <= now
      BY <2>1, <2>3 DEF Message
    <2> HIDE DEF m, k
    <2>7. /\ tmux' \in [made : Seq(0 .. MaxTicks), sent : Nat, paused : BOOLEAN]
          /\ tmux'.made = tmux.made /\ tmux'.sent = k
      BY <1>1, <2>1, <2>4
    <2>8. k <= Len(tmux.made)
      BY <1>1, <2>1
    <2>9. QED
      BY <1>1, <1>4, <2>4, <2>5, <2>6, <2>7, <2>8
  <1>6. Event => events' \in 0 .. MaxEvents
    BY <1>1, TmuxAssumption DEF Event
  <1>7. CASE PausePane
    <2>1. /\ tmux' \in [made : Seq(0 .. MaxTicks), sent : Nat, paused : BOOLEAN]
          /\ tmux'.made = tmux.made /\ tmux'.sent = tmux.sent
      BY <1>1, <1>7 DEF PausePane
    <2>2. /\ Notify([type |-> "pause"]) /\ now' = now /\ cmds' = cmds /\ UNCHANGED client /\ Event
          /\ [type |-> "pause"].type # "output"
      BY <1>7 DEF PausePane
    <2>3. QED
      BY <1>1, <1>4, <1>6, <2>1, <2>2, PlainMessages
  <1>8. CASE ResumePane
    <2>1. PICK n \in Nat : n = Len(tmux.made)
      BY <1>1
    <2>2. tmux' = [tmux EXCEPT !.paused = FALSE, !.sent = n]
      BY <1>8, <2>1 DEF ResumePane, Resumed
    <2>3. tmux'.made = tmux.made /\ tmux'.sent = n
      BY <1>1, <2>2
    <2>4. tmux' \in [made : Seq(0 .. MaxTicks), sent : Nat, paused : BOOLEAN]
      BY <1>1, <2>2
    <2>5. /\ Notify([type |-> "continue"]) /\ now' = now /\ cmds' = cmds /\ UNCHANGED client /\ Event
          /\ [type |-> "continue"].type # "output"
      BY <1>8 DEF ResumePane
    <2>6. QED
      BY <1>1, <1>4, <1>6, <2>1, <2>3, <2>4, <2>5, PlainMessages
  <1>9. CASE ChangeLayout
    <2>1. /\ Notify([type |-> "layout"]) /\ now' = now /\ cmds' = cmds /\ UNCHANGED client /\ Event
          /\ [type |-> "layout"].type # "output" /\ tmux' = tmux
      BY <1>9 DEF ChangeLayout
    <2>2. QED
      BY <1>1, <1>4, <1>6, <2>1, PlainMessages
  <1>10. QED
    BY <1>2, <1>3, <1>5, <1>7, <1>8, <1>9

LEMMA ClientStepType ==
  ASSUME TypeInv, refresh_windows \/ queue_user_command \/ continue_paused
  PROVE  TypeInv'
  <1>1. events \in 0 .. MaxEvents /\ events' \in {events, events + 1} /\ (events' # events => events < MaxEvents)
    BY DEF refresh_windows, queue_user_command, continue_paused, Event, server, TypeInv, TypeOK
  <1>2. events' \in 0 .. MaxEvents
    BY <1>1, TmuxAssumption
  <1>3. ClientType' /\ timer' \in BOOLEAN
    <2>1. CASE continue_paused
      <3>1. ClientType'
        BY <2>1, ContinuePaused DEF continue_paused
      <3>2. QED
        BY <2>1, <3>1 DEF continue_paused
    <2>2. CASE refresh_windows
      <3>1. queue_batch(<<Windows>>) /\ pane' = pane /\ paused' = paused /\ timer' = timer
        BY <2>2 DEF refresh_windows
      <3>2. QED
        BY <3>1, QueueBatch, PlainLines DEF ClientType, TypeInv, TypeOK
    <2>3. CASE queue_user_command
      <3>1. queue_batch(<<User>>) /\ pane' = pane /\ paused' = paused /\ timer' = timer
        BY <2>3 DEF queue_user_command
      <3>2. QED
        BY <3>1, QueueBatch, PlainLines DEF ClientType, TypeInv, TypeOK
    <2>4. QED
      BY <2>1, <2>2, <2>3
  <1>4. /\ now' = now /\ tmux' = tmux /\ cmds' = cmds /\ wire' = wire /\ pending' = pending
        /\ screen' = screen
    BY DEF refresh_windows, queue_user_command, continue_paused, server
  <1>5. QED
    BY <1>2, <1>3, <1>4 DEF TypeInv, TypeOK, LineInv, AgeInv, ClientType

LEMMA InitType ==
  ASSUME Init
  PROVE  TypeInv
  <1>1. <<Windows>> \in Seq(Entry) /\ IsLine(<<Windows>>)
    BY PlainLines
  <1>2. \A l \in Seq(Entry) : <<l>> \in Seq(Seq(Entry)) /\ Len(<<l>>) = 1 /\ <<l>>[1] = l
    OBVIOUS
  <1>3. outgoing \in Seq(Seq(Entry)) /\ \A i \in 1 .. Len(outgoing) : IsLine(outgoing[i])
    BY <1>1, <1>2 DEF Init
  <1>4. pane \in Pane /\ Len(pane.held) <= PENDING_PANE_OUTPUT_MAX
    BY TmuxAssumption DEF Init, Unmapped, Pane
  <1>5. tmux \in [made : Seq(0 .. MaxTicks), sent : Nat, paused : BOOLEAN] /\ tmux.made = <<>> /\ tmux.sent = 0
    BY DEF Init
  <1>6. LineInv /\ AgeInv
    BY <1>3, <1>5 DEF Init, LineInv, AgeInv
  <1>7. <<>> \in Seq(Entry) /\ <<>> \in Seq(Seq(Entry)) /\ <<>> \in Seq(Message) /\ Len(<<>>) = 0
    OBVIOUS
  <1>8. now \in 0 .. MaxTicks /\ events \in 0 .. MaxEvents /\ 0 <= MaxChunks
    BY TmuxAssumption DEF Init
  <1>9. /\ cmds \in Seq(Seq(Entry)) /\ wire \in Seq(Message) /\ pending \in Seq(Entry)
        /\ paused \in BOOLEAN /\ timer \in BOOLEAN /\ running \in BOOLEAN
        /\ screen \subseteq 1 .. MaxChunks
    BY <1>7 DEF Init
  <1>10. tmux.sent <= Len(tmux.made) /\ Len(tmux.made) <= MaxChunks
    BY <1>5, <1>7, <1>8
  <1>11. QED
    BY <1>3, <1>4, <1>5, <1>6, <1>8, <1>9, <1>10 DEF TypeInv, TypeOK

LEMMA NextType ==
  ASSUME TypeInv, [Next]_vars
  PROVE  TypeInv'
  <1>1. CASE UNCHANGED vars
    BY <1>1 DEF TypeInv, TypeOK, LineInv, AgeInv, vars, server, client
  <1>2. CASE Next
    BY <1>2, ServerType, ExecuteType, SendType, ClientStepType, HandleType DEF Next
  <1>3. QED
    BY <1>1, <1>2

LEMMA TypeInvariant == Spec => []TypeInv
  BY InitType, NextType, PTL DEF Spec

(* Every reachable state is well typed: instants and ages stay within the  *)
(* clock, the kept output within its bound.                                *)
THEOREM TypeCorrect == Spec => []TypeOK
  <1>1. TypeInv => TypeOK
    BY DEF TypeInv
  <1>2. QED
    BY <1>1, TypeInvariant, PTL

-----------------------------------------------------------------------------
(* Replies and commands.  Owed(w) are the entries that the messages w      *)
(* settle, in order.                                                       *)

Settling(w) == [i \in 1 .. Len(w) |-> Settles(w[i])]
Owed(w) == FlattenSeq(Settling(w))

Blocks(w) == \A i \in 1 .. Len(w) : w[i].type = "block" => Shaped(w[i]) /\ Adjacent(w, i)

LEMMA SettlingFields ==
  ASSUME NEW w \in Seq(Message)
  PROVE  /\ Settling(w) \in Seq(Seq(Entry)) /\ Len(Settling(w)) = Len(w)
         /\ \A i \in 1 .. Len(w) : Settling(w)[i] = Settles(w[i])
  <1>1. \A i \in 1 .. Len(w) : Settles(w[i]) \in Seq(Entry)
    BY MessageFields
  <1>2. PICK s \in [1 .. Len(w) -> Seq(Entry)] : s = Settling(w)
    BY <1>1 DEF Settling
  <1>3. s \in Seq(Seq(Entry)) /\ Len(s) = Len(w)
    OBVIOUS
  <1>4. \A i \in 1 .. Len(w) : Settling(w)[i] = Settles(w[i])
    BY DEF Settling
  <1>5. QED
    BY <1>2, <1>3, <1>4

LEMMA OwedType ==
  ASSUME NEW w \in Seq(Message)
  PROVE  Owed(w) \in Seq(Entry)
  BY SettlingFields, Flattened DEF Owed

LEMMA OwedConcat ==
  ASSUME NEW w \in Seq(Message), NEW r \in Seq(Message)
  PROVE  Owed(w \o r) = Owed(w) \o Owed(r)
  <1>1. PICK v \in Seq(Message) : v = w \o r
    BY ConcatFields
  <1>2. PICK a \in Seq(Seq(Entry)), b \in Seq(Seq(Entry)), c \in Seq(Seq(Entry)) :
          a = Settling(w) /\ b = Settling(r) /\ c = Settling(v)
    BY SettlingFields
  <1>3. /\ Len(a) = Len(w) /\ Len(b) = Len(r) /\ Len(c) = Len(v)
        /\ \A i \in 1 .. Len(w) : a[i] = Settles(w[i])
        /\ \A i \in 1 .. Len(r) : b[i] = Settles(r[i])
        /\ \A i \in 1 .. Len(v) : c[i] = Settles(v[i])
    BY <1>2, SettlingFields
  <1>4. /\ Len(v) = Len(w) + Len(r)
        /\ \A i \in 1 .. Len(w) : v[i] = w[i]
        /\ \A i \in 1 .. Len(r) : v[Len(w) + i] = r[i]
        /\ \A i \in 1 .. Len(v) :
             i \in 1 .. Len(w) \/ (i > Len(w) /\ i - Len(w) \in 1 .. Len(r) /\ i = Len(w) + (i - Len(w)))
    BY <1>1, ConcatFields
  <1>5. /\ Len(a \o b) = Len(a) + Len(b) /\ a \o b \in Seq(Seq(Entry))
        /\ \A i \in 1 .. Len(a) : (a \o b)[i] = a[i]
        /\ \A i \in 1 .. Len(b) : (a \o b)[Len(a) + i] = b[i]
    BY ConcatFields
  <1>6. \A i \in 1 .. Len(c) : c[i] = (a \o b)[i]
    <2> TAKE i \in 1 .. Len(c)
    <2>1. CASE i \in 1 .. Len(w)
      BY <1>3, <1>4, <1>5, <2>1
    <2>2. ASSUME NEW j \in 1 .. Len(r), i = Len(w) + j PROVE c[i] = (a \o b)[i]
      BY <1>3, <1>4, <1>5, <2>2
    <2>3. QED
      BY <1>3, <1>4, <2>1, <2>2
  <1>7. c = a \o b
    BY <1>3, <1>4, <1>5, <1>6, SeqEqual
  <1>8. FlattenSeq(a \o b) = FlattenSeq(a) \o FlattenSeq(b)
    BY FlattenConcat
  <1>9. QED
    BY <1>1, <1>2, <1>7, <1>8 DEF Owed

LEMMA OwedTail ==
  ASSUME NEW w \in Seq(Message), w # <<>>
  PROVE  Owed(w) = Settles(w[1]) \o Owed(Tail(w))
  <1>1. PICK v \in Seq(Message) : v = Tail(w)
    BY TailFields
  <1>2. PICK a \in Seq(Seq(Entry)), b \in Seq(Seq(Entry)) : a = Settling(w) /\ b = Settling(v)
    BY SettlingFields
  <1>3. /\ Len(a) = Len(w) /\ Len(b) = Len(v)
        /\ \A i \in 1 .. Len(w) : a[i] = Settles(w[i])
        /\ \A i \in 1 .. Len(v) : b[i] = Settles(v[i])
    BY <1>2, SettlingFields
  <1>4. /\ Len(v) = Len(w) - 1 /\ Len(w) \in Nat /\ Len(w) >= 1
        /\ \A i \in 1 .. Len(v) : v[i] = w[i + 1] /\ i + 1 \in 1 .. Len(w)
    BY <1>1, TailFields
  <1>5. a # <<>>
    BY <1>3, <1>4
  <1>6. /\ Tail(a) \in Seq(Seq(Entry)) /\ Len(Tail(a)) = Len(a) - 1 /\ Head(a) = a[1]
        /\ \A i \in 1 .. Len(Tail(a)) : Tail(a)[i] = a[i + 1]
    BY <1>5, TailFields
  <1>7. \A i \in 1 .. Len(b) : b[i] = Tail(a)[i]
    BY <1>3, <1>4, <1>6
  <1>8. b = Tail(a)
    BY <1>3, <1>4, <1>6, <1>7, SeqEqual
  <1>9. FlattenSeq(a) = Head(a) \o FlattenSeq(Tail(a))
    BY <1>5, FlattenCons
  <1>10. 1 \in 1 .. Len(w)
    BY <1>4
  <1>11. QED
    BY <1>1, <1>2, <1>3, <1>6, <1>8, <1>9, <1>10 DEF Owed

LEMMA EmptyLen == Len(<<>>) = 0 /\ 0 # 1 /\ 0 # 2 /\ 0 # 3
  OBVIOUS

LEMMA OwedShort ==
  ASSUME NEW w \in Seq(Message)
  PROVE  /\ w = <<>> => Owed(w) = <<>>
         /\ Len(w) = 1 => Owed(w) = Settles(w[1])
         /\ Len(w) = 2 => Owed(w) = Settles(w[1]) \o Settles(w[2])
         /\ Len(w) = 3 => Owed(w) = Settles(w[1]) \o (Settles(w[2]) \o Settles(w[3]))
  <1>1. ASSUME NEW v \in Seq(Message), v = <<>> PROVE Owed(v) = <<>>
    <2>1. PICK a \in Seq(Seq(Entry)) : a = Settling(v) /\ Len(a) = 0
      BY <1>1, SettlingFields
    <2>2. a = <<>>
      BY <2>1
    <2>3. QED
      BY <2>1, <2>2, Flattened DEF Owed
  <1>2. ASSUME NEW v \in Seq(Message), Len(v) = 1 PROVE Owed(v) = Settles(v[1])
    <2>1. v # <<>> /\ Tail(v) = <<>> /\ Tail(v) \in Seq(Message) /\ v[1] \in Message
      <3>1. v # <<>>
        BY <1>2, EmptyLen, Zenon
      <3>2. Tail(v) \in Seq(Message) /\ Len(Tail(v)) = 0 /\ v[1] \in Message
        BY <1>2, <3>1, TailFields
      <3>3. \A t \in Seq(Message) : Len(t) = 0 => t = <<>>
        OBVIOUS
      <3>4. QED
        BY <3>1, <3>2, <3>3
    <2>2. Settles(v[1]) \in Seq(Entry)
      BY <2>1, MessageFields
    <2>3. Settles(v[1]) \o <<>> = Settles(v[1])
      BY <2>2, ConcatEmptySeq
    <2>4. QED
      BY <1>1, <2>1, <2>3, OwedTail
  <1>3. ASSUME NEW v \in Seq(Message), Len(v) = 2 PROVE Owed(v) = Settles(v[1]) \o Settles(v[2])
    <2>1. PICK t \in Seq(Message) : t = Tail(v) /\ Len(t) = 1 /\ t[1] = v[2] /\ v # <<>>
      <3>1. v # <<>>
        BY <1>3, EmptyLen
      <3>2. /\ Tail(v) \in Seq(Message) /\ Len(Tail(v)) = 1
            /\ \A i \in 1 .. Len(Tail(v)) : Tail(v)[i] = v[i + 1]
        BY <1>3, <3>1, TailFields
      <3>3. Tail(v)[1] = v[2]
        <4>1. \A n : n = 1 => 1 \in 1 .. n
          OBVIOUS
        <4>2. 1 + 1 = 2
          OBVIOUS
        <4>3. 1 \in 1 .. Len(Tail(v))
          BY <3>2, <4>1, Zenon
        <4>4. Tail(v)[1] = v[1 + 1]
          BY <3>2, <4>3, Zenon
        <4>5. QED
          BY <4>2, <4>4
      <3>4. QED
        BY <3>1, <3>2, <3>3
    <2>2. QED
      BY <1>2, <2>1, OwedTail
  <1>4. ASSUME Len(w) = 3 PROVE Owed(w) = Settles(w[1]) \o (Settles(w[2]) \o Settles(w[3]))
    <2>1. PICK t \in Seq(Message) : t = Tail(w) /\ Len(t) = 2 /\ t[1] = w[2] /\ t[2] = w[3] /\ w # <<>>
      <3>1. w # <<>>
        BY <1>4, EmptyLen
      <3>2. /\ Tail(w) \in Seq(Message) /\ Len(Tail(w)) = 2
            /\ \A i \in 1 .. Len(Tail(w)) : Tail(w)[i] = w[i + 1]
        BY <1>4, <3>1, TailFields
      <3>3. Tail(w)[1] = w[2] /\ Tail(w)[2] = w[3]
        BY <3>2
      <3>4. QED
        BY <3>1, <3>2, <3>3
    <2>2. QED
      BY <1>3, <2>1, OwedTail
  <1>5. QED
    BY <1>1, <1>2, <1>3, <1>4

LEMMA CorrelatedOwed ==
  ASSUME TypeInv
  PROVE  Correlated <=> pending = Owed(wire) \o FlattenSeq(cmds)
  <1>1. DOMAIN wire = 1 .. Len(wire)
    BY DEF TypeInv, TypeOK
  <1>2. QED
    BY <1>1 DEF Correlated, Answers, Owed, Settling

(* Messages are received from the front and sent at the end.               *)
LEMMA BlocksTail ==
  ASSUME NEW w \in Seq(Message), w # <<>>, Blocks(w)
  PROVE  Blocks(Tail(w))
  <1>1. PICK t \in Seq(Message) : /\ t = Tail(w) /\ Len(t) = Len(w) - 1 /\ Len(w) \in Nat \ {0}
                                  /\ \A i \in 1 .. Len(t) : t[i] = w[i + 1] /\ i + 1 \in 1 .. Len(w)
    BY TailFields
  <1>2. ASSUME NEW i \in 1 .. Len(t), t[i].type = "block" PROVE Shaped(t[i]) /\ Adjacent(t, i)
    <2>1. i + 1 \in 1 .. Len(w) /\ t[i] = w[i + 1] /\ i \in Nat /\ i + 1 > 1 /\ (i + 1) - 1 = i
      BY <1>1
    <2>2. Shaped(w[i + 1]) /\ Adjacent(w, i + 1)
      BY <1>2, <2>1 DEF Blocks
    <2>3. i + 1 < Len(w) => i < Len(t) /\ t[i + 1] = w[(i + 1) + 1]
      BY <1>1, <2>1
    <2>4. i > 1 => t[i - 1] = w[i]
      BY <1>1, <2>1
    <2>5. QED
      BY <2>1, <2>2, <2>3, <2>4 DEF Adjacent
  <1>3. QED
    BY <1>1, <1>2 DEF Blocks

LEMMA BlocksConcat ==
  ASSUME NEW w \in Seq(Message), NEW r \in Seq(Message), Blocks(w), Blocks(r),
         r # <<>> /\ r[1].type = "block" /\ r[1].answers # <<>> => r[1].answers[1].kind # "continue"
  PROVE  Blocks(w \o r)
  <1>1. PICK v \in Seq(Message) : v = w \o r
    BY ConcatFields
  <1>2. /\ Len(v) = Len(w) + Len(r) /\ Len(w) \in Nat /\ Len(r) \in Nat
        /\ \A i \in 1 .. Len(w) : v[i] = w[i]
        /\ \A i \in 1 .. Len(r) : v[Len(w) + i] = r[i]
        /\ \A i \in 1 .. Len(v) :
             i \in 1 .. Len(w) \/ (i > Len(w) /\ i - Len(w) \in 1 .. Len(r) /\ i = Len(w) + (i - Len(w)))
    BY <1>1, ConcatFields
  <1>3. ASSUME NEW i \in 1 .. Len(w), w[i].type = "block" PROVE Shaped(v[i]) /\ Adjacent(v, i)
    <2>1. Shaped(w[i]) /\ Adjacent(w, i) /\ v[i] = w[i]
      BY <1>2, <1>3 DEF Blocks
    <2>2. i < Len(w) => i < Len(v) /\ v[i + 1] = w[i + 1]
      BY <1>2
    <2>3. i > 1 => v[i - 1] = w[i - 1]
      BY <1>2
    <2>4. QED
      BY <2>1, <2>2, <2>3 DEF Adjacent
  <1>4. ASSUME NEW j \in 1 .. Len(r), r[j].type = "block"
        PROVE  Shaped(v[Len(w) + j]) /\ Adjacent(v, Len(w) + j)
    <2>1. Shaped(r[j]) /\ Adjacent(r, j) /\ v[Len(w) + j] = r[j]
      BY <1>2, <1>4 DEF Blocks
    <2>2. j < Len(r) => Len(w) + j < Len(v) /\ v[(Len(w) + j) + 1] = r[j + 1]
      <3>1. j < Len(r) => j + 1 \in 1 .. Len(r) /\ Len(w) + (j + 1) = (Len(w) + j) + 1 /\ Len(w) + j < Len(v)
        BY <1>2
      <3>2. QED
        BY <1>2, <3>1
    <2>3. j > 1 => v[(Len(w) + j) - 1] = r[j - 1]
      <3>1. j > 1 => j - 1 \in 1 .. Len(r) /\ Len(w) + (j - 1) = (Len(w) + j) - 1
        BY <1>2
      <3>2. QED
        BY <1>2, <3>1
    <2>4. j = 1 => r # <<>>
      BY <1>2, EmptyLen
    <2>5. ~(j > 1) => j = 1
      BY <1>2
    <2>6. r[j].answers # <<>> /\ r[j].answers[1].kind = "continue" => j > 1
      BY <1>4, <2>4, <2>5
    <2>7. QED
      BY <2>1, <2>2, <2>3, <2>6 DEF Adjacent
  <1>5. ASSUME NEW i \in 1 .. Len(v), v[i].type = "block" PROVE Shaped(v[i]) /\ Adjacent(v, i)
    <2>1. CASE i \in 1 .. Len(w)
      BY <1>2, <1>3, <1>5, <2>1
    <2>2. CASE i - Len(w) \in 1 .. Len(r) /\ i = Len(w) + (i - Len(w))
      <3>1. PICK j \in 1 .. Len(r) : i = Len(w) + j
        BY <2>2
      <3>2. QED
        BY <1>2, <1>4, <1>5, <3>1
    <2>3. QED
      BY <1>2, <2>1, <2>2
  <1>6. QED
    BY <1>1, <1>5 DEF Blocks

(* How many of a line's n commands are answered when the f-th one fails.   *)
LEMMA ReplyCount ==
  ASSUME NEW n, n \in {1, 2, 3}, NEW f \in 0 .. n, NEW m, m = IF f = 0 THEN n ELSE f
  PROVE  /\ m \in {1, 2, 3} /\ m \in 1 .. n /\ 1 \in 1 .. m
         /\ \A i \in 1 .. m : i > 1 => i - 1 \in 1 .. m /\ i - 1 # f
         /\ m = 1 => f = 1 \/ (f = 0 /\ n = 1)
         /\ m = 2 => /\ f # 1 /\ (f = 2 \/ (f = 0 /\ n = 2)) /\ (n = 2 \/ n = 3)
                    /\ 2 \in 1 .. m /\ 1 \in 1 .. n /\ 2 \in 1 .. n
         /\ m = 3 => /\ f # 1 /\ f # 2 /\ (f = 3 \/ f = 0) /\ n = 3
                    /\ 2 \in 1 .. m /\ 3 \in 1 .. m /\ 1 \in 1 .. n /\ 2 \in 1 .. n /\ 3 \in 1 .. n
         /\ n = 3 => 3 \in 1 .. n
  OBVIOUS

(* What the server answers settles the line, whatever part of it fails.    *)
LEMMA RepliesOwed ==
  ASSUME TypeInv, NEW l \in Seq(Entry), IsLine(l), l # <<User>>,
         NEW f \in 0 .. Len(l), f # 0 => l[f].kind \in SeedKinds
  PROVE  /\ Replies(l, f) \in Seq(Message) /\ Replies(l, f) # <<>>
         /\ Owed(Replies(l, f)) = l /\ Blocks(Replies(l, f))
         /\ Replies(l, f)[1].answers[1].kind # "continue"
  <1>typed. TypeOK
    BY DEF TypeInv
  <1>1. PICK r : r = Replies(l, f)
    OBVIOUS
  <1>seq. r \in Seq(Message)
    BY <1>typed, <1>1, RepliesFields
  <1>len. Len(r) = IF f = 0 THEN Len(l) ELSE f
    BY <1>typed, <1>1, RepliesLen
  <1>2. \A i \in 1 .. Len(r) :
          /\ i \in 1 .. Len(l) /\ r[i].type = "block" /\ r[i].ok = (i # f) /\ r[i].barrier = FALSE
          /\ i = f => r[i].answers = SubSeq(l, i, Len(l))
          /\ i # f => r[i].answers = <<l[i]>>
    BY <1>typed, <1>1, RepliesFields, ZenonT(60)
  <1>3. Len(l) \in {1, 2, 3}
    <2>1. Len(<<Windows>>) = 1
      OBVIOUS
    <2>2. \A g \in Nat, z \in BOOLEAN : Len(SeedLine(g, z)) \in {2, 3}
      BY SeedLineFields
    <2>3. QED
      BY <2>1, <2>2, LineFields
  <1>4. l # <<>>
    BY <1>3, EmptyLen
  <1>5. Len(r) \in 1 .. Len(l) /\ 1 \in 1 .. Len(r) /\ Len(r) \in {1, 2, 3}
    BY <1>len, <1>3, ReplyCount, Zenon
  <1>6. \A i \in 1 .. Len(r) : r[i].answers # <<>> /\ r[i].answers[1] = l[i] /\ Settles(r[i]) = r[i].answers
    <2> TAKE i \in 1 .. Len(r)
    <2>1. i \in 1 .. Len(l) /\ r[i].type = "block"
      BY <1>2
    <2>2. CASE i = f
      <3>1. PICK t \in Seq(Entry) : t = SubSeq(l, i, Len(l))
        BY <2>1, Slice
      <3>2. Len(t) = Len(l) + 1 - i /\ \A j \in 1 .. (Len(l) + 1 - i) : t[j] = l[i - 1 + j]
        BY <2>1, <3>1, Slice
      <3>3. 1 \in 1 .. (Len(l) + 1 - i) /\ i - 1 + 1 = i /\ Len(l) + 1 - i # 0
        BY <1>3, <2>1
      <3>4. t[1] = l[i] /\ t # <<>>
        BY <3>2, <3>3, EmptyLen
      <3>5. r[i].answers = t
        BY <1>2, <2>2, <3>1
      <3>6. QED
        BY <2>1, <3>4, <3>5 DEF Settles
    <2>3. CASE i # f
      <3>1. r[i].answers = <<l[i]>>
        BY <1>2, <2>3
      <3>2. QED
        BY <2>1, <3>1 DEF Settles
    <2>4. QED
      BY <2>2, <2>3
  <1>7. l[1].kind # "continue"
    <2>1. \A g \in Nat : Seed("capture", g).kind = "capture"
      BY SeedFields DEF SeedKinds
    <2>2. \A g \in Nat, z \in BOOLEAN : SeedLine(g, z)[1].kind = "capture"
      BY <2>1, SeedLineFields
    <2>3. <<Windows>>[1].kind = "windows"
      BY PlainLines
    <2>4. QED
      BY <2>2, <2>3, LineFields
  <1>8. ASSUME NEW i \in 1 .. Len(r) PROVE Shaped(r[i])
    <2>1. CASE l = <<Windows>>
      <3>1. i = 1 /\ f = 0
        <4>1. Len(l) = 1 /\ l[1].kind = "windows"
          BY <2>1, PlainLines
        <4>2. f = 0 \/ f = 1
          BY <4>1
        <4>3. f # 1
          BY <4>1 DEF SeedKinds
        <4>4. i = 1
          <5>1. i \in 1 .. 1
            BY <1>2, <4>1
          <5>2. QED
            BY <5>1
        <4>5. QED
          BY <4>2, <4>3, <4>4
      <3>2. r[i].answers = <<Windows>>
        BY <1>2, <2>1, <3>1
      <3>3. r[i].ok /\ ~r[i].barrier
        <4>1. i # f
          BY <3>1
        <4>2. QED
          BY <1>2, <4>1
      <3>4. QED
        BY <3>2, <3>3 DEF Shaped
    <2>2. ASSUME NEW g \in Nat, NEW z \in BOOLEAN, l = SeedLine(g, z) PROVE Shaped(r[i])
      <3>1. /\ Len(l) = IF z THEN 3 ELSE 2
            /\ l[1] = Seed("capture", g) /\ l[2] = Seed("cursor", g)
            /\ z => l[3] = Seed("continue", g)
        BY <2>2, SeedLineFields
      <3>2. i \in 1 .. Len(l) /\ ~r[i].barrier
        BY <1>2
      <3>3. CASE i # f
        <4>1. r[i].answers = <<l[i]>> /\ r[i].ok
          BY <1>2, <3>3
        <4>2. i \in {1, 2} \/ (i = 3 /\ z)
          BY <3>1, <3>2
        <4>3. \E k \in SeedKinds : l[i] = Seed(k, g)
          BY <3>1, <4>2 DEF SeedKinds
        <4>4. QED
          BY <3>2, <4>1, <4>3 DEF Shaped
      <3>4. CASE i = f
        <4>1. r[i].answers = SubSeq(l, i, Len(l)) /\ ~r[i].ok
          BY <1>2, <3>4
        <4>2. CASE i = 1
          <5>1. r[i].answers = SeedLine(g, z)
            BY <1>4, <2>2, <4>1, <4>2, WholeSlice
          <5>2. QED
            BY <3>2, <4>1, <5>1 DEF Shaped
        <4>3. CASE i = 2 /\ z
          <5>1. Len(l) = 3
            BY <3>1, <4>3
          <5>2. r[i].answers = <<Seed("cursor", g), Seed("continue", g)>>
            BY <3>1, <4>1, <4>3, <5>1, MiddleSlice
          <5>3. QED
            BY <3>2, <4>1, <5>2 DEF Shaped
        <4>4. CASE i = 2 /\ ~z
          <5>1. Len(l) = 2
            BY <3>1, <4>4
          <5>2. r[i].answers = <<Seed("cursor", g)>>
            BY <1>4, <3>1, <4>1, <4>4, <5>1, LastSlice
          <5>3. QED
            BY <3>2, <4>1, <5>2 DEF Shaped
        <4>5. CASE i = 3
          <5>1. Len(l) = 3 /\ z
            BY <3>1, <3>2, <4>5
          <5>2. r[i].answers = <<Seed("continue", g)>>
            BY <1>4, <3>1, <4>1, <4>5, <5>1, LastSlice
          <5>3. QED
            BY <3>2, <4>1, <5>2 DEF Shaped
        <4>6. i \in {1, 2, 3}
          BY <3>1, <3>2
        <4>7. QED
          BY <4>2, <4>3, <4>4, <4>5, <4>6
      <3>5. QED
        BY <3>3, <3>4
    <2>3. QED
      BY <2>1, <2>2, LineFields
  <1>9. ASSUME NEW i \in 1 .. Len(r) PROVE Adjacent(r, i)
    <2>1. ASSUME i > 1 PROVE Settles(r[i - 1]) # <<>> /\ r[i - 1].ok
      <3>1. i - 1 \in 1 .. Len(r) /\ i - 1 # f
        BY <1>len, <1>3, <2>1, ReplyCount, Zenon
      <3>2. QED
        BY <1>2, <1>6, <3>1
    <2>2. QED
      BY <1>6, <2>1 DEF Adjacent
  <1>10. Owed(r) = l
    <2>1. CASE Len(r) = 1
      <3>1. Owed(r) = r[1].answers
        BY <1>seq, <1>5, <1>6, <2>1, OwedShort
      <3>2. CASE f = 1
        BY <1>2, <1>4, <1>5, <3>1, <3>2, WholeSlice
      <3>3. CASE f = 0
        BY <1>len, <1>2, <1>5, <2>1, <3>1, <3>3, Single
      <3>4. QED
        BY <1>len, <2>1, <3>2, <3>3
    <2>2. CASE Len(r) = 2
      <3>1. 1 \in 1 .. Len(r) /\ 2 \in 1 .. Len(r) /\ f # 1 /\ (f = 0 \/ f = 2)
        BY <1>len, <1>3, <2>2, ReplyCount, Zenon
      <3>2. Owed(r) = r[1].answers \o r[2].answers
        BY <1>seq, <1>6, <2>2, <3>1, OwedShort
      <3>3. r[1].answers = <<l[1]>>
        BY <1>2, <3>1
      <3>4. l[1] \in Entry /\ l[2] \in Entry /\ (Len(l) = 3 => l[3] \in Entry)
        <4>1. 1 \in 1 .. Len(l) /\ 2 \in 1 .. Len(l) /\ (Len(l) = 3 => 3 \in 1 .. Len(l))
          BY <1>len, <1>3, <2>2, ReplyCount, Zenon
        <4>2. QED
          BY <4>1, ElementOfSeq
      <3>5. CASE Len(l) = 2
        <4>1. r[2].answers = <<l[2]>>
          <5>1. CASE f = 2
            BY <1>2, <1>4, <3>1, <3>5, <5>1, LastSlice
          <5>2. CASE f = 0
            <6>1. 2 # f
              BY <5>2
            <6>2. QED
              BY <1>2, <3>1, <6>1
          <5>3. QED
            BY <3>1, <5>1, <5>2
        <4>2. QED
          BY <3>2, <3>3, <3>4, <3>5, <4>1, TwoElements, Pair
      <3>6. CASE Len(l) = 3
        <4>1. f = 2
          <5>1. 2 # 3
            OBVIOUS
          <5>2. QED
            BY <1>len, <2>2, <3>1, <3>6, <5>1
        <4>2. r[2].answers = <<l[2], l[3]>>
          BY <1>2, <3>1, <3>6, <4>1, MiddleSlice
        <4>3. QED
          BY <3>2, <3>3, <3>4, <3>6, <4>2, ThreeElements, Triple
      <3>7. Len(l) = 2 \/ Len(l) = 3
        BY <1>len, <1>3, <2>2, ReplyCount, Zenon
      <3>8. QED
        BY <3>5, <3>6, <3>7
    <2>3. CASE Len(r) = 3
      <3>1. /\ 1 \in 1 .. Len(r) /\ 2 \in 1 .. Len(r) /\ 3 \in 1 .. Len(r) /\ f # 1 /\ f # 2
            /\ (f = 0 \/ f = 3) /\ Len(l) = 3
        BY <1>len, <1>3, <2>3, ReplyCount, Zenon
      <3>2. Owed(r) = r[1].answers \o (r[2].answers \o r[3].answers)
        BY <1>seq, <1>6, <2>3, <3>1, OwedShort
      <3>3. r[1].answers = <<l[1]>> /\ r[2].answers = <<l[2]>>
        BY <1>2, <3>1
      <3>4. l[1] \in Entry /\ l[2] \in Entry /\ l[3] \in Entry
        <4>1. 1 \in 1 .. Len(l) /\ 2 \in 1 .. Len(l) /\ 3 \in 1 .. Len(l)
          BY <3>1
        <4>2. QED
          BY <4>1, ElementOfSeq
      <3>5. r[3].answers = <<l[3]>>
        <4>1. CASE f = 3
          <5>1. r[3].answers = SubSeq(l, Len(l), Len(l))
            BY <1>2, <3>1, <4>1
          <5>2. QED
            BY <1>4, <3>1, <5>1, LastSlice
        <4>2. CASE f = 0
          <5>1. 3 # f
            BY <4>2
          <5>2. QED
            BY <1>2, <3>1, <5>1
        <4>3. QED
          BY <3>1, <4>1, <4>2
      <3>6. QED
        BY <3>1, <3>2, <3>3, <3>4, <3>5, TwoElements, ThreeElements, Triple
    <2>4. QED
      BY <1>5, <2>1, <2>2, <2>3
  <1>11. Blocks(r)
    BY <1>8, <1>9 DEF Blocks
  <1>12. r # <<>> /\ r[1].answers[1].kind # "continue"
    BY <1>5, <1>6, <1>7, EmptyLen
  <1>13. QED
    BY <1>1, <1>seq, <1>10, <1>11, <1>12

LEMMA LineStarts ==
  ASSUME NEW l \in Seq(Entry), IsLine(l)
  PROVE  l # <<>> /\ l[1].kind # "continue"
  <1>1. \A g \in Nat : Seed("capture", g).kind = "capture"
    BY SeedFields DEF SeedKinds
  <1>2. ASSUME NEW g \in Nat, NEW z \in BOOLEAN, l = SeedLine(g, z) PROVE l # <<>> /\ l[1].kind = "capture"
    <2>1. l[1] = Seed("capture", g) /\ Len(l) = IF z THEN 3 ELSE 2
      BY <1>2, SeedLineFields
    <2>2. Len(l) # 0
      BY <2>1
    <2>3. QED
      BY <1>1, <2>1, <2>2, EmptyLen
  <1>3. ASSUME l = <<Windows>> \/ l = <<User>> PROVE l # <<>> /\ l[1].kind # "continue"
    BY <1>3, PlainLines
  <1>4. QED
    BY <1>2, <1>3, LineFields

LEMMA UserOwed ==
  ASSUME TypeInv, NEW r \in UserReplies
  PROVE  /\ r \in Seq(Message) /\ r # <<>> /\ Owed(r) = <<User>> /\ Blocks(r)
         /\ r[1].answers # <<>> => r[1].answers[1].kind # "continue"
  <1>1. TypeOK
    BY DEF TypeInv
  <1>2. r \in Seq(Message)
    BY <1>1, UserRepliesFields
  <1>3. PICK b : b = Block(TRUE, TRUE, 0, <<User>>)
    OBVIOUS
  <1>4. /\ b.type = "block" /\ b.ok = TRUE /\ b.barrier = TRUE /\ b.answers = <<User>>
        /\ b.answers # <<>> /\ Settles(b) = <<User>> /\ b.answers[1].kind # "continue"
    <2>1. /\ b.type = "block" /\ b.ok = TRUE /\ b.barrier = TRUE /\ b.answers = <<User>>
      BY <1>3 DEF Block
    <2>2. QED
      BY <2>1, PlainLines DEF Settles
  <1>5. Shaped(b)
    BY <1>4 DEF Shaped
  <1>6. CASE r = <<b>>
    <2>1. Len(r) = 1 /\ r[1] = b /\ r # <<>>
      BY <1>6
    <2>2. Owed(r) = <<User>>
      BY <1>2, <1>4, <2>1, OwedShort
    <2>3. Adjacent(r, 1)
      BY <1>4, <2>1 DEF Adjacent
    <2>4. Blocks(r)
      BY <1>5, <2>1, <2>3 DEF Blocks
    <2>5. QED
      BY <1>2, <1>4, <2>1, <2>2, <2>4
  <1>7. ASSUME NEW ok \in BOOLEAN, r = <<Block(ok, FALSE, 0, <<>>), b>>
        PROVE  /\ r \in Seq(Message) /\ r # <<>> /\ Owed(r) = <<User>> /\ Blocks(r)
               /\ r[1].answers # <<>> => r[1].answers[1].kind # "continue"
    <2>1. PICK a : a = Block(ok, FALSE, 0, <<>>)
      OBVIOUS
    <2>2. a.type = "block" /\ a.ok = ok /\ a.barrier = FALSE /\ a.answers = <<>>
      BY <2>1 DEF Block
    <2>3. Settles(a) = <<>> /\ Shaped(a)
      BY <2>2 DEF Settles, Shaped
    <2>4. Len(r) = 2 /\ r[1] = a /\ r[2] = b /\ r # <<>>
      BY <1>7, <2>1
    <2>5. Owed(r) = <<User>>
      <3>1. Owed(r) = <<>> \o <<User>>
        BY <1>2, <1>4, <2>3, <2>4, OwedShort
      <3>2. <<>> \o <<User>> = <<User>>
        BY PlainLines, ConcatEmptySeq
      <3>3. QED
        BY <3>1, <3>2
    <2>6. Adjacent(r, 1)
      BY <1>4, <2>2, <2>4 DEF Adjacent
    <2>7. Adjacent(r, 2)
      BY <1>4, <2>4 DEF Adjacent
    <2>8. \A i \in 1 .. 2 : i = 1 \/ i = 2
      OBVIOUS
    <2>9. Blocks(r)
      BY <1>5, <2>3, <2>4, <2>6, <2>7, <2>8 DEF Blocks
    <2>10. QED
      BY <1>2, <2>2, <2>4, <2>5, <2>9
  <1>8. QED
    BY <1>1, <1>3, <1>6, <1>7, UserRepliesFields

LEMMA NotifyOwed ==
  ASSUME NEW w \in Seq(Message), NEW m \in Message, m.type # "block", Blocks(w)
  PROVE  Owed(Append(w, m)) = Owed(w) /\ Blocks(Append(w, m))
  <1>1. PICK r \in Seq(Message) : r = <<m>> /\ Len(r) = 1 /\ r[1] = m /\ r # <<>>
    <2>1. \A S : \A x \in S : <<x>> \in Seq(S) /\ Len(<<x>>) = 1 /\ <<x>>[1] = x /\ <<x>> # <<>>
      OBVIOUS
    <2>2. QED
      BY <2>1
  <1>2. Append(w, m) = w \o r
    BY <1>1, AppendIsConcat
  <1>3. Owed(r) = <<>>
    BY <1>1, OwedShort DEF Settles
  <1>4. Owed(w) \o <<>> = Owed(w)
    BY OwedType, ConcatEmptySeq
  <1>5. Blocks(r)
    BY <1>1 DEF Blocks
  <1>6. Blocks(w \o r)
    BY <1>1, <1>5, BlocksConcat
  <1>7. Owed(w \o r) = Owed(w) \o Owed(r)
    BY OwedConcat
  <1>8. QED
    BY <1>2, <1>3, <1>4, <1>6, <1>7

(* After a failed reply, the next entry is not the rest of its line.       *)
LEMMA RestStarts ==
  ASSUME NEW w \in Seq(Message), w # <<>>, Blocks(w), w[1].type = "block", ~w[1].ok,
         NEW c \in Seq(Seq(Entry)), \A i \in 1 .. Len(c) : IsLine(c[i]),
         NEW R, R = Owed(Tail(w)) \o FlattenSeq(c), R # <<>>
  PROVE  R[1].kind # "continue"
  <1>1. PICK t \in Seq(Message) : t = Tail(w)
    BY TailFields
  <1>2. /\ Len(t) = Len(w) - 1 /\ Len(w) \in Nat \ {0}
        /\ \A i \in 1 .. Len(t) : t[i] = w[i + 1] /\ i + 1 \in 1 .. Len(w)
    BY <1>1, TailFields
  <1>3. PICK a \in Seq(Entry), b \in Seq(Entry) : a = Owed(t) /\ b = FlattenSeq(c)
    BY OwedType, Flattened
  <1>4. CASE a # <<>>
    <2>1. R[1] = a[1]
      BY <1>1, <1>3, <1>4, ConcatFirst
    <2>2. PICK s \in Seq(Seq(Entry)) : s = Settling(t)
      BY SettlingFields
    <2>3. Len(s) = Len(t) /\ \A i \in 1 .. Len(t) : s[i] = Settles(t[i])
      BY <2>2, SettlingFields
    <2>4. FlattenSeq(s) = a
      BY <1>3, <2>2 DEF Owed
    <2>5. PICK j \in 1 .. Len(s) : s[j] # <<>> /\ a[1] = s[j][1] /\ \A i \in 1 .. (j - 1) : s[i] = <<>>
      BY <1>4, <2>4, FlattenFirst
    <2>6. j \in Nat /\ j >= 1 /\ j + 1 \in 1 .. Len(w) /\ j + 1 > 1 /\ (j + 1) - 1 = j /\ t[j] = w[j + 1]
      BY <1>2, <2>3
    <2>7. /\ Settles(w[j + 1]) # <<>> /\ R[1] = Settles(w[j + 1])[1]
      BY <2>1, <2>3, <2>5, <2>6
    <2>8. w[j + 1].type = "block" /\ Settles(w[j + 1]) = w[j + 1].answers
      BY <2>7 DEF Settles
    <2>9. Adjacent(w, j + 1)
      BY <2>6, <2>8 DEF Blocks
    <2>10. SUFFICES ASSUME R[1].kind = "continue" PROVE FALSE
      OBVIOUS
    <2>11. Settles(w[j]) # <<>> /\ w[j].ok
      BY <2>6, <2>7, <2>8, <2>9, <2>10 DEF Adjacent
    <2>12. CASE j = 1
      BY <2>11, <2>12
    <2>13. CASE j > 1
      <3>1. j - 1 \in 1 .. (j - 1) /\ j - 1 \in 1 .. Len(t) /\ (j - 1) + 1 = j
        BY <2>3, <2>6, <2>13
      <3>2. t[j - 1] = w[j] /\ s[j - 1] = <<>> /\ s[j - 1] = Settles(t[j - 1])
        BY <1>2, <2>3, <2>5, <3>1
      <3>3. QED
        BY <2>11, <3>2
    <2>14. QED
      BY <2>6, <2>12, <2>13
  <1>5. CASE a = <<>>
    <2>1. R = b
      BY <1>1, <1>3, <1>5, ConcatEmptySeq
    <2>2. PICK j \in 1 .. Len(c) : c[j] # <<>> /\ b[1] = c[j][1]
      BY <1>3, <2>1, FlattenFirst
    <2>3. c[j] \in Seq(Entry) /\ IsLine(c[j])
      BY ElementOfSeq
    <2>4. QED
      BY <2>1, <2>2, <2>3, LineStarts
  <1>6. QED
    BY <1>4, <1>5

(* So a reply settles exactly the entries that the server means.           *)
LEMMA SettledAll ==
  ASSUME NEW m \in Message, m.type = "block", Shaped(m), m.answers # <<>>,
         NEW R \in Seq(Entry), pending = m.answers \o R,
         ~m.ok /\ R # <<>> => R[1].kind # "continue"
  PROVE  Settled(pending[1], m.ok) = Len(m.answers)
  <1>1. PICK a \in Seq(Entry) : a = m.answers
    BY MessageFields
  <1>2. PICK p \in Seq(Entry) : p = pending /\ p = a \o R
    BY <1>1, ConcatFields
  <1>3. /\ Len(p) = Len(a) + Len(R) /\ Len(a) \in Nat /\ Len(R) \in Nat
        /\ \A i \in 1 .. Len(a) : p[i] = a[i]
        /\ \A i \in 1 .. Len(R) : p[Len(a) + i] = R[i]
    BY <1>2, ConcatFields
  <1>4. CASE m.ok
    <2>1. Len(a) = 1
      <3>1. \A x : Len(<<x>>) = 1
        OBVIOUS
      <3>2. \/ a = <<User>> \/ a = <<Windows>> \/ \E k \in SeedKinds, g \in Nat : a = <<Seed(k, g)>>
        BY <1>1, <1>4 DEF Shaped
      <3>3. QED
        BY <3>1, <3>2
    <2>2. QED
      BY <1>1, <1>4, <2>1 DEF Settled
  <1>5. CASE ~m.ok
    <2>1. PICK g \in Nat : a \in
            {SeedLine(g, TRUE), SeedLine(g, FALSE), <<Seed("cursor", g), Seed("continue", g)>>,
             <<Seed("cursor", g)>>, <<Seed("continue", g)>>}
      BY <1>1, <1>5 DEF Shaped
    <2>2. PICK x \in Entry, y \in Entry, z \in Entry :
            /\ x = Seed("capture", g) /\ y = Seed("cursor", g) /\ z = Seed("continue", g)
            /\ x.kind = "capture" /\ y.kind = "cursor" /\ z.kind = "continue"
            /\ x.gen = g /\ y.gen = g /\ z.gen = g
      BY SeedFields DEF SeedKinds
    <2>3. p[Len(a) + 1] # z \/ ~(Len(a) + 1 <= Len(p))
      <3>1. CASE R = <<>>
        BY <1>3, <3>1
      <3>2. CASE R # <<>>
        <4>1. 1 \in 1 .. Len(R)
          BY <3>2
        <4>2. p[Len(a) + 1] = R[1]
          BY <1>3, <4>1
        <4>3. QED
          BY <1>5, <2>2, <3>2, <4>2
      <3>3. QED
        BY <3>1, <3>2
    <2>4. CASE a = <<x, y, z>>
      <3>1. Len(a) = 3 /\ a[1] = x /\ a[2] = y /\ a[3] = z
        BY <2>4
      <3>2. p[1] = x /\ p[2] = y /\ p[3] = z /\ 2 <= Len(p) /\ 3 <= Len(p)
        BY <1>3, <3>1
      <3>3. QED
        <4>1. Follows(2, "cursor", x) /\ Follows(2 + 1, "continue", x)
          BY <1>2, <2>2, <3>2, SMTT(30) DEF Follows
        <4>2. Settled(x, m.ok) = Len(a)
          BY <1>5, <2>2, <3>1, <4>1 DEF Settled
        <4>3. QED
          BY <1>1, <1>2, <3>2, <4>2
    <2>5. CASE a = <<x, y>>
      <3>1. Len(a) = 2 /\ a[1] = x /\ a[2] = y
        BY <2>5
      <3>2. p[1] = x /\ p[2] = y /\ 2 <= Len(p) /\ (p[3] # z \/ ~(3 <= Len(p)))
        BY <1>3, <2>3, <3>1
      <3>3. QED
        <4>1. Follows(2, "cursor", x) /\ ~Follows(2 + 1, "continue", x)
          BY <1>2, <2>2, <3>2 DEF Follows
        <4>2. Settled(x, m.ok) = Len(a)
          BY <1>5, <2>2, <3>1, <4>1 DEF Settled
        <4>3. QED
          BY <1>1, <1>2, <3>2, <4>2
    <2>6. CASE a = <<y, z>>
      <3>1. Len(a) = 2 /\ a[1] = y /\ a[2] = z
        BY <2>6
      <3>2. p[1] = y /\ p[2] = z /\ 2 <= Len(p)
        BY <1>3, <3>1
      <3>3. QED
        <4>1. Follows(1 + 1, "continue", y)
          BY <1>2, <2>2, <3>2 DEF Follows
        <4>2. Settled(y, m.ok) = Len(a)
          BY <1>5, <2>2, <3>1, <4>1 DEF Settled
        <4>3. QED
          BY <1>1, <1>2, <3>2, <4>2
    <2>7. CASE a = <<y>>
      <3>1. Len(a) = 1 /\ a[1] = y
        BY <2>7
      <3>2. p[1] = y /\ (p[2] # z \/ ~(2 <= Len(p)))
        BY <1>3, <2>3, <3>1
      <3>3. QED
        <4>1. ~Follows(1 + 1, "continue", y)
          BY <1>2, <2>2, <3>2 DEF Follows
        <4>2. Settled(y, m.ok) = Len(a)
          BY <1>5, <2>2, <3>1, <4>1 DEF Settled
        <4>3. QED
          BY <1>1, <1>2, <3>2, <4>2
    <2>8. CASE a = <<z>>
      <3>1. Len(a) = 1 /\ a[1] = z
        BY <2>8
      <3>2. p[1] = z
        BY <1>3, <3>1
      <3>3. QED
        <4>1. Settled(z, m.ok) = Len(a)
          BY <1>5, <2>2, <3>1 DEF Settled
        <4>2. QED
          BY <1>1, <1>2, <3>2, <4>1
    <2>9. a \in {<<x, y, z>>, <<x, y>>, <<y, z>>, <<y>>, <<z>>}
      BY <2>1, <2>2 DEF SeedLine
    <2>10. QED
      BY <2>4, <2>5, <2>6, <2>7, <2>8, <2>9
  <1>6. QED
    BY <1>4, <1>5

-----------------------------------------------------------------------------
(* Correlated is inductive together with the shape of the replies.         *)

CorrInv == TypeInv /\ BlockInv /\ Correlated

LEMMA EntriesAssociative ==
  \A s1, s2, s3 \in Seq(Entry) : (s1 \o s2) \o s3 = s1 \o (s2 \o s3)
  BY Associative

LEMMA CorrState ==
  ASSUME CorrInv
  PROVE  \E w \in Seq(Message), c \in Seq(Seq(Entry)), p \in Seq(Entry) :
           /\ w = wire /\ c = cmds /\ p = pending /\ p = Owed(w) \o FlattenSeq(c) /\ Blocks(w)
           /\ \A i \in 1 .. Len(c) : IsLine(c[i])
  <1>1. wire \in Seq(Message) /\ cmds \in Seq(Seq(Entry)) /\ pending \in Seq(Entry)
        /\ \A i \in 1 .. Len(cmds) : IsLine(cmds[i])
    BY DEF CorrInv, TypeInv, TypeOK, LineInv
  <1>2. pending = Owed(wire) \o FlattenSeq(cmds)
    BY CorrelatedOwed DEF CorrInv
  <1>3. Blocks(wire)
    BY DEF CorrInv, BlockInv, Blocks
  <1>4. QED
    BY <1>1, <1>2, <1>3

LEMMA CorrNext ==
  ASSUME TypeInv', NEW w \in Seq(Message), NEW c \in Seq(Seq(Entry)), NEW p \in Seq(Entry),
         wire' = w, cmds' = c, pending' = p, p = Owed(w) \o FlattenSeq(c), Blocks(w)
  PROVE  CorrInv'
  <1>1. BlockInv'
    BY DEF BlockInv, Blocks
  <1>2. Answers' = Settling(w)
    <2>1. DOMAIN w = 1 .. Len(w)
      OBVIOUS
    <2>2. QED
      BY <2>1 DEF Answers, Settling
  <1>3. Correlated'
    BY <1>2 DEF Correlated, Owed
  <1>4. QED
    BY <1>1, <1>3 DEF CorrInv

LEMMA ExecuteCorr ==
  ASSUME CorrInv, Execute
  PROVE  CorrInv'
  <1>1. TypeInv /\ TypeInv'
    BY ExecuteType DEF CorrInv
  <1>2. PICK w \in Seq(Message), c \in Seq(Seq(Entry)), p \in Seq(Entry) :
           /\ w = wire /\ c = cmds /\ p = pending /\ p = Owed(w) \o FlattenSeq(c) /\ Blocks(w)
           /\ \A i \in 1 .. Len(c) : IsLine(c[i])
    BY CorrState
  <1>3. c # <<>> /\ cmds' = Tail(c) /\ pending' = p
    BY <1>2 DEF Execute, client
  <1>4. PICK l \in Seq(Entry) : l = Head(c) /\ IsLine(l)
    BY <1>2, <1>3, TailFields
  <1>5. PICK r \in Seq(Message) :
          /\ wire' = w \o r /\ r # <<>> /\ Owed(r) = l /\ Blocks(r)
          /\ r[1].answers # <<>> => r[1].answers[1].kind # "continue"
    <2>1. CASE l = <<User>> /\ \E r \in UserReplies : wire' = wire \o r
      <3>1. PICK r \in UserReplies : wire' = wire \o r
        BY <2>1
      <3>2. QED
        BY <1>1, <1>2, <2>1, <3>1, UserOwed
    <2>2. CASE l # <<User>> /\ \E f \in 0 .. Len(l) : (f # 0 => l[f].kind \in Failing) /\ wire' = wire \o Replies(l, f)
      <3>1. PICK f \in 0 .. Len(l) : (f # 0 => l[f].kind \in Failing) /\ wire' = wire \o Replies(l, f)
        BY <2>2
      <3>2. f # 0 => l[f].kind \in SeedKinds
        BY <3>1, TmuxAssumption DEF SeedKinds
      <3>3. /\ Replies(l, f) \in Seq(Message) /\ Replies(l, f) # <<>>
            /\ Owed(Replies(l, f)) = l /\ Blocks(Replies(l, f))
            /\ Replies(l, f)[1].answers[1].kind # "continue"
        BY <1>1, <1>4, <2>2, <3>2, RepliesOwed
      <3>4. QED
        BY <1>2, <3>1, <3>3
    <2>3. QED
      BY <1>2, <1>4, <2>1, <2>2 DEF Execute
  <1>6. PICK v \in Seq(Message), d \in Seq(Seq(Entry)) : v = w \o r /\ d = Tail(c)
    BY <1>3, ConcatFields, TailFields
  <1>7. PICK x \in Seq(Entry), y \in Seq(Entry) : x = Owed(w) /\ y = FlattenSeq(d)
    BY OwedType, Flattened
  <1>8. FlattenSeq(c) = l \o y
    BY <1>3, <1>4, <1>6, <1>7, FlattenCons
  <1>9. Owed(v) = x \o l
    BY <1>5, <1>6, <1>7, OwedConcat
  <1>10. p = Owed(v) \o FlattenSeq(d)
    <2>1. (x \o l) \o y = x \o (l \o y)
      BY Associative, SMTT(30)
    <2>2. QED
      BY <1>2, <1>7, <1>8, <1>9, <2>1
  <1>11. Blocks(v)
    BY <1>2, <1>5, <1>6, BlocksConcat
  <1>12. wire' = v /\ cmds' = d /\ pending' = p
    BY <1>3, <1>5, <1>6
  <1>13. QED
    BY <1>1, <1>10, <1>11, <1>12, CorrNext

LEMMA SendCorr ==
  ASSUME CorrInv, start_send
  PROVE  CorrInv'
  <1>1. TypeInv /\ TypeInv'
    BY SendType DEF CorrInv
  <1>2. PICK w \in Seq(Message), c \in Seq(Seq(Entry)), p \in Seq(Entry) :
           /\ w = wire /\ c = cmds /\ p = pending /\ p = Owed(w) \o FlattenSeq(c) /\ Blocks(w)
           /\ \A i \in 1 .. Len(c) : IsLine(c[i])
    BY CorrState
  <1>3. wire' = w
    BY <1>2 DEF start_send
  <1>4. CASE pending' = pending /\ cmds' = cmds
    BY <1>1, <1>2, <1>3, <1>4, CorrNext
  <1>5. ASSUME NEW x \in Seq(Entry), pending' = pending \o x, cmds' = Append(cmds, x) PROVE CorrInv'
    <2>1. PICK d \in Seq(Seq(Entry)), q \in Seq(Entry) : d = Append(c, x) /\ q = p \o x
      BY <1>5, AppendProperties, ConcatFields
    <2>2. FlattenSeq(d) = FlattenSeq(c) \o x
      BY <1>5, <2>1, FlattenAppend
    <2>3. PICK a \in Seq(Entry), b \in Seq(Entry) : a = Owed(w) /\ b = FlattenSeq(c)
      BY OwedType, Flattened
    <2>4. (a \o b) \o x = a \o (b \o x)
      BY EntriesAssociative, Zenon
    <2>5. q = Owed(w) \o FlattenSeq(d)
      BY <1>2, <2>1, <2>2, <2>3, <2>4
    <2>6. pending' = q /\ cmds' = d
      BY <1>2, <1>5, <2>1
    <2>7. QED
      BY <1>1, <1>2, <1>3, <2>5, <2>6, CorrNext
  <1>6. \/ pending' = pending /\ cmds' = cmds
        \/ \E x \in Seq(Entry) : pending' = pending \o x /\ cmds' = Append(cmds, x)
    <2>1. \/ pending' = pending /\ cmds' = cmds
          \/ /\ SkipStale(outgoing) # <<>>
             /\ pending' = pending \o SkipStale(outgoing)[1] /\ cmds' = Append(cmds, SkipStale(outgoing)[1])
      BY DEF start_send
    <2>2. outgoing \in Seq(Seq(Entry))
      BY <1>1 DEF TypeInv, TypeOK
    <2>3. PICK k \in 1 .. (Len(outgoing) + 1) : SkipStale(outgoing) = SubSeq(outgoing, k, Len(outgoing))
      BY <2>2, Skipped
    <2>4. SkipStale(outgoing) \in Seq(Seq(Entry))
      BY <2>2, <2>3
    <2>5. SkipStale(outgoing) # <<>> => SkipStale(outgoing)[1] \in Seq(Entry)
      BY <2>4
    <2>6. QED
      BY <2>1, <2>5
  <1>7. QED
    BY <1>4, <1>5, <1>6

(* Any other step of the server or of the client's timers.                 *)
LEMMA NotifyCorr ==
  ASSUME CorrInv, TypeInv', cmds' = cmds, pending' = pending,
         \/ wire' = wire
         \/ \E m \in Message : m.type # "block" /\ wire' = Append(wire, m)
  PROVE  CorrInv'
  <1>1. PICK w \in Seq(Message), c \in Seq(Seq(Entry)), p \in Seq(Entry) :
           /\ w = wire /\ c = cmds /\ p = pending /\ p = Owed(w) \o FlattenSeq(c) /\ Blocks(w)
           /\ \A i \in 1 .. Len(c) : IsLine(c[i])
    BY CorrState
  <1>2. cmds' = c /\ pending' = p
    BY <1>1
  <1>3. CASE wire' = wire
    <2>1. wire' = w
      BY <1>1, <1>3
    <2>2. QED
      BY <1>1, <1>2, <2>1, CorrNext
  <1>4. CASE \E m \in Message : m.type # "block" /\ wire' = Append(wire, m)
    <2>1. PICK m \in Message : m.type # "block" /\ wire' = Append(w, m)
      BY <1>1, <1>4
    <2>2. PICK v \in Seq(Message) : v = Append(w, m)
      BY AppendProperties
    <2>3. Owed(v) = Owed(w) /\ Blocks(v)
      BY <1>1, <2>1, <2>2, NotifyOwed
    <2>4. wire' = v /\ p = Owed(v) \o FlattenSeq(c)
      BY <1>1, <2>1, <2>2, <2>3
    <2>5. QED
      BY <1>2, <2>3, <2>4, CorrNext
  <1>5. QED
    BY <1>3, <1>4

LEMMA DropConcat ==
  ASSUME NEW S, NEW a \in Seq(S), NEW b \in Seq(S), NEW n, n = Len(a)
  PROVE  SubSeq(a \o b, n + 1, Len(a \o b)) = b
  <1>1. PICK c \in Seq(S) : c = a \o b
    BY ConcatFields
  <1>2. /\ Len(c) = n + Len(b) /\ n \in Nat /\ Len(b) \in Nat
        /\ \A i \in 1 .. Len(b) : c[n + i] = b[i]
    BY <1>1, ConcatFields
  <1>3. PICK d : d = SubSeq(c, n + 1, Len(c))
    OBVIOUS
  <1>4. d \in Seq(S) /\ Len(d) = Len(b) /\ \A i \in 1 .. Len(b) : d[i] = c[n + i]
    BY <1>2, <1>3
  <1>5. d = b
    BY <1>2, <1>4, SeqEqual
  <1>6. QED
    BY <1>1, <1>3, <1>5

(* handle_block takes a reply for the one to the first entry there is, and *)
(* that is the one the server means.                                       *)
LEMMA BlockHead ==
  ASSUME CorrInv, NEW w \in Seq(Message), w = wire, w # <<>>,
         NEW c \in Seq(Seq(Entry)), c = cmds, Blocks(w), \A i \in 1 .. Len(c) : IsLine(c[i]),
         pending = Owed(w) \o FlattenSeq(c), w[1].type = "block", OnBlock(w[1])
  PROVE  \E a \in Seq(Entry), R \in Seq(Entry) :
           /\ a = w[1].answers /\ R = Owed(Tail(w)) \o FlattenSeq(c) /\ pending = a \o R
           /\ Shaped(w[1])
           /\ a = <<>> => UNCHANGED client
           /\ a # <<>> => /\ OnReply(pending[1], w[1]) /\ pending[1] = a[1]
                          /\ Settled(pending[1], w[1].ok) = Len(a)
  <1>1. PICK t \in Seq(Message) : t = Tail(w)
    BY TailFields
  <1>2. PICK m \in Message : m = w[1] /\ 1 \in 1 .. Len(w)
    BY TailFields
  <1>3. m.answers \in Seq(Entry) /\ Settles(m) = m.answers /\ m.type = "block" /\ m.ok \in BOOLEAN
    BY <1>2, MessageFields DEF Settles
  <1>4. PICK a \in Seq(Entry), x \in Seq(Entry), y \in Seq(Entry) :
          a = m.answers /\ x = Owed(t) /\ y = FlattenSeq(c)
    BY <1>3, OwedType, Flattened
  <1>5. PICK R \in Seq(Entry) : R = x \o y
    BY ConcatFields
  <1>6. pending = a \o R
    <2>1. Owed(w) = a \o x
      BY <1>1, <1>2, <1>3, <1>4, OwedTail
    <2>2. (a \o x) \o y = a \o (x \o y)
      BY EntriesAssociative, Zenon
    <2>3. QED
      BY <1>4, <1>5, <2>1, <2>2
  <1>7. Shaped(m) /\ Adjacent(w, 1)
    BY <1>2, <1>3 DEF Blocks
  <1>8. CASE a = <<>>
    <2>1. 1 < Len(w) /\ Settles(w[1 + 1]) = <<User>> /\ ~m.barrier
      <3>1. w[1].answers = <<>>
        BY <1>2, <1>4, <1>8
      <3>2. 1 < Len(w) /\ Settles(w[1 + 1]) = <<User>>
        BY <1>7, <3>1 DEF Adjacent
      <3>3. \A e : <<>> # <<e>>
        OBVIOUS
      <3>4. m.answers = <<>>
        BY <1>4, <1>8
      <3>5. \A e, f, g : <<>> # <<e, f>> /\ <<>> # <<e, f, g>>
        OBVIOUS
      <3>6. ~m.barrier
        BY <1>7, <3>3, <3>4, <3>5 DEF Shaped, SeedLine
      <3>7. QED
        BY <3>2, <3>6
    <2>2. t # <<>> /\ t[1] = w[1 + 1]
      <3>1. Len(t) = Len(w) - 1 /\ Len(w) \in Nat /\ \A i \in 1 .. Len(t) : t[i] = w[i + 1]
        BY <1>1, TailFields
      <3>2. PICK n \in Nat : n = Len(w)
        BY <3>1
      <3>4. 1 < n /\ Len(t) = n - 1
        BY <2>1, <3>1, <3>2
      <3>5. 1 \in 1 .. Len(t) /\ Len(t) # 0
        BY <3>4
      <3>6. QED
        BY <3>1, <3>5, EmptyLen
    <2>3. PICK u \in Seq(Entry) : x = <<User>> \o u
      <3>1. Tail(t) \in Seq(Message)
        BY <2>2, TailFields
      <3>2. PICK t2 \in Seq(Message) : t2 = Tail(t)
        BY <3>1
      <3>3. Owed(t2) \in Seq(Entry) /\ x = <<User>> \o Owed(t2)
        BY <1>4, <2>1, <2>2, <3>2, OwedTail, OwedType
      <3>4. QED
        BY <3>3
    <2>4. x # <<>> /\ x[1] = User
      <3>1. \A v \in Seq(Entry) : <<User>> \o v # <<>> /\ (<<User>> \o v)[1] = <<User>>[1]
        <4>1. <<User>> # <<>>
          OBVIOUS
        <4>2. QED
          BY <4>1, PlainLines, ConcatFirst
      <3>2. <<User>>[1] = User
        OBVIOUS
      <3>3. QED
        BY <2>3, <3>1, <3>2
    <2>5. R # <<>> /\ R[1] = User
      BY <1>5, <2>4, ConcatFirst
    <2>6. pending = R
      BY <1>6, <1>8, ConcatEmptySeq
    <2>7. UNCHANGED client
      BY <1>2, <2>1, <2>5, <2>6 DEF OnBlock
    <2>8. QED
      BY <1>1, <1>2, <1>4, <1>5, <1>6, <1>7, <1>8, <2>7
  <1>9. CASE a # <<>>
    <2>1. pending # <<>> /\ pending[1] = a[1]
      <3>1. a \o R # <<>> /\ (a \o R)[1] = a[1]
        BY <1>9, ConcatFirst
      <3>2. QED
        BY <1>6, <3>1
    <2>2. ~m.barrier => a[1] # User
      <3>1. /\ \A g \in Nat : SeedLine(g, TRUE)[1].kind = "capture" /\ SeedLine(g, FALSE)[1].kind = "capture"
            /\ \A k \in SeedKinds, g \in Nat : Seed(k, g).kind = k
        <4>1. \A k \in SeedKinds, g \in Nat : Seed(k, g).kind = k
          BY SeedFields
        <4>2. "capture" \in SeedKinds
          BY DEF SeedKinds
        <4>3. \A g \in Nat : SeedLine(g, TRUE)[1] = Seed("capture", g) /\ SeedLine(g, FALSE)[1] = Seed("capture", g)
          BY SeedLineFields
        <4>4. QED
          BY <4>1, <4>2, <4>3
      <3>2. \A e, f : <<e>>[1] = e /\ <<e, f>>[1] = e
        OBVIOUS
      <3>3. SUFFICES ASSUME ~m.barrier PROVE a[1].kind # "user"
        BY PlainLines
      <3>4. \/ a = <<Windows>> \/ \E k \in SeedKinds, g \in Nat : a = <<Seed(k, g)>>
            \/ \E g \in Nat : a \in
                 {SeedLine(g, TRUE), SeedLine(g, FALSE), <<Seed("cursor", g), Seed("continue", g)>>,
                  <<Seed("cursor", g)>>, <<Seed("continue", g)>>}
        BY <1>4, <1>7, <1>9, <3>3 DEF Shaped
      <3>5. CASE a = <<Windows>>
        BY <3>2, <3>5, PlainLines
      <3>6. CASE \E k \in SeedKinds, g \in Nat : a = <<Seed(k, g)>>
        BY <3>1, <3>2, <3>6 DEF SeedKinds
      <3>7. ASSUME NEW g \in Nat, a \in
                 {SeedLine(g, TRUE), SeedLine(g, FALSE), <<Seed("cursor", g), Seed("continue", g)>>,
                  <<Seed("cursor", g)>>, <<Seed("continue", g)>>}
            PROVE a[1].kind # "user"
        <4>1. Seed("cursor", g).kind = "cursor" /\ Seed("continue", g).kind = "continue"
          BY <3>1 DEF SeedKinds
        <4>2. CASE a = SeedLine(g, TRUE) \/ a = SeedLine(g, FALSE)
          BY <3>1, <4>2
        <4>3. CASE a = <<Seed("cursor", g), Seed("continue", g)>> \/ a = <<Seed("cursor", g)>>
          BY <3>2, <4>1, <4>3
        <4>4. CASE a = <<Seed("continue", g)>>
          BY <3>2, <4>1, <4>4
        <4>5. QED
          BY <3>7, <4>2, <4>3, <4>4
      <3>8. QED
        BY <3>4, <3>5, <3>6, <3>7
    <2>3. OnReply(pending[1], m)
      BY <1>2, <2>1, <2>2 DEF OnBlock
    <2>4. ~m.ok /\ R # <<>> => R[1].kind # "continue"
      BY <1>1, <1>2, <1>4, <1>5, RestStarts
    <2>5. Settled(pending[1], m.ok) = Len(a)
      BY <1>3, <1>4, <1>6, <1>7, <1>9, <2>4, SettledAll
    <2>6. QED
      BY <1>1, <1>2, <1>4, <1>5, <1>6, <1>7, <1>9, <2>1, <2>3, <2>5
  <1>10. QED
    BY <1>8, <1>9

(* handle_block removes the entries of the reply and nothing else.         *)
LEMMA BlockCorr ==
  ASSUME CorrInv, NEW w \in Seq(Message), w = wire, w # <<>>,
         NEW c \in Seq(Seq(Entry)), c = cmds, Blocks(w), \A i \in 1 .. Len(c) : IsLine(c[i]),
         pending = Owed(w) \o FlattenSeq(c), w[1].type = "block", OnBlock(w[1])
  PROVE  pending' = Owed(Tail(w)) \o FlattenSeq(c)
  <1>1. PICK a \in Seq(Entry), R \in Seq(Entry) :
          /\ a = w[1].answers /\ R = Owed(Tail(w)) \o FlattenSeq(c) /\ pending = a \o R
          /\ a = <<>> => UNCHANGED client
          /\ a # <<>> => /\ OnReply(pending[1], w[1]) /\ pending[1] = a[1]
                         /\ Settled(pending[1], w[1].ok) = Len(a)
    BY BlockHead
  <1>2. CASE a = <<>>
    <2>1. pending' = pending
      BY <1>1, <1>2 DEF client
    <2>2. pending = R
      BY <1>1, <1>2, ConcatEmptySeq
    <2>3. QED
      BY <1>1, <2>1, <2>2
  <1>3. CASE a # <<>>
    <2>1. pending' = SubSeq(pending, Settled(pending[1], w[1].ok) + 1, Len(pending))
      BY <1>1, <1>3 DEF OnReply
    <2>2. PICK n : n = Len(a) /\ n = Settled(pending[1], w[1].ok)
      BY <1>1, <1>3
    <2>3. SubSeq(a \o R, n + 1, Len(a \o R)) = R
      BY <2>2, DropConcat
    <2>4. QED
      BY <1>1, <2>1, <2>2, <2>3
  <1>4. QED
    BY <1>2, <1>3

LEMMA HandleCorr ==
  ASSUME CorrInv, running, handle_message
  PROVE  CorrInv'
  <1>1. TypeInv /\ TypeInv'
    BY HandleType DEF CorrInv
  <1>2. PICK w \in Seq(Message), c \in Seq(Seq(Entry)), p \in Seq(Entry) :
           /\ w = wire /\ c = cmds /\ p = pending /\ p = Owed(w) \o FlattenSeq(c) /\ Blocks(w)
           /\ \A i \in 1 .. Len(c) : IsLine(c[i])
    BY CorrState
  <1>3. w # <<>> /\ wire' = Tail(w) /\ cmds' = c /\ Head(w) = w[1]
    BY <1>2, TailFields DEF handle_message
  <1>4. PICK t \in Seq(Message) : t = Tail(w)
    BY <1>3, TailFields
  <1>5. PICK q \in Seq(Entry) : q = pending'
    BY <1>1 DEF TypeInv, TypeOK
  <1>6. Blocks(t)
    BY <1>2, <1>3, <1>4, BlocksTail
  <1>7. q = Owed(t) \o FlattenSeq(c)
    <2>1. CASE w[1].type = "block" /\ OnBlock(w[1])
      BY <1>2, <1>3, <1>4, <1>5, <2>1, BlockCorr
    <2>2. CASE w[1].type # "block" /\ pending' = pending
      <3>1. Settles(w[1]) = <<>>
        BY <2>2 DEF Settles
      <3>2. Owed(w) = <<>> \o Owed(t)
        BY <1>3, <1>4, <3>1, OwedTail
      <3>3. <<>> \o Owed(t) = Owed(t)
        BY OwedType, ConcatEmptySeq
      <3>4. QED
        BY <1>2, <1>5, <2>2, <3>2, <3>3
    <2>3. QED
      BY <1>2, <1>3, <2>1, <2>2 DEF handle_message, route_output, OnPause, OnContinue
  <1>8. wire' = t /\ cmds' = c /\ pending' = q
    BY <1>3, <1>4, <1>5
  <1>9. QED
    BY <1>1, <1>6, <1>7, <1>8, CorrNext

LEMMA InitCorr ==
  ASSUME Init
  PROVE  CorrInv
  <1>1. TypeInv
    BY InitType
  <1>2. wire = <<>> /\ cmds = <<>> /\ pending = <<>>
    BY DEF Init
  <1>3. BlockInv
    BY <1>2 DEF BlockInv
  <1>4. PICK w \in Seq(Message), c \in Seq(Seq(Entry)) : w = <<>> /\ c = <<>>
    <2>1. \A S : <<>> \in Seq(S)
      OBVIOUS
    <2>2. <<>> \in Seq(Message) /\ <<>> \in Seq(Seq(Entry))
      BY <2>1
    <2>3. QED
      BY <2>2, Zenon
  <1>5. Owed(w) = <<>> /\ FlattenSeq(c) = <<>> /\ <<>> \o <<>> = <<>>
    BY <1>4, OwedShort, Flattened, PlainLines, ConcatEmptySeq
  <1>6. Correlated
    BY <1>1, <1>2, <1>4, <1>5, CorrelatedOwed
  <1>7. QED
    BY <1>1, <1>3, <1>6 DEF CorrInv

LEMMA NextCorr ==
  ASSUME CorrInv, [Next]_vars
  PROVE  CorrInv'
  <1>1. TypeInv /\ TypeInv'
    BY NextType DEF CorrInv
  <1>2. CASE UNCHANGED vars
    BY <1>1, <1>2, NotifyCorr DEF vars, client
  <1>3. CASE Tick \/ Produce
    BY <1>1, <1>3, NotifyCorr DEF Tick, Produce, client
  <1>4. CASE SendOutput \/ PausePane \/ ResumePane \/ ChangeLayout
    <2>1. cmds' = cmds /\ pending' = pending
      BY <1>4 DEF SendOutput, PausePane, ResumePane, ChangeLayout, client
    <2>2. \E m : m.type # "block" /\ wire' = Append(wire, m)
      <3>1. CASE SendOutput
        <4>1. PICK k, g : wire' = Append(wire, [type |-> "output", chunk |-> k, age |-> g])
          BY <3>1 DEF SendOutput, Notify
        <4>2. [type |-> "output", chunk |-> k, age |-> g].type # "block"
          OBVIOUS
        <4>3. QED
          BY <4>1, <4>2
      <3>2. CASE PausePane \/ ResumePane \/ ChangeLayout
        BY <3>2 DEF PausePane, ResumePane, ChangeLayout, Notify
      <3>3. QED
        BY <1>4, <3>1, <3>2
    <2>3. PICK m : m.type # "block" /\ wire' = Append(wire, m)
      BY <2>2
    <2>4. m \in Message
      <3>1. wire \in Seq(Message) /\ wire' \in Seq(Message)
        BY <1>1 DEF TypeInv, TypeOK
      <3>2. \A S : \A s \in Seq(S) : \A x : Append(s, x) \in Seq(S) => x \in S
        <4> SUFFICES ASSUME NEW S, NEW s \in Seq(S), NEW x, Append(s, x) \in Seq(S) PROVE x \in S
          OBVIOUS
        <4>1. Append(s, x)[Len(s) + 1] = x /\ Len(s) + 1 \in 1 .. Len(Append(s, x))
          OBVIOUS
        <4>2. QED
          BY <4>1
      <3>3. QED
        BY <2>3, <3>1, <3>2
    <2>5. QED
      BY <1>1, <2>1, <2>3, <2>4, NotifyCorr
  <1>5. CASE Execute
    BY <1>5, ExecuteCorr
  <1>6. CASE start_send
    BY <1>6, SendCorr
  <1>7. CASE refresh_windows \/ queue_user_command \/ continue_paused
    BY <1>1, <1>7, NotifyCorr DEF refresh_windows, queue_user_command, continue_paused
  <1>8. CASE running /\ handle_message
    BY <1>8, HandleCorr
  <1>9. QED
    BY <1>2, <1>3, <1>4, <1>5, <1>6, <1>7, <1>8 DEF Next

LEMMA CorrInvariant == Spec => []CorrInv
  BY InitCorr, NextCorr, PTL DEF Spec

(* Replies are matched with commands by their order alone, and that is     *)
(* right at all times: what the client waits for is what the server still  *)
(* owes, whichever part of a compound command fails and skips the rest.    *)
THEOREM RepliesAreMatched == Spec => []Correlated
  <1>1. CorrInv => Correlated
    BY DEF CorrInv
  <1>2. QED
    BY <1>1, CorrInvariant, PTL

=============================================================================
