--------------------------- MODULE TmuxOutputProofs ---------------------------
(* NothingLost, for every number of chunks, ticks and events, every limit   *)
(* and every set of commands that may fail, when messages are handled       *)
(* within the tick in which they are sent (~Lag).                           *)
EXTENDS TmuxControlProofs

-----------------------------------------------------------------------------
(* The seed.  w are messages on the wire, q are command lines that were    *)
(* not executed, sent or not, and p is the pane.                           *)

Capture(m, g) == Settles(m) # <<>> /\ Settles(m)[1] = Seed("capture", g)
Cursor(m, g)  == Settles(m) # <<>> /\ Settles(m)[1] = Seed("cursor", g)
NoReply(w, g) == \A i \in 1 .. Len(w) : ~Capture(w[i], g) /\ ~Cursor(w[i], g)

IsSeed(l)    == l[1].kind = "capture"
Opens(l, g)  == l[1] = Seed("capture", g)
NoSeed(q)    == \A i \in 1 .. Len(q) : ~IsSeed(q[i])
NoOpen(q, g) == \A i \in 1 .. Len(q) : ~Opens(q[i], g)

\* One line is of generation g, and no seed is behind it.
LastSeed(q, g) ==
  \E j \in 1 .. Len(q) :
    /\ Opens(q[j], g)
    /\ \A i \in 1 .. Len(q) : (i < j => ~Opens(q[i], g)) /\ (i > j => ~IsSeed(q[i]))

\* The capture's reply is on the wire, and the cursor's right behind it unless
\* the capture failed.
Executed(w, g) ==
  \E i \in 1 .. Len(w) :
    /\ Capture(w[i], g)
    /\ w[i].ok => i + 1 \in 1 .. Len(w) /\ Cursor(w[i + 1], g)
    /\ \A j \in 1 .. Len(w) : /\ Capture(w[j], g) => j = i
                              /\ Cursor(w[j], g) => j = i + 1 /\ w[i].ok

\* The capture was received, and the cursor is next.
Captured(w, g) ==
  /\ w # <<>> /\ Cursor(w[1], g)
  /\ \A j \in 1 .. Len(w) : ~Capture(w[j], g) /\ (Cursor(w[j], g) => j = 1)

InFlight(w, q, p) ==
  \/ NoReply(w, p.gen) /\ LastSeed(q, p.gen) /\ p.seed = None
  \/ Executed(w, p.gen) /\ NoSeed(q) /\ p.seed = None
  \/ Captured(w, p.gen) /\ NoSeed(q) /\ p.seed # None

Generations(w, q, p) ==
  /\ \A i \in 1 .. Len(q) : q[i][1].gen <= p.gen /\ (IsSeed(q[i]) => p.mapped)
  /\ \A i \in 1 .. Len(w) : Settles(w[i]) # <<>> => Settles(w[i])[1].gen <= p.gen

SeedInv(w, q, p) ==
  /\ Generations(w, q, p)
  /\ p.seeded => ~p.seeding /\ NoSeed(q)
  /\ p.seeded \/ p.seeding => p.mapped
  /\ ~p.seeding => NoOpen(q, p.gen) /\ NoReply(w, p.gen) /\ p.seed = None
  /\ p.seeding => InFlight(w, q, p)

-----------------------------------------------------------------------------
(* Flow control.  z: the client knows that the pane is paused.             *)

FlowControl(m) == m.type \in {"pause", "continue"}
NoFlow(w, n) == \A i \in 1 .. n : ~FlowControl(w[i])
NoContinueFrom(w, h) == \A i \in 1 .. Len(w) : i >= h => w[i].type # "continue"

\* A seed that would have resumed the pane failed.
Unresumed(m, g) ==
  /\ m.type = "block" /\ ~m.ok /\ m.answers # <<>>
  /\ m.answers[Len(m.answers)] = Seed("continue", g)
Retried(w, n, p) == p.mapped /\ \E i \in 1 .. n : Unresumed(w[i], p.gen)

\* When the server has paused the pane, the client will learn it, knows it, or
\* has sent for the pane to be resumed.
PausedInv(w, q, p, z) ==
  \/ \E j \in 1 .. Len(w) : w[j].type = "pause" /\ NoContinueFrom(w, j)
  \/ /\ NoFlow(w, Len(w))
     /\ \/ z \/ Retried(w, Len(w), p)
        \/ \E i \in 1 .. Len(q) : q[i] = SeedLine(p.gen, TRUE)

\* No capture from before the first n messages is shown or will be.
Unseen(w, n, p) ==
  /\ ~p.seeded /\ p.seed = None
  /\ \A h \in 1 .. n : ~(Capture(w[h], p.gen) /\ w[h].ok)

\* A `continue` ends a pause that the client learns of before it, or knows, or
\* it has captured nothing since.
ContinueInv(w, p, z) ==
  \A i \in 1 .. Len(w) : w[i].type = "continue" =>
    \/ \E j \in 1 .. (i - 1) : /\ w[j].type = "pause"
                               /\ \A h \in j .. (i - 1) : w[h].type # "continue"
    \/ NoFlow(w, i - 1) /\ (z \/ Retried(w, i - 1, p) \/ Unseen(w, i - 1, p))

-----------------------------------------------------------------------------
(* Output.  t is the server, n is the time.                                *)

\* Messages do not age on the wire.
TimeInv(w, p, t, n) ==
  /\ p.capture_at = None \/ p.capture_at <= n
  /\ \A i \in 1 .. Len(w) : w[i].type = "output" =>
       /\ w[i].chunk <= t.sent /\ w[i].age = n - t.made[w[i].chunk]
       /\ \A j \in 1 .. Len(w) :
            j > i /\ Capture(w[j], p.gen) /\ w[j].ok => w[i].chunk <= w[j].shown

Coming(w, t, k) == \/ k > t.sent
                   \/ \E i \in 1 .. Len(w) : w[i].type = "output" /\ w[i].chunk = k
Late(p, t, k) == p.capture_at = None \/ t.made[k] >= p.capture_at

\* What a painted pane, a capture on the wire, or one that was received does
\* not show is still to come, and will be shown.
ScreenInv(w, p, t, s) ==
  p.seeded /\ NoContinueFrom(w, 1) =>
    \A k \in 1 .. Len(t.made) : k \in s \/ (Coming(w, t, k) /\ Late(p, t, k))
CaptureInv(w, p, t, n) ==
  \A i \in 1 .. Len(w) : Capture(w[i], p.gen) /\ w[i].ok /\ NoContinueFrom(w, i) =>
    \A k \in 1 .. Len(t.made) : k > w[i].shown => Coming(w, t, k) /\ t.made[k] >= n
KeptInv(w, p, t) ==
  p.seed # None /\ NoContinueFrom(w, 1) =>
    \A k \in 1 .. Len(t.made) : k > p.seed => Coming(w, t, k) /\ Late(p, t, k)

ShownInv(w, p, t, n, s) ==
  ScreenInv(w, p, t, s) /\ CaptureInv(w, p, t, n) /\ KeptInv(w, p, t)

Lines == cmds \o outgoing

OutputInv(w, q, p, z, t, n, s) ==
  /\ SeedInv(w, q, p)
  /\ t.paused => PausedInv(w, q, p, z)
  /\ ContinueInv(w, p, z)
  /\ TimeInv(w, p, t, n)
  /\ ShownInv(w, p, t, n, s)

PaneInv ==
  CorrInv /\ (running => OutputInv(wire, Lines, pane, paused, tmux, now, screen))

-----------------------------------------------------------------------------
(* The seed when messages and lines come and go.                           *)

IsJoin(v, w, r) ==
  /\ Len(v) = Len(w) + Len(r) /\ Len(w) \in Nat /\ Len(r) \in Nat
  /\ \A i \in 1 .. Len(w) : v[i] = w[i] /\ i \in 1 .. Len(v)
  /\ \A j \in 1 .. Len(r) : v[Len(w) + j] = r[j] /\ Len(w) + j \in 1 .. Len(v)
  /\ \A i \in 1 .. Len(v) :
       \/ i \in 1 .. Len(w)
       \/ \E j \in 1 .. Len(r) : i = Len(w) + j /\ v[i] = r[j]

LEMMA Joined ==
  ASSUME NEW w \in Seq(Message), NEW r \in Seq(Message)
  PROVE  \E v \in Seq(Message) : v = w \o r /\ IsJoin(v, w, r)
  <1>1. PICK v \in Seq(Message) : v = w \o r
    BY ConcatFields
  <1>2. /\ Len(v) = Len(w) + Len(r) /\ Len(w) \in Nat /\ Len(r) \in Nat
        /\ \A i \in 1 .. Len(w) : v[i] = w[i]
        /\ \A i \in 1 .. Len(r) : v[Len(w) + i] = r[i]
    BY <1>1, ConcatFields
  <1>3. ASSUME NEW i \in 1 .. Len(v), i \notin 1 .. Len(w)
        PROVE  \E j \in 1 .. Len(r) : i = Len(w) + j /\ v[i] = r[j]
    <2>1. i - Len(w) \in 1 .. Len(r) /\ i = Len(w) + (i - Len(w))
      BY <1>2, <1>3
    <2>2. QED
      BY <1>2, <2>1
  <1>4. /\ \A i \in 1 .. Len(w) : i \in 1 .. Len(v)
        /\ \A j \in 1 .. Len(r) : Len(w) + j \in 1 .. Len(v)
    BY <1>2
  <1>5. IsJoin(v, w, r)
    BY <1>2, <1>3, <1>4 DEF IsJoin
  <1>6. QED
    BY <1>1, <1>5

LEMMA NoReplyTail ==
  ASSUME NEW w \in Seq(Message), w # <<>>, NEW g, NoReply(w, g)
  PROVE  NoReply(Tail(w), g)
  BY TailFields DEF NoReply

LEMMA NoReplyConcat ==
  ASSUME NEW w \in Seq(Message), NEW r \in Seq(Message), NEW g, NoReply(w, g), NoReply(r, g)
  PROVE  NoReply(w \o r, g)
  BY ConcatFields DEF NoReply

LEMMA ExecutedTail ==
  ASSUME NEW w \in Seq(Message), w # <<>>, NEW g, Executed(w, g), ~Capture(w[1], g)
  PROVE  Executed(Tail(w), g)
  <1>1. PICK t \in Seq(Message) : t = Tail(w)
    BY TailFields
  <1>2. /\ Len(w) \in Nat /\ Len(t) = Len(w) - 1
        /\ \A j \in 1 .. Len(t) : t[j] = w[j + 1] /\ j + 1 \in 1 .. Len(w)
    BY <1>1, TailFields
  <1>3. PICK i \in 1 .. Len(w) :
          /\ Capture(w[i], g)
          /\ w[i].ok => i + 1 \in 1 .. Len(w) /\ Cursor(w[i + 1], g)
          /\ \A j \in 1 .. Len(w) : /\ Capture(w[j], g) => j = i
                                    /\ Cursor(w[j], g) => j = i + 1 /\ w[i].ok
    BY DEF Executed
  <1>4. PICK k \in 1 .. Len(t) : k + 1 = i /\ t[k] = w[i]
    <2>1. i # 1
      BY <1>3
    <2>2. i - 1 \in 1 .. Len(t) /\ (i - 1) + 1 = i
      BY <1>2, <2>1
    <2>3. QED
      BY <1>2, <2>2
  <1>5. t[k].ok => k + 1 \in 1 .. Len(t) /\ Cursor(t[k + 1], g)
    <2>1. i + 1 \in 1 .. Len(w) => k + 1 \in 1 .. Len(t)
      BY <1>2, <1>4
    <2>2. QED
      BY <1>2, <1>3, <1>4, <2>1
  <1>6. ASSUME NEW j \in 1 .. Len(t)
        PROVE  /\ Capture(t[j], g) => j = k
               /\ Cursor(t[j], g) => j = k + 1 /\ t[k].ok
    <2>1. t[j] = w[j + 1] /\ j + 1 \in 1 .. Len(w)
      BY <1>2
    <2>2. /\ Capture(t[j], g) => j + 1 = i
          /\ Cursor(t[j], g) => j + 1 = i + 1 /\ w[i].ok
      BY <1>3, <2>1
    <2>3. QED
      BY <1>2, <1>4, <2>2
  <1>7. QED
    BY <1>1, <1>3, <1>4, <1>5, <1>6 DEF Executed

LEMMA ExecutedConcat ==
  ASSUME NEW w \in Seq(Message), NEW r \in Seq(Message), NEW g, Executed(w, g), NoReply(r, g)
  PROVE  Executed(w \o r, g)
  <1>1. PICK v \in Seq(Message) : v = w \o r /\ IsJoin(v, w, r)
    BY Joined
  <1>2. /\ Len(v) = Len(w) + Len(r) /\ Len(w) \in Nat /\ Len(r) \in Nat
        /\ \A i \in 1 .. Len(w) : v[i] = w[i] /\ i \in 1 .. Len(v)
        /\ \A i \in 1 .. Len(v) : i \in 1 .. Len(w) \/ \E j \in 1 .. Len(r) : v[i] = r[j]
    BY <1>1 DEF IsJoin
  <1>3. PICK i \in 1 .. Len(w) :
          /\ Capture(w[i], g)
          /\ w[i].ok => i + 1 \in 1 .. Len(w) /\ Cursor(w[i + 1], g)
          /\ \A j \in 1 .. Len(w) : /\ Capture(w[j], g) => j = i
                                    /\ Cursor(w[j], g) => j = i + 1 /\ w[i].ok
    BY DEF Executed
  <1>4. i \in 1 .. Len(v) /\ v[i] = w[i]
    BY <1>2
  <1>5. v[i].ok => i + 1 \in 1 .. Len(v) /\ Cursor(v[i + 1], g)
    BY <1>2, <1>3, <1>4
  <1>6. ASSUME NEW j \in 1 .. Len(v)
        PROVE  /\ Capture(v[j], g) => j = i
               /\ Cursor(v[j], g) => j = i + 1 /\ v[i].ok
    BY <1>2, <1>3, <1>4 DEF NoReply
  <1>7. QED
    BY <1>1, <1>3, <1>4, <1>5, <1>6 DEF Executed

LEMMA CapturedConcat ==
  ASSUME NEW w \in Seq(Message), NEW r \in Seq(Message), NEW g, Captured(w, g), NoReply(r, g)
  PROVE  Captured(w \o r, g)
  <1>1. PICK v \in Seq(Message) : v = w \o r /\ IsJoin(v, w, r)
    BY Joined
  <1>2. /\ \A i \in 1 .. Len(w) : v[i] = w[i]
        /\ \A i \in 1 .. Len(v) : i \in 1 .. Len(w) \/ \E j \in 1 .. Len(r) : v[i] = r[j]
    BY <1>1 DEF IsJoin
  <1>3. v # <<>> /\ v[1] = w[1]
    BY <1>1, ConcatFirst DEF Captured
  <1>4. QED
    BY <1>1, <1>2, <1>3 DEF Captured, NoReply

(* A message that is not a reply to the current seed is received.          *)
LEMMA SeedTail ==
  ASSUME NEW w \in Seq(Message), w # <<>>, NEW q, NEW p, SeedInv(w, q, p),
         ~Capture(w[1], p.gen), ~Cursor(w[1], p.gen)
  PROVE  SeedInv(Tail(w), q, p)
  <1>1. Generations(Tail(w), q, p)
    BY TailFields DEF SeedInv, Generations
  <1>2. NoReply(w, p.gen) => NoReply(Tail(w), p.gen)
    BY NoReplyTail
  <1>3. InFlight(w, q, p) => InFlight(Tail(w), q, p)
    BY <1>2, ExecutedTail DEF InFlight, Captured
  <1>4. QED
    BY <1>1, <1>2, <1>3 DEF SeedInv

LEMMA GenerationsConcat ==
  ASSUME NEW w \in Seq(Message), NEW r \in Seq(Message), NEW g,
         \A i \in 1 .. Len(w) : Settles(w[i]) # <<>> => Settles(w[i])[1].gen <= g,
         \A i \in 1 .. Len(r) : Settles(r[i]) # <<>> => Settles(r[i])[1].gen <= g
  PROVE  \A i \in 1 .. Len(w \o r) : Settles((w \o r)[i]) # <<>> => Settles((w \o r)[i])[1].gen <= g
  <1>1. PICK v \in Seq(Message) : v = w \o r /\ IsJoin(v, w, r)
    BY Joined
  <1>2. /\ \A i \in 1 .. Len(w) : v[i] = w[i]
        /\ \A i \in 1 .. Len(v) : i \in 1 .. Len(w) \/ \E j \in 1 .. Len(r) : v[i] = r[j]
    BY <1>1 DEF IsJoin
  <1>3. QED
    BY <1>1, <1>2

(* Messages that are not replies to the current seed are sent.             *)
LEMMA SeedSend ==
  ASSUME NEW w \in Seq(Message), NEW r \in Seq(Message), NEW q, NEW p, SeedInv(w, q, p),
         NoReply(r, p.gen),
         \A i \in 1 .. Len(r) : Settles(r[i]) # <<>> => Settles(r[i])[1].gen <= p.gen
  PROVE  SeedInv(w \o r, q, p)
  <1>1. Generations(w \o r, q, p)
    BY GenerationsConcat DEF SeedInv, Generations
  <1>2. NoReply(w, p.gen) => NoReply(w \o r, p.gen)
    BY NoReplyConcat
  <1>3. InFlight(w, q, p) => InFlight(w \o r, q, p)
    BY <1>2, ExecutedConcat, CapturedConcat DEF InFlight
  <1>4. QED
    BY <1>1, <1>2, <1>3 DEF SeedInv

\* q2 is q without d lines behind the first a, none of them of generation g.
Thinned(q, q2, a, d, g) ==
  /\ a + d <= Len(q) /\ Len(q2) = Len(q) - d
  /\ \A i \in 1 .. a : q2[i] = q[i]
  /\ \A i \in (a + 1) .. Len(q2) : q2[i] = q[i + d]
  /\ \A i \in (a + 1) .. (a + d) : ~Opens(q[i], g)

LEMMA ThinnedLines ==
  ASSUME NEW q \in Seq(Seq(Entry)), NEW q2 \in Seq(Seq(Entry)), NEW a \in Nat, NEW d \in Nat,
         NEW g, Thinned(q, q2, a, d, g)
  PROVE  /\ \A i \in 1 .. Len(q2) : \E j \in 1 .. Len(q) : q2[i] = q[j]
         /\ \A j \in 1 .. Len(q) : Opens(q[j], g) => \E i \in 1 .. Len(q2) : q2[i] = q[j]
         /\ NoSeed(q) => NoSeed(q2)
         /\ NoOpen(q, g) => NoOpen(q2, g)
         /\ LastSeed(q, g) => LastSeed(q2, g)
  <1>1. Len(q) \in Nat /\ Len(q2) \in Nat /\ Len(q2) = Len(q) - d /\ a + d <= Len(q)
    BY DEF Thinned
  <1> DEFINE f(i) == IF i <= a THEN i ELSE i + d
  <1>2. \A i \in 1 .. Len(q2) : f(i) \in 1 .. Len(q) /\ q2[i] = q[f(i)]
    BY <1>1, SMTT(30) DEF Thinned
  <1>3. \A i \in 1 .. Len(q2), j \in 1 .. Len(q2) : i < j <=> f(i) < f(j)
    BY <1>1
  <1>4. \A j \in 1 .. Len(q) : Opens(q[j], g) => \E i \in 1 .. Len(q2) : f(i) = j
    <2> SUFFICES ASSUME NEW j \in 1 .. Len(q), Opens(q[j], g)
                 PROVE  \E i \in 1 .. Len(q2) : f(i) = j
      OBVIOUS
    <2>1. ~(j \in (a + 1) .. (a + d))
      BY DEF Thinned
    <2>2. CASE j <= a
      <3>1. j \in 1 .. Len(q2) /\ f(j) = j
        BY <1>1, <2>2
      <3>2. QED
        BY <3>1
    <2>3. CASE j > a + d
      <3>1. j - d \in 1 .. Len(q2) /\ ~(j - d <= a) /\ (j - d) + d = j
        BY <1>1, <2>3
      <3>2. f(j - d) = j
        BY <3>1
      <3>3. QED
        BY <3>1, <3>2
    <2>4. QED
      BY <1>1, <2>1, <2>2, <2>3
  <1> HIDE DEF f
  <1>5. LastSeed(q, g) => LastSeed(q2, g)
    <2> SUFFICES ASSUME LastSeed(q, g) PROVE LastSeed(q2, g)
      OBVIOUS
    <2>1. PICK j \in 1 .. Len(q) :
            /\ Opens(q[j], g)
            /\ \A i \in 1 .. Len(q) : (i < j => ~Opens(q[i], g)) /\ (i > j => ~IsSeed(q[i]))
      BY DEF LastSeed
    <2>2. PICK k \in 1 .. Len(q2) : f(k) = j
      BY <1>4, <2>1
    <2>3. ASSUME NEW i \in 1 .. Len(q2)
          PROVE  (i < k => ~Opens(q2[i], g)) /\ (i > k => ~IsSeed(q2[i]))
      <3>1. f(i) \in 1 .. Len(q) /\ q2[i] = q[f(i)]
        BY <1>2
      <3>2. (i < k <=> f(i) < j) /\ (k < i <=> j < f(i))
        BY <1>3, <2>2
      <3>3. i > k => f(i) > j
        BY <1>1, <3>1, <3>2
      <3>4. QED
        BY <2>1, <3>1, <3>2, <3>3
    <2>4. Opens(q2[k], g)
      BY <1>2, <2>1, <2>2
    <2>5. QED
      BY <2>3, <2>4 DEF LastSeed
  <1>6. QED
    BY <1>2, <1>4, <1>5 DEF NoSeed, NoOpen

LEMMA SeedThin ==
  ASSUME NEW q \in Seq(Seq(Entry)), NEW q2 \in Seq(Seq(Entry)), NEW a \in Nat, NEW d \in Nat,
         NEW w, NEW p, SeedInv(w, q, p), Thinned(q, q2, a, d, p.gen)
  PROVE  SeedInv(w, q2, p)
  <1>1. /\ \A i \in 1 .. Len(q2) : \E j \in 1 .. Len(q) : q2[i] = q[j]
        /\ NoSeed(q) => NoSeed(q2)
        /\ NoOpen(q, p.gen) => NoOpen(q2, p.gen)
        /\ LastSeed(q, p.gen) => LastSeed(q2, p.gen)
    BY ThinnedLines
  <1>2. Generations(w, q2, p)
    BY <1>1 DEF SeedInv, Generations
  <1>3. InFlight(w, q, p) => InFlight(w, q2, p)
    BY <1>1 DEF InFlight
  <1>4. QED
    BY <1>1, <1>2, <1>3 DEF SeedInv

LEMMA Appended ==
  ASSUME NEW S, NEW q \in Seq(S), NEW l \in S
  PROVE  /\ Append(q, l) \in Seq(S) /\ Len(Append(q, l)) = Len(q) + 1 /\ Len(q) \in Nat
         /\ Append(q, l)[Len(q) + 1] = l /\ Len(q) + 1 \in 1 .. Len(Append(q, l))
         /\ \A i \in 1 .. Len(q) : Append(q, l)[i] = q[i] /\ i \in 1 .. Len(Append(q, l))
         /\ \A i \in 1 .. Len(Append(q, l)) : i \in 1 .. Len(q) \/ i = Len(q) + 1
  OBVIOUS

LEMMA OpensSeed ==
  ASSUME NEW l, NEW g, Opens(l, g)
  PROVE  IsSeed(l) /\ l[1].gen = g
  BY DEF Opens, IsSeed, Seed

(* A line that is not a seed is queued.                                    *)
LEMMA SeedAppend ==
  ASSUME NEW q \in Seq(Seq(Entry)), NEW l \in Seq(Entry), NEW w, NEW p, SeedInv(w, q, p),
         ~IsSeed(l), l[1].gen <= p.gen
  PROVE  SeedInv(w, Append(q, l), p)
  <1>1. PICK q2 \in Seq(Seq(Entry)) : q2 = Append(q, l)
    BY Appended
  <1>2. /\ Len(q2) = Len(q) + 1 /\ Len(q) \in Nat /\ q2[Len(q) + 1] = l
        /\ \A i \in 1 .. Len(q) : q2[i] = q[i] /\ i \in 1 .. Len(q2)
        /\ \A i \in 1 .. Len(q2) : i \in 1 .. Len(q) \/ i = Len(q) + 1
    BY <1>1, Appended
  <1>3. ~Opens(l, p.gen)
    BY OpensSeed
  <1>4. Generations(w, q2, p)
    BY <1>2 DEF SeedInv, Generations
  <1>5. /\ NoSeed(q) => NoSeed(q2)
        /\ NoOpen(q, p.gen) => NoOpen(q2, p.gen)
    BY <1>2, <1>3 DEF NoSeed, NoOpen
  <1>6. LastSeed(q, p.gen) => LastSeed(q2, p.gen)
    <2> SUFFICES ASSUME LastSeed(q, p.gen) PROVE LastSeed(q2, p.gen)
      OBVIOUS
    <2>1. PICK j \in 1 .. Len(q) :
            /\ Opens(q[j], p.gen)
            /\ \A i \in 1 .. Len(q) : (i < j => ~Opens(q[i], p.gen)) /\ (i > j => ~IsSeed(q[i]))
      BY DEF LastSeed
    <2>2. j \in 1 .. Len(q2) /\ Opens(q2[j], p.gen)
      BY <1>2, <2>1
    <2>3. \A i \in 1 .. Len(q2) : (i < j => ~Opens(q2[i], p.gen)) /\ (i > j => ~IsSeed(q2[i]))
      BY <1>2, <1>3, <2>1
    <2>4. QED
      BY <2>2, <2>3 DEF LastSeed
  <1>7. InFlight(w, q, p) => InFlight(w, q2, p)
    BY <1>5, <1>6 DEF InFlight
  <1>8. QED
    BY <1>1, <1>4, <1>5, <1>7 DEF SeedInv

(* seed_pane starts a seed.                                                *)
LEMMA SeedStart ==
  ASSUME NEW q \in Seq(Seq(Entry)), NEW w, NEW p, NEW p2, NEW z \in BOOLEAN,
         p.gen \in Nat, Generations(w, q, p), NoOpen(q, p.gen), NoReply(w, p.gen),
         p2.gen = p.gen, p2.mapped, p2.seeding, ~p2.seeded, p2.seed = None
  PROVE  SeedInv(w, Append(q, SeedLine(p.gen, z)), p2)
  <1>1. PICK l \in Seq(Entry) : /\ l = SeedLine(p.gen, z) /\ l[1] = Seed("capture", p.gen)
                               /\ l[1].gen = p.gen
    <2>1. SeedLine(p.gen, z) \in Seq(Entry) /\ SeedLine(p.gen, z)[1] = Seed("capture", p.gen)
      BY SeedLineFields
    <2>2. Seed("capture", p.gen).gen = p.gen
      BY DEF Seed
    <2>3. QED
      BY <2>1, <2>2
  <1>2. PICK q2 \in Seq(Seq(Entry)) : q2 = Append(q, l)
    BY Appended
  <1>3. /\ Len(q2) = Len(q) + 1 /\ Len(q) \in Nat /\ q2[Len(q) + 1] = l
        /\ Len(q) + 1 \in 1 .. Len(q2)
        /\ \A i \in 1 .. Len(q) : q2[i] = q[i] /\ i \in 1 .. Len(q2)
        /\ \A i \in 1 .. Len(q2) : i \in 1 .. Len(q) \/ i = Len(q) + 1
    BY <1>2, Appended
  <1>4. Generations(w, q2, p2)
    <2>1. \A i \in 1 .. Len(q2) : q2[i][1].gen <= p2.gen
      <3>1. l[1].gen <= p2.gen
        BY <1>1
      <3>2. QED
        BY <1>3, <3>1 DEF Generations
    <2>2. QED
      BY <2>1 DEF Generations
  <1>5. Opens(l, p.gen)
    BY <1>1 DEF Opens
  <1>6. LastSeed(q2, p.gen)
    <2>1. \A i \in 1 .. Len(q2) : /\ i < Len(q) + 1 => ~Opens(q2[i], p.gen)
                                  /\ ~(i > Len(q) + 1)
      <3>1. \A i \in 1 .. Len(q) : ~Opens(q2[i], p.gen)
        BY <1>3 DEF NoOpen
      <3>2. \A i \in 1 .. Len(q2) : ~(i > Len(q) + 1) /\ (i < Len(q) + 1 => i \in 1 .. Len(q))
        BY <1>3
      <3>3. QED
        BY <3>1, <3>2
    <2>2. QED
      BY <1>3, <1>5, <2>1 DEF LastSeed
  <1>7. InFlight(w, q2, p2)
    BY <1>6 DEF InFlight
  <1>8. QED
    BY <1>1, <1>2, <1>4, <1>7 DEF SeedInv

LEMMA ExecutedSent ==
  ASSUME NEW w \in Seq(Message), NEW r \in Seq(Message), NEW g, NoReply(w, g), Executed(r, g)
  PROVE  Executed(w \o r, g)
  <1>1. PICK v \in Seq(Message) : v = w \o r /\ IsJoin(v, w, r)
    BY Joined
  <1>2. /\ Len(v) = Len(w) + Len(r) /\ Len(w) \in Nat /\ Len(r) \in Nat
        /\ \A i \in 1 .. Len(w) : v[i] = w[i]
        /\ \A j \in 1 .. Len(r) : v[Len(w) + j] = r[j] /\ Len(w) + j \in 1 .. Len(v)
        /\ \A i \in 1 .. Len(v) : \/ i \in 1 .. Len(w)
                                  \/ \E j \in 1 .. Len(r) : i = Len(w) + j /\ v[i] = r[j]
    BY <1>1 DEF IsJoin
  <1>3. PICK i \in 1 .. Len(r) :
          /\ Capture(r[i], g)
          /\ r[i].ok => i + 1 \in 1 .. Len(r) /\ Cursor(r[i + 1], g)
          /\ \A j \in 1 .. Len(r) : /\ Capture(r[j], g) => j = i
                                    /\ Cursor(r[j], g) => j = i + 1 /\ r[i].ok
    BY DEF Executed
  <1>4. PICK k \in 1 .. Len(v) : k = Len(w) + i /\ v[k] = r[i]
    BY <1>2
  <1>5. v[k].ok => k + 1 \in 1 .. Len(v) /\ Cursor(v[k + 1], g)
    <2>1. k + 1 = Len(w) + (i + 1)
      BY <1>2, <1>4
    <2>2. QED
      BY <1>2, <1>3, <1>4, <2>1
  <1>6. ASSUME NEW x \in 1 .. Len(v)
        PROVE  /\ Capture(v[x], g) => x = k
               /\ Cursor(v[x], g) => x = k + 1 /\ v[k].ok
    <2>1. CASE x \in 1 .. Len(w)
      BY <1>2, <2>1 DEF NoReply
    <2>2. ASSUME NEW j \in 1 .. Len(r), x = Len(w) + j, v[x] = r[j]
          PROVE  /\ Capture(v[x], g) => x = k
                 /\ Cursor(v[x], g) => x = k + 1 /\ v[k].ok
      <3>1. /\ Capture(v[x], g) => j = i
            /\ Cursor(v[x], g) => j = i + 1 /\ v[k].ok
        BY <1>3, <1>4, <2>2
      <3>2. (j = i => x = k) /\ (j = i + 1 => x = k + 1)
        <4>1. PICK n \in Nat : n = Len(w) /\ x = n + j /\ k = n + i
          BY <1>2, <1>4, <2>2
        <4>2. QED
          BY <4>1, SMTT(30)
      <3>3. QED
        BY <3>1, <3>2
    <2>3. QED
      BY <1>2, <2>1, <2>2
  <1>7. QED
    BY <1>1, <1>3, <1>4, <1>5, <1>6 DEF Executed

(* The current seed is executed.                                           *)
LEMMA SeedExecute ==
  ASSUME NEW w \in Seq(Message), NEW r \in Seq(Message), NEW q \in Seq(Seq(Entry)), q # <<>>,
         NEW p, SeedInv(w, q, p), Opens(q[1], p.gen), Executed(r, p.gen),
         \A i \in 1 .. Len(r) : Settles(r[i]) # <<>> => Settles(r[i])[1].gen <= p.gen
  PROVE  /\ SeedInv(w \o r, Tail(q), p)
         /\ NoReply(w, p.gen) /\ NoSeed(Tail(q)) /\ p.seeding /\ p.mapped /\ ~p.seeded /\ p.seed = None
  <1>1. PICK q2 \in Seq(Seq(Entry)) : q2 = Tail(q)
    BY TailFields
  <1>2. /\ 1 \in 1 .. Len(q) /\ Len(q) \in Nat /\ Len(q2) = Len(q) - 1
        /\ \A i \in 1 .. Len(q2) : q2[i] = q[i + 1] /\ i + 1 \in 1 .. Len(q)
    BY <1>1, TailFields
  <1>3. p.seeding
    BY <1>2 DEF SeedInv, NoOpen
  <1>4. NoReply(w, p.gen) /\ LastSeed(q, p.gen) /\ p.seed = None
    BY <1>2, <1>3, OpensSeed DEF SeedInv, InFlight, NoSeed
  <1>5. NoSeed(q2)
    <2>1. PICK j \in 1 .. Len(q) :
            /\ Opens(q[j], p.gen)
            /\ \A i \in 1 .. Len(q) : (i < j => ~Opens(q[i], p.gen)) /\ (i > j => ~IsSeed(q[i]))
      BY <1>4 DEF LastSeed
    <2>2. j = 1
      BY <1>2, <2>1
    <2>3. \A i \in 1 .. Len(q2) : i + 1 > 1
      BY <1>2
    <2>4. QED
      BY <1>2, <2>1, <2>2, <2>3 DEF NoSeed
  <1>6. Generations(w \o r, q2, p)
    <2>1. \A i \in 1 .. Len(q2) : q2[i][1].gen <= p.gen /\ (IsSeed(q2[i]) => p.mapped)
      BY <1>2 DEF SeedInv, Generations
    <2>2. \A i \in 1 .. Len(w) : Settles(w[i]) # <<>> => Settles(w[i])[1].gen <= p.gen
      BY DEF SeedInv, Generations
    <2>3. QED
      BY <2>1, <2>2, GenerationsConcat DEF Generations
  <1>7. Executed(w \o r, p.gen)
    BY <1>4, ExecutedSent
  <1>8. InFlight(w \o r, q2, p)
    BY <1>4, <1>5, <1>7 DEF InFlight
  <1>9. p.mapped /\ ~p.seeded
    BY <1>3 DEF SeedInv
  <1>10. SeedInv(w \o r, q2, p)
    BY <1>3, <1>6, <1>8, <1>9 DEF SeedInv
  <1>11. QED
    BY <1>1, <1>3, <1>4, <1>5, <1>9, <1>10

-----------------------------------------------------------------------------
(* Flow control when messages and lines come and go.                       *)

LEMMA NoContinueTail ==
  ASSUME NEW w \in Seq(Message), w # <<>>
  PROVE  /\ \A j \in 1 .. Len(Tail(w)) : NoContinueFrom(Tail(w), j) <=> NoContinueFrom(w, j + 1)
         /\ NoContinueFrom(Tail(w), 1) /\ w[1].type # "continue" => NoContinueFrom(w, 1)
  <1>1. PICK t \in Seq(Message) : t = Tail(w)
    BY TailFields
  <1>2. PICK n \in Nat : Len(w) = n + 1 /\ Len(t) = n
    <2>1. Len(t) = Len(w) - 1 /\ Len(w) \in Nat \ {0}
      BY <1>1, TailFields
    <2>2. Len(t) \in Nat /\ Len(w) = Len(t) + 1
      BY <2>1
    <2>3. QED
      BY <2>2
  <1>3. \A i \in 1 .. n : t[i] = w[i + 1]
    BY <1>1, <1>2, TailFields
  <1>4. ASSUME NEW j \in 1 .. n
        PROVE  NoContinueFrom(t, j) <=> NoContinueFrom(w, j + 1)
    <2>1. ASSUME NoContinueFrom(t, j), NEW i \in 1 .. (n + 1), i >= j + 1 PROVE w[i].type # "continue"
      <3>1. i - 1 \in 1 .. n /\ i - 1 >= j /\ (i - 1) + 1 = i
        BY <2>1
      <3>2. QED
        BY <1>2, <1>3, <2>1, <3>1 DEF NoContinueFrom
    <2>2. ASSUME NoContinueFrom(w, j + 1), NEW i \in 1 .. n, i >= j PROVE t[i].type # "continue"
      <3>1. i + 1 \in 1 .. (n + 1) /\ i + 1 >= j + 1
        BY <2>2
      <3>2. QED
        BY <1>2, <1>3, <2>2, <3>1 DEF NoContinueFrom
    <2>3. QED
      BY <1>2, <2>1, <2>2 DEF NoContinueFrom
  <1>5. ASSUME NoContinueFrom(t, 1), w[1].type # "continue", NEW i \in 1 .. (n + 1)
        PROVE  w[i].type # "continue"
    <2>1. i = 1 \/ (i - 1 \in 1 .. n /\ i - 1 >= 1 /\ (i - 1) + 1 = i)
      OBVIOUS
    <2>2. QED
      BY <1>2, <1>3, <1>5, <2>1 DEF NoContinueFrom
  <1>6. QED
    BY <1>1, <1>2, <1>4, <1>5 DEF NoContinueFrom

(* A message other than a pause is received: what the client knew of the   *)
(* pause it knows (z2) or has sent for the pane to be resumed.             *)
LEMMA PausedTail ==
  ASSUME NEW w \in Seq(Message), w # <<>>, NEW q, NEW q2, NEW p, NEW p2, NEW z, NEW z2,
         PausedInv(w, q, p, z), w[1].type # "pause", p2.gen = p.gen, p.mapped => p2.mapped,
         ~FlowControl(w[1]) =>
           (z \/ (p.mapped /\ Unresumed(w[1], p.gen))
              \/ (\E i \in 1 .. Len(q) : q[i] = SeedLine(p.gen, TRUE))
            => z2 \/ (\E i \in 1 .. Len(q2) : q2[i] = SeedLine(p.gen, TRUE)))
  PROVE  PausedInv(Tail(w), q2, p2, z2)
  <1>1. PICK t \in Seq(Message) : t = Tail(w)
    BY TailFields
  <1>2. /\ Len(w) \in Nat \ {0} /\ Len(t) = Len(w) - 1
        /\ \A i \in 1 .. Len(t) : t[i] = w[i + 1] /\ i + 1 \in 1 .. Len(w)
    BY <1>1, TailFields
  <1>2a. \A j \in 1 .. Len(w) : j # 1 => j - 1 \in 1 .. Len(t) /\ (j - 1) + 1 = j
    BY <1>2
  <1>3. ASSUME NEW j \in 1 .. Len(w), w[j].type = "pause", NoContinueFrom(w, j)
        PROVE  \E i \in 1 .. Len(t) : t[i].type = "pause" /\ NoContinueFrom(t, i)
    <2>1. j - 1 \in 1 .. Len(t) /\ (j - 1) + 1 = j
      BY <1>2a, <1>3
    <2>2. t[j - 1] = w[j]
      BY <1>2, <2>1
    <2>3. NoContinueFrom(t, j - 1)
      BY <1>1, <1>3, <2>1, NoContinueTail
    <2>4. QED
      BY <1>3, <2>1, <2>2, <2>3
  <1>4. ASSUME NoFlow(w, Len(w)) PROVE NoFlow(t, Len(t))
    BY <1>2, <1>4 DEF NoFlow
  <1>5. ASSUME Retried(w, Len(w), p), ~Unresumed(w[1], p.gen) PROVE Retried(t, Len(t), p2)
    <2>1. PICK i \in 1 .. Len(w) : Unresumed(w[i], p.gen)
      BY <1>5 DEF Retried
    <2>2. i # 1
      BY <1>5, <2>1
    <2>3. i - 1 \in 1 .. Len(t) /\ t[i - 1] = w[i]
      BY <1>2, <1>2a, <2>2
    <2>4. QED
      BY <1>5, <2>1, <2>3 DEF Retried
  <1>6. CASE \E j \in 1 .. Len(w) : w[j].type = "pause" /\ NoContinueFrom(w, j)
    BY <1>1, <1>3, <1>6 DEF PausedInv
  <1>7. CASE /\ NoFlow(w, Len(w))
             /\ \/ z \/ Retried(w, Len(w), p)
                \/ \E i \in 1 .. Len(q) : q[i] = SeedLine(p.gen, TRUE)
    <2>0. ~FlowControl(w[1])
      BY <1>2, <1>7 DEF NoFlow
    <2>1. \/ Retried(t, Len(t), p2)
          \/ z2 \/ (\E i \in 1 .. Len(q2) : q2[i] = SeedLine(p.gen, TRUE))
      BY <1>5, <1>7, <2>0 DEF Retried
    <2>2. QED
      BY <1>1, <1>4, <1>7, <2>1 DEF PausedInv
  <1>8. QED
    BY <1>6, <1>7 DEF PausedInv

(* A pause is received.                                                    *)
LEMMA PausedKnown ==
  ASSUME NEW w \in Seq(Message), w # <<>>, NEW q, NEW q2, NEW p, NEW p2, NEW z,
         PausedInv(w, q, p, z), w[1].type = "pause"
  PROVE  PausedInv(Tail(w), q2, p2, TRUE)
  <1>1. PICK t \in Seq(Message) : t = Tail(w)
    BY TailFields
  <1>2. /\ Len(w) \in Nat \ {0} /\ Len(t) = Len(w) - 1 /\ 1 \in 1 .. Len(w)
        /\ \A i \in 1 .. Len(t) : t[i] = w[i + 1] /\ i + 1 \in 1 .. Len(w)
    BY <1>1, TailFields
  <1>3. PICK j \in 1 .. Len(w) : w[j].type = "pause" /\ NoContinueFrom(w, j)
    BY <1>2 DEF PausedInv, NoFlow, FlowControl
  <1>4. CASE NoFlow(t, Len(t))
    BY <1>1, <1>4 DEF PausedInv
  <1>5. CASE ~NoFlow(t, Len(t))
    <2>1. PICK h \in 1 .. Len(t) : FlowControl(t[h])
      BY <1>5 DEF NoFlow
    <2>2. CASE j = 1
      <3>1. h + 1 \in 1 .. Len(w) /\ h + 1 >= j /\ t[h] = w[h + 1]
        BY <1>2, <2>2
      <3>2. t[h].type = "pause"
        BY <1>3, <2>1, <3>1 DEF NoContinueFrom, FlowControl
      <3>3. NoContinueFrom(w, h + 1)
        BY <1>2, <1>3, <2>2, <3>1 DEF NoContinueFrom
      <3>4. NoContinueFrom(t, h)
        BY <1>1, <3>3, NoContinueTail
      <3>5. QED
        BY <1>1, <3>2, <3>4 DEF PausedInv
    <2>3. CASE j # 1
      <3>1. j - 1 \in 1 .. Len(t) /\ (j - 1) + 1 = j
        BY <1>2, <2>3
      <3>2. t[j - 1] = w[j]
        BY <1>2, <3>1
      <3>3. NoContinueFrom(t, j - 1)
        BY <1>1, <1>3, <3>1, NoContinueTail
      <3>4. QED
        BY <1>1, <1>3, <3>1, <3>2, <3>3 DEF PausedInv
    <2>4. QED
      BY <2>2, <2>3
  <1>6. QED
    BY <1>4, <1>5

LEMMA FlowConcat ==
  ASSUME NEW w \in Seq(Message), NEW r \in Seq(Message), NoFlow(r, Len(r)),
         NEW v \in Seq(Message), IsJoin(v, w, r)
  PROVE  /\ \A j \in 1 .. Len(w) : /\ v[j] = w[j] /\ j \in 1 .. Len(v)
                                   /\ NoContinueFrom(w, j) => NoContinueFrom(v, j)
         /\ NoFlow(w, Len(w)) => NoFlow(v, Len(v))
         /\ \A p : Retried(w, Len(w), p) \/ Retried(r, Len(r), p) => Retried(v, Len(v), p)
  <1>1. /\ Len(v) = Len(w) + Len(r) /\ Len(w) \in Nat /\ Len(r) \in Nat
        /\ \A i \in 1 .. Len(w) : v[i] = w[i] /\ i \in 1 .. Len(v)
        /\ \A j \in 1 .. Len(r) : v[Len(w) + j] = r[j] /\ Len(w) + j \in 1 .. Len(v)
        /\ \A i \in 1 .. Len(v) : \/ i \in 1 .. Len(w)
                                  \/ \E j \in 1 .. Len(r) : i = Len(w) + j /\ v[i] = r[j]
    BY DEF IsJoin
  <1>2. \A i \in 1 .. Len(r) : r[i].type # "continue"
    BY DEF NoFlow, FlowControl
  <1>3. \A j \in 1 .. Len(w) : NoContinueFrom(w, j) => NoContinueFrom(v, j)
    BY <1>1, <1>2 DEF NoContinueFrom
  <1>4. NoFlow(w, Len(w)) => NoFlow(v, Len(v))
    BY <1>1 DEF NoFlow
  <1>5. \A p : Retried(w, Len(w), p) \/ Retried(r, Len(r), p) => Retried(v, Len(v), p)
    BY <1>1 DEF Retried
  <1>6. QED
    BY <1>1, <1>3, <1>4, <1>5

(* Messages that are not flow control are sent.                            *)
LEMMA PausedSend ==
  ASSUME NEW w \in Seq(Message), NEW r \in Seq(Message), NEW q, NEW q2, NEW p, NEW z,
         PausedInv(w, q, p, z), NoFlow(r, Len(r)),
         (\E i \in 1 .. Len(q) : q[i] = SeedLine(p.gen, TRUE)) =>
            \/ \E i \in 1 .. Len(q2) : q2[i] = SeedLine(p.gen, TRUE)
            \/ Retried(r, Len(r), p)
  PROVE  PausedInv(w \o r, q2, p, z)
  <1>1. PICK v \in Seq(Message) : v = w \o r /\ IsJoin(v, w, r)
    BY Joined
  <1>2. /\ \A j \in 1 .. Len(w) : /\ v[j] = w[j] /\ j \in 1 .. Len(v)
                                  /\ NoContinueFrom(w, j) => NoContinueFrom(v, j)
        /\ NoFlow(w, Len(w)) => NoFlow(v, Len(v))
        /\ Retried(w, Len(w), p) \/ Retried(r, Len(r), p) => Retried(v, Len(v), p)
    BY <1>1, FlowConcat
  <1>3. QED
    BY <1>1, <1>2 DEF PausedInv

LEMMA ContinueSend ==
  ASSUME NEW w \in Seq(Message), NEW r \in Seq(Message), NEW p, NEW z, ContinueInv(w, p, z),
         \A i \in 1 .. Len(r) : r[i].type # "continue"
  PROVE  ContinueInv(w \o r, p, z)
  <1>1. PICK v \in Seq(Message) : v = w \o r /\ IsJoin(v, w, r)
    BY Joined
  <1>2. /\ Len(w) \in Nat
        /\ \A i \in 1 .. Len(w) : v[i] = w[i]
        /\ \A i \in 1 .. Len(v) : i \in 1 .. Len(w) \/ \E j \in 1 .. Len(r) : v[i] = r[j]
    BY <1>1 DEF IsJoin
  <1>3. SUFFICES ASSUME NEW i \in 1 .. Len(v), v[i].type = "continue"
                 PROVE  \/ \E j \in 1 .. (i - 1) : /\ v[j].type = "pause"
                                                   /\ \A h \in j .. (i - 1) : v[h].type # "continue"
                        \/ NoFlow(v, i - 1) /\ (z \/ Retried(v, i - 1, p) \/ Unseen(v, i - 1, p))
    BY <1>1 DEF ContinueInv
  <1>4. i \in 1 .. Len(w)
    BY <1>2, <1>3
  <1>5. \A h \in 1 .. (i - 1) : v[h] = w[h]
    BY <1>2, <1>4
  <1>6. CASE \E j \in 1 .. (i - 1) : /\ w[j].type = "pause"
                                     /\ \A h \in j .. (i - 1) : w[h].type # "continue"
    <2>1. PICK j \in 1 .. (i - 1) : /\ w[j].type = "pause"
                                    /\ \A h \in j .. (i - 1) : w[h].type # "continue"
      BY <1>6
    <2>2. \A h \in j .. (i - 1) : h \in 1 .. (i - 1)
      BY <1>4
    <2>3. QED
      BY <1>5, <2>1, <2>2
  <1>7. CASE NoFlow(w, i - 1) /\ (z \/ Retried(w, i - 1, p) \/ Unseen(w, i - 1, p))
    BY <1>5, <1>7 DEF NoFlow, Retried, Unseen
  <1>8. QED
    BY <1>2, <1>3, <1>4, <1>6, <1>7 DEF ContinueInv

(* The pane is resumed by someone else.                                    *)
LEMMA ContinueResume ==
  ASSUME NEW w \in Seq(Message), NEW m \in Message, NEW q, NEW p, NEW z,
         ContinueInv(w, p, z), PausedInv(w, q, p, z), SeedInv(w, q, p)
  PROVE  ContinueInv(Append(w, m), p, z)
  <1>1. PICK v \in Seq(Message) : v = Append(w, m)
    BY Appended
  <1>2. /\ Len(w) \in Nat /\ Len(v) = Len(w) + 1
        /\ \A i \in 1 .. Len(w) : v[i] = w[i]
        /\ \A i \in 1 .. Len(v) : i \in 1 .. Len(w) \/ i = Len(w) + 1
    BY <1>1, Appended
  <1>3. SUFFICES ASSUME NEW i \in 1 .. Len(v), v[i].type = "continue"
                 PROVE  \/ \E j \in 1 .. (i - 1) : /\ v[j].type = "pause"
                                                   /\ \A h \in j .. (i - 1) : v[h].type # "continue"
                        \/ NoFlow(v, i - 1) /\ (z \/ Retried(v, i - 1, p) \/ Unseen(v, i - 1, p))
    BY <1>1 DEF ContinueInv
  <1>5. \A h \in 1 .. (i - 1) : v[h] = w[h]
    BY <1>2
  <1>5a. \A j \in 1 .. (i - 1) : \A h \in j .. (i - 1) : h \in 1 .. (i - 1)
    BY <1>2
  <1>6. CASE \E j \in 1 .. (i - 1) : /\ w[j].type = "pause"
                                     /\ \A h \in j .. (i - 1) : w[h].type # "continue"
    BY <1>5, <1>5a, <1>6
  <1>7. CASE NoFlow(w, i - 1) /\ (z \/ Retried(w, i - 1, p) \/ Unseen(w, i - 1, p))
    BY <1>5, <1>7 DEF NoFlow, Retried, Unseen
  <1>8. CASE i \in 1 .. Len(w)
    BY <1>2, <1>3, <1>6, <1>7, <1>8 DEF ContinueInv
  <1>9. CASE i - 1 = Len(w)
    <2>1. CASE \E j \in 1 .. Len(w) : w[j].type = "pause" /\ NoContinueFrom(w, j)
      <3>1. PICK j \in 1 .. Len(w) : w[j].type = "pause" /\ NoContinueFrom(w, j)
        BY <2>1
      <3>2. \A h \in j .. Len(w) : w[h].type # "continue"
        BY <1>2, <3>1 DEF NoContinueFrom
      <3>3. QED
        BY <1>6, <1>9, <3>1, <3>2
    <2>2. ASSUME NoFlow(w, Len(w)), NEW k \in 1 .. Len(q), q[k] = SeedLine(p.gen, TRUE)
          PROVE  Unseen(w, Len(w), p)
      <3>1. Opens(q[k], p.gen)
        BY <2>2 DEF Opens, SeedLine
      <3>2. p.seeding /\ ~p.seeded
        BY <3>1 DEF SeedInv, NoOpen
      <3>3. NoReply(w, p.gen) /\ p.seed = None
        BY <3>1, <3>2, OpensSeed DEF SeedInv, InFlight, NoSeed
      <3>4. QED
        BY <3>2, <3>3 DEF Unseen, NoReply
    <2>3. QED
      BY <1>7, <1>9, <2>1, <2>2 DEF PausedInv
  <1>10. QED
    BY <1>2, <1>8, <1>9

IsTail(t, w) ==
  /\ Len(t) \in Nat /\ Len(w) = Len(t) + 1 /\ 1 \in 1 .. Len(w)
  /\ \A i \in 1 .. Len(t) : t[i] = w[i + 1] /\ i + 1 \in 1 .. Len(w)
  /\ \A j \in 1 .. Len(w) : \/ j = 1
                            \/ j - 1 \in 1 .. Len(t) /\ (j - 1) + 1 = j /\ t[j - 1] = w[j]

LEMMA Rest ==
  ASSUME NEW w \in Seq(Message), w # <<>>
  PROVE  \E t \in Seq(Message) : t = Tail(w) /\ IsTail(t, w)
  <1>1. PICK t \in Seq(Message) : t = Tail(w)
    BY TailFields
  <1>2. /\ Len(w) \in Nat \ {0} /\ Len(t) = Len(w) - 1 /\ 1 \in 1 .. Len(w)
        /\ \A i \in 1 .. Len(t) : t[i] = w[i + 1] /\ i + 1 \in 1 .. Len(w)
    BY <1>1, TailFields
  <1>3. Len(t) \in Nat /\ Len(w) = Len(t) + 1
    BY <1>2
  <1>4. \A j \in 1 .. Len(w) : j = 1 \/ (j - 1 \in 1 .. Len(t) /\ (j - 1) + 1 = j)
    BY <1>3
  <1>5. IsTail(t, w)
    BY <1>2, <1>3, <1>4 DEF IsTail
  <1>6. QED
    BY <1>1, <1>5

(* A pause between the head and a `continue` stays there.                  *)
LEMMA PauseStays ==
  ASSUME NEW w \in Seq(Message), NEW t \in Seq(Message), IsTail(t, w), NEW i \in 1 .. Len(t),
         NEW j \in 1 .. i, j # 1, w[j].type = "pause", \A h \in j .. i : w[h].type # "continue"
  PROVE  \E k \in 1 .. (i - 1) : /\ t[k].type = "pause"
                                 /\ \A h \in k .. (i - 1) : t[h].type # "continue"
  <1>1. Len(t) \in Nat /\ Len(w) = Len(t) + 1 /\ \A h \in 1 .. Len(t) : t[h] = w[h + 1]
    BY DEF IsTail
  <1>2. j - 1 \in 1 .. (i - 1) /\ j - 1 \in 1 .. Len(t) /\ (j - 1) + 1 = j
    BY <1>1
  <1>3. t[j - 1] = w[j]
    BY <1>1, <1>2
  <1>4. \A h \in (j - 1) .. (i - 1) : h \in 1 .. Len(t) /\ h + 1 \in j .. i
    BY <1>1, <1>2
  <1>5. QED
    BY <1>1, <1>2, <1>3, <1>4

(* A message that is not flow control is received: what the client knew of *)
(* the pause it knows (z2), or it has captured nothing since.              *)
LEMMA ContinueTail ==
  ASSUME NEW w \in Seq(Message), w # <<>>, NEW p, NEW p2, NEW z, NEW z2,
         ContinueInv(w, p, z), ~FlowControl(w[1]), p2.gen = p.gen, p.mapped => p2.mapped,
         z \/ (p.mapped /\ Unresumed(w[1], p.gen))
           => z2 \/ Unseen(Tail(w), Len(Tail(w)), p2),
         /\ ~p.seeded /\ p.seed = None /\ ~(Capture(w[1], p.gen) /\ w[1].ok)
           => ~p2.seeded /\ p2.seed = None
  PROVE  ContinueInv(Tail(w), p2, z2)
  <1>1. PICK t \in Seq(Message) : t = Tail(w) /\ IsTail(t, w)
    BY Rest
  <1>2. /\ Len(t) \in Nat /\ Len(w) = Len(t) + 1 /\ 1 \in 1 .. Len(w)
        /\ \A i \in 1 .. Len(t) : t[i] = w[i + 1] /\ i + 1 \in 1 .. Len(w)
    BY <1>1 DEF IsTail
  <1>3. SUFFICES ASSUME NEW i \in 1 .. Len(t), t[i].type = "continue"
                 PROVE  \/ \E j \in 1 .. (i - 1) : /\ t[j].type = "pause"
                                                   /\ \A h \in j .. (i - 1) : t[h].type # "continue"
                        \/ NoFlow(t, i - 1) /\ (z2 \/ Retried(t, i - 1, p2) \/ Unseen(t, i - 1, p2))
    BY <1>1 DEF ContinueInv
  <1>4. i + 1 \in 1 .. Len(w) /\ w[i + 1].type = "continue" /\ (i + 1) - 1 = i
    BY <1>2, <1>3
  <1>5. \/ \E j \in 1 .. i : w[j].type = "pause" /\ \A h \in j .. i : w[h].type # "continue"
        \/ NoFlow(w, i) /\ (z \/ Retried(w, i, p) \/ Unseen(w, i, p))
    <2>1. \/ \E j \in 1 .. ((i + 1) - 1) : /\ w[j].type = "pause"
                                           /\ \A h \in j .. ((i + 1) - 1) : w[h].type # "continue"
          \/ /\ NoFlow(w, (i + 1) - 1)
             /\ z \/ Retried(w, (i + 1) - 1, p) \/ Unseen(w, (i + 1) - 1, p)
      BY <1>4 DEF ContinueInv
    <2>2. QED
      BY <1>4, <2>1
  <1>6. CASE \E j \in 1 .. i : w[j].type = "pause" /\ \A h \in j .. i : w[h].type # "continue"
    <2>1. PICK j \in 1 .. i : w[j].type = "pause" /\ \A h \in j .. i : w[h].type # "continue"
      BY <1>6
    <2>2. j # 1
      BY <2>1 DEF FlowControl
    <2>3. QED
      BY <1>1, <2>1, <2>2, PauseStays, SMTT(30)
  <1>7. \A h \in 1 .. (i - 1) : h \in 1 .. Len(t) /\ h + 1 \in 1 .. i /\ t[h] = w[h + 1]
    BY <1>2
  <1>8. CASE NoFlow(w, i) /\ (z \/ Retried(w, i, p) \/ Unseen(w, i, p))
    <2>1. NoFlow(t, i - 1)
      BY <1>7, <1>8 DEF NoFlow
    <2>2. Unseen(t, Len(t), p2) => Unseen(t, i - 1, p2)
      BY <1>7 DEF Unseen
    <2>3. CASE z \/ (p.mapped /\ Unresumed(w[1], p.gen))
      BY <1>1, <2>1, <2>2, <2>3
    <2>4. CASE Retried(w, i, p) /\ ~Unresumed(w[1], p.gen)
      <3>1. PICK k \in 1 .. i : Unresumed(w[k], p.gen)
        BY <2>4 DEF Retried
      <3>2. k # 1
        BY <2>4, <3>1
      <3>3. k - 1 \in 1 .. (i - 1) /\ (k - 1) + 1 = k
        BY <3>2
      <3>4. t[k - 1] = w[k]
        BY <1>7, <3>3
      <3>5. Retried(t, i - 1, p2)
        BY <2>4, <3>1, <3>3, <3>4 DEF Retried
      <3>6. QED
        BY <2>1, <3>5
    <2>5. CASE Unseen(w, i, p)
      <3>1. 1 \in 1 .. i
        BY <1>2
      <3>2. ~p2.seeded /\ p2.seed = None
        BY <2>5, <3>1 DEF Unseen
      <3>3. Unseen(t, i - 1, p2)
        BY <1>7, <2>5, <3>2 DEF Unseen
      <3>4. QED
        BY <2>1, <3>3
    <2>6. QED
      BY <1>8, <2>3, <2>4, <2>5 DEF Retried
  <1>9. QED
    BY <1>5, <1>6, <1>8

(* Flow control is received.                                               *)
LEMMA ContinueFlow ==
  ASSUME NEW w \in Seq(Message), w # <<>>, NEW p, NEW p2, NEW z, NEW z2,
         ContinueInv(w, p, z), FlowControl(w[1]), w[1].type = "pause" => z2
  PROVE  ContinueInv(Tail(w), p2, z2)
  <1>1. PICK t \in Seq(Message) : t = Tail(w) /\ IsTail(t, w)
    BY Rest
  <1>2. /\ Len(t) \in Nat /\ Len(w) = Len(t) + 1 /\ 1 \in 1 .. Len(w)
        /\ \A i \in 1 .. Len(t) : t[i] = w[i + 1] /\ i + 1 \in 1 .. Len(w)
    BY <1>1 DEF IsTail
  <1>3. SUFFICES ASSUME NEW i \in 1 .. Len(t), t[i].type = "continue"
                 PROVE  \/ \E j \in 1 .. (i - 1) : /\ t[j].type = "pause"
                                                   /\ \A h \in j .. (i - 1) : t[h].type # "continue"
                        \/ NoFlow(t, i - 1) /\ (z2 \/ Retried(t, i - 1, p2) \/ Unseen(t, i - 1, p2))
    BY <1>1 DEF ContinueInv
  <1>4. i + 1 \in 1 .. Len(w) /\ w[i + 1].type = "continue" /\ (i + 1) - 1 = i /\ 1 \in 1 .. i
    BY <1>2, <1>3
  <1>5. PICK j \in 1 .. i : w[j].type = "pause" /\ \A h \in j .. i : w[h].type # "continue"
    <2>1. \/ \E j \in 1 .. ((i + 1) - 1) : /\ w[j].type = "pause"
                                           /\ \A h \in j .. ((i + 1) - 1) : w[h].type # "continue"
          \/ NoFlow(w, (i + 1) - 1)
      BY <1>4 DEF ContinueInv
    <2>2. QED
      BY <1>4, <2>1 DEF NoFlow
  <1>6. CASE j # 1
    <2>1. IsTail(t, w) /\ w[j].type = "pause" /\ \A h \in j .. i : w[h].type # "continue"
      BY <1>1, <1>5
    <2>2. QED
      BY ONLY <2>1, <1>6, PauseStays, j \in 1 .. i, i \in 1 .. Len(t), t \in Seq(Message), w \in Seq(Message)
  <1>7. CASE j = 1 /\ NoFlow(t, i - 1)
    BY <1>5, <1>7
  <1>8. CASE j = 1 /\ ~NoFlow(t, i - 1)
    <2>1. PICK h \in 1 .. (i - 1) : FlowControl(t[h])
      BY <1>8 DEF NoFlow
    <2>2. PICK k \in 1 .. i : k = h + 1 /\ k # 1 /\ w[k] = t[h]
      BY <1>2
    <2>3. w[k].type = "pause"
      BY <1>5, <1>8, <2>1, <2>2 DEF FlowControl
    <2>4. \A x \in k .. i : x \in j .. i
      BY <1>8, <2>2
    <2>5. \A x \in k .. i : w[x].type # "continue"
      BY <1>5, <2>4
    <2>6. QED
      BY <1>1, <2>2, <2>3, <2>5, PauseStays
  <1>9. QED
    BY <1>6, <1>7, <1>8

(* Nothing is sent or received, but the client may learn or send.          *)
LEMMA PausedKeep ==
  ASSUME NEW w, NEW q, NEW q2, NEW p, NEW p2, NEW z, NEW z2,
         PausedInv(w, q, p, z), p2.gen = p.gen, p.mapped => p2.mapped,
         z \/ (\E i \in 1 .. Len(q) : q[i] = SeedLine(p.gen, TRUE))
           => z2 \/ (\E i \in 1 .. Len(q2) : q2[i] = SeedLine(p.gen, TRUE))
  PROVE  PausedInv(w, q2, p2, z2)
  BY DEF PausedInv, Retried

LEMMA ContinueKeep ==
  ASSUME NEW w \in Seq(Message), NEW p, NEW p2, NEW z, NEW z2,
         ContinueInv(w, p, z), p2.gen = p.gen, p.mapped => p2.mapped,
         z => z2 \/ Unseen(w, Len(w), p2),
         ~p.seeded /\ p.seed = None => ~p2.seeded /\ p2.seed = None
  PROVE  ContinueInv(w, p2, z2)
  <1>1. \A i \in 1 .. Len(w) : \A h \in 1 .. (i - 1) : h \in 1 .. Len(w)
    OBVIOUS
  <1>2. \A i \in 1 .. Len(w) : Unseen(w, Len(w), p2) => Unseen(w, i - 1, p2)
    BY <1>1 DEF Unseen
  <1>3. \A n : Unseen(w, n, p) => Unseen(w, n, p2)
    BY DEF Unseen
  <1>4. \A n : Retried(w, n, p) => Retried(w, n, p2)
    BY DEF Retried
  <1>5. QED
    BY <1>2, <1>3, <1>4 DEF ContinueInv

-----------------------------------------------------------------------------
(* Output when messages come and go.                                       *)

LEMMA CaptureFields ==
  ASSUME NEW m \in Message, NEW g, Capture(m, g) \/ Cursor(m, g)
  PROVE  /\ m.type = "block" /\ m.shown \in 0 .. MaxChunks /\ m.ok \in BOOLEAN
         /\ m.answers # <<>> /\ Settles(m) = m.answers /\ m.answers \in Seq(Entry)
  BY MessageFields DEF Capture, Cursor, Settles

LEMMA TimeTail ==
  ASSUME NEW w \in Seq(Message), w # <<>>, NEW p, NEW p2, NEW t, NEW n, TimeInv(w, p, t, n),
         p2.gen = p.gen \/ NoReply(Tail(w), p2.gen), p2.capture_at = None \/ p2.capture_at <= n
  PROVE  TimeInv(Tail(w), p2, t, n)
  <1>1. PICK v \in Seq(Message) : v = Tail(w) /\ IsTail(v, w)
    BY Rest
  <1>2. /\ Len(v) \in Nat
        /\ \A i \in 1 .. Len(v) : v[i] = w[i + 1] /\ i + 1 \in 1 .. Len(w)
    BY <1>1 DEF IsTail
  <1>3. ASSUME NEW i \in 1 .. Len(v), v[i].type = "output"
        PROVE  /\ v[i].chunk <= t.sent /\ v[i].age = n - t.made[v[i].chunk]
               /\ \A j \in 1 .. Len(v) :
                    j > i /\ Capture(v[j], p2.gen) /\ v[j].ok => v[i].chunk <= v[j].shown
    <2>1. w[i + 1].type = "output" /\ v[i] = w[i + 1] /\ i + 1 \in 1 .. Len(w)
      BY <1>2, <1>3
    <2>2. v[i].chunk <= t.sent /\ v[i].age = n - t.made[v[i].chunk]
      BY <2>1 DEF TimeInv
    <2>3. ASSUME NEW j \in 1 .. Len(v), j > i, Capture(v[j], p2.gen), v[j].ok
          PROVE  v[i].chunk <= v[j].shown
      <3>1. v[j] = w[j + 1] /\ j + 1 \in 1 .. Len(w) /\ j + 1 > i + 1
        BY <1>2, <2>3
      <3>2. p2.gen = p.gen
        BY <1>1, <2>3 DEF NoReply
      <3>3. QED
        BY <2>1, <2>3, <3>1, <3>2 DEF TimeInv
    <2>4. QED
      BY <2>2, <2>3
  <1>4. QED
    BY <1>1, <1>3 DEF TimeInv

LEMMA TimeSend ==
  ASSUME NEW w \in Seq(Message), NEW r \in Seq(Message), NEW p, NEW t, NEW t2, NEW n,
         TimeInv(w, p, t, n), t.sent \in Nat, t2.sent \in Nat, t.sent <= t2.sent, t2.made = t.made,
         \A i \in 1 .. Len(r) : r[i].type = "output" =>
           r[i].chunk <= t2.sent /\ r[i].age = n - t.made[r[i].chunk] /\ NoReply(r, p.gen),
         \A i \in 1 .. Len(r) : Capture(r[i], p.gen) /\ r[i].ok => t.sent <= r[i].shown
  PROVE  TimeInv(w \o r, p, t2, n)
  <1>1. PICK v \in Seq(Message) : v = w \o r /\ IsJoin(v, w, r)
    BY Joined
  <1>2. /\ Len(w) \in Nat /\ Len(r) \in Nat
        /\ \A i \in 1 .. Len(w) : v[i] = w[i]
        /\ \A i \in 1 .. Len(v) : \/ i \in 1 .. Len(w)
                                  \/ \E j \in 1 .. Len(r) : i = Len(w) + j /\ v[i] = r[j]
    BY <1>1 DEF IsJoin
  <1>3. ASSUME NEW i \in 1 .. Len(v), v[i].type = "output"
        PROVE  /\ v[i].chunk <= t2.sent /\ v[i].age = n - t2.made[v[i].chunk]
               /\ \A j \in 1 .. Len(v) :
                    j > i /\ Capture(v[j], p.gen) /\ v[j].ok => v[i].chunk <= v[j].shown
    <2>1. v[i].chunk \in Nat
      BY <1>3, MessageFields
    <2>2. CASE i \in 1 .. Len(w)
      <3>1. w[i].type = "output" /\ v[i] = w[i]
        BY <1>2, <1>3, <2>2
      <3>2. w[i].chunk <= t.sent /\ w[i].age = n - t.made[w[i].chunk]
        BY <2>2, <3>1 DEF TimeInv
      <3>3. ASSUME NEW j \in 1 .. Len(v), j > i, Capture(v[j], p.gen), v[j].ok
            PROVE  v[i].chunk <= v[j].shown
        <4>1. CASE j \in 1 .. Len(w)
          BY <1>2, <2>2, <3>1, <3>3, <4>1 DEF TimeInv
        <4>2. CASE \E x \in 1 .. Len(r) : v[j] = r[x]
          <5>1. t.sent <= v[j].shown /\ v[j].shown \in 0 .. MaxChunks
            BY <3>3, <4>2, CaptureFields
          <5>2. QED
            BY <2>1, <3>1, <3>2, <5>1, TmuxAssumption
        <4>3. QED
          BY <1>2, <4>1, <4>2
      <3>4. v[i].chunk <= t2.sent
        BY <2>1, <3>1, <3>2
      <3>5. QED
        BY <3>1, <3>2, <3>3, <3>4
    <2>3. CASE \E j \in 1 .. Len(r) : i = Len(w) + j /\ v[i] = r[j]
      <3>1. v[i].chunk <= t2.sent /\ v[i].age = n - t.made[v[i].chunk] /\ NoReply(r, p.gen)
        BY <1>3, <2>3
      <3>2. ASSUME NEW j \in 1 .. Len(v), j > i PROVE ~Capture(v[j], p.gen)
        <4>1. ~(j \in 1 .. Len(w))
          BY <1>2, <2>3, <3>2
        <4>2. QED
          BY <1>2, <3>1, <4>1 DEF NoReply
      <3>3. QED
        BY <3>1, <3>2
    <2>4. QED
      BY <1>2, <2>2, <2>3
  <1>4. QED
    BY <1>1, <1>3 DEF TimeInv

(* No seed is in flight, and the pane is not painted.                      *)
LEMMA ShownNone ==
  ASSUME NEW w, NEW p, NEW t, NEW n, NEW s, ~p.seeded, p.seed = None, NoReply(w, p.gen)
  PROVE  ShownInv(w, p, t, n, s)
  BY DEF ShownInv, ScreenInv, CaptureInv, KeptInv, NoReply

LEMMA ComingTail ==
  ASSUME NEW w \in Seq(Message), w # <<>>, NEW t, NEW k, Coming(w, t, k)
  PROVE  Coming(Tail(w), t, k) \/ (w[1].type = "output" /\ w[1].chunk = k)
  <1>1. PICK v \in Seq(Message) : v = Tail(w) /\ IsTail(v, w)
    BY Rest
  <1>2. CASE k > t.sent
    BY <1>2 DEF Coming
  <1>3. ASSUME NEW i \in 1 .. Len(w), w[i].type = "output", w[i].chunk = k
        PROVE  Coming(v, t, k) \/ (w[1].type = "output" /\ w[1].chunk = k)
    <2>1. i = 1 \/ (i - 1 \in 1 .. Len(v) /\ v[i - 1] = w[i])
      BY <1>1 DEF IsTail
    <2>2. QED
      BY <1>3, <2>1 DEF Coming
  <1>4. QED
    BY <1>1, <1>2, <1>3 DEF Coming

(* A capture that is not at the head of the wire.                          *)
LEMMA CapturesTail ==
  ASSUME NEW w \in Seq(Message), w # <<>>, NEW p, NEW p2, NEW t, NEW n, p2.gen = p.gen,
         TimeInv(w, p, t, n), CaptureInv(w, p, t, n), Len(t.made) \in Nat
  PROVE  CaptureInv(Tail(w), p2, t, n)
  <1>1. PICK v \in Seq(Message) : v = Tail(w) /\ IsTail(v, w)
    BY Rest
  <1>2. SUFFICES ASSUME NEW i \in 1 .. Len(v), Capture(v[i], p.gen), v[i].ok, NoContinueFrom(v, i),
                        NEW k \in 1 .. Len(t.made), k > v[i].shown
                 PROVE  Coming(v, t, k) /\ t.made[k] >= n
    BY <1>1 DEF CaptureInv
  <1>3. v[i] = w[i + 1] /\ i + 1 \in 1 .. Len(w) /\ i + 1 > 1 /\ 1 \in 1 .. Len(w)
    BY <1>1 DEF IsTail
  <1>4. NoContinueFrom(w, i + 1)
    BY <1>1, <1>2, NoContinueTail
  <1>5. Coming(w, t, k) /\ t.made[k] >= n
    BY <1>2, <1>3, <1>4 DEF CaptureInv
  <1>6. ~(w[1].type = "output" /\ w[1].chunk = k)
    <2> SUFFICES ASSUME w[1].type = "output", w[1].chunk = k PROVE FALSE
      OBVIOUS
    <2>1. k <= v[i].shown
      BY <1>2, <1>3 DEF TimeInv
    <2>2. v[i].shown \in 0 .. MaxChunks
      BY <1>2, CaptureFields
    <2>3. QED
      BY <1>2, <2>1, <2>2, TmuxAssumption
  <1>7. QED
    BY <1>1, <1>5, <1>6, ComingTail

(* A message is received that is not a reply to the current seed.          *)
LEMMA ShownTail ==
  ASSUME NEW w \in Seq(Message), w # <<>>, NEW p, NEW p2, NEW t, NEW n, NEW s, NEW s2,
         TimeInv(w, p, t, n), ShownInv(w, p, t, n, s), Len(t.made) \in Nat,
         p2.gen = p.gen, p2.capture_at = p.capture_at,
         p2.seeded => p.seeded, p2.seed # None => p2.seed = p.seed, s \subseteq s2,
         w[1].type = "continue" => ~p2.seeded /\ p2.seed = None,
         w[1].type = "output" => /\ p.seed = None
                                 /\ p.seeded /\ Late(p, t, w[1].chunk) => w[1].chunk \in s2
  PROVE  ShownInv(Tail(w), p2, t, n, s2)
  <1>1. w[1].type # "continue" /\ NoContinueFrom(Tail(w), 1) => NoContinueFrom(w, 1)
    BY NoContinueTail
  <1>2. \A k : Late(p2, t, k) <=> Late(p, t, k)
    BY DEF Late
  <1>3. ScreenInv(Tail(w), p2, t, s2)
    <2> SUFFICES ASSUME p2.seeded, NoContinueFrom(Tail(w), 1), NEW k \in 1 .. Len(t.made), k \notin s2
                 PROVE  Coming(Tail(w), t, k) /\ Late(p2, t, k)
      BY DEF ScreenInv
    <2>1. Coming(w, t, k) /\ Late(p, t, k)
      BY <1>1 DEF ShownInv, ScreenInv
    <2>2. QED
      BY <1>2, <2>1, ComingTail
  <1>4. CaptureInv(Tail(w), p2, t, n)
    BY CapturesTail DEF ShownInv
  <1>5. KeptInv(Tail(w), p2, t)
    <2> SUFFICES ASSUME p2.seed # None, NoContinueFrom(Tail(w), 1),
                        NEW k \in 1 .. Len(t.made), k > p2.seed
                 PROVE  Coming(Tail(w), t, k) /\ Late(p2, t, k)
      BY DEF KeptInv
    <2>1. Coming(w, t, k) /\ Late(p, t, k)
      BY <1>1 DEF ShownInv, KeptInv
    <2>2. QED
      BY <1>2, <2>1, ComingTail
  <1>6. QED
    BY <1>3, <1>4, <1>5 DEF ShownInv

(* The current capture is received.                                        *)
LEMMA ShownCaptured ==
  ASSUME NEW w \in Seq(Message), w # <<>>, NEW p, NEW p2, NEW t, NEW n \in Nat, NEW s,
         ShownInv(w, p, t, n, s), t.made \in Seq(0 .. MaxTicks), Capture(w[1], p.gen), w[1].ok,
         p2.gen = p.gen, ~p2.seeded, p2.seed = w[1].shown, p2.capture_at \in {None, n},
         \A j \in 1 .. Len(w) : Capture(w[j], p.gen) => j = 1
  PROVE  ShownInv(Tail(w), p2, t, n, s)
  <1>1. PICK v \in Seq(Message) : v = Tail(w) /\ IsTail(v, w)
    BY Rest
  <1>2. 1 \in 1 .. Len(w) /\ w[1] \in Message
    BY TailFields
  <1>2a. w[1].type = "block"
    BY <1>2, CaptureFields
  <1>3. \A i \in 1 .. Len(v) : ~Capture(v[i], p.gen)
    <2>1. \A i \in 1 .. Len(v) : v[i] = w[i + 1] /\ i + 1 \in 1 .. Len(w) /\ i + 1 # 1
      BY <1>1 DEF IsTail
    <2>2. QED
      BY <2>1
  <1>4. KeptInv(v, p2, t)
    <2> SUFFICES ASSUME NoContinueFrom(v, 1), NEW k \in 1 .. Len(t.made), k > w[1].shown
                 PROVE  Coming(v, t, k) /\ Late(p2, t, k)
      BY DEF KeptInv
    <2>1. NoContinueFrom(w, 1)
      BY <1>1, <1>2a, NoContinueTail
    <2>2. Coming(w, t, k) /\ t.made[k] >= n
      BY <1>2, <2>1 DEF ShownInv, CaptureInv
    <2>3. QED
      BY <1>1, <1>2a, <2>2, ComingTail DEF Late
  <1>5. QED
    BY <1>1, <1>3, <1>4 DEF ShownInv, ScreenInv, CaptureInv

(* The pane is painted.                                                    *)
LEMMA ShownPainted ==
  ASSUME NEW w \in Seq(Message), w # <<>>, NEW p, NEW p2, NEW t, NEW n, NEW s, NEW s2,
         ShownInv(w, p, t, n, s), w[1].type = "block", Len(t.made) \in Nat,
         p.seed \in Nat, p.seed # None, p2.gen = p.gen, p2.seed = None, p2.capture_at = p.capture_at,
         1 .. p.seed \subseteq s2, NoReply(Tail(w), p.gen)
  PROVE  ShownInv(Tail(w), p2, t, n, s2)
  <1>1. ScreenInv(Tail(w), p2, t, s2)
    <2> SUFFICES ASSUME NoContinueFrom(Tail(w), 1), NEW k \in 1 .. Len(t.made), k \notin s2
                 PROVE  Coming(Tail(w), t, k) /\ Late(p2, t, k)
      BY DEF ScreenInv
    <2>1. NoContinueFrom(w, 1)
      BY NoContinueTail
    <2>2. k > p.seed
      OBVIOUS
    <2>3. Coming(w, t, k) /\ Late(p, t, k)
      BY <2>1, <2>2 DEF ShownInv, KeptInv
    <2>4. QED
      BY <2>3, ComingTail DEF Late
  <1>2. QED
    BY <1>1 DEF ShownInv, CaptureInv, KeptInv, NoReply

(* Messages are sent.                                                      *)
LEMMA ShownSend ==
  ASSUME NEW w \in Seq(Message), NEW r \in Seq(Message), NEW p, NEW t, NEW t2, NEW n, NEW s,
         ShownInv(w, p, t, n, s), t2.made = t.made, Len(t.made) \in Nat,
         p.seeded \/ p.seed # None \/ ~NoReply(w, p.gen) =>
           \A k \in 1 .. Len(t.made) : Coming(w, t, k) => Coming(w \o r, t2, k),
         \A i \in 1 .. Len(r) : Capture(r[i], p.gen) /\ r[i].ok => r[i].shown = Len(t.made)
  PROVE  ShownInv(w \o r, p, t2, n, s)
  <1>1. PICK v \in Seq(Message) : v = w \o r /\ IsJoin(v, w, r)
    BY Joined
  <1>2. /\ Len(w) \in Nat /\ Len(r) \in Nat
        /\ \A i \in 1 .. Len(w) : v[i] = w[i] /\ i \in 1 .. Len(v)
        /\ \A i \in 1 .. Len(v) : \/ i \in 1 .. Len(w)
                                  \/ \E j \in 1 .. Len(r) : i = Len(w) + j /\ v[i] = r[j]
    BY <1>1 DEF IsJoin
  <1>3. \A i : NoContinueFrom(v, i) => NoContinueFrom(w, i)
    BY <1>2 DEF NoContinueFrom
  <1>4. \A k : Late(p, t2, k) <=> Late(p, t, k)
    BY DEF Late
  <1>5. ScreenInv(v, p, t2, s)
    BY <1>1, <1>3, <1>4 DEF ShownInv, ScreenInv
  <1>6. KeptInv(v, p, t2)
    BY <1>1, <1>3, <1>4 DEF ShownInv, KeptInv
  <1>7. CaptureInv(v, p, t2, n)
    <2> SUFFICES ASSUME NEW i \in 1 .. Len(v), Capture(v[i], p.gen), v[i].ok, NoContinueFrom(v, i),
                        NEW k \in 1 .. Len(t.made), k > v[i].shown
                 PROVE  Coming(v, t2, k) /\ t.made[k] >= n
      BY DEF CaptureInv
    <2>1. CASE i \in 1 .. Len(w)
      <3>1. v[i] = w[i] /\ ~NoReply(w, p.gen)
        BY <1>2, <2>1 DEF NoReply
      <3>2. Coming(w, t, k) /\ t.made[k] >= n
        BY <1>3, <2>1, <3>1 DEF ShownInv, CaptureInv
      <3>3. QED
        BY <1>1, <3>1, <3>2
    <2>2. CASE \E j \in 1 .. Len(r) : v[i] = r[j]
      BY <2>2
    <2>3. QED
      BY <1>2, <2>1, <2>2
  <1>8. QED
    BY <1>1, <1>5, <1>6, <1>7 DEF ShownInv

-----------------------------------------------------------------------------
(* The seed when its replies are received.                                 *)

LEMMA SeedSame ==
  ASSUME NEW w, NEW q, NEW p, NEW p2, SeedInv(w, q, p), p2.gen = p.gen, p2.mapped = p.mapped,
         p2.seeded = p.seeded, p2.seeding = p.seeding, p2.seed = p.seed
  PROVE  SeedInv(w, q, p2)
  BY DEF SeedInv, Generations, InFlight

LEMMA SeedHead ==
  ASSUME NEW w \in Seq(Message), w # <<>>, NEW q, NEW p, SeedInv(w, q, p),
         Capture(w[1], p.gen) \/ Cursor(w[1], p.gen)
  PROVE  /\ p.seeding /\ p.mapped /\ ~p.seeded /\ NoSeed(q)
         /\ Capture(w[1], p.gen) => p.seed = None
         /\ Capture(w[1], p.gen) =>
              /\ w[1].ok => Len(w) > 1 /\ Cursor(w[2], p.gen)
              /\ \A j \in 1 .. Len(w) : /\ Capture(w[j], p.gen) => j = 1
                                        /\ Cursor(w[j], p.gen) => j = 2 /\ w[1].ok
         /\ ~Capture(w[1], p.gen) =>
              \A j \in 1 .. Len(w) : ~Capture(w[j], p.gen) /\ (Cursor(w[j], p.gen) => j = 1)
  <1>1. 1 \in 1 .. Len(w)
    BY TailFields
  <1>2. ~NoReply(w, p.gen)
    BY <1>1 DEF NoReply
  <1>3. p.seeding /\ p.mapped /\ ~p.seeded
    BY <1>2 DEF SeedInv
  <1>4. \/ Executed(w, p.gen) /\ NoSeed(q) /\ p.seed = None
        \/ Captured(w, p.gen) /\ NoSeed(q) /\ p.seed # None
    BY <1>2, <1>3 DEF SeedInv, InFlight
  <1>5. CASE Executed(w, p.gen) /\ NoSeed(q) /\ p.seed = None
    <2>1. PICK i \in 1 .. Len(w) :
            /\ Capture(w[i], p.gen)
            /\ w[i].ok => i + 1 \in 1 .. Len(w) /\ Cursor(w[i + 1], p.gen)
            /\ \A j \in 1 .. Len(w) : /\ Capture(w[j], p.gen) => j = i
                                      /\ Cursor(w[j], p.gen) => j = i + 1 /\ w[i].ok
      BY <1>5 DEF Executed
    <2>2. i = 1
      <3>1. i \in Nat /\ i >= 1 /\ 1 # i + 1
        OBVIOUS
      <3>2. QED
        BY <1>1, <2>1, <3>1
    <2>3. 1 + 1 = 2 /\ (2 \in 1 .. Len(w) => Len(w) > 1)
      OBVIOUS
    <2>4. QED
      BY <1>3, <1>5, <2>1, <2>2, <2>3
  <1>6. CASE Captured(w, p.gen) /\ NoSeed(q) /\ p.seed # None
    BY <1>1, <1>3, <1>6 DEF Captured
  <1>7. QED
    BY <1>4, <1>5, <1>6

LEMMA SeedCaptured ==
  ASSUME NEW w \in Seq(Message), w # <<>>, NEW q, NEW p, NEW p2, SeedInv(w, q, p),
         Capture(w[1], p.gen), w[1].ok,
         p2.gen = p.gen, p2.mapped = p.mapped, p2.seeded = p.seeded, p2.seeding = p.seeding,
         p2.seed # None
  PROVE  SeedInv(Tail(w), q, p2)
  <1>1. PICK v \in Seq(Message) : v = Tail(w) /\ IsTail(v, w)
    BY Rest
  <1>2. /\ Len(v) \in Nat /\ Len(w) = Len(v) + 1
        /\ \A i \in 1 .. Len(v) : v[i] = w[i + 1] /\ i + 1 \in 1 .. Len(w)
    BY <1>1 DEF IsTail
  <1>3. /\ p.seeding /\ p.mapped /\ ~p.seeded /\ NoSeed(q) /\ Len(w) > 1 /\ Cursor(w[2], p.gen)
        /\ \A j \in 1 .. Len(w) : (Capture(w[j], p.gen) => j = 1) /\ (Cursor(w[j], p.gen) => j = 2)
    BY SeedHead
  <1>4. 1 \in 1 .. Len(v) /\ v[1] = w[2] /\ v # <<>>
    <2>1. 1 \in 1 .. Len(v) /\ 1 + 1 = 2 /\ Len(v) # 0
      BY <1>2, <1>3
    <2>2. QED
      BY <1>2, <2>1, EmptyLen
  <1>5. Captured(v, p.gen)
    <2>1. \A j \in 1 .. Len(v) : j + 1 # 1 /\ (j + 1 = 2 => j = 1)
      OBVIOUS
    <2>2. \A j \in 1 .. Len(v) : ~Capture(v[j], p.gen) /\ (Cursor(v[j], p.gen) => j = 1)
      BY <1>2, <1>3, <2>1
    <2>3. QED
      BY <1>3, <1>4, <2>2 DEF Captured
  <1>6. Generations(v, q, p2)
    BY <1>2 DEF SeedInv, Generations
  <1>7. QED
    BY <1>1, <1>3, <1>5, <1>6 DEF SeedInv, InFlight

(* The last reply to the current seed: the cursor, or a failed capture.    *)
LEMMA LastReply ==
  ASSUME NEW w \in Seq(Message), w # <<>>, NEW q, NEW p, SeedInv(w, q, p),
         Cursor(w[1], p.gen) \/ (Capture(w[1], p.gen) /\ ~w[1].ok)
  PROVE  /\ p.seeding /\ p.mapped /\ ~p.seeded /\ NoSeed(q) /\ NoOpen(q, p.gen)
         /\ NoReply(Tail(w), p.gen) /\ Generations(Tail(w), q, p)
         /\ Capture(w[1], p.gen) => p.seed = None
  <1>1. PICK v \in Seq(Message) : v = Tail(w) /\ IsTail(v, w)
    BY Rest
  <1>2. \A i \in 1 .. Len(v) : v[i] = w[i + 1] /\ i + 1 \in 1 .. Len(w) /\ i + 1 # 1
    BY <1>1 DEF IsTail
  <1>3. /\ p.seeding /\ p.mapped /\ ~p.seeded /\ NoSeed(q)
        /\ Capture(w[1], p.gen) => p.seed = None
        /\ \A j \in 1 .. Len(w) : j # 1 => ~Capture(w[j], p.gen) /\ ~Cursor(w[j], p.gen)
    <2>1. CASE Capture(w[1], p.gen) /\ ~w[1].ok
      BY <2>1, SeedHead
    <2>2. CASE ~Capture(w[1], p.gen)
      BY <2>2, SeedHead
    <2>3. CASE Capture(w[1], p.gen) /\ Cursor(w[1], p.gen)
      <3>1. Seed("capture", p.gen) # Seed("cursor", p.gen)
        <4>1. Seed("capture", p.gen).kind = "capture" /\ Seed("cursor", p.gen).kind = "cursor"
          BY DEF Seed
        <4>2. QED
          BY <4>1
      <3>2. QED
        BY <2>3, <3>1 DEF Capture, Cursor
    <2>4. QED
      BY <2>1, <2>2, <2>3
  <1>4. NoReply(v, p.gen)
    BY <1>2, <1>3 DEF NoReply
  <1>5. NoOpen(q, p.gen)
    BY <1>3, OpensSeed DEF NoSeed, NoOpen
  <1>6. Generations(v, q, p)
    BY <1>2 DEF SeedInv, Generations
  <1>7. QED
    BY <1>1, <1>3, <1>4, <1>5, <1>6

LEMMA SeedDone ==
  ASSUME NEW w, NEW q, NEW p, NEW p2, Generations(w, q, p), NoReply(w, p.gen), NoSeed(q),
         p2.gen = p.gen, p2.mapped, p.mapped, ~p2.seeding, p2.seed = None
  PROVE  SeedInv(w, q, p2)
  <1>1. NoOpen(q, p.gen)
    BY OpensSeed DEF NoSeed, NoOpen
  <1>2. QED
    BY <1>1 DEF SeedInv, Generations

(* invalidate_seed: older replies and lines are not the next seed's.       *)
LEMMA SeedInvalid ==
  ASSUME NEW w \in Seq(Message), NEW q, NEW p, NEW p2, Generations(w, q, p), p.gen \in Nat,
         \A i \in 1 .. Len(q) : q[i][1].gen \in Nat,
         p.mapped, p2.mapped, p2.gen = p.gen + 1, ~p2.seeded, ~p2.seeding, p2.seed = None
  PROVE  SeedInv(w, q, p2) /\ NoReply(w, p2.gen)
  <1>1. \A i \in 1 .. Len(w) : Settles(w[i]) # <<>> => Settles(w[i])[1].gen \in Nat
    <2> SUFFICES ASSUME NEW i \in 1 .. Len(w), Settles(w[i]) # <<>> PROVE Settles(w[i])[1].gen \in Nat
      OBVIOUS
    <2>1. PICK a \in Seq(Entry) : a = Settles(w[i])
      BY MessageFields
    <2>2. a[1] \in Entry
      BY <2>1
    <2>3. QED
      BY <2>1, <2>2 DEF Entry
  <1>2. Generations(w, q, p2)
    BY <1>1 DEF Generations
  <1>3. ~(p2.gen <= p.gen)
    OBVIOUS
  <1>4. NoOpen(q, p2.gen)
    BY <1>3, OpensSeed DEF NoOpen, Generations
  <1>5. \A k : Seed(k, p2.gen).gen = p2.gen
    BY DEF Seed
  <1>6. NoReply(w, p2.gen)
    BY <1>3, <1>5 DEF NoReply, Capture, Cursor, Generations
  <1>7. QED
    BY <1>2, <1>4, <1>6 DEF SeedInv

-----------------------------------------------------------------------------
(* The client's operations.  A line is queued or skipped.                  *)

LEMMA OutputThin ==
  ASSUME NEW w, NEW q \in Seq(Seq(Entry)), NEW q2 \in Seq(Seq(Entry)), NEW a \in Nat, NEW d \in Nat,
         NEW p, NEW z, NEW t, NEW n, NEW s, OutputInv(w, q, p, z, t, n, s),
         p.gen \in Nat, Thinned(q, q2, a, d, p.gen)
  PROVE  OutputInv(w, q2, p, z, t, n, s)
  <1>1. SeedInv(w, q2, p)
    BY SeedThin DEF OutputInv
  <1>2. Opens(SeedLine(p.gen, TRUE), p.gen)
    BY SeedLineFields DEF Opens
  <1>3. (\E i \in 1 .. Len(q) : q[i] = SeedLine(p.gen, TRUE)) =>
          \E i \in 1 .. Len(q2) : q2[i] = SeedLine(p.gen, TRUE)
    <2>1. \A j \in 1 .. Len(q) : Opens(q[j], p.gen) => \E i \in 1 .. Len(q2) : q2[i] = q[j]
      BY ThinnedLines
    <2>2. QED
      BY <1>2, <2>1
  <1>4. PausedInv(w, q, p, z) => PausedInv(w, q2, p, z)
    BY <1>3, PausedKeep
  <1>5. QED
    BY <1>1, <1>4 DEF OutputInv

LEMMA OutputAppend ==
  ASSUME NEW w, NEW q \in Seq(Seq(Entry)), NEW l \in Seq(Entry), NEW p, NEW z, NEW t, NEW n, NEW s,
         OutputInv(w, q, p, z, t, n, s), ~IsSeed(l), l[1].gen <= p.gen
  PROVE  OutputInv(w, Append(q, l), p, z, t, n, s)
  <1>1. SeedInv(w, Append(q, l), p)
    BY SeedAppend DEF OutputInv
  <1>2. PICK q2 \in Seq(Seq(Entry)) : q2 = Append(q, l)
    BY Appended
  <1>3. \A i \in 1 .. Len(q) : q2[i] = q[i] /\ i \in 1 .. Len(q2)
    BY <1>2, Appended
  <1>4. PausedInv(w, q, p, z) => PausedInv(w, q2, p, z)
    BY <1>3, PausedKeep
  <1>5. QED
    BY <1>1, <1>2, <1>4 DEF OutputInv

\* What seed_pane(p, z) does to the pane, to what is known of a pause, and to
\* the lines, if the queue is not full.
Seeds(p, z, q, p2, z2, q2) ==
  \/ (~p.mapped \/ p.seeding) /\ p2 = p /\ z2 = z /\ q2 = q
  \/ /\ p.mapped /\ ~p.seeding
     /\ p2 = [p EXCEPT !.seeding = TRUE, !.seeded = FALSE, !.seed = None, !.barrier = z]
     /\ z2 = FALSE /\ q2 = Append(q, SeedLine(p.gen, z))

LEMMA OutputSeeds ==
  ASSUME NEW w \in Seq(Message), NEW q \in Seq(Seq(Entry)), NEW q2, NEW p \in Pane, NEW p2,
         NEW z \in BOOLEAN, NEW z2, NEW t, NEW n, NEW s,
         OutputInv(w, q, p, z, t, n, s), Seeds(p, z, q, p2, z2, q2)
  PROVE  OutputInv(w, q2, p2, z2, t, n, s)
  <1>1. CASE p2 = p /\ z2 = z /\ q2 = q
    BY <1>1
  <1>2. CASE /\ p.mapped /\ ~p.seeding
             /\ p2 = [p EXCEPT !.seeding = TRUE, !.seeded = FALSE, !.seed = None, !.barrier = z]
             /\ z2 = FALSE /\ q2 = Append(q, SeedLine(p.gen, z))
    <2>1. /\ p2.gen = p.gen /\ p2.mapped /\ p2.seeding /\ ~p2.seeded /\ p2.seed = None
          /\ p2.capture_at = p.capture_at /\ p.gen \in Nat
      BY <1>2 DEF Pane
    <2>2. NoOpen(q, p.gen) /\ NoReply(w, p.gen) /\ Generations(w, q, p)
      BY <1>2 DEF OutputInv, SeedInv
    <2>3. SeedInv(w, q2, p2)
      BY <1>2, <2>1, <2>2, SeedStart
    <2>4. PausedInv(w, q, p, z) => PausedInv(w, q2, p2, z2)
      <3>1. PICK l \in Seq(Entry) : l = SeedLine(p.gen, z)
        BY <2>1, SeedLineFields
      <3>2. /\ \A i \in 1 .. Len(q) : q2[i] = q[i] /\ i \in 1 .. Len(q2)
            /\ q2[Len(q) + 1] = l /\ Len(q) + 1 \in 1 .. Len(q2)
        BY <1>2, <3>1, Appended
      <3>3. z => l = SeedLine(p.gen, TRUE)
        <4>1. z => z = TRUE
          OBVIOUS
        <4>2. QED
          BY <3>1, <4>1
      <3>4. z \/ (\E i \in 1 .. Len(q) : q[i] = SeedLine(p.gen, TRUE))
              => \E i \in 1 .. Len(q2) : q2[i] = SeedLine(p.gen, TRUE)
        BY <3>2, <3>3
      <3>5. QED
        BY <2>1, <3>4, PausedKeep
    <2>5. ContinueInv(w, p2, z2)
      <3>1. Unseen(w, Len(w), p2)
        BY <2>1, <2>2 DEF Unseen, NoReply
      <3>2. QED
        BY <2>1, <3>1, ContinueKeep DEF OutputInv
    <2>6. TimeInv(w, p2, t, n)
      BY <2>1 DEF OutputInv, TimeInv
    <2>7. ShownInv(w, p2, t, n, s)
      BY <2>1, <2>2, ShownNone
    <2>8. QED
      BY <2>3, <2>4, <2>5, <2>6, <2>7 DEF OutputInv
  <1>3. QED
    BY <1>1, <1>2 DEF Seeds

-----------------------------------------------------------------------------
(* A message is received.                                                  *)

(* It is not a reply to the current seed, and not a pause.                 *)
LEMMA OtherReceived ==
  ASSUME NEW w \in Seq(Message), w # <<>>, NEW q, NEW p, NEW p2, NEW z, NEW z2, NEW t, NEW n,
         NEW s, NEW s2, OutputInv(w, q, p, z, t, n, s), SeedInv(Tail(w), q, p2),
         Len(t.made) \in Nat, ~Capture(w[1], p.gen), ~Cursor(w[1], p.gen), w[1].type # "pause",
         p2.gen = p.gen, p2.capture_at = p.capture_at, p2.seed = p.seed,
         p2.seeded => p.seeded, p.mapped => p2.mapped, s \subseteq s2,
         z \/ (p.mapped /\ Unresumed(w[1], p.gen)) => z2 \/ FlowControl(w[1]),
         w[1].type = "continue" => ~p2.seeded,
         w[1].type = "output" => (p.seeded /\ Late(p, t, w[1].chunk) => w[1].chunk \in s2)
  PROVE  OutputInv(Tail(w), q, p2, z2, t, n, s2)
  <1>1. p.seed = None
    BY DEF OutputInv, SeedInv, InFlight, Captured
  <1>2. PausedInv(w, q, p, z) => PausedInv(Tail(w), q, p2, z2)
    BY PausedTail
  <1>3. ContinueInv(Tail(w), p2, z2)
    <2>1. CASE FlowControl(w[1])
      BY <2>1, ContinueFlow DEF OutputInv
    <2>2. CASE ~FlowControl(w[1])
      BY <1>1, <2>2, ContinueTail DEF OutputInv
    <2>3. QED
      BY <2>1, <2>2
  <1>4. TimeInv(Tail(w), p2, t, n)
    BY TimeTail DEF OutputInv, TimeInv
  <1>5. ShownInv(Tail(w), p2, t, n, s2)
    BY <1>1, ShownTail DEF OutputInv
  <1>6. QED
    BY <1>2, <1>3, <1>4, <1>5 DEF OutputInv

LEMMA PauseReceived ==
  ASSUME NEW w \in Seq(Message), w # <<>>, NEW q, NEW p, NEW p2, NEW z, NEW t, NEW n, NEW s,
         OutputInv(w, q, p, z, t, n, s), w[1].type = "pause", SeedInv(Tail(w), q, p2),
         NoReply(Tail(w), p2.gen), ~p2.seeded, p2.seed = None, p2.capture_at = None
  PROVE  OutputInv(Tail(w), q, p2, TRUE, t, n, s)
  <1>1. t.paused => PausedInv(Tail(w), q, p2, TRUE)
    BY PausedKnown DEF OutputInv
  <1>2. ContinueInv(Tail(w), p2, TRUE)
    BY ContinueFlow DEF OutputInv, FlowControl
  <1>3. TimeInv(Tail(w), p2, t, n)
    BY TimeTail DEF OutputInv
  <1>4. ShownInv(Tail(w), p2, t, n, s)
    BY ShownNone
  <1>5. QED
    BY <1>1, <1>2, <1>3, <1>4 DEF OutputInv

(* A pause is received that the client knows, or of an unknown pane.       *)
LEMMA PauseRepeated ==
  ASSUME NEW w \in Seq(Message), w # <<>>, NEW q, NEW p, NEW z, NEW t, NEW n, NEW s,
         OutputInv(w, q, p, z, t, n, s), w[1].type = "pause", Len(t.made) \in Nat
  PROVE  OutputInv(Tail(w), q, p, TRUE, t, n, s)
  <1>1. t.paused => PausedInv(Tail(w), q, p, TRUE)
    BY PausedKnown DEF OutputInv
  <1>2. ContinueInv(Tail(w), p, TRUE)
    BY ContinueFlow DEF OutputInv, FlowControl
  <1>3. ~Capture(w[1], p.gen) /\ ~Cursor(w[1], p.gen)
    BY DEF Capture, Cursor, Settles
  <1>4. SeedInv(Tail(w), q, p)
    BY <1>3, SeedTail DEF OutputInv
  <1>5. TimeInv(Tail(w), p, t, n)
    BY TimeTail DEF OutputInv, TimeInv
  <1>6. ShownInv(Tail(w), p, t, n, s)
    BY ShownTail DEF OutputInv
  <1>7. QED
    BY <1>1, <1>2, <1>4, <1>5, <1>6 DEF OutputInv

LEMMA CaptureReceived ==
  ASSUME NEW w \in Seq(Message), w # <<>>, NEW q, NEW p, NEW p2, NEW z, NEW t, NEW n \in Nat, NEW s,
         OutputInv(w, q, p, z, t, n, s), t.made \in Seq(0 .. MaxTicks),
         Capture(w[1], p.gen), w[1].ok,
         p2.gen = p.gen, p2.mapped = p.mapped, p2.seeded = p.seeded, p2.seeding = p.seeding,
         p2.seed = w[1].shown, p2.seed # None, p2.capture_at \in {None, n}
  PROVE  OutputInv(Tail(w), q, p2, z, t, n, s)
  <1>1. SeedInv(Tail(w), q, p2)
    BY SeedCaptured DEF OutputInv
  <1>2. ~p.seeded /\ \A j \in 1 .. Len(w) : Capture(w[j], p.gen) => j = 1
    BY SeedHead DEF OutputInv
  <1>3. w[1].type = "block" /\ ~Unresumed(w[1], p.gen)
    BY TailFields, CaptureFields DEF Unresumed
  <1>4. PausedInv(w, q, p, z) => PausedInv(Tail(w), q, p2, z)
    BY <1>3, PausedTail
  <1>5. ContinueInv(Tail(w), p2, z)
    BY <1>2, <1>3, ContinueTail DEF OutputInv, FlowControl
  <1>6. TimeInv(Tail(w), p2, t, n)
    BY TimeTail DEF OutputInv
  <1>7. ShownInv(Tail(w), p2, t, n, s)
    BY <1>2, ShownCaptured DEF OutputInv
  <1>8. QED
    BY <1>1, <1>4, <1>5, <1>6, <1>7 DEF OutputInv

(* The last reply to the current seed: the pane is painted if the capture  *)
(* was received.                                                           *)
LEMMA CursorReceived ==
  ASSUME NEW w \in Seq(Message), w # <<>>, NEW q, NEW p, NEW p2, NEW z, NEW z2, NEW t, NEW n,
         NEW s, NEW s2,
         OutputInv(w, q, p, z, t, n, s), Len(t.made) \in Nat, p.seed # None => p.seed \in Nat,
         Cursor(w[1], p.gen) \/ (Capture(w[1], p.gen) /\ ~w[1].ok),
         p2.gen = p.gen, p2.mapped = p.mapped, ~p2.seeding, p2.seed = None,
         p2.capture_at = p.capture_at,
         p2.seeded => p.seed # None /\ 1 .. p.seed \subseteq s2,
         z \/ (p.mapped /\ Unresumed(w[1], p.gen)) => z2
  PROVE  OutputInv(Tail(w), q, p2, z2, t, n, s2)
  <1>1. /\ p.seeding /\ p.mapped /\ ~p.seeded /\ NoSeed(q)
        /\ NoReply(Tail(w), p.gen) /\ Generations(Tail(w), q, p)
    BY LastReply DEF OutputInv
  <1>2. SeedInv(Tail(w), q, p2)
    BY <1>1, SeedDone
  <1>3. w[1].type = "block"
    BY TailFields, CaptureFields
  <1>4. PausedInv(w, q, p, z) => PausedInv(Tail(w), q, p2, z2)
    BY <1>3, PausedTail
  <1>5. ContinueInv(Tail(w), p2, z2)
    BY <1>1, <1>3, ContinueTail DEF OutputInv, FlowControl
  <1>6. TimeInv(Tail(w), p2, t, n)
    <2>1. TimeInv(w, p, t, n) /\ (p2.capture_at = None \/ p2.capture_at <= n)
      BY DEF OutputInv, TimeInv
    <2>2. QED
      BY <2>1, TimeTail
  <1>7. ShownInv(Tail(w), p2, t, n, s2)
    <2>1. CASE p2.seeded
      BY <1>1, <1>3, <2>1, ShownPainted DEF OutputInv
    <2>2. CASE ~p2.seeded
      BY <1>1, <2>2, ShownNone
    <2>3. QED
      BY <2>1, <2>2
  <1>8. QED
    BY <1>2, <1>4, <1>5, <1>6, <1>7 DEF OutputInv

-----------------------------------------------------------------------------
(* The server's steps.                                                     *)

LEMMA OneMessage ==
  ASSUME NEW w \in Seq(Message), NEW m \in Message
  PROVE  \E r \in Seq(Message) : /\ Len(r) = 1 /\ r[1] = m /\ 1 \in 1 .. Len(r)
                                 /\ \A i \in 1 .. Len(r) : r[i] = m
                                 /\ Append(w, m) = w \o r
  <1>1. \A S : \A x \in S : <<x>> \in Seq(S) /\ Len(<<x>>) = 1 /\ <<x>>[1] = x
    OBVIOUS
  <1>2. PICK r \in Seq(Message) : r = <<m>> /\ Len(r) = 1 /\ r[1] = m
    BY <1>1
  <1>3. 1 \in 1 .. Len(r) /\ \A i \in 1 .. Len(r) : r[i] = m
    BY <1>2
  <1>4. Append(w, m) = w \o r
    BY <1>2, AppendIsConcat
  <1>5. QED
    BY <1>2, <1>3, <1>4

LEMMA ComingSend ==
  ASSUME NEW w \in Seq(Message), NEW r \in Seq(Message), NEW t, NEW t2, NEW k, Coming(w, t, k),
         k > t.sent => \/ k > t2.sent
                       \/ \E i \in 1 .. Len(r) : r[i].type = "output" /\ r[i].chunk = k
  PROVE  Coming(w \o r, t2, k)
  <1>1. PICK v \in Seq(Message) : v = w \o r /\ IsJoin(v, w, r)
    BY Joined
  <1>2. /\ \A i \in 1 .. Len(w) : v[i] = w[i] /\ i \in 1 .. Len(v)
        /\ \A j \in 1 .. Len(r) : v[Len(w) + j] = r[j] /\ Len(w) + j \in 1 .. Len(v)
    BY <1>1 DEF IsJoin
  <1>3. QED
    BY <1>1, <1>2 DEF Coming

(* A notification other than `continue` is sent.                           *)
LEMMA OutputNotified ==
  ASSUME NEW w \in Seq(Message), NEW m \in Message, NEW q, NEW p, NEW z, NEW t, NEW t2, NEW n, NEW s,
         OutputInv(w, q, p, z, t, n, s), m.type # "block", m.type # "continue",
         t.sent \in Nat, Len(t.made) \in Nat, t2.made = t.made,
         t2.paused => t.paused \/ m.type = "pause",
         m.type = "output" => /\ m.chunk = t.sent + 1 /\ t2.sent = t.sent + 1
                              /\ m.age = n - t.made[m.chunk],
         m.type # "output" => t2.sent = t.sent
  PROVE  OutputInv(Append(w, m), q, p, z, t2, n, s)
  <1>1. PICK r \in Seq(Message) : /\ Len(r) = 1 /\ r[1] = m /\ 1 \in 1 .. Len(r)
                                  /\ \A i \in 1 .. Len(r) : r[i] = m
                                  /\ Append(w, m) = w \o r
    BY OneMessage, Zenon
  <1>2. Settles(m) = <<>>
    BY DEF Settles
  <1>3. NoReply(r, p.gen)
    BY <1>1, <1>2 DEF NoReply, Capture, Cursor
  <1>4. SeedInv(w \o r, q, p)
    BY <1>1, <1>2, <1>3, SeedSend DEF OutputInv
  <1>5. t2.paused => PausedInv(w \o r, q, p, z)
    <2>1. CASE m.type = "pause"
      <3>1. PICK v \in Seq(Message) : v = w \o r /\ IsJoin(v, w, r)
        BY Joined
      <3>2. /\ v[Len(w) + 1] = m /\ Len(w) + 1 \in 1 .. Len(v) /\ Len(w) \in Nat
            /\ Len(v) = Len(w) + 1
        BY <1>1, <3>1 DEF IsJoin
      <3>3. \A i \in 1 .. Len(v) : i >= Len(w) + 1 => i = Len(w) + 1
        BY <3>2
      <3>4. NoContinueFrom(v, Len(w) + 1)
        BY <2>1, <3>2, <3>3 DEF NoContinueFrom
      <3>5. QED
        BY <2>1, <3>1, <3>2, <3>4 DEF PausedInv
    <2>2. CASE m.type # "pause"
      <3>1. NoFlow(r, Len(r))
        BY <1>1, <2>2 DEF NoFlow, FlowControl
      <3>2. QED
        BY <2>2, <3>1, PausedSend DEF OutputInv
    <2>3. QED
      BY <2>1, <2>2
  <1>6. ContinueInv(w \o r, p, z)
    BY <1>1, ContinueSend DEF OutputInv
  <1>7. t2.sent \in Nat /\ t.sent <= t2.sent
    OBVIOUS
  <1>8. TimeInv(w \o r, p, t2, n)
    <2>1. \A i \in 1 .. Len(r) : r[i].type = "output" =>
            r[i].chunk <= t2.sent /\ r[i].age = n - t.made[r[i].chunk] /\ NoReply(r, p.gen)
      BY <1>1, <1>3
    <2>2. \A i \in 1 .. Len(r) : ~Capture(r[i], p.gen)
      BY <1>3 DEF NoReply
    <2>3. QED
      BY <1>7, <2>1, <2>2, TimeSend DEF OutputInv
  <1>9. ShownInv(w \o r, p, t2, n, s)
    <2>1. ASSUME NEW k \in 1 .. Len(t.made), Coming(w, t, k) PROVE Coming(w \o r, t2, k)
      <3>1. k > t.sent => k > t2.sent \/ (m.type = "output" /\ m.chunk = k)
        OBVIOUS
      <3>2. QED
        BY <1>1, <2>1, <3>1, ComingSend
    <2>2. \A i \in 1 .. Len(r) : ~Capture(r[i], p.gen)
      BY <1>3 DEF NoReply
    <2>3. QED
      BY <2>1, <2>2, ShownSend DEF OutputInv
  <1>10. QED
    BY <1>1, <1>4, <1>5, <1>6, <1>8, <1>9 DEF OutputInv

(* The pane is resumed by someone else.                                    *)
LEMMA OutputResumed ==
  ASSUME NEW w \in Seq(Message), NEW m \in Message, NEW q, NEW p, NEW z, NEW t, NEW t2, NEW n, NEW s,
         OutputInv(w, q, p, z, t, n, s), m.type = "continue", t.paused, ~t2.paused,
         t.sent \in Nat, t2.sent \in Nat, t.sent <= t2.sent, t2.made = t.made
  PROVE  OutputInv(Append(w, m), q, p, z, t2, n, s)
  <1>1. PICK r \in Seq(Message) : /\ Len(r) = 1 /\ r[1] = m /\ 1 \in 1 .. Len(r)
                                  /\ \A i \in 1 .. Len(r) : r[i] = m
                                  /\ Append(w, m) = w \o r
    BY OneMessage, Zenon
  <1>2. Settles(m) = <<>>
    BY DEF Settles
  <1>3. NoReply(r, p.gen)
    BY <1>1, <1>2 DEF NoReply, Capture, Cursor
  <1>4. SeedInv(w \o r, q, p)
    BY <1>1, <1>2, <1>3, SeedSend DEF OutputInv
  <1>5. ContinueInv(w \o r, p, z)
    BY <1>1, ContinueResume DEF OutputInv
  <1>6. TimeInv(w \o r, p, t2, n)
    <2>1. \A i \in 1 .. Len(r) : r[i].type # "output" /\ ~Capture(r[i], p.gen)
      BY <1>1, <1>3 DEF NoReply
    <2>2. QED
      BY <2>1, TimeSend DEF OutputInv
  <1>7. ShownInv(w \o r, p, t2, n, s)
    <2>1. PICK v \in Seq(Message) : v = w \o r /\ IsJoin(v, w, r)
      BY Joined
    <2>2. /\ v[Len(w) + 1] = m /\ Len(w) + 1 \in 1 .. Len(v) /\ Len(w) \in Nat
          /\ Len(v) = Len(w) + 1
      BY <1>1, <2>1 DEF IsJoin
    <2>3. \A i \in 1 .. Len(v) : Len(w) + 1 >= i
      BY <2>2
    <2>4. 1 \in 1 .. Len(v)
      BY <2>2
    <2>5. \A i \in 1 .. Len(v) : ~NoContinueFrom(v, i)
      BY <2>2, <2>3 DEF NoContinueFrom
    <2>6. QED
      BY <2>1, <2>4, <2>5 DEF ShownInv, ScreenInv, CaptureInv, KeptInv
  <1>8. QED
    BY <1>1, <1>4, <1>5, <1>6, <1>7 DEF OutputInv

LEMMA OutputProduced ==
  ASSUME NEW w \in Seq(Message), NEW q, NEW p, NEW z, NEW t, NEW t2, NEW n \in 0 .. MaxTicks, NEW s,
         OutputInv(w, q, p, z, t, n, s), t.made \in Seq(0 .. MaxTicks), t.sent \in Nat,
         t.sent <= Len(t.made), t2.made = Append(t.made, n), t2.sent = t.sent, t2.paused = t.paused
  PROVE  OutputInv(w, q, p, z, t2, n, s)
  <1>1. PICK c \in Nat : c = Len(t.made)
    OBVIOUS
  <1>2. /\ Len(t2.made) = c + 1 /\ t2.made[c + 1] = n
        /\ \A k \in 1 .. c : t2.made[k] = t.made[k]
        /\ \A k \in 1 .. (c + 1) : k \in 1 .. c \/ k = c + 1
    <2>1. PICK a \in Seq(0 .. MaxTicks) : a = t.made
      OBVIOUS
    <2>2. /\ Len(Append(a, n)) = c + 1 /\ Append(a, n)[c + 1] = n
          /\ \A k \in 1 .. c : Append(a, n)[k] = a[k]
      BY <1>1, <2>1
    <2>3. QED
      BY <2>1, <2>2
  <1>3. c + 1 > t.sent
    BY <1>1
  <1>4. TimeInv(w, p, t2, n)
    <2>1. \A i \in 1 .. Len(w) : w[i].type = "output" => w[i].chunk \in Nat /\ w[i].chunk >= 1
      BY MessageFields
    <2>2. \A i \in 1 .. Len(w) : w[i].type = "output" => w[i].chunk \in 1 .. c
      BY <1>1, <2>1 DEF OutputInv, TimeInv
    <2>3. \A i \in 1 .. Len(w) : w[i].type = "output" => t2.made[w[i].chunk] = t.made[w[i].chunk]
      BY <1>2, <2>2
    <2>4. QED
      BY <2>3 DEF OutputInv, TimeInv
  <1>5. \A k : Coming(w, t, k) => Coming(w, t2, k)
    BY DEF Coming
  <1>6. Coming(w, t2, c + 1)
    BY <1>3 DEF Coming
  <1>7. Late(p, t2, c + 1) /\ \A k \in 1 .. c : Late(p, t, k) => Late(p, t2, k)
    <2>1. p.capture_at = None \/ n >= p.capture_at
      BY DEF OutputInv, TimeInv
    <2>2. QED
      BY <1>2, <2>1 DEF Late
  <1>8. n >= n
    OBVIOUS
  <1>9. ScreenInv(w, p, t2, s)
    BY <1>1, <1>2, <1>5, <1>6, <1>7 DEF OutputInv, ShownInv, ScreenInv
  <1>10. CaptureInv(w, p, t2, n)
    BY <1>1, <1>2, <1>5, <1>6, <1>8 DEF OutputInv, ShownInv, CaptureInv
  <1>11. KeptInv(w, p, t2)
    BY <1>1, <1>2, <1>5, <1>6, <1>7 DEF OutputInv, ShownInv, KeptInv
  <1>12. QED
    BY <1>4, <1>9, <1>10, <1>11 DEF OutputInv, ShownInv

LEMMA OutputTicked ==
  ASSUME NEW w, w = <<>>, NEW q, NEW p \in Pane, NEW z, NEW t, NEW n \in Nat, NEW s,
         OutputInv(w, q, p, z, t, n, s)
  PROVE  OutputInv(w, q, p, z, t, n + 1, s)
  <1>1. p.capture_at = None \/ p.capture_at <= n + 1
    <2>1. p.capture_at = None \/ p.capture_at <= n
      BY DEF OutputInv, TimeInv
    <2>2. p.capture_at = None \/ p.capture_at \in 0 .. MaxTicks
      BY DEF Pane
    <2>3. QED
      BY <2>1, <2>2, TmuxAssumption
  <1>2. Len(w) = 0 /\ \A i \in 1 .. 0 : FALSE
    BY EmptyLen
  <1>3. TimeInv(w, p, t, n + 1)
    BY <1>1, <1>2 DEF TimeInv
  <1>4. ShownInv(w, p, t, n + 1, s)
    BY <1>2 DEF OutputInv, ShownInv, CaptureInv
  <1>5. QED
    BY <1>3, <1>4 DEF OutputInv

LEMMA ThinTail ==
  ASSUME NEW q \in Seq(Seq(Entry)), q # <<>>, NEW g, ~Opens(q[1], g)
  PROVE  Thinned(q, Tail(q), 0, 1, g) /\ Tail(q) \in Seq(Seq(Entry))
  <1>1. PICK u \in Seq(Seq(Entry)) : u = Tail(q)
    BY TailFields
  <1>2. /\ Len(u) = Len(q) - 1 /\ Len(q) \in Nat \ {0}
        /\ \A i \in 1 .. Len(u) : u[i] = q[i + 1]
    BY <1>1, TailFields
  <1>3. 0 + 1 <= Len(q) /\ 0 + 1 = 1
    BY <1>2
  <1>4. \A i \in 1 .. 0 : FALSE
    OBVIOUS
  <1>5. \A i \in 1 .. 1 : i = 1
    OBVIOUS
  <1>6. Thinned(q, u, 0, 1, g)
    BY <1>2, <1>3, <1>4, <1>5 DEF Thinned
  <1>7. QED
    BY <1>1, <1>6

(* A line is executed that is not the current seed.                        *)
LEMMA OutputExecuted ==
  ASSUME NEW w \in Seq(Message), NEW r \in Seq(Message), NEW q \in Seq(Seq(Entry)), q # <<>>,
         NEW p, NEW z, NEW t, NEW t2, NEW n, NEW s, OutputInv(w, q, p, z, t, n, s),
         ~Opens(q[1], p.gen), \A i \in 1 .. Len(r) : r[i].type = "block", NoReply(r, p.gen),
         \A i \in 1 .. Len(r) : Settles(r[i]) # <<>> => Settles(r[i])[1].gen <= p.gen,
         t.sent \in Nat, t2.sent \in Nat, t.sent <= t2.sent, Len(t.made) \in Nat, p.gen \in Nat,
         t2.made = t.made, t2.paused => t.paused, t2.sent # t.sent => IsSeed(q[1])
  PROVE  OutputInv(w \o r, Tail(q), p, z, t2, n, s)
  <1>1. PICK u \in Seq(Seq(Entry)) : u = Tail(q) /\ Thinned(q, u, 0, 1, p.gen)
    BY ThinTail
  <1>2. SeedInv(w \o r, q, p)
    BY SeedSend DEF OutputInv
  <1>3. SeedInv(w \o r, u, p)
    <2>1. 0 \in Nat /\ 1 \in Nat
      OBVIOUS
    <2>2. QED
      BY <1>1, <1>2, <2>1, SeedThin
  <1>4. t2.paused => PausedInv(w \o r, u, p, z)
    <2>1. NoFlow(r, Len(r))
      BY DEF NoFlow, FlowControl
    <2>2. \A j \in 1 .. Len(q) : Opens(q[j], p.gen) => \E i \in 1 .. Len(u) : u[i] = q[j]
      <3>1. PICK a \in Nat, d \in Nat, g \in Nat : a = 0 /\ d = 1 /\ g = p.gen
        OBVIOUS
      <3>2. Thinned(q, u, a, d, g)
        BY <1>1, <3>1
      <3>3. \A j \in 1 .. Len(q) : Opens(q[j], g) => \E i \in 1 .. Len(u) : u[i] = q[j]
        BY <3>2, ThinnedLines
      <3>4. QED
        BY <3>1, <3>3
    <2>3. Opens(SeedLine(p.gen, TRUE), p.gen)
      BY SeedLineFields DEF Opens
    <2>4. (\E i \in 1 .. Len(q) : q[i] = SeedLine(p.gen, TRUE)) =>
            \E i \in 1 .. Len(u) : u[i] = SeedLine(p.gen, TRUE)
      BY <2>2, <2>3
    <2>5. PausedInv(w, q, p, z) => PausedInv(w \o r, u, p, z)
      BY <2>1, <2>4, PausedSend
    <2>6. QED
      BY <2>5 DEF OutputInv
  <1>5. ContinueInv(w \o r, p, z)
    BY ContinueSend DEF OutputInv
  <1>6. \A i \in 1 .. Len(r) : ~Capture(r[i], p.gen)
    BY DEF NoReply
  <1>7. TimeInv(w \o r, p, t2, n)
    BY <1>6, TimeSend DEF OutputInv
  <1>8. ShownInv(w \o r, p, t2, n, s)
    <2>1. p.seeded \/ p.seed # None \/ ~NoReply(w, p.gen) => t2.sent = t.sent
      <3>1. IsSeed(q[1]) => ~NoSeed(q)
        BY TailFields DEF NoSeed
      <3>2. IsSeed(q[1]) => ~p.seeded /\ p.seed = None /\ NoReply(w, p.gen)
        BY <3>1 DEF OutputInv, SeedInv, InFlight
      <3>3. QED
        BY <3>2
    <2>2. t2.sent = t.sent => \A k : Coming(w, t, k) => Coming(w \o r, t2, k)
      BY ComingSend
    <2>3. QED
      BY <1>6, <2>1, <2>2, ShownSend DEF OutputInv
  <1>9. QED
    BY <1>1, <1>3, <1>4, <1>5, <1>7, <1>8 DEF OutputInv

(* The current seed is executed.                                           *)
LEMMA OutputCaptured ==
  ASSUME NEW w \in Seq(Message), NEW r \in Seq(Message), NEW q \in Seq(Seq(Entry)), q # <<>>,
         NEW p, NEW z, NEW t, NEW t2, NEW n, NEW s, OutputInv(w, q, p, z, t, n, s),
         Opens(q[1], p.gen), \A i \in 1 .. Len(r) : r[i].type = "block", Executed(r, p.gen),
         \A i \in 1 .. Len(r) : Settles(r[i]) # <<>> => Settles(r[i])[1].gen <= p.gen,
         \A i \in 1 .. Len(r) : Capture(r[i], p.gen) => r[i].shown = Len(t.made),
         t.sent \in Nat, t2.sent \in Nat, t.sent <= t2.sent, Len(t.made) \in Nat,
         t.sent <= Len(t.made), t2.made = t.made,
         t2.paused => /\ t.paused
                      /\ q[1] = SeedLine(p.gen, TRUE) => \E i \in 1 .. Len(r) : Unresumed(r[i], p.gen)
  PROVE  OutputInv(w \o r, Tail(q), p, z, t2, n, s)
  <1>1. /\ SeedInv(w \o r, Tail(q), p)
        /\ NoReply(w, p.gen) /\ p.mapped /\ ~p.seeded /\ p.seed = None
    BY SeedExecute DEF OutputInv
  <1>2. t2.paused => PausedInv(w \o r, Tail(q), p, z)
    <2> SUFFICES ASSUME t2.paused PROVE PausedInv(w \o r, Tail(q), p, z)
      OBVIOUS
    <2>1. NoFlow(r, Len(r))
      BY DEF NoFlow, FlowControl
    <2>2. PICK u \in Seq(Seq(Entry)) : u = Tail(q)
      BY TailFields
    <2>3. /\ Len(u) = Len(q) - 1 /\ Len(q) \in Nat \ {0}
          /\ \A i \in 1 .. Len(u) : u[i] = q[i + 1]
      BY <2>2, TailFields
    <2>4. \A i \in 1 .. Len(q) : i = 1 \/ (i - 1 \in 1 .. Len(u) /\ (i - 1) + 1 = i)
      BY <2>3
    <2>5. ASSUME NEW i \in 1 .. Len(q), q[i] = SeedLine(p.gen, TRUE)
          PROVE  (\E j \in 1 .. Len(u) : u[j] = SeedLine(p.gen, TRUE)) \/ Retried(r, Len(r), p)
      <3>1. CASE i = 1
        BY <1>1, <2>5, <3>1 DEF Retried
      <3>2. CASE i # 1
        BY <2>3, <2>4, <2>5, <3>2
      <3>3. QED
        BY <3>1, <3>2
    <2>6. PausedInv(w, q, p, z)
      BY DEF OutputInv
    <2>7. PausedInv(w \o r, u, p, z)
      BY <2>1, <2>5, <2>6, PausedSend
    <2>8. QED
      BY <2>2, <2>7
  <1>3. ContinueInv(w \o r, p, z)
    BY ContinueSend DEF OutputInv
  <1>4. TimeInv(w \o r, p, t2, n)
    <2>1. \A i \in 1 .. Len(r) : r[i].type # "output"
      OBVIOUS
    <2>2. \A i \in 1 .. Len(r) : Capture(r[i], p.gen) => t.sent <= r[i].shown
      OBVIOUS
    <2>3. QED
      BY <2>1, <2>2, TimeSend DEF OutputInv
  <1>5. ShownInv(w \o r, p, t2, n, s)
    BY <1>1, ShownSend DEF OutputInv
  <1>6. QED
    BY <1>1, <1>2, <1>3, <1>4, <1>5 DEF OutputInv

(* What the server answers, by the part of the line that it answers.       *)
LEMMA RepliesHeads ==
  ASSUME TypeOK, NEW l \in Seq(Entry), NEW f \in 0 .. Len(l)
  PROVE  \E r \in Seq(Message) :
           /\ r = Replies(l, f) /\ Len(r) = IF f = 0 THEN Len(l) ELSE f
           /\ \A i \in 1 .. Len(r) :
                /\ i \in 1 .. Len(l) /\ r[i].type = "block" /\ r[i].ok = (i # f)
                /\ Settles(r[i]) # <<>> /\ Settles(r[i])[1] = l[i]
                /\ l[i].kind = "capture" => r[i].shown = Len(tmux.made)
                /\ i = f => r[i].answers = SubSeq(l, i, Len(l))
  <1>1. PICK r : r = Replies(l, f)
    OBVIOUS
  <1>1a. r \in Seq(Message)
    BY <1>1, RepliesFields
  <1>2. Len(r) = IF f = 0 THEN Len(l) ELSE f
    BY <1>1, RepliesLen
  <1>3. \A i \in 1 .. Len(r) :
          /\ i \in 1 .. Len(l) /\ r[i].type = "block" /\ r[i].ok = (i # f)
          /\ l[i].kind = "capture" => r[i].shown = Len(tmux.made)
          /\ i = f => r[i].answers = SubSeq(l, i, Len(l))
          /\ i # f => r[i].answers = <<l[i]>>
    BY <1>1, RepliesFields, ZenonT(60)
  <1>4. ASSUME NEW i \in 1 .. Len(r) PROVE Settles(r[i]) # <<>> /\ Settles(r[i])[1] = l[i]
    <2>1. i \in 1 .. Len(l) /\ Settles(r[i]) = r[i].answers
      BY <1>3 DEF Settles
    <2>2. CASE i = f
      <3>0. PICK a : a = SubSeq(l, i, Len(l))
        OBVIOUS
      <3>1. /\ a \in Seq(Entry) /\ Len(a) = Len(l) + 1 - i
            /\ \A j \in 1 .. (Len(l) + 1 - i) : a[j] = l[i - 1 + j]
        BY <2>1, <3>0, Slice
      <3>2. 1 \in 1 .. (Len(l) + 1 - i) /\ i - 1 + 1 = i /\ Len(l) + 1 - i # 0
        BY <2>1
      <3>3. a # <<>> /\ a[1] = l[i]
        BY <3>1, <3>2, EmptyLen
      <3>4. QED
        BY <1>3, <2>1, <2>2, <3>0, <3>3
    <2>3. CASE i # f
      <3>1. \A x : <<x>> # <<>> /\ <<x>>[1] = x
        OBVIOUS
      <3>2. r[i].answers = <<l[i]>>
        BY <1>3, <2>3
      <3>3. QED
        BY <2>1, <3>1, <3>2
    <2>4. QED
      BY <2>2, <2>3
  <1>5. QED
    BY <1>1, <1>1a, <1>2, <1>3, <1>4

\* r answers the line l, whose f-th part fails.
Answer(r, l, f, c) ==
  /\ Len(r) = IF f = 0 THEN Len(l) ELSE f
  /\ \A i \in 1 .. Len(r) :
       /\ i \in 1 .. Len(l) /\ r[i].type = "block" /\ r[i].ok = (i # f)
       /\ Settles(r[i]) # <<>> /\ Settles(r[i])[1] = l[i]
       /\ l[i].kind = "capture" => r[i].shown = c
       /\ i = f => r[i].answers = SubSeq(l, i, Len(l))

LEMMA SeedKindsDiffer ==
  ASSUME NEW g, NEW h
  PROVE  /\ Seed("capture", g) # Seed("cursor", h) /\ Seed("capture", g) # Seed("continue", h)
         /\ Seed("cursor", g) # Seed("continue", h)
         /\ g # h => Seed("capture", g) # Seed("capture", h) /\ Seed("cursor", g) # Seed("cursor", h)
         /\ Windows # Seed("capture", g) /\ Windows # Seed("cursor", g)
         /\ User # Seed("capture", g) /\ User # Seed("cursor", g)
  <1>1. \A k, x : Seed(k, x).kind = k /\ Seed(k, x).gen = x
    BY DEF Seed
  <1>2. Windows.kind = "windows" /\ User.kind = "user"
    BY DEF Windows, User
  <1>3. QED
    BY <1>1, <1>2

LEMMA SeedAnswer ==
  ASSUME NEW g \in Nat, NEW b \in BOOLEAN, NEW l \in Seq(Entry), l = SeedLine(g, b),
         NEW f \in 0 .. Len(l), NEW r \in Seq(Message), NEW c, Answer(r, l, f, c)
  PROVE  /\ Executed(r, g)
         /\ \A h : h # g => NoReply(r, h)
         /\ \A i \in 1 .. Len(r) : r[i].type = "block" /\ Settles(r[i])[1].gen = g
         /\ \A i \in 1 .. Len(r) : Capture(r[i], g) => r[i].shown = c
  <1>1. /\ l[1] = Seed("capture", g) /\ l[2] = Seed("cursor", g)
        /\ b => l[3] = Seed("continue", g)
        /\ Len(l) = IF b THEN 3 ELSE 2
    BY SeedLineFields
  <1>2. \A i \in 1 .. Len(l) : i = 1 \/ i = 2 \/ (b /\ i = 3)
    BY <1>1
  <1>3. \A k, x : Seed(k, x).kind = k /\ Seed(k, x).gen = x
    BY DEF Seed
  <1>4. /\ \A i \in 1 .. Len(r) : /\ i \in 1 .. Len(l) /\ r[i].type = "block" /\ r[i].ok = (i # f)
                                  /\ Settles(r[i]) # <<>> /\ Settles(r[i])[1] = l[i]
                                  /\ l[i].kind = "capture" => r[i].shown = c
        /\ Len(r) = IF f = 0 THEN Len(l) ELSE f
    BY DEF Answer
  <1>5. 1 \in 1 .. Len(r) /\ (1 # f => 2 \in 1 .. Len(r)) /\ 1 + 1 = 2
    BY <1>1, <1>4
  <1>6. \A i \in 1 .. Len(r) : Settles(r[i])[1] \in {Seed("capture", g), Seed("cursor", g), Seed("continue", g)}
    BY <1>1, <1>2, <1>4
  <1>7. ASSUME NEW h, h # g PROVE NoReply(r, h)
    <2>1. \A k \in SeedKinds : Seed(k, g) # Seed("capture", h) /\ Seed(k, g) # Seed("cursor", h)
      BY <1>3, <1>7
    <2>2. QED
      BY <1>6, <2>1 DEF NoReply, Capture, Cursor, SeedKinds
  <1>8. \A i \in 1 .. Len(r) : /\ Capture(r[i], g) <=> i = 1
                               /\ Cursor(r[i], g) <=> i = 2
    <2> TAKE i \in 1 .. Len(r)
    <2>1. Settles(r[i]) # <<>> /\ Settles(r[i])[1] = l[i] /\ (i = 1 \/ i = 2 \/ (b /\ i = 3))
      BY <1>2, <1>4
    <2>2. CASE i = 1
      BY <1>1, <2>1, <2>2, SeedKindsDiffer DEF Capture, Cursor
    <2>3. CASE i = 2
      BY <1>1, <2>1, <2>3, SeedKindsDiffer DEF Capture, Cursor
    <2>4. CASE b /\ i = 3
      BY <1>1, <2>1, <2>4, SeedKindsDiffer DEF Capture, Cursor
    <2>5. QED
      BY <2>1, <2>2, <2>3, <2>4
  <1>9. \A i \in 1 .. Len(r) : i = 2 => r[1].ok
    <2>1. \A i \in 1 .. Len(r) : i = 2 => f # 1
      BY <1>4
    <2>2. QED
      BY <1>4, <1>5, <2>1
  <1>10. r[1].ok => 1 # f
    BY <1>4, <1>5
  <1>11. Executed(r, g)
    <2>1. /\ Capture(r[1], g)
          /\ r[1].ok => 1 + 1 \in 1 .. Len(r) /\ Cursor(r[1 + 1], g)
          /\ \A j \in 1 .. Len(r) : /\ Capture(r[j], g) => j = 1
                                    /\ Cursor(r[j], g) => j = 1 + 1 /\ r[1].ok
      BY <1>5, <1>8, <1>9, <1>10
    <2>2. QED
      BY <1>5, <2>1 DEF Executed
  <1>12. \A i \in 1 .. Len(r) : Capture(r[i], g) => r[i].shown = c
    BY <1>1, <1>3, <1>4, <1>8
  <1>13. \A i \in 1 .. Len(r) : r[i].type = "block" /\ Settles(r[i])[1].gen = g
    BY <1>3, <1>4, <1>6
  <1>14. QED
    BY <1>7, <1>11, <1>12, <1>13

LEMMA ResumeAnswer ==
  ASSUME NEW g \in Nat, NEW l \in Seq(Entry), l = SeedLine(g, TRUE),
         NEW f \in 1 .. Len(l), NEW r \in Seq(Message), NEW c, Answer(r, l, f, c)
  PROVE  \E i \in 1 .. Len(r) : Unresumed(r[i], g)
  <1>1. l[3] = Seed("continue", g) /\ Len(l) = 3
    BY SeedLineFields
  <1>2. f \in 1 .. Len(r) /\ r[f].type = "block" /\ ~r[f].ok /\ r[f].answers = SubSeq(l, f, Len(l))
    <2>0. f \in Nat /\ f >= 1 /\ f # 0
      OBVIOUS
    <2>1. f \in 1 .. Len(r)
      <3>1. Len(r) = f
        BY <2>0 DEF Answer
      <3>2. QED
        BY <2>0, <3>1
    <2>2. r[f].type = "block" /\ r[f].ok = (f # f) /\ r[f].answers = SubSeq(l, f, Len(l))
      BY <2>1 DEF Answer
    <2>3. QED
      BY <2>1, <2>2
  <1>3. PICK a : a = SubSeq(l, f, Len(l))
    OBVIOUS
  <1>4. /\ a \in Seq(Entry) /\ Len(a) = Len(l) + 1 - f
        /\ \A j \in 1 .. (Len(l) + 1 - f) : a[j] = l[f - 1 + j]
    BY <1>3, Slice
  <1>5. Len(a) \in 1 .. (Len(l) + 1 - f) /\ f - 1 + Len(a) = 3 /\ Len(a) # 0
    <2>1. f \in 1 .. 3 /\ Len(a) = 3 + 1 - f
      BY <1>1, <1>4
    <2>2. PICK n \in Nat : n = Len(a) /\ n = 3 + 1 - f
      BY <2>1
    <2>3. n \in 1 .. (3 + 1 - f) /\ f - 1 + n = 3 /\ n # 0
      BY <2>1, <2>2
    <2>4. QED
      BY <1>1, <2>2, <2>3
  <1>6. a # <<>> /\ a[Len(a)] = Seed("continue", g)
    BY <1>1, <1>4, <1>5, EmptyLen
  <1>7. Unresumed(r[f], g)
    BY <1>2, <1>3, <1>6 DEF Unresumed
  <1>8. QED
    BY <1>2, <1>7

LEMMA PlainAnswer ==
  ASSUME NEW l \in Seq(Entry), l = <<Windows>>,
         NEW f \in 0 .. Len(l), NEW r \in Seq(Message), NEW c, Answer(r, l, f, c)
  PROVE  /\ \A h : NoReply(r, h)
         /\ \A i \in 1 .. Len(r) : r[i].type = "block" /\ Settles(r[i])[1].gen = 0
  <1>1. \A i \in 1 .. Len(l) : l[i] = Windows
    OBVIOUS
  <1>2. \A i \in 1 .. Len(r) : r[i].type = "block" /\ Settles(r[i])[1] = Windows
    BY <1>1 DEF Answer
  <1>3. QED
    BY <1>2, SeedKindsDiffer, PlainLines DEF NoReply, Capture, Cursor

LEMMA UserAnswer ==
  ASSUME TypeOK, NEW r \in UserReplies
  PROVE  /\ r \in Seq(Message) /\ \A h : NoReply(r, h)
         /\ \A i \in 1 .. Len(r) : /\ r[i].type = "block"
                                   /\ Settles(r[i]) # <<>> => Settles(r[i])[1].gen = 0
  <1>1. r \in Seq(Message)
    BY UserRepliesFields
  <1>2. PICK b : b = Block(TRUE, TRUE, 0, <<User>>)
    OBVIOUS
  <1>3. b.type = "block" /\ Settles(b) = <<User>>
    BY <1>2 DEF Block, Settles
  <1>4. \A ok \in BOOLEAN : Block(ok, FALSE, 0, <<>>).type = "block" /\ Settles(Block(ok, FALSE, 0, <<>>)) = <<>>
    BY DEF Block, Settles
  <1>5. \A i \in 1 .. Len(r) : r[i].type = "block" /\ (Settles(r[i]) = <<>> \/ Settles(r[i]) = <<User>>)
    <2>1. CASE r = <<b>>
      BY <1>3, <2>1
    <2>2. ASSUME NEW ok \in BOOLEAN, r = <<Block(ok, FALSE, 0, <<>>), b>>
          PROVE  \A i \in 1 .. Len(r) : r[i].type = "block" /\ (Settles(r[i]) = <<>> \/ Settles(r[i]) = <<User>>)
      <3>1. PICK a : a = Block(ok, FALSE, 0, <<>>)
        OBVIOUS
      <3>2. a.type = "block" /\ Settles(a) = <<>>
        BY <1>4, <3>1
      <3>3. r = <<a, b>>
        BY <2>2, <3>1
      <3>4. QED
        BY <1>3, <3>2, <3>3
    <2>3. QED
      BY <1>2, <2>1, <2>2, UserRepliesFields
  <1>6. <<User>>[1] = User
    OBVIOUS
  <1>7. \A i \in 1 .. Len(r) : Settles(r[i]) # <<>> => Settles(r[i])[1] = User
    BY <1>5, <1>6
  <1>8. QED
    BY <1>1, <1>5, <1>7, SeedKindsDiffer, PlainLines DEF NoReply, Capture, Cursor

-----------------------------------------------------------------------------
(* The steps of the specification.                                         *)

LEMMA StateFields ==
  ASSUME CorrInv
  PROVE  /\ TypeOK /\ wire \in Seq(Message)
         /\ cmds \in Seq(Seq(Entry)) /\ outgoing \in Seq(Seq(Entry)) /\ Lines \in Seq(Seq(Entry))
         /\ pane \in Pane /\ pane.gen \in Nat /\ paused \in BOOLEAN
         /\ now \in 0 .. MaxTicks /\ now \in Nat
         /\ tmux \in [made : Seq(0 .. MaxTicks), sent : Nat, paused : BOOLEAN]
         /\ tmux.made \in Seq(0 .. MaxTicks) /\ Len(tmux.made) \in Nat
         /\ tmux.sent \in Nat /\ tmux.sent <= Len(tmux.made) /\ Len(tmux.made) <= MaxChunks
         /\ \A i \in 1 .. Len(Lines) : /\ Lines[i] \in Seq(Entry) /\ IsLine(Lines[i])
                                       /\ Lines[i][1].gen \in Nat
  <1>1. TypeOK /\ LineInv
    BY DEF CorrInv, TypeInv
  <1>2. /\ wire \in Seq(Message) /\ cmds \in Seq(Seq(Entry)) /\ outgoing \in Seq(Seq(Entry))
        /\ pane \in Pane /\ paused \in BOOLEAN /\ now \in 0 .. MaxTicks
        /\ tmux \in [made : Seq(0 .. MaxTicks), sent : Nat, paused : BOOLEAN]
        /\ tmux.sent <= Len(tmux.made) /\ Len(tmux.made) <= MaxChunks
    BY <1>1 DEF TypeOK
  <1>3. pane.gen \in Nat /\ now \in Nat
    BY <1>2, TmuxAssumption DEF Pane
  <1>4. tmux.made \in Seq(0 .. MaxTicks) /\ tmux.sent \in Nat
    BY <1>2
  <1>5. Len(tmux.made) \in Nat
    BY <1>4
  <1>6. PICK q \in Seq(Seq(Entry)) : q = Lines
    BY <1>2, ConcatFields DEF Lines
  <1>7. ASSUME NEW i \in 1 .. Len(q) PROVE q[i] \in Seq(Entry) /\ IsLine(q[i]) /\ q[i][1].gen \in Nat
    <2>1. q[i] \in Seq(Entry)
      OBVIOUS
    <2>2. IsLine(q[i])
      <3>1. \A j \in 1 .. Len(q) : \/ j \in 1 .. Len(cmds) /\ q[j] = cmds[j]
                                   \/ \E k \in 1 .. Len(outgoing) : q[j] = outgoing[k]
        <4>1. /\ Len(q) = Len(cmds) + Len(outgoing) /\ Len(cmds) \in Nat /\ Len(outgoing) \in Nat
              /\ \A j \in 1 .. Len(cmds) : q[j] = cmds[j]
              /\ \A j \in 1 .. Len(outgoing) : q[Len(cmds) + j] = outgoing[j]
          BY <1>2, <1>6, ConcatFields DEF Lines
        <4>2. \A j \in 1 .. Len(q) : \/ j \in 1 .. Len(cmds)
                                     \/ /\ j - Len(cmds) \in 1 .. Len(outgoing)
                                        /\ Len(cmds) + (j - Len(cmds)) = j
          BY <4>1
        <4>3. QED
          BY <4>1, <4>2
      <3>2. QED
        BY <1>1, <3>1 DEF LineInv
    <2>3. q[i] # <<>>
      BY <2>1, <2>2, LineStarts
    <2>4. q[i][1] \in Entry
      BY <2>1, <2>3
    <2>5. QED
      BY <2>1, <2>2, <2>4 DEF Entry
  <1>8. QED
    BY <1>1, <1>2, <1>3, <1>4, <1>5, <1>6, <1>7

OutputNow == OutputInv(wire, Lines, pane, paused, tmux, now, screen)
OutputThen == OutputInv(wire', Lines', pane', paused', tmux', now', screen')

LEMMA ClockOutput ==
  ASSUME CorrInv, OutputNow, ~Lag, Tick \/ Produce
  PROVE  OutputThen
  <1>1. Lines' = Lines
    BY DEF Tick, Produce, client, Lines
  <1>2. CASE Tick
    <2>1. wire = <<>> /\ now' = now + 1
      BY <1>2 DEF Tick
    <2>2. wire' = wire /\ pane' = pane /\ paused' = paused /\ tmux' = tmux /\ screen' = screen
      BY <1>2 DEF Tick, server, client
    <2>3. OutputInv(wire, Lines, pane, paused, tmux, now + 1, screen)
      BY <2>1, StateFields, OutputTicked DEF OutputNow
    <2>4. QED
      BY <1>1, <2>1, <2>2, <2>3 DEF OutputThen
  <1>3. CASE Produce
    <2>1. /\ tmux' = [tmux EXCEPT !.made = Append(tmux.made, now)] /\ now' = now
          /\ wire' = wire /\ pane' = pane /\ paused' = paused /\ screen' = screen
      BY <1>3 DEF Produce, client
    <2>2. tmux'.made = Append(tmux.made, now) /\ tmux'.sent = tmux.sent /\ tmux'.paused = tmux.paused
      BY <2>1, StateFields
    <2>3. OutputInv(wire, Lines, pane, paused, tmux', now, screen)
      BY <2>2, StateFields, OutputProduced DEF OutputNow
    <2>4. QED
      BY <1>1, <2>1, <2>3 DEF OutputThen
  <1>4. QED
    BY <1>2, <1>3

LEMMA NotifyOutput ==
  ASSUME CorrInv, CorrInv', OutputNow, SendOutput \/ PausePane \/ ResumePane \/ ChangeLayout
  PROVE  OutputThen
  <1>1. /\ Lines' = Lines /\ now' = now /\ pane' = pane /\ paused' = paused /\ screen' = screen
    BY DEF SendOutput, PausePane, ResumePane, ChangeLayout, client, Lines
  <1>2. /\ wire \in Seq(Message) /\ tmux \in [made : Seq(0 .. MaxTicks), sent : Nat, paused : BOOLEAN]
        /\ tmux.sent \in Nat /\ Len(tmux.made) \in Nat /\ tmux.sent <= Len(tmux.made)
        /\ wire' \in Seq(Message)
    <2>1. wire' \in Seq(Message)
      BY DEF CorrInv, TypeInv, TypeOK
    <2>2. QED
      BY <2>1, StateFields
  <1>3. \A m : wire' = Append(wire, m) => m \in Message
    <2>1. \A S : \A u \in Seq(S) : \A x : Append(u, x) \in Seq(S) => x \in S
      <3> SUFFICES ASSUME NEW S, NEW u \in Seq(S), NEW x, Append(u, x) \in Seq(S) PROVE x \in S
        OBVIOUS
      <3>1. Append(u, x)[Len(u) + 1] = x /\ Len(u) + 1 \in 1 .. Len(Append(u, x))
        OBVIOUS
      <3>2. QED
        BY <3>1
    <2>2. QED
      BY <1>2, <2>1
  <1>4. CASE SendOutput
    <2>1. PICK k : k = tmux.sent + 1
      OBVIOUS
    <2>2. PICK m : m = [type |-> "output", chunk |-> k, age |-> now - tmux.made[k]]
      OBVIOUS
    <2>3. wire' = Append(wire, m) /\ tmux' = [tmux EXCEPT !.sent = k]
      BY <1>4, <2>1, <2>2 DEF SendOutput, Notify
    <2>4. tmux'.made = tmux.made /\ tmux'.sent = tmux.sent + 1 /\ tmux'.paused = tmux.paused
      BY <1>2, <2>1, <2>3
    <2>5. m.type = "output" /\ m.chunk = tmux.sent + 1 /\ m.age = now - tmux.made[m.chunk]
      BY <2>1, <2>2
    <2>6. m \in Message
      BY <1>3, <2>3
    <2>7. OutputInv(Append(wire, m), Lines, pane, paused, tmux', now, screen)
      BY <1>2, <2>4, <2>5, <2>6, OutputNotified DEF OutputNow
    <2>8. QED
      BY <1>1, <2>3, <2>7 DEF OutputThen
  <1>5. CASE PausePane
    <2>1. PICK m : m = [type |-> "pause"]
      OBVIOUS
    <2>2. wire' = Append(wire, m) /\ tmux' = [tmux EXCEPT !.paused = TRUE] /\ m.type = "pause"
      BY <1>5, <2>1 DEF PausePane, Notify
    <2>3. tmux'.made = tmux.made /\ tmux'.sent = tmux.sent
      BY <1>2, <2>2
    <2>4. m \in Message
      BY <1>3, <2>2
    <2>5. OutputInv(Append(wire, m), Lines, pane, paused, tmux', now, screen)
      BY <1>2, <2>2, <2>3, <2>4, OutputNotified DEF OutputNow
    <2>6. QED
      BY <1>1, <2>2, <2>5 DEF OutputThen
  <1>6. CASE ResumePane
    <2>1. PICK m : m = [type |-> "continue"]
      OBVIOUS
    <2>2. /\ wire' = Append(wire, m) /\ m.type = "continue" /\ tmux.paused
          /\ tmux' = [tmux EXCEPT !.paused = FALSE, !.sent = Len(tmux.made)]
      BY <1>6, <2>1 DEF ResumePane, Notify, Resumed
    <2>3. tmux'.made = tmux.made /\ tmux'.sent = Len(tmux.made) /\ ~tmux'.paused
      BY <1>2, <2>2
    <2>4. m \in Message
      BY <1>3, <2>2
    <2>5. OutputInv(Append(wire, m), Lines, pane, paused, tmux', now, screen)
      BY <1>2, <2>2, <2>3, <2>4, OutputResumed DEF OutputNow
    <2>6. QED
      BY <1>1, <2>2, <2>5 DEF OutputThen
  <1>7. CASE ChangeLayout
    <2>1. PICK m : m = [type |-> "layout"]
      OBVIOUS
    <2>2. wire' = Append(wire, m) /\ tmux' = tmux /\ m.type = "layout"
      BY <1>7, <2>1 DEF ChangeLayout, Notify
    <2>3. m \in Message
      BY <1>3, <2>2
    <2>4. OutputInv(Append(wire, m), Lines, pane, paused, tmux', now, screen)
      BY <1>2, <2>2, <2>3, OutputNotified DEF OutputNow
    <2>5. QED
      BY <1>1, <2>2, <2>4 DEF OutputThen
  <1>8. QED
    BY <1>4, <1>5, <1>6, <1>7

LEMMA ExecuteLines ==
  ASSUME CorrInv, Execute
  PROVE  /\ Lines # <<>> /\ Lines[1] = Head(cmds) /\ Lines' = Tail(Lines) /\ 1 \in 1 .. Len(Lines)
         /\ now' = now /\ pane' = pane /\ paused' = paused /\ screen' = screen
  <1>1. \A S : \A a, b \in Seq(S) : a # <<>> => /\ a \o b # <<>> /\ (a \o b)[1] = Head(a)
                                               /\ Tail(a \o b) = Tail(a) \o b /\ 1 \in 1 .. Len(a \o b)
    <2> SUFFICES ASSUME NEW S, NEW a \in Seq(S), NEW b \in Seq(S), a # <<>>
                 PROVE  /\ a \o b # <<>> /\ (a \o b)[1] = Head(a)
                        /\ Tail(a \o b) = Tail(a) \o b /\ 1 \in 1 .. Len(a \o b)
      OBVIOUS
    <2>1. a \o b # <<>> /\ (a \o b)[1] = a[1] /\ Head(a) = a[1]
      BY ConcatFirst
    <2>2. PICK c \in Seq(S) : c = a \o b
      BY ConcatFields
    <2>3. 1 \in 1 .. Len(c)
      BY <2>1, <2>2
    <2>4. Tail(c) = Tail(a) \o b
      <3>1. PICK x \in Seq(S), y \in Seq(S) : x = Tail(c) /\ y = Tail(a)
        BY <2>1, <2>2, TailFields
      <3>2. PICK v \in Seq(S) : v = y \o b
        BY ConcatFields
      <3>3. /\ Len(c) = Len(a) + Len(b) /\ Len(a) \in Nat \ {0} /\ Len(b) \in Nat
            /\ Len(x) = Len(c) - 1 /\ Len(y) = Len(a) - 1 /\ Len(v) = Len(y) + Len(b)
        BY <2>1, <2>2, <3>1, <3>2, TailFields, ConcatFields
      <3>4. Len(x) = Len(v)
        BY <3>3
      <3>5. ASSUME NEW i \in 1 .. Len(x) PROVE x[i] = v[i]
        <4>1. x[i] = c[i + 1]
          BY <2>1, <2>2, <3>1, TailFields
        <4>2. CASE i \in 1 .. Len(y)
          <5>1. i + 1 \in 1 .. Len(a)
            BY <3>3, <4>2
          <5>2. c[i + 1] = a[i + 1] /\ y[i] = a[i + 1] /\ v[i] = y[i]
            BY <2>2, <3>1, <3>2, <4>2, <5>1, ConcatFields, TailFields
          <5>3. QED
            BY <4>1, <5>2
        <4>3. CASE i \notin 1 .. Len(y)
          <5>1. /\ i - Len(y) \in 1 .. Len(b) /\ Len(y) + (i - Len(y)) = i
                /\ Len(a) + (i - Len(y)) = i + 1
            BY <3>3, <4>3
          <5>2. c[Len(a) + (i - Len(y))] = b[i - Len(y)] /\ v[Len(y) + (i - Len(y))] = b[i - Len(y)]
            BY <2>2, <3>2, <5>1, ConcatFields
          <5>3. QED
            BY <4>1, <5>1, <5>2
        <4>4. QED
          BY <4>2, <4>3
      <3>6. x = v
        BY <3>4, <3>5, SeqEqual
      <3>7. QED
        BY <3>1, <3>2, <3>6
    <2>5. QED
      BY <2>1, <2>2, <2>3, <2>4
  <1>2. cmds # <<>> /\ cmds' = Tail(cmds) /\ outgoing' = outgoing
    BY DEF Execute, client
  <1>3. QED
    BY <1>1, <1>2, StateFields DEF Lines, Execute, client

LEMMA ExecuteOutput ==
  ASSUME CorrInv, OutputNow, Execute
  PROVE  OutputThen
  <1>1. /\ Lines # <<>> /\ Lines[1] = Head(cmds) /\ Lines' = Tail(Lines) /\ 1 \in 1 .. Len(Lines)
        /\ now' = now /\ pane' = pane /\ paused' = paused /\ screen' = screen
    BY ExecuteLines
  <1>2. /\ TypeOK /\ wire \in Seq(Message) /\ Lines \in Seq(Seq(Entry)) /\ pane.gen \in Nat
        /\ tmux \in [made : Seq(0 .. MaxTicks), sent : Nat, paused : BOOLEAN]
        /\ Len(tmux.made) \in Nat /\ tmux.sent \in Nat /\ tmux.sent <= Len(tmux.made)
    BY StateFields
  <1>3. PICK l \in Seq(Entry) : l = Lines[1] /\ IsLine(l)
    BY <1>1, StateFields
  <1>4. l[1].gen <= pane.gen
    BY <1>1, <1>3 DEF OutputNow, OutputInv, SeedInv, Generations
  <1>5. ASSUME NEW r \in Seq(Message), wire' = wire \o r,
               OutputInv(wire \o r, Tail(Lines), pane, paused, tmux', now, screen)
        PROVE  OutputThen
    BY <1>1, <1>5 DEF OutputThen
  <1>6. CASE l = <<User>> /\ (\E r \in UserReplies : wire' = wire \o r) /\ tmux' = tmux
    <2>1. PICK r \in UserReplies : wire' = wire \o r
      BY <1>6
    <2>2. /\ r \in Seq(Message) /\ NoReply(r, pane.gen)
          /\ \A i \in 1 .. Len(r) : /\ r[i].type = "block"
                                    /\ Settles(r[i]) # <<>> => Settles(r[i])[1].gen = 0
      BY <1>2, UserAnswer
    <2>3. l[1] = User
      BY <1>6
    <2>4. ~Opens(l, pane.gen)
      BY <2>3, SeedKindsDiffer DEF Opens
    <2>5. 0 <= pane.gen
      BY <1>2
    <2>6. /\ \A i \in 1 .. Len(r) : Settles(r[i]) # <<>> => Settles(r[i])[1].gen <= pane.gen
          /\ tmux'.sent \in Nat /\ tmux.sent <= tmux'.sent /\ tmux'.made = tmux.made
          /\ tmux'.paused = tmux.paused /\ tmux'.sent = tmux.sent
      BY <1>2, <1>6, <2>2, <2>5
    <2>7. OutputInv(wire \o r, Tail(Lines), pane, paused, tmux', now, screen)
      BY <1>1, <1>2, <1>3, <2>2, <2>4, <2>6, OutputExecuted DEF OutputNow
    <2>8. QED
      BY <1>5, <2>1, <2>2, <2>7
  <1>7. CASE /\ l # <<User>>
             /\ \E f \in 0 .. Len(l) :
                  /\ wire' = wire \o Replies(l, f)
                  /\ tmux' = IF f = 0 /\ l[Len(l)].kind = "continue" THEN Resumed ELSE tmux
    <2>1. PICK f \in 0 .. Len(l) :
            /\ wire' = wire \o Replies(l, f)
            /\ tmux' = IF f = 0 /\ l[Len(l)].kind = "continue" THEN Resumed ELSE tmux
      BY <1>7
    <2>2. PICK c : c = Len(tmux.made)
      OBVIOUS
    <2>3. PICK r \in Seq(Message) : r = Replies(l, f) /\ Answer(r, l, f, c)
      <3>1. PICK r \in Seq(Message) :
               /\ r = Replies(l, f) /\ Len(r) = IF f = 0 THEN Len(l) ELSE f
               /\ \A i \in 1 .. Len(r) :
                    /\ i \in 1 .. Len(l) /\ r[i].type = "block" /\ r[i].ok = (i # f)
                    /\ Settles(r[i]) # <<>> /\ Settles(r[i])[1] = l[i]
                    /\ l[i].kind = "capture" => r[i].shown = Len(tmux.made)
                    /\ i = f => r[i].answers = SubSeq(l, i, Len(l))
        BY <1>2, RepliesHeads
      <3>2. Answer(r, l, f, c)
        BY <2>2, <3>1 DEF Answer
      <3>3. QED
        BY <3>1, <3>2
    <2>4. /\ tmux'.made = tmux.made /\ tmux'.sent \in Nat /\ tmux.sent <= tmux'.sent
          /\ tmux'.paused => tmux.paused
          /\ tmux' = tmux \/ (f = 0 /\ l[Len(l)].kind = "continue" /\ ~tmux'.paused)
      <3>1. CASE tmux' = tmux
        BY <1>2, <3>1
      <3>2. CASE f = 0 /\ l[Len(l)].kind = "continue" /\ tmux' = [tmux EXCEPT !.paused = FALSE, !.sent = Len(tmux.made)]
        <4>1. tmux'.made = tmux.made /\ tmux'.sent = Len(tmux.made) /\ tmux'.paused = FALSE
          BY <1>2, <3>2
        <4>2. QED
          BY <1>2, <3>2, <4>1
      <3>3. QED
        BY <2>1, <3>1, <3>2 DEF Resumed
    <2>5. SUFFICES OutputInv(wire \o r, Tail(Lines), pane, paused, tmux', now, screen)
      BY <1>5, <2>1, <2>3
    <2>6. CASE l = <<Windows>>
      <3>1. /\ NoReply(r, pane.gen)
            /\ \A i \in 1 .. Len(r) : r[i].type = "block" /\ Settles(r[i])[1].gen = 0
        BY <2>3, <2>6, PlainAnswer
      <3>2. l[1] = Windows /\ Len(l) = 1
        BY <2>6
      <3>3. ~Opens(l, pane.gen)
        BY <3>2, SeedKindsDiffer DEF Opens
      <3>4. tmux' = tmux /\ 0 <= pane.gen
        BY <1>2, <2>4, <3>2, PlainLines
      <3>5. QED
        BY <1>1, <1>2, <1>3, <2>4, <3>1, <3>3, <3>4, OutputExecuted DEF OutputNow
    <2>7. ASSUME NEW g \in Nat, NEW b \in BOOLEAN, l = SeedLine(g, b)
          PROVE  OutputInv(wire \o r, Tail(Lines), pane, paused, tmux', now, screen)
      <3>1. /\ Executed(r, g)
            /\ \A h : h # g => NoReply(r, h)
            /\ \A i \in 1 .. Len(r) : r[i].type = "block" /\ Settles(r[i])[1].gen = g
            /\ \A i \in 1 .. Len(r) : Capture(r[i], g) => r[i].shown = c
        BY <2>3, <2>7, SeedAnswer
      <3>2. l[1] = Seed("capture", g) /\ IsSeed(l) /\ l[1].gen = g
        <4>1. l[1] = Seed("capture", g)
          BY <2>7, SeedLineFields
        <4>2. QED
          BY <4>1 DEF IsSeed, Seed
      <3>3. \A i \in 1 .. Len(r) : Settles(r[i])[1].gen <= pane.gen
        BY <1>4, <3>1, <3>2
      <3>4. CASE g # pane.gen
        <4>1. ~Opens(l, pane.gen) /\ NoReply(r, pane.gen)
          BY <3>1, <3>2, <3>4, SeedKindsDiffer DEF Opens
        <4>2. QED
          BY <1>1, <1>2, <1>3, <2>4, <3>1, <3>2, <3>3, <4>1, OutputExecuted DEF OutputNow
      <3>5. CASE g = pane.gen
        <4>1. Opens(l, pane.gen)
          BY <3>2, <3>5 DEF Opens
        <4>2. ASSUME tmux'.paused, l = SeedLine(pane.gen, TRUE)
              PROVE  \E i \in 1 .. Len(r) : Unresumed(r[i], pane.gen)
          <5>1. l[Len(l)] = Seed("continue", pane.gen) /\ Len(l) = 3
            BY <1>2, <4>2, SeedLineFields
          <5>2. l[Len(l)].kind = "continue"
            BY <5>1 DEF Seed
          <5>3. f # 0
            <6>1. CASE f = 0
              <7>1. tmux' = Resumed
                BY <2>1, <5>2, <6>1
              <7>2. ~tmux'.paused
                BY <1>2, <7>1 DEF Resumed
              <7>3. QED
                BY <4>2, <7>2
            <6>2. QED
              BY <6>1
          <5>4. f \in 1 .. Len(l)
            BY <5>3
          <5>5. QED
            BY <1>2, <2>3, <4>2, <5>4, ResumeAnswer
        <4>3. QED
          BY <1>1, <1>2, <1>3, <2>2, <2>4, <3>1, <3>3, <3>5, <4>1, <4>2, OutputCaptured DEF OutputNow
      <3>6. QED
        BY <3>4, <3>5
    <2>8. QED
      BY <1>3, <1>7, <2>6, <2>7, LineFields
  <1>8. QED
    BY <1>1, <1>3, <1>6, <1>7 DEF Execute

LEMMA MoveFirst ==
  ASSUME NEW S, NEW a \in Seq(S), NEW b \in Seq(S), b # <<>>
  PROVE  Append(a, b[1]) \o Tail(b) = a \o b
  <1>1. b[1] \in S /\ Len(b) \in Nat \ {0}
    BY TailFields
  <1>2. PICK x \in Seq(S), y \in Seq(S) : x = Append(a, b[1]) /\ y = Tail(b)
    BY <1>1, Appended, TailFields
  <1>3. /\ Len(x) = Len(a) + 1 /\ Len(a) \in Nat /\ x[Len(a) + 1] = b[1]
        /\ \A i \in 1 .. Len(a) : x[i] = a[i] /\ i \in 1 .. Len(x)
    BY <1>1, <1>2, Appended
  <1>4. Len(y) = Len(b) - 1 /\ \A i \in 1 .. Len(y) : y[i] = b[i + 1]
    BY <1>2, TailFields
  <1>5. PICK u \in Seq(S), v \in Seq(S) : u = x \o y /\ v = a \o b
    BY ConcatFields
  <1>6. /\ Len(u) = Len(x) + Len(y) /\ Len(v) = Len(a) + Len(b)
        /\ \A i \in 1 .. Len(x) : u[i] = x[i]
        /\ \A i \in 1 .. Len(y) : u[Len(x) + i] = y[i]
        /\ \A i \in 1 .. Len(a) : v[i] = a[i]
        /\ \A i \in 1 .. Len(b) : v[Len(a) + i] = b[i]
    BY <1>5, ConcatFields
  <1>7. Len(u) = Len(v)
    BY <1>1, <1>3, <1>4, <1>6
  <1>8. ASSUME NEW i \in 1 .. Len(u) PROVE u[i] = v[i]
    <2>1. CASE i \in 1 .. Len(a)
      BY <1>3, <1>6, <2>1
    <2>2. CASE i = Len(a) + 1
      <3>1. i \in 1 .. Len(x) /\ 1 \in 1 .. Len(b)
        BY <1>1, <1>3, <2>2
      <3>2. QED
        BY <1>3, <1>6, <2>2, <3>1
    <2>3. CASE i > Len(a) + 1
      <3>1. PICK j \in 1 .. Len(y) : /\ Len(x) + j = i /\ Len(a) + (j + 1) = i
                                     /\ j + 1 \in 1 .. Len(b)
        <4>1. /\ i - Len(x) \in 1 .. Len(y) /\ Len(x) + (i - Len(x)) = i
              /\ Len(a) + ((i - Len(x)) + 1) = i /\ (i - Len(x)) + 1 \in 1 .. Len(b)
          <5>1. PICK n \in Nat, m \in Nat \ {0}, o \in Nat :
                  n = Len(a) /\ m = Len(b) /\ o = i /\ o <= n + m /\ o > n + 1
            BY <1>1, <1>3, <1>4, <1>6, <2>3
          <5>2. Len(x) = n + 1 /\ Len(y) = m - 1
            BY <1>3, <1>4, <5>1
          <5>3. /\ o - (n + 1) \in 1 .. (m - 1) /\ (n + 1) + (o - (n + 1)) = o
                /\ n + ((o - (n + 1)) + 1) = o /\ (o - (n + 1)) + 1 \in 1 .. m
            BY <5>1
          <5>4. QED
            BY <5>1, <5>2, <5>3
        <4>2. QED
          BY <4>1
      <3>2. u[i] = y[j] /\ y[j] = b[j + 1] /\ v[i] = b[j + 1]
        BY <1>4, <1>6, <3>1
      <3>3. QED
        BY <3>2
    <2>4. QED
      BY <1>3, <2>1, <2>2, <2>3
  <1>9. QED
    BY <1>2, <1>5, <1>7, <1>8, SeqEqual

LEMMA SendOutputs ==
  ASSUME CorrInv, OutputNow, start_send
  PROVE  OutputThen
  <1>1. /\ cmds \in Seq(Seq(Entry)) /\ outgoing \in Seq(Seq(Entry)) /\ Lines \in Seq(Seq(Entry))
        /\ pane.gen \in Nat
    BY StateFields
  <1>2. PICK k \in 1 .. (Len(outgoing) + 1) :
          /\ SkipStale(outgoing) = SubSeq(outgoing, k, Len(outgoing))
          /\ \A i \in 1 .. (k - 1) : Stale(outgoing[i])
    BY <1>1, Skipped
  <1>3. PICK b : b = SkipStale(outgoing)
    OBVIOUS
  <1>4. /\ b \in Seq(Seq(Entry)) /\ Len(b) = Len(outgoing) + 1 - k /\ Len(outgoing) \in Nat
        /\ \A i \in 1 .. (Len(outgoing) + 1 - k) : b[i] = outgoing[k - 1 + i]
    BY <1>1, <1>2, <1>3
  <1>5. Lines' = cmds \o b
    <2>1. CASE outgoing' = b /\ cmds' = cmds
      BY <2>1 DEF Lines
    <2>2. CASE b # <<>> /\ outgoing' = Tail(b) /\ cmds' = Append(cmds, b[1])
      BY <1>1, <1>4, <2>2, MoveFirst DEF Lines
    <2>3. QED
      BY <1>3, <2>1, <2>2 DEF start_send
  <1>6. PICK q \in Seq(Seq(Entry)), v \in Seq(Seq(Entry)) : q = Lines /\ v = cmds \o b
    BY <1>1, <1>4, ConcatFields
  <1>7. PICK a \in Nat, d \in Nat, e \in Nat :
          a = Len(cmds) /\ d = k - 1 /\ e = Len(outgoing) /\ d <= e /\ Len(b) = e - d
    <2>1. Len(cmds) \in Nat
      BY <1>1
    <2>2. k - 1 \in Nat /\ k - 1 <= Len(outgoing) /\ Len(outgoing) + 1 - k = Len(outgoing) - (k - 1)
      BY <1>4
    <2>3. QED
      BY <1>4, <2>1, <2>2
  <1>8. /\ Len(q) = a + e /\ \A i \in 1 .. a : q[i] = cmds[i]
        /\ \A i \in 1 .. e : q[a + i] = outgoing[i]
    BY <1>1, <1>6, <1>7, ConcatFields DEF Lines
  <1>9. /\ Len(v) = a + Len(b) /\ \A i \in 1 .. a : v[i] = cmds[i]
        /\ \A i \in 1 .. Len(b) : v[a + i] = b[i]
    <2>1. /\ Len(v) = Len(cmds) + Len(b) /\ \A i \in 1 .. Len(cmds) : v[i] = cmds[i]
          /\ \A i \in 1 .. Len(b) : v[Len(cmds) + i] = b[i]
      <3>1. cmds \in Seq(Seq(Entry)) /\ b \in Seq(Seq(Entry)) /\ v = cmds \o b
        BY <1>1, <1>4, <1>6
      <3>2. QED
        BY ONLY <3>1, ConcatFields
    <2>2. QED
      BY <1>7, <2>1
  <1>10. ASSUME NEW i \in (a + 1) .. Len(v) PROVE v[i] = q[i + d]
    <2>1. PICK j \in 1 .. Len(b) : a + j = i /\ k - 1 + j \in 1 .. e /\ a + (k - 1 + j) = i + d
      <3>1. /\ i - a \in 1 .. Len(b) /\ a + (i - a) = i /\ k - 1 + (i - a) \in 1 .. e
            /\ a + (k - 1 + (i - a)) = i + d
        BY <1>4, <1>7, <1>9, <1>10
      <3>2. QED
        BY <3>1
    <2>2. v[i] = b[j] /\ b[j] = outgoing[k - 1 + j] /\ q[i + d] = outgoing[k - 1 + j]
      BY <1>4, <1>8, <1>9, <2>1
    <2>3. QED
      BY <2>2
  <1>11. ASSUME NEW i \in (a + 1) .. (a + d) PROVE ~Opens(q[i], pane.gen)
    <2>1. PICK j \in 1 .. (k - 1) : a + j = i /\ j \in 1 .. e
      <3>1. i - a \in 1 .. (k - 1) /\ a + (i - a) = i /\ i - a \in 1 .. e
        BY <1>7, <1>11
      <3>2. QED
        BY <3>1
    <2>2. q[i] = outgoing[j] /\ Stale(q[i]) /\ i \in 1 .. Len(q)
      <3>1. i \in 1 .. Len(q)
        BY <1>7, <1>8, <1>11
      <3>2. QED
        BY <1>2, <1>8, <2>1, <3>1
    <2>3. IsSeed(q[i]) => pane.mapped
      BY <1>6, <2>2 DEF OutputNow, OutputInv, SeedInv, Generations
    <2>4. q[i][1].gen # pane.gen
      BY <2>2, <2>3 DEF Stale, IsSeed
    <2>5. QED
      BY <2>4, OpensSeed
  <1>12. Thinned(q, v, a, d, pane.gen)
    <2>1. a + d <= Len(q) /\ Len(v) = Len(q) - d
      BY <1>7, <1>8, <1>9
    <2>2. \A i \in 1 .. a : v[i] = q[i]
      BY <1>8, <1>9
    <2>3. QED
      BY <1>10, <1>11, <2>1, <2>2 DEF Thinned
  <1>13. OutputInv(wire, v, pane, paused, tmux, now, screen)
    BY <1>1, <1>6, <1>12, OutputThin DEF OutputNow
  <1>14. /\ wire' = wire /\ pane' = pane /\ paused' = paused /\ tmux' = tmux /\ now' = now
         /\ screen' = screen
    BY DEF start_send, server
  <1>15. QED
    BY <1>5, <1>6, <1>13, <1>14 DEF OutputThen

LEMMA QueuedLines ==
  ASSUME CorrInv, running', NEW l \in Seq(Entry), queue_batch(l), cmds' = cmds
  PROVE  Lines' = Append(Lines, l)
  <1>1. outgoing' = Append(outgoing, l)
    BY DEF queue_batch
  <1>2. QED
    BY <1>1, StateFields, AppendToConcat, SMTT(30) DEF Lines

LEMMA PlainOutput ==
  ASSUME CorrInv, OutputNow, running', refresh_windows \/ queue_user_command
  PROVE  OutputThen
  <1>1. /\ wire' = wire /\ pane' = pane /\ paused' = paused /\ tmux' = tmux /\ now' = now
        /\ screen' = screen /\ cmds' = cmds
    BY DEF refresh_windows, queue_user_command, server
  <1>2. PICK l \in Seq(Entry) : queue_batch(l) /\ (l = <<Windows>> \/ l = <<User>>)
    BY PlainLines DEF refresh_windows, queue_user_command
  <1>3. l[1] = Windows \/ l[1] = User
    BY <1>2
  <1>4. ~IsSeed(l) /\ l[1].gen <= pane.gen
    <2>1. 0 <= pane.gen
      BY StateFields
    <2>2. QED
      BY <1>3, <2>1, PlainLines DEF IsSeed
  <1>5. Lines' = Append(Lines, l)
    BY <1>1, <1>2, QueuedLines
  <1>6. OutputInv(wire, Append(Lines, l), pane, paused, tmux, now, screen)
    BY <1>4, StateFields, OutputAppend DEF OutputNow
  <1>7. QED
    BY <1>1, <1>5, <1>6 DEF OutputThen

LEMMA SeedPaneSeeds ==
  ASSUME CorrInv, running', NEW p \in Pane, NEW z \in BOOLEAN, seed_pane(p, z), cmds' = cmds
  PROVE  Seeds(p, z, Lines, pane', paused', Lines')
  <1>1. CASE ~p.mapped \/ p.seeding
    BY <1>1 DEF seed_pane, Seeds, Lines
  <1>2. CASE ~(~p.mapped \/ p.seeding)
    <2>1. /\ pane' = [p EXCEPT !.seeding = TRUE, !.seeded = FALSE, !.seed = None, !.barrier = z]
          /\ paused' = FALSE /\ queue_batch(SeedLine(p.gen, z))
      BY <1>2 DEF seed_pane
    <2>2. p.gen \in Nat
      BY DEF Pane
    <2>3. PICK l \in Seq(Entry) : l = SeedLine(p.gen, z)
      BY <2>2, SeedLineFields
    <2>4. Lines' = Append(Lines, l)
      BY <2>1, <2>3, QueuedLines
    <2>5. QED
      BY <1>2, <2>1, <2>3, <2>4 DEF Seeds
  <1>3. QED
    BY <1>1, <1>2

(* A message was received, or none; the pane was p, and z what was known   *)
(* of a pause; then seed_pane was called.                                  *)
LEMMA SeedPaneOutput ==
  ASSUME CorrInv, running', NEW w \in Seq(Message), wire' = w, NEW p \in Pane, NEW z \in BOOLEAN,
         seed_pane(p, z), cmds' = cmds, now' = now, tmux' = tmux, screen' = screen,
         OutputInv(w, Lines, p, z, tmux, now, screen)
  PROVE  OutputThen
  <1>1. Seeds(p, z, Lines, pane', paused', Lines')
    BY SeedPaneSeeds
  <1>2. PICK q \in Seq(Seq(Entry)) : q = Lines
    BY StateFields
  <1>3. OutputInv(w, Lines', pane', paused', tmux, now, screen)
    BY <1>1, <1>2, OutputSeeds
  <1>4. QED
    BY <1>3 DEF OutputThen

LEMMA ContinueOutput ==
  ASSUME CorrInv, OutputNow, running', continue_paused
  PROVE  OutputThen
  <1>1. wire' = wire /\ cmds' = cmds /\ tmux' = tmux /\ now' = now /\ screen' = screen
    BY DEF continue_paused, server
  <1>2. CASE paused
    <2>1. seed_pane(pane, TRUE) /\ paused = TRUE
      BY <1>2, StateFields DEF continue_paused
    <2>2. OutputInv(wire, Lines, pane, TRUE, tmux, now, screen)
      BY <2>1 DEF OutputNow
    <2>3. wire \in Seq(Message) /\ pane \in Pane
      BY StateFields
    <2>4. QED
      BY <1>1, <2>1, <2>2, <2>3, SeedPaneOutput
  <1>3. CASE ~paused
    <2>1. pane' = pane /\ paused' = paused /\ outgoing' = outgoing
      BY <1>3 DEF continue_paused
    <2>2. Lines' = Lines
      BY <1>1, <2>1 DEF Lines
    <2>3. QED
      BY <1>1, <2>1, <2>2 DEF OutputNow, OutputThen
  <1>4. QED
    BY <1>2, <1>3

-----------------------------------------------------------------------------
(* handle_message, by the type of the message.                             *)

LEMMA RouteOutput ==
  ASSUME CorrInv, OutputNow, wire # <<>>, wire' = Tail(wire), cmds' = cmds, tmux' = tmux,
         now' = now, wire[1].type = "output", route_output(wire[1])
  PROVE  OutputThen
  <1>1. PICK w \in Seq(Message) : w = wire
    BY StateFields
  <1>2. PICK m \in Message : m = w[1] /\ 1 \in 1 .. Len(w)
    BY <1>1, TailFields
  <1>3. m.chunk \in 1 .. MaxChunks /\ m.chunk <= tmux.sent /\ m.age = now - tmux.made[m.chunk]
    <2>1. TimeInv(w, pane, tmux, now)
      BY <1>1 DEF OutputNow, OutputInv
    <2>2. QED
      BY <1>1, <1>2, <2>1, MessageFields DEF TimeInv
  <1>4. PICK x \in Nat : x = tmux.made[m.chunk] /\ x <= now
    <2>1. m.chunk \in 1 .. Len(tmux.made)
      BY <1>3, StateFields, TmuxAssumption
    <2>2. tmux.made[m.chunk] \in 0 .. MaxTicks
      <3>1. \A S : \A u \in Seq(S) : \A k \in 1 .. Len(u) : u[k] \in S
        OBVIOUS
      <3>2. tmux.made \in Seq(0 .. MaxTicks)
        BY StateFields
      <3>3. QED
        BY <2>1, <3>1, <3>2
    <2>3. tmux.made[m.chunk] <= now
      BY <2>1 DEF CorrInv, TypeInv, AgeInv
    <2>4. QED
      BY <2>2, <2>3, TmuxAssumption
  <1>5. now - m.age = x
    <2>1. now \in Nat
      BY StateFields
    <2>2. QED
      BY <1>3, <1>4, <2>1
  <1>6. Late(pane, tmux, m.chunk) => ~output_precedes_capture(now - m.age, pane)
    <2>1. pane.capture_at = None \/ pane.capture_at \in Nat
      BY StateFields, TmuxAssumption DEF Pane
    <2>2. QED
      BY <1>4, <1>5, <2>1 DEF Late, output_precedes_capture
  <1>7. ~Capture(m, pane.gen) /\ ~Cursor(m, pane.gen) /\ ~Unresumed(m, pane.gen)
    BY <1>1, <1>2 DEF Capture, Cursor, Settles, Unresumed
  <1>8. paused' = paused /\ outgoing' = outgoing /\ Lines' = Lines
    BY DEF route_output, Lines
  <1>9. /\ pane'.gen = pane.gen /\ pane'.mapped = pane.mapped /\ pane'.seeded = pane.seeded
        /\ pane'.seeding = pane.seeding /\ pane'.seed = pane.seed
        /\ pane'.capture_at = pane.capture_at
        /\ screen \subseteq screen'
        /\ pane.seeded /\ Late(pane, tmux, m.chunk) => m.chunk \in screen'
    <2>1. CASE pane.seeded
      <3>1. /\ pane' = pane
            /\ screen' = IF output_precedes_capture(now - m.age, pane) THEN screen
                         ELSE screen \cup {m.chunk}
        BY <1>1, <1>2, <2>1 DEF route_output
      <3>2. QED
        BY <1>6, <3>1
    <2>2. CASE ~pane.seeded
      <3>1. PICK h, c, b : /\ pane' = [pane EXCEPT !.held = h]
                           /\ screen' = IF b THEN screen \cup {c} ELSE screen
        BY <2>2 DEF route_output
      <3>2. pane \in Pane
        BY StateFields
      <3>3. QED
        BY <2>2, <3>1, <3>2 DEF Pane
    <2>3. QED
      BY <2>1, <2>2
  <1>10. SeedInv(Tail(w), Lines, pane')
    <2>1. SeedInv(Tail(w), Lines, pane)
      BY <1>1, <1>2, <1>7, SeedTail DEF OutputNow, OutputInv
    <2>2. QED
      BY <1>9, <2>1, SeedSame
  <1>11. OutputInv(Tail(w), Lines, pane', paused, tmux, now, screen')
    <2>1. Len(tmux.made) \in Nat
      BY StateFields
    <2>2. m.type = "output" /\ OutputInv(w, Lines, pane, paused, tmux, now, screen)
      BY <1>1, <1>2 DEF OutputNow
    <2>3. QED
      BY <1>1, <1>2, <1>7, <1>9, <1>10, <2>1, <2>2, OtherReceived
  <1>12. QED
    BY <1>1, <1>8, <1>11 DEF OutputThen

LEMMA ReconcileOutput ==
  ASSUME CorrInv, OutputNow, running', wire # <<>>, wire' = Tail(wire), cmds' = cmds, tmux' = tmux,
         now' = now, screen' = screen, NEW r \in BOOLEAN, reconcile_panes(r),
         ~Capture(wire[1], pane.gen), ~Cursor(wire[1], pane.gen), ~FlowControl(wire[1]),
         ~Unresumed(wire[1], pane.gen), wire[1].type # "output"
  PROVE  OutputThen
  <1>1. PICK w \in Seq(Message) : w = wire
    BY StateFields
  <1>2. PICK v \in Seq(Message) : v = Tail(w)
    BY <1>1, TailFields
  <1>3. PICK p : p = IF ~pane.mapped THEN [pane EXCEPT !.mapped = TRUE]
                     ELSE IF r /\ pane.seeding THEN [pane EXCEPT !.reseed = TRUE]
                     ELSE IF r THEN [pane EXCEPT !.seeded = FALSE]
                     ELSE pane
    OBVIOUS
  <1>4. pane \in Pane /\ paused \in BOOLEAN /\ Len(tmux.made) \in Nat
    BY StateFields
  <1>5. \/ p.seeded /\ pane' = p /\ UNCHANGED <<paused, outgoing, running>>
        \/ seed_pane(p, paused)
    BY <1>3 DEF reconcile_panes
  <1>6. p \in Pane
    BY <1>3, <1>4 DEF Pane
  <1>7. /\ p.gen = pane.gen /\ p.capture_at = pane.capture_at /\ p.seed = pane.seed
        /\ p.seeding = pane.seeding /\ p.mapped /\ (p.seeded => pane.seeded)
        /\ pane.mapped /\ pane.seeding => p.seeded = pane.seeded
    BY <1>3, <1>4 DEF Pane
  <1>8. SeedInv(v, Lines, p)
    <2>1. SeedInv(v, Lines, pane)
      BY <1>1, <1>2, SeedTail DEF OutputNow, OutputInv
    <2>2. InFlight(v, Lines, pane) => InFlight(v, Lines, p)
      BY <1>7 DEF InFlight
    <2>3. QED
      BY <1>7, <2>1, <2>2 DEF SeedInv, Generations
  <1>9. OutputInv(v, Lines, p, paused, tmux, now, screen)
    <2>1. OutputInv(w, Lines, pane, paused, tmux, now, screen)
      BY <1>1 DEF OutputNow
    <2>2. w[1].type # "pause" /\ w[1].type # "continue" /\ w[1].type # "output"
      BY <1>1 DEF FlowControl
    <2>3. QED
      BY <1>1, <1>2, <1>4, <1>7, <1>8, <2>1, <2>2, OtherReceived
  <1>10. CASE p.seeded /\ pane' = p /\ UNCHANGED <<paused, outgoing, running>>
    <2>1. Lines' = Lines /\ pane' = p /\ paused' = paused /\ wire' = v
      BY <1>1, <1>2, <1>10 DEF Lines
    <2>2. QED
      BY <1>9, <2>1 DEF OutputThen
  <1>11. CASE seed_pane(p, paused)
    BY <1>1, <1>2, <1>4, <1>6, <1>9, <1>11, SeedPaneOutput
  <1>12. QED
    BY <1>5, <1>10, <1>11

LEMMA PauseOutput ==
  ASSUME CorrInv, OutputNow, wire # <<>>, wire' = Tail(wire), cmds' = cmds, tmux' = tmux,
         now' = now, wire[1].type = "pause", OnPause
  PROVE  OutputThen
  <1>1. PICK w \in Seq(Message) : w = wire
    BY StateFields
  <1>2. PICK v \in Seq(Message) : v = Tail(w)
    BY <1>1, TailFields
  <1>3. paused' = TRUE /\ screen' = screen /\ Lines' = Lines
    BY DEF OnPause, Lines
  <1>4. OutputInv(w, Lines, pane, paused, tmux, now, screen) /\ w[1].type = "pause"
    BY <1>1 DEF OutputNow
  <1>5. pane \in Pane /\ pane.gen \in Nat /\ Len(tmux.made) \in Nat
    BY StateFields
  <1>6. CASE paused \/ ~pane.mapped
    <2>1. pane' = pane
      BY <1>6 DEF OnPause, invalidate_seed
    <2>2. OutputInv(Tail(w), Lines, pane, TRUE, tmux, now, screen)
      BY <1>1, <1>4, <1>5, PauseRepeated
    <2>3. QED
      BY <1>1, <1>3, <2>1, <2>2 DEF OutputThen
  <1>7. CASE ~paused /\ pane.mapped
    <2>1. pane' = [pane EXCEPT !.gen = pane.gen + 1, !.seeded = FALSE, !.seeding = FALSE, !.reseed = FALSE,
                               !.seed = None, !.capture_at = None, !.held = <<>>]
      BY <1>7 DEF OnPause, invalidate_seed
    <2>2. /\ pane'.gen = pane.gen + 1 /\ pane'.mapped /\ ~pane'.seeded /\ ~pane'.seeding
          /\ pane'.seed = None /\ pane'.capture_at = None
      BY <1>5, <1>7, <2>1 DEF Pane
    <2>3. Generations(v, Lines, pane)
      <3>1. ~Capture(w[1], pane.gen) /\ ~Cursor(w[1], pane.gen)
        BY <1>4 DEF Capture, Cursor, Settles
      <3>2. SeedInv(v, Lines, pane)
        BY <1>1, <1>2, <1>4, <3>1, SeedTail DEF OutputInv
      <3>3. QED
        BY <3>2 DEF SeedInv
    <2>4. SeedInv(v, Lines, pane') /\ NoReply(v, pane'.gen)
      <3>1. \A i \in 1 .. Len(Lines) : Lines[i][1].gen \in Nat
        BY StateFields
      <3>2. QED
        BY <1>5, <1>7, <2>2, <2>3, <3>1, SeedInvalid
    <2>5. OutputInv(Tail(w), Lines, pane', TRUE, tmux, now, screen)
      BY <1>1, <1>2, <1>4, <2>2, <2>4, PauseReceived
    <2>6. QED
      BY <1>1, <1>3, <2>5 DEF OutputThen
  <1>8. QED
    BY <1>6, <1>7

LEMMA ResumeOutput ==
  ASSUME CorrInv, OutputNow, running', wire # <<>>, wire' = Tail(wire), cmds' = cmds, tmux' = tmux,
         now' = now, wire[1].type = "continue", OnContinue
  PROVE  OutputThen
  <1>1. PICK w \in Seq(Message) : w = wire
    BY StateFields
  <1>2. PICK v \in Seq(Message) : v = Tail(w)
    BY <1>1, TailFields
  <1>3. OutputInv(w, Lines, pane, paused, tmux, now, screen) /\ w[1].type = "continue"
    BY <1>1 DEF OutputNow
  <1>4. pane \in Pane /\ Len(tmux.made) \in Nat /\ paused \in BOOLEAN
    BY StateFields
  <1>5. ~Capture(w[1], pane.gen) /\ ~Cursor(w[1], pane.gen)
    BY <1>3 DEF Capture, Cursor, Settles
  <1>6. SeedInv(v, Lines, pane)
    BY <1>1, <1>2, <1>3, <1>5, SeedTail DEF OutputInv
  <1>7. FlowControl(w[1]) /\ w[1].type # "pause" /\ w[1].type # "output"
    BY <1>3 DEF FlowControl
  <1>8. screen' = screen
    BY DEF OnContinue
  <1>9. CASE ~paused
    <2>1. ~pane.seeded
      <3>1. 1 \in 1 .. Len(w) /\ 1 - 1 = 0 /\ ~\E j \in 1 .. 0 : TRUE
        BY <1>1, TailFields
      <3>2. \/ \E j \in 1 .. (1 - 1) : /\ w[j].type = "pause"
                                       /\ \A h \in j .. (1 - 1) : w[h].type # "continue"
            \/ NoFlow(w, 1 - 1) /\ (paused \/ Retried(w, 1 - 1, pane) \/ Unseen(w, 1 - 1, pane))
        BY <1>3, <3>1 DEF OutputInv, ContinueInv
      <3>3. ~Retried(w, 0, pane)
        BY <3>1 DEF Retried
      <3>4. Unseen(w, 0, pane)
        BY <1>9, <3>1, <3>2, <3>3
      <3>5. QED
        BY <3>4 DEF Unseen
    <2>2. pane' = pane /\ paused' = paused /\ Lines' = Lines
      BY <1>9 DEF OnContinue, Lines
    <2>3. OutputInv(v, Lines, pane, paused, tmux, now, screen)
      BY <1>1, <1>2, <1>3, <1>4, <1>5, <1>6, <1>7, <2>1, OtherReceived
    <2>4. QED
      BY <1>1, <1>2, <1>8, <2>2, <2>3 DEF OutputThen
  <1>10. CASE paused
    <2>1. PICK p : p = [pane EXCEPT !.seeded = FALSE]
      OBVIOUS
    <2>2. /\ p \in Pane /\ p.gen = pane.gen /\ p.capture_at = pane.capture_at /\ p.seed = pane.seed
          /\ p.seeding = pane.seeding /\ p.mapped = pane.mapped /\ ~p.seeded
      BY <1>4, <2>1 DEF Pane
    <2>3. SeedInv(v, Lines, p)
      <3>1. InFlight(v, Lines, pane) => InFlight(v, Lines, p)
        BY <2>2 DEF InFlight
      <3>2. QED
        BY <1>6, <2>2, <3>1 DEF SeedInv, Generations
    <2>4. OutputInv(v, Lines, p, FALSE, tmux, now, screen)
      BY <1>1, <1>2, <1>3, <1>4, <1>5, <1>7, <2>2, <2>3, OtherReceived
    <2>5. seed_pane(p, FALSE)
      <3>1. seed_pane(pane, FALSE)
        BY <1>10 DEF OnContinue
      <3>2. ~pane.mapped \/ pane.seeding => p = pane
        <4>1. ~pane.mapped \/ pane.seeding => ~pane.seeded
          BY <1>6 DEF SeedInv
        <4>2. ~pane.seeded => pane = [pane EXCEPT !.seeded = FALSE]
          BY <1>4 DEF Pane
        <4>3. QED
          BY <2>1, <4>1, <4>2
      <3>3. [p EXCEPT !.seeding = TRUE, !.seeded = FALSE, !.seed = None, !.barrier = FALSE]
              = [pane EXCEPT !.seeding = TRUE, !.seeded = FALSE, !.seed = None, !.barrier = FALSE]
        BY <1>4, <2>1 DEF Pane
      <3>4. QED
        BY <2>2, <3>1, <3>2, <3>3 DEF seed_pane
    <2>6. QED
      BY <1>1, <1>2, <1>8, <2>2, <2>4, <2>5, SeedPaneOutput
  <1>11. QED
    BY <1>9, <1>10

(* Replies.  Which of them a reply is follows from the entry it settles.   *)
LEMMA EntrySeed ==
  ASSUME NEW e \in Entry, e.kind \in SeedKinds
  PROVE  e = Seed(e.kind, e.gen) /\ e.gen \in Nat
  BY DEF Entry, Seed, SeedKinds

(* The parts that one failure skips are of one seed.                       *)
LEMMA SkippedParts ==
  ASSUME NEW m, NEW a, a = m.answers, Shaped(m), NEW g, Unresumed(m, g)
  PROVE  a[1].gen = g /\ Len(a) \in Nat /\ Len(a) >= 1 /\ a[Len(a)].kind = "continue"
  <1>1. ~m.ok /\ a # <<>> /\ a[Len(a)] = Seed("continue", g)
    BY DEF Unresumed
  <1>2. \A k, x : Seed(k, x).kind = k /\ Seed(k, x).gen = x
    BY DEF Seed
  <1>3. PICK h \in Nat : a \in {SeedLine(h, TRUE), SeedLine(h, FALSE),
                                <<Seed("cursor", h), Seed("continue", h)>>,
                                <<Seed("cursor", h)>>, <<Seed("continue", h)>>}
    BY <1>1 DEF Shaped
  <1>4. a[1].gen = h /\ a[Len(a)].gen = h /\ Len(a) \in Nat /\ Len(a) >= 1
    <2>1. CASE a = SeedLine(h, TRUE)
      <3>1. a = <<Seed("capture", h), Seed("cursor", h), Seed("continue", h)>>
        BY <2>1 DEF SeedLine
      <3>2. Len(a) = 3 /\ a[1] = Seed("capture", h) /\ a[3] = Seed("continue", h)
        BY <3>1
      <3>3. QED
        BY <1>2, <3>2
    <2>2. CASE a = SeedLine(h, FALSE)
      <3>1. a = <<Seed("capture", h), Seed("cursor", h)>>
        BY <2>2 DEF SeedLine
      <3>2. Len(a) = 2 /\ a[1] = Seed("capture", h) /\ a[2] = Seed("cursor", h)
        BY <3>1
      <3>3. QED
        BY <1>2, <3>2
    <2>3. CASE a = <<Seed("cursor", h), Seed("continue", h)>>
      <3>1. Len(a) = 2 /\ a[1] = Seed("cursor", h) /\ a[2] = Seed("continue", h)
        BY <2>3
      <3>2. QED
        BY <1>2, <3>1
    <2>4. CASE a = <<Seed("cursor", h)>> \/ a = <<Seed("continue", h)>>
      <3>1. Len(a) = 1 /\ (a[1] = Seed("cursor", h) \/ a[1] = Seed("continue", h))
        BY <2>4
      <3>2. QED
        BY <1>2, <3>1
    <2>5. QED
      BY <1>3, <2>1, <2>2, <2>3, <2>4
  <1>5. QED
    BY <1>1, <1>2, <1>4

LEMMA ReplyCases ==
  ASSUME NEW e, NEW m, OnReply(e, m), NEW z, z = (paused \/ LeftPaused(e, m.ok))
  PROVE  \/ e.kind = "capture" /\ m.ok /\ Current(e) /\ OnCapture(m.shown)
         \/ /\ e.kind \in {"capture", "cursor"} /\ ~(e.kind = "capture" /\ m.ok)
            /\ Current(e) /\ OnCursor(z)
         \/ e.kind = "windows" /\ m.ok /\ reconcile_panes(FALSE) /\ screen' = screen
         \/ /\ ~(e.kind \in {"capture", "cursor"} /\ Current(e))
            /\ paused' = z /\ pane' = pane /\ outgoing' = outgoing /\ screen' = screen
  BY DEF OnReply

LEMMA CursorOutput ==
  ASSUME CorrInv, OutputNow, running', wire # <<>>, wire' = Tail(wire), cmds' = cmds, tmux' = tmux,
         now' = now, NEW z \in BOOLEAN, OnCursor(z),
         Cursor(wire[1], pane.gen) \/ (Capture(wire[1], pane.gen) /\ ~wire[1].ok),
         paused \/ (pane.mapped /\ Unresumed(wire[1], pane.gen)) => z
  PROVE  OutputThen
  <1>1. PICK w \in Seq(Message) : w = wire
    BY StateFields
  <1>2. PICK v \in Seq(Message) : v = Tail(w)
    BY <1>1, TailFields
  <1>3. OutputInv(w, Lines, pane, paused, tmux, now, screen)
    BY <1>1 DEF OutputNow
  <1>4. pane \in Pane /\ Len(tmux.made) \in Nat /\ (pane.seed # None => pane.seed \in Nat)
    BY StateFields, TmuxAssumption DEF Pane
  <1>5. ~pane.seeded
    BY <1>1, <1>3, LastReply DEF OutputInv
  <1>6. CASE pane.reseed
    <2>1. PICK p : p = [pane EXCEPT !.seeding = FALSE, !.reseed = FALSE, !.seed = None]
      OBVIOUS
    <2>2. seed_pane(p, z) /\ screen' = screen
      BY <1>6, <2>1 DEF OnCursor
    <2>3. /\ p \in Pane /\ p.gen = pane.gen /\ p.mapped = pane.mapped /\ ~p.seeding /\ p.seed = None
          /\ p.capture_at = pane.capture_at /\ ~p.seeded
      BY <1>4, <1>5, <2>1 DEF Pane
    <2>4. OutputInv(v, Lines, p, z, tmux, now, screen)
      BY <1>1, <1>2, <1>3, <1>4, <2>3, CursorReceived
    <2>5. QED
      BY <1>1, <1>2, <2>2, <2>3, <2>4, SeedPaneOutput
  <1>7. CASE ~pane.reseed
    <2>1. PICK b \in BOOLEAN : b = (pane.seed # None)
      OBVIOUS
    <2>2. /\ pane' = [pane EXCEPT !.seeding = FALSE, !.seeded = b, !.seed = None, !.held = <<>>]
          /\ screen' = (IF pane.seed = None THEN screen ELSE 1 .. pane.seed) \cup Replayed(pane)
          /\ paused' = z /\ outgoing' = outgoing
      BY <1>7, <2>1 DEF OnCursor
    <2>3. /\ pane'.gen = pane.gen /\ pane'.mapped = pane.mapped /\ ~pane'.seeding
          /\ pane'.seed = None /\ pane'.capture_at = pane.capture_at
          /\ pane'.seeded => pane.seed # None
      BY <1>4, <2>1, <2>2 DEF Pane
    <2>4. pane'.seeded => 1 .. pane.seed \subseteq screen'
      BY <2>2, <2>3
    <2>5. OutputInv(v, Lines, pane', z, tmux, now, screen')
      BY <1>1, <1>2, <1>3, <1>4, <2>3, <2>4, CursorReceived
    <2>6. Lines' = Lines
      BY <2>2 DEF Lines
    <2>7. QED
      BY <1>1, <1>2, <2>2, <2>5, <2>6 DEF OutputThen
  <1>8. QED
    BY <1>6, <1>7

LEMMA CaptureOutput ==
  ASSUME CorrInv, OutputNow, wire # <<>>, wire' = Tail(wire), cmds' = cmds, tmux' = tmux,
         now' = now, OnCapture(wire[1].shown), Capture(wire[1], pane.gen), wire[1].ok
  PROVE  OutputThen
  <1>1. PICK w \in Seq(Message) : w = wire
    BY StateFields
  <1>2. OutputInv(w, Lines, pane, paused, tmux, now, screen)
    BY <1>1 DEF OutputNow
  <1>3. PICK c \in Nat : c = w[1].shown /\ c # None
    <2>1. w[1] \in Message
      BY <1>1, TailFields
    <2>2. w[1].shown \in 0 .. MaxChunks
      BY <1>1, <2>1, CaptureFields
    <2>3. QED
      BY <2>2, TmuxAssumption DEF None
  <1>4. PICK d : d = (IF pane.barrier THEN None ELSE now)
    OBVIOUS
  <1>5. /\ pane' = [pane EXCEPT !.seed = c, !.capture_at = d]
        /\ paused' = paused /\ screen' = screen /\ Lines' = Lines
    BY <1>1, <1>3, <1>4 DEF OnCapture, Lines
  <1>6. pane \in Pane /\ tmux.made \in Seq(0 .. MaxTicks) /\ now \in Nat
    BY StateFields
  <1>7. /\ pane'.gen = pane.gen /\ pane'.mapped = pane.mapped /\ pane'.seeded = pane.seeded
        /\ pane'.seeding = pane.seeding /\ pane'.seed = c /\ pane'.capture_at \in {None, now}
    BY <1>4, <1>5, <1>6 DEF Pane
  <1>8. OutputInv(Tail(w), Lines, pane', paused, tmux, now, screen)
    BY <1>1, <1>2, <1>3, <1>6, <1>7, CaptureReceived
  <1>9. QED
    BY <1>1, <1>5, <1>8 DEF OutputThen

LEMMA BlockOutput ==
  ASSUME CorrInv, OutputNow, running', wire # <<>>, wire' = Tail(wire), cmds' = cmds, tmux' = tmux,
         now' = now, wire[1].type = "block", OnBlock(wire[1])
  PROVE  OutputThen
  <1>1. PICK w \in Seq(Message), c \in Seq(Seq(Entry)) :
           /\ w = wire /\ c = cmds /\ pending = Owed(w) \o FlattenSeq(c) /\ Blocks(w)
           /\ \A i \in 1 .. Len(c) : IsLine(c[i])
    BY CorrState
  <1>2. PICK a \in Seq(Entry), R \in Seq(Entry) :
          /\ a = w[1].answers /\ pending = a \o R /\ Shaped(w[1])
          /\ a = <<>> => UNCHANGED client
          /\ a # <<>> => /\ OnReply(pending[1], w[1]) /\ pending[1] = a[1]
                         /\ Settled(pending[1], w[1].ok) = Len(a)
    BY <1>1, BlockHead
  <1>3. PICK m \in Message : m = w[1] /\ 1 \in 1 .. Len(w)
    BY <1>1, TailFields
  <1>4. m.type = "block" /\ Settles(m) = a /\ m.ok \in BOOLEAN
    BY <1>1, <1>2, <1>3, MessageFields DEF Settles
  <1>5. /\ OutputInv(w, Lines, pane, paused, tmux, now, screen)
        /\ Len(tmux.made) \in Nat /\ paused \in BOOLEAN
    BY <1>1, StateFields DEF OutputNow
  <1>6. ASSUME NEW z \in BOOLEAN, ~Capture(m, pane.gen), ~Cursor(m, pane.gen),
               paused \/ (pane.mapped /\ Unresumed(m, pane.gen)) => z,
               pane' = pane, paused' = z, outgoing' = outgoing, screen' = screen
        PROVE  OutputThen
    <2>1. SeedInv(Tail(w), Lines, pane)
      BY <1>1, <1>3, <1>5, <1>6, SeedTail DEF OutputInv
    <2>2. OutputInv(Tail(w), Lines, pane, z, tmux, now, screen)
      <3>1. m.type # "pause" /\ m.type # "continue" /\ m.type # "output"
        BY <1>4
      <3>2. QED
        BY <1>1, <1>3, <1>5, <1>6, <2>1, <3>1, OtherReceived
    <2>3. Lines' = Lines
      BY <1>6 DEF Lines
    <2>4. QED
      BY <1>1, <1>6, <2>2, <2>3 DEF OutputThen
  <1>7. CASE a = <<>>
    <2>1. pane' = pane /\ paused' = paused /\ outgoing' = outgoing /\ screen' = screen
      BY <1>2, <1>7 DEF client
    <2>2. ~Capture(m, pane.gen) /\ ~Cursor(m, pane.gen) /\ ~Unresumed(m, pane.gen)
      BY <1>2, <1>3, <1>4, <1>7 DEF Capture, Cursor, Unresumed
    <2>3. QED
      BY <1>5, <1>6, <2>1, <2>2
  <1>8. CASE a # <<>>
    <2>1. PICK e \in Entry : e = a[1] /\ e = pending[1]
      BY <1>2, <1>8
    <2>2. OnReply(e, m) /\ Settled(e, m.ok) = Len(a)
      BY <1>2, <1>3, <1>8, <2>1
    <2>3. PICK z \in BOOLEAN : z = (paused \/ LeftPaused(e, m.ok))
      OBVIOUS
    <2>4. /\ Capture(m, pane.gen) <=> e = Seed("capture", pane.gen)
          /\ Cursor(m, pane.gen) <=> e = Seed("cursor", pane.gen)
      BY <1>4, <1>8, <2>1 DEF Capture, Cursor
    <2>5. Capture(m, pane.gen) \/ Cursor(m, pane.gen) =>
            e.kind \in {"capture", "cursor"} /\ Current(e)
      <3>1. \A k : Seed(k, pane.gen).kind = k /\ Seed(k, pane.gen).gen = pane.gen
        BY DEF Seed
      <3>2. Capture(m, pane.gen) \/ Cursor(m, pane.gen) => pane.mapped
        BY <1>1, <1>3, <1>5, SeedHead DEF OutputInv
      <3>3. QED
        BY <2>4, <3>1, <3>2 DEF Current
    <2>6. e.kind \in {"capture", "cursor"} /\ Current(e) => e = Seed(e.kind, pane.gen)
      BY EntrySeed DEF Current, SeedKinds
    <2>7. paused \/ (pane.mapped /\ Unresumed(m, pane.gen)) => z
      <3> SUFFICES ASSUME pane.mapped, Unresumed(m, pane.gen) PROVE LeftPaused(e, m.ok)
        BY <2>3
      <3>1. a[1].gen = pane.gen /\ Len(a) \in Nat /\ Len(a) >= 1 /\ a[Len(a)].kind = "continue"
        <4>1. a = m.answers /\ Shaped(m)
          BY <1>2, <1>3
        <4>2. QED
          BY ONLY <4>1, Unresumed(m, pane.gen), SkippedParts
      <3>2. Current(e) /\ ~m.ok
        BY <2>1, <3>1 DEF Current, Unresumed
      <3>3. pending[Len(a)] = a[Len(a)] /\ Len(a) \in 1 .. Len(a)
        <4>1. Len(a) \in 1 .. Len(a)
          BY <3>1
        <4>2. QED
          BY <1>2, <4>1, ConcatFields
      <3>4. QED
        BY <2>2, <3>1, <3>2, <3>3 DEF LeftPaused
    <2>8. CASE e.kind = "capture" /\ m.ok /\ Current(e) /\ OnCapture(m.shown)
      <3>1. Capture(m, pane.gen)
        BY <2>4, <2>6, <2>8
      <3>2. QED
        BY <1>1, <1>3, <2>8, <3>1, CaptureOutput
    <2>9. CASE /\ e.kind \in {"capture", "cursor"} /\ ~(e.kind = "capture" /\ m.ok)
               /\ Current(e) /\ OnCursor(z)
      <3>1. Cursor(m, pane.gen) \/ (Capture(m, pane.gen) /\ ~m.ok)
        BY <2>4, <2>6, <2>9
      <3>2. QED
        BY <1>1, <1>3, <2>7, <2>9, <3>1, CursorOutput
    <2>10. CASE e.kind = "windows" /\ m.ok /\ reconcile_panes(FALSE) /\ screen' = screen
      <3>1. ~Capture(m, pane.gen) /\ ~Cursor(m, pane.gen) /\ ~Unresumed(m, pane.gen)
        BY <2>5, <2>10 DEF Unresumed
      <3>2. ~FlowControl(m) /\ m.type # "output"
        BY <1>4 DEF FlowControl
      <3>3. QED
        BY <1>1, <1>3, <2>10, <3>1, <3>2, ReconcileOutput
    <2>11. CASE /\ ~(e.kind \in {"capture", "cursor"} /\ Current(e))
                /\ paused' = z /\ pane' = pane /\ outgoing' = outgoing /\ screen' = screen
      BY <1>6, <2>5, <2>7, <2>11
    <2>12. QED
      BY <2>2, <2>3, <2>8, <2>9, <2>10, <2>11, ReplyCases
  <1>9. QED
    BY <1>7, <1>8

LEMMA HandleOutput ==
  ASSUME CorrInv, OutputNow, running', handle_message
  PROVE  OutputThen
  <1>1. wire # <<>> /\ wire' = Tail(wire) /\ cmds' = cmds /\ tmux' = tmux /\ now' = now
    BY DEF handle_message, server
  <1>2. Head(wire) = wire[1]
    OBVIOUS
  <1>3. PICK m : m = wire[1] /\ m = Head(wire)
    BY <1>2
  <1>4. CASE m.type = "output" /\ route_output(m)
    BY <1>1, <1>3, <1>4, RouteOutput
  <1>5. CASE m.type = "layout" /\ reconcile_panes(TRUE) /\ UNCHANGED <<timer, pending, screen>>
    <2>1. ~Capture(m, pane.gen) /\ ~Cursor(m, pane.gen) /\ ~FlowControl(m) /\ ~Unresumed(m, pane.gen)
      BY <1>5 DEF Capture, Cursor, Settles, FlowControl, Unresumed
    <2>2. m.type # "output" /\ reconcile_panes(TRUE) /\ screen' = screen
      BY <1>5
    <2>3. QED
      BY <1>1, <1>3, <2>1, <2>2, ReconcileOutput
  <1>6. CASE m.type = "pause" /\ OnPause
    BY <1>1, <1>3, <1>6, PauseOutput
  <1>7. CASE m.type = "continue" /\ OnContinue
    BY <1>1, <1>3, <1>7, ResumeOutput
  <1>8. CASE m.type = "block" /\ OnBlock(m)
    BY <1>1, <1>3, <1>8, BlockOutput
  <1>9. QED
    BY <1>3, <1>4, <1>5, <1>6, <1>7, <1>8 DEF handle_message

-----------------------------------------------------------------------------
(* The theorem.                                                            *)

LEMMA InitPane ==
  ASSUME Init
  PROVE  PaneInv
  <1>1. CorrInv
    BY InitCorr
  <1>2. /\ wire = <<>> /\ pane = Unmapped /\ ~paused /\ ~tmux.paused /\ Len(tmux.made) = 0
        /\ cmds = <<>> /\ outgoing = <<<<Windows>>>>
    BY DEF Init
  <1>3. /\ pane.gen = 0 /\ ~pane.mapped /\ ~pane.seeded /\ ~pane.seeding /\ pane.seed = None
        /\ pane.capture_at = None
    BY <1>2 DEF Unmapped
  <1>4. Lines = <<<<Windows>>>> /\ Len(Lines) = 1 /\ Lines[1][1] = Windows
    <2>1. Lines = outgoing
      BY <1>1, <1>2, StateFields, ConcatEmptySeq DEF Lines
    <2>2. Len(<<<<Windows>>>>) = 1 /\ <<<<Windows>>>>[1] = <<Windows>> /\ <<Windows>>[1] = Windows
      OBVIOUS
    <2>3. QED
      BY <1>2, <2>1, <2>2
  <1>5. Len(wire) = 0 /\ \A i \in 1 .. 0 : FALSE
    BY <1>2
  <1>6. NoReply(wire, pane.gen)
    BY <1>5 DEF NoReply
  <1>7. SeedInv(wire, Lines, pane)
    <2>1. \A i \in 1 .. Len(Lines) : Lines[i][1] = Windows
      BY <1>4
    <2>2. Windows.gen = 0 /\ Windows.kind # "capture" /\ 0 <= 0
      BY DEF Windows
    <2>3. Generations(wire, Lines, pane)
      BY <1>3, <1>5, <2>1, <2>2 DEF Generations, IsSeed
    <2>4. NoOpen(Lines, pane.gen)
      BY <2>1, SeedKindsDiffer DEF NoOpen, Opens
    <2>5. QED
      BY <1>3, <1>6, <2>3, <2>4 DEF SeedInv
  <1>8. ContinueInv(wire, pane, paused) /\ TimeInv(wire, pane, tmux, now)
    BY <1>3, <1>5 DEF ContinueInv, TimeInv
  <1>9. ShownInv(wire, pane, tmux, now, screen)
    BY <1>3, <1>6, ShownNone
  <1>10. QED
    BY <1>1, <1>2, <1>7, <1>8, <1>9 DEF PaneInv, OutputInv

LEMMA NextPane ==
  ASSUME ~Lag, PaneInv, [Next]_vars
  PROVE  PaneInv'
  <1>1. CorrInv /\ CorrInv'
    BY NextCorr DEF PaneInv
  <1>2. (OutputInv(wire, Lines, pane, paused, tmux, now, screen))' <=> OutputThen
    BY DEF OutputThen
  <1>3. SUFFICES ASSUME running' PROVE OutputThen
    BY <1>1, <1>2 DEF PaneInv
  <1>4. CASE UNCHANGED vars
    <2>1. running
      BY <1>3, <1>4 DEF vars, client
    <2>2. OutputNow
      BY <2>1 DEF PaneInv, OutputNow
    <2>3. /\ wire' = wire /\ pane' = pane /\ paused' = paused /\ tmux' = tmux /\ now' = now
          /\ screen' = screen /\ Lines' = Lines
      BY <1>4 DEF vars, client, server, Lines
    <2>4. QED
      BY <2>2, <2>3 DEF OutputNow, OutputThen
  <1>5. CASE Next
    <2>1. running /\ OutputNow
      BY <1>5 DEF Next, PaneInv, OutputNow
    <2>2. CASE Tick \/ Produce
      BY <1>1, <2>1, <2>2, ClockOutput
    <2>3. CASE SendOutput \/ PausePane \/ ResumePane \/ ChangeLayout
      BY <1>1, <2>1, <2>3, NotifyOutput
    <2>4. CASE Execute
      BY <1>1, <2>1, <2>4, ExecuteOutput
    <2>5. CASE start_send
      BY <1>1, <2>1, <2>5, SendOutputs
    <2>6. CASE refresh_windows \/ queue_user_command
      BY <1>1, <1>3, <2>1, <2>6, PlainOutput
    <2>7. CASE continue_paused
      BY <1>1, <1>3, <2>1, <2>7, ContinueOutput
    <2>8. CASE handle_message
      BY <1>1, <1>3, <2>1, <2>8, HandleOutput
    <2>9. QED
      BY <1>5, <2>2, <2>3, <2>4, <2>5, <2>6, <2>7, <2>8 DEF Next
  <1>6. QED
    BY <1>4, <1>5

LEMMA PaneInvariant == ~Lag => (Spec => []PaneInv)
  <1> SUFFICES ASSUME ~Lag PROVE Spec => []PaneInv
    OBVIOUS
  <1>1. Init => PaneInv
    BY InitPane
  <1>2. PaneInv /\ [Next]_vars => PaneInv'
    BY NextPane
  <1>3. QED
    BY <1>1, <1>2, PTL DEF Spec

LEMMA PaneImplies ==
  ASSUME PaneInv
  PROVE  NothingLost
  <1> SUFFICES ASSUME running, pane.seeded, ~FlowControlOnTheWay, NEW k \in 1 .. Len(tmux.made)
               PROVE  k \in screen \/ OnTheWay(k)
    BY DEF NothingLost
  <1>1. DOMAIN wire = 1 .. Len(wire)
    <2>1. wire \in Seq(Message)
      BY StateFields DEF PaneInv
    <2>2. QED
      BY <2>1
  <1>2. NoContinueFrom(wire, 1)
    BY <1>1 DEF FlowControlOnTheWay, NoContinueFrom
  <1>3. k \in screen \/ Coming(wire, tmux, k)
    BY <1>2 DEF PaneInv, OutputInv, ShownInv, ScreenInv
  <1>4. QED
    BY <1>1, <1>3 DEF Coming, OnTheWay

(* A painted pane shows everything it produced, except what is on its way  *)
(* and what the client is about to learn was discarded: the capture, the   *)
(* output kept in the meantime, the comparison of its age with the instant *)
(* of the capture, the pauses and the retries after a failed part lose     *)
(* nothing between them, whichever way they interleave.  The assumption is *)
(* that a message is handled within the tick in which it was sent; without *)
(* it output can be lost (the run tmux_lag).                               *)
THEOREM NothingIsLost == ~Lag => (Spec => []NothingLost)
  <1>1. PaneInv => NothingLost
    BY PaneImplies
  <1>2. QED
    BY <1>1, PaneInvariant, PTL

=============================================================================
