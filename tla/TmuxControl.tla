----------------------------- MODULE TmuxControl -----------------------------
(***************************************************************************)
(* A tmux control-mode attachment (transport/src/tmux/session.rs): one     *)
(* remote pane projected as a virtual session.  Commands and replies are   *)
(* pipelined over one channel, replies are matched with commands by their  *)
(* order.  A pane is painted from a capture of its screen (the seed) and   *)
(* then from its output notifications.  When the server pauses a pane, it  *)
(* discards output, and the pane is captured again and resumed in one      *)
(* compound command.                                                       *)
(*                                                                         *)
(* The pane's output is a sequence of chunks, and a screen is the set of   *)
(* chunks it shows.  The server is external: a command line runs to its    *)
(* end, or to its first error, without other work in between, and a        *)
(* notification never splits a reply.                                      *)
(***************************************************************************)
EXTENDS Naturals, Sequences, SequencesExt, FiniteSets, FiniteSetsExt

CONSTANTS
  MAX_PENDING_RESPONSES,   \* replies the client waits for at most
  MAX_QUEUED_COMMANDS,     \* command lines it queues at most
  PENDING_PANE_OUTPUT_MAX, \* chunks it keeps while a pane is not painted
  Failing,                 \* commands of a seed that may fail
  Lag,                     \* may time pass before a message is handled?
  MaxChunks,               \* bound: chunks the pane produces
  MaxEvents,               \* bound: pauses, resumptions, layouts, failures, user commands
  MaxTicks                 \* bound: how far the clock goes

ASSUME TmuxAssumption ==
  /\ MAX_PENDING_RESPONSES \in Nat /\ MAX_PENDING_RESPONSES >= 3
  /\ MAX_QUEUED_COMMANDS \in Nat \ {0} /\ PENDING_PANE_OUTPUT_MAX \in Nat \ {0}
  /\ Failing \subseteq {"capture", "cursor", "continue"} /\ Lag \in BOOLEAN
  /\ MaxChunks \in Nat /\ MaxEvents \in Nat /\ MaxTicks \in Nat

VARIABLES
  now,        \* a clock; instants within one tick are not told apart
  tmux,       \* the server: output made (when), sent, the pane paused or not
  cmds,       \* command lines on their way to the server
  wire,       \* replies and notifications on their way to the client
  pane,       \* VirtualPane, and the output kept before it is mapped
  paused,     \* the pane is in paused_panes
  timer,      \* continue_deadline is set
  outgoing,   \* command lines that were not sent yet
  pending,    \* pending_responses
  screen,     \* the chunks that the local terminal shows
  running,    \* the control loop runs
  events      \* how much of what is bounded has happened

server == <<tmux, events>>
client == <<pane, paused, timer, outgoing, pending, screen, running>>
vars   == <<now, server, cmds, wire, client>>

None == MaxChunks + MaxTicks + 1   \* an absent seed or instant

Entry == [kind : {"capture", "cursor", "continue"}, gen : Nat]
           \cup [kind : {"windows", "user"}, gen : {0}]
Windows == [kind |-> "windows", gen |-> 0]
User    == [kind |-> "user", gen |-> 0]
Seed(kind, g) == [kind |-> kind, gen |-> g]

Unmapped == [mapped |-> FALSE, seeded |-> FALSE, seeding |-> FALSE,
             reseed |-> FALSE, barrier |-> FALSE, gen |-> 0,
             seed |-> None, capture_at |-> None, held |-> <<>>]

Init ==
  /\ now = 0
  /\ tmux = [made |-> <<>>, sent |-> 0, paused |-> FALSE]
  /\ cmds = <<>> /\ wire = <<>>
  /\ pane = Unmapped
  /\ paused = FALSE /\ timer = FALSE
  /\ outgoing = <<<<Windows>>>> /\ pending = <<>>
  /\ screen = {}
  /\ running = TRUE
  /\ events = 0

-----------------------------------------------------------------------------
(* The server.                                                             *)

Notify(m) == wire' = Append(wire, m)

Event == events < MaxEvents /\ events' = events + 1

Tick ==
  /\ now < MaxTicks /\ (Lag \/ wire = <<>>)
  /\ now' = now + 1
  /\ UNCHANGED <<server, cmds, wire, client>>

Produce ==
  /\ Len(tmux.made) < MaxChunks
  /\ tmux' = [tmux EXCEPT !.made = Append(@, now)]
  /\ UNCHANGED <<now, cmds, wire, client, events>>

\* %extended-output with the age of the chunk.
SendOutput ==
  /\ ~tmux.paused /\ tmux.sent < Len(tmux.made)
  /\ LET k == tmux.sent + 1 IN
       /\ tmux' = [tmux EXCEPT !.sent = k]
       /\ Notify([type |-> "output", chunk |-> k, age |-> now - tmux.made[k]])
  /\ UNCHANGED <<now, cmds, client, events>>

\* A chunk waited too long (pause-after).
PausePane ==
  /\ ~tmux.paused /\ tmux.sent < Len(tmux.made)
  /\ tmux' = [tmux EXCEPT !.paused = TRUE]
  /\ Event
  /\ Notify([type |-> "pause"])
  /\ UNCHANGED <<now, cmds, client>>

\* Resuming continues with what the pane produces next.
Resumed == [tmux EXCEPT !.paused = FALSE, !.sent = Len(tmux.made)]

\* The pane is resumed by someone else.
ResumePane ==
  /\ tmux.paused
  /\ tmux' = Resumed
  /\ Event
  /\ Notify([type |-> "continue"])
  /\ UNCHANGED <<now, cmds, client>>

\* The pane's size changes (also because the local renderer asked for it); the
\* first layout shows that the pane exists.
ChangeLayout ==
  /\ Event
  /\ Notify([type |-> "layout"])
  /\ UNCHANGED <<now, tmux, cmds, client>>

\* One reply block.  `answers` are the entries of pending_responses that the
\* reply settles (known to the server only): its own command's, and those of
\* the commands that are skipped when it fails.
Block(ok, barrier, shown, answers) ==
  [type |-> "block", ok |-> ok, barrier |-> barrier, shown |-> shown, answers |-> answers]

\* The replies to a compound command whose f-th part fails (0: none does).
Replies(line, f) ==
  [i \in 1 .. (IF f = 0 THEN Len(line) ELSE f) |->
     Block(i # f, FALSE, IF line[i].kind = "capture" THEN Len(tmux.made) ELSE 0,
           IF i = f THEN SubSeq(line, i, Len(line)) ELSE <<line[i]>>)]

\* A free-form command produces any number of replies, here up to one, and
\* the queued barrier produces its own.
UserReplies ==
  {<<Block(TRUE, TRUE, 0, <<User>>)>>}
    \cup {<<Block(ok, FALSE, 0, <<>>), Block(TRUE, TRUE, 0, <<User>>)>> : ok \in BOOLEAN}

Execute ==
  /\ cmds # <<>> /\ cmds' = Tail(cmds)
  /\ LET line == Head(cmds) IN
     \/ /\ line = <<User>>
        /\ \E r \in UserReplies : wire' = wire \o r
        /\ UNCHANGED <<tmux, events>>
     \/ /\ line # <<User>>
        /\ \E f \in 0 .. Len(line) :
             /\ IF f = 0 THEN UNCHANGED events ELSE line[f].kind \in Failing /\ Event
             /\ wire' = wire \o Replies(line, f)
             /\ tmux' = IF f = 0 /\ line[Len(line)].kind = "continue" THEN Resumed ELSE tmux
  /\ UNCHANGED <<now, client>>

-----------------------------------------------------------------------------
(* Queueing and sending command lines.                                     *)

\* A full queue ends the session: a command is never dropped.
queue_batch(line) ==
  IF Len(outgoing) >= MAX_QUEUED_COMMANDS
  THEN running' = FALSE /\ UNCHANGED outgoing
  ELSE outgoing' = Append(outgoing, line) /\ UNCHANGED running

\* Capture the screen and the cursor and, if the pane is paused, resume it in
\* the same command line.
SeedLine(g, z) ==
  IF z THEN <<Seed("capture", g), Seed("cursor", g), Seed("continue", g)>>
       ELSE <<Seed("capture", g), Seed("cursor", g)>>

\* seed_pane for the pane p, which is paused or not (z).
seed_pane(p, z) ==
  IF ~p.mapped \/ p.seeding
  THEN pane' = p /\ paused' = z /\ UNCHANGED <<outgoing, running>>
  ELSE /\ pane' = [p EXCEPT !.seeding = TRUE, !.seeded = FALSE,
                             !.seed = None, !.barrier = z]
       /\ paused' = FALSE
       /\ queue_batch(SeedLine(p.gen, z))

\* A seed that was queued before the pane was paused is not sent any more.
Stale(line) == line[1].kind = "capture" /\ (~pane.mapped \/ line[1].gen # pane.gen)

SkipStale(lines) ==
  LET live == {i \in DOMAIN lines : ~Stale(lines[i])}
  IN  SubSeq(lines, Min(live \cup {Len(lines) + 1}), Len(lines))

\* start_send: the entries are registered when the line is sent.
start_send ==
  /\ running /\ outgoing # <<>>
  /\ LET next == SkipStale(outgoing) IN
     IF next = <<>> \/ Len(pending) + Len(next[1]) > MAX_PENDING_RESPONSES
     THEN outgoing' = next /\ UNCHANGED <<pending, cmds>>
     ELSE /\ outgoing' = Tail(next)
          /\ pending' = pending \o next[1]
          /\ cmds' = Append(cmds, next[1])
  /\ UNCHANGED <<now, server, wire, pane, paused, timer, screen, running>>

Queued(entry) == \E i \in DOMAIN outgoing : outgoing[i] = <<entry>>

\* The two-second poll of the windows.  Bound: an unsent poll is not repeated.
refresh_windows ==
  /\ running /\ ~Contains(pending, Windows) /\ ~Queued(Windows)
  /\ queue_batch(<<Windows>>)
  /\ UNCHANGED <<now, server, cmds, wire, pane, paused, timer, pending, screen>>

\* A user's command is taken from the mailbox while half of the queue is free.
queue_user_command ==
  /\ running /\ Event
  /\ Len(outgoing) < MAX_QUEUED_COMMANDS \div 2
  /\ queue_batch(<<User>>)
  /\ UNCHANGED <<now, tmux, cmds, wire, pane, paused, timer, pending, screen>>

\* continue_deadline fires.
continue_paused ==
  /\ running /\ timer
  /\ timer' = FALSE
  /\ IF paused THEN seed_pane(pane, TRUE) ELSE UNCHANGED <<pane, paused, outgoing, running>>
  /\ UNCHANGED <<now, server, cmds, wire, pending, screen>>

-----------------------------------------------------------------------------
(* Notifications.                                                          *)

\* Received instants are now - age, and of two in one tick the order is not
\* known: such output is shown again, as output without an age is.
output_precedes_capture(at, p) == p.capture_at # None /\ at < p.capture_at

\* The output in `held` that is shown after a seed.
Replayed(p) ==
  {p.held[i].chunk : i \in {j \in DOMAIN p.held : ~output_precedes_capture(p.held[j].at, p)}}

\* Mistake: the bound is compared before the new chunk is counted.
Spills_late(held) == Len(held) > PENDING_PANE_OUTPUT_MAX + 1

\* Too much output is kept: the oldest chunk goes.
Spills(held) == Len(held) > PENDING_PANE_OUTPUT_MAX

\* A mapped pane shows the chunk that goes, an unknown pane loses it.
route_output(m) ==
  LET at   == now - m.age
      held == Append(pane.held, [chunk |-> m.chunk, at |-> at])
      full == Spills(held)
      drop == output_precedes_capture(at, pane)
  IN
  /\ IF pane.seeded
     THEN /\ screen' = IF drop THEN screen ELSE screen \cup {m.chunk}
          /\ UNCHANGED pane
     ELSE /\ pane' = [pane EXCEPT !.held = IF full THEN Tail(held) ELSE held]
          /\ screen' = IF full /\ pane.mapped THEN screen \cup {held[1].chunk} ELSE screen
  /\ UNCHANGED <<paused, timer, outgoing, pending, running>>

\* A layout: an unknown pane is spawned, a resized one is captured again
\* (after the capture in flight, if there is one).
reconcile_panes(resized) ==
  LET p == IF ~pane.mapped THEN [pane EXCEPT !.mapped = TRUE]
           ELSE IF resized /\ pane.seeding THEN [pane EXCEPT !.reseed = TRUE]
           ELSE IF resized THEN [pane EXCEPT !.seeded = FALSE]
           ELSE pane
  IN  IF p.seeded THEN pane' = p /\ UNCHANGED <<paused, outgoing, running>>
      ELSE seed_pane(p, paused)

\* Mistake: the seed in flight is forgotten, but not that it is in flight.
invalidate_seed_in_flight(p) ==
  IF ~p.mapped THEN p
  ELSE [p EXCEPT !.gen = @ + 1, !.seeded = FALSE, !.reseed = FALSE,
                 !.seed = None, !.capture_at = None, !.held = <<>>]

\* The replies to older seeds are ignored from now on.
invalidate_seed(p) ==
  IF ~p.mapped THEN p
  ELSE [p EXCEPT !.gen = @ + 1, !.seeded = FALSE, !.seeding = FALSE, !.reseed = FALSE,
                 !.seed = None, !.capture_at = None, !.held = <<>>]

OnPause ==
  /\ paused' = TRUE /\ timer' = TRUE
  /\ pane' = IF paused THEN pane ELSE invalidate_seed(pane)
  /\ UNCHANGED <<outgoing, pending, screen, running>>

OnContinue ==
  /\ IF paused THEN seed_pane(pane, FALSE) ELSE UNCHANGED <<pane, paused, outgoing, running>>
  /\ UNCHANGED <<timer, pending, screen>>

-----------------------------------------------------------------------------
(* Replies.                                                                *)

\* Mistake: any reply for the pane is taken for the latest seed's.
Current_any(entry) == pane.mapped

\* The reply belongs to the latest seed of the pane.
Current(entry) == pane.mapped /\ pane.gen = entry.gen

Follows(i, kind, entry) ==
  i <= Len(pending) /\ pending[i] = Seed(kind, entry.gen)

\* Mistake: only the entry of the command that failed is removed.
Settled_one(entry, ok) == 1

\* response_kind: how many entries a reply to the first one settles.  tmux
\* skips the rest of a compound command after an error, without replies.
Settled(entry, ok) ==
  LET c == IF entry.kind = "capture" /\ Follows(2, "cursor", entry) THEN 2 ELSE 1
      d == IF entry.kind \in {"capture", "cursor"} /\ Follows(c + 1, "continue", entry)
           THEN c + 1 ELSE c
  IN  IF ok THEN 1 ELSE d

\* Mistake: the command that would have resumed the pane is only skipped.
LeftPaused_skipped(entry, ok) == FALSE

\* retry_paused_seed: a failure left the pane paused.
LeftPaused(entry, ok) ==
  ~ok /\ Current(entry) /\ \E i \in 1 .. Settled(entry, ok) : pending[i].kind = "continue"

\* A capture is kept until the cursor is known.  A seed that resumes the pane
\* needs no comparison of instants.
OnCapture(shown) ==
  /\ pane' = [pane EXCEPT !.seed = shown,
                          !.capture_at = IF pane.barrier THEN None ELSE now]
  /\ UNCHANGED <<paused, outgoing, screen, running>>

\* The seed is painted over the screen, followed by the output received in
\* the meantime, or it is repeated; a failed capture paints nothing.
OnCursor(z) ==
  IF pane.reseed
  THEN /\ seed_pane([pane EXCEPT !.seeding = FALSE, !.reseed = FALSE, !.seed = None], z)
       /\ UNCHANGED screen
  ELSE /\ pane' = [pane EXCEPT !.seeding = FALSE, !.seeded = pane.seed # None,
                               !.seed = None, !.held = <<>>]
       /\ screen' = (IF pane.seed = None THEN screen ELSE 1 .. pane.seed) \cup Replayed(pane)
       /\ paused' = z
       /\ UNCHANGED <<outgoing, running>>

\* handle_block for the reply m to the command of `entry`.
OnReply(entry, m) ==
  LET z == paused \/ LeftPaused(entry, m.ok) IN
  /\ pending' = SubSeq(pending, Settled(entry, m.ok) + 1, Len(pending))
  /\ timer' = (timer \/ LeftPaused(entry, m.ok))
  /\ CASE entry.kind = "capture" /\ m.ok /\ Current(entry) -> OnCapture(m.shown)
       [] entry.kind \in {"capture", "cursor"} /\ ~(entry.kind = "capture" /\ m.ok)
            /\ Current(entry) -> OnCursor(z)
       [] entry.kind = "windows" /\ m.ok -> reconcile_panes(FALSE) /\ UNCHANGED screen
       [] OTHER -> paused' = z /\ UNCHANGED <<pane, outgoing, screen, running>>

\* A reply that belongs to a free-form command does not end it: its barrier does.
OnBlock(m) ==
  IF pending = <<>> \/ (pending[1] = User /\ ~m.barrier)
  THEN UNCHANGED client
  ELSE OnReply(pending[1], m)

-----------------------------------------------------------------------------
\* handle_message for the next line, or for a whole reply.
handle_message ==
  /\ running /\ wire # <<>> /\ wire' = Tail(wire)
  /\ LET m == Head(wire) IN
     \/ m.type = "output" /\ route_output(m)
     \/ m.type = "layout" /\ reconcile_panes(TRUE) /\ UNCHANGED <<timer, pending, screen>>
     \/ m.type = "pause" /\ OnPause
     \/ m.type = "continue" /\ OnContinue
     \/ m.type = "block" /\ OnBlock(m)
  /\ UNCHANGED <<now, server, cmds>>

\* Nothing follows the end of the control loop.  The other ways it ends (the
\* channel closes, a write times out, tmux exits) only cut a behaviour short.
Next ==
  /\ running
  /\ \/ Tick \/ Produce \/ SendOutput \/ PausePane \/ ResumePane \/ ChangeLayout \/ Execute
     \/ start_send \/ refresh_windows \/ queue_user_command \/ continue_paused
     \/ handle_message

Spec == Init /\ [][Next]_vars

\* The control loop runs, its timers fire, and the server answers.
FairSpec ==
  Spec /\ WF_vars(handle_message) /\ WF_vars(start_send) /\ WF_vars(Execute)
       /\ WF_vars(continue_paused) /\ WF_vars(refresh_windows)

-----------------------------------------------------------------------------
(* Properties.                                                             *)

Message ==
  [type : {"output"}, chunk : 1 .. MaxChunks, age : 0 .. MaxTicks]
    \cup [type : {"pause", "continue", "layout"}]
    \cup [type : {"block"}, ok : BOOLEAN, barrier : BOOLEAN,
          shown : 0 .. MaxChunks, answers : Seq(Entry)]

Pane ==
  [mapped : BOOLEAN, seeded : BOOLEAN, seeding : BOOLEAN, reseed : BOOLEAN,
   barrier : BOOLEAN, gen : Nat, seed : 0 .. MaxChunks \cup {None},
   capture_at : 0 .. MaxTicks \cup {None},
   held : Seq([chunk : 1 .. MaxChunks, at : 0 .. MaxTicks])]

\* The types of the variables.
TypeOK ==
  /\ now \in 0 .. MaxTicks
  /\ tmux \in [made : Seq(0 .. MaxTicks), sent : Nat, paused : BOOLEAN]
  /\ tmux.sent <= Len(tmux.made) /\ Len(tmux.made) <= MaxChunks
  /\ events \in 0 .. MaxEvents
  /\ cmds \in Seq(Seq(Entry)) /\ wire \in Seq(Message)
  /\ pane \in Pane /\ Len(pane.held) <= PENDING_PANE_OUTPUT_MAX
  /\ paused \in BOOLEAN /\ timer \in BOOLEAN /\ running \in BOOLEAN
  /\ outgoing \in Seq(Seq(Entry)) /\ pending \in Seq(Entry)
  /\ screen \subseteq 1 .. MaxChunks

Settles(m) == IF m.type = "block" THEN m.answers ELSE <<>>
Answers == [i \in DOMAIN wire |-> Settles(wire[i])]

\* The replies that the client waits for are exactly those that are on their
\* way or that the server still owes, in order, whatever failed.
Correlated ==
  pending = FlattenSeq(Answers) \o FlattenSeq(cmds)

OnTheWay(k) ==
  \/ k > tmux.sent
  \/ \E i \in DOMAIN wire : wire[i].type = "output" /\ wire[i].chunk = k

FlowControlOnTheWay == \E i \in DOMAIN wire : wire[i].type \in {"pause", "continue"}

\* Once a pane is painted it shows everything it produced, except what is on
\* its way, or what the client is about to learn was discarded.
NothingLost ==
  running /\ pane.seeded /\ ~FlowControlOnTheWay =>
    \A k \in 1 .. Len(tmux.made) : k \in screen \/ OnTheWay(k)

\* A pane does not stay paused.
PausedResumes == tmux.paused ~> (~tmux.paused \/ ~running)

\* A pane does not stay blank: a seed that fails is repeated.
Painted == ~pane.seeded ~> (pane.seeded \/ ~running)

=============================================================================
