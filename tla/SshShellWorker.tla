--------------------------- MODULE SshShellWorker ---------------------------
(***************************************************************************)
(* The task that serves one SSH shell session                              *)
(* (run_open_ssh_shell_session and run_deferred_ssh_worker in              *)
(* crates/zzclawterm-transport/src/ssh_worker.rs), composed with the       *)
(* session event queue it pushes to.                                       *)
(*                                                                         *)
(* The task is a loop around one tokio::select!.  It has two pushes of its *)
(* own in the queue: Out, the boxed future `pending_output`, which runs    *)
(* only while the select polls it, and Hnd, a push that the handler of a   *)
(* branch awaits, during which no branch is polled.  Both are producers of *)
(* SessionEventQueue.  Reader threads, the event pump and the thread that  *)
(* closes the session run beside it.                                       *)
(*                                                                         *)
(* A read is a number of bytes; which of them the tmux detector withholds  *)
(* and which the shell-integration filter hides is a choice.  The tmux     *)
(* control session that a confirmed takeover runs is external here.        *)
(***************************************************************************)
EXTENDS SessionEventQueue, Sequences

CONSTANTS Out, Hnd,    \* the two pushes of the worker
          Host,        \* its session
          ReadSizes,   \* bound: lengths of a channel read
          EarlySizes,  \* bound: lengths of the output before and after a takeover
          Extras,      \* bound: numbers of other events that precede an output
          MaxReads,    \* bound: channel reads
          MaxInputs,   \* bound: writes and resizes taken from the mailbox
          Integration, \* whether shell integration is to be injected
          PostLogin,   \* whether a post-login command is configured
          MaxOthers,   \* bound: pushes of another session's producer
          CanArm       \* whether the user may type a `tmux -CC` command

Futures == {Out, Hnd}

ASSUME WorkerActors ==
  /\ Futures \subseteq AsyncProducers /\ Out # Hnd
  /\ \A p \in Producers : p \in Futures <=> SessionOf[p] = Host
  /\ ReadSizes \subseteq Nat \ {0} /\ EarlySizes \subseteq Nat /\ Extras \subseteq Nat
  /\ Integration \in BOOLEAN /\ PostLogin \in BOOLEAN

VARIABLES
  w,        \* the locals of the loop (see WorkerState)
  script,   \* events each of the two futures has still to push
  stopped,  \* the input mailbox was closed
  attempt,  \* whether the connection attempt was cancelled
  closing,  \* how far the thread that closes the session has come
  ledger    \* bytes owed to the queue and bytes lost (see WorkerInit)

queue == vars
all   == <<vars, w, script, stopped, attempt, closing, ledger>>

WorkerState ==
  [at : {"deferred", "handler", "top", "select", "poll", "exit", "ended"},
   then : {"loop", "break", "flush", "takeover"},  \* what the handler does next
   output : BOOLEAN,                               \* pending_output is Some
   send : {"none", "write", "script", "post_login"}, resize : BOOLEAN,
   writes : Nat,                                   \* pending_writes
   phase : {"WaitInitial", "Suppressing", "Normal"},
   integration : BOOLEAN, upload : BOOLEAN,        \* pending_integration, pending_upload
   post_login : {"none", "set", "armed"},
   armed : BOOLEAN,                                \* detector: a tmux -CC line was sent
   quiet : BOOLEAN,                                \* ... and no shell output was seen
   withheld : Nat,                                 \* detector: candidate bytes
   fresh : BOOLEAN,                                \* ... first seen in the last read
   flush : Nat]                                    \* candidate bytes a handler releases

Other == [kind |-> "Other", size |-> 1]
Preceding == {[i \in 1 .. k |-> Other] : k \in Extras}
Output(n) == IF n = 0 THEN <<>> ELSE <<[kind |-> "Output", size |-> n]>>

WorkerInit ==
  /\ Init
  /\ w = [at |-> "deferred", then |-> "loop", output |-> FALSE, send |-> "none",
          resize |-> FALSE, writes |-> 0,
          phase |-> IF Integration THEN "WaitInitial" ELSE "Normal",
          integration |-> Integration, upload |-> FALSE,
          post_login |-> IF PostLogin THEN "set" ELSE "none",
          armed |-> FALSE, quiet |-> TRUE, withheld |-> 0,
          fresh |-> FALSE, flush |-> 0]
  /\ script = [f \in Futures |-> <<>>]
  /\ stopped = FALSE
  /\ attempt = FALSE
  /\ closing = "no"
  /\ ledger = [due |-> 0,   \* bytes read off the channel and not hidden on purpose
               lost |-> 0,  \* of those, bytes of a dropped pending_output
               reads |-> 0, inputs |-> 0]

-----------------------------------------------------------------------------
(* A handler that awaits pushes, and what it does when they have returned. *)
Await(pushes, next, locals) ==
  /\ w' = [locals EXCEPT !.at = "handler", !.then = next]
  /\ script' = [script EXCEPT ![Hnd] = pushes]

(* Assigning pending_output: a future that was there is dropped, and what  *)
(* it had not pushed is lost.                                              *)
Unsent(f) ==
  (IF producer[f].kind = "Output" THEN producer[f].left ELSE 0)
    + (IF script[f] # <<>> /\ script[f][Len(script[f])].kind = "Output"
       THEN script[f][Len(script[f])].size ELSE 0)

(* filter_output: how many of n bytes are visible, the phase it leaves,    *)
(* and what ssh_output_future then pushes: the directory changes and       *)
(* commands found in the bytes, then the output.                           *)
Filter(n) ==
  {[phase |-> v[1], visible |-> v[2], pushes |-> found \o Output(v[2])] :
     v \in IF w.phase # "Suppressing" THEN {<<w.phase, n>>}
           ELSE {<<"Suppressing", 0>>} \cup ({"Normal"} \X (0 .. n)),
     found \in IF n = 0 THEN {<<>>} ELSE Preceding}

(* Bytes the detector withholds after a read of n: nothing, a tail of the  *)
(* read, or everything since the candidate began.                          *)
Withhold(n) == IF w.armed THEN (0 .. n) \cup {w.withheld + n} ELSE {0}

(* run_deferred_ssh_worker: wait for a size, the fallback timer or a close,*)
(* then open the shell; a failure to open it reports an error.             *)
Deferred ==
  /\ w.at = "deferred"
  /\ \/ /\ stopped
        /\ w' = [w EXCEPT !.at = "exit"]
        /\ UNCHANGED <<script, ledger>>
     \/ /\ ~stopped /\ ledger.inputs < MaxInputs
        /\ w' = [w EXCEPT !.writes = @ + 1]
        /\ ledger' = [ledger EXCEPT !.inputs = @ + 1]
        /\ UNCHANGED script
     \/ /\ ~stopped
        /\ \E early \in EarlySizes, notice \in Preceding :
             /\ Await(<<Other>> \o notice \o Output(early), "loop", w)
             /\ ledger' = [ledger EXCEPT !.due = early]
     \/ /\ ~stopped
        /\ Await(<<Other>>, "break", w)
        /\ UNCHANGED ledger
  /\ UNCHANGED <<queue, stopped, attempt, closing>>

(* The statements before the select: start a queued write once the shell   *)
(* is ready, and arm the post-login timer.                                 *)
LoopTop ==
  /\ w.at = "top" /\ owed[Out] = {}
  /\ LET start == w.phase = "Normal" /\ w.send = "none" /\ w.writes > 0
     IN  w' = [w EXCEPT !.at = "select",
                 !.send = IF start THEN "write" ELSE @,
                 !.writes = IF start THEN @ - 1 ELSE @,
                 !.post_login = IF @ = "set" /\ w.phase = "Normal" THEN "armed" ELSE @]
  /\ UNCHANGED <<queue, script, stopped, attempt, closing, ledger>>

-----------------------------------------------------------------------------
(* The branches of the select.  A branch that only changes locals of the   *)
(* loop is `Branch(guard, locals)`.                                        *)
Branch(guard, locals) ==
  /\ w.at = "select" /\ guard
  /\ w' = locals
  /\ UNCHANGED <<queue, script, stopped, attempt, closing, ledger>>

SendDone == Branch(w.send # "none", [w EXCEPT !.at = "top", !.send = "none"])

SendError ==
  /\ w.at = "select" /\ w.send # "none"
  /\ Await(<<Other>>, "break", [w EXCEPT !.send = "none"])
  /\ UNCHANGED <<queue, stopped, attempt, closing, ledger>>

ResizeDone == Branch(w.resize, [w EXCEPT !.at = "top", !.resize = FALSE])
ResizeError == Branch(w.resize, [w EXCEPT !.at = "exit", !.resize = FALSE])

AttemptCancelled == Branch(attempt, [w EXCEPT !.at = "exit"])

(* feed_input: a line is not complete, is a `tmux -CC` command, or another.*)
Arms == {<<w.armed, w.quiet>>, <<FALSE, TRUE>>} \cup (IF CanArm THEN {<<TRUE, TRUE>>} ELSE {})

PostLoginTimer ==
  \E a \in Arms :
    Branch(w.post_login = "armed" /\ w.send = "none",
           [w EXCEPT !.at = "top", !.post_login = "none", !.send = "post_login",
                     !.armed = a[1], !.quiet = a[2]])

InitialInjectDelay ==
  Branch(w.phase = "WaitInitial" /\ w.integration,
         [w EXCEPT !.at = "top", !.phase = "Suppressing",
                   !.integration = FALSE, !.upload = TRUE])

UploadDone ==
  Branch(w.upload /\ w.send = "none",
         [w EXCEPT !.at = "top", !.upload = FALSE, !.send = "script", !.phase = "Suppressing"])

(* The timeout's output is empty: its future completes when first polled.  *)
InjectTimeout_after_upload ==
  Branch(w.phase = "Suppressing" /\ ~w.output /\ ~w.upload,
         [w EXCEPT !.at = "top", !.phase = "Normal", !.integration = FALSE, !.output = TRUE])
InjectTimeout ==
  Branch(w.phase = "Suppressing" /\ ~w.output,
         [w EXCEPT !.at = "top", !.phase = "Normal", !.integration = FALSE, !.output = TRUE])

(* pending_output = Some(ssh_output_future(filter_output(bytes))).  Nothing *)
(* checks that there is no future already.                                 *)
Flush(bytes, locals) ==
  \E o \in Filter(bytes) :
    /\ w' = [locals EXCEPT !.at = "top", !.output = TRUE, !.phase = o.phase, !.flush = 0]
    /\ script' = [script EXCEPT ![Out] = o.pushes]
    /\ ledger' = [ledger EXCEPT !.due = @ - (bytes - o.visible),
                                !.lost = @ + Unsent(Out)]
    /\ IF producer[Out].pc = "idle" THEN UNCHANGED queue ELSE DropPush(Out)
    /\ UNCHANGED <<stopped, attempt, closing>>

(* Mistake: the report of a failed attempt replaces the candidate bytes.   *)
CandidateDeadline_reports_only ==
  /\ w.at = "select" /\ w.withheld > 0 /\ ~w.fresh
  /\ LET locals == [w EXCEPT !.armed = FALSE, !.withheld = 0]
     IN  \/ ~w.quiet /\ Flush(w.withheld, locals)
         \/ /\ w.quiet /\ Await(<<Other>>, "flush", locals)
            /\ UNCHANGED <<queue, stopped, attempt, closing, ledger>>

(* The deadline of a candidate is seconds after the read that began it: by *)
(* then the select has polled the output of that read.                     *)
CandidateDeadline ==
  /\ w.at = "select" /\ w.withheld > 0 /\ ~w.fresh
  /\ LET locals == [w EXCEPT !.armed = FALSE, !.withheld = 0]
     IN  \/ /\ ~w.quiet  \* expiry_is_attempt is false
            /\ Flush(w.withheld, locals)
         \/ /\ w.quiet
            /\ Await(<<Other>>, "flush", [locals EXCEPT !.flush = w.withheld])
            /\ UNCHANGED <<queue, stopped, attempt, closing, ledger>>

SilenceDeadline ==
  /\ w.at = "select" /\ w.armed /\ w.quiet /\ w.withheld = 0
  /\ Await(<<Other>>, "loop", [w EXCEPT !.armed = FALSE])
  /\ UNCHANGED <<queue, stopped, attempt, closing, ledger>>

CommandWrite ==
  /\ w.at = "select" /\ ~stopped /\ ledger.inputs < MaxInputs
  /\ \E a \in Arms :
       w' = [w EXCEPT !.at = "top", !.writes = @ + 1, !.armed = a[1], !.quiet = a[2]]
  /\ ledger' = [ledger EXCEPT !.inputs = @ + 1]
  /\ UNCHANGED <<queue, script, stopped, attempt, closing>>

CommandResize ==
  /\ w.at = "select" /\ ~stopped /\ ledger.inputs < MaxInputs
  /\ w' = [w EXCEPT !.at = "top", !.resize = TRUE]
  /\ ledger' = [ledger EXCEPT !.inputs = @ + 1]
  /\ UNCHANGED <<queue, script, stopped, attempt, closing>>

CommandClose == Branch(stopped, [w EXCEPT !.at = "exit"])

-----------------------------------------------------------------------------
(* The channel branch, polled only while there is no pending_output.       *)
CanRead_unguarded == w.at = "select"
CanRead == w.at = "select" /\ ~w.output

ReadData ==
  /\ CanRead /\ ledger.reads < MaxReads
  /\ \E n \in ReadSizes : \E held \in Withhold(n) :
       LET pass   == w.withheld + n - held
           inject == w.phase = "WaitInitial" /\ w.integration
       IN  \E o \in Filter(pass), quiet \in BOOLEAN,
              armed \in {w.armed, w.armed /\ held > 0} :  \* a candidate that expires disarms
             /\ w' = [w EXCEPT !.at = "top", !.output = TRUE, !.withheld = held,
                        !.fresh = held \in 1 .. n, !.armed = armed,
                        !.quiet = @ /\ (w.armed => quiet),
                        !.phase = IF inject THEN "Suppressing" ELSE o.phase,
                        !.integration = @ /\ ~inject,
                        !.upload = @ \/ inject]
             /\ script' = [script EXCEPT ![Out] = o.pushes]
             /\ ledger' = [ledger EXCEPT !.due = @ + n - (pass - o.visible), !.reads = @ + 1]
  /\ UNCHANGED <<queue, stopped, attempt, closing>>

(* A confirmed control-mode startup: what precedes it is pushed by the     *)
(* handler, the rest belongs to the control channel.                       *)
TmuxDetected ==
  /\ CanRead /\ w.armed /\ ledger.reads < MaxReads
  /\ \E n \in ReadSizes : \E pass \in 0 .. (w.withheld + n - 1) : \E o \in Filter(pass) :
       /\ Await(o.pushes, "takeover",
                [w EXCEPT !.phase = o.phase, !.upload = FALSE, !.withheld = 0])
       /\ ledger' = [ledger EXCEPT !.due = @ - w.withheld + o.visible, !.reads = @ + 1]
  /\ UNCHANGED <<queue, stopped, attempt, closing>>

(* The takeover ends: back to the shell, with the bytes tmux left behind,  *)
(* or the channel is not safe to use or is gone.                           *)
Takeover ==
  \/ \E n \in EarlySizes : \E o \in Filter(n) :
       /\ Await(o.pushes, "loop",
                [w EXCEPT !.send = "none", !.resize = FALSE, !.phase = o.phase,
                          !.armed = FALSE, !.quiet = TRUE])
       /\ ledger' = [ledger EXCEPT !.due = @ + o.visible]
  \/ /\ Await(<<Other>>, "break", [w EXCEPT !.send = "none", !.resize = FALSE])
     /\ UNCHANGED ledger

ChannelEnds ==
  /\ CanRead
  /\ Await(<<Other>>, "break", w)
  /\ UNCHANGED <<queue, stopped, attempt, closing, ledger>>

-----------------------------------------------------------------------------
(* Running a future: its next event is pushed, or its push takes a step.   *)
StartPush(f) ==
  /\ script[f] # <<>>
  /\ Push(f, Head(script[f]).kind, Head(script[f]).size)
  /\ script' = [script EXCEPT ![f] = Tail(@)]

RunFuture(f) ==
  /\ \/ StartPush(f)
     \/ ProducerStep(f) /\ UNCHANGED script
  /\ UNCHANGED <<w, stopped, attempt, closing, ledger>>

Completed(f) == producer[f].pc = "idle" /\ script[f] = <<>> /\ owed[f] = {}
Suspended(f) == producer[f].pc \in {"turn_wait", "space_wait"} /\ owed[f] = {}

(* The select polls pending_output, until it suspends again or completes.  *)
PollOutput == Branch(w.output /\ ~Suspended(Out), [w EXCEPT !.at = "poll"])

PollReturns ==
  /\ w.at = "poll" /\ (Completed(Out) \/ Suspended(Out))
  /\ w' = IF Completed(Out) THEN [w EXCEPT !.at = "top", !.fresh = FALSE, !.output = FALSE]
          ELSE [w EXCEPT !.at = "select", !.fresh = FALSE]
  /\ UNCHANGED <<queue, script, stopped, attempt, closing, ledger>>

HandlerReturns ==
  /\ w.at = "handler" /\ Completed(Hnd)
  /\ \/ /\ w.then \in {"loop", "break"}
        /\ w' = [w EXCEPT !.at = IF w.then = "break" THEN "exit" ELSE "top"]
        /\ UNCHANGED <<queue, script, stopped, attempt, closing, ledger>>
     \/ /\ w.then = "flush"
        /\ Flush(w.flush, w)
     \/ /\ w.then = "takeover"
        /\ Takeover
        /\ UNCHANGED <<queue, stopped, attempt, closing>>

(* The end of the task: the futures and the mailbox receiver are dropped,  *)
(* and the waits for the remote end are bounded by timeouts.               *)
Exit_keeps_output ==
  /\ w.at = "exit"
  /\ w' = [w EXCEPT !.at = "ended", !.send = "none", !.resize = FALSE, !.upload = FALSE]
  /\ stopped' = TRUE
  /\ UNCHANGED <<queue, script, attempt, closing, ledger>>
Exit ==
  /\ w.at = "exit"
  /\ w' = [w EXCEPT !.at = "ended", !.output = FALSE, !.send = "none",
                    !.resize = FALSE, !.upload = FALSE]
  /\ script' = [script EXCEPT ![Out] = <<>>]
  /\ stopped' = TRUE
  /\ IF producer[Out].pc = "idle" THEN UNCHANGED queue ELSE DropPush(Out)
  /\ UNCHANGED <<attempt, closing, ledger>>

-----------------------------------------------------------------------------
(* SessionManager::close: cancel the session in the queue, then close the  *)
(* input mailbox and join the worker.                                      *)
Close_without_cancel(m) ==
  \/ /\ closing = "no"
     /\ closing' = "joining"
     /\ stopped' = TRUE
     /\ UNCHANGED queue
  \/ /\ closing = "joining" /\ w.at = "ended"
     /\ closing' = "joined"
     /\ UNCHANGED <<queue, stopped>>
Close(m) ==
  \/ /\ closing = "no"
     /\ cancel_session(m, Host)
     /\ closing' = "cancelled"
     /\ UNCHANGED stopped
  \/ /\ closing = "cancelled" /\ owed[m] = {}
     /\ closing' = "joining"
     /\ stopped' = TRUE
     /\ UNCHANGED queue
  \/ /\ closing = "joining" /\ w.at = "ended"
     /\ closing' = "joined"
     /\ UNCHANGED <<queue, stopped>>

CancelAttempt ==
  /\ ~attempt
  /\ attempt' = TRUE
  /\ UNCHANGED <<queue, w, script, stopped, closing, ledger>>

(* The worker's own steps outside the select.                              *)
Run ==
  \/ LoopTop
  \/ (w.at = "poll" /\ RunFuture(Out))
  \/ PollReturns
  \/ (w.at = "handler" /\ RunFuture(Hnd))
  \/ HandlerReturns
  \/ Exit
  \/ \E f \in Futures : Notify(f) /\ UNCHANGED <<w, script, stopped, attempt, closing, ledger>>

Timers == PostLoginTimer \/ InitialInjectDelay \/ InjectTimeout
            \/ CandidateDeadline \/ SilenceDeadline

Channel == ReadData \/ TmuxDetected \/ ChannelEnds \/ SendDone \/ SendError
             \/ ResizeDone \/ ResizeError \/ UploadDone

Commands == CommandWrite \/ CommandResize \/ CommandClose \/ AttemptCancelled

(* The other threads.                                                      *)
task == <<w, script, stopped, attempt, closing, ledger>>

ReaderRuns(p) == (ProducerStep(p) \/ Notify(p)) /\ UNCHANGED task
PumpDrains(c) == DrainSome(c) /\ UNCHANGED task
Notifies(a)   == Notify(a) /\ UNCHANGED task

Others ==
  \/ \E p \in Producers \ Futures :
       \/ /\ producer[p].count < MaxOthers
          /\ \E z \in Sizes : Push(p, "Output", z)
          /\ UNCHANGED task
       \/ ReaderRuns(p)
  \/ \E c \in Consumers : PumpDrains(c)
  \/ \E a \in Consumers \cup Managers : Notifies(a)

WorkerNext ==
  \/ Deferred \/ Run \/ PollOutput \/ Timers \/ Channel \/ Commands \/ Others
  \/ \E m \in Managers : Close(m) /\ UNCHANGED <<w, script, attempt, ledger>>
  \/ CancelAttempt

(* The task runs, timers fire, a closed mailbox is noticed, and the other  *)
(* threads run.  Nothing is assumed of the remote end, of the user or of   *)
(* the event pump.                                                         *)
WorkerFairness ==
  /\ WF_all(Run) /\ WF_all(PollOutput) /\ WF_all(CommandClose)
  /\ WF_all(Deferred)
  /\ WF_all(InitialInjectDelay) /\ WF_all(InjectTimeout)
  /\ \A p \in Producers \ Futures : WF_all(ReaderRuns(p))
  /\ \A a \in Consumers \cup Managers : WF_all(Notifies(a))

WorkerSpec == WorkerInit /\ [][WorkerNext]_all /\ WorkerFairness

-----------------------------------------------------------------------------
(* A worker that has ended, however it ended, holds no turn: if the turn   *)
(* is taken, another session's producer has it.                            *)
TurnReturned ==
  w.at = "ended" /\ producer_active => \E p \in Producers \ Futures : Holds(p)

Delivered == sent[Out] + sent[Hnd] + Unsent(Out) + Unsent(Hnd) + w.withheld + w.flush

Running == Accepts(Host) /\ w.at \notin {"exit", "ended"}

(* While the session is open, every byte read off the channel is in the    *)
(* queue's stream, in a future, withheld, or hidden on purpose, except for *)
(* what an overwritten pending_output had not pushed.                      *)
BytesAccounted == Running => ledger.due = Delivered + ledger.lost

(* The lossless backpressure the backend documentation promises: no byte   *)
(* is lost while the session is open.                                      *)
Lossless == Running => ledger.due = Delivered

(* The handler waits for a turn that the worker's own pending_output has,  *)
(* which is not polled while the handler runs.                             *)
SelfBlocked == w.at = "handler" /\ Holds(Out) /\ ~Completed(Hnd)

FairDrains == WF_all(\E c \in Consumers : PumpDrains(c))

(* If events keep being drained, the pushes of the other sessions return:  *)
(* one session's overload only ever delays another's producer.             *)
OverloadEnds ==
  FairDrains =>
    \A p \in Producers \ Futures : producer[p].pc # "idle" ~> producer[p].pc = "idle"

(* The one thing that blocks another session's push for ever is a          *)
(* self-blocked worker.                                                    *)
OverloadEndsUnlessSelfBlocked ==
  FairDrains =>
    \A p \in Producers \ Futures :
      producer[p].pc # "idle" ~> (producer[p].pc = "idle" \/ SelfBlocked)

(* Joining the worker ends, whatever it was doing when its session was     *)
(* closed and whether or not anyone drains events.                         *)
CloseEndsWorker == closing = "joining" ~> w.at = "ended"

(* Typed input is not held back for ever by the shell integration, unless  *)
(* the worker blocks itself (see OverloadEndsUnlessSelfBlocked).           *)
InputReleased ==
  FairDrains =>
    (w.phase # "Normal" ~> (w.phase = "Normal" \/ w.at = "ended" \/ SelfBlocked))
=============================================================================
