---------------------------- MODULE ClaudeStream ----------------------------
(***************************************************************************)
(* internal/agent/claude.go: how the driver of claude turns the output of  *)
(* its process into events: the status of a turn, notifications that come  *)
(* by two ways, and the reason of an exit.                                 *)
(*                                                                         *)
(* Five goroutines share one driver: Send, readStdout, tailTranscript,     *)
(* readStderr and waitExit; the pump of the manager reads the events.  A   *)
(* line of stdout is "out" (assistant message or delta of the main agent), *)
(* "ok" or "err" (result, without and with an error text) or a             *)
(* notification; what does not touch the driver's state is left out.  One  *)
(* step is one critical section or one emit.                               *)
(***************************************************************************)
EXTENDS Naturals, SequencesExt

CONSTANTS
  Notices,    \* notifications, by the key of seenNotify
  NoticeCap,  \* keys remembered (64 in the code)
  StreamCap,  \* capacity of d.events (128 in the code)
  MaxLines    \* bound: lines the CLI writes, on stdout or in its transcript

ASSUME NoticesAssumption ==
  /\ NoticeCap \in Nat \ {0} /\ StreamCap \in Nat /\ MaxLines \in Nat
  /\ Notices \cap {"out", "ok", "err", "running", "idle", "error"} = {}

VARIABLES
  proc,       \* the process: "up", "failed" (with text on stderr) or "killed"
  turn,       \* it works on a turn
  said,       \* notifications it has made
  lines,      \* lines it has written, on stdout or in the transcript
  pipe,       \* lines it has written that are not handled yet
  transcript, \* notifications in the transcript file the tailer has not read
  attached,   \* d.stdin # nil: waitExit has not taken the lock
  streaming,  \* ~d.evClosed
  running,    \* d.running
  sawResult,  \* d.sawResult
  stderrTail, \* d.stderrTail # ""
  notified,   \* d.notifyOrder
  reader,     \* readStdout: "read", or what of a result line is still to emit
  stream,     \* d.events
  status,     \* ls.state, as the pump has it
  errors,     \* error cards of the timeline: "result" and "exit"
  shown,      \* times each notification got to the timeline
  pumping,    \* the pump runs
  crossed,    \* ghost: a Send came between the two halves of a result line
  swallowed,  \* ghost: the last status was lost to a full or closed channel
  evicted     \* ghost: a key has left notified

cliVars == <<proc, turn, said, lines, transcript>>
pumpVars == <<status, errors, shown, pumping>>
streamVars == <<cliVars, pumpVars, pipe, attached, streaming, running, sawResult,
                stderrTail, notified, reader, stream, crossed, swallowed, evicted>>

ClaudeStreamInit ==
  /\ proc = "up" /\ turn = FALSE /\ said = {} /\ lines = 0
  /\ pipe = <<>> /\ transcript = <<>>
  /\ attached = TRUE /\ streaming = TRUE /\ running = FALSE
  /\ sawResult = FALSE /\ stderrTail = FALSE /\ notified = <<>> /\ reader = "read"
  /\ stream = <<>> /\ status = "idle" /\ errors = {} /\ pumping = TRUE
  /\ shown = [n \in Notices |-> 0]
  /\ crossed = FALSE /\ swallowed = FALSE /\ evicted = {}

\* emit
Fits == streaming /\ Len(stream) < StreamCap
Emit(e) ==
  /\ stream' = IF Fits THEN Append(stream, e) ELSE stream
  /\ swallowed' = IF e \in {"running", "idle"} THEN ~Fits ELSE swallowed
EmitNothing == UNCHANGED <<stream, swallowed>>
-----------------------------------------------------------------------------
(***************************************************************************)
(* The CLI.  It starts a turn for a message or by itself (a background     *)
(* task has ended), works through it and may end at any time.              *)
(***************************************************************************)
Works == proc = "up" /\ lines < MaxLines /\ lines' = lines + 1
Writes(line) == Works /\ pipe' = Append(pipe, line)
driverOnly == <<attached, streaming, running, sawResult, stderrTail, notified, reader,
                stream, crossed, swallowed, evicted>>

CliTurn ==
  /\ proc = "up" /\ ~turn
  /\ turn' = TRUE
  /\ UNCHANGED <<proc, said, lines, transcript, pipe, pumpVars, driverOnly>>

CliOutput ==
  /\ turn /\ Writes("out")
  /\ UNCHANGED <<proc, turn, said, transcript, pumpVars, driverOnly>>

CliResult ==
  /\ turn /\ \E line \in {"ok", "err"} : Writes(line)
  /\ turn' = FALSE
  /\ UNCHANGED <<proc, said, transcript, pumpVars, driverOnly>>

\* A notification is written to the transcript at once; it comes on stdout
\* too unless the running turn absorbs it.
CliNotice(n) ==
  /\ n \notin said
  /\ said' = said \cup {n}
  /\ transcript' = Append(transcript, n)
  /\ \/ Works /\ UNCHANGED pipe
     \/ Writes(n)
  /\ UNCHANGED <<proc, turn, pumpVars, driverOnly>>

CliEnds(how) ==
  /\ proc = "up"
  /\ proc' = how
  /\ UNCHANGED <<turn, said, lines, transcript, pipe, pumpVars, driverOnly>>
-----------------------------------------------------------------------------
(***************************************************************************)
(* The driver.                                                             *)
(***************************************************************************)
\* markRunningLocked: one "running" for a turn, whoever notices it first.
MarkSilently == running' = TRUE /\ EmitNothing
MarkRunning ==
  /\ running' = TRUE
  /\ IF running THEN EmitNothing ELSE Emit("running")

\* Send.  Between the halves of a result line its "running" goes before the
\* "idle" of the turn that is over.
Send ==
  /\ attached
  /\ MarkRunning
  /\ crossed' = (crossed \/ reader # "read")
  /\ UNCHANGED <<cliVars, pipe, pumpVars, attached, streaming,
                 sawResult, stderrTail, notified, reader, evicted>>

ReadOutput ==
  /\ reader = "read" /\ pipe # <<>> /\ Head(pipe) = "out"
  /\ pipe' = Tail(pipe)
  /\ MarkRunning
  /\ UNCHANGED <<cliVars, pumpVars, attached, streaming, sawResult, stderrTail, notified,
                 reader, crossed, evicted>>

\* A result line, first half: the turn is over as far as the driver knows ...
ReadResult ==
  /\ reader = "read" /\ pipe # <<>> /\ Head(pipe) \in {"ok", "err"}
  /\ pipe' = Tail(pipe)
  /\ sawResult' = TRUE /\ running' = FALSE
  /\ reader' = Head(pipe)
  /\ UNCHANGED <<cliVars, pumpVars, attached, streaming, stderrTail, notified, stream,
                  crossed, swallowed, evicted>>

\* ... second half: its error, its usage and its duration, and "idle" last.
ResultError ==
  /\ reader = "err"
  /\ Emit("error") /\ reader' = "ok"
  /\ UNCHANGED <<cliVars, pumpVars, pipe, attached, streaming, running, sawResult,
                 stderrTail, notified, crossed, evicted>>
ResultIdle ==
  /\ reader = "ok"
  /\ Emit("idle") /\ reader' = "read"
  /\ crossed' = running
  /\ UNCHANGED <<cliVars, pumpVars, pipe, attached, streaming, running, sawResult,
                 stderrTail, notified, evicted>>

\* seenNotify: the first of the two ways to bring a notification emits it; the
\* oldest key goes when there are too many.
NotRemembered(n) == notified
Remember(n) ==
  LET all == Append(notified, n) IN IF Len(all) > NoticeCap THEN Tail(all) ELSE all
Notify(n) ==
  IF n \in Range(notified)
  THEN EmitNothing /\ UNCHANGED <<notified, evicted>>
  ELSE /\ notified' = Remember(n)
       /\ evicted' = evicted \cup (Range(notified) \ Range(notified'))
       /\ Emit(n)

ReadNotice ==
  /\ reader = "read" /\ pipe # <<>> /\ Head(pipe) \in Notices
  /\ pipe' = Tail(pipe)
  /\ Notify(Head(pipe))
  /\ UNCHANGED <<cliVars, pumpVars, attached, streaming, running, sawResult, stderrTail,
                 reader, crossed>>

\* tailTranscript: a round that is under way when the process ends goes on.
TailTranscript ==
  /\ transcript # <<>>
  /\ transcript' = Tail(transcript)
  /\ Notify(Head(transcript))
  /\ UNCHANGED <<proc, turn, said, lines, pipe, pumpVars, attached, streaming, running,
                 sawResult, stderrTail, reader, crossed>>
-----------------------------------------------------------------------------
(***************************************************************************)
(* The exit.                                                               *)
(***************************************************************************)
\* Wait closes the pipes: what the scanner had not fetched by then is gone.
WaitExit ==
  /\ proc # "up" /\ attached
  /\ attached' = FALSE
  /\ \E i \in 0..Len(pipe) : pipe' = SubSeq(pipe, 1, i)
  /\ UNCHANGED <<cliVars, pumpVars, streaming, running, sawResult, stderrTail, notified,
                 reader, stream, crossed, swallowed, evicted>>

CloseStream ==
  /\ ~attached /\ streaming
  /\ streaming' = FALSE
  /\ UNCHANGED <<cliVars, pumpVars, pipe, attached, running, sawResult, stderrTail,
                 notified, reader, stream, crossed, swallowed, evicted>>

\* readStderr keeps the last lines when stderr is closed.
ReadStderr ==
  /\ proc = "failed" /\ ~stderrTail
  /\ stderrTail' = TRUE
  /\ UNCHANGED <<cliVars, pumpVars, pipe, attached, streaming, running, sawResult, notified,
                 reader, stream, crossed, swallowed, evicted>>

\* The pump stores an event.
PumpEvent ==
  /\ stream # <<>>
  /\ LET e == Head(stream) IN
       /\ status' = IF e \in {"running", "idle"} THEN e ELSE status
       /\ errors' = IF e = "error" THEN errors \cup {"result"} ELSE errors
       /\ shown' = IF e \in Notices THEN [shown EXCEPT ![e] = @ + 1] ELSE shown
  /\ stream' = Tail(stream)
  /\ UNCHANGED <<cliVars, pumping, pipe, attached, streaming, running, sawResult, stderrTail,
                 notified, reader, crossed, swallowed, evicted>>

\* The stream is closed and empty: the pump asks for the reason (ExitDetail)
\* and marks the session dead.
ExitDetail == proc = "failed" /\ stderrTail /\ ~sawResult
StreamEnds ==
  /\ pumping /\ ~streaming /\ stream = <<>>
  /\ pumping' = FALSE /\ status' = "dead"
  /\ errors' = IF ExitDetail THEN errors \cup {"exit"} ELSE errors
  /\ UNCHANGED <<cliVars, shown, pipe, attached, streaming, running, sawResult, stderrTail,
                 notified, reader, stream, crossed, swallowed, evicted>>
-----------------------------------------------------------------------------
ClaudeStreamNext ==
  \/ CliTurn \/ CliOutput \/ CliResult \/ CliEnds("failed") \/ CliEnds("killed")
  \/ \E n \in Notices : CliNotice(n)
  \/ Send \/ ReadOutput \/ ReadResult \/ ResultError \/ ResultIdle \/ ReadNotice
  \/ TailTranscript \/ WaitExit \/ CloseStream \/ ReadStderr \/ PumpEvent \/ StreamEnds

ClaudeStreamSpec == ClaudeStreamInit /\ [][ClaudeStreamNext]_streamVars
-----------------------------------------------------------------------------
(***************************************************************************)
(* Properties.                                                             *)
(***************************************************************************)
\* The session has this status once the pump has caught up.
Reported(state) ==
  LET at == {i \in DOMAIN stream : stream[i] \in {"running", "idle"}} IN
  \/ at = {} /\ status = state
  \/ \E i \in at : stream[i] = state /\ \A j \in at : j <= i

\* What the session is reported to be, once the pump has caught up, is what
\* the driver takes it to be; not so when the channel swallowed the last
\* status, and from a Send that came between the halves of a result line to
\* the next result: that turn is shown idle (markRunningLocked and the result
\* case of readStdout).
StatusTrueUnlessCrossed ==
  reader = "read" /\ attached /\ ~crossed /\ ~swallowed =>
    Reported(IF running THEN "running" ELSE "idle")

\* Told once: a notification that came by stdout and by the transcript, as long
\* as its key was not pushed out by others (seenNotify); and a failure, which a
\* result line tells and the pump, from stderr, does not repeat, though the two
\* are read by different goroutines and the exit overtakes lines (sawResult,
\* ExitDetail, waitExit).
ToldOnce ==
  /\ \A n \in Notices \ evicted :
       shown[n] + Cardinality({i \in DOMAIN stream : stream[i] = n}) <= 1
  /\ "exit" \in errors => errors = {"exit"}
=============================================================================
