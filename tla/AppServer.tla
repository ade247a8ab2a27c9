------------------------------ MODULE AppServer ------------------------------
(****************************************************************************)
(* The transport (internal/transport): the codex app-server child process,  *)
(* its stdout and stderr pipes, the goroutines that read them, watchExit    *)
(* that reaps the child, the demux's give-up that kills it, and the ladder  *)
(* of Close.  Time is abstracted: a timeout may fire whenever its timer     *)
(* runs.  A pipe is counted: what the child wrote, what the SDK read.       *)
(*                                                                          *)
(* Client publishes a transport only after Connect returned, so Close is    *)
(* called after a successful Connect.                                       *)
(****************************************************************************)
EXTENDS Naturals, FiniteSets

CONSTANTS
    Closers,     \* calls of AppServer.Close
    NoCloser,
    MaxAttempts, \* maxCLICommandAttempts (5)
    MaxOutput    \* bound: lines the child writes to each pipe

ASSUME LimitsAssumption == MaxAttempts \in Nat \ {0} /\ MaxOutput \in Nat

VARIABLES
    connect, attempt, \* Connect: spawning, up, failed; ETXTBSY attempts made
    process,  \* none, running, exited; reaped once cmd.Wait has seen it
    exitCode, \* of an exited child: clean or not
    heirs,    \* descendants with the child's ends of the pipes: none, holding, gone
    stdin,    \* the SDK's end is open
    wrote, read, \* per pipe
    pipeClosed,  \* cmd.Wait has closed the SDK's ends
    drain,    \* the stderr goroutine: copying or done (stderrDone is closed)
    loop,     \* demux read loop: reading, eof, error, gaveUp, stopped
    watch,    \* watchExit: draining, reaping, recording, publishing, done
    ready, shutdownReq, lastErr,
    waitDone, \* its buffered value
    report,   \* OnSubprocessExit calls
    killed,   \* SIGKILL was sent
    signals,  \* the other signals sent
    once, xpc,\* Close: who runs doClose, where it stands
    early     \* the child died before Close did anything to it

pipes == <<wrote, read, pipeClosed>>
child == <<process, exitCode, heirs, early>>
state == <<ready, shutdownReq, lastErr>>
watching == <<watch, waitDone, report>>
closing == <<once, xpc, signals, killed, stdin>>
connecting == <<connect, attempt>>
vars == <<connecting, child, pipes, drain, loop, watching, state, closing>>

Pipes == {"out", "err"}

Init ==
    /\ connect = "spawning" /\ attempt = 1
    /\ process = "none" /\ exitCode = "none" /\ heirs = "none" /\ early = FALSE
    /\ stdin = TRUE
    /\ wrote = [p \in Pipes |-> 0] /\ read = [p \in Pipes |-> 0]
    /\ pipeClosed = FALSE
    /\ drain = "none" /\ loop = "none" /\ watch = "none"
    /\ ready = FALSE /\ shutdownReq = FALSE /\ lastErr = "none"
    /\ waitDone = FALSE /\ report = <<>> /\ killed = FALSE /\ signals = {}
    /\ once = NoCloser /\ xpc = [j \in Closers |-> "idle"]

-----------------------------------------------------------------------------
(* Connect: spawnWithRetry, then three goroutines.                          *)

\* cmd.Start answers "text file busy".  Mutant: retried without a limit.
BusyForEver ==
    /\ connect = "spawning"
    /\ attempt' = attempt + 1
    /\ UNCHANGED <<connect, child, pipes, drain, loop, watching, state, closing>>
SpawnBusy ==
    /\ connect = "spawning"
    /\ IF attempt < MaxAttempts
       THEN attempt' = attempt + 1 /\ UNCHANGED connect
       ELSE connect' = "failed" /\ UNCHANGED attempt
    /\ UNCHANGED <<child, pipes, drain, loop, watching, state, closing>>

\* Any other error, or the context ends between attempts.
SpawnFails ==
    /\ connect = "spawning"
    /\ connect' = "failed"
    /\ UNCHANGED <<attempt, child, pipes, drain, loop, watching, state, closing>>

Spawned ==
    /\ connect = "spawning"
    /\ connect' = "up"
    /\ process' = "running" /\ ready' = TRUE
    /\ drain' = "copying" /\ loop' = "reading" /\ watch' = "draining"
    /\ UNCHANGED <<attempt, exitCode, heirs, early, pipes, waitDone, report,
                   shutdownReq, lastErr, closing>>

-----------------------------------------------------------------------------
(* The child (external): it writes, leaves descendants, exits.              *)

Writes(p) ==
    /\ process = "running" /\ wrote[p] < MaxOutput
    /\ wrote' = [wrote EXCEPT ![p] = @ + 1]
    /\ UNCHANGED <<connecting, child, read, pipeClosed, drain, loop, watching,
                   state, closing>>

Inherits ==
    /\ process = "running" /\ heirs = "none"
    /\ heirs' = "holding"
    /\ UNCHANGED <<connecting, process, exitCode, early, pipes, drain, loop,
                   watching, state, closing>>

HeirsExit ==
    /\ heirs = "holding"
    /\ heirs' = "gone"
    /\ UNCHANGED <<connecting, process, exitCode, early, pipes, drain, loop,
                   watching, state, closing>>

\* By itself, on the end of its input or on a signal; a killed child is not
\* clean.
Exits(code) ==
    /\ process = "running"
    /\ killed => code = "nonzero"
    /\ process' = "exited" /\ exitCode' = code
    /\ early' = stdin
    /\ UNCHANGED <<connecting, heirs, pipes, drain, loop, watching, state,
                   closing>>

-----------------------------------------------------------------------------
(* The stderr drain and the demux read loop.                                *)

AtEnd(p) == /\ process \in {"exited", "reaped"} /\ heirs # "holding"
            /\ read[p] = wrote[p]

Copy ==
    /\ drain = "copying"
    /\ \/ /\ ~pipeClosed /\ read["err"] < wrote["err"]
          /\ read' = [read EXCEPT !["err"] = @ + 1] /\ UNCHANGED drain
       \/ /\ pipeClosed \/ AtEnd("err")
          /\ drain' = "done" /\ UNCHANGED read
    /\ UNCHANGED <<connecting, child, wrote, pipeClosed, loop, watching, state,
                   closing>>

\* A line; on a closed demux the loop stops when it has to deliver one.
LoopReads ==
    /\ loop = "reading" /\ ~pipeClosed /\ read["out"] < wrote["out"]
    /\ read' = [read EXCEPT !["out"] = @ + 1]
    /\ \/ UNCHANGED loop
       \/ ~stdin /\ loop' = "stopped"
    /\ UNCHANGED <<connecting, child, wrote, pipeClosed, drain, watching, state,
                   closing>>

\* io.EOF ends the loop silently, any other read error is its loop error.
\* Mutant: a pipe closed under the reader passes for the end of the stream.
ClosedIsEnd == IF pipeClosed \/ AtEnd("out") THEN "eof" ELSE "reading"
LoopEnd == IF pipeClosed THEN "error" ELSE IF AtEnd("out") THEN "eof"
           ELSE "reading"

LoopEnds ==
    /\ loop = "reading"
    /\ loop' = LoopEnd /\ loop' # "reading"
    /\ UNCHANGED <<connecting, child, pipes, drain, watching, state, closing>>

\* Too many malformed lines: terminateOnUnrecoverableError.
FirstError(e) == IF lastErr = "none" THEN e ELSE lastErr

GivesUp ==
    /\ loop = "reading" /\ read["out"] > 0
    /\ loop' = "gaveUp"
    /\ lastErr' = FirstError("giveUp")
    /\ killed' = TRUE
    /\ UNCHANGED <<connecting, child, pipes, drain, watching, ready,
                   shutdownReq, once, xpc, signals, stdin>>

-----------------------------------------------------------------------------
(* watchExit                                                                *)

\* Waits for the drain, or StderrDrainTimeout counted from the spawn.
WatchDrained ==
    /\ watch = "draining" /\ drain = "done"
    /\ watch' = "reaping"
    /\ UNCHANGED <<connecting, child, pipes, drain, loop, waitDone, report,
                   state, closing>>

WatchTimesOut ==
    /\ watch = "draining"
    /\ watch' = "reaping"
    /\ UNCHANGED <<connecting, child, pipes, drain, loop, waitDone, report,
                   state, closing>>

\* cmd.Wait returns once the child has exited, and closes both pipes.
Reap ==
    /\ watch = "reaping" /\ process = "exited"
    /\ process' = "reaped"
    /\ pipeClosed' = TRUE
    /\ watch' = "recording"
    /\ UNCHANGED <<connecting, exitCode, heirs, early, wrote, read, drain, loop,
                   waitDone, report, state, closing>>

\* Under t.mu, before Close is told.  Mutant: ready is not reset.
StaysReady == ready
ReadyWhenReaped == FALSE

Record ==
    /\ watch = "recording"
    /\ ready' = ReadyWhenReaped
    /\ lastErr' = IF ~shutdownReq /\ exitCode # "clean" THEN FirstError("exit")
                  ELSE lastErr
    /\ report' = <<[requested |-> shutdownReq,
                    cause |-> IF shutdownReq THEN "none" ELSE lastErr']>>
    /\ watch' = "publishing"
    /\ UNCHANGED <<connecting, child, pipes, drain, loop, waitDone, shutdownReq,
                   closing>>

\* waitDone has room for the one value it ever gets; then the observer is told.
Publish ==
    /\ watch = "publishing"
    /\ waitDone' = TRUE
    /\ watch' = "done"
    /\ UNCHANGED <<connecting, child, pipes, drain, loop, report, state,
                   closing>>

-----------------------------------------------------------------------------
(* Close                                                                    *)

XGoto(j, label) == xpc' = [xpc EXCEPT ![j] = label]
notClosing == <<connecting, child, pipes, drain, loop, watch, report>>

\* closedOnce: the first caller runs doClose, the others wait for it.
CloseBegins(j) ==
    /\ xpc[j] = "idle" /\ connect = "up"
    /\ IF once = NoCloser
       THEN once' = j /\ XGoto(j, "marking")
       ELSE XGoto(j, "waiting") /\ UNCHANGED once
    /\ UNCHANGED <<notClosing, waitDone, state, signals, killed, stdin>>

OnceDone(j) ==
    /\ xpc[j] = "waiting" /\ xpc[once] = "returned"
    /\ XGoto(j, "returned")
    /\ UNCHANGED <<notClosing, waitDone, state, once, signals, killed,
                   stdin>>

\* shutdownReq is set before anything that makes the child exit.
\* Mutant: it is not.
Unmarked == shutdownReq
Requested == TRUE

Mark(j) ==
    /\ xpc[j] = "marking"
    /\ shutdownReq' = Requested
    /\ XGoto(j, "closingPipes")
    /\ UNCHANGED <<notClosing, waitDone, ready, lastErr, once, signals,
                   killed, stdin>>

\* demux.Close and stdin.Close: both close the same pipe.
ClosePipes(j) ==
    /\ xpc[j] = "closingPipes"
    /\ stdin' = FALSE
    /\ XGoto(j, "grace")
    /\ UNCHANGED <<notClosing, waitDone, state, once, signals, killed>>

\* waitDone fires within ShutdownGrace, TerminateGrace or after SIGKILL.
ExitSeen(j) ==
    /\ xpc[j] \in {"grace", "terminated", "killed"} /\ waitDone
    /\ waitDone' = FALSE
    /\ XGoto(j, "drainingErr")
    /\ UNCHANGED <<notClosing, state, once, signals, killed, stdin>>

\* The stage's timer fires, or the context is done.
Escalate(j) ==
    /\ \/ /\ xpc[j] = "grace"
          /\ signals' = signals \cup {"INT"} /\ UNCHANGED killed
          /\ XGoto(j, "terminated")
       \/ /\ xpc[j] = "terminated"
          /\ killed' = TRUE /\ UNCHANGED signals
          /\ XGoto(j, "killed")
    /\ UNCHANGED <<notClosing, waitDone, state, once, stdin>>

\* drainStderr is bounded too; classifyExit makes any exit a success.
CloseReturns(j) ==
    /\ xpc[j] = "drainingErr"
    /\ XGoto(j, "returned")
    /\ UNCHANGED <<notClosing, waitDone, state, once, signals, killed,
                   stdin>>

CloseStep(j) == \/ OnceDone(j) \/ Mark(j) \/ ClosePipes(j) \/ ExitSeen(j)
                \/ CloseReturns(j)

-----------------------------------------------------------------------------
WatchStep == WatchDrained \/ WatchTimesOut \/ Reap \/ Record \/ Publish
LoopStep == LoopReads \/ LoopEnds \/ GivesUp

Next ==
    \/ SpawnBusy \/ SpawnFails \/ Spawned
    \/ \E p \in Pipes : Writes(p)
    \/ Inherits \/ HeirsExit
    \/ \E code \in {"clean", "nonzero"} : Exits(code)
    \/ Copy \/ LoopStep \/ WatchStep
    \/ \E j \in Closers : CloseBegins(j) \/ CloseStep(j) \/ Escalate(j)

\* Timers fire, goroutines run, SIGKILL kills.  Nothing is assumed of a child
\* that is not killed, nor of its descendants.
Fairness ==
    /\ WF_vars(WatchStep)
    /\ WF_vars(Copy)
    /\ WF_vars(LoopStep)
    /\ WF_vars(killed /\ Exits("nonzero"))
    /\ \A j \in Closers : WF_vars(CloseStep(j)) /\ WF_vars(Escalate(j))

Spec == Init /\ [][Next]_vars /\ Fairness

-----------------------------------------------------------------------------
(* Properties                                                               *)

\* Type invariant of the transport.
TypeOK ==
    /\ connect \in {"spawning", "up", "failed"} /\ attempt \in 1 .. MaxAttempts
    /\ process \in {"none", "running", "exited", "reaped"}
    /\ process = "none" <=> connect # "up"
    /\ exitCode \in {"none", "clean", "nonzero"}
    /\ wrote \in [Pipes -> 0 .. MaxOutput] /\ read \in [Pipes -> 0 .. MaxOutput]
    /\ \A p \in Pipes : read[p] <= wrote[p]
    /\ heirs \in {"none", "holding", "gone"}
    /\ stdin \in BOOLEAN /\ pipeClosed \in BOOLEAN /\ ready \in BOOLEAN
    /\ shutdownReq \in BOOLEAN /\ waitDone \in BOOLEAN /\ killed \in BOOLEAN
    /\ early \in BOOLEAN
    /\ drain \in {"none", "copying", "done"}
    /\ loop \in {"none", "reading", "eof", "error", "gaveUp", "stopped"}
    /\ watch \in {"none", "draining", "reaping", "recording", "publishing",
                  "done"}
    /\ lastErr \in {"none", "giveUp", "exit"}
    /\ signals \subseteq {"INT"}
    /\ once \in Closers \cup {NoCloser}
    /\ xpc \in [Closers -> {"idle", "waiting", "marking", "closingPipes",
          "grace", "terminated", "killed", "drainingErr", "returned"}]

\* A returned Close is a barrier: whoever called it, the child is reaped and
\* Health no longer says ready ("callers cannot observe Ready after a
\* successful close", subprocess_lifecycle.go:62-64).
CloseIsABarrier ==
    (\E j \in Closers : xpc[j] = "returned") => process = "reaped" /\ ~ready

\* OnSubprocessExit calls an exit unrequested only if the child died before
\* Close had asked for it: the ladder's own effects are never an unexpected
\* death, on the observer or in GetError.
RequestedIsHonest ==
    /\ report # <<>> => report[1].requested \/ early
    /\ lastErr = "exit" => early

\* If the read loop ends as at a clean end of file, it has read every line the
\* child wrote: output that cmd.Wait cuts off always surfaces as a loop error.
CleanEndIsComplete == loop = "eof" => read["out"] = wrote["out"]

\* What the client is told of the end, by the observer, by GetError and by the
\* end of the stream, is what happened.
EndIsHonest == RequestedIsHonest /\ CleanEndIsComplete

\* Close returns whatever the child and its descendants do, and a give-up
\* leaves no zombie: the child is reaped without any Close.
ChildIsReaped ==
    /\ \A j \in Closers : xpc[j] # "idle" ~> xpc[j] = "returned"
    /\ loop = "gaveUp" ~> process = "reaped"

-----------------------------------------------------------------------------
(* What the repository says and the code does not do.                       *)

\* The captured stderr is truncated only when a descendant keeps the pipe open
\* (subprocess_lifecycle.go:24-28).
StderrIsComplete ==
    drain = "done" /\ heirs = "none" => read["err"] = wrote["err"]

\* The ladder is end of input, SIGTERM, SIGKILL (subprocess_lifecycle.go:95-101,
\* docs/architecture.md:149-154).
LadderSendsTerm == signals \subseteq {"TERM"}
=============================================================================
