----------------------------- MODULE HookListener -----------------------------
(****************************************************************************)
(* The hook bridge at work (internal/hookbridge/listener.go, decision.go,   *)
(* cmd/codex-sdk-hook-shim/main.go).  For every hook that fires codex runs  *)
(* a shim, which dials the listener's socket, sends the hook's input, waits *)
(* for an answer and exits with it.  The listener serves each connection on *)
(* a goroutine of its own, and runs the user's callback on one more, which  *)
(* it does not wait for once the callback's context has ended.              *)
(*                                                                          *)
(* Time is untimed: a deadline may pass whenever it runs, which covers      *)
(* every HookTimeout.  A request is good or bad: bad stands for a frame     *)
(* above the limit, a frame or an input that is not JSON.                   *)
(****************************************************************************)
EXTENDS Naturals

CONSTANT Fires \* the hooks that fire

VARIABLES
    listener, \* none, up, cancelled, deaf, closed: Close's steps
    loop,     \* acceptLoop: none, accepting, backoff, done
    shim,     \* per fire, its shim: idle, dialing, writing, waiting, exited
    verdict,  \* what the shim exited with
    conn,     \* the listener's side: none, backlog, reading, calling,
              \* answering, closed
    request,  \* what the shim has written: none, good, bad
    callback, \* none, running, or the decision it returned
    answer,   \* the response that serve chose
    response, \* the response that reached the connection
    timedOut  \* one of the fire's deadlines has passed

lifeVars == <<listener, loop>>
hookVars == <<listener, loop, shim, verdict, conn, request, callback, answer,
              response, timedOut>>

Events == {"preToolUse", "postToolUse", "sessionStart", "userPromptSubmit",
           "stop", "unknown"}
Decisions == {"allow", "deny", "ask"}

\* What codex is told: the exit code and what the output says.  Every failure
\* of the shim is silence and exit 0.
Pending == [exit |-> 1, says |-> "nothing"]
FailOpen == [exit |-> 0, says |-> "nothing"]

AllowSays(event) ==
    IF event \in {"userPromptSubmit", "stop"} THEN "approve"
    ELSE IF event \in {"postToolUse", "sessionStart"} THEN "context"
    ELSE "nothing"
DenySays(event) ==
    IF event \in {"preToolUse", "userPromptSubmit", "stop"} THEN "block"
    ELSE "nothing"
\* A decision of none of the three types (nil, or a pointer to one of them) is
\* answered as ask.  Mutant: a refusal without output of its own exits 0.
SilentIsAllow(event, d) ==
    IF d = "deny" /\ DenySays(event) = "block"
    THEN [exit |-> 2, says |-> "block"]
    ELSE IF d = "allow" THEN [exit |-> 0, says |-> AllowSays(event)]
    ELSE FailOpen
DecisionToResponse(event, d) ==
    IF d = "deny" THEN [exit |-> 2, says |-> DenySays(event)]
    ELSE IF d = "allow" THEN [exit |-> 0, says |-> AllowSays(event)]
    ELSE FailOpen

HookInit ==
    /\ listener = "none" /\ loop = "none"
    /\ shim = [f \in Fires |-> "idle"]
    /\ verdict = [f \in Fires |-> Pending]
    /\ conn = [f \in Fires |-> "none"]
    /\ request = [f \in Fires |-> "none"]
    /\ callback = [f \in Fires |-> "none"]
    /\ answer = [f \in Fires |-> Pending]
    /\ response = [f \in Fires |-> Pending]
    /\ timedOut = [f \in Fires |-> FALSE]

-----------------------------------------------------------------------------
(* New and Close.  The caller of Close makes its three steps; the socket's  *)
(* backlog dies with it, and the file goes with the last step at the latest *)

Start ==
    /\ listener = "none"
    /\ listener' = "up" /\ loop' = "accepting"
    /\ UNCHANGED <<shim, verdict, conn, request, callback, answer, response,
                   timedOut>>

Cancel ==
    /\ listener = "up"
    /\ listener' = "cancelled"
    /\ UNCHANGED <<loop, shim, verdict, conn, request, callback, answer,
                   response, timedOut>>

StopListening ==
    /\ listener = "cancelled"
    /\ listener' = "deaf"
    /\ conn' = [f \in Fires |-> IF conn[f] = "backlog" THEN "closed"
                                ELSE conn[f]]
    /\ UNCHANGED <<loop, shim, verdict, request, callback, answer, response,
                   timedOut>>

\* The wait group: the accept loop and every serve, but no callback.
\* Mutant: the goroutine that serves is not counted.
Serving(f) == conn[f] \in {"reading", "calling", "answering"}
OnlyTheLoop == loop = "done"
AllDone == loop = "done" /\ \A f \in Fires : ~Serving(f)

FinishClose ==
    /\ listener = "deaf"
    /\ AllDone
    /\ listener' = "closed"
    /\ UNCHANGED <<loop, shim, verdict, conn, request, callback, answer,
                   response, timedOut>>

-----------------------------------------------------------------------------
(* The shim.                                                                *)

Exit(f, v) ==
    /\ shim' = [shim EXCEPT ![f] = "exited"]
    /\ verdict' = [verdict EXCEPT ![f] = v]

Fire(f) ==
    /\ shim[f] = "idle"
    /\ shim' = [shim EXCEPT ![f] = "dialing"]
    /\ UNCHANGED <<lifeVars, verdict, conn, request, callback, answer,
                   response, timedOut>>

\* net.DialTimeout: refused once the listener is closed; it may fail before.
Dial(f) ==
    /\ shim[f] = "dialing"
    /\ \/ /\ listener \in {"up", "cancelled"}
          /\ shim' = [shim EXCEPT ![f] = "writing"]
          /\ conn' = [conn EXCEPT ![f] = "backlog"]
          /\ UNCHANGED verdict
       \/ Exit(f, FailOpen) /\ UNCHANGED conn
    /\ UNCHANGED <<lifeVars, request, callback, answer, response, timedOut>>

WriteRequest(f) ==
    /\ shim[f] = "writing"
    /\ \/ /\ conn[f] # "closed"
          /\ request' \in {[request EXCEPT ![f] = q] : q \in {"good", "bad"}}
          /\ shim' = [shim EXCEPT ![f] = "waiting"]
          /\ UNCHANGED verdict
       \/ /\ conn[f] = "closed"
          /\ Exit(f, FailOpen) /\ UNCHANGED request
    /\ UNCHANGED <<lifeVars, conn, callback, answer, response, timedOut>>

\* An answer, or the end of the connection without one.
ReadResponse(f) ==
    /\ shim[f] = "waiting"
    /\ \/ response[f] # Pending /\ Exit(f, response[f])
       \/ /\ response[f] = Pending /\ conn[f] = "closed"
          /\ Exit(f, FailOpen)
    /\ UNCHANGED <<lifeVars, conn, request, callback, answer, response,
                   timedOut>>

\* IOTimeout, which runs from the dial on.  Mutant: none is set.
NoDeadline(f) == FALSE
HasDeadline(f) == shim[f] \in {"writing", "waiting"}

ShimExpires(f) ==
    /\ HasDeadline(f)
    /\ Exit(f, FailOpen)
    /\ timedOut' = [timedOut EXCEPT ![f] = TRUE]
    /\ UNCHANGED <<lifeVars, conn, request, callback, answer, response>>

ShimStep(f) ==
    Dial(f) \/ WriteRequest(f) \/ ReadResponse(f) \/ ShimExpires(f)

-----------------------------------------------------------------------------
(* The accept loop.                                                         *)

Accept(f) ==
    /\ loop = "accepting"
    /\ conn[f] = "backlog"
    /\ conn' = [conn EXCEPT ![f] = "reading"]
    /\ UNCHANGED <<lifeVars, shim, verdict, request, callback, answer,
                   response, timedOut>>

\* Accept returns an error: the context tells a Close from a transient one.
AcceptFails ==
    /\ loop = "accepting"
    /\ loop' = IF listener = "up" THEN "backoff" ELSE "done"
    /\ UNCHANGED <<listener, shim, verdict, conn, request, callback, answer,
                   response, timedOut>>

BackoffEnds ==
    /\ loop = "backoff"
    /\ \/ loop' = "accepting"
       \/ listener # "up" /\ loop' = "done"
    /\ UNCHANGED <<listener, shim, verdict, conn, request, callback, answer,
                   response, timedOut>>

-----------------------------------------------------------------------------
(* serve and runHandlerWithRecover.                                         *)

Hangup(f) == conn' = [conn EXCEPT ![f] = "closed"]

\* A good request starts the callback on its own goroutine, and any other ends
\* the connection.
ReadRequest(f) ==
    /\ conn[f] = "reading"
    /\ \/ /\ request[f] = "good"
          /\ conn' = [conn EXCEPT ![f] = "calling"]
          /\ callback' = [callback EXCEPT ![f] = "running"]
       \/ /\ \/ request[f] = "bad"
             \/ request[f] = "none" /\ shim[f] = "exited"
          /\ Hangup(f) /\ UNCHANGED callback
    /\ UNCHANGED <<lifeVars, shim, verdict, request, answer, response,
                   timedOut>>

ReadExpires(f) ==
    /\ conn[f] = "reading"
    /\ Hangup(f)
    /\ timedOut' = [timedOut EXCEPT ![f] = TRUE]
    /\ UNCHANGED <<lifeVars, shim, verdict, request, callback, answer,
                   response>>

\* The callback returns, or panics, which counts as allow.  It may never do so,
\* and it may do so long after its connection has ended.
CallbackReturns(f) ==
    /\ callback[f] = "running"
    /\ callback' \in {[callback EXCEPT ![f] = d] : d \in Decisions}
    /\ UNCHANGED <<lifeVars, shim, verdict, conn, request, answer, response,
                   timedOut>>

\* The select: the decision, or the end of the callback's context, which either
\* its timeout or Close brings.  When both are ready, either is taken.
\* Mutant: the callback is waited for without its context.
WaitsForCallback(f) == FALSE
MayGiveUp(f) == conn[f] = "calling"

TakeDecision(f) ==
    /\ conn[f] = "calling" /\ callback[f] \in Decisions
    /\ conn' = [conn EXCEPT ![f] = "answering"]
    /\ \E event \in Events :
          answer' = [answer EXCEPT
                        ![f] = DecisionToResponse(event, callback[f])]
    /\ UNCHANGED <<lifeVars, shim, verdict, request, callback, response,
                   timedOut>>

GiveUp(f) ==
    /\ MayGiveUp(f)
    /\ conn' = [conn EXCEPT ![f] = "answering"]
    /\ \E event \in Events :
          answer' = [answer EXCEPT ![f] = DecisionToResponse(event, "allow")]
    /\ timedOut' = [timedOut EXCEPT ![f] = @ \/ listener = "up"]
    /\ UNCHANGED <<lifeVars, shim, verdict, request, callback, response>>

\* The response is written unless the shim has gone or the deadline passes.
Respond(f) ==
    /\ conn[f] = "answering"
    /\ Hangup(f)
    /\ \/ /\ shim[f] = "waiting"
          /\ response' = [response EXCEPT ![f] = answer[f]]
          /\ UNCHANGED timedOut
       \/ shim[f] = "exited" /\ UNCHANGED <<response, timedOut>>
       \/ timedOut' = [timedOut EXCEPT ![f] = TRUE] /\ UNCHANGED response
    /\ UNCHANGED <<lifeVars, shim, verdict, request, callback, answer>>

ServeStep(f) ==
    \/ ReadRequest(f) \/ ReadExpires(f) \/ TakeDecision(f) \/ GiveUp(f)
    \/ Respond(f)

-----------------------------------------------------------------------------
(* Properties                                                               *)

Responses == [exit : {0, 2}, says : {"nothing", "context", "approve", "block"}]

\* Type invariant of the listener and the shims.
HookTypeOK ==
    /\ listener \in {"none", "up", "cancelled", "deaf", "closed"}
    /\ loop \in {"none", "accepting", "backoff", "done"}
    /\ shim \in [Fires -> {"idle", "dialing", "writing", "waiting", "exited"}]
    /\ conn \in [Fires -> {"none", "backlog", "reading", "calling",
                           "answering", "closed"}]
    /\ request \in [Fires -> {"none", "good", "bad"}]
    /\ callback \in [Fires -> {"none", "running"} \cup Decisions]
    /\ verdict \in [Fires -> Responses \cup {Pending}]
    /\ answer \in [Fires -> Responses \cup {Pending}]
    /\ response \in [Fires -> Responses \cup {Pending}]
    /\ timedOut \in [Fires -> BOOLEAN]
    /\ \A f \in Fires :
          /\ (shim[f] = "exited") = (verdict[f] # Pending)
          /\ callback[f] # "none" => request[f] = "good"

\* Codex is told to block by the user's decision and nothing else; a decision
\* to block arrives unless a deadline of its fire passed or the bridge was
\* being closed; and the output never contradicts the exit code.
HookVerdicts ==
    \A f \in Fires : shim[f] = "exited" =>
        /\ verdict[f].exit = 2 => callback[f] = "deny"
        /\ callback[f] = "deny" /\ verdict[f].exit = 0 =>
              timedOut[f] \/ listener # "up"
        /\ verdict[f].says = "block" => verdict[f].exit = 2
        /\ verdict[f].says = "approve" => verdict[f].exit = 0

-----------------------------------------------------------------------------
(* What the repository says and the code does not do.                       *)

\* Close "waits for in-flight hook callbacks to finish (bounded by their own
\* timeouts)" (listener.go:120-121): once it has returned, none runs.
CloseWaitsForCallbacks ==
    listener = "closed" => \A f \in Fires : callback[f] # "running"

\* The same of the decision: Close leaves a callback its own time, so that one
\* that blocks within it blocks codex.
CloseHearsCallbacks ==
    \A f \in Fires :
        shim[f] = "exited" /\ callback[f] = "deny" /\ verdict[f].exit = 0
            => timedOut[f]
=============================================================================
