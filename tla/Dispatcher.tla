------------------------------ MODULE Dispatcher ------------------------------
(****************************************************************************)
(* The multiplexer of Demux with the goroutines that use it: Connect, which *)
(* sends "initialize" before anybody drains the message channel; the one    *)
(* dispatcher goroutine (client_dispatch.go), which drains it and runs the  *)
(* approval callback; the callers of other requests; and Client.Close,      *)
(* called by the application or, against docs/approvals.md, by the callback.*)
(*                                                                          *)
(* All of them wait for one another through one bounded channel.  Client    *)
(* has the other steps of Connect and Close, EventRouting and FileApproval  *)
(* what a notification or a file request does.                              *)
(****************************************************************************)
EXTENDS Demux

CONSTANT Hello \* the Send of "initialize"

ASSUME HelloAssumption == Hello \in Calls

VARIABLES
    connect,   \* Connect: sending, starting, connected, failed, abandoned
    disp,      \* the dispatcher: none, idle, callback, left
    request,   \* the line of the request the callback looks at, 0 for none
    inner,     \* the Send the callback waits for
    answered,  \* the lines of the requests whose response was written
    cancelled, \* dispatcherCtx is done
    closer,    \* Close: idle, snapshotting, stopping, waiting, returned
    closeBy,   \* who called it: application, callback
    waits,     \* closeSnapshot saw a dispatcher to wait for
    expired    \* Close returned because its context was done

clientVars == <<connect, disp, request, inner, answered, cancelled, closer,
                closeBy, waits, expired>>
allVars == <<vars, clientVars>>

DispatcherInit ==
    /\ Init
    /\ connect = "sending" /\ disp = "none"
    /\ request = 0 /\ inner = NoCall /\ answered = {}
    /\ cancelled = FALSE
    /\ closer = "idle" /\ closeBy = "application"
    /\ waits = FALSE /\ expired = FALSE

ClientClosed == closer # "idle"
Writes == ~WriterClosed /\ alive

-----------------------------------------------------------------------------
(* Connect: Demux.Send of "initialize", Notify("initialized"),              *)
(* startDispatcher.                                                         *)

ConnectSends ==
    /\ connect = "sending"
    /\ SendNumber(Hello)
    /\ UNCHANGED clientVars

\* closeTransportAfterConnectError leaves the transport to a Close that has
\* already begun.
Failed == IF ClientClosed THEN "abandoned" ELSE "failed"

\* The Send returned; its answer may be an error, and Notify may fail.
ConnectAnnounces ==
    /\ connect = "sending" /\ pc[Hello] = "returned"
    /\ \/ outcome[Hello] = "response" /\ Writes /\ connect' = "starting"
       \/ connect' = Failed
    /\ UNCHANGED <<vars, disp, request, inner, answered, cancelled, closer,
                   closeBy, waits, expired>>

\* startDispatcher, under lifecycleMu.  Mutant: closed is not looked at again.
StartsAlways == TRUE
MayStart == ~ClientClosed

StartDispatcher ==
    /\ connect = "starting"
    /\ IF MayStart THEN connect' = "connected" /\ disp' = "idle"
                   ELSE connect' = Failed /\ UNCHANGED disp
    /\ UNCHANGED <<vars, request, inner, answered, cancelled, closer, closeBy,
                   waits, expired>>

ConnectStep == ConnectAnnounces \/ StartDispatcher

-----------------------------------------------------------------------------
(* Other requests: sendRaw and its likes look at the flags, then send.      *)

CanSend == connect = "connected" /\ disp # "left" /\ ~ClientClosed

CallerSends(c) ==
    /\ c # Hello /\ CanSend
    /\ SendNumber(c)
    /\ UNCHANGED clientVars

-----------------------------------------------------------------------------
(* dispatch                                                                 *)

\* handleNotification never waits: the notification is gone in one step.
DispatchNotification ==
    /\ disp = "idle" /\ QueueLen > 0
    /\ delivered[taken + 1].kind # "request"
    /\ Take
    /\ UNCHANGED clientVars

\* handleServerRequest up to the callback, which runs on this goroutine.
DispatchRequest ==
    /\ disp = "idle" /\ QueueLen > 0
    /\ delivered[taken + 1].kind = "request"
    /\ Take
    /\ disp' = "callback"
    /\ request' = delivered[taken + 1].at
    /\ UNCHANGED <<connect, inner, answered, cancelled, closer, closeBy, waits,
                   expired>>

\* The callback sends a request of its own and waits for the answer.
CallbackSends(c) ==
    /\ disp = "callback" /\ inner = NoCall
    /\ c # Hello /\ CanSend
    /\ SendNumber(c)
    /\ inner' = c
    /\ UNCHANGED <<connect, disp, request, answered, cancelled, closer,
                   closeBy, waits, expired>>

\* The callback calls Close and waits for it.
CallbackCloses ==
    /\ disp = "callback" /\ inner = NoCall
    /\ ~ClientClosed
    /\ closer' = "snapshotting" /\ closeBy' = "callback"
    /\ UNCHANGED <<vars, connect, disp, request, inner, answered, cancelled,
                   waits, expired>>

\* The callback returns and RespondServerRequest writes its decision; a
\* failed write is logged.
CallbackReturns ==
    /\ disp = "callback"
    /\ inner # NoCall => pc[inner] = "returned"
    /\ closeBy = "callback" => closer = "returned"
    /\ disp' = "idle"
    /\ answered' = IF Writes THEN answered \cup {request} ELSE answered
    /\ request' = 0 /\ inner' = NoCall
    /\ UNCHANGED <<vars, connect, cancelled, closer, closeBy, waits, expired>>

\* The loop of dispatch ends: its context is done, or the channel is closed
\* and drained.
MayLeave == cancelled \/ (loop = "exited" /\ QueueLen = 0)

DispatcherLeaves ==
    /\ disp = "idle" /\ MayLeave
    /\ disp' = "left"
    /\ UNCHANGED <<vars, connect, request, inner, answered, cancelled, closer,
                   closeBy, waits, expired>>

-----------------------------------------------------------------------------
(* Client.Close up to the end of its wait.                                  *)

ApplicationCloses ==
    /\ ~ClientClosed
    /\ closer' = "snapshotting"
    /\ UNCHANGED <<vars, connect, disp, request, inner, answered, cancelled,
                   closeBy, waits, expired>>

\* closeSnapshot, then dispatcherCancel.  Mutant: no dispatcher is waited for.
WaitsForNobody == FALSE
HasDispatcher == disp # "none"

CloseCancels ==
    /\ closer = "snapshotting"
    /\ waits' = HasDispatcher
    /\ cancelled' = HasDispatcher
    /\ closer' = "stopping"
    /\ UNCHANGED <<vars, connect, disp, request, inner, answered, closeBy,
                   expired>>

\* Demux.Close: for Close, or for a Connect that failed and closes its
\* transport.
MayCloseDemux == closer = "stopping" \/ connect = "failed"

CloseDemux ==
    /\ MayCloseDemux
    /\ CloseDrop \/ CloseWriter \/ CloseStop
    /\ UNCHANGED clientVars

\* stopClientDispatcher's select.  Mutant: the context is not looked at.
NeverExpires == FALSE
MayExpire == closer = "waiting"

CloseWaits ==
    /\ closer = "stopping" /\ Stopped
    /\ closer' = "waiting"
    /\ UNCHANGED <<vars, connect, disp, request, inner, answered, cancelled,
                   closeBy, waits, expired>>

CloseWaited ==
    /\ closer = "waiting"
    /\ waits => disp = "left"
    /\ closer' = "returned"
    /\ UNCHANGED <<vars, connect, disp, request, inner, answered, cancelled,
                   closeBy, waits, expired>>

CloseExpires ==
    /\ MayExpire
    /\ closer' = "returned" /\ expired' = TRUE
    /\ UNCHANGED <<vars, connect, disp, request, inner, answered, cancelled,
                   closeBy, waits>>

CloseStep == CloseCancels \/ CloseWaits \/ CloseWaited

-----------------------------------------------------------------------------
\* The steps of Demux that belong to no goroutine above.
SendGoesOn(c) ==
    \/ SendRegister(c) \/ SendWrite(c) \/ SendReceive(c) \/ SendStopped(c)
    \/ SendDetach(c)

Multiplexer ==
    /\ \/ \E c \in Calls : SendGoesOn(c) \/ SendCancel(c) \/ ServerAnswer(c)
       \/ LoopStep \/ ServerEmit \/ ServerExit
    /\ UNCHANGED clientVars

AllQuiet == loop = "exited" /\ Stopped /\ UNCHANGED allVars

DispatcherNext ==
    \/ ConnectSends \/ ConnectStep
    \/ \E c \in Calls : CallerSends(c) \/ CallbackSends(c)
    \/ DispatchNotification \/ DispatchRequest \/ DispatcherLeaves
    \/ CallbackCloses \/ CallbackReturns
    \/ ApplicationCloses \/ CloseStep \/ CloseExpires \/ CloseDemux
    \/ Multiplexer
    \/ AllQuiet

\* Every goroutine goes on when it can.  A callback waits for the user as long
\* as the user likes, but not past the end of its context, as docs/approvals.md
\* asks; a Close in a callback has a context that ends; nothing makes the
\* application close or cancel a request.
DispatcherFairness ==
    /\ \A c \in Calls : WF_allVars(SendGoesOn(c) /\ UNCHANGED clientVars)
    /\ WF_allVars(ConnectStep)
    /\ WF_allVars(LoopStep /\ UNCHANGED clientVars)
    /\ WF_allVars(DispatchNotification \/ DispatchRequest \/ DispatcherLeaves)
    /\ WF_allVars(CallbackReturns /\ (cancelled \/ inner # NoCall))
    /\ WF_allVars(CloseStep) /\ WF_allVars(CloseDemux)
    /\ WF_allVars(CloseExpires /\ closeBy = "callback")
    /\ WF_allVars(WriterClosed /\ ServerExit /\ UNCHANGED clientVars)

DispatcherSpec ==
    DispatcherInit /\ [][DispatcherNext]_allVars /\ DispatcherFairness

-----------------------------------------------------------------------------
(* Properties                                                               *)

\* Close is a barrier for callbacks (the one that closes: a second one returns
\* at once, client.go:455-457): when it returns without error, whenever
\* it came to a Connect, the dispatcher is gone, and no callback starts or
\* answers any more (stopClientDispatcher, startDispatcher).
CloseIsFinal ==
    closer = "returned" /\ ~expired => disp \in {"none", "left"}

\* The read loop is held up by the full channel, which nobody drains: Connect
\* has not started the dispatcher yet, or the dispatcher is in a callback.
HeldUp ==
    /\ loop = "delivering" /\ QueueLen = QueueCap
    /\ disp \in {"none", "callback"}

\* An answer on the wire returns its Send, that of Connect and one that a
\* callback waits for included, unless the loop ends first or is held up by
\* QueueCap messages nobody takes (deliverServerMessage: the capacity is what
\* makes "Connect with nobody reading" work, demux_ordered.go).
OnTheWire(c) == \E n \in DOMAIN wire : wire[n].from = c
AnswersReturn ==
    \A c \in Calls :
        []<>(pc[c] # "waiting" \/ ~OnTheWire(c) \/ loop = "exited" \/ HeldUp)

\* Close ends, though the callback on whose goroutine it waits waits for it,
\* and with it end every Send, the read loop and the dispatcher.
AllEnded ==
    /\ loop = "exited" /\ disp \in {"none", "left"}
    /\ \A c \in Calls : pc[c] \in {"idle", "returned"}
CloseEndsAll == []<>(~ClientClosed \/ (closer = "returned" /\ AllEnded))

\* Nobody waits for ever but for the user, the server or a full channel.
WaitsEnd == AnswersReturn /\ CloseEndsAll
=============================================================================
