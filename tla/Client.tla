-------------------------------- MODULE Client --------------------------------
(****************************************************************************)
(* The life of one Client (client.go): concurrent calls of Connect and      *)
(* Close around lifecycleMu, the atomics closed, connected and              *)
(* connectStarted, the transport that Connect publishes for Close, the      *)
(* dispatcher goroutine and the hook bridge.                                *)
(*                                                                          *)
(* The transport is modelled by whether its process runs (AppServer has the *)
(* detail), the handshake by its outcome, the hook bridge by whether its    *)
(* listener and hooks.json are in place (HookConfig has the detail).        *)
(****************************************************************************)
EXTENDS Naturals, FiniteSets

CONSTANTS
    Connecters, \* calls of Client.Connect
    Closers,    \* calls of Client.Close
    Nobody

ASSUME NobodyAssumption == Nobody \notin Connecters

VARIABLES
    closed, connected, connectStarted, \* the atomics
    token,       \* connectToken and connectCancel: the Connect they belong to
    tr,          \* Client.tr and Client.demux: the Connect that made them
    cancelled,   \* Connects whose connectCtx is done
    demuxClosed, \* Connects whose demux is closed
    process,     \* per Connect, its app-server: none, running, exited
    dispatcher,  \* none, running, leaving, done
    dispCancel,  \* dispatcherCancel was called
    bridge,      \* none, up, tearing, down
    swept,       \* Close has closed the threads and subscriptions
    cpc, result, \* where each Connect stands, how it ended
    xpc, snap    \* where each Close stands, its closeSnapshot

connVars == <<cpc, result>>
closeVars == <<swept, xpc, snap>>
vars == <<closed, connected, connectStarted, token, tr, cancelled, demuxClosed,
          process, dispatcher, dispCancel, bridge, swept, cpc, result, xpc,
          snap>>

NoSnap == [cancel |-> Nobody, dispatcher |-> FALSE, tr |-> Nobody]

Init ==
    /\ closed = FALSE /\ connected = FALSE /\ connectStarted = FALSE
    /\ token = Nobody /\ tr = Nobody
    /\ cancelled = {} /\ demuxClosed = {}
    /\ process = [k \in Connecters |-> "none"]
    /\ dispatcher = "none" /\ dispCancel = FALSE
    /\ bridge = "none" /\ swept = FALSE
    /\ cpc = [k \in Connecters |-> "idle"]
    /\ result = [k \in Connecters |-> "none"]
    /\ xpc = [j \in Closers |-> "idle"]
    /\ snap = [j \in Closers |-> NoSnap]

Goto(k, label) == cpc' = [cpc EXCEPT ![k] = label]
GotoX(j, label) == xpc' = [xpc EXCEPT ![j] = label]
\* A Connect that returns an error first tears down what it set up.
Fail(k, label) ==
    /\ Goto(k, label)
    /\ result' = [result EXCEPT ![k] = "failed"]

-----------------------------------------------------------------------------
(* Connect                                                                  *)

\* beginConnect, under lifecycleMu.
MayBegin == ~closed /\ ~connected /\ ~connectStarted

Begin(k) ==
    /\ cpc[k] = "idle"
    /\ \/ /\ MayBegin
          /\ connectStarted' = TRUE
          /\ token' = k
          /\ Goto(k, "bridging")
          /\ UNCHANGED result
       \/ /\ ~MayBegin
          /\ Goto(k, "returned")
          /\ result' = [result EXCEPT ![k] = "refused"]
          /\ UNCHANGED <<connectStarted, token>>
    /\ UNCHANGED <<closed, connected, tr, cancelled, demuxClosed, process,
                   dispatcher, dispCancel, bridge, closeVars>>

\* setupHookBridge under hookBridgeMu: all of it, or an error that undid it;
\* a client without a hook callback has no bridge.
SetupBridge(k) ==
    /\ cpc[k] = "bridging"
    /\ \/ /\ bridge' \in {"none", "up"}
          /\ Goto(k, "spawning") /\ UNCHANGED result
       \/ /\ Fail(k, "cleaning") /\ UNCHANGED bridge
    /\ UNCHANGED <<closed, connected, connectStarted, token, tr, cancelled,
                   demuxClosed, process, dispatcher, dispCancel, closeVars>>

\* AppServer.Connect: the child outlives the connect context.
Spawn(k) ==
    /\ cpc[k] = "spawning"
    /\ \/ /\ process' = [process EXCEPT ![k] = "running"]
          /\ Goto(k, "publishing") /\ UNCHANGED result
       \/ /\ Fail(k, "cleaning") /\ UNCHANGED process
    /\ UNCHANGED <<closed, connected, connectStarted, token, tr, cancelled,
                   demuxClosed, dispatcher, dispCancel, bridge, closeVars>>

\* publishConnectingTransport, under lifecycleMu: from here on Close sees it.
\* Mutant: published although the client is closed.
PublishesAlways == TRUE
MayPublish == ~closed

Publish(k) ==
    /\ cpc[k] = "publishing"
    /\ \/ /\ MayPublish
          /\ tr' = k
          /\ Goto(k, "initializing") /\ UNCHANGED result
       \/ /\ ~MayPublish
          /\ Fail(k, "closingOwn") /\ UNCHANGED tr
    /\ UNCHANGED <<closed, connected, connectStarted, token, cancelled,
                   demuxClosed, process, dispatcher, dispCancel, bridge,
                   closeVars>>

\* Send("initialize") and Notify("initialized"): either may fail at any time.
Initialize(k) ==
    /\ cpc[k] = "initializing"
    /\ k \notin demuxClosed
    /\ Goto(k, "starting") /\ UNCHANGED result
    /\ UNCHANGED <<closed, connected, connectStarted, token, tr, cancelled,
                   demuxClosed, process, dispatcher, dispCancel, bridge,
                   closeVars>>

InitializeFails(k) ==
    /\ cpc[k] = "initializing"
    /\ Fail(k, "checking")
    /\ UNCHANGED <<closed, connected, connectStarted, token, tr, cancelled,
                   demuxClosed, process, dispatcher, dispCancel, bridge,
                   closeVars>>

\* startDispatcher, under lifecycleMu.  Mutant: closed is not looked at again.
StartsAlways == TRUE
MayStart == ~closed

StartDispatcher(k) ==
    /\ cpc[k] = "starting"
    /\ \/ /\ MayStart
          /\ dispatcher' = "running"
          /\ connected' = TRUE
          /\ Goto(k, "clearing")
          /\ result' = [result EXCEPT ![k] = "connected"]
       \/ /\ ~MayStart
          /\ Fail(k, "checking")
          /\ UNCHANGED <<dispatcher, connected>>
    /\ UNCHANGED <<closed, connectStarted, token, tr, cancelled, demuxClosed,
                   process, dispCancel, bridge, closeVars>>

\* closeTransportAfterConnectError leaves the transport to a Close that has
\* already begun.
LeavesItToClose == closed

CheckClosed(k) ==
    /\ cpc[k] = "checking"
    /\ Goto(k, IF LeavesItToClose THEN "cleaning" ELSE "closingOwn")
    /\ UNCHANGED <<closed, connected, connectStarted, token, tr, cancelled,
                   demuxClosed, process, dispatcher, dispCancel, bridge,
                   result, closeVars>>

\* AppServer.Close runs once; a second caller waits for the first.
CloseOwn(k) ==
    /\ cpc[k] = "closingOwn"
    /\ process' = [process EXCEPT ![k] = "exited"]
    /\ demuxClosed' = demuxClosed \cup {k}
    /\ Goto(k, "cleaning")
    /\ UNCHANGED <<closed, connected, connectStarted, token, tr, cancelled,
                   dispatcher, dispCancel, bridge, result, closeVars>>

\* The deferred closeHookBridge of a failed Connect: takeHookBridgeForClose,
\* then the teardown outside the mutex.
BridgeToTake == bridge = "up"

TakeBridge(k) ==
    /\ cpc[k] = "cleaning"
    /\ IF BridgeToTake
       THEN bridge' = "tearing" /\ Goto(k, "tearing")
       ELSE Goto(k, "clearing") /\ UNCHANGED bridge
    /\ UNCHANGED <<closed, connected, connectStarted, token, tr, cancelled,
                   demuxClosed, process, dispatcher, dispCancel, result,
                   closeVars>>

TearBridge(k) ==
    /\ cpc[k] = "tearing"
    /\ bridge' = "down"
    /\ Goto(k, "clearing")
    /\ UNCHANGED <<closed, connected, connectStarted, token, tr, cancelled,
                   demuxClosed, process, dispatcher, dispCancel, result,
                   closeVars>>

\* The deferred clearConnectCancel.
Clear(k) ==
    /\ cpc[k] = "clearing"
    /\ cancelled' = cancelled \cup {k}
    /\ token' = IF token = k THEN Nobody ELSE token
    /\ Goto(k, "returned")
    /\ UNCHANGED <<closed, connected, connectStarted, tr, demuxClosed, process,
                   dispatcher, dispCancel, bridge, result, closeVars>>

ConnectStep(k) ==
    \/ SetupBridge(k) \/ Spawn(k) \/ Publish(k) \/ StartDispatcher(k)
    \/ CheckClosed(k) \/ CloseOwn(k) \/ TakeBridge(k) \/ TearBridge(k)
    \/ Clear(k)

-----------------------------------------------------------------------------
(* The dispatcher and the child process.                                    *)

\* dispatch returns: its context is done, or the demux closed its channels.
DispatcherLeaves ==
    /\ dispatcher = "running"
    /\ dispatcher' = "leaving"
    /\ connected' = FALSE
    /\ UNCHANGED <<closed, connectStarted, token, tr, cancelled, demuxClosed,
                   process, dispCancel, bridge, connVars, closeVars>>

DispatcherDone ==
    /\ dispatcher = "leaving"
    /\ dispatcher' = "done"
    /\ UNCHANGED <<closed, connected, connectStarted, token, tr, cancelled,
                   demuxClosed, process, dispCancel, bridge, connVars,
                   closeVars>>

ProcessExits(k) ==
    /\ process[k] = "running"
    /\ process' = [process EXCEPT ![k] = "exited"]
    /\ UNCHANGED <<closed, connected, connectStarted, token, tr, cancelled,
                   demuxClosed, dispatcher, dispCancel, bridge, connVars,
                   closeVars>>

-----------------------------------------------------------------------------
(* Close                                                                    *)

CloseBegin(j) ==
    /\ xpc[j] = "idle"
    /\ closed' = TRUE
    /\ GotoX(j, IF closed THEN "returned" ELSE "snapshotting")
    /\ UNCHANGED <<connected, connectStarted, token, tr, cancelled,
                   demuxClosed, process, dispatcher, dispCancel, bridge,
                   connVars, swept, snap>>

\* closeSnapshot, under lifecycleMu.  Mutant: a dispatcher is taken for
\* granted.
AssumesDispatcher == TRUE
HasDispatcher == dispatcher # "none"

Snapshot(j) ==
    /\ xpc[j] = "snapshotting"
    /\ snap' = [snap EXCEPT ![j] = [cancel |-> token,
                                    dispatcher |-> HasDispatcher,
                                    tr |-> tr]]
    /\ GotoX(j, "stopping")
    /\ UNCHANGED <<closed, connected, connectStarted, token, tr, cancelled,
                   demuxClosed, process, dispatcher, dispCancel, bridge,
                   connVars, swept>>

\* stopClientDispatcher up to its wait.  Mutant: dispatcherCancel is not called.
ForgetsDispatcher(j) == dispCancel
CancelsDispatcher(j) == dispCancel \/ snap[j].dispatcher

Stop(j) ==
    /\ xpc[j] = "stopping"
    /\ cancelled' = cancelled \cup ({snap[j].cancel} \ {Nobody})
    /\ dispCancel' = CancelsDispatcher(j)
    /\ demuxClosed' = demuxClosed \cup ({snap[j].tr} \ {Nobody})
    /\ GotoX(j, "waiting")
    /\ UNCHANGED <<closed, connected, connectStarted, token, tr, process,
                   dispatcher, bridge, connVars, swept, snap>>

Waited(j) ==
    /\ xpc[j] = "waiting"
    /\ ~snap[j].dispatcher \/ dispatcher = "done"
    /\ GotoX(j, "sweeping")
    /\ UNCHANGED <<closed, connected, connectStarted, token, tr, cancelled,
                   demuxClosed, process, dispatcher, dispCancel, bridge,
                   connVars, swept, snap>>

\* The context given to Close is done first: Close goes on all the same.
WaitExpires(j) ==
    /\ xpc[j] = "waiting"
    /\ GotoX(j, "sweeping")
    /\ UNCHANGED <<closed, connected, connectStarted, token, tr, cancelled,
                   demuxClosed, process, dispatcher, dispCancel, bridge,
                   connVars, swept, snap>>

SweepThreads(j) ==
    /\ xpc[j] = "sweeping"
    /\ swept' = TRUE
    /\ GotoX(j, "terminating")
    /\ UNCHANGED <<closed, connected, connectStarted, token, tr, cancelled,
                   demuxClosed, process, dispatcher, dispCancel, bridge,
                   connVars, snap>>

Terminate(j) ==
    /\ xpc[j] = "terminating"
    /\ process' = [k \in Connecters |-> IF k = snap[j].tr THEN "exited"
                                        ELSE process[k]]
    /\ GotoX(j, "resetting")
    /\ UNCHANGED <<closed, connected, connectStarted, token, tr, cancelled,
                   demuxClosed, dispatcher, dispCancel, bridge, connVars,
                   swept, snap>>

Reset(j) ==
    /\ xpc[j] = "resetting"
    /\ connected' = FALSE /\ connectStarted' = FALSE
    /\ token' = Nobody /\ tr' = Nobody
    /\ GotoX(j, "cleaning")
    /\ UNCHANGED <<closed, cancelled, demuxClosed, process, dispatcher,
                   dispCancel, bridge, connVars, swept, snap>>

CloseTakesBridge(j) ==
    /\ xpc[j] = "cleaning"
    /\ IF bridge = "up"
       THEN bridge' = "tearing" /\ GotoX(j, "tearing")
       ELSE GotoX(j, "returned") /\ UNCHANGED bridge
    /\ UNCHANGED <<closed, connected, connectStarted, token, tr, cancelled,
                   demuxClosed, process, dispatcher, dispCancel, connVars,
                   swept, snap>>

CloseTearsBridge(j) ==
    /\ xpc[j] = "tearing"
    /\ bridge' = "down"
    /\ GotoX(j, "returned")
    /\ UNCHANGED <<closed, connected, connectStarted, token, tr, cancelled,
                   demuxClosed, process, dispatcher, dispCancel, connVars,
                   swept, snap>>

CloseStep(j) ==
    \/ Snapshot(j) \/ Stop(j) \/ Waited(j) \/ SweepThreads(j) \/ Terminate(j)
    \/ Reset(j) \/ CloseTakesBridge(j) \/ CloseTearsBridge(j)

-----------------------------------------------------------------------------
ConnectReturned(k) == cpc[k] \in {"idle", "returned"}

Quiet ==
    /\ \A k \in Connecters : cpc[k] = "returned"
    /\ \A j \in Closers : xpc[j] = "returned"
    /\ UNCHANGED vars

Next ==
    \/ \E k \in Connecters :
          \/ Begin(k) \/ ConnectStep(k) \/ Initialize(k) \/ InitializeFails(k)
          \/ ProcessExits(k)
    \/ DispatcherLeaves \/ DispatcherDone
    \/ \E j \in Closers : CloseBegin(j) \/ CloseStep(j) \/ WaitExpires(j)
    \/ Quiet

\* HookedClient adds the fairness.
Spec == Init /\ [][Next]_vars

-----------------------------------------------------------------------------
(* Properties                                                               *)

\* Type invariant of the client.
TypeOK ==
    /\ closed \in BOOLEAN /\ connected \in BOOLEAN /\ connectStarted \in BOOLEAN
    /\ token \in Connecters \cup {Nobody} /\ tr \in Connecters \cup {Nobody}
    /\ cancelled \subseteq Connecters /\ demuxClosed \subseteq Connecters
    /\ process \in [Connecters -> {"none", "running", "exited"}]
    /\ tr # Nobody => process[tr] # "none"
    /\ dispatcher \in {"none", "running", "leaving", "done"}
    /\ dispCancel \in BOOLEAN /\ swept \in BOOLEAN
    /\ dispCancel => dispatcher # "none"
    /\ bridge \in {"none", "up", "tearing", "down"}
    /\ cpc \in [Connecters -> {"idle", "bridging", "spawning", "publishing",
          "initializing", "starting", "checking", "closingOwn", "cleaning",
          "tearing", "clearing", "returned"}]
    /\ result \in [Connecters -> {"none", "refused", "failed", "connected"}]
    /\ xpc \in [Closers -> {"idle", "snapshotting", "stopping", "waiting",
          "sweeping", "terminating", "resetting", "cleaning", "tearing",
          "returned"}]
    /\ snap \in [Closers -> [cancel : Connecters \cup {Nobody},
                             dispatcher : BOOLEAN,
                             tr : Connecters \cup {Nobody}]]

\* When the winning Close and every Connect have returned, nothing is left:
\* no process, no bridge, no published transport, no dispatcher that was not
\* told to stop, and the client does not say it is connected.
CloseWon(j) == xpc[j] = "returned" /\ swept
NothingAfterClose ==
    /\ \A j \in Closers : xpc[j] \in {"idle", "returned"}
    /\ \E j \in Closers : CloseWon(j)
    /\ \A k \in Connecters : ConnectReturned(k)
    =>
    /\ \A k \in Connecters : process[k] # "running"
    /\ bridge \in {"none", "down"}
    /\ tr = Nobody /\ ~connected
    /\ dispatcher \in {"running", "leaving"} => dispCancel

\* A failed Connect leaves no process behind, except to a Close that has it in
\* its hands or is about to take it from Client.tr; and it has undone its hook
\* bridge, or another caller is undoing it: the user's hooks.json is never
\* left replaced.
InHandsOfClose(k) ==
    \E j \in Closers :
        \/ xpc[j] = "snapshotting" /\ tr = k
        \/ /\ xpc[j] \in {"stopping", "waiting", "sweeping", "terminating"}
           /\ snap[j].tr = k

FailedConnectCleans ==
    \A k \in Connecters :
        cpc[k] = "returned" /\ result[k] = "failed" =>
            /\ process[k] = "running" => InHandsOfClose(k)
            /\ bridge # "up"

\* Whether a Connect fails, loses against Close, or is closed later: what it
\* acquired is released.
NothingLeft == NothingAfterClose /\ FailedConnectCleans

\* The public connected flag never outlives the dispatcher, and a dispatcher
\* never starts on a client whose Close has taken its snapshot without it.
ConnectedIsTrue ==
    /\ connected => dispatcher = "running"
    /\ dispatcher = "running" =>
          \A j \in Closers : xpc[j] \notin {"idle", "snapshotting", "returned"}
                             => snap[j].dispatcher
=============================================================================
