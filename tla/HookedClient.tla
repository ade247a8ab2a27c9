----------------------------- MODULE HookedClient -----------------------------
(****************************************************************************)
(* A Client with a hook callback: Client composed with HookListener.  What  *)
(* Client calls its bridge is here the listener: Connect starts it, the     *)
(* caller that takes the bridge closes it (closeHookBridge), and that       *)
(* caller goes on when the listener's wait group lets it.                   *)
(****************************************************************************)
EXTENDS Client, HookListener

hookedVars == <<vars, hookVars>>

HookedInit == Init /\ HookInit

\* setupHookBridge and closeHookBridge: what a step of the client does to the
\* listener.  Taking the bridge and cancelling its context are one step.
Bridged ==
    \/ bridge' = bridge /\ UNCHANGED hookVars
    \/ bridge # "up" /\ bridge' = "up" /\ Start
    \/ bridge # "tearing" /\ bridge' = "tearing" /\ Cancel
    \/ bridge # "down" /\ bridge' = "down" /\ FinishClose

\* The app-server runs hooks in the sessions of a client that has connected
\* with a bridge.
HasSessions ==
    /\ bridge # "none"
    /\ \E k \in Connecters :
          process[k] = "running" /\ result[k] = "connected"

HookStep ==
    /\ \/ \E f \in Fires :
             \/ HasSessions /\ Fire(f)
             \/ ShimStep(f) \/ Accept(f) \/ ServeStep(f) \/ CallbackReturns(f)
       \/ AcceptFails \/ BackoffEnds \/ StopListening
    /\ UNCHANGED vars

HookedNext == (Next /\ Bridged) \/ HookStep

\* Local steps go on, with the listener's part of each, and deadlines pass.
\* The handshake may hang until its context is cancelled or its demux closed;
\* the dispatcher must leave once cancelled; a callback may run for ever, and
\* nothing says that Accept succeeds.
HookedFairness ==
    /\ \A k \in Connecters :
          /\ WF_hookedVars(ConnectStep(k) /\ Bridged)
          /\ WF_hookedVars((k \in cancelled \/ k \in demuxClosed)
                           /\ InitializeFails(k) /\ Bridged)
    /\ \A j \in Closers : WF_hookedVars(CloseStep(j) /\ Bridged)
    /\ WF_hookedVars(dispCancel /\ DispatcherLeaves /\ Bridged)
    /\ WF_hookedVars(DispatcherDone /\ Bridged)
    /\ \A f \in Fires :
          /\ WF_hookedVars(ShimStep(f) /\ UNCHANGED vars)
          /\ WF_hookedVars(ServeStep(f) /\ UNCHANGED vars)
    /\ WF_hookedVars(((listener # "up" /\ AcceptFails) \/ BackoffEnds
                      \/ StopListening) /\ UNCHANGED vars)

HookedSpec == HookedInit /\ [][HookedNext]_hookedVars /\ HookedFairness

-----------------------------------------------------------------------------
(* Properties                                                               *)

\* Type invariant of the composition; the bridge of Client is its listener.
HookedTypeOK ==
    /\ TypeOK /\ HookTypeOK
    /\ (bridge = "none") = (listener = "none")
    /\ (bridge = "up") = (listener = "up")
    /\ (bridge = "down") = (listener = "closed")

\* Once Close and every Connect have returned, the user's handler rests: no
\* connection is served and none can be accepted, so no callback starts any
\* more.  (One that ignores its context may still run.)
HandlerRests ==
    /\ \A j \in Closers : xpc[j] \in {"idle", "returned"}
    /\ \E j \in Closers : CloseWon(j)
    /\ \A k \in Connecters : ConnectReturned(k)
    =>
    \A f \in Fires : conn[f] \in {"none", "closed"}

\* Every call ends: Close, and a Connect it catches, whatever the callbacks
\* and the shims do; and every hook ends whatever the callback and the client
\* do, so that codex is never held up for ever.  Each of them begins once, so
\* that all of them end if again and again none is under way.
AllAtRest ==
    /\ \A j \in Closers : xpc[j] \in {"idle", "returned"}
    /\ closed => \A k \in Connecters : ConnectReturned(k)
    /\ \A f \in Fires : shim[f] \in {"idle", "exited"}
EveryCallEnds == []<>AllAtRest
=============================================================================
