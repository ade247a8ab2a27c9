----------------------------- MODULE MCDispatcher -----------------------------
(* An instance of Dispatcher for TLC.                                       *)
EXTENDS Dispatcher

CONSTANT Other \* a second request besides "initialize"

\* The server's messages are all notifications or all requests, and the second
\* request runs next to the first only where there are no messages.
MessageKinds == {wire[n].kind : n \in DOMAIN wire} \ {"response"}
OneConcern ==
    /\ Cardinality(MessageKinds) <= 1
    /\ pc[Other] = "idle" \/ MessageKinds = {}

OneConcernSpec ==
    DispatcherInit /\ [][DispatcherNext /\ OneConcern']_allVars
                   /\ DispatcherFairness
=============================================================================
