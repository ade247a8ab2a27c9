----------------------------- MODULE ThreadEvents -----------------------------
(****************************************************************************)
(* client_thread_events.go with the parts of client_dispatch.go and         *)
(* client.go that drive it: the client-wide event subscriptions.            *)
(*                                                                          *)
(* Actors: the dispatcher goroutine, one caller of SubscribeThreadEvents,   *)
(* its context watcher and its consumer per subscriber, and Client.Close.   *)
(* The shared state is the subscriber map (under c.mu), each subscriber's   *)
(* channel (under its own mutex) and the atomics closed and connected.      *)
(*                                                                          *)
(* A subscriber's channel is `sent`, everything put into it, with `read`    *)
(* records of it received.  Events are numbered by their place in `log`;    *)
(* 0 is a gap record.                                                       *)
(****************************************************************************)
EXTENDS Naturals, Sequences, FiniteSets

CONSTANTS
    Subscribers,  \* calls of SubscribeThreadEvents
    NoSubscriber,
    Buffer,       \* eventCapacity, 1..4096 in the code
    MaxItems      \* bound: notifications the source produces

ASSUME SubscriberAssumption == NoSubscriber \notin Subscribers
ASSUME BufferAssumption == Buffer \in Nat \ {0} /\ MaxItems \in Nat

VARIABLES
    closed,     \* Client.closed
    connected,  \* Client.connected
    registered, \* Client.threadEventSubscribers
    status,     \* per subscriber: none, checked, refused, open, ended
    sent, read, \* its channel
    start,      \* length of the log when it was registered
    watcher,    \* its context goroutine: none, waiting, removing, done
    cancelled,  \* subscribers whose context is done
    log,        \* notifications the dispatcher took, "event" or "damage"
    source,     \* open, ended (by itself), or stopped (by Close)
    dispatcher, \* where the dispatch goroutine stands
    todo,       \* the snapshot it is working through
    forget,     \* the subscriber it must remove next
    then,       \* where it goes when the snapshot is done
    ctxDone,    \* dispatcherCancel was called
    closing     \* progress of Client.Close

subVars == <<registered, status, sent, read, start>>
ctxVars == <<watcher, cancelled>>
dispVars == <<log, dispatcher, todo, forget, then>>
vars == <<closed, connected, registered, status, sent, read, start, watcher,
          cancelled, log, source, dispatcher, todo, forget, then, ctxDone,
          closing>>

Gap == 0
SourceOver == source # "open"
Unread(s) == Len(sent[s]) - read[s]

Init ==
    /\ closed = FALSE /\ connected = TRUE
    /\ registered = {}
    /\ status = [s \in Subscribers |-> "none"]
    /\ sent = [s \in Subscribers |-> <<>>]
    /\ read = [s \in Subscribers |-> 0]
    /\ start = [s \in Subscribers |-> 0]
    /\ watcher = [s \in Subscribers |-> "none"]
    /\ cancelled = {}
    /\ log = <<>>
    /\ source = "open"
    /\ dispatcher = "receiving"
    /\ todo = {} /\ forget = NoSubscriber /\ then = "receiving"
    /\ ctxDone = FALSE
    /\ closing = "no"

-----------------------------------------------------------------------------
(* SubscribeThreadEvents, its watcher goroutine, and the consumer.          *)

\* The two unlocked checks of closed and connected.
SubscribeCheck(s) ==
    /\ status[s] = "none"
    /\ status' = [status EXCEPT ![s] = IF closed \/ ~connected
                                       THEN "refused" ELSE "checked"]
    /\ UNCHANGED <<closed, connected, registered, sent, read, start, ctxVars,
                   dispVars, source, ctxDone, closing>>

\* Under c.mu: check both again, enter the map, start the watcher.
Admits == ~closed /\ connected

SubscribeRegister(s) ==
    /\ status[s] = "checked"
    /\ \/ /\ Admits
          /\ status' = [status EXCEPT ![s] = "open"]
          /\ registered' = registered \cup {s}
          /\ start' = [start EXCEPT ![s] = Len(log)]
          /\ watcher' = [watcher EXCEPT ![s] = "waiting"]
       \/ /\ ~Admits
          /\ status' = [status EXCEPT ![s] = "refused"]
          /\ UNCHANGED <<registered, start, watcher>>
    /\ UNCHANGED <<closed, connected, sent, read, cancelled, dispVars, source,
                   ctxDone, closing>>

Cancel(s) ==
    /\ status[s] = "open"
    /\ s \notin cancelled
    /\ cancelled' = cancelled \cup {s}
    /\ UNCHANGED <<closed, connected, subVars, watcher, dispVars, source,
                   ctxDone, closing>>

\* The watcher's select: ctx.Done removes the subscriber from the map, then
\* closes it; subscriber.done just ends the goroutine.
WatcherWakes(s) ==
    /\ watcher[s] = "waiting"
    /\ \/ /\ s \in cancelled
          /\ watcher' = [watcher EXCEPT ![s] = "removing"]
          /\ registered' = registered \ {s}
       \/ /\ status[s] = "ended"
          /\ watcher' = [watcher EXCEPT ![s] = "done"]
          /\ UNCHANGED registered
    /\ UNCHANGED <<closed, connected, status, sent, read, start, cancelled,
                   dispVars, source, ctxDone, closing>>

WatcherCloses(s) ==
    /\ watcher[s] = "removing"
    /\ watcher' = [watcher EXCEPT ![s] = "done"]
    /\ status' = [status EXCEPT ![s] = "ended"]
    /\ UNCHANGED <<closed, connected, registered, sent, read, start, cancelled,
                   dispVars, source, ctxDone, closing>>

Receive(s) ==
    /\ Unread(s) > 0
    /\ read' = [read EXCEPT ![s] = @ + 1]
    /\ UNCHANGED <<closed, connected, registered, status, sent, start, ctxVars,
                   dispVars, source, ctxDone, closing>>

-----------------------------------------------------------------------------
(* dispatch                                                                 *)

notDispatcher == <<closed, read, start, ctxVars, source, ctxDone, closing>>

\* A notification is taken.  publishThreadEvent and
\* failThreadEventSubscriptions both copy the map under c.mu first.  Damage is
\* a decode error, a parse error or a missing thread id; notifications that
\* belong to no thread change nothing here.
Take ==
    /\ dispatcher = "receiving"
    /\ source = "open"
    /\ Len(log) < MaxItems
    /\ \/ log' = Append(log, "event") /\ dispatcher' = "publishing"
       \/ log' = Append(log, "damage") /\ dispatcher' = "failing"
    /\ todo' = registered
    /\ then' = "receiving"
    /\ UNCHANGED <<notDispatcher, connected, registered, status, sent, forget>>

\* threadEventSubscriber.deliver under the subscriber's mutex: the last slot
\* is kept for the overflow record.  Mutants: an off-by-one that uses the
\* reserved slot; an overflow that skips the event; an overflow record that
\* leaves the subscriber open.
FullLate(s) == Unread(s) > Buffer
Full(s) == Unread(s) >= Buffer

OverflowSkips(s) == UNCHANGED <<sent, status>> /\ forget' = NoSubscriber
OverflowStaysOpen(s) ==
    /\ sent' = [sent EXCEPT ![s] = Append(@, Gap)]
    /\ forget' = s
    /\ UNCHANGED status
Overflow(s) ==
    /\ sent' = [sent EXCEPT ![s] = Append(@, Gap)]
    /\ status' = [status EXCEPT ![s] = "ended"]
    /\ forget' = s

Deliver(s) ==
    /\ dispatcher = "publishing" /\ forget = NoSubscriber
    /\ s \in todo
    /\ todo' = todo \ {s}
    /\ \/ /\ status[s] = "ended"
          /\ forget' = s
          /\ UNCHANGED <<sent, status>>
       \/ /\ status[s] = "open" /\ Full(s)
          /\ Overflow(s)
       \/ /\ status[s] = "open" /\ ~Full(s)
          /\ sent' = [sent EXCEPT ![s] = Append(@, Len(log))]
          /\ UNCHANGED <<status, forget>>
    /\ UNCHANGED <<notDispatcher, connected, registered, log, dispatcher, then>>

\* threadEventSubscriber.fail: the terminal record in the reserved slot.
Fail(s) ==
    /\ dispatcher = "failing" /\ forget = NoSubscriber
    /\ s \in todo
    /\ todo' = todo \ {s}
    /\ \/ /\ status[s] = "ended"
          /\ UNCHANGED <<sent, status, forget>>
       \/ /\ status[s] = "open"
          /\ sent' = [sent EXCEPT ![s] = Append(@, Gap)]
          /\ status' = [status EXCEPT ![s] = "ended"]
          /\ forget' = s
    /\ UNCHANGED <<notDispatcher, connected, registered, log, dispatcher, then>>

\* removeThreadEventSubscriber (its close finds the subscriber closed).
Forget ==
    /\ forget # NoSubscriber
    /\ registered' = registered \ {forget}
    /\ forget' = NoSubscriber
    /\ UNCHANGED <<notDispatcher, connected, status, sent, log, dispatcher,
                   todo, then>>

SnapshotDone ==
    /\ dispatcher \in {"publishing", "failing"}
    /\ todo = {} /\ forget = NoSubscriber
    /\ dispatcher' = then
    /\ UNCHANGED <<notDispatcher, connected, registered, status, sent, log,
                   todo, forget, then>>

\* Every channel closed and drained: unexpected unless the client is closing.
\* Mutant: the check for an intentional shutdown is missing.
UnexpectedAlways == TRUE
Unexpected == ~ctxDone /\ ~closed

SourceSeen ==
    /\ dispatcher = "receiving"
    /\ SourceOver
    /\ dispatcher' = IF Unexpected THEN "disconnecting" ELSE "leaving"
    /\ UNCHANGED <<notDispatcher, connected, registered, status, sent, log,
                   todo, forget, then>>

\* connected.Store(false) comes before the terminal record.
\* Mutant: it is left to the deferred cleanup.
DisconnectsLate == TRUE
DisconnectedFirst == FALSE

Disconnect ==
    /\ dispatcher = "disconnecting"
    /\ connected' = DisconnectedFirst
    /\ dispatcher' = "breaking"
    /\ UNCHANGED <<notDispatcher, registered, status, sent, log, todo, forget,
                   then>>

BreakAll ==
    /\ dispatcher = "breaking"
    /\ todo' = registered
    /\ dispatcher' = "failing" /\ then' = "leaving"
    /\ UNCHANGED <<notDispatcher, connected, registered, status, sent, log,
                   forget>>

\* case <-ctx.Done() of the dispatcher's select.
Cancelled ==
    /\ dispatcher = "receiving"
    /\ ctxDone
    /\ dispatcher' = "leaving"
    /\ UNCHANGED <<notDispatcher, connected, registered, status, sent, log,
                   todo, forget, then>>

\* The deferred function: connected, the map, each subscriber, done.
Leave ==
    /\ dispatcher = "leaving"
    /\ connected' = FALSE
    /\ dispatcher' = "emptying"
    /\ UNCHANGED <<notDispatcher, registered, status, sent, log, todo, forget,
                   then>>

\* closeThreadEventSubscriptions takes the map.  Mutant: it drops it.
LeftBehind == {}
TakenOver == registered

EmptyMap ==
    /\ dispatcher = "emptying"
    /\ todo' = TakenOver
    /\ registered' = {}
    /\ dispatcher' = "sweeping"
    /\ UNCHANGED <<notDispatcher, connected, status, sent, log, forget, then>>

Sweep(s) ==
    /\ dispatcher = "sweeping"
    /\ s \in todo
    /\ todo' = todo \ {s}
    /\ status' = [status EXCEPT ![s] = "ended"]
    /\ UNCHANGED <<notDispatcher, connected, registered, sent, log, dispatcher,
                   forget, then>>

Exit ==
    /\ dispatcher = "sweeping" /\ todo = {}
    /\ dispatcher' = "done"
    /\ UNCHANGED <<notDispatcher, connected, registered, status, sent, log,
                   todo, forget, then>>

-----------------------------------------------------------------------------
(* Client.Close, and the demux whose channels are the source.               *)

CloseBegin ==
    /\ ~closed
    /\ closed' = TRUE
    /\ closing' = "begun"
    /\ UNCHANGED <<connected, subVars, ctxVars, dispVars, source, ctxDone>>

\* stopClientDispatcher: cancel, then demux.Close.
CloseStop ==
    /\ closing = "begun"
    /\ ctxDone' = TRUE
    /\ closing' = "waiting"
    /\ UNCHANGED <<closed, connected, subVars, ctxVars, dispVars, source>>

\* The dispatcher is done, or Close's own context is.
CloseWaited ==
    /\ closing = "waiting"
    /\ closing' = "sweeping"
    /\ UNCHANGED <<closed, connected, subVars, ctxVars, dispVars, source,
                   ctxDone>>

\* Under c.mu: close every subscriber left and drop the map.  The closes touch
\* one subscriber each, so they are one step.
CloseSweep ==
    /\ closing = "sweeping"
    /\ status' = [s \in Subscribers |-> IF s \in registered THEN "ended"
                                        ELSE status[s]]
    /\ registered' = {}
    /\ closing' = "resetting"
    /\ UNCHANGED <<closed, connected, sent, read, start, ctxVars, dispVars,
                   source, ctxDone>>

CloseReset ==
    /\ closing = "resetting"
    /\ connected' = FALSE
    /\ closing' = "done"
    /\ UNCHANGED <<closed, subVars, ctxVars, dispVars, source, ctxDone>>

SourceEnds ==
    /\ source = "open"
    /\ source' = IF closing \in {"no", "begun"} THEN "ended" ELSE "stopped"
    /\ UNCHANGED <<closed, connected, subVars, ctxVars, dispVars, ctxDone,
                   closing>>

-----------------------------------------------------------------------------
DispatcherStep ==
    \/ Take \/ Forget \/ SnapshotDone \/ SourceSeen \/ Disconnect \/ BreakAll
    \/ Cancelled \/ Leave \/ EmptyMap \/ Exit
    \/ \E s \in Subscribers : Deliver(s) \/ Fail(s) \/ Sweep(s)

CloseStep == CloseStop \/ CloseWaited \/ CloseSweep \/ CloseReset

\* Everything has ended and every record was received.
Quiet ==
    /\ dispatcher = "done" /\ closing = "done"
    /\ UNCHANGED vars

Next ==
    \/ \E s \in Subscribers :
          \/ SubscribeCheck(s) \/ SubscribeRegister(s) \/ Cancel(s)
          \/ WatcherWakes(s) \/ WatcherCloses(s) \/ Receive(s)
    \/ DispatcherStep \/ CloseBegin \/ CloseStep \/ SourceEnds \/ Quiet

\* Goroutines that can run do; a Close that has begun goes on.  Nothing makes
\* a consumer receive, a context end or the application close.
Fairness ==
    /\ WF_vars(DispatcherStep)
    /\ WF_vars(CloseStep)
    /\ \A s \in Subscribers : WF_vars(WatcherWakes(s) \/ WatcherCloses(s))

Spec == Init /\ [][Next]_vars /\ Fairness

-----------------------------------------------------------------------------
(* Properties                                                               *)

\* Type invariant of the subscriptions.
TypeOK ==
    /\ closed \in BOOLEAN /\ connected \in BOOLEAN /\ ctxDone \in BOOLEAN
    /\ registered \subseteq {s \in Subscribers : status[s] \in {"open", "ended"}}
    /\ status \in [Subscribers ->
                     {"none", "checked", "refused", "open", "ended"}]
    /\ sent \in [Subscribers -> Seq(Nat)]
    /\ read \in [Subscribers -> Nat]
    /\ start \in [Subscribers -> Nat]
    /\ \A s \in Subscribers : read[s] <= Len(sent[s]) /\ start[s] <= Len(log)
    /\ watcher \in [Subscribers -> {"none", "waiting", "removing", "done"}]
    /\ cancelled \subseteq Subscribers
    /\ log \in Seq({"event", "damage"})
    /\ source \in {"open", "ended", "stopped"}
    /\ dispatcher \in {"receiving", "publishing", "failing", "disconnecting",
                       "breaking", "leaving", "emptying", "sweeping", "done"}
    /\ todo \subseteq Subscribers
    /\ forget \in {s \in Subscribers : status[s] = "ended"} \cup {NoSubscriber}
    /\ then \in {"receiving", "leaving"}
    /\ closing \in {"no", "begun", "waiting", "sweeping", "resetting", "done"}

\* The dispatcher never blocks on a subscriber: an open channel always has the
\* reserved slot free ("guarantees that overflow can be reported without
\* blocking the app-server dispatcher", client_thread_events.go:111-112).
ReservedSlotFree ==
    \A s \in Subscribers : status[s] = "open" => Unread(s) <= Buffer

\* Intentional shutdown closes the streams without a gap
\* (docs/architecture.md:112-116): while nothing was damaged and nobody
\* overflowed, a terminal record means the source ended by itself.
ShutdownIsSilent ==
    \A s \in Subscribers :
        /\ Len(sent[s]) > 0 /\ sent[s][Len(sent[s])] = Gap
        /\ start[s] + Len(sent[s]) > Len(log)
        => source = "ended"

\* A consumer that reacts to the record of a dead source cannot subscribe to
\* it again ("cannot register a subscription on a dead source",
\* client_dispatch.go:52-53).
SawDeadSource ==
    \E s \in Subscribers : /\ Len(sent[s]) > 0 /\ sent[s][Len(sent[s])] = Gap
                           /\ start[s] + Len(sent[s]) > Len(log)
DeadSourceRefuses ==
    [][SawDeadSource =>
          \A s \in Subscribers : status[s] # "open" => status'[s] # "open"]_vars

\* Every stream ends once the client closes, the source ends, or its own
\* context does, whether or not its consumer reads.
StreamsEnd ==
    \A s \in Subscribers :
        (status[s] = "open" /\ (closed \/ SourceOver \/ s \in cancelled))
            ~> status[s] = "ended"

\* The subscriptions implement the abstract streams: each is a gap-free run of
\* the log, with a terminal record exactly where it breaks off.
Streams == INSTANCE EventStream WITH
    status <- [s \in Subscribers |-> IF status[s] \in {"open", "ended"}
                                     THEN status[s] ELSE "none"],
    stream <- sent,
    over <- closed \/ SourceOver
ImplementsStreams == Streams!Spec
=============================================================================
