----------------------------- MODULE EventStream -----------------------------
(****************************************************************************)
(* What Client.SubscribeThreadEvents promises each subscriber: the events   *)
(* of the client from the moment of subscription, in order and without a    *)
(* hole, and, when one of them could not be given, a terminal gap record.   *)
(* A stream that ends without a record was cancelled, or the client or its  *)
(* event source is over.                                                    *)
(****************************************************************************)
EXTENDS Naturals, Sequences

CONSTANT Subscribers

Gap == 0   \* the terminal record; events are numbered from 1

VARIABLES
    log,       \* what the source produced: "event" or "damage"
    status,    \* "none", "open" or "ended"
    start,     \* length of the log at subscription
    stream,    \* records put into the subscriber's channel
    cancelled, \* subscribers whose context is done
    over       \* the client is closed or the source has ended

vars == <<log, status, start, stream, cancelled, over>>

\* The next log entry the subscriber is owed.
Due(s) == start[s] + Len(stream[s]) + 1

Init ==
    /\ log = <<>>
    /\ status = [s \in Subscribers |-> "none"]
    /\ start = [s \in Subscribers |-> 0]
    /\ stream = [s \in Subscribers |-> <<>>]
    /\ cancelled = {}
    /\ over = FALSE

Produce ==
    /\ \E k \in {"event", "damage"} : log' = Append(log, k)
    /\ UNCHANGED <<status, start, stream, cancelled, over>>

Subscribe(s) ==
    /\ status[s] = "none"
    /\ status' = [status EXCEPT ![s] = "open"]
    /\ start' = [start EXCEPT ![s] = Len(log)]
    /\ UNCHANGED <<log, stream, cancelled, over>>

\* The event owed, never a later one.
Forward(s) ==
    /\ status[s] = "open"
    /\ Due(s) <= Len(log) /\ log[Due(s)] = "event"
    /\ stream' = [stream EXCEPT ![s] = Append(@, Due(s))]
    /\ UNCHANGED <<log, status, start, cancelled, over>>

\* The entry owed will not be given, or nothing more will come.
Break(s) ==
    /\ status[s] = "open"
    /\ Due(s) <= Len(log) \/ over
    /\ stream' = [stream EXCEPT ![s] = Append(@, Gap)]
    /\ status' = [status EXCEPT ![s] = "ended"]
    /\ UNCHANGED <<log, start, cancelled, over>>

Finish(S) ==
    /\ \A s \in S : status[s] = "open" => s \in cancelled \/ over
    /\ status' = [s \in Subscribers |->
                     IF s \in S /\ status[s] = "open" THEN "ended"
                     ELSE status[s]]
    /\ UNCHANGED <<log, start, stream, cancelled, over>>

Cancel(s) ==
    /\ cancelled' = cancelled \cup {s}
    /\ UNCHANGED <<log, status, start, stream, over>>

End ==
    /\ over' = TRUE
    /\ UNCHANGED <<log, status, start, stream, cancelled>>

Next ==
    \/ Produce \/ End
    \/ \E s \in Subscribers : Subscribe(s) \/ Forward(s) \/ Break(s) \/ Cancel(s)
    \/ \E S \in SUBSET Subscribers : Finish(S)

Spec == Init /\ [][Next]_vars
=============================================================================
