---------------------------- MODULE ThreadRegistry ----------------------------
(****************************************************************************)
(* Client.threads: which handle the notifications of a thread id go to.     *)
(* StartThread, ResumeThread and ForkThread register the handle they return,*)
(* ArchiveThread unregisters an id, the dispatcher looks a handle up and    *)
(* delivers to it after it has released c.mu, Client.Close closes every     *)
(* registered handle and drops the map.                                     *)
(*                                                                          *)
(* A handle is named after the call that made it.                           *)
(****************************************************************************)
EXTENDS Naturals, Sequences, FiniteSets, EventRouting

CONSTANTS
    Ids,       \* server-assigned thread ids
    Opens,     \* calls of StartThread, ResumeThread or ForkThread
    Archives,  \* calls of ArchiveThread
    None,
    MaxEvents  \* bound: notifications the server sends

ASSUME NoneAssumption == None \notin Ids \cup Opens
ASSUME BoundAssumption == MaxEvents \in Nat

VARIABLES
    closed,  \* Client.closed; connected is taken to be true until Close
    threads, \* Client.threads
    gone,    \* Client.threads is nil
    latest,  \* Client.latestThreadID
    marked,  \* handles whose markClosed was called
    opc, id, \* per open call: where it stands, the id it was given
    apc, aid,\* per archive call
    early,   \* handles returned before Close was called
    wire,    \* notifications not yet dispatched
    sent,    \* how many there were
    holder,  \* per id, the handle that was returned last and not archived
    owner,   \* per notification, the holder of its id when it was sent
    dest,    \* the dispatcher's event in hand, its handle and the next step
    seen,    \* <<handle, notification>> delivered
    nature,  \* per notification, as the dispatcher found it
    stream,  \* notifications put to the subscribers of SubscribeThreadEvents
    gaps     \* notifications that failed those subscriptions

calls == <<opc, id, apc, aid, early>>
stories == <<nature, stream, gaps>>
traffic == <<wire, sent, holder, owner, dest, seen, stories>>
registry == <<threads, latest>>
vars == <<closed, registry, gone, marked, calls, traffic>>

NoDest == [handle |-> None, n |-> 0, next |-> "read"]

Init ==
    /\ closed = FALSE /\ gone = FALSE /\ latest = None /\ marked = {}
    /\ threads = [i \in Ids |-> None]
    /\ opc = [o \in Opens |-> "idle"] /\ id = [o \in Opens |-> None]
    /\ apc = [a \in Archives |-> "idle"] /\ aid = [a \in Archives |-> None]
    /\ early = {}
    /\ wire = <<>> /\ sent = 0 /\ owner = <<>>
    /\ holder = [i \in Ids |-> None]
    /\ dest = NoDest /\ seen = {}
    /\ nature = [n \in 1 .. MaxEvents |-> "unread"] /\ stream = {} /\ gaps = {}

-----------------------------------------------------------------------------
\* The checks of closed, then the request; its answer names the id.  A fork
\* or a start gets a new id, a resume one the server already knows.
Open(o) ==
    /\ opc[o] = "idle"
    /\ IF closed
       THEN opc' = [opc EXCEPT ![o] = "failed"] /\ UNCHANGED id
       ELSE /\ \E i \in Ids : id' = [id EXCEPT ![o] = i]
            /\ opc' = [opc EXCEPT ![o] = "answered"]
    /\ UNCHANGED <<closed, registry, gone, marked, apc, aid, early, traffic>>

OpenFails(o) ==
    /\ opc[o] = "answered"
    /\ opc' = [opc EXCEPT ![o] = "failed"]
    /\ UNCHANGED <<closed, registry, gone, marked, id, apc, aid, early, traffic>>

\* registerThread, under c.mu.  Mutants: an id keeps the handle it has; the
\* handle goes under the latest id.
UnderLatest(o) == [threads EXCEPT ![IF latest = None THEN id[o] ELSE latest] = o]
KeepsOld(o) == [threads EXCEPT ![id[o]] = IF @ = None THEN o ELSE @]
Registered(o) == [threads EXCEPT ![id[o]] = o]

Register(o) ==
    /\ opc[o] = "answered"
    /\ opc' = [opc EXCEPT ![o] = "returned"]
    /\ IF gone
       THEN UNCHANGED registry
       ELSE threads' = Registered(o) /\ latest' = id[o]
    /\ early' = IF closed THEN early ELSE early \cup {o}
    /\ holder' = [holder EXCEPT ![id[o]] = o]
    /\ UNCHANGED <<closed, gone, marked, id, apc, aid, wire, sent, owner, dest,
                   seen, stories>>

Archive(a) ==
    /\ apc[a] = "idle"
    /\ IF closed
       THEN apc' = [apc EXCEPT ![a] = "done"] /\ UNCHANGED aid
       ELSE /\ \E i \in Ids : aid' = [aid EXCEPT ![a] = i]
            /\ apc' = [apc EXCEPT ![a] = "answered"]
    /\ UNCHANGED <<closed, registry, gone, marked, opc, id, early, traffic>>

\* unregisterThread: SessionID forgets the id if it was the latest.
LatestAfter(a) == IF latest = aid[a] THEN None ELSE latest

Unregister(a) ==
    /\ apc[a] = "answered"
    /\ apc' = [apc EXCEPT ![a] = "done"]
    /\ threads' = IF gone THEN threads ELSE [threads EXCEPT ![aid[a]] = None]
    /\ latest' = LatestAfter(a)
    /\ holder' = [holder EXCEPT ![aid[a]] = None]
    /\ UNCHANGED <<closed, gone, marked, opc, id, aid, early, wire, sent, owner,
                   dest, seen, stories>>

-----------------------------------------------------------------------------
(* The server speaks about a thread, or nobody in particular; the           *)
(* dispatcher reads and routes it.                                          *)

Emit(i) ==
    /\ sent < MaxEvents
    /\ sent' = sent + 1
    /\ wire' = Append(wire, [id |-> i, n |-> sent + 1])
    /\ owner' = Append(owner, holder[i])
    /\ UNCHANGED <<closed, registry, gone, marked, calls, holder, dest, seen, stories>>

Reads(found) ==
    /\ dest = NoDest /\ wire # <<>>
    /\ wire' = Tail(wire)
    /\ nature' = [nature EXCEPT ![Head(wire).n] = found]
    /\ UNCHANGED <<closed, registry, gone, marked, calls, sent, holder, owner, seen,
                   stream>>

\* handleNotification.  A frame that does not decode, an event that does not
\* parse or that lacks the thread it must have ends every subscription ...
Gap ==
    /\ \E r \in Readings : r.route = "gap" /\ Reads(r.nature)
    /\ gaps' = gaps \cup {Head(wire).n}
    /\ UNCHANGED dest

FrameGap ==
    /\ Reads("scoped")
    /\ gaps' = gaps \cup {Head(wire).n}
    /\ UNCHANGED dest

\* ... an event about no thread is logged ...
Unroutable ==
    /\ \E r \in Readings : r.route = "nobody" /\ Reads(r.nature)
    /\ UNCHANGED <<dest, gaps>>

\* ... and for the others the handle is looked up, under c.mu.
LookUp ==
    /\ \E r \in Readings : r.route = "thread" /\ Reads(r.nature)
    /\ dest' = [handle |-> threads[Head(wire).id], n |-> Head(wire).n,
                next |-> "deliver"]
    /\ UNCHANGED gaps

\* The event goes to its handle without c.mu, then to the subscribers.
DeliverTo ==
    /\ dest.next = "deliver"
    /\ seen' = IF dest.handle = None \/ dest.handle \in marked THEN seen
               ELSE seen \cup {<<dest.handle, dest.n>>}
    /\ dest' = [dest EXCEPT !.next = "publish"]
    /\ UNCHANGED <<closed, registry, gone, marked, calls, wire, sent, holder, owner,
                   stories>>

Publish ==
    /\ dest.next = "publish"
    /\ stream' = stream \cup {dest.n}
    /\ dest' = NoDest
    /\ UNCHANGED <<closed, registry, gone, marked, calls, wire, sent, holder, owner,
                   seen, nature, gaps>>

MarkedBySweep == marked \cup ({threads[i] : i \in Ids} \ {None})
CloseBegins ==
    /\ ~closed
    /\ closed' = TRUE
    /\ UNCHANGED <<registry, gone, marked, calls, traffic>>

Sweep ==
    /\ closed /\ ~gone
    /\ gone' = TRUE
    /\ marked' = MarkedBySweep
    /\ threads' = [i \in Ids |-> None] /\ latest' = None
    /\ UNCHANGED <<closed, calls, traffic>>

Next ==
    \/ \E o \in Opens : Open(o) \/ OpenFails(o) \/ Register(o)
    \/ \E a \in Archives : Archive(a) \/ Unregister(a)
    \/ \E i \in Ids : Emit(i)
    \/ Gap \/ FrameGap \/ Unroutable \/ LookUp \/ DeliverTo \/ Publish
    \/ CloseBegins \/ Sweep

Spec == Init /\ [][Next]_vars

-----------------------------------------------------------------------------
(* Properties                                                               *)

\* Type invariant of the registry.
TypeOK ==
    /\ closed \in BOOLEAN /\ gone \in BOOLEAN /\ (gone => closed)
    /\ threads \in [Ids -> Opens \cup {None}] /\ latest \in Ids \cup {None}
    /\ marked \subseteq Opens /\ early \subseteq Opens
    /\ opc \in [Opens -> {"idle", "answered", "returned", "failed"}]
    /\ id \in [Opens -> Ids \cup {None}]
    /\ apc \in [Archives -> {"idle", "answered", "done"}]
    /\ aid \in [Archives -> Ids \cup {None}]
    /\ wire \in Seq([id : Ids, n : 1 .. MaxEvents])
    /\ sent \in 0 .. MaxEvents
    /\ holder \in [Ids -> Opens \cup {None}]
    /\ owner \in [1 .. sent -> Opens \cup {None}]
    /\ dest \in [handle : Opens \cup {None}, n : 0 .. MaxEvents,
                next : {"read", "deliver", "publish"}]
    /\ seen \subseteq Opens \X (1 .. MaxEvents)
    /\ nature \in [1 .. MaxEvents -> {"unread", "thread", "scoped", "free"}]
    /\ stream \subseteq 1 .. MaxEvents /\ gaps \subseteq 1 .. MaxEvents
    /\ \A i \in Ids : threads[i] # None => id[threads[i]] = i

\* From the moment StartThread, ResumeThread or ForkThread has returned, an
\* event about the thread reaches that handle, and before the subscribers of
\* SubscribeThreadEvents see it ("so a subscriber can safely act on the event",
\* client_dispatch.go:134-136): it is not lost to the gap between looking a
\* handle up and delivering to it, unless a later call took the id over or
\* removed it, or the client closed.
EventsReachHandle ==
    \A n \in DOMAIN owner :
        LET h == owner[n] IN
        h # None /\ n \in stream =>
            \/ <<h, n>> \in seen
            \/ holder[id[h]] # h
            \/ gone

\* What the app-server says about a thread as its schema has it reaches the
\* subscribers; what cannot be read, or lacks the thread it must have, is a gap
\* to them "instead of silently presenting an incomplete transcript"
\* (docs/architecture.md:112-116).
Handled(n) == nature[n] # "unread" /\ dest.n # n
NothingVanishes ==
    \A n \in 1 .. MaxEvents : Handled(n) =>
        /\ nature[n] = "thread" => n \in stream
        /\ nature[n] = "scoped" => n \in stream \cup gaps

\* Every notification the dispatcher is done with went where it had to.
NotificationsAreKept == EventsReachHandle /\ NothingVanishes

-----------------------------------------------------------------------------
\* "Close ... closes every Thread's inbox" (client.go:445): of every handle it
\* had returned.
CloseReachesEveryHandle == gone => early \subseteq marked
=============================================================================
