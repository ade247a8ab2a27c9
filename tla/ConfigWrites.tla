------------------------------ MODULE ConfigWrites ------------------------------
(****************************************************************************)
(* client_commands.go: callers that write the codex configuration, while    *)
(* the client whose hook callback owns the generated hooks.json connects,   *)
(* loses its app-server and closes.                                         *)
(*                                                                          *)
(* Every load of a flag is a step of its own, because none is made under a  *)
(* lock.  A key is a hooks key or any other; its value is left out.         *)
(****************************************************************************)
EXTENDS Naturals, FiniteSets

CONSTANT Writers \* calls of WriteConfigValue or WriteConfigBatch

ASSUME WritersAssumption == IsFiniteSet(Writers)

VARIABLES
    connected, \* c.connected
    closed,    \* c.closed
    generated, \* the generated hooks.json is in place
    server,    \* the app-server: none, runs, stopped
    life,      \* the client: new, connecting, up, closing, closed
    write,     \* per call, the step it is at
    keys,      \* per call, the keys of its edits
    late,      \* calls that began after Connect had returned
    applied    \* keys the app-server wrote while hooks.json was generated,
               \* each with the call that sent it

clientFlags == <<connected, closed, generated, server, life>>
configVars == <<clientFlags, write, keys, late, applied>>

Keys == {"hooks", "other"}
KeySets == SUBSET Keys

ConfigInit ==
    /\ connected = FALSE /\ closed = FALSE /\ generated = FALSE
    /\ server = "none" /\ life = "new"
    /\ write = [w \in Writers |-> "idle"]
    /\ keys = [w \in Writers |-> {}]
    /\ late = {} /\ applied = {}

-----------------------------------------------------------------------------
(* The client, as far as a write can tell.                                  *)

\* connectTransport: hooks.json is generated and the app-server spawned.
HooksInstalled ==
    /\ life = "new" /\ ~closed
    /\ life' = "connecting" /\ generated' = TRUE /\ server' = "runs"
    /\ UNCHANGED <<connected, closed, write, keys, late, applied>>

\* startDispatcher, under lifecycleMu.
ConnectReturns ==
    /\ life = "connecting" /\ ~closed
    /\ life' = "up" /\ connected' = TRUE
    /\ UNCHANGED <<closed, generated, server, write, keys, late, applied>>

\* The read loop gives up or ends: dispatch stores connected, and the child,
\* which still reads, is stopped later.
SourceEnds ==
    /\ life = "up" /\ connected
    /\ connected' = FALSE
    /\ UNCHANGED <<closed, generated, server, life, write, keys, late, applied>>

ServerStops ==
    /\ server = "runs" /\ (life = "closing" \/ (life = "up" /\ ~connected))
    /\ server' = "stopped"
    /\ UNCHANGED <<connected, closed, generated, life, write, keys, late,
                   applied>>

\* The handshake fails: the transport is closed and the file removed.
ConnectFails ==
    /\ life = "connecting"
    /\ life' = "new" /\ generated' = FALSE /\ server' = "none"
    /\ UNCHANGED <<connected, closed, write, keys, late, applied>>

\* Close: the flag is first, the transport next, connected and the hooks last.
CloseBegins ==
    /\ life \in {"connecting", "up"} /\ ~closed
    /\ closed' = TRUE /\ life' = "closing"
    /\ UNCHANGED <<connected, generated, server, write, keys, late, applied>>

CloseClears ==
    /\ life = "closing" /\ server = "stopped" /\ generated
    /\ connected' = FALSE /\ generated' = FALSE /\ life' = "closed"
    /\ UNCHANGED <<closed, server, write, keys, late, applied>>

-----------------------------------------------------------------------------
(* WriteConfigValue has one key, WriteConfigBatch several.                  *)

Goes(w, step) == write' = [write EXCEPT ![w] = step]

\* An empty key and an empty batch are refused before anything is read.
WriteBegins(w) ==
    /\ write[w] = "idle"
    /\ \E ks \in KeySets :
          /\ keys' = [keys EXCEPT ![w] = ks]
          /\ Goes(w, IF ks = {} THEN "refused" ELSE "guard")
    /\ late' = IF life \in {"up", "closing", "closed"} THEN late \cup {w} ELSE late
    /\ UNCHANGED <<clientFlags, applied>>

\* isHooksConfigKeyPath.  Mutant: a batch is judged by its last edit alone.
AnyOther(ks) == ks = {"hooks"}
HooksKey(ks) == "hooks" \in ks

\* rejectHookConfigWrite: connected first, then closed.
GuardReadsConnected(w) ==
    /\ write[w] = "guard"
    /\ Goes(w, IF HooksKey(keys[w]) /\ connected THEN "guard2" ELSE "check")
    /\ UNCHANGED <<clientFlags, keys, late, applied>>

GuardReadsClosed(w) ==
    /\ write[w] = "guard2"
    /\ Goes(w, IF closed THEN "check" ELSE "refused")
    /\ UNCHANGED <<clientFlags, keys, late, applied>>

\* sendRaw: closed, then connected.  Mutants: one of the two is not looked at.
AlwaysOpen == FALSE
SeesClosed == closed
AlwaysConnected == TRUE
SeesConnected == connected

RawReadsClosed(w) ==
    /\ write[w] = "check"
    /\ Goes(w, IF SeesClosed THEN "refused" ELSE "check2")
    /\ UNCHANGED <<clientFlags, keys, late, applied>>

RawReadsConnected(w) ==
    /\ write[w] = "check2"
    /\ Goes(w, IF SeesConnected THEN "send" ELSE "refused")
    /\ UNCHANGED <<clientFlags, keys, late, applied>>

\* demux.Send writes the request; the app-server applies it if it still reads,
\* and answers; what the caller makes of the answer changes nothing here.
SendWrite(w) ==
    /\ write[w] = "send"
    /\ Goes(w, "sent")
    /\ applied' = IF server = "runs" /\ generated
                  THEN applied \cup ({w} \X keys[w]) ELSE applied
    /\ UNCHANGED <<clientFlags, keys, late>>

WriteStep(w) ==
    \/ WriteBegins(w)
    \/ GuardReadsConnected(w) \/ GuardReadsClosed(w)
    \/ RawReadsClosed(w) \/ RawReadsConnected(w)
    \/ SendWrite(w)

ConfigNext ==
    \/ HooksInstalled \/ ConnectReturns \/ ConnectFails \/ SourceEnds \/ ServerStops
    \/ CloseBegins \/ CloseClears
    \/ \E w \in Writers : WriteStep(w)

ConfigSpec == ConfigInit /\ [][ConfigNext]_configVars

-----------------------------------------------------------------------------
\* "refusing to write while WithHookCallback owns generated hooks.json": no
\* write of a hooks key that began after Connect had returned is applied while
\* the generated file is in place, in the life of the client until Close has
\* removed it, the time between the end of the source and Close included.
GuardHolds == \A w \in late : <<w, "hooks">> \notin applied

\* The same of every write.  A write that looked at connected before Connect
\* stored it passes the guard, and passes sendRaw if Connect stores it then
\* (MCCommandsEarly.cfg).
GuardHoldsAlways == \A w \in Writers : <<w, "hooks">> \notin applied
=============================================================================
