-------------------------- MODULE HookedClientProofs --------------------------
(* Proofs about HookedClient: the types of a client and of its hook         *)
(* listener, that the connected flag is true, that nothing is left of what  *)
(* a Connect acquired, that a hook tells codex the user's decision, and     *)
(* that the handler rests after Close; for any number of calls and hooks.   *)
EXTENDS HookedClient, TLAPS

-----------------------------------------------------------------------------
(* The inductive invariant of the client.                                   *)

\* A Close that still has the process to end; one that is under way.
Early == {"snapshotting", "stopping", "waiting", "sweeping", "terminating"}
Under(j) == xpc[j] \notin {"idle", "returned"}
\* A Connect that beginConnect let through; one that has published; one that
\* has yet to take its bridge down or to succeed.
Begun(k) == cpc[k] # "idle" /\ result[k] # "refused"
Shown == {"initializing", "starting", "checking", "closingOwn", "cleaning",
          "tearing", "clearing", "returned"}
Working == {"spawning", "publishing", "initializing", "starting", "checking",
            "closingOwn", "cleaning"}

\* beginConnect lets one Connect through for the life of the client, and the
\* swap of closed one Close.
OneConnect ==
    /\ \A k \in Connecters :
          /\ cpc[k] = "idle" => result[k] = "none"
          /\ result[k] = "refused" => cpc[k] = "returned"
          /\ result[k] = "connected" => cpc[k] \in {"clearing", "returned"}
    /\ \A k, l \in Connecters : Begun(k) /\ Begun(l) => k = l
    /\ ~closed /\ ~connectStarted => \A k \in Connecters : ~Begun(k)

OneClose ==
    /\ ~closed => \A j \in Closers : xpc[j] = "idle"
    /\ \A i, j \in Closers : Under(i) /\ Under(j) => i = j

\* A running process is in the hands of its Connect or is the published one,
\* which the Close under way has in its snapshot and ends before it resets.
Published ==
    /\ tr # Nobody => cpc[tr] \in Shown /\ result[tr] # "refused"
    /\ \A k \in Connecters : cpc[k] = "publishing" => process[k] # "none"
    /\ \A k \in Connecters : process[k] = "running" =>
          cpc[k] \in {"publishing", "closingOwn"} \/ tr = k
    /\ \A k \in Connecters :
          /\ result[k] = "failed" /\ process[k] = "running"
          /\ cpc[k] \in {"cleaning", "tearing", "clearing", "returned"}
          => closed
    /\ \A j \in Closers :
          xpc[j] \in (Early \ {"snapshotting"}) \cup {"resetting"}
          => snap[j].tr = tr

Ended ==
    closed /\ tr # Nobody /\ (\A j \in Closers : xpc[j] \notin Early) =>
        process[tr] # "running"

Forgotten ==
    closed /\ (\A j \in Closers : xpc[j] \notin Early \cup {"resetting"}) =>
        tr = Nobody /\ ~connected

\* A dispatcher starts on an open client only, so that the snapshot of Close
\* has it, and Close cancels it.
Dispatched ==
    /\ connected => dispatcher = "running"
    /\ \A j \in Closers : xpc[j] \notin {"idle", "snapshotting", "returned"} =>
          snap[j].dispatcher = (dispatcher # "none")
    /\ /\ closed /\ dispatcher \in {"running", "leaving"}
       /\ \A j \in Closers : xpc[j] \notin {"snapshotting", "stopping"}
       => dispCancel

\* The bridge is the one Connect's; while it is up somebody will take it, and
\* while it is being torn somebody is at it.
Bridge ==
    /\ bridge # "none" => \E k \in Connecters : Begun(k) /\ cpc[k] # "bridging"
    /\ \A j \in Closers : xpc[j] = "tearing" => bridge # "none"
    /\ bridge = "tearing" => \/ \E k \in Connecters : cpc[k] = "tearing"
                             \/ \E j \in Closers : xpc[j] = "tearing"
    /\ bridge = "up" => \E k \in Connecters :
          \/ cpc[k] \in Working
          \/ /\ result[k] = "connected"
             /\ \/ ~closed
                \/ \E j \in Closers : xpc[j] \in Early \cup {"resetting", "cleaning"}

ClientInv == OneConnect /\ OneClose /\ Published /\ Ended /\ Forgotten
             /\ Dispatched /\ Bridge

-----------------------------------------------------------------------------
(* The inductive invariant of the listener.                                 *)

Life ==
    /\ (bridge = "none") = (listener = "none")
    /\ (bridge = "up") = (listener = "up")
    /\ (bridge = "down") = (listener = "closed")
    /\ listener = "none" => loop = "none" /\ \A f \in Fires : conn[f] = "none"
    /\ listener \in {"deaf", "closed"} => \A f \in Fires : conn[f] # "backlog"
    /\ listener = "closed" => loop = "done" /\ \A f \in Fires : ~Serving(f)

Called(f) ==
    /\ callback[f] # "none" => request[f] = "good"
    /\ shim[f] \in {"idle", "dialing", "writing"} => request[f] = "none"
    /\ conn[f] \in {"none", "backlog", "reading"} => callback[f] = "none"
    /\ (shim[f] = "exited") = (verdict[f] # Pending)
    /\ conn[f] = "answering" => answer[f] # Pending

\* Why a decision to block may be missed.
Excused(f) == timedOut[f] \/ listener \in {"cancelled", "deaf", "closed"}
\* The callback is not going to be called any more.
Uncalled(f) ==
    /\ shim[f] = "exited" /\ callback[f] = "none"
    /\ conn[f] = "closed" \/ request[f] # "good"

Coherent(r) ==
    /\ r.says = "block" => r.exit = 2
    /\ r.says = "approve" => r.exit = 0
Told(f, r) ==
    /\ Coherent(r)
    /\ r.exit = 2 => callback[f] = "deny"
    /\ r.exit = 0 => Excused(f) \/ callback[f] \in {"allow", "ask"}

Heard(f) ==
    /\ Told(f, answer[f]) /\ Told(f, response[f])
    /\ Told(f, verdict[f]) \/ (verdict[f] = FailOpen /\ Uncalled(f))
    /\ conn[f] = "closed" /\ response[f] = Pending =>
          Excused(f) \/ callback[f] = "none" \/ shim[f] = "exited"

Hooks == Life /\ \A f \in Fires : Called(f) /\ Heard(f)

-----------------------------------------------------------------------------
(* Whose step it is, and what the others keep.                              *)

Connects(k) == Begin(k) \/ ConnectStep(k) \/ Initialize(k) \/ InitializeFails(k)
Closes(j) == CloseBegin(j) \/ CloseStep(j) \/ WaitExpires(j)
Dispatches == DispatcherLeaves \/ DispatcherDone

\* Every step is a party's.
LEMMA Parties ==
    [Next]_vars <=> \/ \E k \in Connecters : Connects(k) \/ ProcessExits(k)
                    \/ \E j \in Closers : Closes(j)
                    \/ Dispatches \/ Quiet \/ UNCHANGED vars
  BY Zenon DEF Next, Connects, Closes, Dispatches

ClientTypes ==
    /\ closed \in BOOLEAN /\ connected \in BOOLEAN /\ connectStarted \in BOOLEAN
    /\ token \in Connecters \cup {Nobody} /\ tr \in Connecters \cup {Nobody}
    /\ cancelled \subseteq Connecters /\ demuxClosed \subseteq Connecters
    /\ dispatcher \in {"none", "running", "leaving", "done"}
    /\ dispCancel \in BOOLEAN /\ swept \in BOOLEAN
    /\ bridge \in {"none", "up", "tearing", "down"}
ConnectTypes ==
    /\ process \in [Connecters -> {"none", "running", "exited"}]
    /\ cpc \in [Connecters -> {"idle", "bridging", "spawning", "publishing",
          "initializing", "starting", "checking", "closingOwn", "cleaning",
          "tearing", "clearing", "returned"}]
    /\ result \in [Connecters -> {"none", "refused", "failed", "connected"}]
CloseTypes ==
    /\ xpc \in [Closers -> {"idle", "snapshotting", "stopping", "waiting",
          "sweeping", "terminating", "resetting", "cleaning", "tearing",
          "returned"}]
    /\ snap \in [Closers -> [cancel : Connecters \cup {Nobody},
                             dispatcher : BOOLEAN,
                             tr : Connecters \cup {Nobody}]]
Types == ClientTypes /\ ConnectTypes /\ CloseTypes

\* A Connect leaves the calls of Close, and the other Connects, alone.
LEMMA ConnectFrame ==
    ASSUME ConnectTypes, NEW k \in Connecters, Connects(k) \/ ProcessExits(k)
    PROVE  /\ UNCHANGED <<closed, dispCancel, closeVars>>
           /\ ConnectTypes'
           /\ \A l \in Connecters \ {k} :
                 cpc'[l] = cpc[l] /\ result'[l] = result[l] /\ process'[l] = process[l]
<1>1. UNCHANGED <<closed, dispCancel, closeVars>>
  BY DEF Connects, ConnectStep, Begin, SetupBridge, Spawn, Publish, Initialize,
     InitializeFails, StartDispatcher, CheckClosed, CloseOwn, TakeBridge, TearBridge,
     Clear, ProcessExits
<1>2. \E label \in {"idle", "bridging", "spawning", "publishing",
          "initializing", "starting", "checking", "closingOwn", "cleaning",
          "tearing", "clearing", "returned"} : cpc' = cpc \/ cpc' = [cpc EXCEPT ![k] = label]
  BY DEF Connects, ConnectStep, Begin, SetupBridge, Spawn, Publish, Initialize,
     InitializeFails, StartDispatcher, CheckClosed, CloseOwn, TakeBridge, TearBridge,
     Clear, ProcessExits, Goto, Fail, connVars
<1>3. result' = result \/ \E r \in {"refused", "failed", "connected"} :
                              result' = [result EXCEPT ![k] = r]
  BY DEF Connects, ConnectStep, Begin, SetupBridge, Spawn, Publish, Initialize,
     InitializeFails, StartDispatcher, CheckClosed, CloseOwn, TakeBridge, TearBridge,
     Clear, ProcessExits, Fail, connVars
<1>4. process' = process \/ \E r \in {"running", "exited"} :
                                process' = [process EXCEPT ![k] = r]
  BY DEF Connects, ConnectStep, Begin, SetupBridge, Spawn, Publish, Initialize,
     InitializeFails, StartDispatcher, CheckClosed, CloseOwn, TakeBridge, TearBridge,
     Clear, ProcessExits
<1> QED
  BY <1>1, <1>2, <1>3, <1>4 DEF ConnectTypes

\* A Close leaves the Connects and the other calls of Close alone.
LEMMA CloseFrame ==
    ASSUME CloseTypes, ClientTypes, NEW j \in Closers, Closes(j)
    PROVE  /\ UNCHANGED <<dispatcher, connVars>>
           /\ CloseTypes'
           /\ \A i \in Closers \ {j} : xpc'[i] = xpc[i] /\ snap'[i] = snap[i]
<1>1. UNCHANGED <<dispatcher, connVars>>
  BY DEF Closes, CloseStep, CloseBegin, Snapshot, Stop, Waited, WaitExpires,
     SweepThreads, Terminate, Reset, CloseTakesBridge, CloseTearsBridge
<1>2. \E label \in {"idle", "snapshotting", "stopping", "waiting",
          "sweeping", "terminating", "resetting", "cleaning", "tearing",
          "returned"} : xpc' = [xpc EXCEPT ![j] = label]
  BY DEF Closes, CloseStep, CloseBegin, Snapshot, Stop, Waited, WaitExpires,
     SweepThreads, Terminate, Reset, CloseTakesBridge, CloseTearsBridge, GotoX
<1>3. snap' = snap \/ \E s \in [cancel : Connecters \cup {Nobody},
                                dispatcher : BOOLEAN,
                                tr : Connecters \cup {Nobody}] :
                          snap' = [snap EXCEPT ![j] = s]
  <2>1. CASE Snapshot(j)
    BY <2>1 DEF Snapshot, HasDispatcher, ClientTypes
  <2>2. CASE ~Snapshot(j)
    BY <2>2 DEF Closes, CloseStep, CloseBegin, Stop, Waited, WaitExpires,
       SweepThreads, Terminate, Reset, CloseTakesBridge, CloseTearsBridge, closeVars
  <2> QED
    BY <2>1, <2>2
<1> QED
  BY <1>1, <1>2, <1>3 DEF CloseTypes

\* The dispatcher and the end of a process leave both alone.
LEMMA DispatchFrame ==
    Dispatches => UNCHANGED <<closed, connectStarted, tr, process, bridge, dispCancel,
                              connVars, closeVars>>
  BY DEF Dispatches, DispatcherLeaves, DispatcherDone

-----------------------------------------------------------------------------
(* The types.                                                               *)

\* The rest of the type invariant follows from the invariant.
LEMMA TypesSplit == TypeOK => Types
  BY DEF TypeOK, Types, ClientTypes, ConnectTypes, CloseTypes

\* Every step keeps the types.
LEMMA ClientTyped ==
    ASSUME Types, [Next]_vars
    PROVE  Types'
<1>1. ASSUME NEW k \in Connecters, Connects(k) \/ ProcessExits(k) PROVE Types'
  <2>1. ConnectTypes' /\ UNCHANGED <<closed, dispCancel, swept, xpc, snap>>
    BY <1>1, ConnectFrame DEF Types, closeVars
  <2>2. /\ connected' \in BOOLEAN /\ connectStarted' \in BOOLEAN
        /\ token' \in Connecters \cup {Nobody} /\ tr' \in Connecters \cup {Nobody}
        /\ dispatcher' \in {"none", "running", "leaving", "done"}
    BY <1>1 DEF Types, ClientTypes, Connects, ConnectStep, Begin, SetupBridge, Spawn,
       Publish, Initialize, InitializeFails, StartDispatcher, CheckClosed, CloseOwn,
       TakeBridge, TearBridge, Clear, ProcessExits
  <2>3. cancelled' \subseteq Connecters /\ demuxClosed' \subseteq Connecters
    BY <1>1 DEF Types, ClientTypes, Connects, ConnectStep, Begin, SetupBridge, Spawn,
       Publish, Initialize, InitializeFails, StartDispatcher, CheckClosed, CloseOwn,
       TakeBridge, TearBridge, Clear, ProcessExits
  <2>4. bridge' \in {"none", "up", "tearing", "down"}
    BY <1>1 DEF Types, ClientTypes, Connects, ConnectStep, Begin, SetupBridge, Spawn,
       Publish, Initialize, InitializeFails, StartDispatcher, CheckClosed, CloseOwn,
       TakeBridge, TearBridge, Clear, ProcessExits
  <2> QED
    BY <2>1, <2>2, <2>3, <2>4 DEF Types, ClientTypes, CloseTypes
<1>2. ASSUME NEW j \in Closers, Closes(j) PROVE Types'
  <2>1. CloseTypes' /\ UNCHANGED <<dispatcher, cpc, result>>
    BY <1>2, CloseFrame DEF Types, connVars
  <2>2. snap[j].cancel \in Connecters \cup {Nobody} /\ snap[j].tr \in Connecters \cup {Nobody}
        /\ snap[j].dispatcher \in BOOLEAN
    BY DEF Types, CloseTypes
  <2>3. /\ closed' \in BOOLEAN /\ connected' \in BOOLEAN /\ connectStarted' \in BOOLEAN
        /\ token' \in Connecters \cup {Nobody} /\ tr' \in Connecters \cup {Nobody}
        /\ swept' \in BOOLEAN
    BY <1>2 DEF Types, ClientTypes, Closes, CloseStep, CloseBegin, Snapshot, Stop,
       Waited, WaitExpires, SweepThreads, Terminate, Reset, CloseTakesBridge,
       CloseTearsBridge
  <2>4. cancelled' \subseteq Connecters /\ demuxClosed' \subseteq Connecters
    BY <1>2, <2>2 DEF Types, ClientTypes, Closes, CloseStep, CloseBegin, Snapshot, Stop,
       Waited, WaitExpires, SweepThreads, Terminate, Reset, CloseTakesBridge,
       CloseTearsBridge
  <2>5. dispCancel' \in BOOLEAN
    BY <1>2, <2>2 DEF Types, ClientTypes, Closes, CloseStep, CloseBegin, Snapshot, Stop,
       Waited, WaitExpires, SweepThreads, Terminate, Reset, CloseTakesBridge,
       CloseTearsBridge, CancelsDispatcher
  <2>6. bridge' \in {"none", "up", "tearing", "down"}
    BY <1>2 DEF Types, ClientTypes, Closes, CloseStep, CloseBegin, Snapshot, Stop,
       Waited, WaitExpires, SweepThreads, Terminate, Reset, CloseTakesBridge,
       CloseTearsBridge
  <2>7. process' \in [Connecters -> {"none", "running", "exited"}]
    BY <1>2 DEF Types, ConnectTypes, Closes, CloseStep, CloseBegin, Snapshot, Stop,
       Waited, WaitExpires, SweepThreads, Terminate, Reset, CloseTakesBridge,
       CloseTearsBridge
  <2> QED
    BY <2>1, <2>3, <2>4, <2>5, <2>6, <2>7 DEF Types, ClientTypes, ConnectTypes
<1>3. CASE Dispatches
  BY <1>3 DEF Dispatches, DispatcherLeaves, DispatcherDone, Types, ClientTypes,
     ConnectTypes, CloseTypes, connVars, closeVars
<1>4. CASE Quiet \/ UNCHANGED vars
  BY <1>4 DEF Quiet, vars, Types, ClientTypes, ConnectTypes, CloseTypes
<1> QED
  BY <1>1, <1>2, <1>3, <1>4, Parties

-----------------------------------------------------------------------------
(* The invariant of the client, part by part.                               *)

\* A call of Close begins on a client that is closed, or closes it.
LEMMA ClosesClosed ==
    ASSUME Types, OneClose, NEW j \in Closers, Closes(j)
    PROVE  closed' /\ (closed => closed')
  BY DEF Types, ClientTypes, OneClose, Closes, CloseStep, CloseBegin, Snapshot,
     Stop, Waited, WaitExpires, SweepThreads, Terminate, Reset, CloseTakesBridge,
     CloseTearsBridge

\* One Connect begins.
LEMMA OneConnectStep ==
    ASSUME Types, OneConnect, OneClose, [Next]_vars
    PROVE  OneConnect'
<1>1. ASSUME NEW k \in Connecters, Connects(k) PROVE OneConnect'
  <2>1. /\ closed' = closed
        /\ \A l \in Connecters \ {k} : cpc'[l] = cpc[l] /\ result'[l] = result[l]
    BY <1>1, ConnectFrame DEF Types
  <2>2. CASE Begin(k)
    <3>1. CASE MayBegin /\ cpc'[k] = "bridging" /\ connectStarted' = TRUE
               /\ result' = result
      BY <2>1, <2>2, <3>1 DEF Begin, OneConnect, Begun, MayBegin
    <3>2. CASE cpc'[k] = "returned" /\ connectStarted' = connectStarted
               /\ result'[k] = "refused"
      BY <2>1, <2>2, <3>2 DEF OneConnect, Begun
    <3> QED
      BY <2>2, <3>1, <3>2 DEF Begin, Goto, Types, ConnectTypes
  <2>3. CASE ~Begin(k)
    <3>1. /\ connectStarted' = connectStarted
          /\ cpc[k] # "idle" /\ cpc[k] # "returned" /\ cpc'[k] # "idle"
          /\ \/ result'[k] = result[k] /\ (cpc[k] = "clearing" => cpc'[k] = "returned")
             \/ result'[k] = "failed"
             \/ result'[k] = "connected" /\ cpc'[k] = "clearing"
      BY <1>1, <2>3 DEF Connects, ConnectStep, SetupBridge, Spawn,
         Publish, Initialize, InitializeFails, StartDispatcher, CheckClosed, CloseOwn,
         TakeBridge, TearBridge, Clear, Goto, Fail, Types, ConnectTypes
    <3> QED
      BY <2>1, <3>1 DEF OneConnect, Begun
  <2> QED
    BY <2>2, <2>3
<1>2. ASSUME NEW j \in Closers, Closes(j) PROVE OneConnect'
  <2>1. UNCHANGED <<cpc, result>>
    BY <1>2, CloseFrame DEF Types, connVars
  <2>2. closed'
    BY <1>2, ClosesClosed
  <2> QED
    BY <2>1, <2>2 DEF OneConnect, Begun
<1>3. ASSUME NEW k \in Connecters, ProcessExits(k) PROVE OneConnect'
  BY <1>3 DEF ProcessExits, OneConnect, Begun, connVars
<1>4. CASE Dispatches
  BY <1>4, DispatchFrame DEF OneConnect, Begun, connVars
<1>5. CASE Quiet \/ UNCHANGED vars
  BY <1>5 DEF Quiet, vars, OneConnect, Begun
<1> QED
  BY <1>1, <1>2, <1>3, <1>4, <1>5, Parties

\* One Close gets past the swap of closed.
LEMMA OneCloseStep ==
    ASSUME Types, OneClose, [Next]_vars
    PROVE  OneClose'
<1>1. ASSUME NEW k \in Connecters, Connects(k) \/ ProcessExits(k) PROVE OneClose'
  BY <1>1, ConnectFrame DEF Types, OneClose, Under, closeVars
<1>2. ASSUME NEW j \in Closers, Closes(j) PROVE OneClose'
  <2>1. closed' /\ \A i \in Closers \ {j} : xpc'[i] = xpc[i]
    BY <1>2, ClosesClosed, CloseFrame DEF Types
  <2>2. Under(j)' => Under(j) \/ ~closed
    BY <1>2 DEF Under, Types, CloseTypes, Closes, CloseStep, CloseBegin, Snapshot,
       Stop, Waited, WaitExpires, SweepThreads, Terminate, Reset, CloseTakesBridge,
       CloseTearsBridge, GotoX
  <2> QED
    BY <2>1, <2>2 DEF OneClose, Under
<1>3. CASE Dispatches
  BY <1>3, DispatchFrame DEF OneClose, Under, closeVars
<1>4. CASE Quiet \/ UNCHANGED vars
  BY <1>4 DEF Quiet, vars, OneClose, Under
<1> QED
  BY <1>1, <1>2, <1>3, <1>4, Parties

\* closed is never reset.
LEMMA StaysClosed ==
    ASSUME Types, OneClose, [Next]_vars, closed
    PROVE  closed'
  BY ConnectFrame, ClosesClosed, DispatchFrame, Parties DEF Types, Quiet, vars

\* A process runs for the Connect that started it or as the published one.
LEMMA PublishedStep ==
    ASSUME Types, OneConnect, OneClose, Published, Ended, [Next]_vars
    PROVE  Published'
<1>1. ASSUME NEW k \in Connecters, Connects(k) \/ ProcessExits(k) PROVE Published'
  <2>1. /\ UNCHANGED <<closed, xpc, snap>> /\ Types
        /\ \A l \in Connecters \ {k} :
              cpc'[l] = cpc[l] /\ result'[l] = result[l] /\ process'[l] = process[l]
    BY <1>1, ConnectFrame DEF Types, closeVars
  <2>2. CASE tr' = tr /\ (tr = k => cpc[k] \in Shown /\ cpc'[k] \in Shown /\ Begun(k)')
    <3>1. \A j \in Closers : snap[j].tr = tr => snap'[j].tr = tr'
      BY <2>1, <2>2
    <3>2. /\ cpc'[k] = "publishing" => process'[k] # "none"
          /\ process'[k] = "running" =>
                cpc'[k] \in {"publishing", "closingOwn"} \/ tr = k
          /\ /\ result'[k] = "failed" /\ process'[k] = "running"
             /\ cpc'[k] \in {"cleaning", "tearing", "clearing", "returned"}
             => closed
      <4>1. CASE Begin(k) \/ SetupBridge(k) \/ Clear(k) \/ TakeBridge(k) \/ TearBridge(k)
        BY <2>2, <4>1 DEF Begin, SetupBridge, Clear, TakeBridge, TearBridge, Goto, Fail,
           Types, ConnectTypes, Published, OneConnect, Shown
      <4>2. CASE Spawn(k)
        BY <2>2, <4>2 DEF Spawn, Goto, Fail, Types, ConnectTypes, Published, Shown
      <4>3. CASE Publish(k)
        BY <2>2, <4>3 DEF Publish, MayPublish, Goto, Fail, Types, ConnectTypes,
           Published, Shown
      <4>4. CASE Initialize(k) \/ InitializeFails(k) \/ StartDispatcher(k)
        BY <2>2, <4>4 DEF Initialize, InitializeFails, StartDispatcher, Goto, Fail, Types,
           ConnectTypes, Published, Shown
      <4>5. CASE CheckClosed(k) \/ CloseOwn(k)
        BY <2>2, <4>5 DEF CheckClosed, LeavesItToClose, CloseOwn, Goto, Types,
           ConnectTypes, Published, Shown
      <4>6. CASE ProcessExits(k)
        BY <2>2, <4>6 DEF ProcessExits, Types, ConnectTypes, connVars
      <4> QED
        BY <1>1, <4>1, <4>2, <4>3, <4>4, <4>5, <4>6 DEF Connects, ConnectStep
    <3>3. tr' # Nobody => cpc'[tr'] \in Shown /\ result'[tr'] # "refused"
      BY <2>1, <2>2 DEF Published, Begun, Types, ClientTypes
    <3> QED
      BY <2>1, <2>2, <3>1, <3>2, <3>3 DEF Published
  <2>3. CASE ~closed /\ tr' = k /\ cpc[k] = "publishing" /\ cpc'[k] = "initializing"
             /\ process' = process /\ result' = result
    <3>1. k # Nobody /\ Begun(k) /\ Begun(k)'
      BY <2>3, NobodyAssumption DEF Begun, OneConnect
    <3>2. \A l \in Connecters \ {k} : ~Begun(l)
      BY <3>1 DEF OneConnect
    <3>3. tr # k /\ tr = Nobody
      <4>1. cpc[k] \notin Shown
        BY <2>3 DEF Shown
      <4>2. tr # Nobody => Begun(tr) /\ tr # k
        BY <4>1 DEF Published, Begun, Shown
      <4> QED
        BY <3>1, <3>2, <4>2 DEF Types, ClientTypes
    <3>4. cpc'[tr'] \in Shown /\ result'[tr'] # "refused"
      BY <2>3, <3>1 DEF Shown, Begun
    <3>5. \A l \in Connecters : process'[l] = "running" =>
             cpc'[l] \in {"publishing", "closingOwn"} \/ tr' = l
      BY <2>1, <2>3, <3>3, NobodyAssumption DEF Published
    <3>6. \A j \in Closers : xpc'[j] = "idle"
      BY <2>1, <2>3 DEF OneClose
    <3> QED
      BY <2>1, <2>3, <3>4, <3>5, <3>6 DEF Published, Early
  <2>4. \/ tr' = tr /\ (tr = k => cpc[k] \in Shown /\ cpc'[k] \in Shown /\ Begun(k)')
        \/ /\ ~closed /\ tr' = k /\ cpc[k] = "publishing" /\ cpc'[k] = "initializing"
           /\ process' = process /\ result' = result
    <3>1. k # Nobody /\ (tr = k => cpc[k] \in Shown /\ Begun(k))
      BY NobodyAssumption DEF Published, Begun, Shown
    <3>2. CASE Begin(k) \/ SetupBridge(k) \/ Spawn(k) \/ CheckClosed(k) \/ CloseOwn(k)
      BY <3>1, <3>2 DEF Begin, SetupBridge, Spawn, CheckClosed, CloseOwn, Goto, Fail, Types,
         ConnectTypes, Shown, Begun
    <3>3. CASE Publish(k)
      BY <3>1, <3>3 DEF Publish, MayPublish, Goto, Fail, Types, ConnectTypes, Shown,
         Begun
    <3>4. CASE Initialize(k) \/ InitializeFails(k) \/ StartDispatcher(k)
      BY <3>1, <3>4 DEF Initialize, InitializeFails, StartDispatcher, Goto, Fail, Types,
         ConnectTypes, Shown, Begun
    <3>5. CASE Clear(k) \/ TakeBridge(k) \/ TearBridge(k) \/ ProcessExits(k)
      BY <3>1, <3>5 DEF Clear, TakeBridge, TearBridge, ProcessExits, Goto, Types,
         ConnectTypes, Shown, Begun, connVars
    <3> QED
      BY <1>1, <3>2, <3>3, <3>4, <3>5 DEF Connects, ConnectStep
  <2> QED
    BY <2>2, <2>3, <2>4
<1>2. ASSUME NEW j \in Closers, Closes(j) PROVE Published'
  <2>1. /\ UNCHANGED <<cpc, result>> /\ closed'
        /\ \A i \in Closers \ {j} : xpc'[i] = xpc[i] /\ snap'[i] = snap[i]
    BY <1>2, ClosesClosed, CloseFrame DEF Types, connVars
  <2>2. CASE Reset(j)
    <3>1. tr' = Nobody /\ process' = process /\ Under(j) /\ xpc[j] \notin Early
          /\ xpc'[j] = "cleaning"
      BY <2>2 DEF Reset, GotoX, Types, CloseTypes, Under, Early
    <3>2. \A i \in Closers \ {j} : ~Under(i)
      BY <3>1 DEF OneClose
    <3>3. closed /\ \A i \in Closers : xpc[i] \notin Early
      BY <3>1, <3>2 DEF OneClose, Under, Early
    <3>4. tr # Nobody => process[tr] # "running"
      BY <3>3 DEF Ended
    <3>5. \A i \in Closers :
             xpc'[i] \notin (Early \ {"snapshotting"}) \cup {"resetting"}
      BY <2>1, <3>1, <3>2 DEF Under, Early
    <3>6. \A k \in Connecters : process[k] = "running" =>
             cpc[k] \in {"publishing", "closingOwn"}
      BY <3>4, NobodyAssumption DEF Published
    <3> QED
      BY <2>1, <3>1, <3>5, <3>6 DEF Published
  <2>3. CASE ~Reset(j)
    <3>1. tr' = tr
      BY <1>2, <2>3 DEF Closes, CloseStep, CloseBegin, Snapshot, Stop,
         Waited, WaitExpires, SweepThreads, Terminate, CloseTakesBridge,
         CloseTearsBridge
    <3>2. \A k \in Connecters : \/ process'[k] = process[k]
                                \/ process'[k] = "exited"
      BY <1>2, <2>3 DEF Closes, CloseStep, CloseBegin, Snapshot, Stop,
         Waited, WaitExpires, SweepThreads, Terminate, CloseTakesBridge,
         CloseTearsBridge, Types, ConnectTypes
    <3>3. xpc'[j] \in (Early \ {"snapshotting"}) \cup {"resetting"} =>
             \/ snap'[j].tr = tr
             \/ xpc[j] \in (Early \ {"snapshotting"}) /\ snap'[j] = snap[j]
      BY <1>2, <2>3 DEF Closes, CloseStep, CloseBegin, Snapshot, Stop,
         Waited, WaitExpires, SweepThreads, Terminate, CloseTakesBridge,
         CloseTearsBridge, GotoX, Types, CloseTypes, Early
    <3> QED
      BY <2>1, <3>1, <3>2, <3>3 DEF Published
  <2> QED
    BY <2>2, <2>3
<1>3. CASE Dispatches
  BY <1>3, DispatchFrame DEF Published, connVars, closeVars
<1>4. CASE Quiet \/ UNCHANGED vars
  BY <1>4 DEF Quiet, vars, Published
<1> QED
  BY <1>1, <1>2, <1>3, <1>4, Parties

\* Close ends the published process before it resets ...
LEMMA EndedStep ==
    ASSUME Types, OneConnect, OneClose, Published, Ended, [Next]_vars
    PROVE  Ended'
<1>1. ASSUME NEW k \in Connecters, Connects(k) \/ ProcessExits(k) PROVE Ended'
  <2>1. UNCHANGED <<closed, xpc>>
        /\ \A l \in Connecters \ {k} : process'[l] = process[l]
    BY <1>1, ConnectFrame DEF Types, closeVars
  <2>2. ASSUME closed, tr = k, process'[k] = "running" PROVE process[k] = "running"
    BY <1>1, <2>2, NobodyAssumption DEF Published, Shown, Connects, ConnectStep, Begin,
       SetupBridge, Spawn, Publish, Initialize, InitializeFails, StartDispatcher,
       CheckClosed, CloseOwn,
       TakeBridge, TearBridge, Clear, ProcessExits, Types, ConnectTypes
  <2>3. closed => tr' = tr
    BY <1>1 DEF Connects, ConnectStep, Begin, SetupBridge,
       Spawn, Publish, MayPublish, Initialize, InitializeFails, StartDispatcher, CheckClosed,
       CloseOwn, TakeBridge, TearBridge, Clear, ProcessExits
  <2> QED
    BY <2>1, <2>2, <2>3 DEF Ended, Types, ClientTypes
<1>2. ASSUME NEW j \in Closers, Closes(j) PROVE Ended'
  <2>1. \A i \in Closers \ {j} : xpc'[i] = xpc[i]
    BY <1>2, CloseFrame DEF Types
  <2>2. CASE Reset(j)
    BY <2>2 DEF Reset, Ended
  <2>3. CASE Terminate(j)
    <3>1. snap[j].tr = tr
      BY <2>3 DEF Terminate, Published, Early
    <3>2. tr # Nobody => process'[tr] = "exited" /\ tr' = tr
      BY <2>3, <3>1 DEF Terminate, Types, ClientTypes
    <3> QED
      BY <2>3, <3>2 DEF Ended, Terminate
  <2>4. CASE ~Reset(j) /\ ~Terminate(j)
    <3>1. UNCHANGED <<tr, process>>
      BY <1>2, <2>4 DEF Closes, CloseStep, CloseBegin, Snapshot, Stop,
         Waited, WaitExpires, SweepThreads, CloseTakesBridge, CloseTearsBridge
    <3>2. xpc'[j] \in Early \/ (closed /\ xpc[j] \notin Early)
      BY <1>2, <2>4 DEF Closes, CloseStep, CloseBegin, Snapshot, Stop,
         Waited, WaitExpires, SweepThreads, CloseTakesBridge, CloseTearsBridge, GotoX,
         Types, CloseTypes, Early, OneClose
    <3> QED
      BY <2>1, <3>1, <3>2 DEF Ended
  <2> QED
    BY <2>2, <2>3, <2>4
<1>3. CASE Dispatches
  BY <1>3, DispatchFrame DEF Ended, closeVars
<1>4. CASE Quiet \/ UNCHANGED vars
  BY <1>4 DEF Quiet, vars, Ended
<1> QED
  BY <1>1, <1>2, <1>3, <1>4, Parties

\* ... and then forgets it.
LEMMA ForgottenStep ==
    ASSUME Types, OneClose, Forgotten, [Next]_vars
    PROVE  Forgotten'
<1>1. ASSUME NEW k \in Connecters, Connects(k) \/ ProcessExits(k) PROVE Forgotten'
  <2>1. UNCHANGED <<closed, xpc>>
    BY <1>1, ConnectFrame DEF Types, closeVars
  <2>2. closed => UNCHANGED <<tr, connected>>
    BY <1>1 DEF Connects, ConnectStep, Begin, SetupBridge, Spawn, Publish,
       MayPublish, Initialize, InitializeFails, StartDispatcher, MayStart, CheckClosed,
       CloseOwn, TakeBridge, TearBridge, Clear, ProcessExits
  <2> QED
    BY <2>1, <2>2 DEF Forgotten
<1>2. ASSUME NEW j \in Closers, Closes(j) PROVE Forgotten'
  <2>1. \A i \in Closers \ {j} : xpc'[i] = xpc[i]
    BY <1>2, CloseFrame DEF Types
  <2>2. CASE Reset(j)
    BY <2>2 DEF Reset, Forgotten
  <2>3. CASE ~Reset(j)
    <3>1. UNCHANGED <<tr, connected>>
      BY <1>2, <2>3 DEF Closes, CloseStep, CloseBegin, Snapshot, Stop, Waited,
         WaitExpires, SweepThreads, Terminate, CloseTakesBridge, CloseTearsBridge
    <3>2. \/ xpc'[j] \in Early \cup {"resetting"}
          \/ closed /\ xpc[j] \notin Early \cup {"resetting"}
      BY <1>2, <2>3 DEF Closes, CloseStep, CloseBegin, Snapshot, Stop, Waited,
         WaitExpires, SweepThreads, Terminate, CloseTakesBridge, CloseTearsBridge,
         GotoX, Types, CloseTypes, Early, OneClose
    <3> QED
      BY <2>1, <3>1, <3>2 DEF Forgotten
  <2> QED
    BY <2>2, <2>3
<1>3. CASE Dispatches
  BY <1>3, DispatchFrame DEF Dispatches, DispatcherLeaves, DispatcherDone, Forgotten,
     closeVars
<1>4. CASE Quiet \/ UNCHANGED vars
  BY <1>4 DEF Quiet, vars, Forgotten
<1> QED
  BY <1>1, <1>2, <1>3, <1>4, Parties

\* The dispatcher starts on an open client, so Close knows of it.
LEMMA DispatchedStep ==
    ASSUME Types, OneClose, Dispatched, [Next]_vars
    PROVE  Dispatched'
<1>1. ASSUME NEW k \in Connecters, Connects(k) \/ ProcessExits(k) PROVE Dispatched'
  <2>1. UNCHANGED <<closed, dispCancel, xpc, snap>>
    BY <1>1, ConnectFrame DEF Types, closeVars
  <2>2. \/ UNCHANGED <<connected, dispatcher>>
        \/ ~closed /\ connected' = TRUE /\ dispatcher' = "running"
    BY <1>1 DEF Connects, ConnectStep, Begin, SetupBridge, Spawn, Publish,
       Initialize, InitializeFails, StartDispatcher, MayStart, CheckClosed,
       CloseOwn, TakeBridge, TearBridge, Clear, ProcessExits
  <2> QED
    BY <2>1, <2>2 DEF Dispatched, OneClose
<1>2. ASSUME NEW j \in Closers, Closes(j) PROVE Dispatched'
  <2>1. /\ dispatcher' = dispatcher
        /\ \A i \in Closers \ {j} : xpc'[i] = xpc[i] /\ snap'[i] = snap[i]
    BY <1>2, CloseFrame DEF Types
  <2>2. connected' => connected
    BY <1>2 DEF Closes, CloseStep, CloseBegin, Snapshot, Stop, Waited, WaitExpires,
       SweepThreads, Terminate, Reset, CloseTakesBridge, CloseTearsBridge
  <2>3. CASE Stop(j)
    <3>1. snap'[j] = snap[j] /\ snap[j].dispatcher = (dispatcher # "none")
      BY <2>3 DEF Stop, Dispatched
    <3>2. dispatcher \in {"running", "leaving"} => dispCancel'
      BY <2>3, <3>1 DEF Stop, CancelsDispatcher
    <3> QED
      BY <2>1, <2>2, <3>1, <3>2 DEF Dispatched
  <2>4. CASE ~Stop(j)
    <3>1. dispCancel' = dispCancel
      BY <1>2, <2>4 DEF Closes, CloseStep, CloseBegin, Snapshot, Waited, WaitExpires,
         SweepThreads, Terminate, Reset, CloseTakesBridge, CloseTearsBridge
    <3>2. \/ xpc'[j] \in {"snapshotting", "stopping"}
          \/ closed /\ xpc[j] \notin {"snapshotting", "stopping"}
      BY <1>2, <2>4 DEF Closes, CloseStep, CloseBegin, Snapshot, Waited, WaitExpires,
         SweepThreads, Terminate, Reset, CloseTakesBridge, CloseTearsBridge, GotoX,
         Types, CloseTypes, OneClose
    <3>3. xpc'[j] \notin {"idle", "snapshotting", "returned"} =>
             snap'[j].dispatcher = (dispatcher # "none")
      <4>1. CASE Snapshot(j)
        BY <4>1 DEF Snapshot, HasDispatcher, Types, CloseTypes
      <4>2. CASE ~Snapshot(j)
        <5>1. snap' = snap
          BY <1>2, <2>4, <4>2 DEF Closes, CloseStep, CloseBegin, Waited, WaitExpires,
             SweepThreads, Terminate, Reset, CloseTakesBridge, CloseTearsBridge, closeVars
        <5>2. xpc'[j] \notin {"idle", "snapshotting", "returned"} =>
                 xpc[j] \notin {"idle", "snapshotting", "returned"}
          BY <1>2, <2>4, <4>2 DEF Closes, CloseStep, CloseBegin, Waited, WaitExpires,
             SweepThreads, Terminate, Reset, CloseTakesBridge, CloseTearsBridge, GotoX,
             Types, CloseTypes
        <5> QED
          BY <5>1, <5>2 DEF Dispatched
      <4> QED
        BY <4>1, <4>2
    <3> QED
      BY <2>1, <2>2, <3>1, <3>2, <3>3 DEF Dispatched
  <2> QED
    BY <2>3, <2>4
<1>3. CASE Dispatches
  BY <1>3 DEF Dispatches, DispatcherLeaves, DispatcherDone, Dispatched, closeVars
<1>4. CASE Quiet \/ UNCHANGED vars
  BY <1>4 DEF Quiet, vars, Dispatched
<1> QED
  BY <1>1, <1>2, <1>3, <1>4, Parties

\* What becomes of the bridge in a step of a Connect.
LEMMA ConnectBridge ==
    ASSUME Types, OneConnect, Bridge, NEW k \in Connecters, Connects(k)
    PROVE  \/ /\ bridge' = bridge
              /\ cpc[k] \in Working => cpc'[k] \in Working
                    \/ (~closed /\ result'[k] = "connected") \/ bridge # "up"
              /\ cpc[k] = "tearing" => cpc'[k] = "tearing"
              /\ result[k] = "connected" => result'[k] = "connected"
           \/ /\ bridge = "none" /\ bridge' = "up" /\ cpc[k] = "bridging"
              /\ cpc'[k] = "spawning" /\ result'[k] = result[k]
           \/ bridge = "up" /\ bridge' = "tearing" /\ cpc'[k] = "tearing"
           \/ cpc[k] = "tearing" /\ bridge' = "down"
<1> USE DEF Types, ClientTypes, ConnectTypes, Working, OneConnect
<1>1. CASE Begin(k)
  BY <1>1 DEF Begin, Goto
<1>2. CASE SetupBridge(k)
  <2>1. bridge = "none"
    BY <1>2 DEF SetupBridge, Bridge, Begun
  <2> QED
    BY <1>2, <2>1 DEF SetupBridge, Goto, Fail
<1>3. CASE Spawn(k) \/ Publish(k)
  BY <1>3 DEF Spawn, Publish, Goto, Fail
<1>4. CASE Initialize(k) \/ InitializeFails(k)
  BY <1>4 DEF Initialize, InitializeFails, Goto, Fail
<1>5. CASE StartDispatcher(k)
  BY <1>5 DEF StartDispatcher, MayStart, Goto, Fail
<1>6. CASE CheckClosed(k) \/ CloseOwn(k)
  BY <1>6 DEF CheckClosed, CloseOwn, LeavesItToClose, Goto
<1>7. CASE TakeBridge(k)
  BY <1>7 DEF TakeBridge, BridgeToTake, Goto
<1>8. CASE TearBridge(k)
  BY <1>8 DEF TearBridge
<1>9. CASE Clear(k)
  BY <1>9 DEF Clear, Goto
<1> QED
  BY <1>1, <1>2, <1>3, <1>4, <1>5, <1>6, <1>7, <1>8, <1>9 DEF Connects, ConnectStep

\* Somebody takes the bridge down.
LEMMA BridgeStep ==
    ASSUME Types, OneConnect, OneClose, Bridge, [Next]_vars
    PROVE  Bridge'
<1>1. ASSUME NEW k \in Connecters, Connects(k) PROVE Bridge'
  <2>1. /\ UNCHANGED <<closed, xpc>>
        /\ \A l \in Connecters \ {k} : cpc'[l] = cpc[l] /\ result'[l] = result[l]
    BY <1>1, ConnectFrame DEF Types, closeVars
  <2>2. Begun(k) /\ cpc[k] # "bridging" => Begun(k)' /\ cpc'[k] # "bridging"
    BY <1>1 DEF Connects, ConnectStep, Begin, SetupBridge, Spawn, Publish,
       Initialize, InitializeFails, StartDispatcher, CheckClosed, CloseOwn,
       TakeBridge, TearBridge, Clear, Goto, Fail, Types, ConnectTypes, Begun
  <2>3. CASE /\ bridge' = bridge
             /\ cpc[k] \in Working => cpc'[k] \in Working
                   \/ (~closed /\ result'[k] = "connected") \/ bridge # "up"
             /\ cpc[k] = "tearing" => cpc'[k] = "tearing"
             /\ result[k] = "connected" => result'[k] = "connected"
    <3>1. bridge' # "none" => \E l \in Connecters : Begun(l)' /\ cpc'[l] # "bridging"
      BY <2>1, <2>2, <2>3 DEF Bridge, Begun
    <3>2. bridge' = "tearing" => \/ \E l \in Connecters : cpc'[l] = "tearing"
                                 \/ \E j \in Closers : xpc'[j] = "tearing"
      BY <2>1, <2>3 DEF Bridge
    <3>3. bridge' = "up" => \E l \in Connecters :
             \/ cpc'[l] \in Working
             \/ /\ result'[l] = "connected"
                /\ \/ ~closed'
                   \/ \E j \in Closers : xpc'[j] \in Early \cup {"resetting", "cleaning"}
      <4>1. SUFFICES ASSUME bridge = "up"
                     PROVE  \E l \in Connecters :
             \/ cpc'[l] \in Working
             \/ /\ result'[l] = "connected"
                /\ \/ ~closed
                   \/ \E j \in Closers : xpc[j] \in Early \cup {"resetting", "cleaning"}
        BY <2>1, <2>3
      <4>2. PICK l \in Connecters :
             \/ cpc[l] \in Working
             \/ /\ result[l] = "connected"
                /\ \/ ~closed
                   \/ \E j \in Closers : xpc[j] \in Early \cup {"resetting", "cleaning"}
        BY <4>1 DEF Bridge
      <4>3. CASE l = k
        BY <2>3, <4>1, <4>2, <4>3
      <4>4. CASE l # k
        BY <2>1, <4>2, <4>4
      <4> QED
        BY <4>3, <4>4
    <3> QED
      BY <2>1, <2>3, <3>1, <3>2, <3>3 DEF Bridge
  <2>4. CASE /\ bridge = "none" /\ bridge' = "up" /\ cpc[k] = "bridging"
             /\ cpc'[k] = "spawning" /\ result'[k] = result[k]
    BY <2>4 DEF Bridge, Begun, Working, OneConnect
  <2>5. CASE bridge = "up" /\ bridge' = "tearing" /\ cpc'[k] = "tearing"
    BY <2>1, <2>2, <2>5 DEF Bridge, Begun
  <2>6. CASE cpc[k] = "tearing" /\ bridge' = "down"
    <3>1. Begun(k) /\ cpc[k] # "bridging"
      BY <2>6 DEF Begun, OneConnect
    <3> QED
      BY <2>1, <2>2, <2>6, <3>1 DEF Bridge, Begun
  <2> QED
    BY <1>1, <2>3, <2>4, <2>5, <2>6, ConnectBridge
<1>2. ASSUME NEW j \in Closers, Closes(j) PROVE Bridge'
  <2>1. /\ UNCHANGED <<cpc, result>> /\ closed'
        /\ \A i \in Closers \ {j} : xpc'[i] = xpc[i]
    BY <1>2, ClosesClosed, CloseFrame DEF Types, connVars
  <2>2. CASE CloseBegin(j)
    <3>1. bridge' = bridge /\ xpc[j] = "idle" /\ xpc'[j] # "tearing"
          /\ (~closed => xpc'[j] = "snapshotting")
      BY <2>2 DEF CloseBegin, GotoX, Types, CloseTypes
    <3> QED
      BY <2>1, <3>1 DEF Bridge, Begun, Early
  <2>3. CASE CloseTakesBridge(j)
    <3>1. /\ xpc[j] = "cleaning"
          /\ \/ bridge = "up" /\ bridge' = "tearing" /\ xpc'[j] = "tearing"
             \/ bridge # "up" /\ bridge' = bridge /\ xpc'[j] = "returned"
      BY <2>3 DEF CloseTakesBridge, GotoX, Types, CloseTypes
    <3> QED
      BY <2>1, <3>1 DEF Bridge, Begun
  <2>4. CASE CloseTearsBridge(j)
    <3>1. xpc[j] = "tearing" /\ bridge' = "down" /\ bridge # "none"
      BY <2>4 DEF CloseTearsBridge, Bridge
    <3> QED
      BY <2>1, <3>1 DEF Bridge, Begun
  <2>5. CASE ~CloseBegin(j) /\ ~CloseTakesBridge(j) /\ ~CloseTearsBridge(j)
    <3>1. /\ bridge' = bridge /\ closed
          /\ xpc[j] \in Early \cup {"resetting"}
          /\ xpc'[j] \in Early \cup {"resetting", "cleaning"}
      BY <1>2, <2>5 DEF Closes, CloseStep, Snapshot, Stop, Waited, WaitExpires,
         SweepThreads, Terminate, Reset, GotoX, Types, CloseTypes, OneClose, Early,
         ClientTypes
    <3>2. xpc[j] # "tearing" /\ xpc'[j] # "tearing"
      BY <3>1 DEF Early
    <3> QED
      BY <2>1, <3>1, <3>2 DEF Bridge, Begun
  <2> QED
    BY <2>2, <2>3, <2>4, <2>5
<1>3. ASSUME NEW k \in Connecters, ProcessExits(k) PROVE Bridge'
  BY <1>3 DEF ProcessExits, Bridge, Begun, connVars, closeVars
<1>4. CASE Dispatches
  BY <1>4, DispatchFrame DEF Bridge, Begun, connVars, closeVars
<1>5. CASE Quiet \/ UNCHANGED vars
  BY <1>5 DEF Quiet, vars, Bridge, Begun
<1> QED
  BY <1>1, <1>2, <1>3, <1>4, <1>5, Parties

-----------------------------------------------------------------------------
(* The client's theorems.                                                   *)

\* A step of the composition is one of the client's, or leaves it alone.
LEMMA ClientSteps == [HookedNext]_hookedVars => [Next]_vars
  BY DEF HookedNext, HookStep, hookedVars

ClientState == Types /\ ClientInv

\* The inductive invariant holds, whatever the hooks do.
LEMMA ClientHolds == HookedSpec => []ClientState
<1>1. HookedInit => ClientState
  <2> SUFFICES ASSUME HookedInit PROVE ClientState
    OBVIOUS
  <2>1. Types
    BY DEF HookedInit, Init, NoSnap, Types, ClientTypes, ConnectTypes, CloseTypes
  <2>2. OneConnect /\ OneClose /\ Forgotten
    BY DEF HookedInit, Init, OneConnect, OneClose, Forgotten, Begun, Under
  <2>3. Published /\ Ended
    BY DEF HookedInit, Init, Published, Ended, Early
  <2>4. Dispatched /\ Bridge
    BY DEF HookedInit, Init, Dispatched, Bridge
  <2> QED
    BY <2>1, <2>2, <2>3, <2>4 DEF ClientState, ClientInv
<1>2. ClientState /\ [HookedNext]_hookedVars => ClientState'
  BY ClientSteps, ClientTyped, OneConnectStep, OneCloseStep, PublishedStep, EndedStep,
     ForgottenStep, DispatchedStep, BridgeStep DEF ClientState, ClientInv
<1> QED
  BY <1>1, <1>2, PTL DEF HookedSpec

\* The connected flag never outlives the dispatcher, and no dispatcher starts
\* behind the back of Close: startDispatcher looks at closed under
\* lifecycleMu, which closeSnapshot takes after closed is set.
THEOREM ConnectedIsAlwaysTrue == HookedSpec => []ConnectedIsTrue
<1>1. ClientState => ConnectedIsTrue
  BY DEF ClientState, ClientInv, Dispatched, ConnectedIsTrue
<1> QED
  BY <1>1, ClientHolds, PTL

\* Whatever a Connect acquired is released, whether it fails, loses against
\* Close or is closed later, in every order of Connects, Closes, failures and
\* exits of the process.
THEOREM NothingIsEverLeft == HookedSpec => []NothingLeft
<1>1. ClientState => NothingAfterClose
  <2> SUFFICES ASSUME ClientState,
                      \A j \in Closers : xpc[j] \in {"idle", "returned"},
                      NEW j \in Closers, CloseWon(j),
                      \A k \in Connecters : ConnectReturned(k)
               PROVE  /\ \A k \in Connecters : process[k] # "running"
                      /\ bridge \in {"none", "down"}
                      /\ tr = Nobody /\ ~connected
                      /\ dispatcher \in {"running", "leaving"} => dispCancel
    BY DEF NothingAfterClose
  <2> USE DEF ClientState, ClientInv
  <2>1. closed
    BY DEF OneClose, CloseWon, Types, ClientTypes
  <2>2. tr = Nobody /\ ~connected
    BY <2>1 DEF Forgotten, Early
  <2>3. \A k \in Connecters : process[k] # "running"
    BY <2>2, NobodyAssumption DEF Published, ConnectReturned
  <2>4. bridge # "tearing" /\ bridge # "up"
    BY <2>1 DEF Bridge, Working, Early, ConnectReturned
  <2>5. dispatcher \in {"running", "leaving"} => dispCancel
    BY <2>1 DEF Dispatched
  <2> QED
    BY <2>2, <2>3, <2>4, <2>5 DEF Types, ClientTypes
<1>2. ClientState => FailedConnectCleans
  <2> SUFFICES ASSUME ClientState, NEW k \in Connecters, cpc[k] = "returned",
                      result[k] = "failed"
               PROVE  /\ process[k] = "running" => InHandsOfClose(k)
                      /\ bridge # "up"
    BY DEF FailedConnectCleans
  <2> USE DEF ClientState, ClientInv
  <2>1. ASSUME process[k] = "running" PROVE InHandsOfClose(k)
    <3>1. closed /\ tr = k
      BY <2>1 DEF Published
    <3>2. PICK j \in Closers : xpc[j] \in Early
      BY <2>1, <3>1, NobodyAssumption DEF Ended
    <3>3. xpc[j] # "snapshotting" => snap[j].tr = tr
      BY <3>2 DEF Published
    <3> QED
      BY <3>1, <3>2, <3>3 DEF InHandsOfClose, Early
  <2>2. bridge # "up"
    <3>1. Begun(k)
      BY DEF Begun
    <3>2. \A l \in Connecters : cpc[l] \in Working \/ result[l] = "connected" => Begun(l)
      BY DEF OneConnect, Begun, Working
    <3>3. \A l \in Connecters : cpc[l] \in Working \/ result[l] = "connected" => l = k
      BY <3>1, <3>2 DEF OneConnect
    <3> QED
      BY <3>3 DEF Bridge, Working
  <2> QED
    BY <2>1, <2>2
<1> QED
  BY <1>1, <1>2, ClientHolds, PTL DEF NothingLeft

-----------------------------------------------------------------------------
(* The listener: whose step it is, and the types.                           *)

FireStep(f) ==
    Fire(f) \/ ShimStep(f) \/ Accept(f) \/ ServeStep(f) \/ CallbackReturns(f)
Listens == AcceptFails \/ BackoffEnds \/ StopListening

\* Every step is the bridge's, a hook's, the accept loop's or nobody's.
LEMMA HookedParties ==
    [HookedNext]_hookedVars =>
        \/ Bridged
        \/ UNCHANGED bridge /\ ((\E f \in Fires : FireStep(f)) \/ Listens)
        \/ UNCHANGED <<bridge, hookVars>>
  BY DEF HookedNext, HookStep, FireStep, Listens, hookedVars, vars

HookTypes ==
    /\ listener \in {"none", "up", "cancelled", "deaf", "closed"}
    /\ loop \in {"none", "accepting", "backoff", "done"}
    /\ shim \in [Fires -> {"idle", "dialing", "writing", "waiting", "exited"}]
    /\ conn \in [Fires -> {"none", "backlog", "reading", "calling",
                           "answering", "closed"}]
    /\ request \in [Fires -> {"none", "good", "bad"}]
    /\ callback \in [Fires -> {"none", "running"} \cup Decisions]
ReplyTypes ==
    /\ verdict \in [Fires -> Responses \cup {Pending}]
    /\ answer \in [Fires -> Responses \cup {Pending}]
    /\ response \in [Fires -> Responses \cup {Pending}]
    /\ timedOut \in [Fires -> BOOLEAN]

\* What codex may be told.
LEMMA Answers ==
    /\ FailOpen \in Responses /\ FailOpen # Pending
    /\ FailOpen.exit = 0 /\ Coherent(FailOpen)
    /\ Pending.exit = 1 /\ Coherent(Pending)
    /\ \A event \in Events, d \in Decisions :
          LET r == DecisionToResponse(event, d) IN
          /\ r \in Responses /\ r # Pending /\ Coherent(r)
          /\ r.exit = 2 => d = "deny"
          /\ r.exit = 0 => d # "deny"
<1>1. Pending.exit = 1 /\ Coherent(Pending)
  BY DEF Pending, Coherent
<1>2. /\ FailOpen \in Responses /\ FailOpen.exit = 0 /\ Coherent(FailOpen)
  BY DEF FailOpen, Responses, Coherent
<1>3. \A r \in Responses : r # Pending
  BY <1>1 DEF Responses
<1>4. ASSUME NEW event \in Events, NEW d \in Decisions
      PROVE  /\ DecisionToResponse(event, d) \in Responses
             /\ Coherent(DecisionToResponse(event, d))
             /\ DecisionToResponse(event, d).exit = 2 => d = "deny"
             /\ DecisionToResponse(event, d).exit = 0 => d # "deny"
  <2>1. CASE d = "deny"
    <3>1. DecisionToResponse(event, d) = [exit |-> 2, says |-> DenySays(event)]
      BY <2>1 DEF DecisionToResponse
    <3>2. DenySays(event) \in {"block", "nothing"}
      BY DEF DenySays
    <3> QED
      BY <2>1, <3>1, <3>2 DEF Responses, Coherent
  <2>2. CASE d = "allow"
    <3>1. DecisionToResponse(event, d) = [exit |-> 0, says |-> AllowSays(event)]
      BY <2>2 DEF DecisionToResponse
    <3>2. AllowSays(event) \in {"approve", "context", "nothing"}
      BY DEF AllowSays
    <3> QED
      BY <2>2, <3>1, <3>2 DEF Responses, Coherent
  <2>3. CASE d = "ask"
    BY <1>2, <2>3 DEF DecisionToResponse
  <2> QED
    BY <2>1, <2>2, <2>3 DEF Decisions
<1> QED
  BY <1>1, <1>2, <1>3, <1>4

\* Every step keeps the types.
LEMMA HookTyped ==
    ASSUME HookTypes, ReplyTypes, [HookedNext]_hookedVars
    PROVE  HookTypes' /\ ReplyTypes'
<1>1. CASE Bridged
  BY <1>1 DEF Bridged, Start, Cancel, FinishClose, HookTypes, ReplyTypes, hookVars
<1>2. ASSUME NEW f \in Fires, FireStep(f) PROVE HookTypes' /\ ReplyTypes'
  <2>1. UNCHANGED <<listener, loop>>
    BY <1>2 DEF FireStep, Fire, ShimStep, Dial, WriteRequest, ReadResponse, ShimExpires,
       Accept, ServeStep, ReadRequest, ReadExpires, TakeDecision, GiveUp, Respond,
       CallbackReturns, lifeVars
  <2>2. /\ shim' \in [Fires -> {"idle", "dialing", "writing", "waiting", "exited"}]
        /\ request' \in [Fires -> {"none", "good", "bad"}]
    BY <1>2 DEF FireStep, Fire, ShimStep, Dial, WriteRequest, ReadResponse, ShimExpires,
       Accept, ServeStep, ReadRequest, ReadExpires, TakeDecision, GiveUp, Respond,
       CallbackReturns, Exit, HookTypes
  <2>3. /\ conn' \in [Fires -> {"none", "backlog", "reading", "calling",
                                "answering", "closed"}]
        /\ callback' \in [Fires -> {"none", "running"} \cup Decisions]
    BY <1>2 DEF FireStep, Fire, ShimStep, Dial, WriteRequest, ReadResponse, ShimExpires,
       Accept, ServeStep, ReadRequest, ReadExpires, TakeDecision, GiveUp, Respond,
       CallbackReturns, Hangup, HookTypes
  <2>4. verdict' \in [Fires -> Responses \cup {Pending}]
    BY <1>2, Answers DEF FireStep, Fire, ShimStep, Dial, WriteRequest, ReadResponse,
       ShimExpires, Accept, ServeStep, ReadRequest, ReadExpires, TakeDecision, GiveUp,
       Respond, CallbackReturns, Exit, ReplyTypes
  <2>5. answer' \in [Fires -> Responses \cup {Pending}]
    <3>1. "allow" \in Decisions
      BY DEF Decisions
    <3>2. CASE TakeDecision(f) \/ GiveUp(f)
      BY <3>1, <3>2, Answers DEF TakeDecision, GiveUp, ReplyTypes
    <3>3. CASE ~TakeDecision(f) /\ ~GiveUp(f)
      BY <1>2, <3>3 DEF FireStep, Fire, ShimStep, Dial, WriteRequest, ReadResponse,
         ShimExpires, Accept, ServeStep, ReadRequest, ReadExpires, Respond,
         CallbackReturns, ReplyTypes
    <3> QED
      BY <3>2, <3>3
  <2>6. response' \in [Fires -> Responses \cup {Pending}]
    BY <1>2 DEF FireStep, Fire, ShimStep, Dial, WriteRequest, ReadResponse,
       ShimExpires, Accept, ServeStep, ReadRequest, ReadExpires, TakeDecision, GiveUp,
       Respond, CallbackReturns, ReplyTypes
  <2>7. timedOut' \in [Fires -> BOOLEAN]
    BY <1>2 DEF FireStep, Fire, ShimStep, Dial, WriteRequest, ReadResponse,
       ShimExpires, Accept, ServeStep, ReadRequest, ReadExpires, TakeDecision, GiveUp,
       Respond, CallbackReturns, ReplyTypes
  <2> QED
    BY <2>1, <2>2, <2>3, <2>4, <2>5, <2>6, <2>7 DEF HookTypes, ReplyTypes
<1>3. CASE Listens
  BY <1>3 DEF Listens, AcceptFails, BackoffEnds, StopListening, HookTypes, ReplyTypes
<1>4. CASE UNCHANGED hookVars
  BY <1>4 DEF hookVars, HookTypes, ReplyTypes
<1> QED
  BY <1>1, <1>2, <1>3, <1>4, HookedParties

-----------------------------------------------------------------------------
(* The invariant of the listener, part by part.                             *)

\* A step about one hook leaves the listener, and the other hooks, alone.
LEMMA FireFrame ==
    ASSUME HookTypes, ReplyTypes, NEW f \in Fires, FireStep(f)
    PROVE  /\ UNCHANGED <<listener, loop>>
           /\ \A g \in Fires \ {f} :
                 /\ shim'[g] = shim[g] /\ conn'[g] = conn[g]
                 /\ request'[g] = request[g] /\ callback'[g] = callback[g]
                 /\ verdict'[g] = verdict[g] /\ answer'[g] = answer[g]
                 /\ response'[g] = response[g] /\ timedOut'[g] = timedOut[g]
           /\ timedOut[f] => timedOut'[f]
<1> USE DEF FireStep, Fire, ShimStep, Dial, WriteRequest, ReadResponse, ShimExpires,
        Accept, ServeStep, ReadRequest, ReadExpires, TakeDecision, GiveUp, Respond,
        CallbackReturns, Exit, Hangup, HookTypes, ReplyTypes, lifeVars
<1>1. UNCHANGED <<listener, loop>>
  OBVIOUS
<1>2. \A g \in Fires \ {f} : shim'[g] = shim[g] /\ conn'[g] = conn[g]
  OBVIOUS
<1>3. \A g \in Fires \ {f} : request'[g] = request[g] /\ callback'[g] = callback[g]
  OBVIOUS
<1>4. \A g \in Fires \ {f} : verdict'[g] = verdict[g] /\ answer'[g] = answer[g]
  OBVIOUS
<1>5. \A g \in Fires \ {f} : response'[g] = response[g] /\ timedOut'[g] = timedOut[g]
  OBVIOUS
<1>6. timedOut[f] => timedOut'[f]
  OBVIOUS
<1> QED
  BY <1>1, <1>2, <1>3, <1>4, <1>5, <1>6

\* The bridge of the client is the listener; nothing is served before it is
\* up and after it is down.
LEMMA LifeStep ==
    ASSUME HookTypes, ReplyTypes, Life, [HookedNext]_hookedVars
    PROVE  Life'
<1>1. CASE Bridged
  BY <1>1 DEF Bridged, Start, Cancel, FinishClose, AllDone, HookTypes, Life, Serving,
     hookVars
<1>2. ASSUME bridge' = bridge, NEW f \in Fires, FireStep(f) PROVE Life'
  <2>1. /\ UNCHANGED <<listener, loop>>
        /\ \A g \in Fires \ {f} : conn'[g] = conn[g]
    BY <1>2, FireFrame
  <2>2. /\ conn'[f] # "backlog" \/ conn[f] = "backlog" \/ listener \in {"up", "cancelled"}
        /\ conn'[f] = "none" \/ conn[f] # "none" \/ listener \in {"up", "cancelled"}
        /\ \/ conn'[f] \notin {"reading", "calling", "answering"}
           \/ Serving(f) \/ loop = "accepting"
    BY <1>2 DEF FireStep, Fire, ShimStep, Dial, WriteRequest, ReadResponse, ShimExpires,
       Accept, ServeStep, ReadRequest, ReadExpires, TakeDecision, GiveUp, MayGiveUp,
       Respond, CallbackReturns, Hangup, HookTypes, Serving
  <2>3. Serving(f) => listener # "none"
    BY DEF Life, Serving
  <2> QED
    BY <1>2, <2>1, <2>2, <2>3 DEF Life, Serving
<1>3. CASE bridge' = bridge /\ Listens
  <2>1. CASE StopListening
    BY <1>3, <2>1 DEF StopListening, HookTypes, Life, Serving
  <2>2. CASE AcceptFails \/ BackoffEnds
    BY <1>3, <2>2 DEF AcceptFails, BackoffEnds, HookTypes, Life, Serving
  <2> QED
    BY <1>3, <2>1, <2>2 DEF Listens
<1>4. CASE UNCHANGED <<bridge, hookVars>>
  BY <1>4 DEF hookVars, Life, Serving
<1> QED
  BY <1>1, <1>2, <1>3, <1>4, HookedParties

\* The steps about a hook f keep what is known of f, and the listener's own
\* steps leave it alone but for a connection it drops.
LEMMA HookSteps ==
    ASSUME HookTypes, ReplyTypes, [HookedNext]_hookedVars, NEW f \in Fires
    PROVE  \/ FireStep(f)
           \/ /\ shim'[f] = shim[f] /\ request'[f] = request[f]
              /\ callback'[f] = callback[f] /\ verdict'[f] = verdict[f]
              /\ answer'[f] = answer[f] /\ response'[f] = response[f]
              /\ timedOut'[f] = timedOut[f]
              /\ \/ conn'[f] = conn[f]
                 \/ conn[f] = "backlog" /\ conn'[f] = "closed" /\ listener' = "deaf"
              /\ listener \in {"cancelled", "deaf", "closed"} =>
                    listener' \in {"cancelled", "deaf", "closed"}
<1>1. CASE Bridged
  BY <1>1 DEF Bridged, Start, Cancel, FinishClose, hookVars
<1>2. ASSUME NEW g \in Fires, FireStep(g), g # f
      PROVE  /\ UNCHANGED listener
             /\ shim'[f] = shim[f] /\ conn'[f] = conn[f]
             /\ request'[f] = request[f] /\ callback'[f] = callback[f]
             /\ verdict'[f] = verdict[f] /\ answer'[f] = answer[f]
             /\ response'[f] = response[f] /\ timedOut'[f] = timedOut[f]
  BY <1>2, FireFrame
<1>3. CASE Listens
  BY <1>3 DEF Listens, AcceptFails, BackoffEnds, StopListening, HookTypes
<1>4. CASE UNCHANGED hookVars
  BY <1>4 DEF hookVars
<1> QED
  BY <1>1, <1>2, <1>3, <1>4, HookedParties

\* The callback is called once, for a good request.
LEMMA CalledStep ==
    ASSUME HookTypes, ReplyTypes, [HookedNext]_hookedVars, NEW f \in Fires, Called(f)
    PROVE  Called(f)'
<1>1. CASE FireStep(f)
  <2> USE DEF Called, HookTypes, ReplyTypes, lifeVars
  <2>1. CASE Fire(f) \/ Dial(f)
    BY <2>1, Answers DEF Fire, Dial, Exit
  <2>2. CASE WriteRequest(f)
    BY <2>2, Answers DEF WriteRequest, Exit
  <2>3. CASE ReadResponse(f) \/ ShimExpires(f)
    BY <2>3, Answers DEF ReadResponse, ShimExpires, HasDeadline, Exit
  <2>4. CASE Accept(f) \/ ReadRequest(f) \/ ReadExpires(f) \/ CallbackReturns(f)
    BY <2>4 DEF Accept, ReadRequest, ReadExpires, CallbackReturns, Hangup, Decisions
  <2>5. CASE TakeDecision(f)
    BY <2>5, Answers DEF TakeDecision
  <2>6. CASE GiveUp(f)
    <3>1. "allow" \in Decisions
      BY DEF Decisions
    <3> QED
      BY <2>6, <3>1, Answers DEF GiveUp, MayGiveUp
  <2>7. CASE Respond(f)
    BY <2>7 DEF Respond, Hangup
  <2> QED
    BY <1>1, <2>1, <2>2, <2>3, <2>4, <2>5, <2>6, <2>7 DEF FireStep, ShimStep, ServeStep
<1>2. CASE ~FireStep(f)
  BY <1>2, HookSteps DEF Called
<1> QED
  BY <1>1, <1>2

\* What is known of a reply stays true of it unless the callback returns.
LEMMA ToldStays ==
    ASSUME NEW f \in Fires, NEW r, Told(f, r),
           \/ callback'[f] = callback[f]
           \/ callback[f] \in {"none", "running"},
           Excused(f) => Excused(f)'
    PROVE  Told(f, r)'
  BY DEF Told, Coherent

\* Every reply is the user's decision or silence that is accounted for.
LEMMA HeardStep ==
    ASSUME HookTypes, ReplyTypes, Life, [HookedNext]_hookedVars, NEW f \in Fires,
           Called(f), Heard(f)
    PROVE  Heard(f)'
<1>1. CASE FireStep(f)
  <2>1. UNCHANGED listener /\ (timedOut[f] => timedOut'[f])
    BY <1>1, FireFrame
  <2>2. Excused(f) => Excused(f)'
    BY <2>1 DEF Excused
  <2>3. \/ callback'[f] = callback[f]
        \/ callback[f] \in {"none", "running"}
    BY <1>1 DEF FireStep, Fire, ShimStep, Dial, WriteRequest, ReadResponse, ShimExpires,
       Accept, ServeStep, ReadRequest, ReadExpires, TakeDecision, GiveUp, Respond,
       CallbackReturns, HookTypes, Called
  <2>4. \A r : Told(f, r) => Told(f, r)'
    BY <2>2, <2>3, ToldStays
  <2>5. Told(f, answer[f])'
    <3>1. CASE TakeDecision(f)
      BY <2>2, <3>1, Answers DEF TakeDecision, HookTypes, ReplyTypes, Told, Decisions
    <3>2. CASE GiveUp(f)
      <4>1. "allow" \in Decisions
        BY DEF Decisions
      <4>2. listener # "none"
        BY <3>2 DEF GiveUp, MayGiveUp, Life
      <4>3. Excused(f)'
        BY <2>1, <3>2, <4>2 DEF GiveUp, Excused, HookTypes, ReplyTypes
      <4>4. \E event \in Events : answer'[f] = DecisionToResponse(event, "allow")
        BY <3>2 DEF GiveUp, ReplyTypes
      <4> QED
        BY <4>1, <4>3, <4>4, Answers DEF Told, Coherent
    <3>3. CASE ~TakeDecision(f) /\ ~GiveUp(f)
      <4>1. answer' = answer
        BY <1>1, <3>3 DEF FireStep, Fire, ShimStep, Dial, WriteRequest, ReadResponse,
           ShimExpires, Accept, ServeStep, ReadRequest, ReadExpires, Respond,
           CallbackReturns
      <4> QED
        BY <2>4, <4>1 DEF Heard
    <3> QED
      BY <3>1, <3>2, <3>3
  <2>6. Told(f, response[f])'
    <3>1. response'[f] \in {response[f], answer[f]}
      BY <1>1 DEF FireStep, Fire, ShimStep, Dial, WriteRequest, ReadResponse,
         ShimExpires, Accept, ServeStep, ReadRequest, ReadExpires, TakeDecision, GiveUp,
         Respond, CallbackReturns, ReplyTypes
    <3> QED
      BY <2>4, <3>1 DEF Heard
  <2>7. Told(f, verdict[f])' \/ (verdict'[f] = FailOpen /\ Uncalled(f)')
    <3>1. CASE verdict'[f] = verdict[f] /\ Told(f, verdict[f])
      BY <2>4, <3>1
    <3>2. CASE verdict'[f] = verdict[f] /\ verdict[f] = FailOpen /\ Uncalled(f)
      <4>1. shim[f] = "exited" /\ callback[f] = "none"
            /\ (conn[f] = "closed" \/ request[f] # "good")
        BY <3>2 DEF Uncalled
      <4>2. Uncalled(f)'
        BY <1>1, <4>1 DEF FireStep, Fire, ShimStep, Dial, WriteRequest, ReadResponse,
           ShimExpires, HasDeadline, Accept, ServeStep, ReadRequest, ReadExpires,
           TakeDecision, GiveUp, MayGiveUp, Respond, CallbackReturns, Hangup, Uncalled,
           HookTypes, Called
      <4> QED
        BY <3>2, <4>2
    <3>3. CASE verdict' # verdict
      <4>1. shim'[f] = "exited"
            /\ \/ verdict'[f] = response[f] /\ callback' = callback
               \/ verdict'[f] = FailOpen /\ Excused(f)'
               \/ verdict'[f] = FailOpen /\ Uncalled(f)'
        <5>1. CASE Dial(f)
          BY <3>3, <5>1 DEF Dial, Exit, HookTypes, ReplyTypes, Called, Uncalled
        <5>2. CASE WriteRequest(f)
          BY <3>3, <5>2 DEF WriteRequest, Exit, HookTypes, ReplyTypes, Called, Uncalled
        <5>3. CASE ReadResponse(f)
          BY <3>3, <2>2, <5>3 DEF ReadResponse, Exit, HookTypes, ReplyTypes, Heard, Uncalled
        <5>4. CASE ShimExpires(f)
          BY <3>3, <5>4 DEF ShimExpires, Exit, HookTypes, ReplyTypes, Excused
        <5> QED
          BY <1>1, <3>3, <5>1, <5>2, <5>3, <5>4 DEF FireStep, Fire, ShimStep,
             Accept, ServeStep, ReadRequest, ReadExpires, TakeDecision, GiveUp, Respond,
             CallbackReturns
      <4>2. Told(f, response[f])
        BY DEF Heard
      <4>3. CASE verdict'[f] = response[f]
        <5>1. PICK r : r = response[f]
          OBVIOUS
        <5>2. Told(f, r)'
          BY <2>4, <4>2, <5>1
        <5> QED
          BY <4>3, <5>1, <5>2 DEF Told
      <4>4. CASE verdict'[f] = FailOpen /\ Excused(f)'
        BY <4>4, Answers DEF Told
      <4> QED
        BY <4>1, <4>3, <4>4
    <3> QED
      BY <3>1, <3>2, <3>3 DEF Heard
  <2>8. conn'[f] = "closed" /\ response'[f] = Pending =>
            Excused(f)' \/ callback'[f] = "none" \/ shim'[f] = "exited"
    <3>1. CASE conn[f] # "closed" /\ conn'[f] = "closed"
      <4>1. CASE ReadRequest(f)
        BY <3>1, <4>1 DEF ReadRequest, Hangup, HookTypes, Called
      <4>2. CASE ReadExpires(f)
        BY <4>2 DEF ReadExpires, Excused, ReplyTypes
      <4>3. CASE Respond(f)
        BY <3>1, <4>3 DEF Respond, Called, Excused, HookTypes, ReplyTypes
      <4>4. CASE ~ReadRequest(f) /\ ~ReadExpires(f) /\ ~Respond(f)
        BY <1>1, <3>1, <4>4 DEF FireStep, Fire, ShimStep, Dial, WriteRequest,
           ReadResponse, ShimExpires, Accept, ServeStep, TakeDecision, GiveUp,
           CallbackReturns, HookTypes
      <4> QED
        BY <4>1, <4>2, <4>3, <4>4
    <3>2. CASE conn[f] = "closed"
      <4>1. /\ response'[f] = Pending => response[f] = Pending
            /\ callback[f] = "none" => callback'[f] = "none"
            /\ shim[f] = "exited" => shim'[f] = "exited"
        BY <1>1, <3>2 DEF FireStep, Fire, ShimStep, Dial, WriteRequest, ReadResponse,
           ShimExpires, Accept, ServeStep, ReadRequest, ReadExpires, TakeDecision,
           GiveUp, MayGiveUp, Respond, CallbackReturns, Exit, HookTypes
      <4> QED
        BY <2>2, <3>2, <4>1 DEF Heard
    <3> QED
      BY <3>1, <3>2
  <2> QED
    BY <2>5, <2>6, <2>7, <2>8 DEF Heard
<1>2. CASE ~FireStep(f)
  <2>1. Excused(f) => Excused(f)'
    BY <1>2, HookSteps DEF Excused
  <2>2. \A r : Told(f, r) => Told(f, r)'
    BY <1>2, <2>1, HookSteps, ToldStays
  <2>3. /\ answer'[f] = answer[f] /\ response'[f] = response[f]
        /\ verdict'[f] = verdict[f]
    BY <1>2, HookSteps
  <2>4. Uncalled(f) => Uncalled(f)'
    BY <1>2, HookSteps DEF Uncalled
  <2>5. conn'[f] = "closed" /\ response'[f] = Pending =>
            Excused(f)' \/ callback'[f] = "none" \/ shim'[f] = "exited"
    BY <1>2, <2>1, HookSteps DEF Heard, Excused
  <2>6. /\ Told(f, answer[f])' /\ Told(f, response[f])'
        /\ Told(f, verdict[f])' \/ (verdict'[f] = FailOpen /\ Uncalled(f)')
    BY <2>2, <2>3, <2>4 DEF Heard
  <2> QED
    BY <2>5, <2>6 DEF Heard
<1> QED
  BY <1>1, <1>2

-----------------------------------------------------------------------------
(* The composition's theorems.                                              *)

\* What Close may find: a published process that was started, a dispatcher it
\* cancels that was.
Sensible ==
    /\ tr # Nobody => process[tr] # "none"
    /\ dispCancel => dispatcher # "none"

\* Publish and Stop keep it.
LEMMA SensibleStep ==
    ASSUME Types, Published, Dispatched, Sensible, [Next]_vars
    PROVE  Sensible'
<1>1. ASSUME NEW k \in Connecters, Connects(k) \/ ProcessExits(k) PROVE Sensible'
  <2>1. dispCancel' = dispCancel /\ \A l \in Connecters \ {k} : process'[l] = process[l]
    BY <1>1, ConnectFrame DEF Types
  <2>2. dispatcher # "none" => dispatcher' # "none"
    BY <1>1 DEF Connects, ConnectStep, Begin, SetupBridge, Spawn, Publish,
       Initialize, InitializeFails, StartDispatcher, CheckClosed, CloseOwn,
       TakeBridge, TearBridge, Clear, ProcessExits
  <2>3. process[k] # "none" => process'[k] # "none"
    BY <1>1 DEF Connects, ConnectStep, Begin, SetupBridge, Spawn, Publish,
       Initialize, InitializeFails, StartDispatcher, CheckClosed, CloseOwn,
       TakeBridge, TearBridge, Clear, ProcessExits, Types, ConnectTypes
  <2>4. tr' = tr \/ (tr' = k /\ process'[k] = process[k] /\ cpc[k] = "publishing")
    BY <1>1 DEF Connects, ConnectStep, Begin, SetupBridge, Spawn, Publish,
       Initialize, InitializeFails, StartDispatcher, CheckClosed, CloseOwn,
       TakeBridge, TearBridge, Clear, ProcessExits
  <2> QED
    BY <2>1, <2>2, <2>3, <2>4 DEF Sensible, Published, Types, ClientTypes
<1>2. ASSUME NEW j \in Closers, Closes(j) PROVE Sensible'
  <2>1. dispatcher' = dispatcher
    BY <1>2, CloseFrame DEF Types
  <2>2. dispCancel' => dispCancel \/ (xpc[j] = "stopping" /\ snap[j].dispatcher)
    BY <1>2 DEF Closes, CloseStep, CloseBegin, Snapshot, Stop, Waited, WaitExpires,
       SweepThreads, Terminate, Reset, CloseTakesBridge, CloseTearsBridge,
       CancelsDispatcher
  <2>3. /\ tr' \in {tr, Nobody}
        /\ \A k \in Connecters : process[k] # "none" => process'[k] # "none"
    BY <1>2 DEF Closes, CloseStep, CloseBegin, Snapshot, Stop, Waited, WaitExpires,
       SweepThreads, Terminate, Reset, CloseTakesBridge, CloseTearsBridge, Types,
       ConnectTypes
  <2> QED
    BY <2>1, <2>2, <2>3 DEF Sensible, Dispatched, Types, ClientTypes
<1>3. CASE Dispatches
  BY <1>3 DEF Dispatches, DispatcherLeaves, DispatcherDone, Sensible
<1>4. CASE Quiet \/ UNCHANGED vars
  BY <1>4 DEF Quiet, vars, Sensible
<1> QED
  BY <1>1, <1>2, <1>3, <1>4, Parties

HookState == HookTypes /\ ReplyTypes /\ Hooks

\* The inductive invariant of the listener holds, whatever the client does.
LEMMA HooksHold == HookedSpec => []HookState
<1>1. HookedInit => HookState
  <2> SUFFICES ASSUME HookedInit PROVE HookState
    OBVIOUS
  <2>1. HookTypes /\ ReplyTypes
    BY DEF HookedInit, HookInit, HookTypes, ReplyTypes
  <2>2. Life
    BY DEF HookedInit, HookInit, Init, Life
  <2>3. ASSUME NEW f \in Fires PROVE Called(f) /\ Heard(f)
    BY Answers DEF HookedInit, HookInit, Called, Heard, Told
  <2> QED
    BY <2>1, <2>2, <2>3 DEF HookState, Hooks
<1>2. HookState /\ [HookedNext]_hookedVars => HookState'
  BY HookTyped, LifeStep, CalledStep, HeardStep DEF HookState, Hooks
<1> QED
  BY <1>1, <1>2, PTL DEF HookedSpec

\* Every variable of the client and of its hook bridge keeps its type, and the
\* client's view of its bridge is what the listener does.
THEOREM HookedTypes == HookedSpec => []HookedTypeOK
<1>1. HookedInit => Sensible
  BY DEF HookedInit, Init, Sensible
<1>2. ClientState /\ Sensible /\ [HookedNext]_hookedVars => Sensible'
  BY ClientSteps, SensibleStep DEF ClientState, ClientInv
<1>3. HookedSpec => []Sensible
  BY <1>1, <1>2, ClientHolds, PTL DEF HookedSpec
<1>4. ClientState /\ Sensible /\ HookState => HookedTypeOK
  <2> SUFFICES ASSUME ClientState, Sensible, HookState PROVE HookedTypeOK
    OBVIOUS
  <2>1. TypeOK
    BY DEF ClientState, Types, ClientTypes, ConnectTypes, CloseTypes, Sensible, TypeOK
  <2>2. HookTypeOK
    BY DEF HookState, HookTypes, ReplyTypes, Hooks, Called, HookTypeOK
  <2> QED
    BY <2>1, <2>2 DEF HookedTypeOK, HookState, Hooks, Life
<1> QED
  BY <1>3, <1>4, ClientHolds, HooksHold, PTL

\* Codex is told to block by the user's decision and by nothing else, and a
\* decision to block is heard unless a deadline passed or the bridge was being
\* closed; for any number of hooks at once.
THEOREM HookVerdictsAlways == HookedSpec => []HookVerdicts
<1>1. HookState => HookVerdicts
  <2> SUFFICES ASSUME HookState, NEW f \in Fires, shim[f] = "exited"
               PROVE  /\ verdict[f].exit = 2 => callback[f] = "deny"
                      /\ callback[f] = "deny" /\ verdict[f].exit = 0 =>
                            timedOut[f] \/ listener # "up"
                      /\ verdict[f].says = "block" => verdict[f].exit = 2
                      /\ verdict[f].says = "approve" => verdict[f].exit = 0
    BY DEF HookVerdicts
  <2>1. CASE Told(f, verdict[f])
    BY <2>1 DEF Told, Coherent, Excused
  <2>2. CASE verdict[f] = FailOpen /\ Uncalled(f)
    BY <2>2, Answers DEF Uncalled, Coherent
  <2> QED
    BY <2>1, <2>2 DEF HookState, Hooks, Heard
<1> QED
  BY <1>1, HooksHold, PTL

\* Once Close and the Connects have returned, no connection of a hook is served
\* and none can be accepted: closeHookBridge has waited for every one of them,
\* whoever of the callers took the bridge.
THEOREM HandlerRestsAlways == HookedSpec => []HandlerRests
<1>1. ClientState /\ HookState => HandlerRests
  <2> SUFFICES ASSUME ClientState, HookState,
                      \A j \in Closers : xpc[j] \in {"idle", "returned"},
                      NEW j \in Closers, CloseWon(j),
                      \A k \in Connecters : ConnectReturned(k),
                      NEW f \in Fires
               PROVE  conn[f] \in {"none", "closed"}
    BY DEF HandlerRests
  <2>1. bridge \in {"none", "down"}
    <3> USE DEF ClientState, ClientInv
    <3>1. closed
      BY DEF OneClose, CloseWon, Types, ClientTypes
    <3>2. bridge # "tearing" /\ bridge # "up"
      BY <3>1 DEF Bridge, Working, Early, ConnectReturned
    <3> QED
      BY <3>2 DEF Types, ClientTypes
  <2>2. listener \in {"none", "closed"}
    BY <2>1 DEF HookState, Hooks, Life
  <2> QED
    BY <2>2 DEF HookState, Hooks, Life, HookTypes, Serving
<1> QED
  BY <1>1, ClientHolds, HooksHold, PTL
=============================================================================
