-------------------------- MODULE ThreadEventsProofs --------------------------
(****************************************************************************)
(* Proofs about ThreadEvents, for any number of subscribers, any buffer and *)
(* any log: what a subscriber reads is the stream EventStream promises, the *)
(* dispatcher never finds the reserved slot taken, an intended shutdown     *)
(* leaves no record, and a source that is dead takes no subscription.       *)
(****************************************************************************)
EXTENDS ThreadEvents, TLAPS

-----------------------------------------------------------------------------
(* The inductive invariant.                                                 *)

\* Nothing is sent to, and the dispatcher does not know, a subscription that
\* was not made; a watcher removes one only because its context is done.
Fresh ==
    \A s \in Subscribers :
        /\ status[s] \notin {"open", "ended"} => sent[s] = <<>> /\ s \notin todo
        /\ watcher[s] # "none" => status[s] \in {"open", "ended"}
        /\ watcher[s] = "removing" => s \in cancelled

\* The notification that is being handled is the last of the log.
InHand ==
    /\ dispatcher = "publishing" =>
          then = "receiving" /\ Len(log) > 0 /\ log[Len(log)] = "event"
    /\ dispatcher = "failing" /\ then = "receiving" => Len(log) > 0

\* How far Close and the end of the source have come.
Ending ==
    /\ closing # "no" => closed
    /\ ctxDone <=> closing \notin {"no", "begun"}
    /\ source = "stopped" => ctxDone
    /\ dispatcher \in {"disconnecting", "breaking"} \/ then = "leaving" =>
          source = "ended"
    /\ dispatcher = "breaking" \/ then = "leaving" => ~connected
    /\ dispatcher \in {"leaving", "emptying", "sweeping", "done"} =>
          closed \/ SourceOver

\* A subscription is one entry behind the log while the dispatcher has not come
\* to it, and otherwise, as long as it is in the map, not behind.
Due(s) == start[s] + Len(sent[s]) + 1
Behind(s) ==
    /\ s \in todo
    /\ dispatcher \in {"publishing", "failing"} /\ then = "receiving"
Owed ==
    \A s \in Subscribers : status[s] = "open" =>
        /\ Behind(s) => Due(s) = Len(log)
        /\ s \in registered /\ ~Behind(s) => Due(s) = Len(log) + 1

\* A record that stands for no entry of the log is that of a dead source.
DeadRecord(s) ==
    /\ Len(sent[s]) > 0 /\ sent[s][Len(sent[s])] = Gap
    /\ start[s] + Len(sent[s]) > Len(log)
Dead ==
    \A s \in Subscribers : DeadRecord(s) => source = "ended" /\ ~connected

StreamInv ==
    TypeOK /\ Fresh /\ InHand /\ Ending /\ Owed /\ Dead /\ ReservedSlotFree

-----------------------------------------------------------------------------
(* Its parts hold at first, and every step keeps them.                      *)

\* A client with no subscriptions.
LEMMA StreamInit == Init => StreamInv
<1> SUFFICES ASSUME Init PROVE StreamInv
  OBVIOUS
<1> USE SubscriberAssumption, BufferAssumption DEF Init
<1>1. TypeOK
  <2>1. /\ sent \in [Subscribers -> Seq(Nat)] /\ log \in Seq({"event", "damage"})
        /\ \A s \in Subscribers : read[s] <= Len(sent[s]) /\ start[s] <= Len(log)
    OBVIOUS
  <2>2. /\ read \in [Subscribers -> Nat] /\ start \in [Subscribers -> Nat]
        /\ status \in [Subscribers ->
                         {"none", "checked", "refused", "open", "ended"}]
        /\ watcher \in [Subscribers -> {"none", "waiting", "removing", "done"}]
    OBVIOUS
  <2> QED
    BY <2>1, <2>2 DEF TypeOK
<1>2. Fresh /\ InHand /\ Ending /\ Owed
  BY DEF Fresh, InHand, Ending, Owed, SourceOver, Behind
<1>3. Dead /\ ReservedSlotFree
  BY DEF Dead, DeadRecord, ReservedSlotFree, Unread
<1> QED
  BY <1>1, <1>2, <1>3 DEF StreamInv

\* The steps of one subscription keep the types.
LEMMA SubscriberKeepsTypes ==
  ASSUME TypeOK, NEW s \in Subscribers,
         \/ SubscribeCheck(s) \/ SubscribeRegister(s) \/ Cancel(s)
         \/ WatcherWakes(s) \/ WatcherCloses(s) \/ Receive(s)
  PROVE  TypeOK'
<1> USE SubscriberAssumption, BufferAssumption
    DEF TypeOK, subVars, ctxVars, dispVars
<1>1. CASE SubscribeCheck(s)
  BY <1>1 DEF SubscribeCheck
<1>2. CASE SubscribeRegister(s)
  <2>1. CASE Admits
    <3>1. /\ status[s] = "checked"
          /\ status' = [status EXCEPT ![s] = "open"]
          /\ registered' = registered \cup {s}
          /\ start' = [start EXCEPT ![s] = Len(log)]
          /\ watcher' = [watcher EXCEPT ![s] = "waiting"]
          /\ UNCHANGED <<closed, connected, sent, read, cancelled, dispVars,
                         source, ctxDone, closing>>
      BY <1>2, <2>1 DEF SubscribeRegister
    <3>2. start' \in [Subscribers -> Nat]
          /\ \A t \in Subscribers : read'[t] <= Len(sent'[t]) /\ start'[t] <= Len(log')
      BY <3>1
    <3>3. /\ status' \in [Subscribers ->
                           {"none", "checked", "refused", "open", "ended"}]
          /\ \A t \in Subscribers : status[t] \in {"open", "ended"} => status'[t] = status[t]
          /\ status'[s] = "open"
      BY <3>1
    <3>4. watcher' \in [Subscribers -> {"none", "waiting", "removing", "done"}]
      BY <3>1
    <3>5. /\ registered' \subseteq {t \in Subscribers : status'[t] \in {"open", "ended"}}
          /\ forget' \in {t \in Subscribers : status'[t] = "ended"} \cup {NoSubscriber}
      BY <3>1, <3>3
    <3>6. UNCHANGED <<closed, connected, sent, read, cancelled, dispVars, source,
                      ctxDone, closing>>
      BY <3>1
    <3>7. status' \in [Subscribers ->
                          {"none", "checked", "refused", "open", "ended"}]
      BY <3>3
    <3> QED
      BY <3>2, <3>4, <3>5, <3>6, <3>7
  <2>2. CASE ~Admits
    <3>1. /\ status[s] = "checked"
          /\ status' = [status EXCEPT ![s] = "refused"]
          /\ UNCHANGED <<closed, connected, registered, sent, read, start, ctxVars,
                         dispVars, source, ctxDone, closing>>
      BY <1>2, <2>2 DEF SubscribeRegister
    <3> QED
      BY <3>1
  <2> QED
    BY <2>1, <2>2
<1>3. CASE Cancel(s)
  BY <1>3 DEF Cancel
<1>4. CASE WatcherWakes(s)
  <2>1. /\ watcher' \in [Subscribers -> {"none", "waiting", "removing", "done"}]
        /\ registered' \subseteq registered
        /\ UNCHANGED <<closed, connected, status, sent, read, start, cancelled,
                       dispVars, source, ctxDone, closing>>
    BY <1>4 DEF WatcherWakes
  <2> QED
    BY <2>1
<1>5. CASE WatcherCloses(s)
  BY <1>5 DEF WatcherCloses
<1>6. CASE Receive(s)
  BY <1>6 DEF Receive, Unread
<1> QED
  BY <1>1, <1>2, <1>3, <1>4, <1>5, <1>6

\* The steps of the dispatcher keep the types.
LEMMA DispatcherKeepsTypes ==
  ASSUME TypeOK, DispatcherStep  PROVE TypeOK'
<1> USE SubscriberAssumption, BufferAssumption
    DEF TypeOK, subVars, ctxVars, dispVars, notDispatcher
<1>1. CASE Take
  <2>1. PICK k \in {"event", "damage"} :
           /\ log' = Append(log, k) /\ dispatcher' \in {"publishing", "failing"}
           /\ todo' = registered /\ then' = "receiving"
           /\ UNCHANGED <<notDispatcher, connected, registered, status, sent,
                          forget>>
    BY <1>1 DEF Take
  <2>2. log' \in Seq({"event", "damage"}) /\ Len(log') = Len(log) + 1
    BY <2>1
  <2>3. \A s \in Subscribers : read'[s] <= Len(sent'[s]) /\ start'[s] <= Len(log')
    BY <2>1, <2>2
  <2> QED
    BY <2>1, <2>2, <2>3
<1>2. CASE Forget
  BY <1>2 DEF Forget
<1>3. CASE SnapshotDone \/ SourceSeen \/ Disconnect \/ BreakAll \/ Cancelled
  <2>1. /\ connected' \in BOOLEAN /\ todo' \subseteq Subscribers
        /\ dispatcher' \in {"receiving", "disconnecting", "leaving", "breaking",
                           "failing"}
        /\ then' \in {"receiving", "leaving"}
    <3>1. CASE SnapshotDone \/ SourceSeen \/ Cancelled
      BY <3>1 DEF SnapshotDone, SourceSeen, Cancelled
    <3>2. CASE Disconnect \/ BreakAll
      BY <3>2 DEF Disconnect, DisconnectedFirst, BreakAll
    <3> QED
      BY <1>3, <3>1, <3>2
  <2>2. UNCHANGED <<notDispatcher, registered, status, sent, log, forget>>
    BY <1>3 DEF SnapshotDone, SourceSeen, Disconnect, BreakAll, Cancelled
  <2> QED
    BY <2>1, <2>2
<1>4. CASE Leave
  BY <1>4 DEF Leave
<1>5. CASE EmptyMap
  BY <1>5 DEF EmptyMap, TakenOver
<1>6. CASE Exit
  BY <1>6 DEF Exit
<1>7. ASSUME NEW s \in Subscribers, Deliver(s) \/ Fail(s)
      PROVE  TypeOK'
  <2>1. \/ UNCHANGED sent
        \/ \E n \in Nat : sent' = [sent EXCEPT ![s] = Append(@, n)]
    <3>1. Len(log) \in Nat /\ Gap \in Nat
      BY DEF Gap
    <3>2. \/ UNCHANGED sent
          \/ sent' = [sent EXCEPT ![s] = Append(@, Gap)]
          \/ sent' = [sent EXCEPT ![s] = Append(@, Len(log))]
      BY <1>7 DEF Deliver, Fail, Overflow
    <3> QED
      BY <3>1, <3>2
  <2>2. /\ sent' \in [Subscribers -> Seq(Nat)]
        /\ \A t \in Subscribers : Len(sent'[t]) >= Len(sent[t])
    <3>1. CASE UNCHANGED sent
      BY <3>1
    <3>2. ASSUME NEW n \in Nat, sent' = [sent EXCEPT ![s] = Append(@, n)]
          PROVE  /\ sent' \in [Subscribers -> Seq(Nat)]
                 /\ \A t \in Subscribers : Len(sent'[t]) >= Len(sent[t])
      <4>1. Append(sent[s], n) \in Seq(Nat) /\ Len(Append(sent[s], n)) = Len(sent[s]) + 1
        OBVIOUS
      <4>2. /\ sent' \in [Subscribers -> Seq(Nat)]
            /\ \A t \in Subscribers : sent'[t] = IF t = s THEN Append(sent[s], n) ELSE sent[t]
        BY <3>2, <4>1
      <4>3. \A t \in Subscribers : Len(sent[t]) \in Nat
        OBVIOUS
      <4> QED
        BY <4>1, <4>2, <4>3
    <3> QED
      BY <2>1, <3>1, <3>2
  <2>3. /\ status' \in [Subscribers ->
                        {"none", "checked", "refused", "open", "ended"}]
        /\ \A t \in Subscribers :
              /\ status[t] \in {"open", "ended"} => status'[t] \in {"open", "ended"}
              /\ status[t] = "ended" => status'[t] = "ended"
        /\ forget' \in {t \in Subscribers : status'[t] = "ended"} \cup {NoSubscriber}
    <3>1. /\ status[s] \in {"open", "ended"} /\ forget = NoSubscriber
          /\ \/ status' = status
             \/ status' = [status EXCEPT ![s] = "ended"]
          /\ \/ forget' = forget
             \/ forget' = s /\ (status[s] = "ended" \/ status' # status)
      BY <1>7 DEF Deliver, Fail, Overflow
    <3>2. CASE status' = status
      BY <3>1, <3>2
    <3>3. CASE status' = [status EXCEPT ![s] = "ended"]
      BY <3>1, <3>3
    <3> QED
      BY <3>1, <3>2, <3>3
  <2>4. /\ todo' \subseteq todo
        /\ UNCHANGED <<notDispatcher, connected, registered, log, dispatcher, then>>
    BY <1>7 DEF Deliver, Fail
  <2>5. \A t \in Subscribers : read'[t] <= Len(sent'[t]) /\ start'[t] <= Len(log')
    BY <2>2, <2>4
  <2> QED
    BY <2>2, <2>3, <2>4, <2>5
<1>8. ASSUME NEW s \in Subscribers, Sweep(s)
      PROVE  TypeOK'
  BY <1>8 DEF Sweep
<1> QED
  BY <1>1, <1>2, <1>3, <1>4, <1>5, <1>6, <1>7, <1>8 DEF DispatcherStep

\* The steps of Close, and the end of the source, keep the types.
LEMMA CloseKeepsTypes ==
  ASSUME TypeOK, CloseBegin \/ CloseStep \/ SourceEnds \/ UNCHANGED vars
  PROVE  TypeOK'
<1> USE SubscriberAssumption, BufferAssumption
    DEF TypeOK, subVars, ctxVars, dispVars
<1>1. CASE CloseBegin
  BY <1>1 DEF CloseBegin
<1>2. CASE CloseStop
  BY <1>2 DEF CloseStop
<1>3. CASE CloseWaited
  BY <1>3 DEF CloseWaited
<1>4. CASE CloseReset
  BY <1>4 DEF CloseReset
<1>5. CASE CloseSweep
  BY <1>5 DEF CloseSweep
<1>6. CASE SourceEnds
  BY <1>6 DEF SourceEnds
<1>7. CASE UNCHANGED vars
  BY <1>7 DEF vars
<1> QED
  BY <1>1, <1>2, <1>3, <1>4, <1>5, <1>6, <1>7 DEF CloseStep

\* Every step keeps the types.
LEMMA TypeStep == TypeOK /\ [Next]_vars => TypeOK'
<1> SUFFICES ASSUME TypeOK, [Next]_vars PROVE TypeOK'
  OBVIOUS
<1>1. CASE Quiet
  BY <1>1, CloseKeepsTypes DEF Quiet
<1> QED
  BY <1>1, SubscriberKeepsTypes, DispatcherKeepsTypes, CloseKeepsTypes DEF Next

\* The maps are of subscriptions that were made.
LEMMA FreshStep == StreamInv /\ [Next]_vars => Fresh'
<1> SUFFICES ASSUME StreamInv, [Next]_vars PROVE Fresh'
  OBVIOUS
<1>1. TypeOK /\ Fresh
  BY DEF StreamInv
<1> USE <1>1 DEF Fresh, subVars, ctxVars, dispVars, notDispatcher
<1>2. ASSUME NEW s \in Subscribers,
             SubscribeCheck(s) \/ SubscribeRegister(s) \/ Cancel(s)
      PROVE  Fresh'
  BY <1>2 DEF SubscribeCheck, SubscribeRegister, Cancel, TypeOK
<1>3. ASSUME NEW s \in Subscribers,
             WatcherWakes(s) \/ WatcherCloses(s) \/ Receive(s)
      PROVE  Fresh'
  BY <1>3 DEF WatcherWakes, WatcherCloses, Receive, TypeOK
<1>4. CASE Take \/ BreakAll \/ EmptyMap
  BY <1>4 DEF Take, BreakAll, EmptyMap, TakenOver, TypeOK
<1>5. ASSUME NEW s \in Subscribers, Deliver(s) \/ Fail(s) \/ Sweep(s)
      PROVE  Fresh'
  <2>1. /\ s \in todo /\ todo' = todo \ {s}
        /\ \A t \in Subscribers : t # s => sent'[t] = sent[t] /\ status'[t] = status[t]
        /\ status'[s] \in {"open", "ended"}
        /\ UNCHANGED <<watcher, cancelled>>
    BY <1>5 DEF Deliver, Fail, Sweep, Overflow, TypeOK
  <2> QED
    BY <2>1
<1>6. CASE Forget \/ SnapshotDone \/ SourceSeen \/ Disconnect \/ Cancelled
           \/ Leave \/ Exit
  BY <1>6 DEF Forget, SnapshotDone, SourceSeen, Disconnect, Cancelled, Leave, Exit
<1>7. CASE CloseSweep
  BY <1>7 DEF CloseSweep, TypeOK
<1>8. CASE CloseBegin \/ CloseStop \/ CloseWaited \/ CloseReset \/ SourceEnds
  BY <1>8 DEF CloseBegin, CloseStop, CloseWaited, CloseReset, SourceEnds
<1>9. CASE Quiet \/ UNCHANGED vars
  BY <1>9 DEF Quiet, vars
<1> QED
  BY <1>2, <1>3, <1>4, <1>5, <1>6, <1>7, <1>8, <1>9
  DEF Next, DispatcherStep, CloseStep

\* The dispatcher handles the last notification, and ends with its source.
LEMMA EndingStep == StreamInv /\ [Next]_vars => InHand' /\ Ending'
<1> SUFFICES ASSUME StreamInv, [Next]_vars PROVE InHand' /\ Ending'
  OBVIOUS
<1>1. TypeOK /\ InHand /\ Ending
  BY DEF StreamInv
<1> USE <1>1 DEF InHand, Ending, SourceOver, subVars, ctxVars, dispVars, notDispatcher
<1>2. ASSUME NEW s \in Subscribers,
             \/ SubscribeCheck(s) \/ SubscribeRegister(s) \/ Cancel(s)
             \/ WatcherWakes(s) \/ WatcherCloses(s) \/ Receive(s)
      PROVE  InHand' /\ Ending'
  BY <1>2 DEF SubscribeCheck, SubscribeRegister, Cancel, WatcherWakes,
              WatcherCloses, Receive
<1>3. CASE Take
  <2>1. Ending'
    BY <1>3 DEF Take
  <2>2. ASSUME NEW k, log' = Append(log, k)
        PROVE  Len(log') > 0 /\ log'[Len(log')] = k
    BY <2>2 DEF TypeOK
  <2> QED
    BY <1>3, <2>1, <2>2 DEF Take
<1>4. CASE SourceSeen
  BY <1>4 DEF SourceSeen, Unexpected, TypeOK
<1>5. CASE BreakAll \/ Disconnect \/ Leave \/ EmptyMap \/ Exit
  BY <1>5 DEF BreakAll, Disconnect, DisconnectedFirst, Leave, EmptyMap, Exit
<1>6. CASE SnapshotDone \/ Cancelled \/ Forget
  BY <1>6 DEF SnapshotDone, Cancelled, Forget, TypeOK
<1>7. ASSUME NEW s \in Subscribers, Deliver(s) \/ Fail(s) \/ Sweep(s)
      PROVE  InHand' /\ Ending'
  BY <1>7 DEF Deliver, Fail, Sweep
<1>8. CASE CloseBegin \/ CloseStep
  BY <1>8 DEF CloseBegin, CloseStep, CloseStop, CloseWaited, CloseSweep, CloseReset
<1>9. CASE SourceEnds
  BY <1>9 DEF SourceEnds
<1>10. CASE Quiet \/ UNCHANGED vars
  BY <1>10 DEF Quiet, vars
<1> QED
  BY <1>2, <1>3, <1>4, <1>5, <1>6, <1>7, <1>8, <1>9, <1>10
  DEF Next, DispatcherStep

\* What Deliver and Fail put into a channel.
LEMMA SentStep ==
  ASSUME TypeOK, NEW s \in Subscribers, Deliver(s) \/ Fail(s)
  PROVE  /\ \A t \in Subscribers : t # s => sent'[t] = sent[t] /\ status'[t] = status[t]
         /\ \/ sent'[s] = sent[s] /\ status'[s] = "ended" /\ status[s] = "ended"
            \/ /\ status[s] = "open" /\ status'[s] = "open" /\ Deliver(s) /\ ~Full(s)
               /\ Len(sent'[s]) = Len(sent[s]) + 1
               /\ sent'[s] = Append(sent[s], Len(log))
               /\ sent'[s][Len(sent'[s])] = Len(log)
            \/ /\ status[s] = "open" /\ status'[s] = "ended"
               /\ Deliver(s) => Full(s)
               /\ Len(sent'[s]) = Len(sent[s]) + 1
               /\ sent'[s] = Append(sent[s], Gap)
               /\ sent'[s][Len(sent'[s])] = Gap
<1>1. status \in [Subscribers -> {"none", "checked", "refused", "open", "ended"}]
      /\ sent \in [Subscribers -> Seq(Nat)] /\ Len(log) \in Nat /\ Gap \in Nat
  BY DEF TypeOK, Gap
<1>2. \/ UNCHANGED <<sent, status>> /\ status[s] = "ended"
      \/ /\ status[s] = "open" /\ UNCHANGED status /\ Deliver(s) /\ ~Full(s)
         /\ sent' = [sent EXCEPT ![s] = Append(@, Len(log))]
      \/ /\ status[s] = "open" /\ status' = [status EXCEPT ![s] = "ended"]
         /\ Deliver(s) => Full(s)
         /\ sent' = [sent EXCEPT ![s] = Append(@, Gap)]
  BY DEF Deliver, Fail, Overflow
<1>3. ASSUME NEW n \in Nat, sent' = [sent EXCEPT ![s] = Append(@, n)]
      PROVE  /\ sent'[s] = Append(sent[s], n)
             /\ \A t \in Subscribers : t # s => sent'[t] = sent[t]
             /\ Len(sent'[s]) = Len(sent[s]) + 1 /\ sent'[s][Len(sent'[s])] = n
  <2>1. /\ sent'[s] = Append(sent[s], n)
        /\ \A t \in Subscribers : t # s => sent'[t] = sent[t]
    BY <1>1, <1>3
  <2>2. sent[s] \in Seq(Nat)
    BY <1>1
  <2> QED
    BY <2>1, <2>2
<1>4. CASE UNCHANGED <<sent, status>> /\ status[s] = "ended"
  BY <1>4
<1>5. CASE /\ status[s] = "open" /\ UNCHANGED status /\ Deliver(s) /\ ~Full(s)
           /\ sent' = [sent EXCEPT ![s] = Append(@, Len(log))]
  BY <1>1, <1>3, <1>5
<1>6. CASE /\ status[s] = "open" /\ status' = [status EXCEPT ![s] = "ended"]
           /\ Deliver(s) => Full(s)
           /\ sent' = [sent EXCEPT ![s] = Append(@, Gap)]
  BY <1>1, <1>3, <1>6
<1> QED
  BY <1>2, <1>4, <1>5, <1>6

\* Each subscription is owed the entry the dispatcher brings it next.
LEMMA OwedStep == StreamInv /\ [Next]_vars => Owed'
<1> SUFFICES ASSUME StreamInv, [Next]_vars PROVE Owed'
  OBVIOUS
<1>1. TypeOK /\ Fresh /\ InHand /\ Ending /\ Owed /\ TypeOK'
  BY TypeStep DEF StreamInv
<1> USE <1>1 DEF Owed, Due, Behind, subVars, ctxVars, dispVars, notDispatcher
<1>2. ASSUME NEW s \in Subscribers, SubscribeCheck(s) \/ Cancel(s) \/ Receive(s)
      PROVE  Owed'
  <2>1. /\ \A t \in Subscribers : status'[t] = "open" => status[t] = "open"
        /\ UNCHANGED <<start, sent, log, todo, dispatcher, then, registered>>
    <3>1. CASE SubscribeCheck(s)
      BY <3>1 DEF SubscribeCheck, TypeOK
    <3>2. CASE Cancel(s) \/ Receive(s)
      BY <3>2 DEF Cancel, Receive
    <3> QED
      BY <1>2, <3>1, <3>2
  <2> QED
    BY <2>1
<1>3. ASSUME NEW s \in Subscribers, SubscribeRegister(s)
      PROVE  Owed'
  <2>1. CASE Admits
    <3>1. /\ status[s] = "checked" /\ start'[s] = Len(log) /\ sent[s] = <<>>
          /\ s \notin todo /\ status'[s] = "open"
          /\ UNCHANGED <<sent, log, todo, dispatcher, then>>
          /\ registered' = registered \cup {s}
          /\ \A t \in Subscribers : t # s => status'[t] = status[t] /\ start'[t] = start[t]
      BY <1>3, <2>1 DEF SubscribeRegister, Fresh, TypeOK
    <3>2. Len(sent[s]) = 0 /\ Len(log) \in Nat
      BY <3>1 DEF TypeOK
    <3> QED
      BY <3>1, <3>2
  <2>2. CASE ~Admits
    BY <1>3, <2>2 DEF SubscribeRegister, TypeOK
  <2> QED
    BY <2>1, <2>2
<1>4. ASSUME NEW s \in Subscribers, WatcherWakes(s) \/ WatcherCloses(s)
      PROVE  Owed'
  BY <1>4 DEF WatcherWakes, WatcherCloses, TypeOK
<1>5. CASE Take
  <2>1. /\ dispatcher = "receiving" /\ dispatcher' \in {"publishing", "failing"}
        /\ then' = "receiving" /\ todo' = registered
        /\ UNCHANGED <<registered, status, sent, start>>
    BY <1>5 DEF Take
  <2>2. Len(log') = Len(log) + 1
    BY <1>5 DEF Take, TypeOK
  <2> QED
    BY <2>1, <2>2
<1>6. ASSUME NEW s \in Subscribers, Deliver(s) \/ Fail(s)
      PROVE  Owed'
  <2>1. /\ s \in todo /\ todo' = todo \ {s}
        /\ UNCHANGED <<start, log, registered, dispatcher, then>>
    BY <1>6 DEF Deliver, Fail
  <2>2. Deliver(s) => dispatcher = "publishing" /\ then = "receiving"
    BY DEF Deliver, InHand
  <2>3. Len(log) \in Nat /\ \A t \in Subscribers : start[t] \in Nat /\ Len(sent[t]) \in Nat
    BY DEF TypeOK
  <2>4. \A t \in Subscribers : t # s => sent'[t] = sent[t] /\ status'[t] = status[t]
    BY <1>6, SentStep
  <2>5. ASSUME status'[s] = "open"
        PROVE  Deliver(s) /\ status[s] = "open" /\ Len(sent'[s]) = Len(sent[s]) + 1
    BY <1>6, <2>5, SentStep
  <2>6. ASSUME NEW t \in Subscribers, t # s, status'[t] = "open"
        PROVE  /\ Behind(t)' => Due(t)' = Len(log')
               /\ t \in registered' /\ ~Behind(t)' => Due(t)' = Len(log') + 1
    BY <2>1, <2>4, <2>6
  <2>7. ASSUME status'[s] = "open"
        PROVE  Due(s)' = Len(log') + 1 /\ ~Behind(s)'
    <3>1. Behind(s) /\ Due(s) = Len(log)
      BY <2>1, <2>2, <2>5, <2>7
    <3>2. ~Behind(s)'
      BY <2>1
    <3>3. Due(s)' = Due(s) + 1
      BY <2>1, <2>3, <2>5, <2>7
    <3> QED
      BY <2>1, <3>1, <3>2, <3>3
  <2> QED
    BY <2>6, <2>7
<1>7. ASSUME NEW s \in Subscribers, Sweep(s)
      PROVE  Owed'
  BY <1>7 DEF Sweep, TypeOK
<1>8. CASE Forget
  BY <1>8 DEF Forget
<1>9. CASE SnapshotDone \/ SourceSeen \/ Disconnect \/ BreakAll \/ Cancelled
  BY <1>9 DEF SnapshotDone, SourceSeen, Disconnect, BreakAll, Cancelled
<1>10. CASE Leave \/ EmptyMap \/ Exit
  BY <1>10 DEF Leave, EmptyMap, Exit
<1>11. CASE CloseSweep
  BY <1>11 DEF CloseSweep
<1>12. CASE CloseBegin \/ CloseStop \/ CloseWaited \/ CloseReset \/ SourceEnds
  BY <1>12 DEF CloseBegin, CloseStop, CloseWaited, CloseReset, SourceEnds
<1>13. CASE Quiet \/ UNCHANGED vars
  BY <1>13 DEF Quiet, vars
<1> QED
  BY <1>2, <1>3, <1>4, <1>5, <1>6, <1>7, <1>8, <1>9, <1>10, <1>11, <1>12, <1>13
  DEF Next, DispatcherStep, CloseStep

\* Only the end of the source makes a record that stands for no entry.
LEMMA DeadStep == StreamInv /\ [Next]_vars => Dead'
<1> SUFFICES ASSUME StreamInv, [Next]_vars PROVE Dead'
  OBVIOUS
<1>1. TypeOK /\ Fresh /\ InHand /\ Ending /\ Owed /\ Dead
  BY DEF StreamInv
<1>2. ASSUME UNCHANGED <<sent, start>>, Len(log') >= Len(log),
             source' = source \/ source = "open", connected' => connected
      PROVE  Dead'
  <2>1. \A s \in Subscribers : DeadRecord(s)' => DeadRecord(s)
    BY <1>1, <1>2 DEF DeadRecord, TypeOK
  <2> QED
    BY <1>1, <1>2, <2>1 DEF Dead
<1> USE DEF subVars, ctxVars, dispVars, notDispatcher
<1>3. ASSUME NEW s \in Subscribers,
             \/ SubscribeCheck(s) \/ Cancel(s) \/ WatcherWakes(s)
             \/ WatcherCloses(s) \/ Receive(s) \/ Sweep(s)
      PROVE  Dead'
  BY <1>1, <1>2, <1>3
  DEF SubscribeCheck, Cancel, WatcherWakes, WatcherCloses, Receive, Sweep, TypeOK
<1>4. ASSUME NEW s \in Subscribers, SubscribeRegister(s)
      PROVE  Dead'
  <2>1. /\ sent[s] = <<>> /\ UNCHANGED <<sent, log, source, connected>>
        /\ \A t \in Subscribers : t # s => start'[t] = start[t]
    BY <1>1, <1>4 DEF SubscribeRegister, Fresh, TypeOK
  <2>2. ~DeadRecord(s)'
    BY <2>1 DEF DeadRecord
  <2>3. \A t \in Subscribers : t # s => (DeadRecord(t)' => DeadRecord(t))
    BY <2>1 DEF DeadRecord
  <2> QED
    BY <1>1, <2>1, <2>2, <2>3 DEF Dead
<1>5. CASE Take
  <2>1. Len(log') = Len(log) + 1 /\ Len(log) \in Nat
    BY <1>1, <1>5 DEF Take, TypeOK
  <2> QED
    BY <1>2, <1>5, <2>1 DEF Take
<1>6. ASSUME NEW s \in Subscribers, Deliver(s) \/ Fail(s)
      PROVE  Dead'
  <2>1. s \in todo /\ UNCHANGED <<start, log, source, connected>>
    BY <1>6 DEF Deliver, Fail
  <2>2. \A t \in Subscribers : t # s => (DeadRecord(t)' => DeadRecord(t))
    BY <1>1, <1>6, <2>1, SentStep DEF DeadRecord
  <2>3. ASSUME DeadRecord(s)'
        PROVE  source = "ended" /\ ~connected
    <3>1. Len(log) \in Nat /\ start[s] \in Nat /\ Len(sent[s]) \in Nat
      BY <1>1 DEF TypeOK
    <3>2. CASE sent'[s] = sent[s]
      BY <1>1, <2>1, <2>3, <3>2 DEF DeadRecord, Dead
    <3>3. CASE status[s] = "open" /\ Len(sent'[s]) = Len(sent[s]) + 1
      <4>1. start[s] + Len(sent[s]) + 1 > Len(log)
        BY <2>1, <2>3, <3>1, <3>3 DEF DeadRecord
      <4>2. CASE then = "leaving"
        BY <1>1, <4>2 DEF Ending
      <4>3. CASE then = "receiving"
        <5>1. Behind(s) /\ dispatcher \in {"publishing", "failing"} /\ Len(log) > 0
          BY <1>1, <1>6, <2>1, <4>3 DEF Deliver, Fail, Behind, InHand
        <5>2. start[s] + Len(sent[s]) + 1 = Len(log)
          BY <1>1, <3>3, <5>1 DEF Owed, Due
        <5> QED
          BY <3>1, <4>1, <5>2
      <4> QED
        BY <1>1, <4>2, <4>3 DEF TypeOK
    <3> QED
      BY <1>1, <1>6, <3>2, <3>3, SentStep
  <2> QED
    BY <1>1, <2>1, <2>2, <2>3 DEF Dead
<1>7. CASE Forget \/ SnapshotDone \/ SourceSeen \/ Disconnect \/ BreakAll
           \/ Cancelled \/ Leave \/ EmptyMap \/ Exit
  BY <1>1, <1>2, <1>7
  DEF Forget, SnapshotDone, SourceSeen, Disconnect, DisconnectedFirst, BreakAll,
      Cancelled, Leave, EmptyMap, Exit, TypeOK
<1>8. CASE CloseBegin \/ CloseStep \/ SourceEnds
  BY <1>1, <1>2, <1>8
  DEF CloseBegin, CloseStep, CloseStop, CloseWaited, CloseSweep, CloseReset,
      SourceEnds, TypeOK
<1>9. CASE Quiet \/ UNCHANGED vars
  BY <1>1, <1>2, <1>9 DEF Quiet, vars, TypeOK
<1> QED
  BY <1>3, <1>4, <1>5, <1>6, <1>7, <1>8, <1>9 DEF Next, DispatcherStep

\* A channel that is not full takes a notification, and one slot is left.
LEMMA ReservedStep == StreamInv /\ [Next]_vars => ReservedSlotFree'
<1> SUFFICES ASSUME StreamInv, [Next]_vars PROVE ReservedSlotFree'
  OBVIOUS
<1>1. TypeOK /\ Fresh /\ ReservedSlotFree /\ Buffer \in Nat
  BY BufferAssumption DEF StreamInv
<1>2. \A s \in Subscribers : Len(sent[s]) \in Nat /\ read[s] \in Nat /\ read[s] <= Len(sent[s])
  BY <1>1 DEF TypeOK
<1>3. ASSUME UNCHANGED <<sent, read>>,
             \A s \in Subscribers : status'[s] = "open" => status[s] = "open"
      PROVE  ReservedSlotFree'
  BY <1>1, <1>3 DEF ReservedSlotFree, Unread
<1> USE DEF subVars, ctxVars, dispVars, notDispatcher
<1>4. ASSUME NEW s \in Subscribers,
             \/ SubscribeCheck(s) \/ Cancel(s) \/ WatcherWakes(s)
             \/ WatcherCloses(s) \/ Sweep(s)
      PROVE  ReservedSlotFree'
  BY <1>1, <1>3, <1>4
  DEF SubscribeCheck, Cancel, WatcherWakes, WatcherCloses, Sweep, TypeOK
<1>5. ASSUME NEW s \in Subscribers, SubscribeRegister(s)
      PROVE  ReservedSlotFree'
  <2>1. /\ sent[s] = <<>> /\ UNCHANGED <<sent, read>>
        /\ \A t \in Subscribers : t # s => status'[t] = status[t]
    BY <1>1, <1>5 DEF SubscribeRegister, Fresh, TypeOK
  <2>2. Unread(s)' <= Buffer
    BY <1>1, <1>2, <2>1 DEF Unread
  <2>3. \A t \in Subscribers : t # s => Unread(t)' = Unread(t)
    BY <2>1 DEF Unread
  <2> QED
    BY <1>1, <2>1, <2>2, <2>3 DEF ReservedSlotFree
<1>6. ASSUME NEW s \in Subscribers, Receive(s)
      PROVE  ReservedSlotFree'
  <2>1. /\ UNCHANGED <<sent, status>>
        /\ \A t \in Subscribers : read'[t] = IF t = s THEN read[t] + 1 ELSE read[t]
    BY <1>1, <1>6 DEF Receive, TypeOK
  <2> QED
    BY <1>1, <1>2, <2>1 DEF ReservedSlotFree, Unread
<1>7. ASSUME NEW s \in Subscribers, Deliver(s) \/ Fail(s)
      PROVE  ReservedSlotFree'
  <2>1. UNCHANGED read
    BY <1>7 DEF Deliver, Fail
  <2>2. status'[s] = "open" => Len(sent'[s]) = Len(sent[s]) + 1 /\ ~Full(s)
    BY <1>1, <1>7, SentStep
  <2>3. \A t \in Subscribers : t # s => sent'[t] = sent[t] /\ status'[t] = status[t]
    BY <1>1, <1>7, SentStep
  <2> QED
    BY <1>1, <1>2, <2>1, <2>2, <2>3 DEF ReservedSlotFree, Unread, Full
<1>8. CASE Take \/ Forget \/ SnapshotDone \/ SourceSeen \/ Disconnect \/ BreakAll
           \/ Cancelled \/ Leave \/ EmptyMap \/ Exit
  BY <1>1, <1>3, <1>8
  DEF Take, Forget, SnapshotDone, SourceSeen, Disconnect, BreakAll, Cancelled,
      Leave, EmptyMap, Exit
<1>9. CASE CloseBegin \/ CloseStep \/ SourceEnds
  BY <1>1, <1>3, <1>9
  DEF CloseBegin, CloseStep, CloseStop, CloseWaited, CloseSweep, CloseReset,
      SourceEnds, TypeOK
<1>10. CASE Quiet \/ UNCHANGED vars
  BY <1>1, <1>3, <1>10 DEF Quiet, vars
<1> QED
  BY <1>4, <1>5, <1>6, <1>7, <1>8, <1>9, <1>10 DEF Next, DispatcherStep

\* The invariant holds in every state.
LEMMA StreamInvAlways == Spec => []StreamInv
<1>1. StreamInv /\ [Next]_vars => StreamInv'
  BY TypeStep, FreshStep, EndingStep, OwedStep, DeadStep, ReservedStep DEF StreamInv
<1> QED
  BY <1>1, StreamInit, PTL DEF Spec

-----------------------------------------------------------------------------
(* Theorems.                                                                *)

\* Every variable of the subscriptions has its type, whatever the dispatcher,
\* the watchers, the consumers and Close do to each other.
THEOREM SubscriptionTypes == Spec => []TypeOK
<1>1. StreamInv => TypeOK
  BY DEF StreamInv
<1> QED
  BY <1>1, StreamInvAlways, PTL

\* deliver and fail never block the dispatcher: an open channel has the slot
\* that is kept for its terminal record, for every buffer.
THEOREM ReservedSlotAlwaysFree == Spec => []ReservedSlotFree
<1>1. StreamInv => ReservedSlotFree
  BY DEF StreamInv
<1> QED
  BY <1>1, StreamInvAlways, PTL

\* Close leaves no gap record: one that stands for no notification is there
\* only if the source ended by itself.
THEOREM ShutdownIsAlwaysSilent == Spec => []ShutdownIsSilent
<1>1. StreamInv => ShutdownIsSilent
  BY DEF StreamInv, Dead, DeadRecord, ShutdownIsSilent
<1> QED
  BY <1>1, StreamInvAlways, PTL

\* connected is stored before the record of the end is sent, and checked again
\* under c.mu: after that record no subscription is admitted.
THEOREM DeadSourceAlwaysRefuses == Spec => DeadSourceRefuses
<1>1. ASSUME StreamInv, [Next]_vars, SawDeadSource, NEW s \in Subscribers,
             status[s] # "open"
      PROVE  status'[s] # "open"
  <2>1. TypeOK /\ ~connected
    BY <1>1 DEF StreamInv, Dead, DeadRecord, SawDeadSource
  <2> USE DEF subVars, ctxVars, dispVars, notDispatcher
  <2>2. ASSUME NEW t \in Subscribers,
               \/ SubscribeCheck(t) \/ SubscribeRegister(t) \/ Cancel(t)
               \/ WatcherWakes(t) \/ WatcherCloses(t) \/ Receive(t) \/ Sweep(t)
        PROVE  status'[s] # "open"
    BY <1>1, <2>1, <2>2
    DEF SubscribeCheck, SubscribeRegister, Admits, Cancel, WatcherWakes,
        WatcherCloses, Receive, Sweep, TypeOK
  <2>3. ASSUME NEW t \in Subscribers, Deliver(t) \/ Fail(t)
        PROVE  status'[s] # "open"
    BY <1>1, <2>1, <2>3, SentStep
  <2>4. CASE Take \/ Forget \/ SnapshotDone \/ SourceSeen \/ Disconnect \/ BreakAll
             \/ Cancelled \/ Leave \/ EmptyMap \/ Exit
    BY <1>1, <2>4
    DEF Take, Forget, SnapshotDone, SourceSeen, Disconnect, BreakAll, Cancelled,
        Leave, EmptyMap, Exit
  <2>5. CASE CloseBegin \/ CloseStep \/ SourceEnds
    BY <1>1, <2>1, <2>5
    DEF CloseBegin, CloseStep, CloseStop, CloseWaited, CloseSweep, CloseReset,
        SourceEnds, TypeOK
  <2>6. CASE Quiet \/ UNCHANGED vars
    BY <1>1, <2>6 DEF Quiet, vars
  <2> QED
    BY <1>1, <2>2, <2>3, <2>4, <2>5, <2>6 DEF Next, DispatcherStep
<1>2. StreamInv /\ [Next]_vars
        => [SawDeadSource => \A s \in Subscribers :
                                status[s] # "open" => status'[s] # "open"]_vars
  BY <1>1
<1> QED
  BY <1>2, StreamInvAlways, PTL DEF Spec, DeadSourceRefuses

-----------------------------------------------------------------------------
(* The refinement of EventStream.                                           *)

\* The abstract status and the end of the source, as the refinement maps them.
streamStatus == [s \in Subscribers |-> IF status[s] \in {"open", "ended"}
                                       THEN status[s] ELSE "none"]
isOver == closed \/ SourceOver

\* What one subscription does.
LEMMA SubscriberRefines ==
  ASSUME StreamInv, NEW s \in Subscribers,
         \/ SubscribeCheck(s) \/ SubscribeRegister(s) \/ Cancel(s)
         \/ WatcherWakes(s) \/ WatcherCloses(s) \/ Receive(s)
  PROVE  Streams!Next \/ UNCHANGED Streams!vars
<1>1. /\ TypeOK /\ Fresh
      /\ status \in [Subscribers ->
                       {"none", "checked", "refused", "open", "ended"}]
  BY DEF StreamInv, TypeOK
<1> USE DEF subVars, ctxVars, dispVars
<1>2. CASE SubscribeCheck(s)
  <2>1. /\ status[s] = "none" /\ status'[s] \in {"refused", "checked"}
        /\ \A t \in Subscribers : t # s => status'[t] = status[t]
        /\ UNCHANGED <<log, start, sent, cancelled, closed, source>>
    BY <1>1, <1>2 DEF SubscribeCheck
  <2>2. streamStatus' = streamStatus /\ isOver' = isOver
    BY <2>1 DEF streamStatus, isOver, SourceOver
  <2>3. UNCHANGED <<log, streamStatus, start, sent, cancelled, isOver>>
    BY <2>1, <2>2
  <2> QED
    BY <2>3 DEF Streams!vars, streamStatus, isOver
<1>3. CASE SubscribeRegister(s)
  <2>1. CASE Admits
    <3>1. /\ status[s] = "checked" /\ status' = [status EXCEPT ![s] = "open"]
          /\ start' = [start EXCEPT ![s] = Len(log)]
          /\ UNCHANGED <<log, sent, cancelled, closed, source>>
      BY <1>3, <2>1 DEF SubscribeRegister
    <3>2. streamStatus[s] = "none" /\ streamStatus' = [streamStatus EXCEPT ![s] = "open"]
      BY <1>1, <3>1 DEF streamStatus
    <3>3. Streams!Subscribe(s)
      BY <3>1, <3>2 DEF Streams!Subscribe, streamStatus, SourceOver
    <3> QED
      BY <3>3 DEF Streams!Next
  <2>2. CASE ~Admits
    <3>1. /\ status[s] = "checked" /\ status'[s] = "refused"
          /\ \A t \in Subscribers : t # s => status'[t] = status[t]
          /\ UNCHANGED <<log, start, sent, cancelled, closed, source>>
      BY <1>1, <1>3, <2>2 DEF SubscribeRegister
    <3>2. streamStatus' = streamStatus /\ isOver' = isOver
      BY <3>1 DEF streamStatus, isOver, SourceOver
    <3>3. UNCHANGED <<log, streamStatus, start, sent, cancelled, isOver>>
      BY <3>1, <3>2
    <3> QED
      BY <3>3 DEF Streams!vars, streamStatus, isOver
  <2> QED
    BY <2>1, <2>2
<1>4. CASE Cancel(s)
  <2>1. Streams!Cancel(s)
    BY <1>4 DEF Cancel, Streams!Cancel, SourceOver
  <2> QED
    BY <2>1 DEF Streams!Next
<1>5. CASE WatcherCloses(s)
  <2>1. /\ s \in cancelled /\ status[s] \in {"open", "ended"}
        /\ status' = [status EXCEPT ![s] = "ended"]
        /\ UNCHANGED <<log, start, sent, cancelled, closed, source>>
    BY <1>1, <1>5 DEF WatcherCloses, Fresh
  <2>2. /\ \A t \in {s} : streamStatus[t] = "open" => t \in cancelled \/ isOver
        /\ streamStatus' = [t \in Subscribers |->
                               IF t \in {s} /\ streamStatus[t] = "open" THEN "ended"
                               ELSE streamStatus[t]]
    BY <1>1, <2>1 DEF streamStatus
  <2>3. Streams!Finish({s})
    BY <2>1, <2>2 DEF Streams!Finish, streamStatus, isOver, SourceOver
  <2> QED
    BY <2>3 DEF Streams!Next
<1>6. CASE WatcherWakes(s) \/ Receive(s)
  BY <1>6 DEF WatcherWakes, Receive, Streams!vars, SourceOver
<1> QED
  BY <1>2, <1>3, <1>4, <1>5, <1>6

\* What the dispatcher does.
LEMMA DispatcherRefines ==
  ASSUME StreamInv, DispatcherStep
  PROVE  Streams!Next \/ UNCHANGED Streams!vars
<1>1. /\ TypeOK /\ Fresh /\ InHand /\ Ending /\ Owed
      /\ status \in [Subscribers ->
                       {"none", "checked", "refused", "open", "ended"}]
      /\ sent \in [Subscribers -> Seq(Nat)]
  BY DEF StreamInv, TypeOK
<1> USE DEF subVars, ctxVars, dispVars, notDispatcher
<1>2. CASE Take
  <2>1. Streams!Produce
    BY <1>2 DEF Take, Streams!Produce, SourceOver
  <2> QED
    BY <2>1 DEF Streams!Next
<1>3. ASSUME NEW s \in Subscribers, Deliver(s) \/ Fail(s)
      PROVE  Streams!Next \/ UNCHANGED Streams!vars
  <2>1. /\ s \in todo /\ dispatcher \in {"publishing", "failing"}
        /\ UNCHANGED <<log, start, cancelled, closed, source>>
        /\ Len(log) \in Nat /\ start[s] \in Nat /\ Len(sent[s]) \in Nat
    BY <1>1, <1>3 DEF Deliver, Fail, TypeOK
  <2>2. CASE status[s] = "ended"
    <3>1. UNCHANGED <<sent, status>>
      BY <1>3, <2>2 DEF Deliver, Fail
    <3> QED
      BY <2>1, <3>1 DEF Streams!vars, SourceOver
  <2>3. CASE status[s] = "open" /\ Deliver(s) /\ ~Full(s)
    <3>1. /\ sent' = [sent EXCEPT ![s] = Append(@, Len(log))] /\ UNCHANGED status
          /\ dispatcher = "publishing"
      BY <2>3 DEF Deliver
    <3>2. Due(s) = Len(log) /\ log[Len(log)] = "event"
      BY <1>1, <2>1, <2>3, <3>1 DEF InHand, Owed, Behind
    <3>3. Streams!Due(s) = Len(log)
      BY <3>2 DEF Due, Streams!Due
    <3>4. Streams!Forward(s)
      BY <2>1, <2>3, <3>1, <3>2, <3>3 DEF Streams!Forward, SourceOver
    <3> QED
      BY <3>4 DEF Streams!Next
  <2>4. CASE status[s] = "open" /\ ~(Deliver(s) /\ ~Full(s))
    <3>1. /\ sent' = [sent EXCEPT ![s] = Append(@, Gap)]
          /\ status' = [status EXCEPT ![s] = "ended"]
      BY <1>3, <2>4 DEF Deliver, Fail, Overflow
    <3>2. Due(s) <= Len(log) \/ isOver
      <4>1. CASE then = "leaving"
        BY <1>1, <4>1 DEF Ending, isOver, SourceOver
      <4>2. CASE then = "receiving"
        BY <1>1, <2>1, <2>4, <4>2 DEF Owed, Behind
      <4> QED
        BY <1>1, <4>1, <4>2 DEF TypeOK
    <3>3. /\ streamStatus[s] = "open"
          /\ streamStatus' = [streamStatus EXCEPT ![s] = "ended"]
      BY <1>1, <2>4, <3>1 DEF streamStatus
    <3>4. Streams!Due(s) = Due(s)
      BY DEF Due, Streams!Due
    <3>5. Streams!Break(s)
      BY <2>1, <3>1, <3>2, <3>3, <3>4
      DEF Streams!Break, Streams!Gap, Gap, streamStatus, isOver, SourceOver
    <3> QED
      BY <3>5 DEF Streams!Next
  <2> QED
    BY <1>1, <2>1, <2>2, <2>3, <2>4 DEF Fresh
<1>4. ASSUME NEW s \in Subscribers, Sweep(s)
      PROVE  Streams!Next \/ UNCHANGED Streams!vars
  <2>1. /\ isOver /\ status[s] \in {"open", "ended"}
        /\ status' = [status EXCEPT ![s] = "ended"]
        /\ UNCHANGED <<log, start, sent, cancelled, closed, source>>
    BY <1>1, <1>4 DEF Sweep, Fresh, Ending, isOver
  <2>2. streamStatus' = [t \in Subscribers |->
                           IF t \in {s} /\ streamStatus[t] = "open" THEN "ended"
                           ELSE streamStatus[t]]
    BY <1>1, <2>1 DEF streamStatus
  <2>3. Streams!Finish({s})
    BY <2>1, <2>2 DEF Streams!Finish, streamStatus, isOver, SourceOver
  <2> QED
    BY <2>3 DEF Streams!Next
<1>5. CASE Forget \/ SnapshotDone \/ SourceSeen \/ Disconnect \/ BreakAll
           \/ Cancelled \/ Leave \/ EmptyMap \/ Exit
  BY <1>5
  DEF Forget, SnapshotDone, SourceSeen, Disconnect, BreakAll, Cancelled, Leave,
      EmptyMap, Exit, Streams!vars, SourceOver
<1> QED
  BY <1>2, <1>3, <1>4, <1>5 DEF DispatcherStep

\* What Close and the source do.
LEMMA CloseRefines ==
  ASSUME StreamInv, CloseBegin \/ CloseStep \/ SourceEnds \/ Quiet
  PROVE  Streams!Next \/ UNCHANGED Streams!vars
<1>1. /\ TypeOK /\ Ending
      /\ status \in [Subscribers ->
                       {"none", "checked", "refused", "open", "ended"}]
      /\ registered \subseteq {s \in Subscribers : status[s] \in {"open", "ended"}}
  BY DEF StreamInv, TypeOK
<1> USE DEF subVars, ctxVars, dispVars
<1>2. CASE CloseBegin \/ SourceEnds
  <2>1. Streams!End
    BY <1>2 DEF CloseBegin, SourceEnds, Streams!End, SourceOver
  <2> QED
    BY <2>1 DEF Streams!Next
<1>3. CASE CloseSweep
  <2>1. PICK S \in SUBSET Subscribers : S = registered
    BY <1>1
  <2>2. /\ isOver
        /\ status' = [s \in Subscribers |-> IF s \in S THEN "ended" ELSE status[s]]
        /\ UNCHANGED <<log, start, sent, cancelled, closed, source>>
    BY <1>1, <1>3, <2>1 DEF CloseSweep, Ending, isOver
  <2>3. streamStatus' = [t \in Subscribers |->
                           IF t \in S /\ streamStatus[t] = "open" THEN "ended"
                           ELSE streamStatus[t]]
    BY <1>1, <2>1, <2>2 DEF streamStatus
  <2>4. Streams!Finish(S)
    BY <2>2, <2>3 DEF Streams!Finish, streamStatus, isOver, SourceOver
  <2> QED
    BY <2>4 DEF Streams!Next
<1>4. CASE CloseStop \/ CloseWaited \/ CloseReset \/ Quiet
  BY <1>4
  DEF CloseStop, CloseWaited, CloseReset, Quiet, vars, Streams!vars, SourceOver
<1> QED
  BY <1>2, <1>3, <1>4 DEF CloseStep

\* The subscriptions of client_thread_events.go, with the dispatcher and Close,
\* implement the abstract streams: a gap-free run of the notifications for each
\* subscriber, broken off only with a record, or cancelled, or over.
THEOREM StreamsAreImplemented == Spec => ImplementsStreams
<1>1. Init => Streams!Init
  BY DEF Init, Streams!Init, SourceOver
<1>2. StreamInv /\ [Next]_vars => [Streams!Next]_(Streams!vars)
  <2>1. StreamInv /\ UNCHANGED vars => UNCHANGED Streams!vars
    BY DEF vars, Streams!vars, SourceOver
  <2> QED
    BY <2>1, SubscriberRefines, DispatcherRefines, CloseRefines DEF Next
<1> QED
  BY <1>1, <1>2, StreamInvAlways, PTL DEF Spec, ImplementsStreams, Streams!Spec
=============================================================================
