------------------------------ MODULE ThreadProofs ------------------------------
(****************************************************************************)
(* Proofs about Thread, for any runs, compactions and waits and any sizes   *)
(* of the inbox and of the channels: a stream ends with its own turn, what  *)
(* is missing from it was dropped by the full inbox, the dispatcher never   *)
(* sends on a channel that markClosed has closed, and the end of a          *)
(* compaction finds its subscription.                                       *)
(****************************************************************************)
EXTENDS Thread, Integers, TLAPS

-----------------------------------------------------------------------------
(* The inductive invariant.                                                 *)

\* deliverEvent works on an open thread only, and markClosed alone closes the
\* channel of a compaction.  A Wait that has begun has its result.
TapOpen ==
    /\ dpc # "receiving" => ~closed
    /\ ~closed => chClosed = {}
    /\ \A w \in Waits : wpc[w] # "idle" => result[w] \in Compactions

\* Every notification between the server and the streams that names a turn as
\* started names a run's, and one that ends a turn says how it ended.
Told(ev, how) ==
    /\ ev.kind = Started => ev.turn \in Runs
    /\ ev.kind \in Ends => ev.turn \in Runs /\ how[ev.turn] = ev.kind
AllTold ==
    /\ \A i \in 1 .. Len(wire) : Told(wire[i], verdict)
    /\ dpc # "receiving" => dev \in Events /\ Told(dev, verdict)
    /\ \A i \in 1 .. Len(inbox) : Told(inbox[i], verdict)
    /\ \A r \in Runs :
          rpc[r] = "forwarding" => hand[r] \in Events /\ Told(hand[r], verdict)

\* A turn is asked for, answered, run and ended once, in this order.
Accepted ==
    /\ \A i \in 1 .. Len(asked) :
          /\ reply[asked[i]] = None
          /\ rpc[asked[i]] \notin {"idle", "refused", "locking"}
          /\ \A j \in 1 .. Len(asked) : asked[i] = asked[j] => i = j
    /\ \A r \in Runs :
          /\ rpc[r] \in {"idle", "locking"} => reply[r] = None
          /\ verdict[r] # None => reply[r] \in {"id", "blank"}
    /\ turn # None => reply[turn] \in {"id", "blank"} /\ verdict[turn] = None

\* A stream whose answer named the turn expects it, and has not forwarded its
\* end as long as it runs.
Streaming == {"selecting", "forwarding"}
EndOf(ev, r) == ev.kind \in Ends /\ ev.turn = r
Expecting ==
    \A r \in Runs :
        /\ rpc[r] \in Streaming \cup {"ended"} => reply[r] \in {"id", "blank"}
        /\ rpc[r] \notin Streaming \cup {"ended"} => got[r] = <<>>
        /\ rpc[r] \in Streaming /\ reply[r] = "id" =>
              /\ expected[r] = r
              /\ \A i \in 1 .. Len(got[r]) : ~EndOf(got[r][i], r)
        /\ rpc[r] = "ended" /\ reply[r] = "id" /\ r \notin cancelled /\ ~closed =>
              /\ Len(got[r]) > 0
              /\ got[r][Len(got[r])].kind = verdict[r]
              /\ got[r][Len(got[r])].turn = r
              /\ verdict[r] # None
              /\ \A i \in 1 .. Len(got[r]) - 1 : ~EndOf(got[r][i], r)

TurnInv == TypeOK /\ TapOpen /\ AllTold /\ Accepted /\ Expecting

\* One run at a time is between its request and the end of its stream.
Held ==
    \A r \in Runs :
        rpc[r] \in Streaming \cup {"awaiting"} => turnMu = r

\* Notifications are numbered in the order in which the server sent them; all
\* up to Pushed have been through deliverEvent.
Pushed == count - Len(wire) - (IF dpc = "receiving" THEN 0 ELSE 1)
Numbered ==
    /\ \A i \in 1 .. Len(wire) : wire[i].n = count - Len(wire) + i
    /\ dpc # "receiving" => dev.n = count - Len(wire)

\* The inbox holds Waiting, a stream Has what it forwarded or has in hand, and
\* the full inbox dropped what is Gone.
Waiting(n) == \E i \in 1 .. Len(inbox) : inbox[i].n = n
Has(r, n) == \/ \E i \in 1 .. Len(got[r]) : got[r][i].n = n
             \/ rpc[r] = "forwarding" /\ hand[r].n = n
Gone(n) == \E ev \in dropped : ev.n = n

\* A stream is ahead of the inbox, and the inbox in order.
InOrder ==
    /\ \A i, j \in 1 .. Len(inbox) : i < j => inbox[i].n < inbox[j].n
    /\ \A n \in Nat : Waiting(n) => n <= Pushed
    /\ \A r \in Runs : rpc[r] \in Streaming =>
          /\ \A m, n \in Nat : Has(r, m) /\ Waiting(n) => m < n
          /\ \A m \in Nat : Has(r, m) => m <= Pushed

\* From any notification on that waits, or that a stream has, nothing is
\* missing but what was dropped: up to Pushed, and on a closed thread, which
\* takes nothing any more, up to the last one that is left.
InboxGaps ==
    \A m, n \in Nat :
        /\ Waiting(m) /\ m <= n /\ n <= Pushed
        /\ closed => \E k \in Nat : n <= k /\ Waiting(k)
        => Waiting(n) \/ Gone(n)
StreamGaps ==
    \A r \in Runs : rpc[r] \in Streaming =>
        \A m, n \in Nat :
            /\ Has(r, m) /\ m <= n /\ n <= Pushed
            /\ closed => \E k \in Nat : n <= k /\ (Has(r, k) \/ Waiting(k))
            => Has(r, n) \/ Waiting(n) \/ Gone(n)

GapInv ==
    /\ TurnInv /\ Held /\ Numbered /\ InOrder /\ InboxGaps /\ StreamGaps
    /\ GapsAreDrops

-----------------------------------------------------------------------------
(* What each party leaves alone.                                            *)

\* The server works on its own variables and the wire.
LEMMA ServerFrame == ServerStep \/ Interrupt => UNCHANGED serverOnly
  BY DEF ServerStep, Accept, Reject, Talk, FinishTurn, EmitCompacted, Interrupt

\* The dispatcher and markClosed touch no run and no Wait.
LEMMA DispatcherFrame ==
    DispatcherStep \/ MarkClosed =>
        /\ UNCHANGED threadOnly
        /\ closed => closed'
  BY DEF DispatcherStep, Deliver, ClearActive, LoadTap, Push, MarkClosed

\* A run touches no compaction and not the dispatcher.
LEMMA RunFrame == ASSUME NEW r \in Runs, RunStep(r) PROVE UNCHANGED runOnly
  BY DEF RunStep, RunBegins, RunSends, RunFails, RunStreams, StreamStep, Take,
         Forward, Abandon, ReadNext, Cancel

CompactOrWait ==
    \/ \E c \in Compactions : CompactStep(c)
    \/ \E w \in Waits : WaitBegins(w) \/ WaitStep(w) \/ WaitExpires(w)
\* Neither does a compaction touch a run.
LEMMA WaitFrame == CompactOrWait => UNCHANGED compactOnly
  BY DEF CompactOrWait, CompactStep, CompactBegins, Install, Ask, Acknowledged,
         CompactFails, WaitBegins, WaitStep, WaitGets, WaitClosed, Detach,
         WaitExpires, compactOnly

-----------------------------------------------------------------------------
(* The types, part by part.                                                 *)

Kinds == Ends \cup {Started, "item", "compacted"}
ServerTypes ==
    /\ turn \in Turns /\ asked \in Seq(Runs) /\ wire \in Seq(Events)
    /\ reply \in [Runs -> {None, "id", "blank", "error"}]
    /\ verdict \in [Runs -> Ends \cup {None}]
    /\ count \in Nat /\ talk \in 0 .. MaxTalk
    /\ emitted \subseteq compacting /\ compacting \subseteq Compactions
DeliveryTypes ==
    /\ dpc \in {"receiving", "clearing", "teeing", "pushing"}
    /\ dev \in MaybeEvents /\ dload \in Turns \cup Compactions
    /\ closed \in BOOLEAN /\ activeTurnID \in Turns /\ turnMu \in Turns
    /\ inbox \in Seq(Events) /\ Len(inbox) <= InboxSize
    /\ dropped \subseteq Events
RunTypes ==
    /\ rpc \in [Runs -> {"idle", "refused", "locking", "awaiting", "failed",
                         "selecting", "forwarding", "ended"}]
    /\ cancelled \subseteq Runs /\ expected \in [Runs -> Turns]
    /\ hand \in [Runs -> MaybeEvents] /\ lost \subseteq Events
StreamTypes ==
    /\ out \in [Runs -> Seq(Events)] /\ got \in [Runs -> Seq(Events)]
    /\ \A r \in Runs : Len(out[r]) <= OutSize
CompactTypes ==
    /\ compactSub \in Compactions \cup {None} /\ chClosed \subseteq Compactions
    /\ kpc \in [Compactions -> {"idle", "refused", "installing", "busy",
                                "asking", "awaiting", "ready", "failed"}]
    /\ buffer \in [Compactions -> MaybeEvents]
    /\ wpc \in [Waits -> {"idle", "waiting", "detaching", "returned"}]
    /\ result \in [Waits -> Compactions \cup {None}]
    /\ answer \in [Waits -> MaybeEvents]

\* Together they are the type invariant.
LEMMA TypeParts ==
    TypeOK <=> ServerTypes /\ DeliveryTypes /\ RunTypes /\ StreamTypes
               /\ CompactTypes
  BY DEF TypeOK, ServerTypes, DeliveryTypes, RunTypes, StreamTypes, CompactTypes

\* What the server says is a notification.
LEMMA EventTyped ==
    \A kind \in Kinds, id \in Turns \cup Compactions :
        count \in Nat => Event(kind, id) \in Events
  BY DEF Event, Events, Kinds

\* A notification names a turn, none, or a compaction.
LEMMA EventParts ==
    \A ev \in Events : ev.kind \in Kinds /\ ev.turn \in Turns \cup Compactions
                       /\ ev.n \in Nat
  BY DEF Events, Kinds

\* What the dispatcher does with the notification it receives.
LEMMA DeliverFacts ==
    ASSUME TypeOK, AllTold, Deliver
    PROVE  /\ wire # <<>> /\ wire[1] \in Events /\ Told(wire[1], verdict)
           /\ dpc = "receiving" /\ wire' = Tail(wire)
           /\ closed => UNCHANGED <<dispatcher, activeTurnID>>
           /\ ~closed => /\ dev' = wire[1]
                         /\ dpc' \in {"clearing", "teeing", "pushing"}
                         /\ activeTurnID' \in Turns /\ dload' \in Turns
<1> USE DEF Deliver, ServerTypes, DeliveryTypes
<1>1. /\ wire # <<>> /\ wire' = Tail(wire) /\ dpc = "receiving"
      /\ closed => UNCHANGED <<dispatcher, activeTurnID>>
  OBVIOUS
<1>2. wire[1] \in Events /\ Told(wire[1], verdict)
  <2>1. wire \in Seq(Events) /\ \A i \in 1 .. Len(wire) : Told(wire[i], verdict)
    BY TypeParts DEF AllTold
  <2> HIDE DEF Deliver, ServerTypes, DeliveryTypes
  <2>2. 1 \in 1 .. Len(wire)
    BY <1>1, <2>1
  <2> QED
    BY <2>1, <2>2
<1>3. ASSUME ~closed
      PROVE  /\ dev' = wire[1]
             /\ activeTurnID' = TrackStarted(wire[1])
             /\ dload' = IF wire[1].kind \in Ends THEN activeTurnID ELSE None
             /\ dpc' = CASE wire[1].kind \in Ends -> "clearing"
                        [] wire[1].kind = "compacted" -> "teeing"
                        [] OTHER -> "pushing"
  BY <1>3, <1>1
<1>4. ASSUME ~closed PROVE dpc' \in {"clearing", "teeing", "pushing"}
  <2> HIDE DEF Deliver
  <2> QED
    BY <1>3, <1>4
<1>5. ASSUME ~closed PROVE activeTurnID' \in Turns /\ dload' \in Turns
  <2> HIDE DEF Deliver
  <2> QED
    BY <1>3, <1>2, <1>5, TypeParts DEF TrackStarted, Told, Turns
<1> QED
  BY <1>1, <1>2, <1>3, <1>4, <1>5

\* The server's variables keep their types.
LEMMA ServerStepTypes == TurnInv /\ Next => ServerTypes'
<1> SUFFICES ASSUME TurnInv, Next PROVE ServerTypes'
  OBVIOUS
<1> USE SizeAssumption, TalkAssumption, NoneAssumption, TypeParts, EventTyped,
        EventParts DEF TurnInv, ServerTypes, Kinds, Turns, server, dispatcher,
        runs, compactions, waits, Ends, Started
<1>1. CASE Accept
  BY <1>1 DEF Accept, Say, Event, serverOnly
<1>2. CASE Reject
  BY <1>2 DEF Reject, serverOnly
<1>3. CASE Talk
  BY <1>3 DEF Talk, Say, Event, serverOnly
<1>4. ASSUME NEW k \in Ends, FinishTurn(k) PROVE ServerTypes'
  BY <1>4 DEF FinishTurn, Say, Event, serverOnly
<1>5. ASSUME NEW c \in Compactions, EmitCompacted(c) PROVE ServerTypes'
  BY <1>5 DEF EmitCompacted, Say, Event, serverOnly
<1>6. CASE Interrupt
  BY <1>6 DEF Interrupt, FinishTurn, Say, Event, serverOnly
<1>7. CASE Deliver
  BY <1>7 DEF Deliver, TrackStarted, threadOnly
<1>8. CASE ClearActive
  BY <1>8 DEF ClearActive, threadOnly
<1>9. CASE LoadTap
  BY <1>9 DEF LoadTap, Tap, threadOnly
<1>10. CASE Push
  BY <1>10 DEF Push, HasRoom, threadOnly
<1>11. CASE MarkClosed
  BY <1>11 DEF MarkClosed, EventMuFree, SubsToClose, threadOnly
<1>12. ASSUME NEW r \in Runs, RunBegins(r) PROVE ServerTypes'
  BY <1>12 DEF RunBegins, RGoto, runOnly
<1>13. ASSUME NEW r \in Runs, RunSends(r) PROVE ServerTypes'
  BY <1>13 DEF RunSends, TurnMuFree, RGoto, runOnly
<1>14. ASSUME NEW r \in Runs, RunFails(r) PROVE ServerTypes'
  BY <1>14 DEF RunFails, TurnMuFree, RGoto, runOnly
<1>15. ASSUME NEW r \in Runs, RunStreams(r) PROVE ServerTypes'
  BY <1>15 DEF RunStreams, RGoto, runOnly
<1>16. ASSUME NEW r \in Runs, Take(r) PROVE ServerTypes'
  BY <1>16 DEF Take, RGoto, runOnly
<1>17. ASSUME NEW r \in Runs, Forward(r) PROVE ServerTypes'
  BY <1>17 DEF Forward, IsTurnTerminus, Learn, RGoto, runOnly
<1>18. ASSUME NEW r \in Runs, Abandon(r) PROVE ServerTypes'
  BY <1>18 DEF Abandon, StreamOver, RGoto, runOnly
<1>19. ASSUME NEW r \in Runs, ReadNext(r) PROVE ServerTypes'
  BY <1>19 DEF ReadNext, RGoto, runOnly
<1>20. ASSUME NEW r \in Runs, Cancel(r) PROVE ServerTypes'
  BY <1>20 DEF Cancel, RGoto, runOnly
<1>21. ASSUME NEW c \in Compactions, CompactStep(c) PROVE ServerTypes'
  BY <1>21 DEF CompactStep, CompactBegins, Install, Ask, Acknowledged,
     CompactFails, KGoto, Detached, compactOnly
<1>22. ASSUME NEW w \in Waits, WaitBegins(w) PROVE ServerTypes'
  BY <1>22 DEF WaitBegins, WGoto, compactOnly
<1>23. ASSUME NEW w \in Waits, WaitStep(w) PROVE ServerTypes'
  BY <1>23 DEF WaitStep, WaitGets, WaitClosed, Detach, WGoto, Detached,
     compactOnly
<1>24. ASSUME NEW w \in Waits, WaitExpires(w) PROVE ServerTypes'
  BY <1>24 DEF WaitExpires, WGoto, compactOnly
<1> HIDE DEF TurnInv, ServerTypes, Kinds, Turns, server, dispatcher, runs,
         compactions, waits, Ends, Started
<1> QED
  BY <1>1, <1>2, <1>3, <1>4, <1>5, <1>6, <1>7, <1>8, <1>9, <1>10, <1>11, <1>12,
     <1>13, <1>14, <1>15, <1>16, <1>17, <1>18, <1>19, <1>20, <1>21, <1>22,
     <1>23, <1>24 DEF Next, ServerStep, DispatcherStep, RunStep, StreamStep

\* So do the dispatcher's and the thread's.
LEMMA DeliveryStepTypes == TurnInv /\ Next => DeliveryTypes'
<1> SUFFICES ASSUME TurnInv, Next PROVE DeliveryTypes'
  OBVIOUS
<1> USE SizeAssumption, TalkAssumption, NoneAssumption, TypeParts, EventTyped,
        EventParts DEF TurnInv, ServerTypes, DeliveryTypes, Turns, RunTypes,
        MaybeEvents, AllTold, Told, TapOpen, CompactTypes, server, dispatcher,
        runs, compactions, waits, Ends, Started
<1>1. CASE ServerStep \/ Interrupt
  BY <1>1, ServerFrame DEF serverOnly
<1>2. CASE Deliver
  <2>1. closed' = closed /\ inbox' = inbox /\ dropped' = dropped
        /\ turnMu' = turnMu
    BY <1>2 DEF Deliver, threadOnly
  <2> QED
    BY <1>2, <2>1, DeliverFacts
<1>3. CASE ClearActive
  BY <1>3 DEF ClearActive, threadOnly
<1>4. CASE LoadTap
  BY <1>4 DEF LoadTap, Tap, threadOnly
<1>5. CASE Push
  <2>1. dev \in Events /\ inbox \in Seq(Events) /\ Len(inbox) <= InboxSize
    BY <1>5 DEF Push
  <2>2. /\ inbox' \in Seq(Events) /\ Len(inbox') <= InboxSize
        /\ dropped' \subseteq Events
    <3>1. CASE HasRoom
      <4>1. inbox' = Append(inbox, dev) /\ dropped' = dropped
        BY <1>5, <3>1 DEF Push
      <4>2. Len(inbox') = Len(inbox) + 1 /\ Len(inbox) < InboxSize
        BY <2>1, <3>1, <4>1 DEF HasRoom
      <4> QED
        BY <2>1, <4>1, <4>2
    <3>2. CASE ~HasRoom
      BY <1>5, <2>1, <3>2 DEF Push
    <3> QED
      BY <3>1, <3>2
  <2>3. /\ dpc' = "receiving" /\ dev' = None /\ dload' = None
        /\ closed' = closed /\ activeTurnID' = activeTurnID /\ turnMu' = turnMu
    BY <1>5 DEF Push, threadOnly
  <2> QED
    BY <2>2, <2>3
<1>6. CASE MarkClosed
  BY <1>6 DEF MarkClosed, EventMuFree, SubsToClose, threadOnly
<1>7. ASSUME NEW r \in Runs, RunBegins(r) PROVE DeliveryTypes'
  BY <1>7 DEF RunBegins, RGoto, runOnly
<1>8. ASSUME NEW r \in Runs, RunSends(r) PROVE DeliveryTypes'
  BY <1>8 DEF RunSends, TurnMuFree, RGoto, runOnly
<1>9. ASSUME NEW r \in Runs, RunFails(r) PROVE DeliveryTypes'
  BY <1>9 DEF RunFails, TurnMuFree, RGoto, runOnly
<1>10. ASSUME NEW r \in Runs, RunStreams(r) PROVE DeliveryTypes'
  BY <1>10 DEF RunStreams, RGoto, runOnly
<1>11. ASSUME NEW r \in Runs, Take(r) PROVE DeliveryTypes'
  BY <1>11 DEF Take, RGoto, runOnly
<1>12. ASSUME NEW r \in Runs, Forward(r) PROVE DeliveryTypes'
  BY <1>12 DEF Forward, IsTurnTerminus, Learn, RGoto, runOnly
<1>13. ASSUME NEW r \in Runs, Abandon(r) PROVE DeliveryTypes'
  BY <1>13 DEF Abandon, StreamOver, RGoto, runOnly
<1>14. ASSUME NEW r \in Runs, ReadNext(r) PROVE DeliveryTypes'
  BY <1>14 DEF ReadNext, RGoto, runOnly
<1>15. ASSUME NEW r \in Runs, Cancel(r) PROVE DeliveryTypes'
  BY <1>15 DEF Cancel, RGoto, runOnly
<1>16. ASSUME NEW c \in Compactions, CompactStep(c) PROVE DeliveryTypes'
  BY <1>16 DEF CompactStep, CompactBegins, Install, Ask, Acknowledged,
     CompactFails, KGoto, Detached, compactOnly
<1>17. ASSUME NEW w \in Waits, WaitBegins(w) PROVE DeliveryTypes'
  BY <1>17 DEF WaitBegins, WGoto, compactOnly
<1>18. ASSUME NEW w \in Waits, WaitStep(w) PROVE DeliveryTypes'
  BY <1>18 DEF WaitStep, WaitGets, WaitClosed, Detach, WGoto, Detached,
     compactOnly
<1>19. ASSUME NEW w \in Waits, WaitExpires(w) PROVE DeliveryTypes'
  BY <1>19 DEF WaitExpires, WGoto, compactOnly
<1> HIDE DEF TurnInv, ServerTypes, DeliveryTypes, Turns, RunTypes,
         MaybeEvents, AllTold, Told, TapOpen, CompactTypes, server,
         dispatcher, runs, compactions, waits, Ends, Started
<1> QED
  BY <1>1, <1>2, <1>3, <1>4, <1>5, <1>6, <1>7, <1>8, <1>9, <1>10, <1>11, <1>12,
     <1>13, <1>14, <1>15, <1>16, <1>17, <1>18, <1>19 DEF Next, DispatcherStep,
     RunStep, StreamStep

\* The runs'.
LEMMA RunStepTypes == TurnInv /\ Next => RunTypes'
<1> SUFFICES ASSUME TurnInv, Next PROVE RunTypes'
  OBVIOUS
<1> USE SizeAssumption, TalkAssumption, NoneAssumption, TypeParts, EventTyped,
        EventParts DEF TurnInv, RunTypes, ServerTypes, DeliveryTypes,
        MaybeEvents, Turns, AllTold, Told, server, dispatcher, runs,
        compactions, waits, Ends, Started
<1>1. CASE ServerStep \/ Interrupt
  BY <1>1, ServerFrame DEF serverOnly
<1>2. CASE DispatcherStep \/ MarkClosed
  BY <1>2, DispatcherFrame DEF threadOnly
<1>3. ASSUME NEW r \in Runs, RunBegins(r) PROVE RunTypes'
  BY <1>3 DEF RunBegins, RGoto, runOnly
<1>4. ASSUME NEW r \in Runs, RunSends(r) PROVE RunTypes'
  BY <1>4 DEF RunSends, TurnMuFree, RGoto, runOnly
<1>5. ASSUME NEW r \in Runs, RunFails(r) PROVE RunTypes'
  BY <1>5 DEF RunFails, TurnMuFree, RGoto, runOnly
<1>6. ASSUME NEW r \in Runs, RunStreams(r) PROVE RunTypes'
  <2>1. /\ \/ expected' = expected
           \/ expected' = [expected EXCEPT ![r] = r]
        /\ rpc' = [rpc EXCEPT ![r] = "selecting"]
        /\ UNCHANGED <<cancelled, hand, lost>>
    BY <1>6 DEF RunStreams, RGoto
  <2>2. expected' \in [Runs -> Turns]
    BY <2>1
  <2> QED
    BY <2>1, <2>2
<1>7. ASSUME NEW r \in Runs, Take(r) PROVE RunTypes'
  BY <1>7 DEF Take, RGoto, runOnly
<1>8. ASSUME NEW r \in Runs, Forward(r) PROVE RunTypes'
  BY <1>8 DEF Forward, IsTurnTerminus, Learn, RGoto, runOnly
<1>9. ASSUME NEW r \in Runs, Abandon(r) PROVE RunTypes'
  BY <1>9 DEF Abandon, StreamOver, RGoto, runOnly
<1>10. ASSUME NEW r \in Runs, ReadNext(r) PROVE RunTypes'
  BY <1>10 DEF ReadNext, RGoto, runOnly
<1>11. ASSUME NEW r \in Runs, Cancel(r) PROVE RunTypes'
  BY <1>11 DEF Cancel, RGoto, runOnly
<1>12. CASE CompactOrWait
  BY <1>12, WaitFrame DEF compactOnly
<1> HIDE DEF TurnInv, RunTypes, ServerTypes, DeliveryTypes, MaybeEvents,
         Turns, AllTold, Told, server, dispatcher, runs, compactions, waits,
         Ends, Started
<1> QED
  BY <1>1, <1>2, <1>3, <1>4, <1>5, <1>6, <1>7, <1>8, <1>9, <1>10, <1>11, <1>12
     DEF Next, CompactOrWait, RunStep, StreamStep

\* Their channels.
LEMMA StreamStepTypes == TurnInv /\ Next => StreamTypes'
<1> SUFFICES ASSUME TurnInv, Next PROVE StreamTypes'
  OBVIOUS
<1> USE SizeAssumption, TalkAssumption, NoneAssumption, TypeParts, EventTyped,
        EventParts DEF TurnInv, StreamTypes, RunTypes, AllTold, server,
        dispatcher, runs, compactions, waits, Ends, Started
<1>1. CASE ServerStep \/ Interrupt
  BY <1>1, ServerFrame DEF serverOnly
<1>2. CASE DispatcherStep \/ MarkClosed
  BY <1>2, DispatcherFrame DEF threadOnly
<1>3. ASSUME NEW r \in Runs, RunBegins(r) PROVE StreamTypes'
  BY <1>3 DEF RunBegins, RGoto, runOnly
<1>4. ASSUME NEW r \in Runs, RunSends(r) PROVE StreamTypes'
  BY <1>4 DEF RunSends, TurnMuFree, RGoto, runOnly
<1>5. ASSUME NEW r \in Runs, RunFails(r) PROVE StreamTypes'
  BY <1>5 DEF RunFails, TurnMuFree, RGoto, runOnly
<1>6. ASSUME NEW r \in Runs, RunStreams(r) PROVE StreamTypes'
  BY <1>6 DEF RunStreams, RGoto, runOnly
<1>7. ASSUME NEW r \in Runs, Take(r) PROVE StreamTypes'
  BY <1>7 DEF Take, RGoto, runOnly
<1>8. ASSUME NEW r \in Runs, Forward(r) PROVE StreamTypes'
  BY <1>8 DEF Forward, IsTurnTerminus, Learn, RGoto, runOnly
<1>9. ASSUME NEW r \in Runs, Abandon(r) PROVE StreamTypes'
  BY <1>9 DEF Abandon, StreamOver, RGoto, runOnly
<1>10. ASSUME NEW r \in Runs, ReadNext(r) PROVE StreamTypes'
  BY <1>10 DEF ReadNext, RGoto, runOnly
<1>11. ASSUME NEW r \in Runs, Cancel(r) PROVE StreamTypes'
  BY <1>11 DEF Cancel, RGoto, runOnly
<1>12. CASE CompactOrWait
  BY <1>12, WaitFrame DEF compactOnly
<1> HIDE DEF TurnInv, StreamTypes, RunTypes, AllTold, server, dispatcher,
         runs, compactions, waits, Ends, Started
<1> QED
  BY <1>1, <1>2, <1>3, <1>4, <1>5, <1>6, <1>7, <1>8, <1>9, <1>10, <1>11, <1>12
     DEF Next, CompactOrWait, RunStep, StreamStep

\* The compactions' and the waits'.
LEMMA CompactStepTypes == TurnInv /\ Next => CompactTypes'
<1> SUFFICES ASSUME TurnInv, Next PROVE CompactTypes'
  OBVIOUS
<1> USE SizeAssumption, TalkAssumption, NoneAssumption, TypeParts, EventTyped,
        EventParts DEF TurnInv, CompactTypes, DeliveryTypes, AllTold, TapOpen,
        MaybeEvents, server, dispatcher, runs, compactions, waits, Ends, Started
<1>1. CASE ServerStep \/ Interrupt
  BY <1>1, ServerFrame DEF serverOnly
<1>2. CASE Deliver
  BY <1>2 DEF Deliver, TrackStarted, threadOnly
<1>3. CASE ClearActive
  BY <1>3 DEF ClearActive, threadOnly
<1>4. CASE LoadTap
  BY <1>4 DEF LoadTap, Tap, threadOnly
<1>5. CASE Push
  BY <1>5 DEF Push, HasRoom, threadOnly
<1>6. CASE MarkClosed
  BY <1>6 DEF MarkClosed, EventMuFree, SubsToClose, threadOnly
<1>7. ASSUME NEW r \in Runs, RunStep(r) PROVE CompactTypes'
  BY <1>7, RunFrame DEF runOnly
<1>8. ASSUME NEW c \in Compactions, CompactStep(c) PROVE CompactTypes'
  BY <1>8 DEF CompactStep, CompactBegins, Install, Ask, Acknowledged,
     CompactFails, KGoto, Detached, compactOnly
<1>9. ASSUME NEW w \in Waits, WaitBegins(w) PROVE CompactTypes'
  BY <1>9 DEF WaitBegins, WGoto, compactOnly
<1>10. ASSUME NEW w \in Waits, WaitStep(w) PROVE CompactTypes'
  BY <1>10 DEF WaitStep, WaitGets, WaitClosed, Detach, WGoto, Detached,
     compactOnly
<1>11. ASSUME NEW w \in Waits, WaitExpires(w) PROVE CompactTypes'
  BY <1>11 DEF WaitExpires, WGoto, compactOnly
<1> QED
  BY <1>1, <1>2, <1>3, <1>4, <1>5, <1>6, <1>7, <1>8, <1>9, <1>10, <1>11 DEF
     Next, DispatcherStep

\* Channels are closed on an open thread only.
LEMMA TapStep == TurnInv /\ Next => TapOpen'
<1> SUFFICES ASSUME TurnInv, Next PROVE TapOpen'
  OBVIOUS
<1> USE SizeAssumption, TalkAssumption, NoneAssumption, TypeParts, EventTyped,
        EventParts DEF TurnInv, DeliveryTypes, CompactTypes, TapOpen, server,
        dispatcher, runs, compactions, waits, Ends, Started
<1>1. CASE ServerStep \/ Interrupt
  BY <1>1, ServerFrame DEF serverOnly
<1>2. CASE Deliver
  BY <1>2, DeliverFacts DEF Deliver, threadOnly
<1>3. CASE ClearActive
  BY <1>3 DEF ClearActive, threadOnly
<1>4. CASE LoadTap
  BY <1>4 DEF LoadTap, Tap, threadOnly
<1>5. CASE Push
  BY <1>5 DEF Push, HasRoom, threadOnly
<1>6. CASE MarkClosed
  BY <1>6 DEF MarkClosed, EventMuFree, SubsToClose, threadOnly
<1>7. ASSUME NEW r \in Runs, RunStep(r) PROVE TapOpen'
  BY <1>7, RunFrame DEF runOnly
<1>8. ASSUME NEW c \in Compactions, CompactStep(c) PROVE TapOpen'
  BY <1>8 DEF CompactStep, CompactBegins, Install, Ask, Acknowledged,
     CompactFails, KGoto, Detached, compactOnly
<1>9. ASSUME NEW w \in Waits, WaitBegins(w) PROVE TapOpen'
  BY <1>9 DEF WaitBegins, WGoto, compactOnly
<1>10. ASSUME NEW w \in Waits, WaitStep(w) PROVE TapOpen'
  BY <1>10 DEF WaitStep, WaitGets, WaitClosed, Detach, WGoto, Detached,
     compactOnly
<1>11. ASSUME NEW w \in Waits, WaitExpires(w) PROVE TapOpen'
  BY <1>11 DEF WaitExpires, WGoto, compactOnly
<1> QED
  BY <1>1, <1>2, <1>3, <1>4, <1>5, <1>6, <1>7, <1>8, <1>9, <1>10, <1>11 DEF
     Next, DispatcherStep

\* What is on its way stays true of its turn.
LEMMA ToldStep == TurnInv /\ Next => AllTold'
<1> SUFFICES ASSUME TurnInv, Next PROVE AllTold'
  OBVIOUS
<1> USE SizeAssumption, TalkAssumption, NoneAssumption, TypeParts, EventTyped,
        EventParts DEF TurnInv, ServerTypes, DeliveryTypes, RunTypes, AllTold,
        Told, Accepted, server, dispatcher, runs, compactions, waits, Ends,
        Started
<1>1. CASE Accept
  <2>1. PICK ev : ev.kind = Started /\ ev.turn \in Runs /\ wire' = Append(wire, ev)
    <3>1. asked # <<>> /\ wire' = Append(wire, Event(Started, Head(asked)))
      BY <1>1 DEF Accept, Say
    <3>2. Head(asked) \in Runs
      BY <3>1
    <3> QED
      BY <3>1, <3>2 DEF Event
  <2>2. Told(ev, verdict)
    BY <2>1
  <2>3. UNCHANGED <<verdict, dpc, dev, inbox, rpc, hand>>
    BY <1>1 DEF Accept, serverOnly
  <2> HIDE DEF Told
  <2>4. \A i \in 1 .. Len(wire') : Told(wire'[i], verdict)
    BY <2>1, <2>2
  <2> QED
    BY <2>3, <2>4
<1>2. CASE Reject
  BY <1>2 DEF Reject, serverOnly
<1>3. CASE Talk
  BY <1>3 DEF Talk, Say, Event, serverOnly
<1>4. ASSUME NEW k \in Ends, FinishTurn(k) PROVE AllTold'
  <2>1. \A ev : Told(ev, verdict) => Told(ev, verdict')
    BY <1>4 DEF FinishTurn
  <2>2. PICK ev \in Events : wire' = Append(wire, ev) /\ Told(ev, verdict')
    BY <1>4 DEF FinishTurn, Say, Event, Kinds, Turns
  <2>3. \A i \in 1 .. Len(wire') : Told(wire'[i], verdict')
    BY <2>1, <2>2
  <2>4. UNCHANGED <<dpc, dev, inbox, rpc, hand>>
    BY <1>4 DEF FinishTurn, serverOnly
  <2> HIDE DEF Told
  <2> QED
    BY <2>1, <2>3, <2>4
<1>5. ASSUME NEW c \in Compactions, EmitCompacted(c) PROVE AllTold'
  <2>1. \A ev : Told(ev, verdict) => Told(ev, verdict')
    BY <1>5 DEF EmitCompacted
  <2>2. PICK ev \in Events : wire' = Append(wire, ev) /\ Told(ev, verdict')
    BY <1>5 DEF EmitCompacted, Say, Event, Kinds, Turns
  <2>3. \A i \in 1 .. Len(wire') : Told(wire'[i], verdict')
    BY <2>1, <2>2
  <2>4. UNCHANGED <<dpc, dev, inbox, rpc, hand>>
    BY <1>5 DEF EmitCompacted, serverOnly
  <2> HIDE DEF Told
  <2> QED
    BY <2>1, <2>3, <2>4
<1>6. CASE Interrupt
  BY <1>4, <1>6 DEF Interrupt
<1>7. CASE Deliver
  <2>1. UNCHANGED <<verdict, inbox, rpc, hand, closed>>
    BY <1>7 DEF Deliver, threadOnly
  <2>2. \A i \in 1 .. Len(wire') : Told(wire'[i], verdict')
    <3>1. /\ wire \in Seq(Events) /\ wire # <<>> /\ wire' = Tail(wire)
          /\ \A i \in 1 .. Len(wire) : Told(wire[i], verdict)
      BY <1>7, DeliverFacts
    <3> HIDE DEF Told, TurnInv
    <3>2. /\ Len(wire') = Len(wire) - 1
          /\ \A i \in 1 .. Len(wire') : wire'[i] = wire[i + 1]
      BY <3>1
    <3>3. ASSUME NEW i \in 1 .. Len(wire') PROVE Told(wire[i + 1], verdict)
      BY <3>1, <3>2
    <3> QED
      BY <2>1, <3>2, <3>3
  <2>3. dpc' # "receiving" => dev' \in Events /\ Told(dev', verdict')
    BY <1>7, <2>1, DeliverFacts
  <2> HIDE DEF Told
  <2> QED
    BY <2>1, <2>2, <2>3
<1>8. CASE ClearActive
  BY <1>8 DEF ClearActive, threadOnly
<1>9. CASE LoadTap
  BY <1>9 DEF LoadTap, Tap, threadOnly
<1>10. CASE Push
  <2>1. UNCHANGED <<verdict, wire, rpc, hand>> /\ dpc' = "receiving"
    BY <1>10 DEF Push, threadOnly
  <2>2. dev \in Events /\ Told(dev, verdict) /\ inbox \in Seq(Events)
    BY <1>10 DEF Push
  <2>3. inbox' \in {inbox, Append(inbox, dev)}
    BY <1>10 DEF Push
  <2>4. \A i \in 1 .. Len(inbox') : Told(inbox'[i], verdict')
    <3>1. \A i \in 1 .. Len(inbox) : Told(inbox[i], verdict)
      OBVIOUS
    <3> HIDE DEF Told, TurnInv
    <3>2. CASE inbox' = inbox
      BY <2>1, <3>1, <3>2
    <3>3. CASE inbox' = Append(inbox, dev)
      BY <2>1, <2>2, <3>1, <3>3
    <3> QED
      BY <2>3, <3>2, <3>3
  <2> HIDE DEF Told
  <2> QED
    BY <2>1, <2>2, <2>4
<1>11. CASE MarkClosed
  BY <1>11 DEF MarkClosed, EventMuFree, SubsToClose, threadOnly
<1>12. ASSUME NEW r \in Runs, RunBegins(r) PROVE AllTold'
  BY <1>12 DEF RunBegins, RGoto, runOnly
<1>13. ASSUME NEW r \in Runs, RunSends(r) PROVE AllTold'
  BY <1>13 DEF RunSends, TurnMuFree, RGoto, runOnly
<1>14. ASSUME NEW r \in Runs, RunFails(r) PROVE AllTold'
  BY <1>14 DEF RunFails, TurnMuFree, RGoto, runOnly
<1>15. ASSUME NEW r \in Runs, RunStreams(r) PROVE AllTold'
  BY <1>15 DEF RunStreams, RGoto, runOnly
<1>16. ASSUME NEW r \in Runs, Take(r) PROVE AllTold'
  BY <1>16 DEF Take, RGoto, runOnly
<1>17. ASSUME NEW r \in Runs, Forward(r) PROVE AllTold'
  BY <1>17 DEF Forward, IsTurnTerminus, Learn, RGoto, runOnly
<1>18. ASSUME NEW r \in Runs, Abandon(r) PROVE AllTold'
  BY <1>18 DEF Abandon, StreamOver, RGoto, runOnly
<1>19. ASSUME NEW r \in Runs, ReadNext(r) PROVE AllTold'
  BY <1>19 DEF ReadNext, RGoto, runOnly
<1>20. ASSUME NEW r \in Runs, Cancel(r) PROVE AllTold'
  BY <1>20 DEF Cancel, RGoto, runOnly
<1>21. CASE CompactOrWait
  BY <1>21, WaitFrame DEF compactOnly
<1> HIDE DEF TurnInv, ServerTypes, DeliveryTypes, RunTypes, AllTold, Told,
         Accepted, server, dispatcher, runs, compactions, waits, Ends, Started
<1> QED
  BY <1>1, <1>2, <1>3, <1>4, <1>5, <1>6, <1>7, <1>8, <1>9, <1>10, <1>11, <1>12,
     <1>13, <1>14, <1>15, <1>16, <1>17, <1>18, <1>19, <1>20, <1>21 DEF Next,
     CompactOrWait, ServerStep, DispatcherStep, RunStep, StreamStep

\* Each turn is asked for once.
LEMMA AcceptedStep == TurnInv /\ Next => Accepted'
<1> SUFFICES ASSUME TurnInv, Next PROVE Accepted'
  OBVIOUS
<1> USE SizeAssumption, TalkAssumption, NoneAssumption, TypeParts, EventTyped,
        EventParts DEF TurnInv, ServerTypes, RunTypes, Accepted, server,
        dispatcher, runs, compactions, waits, Ends, Started
<1>1. CASE Accept
  BY <1>1 DEF Accept, Say, Event, serverOnly
<1>2. CASE Reject
  BY <1>2 DEF Reject, serverOnly
<1>3. CASE Talk
  BY <1>3 DEF Talk, Say, Event, serverOnly
<1>4. ASSUME NEW k \in Ends, FinishTurn(k) PROVE Accepted'
  BY <1>4 DEF FinishTurn, Say, Event, serverOnly
<1>5. ASSUME NEW c \in Compactions, EmitCompacted(c) PROVE Accepted'
  BY <1>5 DEF EmitCompacted, Say, Event, serverOnly
<1>6. CASE Interrupt
  BY <1>4, <1>6 DEF Interrupt
<1>7. CASE DispatcherStep \/ MarkClosed
  BY <1>7, DispatcherFrame DEF threadOnly
<1>8. ASSUME NEW r \in Runs, RunBegins(r) PROVE Accepted'
  BY <1>8 DEF RunBegins, RGoto, runOnly
<1>9. ASSUME NEW r \in Runs, RunSends(r) PROVE Accepted'
  BY <1>9 DEF RunSends, TurnMuFree, RGoto, runOnly
<1>10. ASSUME NEW r \in Runs, RunFails(r) PROVE Accepted'
  BY <1>10 DEF RunFails, TurnMuFree, RGoto, runOnly
<1>11. ASSUME NEW r \in Runs, RunStreams(r) PROVE Accepted'
  BY <1>11 DEF RunStreams, RGoto, runOnly
<1>12. ASSUME NEW r \in Runs, Take(r) PROVE Accepted'
  BY <1>12 DEF Take, RGoto, runOnly
<1>13. ASSUME NEW r \in Runs, Forward(r) PROVE Accepted'
  <2>1. /\ rpc[r] = "forwarding"
        /\ rpc' = [rpc EXCEPT ![r] = IF IsTurnTerminus(hand[r], Learn(r))
                                   THEN "ended" ELSE "selecting"]
        /\ UNCHANGED <<turn, asked, reply, verdict>>
    BY <1>13 DEF Forward, RGoto, runOnly
  <2> QED
    BY <2>1
<1>14. ASSUME NEW r \in Runs, Abandon(r) PROVE Accepted'
  <2>1. /\ rpc[r] \in {"selecting", "forwarding"}
        /\ rpc' = [rpc EXCEPT ![r] = "ended"]
        /\ UNCHANGED <<turn, asked, reply, verdict>>
    BY <1>14 DEF Abandon, RGoto, runOnly
  <2> QED
    BY <2>1
<1>15. ASSUME NEW r \in Runs, ReadNext(r) PROVE Accepted'
  BY <1>15 DEF ReadNext, RGoto, runOnly
<1>16. ASSUME NEW r \in Runs, Cancel(r) PROVE Accepted'
  BY <1>16 DEF Cancel, RGoto, runOnly
<1>17. CASE CompactOrWait
  BY <1>17, WaitFrame DEF compactOnly
<1> HIDE DEF TurnInv, ServerTypes, RunTypes, Accepted, server, dispatcher,
         runs, compactions, waits, Ends, Started
<1> QED
  BY <1>1, <1>2, <1>3, <1>4, <1>5, <1>6, <1>7, <1>8, <1>9, <1>10, <1>11, <1>12,
     <1>13, <1>14, <1>15, <1>16, <1>17 DEF Next, CompactOrWait, ServerStep,
     RunStep, StreamStep

\* A stream ends with its turn.
LEMMA ExpectingStep == TurnInv /\ Next => Expecting'
<1> SUFFICES ASSUME TurnInv, Next PROVE Expecting'
  OBVIOUS
<1> USE SizeAssumption, TalkAssumption, NoneAssumption, TypeParts, EventTyped,
        EventParts DEF TurnInv, ServerTypes, DeliveryTypes, RunTypes,
        StreamTypes, Accepted, Expecting, Streaming, EndOf, AllTold, Told,
        server, dispatcher, runs, compactions, waits, Ends, Started
<1>1. CASE Accept
  <2>1. PICK a \in {"id", "blank"} : reply' = [reply EXCEPT ![Head(asked)] = a]
    BY <1>1 DEF Accept
  <2>2. reply[asked[1]] = None /\ Head(asked) = asked[1] /\ asked[1] \in Runs
    BY <1>1 DEF Accept
  <2>3. UNCHANGED <<rpc, got, expected, cancelled, closed, verdict>>
    BY <1>1 DEF Accept, serverOnly
  <2>4. \A r \in Runs : rpc[r] \in Streaming \cup {"ended"} => reply'[r] = reply[r]
    BY <2>1, <2>2
  <2> HIDE DEF EndOf
  <2> QED
    BY <2>3, <2>4
<1>2. CASE Reject
  <2>1. reply' = [reply EXCEPT ![Head(asked)] = "error"]
    BY <1>2 DEF Reject
  <2>2. reply[asked[1]] = None /\ Head(asked) = asked[1] /\ asked[1] \in Runs
    BY <1>2 DEF Reject
  <2>3. UNCHANGED <<rpc, got, expected, cancelled, closed, verdict>>
    BY <1>2 DEF Reject, serverOnly
  <2>4. \A r \in Runs : rpc[r] \in Streaming \cup {"ended"} => reply'[r] = reply[r]
    BY <2>1, <2>2
  <2> HIDE DEF EndOf
  <2> QED
    BY <2>3, <2>4
<1>3. CASE Talk
  BY <1>3 DEF Talk, Say, Event, serverOnly
<1>4. ASSUME NEW k \in Ends, FinishTurn(k) PROVE Expecting'
  BY <1>4 DEF FinishTurn, Say, Event, serverOnly
<1>5. ASSUME NEW c \in Compactions, EmitCompacted(c) PROVE Expecting'
  BY <1>5 DEF EmitCompacted, Say, Event, serverOnly
<1>6. CASE Interrupt
  BY <1>4, <1>6 DEF Interrupt
<1>7. CASE DispatcherStep \/ MarkClosed
  BY <1>7, DispatcherFrame DEF threadOnly
<1>8. ASSUME NEW r \in Runs, RunBegins(r) PROVE Expecting'
  BY <1>8 DEF RunBegins, RGoto, runOnly
<1>9. ASSUME NEW r \in Runs, RunSends(r) PROVE Expecting'
  BY <1>9 DEF RunSends, TurnMuFree, RGoto, runOnly
<1>10. ASSUME NEW r \in Runs, RunFails(r) PROVE Expecting'
  BY <1>10 DEF RunFails, TurnMuFree, RGoto, runOnly
<1>11. ASSUME NEW r \in Runs, RunStreams(r) PROVE Expecting'
  BY <1>11 DEF RunStreams, RGoto, runOnly
<1>12. ASSUME NEW r \in Runs, Take(r) PROVE Expecting'
  BY <1>12 DEF Take, RGoto, runOnly
<1>13. ASSUME NEW r \in Runs, Forward(r) PROVE Expecting'
  <2>1. /\ rpc[r] = "forwarding" /\ got' = [got EXCEPT ![r] = Append(@, hand[r])]
        /\ expected' = [expected EXCEPT ![r] = Learn(r)]
        /\ rpc' = [rpc EXCEPT ![r] = IF IsTurnTerminus(hand[r], Learn(r))
                                   THEN "ended" ELSE "selecting"]
        /\ UNCHANGED <<reply, verdict, cancelled, closed>>
    BY <1>13 DEF Forward, RGoto, runOnly
  <2>2. hand[r] \in Events /\ Told(hand[r], verdict)
    BY <2>1
  <2>3. reply[r] = "id" => Learn(r) = r
    BY <2>1 DEF Learn
  <2>4. reply[r] = "id" => (IsTurnTerminus(hand[r], Learn(r)) <=> EndOf(hand[r], r))
    BY <2>3 DEF IsTurnTerminus
  <2>5. /\ Len(got'[r]) = Len(got[r]) + 1 /\ got'[r][Len(got'[r])] = hand[r]
        /\ \A i \in 1 .. Len(got[r]) : got'[r][i] = got[r][i]
    BY <2>1, <2>2
  <2>6. ASSUME NEW s \in Runs \ {r}
        PROVE  got'[s] = got[s] /\ rpc'[s] = rpc[s] /\ expected'[s] = expected[s]
    BY <2>1
  <2>7. /\ rpc'[r] \in Streaming \cup {"ended"} /\ reply[r] \in {"id", "blank"}
        /\ reply[r] = "id" => expected'[r] = r
    BY <2>1, <2>3
  <2>8. ASSUME rpc'[r] = "selecting", reply[r] = "id"
        PROVE  \A i \in 1 .. Len(got'[r]) : ~EndOf(got'[r][i], r)
    <3>1. ~EndOf(hand[r], r)
      BY <2>1, <2>4, <2>8
    <3>2. \A i \in 1 .. Len(got[r]) : ~EndOf(got[r][i], r)
      BY <2>1, <2>8
    <3> HIDE DEF EndOf, TurnInv
    <3> QED
      BY <2>5, <3>1, <3>2
  <2>9. ASSUME rpc'[r] = "ended", reply[r] = "id"
        PROVE  /\ EndOf(hand[r], r) /\ verdict[r] = hand[r].kind
               /\ \A i \in 1 .. Len(got'[r]) - 1 : ~EndOf(got'[r][i], r)
    BY <2>1, <2>2, <2>4, <2>5, <2>9
  <2> HIDE DEF Told
  <2> QED
    BY <2>1, <2>5, <2>6, <2>7, <2>8, <2>9
<1>14. ASSUME NEW r \in Runs, Abandon(r) PROVE Expecting'
  BY <1>14 DEF Abandon, StreamOver, RGoto, runOnly
<1>15. ASSUME NEW r \in Runs, ReadNext(r) PROVE Expecting'
  BY <1>15 DEF ReadNext, RGoto, runOnly
<1>16. ASSUME NEW r \in Runs, Cancel(r) PROVE Expecting'
  BY <1>16 DEF Cancel, RGoto, runOnly
<1>17. CASE CompactOrWait
  BY <1>17, WaitFrame DEF compactOnly
<1> HIDE DEF TurnInv, ServerTypes, DeliveryTypes, RunTypes, StreamTypes,
         Accepted, Expecting, Streaming, EndOf, AllTold, Told, server,
         dispatcher, runs, compactions, waits, Ends, Started
<1> QED
  BY <1>1, <1>2, <1>3, <1>4, <1>5, <1>6, <1>7, <1>8, <1>9, <1>10, <1>11, <1>12,
     <1>13, <1>14, <1>15, <1>16, <1>17 DEF Next, CompactOrWait, ServerStep,
     RunStep, StreamStep

\* turnMu lets one run in at a time.
LEMMA HeldStep == GapInv /\ Next => Held'
<1> SUFFICES ASSUME GapInv, Next PROVE Held'
  OBVIOUS
<1> USE SizeAssumption, NoneAssumption, TypeParts DEF GapInv, ServerTypes,
        DeliveryTypes, RunTypes, Held, Streaming, TurnInv, server, dispatcher,
        runs, compactions, waits, Ends, Started
<1>1. CASE ServerStep \/ Interrupt
  BY <1>1, ServerFrame DEF serverOnly
<1>2. CASE DispatcherStep \/ MarkClosed
  BY <1>2, DispatcherFrame DEF threadOnly
<1>3. ASSUME NEW r \in Runs, RunBegins(r) PROVE Held'
  BY <1>3 DEF RunBegins, RGoto, runOnly
<1>4. ASSUME NEW r \in Runs, RunSends(r) PROVE Held'
  BY <1>4 DEF RunSends, TurnMuFree, RGoto, runOnly
<1>5. ASSUME NEW r \in Runs, RunFails(r) PROVE Held'
  BY <1>5 DEF RunFails, TurnMuFree, RGoto, runOnly
<1>6. ASSUME NEW r \in Runs, RunStreams(r) PROVE Held'
  BY <1>6 DEF RunStreams, RGoto, runOnly
<1>7. ASSUME NEW r \in Runs, Take(r) PROVE Held'
  BY <1>7 DEF Take, RGoto, runOnly
<1>8. ASSUME NEW r \in Runs, Forward(r) PROVE Held'
  BY <1>8 DEF Forward, IsTurnTerminus, Learn, RGoto, runOnly
<1>9. ASSUME NEW r \in Runs, Abandon(r) PROVE Held'
  BY <1>9 DEF Abandon, StreamOver, RGoto, runOnly
<1>10. ASSUME NEW r \in Runs, ReadNext(r) PROVE Held'
  BY <1>10 DEF ReadNext, RGoto, runOnly
<1>11. ASSUME NEW r \in Runs, Cancel(r) PROVE Held'
  BY <1>11 DEF Cancel, RGoto, runOnly
<1>12. CASE CompactOrWait
  BY <1>12, WaitFrame DEF compactOnly
<1> HIDE DEF GapInv, ServerTypes, DeliveryTypes, RunTypes, Held, Streaming,
         TurnInv, server, dispatcher, runs, compactions, waits, Ends, Started
<1> QED
  BY <1>1, <1>2, <1>3, <1>4, <1>5, <1>6, <1>7, <1>8, <1>9, <1>10, <1>11, <1>12
     DEF Next, CompactOrWait, RunStep, StreamStep

\* The numbers of what is on its way.
LEMMA NumberedStep == GapInv /\ Next => Numbered'
<1> SUFFICES ASSUME GapInv, Next PROVE Numbered'
  OBVIOUS
<1> USE TypeParts DEF GapInv, ServerTypes, DeliveryTypes, Numbered, TurnInv,
        server, dispatcher, runs, compactions, waits, Ends, Started
<1>1. CASE Accept
  <2>1. PICK ev : ev.n = count + 1 /\ wire' = Append(wire, ev)
    BY <1>1 DEF Accept, Say, Event
  <2>2. count' = count + 1 /\ dpc' = dpc /\ dev' = dev
    BY <1>1 DEF Accept, Say, serverOnly
  <2>3. /\ Len(wire') = Len(wire) + 1 /\ wire'[Len(wire) + 1] = ev
        /\ \A i \in 1 .. Len(wire) : wire'[i] = wire[i]
    BY <2>1
  <2>4. ASSUME NEW i \in 1 .. Len(wire')
        PROVE  wire'[i].n = count' - Len(wire') + i
    <3>0. /\ \A h \in 1 .. Len(wire) : wire[h].n = count - Len(wire) + h
          /\ count \in Nat /\ Len(wire) \in Nat
      OBVIOUS
    <3> HIDE DEF GapInv
    <3>1. CASE i \in 1 .. Len(wire)
      BY <3>1, <3>0, <2>2, <2>3
    <3>2. CASE i = Len(wire) + 1
      BY <3>2, <3>0, <2>1, <2>2, <2>3
    <3> QED
      BY <3>1, <3>2, <2>3
  <2> QED
    BY <2>2, <2>3, <2>4
<1>2. CASE Reject
  BY <1>2 DEF Reject, serverOnly
<1>3. CASE Talk
  <2>1. PICK ev : ev.n = count + 1 /\ wire' = Append(wire, ev)
    BY <1>3 DEF Talk, Say, Event
  <2>2. count' = count + 1 /\ dpc' = dpc /\ dev' = dev
    BY <1>3 DEF Talk, Say, serverOnly
  <2>3. /\ Len(wire') = Len(wire) + 1 /\ wire'[Len(wire) + 1] = ev
        /\ \A i \in 1 .. Len(wire) : wire'[i] = wire[i]
    BY <2>1
  <2>4. ASSUME NEW i \in 1 .. Len(wire')
        PROVE  wire'[i].n = count' - Len(wire') + i
    <3>0. /\ \A h \in 1 .. Len(wire) : wire[h].n = count - Len(wire) + h
          /\ count \in Nat /\ Len(wire) \in Nat
      OBVIOUS
    <3> HIDE DEF GapInv
    <3>1. CASE i \in 1 .. Len(wire)
      BY <3>1, <3>0, <2>2, <2>3
    <3>2. CASE i = Len(wire) + 1
      BY <3>2, <3>0, <2>1, <2>2, <2>3
    <3> QED
      BY <3>1, <3>2, <2>3
  <2> QED
    BY <2>2, <2>3, <2>4
<1>4. ASSUME NEW k \in Ends, FinishTurn(k) PROVE Numbered'
  <2>1. PICK ev : ev.n = count + 1 /\ wire' = Append(wire, ev)
    BY <1>4 DEF FinishTurn, Say, Event
  <2>2. count' = count + 1 /\ dpc' = dpc /\ dev' = dev
    BY <1>4 DEF FinishTurn, Say, serverOnly
  <2>3. /\ Len(wire') = Len(wire) + 1 /\ wire'[Len(wire) + 1] = ev
        /\ \A i \in 1 .. Len(wire) : wire'[i] = wire[i]
    BY <2>1
  <2>4. ASSUME NEW i \in 1 .. Len(wire')
        PROVE  wire'[i].n = count' - Len(wire') + i
    <3>0. /\ \A h \in 1 .. Len(wire) : wire[h].n = count - Len(wire) + h
          /\ count \in Nat /\ Len(wire) \in Nat
      OBVIOUS
    <3> HIDE DEF GapInv
    <3>1. CASE i \in 1 .. Len(wire)
      BY <3>1, <3>0, <2>2, <2>3
    <3>2. CASE i = Len(wire) + 1
      BY <3>2, <3>0, <2>1, <2>2, <2>3
    <3> QED
      BY <3>1, <3>2, <2>3
  <2> QED
    BY <2>2, <2>3, <2>4
<1>5. ASSUME NEW c \in Compactions, EmitCompacted(c) PROVE Numbered'
  <2>1. PICK ev : ev.n = count + 1 /\ wire' = Append(wire, ev)
    BY <1>5 DEF EmitCompacted, Say, Event
  <2>2. count' = count + 1 /\ dpc' = dpc /\ dev' = dev
    BY <1>5 DEF EmitCompacted, Say, serverOnly
  <2>3. /\ Len(wire') = Len(wire) + 1 /\ wire'[Len(wire) + 1] = ev
        /\ \A i \in 1 .. Len(wire) : wire'[i] = wire[i]
    BY <2>1
  <2>4. ASSUME NEW i \in 1 .. Len(wire')
        PROVE  wire'[i].n = count' - Len(wire') + i
    <3>0. /\ \A h \in 1 .. Len(wire) : wire[h].n = count - Len(wire) + h
          /\ count \in Nat /\ Len(wire) \in Nat
      OBVIOUS
    <3> HIDE DEF GapInv
    <3>1. CASE i \in 1 .. Len(wire)
      BY <3>1, <3>0, <2>2, <2>3
    <3>2. CASE i = Len(wire) + 1
      BY <3>2, <3>0, <2>1, <2>2, <2>3
    <3> QED
      BY <3>1, <3>2, <2>3
  <2> QED
    BY <2>2, <2>3, <2>4
<1>6. CASE Interrupt
  BY <1>4, <1>6 DEF Interrupt
<1>7. CASE Deliver
  <2>1. /\ wire # <<>> /\ wire' = Tail(wire) /\ count' = count
        /\ dpc = "receiving"
        /\ closed => dpc' = dpc
        /\ ~closed => dev' = wire[1]
    BY <1>7, DeliverFacts DEF Deliver, dispatcher, threadOnly
  <2>2. /\ Len(wire') = Len(wire) - 1
        /\ \A i \in 1 .. Len(wire') : wire'[i] = wire[i + 1]
    BY <2>1
  <2>3. ASSUME NEW i \in 1 .. Len(wire') PROVE wire'[i].n = count - Len(wire') + i
    <3>1. /\ i + 1 \in 1 .. Len(wire) /\ wire'[i] = wire[i + 1]
          /\ count \in Nat /\ Len(wire) \in Nat
      BY <2>2
    <3>2. wire[i + 1].n = count - Len(wire) + (i + 1)
      BY <3>1
    <3> HIDE DEF GapInv
    <3> QED
      BY <2>2, <3>1, <3>2
  <2>4. dpc' # "receiving" => dev'.n = count - Len(wire')
    BY <2>1, <2>2, closed \in BOOLEAN
  <2> QED
    BY <2>1, <2>3, <2>4
<1>8. CASE ClearActive
  BY <1>8 DEF ClearActive, threadOnly
<1>9. CASE LoadTap
  BY <1>9 DEF LoadTap, Tap, threadOnly
<1>10. CASE Push
  BY <1>10 DEF Push, HasRoom, threadOnly
<1>11. CASE MarkClosed
  BY <1>11 DEF MarkClosed, EventMuFree, SubsToClose, threadOnly
<1>12. ASSUME NEW r \in Runs, RunStep(r) PROVE Numbered'
  BY <1>12, RunFrame DEF runOnly
<1>13. CASE CompactOrWait
  BY <1>13, WaitFrame DEF compactOnly
<1> HIDE DEF GapInv, ServerTypes, DeliveryTypes, Numbered, TurnInv, server,
         dispatcher, runs, compactions, waits, Ends, Started
<1> QED
  BY <1>1, <1>2, <1>3, <1>4, <1>5, <1>6, <1>7, <1>8, <1>9, <1>10, <1>11, <1>12,
     <1>13 DEF Next, CompactOrWait, ServerStep, DispatcherStep

\* The steps that touch none of the notifications a thread has: at most one
\* more passes a closed thread, and a stream starts or ends.
Keeps ==
    /\ Pushed' = Pushed \/ (closed /\ Pushed' = Pushed + 1)
    /\ inbox' = inbox /\ dropped' = dropped /\ got' = got
    /\ closed => closed'
    /\ \A r \in Runs : rpc'[r] \in Streaming =>
          \/ rpc'[r] = rpc[r] /\ hand'[r] = hand[r]
          \/ got[r] = <<>> /\ rpc'[r] = "selecting"
Moves == Push \/ \E r \in Runs : Take(r) \/ Forward(r)

\* Every step is one of these or moves a notification.
LEMMA KeepsOrMoves == GapInv /\ Next => (Keeps \/ Moves)
<1> SUFFICES ASSUME GapInv, Next PROVE (Keeps \/ Moves)
  OBVIOUS
<1> USE TypeParts DEF GapInv, Keeps, Streaming, ServerTypes, DeliveryTypes,
        RunTypes, TurnInv, Expecting, server, dispatcher, runs, compactions,
        waits, Ends, Started
<1>1. CASE Accept
  <2>1. PICK ev : wire' = Append(wire, ev)
    BY <1>1 DEF Accept, Say
  <2>2. count' = count + 1 /\ dpc' = dpc
    BY <1>1 DEF Accept, Say, serverOnly
  <2>3. Pushed' = Pushed
    BY <2>1, <2>2 DEF Pushed
  <2> QED
    BY <1>1, <2>3 DEF Accept, serverOnly
<1>2. CASE Reject
  BY <1>2 DEF Pushed, Reject, serverOnly
<1>3. CASE Talk
  <2>1. PICK ev : wire' = Append(wire, ev)
    BY <1>3 DEF Talk, Say
  <2>2. count' = count + 1 /\ dpc' = dpc
    BY <1>3 DEF Talk, Say, serverOnly
  <2>3. Pushed' = Pushed
    BY <2>1, <2>2 DEF Pushed
  <2> QED
    BY <1>3, <2>3 DEF Talk, serverOnly
<1>4. ASSUME NEW k \in Ends, FinishTurn(k) PROVE (Keeps \/ Moves)
  <2>1. PICK ev : wire' = Append(wire, ev)
    BY <1>4 DEF FinishTurn, Say
  <2>2. count' = count + 1 /\ dpc' = dpc
    BY <1>4 DEF FinishTurn, Say, serverOnly
  <2>3. Pushed' = Pushed
    BY <2>1, <2>2 DEF Pushed
  <2> QED
    BY <1>4, <2>3 DEF FinishTurn, serverOnly
<1>5. ASSUME NEW c \in Compactions, EmitCompacted(c) PROVE (Keeps \/ Moves)
  <2>1. PICK ev : wire' = Append(wire, ev)
    BY <1>5 DEF EmitCompacted, Say
  <2>2. count' = count + 1 /\ dpc' = dpc
    BY <1>5 DEF EmitCompacted, Say, serverOnly
  <2>3. Pushed' = Pushed
    BY <2>1, <2>2 DEF Pushed
  <2> QED
    BY <1>5, <2>3 DEF EmitCompacted, serverOnly
<1>6. CASE Interrupt
  BY <1>4, <1>6 DEF Interrupt
<1>7. CASE Deliver
  <2>1. /\ wire # <<>> /\ wire' = Tail(wire) /\ count' = count
        /\ dpc = "receiving" /\ inbox' = inbox /\ dropped' = dropped
        /\ closed' = closed /\ UNCHANGED <<rpc, hand, got>>
        /\ closed => dpc' = dpc
        /\ ~closed => dpc' \in {"clearing", "teeing", "pushing"}
    BY <1>7, DeliverFacts DEF Deliver, dispatcher, threadOnly
  <2>2. Len(wire') = Len(wire) - 1
    BY <2>1
  <2>3. Pushed' = Pushed \/ (closed /\ Pushed' = Pushed + 1)
    BY <2>1, <2>2 DEF Pushed
  <2> QED
    BY <2>1, <2>3
<1>8. CASE ClearActive
  <2>1. dpc # "receiving" /\ dpc' # "receiving" /\ UNCHANGED <<wire, count>>
    BY <1>8 DEF threadOnly, ClearActive
  <2>2. Pushed' = Pushed
    BY <2>1 DEF Pushed
  <2> QED
    BY <1>8, <2>2 DEF ClearActive, threadOnly
<1>9. CASE LoadTap
  <2>1. dpc # "receiving" /\ dpc' # "receiving" /\ UNCHANGED <<wire, count>>
    BY <1>9 DEF Tap, threadOnly, LoadTap
  <2>2. Pushed' = Pushed
    BY <2>1 DEF Pushed
  <2> QED
    BY <1>9, <2>2 DEF LoadTap, Tap, threadOnly
<1>10. CASE Push
  BY <1>10 DEF Moves
<1>11. CASE MarkClosed
  BY <1>11 DEF Pushed, MarkClosed, EventMuFree, SubsToClose, threadOnly
<1>12. ASSUME NEW r \in Runs, RunBegins(r) PROVE (Keeps \/ Moves)
  BY <1>12 DEF Pushed, RunBegins, RGoto, runOnly
<1>13. ASSUME NEW r \in Runs, RunSends(r) PROVE (Keeps \/ Moves)
  BY <1>13 DEF Pushed, RunSends, TurnMuFree, RGoto, runOnly
<1>14. ASSUME NEW r \in Runs, RunFails(r) PROVE (Keeps \/ Moves)
  BY <1>14 DEF Pushed, RunFails, TurnMuFree, RGoto, runOnly
<1>15. ASSUME NEW r \in Runs, RunStreams(r) PROVE (Keeps \/ Moves)
  BY <1>15 DEF Pushed, RunStreams, RGoto, runOnly
<1>16. ASSUME NEW r \in Runs, Take(r) PROVE (Keeps \/ Moves)
  BY <1>16 DEF Moves
<1>17. ASSUME NEW r \in Runs, Forward(r) PROVE (Keeps \/ Moves)
  BY <1>17 DEF Moves
<1>18. ASSUME NEW r \in Runs, Abandon(r) PROVE (Keeps \/ Moves)
  BY <1>18 DEF Pushed, Abandon, StreamOver, RGoto, runOnly
<1>19. ASSUME NEW r \in Runs, ReadNext(r) PROVE (Keeps \/ Moves)
  BY <1>19 DEF Pushed, ReadNext, RGoto, runOnly
<1>20. ASSUME NEW r \in Runs, Cancel(r) PROVE (Keeps \/ Moves)
  BY <1>20 DEF Pushed, Cancel, RGoto, runOnly
<1>21. ASSUME NEW c \in Compactions, CompactStep(c) PROVE (Keeps \/ Moves)
  BY <1>21 DEF Pushed, CompactStep, CompactBegins, Install, Ask, Acknowledged,
     CompactFails, KGoto, Detached, compactOnly
<1>22. ASSUME NEW w \in Waits, WaitBegins(w) PROVE (Keeps \/ Moves)
  BY <1>22 DEF Pushed, WaitBegins, WGoto, compactOnly
<1>23. ASSUME NEW w \in Waits, WaitStep(w) PROVE (Keeps \/ Moves)
  BY <1>23 DEF Pushed, WaitStep, WaitGets, WaitClosed, Detach, WGoto, Detached,
     compactOnly
<1>24. ASSUME NEW w \in Waits, WaitExpires(w) PROVE (Keeps \/ Moves)
  BY <1>24 DEF Pushed, WaitExpires, WGoto, compactOnly
<1> HIDE DEF GapInv, Keeps, Streaming, ServerTypes, DeliveryTypes, RunTypes,
         TurnInv, Expecting, server, dispatcher, runs, compactions, waits,
         Ends, Started
<1> QED
  BY <1>1, <1>2, <1>3, <1>4, <1>5, <1>6, <1>7, <1>8, <1>9, <1>10, <1>11, <1>12,
     <1>13, <1>14, <1>15, <1>16, <1>17, <1>18, <1>19, <1>20, <1>21, <1>22,
     <1>23, <1>24 DEF Next, ServerStep, DispatcherStep, RunStep, StreamStep

\* What is numbered has a number.
LEMMA Numbers ==
    ASSUME TypeOK
    PROVE  /\ Pushed \in Int
           /\ \A i \in 1 .. Len(inbox) : inbox[i] \in Events /\ inbox[i].n \in Nat
           /\ \A r \in Runs : \A i \in 1 .. Len(got[r]) : got[r][i].n \in Nat
<1>1. count \in Nat /\ Len(wire) \in Nat
  BY TypeParts DEF ServerTypes
<1>2. inbox \in Seq(Events) /\ got \in [Runs -> Seq(Events)]
  BY TypeParts DEF DeliveryTypes, StreamTypes
<1>3. Pushed \in Int
  BY <1>1 DEF Pushed
<1>4. \A i \in 1 .. Len(inbox) : inbox[i] \in Events
  BY <1>2
<1>5. \A r \in Runs : \A i \in 1 .. Len(got[r]) : got[r][i] \in Events
  BY <1>2
<1> QED
  BY <1>3, <1>4, <1>5, EventParts

\* Where nothing moves, nothing gets lost.
LEMMA KeepsGaps ==
    GapInv /\ Keeps => (InOrder /\ InboxGaps /\ StreamGaps /\ GapsAreDrops)'
<1> SUFFICES ASSUME GapInv, Keeps
             PROVE  (InOrder /\ InboxGaps /\ StreamGaps /\ GapsAreDrops)'
  OBVIOUS
<1>1. TypeOK /\ InOrder /\ InboxGaps /\ StreamGaps /\ GapsAreDrops
  BY DEF GapInv, TurnInv
<1>2. \A n : (Waiting(n)' <=> Waiting(n)) /\ (Gone(n)' <=> Gone(n))
  BY DEF Keeps, Waiting, Gone
<1>3. ASSUME NEW r \in Runs, rpc'[r] \in Streaming, NEW m, Has(r, m)'
      PROVE  rpc[r] \in Streaming /\ \A n : Has(r, n)' <=> Has(r, n)
  <2>1. got' = got /\ (got[r] = <<>> => Len(got[r]) = 0)
    BY DEF Keeps
  <2>2. rpc'[r] = rpc[r] /\ hand'[r] = hand[r]
    <3>1. CASE got[r] = <<>> /\ rpc'[r] = "selecting"
      BY <1>3, <2>1, <3>1 DEF Has
    <3> QED
      BY <1>3, <3>1 DEF Keeps
  <2> QED
    BY <1>3, <2>1, <2>2 DEF Has
<1>4. /\ Pushed \in Int /\ Pushed' \in Int /\ Pushed <= Pushed'
      /\ ~closed => Pushed' = Pushed
      /\ closed => closed'
  BY <1>1, Numbers DEF Keeps
<1>5. InOrder'
  <2>1. \A i, j \in 1 .. Len(inbox') : i < j => inbox'[i].n < inbox'[j].n
    BY <1>1 DEF Keeps, InOrder
  <2>2. \A n \in Nat : Waiting(n)' => n <= Pushed'
    BY <1>1, <1>2, <1>4 DEF InOrder
  <2>3. ASSUME NEW r \in Runs, rpc'[r] \in Streaming
        PROVE  /\ \A m, n \in Nat : Has(r, m)' /\ Waiting(n)' => m < n
               /\ \A m \in Nat : Has(r, m)' => m <= Pushed'
    BY <1>1, <1>2, <1>3, <1>4, <2>3 DEF InOrder
  <2> QED
    BY <2>1, <2>2, <2>3 DEF InOrder
<1>6. InboxGaps'
  <2> SUFFICES ASSUME NEW m \in Nat, NEW n \in Nat,
                      Waiting(m)', m <= n, n <= Pushed',
                      closed' => \E k \in Nat : n <= k /\ Waiting(k)'
               PROVE  Waiting(n)' \/ Gone(n)'
    BY DEF InboxGaps
  <2>1. closed => \E k \in Nat : n <= k /\ Waiting(k)
    BY <1>2, <1>4
  <2>2. n <= Pushed
    BY <2>1, <1>1, <1>4 DEF InOrder
  <2> QED
    BY <2>1, <2>2, <1>1, <1>2 DEF InboxGaps
<1>7. StreamGaps'
  <2> SUFFICES ASSUME NEW r \in Runs, rpc'[r] \in Streaming,
                      NEW m \in Nat, NEW n \in Nat,
                      Has(r, m)', m <= n, n <= Pushed',
                      closed' => \E k \in Nat :
                                    n <= k /\ (Has(r, k)' \/ Waiting(k)')
               PROVE  Has(r, n)' \/ Waiting(n)' \/ Gone(n)'
    BY DEF StreamGaps
  <2>1. rpc[r] \in Streaming /\ \A k : Has(r, k)' <=> Has(r, k)
    BY <1>3
  <2>2. closed => \E k \in Nat : n <= k /\ (Has(r, k) \/ Waiting(k))
    BY <1>2, <1>4, <2>1
  <2>3. n <= Pushed
    BY <2>1, <2>2, <1>1, <1>4 DEF InOrder
  <2> QED
    BY <2>1, <2>2, <2>3, <1>1, <1>2 DEF StreamGaps
<1>8. GapsAreDrops'
  BY <1>1 DEF Keeps, GapsAreDrops
<1> QED
  BY <1>5, <1>6, <1>7, <1>8

\* The next notification goes into the inbox or is dropped.
LEMMA PushGaps ==
    GapInv /\ Push => (InOrder /\ InboxGaps /\ StreamGaps /\ GapsAreDrops)'
<1> SUFFICES ASSUME GapInv, Push
             PROVE  (InOrder /\ InboxGaps /\ StreamGaps /\ GapsAreDrops)'
  OBVIOUS
<1>1. TypeOK /\ InOrder /\ InboxGaps /\ StreamGaps /\ GapsAreDrops
  BY DEF GapInv, TurnInv
<1>2. /\ dpc = "pushing" /\ dpc' = "receiving" /\ ~closed /\ ~closed'
      /\ dev \in Events /\ dev.n \in Nat
      /\ UNCHANGED <<wire, count, rpc, hand, got>>
      /\ \/ inbox' = Append(inbox, dev) /\ dropped' = dropped
         \/ dropped' = dropped \cup {dev} /\ inbox' = inbox
  <2>1. ~closed /\ dev \in Events
    BY DEF GapInv, TurnInv, TapOpen, AllTold, Push
  <2> QED
    BY <2>1, EventParts DEF Push, threadOnly, server, runs
<1>3. Pushed \in Int /\ Pushed' = Pushed + 1 /\ dev.n = Pushed + 1
  <2>1. count \in Nat /\ Len(wire) \in Nat
    BY <1>1, TypeParts DEF ServerTypes
  <2>2. dev.n = count - Len(wire)
    BY <1>2 DEF GapInv, Numbered
  <2> QED
    BY <1>2, <2>1, <2>2 DEF Pushed
<1>10. PICK next \in Int : next = Pushed + 1
  BY <1>3
<1>4. /\ \A n : Waiting(n) => Waiting(n)'
      /\ \A n : Waiting(n)' => Waiting(n) \/ n = next
      /\ \A n : Gone(n) => Gone(n)'
      /\ Waiting(next)' \/ Gone(next)'
  <2>1. inbox \in Seq(Events)
    BY <1>1, TypeParts DEF DeliveryTypes
  <2>2. CASE inbox' = Append(inbox, dev) /\ dropped' = dropped
    <3>1. /\ Len(inbox') = Len(inbox) + 1 /\ inbox'[Len(inbox) + 1] = dev
          /\ \A i \in 1 .. Len(inbox) : inbox'[i] = inbox[i]
      BY <1>2, <2>1, <2>2
    <3>2. Len(inbox) \in Nat
      BY <2>1
    <3> QED
      BY <1>3, <1>10, <2>2, <3>1, <3>2 DEF Waiting, Gone
  <2>3. CASE dropped' = dropped \cup {dev} /\ inbox' = inbox
    BY <1>3, <1>10, <2>3 DEF Waiting, Gone
  <2> QED
    BY <1>2, <2>2, <2>3
<1>5. \A r \in Runs : \A n : Has(r, n)' <=> Has(r, n)
  BY <1>2 DEF Has
<1>6. InOrder'
  <2>1. ASSUME NEW i \in 1 .. Len(inbox'), NEW j \in 1 .. Len(inbox'), i < j
        PROVE  inbox'[i].n < inbox'[j].n
    <3>1. CASE inbox' = inbox
      BY <1>1, <2>1, <3>1 DEF InOrder
    <3>2. CASE inbox' = Append(inbox, dev)
      <4>1. /\ Len(inbox') = Len(inbox) + 1 /\ inbox'[Len(inbox) + 1] = dev
            /\ \A k \in 1 .. Len(inbox) : inbox'[k] = inbox[k]
            /\ Len(inbox) \in Nat
        <5>1. inbox \in Seq(Events)
          BY <1>1, TypeParts DEF DeliveryTypes
        <5> QED
          BY <5>1, <1>2, <3>2
      <4>2. CASE j \in 1 .. Len(inbox)
        BY <1>1, <2>1, <4>1, <4>2 DEF InOrder
      <4>3. CASE j = Len(inbox) + 1
        <5>1. i \in 1 .. Len(inbox)
          BY <2>1, <4>1, <4>3
        <5>2. inbox[i].n \in Nat /\ inbox[i].n <= Pushed
          BY <5>1, <1>1, Numbers DEF InOrder, Waiting
        <5> QED
          BY <4>1, <4>3, <5>1, <5>2, <1>3
      <4> QED
        BY <4>1, <4>2, <4>3
    <3> QED
      BY <1>2, <3>1, <3>2
  <2>2. \A n \in Nat : Waiting(n)' => n <= Pushed'
    BY <1>1, <1>3, <1>10, <1>4 DEF InOrder
  <2>3. ASSUME NEW r \in Runs, rpc'[r] \in Streaming
        PROVE  /\ \A m, n \in Nat : Has(r, m)' /\ Waiting(n)' => m < n
               /\ \A m \in Nat : Has(r, m)' => m <= Pushed'
    <3>1. /\ \A m, n \in Nat : Has(r, m) /\ Waiting(n) => m < n
          /\ \A m \in Nat : Has(r, m) => m <= Pushed
      BY <1>1, <1>2, <2>3 DEF InOrder
    <3> QED
      BY <3>1, <1>3, <1>10, <1>4, <1>5
  <2> QED
    BY <2>1, <2>2, <2>3 DEF InOrder
<1>7. InboxGaps'
  <2> SUFFICES ASSUME NEW m \in Nat, NEW n \in Nat,
                      Waiting(m)', m <= n, n <= Pushed'
               PROVE  Waiting(n)' \/ Gone(n)'
    BY DEF InboxGaps
  <2>1. CASE n = next
    BY <1>4, <2>1
  <2>2. CASE n # next
    <3>1. n <= Pushed /\ Waiting(m)
      BY <1>3, <1>10, <1>4, <2>2
    <3> QED
      BY <3>1, <1>1, <1>2, <1>4 DEF InboxGaps
  <2> QED
    BY <2>1, <2>2
<1>8. StreamGaps'
  <2> SUFFICES ASSUME NEW r \in Runs, rpc'[r] \in Streaming,
                      NEW m \in Nat, NEW n \in Nat,
                      Has(r, m)', m <= n, n <= Pushed'
               PROVE  Has(r, n)' \/ Waiting(n)' \/ Gone(n)'
    BY DEF StreamGaps
  <2>1. CASE n = next
    BY <1>4, <2>1
  <2>2. CASE n # next
    <3>1. n <= Pushed /\ Has(r, m) /\ rpc[r] \in Streaming
      BY <1>2, <1>3, <1>10, <1>5, <2>2
    <3>2. Has(r, n) \/ Waiting(n) \/ Gone(n)
      BY <3>1, <1>1, <1>2 DEF StreamGaps
    <3> QED
      BY <3>2, <1>4, <1>5
  <2> QED
    BY <2>1, <2>2
<1>9. GapsAreDrops'
  BY <1>1, <1>2 DEF GapsAreDrops
<1> QED
  BY <1>6, <1>7, <1>8, <1>9

\* No other run streams while one does.
LEMMA OneStream ==
    ASSUME GapInv, NEW r \in Runs, rpc[r] \in Streaming,
           NEW s \in Runs, rpc[s] \in Streaming
    PROVE  s = r
  BY DEF GapInv, Held

\* The first of the inbox goes into the hand of the one stream.
LEMMA TakeGaps ==
    ASSUME GapInv, NEW r \in Runs, Take(r)
    PROVE  (InOrder /\ InboxGaps /\ StreamGaps /\ GapsAreDrops)'
<1>1. TypeOK /\ InOrder /\ InboxGaps /\ StreamGaps /\ GapsAreDrops
  BY DEF GapInv, TurnInv
<1>2. /\ rpc[r] = "selecting" /\ rpc' = [rpc EXCEPT ![r] = "forwarding"]
      /\ inbox # <<>> /\ inbox' = Tail(inbox)
      /\ hand' = [hand EXCEPT ![r] = inbox[1]]
      /\ UNCHANGED <<count, wire, dpc, got, dropped, closed>>
  BY DEF Take, RGoto, runOnly, dispatcher
<1>3. rpc'[r] = "forwarding" /\ hand'[r] = inbox[1]
      /\ \A s \in Runs : rpc'[s] \in Streaming => s = r
  <2>1. rpc \in [Runs -> {"idle", "refused", "locking", "awaiting", "failed",
                          "selecting", "forwarding", "ended"}]
        /\ hand \in [Runs -> MaybeEvents]
    BY <1>1, TypeParts DEF RunTypes
  <2>2. \A s \in Runs \ {r} : rpc'[s] = rpc[s]
    BY <1>2, <2>1
  <2>3. rpc[r] \in Streaming
    BY <1>2 DEF Streaming
  <2> QED
    BY <1>2, <2>1, <2>2, <2>3, OneStream
<1>4. /\ inbox[1].n \in Nat /\ Len(inbox) \in Nat /\ Len(inbox) > 0
      /\ Len(inbox') = Len(inbox) - 1
      /\ \A i \in 1 .. Len(inbox') : inbox'[i] = inbox[i + 1]
  <2>1. inbox \in Seq(Events)
    BY <1>1, TypeParts DEF DeliveryTypes
  <2>2. /\ Len(inbox) \in Nat /\ Len(inbox) > 0 /\ Len(inbox') = Len(inbox) - 1
        /\ \A i \in 1 .. Len(inbox') : inbox'[i] = inbox[i + 1]
    BY <2>1, <1>2
  <2> QED
    BY <2>2, <1>1, Numbers
<1>5. PICK first \in Nat : first = inbox[1].n
  BY <1>4
<1>6. /\ Waiting(first)
      /\ \A n : Waiting(n) => Waiting(n)' \/ n = first
      /\ \A n : Waiting(n)' => Waiting(n) /\ first < n
      /\ \A n : Gone(n)' <=> Gone(n)
  <2>1. \A n : Waiting(n) => Waiting(n)' \/ n = first
    <3> SUFFICES ASSUME NEW n, NEW i \in 1 .. Len(inbox), inbox[i].n = n, i # 1
                 PROVE  Waiting(n)'
      BY <1>5 DEF Waiting
    <3>1. i - 1 \in 1 .. Len(inbox') /\ inbox'[i - 1] = inbox[i]
      BY <1>4
    <3> QED
      BY <3>1 DEF Waiting
  <2>2. \A n : Waiting(n)' => Waiting(n) /\ first < n
    <3> SUFFICES ASSUME NEW i \in 1 .. Len(inbox')
                 PROVE  Waiting(inbox'[i].n) /\ first < inbox'[i].n
      BY DEF Waiting
    <3>1. i + 1 \in 1 .. Len(inbox) /\ 1 \in 1 .. Len(inbox) /\ 1 < i + 1
          /\ inbox'[i] = inbox[i + 1]
      BY <1>4
    <3> QED
      BY <3>1, <1>1, <1>5 DEF Waiting, InOrder
  <2> QED
    BY <2>1, <2>2, <1>2, <1>4, <1>5 DEF Waiting, Gone
<1>7. \A n : Has(r, n)' <=> Has(r, n) \/ n = first
  BY <1>2, <1>3, <1>5 DEF Has
<1>8. Pushed' = Pushed /\ Pushed \in Int /\ rpc[r] \in Streaming
  BY <1>1, <1>2, Numbers DEF Pushed, Streaming
<1>9. InOrder'
  <2>1. ASSUME NEW i \in 1 .. Len(inbox'), NEW j \in 1 .. Len(inbox'), i < j
        PROVE  inbox'[i].n < inbox'[j].n
    <3>1. i + 1 \in 1 .. Len(inbox) /\ j + 1 \in 1 .. Len(inbox) /\ i + 1 < j + 1
      BY <1>4, <2>1
    <3> QED
      BY <3>1, <1>1, <1>4 DEF InOrder
  <2>2. \A n \in Nat : Waiting(n)' => n <= Pushed'
    BY <1>1, <1>6, <1>8 DEF InOrder
  <2>3. /\ \A m, n \in Nat : Has(r, m)' /\ Waiting(n)' => m < n
        /\ \A m \in Nat : Has(r, m)' => m <= Pushed'
    BY <1>1, <1>6, <1>7, <1>8 DEF InOrder
  <2> QED
    BY <1>3, <2>1, <2>2, <2>3 DEF InOrder
<1>10. InboxGaps'
  <2> SUFFICES ASSUME NEW m \in Nat, NEW n \in Nat,
                      Waiting(m)', m <= n, n <= Pushed',
                      closed' => \E k \in Nat : n <= k /\ Waiting(k)'
               PROVE  Waiting(n)' \/ Gone(n)'
    BY DEF InboxGaps
  <2>1. Waiting(m) /\ first < n /\ n <= Pushed
    BY <1>6, <1>8
  <2>2. Waiting(n) \/ Gone(n)
    BY <2>1, <1>1, <1>2, <1>6 DEF InboxGaps
  <2> QED
    BY <2>1, <2>2, <1>6
<1>11. StreamGaps'
  <2> SUFFICES ASSUME NEW m \in Nat, NEW n \in Nat,
                      Has(r, m)', m <= n, n <= Pushed',
                      closed' => \E k \in Nat :
                                    n <= k /\ (Has(r, k)' \/ Waiting(k)')
               PROVE  Has(r, n)' \/ Waiting(n)' \/ Gone(n)'
    BY <1>3 DEF StreamGaps
  <2>1. n <= Pushed
    BY <1>8
  <2>2. CASE Has(r, m)
    <3>1. closed => \E k \in Nat : n <= k /\ (Has(r, k) \/ Waiting(k))
      BY <1>2, <1>6, <1>7
    <3>2. Has(r, n) \/ Waiting(n) \/ Gone(n)
      BY <2>1, <2>2, <3>1, <1>1, <1>8 DEF StreamGaps
    <3> QED
      BY <3>2, <1>6, <1>7
  <2>3. CASE m = first
    <3>1. closed => \E k \in Nat : n <= k /\ Waiting(k)
      <4> SUFFICES ASSUME NEW k \in Nat, n <= k, Has(r, k)' \/ Waiting(k)'
                   PROVE  Waiting(k)
        BY <1>2
      <4>1. ~Has(r, k)
        BY <2>3, <1>1, <1>6, <1>8 DEF InOrder
      <4> QED
        BY <4>1, <1>6, <1>7
    <3>2. Waiting(n) \/ Gone(n)
      BY <2>1, <2>3, <3>1, <1>1, <1>6 DEF InboxGaps
    <3> QED
      BY <3>2, <1>6, <1>7
  <2> QED
    BY <2>2, <2>3, <1>7
<1>12. GapsAreDrops'
  BY <1>1, <1>2 DEF GapsAreDrops
<1> QED
  BY <1>9, <1>10, <1>11, <1>12

\* What was in the hand has been forwarded.
LEMMA ForwardGaps ==
    ASSUME GapInv, NEW r \in Runs, Forward(r)
    PROVE  (InOrder /\ InboxGaps /\ StreamGaps /\ GapsAreDrops)'
<1>1. TypeOK /\ InOrder /\ InboxGaps /\ StreamGaps /\ GapsAreDrops
  BY DEF GapInv, TurnInv
<1>2. /\ rpc[r] = "forwarding" /\ rpc[r] \in Streaming
      /\ \E l \in {"ended", "selecting"} : rpc' = [rpc EXCEPT ![r] = l]
      /\ got' = [got EXCEPT ![r] = Append(got[r], hand[r])]
      /\ UNCHANGED <<count, wire, dpc, inbox, dropped, closed>>
  BY DEF Forward, RGoto, runOnly, dispatcher, Streaming
<1>3. /\ got[r] \in Seq(Events) /\ hand[r] \in Events /\ hand[r].n \in Nat
      /\ \A s \in Runs : rpc'[s] \in Streaming => s = r
      /\ \A s \in Runs \ {r} : got'[s] = got[s]
      /\ got'[r] = Append(got[r], hand[r])
      /\ rpc'[r] # "forwarding"
  <2>1. rpc \in [Runs -> {"idle", "refused", "locking", "awaiting", "failed",
                          "selecting", "forwarding", "ended"}]
        /\ got \in [Runs -> Seq(Events)]
    BY <1>1, TypeParts DEF RunTypes, StreamTypes
  <2>2. hand[r] \in Events
    BY <1>2 DEF GapInv, TurnInv, AllTold
  <2>3. \A s \in Runs \ {r} : rpc'[s] = rpc[s]
    BY <1>2, <2>1
  <2>4. \A s \in Runs : rpc'[s] \in Streaming => s = r
    BY <1>2, <2>3, OneStream
  <2> QED
    BY <1>2, <2>1, <2>2, <2>4, EventParts
<1>4. /\ Len(got[r]) \in Nat /\ Len(got'[r]) = Len(got[r]) + 1
      /\ got'[r][Len(got[r]) + 1] = hand[r]
      /\ \A i \in 1 .. Len(got[r]) : got'[r][i] = got[r][i]
  BY <1>3
<1>5. \A n : Has(r, n)' <=> Has(r, n)
  <2>1. \A n : Has(r, n)' => Has(r, n)
    BY <1>2, <1>3, <1>4 DEF Has
  <2>2. \A n : Has(r, n) => Has(r, n)'
    BY <1>2, <1>3, <1>4 DEF Has
  <2> QED
    BY <2>1, <2>2
<1>6. /\ \A n : (Waiting(n)' <=> Waiting(n)) /\ (Gone(n)' <=> Gone(n))
      /\ Pushed' = Pushed
  BY <1>2 DEF Waiting, Gone, Pushed
<1>7. InOrder'
  BY <1>1, <1>2, <1>3, <1>5, <1>6 DEF InOrder
<1>8. InboxGaps'
  BY <1>1, <1>2, <1>6 DEF InboxGaps
<1>9. StreamGaps'
  <2> SUFFICES ASSUME NEW m \in Nat, NEW n \in Nat,
                      Has(r, m)', m <= n, n <= Pushed',
                      closed' => \E k \in Nat :
                                    n <= k /\ (Has(r, k)' \/ Waiting(k)')
               PROVE  Has(r, n)' \/ Waiting(n)' \/ Gone(n)'
    BY <1>3 DEF StreamGaps
  <2>1. closed => \E k \in Nat : n <= k /\ (Has(r, k) \/ Waiting(k))
    BY <1>2, <1>5, <1>6
  <2> QED
    BY <2>1, <1>1, <1>2, <1>5, <1>6 DEF StreamGaps
<1>10. GapsAreDrops'
  <2>1. PICK last \in Nat : last = hand[r].n
    BY <1>3
  <2>2. Has(r, last) /\ last <= Pushed /\ ~Waiting(last)
    BY <2>1, <1>1, <1>2 DEF Has, InOrder
  <2>3. PICK first \in Nat : first = got'[r][1].n /\ Has(r, first)
    <3>1. CASE Len(got[r]) = 0
      BY <3>1, <2>1, <2>2, <1>4
    <3>2. CASE Len(got[r]) # 0
      BY <3>2, <1>1, <1>4, Numbers DEF Has
    <3> QED
      BY <3>1, <3>2
  <2>4. ASSUME NEW n \in first .. last
        PROVE  \/ \E i \in DOMAIN got'[r] : got'[r][i].n = n
               \/ \E ev \in dropped' : ev.n = n
    <3>1. n \in Nat /\ n <= last /\ first <= n /\ n <= Pushed
      BY <2>2, <1>1, Numbers
    <3>2. Has(r, n) \/ Waiting(n) \/ Gone(n)
      BY <3>1, <2>2, <2>3, <1>1, <1>2 DEF StreamGaps
    <3>3. ~Waiting(n)
      BY <3>1, <2>2, <1>1, <1>2 DEF InOrder
    <3>4. CASE Gone(n)
      BY <3>4, <1>2 DEF Gone
    <3>5. CASE Has(r, n)
      <4>1. Has(r, n)' /\ rpc'[r] # "forwarding"
        BY <3>5, <1>3, <1>5
      <4>2. DOMAIN got'[r] = 1 .. Len(got'[r])
        BY <1>3
      <4> QED
        BY <4>1, <4>2 DEF Has
    <3> QED
      BY <3>2, <3>3, <3>4, <3>5
  <2>5. got'[r][Len(got'[r])].n = last
    BY <2>1, <1>4
  <2>6. ASSUME NEW s \in Runs \ {r}, got'[s] # <<>>
        PROVE  \A n \in got'[s][1].n .. got'[s][Len(got'[s])].n :
                   \/ \E i \in DOMAIN got'[s] : got'[s][i].n = n
                   \/ \E ev \in dropped' : ev.n = n
    BY <2>6, <1>1, <1>2, <1>3 DEF GapsAreDrops
  <2> QED
    BY <2>3, <2>4, <2>5, <2>6 DEF GapsAreDrops
<1> QED
  BY <1>7, <1>8, <1>9, <1>10

-----------------------------------------------------------------------------
(* The theorems.                                                            *)

\* An idle thread.
LEMMA GapInit == Init => GapInv
<1> SUFFICES ASSUME Init PROVE GapInv
  OBVIOUS
<1> USE SizeAssumption, TalkAssumption, NoneAssumption DEF Init
<1>1. TypeOK
  <2>1. ServerTypes
    BY DEF ServerTypes, Turns
  <2>2. DeliveryTypes
    <3>1. inbox \in Seq(Events) /\ Len(inbox) = 0
      OBVIOUS
    <3>2. Len(inbox) <= InboxSize
      BY <3>1
    <3>3. dropped \subseteq Events
      OBVIOUS
    <3> QED
      BY <3>1, <3>2, <3>3 DEF DeliveryTypes, Turns, MaybeEvents
  <2>3. RunTypes
    BY DEF RunTypes, Turns, MaybeEvents
  <2>4. StreamTypes
    <3>1. \A r \in Runs : Len(out[r]) = 0
      OBVIOUS
    <3> QED
      BY <3>1 DEF StreamTypes
  <2>5. CompactTypes
    BY DEF CompactTypes, MaybeEvents
  <2> QED
    BY <2>1, <2>2, <2>3, <2>4, <2>5, TypeParts
<1>2. TapOpen /\ Accepted
  BY DEF TapOpen, Accepted
<1>3. AllTold /\ Expecting
  BY DEF AllTold, Expecting, Streaming
<1>4. Held /\ Numbered
  BY DEF Held, Numbered, Streaming
<1>5. \A n : ~Waiting(n)
  BY DEF Waiting
<1>6. \A r \in Runs : rpc[r] \notin Streaming
  BY DEF Streaming
<1>7. InOrder /\ InboxGaps /\ StreamGaps
  BY <1>5, <1>6 DEF InOrder, InboxGaps, StreamGaps
<1>8. GapsAreDrops
  BY DEF GapsAreDrops
<1> QED
  BY <1>1, <1>2, <1>3, <1>4, <1>7, <1>8 DEF GapInv, TurnInv

\* A step that changes nothing.
LEMMA GapStutter == GapInv /\ UNCHANGED vars => GapInv'
<1> SUFFICES ASSUME GapInv, UNCHANGED vars PROVE GapInv'
  OBVIOUS
<1> USE DEF vars, server, dispatcher, runs, compactions, waits
<1>1. TypeOK'
  BY DEF GapInv, TurnInv, TypeOK
<1>2. (TapOpen /\ AllTold /\ Accepted /\ Expecting)'
  BY DEF GapInv, TurnInv, TapOpen, AllTold, Accepted, Expecting
<1>3. (Held /\ Numbered /\ GapsAreDrops)'
  BY DEF GapInv, Held, Numbered, GapsAreDrops
<1>4. /\ \A n : (Waiting(n)' <=> Waiting(n)) /\ (Gone(n)' <=> Gone(n))
      /\ \A r \in Runs : \A n : Has(r, n)' <=> Has(r, n)
      /\ Pushed' = Pushed
  BY DEF Waiting, Gone, Has, Pushed
<1>5. UNCHANGED <<rpc, inbox, closed>>
  OBVIOUS
<1>6. (InOrder /\ InboxGaps /\ StreamGaps)'
  BY <1>4, <1>5 DEF GapInv, InOrder, InboxGaps, StreamGaps
<1> QED
  BY <1>1, <1>2, <1>3, <1>6 DEF GapInv, TurnInv

\* GapInv is inductive.
LEMMA GapInductive == Spec => []GapInv
<1>1. GapInv /\ [Next]_vars => GapInv'
  <2> SUFFICES ASSUME GapInv, [Next]_vars PROVE GapInv'
    OBVIOUS
  <2>1. CASE Next
    <3>1. TurnInv
      BY DEF GapInv
    <3>2. TypeOK'
      <4>1. ServerTypes' /\ DeliveryTypes' /\ RunTypes' /\ StreamTypes'
            /\ CompactTypes'
        BY <2>1, <3>1, ServerStepTypes, DeliveryStepTypes, RunStepTypes,
           StreamStepTypes, CompactStepTypes
      <4> QED
        BY <4>1 DEF TypeOK, ServerTypes, DeliveryTypes, RunTypes, StreamTypes,
                    CompactTypes
    <3>3. TapOpen' /\ AllTold' /\ Accepted' /\ Expecting'
      BY <2>1, <3>1, TapStep, ToldStep, AcceptedStep, ExpectingStep
    <3>4. Held' /\ Numbered'
      BY <2>1, HeldStep, NumberedStep
    <3>5. (InOrder /\ InboxGaps /\ StreamGaps /\ GapsAreDrops)'
      BY <2>1, KeepsOrMoves, KeepsGaps, PushGaps, TakeGaps, ForwardGaps DEF Moves
    <3> QED
      BY <3>2, <3>3, <3>4, <3>5 DEF GapInv, TurnInv
  <2>2. CASE UNCHANGED vars
    BY <2>2, GapStutter
  <2> QED
    BY <2>1, <2>2
<1> QED
  BY GapInit, <1>1, PTL DEF Spec

-----------------------------------------------------------------------------
(* Compactions.                                                             *)

\* A Wait on c has been answered, or has given up.
Served(c) == \E w \in Waits : result[w] = c /\ wpc[w] \in {"detaching", "returned"}

\* Compact installs its subscription before it asks, and it stays until a Wait
\* on it is over.
Installed ==
    /\ \A c \in compacting : kpc[c] \in {"awaiting", "ready", "failed"}
    /\ \A c \in Compactions :
          kpc[c] \in {"asking", "awaiting", "ready"} /\ ~closed =>
              compactSub = c \/ Served(c)

\* The end of a compaction is on its way until the subscription has it.
OnItsWay(c) ==
    \/ \E i \in 1 .. Len(wire) : wire[i].kind = "compacted" /\ wire[i].turn = c
    \/ /\ dev.kind = "compacted" /\ dev.turn = c
       /\ \/ dpc = "teeing"
          \/ dpc = "pushing" /\ dload = c
Arrives ==
    \A c \in emitted :
        kpc[c] \in {"awaiting", "ready"} /\ ~closed =>
            OnItsWay(c) \/ buffer[c] # None \/ Served(c)

CompactInv == GapInv /\ Installed /\ Arrives

\* The subscription is there when it is needed.
LEMMA InstalledStep ==
    ASSUME TypeOK, Installed, Next
    PROVE  Installed'
<1> USE NoneAssumption DEF Installed, CompactTypes
<1>0. UNCHANGED <<wpc, result>> => \A c \in Compactions : Served(c)' <=> Served(c)
  BY DEF Served
<1>1. CASE ServerStep \/ Interrupt
  <2>1. UNCHANGED <<closed, compactSub, kpc, wpc, result>>
    BY <1>1, ServerFrame DEF serverOnly, compactions, waits
  <2>2. compacting' = compacting
    BY <1>1 DEF ServerStep, Accept, Reject, Talk, FinishTurn, EmitCompacted, Interrupt
  <2> QED
    BY <1>0, <2>1, <2>2
<1>2. CASE DispatcherStep \/ MarkClosed
  <2>1. UNCHANGED <<compacting, wpc, result>>
    BY <1>2, DispatcherFrame DEF threadOnly, server, waits
  <2>2. kpc' = kpc /\ (closed' \/ (UNCHANGED <<closed, compactSub>>))
    BY <1>2 DEF DispatcherStep, Deliver, ClearActive, LoadTap, Push, MarkClosed,
       compactions
  <2> QED
    BY <1>0, <2>1, <2>2
<1>3. ASSUME NEW r \in Runs, RunStep(r) PROVE Installed'
  BY <1>0, <1>3, RunFrame DEF runOnly, compactions, waits
<1>4. ASSUME NEW c \in Compactions, CompactStep(c) PROVE Installed'
  <2>1. UNCHANGED <<closed, wpc, result>>
    BY <1>4 DEF CompactStep, CompactBegins, Install, Ask, Acknowledged, CompactFails,
       compactOnly, waits
  <2>2. /\ CompactTypes /\ compacting \subseteq Compactions
        /\ \A k \in Compactions : Served(k)' <=> Served(k)
    BY <1>0, <2>1, TypeParts DEF ServerTypes
  <2>3. CASE CompactBegins(c) \/ Acknowledged(c)
    BY <2>1, <2>2, <2>3 DEF CompactBegins, Acknowledged, KGoto
  <2>4. CASE Install(c)
    BY <2>1, <2>2, <2>4 DEF Install, KGoto
  <2>5. CASE Ask(c)
    BY <2>1, <2>2, <2>5 DEF Ask, KGoto
  <2>6. CASE CompactFails(c)
    BY <2>1, <2>2, <2>6 DEF CompactFails, KGoto, Detached
  <2> QED
    BY <1>4, <2>3, <2>4, <2>5, <2>6 DEF CompactStep
<1>5. ASSUME NEW w \in Waits, WaitBegins(w) \/ WaitStep(w) \/ WaitExpires(w)
      PROVE  Installed'
  <2>1. UNCHANGED <<closed, compacting, kpc>>
    BY <1>5 DEF WaitBegins, WaitStep, WaitGets, WaitClosed, Detach, WaitExpires,
       compactOnly
  <2>2. CompactTypes
    BY TypeParts
  <2>3. \A c \in Compactions : Served(c) => Served(c)'
    BY <1>5, <2>2 DEF WaitBegins, WaitStep, WaitGets, WaitClosed, Detach, WaitExpires,
       WGoto, Served
  <2>4. CASE Detach(w)
    <3>1. Served(result[w])'
      BY <2>2, <2>4 DEF Detach, WGoto, Served
    <3>2. result' = result /\ compactSub' = Detached(result[w])
      BY <2>4 DEF Detach
    <3> QED
      BY <2>1, <2>3, <3>1, <3>2 DEF Detached
  <2>5. CASE ~Detach(w)
    <3>1. compactSub' = compactSub
      BY <1>5, <2>5 DEF WaitBegins, WaitStep, WaitGets, WaitClosed, WaitExpires,
         compactOnly
    <3> QED
      BY <2>1, <2>3, <3>1
  <2> QED
    BY <2>4, <2>5
<1> QED
  BY <1>1, <1>2, <1>3, <1>4, <1>5 DEF Next

\* The end of a compaction moves from the wire to the dispatcher, from there
\* into the subscription, and from there to a Wait.
LEMMA ArrivesStep ==
    ASSUME GapInv, Installed, Arrives, Next
    PROVE  Arrives'
<1> USE NoneAssumption
<1>1. TypeOK /\ ServerTypes /\ DeliveryTypes /\ CompactTypes
  BY TypeParts DEF GapInv, TurnInv
<1>0. UNCHANGED <<wpc, result>> => \A c \in emitted' : Served(c)' <=> Served(c)
  BY DEF Served
<1>2. CASE ServerStep \/ Interrupt
  <2>1. UNCHANGED <<dpc, dev, dload, closed, buffer, kpc, wpc, result>>
    BY <1>2, ServerFrame DEF serverOnly, dispatcher, compactions, waits
  <2>2. emitted \subseteq emitted' /\ \E ev : wire' \in {wire, Append(wire, ev)}
    BY <1>2 DEF ServerStep, Accept, Reject, Talk, FinishTurn, EmitCompacted, Interrupt, Say
  <2>3. \A i \in 1 .. Len(wire) : i \in 1 .. Len(wire') /\ wire'[i] = wire[i]
    BY <1>1, <2>2 DEF ServerTypes
  <2>4. \A c \in emitted : OnItsWay(c) => OnItsWay(c)'
    BY <2>1, <2>3 DEF OnItsWay
  <2>5. \A c \in emitted' \ emitted : OnItsWay(c)'
    <3>1. CASE emitted' = emitted
      BY <3>1
    <3>2. ASSUME NEW c \in Compactions, EmitCompacted(c)
          PROVE  \A k \in emitted' \ emitted : OnItsWay(k)'
      <4>1. emitted' = emitted \cup {c} /\ wire' = Append(wire, Event("compacted", c))
        BY <3>2 DEF EmitCompacted, Say
      <4>2. Len(wire') = Len(wire) + 1 /\ wire'[Len(wire) + 1] = Event("compacted", c)
            /\ Len(wire) \in Nat
        BY <1>1, <4>1 DEF ServerTypes
      <4>3. OnItsWay(c)'
        BY <4>2 DEF OnItsWay, Event
      <4> QED
        BY <4>1, <4>3
    <3>3. emitted' = emitted \/ \E c \in Compactions : EmitCompacted(c)
      BY <1>2 DEF ServerStep, Accept, Reject, Talk, FinishTurn, Interrupt
    <3> QED
      BY <3>1, <3>2, <3>3
  <2> QED
    BY <1>0, <2>1, <2>4, <2>5 DEF Arrives
<1>3. CASE DispatcherStep \/ MarkClosed
  <2>1. UNCHANGED <<emitted, wpc, result, kpc>>
    BY <1>3, DispatcherFrame DEF threadOnly, server, waits, DispatcherStep, Deliver,
       ClearActive, LoadTap, Push, MarkClosed, compactions
  <2>2. CASE closed'
    BY <2>2 DEF Arrives
  <2> SUFFICES ASSUME ~closed', ~closed, NEW c \in emitted,
                      kpc[c] \in {"awaiting", "ready"}, c \in Compactions, ~Served(c),
                      OnItsWay(c) \/ buffer[c] # None
               PROVE  OnItsWay(c)' \/ buffer'[c] # None
    BY <1>0, <1>1, <1>3, <2>1, <2>2, DispatcherFrame DEF Arrives, ServerTypes
  <2>3. CASE Deliver
    <3>1. wire # <<>> /\ wire' = Tail(wire) /\ dpc = "receiving" /\ buffer' = buffer
          /\ dev' = wire[1] /\ (wire[1].kind = "compacted" => dpc' = "teeing")
      BY <1>1, <2>3 DEF Deliver, compactions, ServerTypes, Ends
    <3>2. CASE wire[1].kind = "compacted" /\ wire[1].turn = c
      BY <3>1, <3>2 DEF OnItsWay
    <3>3. ASSUME NEW i \in 1 .. Len(wire), wire[i].kind = "compacted", wire[i].turn = c, i # 1
          PROVE  OnItsWay(c)'
      <4>1. PICK k : k = i - 1
        OBVIOUS
      <4>2. k \in 1 .. Len(wire') /\ wire'[k] = wire[i]
        BY <1>1, <3>1, <3>3, <4>1 DEF ServerTypes
      <4> QED
        BY <3>3, <4>2 DEF OnItsWay
    <3> QED
      BY <3>1, <3>2, <3>3 DEF OnItsWay
  <2>4. CASE ClearActive
    <3>1. wire' = wire /\ buffer' = buffer /\ dpc = "clearing"
      BY <2>4 DEF ClearActive, compactions
    <3> QED
      BY <3>1 DEF OnItsWay
  <2>5. CASE LoadTap
    <3>1. wire' = wire /\ buffer' = buffer /\ dev' = dev /\ dpc = "teeing"
          /\ dpc' = "pushing" /\ dload' = compactSub
      BY <2>5 DEF LoadTap, Tap, compactions
    <3>2. compactSub = c
      BY DEF Installed
    <3> QED
      BY <3>1, <3>2 DEF OnItsWay
  <2>6. CASE Push
    <3>1. wire' = wire /\ dev # None /\ dpc = "pushing"
          /\ buffer' = IF dload # None /\ buffer[dload] = None
                       THEN [buffer EXCEPT ![dload] = dev] ELSE buffer
      BY <2>6, EventAssumption DEF Push, GapInv, TurnInv, AllTold
    <3>2. buffer[c] # None => buffer'[c] # None
      BY <1>1, <3>1 DEF CompactTypes
    <3>3. dload = c => buffer'[c] # None
      BY <1>1, <3>1 DEF CompactTypes
    <3> QED
      BY <3>1, <3>2, <3>3 DEF OnItsWay
  <2>7. CASE MarkClosed
    BY <2>7 DEF MarkClosed
  <2> QED
    BY <1>3, <2>3, <2>4, <2>5, <2>6, <2>7 DEF DispatcherStep
<1>4. ASSUME NEW r \in Runs, RunStep(r) PROVE Arrives'
  <2>1. UNCHANGED <<wire, emitted, dispatcher, closed, waits, buffer, kpc>>
    BY <1>4, RunFrame DEF runOnly, compactions
  <2> QED
    BY <1>0, <2>1 DEF Arrives, OnItsWay, dispatcher, waits
<1>5. ASSUME NEW c \in Compactions, CompactStep(c) PROVE Arrives'
  <2>1. UNCHANGED <<wire, emitted, dpc, dev, dload, closed, wpc, result, buffer>>
    BY <1>5 DEF CompactStep, CompactBegins, Install, Ask, Acknowledged, CompactFails,
       compactOnly, waits, dispatcher
  <2>2. \A k \in emitted : kpc'[k] \in {"awaiting", "ready"} =>
                               kpc[k] \in {"awaiting", "ready"}
    BY <1>1, <1>5 DEF CompactStep, CompactBegins, Install, Ask, Acknowledged, CompactFails,
       KGoto, Installed, ServerTypes, CompactTypes
  <2> QED
    BY <1>0, <2>1, <2>2 DEF Arrives, OnItsWay
<1>6. ASSUME NEW w \in Waits, WaitBegins(w) \/ WaitStep(w) \/ WaitExpires(w)
      PROVE  Arrives'
  <2>1. UNCHANGED <<wire, emitted, dpc, dev, dload, closed, kpc>>
    BY <1>6 DEF WaitBegins, WaitStep, WaitGets, WaitClosed, Detach, WaitExpires,
       compactOnly, dispatcher
  <2>2. \A c \in Compactions : Served(c) => Served(c)'
    BY <1>1, <1>6 DEF WaitBegins, WaitStep, WaitGets, WaitClosed, Detach, WaitExpires,
       WGoto, CompactTypes, Served
  <2>3. \A c \in Compactions : buffer[c] # None => buffer'[c] # None \/ Served(c)'
    BY <1>1, <1>6 DEF WaitBegins, WaitStep, WaitGets, WaitClosed, Detach, WaitExpires,
       WGoto, CompactTypes, Served
  <2> QED
    BY <1>1, <2>1, <2>2, <2>3 DEF Arrives, OnItsWay, ServerTypes
<1> QED
  BY <1>2, <1>3, <1>4, <1>5, <1>6 DEF Next

\* CompactInv is inductive.
LEMMA CompactInductive == Spec => []CompactInv
<1>1. Init => CompactInv
  BY GapInit DEF Init, CompactInv, Installed, Arrives
<1>2. CompactInv /\ GapInv' /\ [Next]_vars => CompactInv'
  <2> SUFFICES ASSUME CompactInv, GapInv', [Next]_vars PROVE CompactInv'
    OBVIOUS
  <2>1. CASE Next
    <3>1. TypeOK
      BY DEF CompactInv, GapInv, TurnInv
    <3> QED
      BY <2>1, <3>1, InstalledStep, ArrivesStep DEF CompactInv
  <2>2. CASE UNCHANGED vars
    BY <2>2 DEF vars, server, dispatcher, compactions, waits, CompactInv, Installed,
       Arrives, OnItsWay, Served
  <2> QED
    BY <2>1, <2>2
<1> QED
  BY GapInductive, <1>1, <1>2, PTL DEF Spec

-----------------------------------------------------------------------------
(* The theorems.                                                            *)

\* Every variable of a thread keeps its type.
THEOREM ThreadTypes == Spec => []TypeOK
<1>1. GapInv => TypeOK
  BY DEF GapInv, TurnInv
<1> QED
  BY GapInductive, <1>1, PTL

\* A stream that knew its turn and was neither cancelled nor closed ended with
\* the end of that turn, and with the first there was.
THEOREM StreamsEndWithTheirTurn == Spec => []EndsWithItsTurn
<1>1. GapInv => EndsWithItsTurn
  BY DEF GapInv, TurnInv, Expecting, EndsWithItsTurn, EndOf
<1> QED
  BY GapInductive, <1>1, PTL

\* What is missing from a stream between its first and its last event was
\* dropped by the full inbox.
THEOREM GapsAreAlwaysDrops == Spec => []GapsAreDrops
<1>1. GapInv => GapsAreDrops
  BY DEF GapInv
<1> QED
  BY GapInductive, <1>1, PTL

\* The dispatcher never sends on the channel of a compaction that markClosed has
\* closed.
THEOREM NeverSendsOnClosed == Spec => []NoSendOnClosed
<1>1. GapInv => NoSendOnClosed
  BY DEF GapInv, TurnInv, TapOpen, NoSendOnClosed
<1> QED
  BY GapInductive, <1>1, PTL

\* Once the dispatcher has handled the end of a compaction, its subscription
\* holds a notification or a Wait on it is over: Compact installs the subscription before it asks, and nothing
\* but a Wait that is over takes it away while the thread is open.
THEOREM CompactionsAreHeard == Spec => []NotificationIsKept
<1>1. CompactInv => NotificationIsKept
  <2> SUFFICES ASSUME CompactInv, NEW c \in emitted,
                      ~\E i \in DOMAIN wire : wire[i].turn = c,
                      dev = None \/ dev.turn # c,
                      kpc[c] \in {"awaiting", "ready"}, ~closed
               PROVE  buffer[c] # None \/ Served(c)
    BY DEF NotificationIsKept, Served
  <2>1. DOMAIN wire = 1 .. Len(wire)
    BY TypeParts DEF CompactInv, GapInv, TurnInv, ServerTypes
  <2>2. dpc # "receiving" => dev # None
    BY EventAssumption DEF CompactInv, GapInv, TurnInv, AllTold
  <2>3. ~OnItsWay(c)
    BY <2>1, <2>2 DEF OnItsWay
  <2> QED
    BY <2>3 DEF CompactInv, Arrives
<1> QED
  BY CompactInductive, <1>1, PTL
=============================================================================
