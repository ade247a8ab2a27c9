-------------------------------- MODULE Thread --------------------------------
(****************************************************************************)
(* One Thread (threads.go, threads_commands.go, compact_result.go): turns   *)
(* that serialise on turnMu and filter the shared inbox into their own      *)
(* channel, the dispatcher that fills the inbox without ever blocking, the  *)
(* active turn id that Interrupt and Steer read, and compactions whose      *)
(* completion is tapped from the same event stream.                         *)
(*                                                                          *)
(* The app-server is external: it runs the turns it accepted one after the  *)
(* other and may speak about anything else in between.  A turn is named     *)
(* after the run that asked for it.                                         *)
(****************************************************************************)
EXTENDS Naturals, Sequences, FiniteSets

CONSTANTS
    Runs,        \* calls of Run, RunStreamed or StartReviewStreamed
    Compactions, \* calls of Compact
    Waits,       \* calls of CompactResult.Wait
    None,
    InboxSize,   \* ThreadInboxBuffer for the inbox (256 in the code)
    OutSize,     \* and for the channel of a run
    MaxTalk      \* bound: notifications besides the starts and ends of turns

ASSUME SizeAssumption == InboxSize \in Nat \ {0} /\ OutSize \in Nat \ {0}
ASSUME TalkAssumption == MaxTalk \in Nat
ASSUME NoneAssumption ==
    None \notin Runs \cup Compactions \cup
                {"completed", "failed", "id", "blank", "error"}

VARIABLES
    \* the app-server
    turn,      \* the turn it runs
    asked,     \* turn/start requests it has not looked at
    reply,     \* per run, the answer to its turn/start
    verdict,   \* per run, how its turn ended
    wire,      \* notifications the dispatcher has not received
    count,     \* notifications sent so far
    talk,      \* those that MaxTalk bounds
    compacting,\* compactions it was asked for
    \* the dispatcher inside deliverEvent
    dpc, dev, dload,
    \* the Thread
    closed, activeTurnID, inbox, turnMu, dropped,
    \* the runs
    rpc, cancelled, expected, hand, out, got, lost,
    \* compactions
    compactSub, kpc, buffer, chClosed, emitted,
    \* waits
    wpc, result, answer

server == <<turn, asked, reply, verdict, count, talk, compacting, emitted>>
dispatcher == <<dpc, dev, dload>>
runs == <<rpc, cancelled, expected, hand, out, got, lost>>
compactions == <<compactSub, kpc, buffer, chClosed>>
waits == <<wpc, result, answer>>
vars == <<server, wire, dispatcher, closed, activeTurnID, inbox, turnMu,
          dropped, runs, compactions, waits>>

Started == "started"
Ends == {"completed", "failed"}
Event(kind, id) == [kind |-> kind, turn |-> id, n |-> count + 1]

Init ==
    /\ turn = None /\ asked = <<>> /\ wire = <<>> /\ count = 0 /\ talk = 0
    /\ reply = [r \in Runs |-> None]
    /\ verdict = [r \in Runs |-> None]
    /\ compacting = {} /\ emitted = {}
    /\ dpc = "receiving" /\ dev = None /\ dload = None
    /\ closed = FALSE /\ activeTurnID = None /\ inbox = <<>> /\ turnMu = None
    /\ dropped = {}
    /\ rpc = [r \in Runs |-> "idle"]
    /\ cancelled = {} /\ lost = {}
    /\ expected = [r \in Runs |-> None]
    /\ hand = [r \in Runs |-> None]
    /\ out = [r \in Runs |-> <<>>]
    /\ got = [r \in Runs |-> <<>>]
    /\ compactSub = None
    /\ kpc = [c \in Compactions |-> "idle"]
    /\ buffer = [c \in Compactions |-> None]
    /\ chClosed = {}
    /\ wpc = [w \in Waits |-> "idle"]
    /\ result = [w \in Waits |-> None]
    /\ answer = [w \in Waits |-> None]

-----------------------------------------------------------------------------
(* The app-server (external).                                               *)

Say(kind, id) ==
    /\ wire' = Append(wire, Event(kind, id))
    /\ count' = count + 1

serverOnly == <<dispatcher, closed, activeTurnID, inbox, turnMu, dropped, runs,
                compactions, waits>>

\* A turn/start is accepted, with or without the turn's id in the answer.
\* Client.Close, the only caller of markClosed, closes the demux before: a
\* request of a closed thread is never answered.
Accept ==
    /\ turn = None /\ asked # <<>> /\ ~closed
    /\ LET r == Head(asked) IN
          /\ \E a \in {"id", "blank"} : reply' = [reply EXCEPT ![r] = a]
          /\ turn' = r
          /\ Say(Started, r)
    /\ asked' = Tail(asked)
    /\ UNCHANGED <<verdict, talk, compacting, emitted, serverOnly>>

Reject ==
    /\ asked # <<>> /\ ~closed
    /\ reply' = [reply EXCEPT ![Head(asked)] = "error"]
    /\ asked' = Tail(asked)
    /\ UNCHANGED <<turn, verdict, wire, count, talk, compacting, emitted,
                   serverOnly>>

FinishTurn(kind) ==
    /\ turn # None
    /\ Say(kind, turn)
    /\ verdict' = [verdict EXCEPT ![turn] = kind]
    /\ turn' = None
    /\ UNCHANGED <<asked, reply, talk, compacting, emitted, serverOnly>>

\* An item of the running turn, or a notification outside every turn.
Talk ==
    /\ talk < MaxTalk
    /\ talk' = talk + 1
    /\ Say("item", turn)
    /\ UNCHANGED <<turn, asked, reply, verdict, compacting, emitted,
                   serverOnly>>

\* thread/compacted: of a compaction that was asked for.
EmitCompacted(c) ==
    /\ c \in compacting \ emitted
    /\ Say("compacted", c)
    /\ emitted' = emitted \cup {c}
    /\ UNCHANGED <<turn, asked, reply, verdict, talk, compacting, serverOnly>>

-----------------------------------------------------------------------------
(* Thread.Interrupt: one read of closed and activeTurnID, then a request    *)
(* that names that turn.  Thread.Steer reads the same and its request       *)
(* changes no state of the thread, so it is not an action.                  *)

HasActiveTurn == ~closed /\ activeTurnID # None

Interrupt ==
    /\ HasActiveTurn
    /\ turn = activeTurnID
    /\ FinishTurn("completed")

-----------------------------------------------------------------------------
(* deliverEvent, on the dispatcher, under the read lock of eventMu.         *)

threadOnly == <<server, turnMu, runs, waits>>

TrackStarted(ev) == IF ev.kind = Started THEN ev.turn ELSE activeTurnID

\* Receives a notification; a closed thread drops it.
Deliver ==
    /\ dpc = "receiving" /\ wire # <<>>
    /\ wire' = Tail(wire)
    /\ IF closed
       THEN UNCHANGED <<dispatcher, activeTurnID>>
       ELSE LET ev == Head(wire) IN
            /\ dev' = ev
            /\ activeTurnID' = TrackStarted(ev)
            /\ dpc' = CASE ev.kind \in Ends -> "clearing"
                        [] ev.kind = "compacted" -> "teeing"
                        [] OTHER -> "pushing"
            \* clearActiveTurnID loads before it stores
            /\ dload' = IF ev.kind \in Ends THEN activeTurnID ELSE None
    /\ UNCHANGED <<threadOnly, closed, inbox, dropped, compactions>>

\* clearActiveTurnID compares the id it loaded.
ClearActive ==
    /\ dpc = "clearing"
    /\ activeTurnID' = IF dload = dev.turn THEN None ELSE activeTurnID
    /\ dpc' = "pushing" /\ dload' = None
    /\ UNCHANGED <<threadOnly, wire, dev, closed, inbox, dropped, compactions>>

\* Loads the compaction subscription.  Mutant: only if the inbox has room.
TeesIfRoom == IF Len(inbox) < InboxSize THEN compactSub ELSE None
Tap == compactSub

LoadTap ==
    /\ dpc = "teeing"
    /\ dload' = Tap
    /\ dpc' = "pushing"
    /\ UNCHANGED <<threadOnly, wire, dev, closed, activeTurnID, inbox, dropped,
                   compactions>>

\* The two selects with a default: into the tap, then into the inbox.
\* Mutant: off by one at the inbox's limit.
RoomForOneMore == Len(inbox) <= InboxSize
HasRoom == Len(inbox) < InboxSize

Push ==
    /\ dpc = "pushing"
    /\ buffer' = IF dload # None /\ buffer[dload] = None
                 THEN [buffer EXCEPT ![dload] = dev] ELSE buffer
    /\ IF HasRoom
       THEN inbox' = Append(inbox, dev) /\ UNCHANGED dropped
       ELSE dropped' = dropped \cup {dev} /\ UNCHANGED inbox
    /\ dpc' = "receiving" /\ dev' = None /\ dload' = None
    /\ UNCHANGED <<threadOnly, wire, closed, activeTurnID, compactSub, kpc,
                   chClosed>>

\* markClosed, under the write lock.  Mutant: it does not lock.
ClosesAnyTime == TRUE
EventMuFree == dpc = "receiving"
\* Mutant: the pending subscription is removed but not closed.
SwapsOnly == {}
SubsToClose == {compactSub} \ {None}

MarkClosed ==
    /\ ~closed /\ EventMuFree
    /\ closed' = TRUE
    /\ compactSub' = None
    /\ chClosed' = chClosed \cup SubsToClose
    /\ UNCHANGED <<threadOnly, wire, dispatcher, activeTurnID, inbox, dropped,
                   kpc, buffer>>

-----------------------------------------------------------------------------
(* RunStreamed and streamLoop.                                              *)

runOnly == <<turn, verdict, count, talk, compacting, emitted, wire, dispatcher,
             closed, dropped, compactions, waits>>
RGoto(r, label) == rpc' = [rpc EXCEPT ![r] = label]

RunBegins(r) ==
    /\ rpc[r] = "idle"
    /\ RGoto(r, IF closed THEN "refused" ELSE "locking")
    /\ UNCHANGED <<runOnly, asked, reply, activeTurnID, inbox, turnMu,
                   cancelled, expected, hand, out, got, lost>>

\* turnMu.Lock, then turn/start is sent.  Mutant: no lock.
NeverWaits == TRUE
TurnMuFree == turnMu = None

RunSends(r) ==
    /\ rpc[r] = "locking" /\ TurnMuFree
    /\ turnMu' = r
    /\ asked' = Append(asked, r)
    /\ RGoto(r, "awaiting")
    /\ UNCHANGED <<runOnly, reply, activeTurnID, inbox, cancelled, expected,
                   hand, out, got, lost>>

\* The input is refused, the answer is an error, or Send gave up (its context
\* is done, the demux was closed): turnMu is released.
RunFails(r) ==
    /\ rpc[r] = "awaiting" \/ (rpc[r] = "locking" /\ TurnMuFree)
    /\ turnMu' = None
    /\ RGoto(r, "failed")
    /\ UNCHANGED <<runOnly, asked, reply, activeTurnID, inbox, cancelled,
                   expected, hand, out, got, lost>>

\* The answer arrives; the id it carries becomes the active turn.
RunStreams(r) ==
    /\ rpc[r] = "awaiting" /\ reply[r] \in {"id", "blank"}
    /\ IF reply[r] = "id"
       THEN activeTurnID' = r /\ expected' = [expected EXCEPT ![r] = r]
       ELSE UNCHANGED <<activeTurnID, expected>>
    /\ RGoto(r, "selecting")
    /\ UNCHANGED <<runOnly, asked, reply, inbox, turnMu, cancelled, hand, out,
                   got, lost>>

Take(r) ==
    /\ rpc[r] = "selecting" /\ inbox # <<>>
    /\ hand' = [hand EXCEPT ![r] = Head(inbox)]
    /\ inbox' = Tail(inbox)
    /\ RGoto(r, "forwarding")
    /\ UNCHANGED <<runOnly, asked, reply, activeTurnID, turnMu, cancelled,
                   expected, out, got, lost>>

\* isTurnTerminus.  Mutants: any terminus; a failed turn is none.
AnyTerminus(ev, id) == ev.kind \in Ends
OnlyCompleted(ev, id) == ev.kind = "completed" /\ id \in {None, ev.turn}
IsTurnTerminus(ev, id) == ev.kind \in Ends /\ id \in {None, ev.turn}

\* A blank answer is made up for by the first turn/started seen.
Learn(r) == IF expected[r] = None /\ hand[r].kind = Started
            THEN hand[r].turn ELSE expected[r]

\* out[r] is what the caller has not read, got[r] all that was forwarded.
Forward(r) ==
    /\ rpc[r] = "forwarding" /\ Len(out[r]) < OutSize
    /\ out' = [out EXCEPT ![r] = Append(@, hand[r])]
    /\ got' = [got EXCEPT ![r] = Append(@, hand[r])]
    /\ expected' = [expected EXCEPT ![r] = Learn(r)]
    /\ hand' = [hand EXCEPT ![r] = None]
    /\ IF IsTurnTerminus(hand[r], Learn(r))
       THEN RGoto(r, "ended") /\ turnMu' = None
       ELSE RGoto(r, "selecting") /\ UNCHANGED turnMu
    /\ UNCHANGED <<runOnly, asked, reply, activeTurnID, inbox, cancelled, lost>>

\* ctx.Done or the thread's done: the event in hand goes with the stream.
StreamOver(r) == r \in cancelled \/ closed

Abandon(r) ==
    /\ rpc[r] \in {"selecting", "forwarding"} /\ StreamOver(r)
    /\ lost' = IF hand[r] = None THEN lost ELSE lost \cup {hand[r]}
    /\ hand' = [hand EXCEPT ![r] = None]
    /\ RGoto(r, "ended") /\ turnMu' = None
    /\ UNCHANGED <<runOnly, asked, reply, activeTurnID, inbox, cancelled,
                   expected, out, got>>

\* The caller reads its channel, until it stops caring, and may cancel.
ReadNext(r) ==
    /\ out[r] # <<>>
    /\ out' = [out EXCEPT ![r] = Tail(@)]
    /\ UNCHANGED <<runOnly, asked, reply, activeTurnID, inbox, turnMu, rpc,
                   cancelled, expected, hand, got, lost>>

Cancel(r) ==
    /\ rpc[r] \in {"awaiting", "selecting", "forwarding"} /\ r \notin cancelled
    /\ cancelled' = cancelled \cup {r}
    /\ UNCHANGED <<runOnly, asked, reply, activeTurnID, inbox, turnMu, rpc,
                   expected, hand, out, got, lost>>

StreamStep(r) == Take(r) \/ Forward(r) \/ Abandon(r)

-----------------------------------------------------------------------------
(* Compact and CompactResult.Wait.                                          *)

compactOnly == <<turn, asked, reply, verdict, count, talk, emitted, wire,
                 dispatcher, closed, activeTurnID, inbox, turnMu, dropped, runs,
                 chClosed>>
KGoto(c, label) == kpc' = [kpc EXCEPT ![c] = label]

CompactBegins(c) ==
    /\ kpc[c] = "idle"
    /\ KGoto(c, IF closed THEN "refused" ELSE "installing")
    /\ UNCHANGED <<compactOnly, waits, compacting, compactSub, buffer>>

\* CompareAndSwap(nil, chPtr).
Install(c) ==
    /\ kpc[c] = "installing"
    /\ IF compactSub = None
       THEN compactSub' = c /\ KGoto(c, "asking")
       ELSE KGoto(c, "busy") /\ UNCHANGED compactSub
    /\ UNCHANGED <<compactOnly, waits, compacting, buffer>>

Ask(c) ==
    /\ kpc[c] = "asking" /\ ~closed
    /\ compacting' = compacting \cup {c}
    /\ KGoto(c, "awaiting")
    /\ UNCHANGED <<compactOnly, waits, compactSub, buffer>>

Acknowledged(c) ==
    /\ kpc[c] = "awaiting"
    /\ KGoto(c, "ready")
    /\ UNCHANGED <<compactOnly, waits, compacting, compactSub, buffer>>

\* CompareAndSwap(chPtr, nil).
Detached(c) == IF compactSub = c THEN None ELSE compactSub

CompactFails(c) ==
    /\ kpc[c] \in {"asking", "awaiting"}
    /\ compactSub' = Detached(c)
    /\ KGoto(c, "failed")
    /\ UNCHANGED <<compactOnly, waits, compacting, buffer>>

WGoto(w, label) == wpc' = [wpc EXCEPT ![w] = label]

WaitBegins(w) ==
    /\ wpc[w] = "idle"
    /\ \E c \in Compactions :
          /\ kpc[c] = "ready"
          /\ result' = [result EXCEPT ![w] = c]
    /\ WGoto(w, "waiting")
    /\ UNCHANGED <<compactOnly, compacting, compactSub, kpc, buffer, answer>>

WaitGets(w) ==
    /\ wpc[w] = "waiting" /\ buffer[result[w]] # None
    /\ answer' = [answer EXCEPT ![w] = buffer[result[w]]]
    /\ buffer' = [buffer EXCEPT ![result[w]] = None]
    /\ WGoto(w, "detaching")
    /\ UNCHANGED <<compactOnly, compacting, compactSub, kpc, result>>

\* The channel was closed with the thread and is empty.
WaitClosed(w) ==
    /\ wpc[w] = "waiting"
    /\ result[w] \in chClosed /\ buffer[result[w]] = None
    /\ WGoto(w, "detaching")
    /\ UNCHANGED <<compactOnly, compacting, compactSub, kpc, buffer, result,
                   answer>>

\* The context given to Wait is done.
WaitExpires(w) ==
    /\ wpc[w] = "waiting"
    /\ WGoto(w, "detaching")
    /\ UNCHANGED <<compactOnly, compacting, compactSub, kpc, buffer, result,
                   answer>>

Detach(w) ==
    /\ wpc[w] = "detaching"
    /\ compactSub' = Detached(result[w])
    /\ WGoto(w, "returned")
    /\ UNCHANGED <<compactOnly, compacting, kpc, buffer, result, answer>>

WaitStep(w) == WaitGets(w) \/ WaitClosed(w) \/ Detach(w)

-----------------------------------------------------------------------------
ServerStep ==
    \/ Accept \/ Reject \/ Talk
    \/ \E k \in Ends : FinishTurn(k)
    \/ \E c \in Compactions : EmitCompacted(c)
DispatcherStep == Deliver \/ ClearActive \/ LoadTap \/ Push
RunStep(r) == RunBegins(r) \/ RunSends(r) \/ RunFails(r) \/ RunStreams(r)
              \/ StreamStep(r) \/ ReadNext(r) \/ Cancel(r)
CompactStep(c) == CompactBegins(c) \/ Install(c) \/ Ask(c) \/ Acknowledged(c)
                  \/ CompactFails(c)

Next ==
    \/ ServerStep \/ Interrupt \/ DispatcherStep \/ MarkClosed
    \/ \E r \in Runs : RunStep(r)
    \/ \E c \in Compactions : CompactStep(c)
    \/ \E w \in Waits : WaitBegins(w) \/ WaitStep(w) \/ WaitExpires(w)

\* The SDK's goroutines run; a closed client's Send returns (Demux proves it
\* of the demux that Client.Close closes first).
Fairness ==
    /\ WF_vars(DispatcherStep)
    /\ \A r \in Runs : /\ WF_vars(StreamStep(r))
                       /\ WF_vars(RunSends(r))
                       /\ WF_vars(RunStreams(r))
                       /\ WF_vars((closed \/ reply[r] = "error") /\ RunFails(r))
    /\ \A c \in Compactions : /\ WF_vars(Install(c))
                              /\ WF_vars(closed /\ CompactFails(c))
    /\ \A w \in Waits : WF_vars(WaitStep(w))

Spec == Init /\ [][Next]_vars /\ Fairness

\* The caller reads to the end and the server finishes every turn.
Cooperation ==
    /\ \A r \in Runs : WF_vars(ReadNext(r))
    /\ WF_vars(Accept)
    /\ WF_vars(\E k \in Ends : FinishTurn(k))
-----------------------------------------------------------------------------
(* Properties                                                               *)

Turns == Runs \cup {None}
Events == [kind : Ends \cup {Started, "item", "compacted"},
           turn : Turns \cup Compactions, n : Nat]
MaybeEvents == Events \cup {None}
ASSUME EventAssumption == None \notin Events

\* Type invariant of the thread.
TypeOK ==
    /\ turn \in Turns /\ asked \in Seq(Runs) /\ wire \in Seq(Events)
    /\ reply \in [Runs -> {None, "id", "blank", "error"}]
    /\ verdict \in [Runs -> Ends \cup {None}]
    /\ count \in Nat /\ talk \in 0 .. MaxTalk
    /\ emitted \subseteq compacting /\ compacting \subseteq Compactions
    /\ dpc \in {"receiving", "clearing", "teeing", "pushing"}
    /\ dev \in MaybeEvents /\ dload \in Turns \cup Compactions
    /\ closed \in BOOLEAN /\ activeTurnID \in Turns /\ turnMu \in Turns
    /\ inbox \in Seq(Events) /\ Len(inbox) <= InboxSize
    /\ rpc \in [Runs -> {"idle", "refused", "locking", "awaiting", "failed",
                         "selecting", "forwarding", "ended"}]
    /\ cancelled \subseteq Runs /\ expected \in [Runs -> Turns]
    /\ hand \in [Runs -> MaybeEvents]
    /\ out \in [Runs -> Seq(Events)] /\ got \in [Runs -> Seq(Events)]
    /\ \A r \in Runs : Len(out[r]) <= OutSize
    /\ dropped \subseteq Events /\ lost \subseteq Events
    /\ compactSub \in Compactions \cup {None} /\ chClosed \subseteq Compactions
    /\ kpc \in [Compactions -> {"idle", "refused", "installing", "busy",
                                "asking", "awaiting", "ready", "failed"}]
    /\ buffer \in [Compactions -> MaybeEvents]
    /\ wpc \in [Waits -> {"idle", "waiting", "detaching", "returned"}]
    /\ result \in [Waits -> Compactions \cup {None}]
    /\ answer \in [Waits -> MaybeEvents]

\* A stream that knew its turn's id, was not cancelled and whose thread is
\* open ends exactly at its own turn's end, whatever earlier turns left in the
\* inbox ("until TurnCompleted or TurnFailed matches", threads.go:225-227).
EndsWithItsTurn ==
    \A r \in Runs :
        /\ rpc[r] = "ended" /\ reply[r] = "id"
        /\ r \notin cancelled /\ ~closed
        => LET last == got[r][Len(got[r])] IN
           /\ last.kind = verdict[r] /\ last.turn = r
           /\ \A i \in 1 .. Len(got[r]) - 1 :
                 ~(got[r][i].kind \in Ends /\ got[r][i].turn = r)

\* Nothing disappears silently from the stream of one run: between its first
\* and last event the only notifications missing are those the full inbox
\* dropped.
GapsAreDrops ==
    \A r \in Runs : got[r] # <<>> =>
        \A n \in got[r][1].n .. got[r][Len(got[r])].n :
            \/ \E i \in DOMAIN got[r] : got[r][i].n = n
            \/ \E ev \in dropped : ev.n = n

\* deliverEvent never sends on a channel markClosed has closed (a panic).
NoSendOnClosed == dpc = "pushing" /\ dload # None => dload \notin chClosed

\* "The subscription is installed BEFORE the RPC is sent so the notification
\* can never arrive before the receiver is ready" (compact_result.go:22-23):
\* once the dispatcher has handled it, the subscription holds a notification, or
\* a Wait on that result is over.  Which compaction the notification is of,
\* WaitMatches is about.
NotificationIsKept ==
    \A c \in emitted :
        /\ ~\E i \in DOMAIN wire : wire[i].turn = c
        /\ dev = None \/ dev.turn # c
        /\ kpc[c] \in {"awaiting", "ready"} /\ ~closed
        => \/ buffer[c] # None
           \/ \E w \in Waits : result[w] = c
                              /\ wpc[w] \in {"detaching", "returned"}

\* Closing the thread ends every run, even one whose caller does not read, and
\* every Wait, unless another Wait on the same result has detached it already:
\* then only its context can.
Alone(w) == \A v \in Waits \ {w} : result[v] # result[w]
CloseReleases ==
    []<>(closed => /\ \A r \in Runs :
                         rpc[r] \in {"idle", "refused", "failed", "ended"}
                   /\ \A w \in Waits :
                         Alone(w) => wpc[w] \in {"idle", "returned"})

\* With a caller that reads and a server that finishes its turns, a stream
\* ends by itself, unless the inbox overflowed.
StreamsFinish ==
    Cooperation =>
        []<>(dropped = {} => \A r \in Runs : rpc[r] # "selecting")

\* Nobody waits for ever on a thread.  Each call is made once, so that all of
\* them end if again and again none is waiting.
WaitingEnds == CloseReleases /\ StreamsFinish

-----------------------------------------------------------------------------
(* What the repository says of the thread and the code does not do.         *)

\* "ErrNoActiveTurn is returned by Thread.Interrupt when no turn is currently
\* running" (threads.go:22-23): with everything quiet, no turn is active.
QuietMeansNoActiveTurn ==
    /\ turn = None /\ asked = <<>> /\ wire = <<>> /\ dpc = "receiving"
    /\ \A r \in Runs : rpc[r] \in {"idle", "failed", "ended"}
    /\ ~closed
    => activeTurnID = None

\* "Interrupt cancels the currently-running turn (if any)" (threads.go:146):
\* a run whose answer named the turn the server is running can interrupt it.
StreamCanInterrupt ==
    \A r \in Runs :
        rpc[r] = "selecting" /\ reply[r] = "id" /\ turn = r => activeTurnID # None

\* The inbox is full "only if the caller stalls consuming the channel"
\* (threads.go:88): a drop implies a stream whose reader is behind.
DropsOnlyWhenStalled ==
    [][dropped' # dropped => \E r \in Runs : Len(out[r]) = OutSize]_vars

\* "It blocks until the turn completes (or fails / the context is canceled)"
\* (threads.go:298-299): the failure Run returns is that of its own turn.
RunFailsWithItsTurn ==
    \A r \in Runs : \A i \in 1 .. Len(got[r]) - Len(out[r]) :
        reply[r] = "id" /\ got[r][i].kind = "failed" => got[r][i].turn = r

\* "Wait blocks until the matching thread/compacted notification arrives"
\* (compact_result.go:34).
WaitMatches ==
    \A w \in Waits : answer[w] # None => answer[w].turn = result[w]

\* "Wait is idempotent: subsequent calls return the same event ... cached"
\* (compact_result.go:38-39): a later Wait is not left with nothing to wait for.
WaitIsIdempotent ==
    \A v, w \in Waits :
        /\ result[v] # None /\ result[w] = result[v]
        /\ wpc[v] = "returned" /\ answer[v] # None /\ wpc[w] = "waiting"
        => buffer[result[w]] # None \/ compactSub = result[w]
=============================================================================
