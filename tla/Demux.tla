-------------------------------- MODULE Demux --------------------------------
(****************************************************************************)
(* internal/jsonrpc: the request/response multiplexer that sits on the pipes *)
(* of one `codex app-server` process.                                       *)
(*                                                                          *)
(* Actors: any number of goroutines inside Demux.Send (Calls), the read     *)
(* loop goroutine, the goroutine that runs Demux.Close, the consumer of the *)
(* ordered server-message channel, and the app-server process at the far    *)
(* end of the pipes (external).                                             *)
(*                                                                          *)
(* The inbound pipe is `wire`, everything the server ever wrote, with       *)
(* readPos lines of it read; the channel serverMessages is `delivered`,     *)
(* everything ever put into it, with `taken` messages received from it.     *)
(****************************************************************************)
EXTENDS Naturals, Sequences, FiniteSets

CONSTANTS
    Calls,          \* invocations of Demux.Send
    NoCall,         \* no call: an empty slot
    LineKinds,      \* what the server may write besides answers
    QueueCap,       \* capacity of serverMessages (64 in the code)
    MaxParseErrors, \* consecutive decode failures before the loop gives up
    MaxId,          \* bound: requests numbered
    MaxLines        \* bound: lines written by the server

Damaged == {"malformed", "unclassifiable"}
Messages == {"notification", "request"}
AllKinds == Damaged \cup Messages \cup {"blank", "unreadable"}

ASSUME CallsAssumption == NoCall \notin Calls
ASSUME KindsAssumption == LineKinds \subseteq AllKinds
ASSUME BoundsAssumption ==
    /\ QueueCap \in Nat \ {0}
    /\ MaxParseErrors \in Nat \ {0}
    /\ MaxId \in Nat
    /\ MaxLines \in Nat

VARIABLES
    lastId,      \* IDAllocator.n
    pc,          \* where each Send stands
    id,          \* the id each Send took, 0 before
    outcome,     \* how each Send ended
    answer,      \* whose answer a successful Send returned
    pending,     \* Demux.pending: id -> the Send that owns the channel
    chan,        \* each Send's one-slot response channel
    closing,     \* progress of Demux.Close
    asked,       \* requests the server has received and not answered
    alive,       \* the server process runs
    wire,        \* lines written by the server
    readPos,     \* lines of it the read loop has read
    loop,        \* where the read loop stands
    hand,        \* the message or answer the loop is about to hand over
    consecutive, \* consecutiveParseErrors
    gapQueued,   \* a marker already covers the current run of damage
    exitErr,     \* the error readLoop will exit with
    killed,      \* onUnrecoverable calls
    delivered,   \* everything ever put into serverMessages
    taken,       \* how many of them the consumer has received
    loopErr      \* contents of the loopErr channel

sendVars == <<lastId, pc, id, outcome, answer>>
loopVars == <<loop, hand, consecutive, gapQueued, exitErr, killed, loopErr>>
vars == <<lastId, pc, id, outcome, answer, pending, chan, closing, asked,
          alive, wire, readPos, loop, hand, consecutive, gapQueued, exitErr,
          killed, delivered, taken, loopErr>>

Ids == 1..MaxId
MaybeCall == Calls \cup {NoCall}
Answer(c, i) == [kind |-> "response", id |-> i, from |-> c]
Line(k) == [kind |-> k, id |-> 0, from |-> NoCall]
Message(k, n) == [kind |-> k, at |-> n]
Lines == {Line(k) : k \in AllKinds}
         \cup {Answer(c, i) : c \in Calls, i \in Ids}
ServerMessage == [kind : Messages \cup {"gap"}, at : Nat]

\* What the read loop holds while it waits to hand it over.
NoHand == [target |-> NoCall, from |-> NoCall, kind |-> "none", at |-> 0]
AnswerHand(t, c) == [NoHand EXCEPT !.target = t, !.from = c]
MessageHand(k, n) == [NoHand EXCEPT !.kind = k, !.at = n]

Closed == closing # "open"
Stopped == closing = "stopped"
WriterClosed == closing \in {"writerClosed", "stopped"}
QueueLen == Len(delivered) - taken

Init ==
    /\ lastId = 0
    /\ pc = [c \in Calls |-> "idle"]
    /\ id = [c \in Calls |-> 0]
    /\ outcome = [c \in Calls |-> "none"]
    /\ answer = [c \in Calls |-> NoCall]
    /\ pending = [i \in Ids |-> NoCall]
    /\ chan = [c \in Calls |-> NoCall]
    /\ closing = "open"
    /\ asked = {}
    /\ alive = TRUE
    /\ wire = <<>>
    /\ readPos = 0
    /\ loop = "reading"
    /\ hand = NoHand
    /\ consecutive = 0
    /\ gapQueued = FALSE
    /\ exitErr = "nil"
    /\ killed = 0
    /\ delivered = <<>>
    /\ taken = 0
    /\ loopErr = <<>>

-----------------------------------------------------------------------------
(* Demux.Send                                                               *)

\* IDAllocator.Next: an atomic increment, the first id is 1.
\* Mutants: a reset that hands id 1 out again; the value before the increment.
NextIdRestarts == 1
NextIdBehind == lastId
NextId == lastId + 1

SendNumber(c) ==
    /\ pc[c] = "idle"
    /\ lastId < MaxId
    /\ lastId' = NextId
    /\ id' = [id EXCEPT ![c] = NextId]
    /\ pc' = [pc EXCEPT ![c] = "numbered"]
    /\ UNCHANGED <<outcome, answer, pending, chan, closing, asked, alive, wire,
                   readPos, loopVars, delivered, taken>>

\* Under d.mu: refuse when closed, otherwise enter the pending table.
\* Mutant: the closed check is dropped.
NeverRefused == FALSE
Refused == Closed

SendRegister(c) ==
    /\ pc[c] = "numbered"
    /\ \/ /\ Refused
          /\ pc' = [pc EXCEPT ![c] = "returned"]
          /\ outcome' = [outcome EXCEPT ![c] = "closed"]
          /\ UNCHANGED pending
       \/ /\ ~Refused
          /\ pc' = [pc EXCEPT ![c] = "registered"]
          /\ pending' = [pending EXCEPT ![id[c]] = c]
          /\ UNCHANGED outcome
    /\ UNCHANGED <<lastId, id, answer, chan, closing, asked, alive, wire,
                   readPos, loopVars, delivered, taken>>

\* LineWriter.WriteFrame: the request reaches the server, or the pipe is
\* closed at this end or at the other.
SendWrite(c) ==
    /\ pc[c] = "registered"
    /\ \/ /\ ~WriterClosed /\ alive
          /\ asked' = asked \cup {c}
          /\ pc' = [pc EXCEPT ![c] = "waiting"]
          /\ UNCHANGED outcome
       \/ /\ WriterClosed \/ ~alive
          /\ pc' = [pc EXCEPT ![c] = "detaching"]
          /\ outcome' = [outcome EXCEPT ![c] = "writeFailed"]
          /\ UNCHANGED asked
    /\ UNCHANGED <<lastId, id, answer, pending, chan, closing, alive, wire,
                   readPos, loopVars, delivered, taken>>

\* The final select of Send: a response, a cancelled context, or the demux
\* stopped; any ready branch may win.
SendReceive(c) ==
    /\ pc[c] = "waiting"
    /\ chan[c] # NoCall
    /\ answer' = [answer EXCEPT ![c] = chan[c]]
    /\ chan' = [chan EXCEPT ![c] = NoCall]
    /\ outcome' = [outcome EXCEPT ![c] = "response"]
    /\ pc' = [pc EXCEPT ![c] = "detaching"]
    /\ UNCHANGED <<lastId, id, pending, closing, asked, alive, wire, readPos,
                   loopVars, delivered, taken>>

SendCancel(c) ==
    /\ pc[c] = "waiting"
    /\ outcome' = [outcome EXCEPT ![c] = "cancelled"]
    /\ pc' = [pc EXCEPT ![c] = "detaching"]
    /\ UNCHANGED <<lastId, id, answer, pending, chan, closing, asked, alive,
                   wire, readPos, loopVars, delivered, taken>>

\* Mutant: the select has no d.stopped branch.
SendMissesStop(c) == FALSE /\ UNCHANGED vars

SendStopped(c) ==
    /\ pc[c] = "waiting"
    /\ Stopped
    /\ outcome' = [outcome EXCEPT ![c] = "closed"]
    /\ pc' = [pc EXCEPT ![c] = "detaching"]
    /\ UNCHANGED <<lastId, id, answer, pending, chan, closing, asked, alive,
                   wire, readPos, loopVars, delivered, taken>>

\* The deferred delete(d.pending, id), then the return.
\* Mutant: it deletes the entry of the newest request.
NewestId(c) == lastId
OwnId(c) == id[c]

SendDetach(c) ==
    /\ pc[c] = "detaching"
    /\ pending' = [pending EXCEPT ![OwnId(c)] = NoCall]
    /\ pc' = [pc EXCEPT ![c] = "returned"]
    /\ UNCHANGED <<lastId, id, outcome, answer, chan, closing, asked, alive,
                   wire, readPos, loopVars, delivered, taken>>

-----------------------------------------------------------------------------
(* Demux.Close: stopOnce lets one goroutine through these three steps.      *)

CloseDrop ==
    /\ closing = "open"
    /\ closing' = "dropped"
    /\ pending' = [i \in Ids |-> NoCall]
    /\ UNCHANGED <<sendVars, chan, asked, alive, wire, readPos, loopVars,
                   delivered, taken>>

CloseWriter ==
    /\ closing = "dropped"
    /\ closing' = "writerClosed"
    /\ UNCHANGED <<sendVars, pending, chan, asked, alive, wire, readPos,
                   loopVars, delivered, taken>>

CloseStop ==
    /\ closing = "writerClosed"
    /\ closing' = "stopped"
    /\ UNCHANGED <<sendVars, pending, chan, asked, alive, wire, readPos,
                   loopVars, delivered, taken>>

-----------------------------------------------------------------------------
(* readLoop                                                                 *)

apartFromLoop == <<sendVars, pending, chan, closing, asked, alive, wire,
                   taken>>

\* ReadLine returned a line of one of the given kinds.
ReadOneOf(kinds) ==
    /\ loop = "reading"
    /\ readPos < Len(wire)
    /\ wire[readPos + 1].kind \in kinds
    /\ readPos' = readPos + 1

\* io.EOF: everything written was read and no writer is left.
LoopEOF ==
    /\ loop = "reading"
    /\ readPos = Len(wire)
    /\ ~alive
    /\ loop' = "exiting"
    /\ UNCHANGED <<apartFromLoop, readPos, hand, consecutive, gapQueued,
                   exitErr, killed, delivered, loopErr>>

\* A read error, a line over the buffer ceiling: the loop ends with it.
LoopReadError ==
    /\ ReadOneOf({"unreadable"})
    /\ loop' = "exiting"
    /\ exitErr' = "read"
    /\ UNCHANGED <<apartFromLoop, hand, consecutive, gapQueued, killed,
                   delivered, loopErr>>

LoopBlank ==
    /\ ReadOneOf({"blank"})
    /\ UNCHANGED <<apartFromLoop, loopVars, delivered>>

\* recordParseFailure.  Mutant: one failure too many is tolerated.
GivesUpLate(n) == n > MaxParseErrors
GivesUp(n) == n >= MaxParseErrors

\* handleDecodeFailure with recordParseFailure inlined: count, give up at the
\* threshold (the kill precedes the marker), one marker per damaged run.
LoopMalformed ==
    /\ ReadOneOf({"malformed"})
    /\ consecutive' = consecutive + 1
    /\ LET givesUp == GivesUp(consecutive + 1)
       IN  /\ killed' = IF givesUp THEN killed + 1 ELSE killed
           /\ exitErr' = IF givesUp THEN "giveUp" ELSE exitErr
           /\ IF gapQueued
              THEN /\ loop' = IF givesUp THEN "exiting" ELSE "reading"
                   /\ UNCHANGED hand
              ELSE /\ loop' = "delivering"
                   /\ hand' = MessageHand("gap", readPos + 1)
    /\ gapQueued' = TRUE
    /\ UNCHANGED <<apartFromLoop, delivered, loopErr>>

\* What classifyAndRoute returns as nextGapQueued.  Mutant: the flag is kept
\* by a routed frame.
GapStays(kind) == gapQueued
NextGapQueued(kind) == kind = "unclassifiable"

\* The default branch of classifyAndRoute.
LoopUnclassifiable ==
    /\ ReadOneOf({"unclassifiable"})
    /\ consecutive' = 0
    /\ IF gapQueued
       THEN UNCHANGED <<loop, hand>>
       ELSE /\ loop' = "delivering"
            /\ hand' = MessageHand("gap", readPos + 1)
    /\ gapQueued' = NextGapQueued("unclassifiable")
    /\ UNCHANGED <<apartFromLoop, exitErr, killed, delivered, loopErr>>

\* A notification or a server request goes to the ordered channel.
LoopMessage ==
    /\ ReadOneOf(Messages)
    /\ consecutive' = 0
    /\ gapQueued' = NextGapQueued(wire[readPos + 1].kind)
    /\ loop' = "delivering"
    /\ hand' = MessageHand(wire[readPos + 1].kind, readPos + 1)
    /\ UNCHANGED <<apartFromLoop, exitErr, killed, delivered, loopErr>>

\* A response: the channel is looked up under d.mu and written after unlock.
LoopResponse ==
    /\ ReadOneOf({"response"})
    /\ consecutive' = 0
    /\ gapQueued' = NextGapQueued("response")
    /\ LET line == wire[readPos + 1]
       IN  IF pending[line.id] = NoCall
           THEN UNCHANGED <<loop, hand>>
           ELSE /\ loop' = "answering"
                /\ hand' = AnswerHand(pending[line.id], line.from)
    /\ UNCHANGED <<apartFromLoop, exitErr, killed, delivered, loopErr>>

\* ch <- resp: waits while the one slot is taken.
LoopAnswer ==
    /\ loop = "answering"
    /\ chan[hand.target] = NoCall
    /\ chan' = [chan EXCEPT ![hand.target] = hand.from]
    /\ loop' = "reading"
    /\ hand' = NoHand
    /\ UNCHANGED <<sendVars, pending, closing, asked, alive, wire, readPos,
                   consecutive, gapQueued, exitErr, killed, delivered, taken,
                   loopErr>>

\* deliverServerMessage: the send won the select; a full channel is waited
\* for.
DeliverInOrder ==
    /\ QueueLen < QueueCap
    /\ delivered' = Append(delivered, Message(hand.kind, hand.at))

LoopDeliver ==
    /\ loop = "delivering"
    /\ DeliverInOrder
    /\ loop' = IF exitErr = "nil" THEN "reading" ELSE "exiting"
    /\ hand' = NoHand
    /\ UNCHANGED <<apartFromLoop, readPos, consecutive, gapQueued, exitErr,
                   killed, loopErr>>

\* deliverServerMessage: <-d.stopped won, the loop exits with a nil error
\* even when it was giving up.
LoopAbandon ==
    /\ loop = "delivering"
    /\ Stopped
    /\ loop' = "exiting"
    /\ hand' = NoHand
    /\ exitErr' = "nil"
    /\ UNCHANGED <<apartFromLoop, readPos, consecutive, gapQueued, killed,
                   delivered, loopErr>>

\* The deferred exit: first the error, then the channels are closed.
LoopReport ==
    /\ loop = "exiting"
    /\ loopErr = <<>>
    /\ loopErr' = <<exitErr>>
    /\ loop' = "closing"
    /\ UNCHANGED <<apartFromLoop, readPos, hand, consecutive, gapQueued,
                   exitErr, killed, delivered>>

LoopCloseChannels ==
    /\ loop = "closing"
    /\ loop' = "exited"
    /\ UNCHANGED <<apartFromLoop, readPos, hand, consecutive, gapQueued,
                   exitErr, killed, delivered, loopErr>>

LoopStep ==
    \/ LoopEOF \/ LoopReadError \/ LoopBlank \/ LoopMalformed
    \/ LoopUnclassifiable \/ LoopMessage \/ LoopResponse \/ LoopAnswer
    \/ LoopDeliver \/ LoopAbandon \/ LoopReport \/ LoopCloseChannels

-----------------------------------------------------------------------------
(* The consumer of serverMessages, and the server process (external).       *)

Take ==
    /\ QueueLen > 0
    /\ taken' = taken + 1
    /\ UNCHANGED <<sendVars, pending, chan, closing, asked, alive, wire,
                   readPos, loopVars, delivered>>

\* The server answers each request it received at most once, in any order.
ServerAnswer(c) ==
    /\ alive
    /\ c \in asked
    /\ Len(wire) < MaxLines
    /\ wire' = Append(wire, Answer(c, id[c]))
    /\ asked' = asked \ {c}
    /\ UNCHANGED <<sendVars, pending, chan, closing, alive, readPos, loopVars,
                   delivered, taken>>

ServerEmit ==
    /\ alive
    /\ Len(wire) < MaxLines
    /\ \E k \in LineKinds : wire' = Append(wire, Line(k))
    /\ UNCHANGED <<sendVars, pending, chan, closing, asked, alive, readPos,
                   loopVars, delivered, taken>>

\* The process ends: on its own, on stdin EOF, or killed by the transport.
ServerExit ==
    /\ alive
    /\ alive' = FALSE
    /\ UNCHANGED <<sendVars, pending, chan, closing, asked, wire, readPos,
                   loopVars, delivered, taken>>

-----------------------------------------------------------------------------
SendStep(c) ==
    \/ SendNumber(c) \/ SendRegister(c) \/ SendWrite(c) \/ SendReceive(c)
    \/ SendCancel(c) \/ SendStopped(c) \/ SendDetach(c)

\* Everybody has finished and nothing is left to read: a legal end.
Quiet ==
    /\ loop = "exited" /\ closing = "stopped" /\ QueueLen = 0
    /\ UNCHANGED vars

Next ==
    \/ \E c \in Calls : SendStep(c) \/ ServerAnswer(c)
    \/ CloseDrop \/ CloseWriter \/ CloseStop
    \/ LoopStep
    \/ Take \/ ServerEmit \/ ServerExit
    \/ Quiet

\* Dispatcher composes this with the goroutines that use it, and adds their
\* fairness.
Spec == Init /\ [][Next]_vars
-----------------------------------------------------------------------------
(* Properties                                                               *)

\* Type invariant of the demux and its environment, in three parts: the
\* Sends, the pipes and channels, the read loop.
SendTypeOK ==
    /\ lastId \in 0..MaxId
    /\ pc \in [Calls -> {"idle", "numbered", "registered", "waiting",
                        "detaching", "returned"}]
    /\ id \in [Calls -> 0..MaxId]
    /\ \A c \in Calls : id[c] = 0 <=> pc[c] = "idle"
    /\ outcome \in [Calls -> {"none", "response", "cancelled", "closed",
                             "writeFailed"}]
    /\ answer \in [Calls -> MaybeCall]
    /\ pending \in [Ids -> MaybeCall]
    /\ chan \in [Calls -> MaybeCall]
    /\ asked \subseteq {c \in Calls : id[c] # 0}

PipeTypeOK ==
    /\ closing \in {"open", "dropped", "writerClosed", "stopped"}
    /\ alive \in BOOLEAN
    /\ wire \in Seq(Lines)
    /\ readPos \in 0..Len(wire)
    /\ delivered \in Seq(ServerMessage)
    /\ taken \in 0..Len(delivered)

LoopTypeOK ==
    /\ loop \in {"reading", "answering", "delivering", "exiting", "closing",
                 "exited"}
    /\ hand \in [target : MaybeCall, from : MaybeCall,
                 kind : Messages \cup {"gap", "none"}, at : Nat]
    /\ loop = "delivering" => hand.kind # "none"
    /\ consecutive \in Nat
    /\ gapQueued \in BOOLEAN
    /\ exitErr \in {"nil", "read", "giveUp"}
    /\ killed \in Nat
    /\ loopErr \in Seq({"nil", "read", "giveUp"})

TypeOK == SendTypeOK /\ PipeTypeOK /\ LoopTypeOK

\* A Send that returns a response returns the one the server gave to its own
\* request (ids are unique, the pending table routes by id).
OwnAnswer == \A c \in Calls : outcome[c] = "response" => answer[c] = c

\* `ch <- resp` in classifyAndRoute finds the slot free: with a server that
\* answers once, the comment "this never blocks" (demux.go:425) is right even
\* when the Send has already given up.
AnswerNeverBlocks == loop = "answering" => chan[hand.target] = NoCall

\* While the demux is open, an answer the loop has read is not lost between
\* the table lookup, the unlock and the channel of a Send still waiting.
Answered(c) ==
    \E n \in 1..readPos : wire[n].kind = "response" /\ wire[n].from = c
AnswerNotLost ==
    \A c \in Calls :
        pc[c] = "waiting" /\ ~Closed /\ Answered(c) =>
            chan[c] = c \/ (loop = "answering" /\ hand.target = c)

\* The pending table never leaks: an entry belongs to a Send still in its
\* call, and none survives or follows the sweep of Close.
PendingIsLive ==
    \A i \in Ids :
        pending[i] # NoCall =>
            /\ ~Closed
            /\ id[pending[i]] = i
            /\ pc[pending[i]] \in {"registered", "waiting", "detaching"}

\* What the loop delivered, with the message in its hand.
Handed == IF loop = "delivering"
          THEN Append(delivered, Message(hand.kind, hand.at)) ELSE delivered

\* Until Close, the consumer's channel carries every message line in the
\* order the server wrote them, each once.
MessagesInOrder ==
    /\ \A j, k \in DOMAIN Handed : j < k => Handed[j].at < Handed[k].at
    /\ ~Stopped => \A n \in 1..readPos :
          wire[n].kind \in Messages =>
              \E k \in DOMAIN Handed : Handed[k] = Message(wire[n].kind, n)

\* No damage is silent: a line that could not be decoded or classified is
\* covered by a gap marker that precedes every later message
\* (handleDecodeFailure, the default branch of classifyAndRoute).
DamageIsVisible ==
    ~Stopped => \A n \in 1..readPos :
        wire[n].kind \in Damaged =>
            \E k \in DOMAIN Handed :
                /\ Handed[k].kind = "gap" /\ Handed[k].at <= n
                /\ \A j \in DOMAIN Handed : j > k => Handed[j].at > n

\* Coalescing: between two markers the server wrote something routable, so
\* a run of damage cannot fill the queue before Connect has a dispatcher.
OneMarkerPerRun ==
    \A j, k \in DOMAIN Handed :
        j < k /\ Handed[j].kind = "gap" /\ Handed[k].kind = "gap" =>
            \E n \in Handed[j].at..Handed[k].at :
                wire[n].kind \in Messages \cup {"response"}

\* The stream the consumer sees is faithful, damage and coalescing included.
FaithfulStream == MessagesInOrder /\ DamageIsVisible /\ OneMarkerPerRun

\* The loop kills the process once, and exactly when the last lines read,
\* blank ones aside, are MaxParseErrors malformed ones in a row.
SustainedGarbage ==
    \E m \in 1..readPos :
        /\ \A n \in m..readPos : wire[n].kind \in {"malformed", "blank"}
        /\ Cardinality({n \in m..readPos : wire[n].kind = "malformed"})
             = MaxParseErrors
GiveUpIsEarned == killed = IF SustainedGarbage THEN 1 ELSE 0

\* A consumer that finds the channels closed finds one terminal error
\* waiting, and until Close it names the cause (the deferred exit of
\* readLoop, "exactly one error value", demux.go:151-153); it gives up only
\* when that is earned.
EndIsExplained ==
    /\ GiveUpIsEarned
    /\ loop = "exited" =>
          /\ Len(loopErr) = 1
          /\ ~Stopped => loopErr[1] =
                IF killed > 0 THEN "giveUp"
                ELSE IF readPos > 0 /\ wire[readPos].kind = "unreadable"
                     THEN "read" ELSE "nil"
=============================================================================
