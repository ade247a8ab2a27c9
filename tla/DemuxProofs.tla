---------------------------- MODULE DemuxProofs ----------------------------
(* Proofs about Demux: its type invariant, that a response reaches the Send *)
(* that asked for it without ever blocking the read loop, that what the     *)
(* consumer is handed is faithful to what the server wrote, damage          *)
(* included, and that the end of the loop is explained; and about           *)
(* Dispatcher: the goroutines around the demux use it as Demux allows, and  *)
(* Close is a barrier for the approval callback.                            *)
EXTENDS Dispatcher, FiniteSetTheorems, TLAPS

-----------------------------------------------------------------------------
(* The inductive invariant.                                                 *)

AnswerOf(n, c) == wire[n].kind = "response" /\ wire[n].from = c

\* Ids are handed out once.
Numbering ==
    /\ \A c \in Calls : id[c] <= lastId
    /\ \A c, d \in Calls : id[c] = id[d] /\ id[c] # 0 => c = d

\* The table, the wire, the loop's hand and the channels agree on who asked.
Routing ==
    /\ \A n \in 1..Len(wire) :
          wire[n].kind = "response" =>
              wire[n].from \in Calls /\ wire[n].id = id[wire[n].from]
    /\ loop = "answering" => hand.target \in Calls /\ hand.from = hand.target
    /\ \A c \in Calls : chan[c] \in {NoCall, c}
    /\ OwnAnswer

\* A request is answered once.
Single ==
    /\ \A c \in Calls, n \in 1..Len(wire) :
          AnswerOf(n, c) => /\ c \notin asked
                            /\ pc[c] \in {"waiting", "detaching", "returned"}
    /\ \A c \in asked : pc[c] \in {"waiting", "detaching", "returned"}
    /\ \A c \in Calls, m, n \in 1..Len(wire) :
          AnswerOf(m, c) /\ AnswerOf(n, c) => m = n
    /\ \A c \in Calls : chan[c] # NoCall => Answered(c)
    /\ loop = "answering" => /\ readPos > 0
                             /\ AnswerOf(readPos, hand.target)
                             /\ chan[hand.target] = NoCall

\* An open demux has every Send past registration in its table.
Registered ==
    /\ PendingIsLive
    /\ ~Closed => \A c \in Calls :
          pc[c] \in {"registered", "waiting"} => pending[id[c]] = c
    /\ AnswerNotLost

IndInv == TypeOK /\ Numbering /\ Routing /\ Single /\ Registered

-----------------------------------------------------------------------------
(* Type correctness.                                                        *)

LEMMA TypeInit == Init => TypeOK
<1> SUFFICES ASSUME Init  PROVE TypeOK  OBVIOUS
<1> USE BoundsAssumption DEF Init
<1>1. SendTypeOK
  <2>1. /\ lastId \in 0..MaxId
        /\ id \in [Calls -> 0..MaxId]
        /\ \A c \in Calls : id[c] = 0 <=> pc[c] = "idle"
    OBVIOUS
  <2>2. /\ answer \in [Calls -> MaybeCall]
        /\ pending \in [Ids -> MaybeCall]
        /\ chan \in [Calls -> MaybeCall]
    BY DEF MaybeCall
  <2>3. QED  BY <2>1, <2>2 DEF SendTypeOK
<1>2. PipeTypeOK  BY DEF PipeTypeOK
<1>3. LoopTypeOK
  <2>1. hand \in [target : MaybeCall, from : MaybeCall,
                  kind : Messages \cup {"gap", "none"}, at : Nat]
    BY DEF NoHand, MaybeCall
  <2>2. loopErr \in Seq({"nil", "read", "giveUp"})  OBVIOUS
  <2>3. loop = "delivering" => hand.kind # "none"  OBVIOUS
  <2>4. QED  BY <2>1, <2>2, <2>3 DEF LoopTypeOK
<1>4. QED  BY <1>1, <1>2, <1>3 DEF TypeOK

\* A step of Demux.Send keeps the types of the Send and touches no other.
LEMMA TypeSend ==
  ASSUME SendTypeOK, NEW c \in Calls, SendStep(c)
  PROVE  SendTypeOK'
<1> USE DEF SendTypeOK
<1>1. CASE SendNumber(c)
  <2>1. lastId + 1 \in 0..MaxId /\ lastId + 1 # 0
    BY <1>1, BoundsAssumption DEF SendNumber
  <2>2. /\ lastId' \in 0..MaxId
        /\ id' \in [Calls -> 0..MaxId]
        /\ \A d \in Calls : id'[d] = 0 <=> pc'[d] = "idle"
    BY <1>1, <2>1 DEF SendNumber, NextId
  <2>3. asked' \subseteq {d \in Calls : id'[d] # 0}
    BY <1>1, <2>1 DEF SendNumber, NextId
  <2>4. QED  BY <1>1, <2>2, <2>3 DEF SendNumber
<1>2. CASE SendRegister(c)
  <2>1. pending' \in [Ids -> MaybeCall]  BY <1>2 DEF SendRegister, MaybeCall
  <2>2. QED  BY <1>2, <2>1 DEF SendRegister
<1>3. CASE SendWrite(c)  BY <1>3 DEF SendWrite
<1>4. CASE SendReceive(c)
  <2>1. answer' \in [Calls -> MaybeCall] /\ chan' \in [Calls -> MaybeCall]
    BY <1>4 DEF SendReceive, MaybeCall
  <2>2. QED  BY <1>4, <2>1 DEF SendReceive
<1>5. CASE SendCancel(c)  BY <1>5 DEF SendCancel
<1>6. CASE SendStopped(c)  BY <1>6 DEF SendStopped
<1>7. CASE SendDetach(c)
  <2>1. pending' \in [Ids -> MaybeCall]  BY <1>7 DEF SendDetach, MaybeCall
  <2>2. QED  BY <1>7, <2>1 DEF SendDetach
<1>8. QED  BY <1>1, <1>2, <1>3, <1>4, <1>5, <1>6, <1>7 DEF SendStep

\* What a Send, a Close or the server never touches.
LEMMA SendFrame ==
  ASSUME NEW c \in Calls, SendStep(c)
  PROVE  UNCHANGED <<loop, hand, consecutive, gapQueued, exitErr, killed,
                     loopErr, closing, alive, wire, readPos, delivered, taken>>
BY DEF SendStep, SendNumber, SendRegister, SendWrite, SendReceive, SendCancel,
       SendStopped, SendDetach, loopVars

\* What the next line is, when there is one.
LEMMA NextLine ==
  ASSUME PipeTypeOK, readPos < Len(wire)
  PROVE  /\ wire[readPos + 1] \in Lines
         /\ readPos + 1 \in 1..Len(wire)
         /\ wire[readPos + 1].kind \in AllKinds \cup {"response"}
         /\ wire[readPos + 1].kind = "response" =>
               /\ wire[readPos + 1].id \in Ids
               /\ wire[readPos + 1].from \in Calls
<1>1. wire[readPos + 1] \in Lines  BY DEF PipeTypeOK
<1>2. readPos + 1 \in 1..Len(wire)  BY DEF PipeTypeOK
<1>3. CASE \E k \in AllKinds : wire[readPos + 1] = Line(k)
  <2>1. "response" \notin AllKinds  BY DEF AllKinds, Damaged, Messages
  <2>2. QED  BY <1>1, <1>2, <1>3, <2>1 DEF Line
<1>4. CASE \E c \in Calls, i \in Ids : wire[readPos + 1] = Answer(c, i)
  BY <1>1, <1>2, <1>4 DEF Answer
<1>5. QED  BY <1>1, <1>3, <1>4 DEF Lines

\* A step of the read loop keeps the types of the loop.
LEMMA TypeLoop ==
  ASSUME TypeOK, LoopStep
  PROVE  LoopTypeOK'
<1> USE DEF TypeOK, LoopTypeOK
<1>1. CASE LoopEOF  BY <1>1 DEF LoopEOF
<1>2. CASE LoopReadError  BY <1>2 DEF LoopReadError
<1>3. CASE LoopBlank  BY <1>3 DEF LoopBlank, loopVars
<1>4. CASE LoopMalformed
  <2>1. readPos + 1 \in Nat
    BY <1>4, NextLine DEF LoopMalformed, ReadOneOf
  <2>2. hand' \in [target : MaybeCall, from : MaybeCall,
                   kind : Messages \cup {"gap", "none"}, at : Nat]
    BY <1>4, <2>1 DEF LoopMalformed, MessageHand, NoHand, MaybeCall
  <2>3. /\ loop' \in {"exiting", "reading", "delivering"}
        /\ loop' = "delivering" => hand'.kind # "none"
    BY <1>4 DEF LoopMalformed, MessageHand, NoHand
  <2>4. killed' \in Nat /\ exitErr' \in {"nil", "read", "giveUp"}
    BY <1>4 DEF LoopMalformed
  <2>5. QED  BY <1>4, <2>2, <2>3, <2>4 DEF LoopMalformed
<1>5. CASE LoopUnclassifiable
  <2>1. readPos + 1 \in Nat
    BY <1>5, NextLine DEF LoopUnclassifiable, ReadOneOf
  <2>2. hand' \in [target : MaybeCall, from : MaybeCall,
                   kind : Messages \cup {"gap", "none"}, at : Nat]
    BY <1>5, <2>1 DEF LoopUnclassifiable, MessageHand, NoHand, MaybeCall
  <2>3. /\ loop' \in {"reading", "delivering"}
        /\ loop' = "delivering" => hand'.kind # "none"
    BY <1>5 DEF LoopUnclassifiable, ReadOneOf, MessageHand, NoHand
  <2>4. QED  BY <1>5, <2>2, <2>3 DEF LoopUnclassifiable, NextGapQueued
<1>6. CASE LoopMessage
  <2>1. readPos + 1 \in Nat /\ wire[readPos + 1].kind \in Messages
    BY <1>6, NextLine DEF LoopMessage, ReadOneOf
  <2>2. hand' \in [target : MaybeCall, from : MaybeCall,
                   kind : Messages \cup {"gap", "none"}, at : Nat]
    <3>1. hand' = [target |-> NoCall, from |-> NoCall,
                   kind |-> wire[readPos + 1].kind, at |-> readPos + 1]
      BY <1>6 DEF LoopMessage, MessageHand, NoHand
    <3>2. QED  BY <2>1, <3>1 DEF MaybeCall
  <2>3. loop' = "delivering" /\ hand'.kind # "none"
    BY <1>6, <2>1 DEF LoopMessage, MessageHand, NoHand, Messages
  <2>4. QED  BY <1>6, <2>2, <2>3 DEF LoopMessage, NextGapQueued
<1>7. CASE LoopResponse
  <2>1. wire[readPos + 1].id \in Ids /\ wire[readPos + 1].from \in Calls
    BY <1>7, NextLine DEF LoopResponse, ReadOneOf
  <2>2. hand' \in [target : MaybeCall, from : MaybeCall,
                   kind : Messages \cup {"gap", "none"}, at : Nat]
    <3>1. CASE hand' = hand  BY <3>1
    <3>2. CASE hand' = AnswerHand(pending[wire[readPos + 1].id],
                                  wire[readPos + 1].from)
      <4>1. pending[wire[readPos + 1].id] \in MaybeCall
        BY <2>1 DEF SendTypeOK
      <4>2. QED  BY <2>1, <3>2, <4>1 DEF AnswerHand, NoHand, MaybeCall
    <3>3. QED  BY <1>7, <3>1, <3>2 DEF LoopResponse
  <2>3. loop' \in {"reading", "answering"}
    BY <1>7 DEF LoopResponse, ReadOneOf
  <2>4. QED  BY <1>7, <2>2, <2>3 DEF LoopResponse, NextGapQueued
<1>8. CASE LoopAnswer  BY <1>8 DEF LoopAnswer, NoHand, MaybeCall
<1>9. CASE LoopDeliver  BY <1>9 DEF LoopDeliver, NoHand, MaybeCall
<1>10. CASE LoopAbandon  BY <1>10 DEF LoopAbandon, NoHand, MaybeCall
<1>11. CASE LoopReport  BY <1>11 DEF LoopReport
<1>12. CASE LoopCloseChannels  BY <1>12 DEF LoopCloseChannels
<1>13. QED
  BY <1>1, <1>2, <1>3, <1>4, <1>5, <1>6, <1>7, <1>8, <1>9, <1>10, <1>11,
     <1>12 DEF LoopStep

\* A step of the read loop keeps the types of the pipes and channels.
LEMMA PipeLoop ==
  ASSUME TypeOK, LoopStep
  PROVE  PipeTypeOK' /\ SendTypeOK'
<1> USE DEF TypeOK, PipeTypeOK
<1>1. CASE LoopAnswer
  <2>1. chan' \in [Calls -> MaybeCall]
    BY <1>1 DEF LoopAnswer, SendTypeOK, LoopTypeOK
  <2>2. QED  BY <1>1, <2>1 DEF LoopAnswer, SendTypeOK, sendVars
<1>2. CASE LoopDeliver
  <2>1. Message(hand.kind, hand.at) \in ServerMessage
    BY <1>2 DEF LoopDeliver, LoopTypeOK, Message, ServerMessage
  <2>2. delivered' \in Seq(ServerMessage) /\ taken' \in 0..Len(delivered')
    BY <1>2, <2>1 DEF LoopDeliver, DeliverInOrder, apartFromLoop
  <2>3. QED
    BY <1>2, <2>2 DEF LoopDeliver, apartFromLoop, sendVars, SendTypeOK
<1>3. CASE ~LoopAnswer /\ ~LoopDeliver
  <2>1. UNCHANGED apartFromLoop /\ UNCHANGED delivered
    BY <1>3 DEF LoopStep, LoopEOF, LoopReadError, LoopBlank, LoopMalformed,
       LoopUnclassifiable, LoopMessage, LoopResponse, LoopAbandon, LoopReport,
       LoopCloseChannels
  <2>2. readPos' = readPos
        \/ (readPos < Len(wire) /\ readPos' = readPos + 1)
    BY <1>3 DEF LoopStep, LoopEOF, LoopReadError, LoopBlank, LoopMalformed,
       LoopUnclassifiable, LoopMessage, LoopResponse, LoopAbandon, LoopReport,
       LoopCloseChannels, ReadOneOf
  <2>3. readPos' \in 0..Len(wire)  BY <2>2, NextLine
  <2>4. QED  BY <2>1, <2>3 DEF apartFromLoop, sendVars, SendTypeOK
<1>4. QED  BY <1>1, <1>2, <1>3

\* A step of Close, of the consumer or of the server.
OtherStep ==
    \/ CloseDrop \/ CloseWriter \/ CloseStop
    \/ Take \/ ServerEmit \/ ServerExit
    \/ \E c \in Calls : ServerAnswer(c)

LEMMA TypeOthers ==
  ASSUME TypeOK, OtherStep
  PROVE  TypeOK'
<1> USE DEF TypeOK
<1>1. LoopTypeOK'
  BY DEF OtherStep, LoopTypeOK, loopVars, CloseDrop, CloseWriter, CloseStop,
     Take, ServerEmit, ServerExit, ServerAnswer
<1>2. SendTypeOK'
  <2>1. CASE CloseDrop
    BY <2>1 DEF CloseDrop, SendTypeOK, sendVars, MaybeCall
  <2>2. CASE ~CloseDrop
    <3>1. UNCHANGED <<lastId, pc, id, outcome, answer, pending, chan>>
      BY <2>2 DEF OtherStep, sendVars, CloseWriter, CloseStop, Take,
         ServerEmit, ServerExit, ServerAnswer
    <3>2. asked' \subseteq asked
      BY <2>2 DEF OtherStep, sendVars, CloseWriter, CloseStop, Take,
         ServerEmit, ServerExit, ServerAnswer
    <3>3. QED  BY <3>1, <3>2 DEF SendTypeOK
  <2>3. QED  BY <2>1, <2>2
<1>3. PipeTypeOK'
  <2> USE DEF PipeTypeOK
  <2>1. CASE CloseDrop \/ CloseWriter \/ CloseStop \/ ServerExit
    BY <2>1 DEF CloseDrop, CloseWriter, CloseStop, ServerExit
  <2>2. CASE Take  BY <2>2 DEF Take, QueueLen
  <2>3. CASE ServerEmit
    <3>1. PICK k \in LineKinds : wire' = Append(wire, Line(k))
      BY <2>3 DEF ServerEmit
    <3>2. Line(k) \in Lines  BY KindsAssumption DEF Lines
    <3>3. wire' \in Seq(Lines) /\ Len(wire') = Len(wire) + 1
      BY <3>1, <3>2
    <3>4. QED  BY <2>3, <3>3 DEF ServerEmit
  <2>4. ASSUME NEW c \in Calls, ServerAnswer(c)  PROVE PipeTypeOK'
    <3>1. id[c] \in Ids
      BY <2>4, BoundsAssumption DEF ServerAnswer, SendTypeOK, Ids
    <3>2. Answer(c, id[c]) \in Lines  BY <3>1 DEF Lines
    <3>3. wire' \in Seq(Lines) /\ Len(wire') = Len(wire) + 1
      BY <2>4, <3>2 DEF ServerAnswer
    <3>4. QED  BY <2>4, <3>3 DEF ServerAnswer
  <2>5. QED  BY <2>1, <2>2, <2>3, <2>4 DEF OtherStep
<1>4. QED  BY <1>1, <1>2, <1>3

LEMMA TypeStep == TypeOK /\ [Next]_vars => TypeOK'
<1> SUFFICES ASSUME TypeOK, [Next]_vars  PROVE TypeOK'  OBVIOUS
<1>1. ASSUME NEW c \in Calls, SendStep(c)  PROVE TypeOK'
  BY <1>1, TypeSend, SendFrame DEF TypeOK, PipeTypeOK, LoopTypeOK
<1>2. CASE LoopStep  BY <1>2, TypeLoop, PipeLoop DEF TypeOK
<1>3. CASE OtherStep  BY <1>3, TypeOthers
<1>4. CASE UNCHANGED vars
  BY <1>4 DEF vars, TypeOK, SendTypeOK, PipeTypeOK, LoopTypeOK
<1>5. QED  BY <1>1, <1>2, <1>3, <1>4 DEF Next, OtherStep, Quiet

\* Every variable of the demux keeps its type: in particular the loop never
\* reads past what was written, and an id is in the range handed out.
THEOREM TypeCorrect == Spec => []TypeOK
<1>1. QED  BY TypeInit, TypeStep, PTL DEF Spec

-----------------------------------------------------------------------------
(* The routing invariant.                                                   *)

LEMMA LoopFrame ==
  ASSUME LoopStep
  PROVE  UNCHANGED <<lastId, pc, id, outcome, answer, pending, closing, asked,
                     alive, wire, taken>>
BY DEF LoopStep, LoopEOF, LoopReadError, LoopBlank, LoopMalformed,
       LoopUnclassifiable, LoopMessage, LoopResponse, LoopAnswer, LoopDeliver,
       LoopAbandon, LoopReport, LoopCloseChannels, apartFromLoop, sendVars

LEMMA OtherFrame ==
  ASSUME OtherStep
  PROVE  UNCHANGED <<lastId, pc, id, outcome, answer, chan, readPos, loop,
                     hand>>
BY DEF OtherStep, CloseDrop, CloseWriter, CloseStop, Take, ServerEmit,
       ServerExit, ServerAnswer, sendVars, loopVars

\* The wire only grows, by an answer to a request the server holds or by a
\* line that answers nothing.
LEMMA WireGrows ==
  ASSUME TypeOK, OtherStep
  PROVE  \/ wire' = wire /\ asked' = asked
         \/ \E k \in AllKinds :
               wire' = Append(wire, Line(k)) /\ asked' = asked
         \/ \E c \in asked : /\ wire' = Append(wire, Answer(c, id[c]))
                             /\ asked' = asked \ {c}
<1>1. CASE ServerEmit  BY <1>1, KindsAssumption DEF ServerEmit
<1>2. CASE \E c \in Calls : ServerAnswer(c)  BY <1>2 DEF ServerAnswer
<1>3. CASE CloseDrop \/ CloseWriter \/ CloseStop \/ Take \/ ServerExit
  BY <1>3 DEF CloseDrop, CloseWriter, CloseStop, Take, ServerExit
<1>4. QED  BY <1>1, <1>2, <1>3 DEF OtherStep

LEMMA LinesAreNotAnswers ==
  ASSUME NEW k \in AllKinds  PROVE Line(k).kind # "response"
BY DEF Line, AllKinds, Damaged, Messages

LEMMA NumberingStep ==
  ASSUME TypeOK, Numbering, [Next]_vars
  PROVE  Numbering'
<1>1. CASE UNCHANGED <<id, lastId>>  BY <1>1 DEF Numbering
<1>2. ASSUME NEW c \in Calls, SendNumber(c)  PROVE Numbering'
  <2>1. /\ lastId \in Nat /\ lastId' = lastId + 1
        /\ id \in [Calls -> Nat] /\ id' = [id EXCEPT ![c] = lastId + 1]
    BY <1>2, BoundsAssumption DEF SendNumber, NextId, TypeOK, SendTypeOK
  <2>2. \A d \in Calls : id'[d] <= lastId'  BY <2>1 DEF Numbering
  <2>3. \A d, e \in Calls : id'[d] = id'[e] /\ id'[d] # 0 => d = e
    BY <2>1 DEF Numbering
  <2>4. QED  BY <2>2, <2>3 DEF Numbering
<1>3. UNCHANGED <<id, lastId>> \/ \E c \in Calls : SendNumber(c)
  <2>1. ASSUME NEW c \in Calls, SendStep(c), ~SendNumber(c)
        PROVE  UNCHANGED <<id, lastId>>
    BY <2>1 DEF SendStep, SendRegister, SendWrite, SendReceive, SendCancel,
       SendStopped, SendDetach
  <2>2. QED
    BY <2>1, LoopFrame, OtherFrame DEF Next, OtherStep, Quiet, vars
<1>4. QED  BY <1>1, <1>2, <1>3

\* Every step of the specification, as the proofs below split it.
LEMMA Steps ==
  ASSUME [Next]_vars
  PROVE  \/ \E c \in Calls : SendStep(c)
         \/ LoopStep \/ OtherStep \/ UNCHANGED vars
BY DEF Next, OtherStep, Quiet

\* An answer on the wire names a Send that has an id.
LEMMA RoutingSend ==
  ASSUME IndInv, TypeOK', NEW c \in Calls, SendStep(c)
  PROVE  Routing'
<1> USE DEF IndInv
<1>1. UNCHANGED <<loop, hand, wire>>  BY SendFrame
<1>2. \A n \in 1..Len(wire) :
        wire[n].kind = "response" =>
            wire[n].from \in Calls /\ wire[n].id = id'[wire[n].from]
  <2>1. CASE SendNumber(c)
    <3>1. \A d \in Calls \ {c} : id'[d] = id[d]
      BY <2>1 DEF SendNumber, TypeOK, SendTypeOK
    <3>2. \A n \in 1..Len(wire) : ~AnswerOf(n, c)
      BY <2>1 DEF SendNumber, Single
    <3>3. QED  BY <3>1, <3>2 DEF Routing, AnswerOf
  <2>2. CASE ~SendNumber(c)
    <3>1. id' = id
      BY <2>2 DEF SendStep, SendRegister, SendWrite, SendReceive, SendCancel,
         SendStopped, SendDetach
    <3>2. QED  BY <3>1 DEF Routing
  <2>3. QED  BY <2>1, <2>2
<1>3. \A d \in Calls : chan'[d] \in {NoCall, d}
  <2>1. CASE SendReceive(c)
    BY <2>1 DEF SendReceive, Routing, TypeOK, SendTypeOK
  <2>2. CASE ~SendReceive(c)
    <3>1. chan' = chan
      BY <2>2 DEF SendStep, SendNumber, SendRegister, SendWrite, SendCancel,
         SendStopped, SendDetach
    <3>2. QED  BY <3>1 DEF Routing
  <2>3. QED  BY <2>1, <2>2
<1>4. OwnAnswer'
  <2> USE DEF OwnAnswer, Routing, TypeOK, SendTypeOK
  <2>1. CASE SendNumber(c)  BY <2>1 DEF SendNumber
  <2>2. CASE SendRegister(c)  BY <2>2 DEF SendRegister
  <2>3. CASE SendWrite(c)  BY <2>3 DEF SendWrite
  <2>4. CASE SendReceive(c)  BY <2>4 DEF SendReceive
  <2>5. CASE SendCancel(c)  BY <2>5 DEF SendCancel
  <2>6. CASE SendStopped(c)  BY <2>6 DEF SendStopped
  <2>7. CASE SendDetach(c)  BY <2>7 DEF SendDetach
  <2>8. QED
    BY <2>1, <2>2, <2>3, <2>4, <2>5, <2>6, <2>7 DEF SendStep
<1>5. QED  BY <1>1, <1>2, <1>3, <1>4 DEF Routing

LEMMA RoutingLoop ==
  ASSUME IndInv, TypeOK', LoopStep
  PROVE  Routing'
<1> USE DEF IndInv
<1>1. UNCHANGED <<wire, id, outcome, answer>>  BY LoopFrame
<1>2. CASE LoopResponse
  <2>1. chan' = chan  BY <1>2 DEF LoopResponse, apartFromLoop
  <2>2. ASSUME loop' = "answering"
        PROVE  hand'.target \in Calls /\ hand'.from = hand'.target
    <3> DEFINE line == wire[readPos + 1]
    <3>1. /\ readPos + 1 \in 1..Len(wire)
          /\ line.kind = "response" /\ line.id \in Ids /\ line.from \in Calls
      BY <1>2, NextLine DEF LoopResponse, ReadOneOf, TypeOK
    <3>2. pending[line.id] # NoCall
          /\ hand' = AnswerHand(pending[line.id], line.from)
      BY <1>2, <2>2 DEF LoopResponse, ReadOneOf
    <3>3. pending[line.id] \in Calls
      BY <3>1, <3>2 DEF TypeOK, SendTypeOK, MaybeCall
    <3>4. id[pending[line.id]] = line.id
      BY <3>1, <3>2 DEF Registered, PendingIsLive
    <3>5. id[line.from] = line.id  BY <3>1 DEF Routing
    <3>6. line.id # 0  BY <3>1, BoundsAssumption DEF Ids
    <3>7. pending[line.id] = line.from
      BY <3>1, <3>3, <3>4, <3>5, <3>6 DEF Numbering
    <3>8. QED  BY <3>2, <3>3, <3>7 DEF AnswerHand, NoHand
  <2>3. QED  BY <1>1, <2>1, <2>2 DEF Routing, OwnAnswer
<1>3. CASE LoopAnswer
  <2>1. loop' # "answering"  BY <1>3 DEF LoopAnswer
  <2>2. \A d \in Calls : chan'[d] \in {NoCall, d}
    BY <1>3 DEF LoopAnswer, Routing, TypeOK, SendTypeOK
  <2>3. QED  BY <1>1, <2>1, <2>2 DEF Routing, OwnAnswer
<1>4. CASE ~LoopResponse /\ ~LoopAnswer
  <2>1. chan' = chan /\ loop' # "answering"
    BY <1>4 DEF LoopStep, LoopEOF, LoopReadError, LoopBlank, LoopMalformed,
       LoopUnclassifiable, LoopMessage, LoopDeliver, LoopAbandon, LoopReport,
       LoopCloseChannels, apartFromLoop, ReadOneOf, loopVars
  <2>2. QED  BY <1>1, <2>1 DEF Routing, OwnAnswer
<1>5. QED  BY <1>2, <1>3, <1>4

LEMMA RoutingOther ==
  ASSUME IndInv, TypeOK', OtherStep
  PROVE  Routing'
<1> USE DEF IndInv
<1>1. UNCHANGED <<id, outcome, answer, chan, loop, hand>>  BY OtherFrame
<1> DEFINE Named(w) == \A n \in 1..Len(w) :
             w[n].kind = "response" =>
                 w[n].from \in Calls /\ w[n].id = id[w[n].from]
<1>2. Named(wire')
  <2>0. wire \in Seq(Lines) /\ Named(wire)
    BY DEF TypeOK, PipeTypeOK, Routing
  <2>1. CASE wire' = wire  BY <2>0, <2>1
  <2>2. ASSUME NEW k \in AllKinds, wire' = Append(wire, Line(k))
        PROVE  Named(wire')
    BY <2>0, <2>2, LinesAreNotAnswers
  <2>3. ASSUME NEW c \in asked, wire' = Append(wire, Answer(c, id[c]))
        PROVE  Named(wire')
    <3>1. c \in Calls  BY <2>3 DEF TypeOK, SendTypeOK
    <3>2. QED  BY <2>0, <2>3, <3>1 DEF Answer
  <2>4. QED  BY <2>1, <2>2, <2>3, WireGrows
<1>3. QED  BY <1>1, <1>2 DEF Routing, OwnAnswer

-----------------------------------------------------------------------------
(* A request is answered once.                                              *)

\* A Send past its write stays there until it returns, and no other Send of
\* the table is disturbed.
LEMMA SendProgress ==
  ASSUME TypeOK, NEW c \in Calls, SendStep(c)
  PROVE  /\ \A d \in Calls \ {c} : pc'[d] = pc[d] /\ id'[d] = id[d]
         /\ \A d \in Calls :
              pc[d] \in {"waiting", "detaching", "returned"} =>
                  pc'[d] \in {"waiting", "detaching", "returned"}
         /\ asked' = asked
            \/ (/\ asked' = asked \cup {c} /\ pc[c] = "registered"
                /\ pc'[c] = "waiting")
         /\ \A d \in Calls :
              chan'[d] = chan[d] \/ (chan'[d] = NoCall /\ SendReceive(d))
<1> USE DEF TypeOK, SendTypeOK
<1>1. CASE SendNumber(c)  BY <1>1 DEF SendNumber
<1>2. CASE SendRegister(c)  BY <1>2 DEF SendRegister
<1>3. CASE SendWrite(c)  BY <1>3 DEF SendWrite
<1>4. CASE SendReceive(c)  BY <1>4 DEF SendReceive
<1>5. CASE SendCancel(c)  BY <1>5 DEF SendCancel
<1>6. CASE SendStopped(c)  BY <1>6 DEF SendStopped
<1>7. CASE SendDetach(c)  BY <1>7 DEF SendDetach
<1>8. QED  BY <1>1, <1>2, <1>3, <1>4, <1>5, <1>6, <1>7 DEF SendStep

LEMMA SingleSend ==
  ASSUME IndInv, TypeOK', NEW c \in Calls, SendStep(c)
  PROVE  Single'
<1> USE DEF IndInv
<1>1. UNCHANGED <<loop, hand, wire, readPos>>  BY SendFrame
<1>2. ASSUME NEW d \in Calls, NEW n \in 1..Len(wire), AnswerOf(n, d)
      PROVE  d \notin asked' /\ pc'[d] \in {"waiting", "detaching", "returned"}
  BY <1>2, SendProgress DEF Single
<1>3. \A d \in asked' : pc'[d] \in {"waiting", "detaching", "returned"}
  <2>1. asked \subseteq Calls  BY DEF TypeOK, SendTypeOK
  <2>2. \A d \in asked : pc'[d] \in {"waiting", "detaching", "returned"}
    BY <2>1, SendProgress DEF Single
  <2>3. QED  BY <2>2, SendProgress
<1>4. \A d \in Calls : chan'[d] # NoCall => Answered(d)
  BY SendProgress DEF Single
<1>5. loop = "answering" => chan'[hand.target] = NoCall
  BY SendProgress DEF Single, Routing
<1>6. QED  BY <1>1, <1>2, <1>3, <1>4, <1>5 DEF Single, AnswerOf, Answered

LEMMA SingleLoop ==
  ASSUME IndInv, TypeOK', LoopStep
  PROVE  Single'
<1> USE DEF IndInv
<1>1. UNCHANGED <<wire, asked, pc>>  BY LoopFrame
<1>2. CASE LoopResponse
  <2>1. /\ readPos + 1 \in 1..Len(wire) /\ readPos' = readPos + 1
        /\ readPos \in Nat /\ wire[readPos + 1].kind = "response"
    BY <1>2, NextLine DEF LoopResponse, ReadOneOf, TypeOK, PipeTypeOK
  <2>2. chan' = chan  BY <1>2 DEF LoopResponse, apartFromLoop
  <2>3. \A d \in Calls : chan'[d] # NoCall => Answered(d)'
    BY <1>1, <2>1, <2>2 DEF Single, Answered
  <2>4. ASSUME loop' = "answering"
        PROVE  /\ AnswerOf(readPos + 1, hand'.target)
               /\ chan'[hand'.target] = NoCall
    <3>1. hand'.target \in Calls /\ hand'.from = hand'.target
      BY <1>2, <2>4, RoutingLoop DEF Routing
    <3>2. hand'.from = wire[readPos + 1].from
      BY <1>2, <2>4 DEF LoopResponse, ReadOneOf, AnswerHand, NoHand
    <3>3. AnswerOf(readPos + 1, hand'.target)
      BY <2>1, <3>1, <3>2 DEF AnswerOf
    <3>4. ASSUME chan[hand'.target] # NoCall  PROVE FALSE
      <4>1. PICK n \in 1..readPos : AnswerOf(n, hand'.target)
        BY <3>1, <3>4 DEF Single, Answered, AnswerOf
      <4>2. n \in 1..Len(wire) /\ n # readPos + 1
        BY <2>1, <4>1 DEF TypeOK, PipeTypeOK
      <4>3. QED  BY <2>1, <3>1, <3>3, <4>1, <4>2 DEF Single
    <3>5. QED  BY <1>1, <2>1, <2>2, <3>3, <3>4 DEF AnswerOf
  <2>5. QED  BY <1>1, <2>1, <2>3, <2>4 DEF Single, AnswerOf
<1>3. CASE LoopAnswer
  <2>1. loop' # "answering" /\ readPos' = readPos  BY <1>3 DEF LoopAnswer
  <2>2. Answered(hand.target) /\ hand.target \in Calls
    BY <1>3 DEF LoopAnswer, Single, Routing, Answered, AnswerOf, TypeOK,
       PipeTypeOK
  <2>3. \A d \in Calls \ {hand.target} : chan'[d] = chan[d]
    BY <1>3 DEF LoopAnswer, TypeOK, SendTypeOK
  <2>4. \A d \in Calls : chan'[d] # NoCall => Answered(d)'
    BY <1>1, <2>1, <2>2, <2>3 DEF Single, Answered
  <2>5. QED  BY <1>1, <2>1, <2>4 DEF Single, AnswerOf
<1>4. CASE ~LoopResponse /\ ~LoopAnswer
  <2>1. chan' = chan /\ loop' # "answering"
    BY <1>4 DEF LoopStep, LoopEOF, LoopReadError, LoopBlank, LoopMalformed,
       LoopUnclassifiable, LoopMessage, LoopDeliver, LoopAbandon, LoopReport,
       LoopCloseChannels, apartFromLoop, ReadOneOf, loopVars
  <2>2. readPos' \in {readPos, readPos + 1} /\ readPos \in Nat
    BY <1>4 DEF LoopStep, LoopEOF, LoopReadError, LoopBlank, LoopMalformed,
       LoopUnclassifiable, LoopMessage, LoopDeliver, LoopAbandon, LoopReport,
       LoopCloseChannels, ReadOneOf, TypeOK, PipeTypeOK
  <2>3. \A d \in Calls : chan'[d] # NoCall => Answered(d)'
    BY <1>1, <2>1, <2>2 DEF Single, Answered
  <2>4. QED  BY <1>1, <2>1, <2>3 DEF Single, AnswerOf
<1>5. QED  BY <1>2, <1>3, <1>4

LEMMA SingleOther ==
  ASSUME IndInv, TypeOK', OtherStep
  PROVE  Single'
<1> USE DEF IndInv
<1>1. UNCHANGED <<pc, id, chan, loop, hand, readPos>>  BY OtherFrame
<1>2. /\ wire \in Seq(Lines) /\ readPos \in 0..Len(wire)
      /\ asked \subseteq Calls
  BY DEF TypeOK, PipeTypeOK, SendTypeOK
<1>3. CASE wire' = wire /\ asked' = asked
  BY <1>1, <1>3 DEF Single, AnswerOf, Answered
<1>4. ASSUME NEW k \in AllKinds, wire' = Append(wire, Line(k)), asked' = asked
      PROVE  Single'
  <2>1. \A c \in Calls, n \in 1..Len(wire') :
          AnswerOf(n, c)' => n \in 1..Len(wire) /\ AnswerOf(n, c)
    BY <1>2, <1>4, LinesAreNotAnswers DEF AnswerOf
  <2>2. \A c \in Calls, n \in 1..Len(wire) : AnswerOf(n, c) => AnswerOf(n, c)'
    BY <1>2, <1>4 DEF AnswerOf
  <2>3. QED  BY <1>1, <1>2, <1>4, <2>1, <2>2 DEF Single, Answered, AnswerOf
<1>5. ASSUME NEW d \in asked, wire' = Append(wire, Answer(d, id[d])),
             asked' = asked \ {d}
      PROVE  Single'
  <2>0. d \in Calls  BY <1>2
  <2>1. \A c \in Calls, n \in 1..Len(wire') :
          AnswerOf(n, c)' => \/ n \in 1..Len(wire) /\ AnswerOf(n, c)
                             \/ n = Len(wire) + 1 /\ c = d
    BY <1>2, <1>5 DEF AnswerOf, Answer
  <2>2. \A c \in Calls, n \in 1..Len(wire) : AnswerOf(n, c) => AnswerOf(n, c)'
    BY <1>2, <1>5 DEF AnswerOf
  <2>3. \A n \in 1..Len(wire) : ~AnswerOf(n, d)  BY <1>2 DEF Single
  <2>4. \A c \in Calls, n \in 1..Len(wire') :
          AnswerOf(n, c)' =>
              /\ c \notin asked'
              /\ pc'[c] \in {"waiting", "detaching", "returned"}
    BY <1>1, <1>5, <2>0, <2>1 DEF Single
  <2>5. \A c \in Calls, m, n \in 1..Len(wire') :
          AnswerOf(m, c)' /\ AnswerOf(n, c)' => m = n
    BY <2>1, <2>3 DEF Single
  <2>6. \A c \in asked' : pc'[c] \in {"waiting", "detaching", "returned"}
    BY <1>1, <1>5 DEF Single
  <2>7. \A c \in Calls : chan'[c] # NoCall => Answered(c)'
    BY <1>1, <1>2, <2>2 DEF Single, Answered, AnswerOf
  <2>8. loop' = "answering" => /\ readPos' > 0
                              /\ AnswerOf(readPos, hand.target)'
                              /\ chan'[hand'.target] = NoCall
    BY <1>1, <1>2, <2>2 DEF Single, Routing
  <2>9. QED  BY <2>4, <2>5, <2>6, <2>7, <2>8 DEF Single
<1>6. QED  BY <1>3, <1>4, <1>5, WireGrows

-----------------------------------------------------------------------------
(* The pending table.                                                       *)

\* An answer the loop has read still finds its Send: the table entry is only
\* removed by the Send itself or by Close.
LEMMA RegisteredSend ==
  ASSUME IndInv, TypeOK', NEW c \in Calls, SendStep(c)
  PROVE  Registered'
<1> USE DEF IndInv
<1>1. UNCHANGED <<loop, hand, wire, readPos, closing>>  BY SendFrame
<1>2. CASE SendNumber(c)
  <2>1. \A d \in Calls \ {c} : pc'[d] = pc[d] /\ id'[d] = id[d]
    BY <1>2, SendProgress
  <2>2. pc[c] = "idle" /\ pc'[c] = "numbered"
        /\ UNCHANGED <<pending, chan>>
    BY <1>2 DEF SendNumber, TypeOK, SendTypeOK
  <2>3. PendingIsLive'
    BY <1>1, <2>1, <2>2
    DEF Registered, PendingIsLive, Closed, TypeOK, SendTypeOK, MaybeCall
  <2>4. QED
    BY <1>1, <2>1, <2>2, <2>3
    DEF Registered, AnswerNotLost, Answered, Closed
<1>3. CASE SendRegister(c)
  <2>1. /\ id[c] \in Ids /\ id' = id /\ chan' = chan /\ pc[c] = "numbered"
        /\ \A d \in Calls \ {c} : pc'[d] = pc[d]
    BY <1>3, BoundsAssumption DEF SendRegister, TypeOK, SendTypeOK, Ids
  <2>2. CASE Closed
    <3>1. pending' = pending /\ pc'[c] = "returned"
      BY <1>3, <2>2 DEF SendRegister, Refused, TypeOK, SendTypeOK
    <3>2. QED
      BY <1>1, <2>1, <2>2, <3>1
      DEF Registered, PendingIsLive, AnswerNotLost, Closed
  <2>3. CASE ~Closed
    <3>1. /\ pending' = [pending EXCEPT ![id[c]] = c] /\ pc'[c] = "registered"
          /\ pending \in [Ids -> MaybeCall]
      BY <1>3, <2>3 DEF SendRegister, Refused, TypeOK, SendTypeOK
    <3>2. \A d \in Calls \ {c} : id[d] # id[c]
      BY <2>1, BoundsAssumption DEF Numbering, Ids
    <3>3. PendingIsLive'
      BY <1>1, <2>1, <2>3, <3>1
      DEF Registered, PendingIsLive, Closed, MaybeCall
    <3>4. \A d \in Calls :
            pc'[d] \in {"registered", "waiting"} => pending'[id'[d]] = d
      BY <2>1, <2>3, <3>1, <3>2 DEF Registered
    <3>5. AnswerNotLost'
      BY <1>1, <2>1, <2>3, <3>1 DEF Registered, AnswerNotLost, Answered, Closed
    <3>6. QED  BY <3>3, <3>4, <3>5 DEF Registered
  <2>4. QED  BY <2>2, <2>3
<1>4. CASE SendWrite(c)
  <2>1. /\ UNCHANGED <<id, pending, chan>> /\ pc[c] = "registered"
        /\ pc'[c] \in {"waiting", "detaching"}
        /\ \A d \in Calls \ {c} : pc'[d] = pc[d]
    BY <1>4 DEF SendWrite, TypeOK, SendTypeOK
  <2>2. PendingIsLive'
    BY <1>1, <2>1 DEF Registered, PendingIsLive, Closed, TypeOK, SendTypeOK,
       MaybeCall
  <2>3. ~Closed' => \A d \in Calls :
          pc'[d] \in {"registered", "waiting"} => pending'[id'[d]] = d
    BY <1>1, <2>1 DEF Registered, Closed
  <2>4. ~Answered(c)
    <3>1. \A n \in 1..Len(wire) : ~AnswerOf(n, c)  BY <2>1 DEF Single
    <3>2. QED  BY <3>1 DEF Answered, AnswerOf, TypeOK, PipeTypeOK
  <2>5. AnswerNotLost'
    BY <1>1, <2>1, <2>4 DEF Registered, AnswerNotLost, Answered, Closed
  <2>6. QED  BY <2>2, <2>3, <2>5 DEF Registered
<1>5. CASE SendReceive(c) \/ SendCancel(c) \/ SendStopped(c)
  <2>1. /\ UNCHANGED <<id, pending>> /\ pc'[c] = "detaching"
        /\ pc[c] = "waiting"
        /\ \A d \in Calls \ {c} : pc'[d] = pc[d] /\ chan'[d] = chan[d]
    BY <1>5 DEF SendReceive, SendCancel, SendStopped, TypeOK, SendTypeOK
  <2>2. PendingIsLive'
    BY <1>1, <2>1 DEF Registered, PendingIsLive, Closed, TypeOK, SendTypeOK,
       MaybeCall
  <2>3. QED
    BY <1>1, <2>1, <2>2 DEF Registered, AnswerNotLost, Answered, Closed
<1>6. CASE SendDetach(c)
  <2>1. /\ UNCHANGED <<id, chan>> /\ pc'[c] = "returned"
        /\ pc[c] = "detaching"
        /\ pending' = [pending EXCEPT ![id[c]] = NoCall]
        /\ \A d \in Calls \ {c} : pc'[d] = pc[d]
        /\ pending \in [Ids -> MaybeCall] /\ id[c] \in Ids
    BY <1>6, BoundsAssumption DEF SendDetach, OwnId, TypeOK, SendTypeOK, Ids
  <2>2. \A d \in Calls \ {c} : id[d] # id[c]
    BY <2>1, BoundsAssumption DEF Numbering, Ids
  <2>3. PendingIsLive'
    BY <1>1, <2>1, CallsAssumption
    DEF Registered, PendingIsLive, Closed, MaybeCall
  <2>4. ~Closed' => \A d \in Calls :
          pc'[d] \in {"registered", "waiting"} => pending'[id'[d]] = d
    BY <1>1, <2>1, <2>2 DEF Registered, Closed, TypeOK, SendTypeOK
  <2>5. AnswerNotLost'
    BY <1>1, <2>1 DEF Registered, AnswerNotLost, Answered, Closed
  <2>6. QED  BY <2>3, <2>4, <2>5 DEF Registered
<1>7. QED  BY <1>2, <1>3, <1>4, <1>5, <1>6 DEF SendStep

LEMMA RegisteredLoop ==
  ASSUME IndInv, TypeOK', LoopStep
  PROVE  Registered'
<1> USE DEF IndInv
<1>1. UNCHANGED <<wire, id, pc, pending, closing>>  BY LoopFrame
<1>2. PendingIsLive'
      /\ (~Closed' => \A c \in Calls :
            pc'[c] \in {"registered", "waiting"} => pending'[id'[c]] = c)
  BY <1>1 DEF Registered, PendingIsLive, Closed
<1>3. ASSUME NEW c \in Calls, pc[c] = "waiting", ~Closed, Answered(c)'
      PROVE  chan'[c] = c \/ (loop' = "answering" /\ hand'.target = c)
  <2>1. CASE LoopResponse
    <3>1. /\ readPos + 1 \in 1..Len(wire) /\ readPos' = readPos + 1
          /\ readPos \in Nat /\ loop = "reading"
      BY <2>1, NextLine DEF LoopResponse, ReadOneOf, TypeOK, PipeTypeOK
    <3>2. chan' = chan  BY <2>1 DEF LoopResponse, apartFromLoop
    <3>3. CASE Answered(c)
      BY <1>3, <3>1, <3>2, <3>3 DEF Registered, AnswerNotLost
    <3>4. CASE ~Answered(c)
      <4>1. AnswerOf(readPos + 1, c)
        BY <1>1, <1>3, <3>1, <3>4 DEF Answered, AnswerOf
      <4>2. wire[readPos + 1].id = id[c]  BY <3>1, <4>1 DEF Routing, AnswerOf
      <4>3. pending[id[c]] = c  BY <1>3 DEF Registered
      <4>4. loop' = "answering" /\ hand' = AnswerHand(c, c)
        BY <2>1, <4>1, <4>2, <4>3, CallsAssumption DEF LoopResponse, AnswerOf
      <4>5. QED  BY <4>4 DEF AnswerHand, NoHand
    <3>5. QED  BY <3>3, <3>4
  <2>2. CASE LoopAnswer
    <3>1. /\ readPos' = readPos /\ loop = "answering"
          /\ chan' = [chan EXCEPT ![hand.target] = hand.target]
          /\ chan \in [Calls -> MaybeCall]
      BY <2>2 DEF LoopAnswer, Routing, TypeOK, SendTypeOK
    <3>2. Answered(c)  BY <1>1, <1>3, <3>1 DEF Answered
    <3>3. QED  BY <1>3, <3>1, <3>2 DEF Registered, AnswerNotLost
  <2>3. CASE ~LoopResponse /\ ~LoopAnswer
    <3>1. chan' = chan /\ loop # "answering"
      BY <2>3 DEF LoopStep, LoopEOF, LoopReadError, LoopBlank, LoopMalformed,
         LoopUnclassifiable, LoopMessage, LoopDeliver, LoopAbandon,
         LoopReport, LoopCloseChannels, apartFromLoop, ReadOneOf
    <3>2. readPos' = readPos
          \/ (/\ readPos' = readPos + 1
              /\ wire[readPos + 1].kind # "response")
      BY <2>3 DEF LoopStep, LoopEOF, LoopReadError, LoopBlank, LoopMalformed,
         LoopUnclassifiable, LoopMessage, LoopDeliver, LoopAbandon,
         LoopReport, LoopCloseChannels, ReadOneOf, Messages
    <3>3. Answered(c)
      BY <1>1, <1>3, <3>2 DEF Answered, TypeOK, PipeTypeOK
    <3>4. QED  BY <1>3, <3>1, <3>3 DEF Registered, AnswerNotLost
  <2>4. QED  BY <2>1, <2>2, <2>3
<1>4. AnswerNotLost'  BY <1>1, <1>3 DEF AnswerNotLost, Closed
<1>5. QED  BY <1>2, <1>4 DEF Registered

LEMMA RegisteredOther ==
  ASSUME IndInv, TypeOK', OtherStep
  PROVE  Registered'
<1> USE DEF IndInv
<1>1. UNCHANGED <<pc, id, chan, loop, hand, readPos>>  BY OtherFrame
<1>2. \A c \in Calls : Answered(c)' => Answered(c)
  <2>1. wire \in Seq(Lines) /\ readPos \in 0..Len(wire)
    BY DEF TypeOK, PipeTypeOK
  <2>2. \A n \in 1..Len(wire) : wire'[n] = wire[n]
    BY <2>1, WireGrows
  <2>3. QED  BY <1>1, <2>1, <2>2 DEF Answered
<1>3. CASE Closed'
  <2>1. pending' \in [Ids -> {NoCall}]
    <3>1. CASE CloseDrop  BY <3>1 DEF CloseDrop
    <3>2. CASE ~CloseDrop
      <4>1. Closed /\ pending' = pending
        BY <1>3, <3>2 DEF OtherStep, CloseWriter, CloseStop, Take,
           ServerEmit, ServerExit, ServerAnswer, Closed
      <4>2. QED
        BY <4>1 DEF Registered, PendingIsLive, TypeOK, SendTypeOK, MaybeCall
    <3>3. QED  BY <3>1, <3>2
  <2>2. QED  BY <1>3, <2>1 DEF Registered, PendingIsLive, AnswerNotLost
<1>4. CASE ~Closed'
  <2>1. ~Closed /\ pending' = pending
    BY <1>4 DEF OtherStep, CloseDrop, CloseWriter, CloseStop, Take,
       ServerEmit, ServerExit, ServerAnswer, Closed
  <2>2. PendingIsLive'  BY <1>1, <1>4, <2>1 DEF Registered, PendingIsLive
  <2>3. AnswerNotLost'
    BY <1>1, <1>2, <2>1 DEF Registered, AnswerNotLost
  <2>4. QED  BY <1>1, <2>1, <2>2, <2>3 DEF Registered
<1>5. QED  BY <1>3, <1>4

-----------------------------------------------------------------------------
(* The theorems.                                                            *)

LEMMA IndInit == Init => IndInv
<1> SUFFICES ASSUME Init  PROVE IndInv  OBVIOUS
<1> USE DEF Init
<1>1. TypeOK  BY TypeInit
<1>2. Numbering  BY DEF Numbering
<1>3. Routing  BY DEF Routing, OwnAnswer
<1>4. Single  BY DEF Single, AnswerOf
<1>5. Registered  BY DEF Registered, PendingIsLive, AnswerNotLost
<1>6. QED  BY <1>1, <1>2, <1>3, <1>4, <1>5 DEF IndInv

LEMMA IndStep == IndInv /\ [Next]_vars => IndInv'
<1> SUFFICES ASSUME IndInv, [Next]_vars  PROVE IndInv'  OBVIOUS
<1>1. TypeOK' /\ Numbering'  BY TypeStep, NumberingStep DEF IndInv
<1>2. Routing' /\ Single' /\ Registered'
  <2>1. ASSUME NEW c \in Calls, SendStep(c)
        PROVE  Routing' /\ Single' /\ Registered'
    BY <1>1, <2>1, RoutingSend, SingleSend, RegisteredSend
  <2>2. CASE LoopStep
    BY <1>1, <2>2, RoutingLoop, SingleLoop, RegisteredLoop
  <2>3. CASE OtherStep
    BY <1>1, <2>3, RoutingOther, SingleOther, RegisteredOther
  <2>4. CASE UNCHANGED vars
    BY <2>4 DEF vars, IndInv, Routing, OwnAnswer, Single, AnswerOf, Answered,
       Registered, PendingIsLive, AnswerNotLost, Closed
  <2>5. QED  BY <2>1, <2>2, <2>3, <2>4, Steps
<1>3. QED  BY <1>1, <1>2 DEF IndInv

LEMMA Invariance == Spec => []IndInv
<1>1. QED  BY IndInit, IndStep, PTL DEF Spec

\* A Send returns the response to its own request: a response is looked up by
\* id, ids are handed out once, and the server echoes the id it was asked with.
THEOREM OwnAnswerAlways == Spec => []OwnAnswer
<1>1. IndInv => OwnAnswer  BY DEF IndInv, Routing
<1>2. QED  BY <1>1, Invariance, PTL

\* The read loop never blocks on a response (demux.go:425), whether its Send
\* is still waiting, has been cancelled or was swept by Close.
THEOREM AnswerNeverBlocksAlways == Spec => []AnswerNeverBlocks
<1>1. IndInv => AnswerNeverBlocks  BY DEF IndInv, Single, AnswerNeverBlocks
<1>2. QED  BY <1>1, Invariance, PTL

\* Between the lookup under the lock and the send after it, an answer is never
\* lost to a Send that still waits on an open demux.
THEOREM AnswerNotLostAlways == Spec => []AnswerNotLost
<1>1. IndInv => AnswerNotLost  BY DEF IndInv, Registered
<1>2. QED  BY <1>1, Invariance, PTL

\* No entry of the pending table outlives its Send or the sweep of Close.
THEOREM PendingIsLiveAlways == Spec => []PendingIsLive
<1>1. IndInv => PendingIsLive  BY DEF IndInv, Registered
<1>2. QED  BY <1>1, Invariance, PTL
-----------------------------------------------------------------------------
(* What the consumer is handed.                                             *)

Routable(n) == wire[n].kind \in Messages \cup {"response"}
Live == loop \in {"reading", "answering", "delivering"}

\* Every message handed over stands for a line that was read.
InRange == \A k \in DOMAIN Handed : Handed[k].at \in 1..readPos

\* The run of damage a marker stands for is over once the flag is down.
Covered ==
    ~gapQueued => \A k \in DOMAIN Handed :
        Handed[k].kind = "gap" => \E n \in Handed[k].at..readPos : Routable(n)

\* While the flag is up the last thing handed over is the marker.
Marked ==
    gapQueued /\ Live =>
        Len(Handed) > 0 /\ Handed[Len(Handed)].kind = "gap"

Stream == InRange /\ Covered /\ Marked /\ FaithfulStream

LEMMA HandedType ==
  ASSUME TypeOK
  PROVE  /\ Handed \in Seq(ServerMessage) /\ delivered \in Seq(ServerMessage)
         /\ readPos \in Nat /\ Len(wire) \in Nat /\ readPos <= Len(wire)
<1>1. delivered \in Seq(ServerMessage) /\ wire \in Seq(Lines)
      /\ readPos \in 0..Len(wire)
  BY DEF TypeOK, PipeTypeOK
<1>2. loop = "delivering" => Message(hand.kind, hand.at) \in ServerMessage
  BY DEF TypeOK, LoopTypeOK, Message, ServerMessage
<1>3. Handed \in Seq(ServerMessage)  BY <1>1, <1>2 DEF Handed
<1>4. QED  BY <1>1, <1>3

\* A step that reads no line hands over nothing new.
LEMMA StreamIdle ==
  ASSUME TypeOK, Stream, Handed' = Handed, UNCHANGED <<readPos, gapQueued>>,
         \A n \in 1..readPos : wire'[n] = wire[n], Stopped => Stopped',
         Live' => Live
  PROVE  Stream'
<1>1. Handed \in Seq(ServerMessage) /\ readPos \in Nat  BY HandedType
<1>2. \A k \in DOMAIN Handed : Handed[k].at \in 1..readPos
  BY DEF Stream, InRange
<1>3. \A k \in DOMAIN Handed : \A n \in Handed[k].at..readPos :
        n \in 1..readPos
  BY <1>1, <1>2
<1>4. InRange' /\ Marked'  BY DEF Stream, InRange, Marked
<1>5. Covered'
  <2> SUFFICES ASSUME ~gapQueued, NEW k \in DOMAIN Handed, Handed[k].kind = "gap"
               PROVE  \E n \in Handed[k].at..readPos : Routable(n)'
    BY DEF Covered
  <2>1. PICK n \in Handed[k].at..readPos : Routable(n)
    BY DEF Stream, Covered
  <2>2. n \in 1..readPos
    BY <1>3, <2>1
  <2> QED
    BY <2>1, <2>2 DEF Routable
<1>6. MessagesInOrder'
  BY DEF Stream, FaithfulStream, MessagesInOrder
<1>7. DamageIsVisible'
  BY DEF Stream, FaithfulStream, DamageIsVisible
<1>8. OneMarkerPerRun'
  <2> SUFFICES ASSUME NEW j \in DOMAIN Handed, NEW k \in DOMAIN Handed, j < k,
                      Handed[j].kind = "gap", Handed[k].kind = "gap"
               PROVE  \E n \in Handed[j].at..Handed[k].at :
                          wire'[n].kind \in Messages \cup {"response"}
    BY DEF OneMarkerPerRun
  <2>1. PICK n \in Handed[j].at..Handed[k].at :
               wire[n].kind \in Messages \cup {"response"}
    BY DEF Stream, FaithfulStream, OneMarkerPerRun
  <2>2. \A i \in Handed[j].at..Handed[k].at : i \in 1..readPos
    BY <1>1, <1>2
  <2>3. n \in 1..readPos
    BY <2>1, <2>2
  <2> QED
    BY <2>1, <2>3
<1> QED
  BY <1>4, <1>5, <1>6, <1>7, <1>8 DEF Stream, FaithfulStream

\* A marker or message that is dropped with the queue was the last one.
LEMMA StreamAbandon ==
  ASSUME TypeOK, Stream, LoopAbandon
  PROVE  Stream'
<1>1. /\ Handed = Append(delivered, Message(hand.kind, hand.at))
      /\ Handed' = delivered
  BY DEF LoopAbandon, Handed
<1>2. /\ UNCHANGED <<wire, readPos, gapQueued, delivered>> /\ Stopped' /\ ~Live'
  BY DEF LoopAbandon, apartFromLoop, Stopped, Live
<1>3. /\ Handed \in Seq(ServerMessage) /\ delivered \in Seq(ServerMessage)
  BY HandedType
<1>4. \A k \in DOMAIN Handed' : k \in DOMAIN Handed /\ Handed'[k] = Handed[k]
  BY <1>1, <1>3
<1>5. InRange'
  BY <1>2, <1>4 DEF Stream, InRange
<1>6. Covered'
  BY <1>2, <1>4 DEF Stream, Covered, Routable
<1>7. MessagesInOrder'
  BY <1>2, <1>4 DEF Stream, FaithfulStream, MessagesInOrder
<1>8. OneMarkerPerRun'
  BY <1>2, <1>4 DEF Stream, FaithfulStream, OneMarkerPerRun
<1> QED
  BY <1>2, <1>5, <1>6, <1>7, <1>8
  DEF Stream, FaithfulStream, Marked, DamageIsVisible

\* A line that is read and hands over nothing: blank, unreadable, an answer,
\* or damage the marker already stands for.
ReadSilently ==
    /\ Handed' = Handed
    /\ LET k == wire[readPos + 1].kind
       IN  \/ k \in {"blank", "unreadable"} /\ gapQueued' = gapQueued
           \/ k \in Damaged /\ gapQueued /\ gapQueued'
           \/ k = "response" /\ ~gapQueued'

LEMMA StreamSilent ==
  ASSUME TypeOK, Stream, Live, readPos < Len(wire), readPos' = readPos + 1,
         UNCHANGED <<wire, closing>>, ReadSilently
  PROVE  Stream'
<1> DEFINE new == wire[readPos + 1].kind
<1>1. Handed \in Seq(ServerMessage) /\ readPos \in Nat  BY HandedType
<1>2. Stopped' = Stopped  BY DEF Stopped
<1>3. Handed' = Handed /\ InRange' /\ new \notin Messages
  BY <1>1 DEF ReadSilently, Stream, InRange, Messages, Damaged
<1>4. Covered'
  <2> SUFFICES ASSUME ~gapQueued', NEW k \in DOMAIN Handed, Handed[k].kind = "gap"
               PROVE  \E n \in Handed[k].at..readPos + 1 : Routable(n)'
    BY <1>3 DEF Covered
  <2>1. Handed[k].at \in 1..readPos
    BY DEF Stream, InRange
  <2>2. CASE new = "response"
    BY <1>1, <2>1, <2>2 DEF Routable
  <2>3. CASE ~gapQueued
    <3>1. PICK n \in Handed[k].at..readPos : Routable(n)
      BY <2>3 DEF Stream, Covered
    <3> QED
      BY <1>1, <2>1, <3>1 DEF Routable
  <2> QED
    BY <2>2, <2>3 DEF ReadSilently
<1>5. Marked'
  BY <1>3 DEF Stream, Marked, ReadSilently
<1>6. MessagesInOrder'
  BY <1>1, <1>2, <1>3 DEF Stream, FaithfulStream, MessagesInOrder
<1>7. DamageIsVisible'
  <2> SUFFICES ASSUME ~Stopped, NEW n \in 1..readPos + 1, wire[n].kind \in Damaged
               PROVE  \E k \in DOMAIN Handed :
                        /\ Handed[k].kind = "gap" /\ Handed[k].at <= n
                        /\ \A j \in DOMAIN Handed : j > k => Handed[j].at > n
    BY <1>2, <1>3 DEF DamageIsVisible
  <2>1. CASE n \in 1..readPos
    BY <2>1 DEF Stream, FaithfulStream, DamageIsVisible
  <2>2. CASE n = readPos + 1
    <3>1. gapQueued
      BY <2>2 DEF ReadSilently, Damaged
    <3>2. Len(Handed) > 0 /\ Handed[Len(Handed)].kind = "gap"
      BY <3>1 DEF Stream, Marked
    <3>3. Len(Handed) \in DOMAIN Handed /\ Len(Handed) \in Nat
          /\ \A j \in DOMAIN Handed : ~(j > Len(Handed))
      BY <1>1, <3>2
    <3>4. Handed[Len(Handed)].at <= n
      BY <1>1, <2>2, <3>3 DEF Stream, InRange
    <3> QED
      BY <3>2, <3>3, <3>4
  <2> QED
    BY <1>1, <2>1, <2>2
<1>8. OneMarkerPerRun'
  BY <1>3 DEF Stream, FaithfulStream, OneMarkerPerRun
<1> QED
  BY <1>3, <1>4, <1>5, <1>6, <1>7, <1>8 DEF Stream, FaithfulStream

\* A line that is read and handed over: a message, or a marker for the first
\* damage since something routable.
ReadAloud(k) ==
    /\ Handed' = Append(Handed, Message(k, readPos + 1))
    /\ \/ k \in Messages /\ wire[readPos + 1].kind = k /\ ~gapQueued'
       \/ /\ k = "gap" /\ wire[readPos + 1].kind \in Damaged
          /\ ~gapQueued /\ gapQueued'

LEMMA StreamAloud ==
  ASSUME TypeOK, Stream, readPos < Len(wire), readPos' = readPos + 1,
         UNCHANGED <<wire, closing>>, NEW k, ReadAloud(k)
  PROVE  Stream'
<1> DEFINE last == Len(Handed) + 1
<1>1. Handed \in Seq(ServerMessage) /\ readPos \in Nat /\ Len(Handed) \in Nat
  BY HandedType
<1>2. Stopped' = Stopped  BY DEF Stopped
<1>3. k \in Messages \cup {"gap"} /\ "gap" \notin Messages
  BY DEF ReadAloud, Messages
<1>4. /\ DOMAIN Handed = 1..Len(Handed)
      /\ DOMAIN Handed' = 1..last
      /\ \A j \in DOMAIN Handed : j \in 1..last /\ j < last /\ Handed'[j] = Handed[j]
      /\ \A j \in 1..last : j \in DOMAIN Handed \/ j = last
      /\ last \in 1..last
      /\ Handed'[last] = Message(k, readPos + 1)
  BY <1>1 DEF ReadAloud
<1>5. Handed'[last].kind = k /\ Handed'[last].at = readPos + 1
  BY <1>4 DEF Message
<1>6. \A j \in DOMAIN Handed : Handed[j].at \in 1..readPos
  BY DEF Stream, InRange
<1>7. InRange'
  BY <1>1, <1>4, <1>5, <1>6 DEF InRange
<1>8. Covered'
  <2> SUFFICES ASSUME ~gapQueued', NEW j \in 1..last, Handed'[j].kind = "gap"
               PROVE  \E n \in Handed'[j].at..readPos + 1 : Routable(n)'
    BY <1>4 DEF Covered
  <2>1. k \in Messages /\ Routable(readPos + 1)
    BY DEF ReadAloud, Routable
  <2>2. j \in DOMAIN Handed /\ Handed'[j].at \in 1..readPos
    BY <1>3, <1>4, <1>5, <1>6, <2>1
  <2> QED
    BY <1>1, <2>1, <2>2 DEF Routable
<1>9. Marked'
  <2>1. Len(Handed)' = last
    BY <1>1, <1>4 DEF ReadAloud
  <2>2. gapQueued' => k = "gap"
    BY <1>3 DEF ReadAloud
  <2> QED
    BY <1>1, <1>5, <2>1, <2>2 DEF Marked
<1>10. MessagesInOrder'
  <2>1. \A i, j \in 1..last : i < j => Handed'[i].at < Handed'[j].at
    <3> SUFFICES ASSUME NEW i \in 1..last, NEW j \in 1..last, i < j
                 PROVE  Handed'[i].at < Handed'[j].at
      OBVIOUS
    <3>1. i \in DOMAIN Handed
      BY <1>1, <1>4
    <3>2. CASE j = last
      BY <1>1, <1>4, <1>5, <1>6, <3>1, <3>2
    <3>3. CASE j \in DOMAIN Handed
      BY <1>4, <3>1, <3>3 DEF Stream, FaithfulStream, MessagesInOrder
    <3> QED
      BY <1>4, <3>2, <3>3
  <2>2. ASSUME ~Stopped, NEW n \in 1..readPos + 1, wire[n].kind \in Messages
        PROVE  \E j \in 1..last : Handed'[j] = Message(wire[n].kind, n)
    <3>1. CASE n \in 1..readPos
      <4>1. PICK j \in DOMAIN Handed : Handed[j] = Message(wire[n].kind, n)
        BY <2>2, <3>1 DEF Stream, FaithfulStream, MessagesInOrder
      <4> QED
        BY <1>4, <4>1
    <3>2. CASE n = readPos + 1
      <4>1. wire[n].kind = k
        BY <2>2, <3>2 DEF ReadAloud, Damaged, Messages
      <4> QED
        BY <1>4, <3>2, <4>1
    <3> QED
      BY <1>1, <3>1, <3>2
  <2> QED
    BY <1>2, <1>4, <2>1, <2>2 DEF MessagesInOrder
<1>11. DamageIsVisible'
  <2> SUFFICES ASSUME ~Stopped, NEW n \in 1..readPos + 1, wire[n].kind \in Damaged
               PROVE  \E i \in 1..last :
                        /\ Handed'[i].kind = "gap" /\ Handed'[i].at <= n
                        /\ \A j \in 1..last : j > i => Handed'[j].at > n
    BY <1>2, <1>4 DEF DamageIsVisible
  <2>1. CASE n \in 1..readPos
    <3>1. PICK i \in DOMAIN Handed :
                 /\ Handed[i].kind = "gap" /\ Handed[i].at <= n
                 /\ \A j \in DOMAIN Handed : j > i => Handed[j].at > n
      BY <2>1 DEF Stream, FaithfulStream, DamageIsVisible
    <3>2. \A j \in 1..last : j > i => Handed'[j].at > n
      BY <1>1, <1>4, <1>5, <2>1, <3>1
    <3> QED
      BY <1>4, <3>1, <3>2
  <2>2. CASE n = readPos + 1
    <3>1. k = "gap"
      BY <2>2 DEF ReadAloud, Damaged, Messages
    <3>2. \A j \in 1..last : ~(j > last)
      BY <1>1
    <3> QED
      BY <1>1, <1>4, <1>5, <2>2, <3>1, <3>2
  <2> QED
    BY <1>1, <2>1, <2>2
<1>12. OneMarkerPerRun'
  <2> SUFFICES ASSUME NEW i \in 1..last, NEW j \in 1..last, i < j,
                      Handed'[i].kind = "gap", Handed'[j].kind = "gap"
               PROVE  \E n \in Handed'[i].at..Handed'[j].at :
                          wire[n].kind \in Messages \cup {"response"}
    BY <1>4 DEF OneMarkerPerRun
  <2>1. i \in DOMAIN Handed
    BY <1>1, <1>4
  <2>2. CASE j \in DOMAIN Handed
    BY <1>4, <2>1, <2>2 DEF Stream, FaithfulStream, OneMarkerPerRun
  <2>3. CASE j = last
    <3>1. ~gapQueued
      BY <1>3, <1>5, <2>3 DEF ReadAloud
    <3>2. PICK n \in Handed[i].at..readPos : Routable(n)
      BY <1>4, <2>1, <3>1 DEF Stream, Covered
    <3>3. n \in Handed'[i].at..Handed'[j].at
      BY <1>1, <1>4, <1>5, <1>6, <2>1, <2>3, <3>2
    <3> QED
      BY <3>2, <3>3 DEF Routable
  <2> QED
    BY <1>4, <2>2, <2>3
<1> QED
  BY <1>7, <1>8, <1>9, <1>10, <1>11, <1>12 DEF Stream, FaithfulStream

\* Every step of the loop reads a line silently or aloud, gives up the
\* message in its hand, or leaves what it handed over alone.
LEMMA LoopReads ==
  ASSUME TypeOK, LoopStep
  PROVE  \/ LoopAbandon
         \/ /\ Handed' = Handed /\ UNCHANGED <<readPos, gapQueued>>
            /\ Live' => Live
         \/ /\ loop = "reading" /\ readPos < Len(wire) /\ readPos' = readPos + 1
            /\ \/ ReadSilently
               \/ \E k \in Messages \cup {"gap"} : ReadAloud(k)
<1> USE DEF apartFromLoop, loopVars, sendVars, Handed, Live, ReadOneOf
<1>1. CASE LoopEOF \/ LoopAnswer \/ LoopDeliver \/ LoopReport \/ LoopCloseChannels
  BY <1>1 DEF LoopEOF, LoopAnswer, LoopDeliver, DeliverInOrder, LoopReport,
     LoopCloseChannels
<1>2. CASE LoopReadError \/ LoopBlank
  BY <1>2 DEF LoopReadError, LoopBlank, ReadSilently
<1>3. CASE LoopMalformed
  <2>1. CASE gapQueued
    BY <1>3, <2>1 DEF LoopMalformed, ReadSilently, Damaged
  <2>2. CASE ~gapQueued
    <3>1. ReadAloud("gap")
      BY <1>3, <2>2 DEF LoopMalformed, ReadAloud, Damaged, MessageHand, NoHand
    <3> QED
      BY <1>3, <3>1 DEF LoopMalformed
  <2> QED
    BY <2>1, <2>2
<1>4. CASE LoopUnclassifiable
  <2>1. CASE gapQueued
    BY <1>4, <2>1 DEF LoopUnclassifiable, NextGapQueued, ReadSilently, Damaged
  <2>2. CASE ~gapQueued
    <3>1. ReadAloud("gap")
      BY <1>4, <2>2 DEF LoopUnclassifiable, NextGapQueued, ReadAloud, Damaged,
         MessageHand, NoHand
    <3> QED
      BY <1>4, <3>1 DEF LoopUnclassifiable
  <2> QED
    BY <2>1, <2>2
<1>5. CASE LoopMessage
  <2>1. ReadAloud(wire[readPos + 1].kind) /\ wire[readPos + 1].kind \in Messages
    BY <1>5 DEF LoopMessage, NextGapQueued, ReadAloud, MessageHand, NoHand,
       Messages
  <2> QED
    BY <1>5, <2>1 DEF LoopMessage
<1>6. CASE LoopResponse
  BY <1>6 DEF LoopResponse, NextGapQueued, ReadSilently
<1> QED
  BY <1>1, <1>2, <1>3, <1>4, <1>5, <1>6 DEF LoopStep

\* Close, the consumer and the server hand nothing over.
LEMMA WireKept ==
  ASSUME TypeOK, OtherStep
  PROVE  \A n \in 1..Len(wire) : wire'[n] = wire[n]
<1>1. wire \in Seq(Lines)  BY DEF TypeOK, PipeTypeOK
<1> QED
  BY <1>1, WireGrows

LEMMA StreamStep == TypeOK /\ Stream /\ [Next]_vars => Stream'
<1> SUFFICES ASSUME TypeOK, Stream, [Next]_vars PROVE Stream'
  OBVIOUS
<1>1. readPos \in Nat /\ Len(wire) \in Nat /\ readPos <= Len(wire)
  BY HandedType
<1>2. ASSUME NEW c \in Calls, SendStep(c)
      PROVE  Stream'
  <2>1. UNCHANGED <<loop, hand, delivered, closing, readPos, gapQueued, wire>>
    BY <1>2, SendFrame
  <2>2. Handed' = Handed /\ Stopped' = Stopped /\ Live' = Live
    BY <2>1 DEF Handed, Stopped, Live
  <2> QED
    BY <2>1, <2>2, StreamIdle
<1>3. CASE LoopStep
  <2>1. UNCHANGED <<closing, wire>>
    BY <1>3, LoopFrame
  <2>2. Stopped' = Stopped
    BY <2>1 DEF Stopped
  <2>3. CASE LoopAbandon
    BY <2>3, StreamAbandon
  <2>4. CASE Handed' = Handed /\ UNCHANGED <<readPos, gapQueued>> /\ (Live' => Live)
    BY <2>1, <2>2, <2>4, StreamIdle
  <2>5. CASE /\ loop = "reading" /\ readPos < Len(wire) /\ readPos' = readPos + 1
             /\ ReadSilently
    BY <2>1, <2>5, StreamSilent DEF Live
  <2>6. CASE /\ loop = "reading" /\ readPos < Len(wire) /\ readPos' = readPos + 1
             /\ \E k \in Messages \cup {"gap"} : ReadAloud(k)
    BY <2>1, <2>6, StreamAloud
  <2> QED
    BY <1>3, <2>3, <2>4, <2>5, <2>6, LoopReads
<1>4. CASE OtherStep
  <2>1. UNCHANGED <<loop, hand, delivered, readPos, gapQueued>>
    BY <1>4 DEF OtherStep, CloseDrop, CloseWriter, CloseStop, Take, ServerEmit,
       ServerExit, ServerAnswer, loopVars
  <2>2. Handed' = Handed /\ Live' = Live
    BY <2>1 DEF Handed, Live
  <2>3. Stopped => Stopped'
    BY <1>4 DEF OtherStep, CloseDrop, CloseWriter, CloseStop, Take, ServerEmit,
       ServerExit, ServerAnswer, Stopped
  <2>4. \A n \in 1..readPos : wire'[n] = wire[n]
    BY <1>1, <1>4, WireKept
  <2> QED
    BY <2>1, <2>2, <2>3, <2>4, StreamIdle
<1>5. CASE UNCHANGED vars
  <2>1. UNCHANGED <<loop, hand, delivered, closing, readPos, gapQueued, wire>>
    BY <1>5 DEF vars
  <2>2. Handed' = Handed /\ Stopped' = Stopped /\ Live' = Live
    BY <2>1 DEF Handed, Stopped, Live
  <2> QED
    BY <2>1, <2>2, StreamIdle
<1> QED
  BY <1>2, <1>3, <1>4, <1>5, Steps

LEMMA StreamInit == Init => Stream
<1> SUFFICES ASSUME Init PROVE Stream
  OBVIOUS
<1>1. Handed = <<>> /\ readPos = 0 /\ gapQueued = FALSE
  BY DEF Init, Handed
<1> QED
  BY <1>1 DEF Stream, InRange, Covered, Marked, FaithfulStream, MessagesInOrder,
     DamageIsVisible, OneMarkerPerRun

\* Until Close the consumer is handed every message in the order the server
\* wrote them and a marker for every run of damage, one for each run.
THEOREM FaithfulStreamAlways == Spec => []FaithfulStream
<1>1. Stream => FaithfulStream  BY DEF Stream
<1>2. QED  BY <1>1, StreamInit, StreamStep, TypeCorrect, PTL DEF Spec
-----------------------------------------------------------------------------
(* Why the loop ended.                                                      *)

IsGarbage(n) == wire[n].kind \in {"malformed", "blank"}
Malformed(m, n) == {i \in m..n : wire[i].kind = "malformed"}

\* The run of garbage the counter stands for starts at line m.
RunFrom(m) ==
    /\ m \in 1..readPos + 1
    /\ \A n \in m..readPos : IsGarbage(n)
    /\ m = 1 \/ ~IsGarbage(m - 1)
    /\ Cardinality(Malformed(m, readPos)) = consecutive

\* The counter is the length of the last run, and the loop stops counting
\* when it reaches the threshold.
Counted ==
    /\ exitErr # "read" => \E m \in 1..readPos + 1 : RunFrom(m)
    /\ consecutive <= MaxParseErrors
    /\ killed = IF consecutive = MaxParseErrors THEN 1 ELSE 0
    /\ consecutive = MaxParseErrors =>
          loop \notin {"reading", "answering"} /\ exitErr # "read"

ReadFailed == readPos > 0 /\ wire[readPos].kind = "unreadable"

\* The error the loop carries, and where it has been reported.
Explained ==
    /\ exitErr = "read" <=> ReadFailed
    /\ exitErr = "read" => ~Live
    /\ Live \/ ~Stopped => (exitErr = "giveUp" <=> killed = 1)
    /\ loopErr = IF loop \in {"closing", "exited"} THEN <<exitErr>> ELSE <<>>

Ended == Counted /\ Explained

LEMMA MalformedFinite ==
  ASSUME NEW m \in Nat, NEW n \in Nat
  PROVE  /\ IsFiniteSet(Malformed(m, n)) /\ Cardinality(Malformed(m, n)) \in Nat
<1>1. IsFiniteSet(m..n)
  BY FS_Interval
<1>2. Malformed(m, n) \subseteq m..n
  BY DEF Malformed
<1>3. IsFiniteSet(Malformed(m, n))
  BY <1>1, <1>2, FS_Subset
<1> QED
  BY <1>3, FS_CardinalityType

\* The longest run has the most malformed lines: the loop has seen sustained
\* garbage exactly when its own counter says so.
LEMMA RunDecides ==
  ASSUME TypeOK, Counted, Explained
  PROVE  GiveUpIsEarned
<1>1. readPos \in Nat /\ MaxParseErrors \in Nat \ {0} /\ consecutive \in Nat
  BY HandedType, BoundsAssumption DEF TypeOK, LoopTypeOK
<1>2. CASE exitErr = "read"
  <2>1. readPos > 0 /\ wire[readPos].kind = "unreadable" /\ exitErr # "giveUp"
    BY <1>2 DEF Explained, ReadFailed
  <2>2. ~SustainedGarbage
    <3>1. \A m \in 1..readPos : readPos \in m..readPos
      BY <1>1
    <3>2. wire[readPos].kind \notin {"malformed", "blank"}
      BY <2>1
    <3> QED
      BY <3>1, <3>2 DEF SustainedGarbage
  <2>3. consecutive # MaxParseErrors
    BY <1>2 DEF Counted
  <2> QED
    BY <2>2, <2>3 DEF Counted, GiveUpIsEarned
<1>3. CASE exitErr # "read"
  <2>1. PICK m \in 1..readPos + 1 : RunFrom(m)
    BY <1>3 DEF Counted
  <2>2. m \in Nat
    BY <1>1, <2>1
  <2>3. CASE consecutive = MaxParseErrors
    <3>1. Cardinality(Malformed(m, readPos)) # 0
      BY <1>1, <2>1, <2>3 DEF RunFrom
    <3>2. Malformed(m, readPos) # {}
      BY <3>1, FS_EmptySet
    <3>3. m \in 1..readPos
      BY <1>1, <2>1, <3>2 DEF Malformed
    <3>4. SustainedGarbage
      BY <2>1, <2>3, <3>3 DEF SustainedGarbage, RunFrom, IsGarbage, Malformed
    <3> QED
      BY <2>3, <3>4 DEF Counted, GiveUpIsEarned
  <2>4. CASE consecutive # MaxParseErrors
    <3>1. consecutive < MaxParseErrors
      BY <1>1, <2>4 DEF Counted
    <3>2. ASSUME NEW i \in 1..readPos, \A n \in i..readPos : IsGarbage(n)
          PROVE  Cardinality(Malformed(i, readPos)) # MaxParseErrors
      <4>1. m <= i
        <5>1. m # 1 => ~IsGarbage(m - 1)
          BY <2>1 DEF RunFrom
        <5> QED
          BY <1>1, <2>1, <3>2, <5>1
      <4>2. Malformed(i, readPos) \subseteq Malformed(m, readPos)
        BY <1>1, <2>1, <4>1 DEF Malformed
      <4>3. Cardinality(Malformed(i, readPos)) <= consecutive
        BY <1>1, <2>1, <2>2, <4>2, MalformedFinite, FS_Subset DEF RunFrom
      <4>4. Cardinality(Malformed(i, readPos)) \in Nat
        BY <1>1, MalformedFinite
      <4> QED
        BY <1>1, <3>1, <4>3, <4>4
    <3>3. ~SustainedGarbage
      BY <3>2 DEF SustainedGarbage, IsGarbage, Malformed
    <3> QED
      BY <2>4, <3>3 DEF Counted, GiveUpIsEarned
  <2> QED
    BY <2>3, <2>4
<1> QED
  BY <1>2, <1>3

\* What is behind the loop does not change under it.
LEMMA RunKept ==
  ASSUME TypeOK, UNCHANGED <<readPos, consecutive>>,
         \A n \in 1..readPos : wire'[n] = wire[n], NEW m, RunFrom(m)
  PROVE  RunFrom(m)'
<1>1. readPos \in Nat /\ m \in 1..readPos + 1
  BY HandedType DEF RunFrom
<1>2. \A n \in m..readPos : n \in 1..readPos
  BY <1>1
<1>3. m # 1 => m - 1 \in 1..readPos
  BY <1>1
<1>4. Malformed(m, readPos)' = Malformed(m, readPos)
  <2>1. Malformed(m, readPos)' = {i \in m..readPos' : wire'[i].kind = "malformed"}
    BY DEF Malformed
  <2> QED
    BY <1>2, <2>1 DEF Malformed
<1> QED
  BY <1>1, <1>2, <1>3, <1>4 DEF RunFrom, IsGarbage

\* The next line lengthens the run, or starts another.
LEMMA RunStep ==
  ASSUME TypeOK, readPos < Len(wire), readPos' = readPos + 1, UNCHANGED wire,
         exitErr # "read", Counted,
         \/ wire[readPos + 1].kind = "malformed" /\ consecutive' = consecutive + 1
         \/ wire[readPos + 1].kind = "blank" /\ consecutive' = consecutive
         \/ ~IsGarbage(readPos + 1) /\ consecutive' = 0
  PROVE  \E m \in 1..readPos' + 1 : RunFrom(m)'
<1> DEFINE new == readPos + 1
<1>1. readPos \in Nat /\ new \in Nat /\ consecutive \in Nat
  BY HandedType DEF TypeOK, LoopTypeOK
<1>2. \A m : RunFrom(m)' <=>
        /\ m \in 1..new + 1
        /\ \A n \in m..new : IsGarbage(n)
        /\ m = 1 \/ ~IsGarbage(m - 1)
        /\ Cardinality(Malformed(m, new)) = consecutive'
  BY DEF RunFrom, IsGarbage, Malformed
<1>3. CASE ~IsGarbage(new) /\ consecutive' = 0
  <2>1. Malformed(new + 1, new) = {}
    BY <1>1 DEF Malformed
  <2>2. Cardinality(Malformed(new + 1, new)) = 0
    BY <2>1, FS_EmptySet
  <2>3. PICK m : m = new + 1
    OBVIOUS
  <2>4. m \in 1..new + 1 /\ m - 1 = new /\ m..new = {}
    BY <1>1, <2>3
  <2>5. RunFrom(m)'
    BY <1>2, <1>3, <2>2, <2>3, <2>4
  <2> QED
    BY <2>4, <2>5
<1>4. CASE IsGarbage(new)
  <2>1. PICK m \in 1..readPos + 1 : RunFrom(m)
    BY DEF Counted
  <2>2. m \in Nat /\ m \in 1..new + 1
    BY <1>1, <2>1
  <2>3. \A n \in m..new : IsGarbage(n)
    BY <1>1, <1>4, <2>1 DEF RunFrom
  <2>4. m = 1 \/ ~IsGarbage(m - 1)
    BY <2>1 DEF RunFrom
  <2>5. /\ IsFiniteSet(Malformed(m, readPos)) /\ new \notin Malformed(m, readPos)
        /\ Cardinality(Malformed(m, readPos)) = consecutive
    <3>1. IsFiniteSet(Malformed(m, readPos))
      BY <1>1, <2>2, MalformedFinite
    <3>2. Cardinality(Malformed(m, readPos)) = consecutive
      BY <2>1 DEF RunFrom
    <3>3. new \notin m..readPos
      BY <1>1, <2>2
    <3>4. new \notin Malformed(m, readPos)
      BY <3>3 DEF Malformed
    <3> QED
      BY <3>1, <3>2, <3>4
  <2>6. Cardinality(Malformed(m, new)) = consecutive'
    <3>1. CASE wire[new].kind = "malformed" /\ consecutive' = consecutive + 1
      <4>1. Malformed(m, new) = Malformed(m, readPos) \cup {new}
        BY <1>1, <2>1, <3>1 DEF Malformed
      <4> QED
        BY <2>5, <3>1, <4>1, FS_AddElement
    <3>2. CASE wire[new].kind = "blank" /\ consecutive' = consecutive
      <4>1. Malformed(m, new) = Malformed(m, readPos)
        BY <1>1, <2>1, <3>2 DEF Malformed
      <4> QED
        BY <2>5, <3>2, <4>1
    <3> QED
      BY <1>4, <3>1, <3>2
  <2>7. RunFrom(m)'
    BY <1>2, <2>2, <2>3, <2>4, <2>6
  <2> QED
    BY <2>2, <2>7
<1> QED
  BY <1>3, <1>4 DEF IsGarbage

\* A step that reads no line explains the end as it was explained before.
LEMMA EndedIdle ==
  ASSUME TypeOK, Ended, UNCHANGED <<readPos, consecutive, killed, exitErr>>,
         \A n \in 1..readPos : wire'[n] = wire[n], Stopped => Stopped',
         Live' => Live, loop' \in {"reading", "answering"} =>
                            loop \in {"reading", "answering"} \/ exitErr = "nil",
         loopErr' = IF loop' \in {"closing", "exited"} THEN <<exitErr>> ELSE <<>>
  PROVE  Ended'
<1>1. readPos \in Nat  BY HandedType
<1>2. exitErr # "read" => \E m \in 1..readPos + 1 : RunFrom(m)'
  BY RunKept DEF Ended, Counted
<1>3. ReadFailed' = ReadFailed
  BY <1>1 DEF ReadFailed
<1>4. consecutive = MaxParseErrors =>
        loop' \notin {"reading", "answering"} /\ exitErr # "read"
  <2>1. consecutive = MaxParseErrors => exitErr # "read"
    BY DEF Ended, Counted
  <2> SUFFICES ASSUME consecutive = MaxParseErrors,
                      loop' \in {"reading", "answering"}
               PROVE  FALSE
    BY <2>1
  <2>2. exitErr = "nil" /\ Live
    BY DEF Ended, Counted, Live
  <2> QED
    BY <2>2 DEF Ended, Counted, Explained
<1>5. Counted'
  BY <1>2, <1>4 DEF Ended, Counted
<1>6. Explained'
  BY <1>3 DEF Ended, Explained
<1> QED
  BY <1>5, <1>6 DEF Ended

\* A step that reads a line while nothing is wrong.
LEMMA EndedRead ==
  ASSUME TypeOK, Ended, loop = "reading", readPos < Len(wire),
         readPos' = readPos + 1, UNCHANGED <<wire, closing, loopErr>>,
         loop' \notin {"closing", "exited"},
         \/ /\ wire[readPos + 1].kind = "malformed"
            /\ consecutive' = consecutive + 1
            /\ IF consecutive + 1 >= MaxParseErrors
               THEN /\ killed' = killed + 1 /\ exitErr' = "giveUp"
                    /\ loop' \notin {"reading", "answering"}
               ELSE UNCHANGED <<killed, exitErr>>
         \/ /\ wire[readPos + 1].kind = "blank"
            /\ UNCHANGED <<consecutive, killed, exitErr>>
         \/ /\ wire[readPos + 1].kind \notin {"malformed", "blank", "unreadable"}
            /\ consecutive' = 0 /\ UNCHANGED <<killed, exitErr>>
  PROVE  Ended'
<1>1. /\ readPos \in Nat /\ readPos + 1 > 0 /\ consecutive \in Nat
      /\ MaxParseErrors \in Nat \ {0} /\ exitErr \in {"nil", "read", "giveUp"}
  BY HandedType, BoundsAssumption DEF TypeOK, LoopTypeOK
<1>2. /\ consecutive < MaxParseErrors /\ killed = 0 /\ exitErr = "nil"
      /\ loopErr = <<>>
  BY <1>1 DEF Ended, Counted, Explained, Live
<1>3. \E m \in 1..readPos' + 1 : RunFrom(m)'
  BY <1>2, RunStep DEF Ended, IsGarbage
<1>4. ~ReadFailed' /\ exitErr' # "read"
  BY <1>1, <1>2 DEF ReadFailed
<1>5. /\ consecutive' <= MaxParseErrors
      /\ killed' = IF consecutive' = MaxParseErrors THEN 1 ELSE 0
      /\ consecutive' = MaxParseErrors =>
            loop' \notin {"reading", "answering"} /\ exitErr' # "read"
      /\ exitErr' = "giveUp" <=> killed' = 1
  BY <1>1, <1>2
<1>6. Counted'
  BY <1>3, <1>5 DEF Counted
<1>7. Explained'
  BY <1>2, <1>4, <1>5 DEF Explained
<1> QED
  BY <1>6, <1>7 DEF Ended

LEMMA EndedLoop ==
  ASSUME TypeOK, Ended, LoopStep
  PROVE  Ended'
<1>1. UNCHANGED <<wire, closing>> /\ Stopped' = Stopped
  BY LoopFrame DEF Stopped
<1>2. loopErr = IF loop \in {"closing", "exited"} THEN <<exitErr>> ELSE <<>>
  BY DEF Ended, Explained
<1>3. CASE LoopEOF \/ LoopAnswer \/ LoopCloseChannels
  BY <1>1, <1>2, <1>3, EndedIdle DEF LoopEOF, LoopAnswer, LoopCloseChannels, Live
<1>4. CASE LoopDeliver
  BY <1>1, <1>2, <1>4, EndedIdle DEF LoopDeliver, Live
<1>5. CASE LoopReport
  BY <1>1, <1>2, <1>5, EndedIdle DEF LoopReport, Live
<1>6. CASE LoopAbandon
  <2>1. /\ UNCHANGED <<readPos, consecutive, killed, loopErr>> /\ exitErr' = "nil"
        /\ loop = "delivering" /\ loop' = "exiting" /\ Stopped
    BY <1>6 DEF LoopAbandon
  <2>2. exitErr # "read" /\ ~ReadFailed /\ ReadFailed' = ReadFailed
    BY <1>1, <2>1 DEF Ended, Explained, Live, ReadFailed
  <2>3. \E m \in 1..readPos + 1 : RunFrom(m)'
    BY <1>1, <2>1, <2>2, RunKept DEF Ended, Counted
  <2>4. Counted'
    BY <2>1, <2>3 DEF Ended, Counted
  <2>5. Explained'
    BY <1>1, <1>2, <2>1, <2>2 DEF Explained, Live
  <2> QED
    BY <2>4, <2>5 DEF Ended
<1>7. CASE LoopReadError
  <2>1. /\ loop = "reading" /\ readPos' = readPos + 1 /\ exitErr' = "read"
        /\ wire[readPos + 1].kind = "unreadable" /\ loop' = "exiting"
        /\ UNCHANGED <<consecutive, killed, loopErr>>
    BY <1>7 DEF LoopReadError, ReadOneOf
  <2>2. consecutive # MaxParseErrors /\ killed = 0
    BY <2>1 DEF Ended, Counted
  <2>3. ReadFailed'
    BY <1>1, <2>1, HandedType DEF ReadFailed
  <2>4. Counted'
    BY <2>1, <2>2 DEF Ended, Counted
  <2>5. Explained'
    BY <1>2, <2>1, <2>2, <2>3 DEF Explained, Live
  <2> QED
    BY <2>4, <2>5 DEF Ended
<1>8. CASE LoopBlank
  BY <1>1, <1>8, EndedRead DEF LoopBlank, loopVars, ReadOneOf
<1>9. CASE LoopMalformed
  BY <1>1, <1>9, EndedRead DEF LoopMalformed, GivesUp, ReadOneOf
<1>10. CASE LoopUnclassifiable
  BY <1>1, <1>10, EndedRead DEF LoopUnclassifiable, ReadOneOf
<1>11. CASE LoopMessage
  BY <1>1, <1>11, EndedRead DEF LoopMessage, ReadOneOf, Messages
<1>12. CASE LoopResponse
  BY <1>1, <1>12, EndedRead DEF LoopResponse, ReadOneOf
<1> QED
  BY <1>3, <1>4, <1>5, <1>6, <1>7, <1>8, <1>9, <1>10, <1>11, <1>12 DEF LoopStep

LEMMA EndedStep == TypeOK /\ Ended /\ [Next]_vars => Ended'
<1> SUFFICES ASSUME TypeOK, Ended, [Next]_vars PROVE Ended'
  OBVIOUS
<1>1. readPos \in Nat /\ Len(wire) \in Nat /\ readPos <= Len(wire)
  BY HandedType
<1>2. loopErr = IF loop \in {"closing", "exited"} THEN <<exitErr>> ELSE <<>>
  BY DEF Ended, Explained
<1>3. ASSUME NEW c \in Calls, SendStep(c)
      PROVE  Ended'
  <2>1. UNCHANGED <<loop, consecutive, killed, exitErr, loopErr, closing, readPos,
                    wire>>
    BY <1>3, SendFrame
  <2> QED
    BY <1>2, <2>1, EndedIdle DEF Stopped, Live
<1>4. CASE LoopStep
  BY <1>4, EndedLoop
<1>5. CASE OtherStep
  <2>1. UNCHANGED <<loop, consecutive, killed, exitErr, loopErr, readPos>>
    BY <1>5 DEF OtherStep, CloseDrop, CloseWriter, CloseStop, Take, ServerEmit,
       ServerExit, ServerAnswer, loopVars
  <2>2. Stopped => Stopped'
    BY <1>5 DEF OtherStep, CloseDrop, CloseWriter, CloseStop, Take, ServerEmit,
       ServerExit, ServerAnswer, Stopped
  <2>3. \A n \in 1..readPos : wire'[n] = wire[n]
    BY <1>1, <1>5, WireKept
  <2> QED
    BY <1>2, <2>1, <2>2, <2>3, EndedIdle DEF Live
<1>6. CASE UNCHANGED vars
  <2>1. UNCHANGED <<loop, consecutive, killed, exitErr, loopErr, closing, readPos,
                    wire>>
    BY <1>6 DEF vars
  <2> QED
    BY <1>2, <2>1, EndedIdle DEF Stopped, Live
<1> QED
  BY <1>3, <1>4, <1>5, <1>6, Steps

LEMMA EndedInit == Init => Ended
<1> SUFFICES ASSUME Init PROVE Ended
  OBVIOUS
<1>1. /\ readPos = 0 /\ consecutive = 0 /\ exitErr = "nil" /\ loop = "reading"
      /\ killed = 0 /\ loopErr = <<>>
  BY DEF Init
<1>2. MaxParseErrors \in Nat \ {0}
  BY BoundsAssumption
<1>3. Malformed(1, 0) = {}
  BY DEF Malformed
<1>4. RunFrom(1)
  BY <1>1, <1>3, FS_EmptySet DEF RunFrom
<1>5. Counted
  BY <1>1, <1>2, <1>4 DEF Counted
<1>6. Explained
  BY <1>1 DEF Explained, ReadFailed
<1> QED
  BY <1>5, <1>6 DEF Ended

\* The process is killed exactly when MaxParseErrors undecodable lines came in
\* a row, and a consumer that finds the channels closed finds one error there
\* which, until Close, names the cause.
THEOREM EndIsExplainedAlways == Spec => []EndIsExplained
<1>1. TypeOK /\ Ended => EndIsExplained
  <2> SUFFICES ASSUME TypeOK, Ended PROVE EndIsExplained
    OBVIOUS
  <2>1. GiveUpIsEarned
    BY RunDecides DEF Ended
  <2>2. killed \in {0, 1} /\ exitErr \in {"nil", "read", "giveUp"}
    BY DEF Ended, Counted, TypeOK, LoopTypeOK
  <2>3. exitErr = "read" <=> readPos > 0 /\ wire[readPos].kind = "unreadable"
    BY DEF Ended, Explained, ReadFailed
  <2>4. ASSUME loop = "exited"
        PROVE  /\ Len(loopErr) = 1 /\ loopErr[1] = exitErr
               /\ ~Stopped => (exitErr = "giveUp" <=> killed = 1)
    BY <2>4 DEF Ended, Explained
  <2> QED
    BY <2>1, <2>2, <2>3, <2>4 DEF EndIsExplained
<1> QED
  BY <1>1, EndedInit, EndedStep, TypeCorrect, PTL DEF Spec


-----------------------------------------------------------------------------
(* The demux inside.                                                        *)

\* Steps of the client that touch the demux not at all.
ClientStep ==
    \/ ConnectStep \/ DispatcherLeaves
    \/ CallbackCloses \/ CallbackReturns
    \/ ApplicationCloses \/ CloseStep \/ CloseExpires

LEMMA ClientStutters == ClientStep => UNCHANGED vars
BY DEF ClientStep, ConnectStep, ConnectAnnounces, StartDispatcher,
   DispatcherLeaves, CallbackCloses, CallbackReturns, ApplicationCloses,
   CloseStep, CloseCancels, CloseWaits, CloseWaited, CloseExpires

LEMMA MultiplexerSteps == Multiplexer => Next
BY DEF Multiplexer, SendGoesOn, Next, SendStep

LEMMA DemuxStep == [DispatcherNext]_allVars => [Next]_vars
<1> SUFFICES ASSUME [DispatcherNext]_allVars  PROVE [Next]_vars  OBVIOUS
<1>1. CASE ConnectSends
  BY <1>1, HelloAssumption DEF ConnectSends, Next, SendStep
<1>2. ASSUME NEW c \in Calls, CallerSends(c) \/ CallbackSends(c)
      PROVE  [Next]_vars
  BY <1>2 DEF CallerSends, CallbackSends, Next, SendStep
<1>3. CASE DispatchNotification \/ DispatchRequest
  BY <1>3 DEF DispatchNotification, DispatchRequest, Next
<1>4. CASE CloseDemux  BY <1>4 DEF CloseDemux, Next
<1>5. CASE Multiplexer  BY <1>5, MultiplexerSteps
<1>6. CASE ClientStep  BY <1>6, ClientStutters
<1>7. CASE AllQuiet \/ UNCHANGED allVars  BY <1>7 DEF AllQuiet, allVars
<1>8. QED
  BY <1>1, <1>2, <1>3, <1>4, <1>5, <1>6, <1>7 DEF DispatcherNext, ClientStep

\* Connect, the dispatcher, its callback, the callers and Close together use
\* the demux as its specification allows: what is proved of Demux holds of it
\* inside the client.
THEOREM DispatcherUsesDemux == DispatcherSpec => Spec
<1>1. DispatcherInit => Init  BY DEF DispatcherInit
<1>2. QED  BY <1>1, DemuxStep, PTL DEF DispatcherSpec, Spec

\* Every Send of the client, that of Connect and one inside a callback
\* included, gets its own answer and none is lost on an open demux.
THEOREM ClientCallsAreAnswered ==
    DispatcherSpec => [](OwnAnswer /\ AnswerNotLost)
BY DispatcherUsesDemux, OwnAnswerAlways, AnswerNotLostAlways, PTL

-----------------------------------------------------------------------------
(* Close and the callback.                                                  *)

\* Once Close has looked for a dispatcher, there is one only if it was seen.
CloserKnows ==
    closer \in {"stopping", "waiting", "returned"} =>
        waits \/ disp \in {"none", "left"}

FinalInv == CloserKnows /\ CloseIsFinal

LEMMA FinalInit == DispatcherInit => FinalInv
BY DEF DispatcherInit, FinalInv, CloserKnows, CloseIsFinal

\* Only startDispatcher makes a dispatcher, and not after Close has begun.
LEMMA NoneStarts ==
  ASSUME [DispatcherNext]_allVars, ClientClosed, disp \in {"none", "left"}
  PROVE  disp' = disp
<1>1. CASE ConnectStep
  BY <1>1 DEF ConnectStep, ConnectAnnounces, StartDispatcher, MayStart
<1>2. CASE ~ConnectStep
  BY <1>2 DEF DispatcherNext, ConnectSends, CallerSends, CallbackSends,
     DispatchNotification, DispatchRequest, DispatcherLeaves, CallbackCloses,
     CallbackReturns, ApplicationCloses, CloseStep, CloseCancels, CloseWaits,
     CloseWaited, CloseExpires, CloseDemux, Multiplexer, AllQuiet, allVars,
     clientVars
<1>3. QED  BY <1>1, <1>2

\* The steps that change what Close knows and waits for.
CloserStep ==
    CallbackCloses \/ ApplicationCloses \/ CloseStep \/ CloseExpires

LEMMA CloserFrame ==
  ASSUME [DispatcherNext]_allVars, ~CloserStep
  PROVE  UNCHANGED <<closer, waits, expired>>
BY DEF CloserStep, DispatcherNext, ConnectSends, ConnectStep,
   ConnectAnnounces, StartDispatcher, CallerSends, CallbackSends,
   DispatchNotification, DispatchRequest, DispatcherLeaves, CallbackReturns,
   CloseDemux, Multiplexer, AllQuiet, allVars, clientVars

LEMMA FinalStep == FinalInv /\ [DispatcherNext]_allVars => FinalInv'
<1> SUFFICES ASSUME FinalInv, [DispatcherNext]_allVars
             PROVE  FinalInv'
  OBVIOUS
<1> USE DEF FinalInv, CloserKnows, CloseIsFinal
<1>1. CASE ~CloserStep
  <2>1. UNCHANGED <<closer, waits, expired>>  BY <1>1, CloserFrame
  <2>2. CASE closer = "idle" \/ closer = "snapshotting"  BY <2>1, <2>2
  <2>3. CASE closer # "idle" /\ disp \in {"none", "left"}
    <3>1. disp' = disp  BY <2>3, NoneStarts DEF ClientClosed
    <3>2. QED  BY <2>1, <2>3, <3>1
  <2>4. CASE closer # "idle" /\ disp \notin {"none", "left"}
    BY <2>1, <2>4
  <2>5. QED  BY <2>2, <2>3, <2>4
<1>2. CASE CallbackCloses \/ ApplicationCloses
  BY <1>2 DEF CallbackCloses, ApplicationCloses
<1>3. CASE CloseCancels
  BY <1>3 DEF CloseCancels, HasDispatcher
<1>4. CASE CloseWaits  BY <1>4 DEF CloseWaits
<1>5. CASE CloseWaited  BY <1>5 DEF CloseWaited
<1>6. CASE CloseExpires  BY <1>6 DEF CloseExpires, MayExpire
<1>7. QED
  BY <1>1, <1>2, <1>3, <1>4, <1>5, <1>6 DEF CloserStep, CloseStep

\* A Close that returned without error left no dispatcher behind, at whichever
\* step of Connect or of a callback it came: no callback runs after it.
THEOREM CloseIsAlwaysFinal == DispatcherSpec => []CloseIsFinal
<1>1. FinalInv => CloseIsFinal  BY DEF FinalInv
<1>2. QED  BY <1>1, FinalInit, FinalStep, PTL DEF DispatcherSpec
=============================================================================
