---------------------------- MODULE AppServerProofs ----------------------------
(****************************************************************************)
(* Proofs about AppServer, for any number of callers of Close, any number   *)
(* of spawn attempts and any output: a returned Close is a barrier, and     *)
(* what the client is told of the end is what happened.                     *)
(****************************************************************************)
EXTENDS AppServer, TLAPS

-----------------------------------------------------------------------------
(* The inductive invariant.                                                 *)

\* watchExit has reaped the child once it is past cmd.Wait, and has taken ready
\* back before it gives the value that Close waits for.
Reaped ==
    /\ watch = "none" <=> process = "none"
    /\ watch \in {"recording", "publishing", "done"} <=> process = "reaped"
    /\ watch \in {"none", "publishing", "done"} => ~ready
    /\ waitDone => watch = "done"

\* The caller that runs doClose ends only with that value.
Finishing ==
    \A j \in Closers :
        /\ xpc[j] \in {"drainingErr", "returned"} => watch = "done"
        /\ xpc[j] = "waiting" => once \in Closers

\* Close closes the input only after it has said so: a child that exits before
\* the mark does so with its input open.
Marked ==
    /\ \A j \in Closers :
          xpc[j] \in {"closingPipes", "grace", "terminated", "killed"} =>
              shutdownReq
    /\ ~stdin => shutdownReq
    /\ process \in {"exited", "reaped"} => early \/ shutdownReq
    /\ report # <<>> \/ lastErr = "exit" => process = "reaped"

\* A clean end of the stream is the end of all that was written.
EndSeen == loop = "eof" => AtEnd("out")

ExitInv == TypeOK /\ Reaped /\ Finishing /\ Marked /\ EndSeen /\ RequestedIsHonest

-----------------------------------------------------------------------------
(* It holds at first, and every step keeps it.                              *)

CloseLabels == {"idle", "waiting", "marking", "closingPipes", "grace",
                "terminated", "killed", "drainingErr", "returned"}

\* Nothing has been spawned.
LEMMA ExitInit == Init => ExitInv
<1> SUFFICES ASSUME Init PROVE ExitInv
  OBVIOUS
<1> USE LimitsAssumption DEF Init
<1>1. TypeOK
  <2>1. wrote \in [Pipes -> 0 .. MaxOutput] /\ read \in [Pipes -> 0 .. MaxOutput]
    OBVIOUS
  <2>2. xpc \in [Closers -> CloseLabels]
    BY DEF CloseLabels
  <2>3. \A p \in Pipes : read[p] <= wrote[p]
    OBVIOUS
  <2>4. attempt \in 1 .. MaxAttempts
    OBVIOUS
  <2>5. /\ stdin \in BOOLEAN /\ pipeClosed \in BOOLEAN /\ ready \in BOOLEAN
        /\ shutdownReq \in BOOLEAN /\ waitDone \in BOOLEAN
        /\ killed \in BOOLEAN /\ early \in BOOLEAN /\ signals \subseteq {"INT"}
    OBVIOUS
  <2>6. /\ process = "none" <=> connect # "up"
        /\ once \in Closers \cup {NoCloser}
    OBVIOUS
  <2> HIDE DEF Init
  <2>7. /\ connect = "spawning" /\ process = "none" /\ exitCode = "none"
        /\ heirs = "none" /\ drain = "none" /\ loop = "none"
        /\ watch = "none" /\ lastErr = "none"
    BY DEF Init
  <2> QED
    BY <2>1, <2>2, <2>3, <2>4, <2>5, <2>6, <2>7 DEF TypeOK, CloseLabels
<1>2. Reaped /\ Finishing /\ Marked /\ EndSeen /\ RequestedIsHonest
  BY DEF Reaped, Finishing, Marked, EndSeen, RequestedIsHonest
<1> QED
  BY <1>1, <1>2 DEF ExitInv

\* Every step keeps the types.
LEMMA TypeStep == ExitInv /\ Next => TypeOK'
<1> SUFFICES ASSUME ExitInv, Next PROVE TypeOK'
  OBVIOUS
<1> USE LimitsAssumption DEF ExitInv, TypeOK, Pipes,
        connecting, child, pipes, state, watching, closing, notClosing
<1>1. CASE SpawnBusy
  BY <1>1 DEF SpawnBusy
<1>2. CASE SpawnFails
  BY <1>2 DEF SpawnFails
<1>3. CASE Spawned
  BY <1>3 DEF Spawned
<1>4. ASSUME NEW p \in Pipes, Writes(p) PROVE TypeOK'
  BY <1>4 DEF Writes
<1>5. CASE Inherits
  BY <1>5 DEF Inherits
<1>6. CASE HeirsExit
  BY <1>6 DEF HeirsExit
<1>7. ASSUME NEW code \in {"clean", "nonzero"}, Exits(code) PROVE TypeOK'
  BY <1>7 DEF Exits
<1>8. CASE Copy
  BY <1>8 DEF Copy
<1>9. CASE LoopReads
  BY <1>9 DEF LoopReads
<1>10. CASE LoopEnds
  BY <1>10 DEF LoopEnds, LoopEnd, AtEnd
<1>11. CASE GivesUp
  BY <1>11 DEF GivesUp, FirstError
<1>12. CASE WatchDrained
  BY <1>12 DEF WatchDrained
<1>13. CASE WatchTimesOut
  BY <1>13 DEF WatchTimesOut
<1>14. CASE Reap
  BY <1>14 DEF Reap
<1>15. CASE Record
  <2> USE <1>15 DEF Record
  <2>1. lastErr' \in {"none", "giveUp", "exit"}
    BY DEF FirstError
  <2>2. ready' \in BOOLEAN
    BY DEF ReadyWhenReaped
  <2>3. watch' = "publishing"
    OBVIOUS
  <2> QED
    BY <2>1, <2>2, <2>3
<1>16. CASE Publish
  BY <1>16 DEF Publish
<1>17. ASSUME NEW j \in Closers, CloseBegins(j) PROVE TypeOK'
  BY <1>17 DEF CloseBegins, XGoto
<1>18. ASSUME NEW j \in Closers, OnceDone(j) PROVE TypeOK'
  BY <1>18 DEF OnceDone, XGoto
<1>19. ASSUME NEW j \in Closers, Mark(j) PROVE TypeOK'
  BY <1>19 DEF Mark, XGoto, Requested
<1>20. ASSUME NEW j \in Closers, ClosePipes(j) PROVE TypeOK'
  <2> USE <1>20 DEF ClosePipes
  <2>1. xpc' \in [Closers -> CloseLabels]
    BY DEF XGoto, CloseLabels
  <2>2. signals' \subseteq {"INT"}
    OBVIOUS
  <2>3. stdin' \in BOOLEAN /\ waitDone' \in BOOLEAN /\ killed' \in BOOLEAN
    OBVIOUS
  <2> QED
    BY <2>1, <2>2, <2>3 DEF CloseLabels
<1>21. ASSUME NEW j \in Closers, ExitSeen(j) PROVE TypeOK'
  <2> USE <1>21 DEF ExitSeen
  <2>1. xpc' \in [Closers -> CloseLabels]
    BY DEF XGoto, CloseLabels
  <2>2. signals' \subseteq {"INT"}
    OBVIOUS
  <2>3. stdin' \in BOOLEAN /\ waitDone' \in BOOLEAN /\ killed' \in BOOLEAN
    OBVIOUS
  <2> QED
    BY <2>1, <2>2, <2>3 DEF CloseLabels
<1>22. ASSUME NEW j \in Closers, CloseReturns(j) PROVE TypeOK'
  BY <1>22 DEF CloseReturns, XGoto
<1>23. ASSUME NEW j \in Closers, Escalate(j) PROVE TypeOK'
  <2> USE <1>23 DEF Escalate
  <2>1. xpc' \in [Closers -> CloseLabels]
    BY DEF XGoto, CloseLabels
  <2>2. signals' \subseteq {"INT"}
    OBVIOUS
  <2>3. stdin' \in BOOLEAN /\ waitDone' \in BOOLEAN /\ killed' \in BOOLEAN
    OBVIOUS
  <2> QED
    BY <2>1, <2>2, <2>3 DEF CloseLabels
<1> QED
  BY <1>1, <1>2, <1>3, <1>4, <1>5, <1>6, <1>7, <1>8, <1>9, <1>10, <1>11,
     <1>12, <1>13, <1>14, <1>15, <1>16, <1>17, <1>18, <1>19, <1>20, <1>21,
     <1>22, <1>23
     DEF Next, LoopStep, WatchStep, CloseStep

\* The child is reaped before ready is taken back and Close told.
LEMMA ReapedStep == ExitInv /\ Next => Reaped'
<1> SUFFICES ASSUME ExitInv, Next PROVE Reaped'
  OBVIOUS
<1> USE LimitsAssumption DEF ExitInv, TypeOK, Reaped,
        connecting, child, pipes, state, watching, closing, notClosing
<1>1. CASE SpawnBusy
  BY <1>1 DEF SpawnBusy
<1>2. CASE SpawnFails
  BY <1>2 DEF SpawnFails
<1>3. CASE Spawned
  BY <1>3 DEF Spawned
<1>4. ASSUME NEW p \in Pipes, Writes(p) PROVE Reaped'
  BY <1>4 DEF Writes
<1>5. CASE Inherits
  BY <1>5 DEF Inherits
<1>6. CASE HeirsExit
  BY <1>6 DEF HeirsExit
<1>7. ASSUME NEW code \in {"clean", "nonzero"}, Exits(code) PROVE Reaped'
  BY <1>7 DEF Exits
<1>8. CASE Copy
  BY <1>8 DEF Copy
<1>9. CASE LoopReads
  BY <1>9 DEF LoopReads
<1>10. CASE LoopEnds
  BY <1>10 DEF LoopEnds, LoopEnd, AtEnd
<1>11. CASE GivesUp
  BY <1>11 DEF GivesUp, FirstError
<1>12. CASE WatchDrained
  BY <1>12 DEF WatchDrained
<1>13. CASE WatchTimesOut
  BY <1>13 DEF WatchTimesOut
<1>14. CASE Reap
  BY <1>14 DEF Reap
<1>15. CASE Record
  BY <1>15 DEF Record, FirstError, ReadyWhenReaped
<1>16. CASE Publish
  BY <1>16 DEF Publish
<1>17. ASSUME NEW j \in Closers, CloseBegins(j) PROVE Reaped'
  BY <1>17 DEF CloseBegins, XGoto
<1>18. ASSUME NEW j \in Closers, OnceDone(j) PROVE Reaped'
  BY <1>18 DEF OnceDone, XGoto
<1>19. ASSUME NEW j \in Closers, Mark(j) PROVE Reaped'
  BY <1>19 DEF Mark, XGoto, Requested
<1>20. ASSUME NEW j \in Closers, ClosePipes(j) PROVE Reaped'
  BY <1>20 DEF ClosePipes, XGoto
<1>21. ASSUME NEW j \in Closers, ExitSeen(j) PROVE Reaped'
  BY <1>21 DEF ExitSeen, XGoto
<1>22. ASSUME NEW j \in Closers, CloseReturns(j) PROVE Reaped'
  BY <1>22 DEF CloseReturns, XGoto
<1>23. ASSUME NEW j \in Closers, Escalate(j) PROVE Reaped'
  BY <1>23 DEF Escalate, XGoto
<1> QED
  BY <1>1, <1>2, <1>3, <1>4, <1>5, <1>6, <1>7, <1>8, <1>9, <1>10, <1>11,
     <1>12, <1>13, <1>14, <1>15, <1>16, <1>17, <1>18, <1>19, <1>20, <1>21,
     <1>22, <1>23
     DEF Next, LoopStep, WatchStep, CloseStep

\* Close ends with the value of watchExit, for each caller.
LEMMA FinishingStep == ExitInv /\ Next => Finishing'
<1> SUFFICES ASSUME ExitInv, Next PROVE Finishing'
  OBVIOUS
<1> USE LimitsAssumption DEF ExitInv, TypeOK, Reaped, Finishing,
        connecting, child, pipes, state, watching, closing, notClosing
<1>1. CASE SpawnBusy
  BY <1>1 DEF SpawnBusy
<1>2. CASE SpawnFails
  BY <1>2 DEF SpawnFails
<1>3. CASE Spawned
  BY <1>3 DEF Spawned
<1>4. ASSUME NEW p \in Pipes, Writes(p) PROVE Finishing'
  BY <1>4 DEF Writes
<1>5. CASE Inherits
  BY <1>5 DEF Inherits
<1>6. CASE HeirsExit
  BY <1>6 DEF HeirsExit
<1>7. ASSUME NEW code \in {"clean", "nonzero"}, Exits(code) PROVE Finishing'
  BY <1>7 DEF Exits
<1>8. CASE Copy
  BY <1>8 DEF Copy
<1>9. CASE LoopReads
  BY <1>9 DEF LoopReads
<1>10. CASE LoopEnds
  BY <1>10 DEF LoopEnds, LoopEnd, AtEnd
<1>11. CASE GivesUp
  BY <1>11 DEF GivesUp, FirstError
<1>12. CASE WatchDrained
  BY <1>12 DEF WatchDrained
<1>13. CASE WatchTimesOut
  BY <1>13 DEF WatchTimesOut
<1>14. CASE Reap
  BY <1>14 DEF Reap
<1>15. CASE Record
  BY <1>15 DEF Record, FirstError, ReadyWhenReaped
<1>16. CASE Publish
  BY <1>16 DEF Publish
<1>17. ASSUME NEW j \in Closers, CloseBegins(j) PROVE Finishing'
  BY <1>17 DEF CloseBegins, XGoto
<1>18. ASSUME NEW j \in Closers, OnceDone(j) PROVE Finishing'
  BY <1>18 DEF OnceDone, XGoto
<1>19. ASSUME NEW j \in Closers, Mark(j) PROVE Finishing'
  BY <1>19 DEF Mark, XGoto, Requested
<1>20. ASSUME NEW j \in Closers, ClosePipes(j) PROVE Finishing'
  BY <1>20 DEF ClosePipes, XGoto
<1>21. ASSUME NEW j \in Closers, ExitSeen(j) PROVE Finishing'
  BY <1>21 DEF ExitSeen, XGoto
<1>22. ASSUME NEW j \in Closers, CloseReturns(j) PROVE Finishing'
  BY <1>22 DEF CloseReturns, XGoto
<1>23. ASSUME NEW j \in Closers, Escalate(j) PROVE Finishing'
  BY <1>23 DEF Escalate, XGoto
<1> QED
  BY <1>1, <1>2, <1>3, <1>4, <1>5, <1>6, <1>7, <1>8, <1>9, <1>10, <1>11,
     <1>12, <1>13, <1>14, <1>15, <1>16, <1>17, <1>18, <1>19, <1>20, <1>21,
     <1>22, <1>23
     DEF Next, LoopStep, WatchStep, CloseStep

\* Whatever makes the child exit, Close has marked before.
LEMMA MarkedStep == ExitInv /\ Next => Marked'
<1> SUFFICES ASSUME ExitInv, Next PROVE Marked'
  OBVIOUS
<1> USE LimitsAssumption DEF ExitInv, TypeOK, Reaped, Marked,
        connecting, child, pipes, state, watching, closing, notClosing
<1>1. CASE SpawnBusy
  BY <1>1 DEF SpawnBusy
<1>2. CASE SpawnFails
  BY <1>2 DEF SpawnFails
<1>3. CASE Spawned
  BY <1>3 DEF Spawned
<1>4. ASSUME NEW p \in Pipes, Writes(p) PROVE Marked'
  BY <1>4 DEF Writes
<1>5. CASE Inherits
  BY <1>5 DEF Inherits
<1>6. CASE HeirsExit
  BY <1>6 DEF HeirsExit
<1>7. ASSUME NEW code \in {"clean", "nonzero"}, Exits(code) PROVE Marked'
  BY <1>7 DEF Exits
<1>8. CASE Copy
  BY <1>8 DEF Copy
<1>9. CASE LoopReads
  BY <1>9 DEF LoopReads
<1>10. CASE LoopEnds
  BY <1>10 DEF LoopEnds, LoopEnd, AtEnd
<1>11. CASE GivesUp
  BY <1>11 DEF GivesUp, FirstError
<1>12. CASE WatchDrained
  BY <1>12 DEF WatchDrained
<1>13. CASE WatchTimesOut
  BY <1>13 DEF WatchTimesOut
<1>14. CASE Reap
  BY <1>14 DEF Reap
<1>15. CASE Record
  BY <1>15 DEF Record, FirstError, ReadyWhenReaped
<1>16. CASE Publish
  BY <1>16 DEF Publish
<1>17. ASSUME NEW j \in Closers, CloseBegins(j) PROVE Marked'
  BY <1>17 DEF CloseBegins, XGoto
<1>18. ASSUME NEW j \in Closers, OnceDone(j) PROVE Marked'
  BY <1>18 DEF OnceDone, XGoto
<1>19. ASSUME NEW j \in Closers, Mark(j) PROVE Marked'
  BY <1>19 DEF Mark, XGoto, Requested
<1>20. ASSUME NEW j \in Closers, ClosePipes(j) PROVE Marked'
  BY <1>20 DEF ClosePipes, XGoto
<1>21. ASSUME NEW j \in Closers, ExitSeen(j) PROVE Marked'
  BY <1>21 DEF ExitSeen, XGoto
<1>22. ASSUME NEW j \in Closers, CloseReturns(j) PROVE Marked'
  BY <1>22 DEF CloseReturns, XGoto
<1>23. ASSUME NEW j \in Closers, Escalate(j) PROVE Marked'
  BY <1>23 DEF Escalate, XGoto
<1> QED
  BY <1>1, <1>2, <1>3, <1>4, <1>5, <1>6, <1>7, <1>8, <1>9, <1>10, <1>11,
     <1>12, <1>13, <1>14, <1>15, <1>16, <1>17, <1>18, <1>19, <1>20, <1>21,
     <1>22, <1>23
     DEF Next, LoopStep, WatchStep, CloseStep

\* What was read to the end stays the end.
LEMMA EndStep == ExitInv /\ Next => EndSeen'
<1> SUFFICES ASSUME ExitInv, Next PROVE EndSeen'
  OBVIOUS
<1> USE LimitsAssumption DEF ExitInv, TypeOK, Pipes, EndSeen,
        connecting, child, pipes, state, watching, closing, notClosing, AtEnd
<1>1. CASE SpawnBusy
  BY <1>1 DEF SpawnBusy
<1>2. CASE SpawnFails
  BY <1>2 DEF SpawnFails
<1>3. CASE Spawned
  BY <1>3 DEF Spawned
<1>4. ASSUME NEW p \in Pipes, Writes(p) PROVE EndSeen'
  BY <1>4 DEF Writes
<1>5. CASE Inherits
  BY <1>5 DEF Inherits
<1>6. CASE HeirsExit
  BY <1>6 DEF HeirsExit
<1>7. ASSUME NEW code \in {"clean", "nonzero"}, Exits(code) PROVE EndSeen'
  BY <1>7 DEF Exits
<1>8. CASE Copy
  BY <1>8 DEF Copy
<1>9. CASE LoopReads
  BY <1>9 DEF LoopReads
<1>10. CASE LoopEnds
  BY <1>10 DEF LoopEnds, LoopEnd, AtEnd
<1>11. CASE GivesUp
  BY <1>11 DEF GivesUp, FirstError
<1>12. CASE WatchDrained
  BY <1>12 DEF WatchDrained
<1>13. CASE WatchTimesOut
  BY <1>13 DEF WatchTimesOut
<1>14. CASE Reap
  BY <1>14 DEF Reap
<1>15. CASE Record
  BY <1>15 DEF Record, FirstError, ReadyWhenReaped
<1>16. CASE Publish
  BY <1>16 DEF Publish
<1>17. ASSUME NEW j \in Closers, CloseBegins(j) PROVE EndSeen'
  BY <1>17 DEF CloseBegins, XGoto
<1>18. ASSUME NEW j \in Closers, OnceDone(j) PROVE EndSeen'
  BY <1>18 DEF OnceDone, XGoto
<1>19. ASSUME NEW j \in Closers, Mark(j) PROVE EndSeen'
  BY <1>19 DEF Mark, XGoto, Requested
<1>20. ASSUME NEW j \in Closers, ClosePipes(j) PROVE EndSeen'
  BY <1>20 DEF ClosePipes, XGoto
<1>21. ASSUME NEW j \in Closers, ExitSeen(j) PROVE EndSeen'
  BY <1>21 DEF ExitSeen, XGoto
<1>22. ASSUME NEW j \in Closers, CloseReturns(j) PROVE EndSeen'
  BY <1>22 DEF CloseReturns, XGoto
<1>23. ASSUME NEW j \in Closers, Escalate(j) PROVE EndSeen'
  BY <1>23 DEF Escalate, XGoto
<1> QED
  BY <1>1, <1>2, <1>3, <1>4, <1>5, <1>6, <1>7, <1>8, <1>9, <1>10, <1>11,
     <1>12, <1>13, <1>14, <1>15, <1>16, <1>17, <1>18, <1>19, <1>20, <1>21,
     <1>22, <1>23
     DEF Next, LoopStep, WatchStep, CloseStep

\* The observer and GetError are told what happened.
LEMMA HonestStep == ExitInv /\ Next => RequestedIsHonest'
<1> SUFFICES ASSUME ExitInv, Next PROVE RequestedIsHonest'
  OBVIOUS
<1> USE LimitsAssumption DEF ExitInv, TypeOK, Reaped, Marked, RequestedIsHonest,
        connecting, child, pipes, state, watching, closing, notClosing
<1>1. CASE SpawnBusy
  BY <1>1 DEF SpawnBusy
<1>2. CASE SpawnFails
  BY <1>2 DEF SpawnFails
<1>3. CASE Spawned
  BY <1>3 DEF Spawned
<1>4. ASSUME NEW p \in Pipes, Writes(p) PROVE RequestedIsHonest'
  BY <1>4 DEF Writes
<1>5. CASE Inherits
  BY <1>5 DEF Inherits
<1>6. CASE HeirsExit
  BY <1>6 DEF HeirsExit
<1>7. ASSUME NEW code \in {"clean", "nonzero"}, Exits(code) PROVE RequestedIsHonest'
  BY <1>7 DEF Exits
<1>8. CASE Copy
  BY <1>8 DEF Copy
<1>9. CASE LoopReads
  BY <1>9 DEF LoopReads
<1>10. CASE LoopEnds
  BY <1>10 DEF LoopEnds, LoopEnd, AtEnd
<1>11. CASE GivesUp
  BY <1>11 DEF GivesUp, FirstError
<1>12. CASE WatchDrained
  BY <1>12 DEF WatchDrained
<1>13. CASE WatchTimesOut
  BY <1>13 DEF WatchTimesOut
<1>14. CASE Reap
  BY <1>14 DEF Reap
<1>15. CASE Record
  BY <1>15 DEF Record, FirstError, ReadyWhenReaped
<1>16. CASE Publish
  BY <1>16 DEF Publish
<1>17. ASSUME NEW j \in Closers, CloseBegins(j) PROVE RequestedIsHonest'
  BY <1>17 DEF CloseBegins, XGoto
<1>18. ASSUME NEW j \in Closers, OnceDone(j) PROVE RequestedIsHonest'
  BY <1>18 DEF OnceDone, XGoto
<1>19. ASSUME NEW j \in Closers, Mark(j) PROVE RequestedIsHonest'
  BY <1>19 DEF Mark, XGoto, Requested
<1>20. ASSUME NEW j \in Closers, ClosePipes(j) PROVE RequestedIsHonest'
  BY <1>20 DEF ClosePipes, XGoto
<1>21. ASSUME NEW j \in Closers, ExitSeen(j) PROVE RequestedIsHonest'
  BY <1>21 DEF ExitSeen, XGoto
<1>22. ASSUME NEW j \in Closers, CloseReturns(j) PROVE RequestedIsHonest'
  BY <1>22 DEF CloseReturns, XGoto
<1>23. ASSUME NEW j \in Closers, Escalate(j) PROVE RequestedIsHonest'
  BY <1>23 DEF Escalate, XGoto
<1> QED
  BY <1>1, <1>2, <1>3, <1>4, <1>5, <1>6, <1>7, <1>8, <1>9, <1>10, <1>11,
     <1>12, <1>13, <1>14, <1>15, <1>16, <1>17, <1>18, <1>19, <1>20, <1>21,
     <1>22, <1>23
     DEF Next, LoopStep, WatchStep, CloseStep

\* ExitInv is inductive.
LEMMA ExitInductive == Spec => []ExitInv
<1>1. ExitInv /\ [Next]_vars => ExitInv'
  <2> SUFFICES ASSUME ExitInv, [Next]_vars PROVE ExitInv'
    OBVIOUS
  <2>1. CASE Next
    BY <2>1, TypeStep, ReapedStep, FinishingStep, MarkedStep, EndStep,
       HonestStep DEF ExitInv
  <2>2. CASE UNCHANGED vars
    <3> USE <2>2 DEF vars, connecting, child, pipes, state, watching, closing,
                     ExitInv
    <3>1. TypeOK'
      BY DEF TypeOK
    <3>2. (Reaped /\ Finishing /\ Marked)'
      BY DEF Reaped, Finishing, Marked
    <3>3. (EndSeen /\ RequestedIsHonest)'
      BY DEF EndSeen, AtEnd, RequestedIsHonest
    <3> QED
      BY <3>1, <3>2, <3>3
  <2> QED
    BY <2>1, <2>2
<1> QED
  BY ExitInit, <1>1, PTL DEF Spec

-----------------------------------------------------------------------------
(* The theorems.                                                            *)

\* Every variable of the transport keeps its type.
THEOREM TransportTypes == Spec => []TypeOK
<1>1. ExitInv => TypeOK
  BY DEF ExitInv
<1> QED
  BY ExitInductive, <1>1, PTL

\* Whoever called Close, once it has returned the child is reaped and Health no
\* longer says ready.
THEOREM CloseIsAlwaysABarrier == Spec => []CloseIsABarrier
<1>1. ExitInv => CloseIsABarrier
  BY DEF ExitInv, Finishing, Reaped, CloseIsABarrier
<1> QED
  BY ExitInductive, <1>1, PTL

\* The observer and GetError call an exit unexpected only if it came before
\* Close did anything to the child, and a stream that ends cleanly is complete.
THEOREM EndIsAlwaysHonest == Spec => []EndIsHonest
<1>1. ExitInv => EndIsHonest
  BY DEF ExitInv, EndIsHonest, EndSeen, AtEnd, CleanEndIsComplete
<1> QED
  BY ExitInductive, <1>1, PTL
=============================================================================
