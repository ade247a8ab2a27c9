---------------------------- MODULE ThreadHistory ----------------------------
(****************************************************************************)
(* thread_history.go: a caller that reads a persisted thread window by      *)
(* window with GetThreadMessages, which asks for the whole thread each time *)
(* and cuts the window itself, while the thread grows.                      *)
(*                                                                          *)
(* An item of the history is its kind and its place; its text is left out.  *)
(****************************************************************************)
EXTENDS Naturals, Integers, Sequences, FiniteSets, SequencesExt

CONSTANTS
    MaxItems, \* bound: items in the history
    Limit     \* GetThreadMessagesOptions.Limit, 0 for no limit

ASSUME HistoryAssumption == MaxItems \in Nat /\ Limit \in Nat

VARIABLES
    history, \* the items the app-server has persisted
    got,     \* the messages the caller has collected
    reading, \* the caller: paging, done, refused
    newest   \* the history its last call saw

historyVars == <<history, got, reading, newest>>

ItemKinds == {"userMessage", "agentMessage", "reasoning"}

HistoryInit ==
    /\ history = <<>> /\ got = <<>> /\ newest = <<>>
    /\ reading = "paging"

\* The app-server (external) appends what a turn produces.
ItemPersisted ==
    /\ Len(history) < MaxItems
    /\ \E k \in ItemKinds :
          history' = Append(history, [kind |-> k, at |-> Len(history) + 1])
    /\ UNCHANGED <<got, reading, newest>>

-----------------------------------------------------------------------------
\* threadMessageFromItem tells the messages from the other items.
IsMessage(item) == item.kind \in {"userMessage", "agentMessage"}
Messages(items) ==
    LET upTo[n \in 0 .. Len(items)] ==
            IF n = 0 THEN <<>>
            ELSE IF IsMessage(items[n]) THEN Append(upTo[n - 1], items[n])
            ELSE upTo[n - 1]
    IN  upTo[Len(items)]

\* applyThreadMessageWindow.  Mutant: an offset behind the end starts again.
WrapsOffset(offset, n) == IF offset >= n THEN 0 ELSE offset
FromOffset(offset, n) == IF offset < 0 THEN 0 ELSE offset

Window(values, offset) ==
    LET from == FromOffset(offset, Len(values))
        rest == SubSeq(values, from + 1, Len(values))
    IN  IF Limit > 0 /\ Limit < Len(rest) THEN SubSeq(rest, 1, Limit) ELSE rest

\* GetThreadMessages: ReadThread with the turns, then the window.  The caller
\* goes on behind what it has until a window is not full.
NextWindow ==
    /\ reading = "paging"
    /\ LET window == Window(Messages(history), Len(got))
       IN  /\ got' = got \o window
           /\ reading' = IF Len(window) < Limit \/ Limit = 0 THEN "done"
                         ELSE "paging"
    /\ newest' = history
    /\ UNCHANGED history

\* ReadThread refuses a thread id that is blank, an RPC error and a thread it
\* cannot parse; nothing is returned then.
ReadFails ==
    /\ reading = "paging"
    /\ reading' = "refused"
    /\ UNCHANGED <<history, got, newest>>

HistoryNext == ItemPersisted \/ NextWindow \/ ReadFails

HistorySpec == HistoryInit /\ [][HistoryNext]_historyVars

-----------------------------------------------------------------------------
\* The windows tile: what was collected is what one call would have returned
\* at the last reading, from the start, without a gap or a repetition, and all
\* of it once a window came back short.
WindowsTile ==
    /\ IsPrefix(got, Messages(newest))
    /\ reading = "done" => got = Messages(newest)
=============================================================================
