------------------------------ MODULE MCCommands ------------------------------
(****************************************************************************)
(* Four of the client's commands, and the buffers of child processes, which *)
(* share nothing but the client: one of them runs, the others stay as they  *)
(* began.                                                                   *)
(****************************************************************************)
EXTENDS ConfigWrites, ThreadHistory, TerminalInventory, RuntimeDiscovery,
        OutputBuffers, TLC

VARIABLE part \* the one that runs

vars == <<part, configVars, historyVars, inventoryVars, discoveryVars,
          bufferVars>>

\* The others begin in one state: what they may begin with does not matter.
Commands == {"config", "history", "inventory", "discovery", "buffers"}
Init ==
    /\ part \in Commands
    /\ ConfigInit /\ HistoryInit /\ InventoryInit /\ DiscoveryInit
    /\ BufferInit
    /\ part # "inventory" => honest
    /\ part # "discovery" =>
          /\ cli = [command |-> "missing", odd |-> Sound]
          /\ goal = "features" /\ ~options.experimental

Next ==
    \/ /\ part = "config" /\ ConfigNext
       /\ UNCHANGED <<part, historyVars, inventoryVars, discoveryVars,
                      bufferVars>>
    \/ /\ part = "history" /\ HistoryNext
       /\ UNCHANGED <<part, configVars, inventoryVars, discoveryVars,
                      bufferVars>>
    \/ /\ part = "inventory" /\ InventoryNext
       /\ UNCHANGED <<part, configVars, historyVars, discoveryVars,
                      bufferVars>>
    \/ /\ part = "discovery" /\ DiscoveryNext
       /\ UNCHANGED <<part, configVars, historyVars, inventoryVars, bufferVars>>
    \/ /\ part = "buffers" /\ BufferNext
       /\ UNCHANGED <<part, configVars, historyVars, inventoryVars,
                      discoveryVars>>

Spec == Init /\ [][Next]_vars

WriterSymmetry == Permutations(Writers)
=============================================================================
